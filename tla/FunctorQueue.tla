---------------------------- MODULE FunctorQueue ----------------------------
(***************************************************************************)
(* What EventLoop promises to the threads that hand it work (EventLoop.h): *)
(* callbacks given to queueInLoop or runInLoop run in the loop thread, one *)
(* at a time, each exactly once, in the order in which they were queued,   *)
(* until the loop stops.  quit() stops it; what is then still queued stays *)
(* queued for ever.                                                        *)
(***************************************************************************)
EXTENDS Sequences, Naturals

CONSTANT Functors      \* the callbacks that may be queued, each at most once

VARIABLES queue,       \* callbacks queued and not yet begun, oldest first
          ran,         \* callbacks begun, in order
          quitting,    \* quit() reached the running loop
          stopped      \* loop() has returned

vars == <<queue, ran, quitting, stopped>>

Entries(s) == {s[i] : i \in 1..Len(s)}

Init ==
    /\ queue = <<>>
    /\ ran = <<>>
    /\ quitting = FALSE
    /\ stopped = FALSE

(* queueInLoop or runInLoop; accepted even when the loop has stopped.      *)
Post(f) ==
    /\ f \notin Entries(ran) \cup Entries(queue)
    /\ queue' = Append(queue, f)
    /\ UNCHANGED <<ran, quitting, stopped>>

RunHead ==
    /\ ~stopped
    /\ queue # <<>>
    /\ ran' = Append(ran, Head(queue))
    /\ queue' = Tail(queue)
    /\ UNCHANGED <<quitting, stopped>>

Quit ==
    /\ quitting' = TRUE
    /\ UNCHANGED <<queue, ran, stopped>>

Stop ==
    /\ quitting
    /\ stopped' = TRUE
    /\ UNCHANGED <<queue, ran, quitting>>

Next ==
    \/ \E f \in Functors : Post(f)
    \/ RunHead
    \/ Quit
    \/ Stop

Spec == Init /\ [][Next]_vars

(* A loop that is not asked to quit works its queue off; one that is stops.*)
FairSpec == Spec /\ WF_vars(RunHead) /\ WF_vars(Stop)
=============================================================================
