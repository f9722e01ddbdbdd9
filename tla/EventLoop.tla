------------------------------ MODULE EventLoop ------------------------------
(***************************************************************************)
(* network::EventLoop (network/src/EventLoop.cc): one loop thread that     *)
(* polls, handles active channels and runs queued functors, and any number *)
(* of other threads that call queueInLoop, runInLoop and quit.             *)
(*                                                                         *)
(* The loop thread blocks in epoll_wait and is woken through an eventfd    *)
(* (wakeupFd_).  A caller publishes its work (a functor under the mutex,   *)
(* or quit_) in one step and writes the eventfd in a later one; every      *)
(* interleaving of these steps with the loop's own steps is modelled.      *)
(***************************************************************************)
EXTENDS Sequences, Naturals

CONSTANTS
    Threads,         \* the threads other than the loop thread
    LoopThread,      \* the thread whose id is threadId_
    Functors,        \* callbacks; each one is queued at most once (a bound)
    IoChannels,      \* channels registered with the poller, besides wakeupChannel_
    WakeupChannel,   \* wakeupChannel_
    None             \* no callback is executing

ASSUME LoopThreadAssumption == LoopThread \notin Threads
ASSUME CallbackAssumption ==
    /\ WakeupChannel \notin IoChannels
    /\ None \notin IoChannels \cup Functors \cup {WakeupChannel}
    /\ WakeupChannel \notin Functors
    /\ IoChannels \cap Functors = {}

VARIABLES
    pc,                       \* where the loop thread is in loop()
    quit_,
    wakeupFd_,                \* the eventfd's counter is not zero
    readable,                 \* IoChannels with events epoll_wait would report
    activeChannels_,          \* active channels that are still to be handled
    cb,                       \* the channel or functor whose callback executes
    callingPendingFunctors_,
    pendingFunctors_,         \* shared, guarded by mutex_
    functors,                 \* doPendingFunctors' local vector: what is left of it
    tpc,                      \* per thread: outside, or about to call wakeup()
    posted,                   \* history: functors in the order of their push
    ran                       \* history: functors in the order they began

vars == <<pc, quit_, wakeupFd_, readable, activeChannels_, cb,
          callingPendingFunctors_, pendingFunctors_, functors, tpc, posted, ran>>

AllThreads == Threads \cup {LoopThread}
Callbacks == IoChannels \cup Functors \cup {WakeupChannel}
Entries(s) == {s[i] : i \in 1..Len(s)}

(* The loop thread executes user code: an I/O handler or a functor.        *)
InUserCallback == cb \in IoChannels \cup Functors

(* Thread t may enter a member function of the loop now.                   *)
CanCall(t) ==
    /\ tpc[t] = "outside"
    /\ t = LoopThread => InUserCallback

\* Mutant: the constructor leaves quit_ uninitialised.
InitQuitUnset ==
    /\ pc = "start"
    /\ quit_ = None
    /\ wakeupFd_ = FALSE
    /\ readable = {}
    /\ activeChannels_ = {}
    /\ cb = None
    /\ callingPendingFunctors_ = FALSE
    /\ pendingFunctors_ = <<>>
    /\ functors = <<>>
    /\ tpc = [t \in AllThreads |-> "outside"]
    /\ posted = <<>>
    /\ ran = <<>>

Init ==
    /\ pc = "start"
    /\ quit_ = FALSE
    /\ wakeupFd_ = FALSE
    /\ readable = {}
    /\ activeChannels_ = {}
    /\ cb = None
    /\ callingPendingFunctors_ = FALSE
    /\ pendingFunctors_ = <<>>
    /\ functors = <<>>
    /\ tpc = [t \in AllThreads |-> "outside"]
    /\ posted = <<>>
    /\ ran = <<>>
-----------------------------------------------------------------------------
(* Callers.                                                                *)

\* Mutant: the wakeup for a push made while functors run is dropped.
QueueInLoopNoSelfWakeup(t, f) ==
    /\ CanCall(t)
    /\ f \notin Entries(posted)
    /\ pendingFunctors_' = Append(pendingFunctors_, f)
    /\ posted' = Append(posted, f)
    /\ tpc' = [tpc EXCEPT ![t] = IF t # LoopThread THEN "wakeup" ELSE "outside"]
    /\ UNCHANGED <<pc, quit_, wakeupFd_, readable, activeChannels_, cb,
                   callingPendingFunctors_, functors, ran>>

(* queueInLoop(f), and runInLoop(f) from another thread (in the loop       *)
(* thread runInLoop just calls f).  The push holds mutex_; the wakeup      *)
(* comes later.                                                            *)
QueueInLoop(t, f) ==
    /\ CanCall(t)
    /\ f \notin Entries(posted)
    /\ pendingFunctors_' = Append(pendingFunctors_, f)
    /\ posted' = Append(posted, f)
    /\ tpc' = [tpc EXCEPT ![t] = IF t # LoopThread \/ callingPendingFunctors_
                                 THEN "wakeup" ELSE "outside"]
    /\ UNCHANGED <<pc, quit_, wakeupFd_, readable, activeChannels_, cb,
                   callingPendingFunctors_, functors, ran>>

\* Mutant: quit() leaves the loop in epoll_wait.
QuitNoWakeup(t) ==
    /\ CanCall(t)
    /\ quit_' = TRUE
    /\ UNCHANGED <<pc, wakeupFd_, readable, activeChannels_, cb, tpc,
                   callingPendingFunctors_, pendingFunctors_, functors, posted, ran>>

(* quit(): the flag first, then a wakeup unless the loop thread calls.     *)
Quit(t) ==
    /\ CanCall(t)
    /\ quit_' = TRUE
    /\ tpc' = [tpc EXCEPT ![t] = IF t # LoopThread THEN "wakeup" ELSE "outside"]
    /\ UNCHANGED <<pc, wakeupFd_, readable, activeChannels_, cb,
                   callingPendingFunctors_, pendingFunctors_, functors, posted, ran>>

(* wakeup(): adds one to the eventfd.                                      *)
Wakeup(t) ==
    /\ tpc[t] = "wakeup"
    /\ wakeupFd_' = TRUE
    /\ tpc' = [tpc EXCEPT ![t] = "outside"]
    /\ UNCHANGED <<pc, quit_, readable, activeChannels_, cb,
                   callingPendingFunctors_, pendingFunctors_, functors, posted, ran>>

(* External: the kernel reports an event on an I/O channel.                *)
IoEvent(c) ==
    /\ c \notin readable
    /\ readable' = readable \cup {c}
    /\ UNCHANGED <<pc, quit_, wakeupFd_, activeChannels_, cb, tpc,
                   callingPendingFunctors_, pendingFunctors_, functors, posted, ran>>
-----------------------------------------------------------------------------
(* The loop thread.                                                        *)

(* Entry of loop(): quit_ is reset, whoever set it.                        *)
LoopStart ==
    /\ pc = "start"
    /\ quit_' = FALSE
    /\ pc' = "check"
    /\ UNCHANGED <<wakeupFd_, readable, activeChannels_, cb, tpc,
                   callingPendingFunctors_, pendingFunctors_, functors, posted, ran>>

(* while (!quit_)                                                          *)
LoopCheck ==
    /\ pc = "check"
    /\ pc' = IF quit_ THEN "done" ELSE "poll"
    /\ UNCHANGED <<quit_, wakeupFd_, readable, activeChannels_, cb, tpc,
                   callingPendingFunctors_, pendingFunctors_, functors, posted, ran>>

(* epoll_wait's result: every ready descriptor (the event list starts with *)
(* 16 entries and doubles when it was full).                               *)
ReadyChannels ==
    readable \cup (IF wakeupFd_ THEN {WakeupChannel} ELSE {})

Poll ==
    /\ pc = "poll"
    /\ ReadyChannels # {}
    /\ activeChannels_' = ReadyChannels
    /\ pc' = "handle"
    /\ UNCHANGED <<quit_, wakeupFd_, readable, cb, tpc,
                   callingPendingFunctors_, pendingFunctors_, functors, posted, ran>>

(* epoll_wait returns nothing: kPollTimeMs have passed, or EINTR.          *)
PollTimeout ==
    /\ pc = "poll"
    /\ ReadyChannels = {}
    /\ activeChannels_' = {}
    /\ pc' = "handle"
    /\ UNCHANGED <<quit_, wakeupFd_, readable, cb, tpc,
                   callingPendingFunctors_, pendingFunctors_, functors, posted, ran>>

(* handleEvent of one active channel begins.  handleRead() of the wakeup   *)
(* channel drains the eventfd; an I/O handler consumes its event and may   *)
(* call the loop until it returns.                                         *)
HandleEvent(c) ==
    /\ pc = "handle"
    /\ cb = None
    /\ c \in activeChannels_
    /\ activeChannels_' = activeChannels_ \ {c}
    /\ cb' = c
    /\ readable' = readable \ {c}
    /\ wakeupFd_' = (wakeupFd_ /\ c # WakeupChannel)
    /\ UNCHANGED <<pc, quit_, tpc, callingPendingFunctors_, pendingFunctors_,
                   functors, posted, ran>>

(* The executing handler or functor returns to loop().                     *)
CallbackReturn ==
    /\ cb # None
    /\ tpc[LoopThread] = "outside"
    /\ cb' = None
    /\ UNCHANGED <<pc, quit_, wakeupFd_, readable, activeChannels_, tpc,
                   callingPendingFunctors_, pendingFunctors_, functors, posted, ran>>

(* All active channels are handled: doPendingFunctors() is entered.        *)
EnterPendingFunctors ==
    /\ pc = "handle"
    /\ cb = None
    /\ activeChannels_ = {}
    /\ callingPendingFunctors_' = TRUE
    /\ pc' = "swap"
    /\ UNCHANGED <<quit_, wakeupFd_, readable, activeChannels_, cb, tpc,
                   pendingFunctors_, functors, posted, ran>>

\* Mutant: only the first functor is kept when the vector is taken over.
SwapDropsTail ==
    /\ pc = "swap"
    /\ functors' = IF pendingFunctors_ = <<>> THEN <<>> ELSE <<Head(pendingFunctors_)>>
    /\ pendingFunctors_' = <<>>
    /\ pc' = "run"
    /\ UNCHANGED <<quit_, wakeupFd_, readable, activeChannels_, cb, tpc,
                   callingPendingFunctors_, posted, ran>>

(* functors.swap(pendingFunctors_) under mutex_.                           *)
SwapPendingFunctors ==
    /\ pc = "swap"
    /\ functors' = pendingFunctors_
    /\ pendingFunctors_' = <<>>
    /\ pc' = "run"
    /\ UNCHANGED <<quit_, wakeupFd_, readable, activeChannels_, cb, tpc,
                   callingPendingFunctors_, posted, ran>>

\* Mutant: the batch is worked off from its end.
RunFunctorLast ==
    /\ pc = "run"
    /\ cb = None
    /\ functors # <<>>
    /\ cb' = functors[Len(functors)]
    /\ functors' = SubSeq(functors, 1, Len(functors) - 1)
    /\ ran' = Append(ran, functors[Len(functors)])
    /\ UNCHANGED <<pc, quit_, wakeupFd_, readable, activeChannels_, tpc,
                   callingPendingFunctors_, pendingFunctors_, posted>>

(* The next functor of the local vector begins.                            *)
RunFunctor ==
    /\ pc = "run"
    /\ cb = None
    /\ functors # <<>>
    /\ cb' = Head(functors)
    /\ functors' = Tail(functors)
    /\ ran' = Append(ran, Head(functors))
    /\ UNCHANGED <<pc, quit_, wakeupFd_, readable, activeChannels_, tpc,
                   callingPendingFunctors_, pendingFunctors_, posted>>

(* doPendingFunctors() returns.                                            *)
LeavePendingFunctors ==
    /\ pc = "run"
    /\ cb = None
    /\ functors = <<>>
    /\ callingPendingFunctors_' = FALSE
    /\ pc' = "check"
    /\ UNCHANGED <<quit_, wakeupFd_, readable, activeChannels_, cb, tpc,
                   pendingFunctors_, functors, posted, ran>>
-----------------------------------------------------------------------------
LoopStep ==
    \/ LoopStart
    \/ LoopCheck
    \/ Poll
    \/ \E c \in IoChannels \cup {WakeupChannel} : HandleEvent(c)
    \/ CallbackReturn
    \/ EnterPendingFunctors
    \/ SwapPendingFunctors
    \/ RunFunctor
    \/ LeavePendingFunctors

Next ==
    \/ \E t \in AllThreads : \E f \in Functors : QueueInLoop(t, f)
    \/ \E t \in AllThreads : Quit(t)
    \/ \E t \in AllThreads : Wakeup(t)
    \/ \E c \in IoChannels : IoEvent(c)
    \/ LoopStep
    \/ PollTimeout

Spec == Init /\ [][Next]_vars

(* The loop thread keeps running and a thread inside queueInLoop or quit   *)
(* finishes the call.  No fairness for PollTimeout: what must happen has   *)
(* to happen because of a wakeup and not because ten seconds have passed.  *)
FairSpec ==
    /\ Spec
    /\ WF_vars(LoopStep)
    /\ \A t \in AllThreads : WF_vars(Wakeup(t))
-----------------------------------------------------------------------------
(* Properties.                                                             *)

(* Type correctness.                                                       *)
TypeOK ==
    /\ pc \in {"start", "check", "poll", "handle", "swap", "run", "done"}
    /\ quit_ \in BOOLEAN
    /\ wakeupFd_ \in BOOLEAN
    /\ readable \subseteq IoChannels
    /\ activeChannels_ \subseteq IoChannels \cup {WakeupChannel}
    /\ cb \in Callbacks \cup {None}
    /\ callingPendingFunctors_ \in BOOLEAN
    /\ pendingFunctors_ \in Seq(Functors)
    /\ functors \in Seq(Functors)
    /\ tpc \in [AllThreads -> {"outside", "wakeup"}]
    /\ posted \in Seq(Functors)
    /\ ran \in Seq(Functors)

(* A thread has published its work and is about to write the eventfd.      *)
WakeupComing == \E t \in Threads : tpc[t] = "wakeup"

(* The loop thread is never left in epoll_wait with work waiting for it:   *)
(* while it polls, queued functors and a quit_ that was set are announced  *)
(* by the eventfd or by a thread that is about to write it.                *)
NoLostWakeup ==
    pc = "poll" /\ (pendingFunctors_ # <<>> \/ quit_) => wakeupFd_ \/ WakeupComing

(* No functor is lost, duplicated or overtaken: those run, those taken     *)
(* over by doPendingFunctors and those pending are, in this order, the     *)
(* functors in the order of their push.                                    *)
FunctorsInOrder == posted = ran \o functors \o pendingFunctors_

(* Every functor handed to the loop is run, unless loop() returns.         *)
FunctorsRun ==
    \A f \in Functors :
        f \in Entries(posted) ~> (f \in Entries(ran) \/ pc = "done")

(* quit() on a running loop makes loop() return.                           *)
QuitStopsLoop == (quit_ /\ pc # "start") ~> pc = "done"

(* The loop implements what its callers rely on.  A functor is still       *)
(* queued for them when doPendingFunctors has taken it over; a quit that   *)
(* comes before loop() has no effect.                                      *)
Promise == INSTANCE FunctorQueue WITH
    queue <- functors \o pendingFunctors_,
    quitting <- quit_ /\ pc # "start",
    stopped <- pc = "done"

(* EventLoop implements FunctorQueue, liveness included.                   *)
ImplementsFunctorQueue == Promise!FairSpec
=============================================================================
