--------------------------- MODULE EventLoopProofs ---------------------------
(***************************************************************************)
(* Proofs about EventLoop for any set of threads, functors and channels:   *)
(* no wakeup is lost, functors are run in order and exactly once, and the  *)
(* loop implements FunctorQueue (safety part).  EventLoopThread uses the   *)
(* loop as EventLoop allows, so that all of it holds there too, and the    *)
(* loop it hands out lives until the destructor.                           *)
(***************************************************************************)
EXTENDS EventLoopThread, SequenceTheorems, TLAPS

-----------------------------------------------------------------------------
(* The inductive invariant.                                                *)

(* The loop thread runs callbacks only in these phases, and is about to    *)
(* write the eventfd only inside a functor.                                *)
CallbackPhase == cb # None => pc \in {"handle", "run"}
SelfWakeupPhase == tpc[LoopThread] = "wakeup" => pc = "run" /\ cb # None

(* callingPendingFunctors_ covers doPendingFunctors() and nothing else.    *)
CallingPhase == callingPendingFunctors_ <=> pc \in {"swap", "run"}

(* The local vector is empty outside doPendingFunctors().                  *)
BatchPhase == pc # "run" => functors = <<>>

(* Between one swap and the next poll, whatever is pending is announced.   *)
PendingAnnounced ==
    pc \in {"start", "check", "poll", "run"} /\ pendingFunctors_ # <<>> =>
        wakeupFd_ \/ \E t \in AllThreads : tpc[t] = "wakeup"

(* A quit_ that is set while the loop polls is announced.                  *)
QuitAnnounced ==
    pc = "poll" /\ quit_ => wakeupFd_ \/ \E t \in AllThreads : tpc[t] = "wakeup"

WakeupInv ==
    /\ TypeOK
    /\ CallbackPhase
    /\ SelfWakeupPhase
    /\ CallingPhase
    /\ BatchPhase
    /\ PendingAnnounced
    /\ QuitAnnounced
-----------------------------------------------------------------------------
(* Every reachable state of EventLoop is well typed.                       *)
THEOREM TypeCorrect == Spec => []TypeOK
<1>1. Init => TypeOK
  BY EmptySeq DEF Init, TypeOK
<1>2. TypeOK /\ [Next]_vars => TypeOK'
  <2> SUFFICES ASSUME TypeOK, [Next]_vars
               PROVE  TypeOK'
    OBVIOUS
  <2> USE DEF TypeOK
  <2>1. ASSUME NEW t \in AllThreads, NEW f \in Functors, QueueInLoop(t, f)
        PROVE  TypeOK'
    BY <2>1 DEF QueueInLoop
  <2>2. ASSUME NEW t \in AllThreads, Quit(t)
        PROVE  TypeOK'
    BY <2>2 DEF Quit
  <2>3. ASSUME NEW t \in AllThreads, Wakeup(t)
        PROVE  TypeOK'
    BY <2>3 DEF Wakeup
  <2>4. ASSUME NEW c \in IoChannels, IoEvent(c)
        PROVE  TypeOK'
    BY <2>4 DEF IoEvent
  <2>5. CASE LoopStart
    BY <2>5 DEF LoopStart
  <2>6. CASE LoopCheck
    BY <2>6 DEF LoopCheck
  <2>7. CASE Poll
    BY <2>7 DEF Poll, ReadyChannels
  <2>8. ASSUME NEW c \in IoChannels \cup {WakeupChannel}, HandleEvent(c)
        PROVE  TypeOK'
    BY <2>8 DEF HandleEvent, Callbacks
  <2>9. CASE CallbackReturn
    BY <2>9 DEF CallbackReturn
  <2>10. CASE EnterPendingFunctors
    BY <2>10 DEF EnterPendingFunctors
  <2>11. CASE SwapPendingFunctors
    BY <2>11 DEF SwapPendingFunctors
  <2>12. CASE RunFunctor
    <3>1. Head(functors) \in Functors /\ Tail(functors) \in Seq(Functors)
      BY <2>12 DEF RunFunctor
    <3> QED
      BY <2>12, <3>1 DEF RunFunctor, Callbacks
  <2>13. CASE LeavePendingFunctors
    BY <2>13 DEF LeavePendingFunctors
  <2>14. CASE PollTimeout
    BY <2>14 DEF PollTimeout
  <2>15. CASE UNCHANGED vars
    BY <2>15 DEF vars
  <2> QED
    BY <2>1, <2>2, <2>3, <2>4, <2>5, <2>6, <2>7, <2>8, <2>9, <2>10, <2>11, <2>12,
       <2>13, <2>14, <2>15 DEF Next, LoopStep
<1> QED
  BY <1>1, <1>2, PTL DEF Spec
-----------------------------------------------------------------------------
(* The invariant above holds in every reachable state.  What another       *)
(* thread is about to announce survives any step but its own wakeup(), and *)
(* that sets the eventfd.                                                  *)
THEOREM WakeupInvariant == Spec => []WakeupInv
<1>1. Init => WakeupInv
  <2> SUFFICES ASSUME Init PROVE WakeupInv
    OBVIOUS
  <2>1. TypeOK
    BY EmptySeq DEF Init, TypeOK
  <2> QED
    BY <2>1 DEF Init, WakeupInv, CallbackPhase, SelfWakeupPhase, CallingPhase, BatchPhase,
            PendingAnnounced, QuitAnnounced, AllThreads
<1>2. WakeupInv /\ TypeOK' /\ [Next]_vars => WakeupInv'
  <2> SUFFICES ASSUME WakeupInv, TypeOK', [Next]_vars
               PROVE  WakeupInv'
    OBVIOUS
  <2> USE LoopThreadAssumption, CallbackAssumption
      DEF WakeupInv, TypeOK, CallbackPhase, SelfWakeupPhase, CallingPhase, BatchPhase,
          PendingAnnounced, QuitAnnounced, AllThreads
  <2>1. ASSUME NEW t \in AllThreads, NEW f \in Functors, QueueInLoop(t, f)
        PROVE  WakeupInv'
    <3>1. CASE t # LoopThread
      BY <2>1, <3>1 DEF QueueInLoop
    <3>2. CASE t = LoopThread
      BY <2>1, <3>2 DEF QueueInLoop, CanCall, InUserCallback
    <3> QED
      BY <3>1, <3>2
  <2>2. ASSUME NEW t \in AllThreads, Quit(t)
        PROVE  WakeupInv'
    <3>1. CASE t # LoopThread
      BY <2>2, <3>1 DEF Quit
    <3>2. CASE t = LoopThread
      BY <2>2, <3>2 DEF Quit, CanCall, InUserCallback
    <3> QED
      BY <3>1, <3>2
  <2>3. ASSUME NEW t \in AllThreads, Wakeup(t)
        PROVE  WakeupInv'
    BY <2>3 DEF Wakeup
  <2>4. ASSUME NEW c \in IoChannels, IoEvent(c)
        PROVE  WakeupInv'
    BY <2>4 DEF IoEvent
  <2>5. CASE LoopStart
    BY <2>5 DEF LoopStart
  <2>6. CASE LoopCheck
    BY <2>6 DEF LoopCheck
  <2>7. CASE Poll
    BY <2>7 DEF Poll
  <2>8. ASSUME NEW c \in IoChannels \cup {WakeupChannel}, HandleEvent(c)
        PROVE  WakeupInv'
    BY <2>8 DEF HandleEvent
  <2>9. CASE CallbackReturn
    BY <2>9 DEF CallbackReturn
  <2>10. CASE EnterPendingFunctors
    BY <2>10 DEF EnterPendingFunctors
  <2>11. CASE SwapPendingFunctors
    BY <2>11 DEF SwapPendingFunctors
  <2>12. CASE RunFunctor
    BY <2>12 DEF RunFunctor
  <2>13. CASE LeavePendingFunctors
    BY <2>13 DEF LeavePendingFunctors
  <2>14. CASE PollTimeout
    BY <2>14 DEF PollTimeout
  <2>15. CASE UNCHANGED vars
    BY <2>15 DEF vars
  <2> QED
    BY <2>1, <2>2, <2>3, <2>4, <2>5, <2>6, <2>7, <2>8, <2>9, <2>10, <2>11, <2>12,
       <2>13, <2>14, <2>15 DEF Next, LoopStep
<1> QED
  BY <1>1, <1>2, TypeCorrect, PTL DEF Spec

(* The loop thread never sleeps on published work: Spec => []NoLostWakeup, *)
(* for any number of threads, functors and channels.                       *)
THEOREM WakeupNeverLost == Spec => []NoLostWakeup
<1>1. WakeupInv => NoLostWakeup
  BY DEF WakeupInv, NoLostWakeup, WakeupComing, PendingAnnounced, QuitAnnounced,
         SelfWakeupPhase, AllThreads
<1> QED
  BY <1>1, WakeupInvariant, PTL
-----------------------------------------------------------------------------
(* Sequences: the facts about \o, Append, Head and Tail the queue needs.   *)

(* Moving the first element of t to the end of s changes nothing.          *)
LEMMA MoveHead ==
    ASSUME NEW S, NEW s \in Seq(S), NEW t \in Seq(S), t # <<>>
    PROVE  Append(s, Head(t)) \o Tail(t) = s \o t
<1>1. /\ Head(t) \in S
      /\ Tail(t) \in Seq(S)
      /\ Len(Tail(t)) = Len(t) - 1
      /\ \A i \in 1..Len(Tail(t)) : Tail(t)[i] = t[i + 1]
      /\ Head(t) = t[1]
      /\ Len(t) \in Nat \ {0}
  BY HeadTailProperties, EmptySeq
<1> DEFINE u == Append(s, Head(t))
<1>2. /\ u \in Seq(S)
      /\ Len(u) = Len(s) + 1
      /\ \A i \in 1..Len(s) : u[i] = s[i]
      /\ u[Len(s) + 1] = t[1]
  BY <1>1
<1> HIDE DEF u
<1>3. u \o Tail(t) \in Seq(S) /\ s \o t \in Seq(S)
  BY <1>1, <1>2, ConcatProperties
<1>4. Len(u \o Tail(t)) = Len(s \o t)
  BY <1>1, <1>2
<1>5. \A i \in 1..Len(u \o Tail(t)) : (u \o Tail(t))[i] = (s \o t)[i]
  BY <1>1, <1>2, <1>4
<1>6. u \o Tail(t) = s \o t
  BY <1>3, <1>4, <1>5, SeqEqual
<1> QED
  BY <1>6 DEF u

(* The head and the tail of a concatenation are those of its first part.   *)
LEMMA HeadTailConcat ==
    ASSUME NEW S, NEW s \in Seq(S), NEW t \in Seq(S), s # <<>>
    PROVE  /\ s \o t # <<>>
           /\ Head(s \o t) = Head(s)
           /\ Tail(s \o t) = Tail(s) \o t
<1>1. /\ s \o t \in Seq(S)
      /\ Len(s) \in Nat \ {0}
      /\ Len(t) \in Nat
      /\ Len(s \o t) = Len(s) + Len(t)
      /\ s \o t # <<>>
  BY EmptySeq, ConcatProperties
<1>2. Head(s \o t) = Head(s)
  BY <1>1
<1>3. /\ Tail(s) \in Seq(S)
      /\ Len(Tail(s)) = Len(s) - 1
      /\ \A i \in 1..Len(Tail(s)) : Tail(s)[i] = s[i + 1]
  BY HeadTailProperties
<1>4. /\ Tail(s \o t) \in Seq(S)
      /\ Len(Tail(s \o t)) = Len(s) + Len(t) - 1
      /\ \A i \in 1..Len(Tail(s \o t)) : Tail(s \o t)[i] = (s \o t)[i + 1]
  BY <1>1, HeadTailProperties
<1>5. /\ Tail(s) \o t \in Seq(S)
      /\ Len(Tail(s) \o t) = Len(s) + Len(t) - 1
  BY <1>1, <1>3
<1>6. \A i \in 1..Len(Tail(s \o t)) : Tail(s \o t)[i] = (Tail(s) \o t)[i]
  BY <1>1, <1>3, <1>4, <1>5
<1>7. Tail(s \o t) = Tail(s) \o t
  BY <1>4, <1>5, <1>6, SeqEqual
<1> QED
  BY <1>1, <1>2, <1>7

(* What a concatenation contains.                                          *)
LEMMA EntriesConcat ==
    ASSUME NEW S, NEW s \in Seq(S), NEW t \in Seq(S)
    PROVE  Entries(s \o t) = Entries(s) \cup Entries(t)
<1>1. /\ Len(s) \in Nat /\ Len(t) \in Nat
      /\ Len(s \o t) = Len(s) + Len(t)
      /\ \A i \in 1..(Len(s) + Len(t)) :
            (s \o t)[i] = IF i <= Len(s) THEN s[i] ELSE t[i - Len(s)]
  BY ConcatProperties
<1>2. ASSUME NEW i \in 1..Len(s)
      PROVE  s[i] \in Entries(s \o t)
  BY <1>1, <1>2 DEF Entries
<1>3. ASSUME NEW i \in 1..Len(t)
      PROVE  t[i] \in Entries(s \o t)
  <2>1. i + Len(s) \in 1..Len(s \o t) /\ (s \o t)[i + Len(s)] = t[i]
    BY <1>1, <1>3
  <2> QED
    BY <2>1 DEF Entries
<1>4. ASSUME NEW i \in 1..Len(s \o t)
      PROVE  (s \o t)[i] \in Entries(s) \cup Entries(t)
  <2>1. CASE i <= Len(s)
    BY <1>1, <1>4, <2>1 DEF Entries
  <2>2. CASE ~(i <= Len(s))
    <3>1. i - Len(s) \in 1..Len(t) /\ (s \o t)[i] = t[i - Len(s)]
      BY <1>1, <1>4, <2>2
    <3> QED
      BY <3>1 DEF Entries
  <2> QED
    BY <2>1, <2>2
<1> QED
  BY <1>2, <1>3, <1>4 DEF Entries
-----------------------------------------------------------------------------
(* Order and exactly-once execution: the functors run, those of the batch  *)
(* and those pending are always the ones queued, in their order.           *)
THEOREM OrderPreserved == Spec => []FunctorsInOrder
<1>1. Init => FunctorsInOrder
  <2> SUFFICES ASSUME Init PROVE FunctorsInOrder
    OBVIOUS
  <2> QED
    BY ConcatEmptySeq, EmptySeq DEF Init, FunctorsInOrder
<1>2. FunctorsInOrder /\ WakeupInv /\ [Next]_vars => FunctorsInOrder'
  <2> SUFFICES ASSUME FunctorsInOrder, WakeupInv, [Next]_vars
               PROVE  FunctorsInOrder'
    OBVIOUS
  <2>0. /\ ran \in Seq(Functors)
        /\ functors \in Seq(Functors)
        /\ pendingFunctors_ \in Seq(Functors)
        /\ pc # "run" => functors = <<>>
    BY DEF WakeupInv, TypeOK, BatchPhase
  <2>1. ASSUME NEW t \in AllThreads, NEW f \in Functors, QueueInLoop(t, f)
        PROVE  FunctorsInOrder'
    <3> DEFINE begun == ran \o functors
               last == <<f>>
    <3>1. /\ begun \in Seq(Functors)
          /\ begun \o pendingFunctors_ \in Seq(Functors)
          /\ last \in Seq(Functors)
      BY <2>0, <2>1, ConcatProperties
    <3>2. Append(begun \o pendingFunctors_, f) = (begun \o pendingFunctors_) \o last
      BY <2>1, <3>1, AppendIsConcat
    <3>3. Append(pendingFunctors_, f) = pendingFunctors_ \o last
      BY <2>0, <2>1, AppendIsConcat
    <3> HIDE DEF begun, last
    <3>4. (begun \o pendingFunctors_) \o last = begun \o (pendingFunctors_ \o last)
      BY <2>0, <3>1, ConcatAssociative
    <3> QED
      BY <2>1, <3>2, <3>3, <3>4 DEF QueueInLoop, FunctorsInOrder, begun
  <2>2. CASE SwapPendingFunctors
    <3>1. functors = <<>> /\ functors' = pendingFunctors_ /\ pendingFunctors_' = <<>>
      BY <2>0, <2>2 DEF SwapPendingFunctors
    <3>2. ran \o <<>> \o pendingFunctors_ = ran \o pendingFunctors_
      BY <2>0, ConcatEmptySeq
    <3>3. ran \o pendingFunctors_ \o <<>> = ran \o pendingFunctors_
      BY <2>0, ConcatEmptySeq, ConcatProperties
    <3> QED
      BY <2>2, <3>1, <3>2, <3>3 DEF SwapPendingFunctors, FunctorsInOrder
  <2>3. CASE RunFunctor
    <3>1. Append(ran, Head(functors)) \o Tail(functors) = ran \o functors
      BY <2>0, <2>3, MoveHead DEF RunFunctor
    <3> QED
      BY <2>3, <3>1 DEF RunFunctor, FunctorsInOrder
  <2>4. CASE UNCHANGED <<posted, ran, functors, pendingFunctors_>>
    BY <2>4 DEF FunctorsInOrder
  <2> QED
    BY <2>1, <2>2, <2>3, <2>4
       DEF Next, LoopStep, vars, Quit, Wakeup, IoEvent, LoopStart, LoopCheck, Poll,
           PollTimeout, HandleEvent, CallbackReturn, EnterPendingFunctors,
           LeavePendingFunctors
<1> QED
  BY <1>1, <1>2, WakeupInvariant, PTL DEF Spec
-----------------------------------------------------------------------------
(* EventLoop implements FunctorQueue: callers that only rely on the queue  *)
(* of callbacks need not know of the eventfd, the swap or the batch.       *)
THEOREM Refinement == Spec => Promise!Spec
<1> DEFINE q == functors \o pendingFunctors_
<1>1. Init => Promise!Init
  BY ConcatEmptySeq, EmptySeq DEF Init, Promise!Init
<1>2. FunctorsInOrder /\ WakeupInv /\ [Next]_vars => [Promise!Next]_Promise!vars
  <2> SUFFICES ASSUME FunctorsInOrder, WakeupInv, [Next]_vars
               PROVE  [Promise!Next]_Promise!vars
    OBVIOUS
  <2>0. /\ ran \in Seq(Functors)
        /\ functors \in Seq(Functors)
        /\ pendingFunctors_ \in Seq(Functors)
        /\ pc # "run" => functors = <<>>
        /\ quit_ \in BOOLEAN
    BY DEF WakeupInv, TypeOK, BatchPhase
  <2> USE DEF Promise!vars
  <2>1. ASSUME NEW t \in AllThreads, NEW f \in Functors, QueueInLoop(t, f)
        PROVE  Promise!Post(f)
    <3>1. q' = Append(q, f)
      BY <2>0, <2>1 DEF QueueInLoop
    <3>2. Entries(posted) = Entries(ran) \cup Entries(q)
      <4>1. posted = ran \o q
        BY <2>0, ConcatAssociative DEF FunctorsInOrder
      <4>2. q \in Seq(Functors)
        BY <2>0, ConcatProperties
      <4> HIDE DEF q
      <4> QED
        BY <2>0, <4>1, <4>2, EntriesConcat
    <3>3. f \notin Entries(ran) \cup Entries(q)
      BY <2>1, <3>2 DEF QueueInLoop
    <3> QED
      BY <2>1, <3>1, <3>3 DEF QueueInLoop, Promise!Post, Promise!Entries, Entries
  <2>2. ASSUME NEW t \in AllThreads, Quit(t)
        PROVE  Promise!Quit \/ UNCHANGED Promise!vars
    BY <2>0, <2>2 DEF Quit, Promise!Quit
  <2>3. CASE LoopStart
    BY <2>0, <2>3 DEF LoopStart
  <2>4. CASE LoopCheck
    <3>1. CASE quit_
      <4>1. /\ quit_ /\ quit_' /\ pc = "check" /\ pc' = "done"
            /\ UNCHANGED <<ran, functors, pendingFunctors_>>
        BY <2>4, <3>1 DEF LoopCheck
      <4>2. Promise!Stop
        BY <4>1 DEF Promise!Stop
      <4> QED
        BY <4>2 DEF Promise!Next
    <3>2. CASE ~quit_
      BY <2>4, <3>2 DEF LoopCheck
    <3> QED
      BY <3>1, <3>2
  <2>5. CASE SwapPendingFunctors
    <3>1. q' = q
      <4>1. functors = <<>> /\ functors' = pendingFunctors_ /\ pendingFunctors_' = <<>>
        BY <2>0, <2>5 DEF SwapPendingFunctors
      <4> QED
        BY <2>0, <4>1, ConcatEmptySeq
    <3> QED
      BY <2>5, <3>1 DEF SwapPendingFunctors
  <2>6. CASE RunFunctor
    <3>1. /\ q # <<>>
          /\ Head(q) = Head(functors)
          /\ Tail(q) = Tail(functors) \o pendingFunctors_
      BY <2>0, <2>6, HeadTailConcat DEF RunFunctor
    <3>2. q' = Tail(q)
      BY <2>6, <3>1 DEF RunFunctor
    <3>3. ran' = Append(ran, Head(q)) /\ pc = "run" /\ UNCHANGED <<quit_, pc>>
      BY <2>6, <3>1 DEF RunFunctor
    <3>4. Promise!RunHead
      BY <3>1, <3>2, <3>3 DEF Promise!RunHead
    <3> QED
      BY <3>4 DEF Promise!Next
  <2>7. CASE UNCHANGED <<ran, functors, pendingFunctors_, quit_>>
             /\ (pc = "start" <=> pc' = "start") /\ (pc = "done" <=> pc' = "done")
    BY <2>7
  <2> QED
    BY <2>1, <2>2, <2>3, <2>4, <2>5, <2>6, <2>7
       DEF Next, LoopStep, vars, Wakeup, IoEvent, Poll, PollTimeout, HandleEvent,
           CallbackReturn, EnterPendingFunctors, LeavePendingFunctors, Promise!Next
<1> QED
  BY <1>1, <1>2, WakeupInvariant, OrderPreserved, PTL DEF Spec, Promise!Spec
-----------------------------------------------------------------------------
(* EventLoopThread.                                                        *)

(* Whatever the owner and threadFunc do to the loop, it is a step of the   *)
(* loop or leaves it alone.                                                *)
LEMMA ThreadStepsLoop == [ThreadNext]_allVars => [Next]_vars
  <1> SUFFICES ASSUME [ThreadNext]_allVars PROVE [Next]_vars
    OBVIOUS
  <1>1. Owner \in AllThreads /\ LoopThread \in AllThreads
    BY OwnerAssumption DEF AllThreads
  <1>2. CASE LoopThreadStep \/ LoopThreadQueues \/ LoopThreadPollTimeout \/ LoopThreadIoEvent
               \/ OwnerQueues \/ OwnerWakeup
    BY <1>1, <1>2 DEF LoopThreadStep, LoopThreadQueues, LoopThreadPollTimeout,
           LoopThreadIoEvent, OwnerQueues, OwnerWakeup, Next
  <1>3. CASE Destroy
    BY <1>1, <1>3 DEF Destroy, Next
  <1>4. CASE StartLoop \/ StartLoopTests \/ StartLoopWaits \/ SpuriousWakeup \/ PublishLoop
               \/ ThreadFuncEnds \/ Join \/ Over \/ UNCHANGED allVars
    BY <1>4 DEF StartLoop, StartLoopTests, StartLoopWaits, SpuriousWakeup, PublishLoop,
           ThreadFuncEnds, Join, Over, allVars
  <1> QED
    BY <1>2, <1>3, <1>4 DEF ThreadNext

(* The loop inside an EventLoopThread is an EventLoop: no wakeup is lost   *)
(* and no functor lost, repeated or overtaken there either.                *)
THEOREM ThreadUsesLoop == ThreadSpec => Spec /\ []NoLostWakeup /\ []FunctorsInOrder
  <1>1. ThreadSpec => Spec
    BY ThreadStepsLoop, PTL DEF ThreadSpec, ThreadInit, Spec
  <1> QED
    BY <1>1, WakeupNeverLost, OrderPreserved, PTL

(* Before the destructor runs nobody has asked the loop to quit.           *)
NotYetQuit ==
    opc \in {"new", "entering", "empty", "asleep", "started"} => quit_ = FALSE /\ pc # "done"

(* loop_ is set only while threadFunc is inside loop().                    *)
PublishedLoops ==
    /\ opc = "new" => loop_ = FALSE /\ tfpc = "unborn"
    /\ loop_ => tfpc = "looping"
    /\ opc = "started" => loop_

ThreadInv == NotYetQuit /\ PublishedLoops /\ opc # "terminated"

LEMMA ThreadInvStep == ThreadInv /\ [ThreadNext]_allVars => ThreadInv'
  <1> SUFFICES ASSUME ThreadInv, [ThreadNext]_allVars PROVE ThreadInv'
    OBVIOUS
  <1> USE DEF ThreadInv, NotYetQuit, PublishedLoops
  <1>1. CASE StartLoop \/ StartLoopTests \/ StartLoopWaits \/ SpuriousWakeup \/ PublishLoop
    BY <1>1 DEF StartLoop, StartLoopTests, StartLoopWaits, SpuriousWakeup, PublishLoop, vars
  <1>2. CASE LoopThreadStep
    <2>1. UNCHANGED <<loop_, tfpc, opc>>
      BY <1>2 DEF LoopThreadStep, threadVars
    <2>2. CASE LoopStart \/ LoopCheck
      BY <2>1, <2>2 DEF LoopStart, LoopCheck
    <2>3. CASE LoopStep /\ ~LoopStart /\ ~LoopCheck
      <3>1. UNCHANGED quit_ /\ (UNCHANGED pc \/ pc' \in {"handle", "swap", "run", "check"})
        BY <2>3 DEF LoopStep, Poll, HandleEvent, CallbackReturn, EnterPendingFunctors,
              SwapPendingFunctors, RunFunctor, LeavePendingFunctors
      <3> QED
        BY <2>1, <3>1
    <2>4. CASE Wakeup(LoopThread)
      BY <2>1, <2>4 DEF Wakeup
    <2> QED
      BY <1>2, <2>2, <2>3, <2>4 DEF LoopThreadStep
  <1>3. CASE LoopThreadQueues \/ LoopThreadPollTimeout \/ LoopThreadIoEvent \/ OwnerQueues
               \/ OwnerWakeup
    BY <1>3 DEF LoopThreadQueues, LoopThreadPollTimeout, LoopThreadIoEvent, OwnerQueues,
           OwnerWakeup, QueueInLoop, PollTimeout, IoEvent, Wakeup, threadVars
  <1>4. CASE ThreadFuncEnds
    BY <1>4 DEF ThreadFuncEnds, vars
  <1>5. CASE Destroy
    BY <1>5 DEF Destroy
  <1>6. CASE Join \/ Over \/ UNCHANGED allVars
    BY <1>6 DEF Join, Over, allVars, vars, threadVars
  <1> QED
    BY <1>1, <1>2, <1>3, <1>4, <1>5, <1>6 DEF ThreadNext

(* The loop startLoop returned exists until the destructor begins, and the *)
(* destructor's unguarded read of loop_ (EventLoopThread.cc:14) always     *)
(* finds it set: the thread is never left without a join.                  *)
THEOREM LoopLives == ThreadSpec => [](LoopLivesUntilDestroyed /\ opc # "terminated")
  <1>1. ThreadInit => ThreadInv
    BY DEF ThreadInit, Init, ThreadInv, NotYetQuit, PublishedLoops
  <1>2. ThreadInv => LoopLivesUntilDestroyed /\ opc # "terminated"
    BY DEF ThreadInv, NotYetQuit, PublishedLoops, LoopLivesUntilDestroyed
  <1> QED
    BY <1>1, <1>2, ThreadInvStep, PTL DEF ThreadSpec
=============================================================================
