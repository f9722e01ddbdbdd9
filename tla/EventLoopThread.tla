--------------------------- MODULE EventLoopThread ---------------------------
(***************************************************************************)
(* network::EventLoopThread (network/src/EventLoopThread.cc): an owner     *)
(* starts a thread that runs an EventLoop, waits until the loop exists,    *)
(* gives it work, and finally destroys the EventLoopThread, which quits    *)
(* the loop and joins the thread.  The loop itself is EventLoop.tla; here  *)
(* the owner is the only thread that calls quit().                         *)
(***************************************************************************)
EXTENDS EventLoop

CONSTANT Owner    \* the thread that constructs and destroys the EventLoopThread

ASSUME OwnerAssumption == Owner \in Threads

VARIABLES
    loop_,        \* the shared pointer is set, guarded by mutex_
    tfpc,         \* threadFunc: not started, has its EventLoop, in loop(), ended
    opc           \* the owner: outside, in startLoop and its wait, in the destructor

threadVars == <<loop_, tfpc, opc>>
allVars == <<vars, threadVars>>

ThreadInit ==
    /\ Init
    /\ loop_ = FALSE
    /\ tfpc = "unborn"
    /\ opc = "new"

(* startLoop: the thread is created ...                                    *)
StartLoop ==
    /\ opc = "new"
    /\ opc' = "entering"
    /\ tfpc' = "born"
    /\ UNCHANGED <<vars, loop_>>

\* Mutant: startLoop does not wait for the loop to be published.
StartLoopTestsNothing ==
    /\ opc = "entering"
    /\ opc' = "started"
    /\ UNCHANGED <<vars, loop_, tfpc>>

(* ... mutex_ is taken and loop_ tested: startLoop returns, or goes on to  *)
(* wait with the mutex in its hands ...                                    *)
StartLoopTests ==
    /\ opc = "entering"
    /\ opc' = IF loop_ THEN "started" ELSE "empty"
    /\ UNCHANGED <<vars, loop_, tfpc>>

OwnerHoldsMutex == opc = "empty"

(* ... cv_.wait joins the waiters and lets go of the mutex, both at once.  *)
StartLoopWaits ==
    /\ opc = "empty"
    /\ opc' = "asleep"
    /\ UNCHANGED <<vars, loop_, tfpc>>

(* A waiter may wake up without a notification; the while tests again.     *)
SpuriousWakeup ==
    /\ opc = "asleep"
    /\ opc' = "entering"
    /\ UNCHANGED <<vars, loop_, tfpc>>

\* Mutant: loop_ is set and notified without the mutex.
PublishLoopUnlocked ==
    /\ tfpc = "born"
    /\ loop_' = TRUE
    /\ opc' = IF opc = "asleep" THEN "entering" ELSE opc
    /\ tfpc' = "looping"
    /\ UNCHANGED vars

(* threadFunc has constructed the loop; it publishes it under the mutex    *)
(* and notifies: whoever is in cv_.wait now is woken up, nobody else.      *)
PublishLoop ==
    /\ tfpc = "born"
    /\ ~OwnerHoldsMutex
    /\ loop_' = TRUE
    /\ opc' = IF opc = "asleep" THEN "entering" ELSE opc
    /\ tfpc' = "looping"
    /\ UNCHANGED vars

(* threadFunc is inside loop.loop().                                       *)
LoopThreadStep ==
    /\ tfpc = "looping"
    /\ \/ LoopStep
       \/ Wakeup(LoopThread)
    /\ UNCHANGED threadVars

LoopThreadQueues ==
    /\ tfpc = "looping"
    /\ \E f \in Functors : QueueInLoop(LoopThread, f)
    /\ UNCHANGED threadVars

LoopThreadPollTimeout ==
    /\ tfpc = "looping"
    /\ PollTimeout
    /\ UNCHANGED threadVars

LoopThreadIoEvent ==
    /\ tfpc = "looping"
    /\ \E c \in IoChannels : IoEvent(c)
    /\ UNCHANGED threadVars

(* loop() has returned: loop_ is cleared, the EventLoop goes out of scope. *)
ThreadFuncEnds ==
    /\ tfpc = "looping"
    /\ pc = "done"
    /\ ~OwnerHoldsMutex
    /\ loop_' = FALSE
    /\ tfpc' = "ended"
    /\ UNCHANGED <<vars, opc>>

(* The owner uses the loop it got from startLoop.                          *)
OwnerQueues ==
    /\ opc = "started"
    /\ \E f \in Functors : QueueInLoop(Owner, f)
    /\ UNCHANGED threadVars

OwnerWakeup ==
    /\ Wakeup(Owner)
    /\ UNCHANGED threadVars

(* ~EventLoopThread: loop_ is read without the mutex; if it is set, the    *)
(* destructor calls quit() and joins, otherwise it destroys a thread that  *)
(* was never joined.                                                       *)
Destroy ==
    /\ opc = "started"
    /\ tpc[Owner] = "outside"
    /\ IF loop_
       THEN Quit(Owner) /\ opc' = "joining"
       ELSE UNCHANGED vars /\ opc' = "terminated"
    /\ UNCHANGED <<loop_, tfpc>>

Join ==
    /\ opc = "joining"
    /\ tpc[Owner] = "outside"
    /\ tfpc = "ended"
    /\ opc' = "joined"
    /\ UNCHANGED <<vars, loop_, tfpc>>

(* Nothing is left to do.                                                  *)
Over ==
    /\ opc \in {"joined", "terminated"}
    /\ UNCHANGED allVars

ThreadNext ==
    \/ StartLoop
    \/ StartLoopTests
    \/ StartLoopWaits
    \/ SpuriousWakeup
    \/ PublishLoop
    \/ LoopThreadStep
    \/ LoopThreadQueues
    \/ LoopThreadPollTimeout
    \/ LoopThreadIoEvent
    \/ ThreadFuncEnds
    \/ OwnerQueues
    \/ OwnerWakeup
    \/ Destroy
    \/ Join
    \/ Over

(* Both threads keep running; no fairness for what the owner may choose to *)
(* do (Destroy, OwnerQueues), for a spurious wakeup nor for a poll that    *)
(* times out.  A thread that finds the mutex free again and again gets it: *)
(* only spurious wakeups without end could keep threadFunc from it.        *)
ThreadSpec ==
    /\ ThreadInit /\ [][ThreadNext]_allVars
    /\ SF_allVars(PublishLoop)
    /\ WF_allVars(StartLoopTests)
    /\ WF_allVars(StartLoopWaits)
    /\ WF_allVars(LoopThreadStep)
    /\ WF_allVars(ThreadFuncEnds)
    /\ WF_allVars(OwnerWakeup)
    /\ WF_allVars(Join)
-----------------------------------------------------------------------------
(* Once startLoop has returned and until the destructor begins, the loop   *)
(* the owner holds exists: the thread is inside loop() and has not left    *)
(* it, so the unguarded read of loop_ in the destructor finds it set.      *)
(* (Nothing is said of the destructor's own quit(), whose wakeup() may     *)
(* come after the loop is gone.)                                           *)
LoopLivesUntilDestroyed ==
    opc = "started" => loop_ /\ tfpc = "looping" /\ pc # "done"

(* startLoop returns: the one notification of threadFunc is never lost,    *)
(* whether it comes before startLoop's test, between the test and the wait *)
(* or during the wait.                                                     *)
StartLoopTerminates == opc = "entering" ~> opc = "started"

(* The destructor always joins the thread: quit() "Quits loop."            *)
DestructorJoins == opc = "joining" ~> opc = "joined"

(* The same if loop() had begun when the destructor called quit().         *)
LateDestructorJoins == (opc = "joining" /\ quit_ /\ pc # "start") ~> opc = "joined"
=============================================================================
