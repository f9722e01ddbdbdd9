------------------------------ MODULE TcpServer ------------------------------
(***************************************************************************)
(* network::TcpServer with its connections (TcpConnection.tla), the thread *)
(* that accepts (loop 0) and the threads of its EventLoopThreadPool (loops *)
(* 1..NumThreads).                                                         *)
(*                                                                         *)
(* The loops hand work to each other through their functor queues only:    *)
(* newConnection sends connectEstablished to the connection's loop,        *)
(* handleClose sends removeConnectionInLoop to loop 0, which sends         *)
(* connectDestroyed back.  A connection lives as long as a shared_ptr to   *)
(* it does; the model derives that from the places that hold one.          *)
(*                                                                         *)
(* A loop is what EventLoop.tla shows it to be: a queue that wakes its     *)
(* thread, taken over one batch per iteration, in order.  A failed assert  *)
(* of the code is recorded in the field `bad' of the connection.           *)
(***************************************************************************)
EXTENDS TcpConnection

CONSTANTS
    NumThreads,    \* setThreadNum's argument; 0: all I/O in loop 0
    MaxConns,      \* bound: connections accepted
    MaxUserCalls,  \* bound: calls by the other thread
    LoopOps,       \* what the message callback may do with its connection
    UserOps,       \* what another thread may do with a connection
    MayDestroy,    \* the TcpServer may be destroyed
    SignalAt       \* where the signal may find loop 0's thread: at a step or in a lock

ASSUME BoundsAssumption ==
    NumThreads \in Nat /\ MaxConns \in Nat /\ MaxUserCalls \in Nat
ASSUME OpsAssumption ==
    /\ LoopOps \subseteq {"send", "shutdown", "forceClose", "forceCloseWithDelay",
                         "stopRead", "startRead"}
    /\ UserOps \subseteq {"send", "shutdown", "forceClose", "stopRead", "startRead"}
    /\ MayDestroy \in BOOLEAN
    /\ SignalAt \subseteq {"poll", "handle", "run", "lock"}

VARIABLES
    nextConnId_,
    next_,          \* EventLoopThreadPool: the next loop of the round robin
    connections_,   \* TcpServer's map
    con,            \* the TcpConnection objects
    loopOf,         \* loop_ of each connection
    peer,           \* the other end: open, sent FIN, or reset
    pending,        \* pendingFunctors_ of each loop
    batch,          \* the functors a loop is executing
    active,         \* activeChannels_ of each loop that are still to be handled
    lpc,            \* where each loop thread is
    quit_,          \* of each loop
    server,         \* running, or how far ~TcpServer has come
    held,           \* the loop whose mutex_ the signal found in loop 0's hands
    ucall,          \* the other thread: between its test of state_ and what follows
    ucalls          \* calls it has made

vars == <<nextConnId_, next_, connections_, con, loopOf, peer, pending, batch,
          active, lpc, quit_, server, held, ucall, ucalls>>

serverVars == <<nextConnId_, next_, server, held>>
userVars == <<ucall, ucalls>>

Conns == 1..MaxConns
Loops == 0..NumThreads
Base == 0
Acceptor == 0      \* the acceptor's channel, among the channels of loop 0
Created == 1..(nextConnId_ - 1)
NoCall == [op |-> "none", c |-> 0]
NoLoop == NumThreads + 1

(* Functors bound to a shared_ptr; the others hold a bare `this'.          *)
OwningFunctors == {"connectEstablished", "connectDestroyed",
                   "removeConnectionInLoop", "forceCloseInLoop"}
BareFunctors == {"sendInLoop", "shutdownInLoop", "stopReadInLoop", "startReadInLoop"}
-----------------------------------------------------------------------------
(* Who holds a shared_ptr to connection c: the map, a functor, the session *)
(* in the connection's own context_, a thread inside one of its members.   *)
Referenced(c) ==
    \/ c \in connections_
    \/ con[c].session
    \/ ucall.c = c
    \/ \E l \in Loops : \E f \in Entries(pending[l]) \cup Entries(batch[l]) :
           f.c = c /\ f.fn \in OwningFunctors

(* ~TcpConnection runs and closes the descriptor when no one holds it.     *)
Destroyed(c) == c \in Created /\ ~Referenced(c)

Init ==
    /\ nextConnId_ = 1
    /\ next_ = 0
    /\ connections_ = {}
    /\ con = [c \in Conns |-> NewConn]
    /\ loopOf = [c \in Conns |-> Base]
    /\ peer = [c \in Conns |-> "open"]
    /\ pending = [l \in Loops |-> <<>>]
    /\ batch = [l \in Loops |-> <<>>]
    /\ active = [l \in Loops |-> {}]
    /\ lpc = [l \in Loops |-> "poll"]
    /\ quit_ = [l \in Loops |-> FALSE]
    /\ server = "running"
    /\ held = NoLoop
    /\ ucall = NoCall
    /\ ucalls = 0

(* Loop 0's thread is not inside ~TcpServer.                               *)
LoopFree(l) == l = Base => server \in {"running", "destroyed"}

QueueInLoop(l, f) ==
    /\ held # l
    /\ pending' = [pending EXCEPT ![l] = Append(@, f)]

(* The connection's new value, and what it posted on the way: forceClose   *)
(* queues in the connection's loop; closeCallback_ is removeConnection,    *)
(* which runs removeConnectionInLoop at once in loop 0's own thread.       *)
Commit(c, k) ==
    LET inBase == k.post = "removeConnection" /\ loopOf[c] = Base
        found == Assert(k, inBase => c \in connections_, "removeConnectionInLoop")
    IN  /\ con' = [con EXCEPT ![c] = [found EXCEPT !.post = "none"]]
        /\ connections_' = IF inBase THEN connections_ \ {c} ELSE connections_
        /\ CASE k.post = "none" -> UNCHANGED pending
             [] k.post = "forceCloseInLoop" ->
                    QueueInLoop(loopOf[c], Functor("forceCloseInLoop", c))
             [] inBase -> QueueInLoop(Base, Functor("connectDestroyed", c))
             [] OTHER -> QueueInLoop(Base, Functor("removeConnectionInLoop", c))
-----------------------------------------------------------------------------
(* Loop 0: Acceptor::handleRead and TcpServer::newConnection.              *)

NextLoop == IF NumThreads = 0 THEN Base ELSE next_ + 1

NewConnection ==
    LET c == nextConnId_
    IN  /\ lpc[Base] = "handle" /\ LoopFree(Base)
        /\ Acceptor \in active[Base]
        /\ active' = [active EXCEPT ![Base] = @ \ {Acceptor}]
        /\ nextConnId_' = c + 1
        /\ next_' = IF NumThreads = 0 THEN 0 ELSE (next_ + 1) % NumThreads
        /\ loopOf' = [loopOf EXCEPT ![c] = NextLoop]
        /\ connections_' = connections_ \cup {c}
        /\ IF NextLoop = Base
           THEN /\ con' = [con EXCEPT ![c] = ConnectEstablished(@)]
                /\ UNCHANGED pending
           ELSE /\ QueueInLoop(NextLoop, Functor("connectEstablished", c))
                /\ UNCHANGED con
        /\ UNCHANGED <<peer, batch, lpc, quit_, server, held, userVars>>

(* The thread of loop l returns from epoll_wait: with every channel that   *)
(* has events, or because of a wakeup ...                                  *)
Ready(l) ==
    {c \in Created : /\ loopOf[c] = l
                     /\ con[c].index = "kAdded"
                     /\ Revents(con[c], peer[c]) # {}}

PollReturns(l, channels) ==
    /\ lpc[l] = "poll"
    /\ LoopFree(l)
    /\ active' = [active EXCEPT ![l] = channels]
    /\ lpc' = [lpc EXCEPT ![l] = "handle"]
    /\ UNCHANGED <<serverVars, connections_, con, loopOf, peer, pending, batch,
                   quit_, userVars>>

Poll(l) ==
    /\ Ready(l) # {} \/ pending[l] # <<>> \/ quit_[l]
    /\ PollReturns(l, Ready(l))

(* ... or with a client on the listening socket (accepted later than the   *)
(* loop learns of it) ...                                                  *)
PollAccept ==
    /\ server = "running"
    /\ nextConnId_ <= MaxConns
    /\ PollReturns(Base, Ready(Base) \cup {Acceptor})

(* ... or with nothing, after kPollTimeMs or by a signal.                  *)
PollTimeout(l) == Ready(l) = {} /\ PollReturns(l, {})

HandleChannel(l, c) ==
    /\ lpc[l] = "handle" /\ LoopFree(l)
    /\ c \in active[l]
    /\ active' = [active EXCEPT ![l] = @ \ {c}]
    /\ \E op \in LoopOps \cup {"none"} : \E partial \in BOOLEAN :
           /\ partial => /\ op = "send" \/ "write" \in con[c].events
                         /\ peer[c] # "reset" /\ ~con[c].shut
           /\ Commit(c, HandleEvent(con[c], peer[c], op, partial))
    /\ UNCHANGED <<serverVars, loopOf, peer, batch, lpc, quit_, userVars>>

(* doPendingFunctors takes the queue over.                                 *)
Swap(l) ==
    /\ lpc[l] = "handle" /\ LoopFree(l)
    /\ active[l] = {}
    /\ held # l
    /\ batch' = [batch EXCEPT ![l] = pending[l]]
    /\ pending' = [pending EXCEPT ![l] = <<>>]
    /\ lpc' = [lpc EXCEPT ![l] = "run"]
    /\ UNCHANGED <<serverVars, connections_, con, loopOf, peer, active, quit_, userVars>>

\* Mutant: the connection is erased and its loop is not told.
RemoveWithoutDestroy(c) ==
    /\ connections_' = connections_ \ {c}
    /\ UNCHANGED <<con, pending>>

\* Mutant: the connection's loop is told and the map keeps its entry.
RemoveKeepsEntry(c) ==
    /\ con' = [con EXCEPT ![c] = Assert(@, c \in connections_, "removeConnectionInLoop")]
    /\ QueueInLoop(loopOf[c], Functor("connectDestroyed", c))
    /\ UNCHANGED connections_

(* TcpServer::removeConnectionInLoop, bound to the server's bare `this'.   *)
RemoveConnectionInLoop(c) ==
    /\ con' = [con EXCEPT ![c] =
           Assert(Assert(@, server = "running", "server destroyed"),
                  c \in connections_ \/ server # "running", "removeConnectionInLoop")]
    /\ connections_' = connections_ \ {c}
    /\ QueueInLoop(loopOf[c], Functor("connectDestroyed", c))

(* One functor of the batch.                                               *)
RunFunctor(l) ==
    /\ lpc[l] = "run" /\ LoopFree(l)
    /\ batch[l] # <<>>
    /\ LET f == Head(batch[l])
           c == f.c
       IN  CASE f.fn = "connectEstablished" -> Commit(c, ConnectEstablished(con[c]))
             [] f.fn = "connectDestroyed" -> Commit(c, ConnectDestroyed(con[c]))
             [] f.fn = "forceCloseInLoop" -> Commit(c, ForceCloseInLoop(con[c]))
             [] f.fn = "shutdownInLoop" -> Commit(c, ShutdownInLoop(con[c]))
             [] f.fn = "sendInLoop" ->
                    \E partial \in BOOLEAN :
                        /\ partial => peer[c] # "reset" /\ ~con[c].shut
                        /\ Commit(c, SendInLoop(con[c], partial))
             [] f.fn = "stopReadInLoop" -> Commit(c, StopReadInLoop(con[c]))
             [] f.fn = "startReadInLoop" -> Commit(c, StartReadInLoop(con[c]))
             [] f.fn = "removeConnectionInLoop" -> RemoveConnectionInLoop(c)
    /\ batch' = [batch EXCEPT ![l] = Tail(@)]
    /\ UNCHANGED <<serverVars, loopOf, peer, active, lpc, quit_, userVars>>

(* The iteration ends.  A loop that quits is destroyed with its thread,    *)
(* and the functors still queued with it (loop 0 outlives the server).     *)
EndIteration(l) ==
    /\ lpc[l] = "run" /\ LoopFree(l)
    /\ batch[l] = <<>>
    /\ lpc' = [lpc EXCEPT ![l] = IF quit_[l] THEN "done" ELSE "poll"]
    /\ pending' = [pending EXCEPT ![l] = IF quit_[l] /\ l # Base THEN <<>> ELSE @]
    /\ UNCHANGED <<serverVars, connections_, con, loopOf, peer, batch, active, quit_,
                   userVars>>

(* The asserts of ~TcpConnection (state_ == kDisconnected) and ~Channel    *)
(* (!addedToLoop_), wherever the last owner lets go: also a quitting loop, *)
(* of the functors it drops.                                               *)
DiesClosed(c) == con[c].state = "kDisconnected" /\ con[c].index = "kNew"

(* An event for an acceptor or a connection that ~TcpServer has destroyed, *)
(* or a functor queued in a loop that is gone with its thread.             *)
UsesDestroyed(l) ==
    \/ l = Base /\ Acceptor \in active[l] /\ server = "destroyed"
    \/ \E c \in active[l] : Destroyed(c)
    \/ l # Base /\ lpc[l] = "done" /\ pending[l] # <<>>

(* A failed assert, or the use of a destroyed object, ends the process.    *)
Aborted ==
    \/ \E c \in Conns : con[c].bad # {} \/ (Destroyed(c) /\ ~DiesClosed(c))
    \/ \E l \in Loops : UsesDestroyed(l)

LoopStep(l) ==
    /\ ~Aborted
    /\ \/ Poll(l)
       \/ \E c \in Conns : HandleChannel(l, c)
       \/ l = Base /\ NewConnection
       \/ Swap(l)
       \/ RunFunctor(l)
       \/ EndIteration(l)
-----------------------------------------------------------------------------
(* External: the other end closes or resets the connection.                *)
PeerCloses(c) ==
    /\ c \in Created
    /\ peer[c] = "open"
    /\ \E how \in {"fin", "reset"} : peer' = [peer EXCEPT ![c] = how]
    /\ UNCHANGED <<serverVars, connections_, con, loopOf, pending, batch, active, lpc,
                   quit_, userVars>>

(* Another thread (the session's ZMQ thread, or a client of the library)   *)
(* calls send, shutdown, forceClose, stopRead or startRead: the test of    *)
(* state_ (the last two have none) ...                                     *)
UserCall(op, c) ==
    /\ ucall = NoCall
    /\ ucalls < MaxUserCalls
    /\ c \in Created /\ Referenced(c) /\ con[c].ups > 0
    /\ \/ op \in {"stopRead", "startRead"}
       \/ con[c].state = "kConnected"
       \/ con[c].state = "kDisconnecting" /\ op = "forceClose"
    /\ ucall' = [op |-> op, c |-> c]
    /\ ucalls' = ucalls + 1
    /\ UNCHANGED <<serverVars, connections_, con, loopOf, peer, pending, batch, active,
                   lpc, quit_>>

(* ... and what follows it, without a lock: setState and the functor.      *)
UserCallRest ==
    LET c == ucall.c
        fn == CASE ucall.op = "send" -> "sendInLoop"
                [] ucall.op = "shutdown" -> "shutdownInLoop"
                [] ucall.op = "forceClose" -> "forceCloseInLoop"
                [] ucall.op = "stopRead" -> "stopReadInLoop"
                [] ucall.op = "startRead" -> "startReadInLoop"
    IN  /\ ~Aborted
        /\ ucall # NoCall
        /\ ucall' = NoCall
        /\ con' = IF ucall.op \in {"shutdown", "forceClose"}
                  THEN [con EXCEPT ![c].state = "kDisconnecting"] ELSE con
        /\ QueueInLoop(loopOf[c], Functor(fn, c))
        /\ UNCHANGED <<serverVars, connections_, loopOf, peer, batch, active, lpc, quit_,
                       ucalls>>
-----------------------------------------------------------------------------
(* The loops whose mutex_ loop 0's thread may hold: of its own queue or of *)
(* the one its next step adds to.                                          *)
Locking ==
    CASE lpc[Base] = "handle" ->
             IF Acceptor \in active[Base] THEN {Base, NextLoop} ELSE {Base}
      [] lpc[Base] = "run" /\ batch[Base] # <<>> -> {Base, loopOf[Head(batch[Base]).c]}
      [] OTHER -> {}

(* A signal runs tcp_stop_work in loop 0's thread, wherever that is:       *)
(* quit() of loop 0, then ~TcpServer.  The thread keeps a mutex it holds   *)
(* until the signal handler returns.                                       *)
StopWork ==
    /\ MayDestroy
    /\ server = "running"
    /\ \E l \in Locking \cup {NoLoop} :
           /\ (IF l = NoLoop THEN lpc[Base] ELSE "lock") \in SignalAt
           /\ held' = l
    /\ quit_' = [quit_ EXCEPT ![Base] = TRUE]
    /\ server' = "destroying"
    /\ UNCHANGED <<nextConnId_, next_, connections_, con, loopOf, peer, pending, batch,
                   active, lpc, userVars>>

(* The destructor's body: connectDestroyed for one more connection.        *)
DestroyConnection(c) ==
    /\ server = "destroying"
    /\ c \in connections_
    /\ \A d \in connections_ : c <= d
    /\ connections_' = connections_ \ {c}
    /\ IF loopOf[c] = Base
       THEN con' = [con EXCEPT ![c] = ConnectDestroyed(@)] /\ UNCHANGED pending
       ELSE QueueInLoop(loopOf[c], Functor("connectDestroyed", c)) /\ UNCHANGED con
    /\ UNCHANGED <<serverVars, loopOf, peer, batch, active, lpc, quit_, userVars>>

\* Mutant: a thread is joined before it is told to quit.
QuitThreadAfterJoin(l) ==
    /\ server = "destroying"
    /\ connections_ = {}
    /\ l # Base
    /\ ~quit_[l]
    /\ \A m \in 1..l : lpc[m] = "done"
    /\ quit_' = [quit_ EXCEPT ![l] = TRUE]
    /\ UNCHANGED <<serverVars, connections_, con, loopOf, peer, pending, batch, active,
                   lpc, userVars>>

(* Its members: ~EventLoopThread of the next thread sets quit_ and joins.  *)
QuitThread(l) ==
    /\ server = "destroying"
    /\ connections_ = {}
    /\ l # Base
    /\ ~quit_[l]
    /\ \A m \in 1..(l - 1) : lpc[m] = "done"
    /\ quit_' = [quit_ EXCEPT ![l] = TRUE]
    /\ UNCHANGED <<serverVars, connections_, con, loopOf, peer, pending, batch, active,
                   lpc, userVars>>

ServerDestroyed ==
    /\ server = "destroying"
    /\ connections_ = {}
    /\ \A l \in Loops \ {Base} : lpc[l] = "done"
    /\ server' = "destroyed"
    /\ held' = NoLoop
    /\ UNCHANGED <<nextConnId_, next_, connections_, con, loopOf, peer, pending, batch,
                   active, lpc, quit_, userVars>>

DestroyStep ==
    /\ ~Aborted
    /\ \/ \E c \in Conns : DestroyConnection(c)
       \/ \E l \in Loops : QuitThread(l)
       \/ ServerDestroyed

(* Everything has stopped.                                                 *)
Terminated ==
    /\ Aborted \/ \A l \in Loops : lpc[l] = "done"
    /\ UNCHANGED vars

Next ==
    \/ ~Aborted /\ PollAccept
    \/ \E l \in Loops : LoopStep(l)
    \/ \E l \in Loops : ~Aborted /\ PollTimeout(l)
    \/ \E c \in Conns : PeerCloses(c)
    \/ \E c \in Conns : \E op \in UserOps : ~Aborted /\ UserCall(op, c)
    \/ UserCallRest
    \/ ~Aborted /\ StopWork
    \/ DestroyStep
    \/ Terminated

Spec == Init /\ [][Next]_vars

(* Loop threads and a thread inside a call keep running.                   *)
FairSpec ==
    /\ Spec
    /\ \A l \in Loops : WF_vars(LoopStep(l))
    /\ WF_vars(UserCallRest)
    /\ WF_vars(DestroyStep)
-----------------------------------------------------------------------------
(* No assert of Channel, Poller, TcpConnection or TcpServer fails.         *)
NoAssertFails == \A c \in Conns : con[c].bad = {}

(* ~TcpConnection's assert(state_ == kDisconnected) and ~Channel's         *)
(* assert(!addedToLoop_): a connection dies closed and unregistered.       *)
DiesDisconnected == \A c \in Conns : Destroyed(c) => DiesClosed(c)

(* The user sees each connection come up at most once and then go down at  *)
(* most once, and is told of the end exactly when state_ says so: no       *)
(* second down from connectDestroyed, none missed by handleClose.          *)
CallbacksPaired ==
    \A c \in Conns :
        /\ con[c].ups <= 1 /\ con[c].downs <= con[c].ups
        /\ con[c].downs = 1 <=> con[c].state = "kDisconnected"

(* Output that waits is being watched for: a non-empty output buffer of an *)
(* open connection has the channel subscribed to writability, and nothing  *)
(* else has.                                                               *)
OutputWatched ==
    \A c \in Created :
        con[c].state # "kDisconnected" => (con[c].out <=> "write" \in con[c].events)

(* A functor bound to a bare `this' (send's and shutdown's, "FIXME:        *)
(* shared_from_this()?") never outlives its connection.                    *)
BareFunctorsAlive ==
    \A l \in Loops : \A f \in Entries(pending[l]) \cup Entries(batch[l]) :
        f.fn \in BareFunctors => Referenced(f.c)

(* A half-closed connection gets its FIN out: in kDisconnecting the write  *)
(* side is shut unless output is still being written or a close is queued. *)
ShutdownCompletes ==
    \A c \in Created :
        con[c].state = "kDisconnecting" /\ ~con[c].out =>
            \/ con[c].shut
            \/ \E f \in Entries(pending[loopOf[c]]) \cup Entries(batch[loopOf[c]]) :
                   f.c = c /\ f.fn \in {"forceCloseInLoop", "shutdownInLoop"}

(* When the peer goes away the connection is destroyed and its descriptor  *)
(* closed, as handleClose's "we don't close fd, leave it to dtor" says.    *)
ClosedIsDestroyed ==
    \A c \in Conns : peer[c] # "open" ~> Destroyed(c)

(* ~TcpServer returns, unless an assert or a destroyed object ends the     *)
(* process first: every join it makes ends, whatever the loops and the     *)
(* sessions' threads are doing, if the signal does not find loop 0's       *)
(* thread with the mutex_ of a loop in its hands.                          *)
DestructorReturns == server = "destroying" ~> (server = "destroyed" \/ Aborted)

(* removeConnection is "Thread safe": it never acts on a dead server.      *)
RemoveOnLiveServer == \A c \in Conns : "server destroyed" \notin con[c].bad

(* Channel::remove's assert(isNoneEvent()).                                *)
RemovedChannelIsQuiet == \A c \in Conns : "Channel::remove" \notin con[c].bad

(* removeConnectionInLoop's assert(n == 1): a connection is removed from   *)
(* the map once.                                                           *)
RemovedOnce == \A c \in Conns : "removeConnectionInLoop" \notin con[c].bad

(* handleClose's assert: it is entered on an open connection only.         *)
ClosedOnce == \A c \in Conns : "handleClose" \notin con[c].bad

(* Whichever of the peer, the session's thread and ~TcpServer ends a       *)
(* connection first, the others find it closed: handleClose is entered on  *)
(* an open connection only, the map gives it up once, and its channel is   *)
(* removed when it subscribes to nothing.                                  *)
ClosedCleanly == ClosedOnce /\ RemovedOnce /\ RemovedChannelIsQuiet
=============================================================================
