------------------------------ MODULE TcpClient ------------------------------
(***************************************************************************)
(* network::TcpClient and its Connector with the one EventLoop they use:   *)
(* connection attempts, their success, failure or end by stop(), the       *)
(* hand-over of the socket to a TcpConnection, the reconnection after a    *)
(* lost connection (retry_), and ~TcpClient.                               *)
(*                                                                         *)
(* Client and Connector are used by the loop thread and by one other       *)
(* thread, which share connect_ of both without a lock.  The Connector's   *)
(* functors and callbacks hold its bare `this'.  Descriptors are reused by *)
(* the kernel: one is free when the Connector has closed it or its         *)
(* TcpConnection is destroyed.                                             *)
(***************************************************************************)
EXTENDS TcpConnection

CONSTANTS
    MaxSockets,    \* descriptors the process may have
    Retry,         \* retry_, set by enableRetry()
    MaxConnects,   \* bound: calls of connect(),
    MaxStops,      \*        of stop()
    MaxDisconnects,\*        and of disconnect()
    LoopCalls,     \* calls made in the loop thread
    UserCalls,     \* calls made by the other thread
    LoopOps,       \* what the message callback may do with its connection
    DestroyWhen    \* ~TcpClient runs: never, with a settled connection, at any time

Calls == {"connect", "disconnect", "stop"}

ASSUME ClientAssumption ==
    /\ MaxSockets \in Nat /\ Retry \in BOOLEAN
    /\ MaxConnects \in Nat /\ MaxStops \in Nat /\ MaxDisconnects \in Nat
    /\ LoopCalls \subseteq Calls
    /\ UserCalls \subseteq Calls \ {"disconnect"}    \* shutdown() is "NOT thread safe"
    /\ LoopOps \subseteq {"send", "shutdown", "forceClose"}
    /\ DestroyWhen \in {"never", "settled", "any"}

VARIABLES
    client,        \* TcpClient: connect_, connection_, whether it exists
    connector,     \* Connector: connect_, state_, channel_, whether it exists
    raw,           \* the descriptors open and not owned by a TcpConnection
    net,           \* what connect(2) on each descriptor has come to
    made,          \* the descriptors on which a TcpConnection was made
    con,           \* the TcpConnection objects
    closeCallback_,\* whose removeConnection each of them calls
    peer,          \* the other end of each connection
    pending,       \* pendingFunctors_
    batch,         \* the functors being executed
    active,        \* activeChannels_ still to be handled
    lpc,           \* where the loop thread is
    restarting,    \* removeConnection has decided to call restart()
    ucall,         \* the other thread's call and how far it is
    calls,         \* calls made
    stopped,       \* the last call was stop(), and connect() had returned
    bad            \* asserts of Connector and TcpClient that failed

vars == <<client, connector, raw, net, made, con, closeCallback_, peer, pending, batch,
          active, lpc, restarting, ucall, calls, stopped, bad>>
connVars == <<made, con, closeCallback_, peer>>
callVars == <<ucall, calls, stopped>>

Sockets == 1..MaxSockets
None == 0
NoCall == [op |-> "none", pc |-> "none"]

(* Functors bound to a TcpConnectionPtr; the others hold a bare `this', of *)
(* the Connector or (shutdownInLoop) of the connection.                    *)
OwningFunctors == {"connectDestroyed", "forceCloseInLoop"}
ConnectorFunctors == {"startInLoop", "stopInLoop", "resetChannel"}

Queued == Entries(pending) \cup Entries(batch)
Held(s) == \E f \in Queued : f.c = s /\ f.fn \in OwningFunctors
Alive(s) == s \in made /\ (client.connection_ = s \/ Held(s))
Free == {s \in Sockets \ raw : ~Alive(s)}

Init ==
    /\ client = [connect_ |-> TRUE, connection_ |-> None, alive |-> TRUE]
    /\ connector = [connect_ |-> FALSE, state_ |-> "kDisconnected", channel_ |-> None,
                    alive |-> TRUE]
    /\ raw = {}
    /\ net = [s \in Sockets |-> "pending"]
    /\ made = {}
    /\ con = [s \in Sockets |-> NewConn]
    /\ closeCallback_ = [s \in Sockets |-> "client"]
    /\ peer = [s \in Sockets |-> "open"]
    /\ pending = <<>>
    /\ batch = <<>>
    /\ active = {}
    /\ lpc = "poll"
    /\ restarting = FALSE
    /\ ucall = NoCall
    /\ calls = [op \in Calls |-> 0]
    /\ stopped = FALSE
    /\ bad = {}

Check(holds, site) == IF holds THEN {} ELSE {site}
-----------------------------------------------------------------------------
(* Connector, in the loop thread.  k is the Connector before the step.     *)

(* connect(): an attempt begins, or fails at once with an error of the     *)
(* kind that is retried or of the kind that is not; both close the socket. *)
Connect(k, asserts) ==
    \/ \E s \in Free :
           /\ \A t \in Free : s <= t
           /\ connector' = [k EXCEPT !.state_ = "kConnecting", !.channel_ = s]
           /\ raw' = raw \cup {s}
           /\ net' = [net EXCEPT ![s] = "pending"]
           /\ made' = made \ {s}
           /\ bad' = bad \cup asserts \cup Check(k.channel_ = None, "connecting")
    \/ /\ connector' = [k EXCEPT !.state_ = "kDisconnected"]
       /\ bad' = bad \cup asserts
       /\ UNCHANGED <<raw, net, made>>

StartInLoop(k) ==
    LET idle == Check(k.state_ = "kDisconnected", "startInLoop")
    IN  IF k.connect_
        THEN Connect(k, idle)
        ELSE /\ connector' = k
             /\ bad' = bad \cup idle
             /\ UNCHANGED <<raw, net, made>>

(* retry(): the descriptor is closed.  The timer that would start the next *)
(* attempt is commented out.                                               *)
Retried(k, s) ==
    /\ connector' = [k EXCEPT !.state_ = "kDisconnected"]
    /\ raw' = raw \ {s}
    /\ bad' = bad \cup Check(s \in raw, "close")

\* Mutant: an attempt that is under way is left alone.
StopInLoopIgnores == UNCHANGED <<connector, raw, bad, pending>>

(* removeAndResetChannel queues resetChannel, here and in HandleWrite.     *)
StopInLoop ==
    IF connector.state_ = "kConnecting"
    THEN /\ Retried(connector, connector.channel_)
         /\ pending' = Append(pending, Functor("resetChannel", None))
    ELSE UNCHANGED <<connector, raw, bad, pending>>

(* TcpClient::newConnection on the descriptor of a successful attempt.     *)
NewConnection(s) ==
    /\ raw' = raw \ {s}
    /\ made' = made \cup {s}
    /\ con' = [con EXCEPT ![s] = ConnectEstablished(NewConn)]
    /\ closeCallback_' = [closeCallback_ EXCEPT ![s] = "client"]
    /\ peer' = [peer EXCEPT ![s] = "open"]
    /\ client' = [client EXCEPT !.connection_ = s]

\* Mutant: the socket of an attempt that stop() overtook is not closed.
ConnectorHandleWriteLeaks(s) ==
    /\ pending' = Append(pending, Functor("resetChannel", None))
    /\ IF net[s] # "ok"
       THEN Retried(connector, s) /\ UNCHANGED <<client, connVars>>
       ELSE /\ connector' = [connector EXCEPT !.state_ = "kConnected"]
            /\ IF connector.connect_
               THEN NewConnection(s)
               ELSE UNCHANGED <<client, raw, connVars>>
            /\ UNCHANGED bad

(* handleWrite: the attempt on s has ended.  A failure (or a connection to *)
(* itself) is retried; a success becomes a TcpConnection, unless stop()    *)
(* was called.  handleError comes after it in Channel::handleEvent and     *)
(* finds kDisconnected.                                                    *)
ConnectorHandleWrite(s) ==
    /\ pending' = Append(pending, Functor("resetChannel", None))
    /\ IF net[s] # "ok"
       THEN Retried(connector, s) /\ UNCHANGED <<client, connVars>>
       ELSE /\ connector' = [connector EXCEPT !.state_ = "kConnected"]
            /\ IF connector.connect_
               THEN NewConnection(s)
               ELSE raw' = raw \ {s} /\ UNCHANGED <<client, connVars>>
            /\ UNCHANGED bad
-----------------------------------------------------------------------------
(* The loop.  A channel is the Connector's or a connection's.              *)
Ready ==
    {ch \in [who : {"connector", "connection"}, s : Sockets] :
        \/ /\ ch.who = "connector"
           /\ connector.state_ = "kConnecting" /\ connector.channel_ = ch.s
           /\ net[ch.s] # "pending"
        \/ /\ ch.who = "connection"
           /\ Alive(ch.s)
           /\ con[ch.s].index = "kAdded"
           /\ Revents(con[ch.s], peer[ch.s]) # {}}

Poll ==
    /\ lpc = "poll"
    /\ Ready # {} \/ pending # <<>>
    /\ active' = Ready
    /\ lpc' = "handle"
    /\ UNCHANGED <<client, connector, raw, net, connVars, pending, batch, restarting,
                   callVars, bad>>

(* A connection's new value and what it posted.  closeCallback_ is         *)
(* TcpClient::removeConnection, which may decide to reconnect, or, once    *)
(* the client is gone, detail::removeConnection.                           *)
Commit(s, k) ==
    LET ours == closeCallback_[s] = "client"
    IN  /\ con' = [con EXCEPT ![s] = [k EXCEPT !.post = "none"]]
        /\ CASE k.post = "none" -> UNCHANGED <<client, pending, restarting, bad>>
             [] k.post = "forceCloseInLoop" ->
                    /\ pending' = Append(pending, Functor("forceCloseInLoop", s))
                    /\ UNCHANGED <<client, restarting, bad>>
             [] k.post = "removeConnection" ->
                    /\ pending' = Append(pending, Functor("connectDestroyed", s))
                    /\ client' = IF ours THEN [client EXCEPT !.connection_ = None]
                                 ELSE client
                    /\ restarting' = (ours /\ Retry /\ client.connect_)
                    /\ bad' = bad \cup Check(ours => client.alive, "client destroyed")
                          \cup Check(ours => client.connection_ = s, "removeConnection")
        /\ UNCHANGED <<made, closeCallback_, peer>>

HandleConnection(s) ==
    \E op \in LoopOps \cup {"none"} : \E partial \in BOOLEAN :
        /\ partial => /\ op = "send" \/ "write" \in con[s].events
                      /\ peer[s] # "reset" /\ ~con[s].shut
        /\ Commit(s, HandleEvent(con[s], peer[s], op, partial))

HandleChannel ==
    /\ lpc = "handle"
    /\ ~restarting
    /\ \E ch \in active :
           /\ active' = active \ {ch}
           /\ IF ch.who = "connection"
              THEN HandleConnection(ch.s) /\ UNCHANGED <<connector, raw>>
              ELSE ConnectorHandleWrite(ch.s) /\ UNCHANGED restarting
    /\ UNCHANGED <<net, batch, lpc, callVars>>

Swap ==
    /\ lpc = "handle"
    /\ ~restarting
    /\ active = {}
    /\ batch' = pending
    /\ pending' = <<>>
    /\ lpc' = "run"
    /\ UNCHANGED <<client, connector, raw, net, connVars, active, restarting, callVars, bad>>

(* A functor of the Connector; one that runs after ~Connector is an error. *)
RunConnectorFunctor(fn) ==
    /\ IF ~connector.alive
       THEN /\ bad' = bad \cup {"connector destroyed"}
            /\ UNCHANGED <<connector, raw, net, made, pending>>
       ELSE CASE fn = "startInLoop" -> StartInLoop(connector) /\ UNCHANGED pending
              [] fn = "stopInLoop" -> StopInLoop /\ UNCHANGED <<net, made>>
              [] fn = "resetChannel" ->
                     /\ connector' = [connector EXCEPT !.channel_ = None]
                     /\ UNCHANGED <<raw, net, made, pending, bad>>
    /\ UNCHANGED <<client, con, closeCallback_, peer, restarting>>

RunFunctor ==
    /\ lpc = "run"
    /\ ~restarting
    /\ batch # <<>>
    /\ batch' = Tail(batch)
    /\ LET f == Head(batch)
       IN  IF f.fn \in ConnectorFunctors
           THEN RunConnectorFunctor(f.fn)
           ELSE /\ Commit(f.c, IF f.fn = "connectDestroyed" THEN ConnectDestroyed(con[f.c])
                               ELSE ForceCloseInLoop(con[f.c]))
                /\ UNCHANGED <<connector, raw, net>>
    /\ UNCHANGED <<active, lpc, callVars>>

EndIteration ==
    /\ lpc = "run"
    /\ ~restarting
    /\ batch = <<>>
    /\ lpc' = "poll"
    /\ UNCHANGED <<client, connector, raw, net, connVars, pending, batch, active,
                   restarting, callVars, bad>>

\* Mutant: the state of the Connector is not reset.
RestartKeepsState ==
    /\ restarting
    /\ restarting' = FALSE
    /\ StartInLoop([connector EXCEPT !.connect_ = TRUE])
    /\ UNCHANGED <<client, con, closeCallback_, peer, pending, batch, active, lpc, callVars>>

(* The rest of removeConnection: Connector::restart.                       *)
Restart ==
    /\ restarting
    /\ restarting' = FALSE
    /\ StartInLoop([connector EXCEPT !.state_ = "kDisconnected", !.connect_ = TRUE])
    /\ UNCHANGED <<client, con, closeCallback_, peer, pending, batch, active, lpc, callVars>>

(* A failed assert, or a call on a destroyed object, ends the process.     *)
Aborted == bad # {} \/ \E s \in made : con[s].bad # {}

LoopStep ==
    /\ ~Aborted
    /\ Poll \/ HandleChannel \/ Swap \/ RunFunctor \/ EndIteration \/ Restart
-----------------------------------------------------------------------------
(* Calls of the client.                                                    *)
MayCall(op) ==
    /\ client.alive
    /\ calls[op] < CASE op = "connect" -> MaxConnects
                     [] op = "stop" -> MaxStops
                     [] op = "disconnect" -> MaxDisconnects

Counted(op) ==
    /\ calls' = [calls EXCEPT ![op] = @ + 1]
    /\ stopped' = CASE op = "stop" -> ucall.op # "connect"
                    [] op = "connect" -> FALSE
                    [] OTHER -> stopped

(* From a functor or callback in the loop thread, where runInLoop runs its *)
(* argument at once.                                                       *)
LoopCall(op) ==
    /\ lpc = "run"
    /\ ~restarting
    /\ MayCall(op)
    /\ Counted(op)
    /\ client' = [client EXCEPT !.connect_ = (op = "connect")]
    /\ CASE op = "connect" ->
                /\ StartInLoop([connector EXCEPT !.connect_ = TRUE])
                /\ UNCHANGED <<con, pending>>
         [] op = "stop" ->
                /\ connector' = [connector EXCEPT !.connect_ = FALSE]
                /\ pending' = Append(pending, Functor("stopInLoop", None))
                /\ UNCHANGED <<raw, net, made, con, bad>>
         [] op = "disconnect" ->
                /\ con' = IF client.connection_ = None THEN con
                          ELSE [con EXCEPT ![client.connection_] =
                                    InLoopOp(@, "shutdown", FALSE)]
                /\ UNCHANGED <<connector, raw, net, made, pending, bad>>
    /\ UNCHANGED <<closeCallback_, peer, batch, active, lpc, restarting, ucall>>

(* From the other thread: connect_ of the client, connect_ of the          *)
(* Connector and the queue are written one after the other.                *)
UserCall(op) ==
    /\ ucall = NoCall
    /\ MayCall(op)
    /\ Counted(op)
    /\ client' = [client EXCEPT !.connect_ = (op = "connect")]
    /\ ucall' = [op |-> op, pc |-> "connect_"]
    /\ UNCHANGED <<connector, raw, net, connVars, pending, batch, active, lpc,
                   restarting, bad>>

UserCallRest ==
    /\ ~Aborted
    /\ \/ /\ ucall.pc = "connect_"
          /\ connector' = [connector EXCEPT !.connect_ = (ucall.op = "connect")]
          /\ ucall' = [ucall EXCEPT !.pc = "queue"]
          /\ UNCHANGED pending
       \/ /\ ucall.pc = "queue"
          /\ pending' = Append(pending, Functor(IF ucall.op = "connect" THEN "startInLoop"
                                                ELSE "stopInLoop", None))
          /\ ucall' = NoCall
          /\ UNCHANGED connector
    /\ UNCHANGED <<client, raw, net, connVars, batch, active, lpc, restarting, calls, stopped, bad>>

\* Mutant: the connection is handed to detail::removeConnection and not closed.
CloseOnDestroyForgets(s, unique) ==
    /\ closeCallback_' = [closeCallback_ EXCEPT ![s] = "detail"]
    /\ UNCHANGED <<con, pending>>

(* ~TcpClient with a connection: it gets another closeCallback_ and, if    *)
(* nobody else holds it, is closed ...                                     *)
CloseOnDestroy(s, unique) ==
    /\ closeCallback_' = [closeCallback_ EXCEPT ![s] = "detail"]
    /\ IF unique /\ con[s].state \in {"kConnected", "kDisconnecting"}
       THEN /\ con' = [con EXCEPT ![s].state = "kDisconnecting"]
            /\ pending' = Append(pending, Functor("forceCloseInLoop", s))
       ELSE UNCHANGED <<con, pending>>

(* ... without one the Connector is told to stop.  Then the members are    *)
(* destroyed, the Connector among them: nothing else owns it.              *)
Destroy ==
    /\ lpc = "run"
    /\ ~restarting
    /\ client.alive
    /\ ucall = NoCall
    /\ \/ DestroyWhen = "any"
       \/ /\ DestroyWhen = "settled"
          /\ client.connection_ # None
          /\ \A f \in Queued : f.fn \notin ConnectorFunctors
    /\ IF client.connection_ # None
       THEN CloseOnDestroy(client.connection_, ~Held(client.connection_))
       ELSE /\ pending' = Append(pending, Functor("stopInLoop", None))
            /\ UNCHANGED <<con, closeCallback_>>
    /\ client' = [client EXCEPT !.alive = FALSE, !.connection_ = None]
    /\ connector' = [connector EXCEPT !.alive = FALSE, !.connect_ = FALSE]
    /\ bad' = bad \cup Check(connector.channel_ = None, "~Connector")
    /\ UNCHANGED <<raw, net, made, peer, batch, active, lpc, restarting, callVars>>
-----------------------------------------------------------------------------
(* External: the kernel learns how an attempt ends, the peer closes.       *)
NetAnswers(s) ==
    /\ s \in raw /\ net[s] = "pending"
    /\ \E how \in {"ok", "failed"} : net' = [net EXCEPT ![s] = how]
    /\ UNCHANGED <<client, connector, raw, connVars, pending, batch, active, lpc,
                   restarting, callVars, bad>>

PeerCloses(s) ==
    /\ Alive(s) /\ peer[s] = "open"
    /\ \E how \in {"fin", "reset"} : peer' = [peer EXCEPT ![s] = how]
    /\ UNCHANGED <<client, connector, raw, net, made, con, closeCallback_, pending, batch,
                   active, lpc, restarting, callVars, bad>>

(* The loop returns from poll after kPollTimeMs: LoopCall may follow.      *)
PollTimeout ==
    /\ lpc = "poll"
    /\ Ready = {}
    /\ active' = {}
    /\ lpc' = "handle"
    /\ UNCHANGED <<client, connector, raw, net, connVars, pending, batch, restarting,
                   callVars, bad>>

Next ==
    \/ LoopStep
    \/ ~Aborted /\ PollTimeout
    \/ \E op \in LoopCalls : ~Aborted /\ LoopCall(op)
    \/ \E op \in UserCalls : ~Aborted /\ UserCall(op)
    \/ UserCallRest
    \/ ~Aborted /\ Destroy
    \/ \E s \in Sockets : NetAnswers(s)
    \/ \E s \in Sockets : PeerCloses(s)

Spec == Init /\ [][Next]_vars

(* The loop thread and a thread inside a call keep running; nothing is     *)
(* assumed of the network.                                                 *)
FairSpec == Spec /\ WF_vars(LoopStep) /\ WF_vars(UserCallRest)
-----------------------------------------------------------------------------
(* No assert of Connector, TcpClient or their connection fails and no      *)
(* functor or callback finds its object destroyed; a connection that dies  *)
(* is closed and out of the Poller (~TcpConnection's and ~Channel's        *)
(* asserts).                                                               *)
NoClientAssertFails ==
    /\ bad = {}
    /\ \A s \in made :
           /\ con[s].bad = {}
           /\ ~Alive(s) => con[s].state = "kDisconnected" /\ con[s].index = "kNew"

(* No descriptor is leaked, and none is used after it was closed: one that *)
(* no TcpConnection owns is that of the attempt in progress, and an        *)
(* attempt in progress has its descriptor, through every race of stop(),   *)
(* success, failure and reconnection.                                      *)
SocketsOwned ==
    raw = IF connector.state_ = "kConnecting" THEN {connector.channel_} ELSE {}

(* stop() ends an attempt even if the network never answers, and no later  *)
(* attempt follows, also when it races with a reconnection.                *)
StopEndsAttempt ==
    <>[]stopped => <>[](connector.state_ # "kConnecting")

(* When the client is destroyed its connection goes too: it is closed, the *)
(* user is told, and the last owner lets it go, although the callback that *)
(* used to do so belongs to the destroyed client.                          *)
DestroyedClientDisconnects ==
    ~client.alive ~> \A s \in made : ~Alive(s) /\ con[s].downs = 1

(* stop() "can be called in any thread": once it has returned, no new      *)
(* connection comes up.                                                    *)
StopPreventsConnection ==
    [][stopped /\ ucall = NoCall /\ client.connection_ = None
           => client.connection_' = None]_vars

(* "Retry connecting to ... in ... milliseconds": an attempt that fails    *)
(* while connect_ is set is followed by another.                           *)
RetryFollows ==
    connector.connect_ /\ connector.state_ = "kDisconnected" ~>
        ~connector.connect_ \/ connector.state_ = "kConnecting"
=============================================================================
