---------------------------- MODULE TcpClientProofs ----------------------------
(***************************************************************************)
(* TcpClient with one call of connect() and a destructor that runs, if at  *)
(* all, with a settled connection: no assert fails, no functor or callback *)
(* finds its object gone, and every descriptor has one owner, for any      *)
(* number of descriptors, with and without retry_, and whatever the loop   *)
(* thread and the other thread call when.                                  *)
(***************************************************************************)
EXTENDS TcpClient, TcpConnectionProofs

Functors ==
    {Functor(fn, None) : fn \in ConnectorFunctors} \cup
    {Functor("connectDestroyed", s) : s \in Sockets} \cup
    {Functor("forceCloseInLoop", s) : s \in Sockets}

Clients == [connect_ : BOOLEAN, connection_ : Sockets \cup {None}, alive : BOOLEAN]
Connectors ==
    [connect_ : BOOLEAN, state_ : {"kDisconnected", "kConnecting", "kConnected"},
     channel_ : Sockets \cup {None}, alive : BOOLEAN]

ClientTypeOK ==
    /\ client \in Clients /\ connector \in Connectors
    /\ raw \subseteq Sockets /\ made \subseteq Sockets
    /\ net \in [Sockets -> {"pending", "ok", "failed"}]
    /\ con \in [Sockets -> Conn]
    /\ closeCallback_ \in [Sockets -> {"client", "detail"}]
    /\ peer \in [Sockets -> {"open", "fin", "reset"}]
    /\ pending \in Seq(Functors) /\ batch \in Seq(Functors)
    /\ active \subseteq [who : {"connector", "connection"}, s : Sockets]
    /\ lpc \in {"poll", "handle", "run"}
    /\ restarting \in BOOLEAN
    /\ ucall \in [op : UserCalls, pc : {"connect_", "queue"}] \cup {NoCall}
    /\ calls \in [Calls -> Nat] /\ calls["connect"] <= 1

IsQueued(fn) == \E f \in Queued : f.fn = fn

(* The one call of connect() is still to come, or on its way.              *)
Startable == calls["connect"] = 0 \/ ucall.op = "connect" \/ IsQueued("startInLoop")

(* The loop is where its queues and active channels say.                   *)
Phases ==
    /\ batch # <<>> => lpc = "run"
    /\ active # {} => lpc = "handle"

(* connect() reaches startInLoop once, and a connection connectDestroyed.  *)
SingleUse == {"startInLoop", "connectDestroyed"}

Distinct(p, b) ==
    /\ Once(p, SingleUse) /\ Once(b, SingleUse)
    /\ \A f \in Entries(p) : f.fn \in SingleUse => f \notin Entries(b)

OnceQueued ==
    /\ Distinct(pending, batch)
    /\ calls["connect"] = 0 \/ ucall.op = "connect" => ~IsQueued("startInLoop")
    /\ calls["connect"] = 0 => ucall.op # "connect"

(* Nothing has happened before the one connect().                          *)
Fresh ==
    Startable =>
        /\ connector.state_ = "kDisconnected" /\ connector.channel_ = None
        /\ made = {} /\ client.alive /\ ~restarting /\ ~IsQueued("resetChannel")

(* An attempt: its descriptor is not yet a connection's, and no functor    *)
(* will take its channel away.                                             *)
Trying ==
    connector.state_ = "kConnecting" =>
        /\ connector.channel_ \in Sockets \ made
        /\ client.connection_ = None /\ client.alive /\ ~restarting
        /\ ~IsQueued("resetChannel")

(* A connection: the channel of the attempt that made it is reset before   *)
(* the loop polls again, and until then nothing can close the connection.  *)
Up ==
    client.connection_ # None =>
        /\ client.connection_ \in made /\ client.alive /\ ~restarting
        /\ Open(con[client.connection_])
        /\ connector.channel_ # None => IsQueued("resetChannel")
        /\ \A f \in Entries(pending) : f.fn = "resetChannel" => lpc = "handle"
        /\ IsQueued("resetChannel") =>
               active = {} /\ Functor("forceCloseInLoop", client.connection_) \notin Queued

(* Between removeConnection and restart: the way is free.                  *)
Reconnecting ==
    restarting =>
        /\ client.connection_ = None /\ client.alive
        /\ connector.state_ # "kConnecting" /\ connector.channel_ = None
        /\ ~IsQueued("resetChannel")

(* Every connection ever made is open and owned, closed and about to be    *)
(* destroyed, or destroyed.                                                *)
Owned(s) ==
    IF client.alive
    THEN client.connection_ = s /\ closeCallback_[s] = "client"
    ELSE closeCallback_[s] = "detail" /\ Functor("forceCloseInLoop", s) \in Queued

Lives ==
    \A s \in made :
        /\ con[s].post = "none"
        /\ \/ Open(con[s]) /\ Owned(s)
           \/ Down(con[s]) /\ Functor("connectDestroyed", s) \in Queued
           \/ Dead(con[s])

(* What the queue and the loop hold is there.                              *)
Backed ==
    /\ \A s \in Sockets :
           /\ Functor("connectDestroyed", s) \in Queued => s \in made /\ Down(con[s])
           /\ Functor("forceCloseInLoop", s) \in Queued => s \in made
    /\ \A ch \in active :
           \/ ch.who = "connector" /\ connector.state_ = "kConnecting" /\ connector.channel_ = ch.s
           \/ ch.who = "connection" /\ ch.s \in made /\ Open(con[ch.s])
    /\ connector.alive = client.alive
    /\ ~client.alive => ucall = NoCall /\ \A f \in Queued : f.fn \notin ConnectorFunctors

ClientInv ==
    /\ ClientTypeOK /\ bad = {} /\ SocketsOwned
    /\ Phases /\ OnceQueued /\ Fresh /\ Trying /\ Up /\ Reconnecting /\ Lives /\ Backed
-----------------------------------------------------------------------------
(* The queues.                                                             *)

LEMMA FunctorKinds ==
    ASSUME NEW f \in Functors
    PROVE  /\ f.fn \in ConnectorFunctors => f = Functor(f.fn, None)
           /\ f.fn \notin ConnectorFunctors =>
                 /\ f.c \in Sockets
                 /\ f.fn \in {"connectDestroyed", "forceCloseInLoop"}
                 /\ f = Functor(f.fn, f.c)
  BY DEF Functors, Functor, ConnectorFunctors

LEMMA FunctorsIn ==
    /\ \A fn \in ConnectorFunctors : Functor(fn, None) \in Functors
    /\ \A s \in Sockets : /\ Functor("connectDestroyed", s) \in Functors
                          /\ Functor("forceCloseInLoop", s) \in Functors
    /\ \A fn, c : Functor(fn, c).fn = fn /\ Functor(fn, c).c = c
  BY DEF Functors, Functor

LEMMA Pushed ==
    ASSUME NEW p \in Seq(Functors), NEW b \in Seq(Functors), NEW f \in Functors,
           Distinct(p, b), f.fn \in SingleUse => f \notin Entries(p) \cup Entries(b)
    PROVE  /\ Append(p, f) \in Seq(Functors)
           /\ Entries(Append(p, f)) = Entries(p) \cup {f}
           /\ Distinct(Append(p, f), b)
  <1>1. /\ Append(p, f) \in Seq(Functors)
        /\ Entries(Append(p, f)) = Entries(p) \cup {f}
        /\ Once(p, SingleUse) /\ (f \notin Entries(p) \/ f.fn \notin SingleUse)
              => Once(Append(p, f), SingleUse)
    BY AppendEntries
  <1> QED
    BY <1>1 DEF Distinct

LEMMA Popped ==
    ASSUME NEW p \in Seq(Functors), NEW b \in Seq(Functors), Distinct(p, b), b # <<>>
    PROVE  /\ Tail(b) \in Seq(Functors) /\ Head(b) \in Functors
           /\ Entries(b) = Entries(Tail(b)) \cup {Head(b)}
           /\ Distinct(p, Tail(b))
           /\ Head(b).fn \in SingleUse => Head(b) \notin Entries(p) \cup Entries(Tail(b))
  <1>1. /\ Tail(b) \in Seq(Functors) /\ Head(b) \in Functors
        /\ Entries(b) = Entries(Tail(b)) \cup {Head(b)}
        /\ Once(b, SingleUse) =>
              /\ Once(Tail(b), SingleUse)
              /\ Head(b).fn \in SingleUse => Head(b) \notin Entries(Tail(b))
    BY TailEntries
  <1> QED
    BY <1>1 DEF Distinct

LEMMA QueueTyped ==
    ASSUME ClientTypeOK
    PROVE  /\ Entries(pending) \subseteq Functors /\ Entries(batch) \subseteq Functors
           /\ Queued \subseteq Functors
  BY EntriesTyped DEF ClientTypeOK, Queued

LEMMA ClientInvInit == Init => ClientInv
  <1> SUFFICES ASSUME Init PROVE ClientInv
    OBVIOUS
  <1>1. pending = <<>> /\ batch = <<>> /\ Queued = {}
    BY EmptyEntries DEF Init, Queued
  <1>2. ClientTypeOK
    <2>1. <<>> \in Seq(Functors)
      BY EmptySeq
    <2>2. con \in [Sockets -> Conn] /\ net \in [Sockets -> {"pending", "ok", "failed"}]
      BY NewConnFields DEF Init
    <2>3. closeCallback_ \in [Sockets -> {"client", "detail"}]
          /\ peer \in [Sockets -> {"open", "fin", "reset"}]
      BY DEF Init
    <2>4. calls \in [Calls -> Nat] /\ calls["connect"] = 0
      BY DEF Init, Calls
    <2>5. client \in Clients
      BY DEF Init, Clients
    <2>6. connector \in Connectors
      BY DEF Init, Connectors
    <2>7. raw = {} /\ made = {} /\ active = {} /\ lpc = "poll" /\ restarting = FALSE
          /\ ucall = NoCall
      BY DEF Init
    <2>8. /\ pending \in Seq(Functors) /\ batch \in Seq(Functors)
          /\ raw \subseteq Sockets /\ made \subseteq Sockets
          /\ active \subseteq [who : {"connector", "connection"}, s : Sockets]
      BY <1>1, <2>1, <2>7
    <2>9. calls["connect"] <= 1
      BY <2>4
    <2>10. restarting \in BOOLEAN
           /\ ucall \in [op : UserCalls, pc : {"connect_", "queue"}] \cup {NoCall}
      BY <2>7
    <2> QED
      BY <2>2, <2>3, <2>4, <2>5, <2>6, <2>7, <2>8, <2>9, <2>10 DEF ClientTypeOK
  <1>3. Distinct(pending, batch)
    BY <1>1, EmptyEntries DEF Distinct
  <1>4. OnceQueued /\ Fresh /\ Backed
    BY <1>1, <1>3 DEF Init, OnceQueued, Fresh, Backed, IsQueued, NoCall, Calls
  <1>5. SocketsOwned /\ Phases /\ Trying /\ Up /\ Reconnecting /\ Lives /\ bad = {}
    BY DEF Init, SocketsOwned, Phases, Trying, Up, Reconnecting, Lives
  <1> QED
    BY <1>2, <1>4, <1>5 DEF ClientInv
-----------------------------------------------------------------------------
(* One lemma per action.                                                   *)

LEMMA PollStep ==
    ASSUME ClientInv, Poll \/ PollTimeout
    PROVE  ClientInv'
  <1> USE DEF ClientInv
  <1>1. /\ lpc = "poll" /\ lpc' = "handle" /\ active' \in {Ready, {}}
        /\ UNCHANGED <<client, connector, raw, net, connVars, pending, batch, restarting,
                       callVars, bad>>
    BY DEF Poll, PollTimeout
  <1>2. Queued' = Queued /\ batch = <<>>
    BY <1>1 DEF Queued, Phases
  <1>3. client.connection_ # None => ~IsQueued("resetChannel")
    BY <1>1, <1>2, EmptyEntries DEF Up, IsQueued, Queued
  <1>4. ASSUME NEW ch \in active'
        PROVE  \/ ch.who = "connector" /\ connector.state_ = "kConnecting" /\ connector.channel_ = ch.s
               \/ ch.who = "connection" /\ ch.s \in made /\ Open(con[ch.s])
    <2>1. ch \in Ready
      BY <1>1, <1>4
    <2>2. CASE ch.who = "connection" /\ Alive(ch.s) /\ con[ch.s].index = "kAdded"
      BY <2>2 DEF Alive, Lives, Down, Dead
    <2> QED
      BY <2>1, <2>2 DEF Ready
  <1>5. ClientTypeOK'
    <2>1. active' \subseteq [who : {"connector", "connection"}, s : Sockets]
      BY <1>1 DEF Ready
    <2> QED
      BY <1>1, <2>1 DEF ClientTypeOK, connVars, callVars
  <1>6. Phases' /\ SocketsOwned' /\ (bad = {})'
    BY <1>1, <1>2 DEF Phases, SocketsOwned
  <1>7. OnceQueued' /\ Fresh' /\ Trying' /\ Reconnecting' /\ Lives'
    BY <1>1, <1>2 DEF OnceQueued, Startable, Fresh, Trying, Reconnecting, Lives, Owned,
                      IsQueued, connVars, callVars
  <1>8. Up'
    BY <1>1, <1>2, <1>3 DEF Up, IsQueued, connVars
  <1>9. Backed'
    BY <1>1, <1>2, <1>4 DEF Backed, connVars, callVars
  <1> QED
    BY <1>5, <1>6, <1>7, <1>8, <1>9

LEMMA IterationStep ==
    ASSUME ClientInv, Swap \/ EndIteration
    PROVE  ClientInv'
  <1> USE DEF ClientInv
  <1>1. UNCHANGED <<client, connector, raw, net, connVars, active, restarting, callVars, bad>>
    BY DEF Swap, EndIteration
  <1>2. active = {} /\ Queued' = Queued /\ Distinct(pending, batch)'
    <2>1. CASE Swap
      <3>1. batch = <<>> /\ batch' = pending /\ pending' = <<>> /\ active = {}
        BY <2>1 DEF Swap, Phases
      <3> QED
        BY <3>1, EmptyEntries DEF Queued, Distinct, OnceQueued
    <2>2. CASE EndIteration
      BY <2>2 DEF EndIteration, Phases, Queued, OnceQueued
    <2> QED
      BY <2>1, <2>2
  <1>3. ClientTypeOK' /\ Phases'
    <2>1. /\ pending' \in Seq(Functors) /\ batch' \in Seq(Functors)
          /\ lpc' \in {"poll", "run"} /\ (batch' # <<>> => lpc' = "run")
      <3>1. CASE Swap
        BY <3>1, EmptySeq DEF Swap, ClientTypeOK
      <3>2. CASE EndIteration
        BY <3>2 DEF EndIteration, ClientTypeOK
      <3> QED
        BY <3>1, <3>2
    <2> QED
      BY <1>1, <1>2, <2>1 DEF ClientTypeOK, Phases, connVars, callVars
  <1>4. Up'
    <2>1. client.connection_ # None => \A f \in Entries(pending') : f.fn # "resetChannel"
      <3>1. CASE Swap
        BY <3>1, EmptyEntries DEF Swap
      <3>2. CASE EndIteration
        BY <3>2 DEF EndIteration, Up
      <3> QED
        BY <3>1, <3>2
    <2> QED
      BY <1>1, <1>2, <2>1 DEF Up, IsQueued, connVars
  <1>5. SocketsOwned' /\ OnceQueued' /\ Fresh' /\ Trying' /\ Reconnecting' /\ Lives' /\ (bad = {})'
    BY <1>1, <1>2 DEF SocketsOwned, OnceQueued, Startable, Fresh, Trying, Reconnecting, Lives,
                      Owned, IsQueued, connVars, callVars
  <1>6. Backed'
    BY <1>1, <1>2 DEF Backed, connVars, callVars
  <1> QED
    BY <1>3, <1>4, <1>5, <1>6

LEMMA NetStep ==
    ASSUME ClientInv, NEW s \in Sockets, NetAnswers(s) \/ PeerCloses(s)
    PROVE  ClientInv'
  <1> USE DEF ClientInv
  <1>1. /\ net' \in [Sockets -> {"pending", "ok", "failed"}]
        /\ peer' \in [Sockets -> {"open", "fin", "reset"}]
        /\ UNCHANGED <<client, connector, raw, made, con, closeCallback_, pending, batch,
                       active, lpc, restarting, callVars, bad>>
    BY DEF NetAnswers, PeerCloses, ClientTypeOK, connVars
  <1>2. Queued' = Queued
    BY <1>1 DEF Queued
  <1>3. ClientTypeOK'
    BY <1>1 DEF ClientTypeOK, callVars
  <1>4. SocketsOwned' /\ OnceQueued' /\ Fresh' /\ Trying' /\ Reconnecting' /\ Lives' /\ (bad = {})'
    BY <1>1, <1>2 DEF SocketsOwned, OnceQueued, Startable, Fresh, Trying, Reconnecting, Lives,
                      Owned, IsQueued, callVars
  <1>5. Phases' /\ Up' /\ Backed'
    BY <1>1, <1>2 DEF Phases, Up, Backed, IsQueued, callVars
  <1> QED
    BY <1>3, <1>4, <1>5

LEMMA CallCounted ==
    ASSUME ClientTypeOK, MaxConnects <= 1, NEW op \in Calls, MayCall(op), Counted(op)
    PROVE  /\ calls' \in [Calls -> Nat] /\ calls'["connect"] <= 1
           /\ op = "connect" => calls["connect"] = 0 /\ calls'["connect"] = 1
           /\ op # "connect" => calls'["connect"] = calls["connect"]
  <1>1. calls \in [Calls -> Nat] /\ calls["connect"] <= 1 /\ "connect" \in Calls
    BY DEF ClientTypeOK, Calls
  <1>2. calls' = [calls EXCEPT ![op] = @ + 1]
    BY DEF Counted
  <1>3. op = "connect" => calls["connect"] < MaxConnects
    BY DEF MayCall
  <1>4. op = "connect" => calls["connect"] = 0
    BY <1>1, <1>3, ClientAssumption
  <1> QED
    BY <1>1, <1>2, <1>4

LEMMA UserCallStep ==
    ASSUME ClientInv, MaxConnects <= 1, NEW op \in UserCalls, UserCall(op)
    PROVE  ClientInv'
  <1> USE DEF ClientInv
  <1>1. /\ ucall = NoCall /\ ucall' = [op |-> op, pc |-> "connect_"] /\ client.alive
        /\ client' = [client EXCEPT !.connect_ = (op = "connect")]
        /\ UNCHANGED <<connector, raw, net, connVars, pending, batch, active, lpc,
                       restarting, bad>>
    BY DEF UserCall, MayCall
  <1>2. op \in Calls
    BY ClientAssumption
  <1>3. /\ calls' \in [Calls -> Nat] /\ calls'["connect"] <= 1
        /\ op = "connect" => calls["connect"] = 0 /\ calls'["connect"] = 1
        /\ op # "connect" => calls'["connect"] = calls["connect"]
    BY <1>2, CallCounted DEF UserCall
  <1>4. /\ client' \in Clients
        /\ client'.connection_ = client.connection_ /\ client'.alive = client.alive
    BY <1>1 DEF ClientTypeOK, Clients
  <1>5. Queued' = Queued /\ Distinct(pending, batch)'
    BY <1>1 DEF Queued, OnceQueued
  <1>6. ClientTypeOK'
    BY <1>1, <1>3, <1>4 DEF ClientTypeOK, connVars
  <1>7. OnceQueued' /\ (Startable' => Startable)
    BY <1>1, <1>3, <1>5 DEF OnceQueued, Startable, IsQueued, NoCall
  <1>8. SocketsOwned' /\ Fresh' /\ Trying' /\ Reconnecting' /\ (bad = {})'
    BY <1>1, <1>4, <1>5, <1>7 DEF SocketsOwned, Fresh, Trying, Reconnecting, IsQueued, connVars
  <1>9. Phases' /\ Up' /\ Lives'
    BY <1>1, <1>4, <1>5 DEF Phases, Up, Lives, Owned, IsQueued, connVars
  <1>10. Backed'
    BY <1>1, <1>4, <1>5 DEF Backed, connVars
  <1> QED
    BY <1>6, <1>7, <1>8, <1>9, <1>10

(* A functor of the Connector is queued: stopInLoop, and the startInLoop   *)
(* of the one connect().                                                   *)
LEMMA CallQueued ==
    ASSUME ClientInv, client.alive, NEW fn \in {"startInLoop", "stopInLoop"},
           fn = "startInLoop" => ~IsQueued("startInLoop"),
           pending' = Append(pending, Functor(fn, None)), UNCHANGED batch
    PROVE  /\ pending' \in Seq(Functors) /\ Distinct(pending, batch)'
           /\ Entries(pending') = Entries(pending) \cup {Functor(fn, None)}
           /\ Queued' = Queued \cup {Functor(fn, None)}
  <1>1. Functor(fn, None) \in Functors /\ Functor(fn, None).fn = fn
    BY FunctorsIn DEF ConnectorFunctors
  <1>2. Functor(fn, None).fn \in SingleUse => Functor(fn, None) \notin Entries(pending) \cup Entries(batch)
    BY <1>1 DEF SingleUse, IsQueued, Queued
  <1> QED
    BY <1>1, <1>2, Pushed DEF ClientInv, ClientTypeOK, OnceQueued, Queued

LEMMA UserCallRestStep ==
    ASSUME ClientInv, UserCallRest
    PROVE  ClientInv'
  <1> USE DEF ClientInv
  <1>1. UNCHANGED <<client, raw, net, connVars, batch, active, lpc, restarting, calls, bad>>
    BY DEF UserCallRest
  <1>2. ucall \in [op : UserCalls, pc : {"connect_", "queue"}] \cup {NoCall} /\ NoCall.pc = "none"
    BY DEF ClientTypeOK, NoCall
  <1>3. CASE ucall.pc = "connect_"
    <2>1. /\ connector' = [connector EXCEPT !.connect_ = (ucall.op = "connect")]
          /\ ucall' = [ucall EXCEPT !.pc = "queue"] /\ UNCHANGED pending
      BY <1>3 DEF UserCallRest
    <2>2. /\ ucall' \in [op : UserCalls, pc : {"connect_", "queue"}] /\ ucall'.op = ucall.op
          /\ ucall # NoCall
      BY <1>2, <1>3, <2>1
    <2>3. /\ connector' \in Connectors
          /\ connector'.state_ = connector.state_ /\ connector'.channel_ = connector.channel_
          /\ connector'.alive = connector.alive
      BY <2>1 DEF ClientTypeOK, Connectors
    <2>4. Queued' = Queued /\ Distinct(pending, batch)'
      BY <1>1, <2>1 DEF Queued, OnceQueued
    <2>5. ClientTypeOK'
      BY <1>1, <2>1, <2>2, <2>3 DEF ClientTypeOK, connVars
    <2>6. OnceQueued' /\ (Startable' => Startable)
      BY <1>1, <2>2, <2>4 DEF OnceQueued, Startable, IsQueued
    <2>7. SocketsOwned' /\ Fresh' /\ Trying' /\ Reconnecting' /\ (bad = {})'
      BY <1>1, <2>3, <2>4, <2>6 DEF SocketsOwned, Fresh, Trying, Reconnecting, IsQueued, connVars
    <2>8. Phases' /\ Up' /\ Lives' /\ Backed'
      BY <1>1, <2>1, <2>2, <2>3, <2>4 DEF Phases, Up, Lives, Owned, Backed, IsQueued, connVars
    <2> QED
      BY <2>5, <2>6, <2>7, <2>8
  <1>4. CASE ucall.pc = "queue"
    <2> DEFINE fn == IF ucall.op = "connect" THEN "startInLoop" ELSE "stopInLoop"
    <2>1. /\ pending' = Append(pending, Functor(fn, None))
          /\ ucall' = NoCall /\ UNCHANGED connector /\ ucall # NoCall
      BY <1>2, <1>4 DEF UserCallRest
    <2>2. client.alive
      BY <2>1 DEF Backed
    <2>3. fn \in {"startInLoop", "stopInLoop"} /\ (fn = "startInLoop" => ucall.op = "connect")
      OBVIOUS
    <2>4. fn = "startInLoop" => ~IsQueued("startInLoop")
      BY <2>3 DEF OnceQueued
    <2>5. calls["connect"] = 0 => fn # "startInLoop"
      BY <2>3 DEF OnceQueued
    <2>6. Functor(fn, None).fn = fn
      BY FunctorsIn
    <2> HIDE DEF fn
    <2>7. /\ pending' \in Seq(Functors) /\ Distinct(pending, batch)'
          /\ Entries(pending') = Entries(pending) \cup {Functor(fn, None)}
          /\ Queued' = Queued \cup {Functor(fn, None)}
      BY <1>1, <2>1, <2>2, <2>3, <2>4, CallQueued
    <2>8. ClientTypeOK'
      BY <1>1, <2>1, <2>7 DEF ClientTypeOK, connVars
    <2>9. OnceQueued' /\ (Startable' => Startable) /\ (IsQueued("resetChannel")' <=> IsQueued("resetChannel"))
      BY <1>1, <2>1, <2>3, <2>5, <2>6, <2>7 DEF OnceQueued, Startable, IsQueued, NoCall
    <2>10. SocketsOwned' /\ Fresh' /\ Trying' /\ Reconnecting' /\ (bad = {})'
      BY <1>1, <2>1, <2>9 DEF SocketsOwned, Fresh, Trying, Reconnecting, connVars
    <2>11. ASSUME NEW s, NEW g \in OwningFunctors
           PROVE Functor(g, s) \in Queued' <=> Functor(g, s) \in Queued
      BY <2>3, <2>6, <2>7, FunctorsIn DEF OwningFunctors
    <2>12. Phases' /\ Up' /\ Lives'
      BY <1>1, <2>1, <2>3, <2>6, <2>7, <2>9, <2>11
         DEF Phases, Up, Lives, Owned, OwningFunctors, connVars
    <2>13. Backed'
      BY <1>1, <2>1, <2>2, <2>11 DEF Backed, OwningFunctors, connVars
    <2> QED
      BY <2>8, <2>9, <2>10, <2>12, <2>13
  <1> QED
    BY <1>3, <1>4 DEF UserCallRest

(* With no connection and no attempt no channel is active, and no          *)
(* descriptor is open.                                                     *)
LEMMA Quiet ==
    ASSUME ClientInv, client.connection_ = None, client.alive,
           connector.state_ # "kConnecting"
    PROVE  active = {} /\ raw = {} /\ \A s \in made : ~Open(con[s])
  <1>1. \A s \in made : s # None
    BY DEF ClientInv, ClientTypeOK, Sockets, None
  <1>2. \A s \in made : ~Open(con[s])
    BY <1>1 DEF ClientInv, Lives, Owned, Open, Down, Dead, Shut
  <1> QED
    BY <1>2 DEF ClientInv, Backed, SocketsOwned

(* What StartInLoop leaves: an attempt with a descriptor nobody else has,  *)
(* or nothing.                                                             *)
LEMMA Started ==
    ASSUME ClientInv, NEW k \in Connectors, StartInLoop(k),
           k.state_ = "kDisconnected", k.channel_ = None,
           client.connection_ = None, client.alive, connector.state_ # "kConnecting"
    PROVE  /\ bad' = {} /\ connector' \in Connectors /\ connector'.alive = k.alive
           /\ net' \in [Sockets -> {"pending", "ok", "failed"}]
           /\ \/ /\ connector'.state_ = "kDisconnected" /\ connector'.channel_ = None
                 /\ raw' = {} /\ made' = made
              \/ \E s \in Sockets :
                    /\ ~Alive(s) /\ raw' = {s} /\ made' = made \ {s}
                    /\ connector'.state_ = "kConnecting" /\ connector'.channel_ = s
  <1>1. bad = {} /\ raw = {} /\ net \in [Sockets -> {"pending", "ok", "failed"}]
    BY Quiet DEF ClientInv, ClientTypeOK
  <1>2. CASE connector' = k /\ bad' = bad \cup Check(k.state_ = "kDisconnected", "startInLoop")
             /\ UNCHANGED <<raw, net, made>>
    BY <1>1, <1>2 DEF Check
  <1>3. CASE Connect(k, Check(k.state_ = "kDisconnected", "startInLoop"))
    <2>0. Check(k.state_ = "kDisconnected", "startInLoop") = {}
      BY DEF Check
    <2>1. CASE connector' = [k EXCEPT !.state_ = "kDisconnected"] /\ bad' = bad \cup {}
               /\ UNCHANGED <<raw, net, made>>
      BY <1>1, <2>1 DEF Connectors
    <2>2. ASSUME NEW s \in Free,
                 connector' = [k EXCEPT !.state_ = "kConnecting", !.channel_ = s],
                 raw' = raw \cup {s}, net' = [net EXCEPT ![s] = "pending"],
                 made' = made \ {s}, bad' = bad \cup {} \cup Check(k.channel_ = None, "connecting")
          PROVE  /\ bad' = {} /\ connector' \in Connectors /\ connector'.alive = k.alive
                 /\ net' \in [Sockets -> {"pending", "ok", "failed"}]
                 /\ s \in Sockets /\ ~Alive(s) /\ raw' = {s} /\ made' = made \ {s}
                 /\ connector'.state_ = "kConnecting" /\ connector'.channel_ = s
      <3>1. s \in Sockets /\ ~Alive(s)
        BY DEF Free
      <3>2. /\ connector' \in Connectors /\ connector'.alive = k.alive
            /\ connector'.state_ = "kConnecting" /\ connector'.channel_ = s
        BY <2>2, <3>1 DEF Connectors
      <3>3. net' \in [Sockets -> {"pending", "ok", "failed"}]
        BY <2>2, <3>1, <1>1
      <3> QED
        BY <1>1, <2>2, <3>1, <3>2, <3>3 DEF Check
    <2> QED
      BY <1>3, <2>0, <2>1, <2>2 DEF Connect
  <1> QED
    BY <1>2, <1>3 DEF StartInLoop

(* The one connect() or a restart: startInLoop begins an attempt.          *)
LEMMA StartStep ==
    ASSUME ClientInv, NEW k \in Connectors, StartInLoop(k),
           k.state_ = "kDisconnected", k.channel_ = None, k.alive = connector.alive,
           client.connection_ = None, client.alive, connector.state_ # "kConnecting",
           client' \in Clients, client'.connection_ = None, client'.alive,
           restarting' = FALSE, UNCHANGED <<con, closeCallback_, peer, pending, active, lpc>>,
           batch' \in Seq(Functors), Distinct(pending', batch'), batch' # <<>> => lpc = "run",
           \A g \in OwningFunctors, s \in Sockets :
               Functor(g, s) \in Queued' <=> Functor(g, s) \in Queued,
           ~IsQueued("resetChannel")', ~Startable',
           ucall' \in [op : UserCalls, pc : {"connect_", "queue"}] \cup {NoCall},
           calls' \in [Calls -> Nat], calls'["connect"] <= 1
    PROVE  ClientInv'
  <1> USE DEF ClientInv
  <1>1. /\ bad' = {} /\ connector' \in Connectors /\ connector'.alive = k.alive
        /\ net' \in [Sockets -> {"pending", "ok", "failed"}]
        /\ \/ /\ connector'.state_ = "kDisconnected" /\ connector'.channel_ = None
              /\ raw' = {} /\ made' = made
           \/ \E s \in Sockets :
                 /\ ~Alive(s) /\ raw' = {s} /\ made' = made \ {s}
                 /\ connector'.state_ = "kConnecting" /\ connector'.channel_ = s
    BY Started
  <1>2. active = {} /\ \A s \in made : ~Open(con[s])
    BY Quiet
  <1>3. raw' \subseteq Sockets /\ made' \subseteq made
    BY <1>1
  <1>4. restarting' \in BOOLEAN /\ ~restarting'
    OBVIOUS
  <1>5. ClientTypeOK'
    BY <1>1, <1>3, <1>4 DEF ClientTypeOK
  <1>6. Phases' /\ OnceQueued' /\ Fresh' /\ Up' /\ Reconnecting'
    BY <1>2, <1>4 DEF Phases, OnceQueued, Startable, Fresh, Up, Reconnecting
  <1>7. SocketsOwned' /\ Trying'
    BY <1>1, <1>4 DEF SocketsOwned, Trying
  <1>8. ASSUME NEW s \in Sockets, NEW g \in OwningFunctors, Functor(g, s) \in Queued
        PROVE  s \in made'
    <2>1. s \in made
      BY <1>8 DEF OwningFunctors, Backed
    <2>2. Alive(s)
      BY <1>8, <2>1, FunctorsIn DEF Alive, Held
    <2> QED
      BY <2>1, <2>2, <1>1
  <1>9. Lives'
    BY <1>2, <1>3 DEF Lives, OwningFunctors, ClientTypeOK
  <1>10. Backed'
    BY <1>1, <1>2, <1>8 DEF Backed, OwningFunctors
  <1> QED
    BY <1>1, <1>5, <1>6, <1>7, <1>9, <1>10

LEMMA RestartStep ==
    ASSUME ClientInv, Restart
    PROVE  ClientInv'
  <1> DEFINE k == [connector EXCEPT !.state_ = "kDisconnected", !.connect_ = TRUE]
  <1>1. /\ restarting /\ restarting' = FALSE /\ StartInLoop(k)
        /\ UNCHANGED <<client, con, closeCallback_, peer, pending, batch, active, lpc, callVars>>
    BY DEF Restart
  <1>2. /\ client.connection_ = None /\ client.alive /\ connector.state_ # "kConnecting"
        /\ connector.channel_ = None /\ ~IsQueued("resetChannel")
    BY <1>1 DEF ClientInv, Reconnecting
  <1>3. connector \in Connectors
    BY DEF ClientInv, ClientTypeOK
  <1>4. k \in Connectors /\ k.state_ = "kDisconnected" /\ k.channel_ = None /\ k.alive = connector.alive
    <2> DEFINE j == [connector EXCEPT !.state_ = "kDisconnected"]
    <2>1. k = [j EXCEPT !.connect_ = TRUE]
      BY <1>3 DEF Connectors
    <2>2. j \in Connectors /\ j.state_ = "kDisconnected" /\ j.channel_ = None /\ j.alive = connector.alive
      BY <1>2, <1>3 DEF Connectors
    <2> HIDE DEF j
    <2> QED
      BY <2>1, <2>2 DEF Connectors
  <1> HIDE DEF k
  <1>5. Queued' = Queued /\ UNCHANGED <<ucall, calls>>
    BY <1>1 DEF Queued, callVars
  <1>6. ~Startable' /\ ~IsQueued("resetChannel")'
    BY <1>1, <1>2, <1>5 DEF ClientInv, Fresh, Startable, IsQueued
  <1>7. /\ client' \in Clients /\ batch' \in Seq(Functors) /\ Distinct(pending', batch')
        /\ (batch' # <<>> => lpc = "run")
        /\ ucall' \in [op : UserCalls, pc : {"connect_", "queue"}] \cup {NoCall}
        /\ calls' \in [Calls -> Nat] /\ calls'["connect"] <= 1
    BY <1>1, <1>5 DEF ClientInv, ClientTypeOK, OnceQueued, Phases
  <1> QED
    BY <1>1, <1>2, <1>4, <1>5, <1>6, <1>7, StartStep

LEMMA LoopConnectStep ==
    ASSUME ClientInv, MaxConnects <= 1, LoopCall("connect")
    PROVE  ClientInv'
  <1> DEFINE k == [connector EXCEPT !.connect_ = TRUE]
  <1>1. /\ MayCall("connect") /\ Counted("connect") /\ StartInLoop(k) /\ restarting = FALSE
        /\ client' = [client EXCEPT !.connect_ = TRUE]
        /\ UNCHANGED <<con, closeCallback_, peer, pending, batch, active, lpc, restarting, ucall>>
    BY DEF LoopCall, ClientInv, ClientTypeOK
  <1>2. /\ calls' \in [Calls -> Nat] /\ calls'["connect"] <= 1
        /\ calls["connect"] = 0 /\ calls'["connect"] = 1
    BY <1>1, CallCounted DEF ClientInv, Calls
  <1>3. /\ connector.state_ = "kDisconnected" /\ connector.channel_ = None
        /\ made = {} /\ client.alive /\ ~IsQueued("resetChannel")
        /\ client.connection_ = None /\ ucall.op # "connect" /\ ~IsQueued("startInLoop")
    BY <1>2 DEF ClientInv, Fresh, Startable, OnceQueued, Up
  <1>4. k \in Connectors /\ k.state_ = "kDisconnected" /\ k.channel_ = None /\ k.alive = connector.alive
    BY <1>3 DEF ClientInv, ClientTypeOK, Connectors
  <1> HIDE DEF k
  <1>5. Queued' = Queued
    BY <1>1 DEF Queued
  <1>6. ~Startable' /\ ~IsQueued("resetChannel")'
    BY <1>1, <1>2, <1>3, <1>5 DEF Startable, IsQueued
  <1>7. client' \in Clients /\ client'.connection_ = None /\ client'.alive
    BY <1>1, <1>3 DEF ClientInv, ClientTypeOK, Clients
  <1>8. /\ batch' \in Seq(Functors) /\ Distinct(pending', batch')
        /\ (batch' # <<>> => lpc = "run")
        /\ ucall' \in [op : UserCalls, pc : {"connect_", "queue"}] \cup {NoCall}
    BY <1>1 DEF ClientInv, ClientTypeOK, OnceQueued, Phases
  <1> QED
    BY <1>1, <1>2, <1>3, <1>4, <1>5, <1>6, <1>7, <1>8, StartStep

LEMMA LoopStopStep ==
    ASSUME ClientInv, MaxConnects <= 1, LoopCall("stop")
    PROVE  ClientInv'
  <1> USE DEF ClientInv
  <1>1. /\ MayCall("stop") /\ Counted("stop") /\ client.alive /\ lpc = "run"
        /\ client' = [client EXCEPT !.connect_ = FALSE]
        /\ connector' = [connector EXCEPT !.connect_ = FALSE]
        /\ pending' = Append(pending, Functor("stopInLoop", None))
        /\ UNCHANGED <<raw, net, made, con, bad, closeCallback_, peer, batch, active, lpc,
                       restarting, ucall>>
    BY DEF LoopCall, MayCall
  <1>2. /\ calls' \in [Calls -> Nat] /\ calls'["connect"] <= 1
        /\ calls'["connect"] = calls["connect"]
    BY <1>1, CallCounted DEF Calls
  <1>3. /\ client' \in Clients /\ client'.alive = client.alive
        /\ client'.connection_ = client.connection_
        /\ connector' \in Connectors /\ connector'.alive = connector.alive
        /\ connector'.state_ = connector.state_ /\ connector'.channel_ = connector.channel_
    BY <1>1 DEF ClientTypeOK, Clients, Connectors
  <1>4. /\ pending' \in Seq(Functors) /\ Distinct(pending, batch)'
        /\ Entries(pending') = Entries(pending) \cup {Functor("stopInLoop", None)}
        /\ Queued' = Queued \cup {Functor("stopInLoop", None)}
    BY <1>1, CallQueued
  <1>5. Functor("stopInLoop", None).fn = "stopInLoop"
    BY FunctorsIn
  <1>6. \A fn : fn # "stopInLoop" => (IsQueued(fn)' <=> IsQueued(fn))
    BY <1>4, <1>5 DEF IsQueued
  <1>7. ASSUME NEW s, NEW g \in OwningFunctors
        PROVE Functor(g, s) \in Queued' <=> Functor(g, s) \in Queued
    BY <1>4, <1>5, FunctorsIn DEF OwningFunctors
  <1>8. ClientTypeOK'
    BY <1>1, <1>2, <1>3, <1>4 DEF ClientTypeOK
  <1>9. OnceQueued' /\ (Startable' <=> Startable)
    BY <1>1, <1>2, <1>4, <1>6 DEF OnceQueued, Startable
  <1>10. SocketsOwned' /\ Fresh' /\ Trying' /\ Reconnecting' /\ (bad = {})'
    BY <1>1, <1>3, <1>6, <1>9 DEF SocketsOwned, Fresh, Trying, Reconnecting
  <1>11. Up'
    BY <1>1, <1>3, <1>4, <1>5, <1>6, <1>7 DEF Up, OwningFunctors
  <1>12. Phases' /\ Lives'
    BY <1>1, <1>3, <1>7 DEF Phases, Lives, Owned, OwningFunctors
  <1>13. Backed'
    BY <1>1, <1>3, <1>7 DEF Backed, OwningFunctors
  <1> QED
    BY <1>8, <1>9, <1>10, <1>11, <1>12, <1>13

LEMMA OpenNotShut ==
    ASSUME NEW k, Open(k)
    PROVE  ~Down(k) /\ ~Dead(k)
  BY DEF Open, Down, Dead, Shut

LEMMA DisconnectKeepsOpen ==
    ASSUME NEW k, Open(k), k.post = "none"
    PROVE  /\ Open(InLoopOp(k, "shutdown", FALSE))
           /\ InLoopOp(k, "shutdown", FALSE).post = "none"
  <1> DEFINE half == [k EXCEPT !.state = "kDisconnecting"]
  <1>1. Open(half) /\ half.post = "none"
    BY DEF Open, Conn
  <1>2. InLoopOp(k, "shutdown", FALSE) \in {ShutdownInLoop(half), k}
    BY DEF InLoopOp
  <1> HIDE DEF half
  <1> QED
    BY <1>1, <1>2, ShutdownKeepsOpen

LEMMA LoopDisconnectStep ==
    ASSUME ClientInv, MaxConnects <= 1, LoopCall("disconnect")
    PROVE  ClientInv'
  <1> USE DEF ClientInv
  <1> DEFINE s == client.connection_
  <1>1. /\ MayCall("disconnect") /\ Counted("disconnect") /\ client.alive /\ lpc = "run"
        /\ client' = [client EXCEPT !.connect_ = FALSE]
        /\ con' = IF s = None THEN con
                  ELSE [con EXCEPT ![s] = InLoopOp(@, "shutdown", FALSE)]
        /\ UNCHANGED <<connector, pending, raw, net, made, bad, closeCallback_, peer, batch,
                       active, lpc, restarting, ucall>>
    BY DEF LoopCall, MayCall
  <1>2. /\ calls' \in [Calls -> Nat] /\ calls'["connect"] <= 1
        /\ calls'["connect"] = calls["connect"]
    BY <1>1, CallCounted DEF Calls
  <1>3. /\ client' \in Clients /\ client'.alive = client.alive
        /\ client'.connection_ = client.connection_
    BY <1>1 DEF ClientTypeOK, Clients
  <1>4. Queued' = Queued /\ Distinct(pending, batch)'
    BY <1>1 DEF Queued, OnceQueued
  <1>5. /\ con' \in [Sockets -> Conn]
        /\ \A t \in Sockets : con'[t] = con[t] \/ (t = s /\ s \in made /\ Open(con[s]))
        /\ s # None => Open(con'[s]) /\ con'[s].post = "none"
    <2>1. CASE s = None
      BY <1>1, <2>1 DEF ClientTypeOK
    <2>2. CASE s # None
      <3>1. s \in made /\ s \in Sockets /\ Open(con[s]) /\ con[s].post = "none"
        BY <2>2 DEF Up, Lives, ClientTypeOK
      <3>2. Open(InLoopOp(con[s], "shutdown", FALSE)) /\ InLoopOp(con[s], "shutdown", FALSE).post = "none"
        BY <3>1, DisconnectKeepsOpen
      <3>3. con' = [con EXCEPT ![s] = InLoopOp(con[s], "shutdown", FALSE)]
        BY <1>1, <2>2
      <3>4. InLoopOp(con[s], "shutdown", FALSE) \in Conn
        BY <3>2 DEF Open
      <3> QED
        BY <2>2, <3>1, <3>2, <3>3, <3>4 DEF ClientTypeOK
    <2> QED
      BY <2>1, <2>2
  <1>6. \A t \in made : \/ con'[t] = con[t]
                        \/ Open(con[t]) /\ Open(con'[t]) /\ con'[t].post = "none"
    <2>1. \A t \in made : t \in Sockets /\ t # None
      BY DEF ClientTypeOK, Sockets, None
    <2> HIDE DEF s
    <2> QED
      BY <1>5, <2>1
  <1>7. ClientTypeOK'
    BY <1>1, <1>2, <1>3, <1>5 DEF ClientTypeOK
  <1>8. OnceQueued' /\ (Startable' <=> Startable)
    BY <1>1, <1>2, <1>4 DEF OnceQueued, Startable, IsQueued
  <1>9. SocketsOwned' /\ Phases' /\ Fresh' /\ Trying' /\ Reconnecting' /\ (bad = {})'
    BY <1>1, <1>3, <1>4, <1>8 DEF SocketsOwned, Phases, Fresh, Trying, Reconnecting, IsQueued
  <1>10. UNCHANGED <<connector, pending, made, active, lpc, restarting>>
    BY <1>1
  <1>11. Up'
    <2>1. client'.connection_ # None => Open(con'[client'.connection_])
      BY <1>3, <1>5
    <2> QED
      BY <1>3, <1>4, <1>10, <2>1 DEF Up, IsQueued
  <1>12. Lives'
    <2>1. \A t \in made : Owned(t)' <=> Owned(t)
      BY <1>1, <1>3, <1>4 DEF Owned
    <2> QED
      BY <1>1, <1>4, <1>6, <2>1, OpenNotShut DEF Lives
  <1>13. Backed'
    <2>1. \A t \in made : Down(con[t]) => con'[t] = con[t]
      BY <1>6 DEF Open, Down, Shut
    <2>2. \A t \in made : Open(con[t]) => Open(con'[t])
      BY <1>6
    <2>3. \A t \in Sockets : Functor("connectDestroyed", t) \in Queued' => t \in made' /\ Down(con'[t])
      BY <1>1, <1>4, <2>1 DEF Backed
    <2> QED
      BY <1>1, <1>3, <1>4, <2>2, <2>3 DEF Backed
  <1> QED
    BY <1>7, <1>8, <1>9, <1>11, <1>12, <1>13

(* The next functor leaves the queue; what else is queued stays.           *)
LEMMA Taken ==
    ASSUME ClientInv, batch # <<>>
    PROVE  /\ Tail(batch) \in Seq(Functors) /\ Head(batch) \in Functors
           /\ Distinct(pending, Tail(batch)) /\ lpc = "run" /\ active = {}
           /\ Entries(Tail(batch)) \subseteq Entries(batch)
           /\ Queued = Entries(pending) \cup Entries(Tail(batch)) \cup {Head(batch)}
           /\ Head(batch).fn \in SingleUse =>
                 Head(batch) \notin Entries(pending) \cup Entries(Tail(batch))
           /\ Head(batch) \in Queued
  <1>1. pending \in Seq(Functors) /\ batch \in Seq(Functors) /\ Distinct(pending, batch)
    BY DEF ClientInv, ClientTypeOK, OnceQueued
  <1>2. lpc = "run" /\ active = {}
    BY DEF ClientInv, Phases
  <1> QED
    BY <1>1, <1>2, Popped DEF Queued

LEMMA RunStartStep ==
    ASSUME ClientInv, RunFunctor, Head(batch).fn = "startInLoop"
    PROVE  ClientInv'
  <1>1. /\ batch # <<>> /\ batch' = Tail(batch) /\ ~restarting
        /\ RunConnectorFunctor("startInLoop") /\ UNCHANGED <<active, lpc, callVars>>
    BY DEF RunFunctor, ConnectorFunctors
  <1>2. /\ Tail(batch) \in Seq(Functors) /\ Head(batch) \in Functors
        /\ Distinct(pending, Tail(batch)) /\ lpc = "run"
        /\ Queued = Entries(pending) \cup Entries(Tail(batch)) \cup {Head(batch)}
        /\ Head(batch) \notin Entries(pending) \cup Entries(Tail(batch))
        /\ Head(batch) \in Queued
    BY <1>1, Taken DEF SingleUse
  <1>3. IsQueued("startInLoop")
    BY <1>2 DEF IsQueued
  <1>4. /\ connector.state_ = "kDisconnected" /\ connector.channel_ = None
        /\ made = {} /\ client.alive /\ ~IsQueued("resetChannel") /\ connector.alive
        /\ client.connection_ = None /\ ucall.op # "connect" /\ calls["connect"] # 0
    BY <1>3 DEF ClientInv, Fresh, Startable, OnceQueued, Up, Backed
  <1>5. /\ StartInLoop(connector) /\ UNCHANGED <<pending, client, con, closeCallback_, peer>>
        /\ restarting' = restarting
    BY <1>1, <1>4 DEF RunConnectorFunctor
  <1>6. restarting' = FALSE
    BY <1>1, <1>5 DEF ClientInv, ClientTypeOK
  <1>7. Queued' = Entries(pending) \cup Entries(Tail(batch))
    BY <1>1, <1>5 DEF Queued
  <1>8. ~IsQueued("startInLoop")' /\ ~IsQueued("resetChannel")'
    <2>1. ASSUME NEW f \in Queued', f.fn = "startInLoop" PROVE FALSE
      <3>1. f \in Functors
        BY <1>2, <1>7, QueueTyped DEF ClientInv
      <3>2. f = Head(batch)
        BY <2>1, <3>1, <1>2, FunctorKinds DEF ConnectorFunctors
      <3> QED
        BY <3>2, <1>2, <1>7
    <2> QED
      BY <2>1, <1>2, <1>4, <1>7 DEF IsQueued
  <1>9. ~Startable'
    BY <1>1, <1>4, <1>8 DEF Startable, callVars
  <1>10. ASSUME NEW g \in OwningFunctors, NEW s \in Sockets
         PROVE  Functor(g, s) \in Queued' <=> Functor(g, s) \in Queued
    BY <1>2, <1>7, FunctorsIn DEF OwningFunctors
  <1>11. /\ client' \in Clients /\ connector \in Connectors
         /\ ucall' \in [op : UserCalls, pc : {"connect_", "queue"}] \cup {NoCall}
         /\ calls' \in [Calls -> Nat] /\ calls'["connect"] <= 1
    BY <1>1, <1>5 DEF ClientInv, ClientTypeOK, callVars
  <1>12. /\ batch' \in Seq(Functors) /\ Distinct(pending', batch')
         /\ (batch' # <<>> => lpc = "run")
    BY <1>1, <1>2, <1>5
  <1> QED
    BY <1>1, <1>4, <1>5, <1>6, <1>8, <1>9, <1>10, <1>11, <1>12, StartStep

LEMMA RunStopStep ==
    ASSUME ClientInv, RunFunctor, Head(batch).fn = "stopInLoop"
    PROVE  ClientInv'
  <1> USE DEF ClientInv
  <1>1. /\ batch # <<>> /\ batch' = Tail(batch) /\ ~restarting
        /\ RunConnectorFunctor("stopInLoop") /\ UNCHANGED <<active, lpc, callVars>>
    BY DEF RunFunctor, ConnectorFunctors
  <1>2. /\ Tail(batch) \in Seq(Functors)
        /\ Distinct(pending, Tail(batch)) /\ lpc = "run" /\ active = {}
        /\ Entries(Tail(batch)) \subseteq Entries(batch)
        /\ Queued = Entries(pending) \cup Entries(Tail(batch)) \cup {Head(batch)}
        /\ Head(batch) \in Queued
    BY <1>1, Taken
  <1>3. client.alive /\ connector.alive
    BY <1>2 DEF Backed, ConnectorFunctors
  <1>4. /\ StopInLoop /\ UNCHANGED <<net, client, connVars, restarting>>
    BY <1>1, <1>3 DEF RunConnectorFunctor, connVars
  <1>5. /\ batch' \in Seq(Functors) /\ Phases' /\ active' = {}
    BY <1>1, <1>2 DEF Phases
  <1>6. CASE connector.state_ # "kConnecting"
    <2>1. UNCHANGED <<connector, raw, bad, pending>>
      BY <1>4, <1>6 DEF StopInLoop
    <2>2. /\ Queued' = Entries(pending) \cup Entries(Tail(batch)) /\ Queued' \subseteq Queued
          /\ Distinct(pending, batch)'
      BY <1>1, <1>2, <2>1 DEF Queued
    <2>3. \A fn : fn # "stopInLoop" => (IsQueued(fn)' <=> IsQueued(fn))
      BY <1>2, <2>2 DEF IsQueued
    <2>4. ASSUME NEW s, NEW g \in OwningFunctors
          PROVE Functor(g, s) \in Queued' <=> Functor(g, s) \in Queued
      BY <1>2, <2>2, FunctorsIn DEF OwningFunctors
    <2>5. ClientTypeOK'
      BY <1>1, <1>4, <1>5, <2>1 DEF ClientTypeOK, connVars, callVars
    <2>6. OnceQueued' /\ (Startable' <=> Startable)
      BY <1>1, <2>2, <2>3 DEF OnceQueued, Startable, callVars
    <2>7. SocketsOwned' /\ Fresh' /\ Trying' /\ Reconnecting' /\ (bad = {})'
      BY <1>4, <2>1, <2>3, <2>6 DEF SocketsOwned, Fresh, Trying, Reconnecting, connVars
    <2>8. Up'
      BY <1>1, <1>4, <2>1, <2>3, <2>4 DEF Up, OwningFunctors, connVars
    <2>9. Lives'
      BY <1>4, <2>4 DEF Lives, Owned, OwningFunctors, connVars
    <2>10. Backed'
      BY <1>1, <1>2, <1>3, <1>4, <2>1, <2>4 DEF Backed, OwningFunctors, connVars
    <2> QED
      BY <1>5, <2>5, <2>6, <2>7, <2>8, <2>9, <2>10
  <1>7. CASE connector.state_ = "kConnecting"
    <2> DEFINE f == Functor("resetChannel", None)
    <2>1. /\ connector' = [connector EXCEPT !.state_ = "kDisconnected"]
          /\ raw' = raw \ {connector.channel_}
          /\ bad' = bad \cup Check(connector.channel_ \in raw, "close")
          /\ pending' = Append(pending, f)
      BY <1>4, <1>7 DEF StopInLoop, Retried
    <2>2. /\ client.connection_ = None /\ raw = {connector.channel_} /\ ~restarting
          /\ ~Startable
      BY <1>7 DEF Trying, SocketsOwned, Fresh
    <2>3. connector' \in Connectors /\ connector'.state_ = "kDisconnected"
          /\ connector'.alive = connector.alive
      BY <2>1 DEF ClientTypeOK, Connectors
    <2>4. raw' = {} /\ bad' = {}
      BY <2>1, <2>2 DEF Check
    <2>5. f \in Functors /\ f.fn = "resetChannel" /\ pending \in Seq(Functors)
      BY FunctorsIn DEF ConnectorFunctors, ClientTypeOK
    <2>6. /\ Append(pending, f) \in Seq(Functors)
          /\ Entries(Append(pending, f)) = Entries(pending) \cup {f}
          /\ Distinct(Append(pending, f), Tail(batch))
      BY <1>2, <2>5, Pushed DEF SingleUse
    <2> HIDE DEF f
    <2>7. /\ Queued' = Entries(pending) \cup {f} \cup Entries(Tail(batch))
          /\ Distinct(pending, batch)'
      BY <1>1, <2>1, <2>6 DEF Queued
    <2>8. \A fn : fn \notin {"stopInLoop", "resetChannel"} => (IsQueued(fn)' <=> IsQueued(fn))
      BY <1>2, <2>5, <2>7 DEF IsQueued
    <2>9. ASSUME NEW s, NEW g \in OwningFunctors
          PROVE Functor(g, s) \in Queued' <=> Functor(g, s) \in Queued
      BY <1>2, <2>5, <2>7, FunctorsIn DEF OwningFunctors
    <2>10. ClientTypeOK'
      BY <1>1, <1>4, <1>5, <2>1, <2>3, <2>4, <2>6 DEF ClientTypeOK, connVars, callVars
    <2>11. OnceQueued' /\ ~Startable'
      BY <1>1, <2>2, <2>7, <2>8 DEF OnceQueued, Startable, callVars
    <2>12. SocketsOwned' /\ Fresh' /\ Trying' /\ Reconnecting' /\ Up'
      BY <1>4, <2>2, <2>3, <2>4, <2>11 DEF SocketsOwned, Fresh, Trying, Reconnecting, Up
    <2>13. Lives'
      BY <1>4, <2>9 DEF Lives, Owned, OwningFunctors, connVars
    <2>14. Backed'
      BY <1>1, <1>2, <1>3, <1>4, <2>3, <2>9 DEF Backed, OwningFunctors, connVars
    <2> QED
      BY <1>5, <2>4, <2>10, <2>11, <2>12, <2>13, <2>14
  <1> QED
    BY <1>6, <1>7

LEMMA RunResetStep ==
    ASSUME ClientInv, RunFunctor, Head(batch).fn = "resetChannel"
    PROVE  ClientInv'
  <1> USE DEF ClientInv
  <1>1. /\ batch # <<>> /\ batch' = Tail(batch) /\ ~restarting
        /\ RunConnectorFunctor("resetChannel") /\ UNCHANGED <<active, lpc, callVars>>
    BY DEF RunFunctor, ConnectorFunctors
  <1>2. /\ Tail(batch) \in Seq(Functors)
        /\ Distinct(pending, Tail(batch)) /\ lpc = "run" /\ active = {}
        /\ Queued = Entries(pending) \cup Entries(Tail(batch)) \cup {Head(batch)}
        /\ Head(batch) \in Queued
    BY <1>1, Taken
  <1>3. client.alive /\ connector.alive /\ IsQueued("resetChannel")
    BY <1>2 DEF Backed, ConnectorFunctors, IsQueued
  <1>4. /\ connector' = [connector EXCEPT !.channel_ = None]
        /\ UNCHANGED <<client, raw, net, connVars, pending, restarting, bad>>
    BY <1>1, <1>3 DEF RunConnectorFunctor, connVars
  <1>5. connector' \in Connectors /\ connector'.state_ = connector.state_
        /\ connector'.alive = connector.alive /\ connector'.channel_ = None
    BY <1>4 DEF ClientTypeOK, Connectors
  <1>6. connector.state_ # "kConnecting" /\ ~Startable
    BY <1>3 DEF Trying, Fresh
  <1>7. /\ Queued' = Entries(pending) \cup Entries(Tail(batch)) /\ Queued' \subseteq Queued
        /\ Distinct(pending, batch)'
    BY <1>1, <1>2, <1>4 DEF Queued
  <1>8. \A fn : IsQueued(fn)' => IsQueued(fn)
    BY <1>7 DEF IsQueued
  <1>9. ASSUME NEW s, NEW g \in OwningFunctors
        PROVE Functor(g, s) \in Queued' <=> Functor(g, s) \in Queued
    BY <1>2, <1>7, FunctorsIn DEF OwningFunctors
  <1>10. ClientTypeOK' /\ Phases'
    BY <1>1, <1>2, <1>4, <1>5 DEF ClientTypeOK, Phases, connVars, callVars
  <1>11. OnceQueued' /\ ~Startable'
    BY <1>1, <1>6, <1>7, <1>8 DEF OnceQueued, Startable, callVars
  <1>12. SocketsOwned' /\ Fresh' /\ Trying' /\ Reconnecting' /\ (bad = {})'
    BY <1>4, <1>5, <1>6, <1>8, <1>11 DEF SocketsOwned, Fresh, Trying, Reconnecting
  <1>13. Up'
    BY <1>1, <1>2, <1>4, <1>5, <1>8, <1>9 DEF Up, OwningFunctors, connVars
  <1>14. Lives'
    BY <1>4, <1>9 DEF Lives, Owned, OwningFunctors, connVars
  <1>15. Backed'
    BY <1>1, <1>2, <1>3, <1>4, <1>5, <1>9 DEF Backed, OwningFunctors, connVars
  <1> QED
    BY <1>10, <1>11, <1>12, <1>13, <1>14, <1>15

(* An open connection closes: removeConnection queues connectDestroyed and *)
(* the client, if there still is one, lets go of it.                       *)
LEMMA CloseStep ==
    ASSUME ClientInv, NEW s \in made, NEW k, Open(con[s]), Down(k), k.post = "removeConnection",
           Commit(s, k), client.alive => ~IsQueued("resetChannel"),
           NEW b \in Seq(Functors), batch' = b, Distinct(pending, b), Entries(b) \subseteq Entries(batch),
           \A f \in Queued : f # Functor("forceCloseInLoop", s) => f \in Entries(pending) \cup Entries(b),
           active' \subseteq active, [who |-> "connection", s |-> s] \notin active',
           batch' # <<>> => lpc = "run",
           UNCHANGED <<connector, raw, net, lpc, callVars>>
    PROVE  ClientInv'
  <1> USE DEF ClientInv
  <1> DEFINE f == Functor("connectDestroyed", s)
  <1>1. /\ con' = [con EXCEPT ![s] = Cleared(k)] /\ pending' = Append(pending, f)
        /\ client' = IF closeCallback_[s] = "client" THEN [client EXCEPT !.connection_ = None]
                     ELSE client
        /\ restarting' = (closeCallback_[s] = "client" /\ Retry /\ client.connect_)
        /\ bad' = bad \cup Check(closeCallback_[s] = "client" => client.alive, "client destroyed")
                      \cup Check(closeCallback_[s] = "client" => client.connection_ = s, "removeConnection")
        /\ UNCHANGED <<made, closeCallback_, peer>>
    BY DEF Commit, Cleared
  <1>2. s \in Sockets /\ s # None /\ con \in [Sockets -> Conn] /\ client \in Clients
    BY DEF ClientTypeOK, Sockets, None
  <1>3. Owned(s)
    BY OpenNotShut DEF Lives
  <1>4. /\ (closeCallback_[s] = "client") <=> client.alive
        /\ client.alive => client.connection_ = s
        /\ ~client.alive => client.connection_ = None
    BY <1>3 DEF Owned, Up
  <1>5. bad' = {}
    BY <1>1, <1>4 DEF Check
  <1>6. client' \in Clients /\ client'.connection_ = None /\ client'.alive = client.alive
    BY <1>1, <1>2, <1>4 DEF Clients
  <1>7. connector.state_ # "kConnecting" /\ ~Startable
    BY <1>2, <1>4 DEF Trying, Fresh
  <1>8. restarting' \in BOOLEAN /\ (restarting' => client.alive)
    BY <1>1, <1>4
  <1>9. connector.channel_ = None \/ ~client.alive
    BY <1>2, <1>4 DEF Up
  <1>10. k \in Conn /\ Down(Cleared(k)) /\ Cleared(k).post = "none" /\ Cleared(k) \in Conn
    BY ClearedSame DEF Down, Shut
  <1>11. /\ con' \in [Sockets -> Conn] /\ Down(con'[s]) /\ con'[s].post = "none"
         /\ \A t \in Sockets : t # s => con'[t] = con[t]
    BY <1>1, <1>2, <1>10
  <1>12. f \in Functors /\ f.fn = "connectDestroyed" /\ f.c = s
    BY <1>2, FunctorsIn
  <1>13. f \notin Queued
    BY <1>2, OpenNotShut DEF Backed
  <1>14. f \notin Entries(pending) \cup Entries(b)
    BY <1>13 DEF Queued
  <1> HIDE DEF f
  <1>15. /\ pending' \in Seq(Functors) /\ Entries(pending') = Entries(pending) \cup {f}
         /\ Distinct(pending', b)
    BY <1>1, <1>12, <1>14, Pushed DEF ClientTypeOK
  <1>16. /\ Queued' = Entries(pending) \cup Entries(b) \cup {f}
         /\ Queued' \subseteq Queued \cup {f}
         /\ \A g \in Queued : g # Functor("forceCloseInLoop", s) => g \in Queued'
    BY <1>15 DEF Queued
  <1>17. \A fn \in ConnectorFunctors : IsQueued(fn)' <=> IsQueued(fn)
    BY <1>12, <1>16, FunctorsIn DEF IsQueued, ConnectorFunctors
  <1>18. ~Startable' /\ (client.alive => ~IsQueued("resetChannel")')
    BY <1>7, <1>17 DEF Startable, ConnectorFunctors, callVars
  <1>19. ClientTypeOK'
    <2>1. active' \subseteq [who : {"connector", "connection"}, s : Sockets]
      BY DEF ClientTypeOK
    <2>2. UNCHANGED <<ucall, calls, connector, raw, net, lpc, made, closeCallback_, peer>>
      BY <1>1 DEF callVars
    <2> QED
      BY <1>6, <1>8, <1>11, <1>15, <2>1, <2>2 DEF ClientTypeOK
  <1>20. Phases' /\ OnceQueued' /\ SocketsOwned'
    BY <1>7, <1>15, <1>18 DEF Phases, OnceQueued, Startable, SocketsOwned
  <1>21. Fresh' /\ Trying' /\ Up'
    BY <1>6, <1>7, <1>18 DEF Fresh, Trying, Up
  <1>22. Reconnecting'
    BY <1>6, <1>7, <1>8, <1>9, <1>18 DEF Reconnecting
  <1>23. Lives'
    <2> SUFFICES ASSUME NEW t \in made
                 PROVE  /\ con'[t].post = "none"
                        /\ \/ Open(con'[t]) /\ Owned(t)'
                           \/ Down(con'[t]) /\ Functor("connectDestroyed", t) \in Queued'
                           \/ Dead(con'[t])
      BY <1>1 DEF Lives
    <2>1. CASE t = s
      BY <2>1, <1>11, <1>16 DEF f
    <2>2. CASE t # s
      <3>1. ~Open(con[t]) \/ ~client.alive
        BY <2>2, <1>4, OpenNotShut DEF Lives, Owned
      <3>2. t \in Sockets /\ con'[t] = con[t]
        BY <2>2, <1>11 DEF ClientTypeOK
      <3>3. /\ Functor("connectDestroyed", t) # Functor("forceCloseInLoop", s)
            /\ Functor("forceCloseInLoop", t) # Functor("forceCloseInLoop", s)
        BY <2>2, FunctorsIn
      <3>4. \A g \in {Functor("connectDestroyed", t), Functor("forceCloseInLoop", t)} :
               g \in Queued => g \in Queued'
        BY <1>16, <3>3
      <3>5. Owned(t) /\ ~client.alive => Owned(t)'
        BY <1>1, <1>6, <3>4 DEF Owned
      <3> QED
        BY <3>1, <3>2, <3>4, <3>5 DEF Lives
    <2> QED
      BY <2>1, <2>2
  <1>24. Backed'
    <2>1. ASSUME NEW t \in Sockets, Functor("connectDestroyed", t) \in Queued'
          PROVE  t \in made /\ Down(con'[t])
      <3>1. CASE t = s
        BY <3>1, <1>11
      <3>2. CASE t # s
        <4>1. Functor("connectDestroyed", t) # f
          BY <3>2, <1>12, FunctorsIn
        <4> QED
          BY <2>1, <3>2, <4>1, <1>11, <1>16 DEF Backed
      <3> QED
        BY <3>1, <3>2
    <2>2. ASSUME NEW t \in Sockets, Functor("forceCloseInLoop", t) \in Queued'
          PROVE  t \in made
      BY <2>2, <1>12, <1>16, FunctorsIn DEF Backed
    <2>3. ASSUME NEW ch \in active'
          PROVE  ch.who = "connection" /\ ch.s \in made /\ Open(con'[ch.s])
      <3>1. ch \in active /\ ch \in [who : {"connector", "connection"}, s : Sockets]
        BY DEF ClientTypeOK
      <3>2. ch.who = "connection" /\ ch.s \in made /\ Open(con[ch.s]) /\ ch.s \in Sockets
        BY <3>1, <1>7 DEF Backed
      <3>3. ch.s # s
        BY <3>1, <3>2
      <3> QED
        BY <3>2, <3>3, <1>11
    <2>4. ~client.alive => ucall' = NoCall /\ \A g \in Queued' : g.fn \notin ConnectorFunctors
      BY <1>12, <1>16 DEF Backed, ConnectorFunctors, callVars
    <2> QED
      BY <1>1, <1>6, <2>1, <2>2, <2>3, <2>4 DEF Backed
  <1> QED
    BY <1>5, <1>19, <1>20, <1>21, <1>22, <1>23, <1>24

(* An open connection stays open; a callback may have queued its close.    *)
LEMMA StayStep ==
    ASSUME ClientInv, NEW s \in made, NEW k, Open(con[s]), Open(k),
           k.post \in {"none", "forceCloseInLoop"}, Commit(s, k),
           lpc = "handle", active # {}, active' \subseteq active,
           UNCHANGED <<connector, raw, net, batch, lpc, callVars>>
    PROVE  ClientInv'
  <1> USE DEF ClientInv
  <1> DEFINE f == Functor("forceCloseInLoop", s)
  <1>1. /\ con' = [con EXCEPT ![s] = Cleared(k)]
        /\ pending' = pending \/ pending' = Append(pending, f)
        /\ UNCHANGED <<client, restarting, bad, made, closeCallback_, peer>>
    BY DEF Commit, Cleared
  <1>2. s \in Sockets /\ con \in [Sockets -> Conn]
    BY DEF ClientTypeOK
  <1>3. k \in Conn /\ Open(Cleared(k)) /\ Cleared(k).post = "none" /\ Cleared(k) \in Conn
    BY ClearedSame DEF Open
  <1>4. /\ con' \in [Sockets -> Conn] /\ Open(con'[s]) /\ con'[s].post = "none"
        /\ \A t \in Sockets : t # s => con'[t] = con[t]
    BY <1>1, <1>2, <1>3
  <1>5. f \in Functors /\ f.fn = "forceCloseInLoop" /\ f.c = s
    BY <1>2, FunctorsIn
  <1>6. /\ pending' \in Seq(Functors) /\ Distinct(pending', batch)
        /\ Entries(pending) \subseteq Entries(pending')
        /\ Entries(pending') \subseteq Entries(pending) \cup {f}
    <2> HIDE DEF f
    <2>1. f.fn \notin SingleUse
      BY <1>5 DEF SingleUse
    <2>2. pending \in Seq(Functors) /\ batch \in Seq(Functors) /\ Distinct(pending, batch)
      BY DEF ClientTypeOK, OnceQueued
    <2>3. CASE pending' = pending
      BY <2>2, <2>3
    <2>4. CASE pending' = Append(pending, f)
      <3>1. /\ Append(pending, f) \in Seq(Functors)
            /\ Entries(Append(pending, f)) = Entries(pending) \cup {f}
            /\ Distinct(Append(pending, f), batch)
        BY <1>5, <2>1, <2>2, Pushed
      <3> QED
        BY <2>4, <3>1
    <2> QED
      BY <1>1, <2>3, <2>4
  <1> HIDE DEF f
  <1>7. Queued \subseteq Queued' /\ Queued' \subseteq Queued \cup {f}
    BY <1>6 DEF Queued
  <1>8. \A fn \in ConnectorFunctors : IsQueued(fn)' <=> IsQueued(fn)
    BY <1>5, <1>7 DEF IsQueued, ConnectorFunctors
  <1>9. \A t : Functor("connectDestroyed", t) \in Queued' <=> Functor("connectDestroyed", t) \in Queued
    BY <1>5, <1>7, FunctorsIn
  <1>10. ClientTypeOK'
    <2>1. active' \subseteq [who : {"connector", "connection"}, s : Sockets]
      BY DEF ClientTypeOK
    <2> QED
      BY <1>1, <1>4, <1>6, <2>1 DEF ClientTypeOK, callVars
  <1>11. (Startable' <=> Startable) /\ OnceQueued' /\ Phases'
    BY <1>6, <1>8 DEF Startable, OnceQueued, Phases, ConnectorFunctors, callVars
  <1>12. SocketsOwned' /\ Fresh' /\ Trying' /\ Reconnecting' /\ (bad = {})'
    BY <1>1, <1>8, <1>11 DEF SocketsOwned, Fresh, Trying, Reconnecting, ConnectorFunctors
  <1>13. Up'
    <2>1. client.connection_ # None => Open(con'[client.connection_])
      BY <1>4 DEF Up, ClientTypeOK, Clients
    <2>2. client.connection_ # None => ~IsQueued("resetChannel")
      BY DEF Up
    <2> QED
      BY <1>1, <1>8, <2>1, <2>2 DEF Up, ConnectorFunctors
  <1>14. Lives'
    <2>1. \A t \in made : Owned(t) => Owned(t)'
      BY <1>1, <1>7 DEF Owned
    <2>2. \A t \in made : con'[t] = con[t] \/ (Open(con[t]) /\ Open(con'[t]) /\ con'[t].post = "none")
      BY <1>4 DEF ClientTypeOK
    <2> QED
      BY <1>1, <1>9, <2>1, <2>2, OpenNotShut DEF Lives
  <1>15. Backed'
    <2>1. ASSUME NEW t \in Sockets, Functor("connectDestroyed", t) \in Queued'
          PROVE  t \in made /\ Down(con'[t])
      <3>1. t \in made /\ Down(con[t])
        BY <2>1, <1>9 DEF Backed
      <3>2. t # s
        BY <3>1, OpenNotShut
      <3> QED
        BY <3>1, <3>2, <1>4
    <2>2. ASSUME NEW t \in Sockets, Functor("forceCloseInLoop", t) \in Queued'
          PROVE  t \in made
      BY <2>2, <1>5, <1>7, FunctorsIn DEF Backed
    <2>3. ASSUME NEW ch \in active', ch.who = "connection", ch.s \in made, Open(con[ch.s])
          PROVE  Open(con'[ch.s])
      BY <2>3, <1>4 DEF ClientTypeOK
    <2>4. ~client.alive => ucall' = NoCall /\ \A g \in Queued' : g.fn \notin ConnectorFunctors
      BY <1>5, <1>7 DEF Backed, ConnectorFunctors, callVars
    <2> QED
      BY <1>1, <2>1, <2>2, <2>3, <2>4 DEF Backed
  <1> QED
    BY <1>10, <1>11, <1>12, <1>13, <1>14, <1>15

LEMMA HandleConnectionStep ==
    ASSUME ClientInv, NEW ch \in active, ch.who = "connection", HandleConnection(ch.s),
           lpc = "handle", active' = active \ {ch},
           UNCHANGED <<connector, raw, net, batch, lpc, callVars>>
    PROVE  ClientInv'
  <1>1. PICK op \in LoopOps \cup {"none"}, partial \in BOOLEAN :
           Commit(ch.s, HandleEvent(con[ch.s], peer[ch.s], op, partial))
    BY DEF HandleConnection
  <1>2. op \in {"send", "shutdown", "forceClose", "none"}
    BY ClientAssumption
  <1> DEFINE k == HandleEvent(con[ch.s], peer[ch.s], op, partial)
  <1>3. ch.s \in made /\ Open(con[ch.s]) /\ con[ch.s].post = "none"
    BY DEF ClientInv, Backed, Lives
  <1>4. \/ Open(k) /\ k.post \in {"none", "forceCloseInLoop"}
        \/ Down(k) /\ k.post = "removeConnection"
    BY <1>2, <1>3, EventOpensOrShuts
  <1>5. Commit(ch.s, k)
    BY <1>1
  <1> HIDE DEF k
  <1>6. CASE Open(k) /\ k.post \in {"none", "forceCloseInLoop"}
    BY <1>3, <1>5, <1>6, StayStep
  <1>7. CASE Down(k) /\ k.post = "removeConnection"
    <2>1. ch = [who |-> "connection", s |-> ch.s]
      BY DEF ClientInv, ClientTypeOK
    <2>2. active' \subseteq active /\ [who |-> "connection", s |-> ch.s] \notin active'
      BY <2>1
    <2>3. Owned(ch.s) /\ ch.s # None
      <3>1. Owned(ch.s)
        BY <1>3, OpenNotShut DEF ClientInv, Lives
      <3>2. \A t \in Sockets : t # None
        BY DEF Sockets, None
      <3> QED
        BY <1>3, <3>1, <3>2 DEF ClientInv, ClientTypeOK
    <2>4. client.alive => ~IsQueued("resetChannel")
      BY <2>3 DEF ClientInv, Up, Owned
    <2>5. /\ batch \in Seq(Functors) /\ batch' = batch /\ Distinct(pending, batch)
          /\ (batch # <<>> => lpc = "run")
          /\ \A f \in Queued : f \in Entries(pending) \cup Entries(batch)
      BY DEF ClientInv, ClientTypeOK, OnceQueued, Phases, Queued
    <2> QED
      BY <1>3, <1>5, <1>7, <2>2, <2>4, <2>5, CloseStep
  <1> QED
    BY <1>4, <1>6, <1>7

(* The end of an attempt: its descriptor is closed or becomes a            *)
(* connection's, and its channel will be reset in this iteration.          *)
LEMMA HandleConnectorStep ==
    ASSUME ClientInv, NEW ch \in active, ch.who = "connector", ConnectorHandleWrite(ch.s),
           lpc = "handle", active' = active \ {ch}, UNCHANGED restarting,
           UNCHANGED <<net, batch, lpc, callVars>>
    PROVE  ClientInv'
  <1> USE DEF ClientInv
  <1> DEFINE s == ch.s
             f == Functor("resetChannel", None)
  <1>1. /\ connector.state_ = "kConnecting" /\ connector.channel_ = s
        /\ s \in Sockets /\ s \notin made /\ s # None
        /\ client.connection_ = None /\ client.alive /\ ~restarting /\ connector.alive
        /\ ~IsQueued("resetChannel") /\ raw = {s} /\ ~Startable /\ batch = <<>>
    BY DEF Backed, Trying, SocketsOwned, Fresh, Phases, ClientTypeOK, Sockets, None
  <1>2. \A t \in made : ~Open(con[t]) /\ t \in Sockets /\ t # None
    BY <1>1, OpenNotShut DEF Lives, Owned, ClientTypeOK, Sockets, None
  <1>3. active' = {}
    <2>1. ASSUME NEW dh \in active PROVE dh = ch
      <3>1. dh.who = "connector" /\ dh.s = s
        BY <1>1, <1>2 DEF Backed
      <3> QED
        BY <3>1 DEF ClientTypeOK
    <2> QED
      BY <2>1
  <1>4. pending' = Append(pending, f)
    BY DEF ConnectorHandleWrite
  <1>5. f \in Functors /\ f.fn = "resetChannel" /\ pending \in Seq(Functors) /\ batch \in Seq(Functors)
        /\ Distinct(pending, batch)
    BY FunctorsIn DEF ConnectorFunctors, ClientTypeOK, OnceQueued
  <1> HIDE DEF f
  <1>6. /\ pending' \in Seq(Functors) /\ Entries(pending') = Entries(pending) \cup {f}
        /\ Distinct(pending, batch)' /\ Queued' = Queued \cup {f}
    BY <1>4, <1>5, Pushed DEF SingleUse, Queued
  <1>7. \A fn : fn # "resetChannel" => (IsQueued(fn)' <=> IsQueued(fn))
    BY <1>5, <1>6 DEF IsQueued
  <1>8. ASSUME NEW t, NEW g \in OwningFunctors
        PROVE Functor(g, t) \in Queued' <=> Functor(g, t) \in Queued
    BY <1>5, <1>6, FunctorsIn DEF OwningFunctors
  <1>9. ~Startable' /\ OnceQueued' /\ Phases'
    BY <1>1, <1>3, <1>6, <1>7 DEF Startable, OnceQueued, Phases, callVars
  <1>10. connector' \in Connectors /\ connector'.state_ # "kConnecting"
         /\ connector'.alive = connector.alive
    BY DEF ConnectorHandleWrite, Retried, ClientTypeOK, Connectors
  <1>11. raw' = {} /\ bad' = {}
    BY <1>1 DEF ConnectorHandleWrite, Retried, NewConnection, Check
  <1>12. SocketsOwned' /\ Fresh' /\ Trying' /\ Reconnecting'
    BY <1>1, <1>9, <1>10, <1>11 DEF SocketsOwned, Fresh, Trying, Reconnecting
  <1>13. CASE UNCHANGED <<client, connVars>>
    <2>1. ClientTypeOK'
      BY <1>3, <1>6, <1>10, <1>11, <1>13 DEF ClientTypeOK, connVars, callVars
    <2>2. Up' /\ Lives' /\ Backed'
      BY <1>1, <1>3, <1>8, <1>10, <1>13 DEF Up, Lives, Owned, Backed, OwningFunctors, connVars
    <2> QED
      BY <1>9, <1>11, <1>12, <2>1, <2>2
  <1>14. CASE NewConnection(s)
    <2>1. /\ made' = made \cup {s}
          /\ con' = [con EXCEPT ![s] = ConnectEstablished(NewConn)]
          /\ closeCallback_' = [closeCallback_ EXCEPT ![s] = "client"]
          /\ peer' = [peer EXCEPT ![s] = "open"]
          /\ client' = [client EXCEPT !.connection_ = s]
      BY <1>14 DEF NewConnection
    <2>2. client' \in Clients /\ client'.connection_ = s /\ client'.alive = client.alive
      BY <1>1, <2>1 DEF ClientTypeOK, Clients
    <2>3. /\ con' \in [Sockets -> Conn] /\ Open(con'[s]) /\ con'[s].post = "none"
          /\ \A t \in Sockets : t # s => con'[t] = con[t]
      <3>1. /\ Open(ConnectEstablished(NewConn)) /\ ConnectEstablished(NewConn).post = "none"
            /\ ConnectEstablished(NewConn) \in Conn
        BY EstablishedOpens DEF Open
      <3> QED
        BY <1>1, <2>1, <3>1 DEF ClientTypeOK
    <2>4. /\ closeCallback_' \in [Sockets -> {"client", "detail"}] /\ closeCallback_'[s] = "client"
          /\ peer' \in [Sockets -> {"open", "fin", "reset"}] /\ made' \subseteq Sockets
      BY <1>1, <2>1 DEF ClientTypeOK
    <2>5. ClientTypeOK'
      BY <1>3, <1>6, <1>10, <1>11, <2>2, <2>3, <2>4 DEF ClientTypeOK, callVars
    <2>6. Functor("forceCloseInLoop", s) \notin Queued'
      BY <1>1, <1>8 DEF Backed, OwningFunctors
    <2>7. Up'
      <3>1. f \in Queued'
        BY <1>6
      <3> QED
        BY <1>1, <1>3, <1>5, <2>1, <2>2, <2>3, <2>6, <3>1 DEF Up, IsQueued
    <2>8. Lives'
      <3> SUFFICES ASSUME NEW t \in made'
                   PROVE  /\ con'[t].post = "none"
                          /\ \/ Open(con'[t]) /\ Owned(t)'
                             \/ Down(con'[t]) /\ Functor("connectDestroyed", t) \in Queued'
                             \/ Dead(con'[t])
        BY DEF Lives
      <3>1. CASE t = s
        BY <3>1, <1>1, <2>2, <2>3, <2>4 DEF Owned
      <3>2. CASE t # s
        <4>1. t \in made /\ con'[t] = con[t] /\ ~Open(con[t])
          BY <3>2, <1>2, <2>1, <2>3
        <4> QED
          BY <4>1, <1>8 DEF Lives, OwningFunctors
      <3> QED
        BY <3>1, <3>2
    <2>9. Backed'
      <3>1. ASSUME NEW t \in Sockets, Functor("connectDestroyed", t) \in Queued'
            PROVE  t \in made' /\ Down(con'[t])
        <4>1. t \in made /\ Down(con[t])
          BY <3>1, <1>8 DEF Backed, OwningFunctors
        <4> QED
          BY <4>1, <1>1, <2>1, <2>3
      <3>2. ASSUME NEW t \in Sockets, Functor("forceCloseInLoop", t) \in Queued'
            PROVE  t \in made'
        BY <3>2, <1>8, <2>1 DEF Backed, OwningFunctors
      <3> QED
        BY <1>1, <1>3, <1>10, <2>2, <3>1, <3>2 DEF Backed
    <2> QED
      BY <1>9, <1>11, <1>12, <2>5, <2>7, <2>8, <2>9
  <1> QED
    BY <1>13, <1>14 DEF ConnectorHandleWrite

(* A functor that owns a connection finds it closed.                       *)
LEMMA RunLateStep ==
    ASSUME ClientInv, batch # <<>>, batch' = Tail(batch), NEW s \in made, ~Open(con[s]),
           \/ /\ Head(batch) = Functor("forceCloseInLoop", s) /\ con' = con
           \/ /\ Head(batch) = Functor("connectDestroyed", s)
              /\ con' = [con EXCEPT ![s] = Cleared(ConnectDestroyed(con[s]))],
           UNCHANGED <<client, connector, raw, net, made, closeCallback_, peer, pending,
                       active, lpc, restarting, callVars, bad>>
    PROVE  ClientInv'
  <1> USE DEF ClientInv
  <1>1. /\ Tail(batch) \in Seq(Functors)
        /\ Distinct(pending, Tail(batch)) /\ lpc = "run" /\ active = {}
        /\ Queued = Entries(pending) \cup Entries(Tail(batch)) \cup {Head(batch)}
        /\ Head(batch).fn \in SingleUse =>
              Head(batch) \notin Entries(pending) \cup Entries(Tail(batch))
        /\ Head(batch) \in Queued
    BY Taken
  <1>2. Queued' = Entries(pending) \cup Entries(Tail(batch)) /\ Distinct(pending, batch)'
    BY <1>1 DEF Queued
  <1>3. s \in Sockets /\ con \in [Sockets -> Conn] /\ con[s].post = "none"
    BY DEF ClientTypeOK, Lives
  <1>4. Head(batch).fn \in {"forceCloseInLoop", "connectDestroyed"} /\ Head(batch).c = s
    BY FunctorsIn
  <1>5. \A fn \in ConnectorFunctors : IsQueued(fn)' <=> IsQueued(fn)
    BY <1>1, <1>2, <1>4 DEF IsQueued, ConnectorFunctors
  <1>6. \A t : t # s => /\ Functor("connectDestroyed", t) \in Queued' <=> Functor("connectDestroyed", t) \in Queued
                        /\ Functor("forceCloseInLoop", t) \in Queued' <=> Functor("forceCloseInLoop", t) \in Queued
    BY <1>1, <1>2, <1>4, FunctorsIn
  <1>7. Queued' \subseteq Queued
    BY <1>1, <1>2
  <1>8. /\ con' \in [Sockets -> Conn] /\ con'[s].post = "none" /\ ~Open(con'[s])
        /\ \A t \in Sockets : t # s => con'[t] = con[t]
        /\ \/ Dead(con'[s]) /\ Functor("connectDestroyed", s) \notin Queued'
           \/ /\ Down(con'[s]) /\ Functor("connectDestroyed", s) \in Queued'
              /\ con'[s] = con[s]
    <2>1. CASE Head(batch) = Functor("forceCloseInLoop", s) /\ con' = con
      <3>1. Functor("connectDestroyed", s) \in Queued' <=> Functor("connectDestroyed", s) \in Queued
        BY <1>1, <1>2, <2>1, FunctorsIn
      <3>2. Functor("connectDestroyed", s) \in Queued => Down(con[s])
        BY <1>3 DEF Backed
      <3>3. Down(con[s]) => ~Dead(con[s])
        BY DEF Down, Dead
      <3> QED
        BY <2>1, <3>1, <3>2, <3>3, <1>3 DEF Lives
    <2>2. CASE /\ Head(batch) = Functor("connectDestroyed", s)
               /\ con' = [con EXCEPT ![s] = Cleared(ConnectDestroyed(con[s]))]
      <3>1. Down(con[s])
        BY <1>1, <1>3, <2>2 DEF Backed
      <3>2. Dead(ConnectDestroyed(con[s])) /\ ConnectDestroyed(con[s]) \in Conn
        BY <3>1, DestroyRemoves DEF Dead, Shut
      <3>3. PICK j : j = Cleared(ConnectDestroyed(con[s]))
        OBVIOUS
      <3>4. Dead(j) /\ j \in Conn /\ j.post = "none"
        BY <3>2, <3>3, ClearedSame
      <3>5. con' = [con EXCEPT ![s] = j]
        BY <2>2, <3>3
      <3>6. Functor("connectDestroyed", s) \notin Queued'
        BY <1>1, <1>2, <2>2, FunctorsIn DEF SingleUse
      <3>7. ~Open(j)
        BY <3>4, OpenNotShut
      <3> QED
        BY <1>3, <3>4, <3>5, <3>6, <3>7
    <2> QED
      BY <2>1, <2>2
  <1>9. ClientTypeOK' /\ Phases'
    BY <1>1, <1>8 DEF ClientTypeOK, Phases, callVars
  <1>10. (Startable' <=> Startable) /\ OnceQueued'
    BY <1>2, <1>5 DEF Startable, OnceQueued, ConnectorFunctors, callVars
  <1>11. SocketsOwned' /\ Fresh' /\ Trying' /\ Reconnecting' /\ (bad = {})'
    BY <1>5, <1>10 DEF SocketsOwned, Fresh, Trying, Reconnecting, ConnectorFunctors
  <1>12. Up'
    <2>1. client.connection_ # None => client.connection_ # s /\ client.connection_ \in Sockets
      BY DEF Up, ClientTypeOK
    <2>2. client.connection_ # None => Open(con'[client.connection_])
      BY <1>8, <2>1 DEF Up
    <2> QED
      BY <1>5, <1>7, <2>2 DEF Up, ConnectorFunctors
  <1>13. Lives'
    <2> SUFFICES ASSUME NEW t \in made
                 PROVE  /\ con'[t].post = "none"
                        /\ \/ Open(con'[t]) /\ Owned(t)'
                           \/ Down(con'[t]) /\ Functor("connectDestroyed", t) \in Queued'
                           \/ Dead(con'[t])
      BY DEF Lives
    <2>1. CASE t = s
      BY <2>1, <1>8
    <2>2. CASE t # s
      <3>1. con'[t] = con[t]
        BY <2>2, <1>8 DEF ClientTypeOK
      <3>2. Owned(t)' <=> Owned(t)
        BY <2>2, <1>6 DEF Owned
      <3> QED
        BY <2>2, <3>1, <3>2, <1>6 DEF Lives
    <2> QED
      BY <2>1, <2>2
  <1>14. Backed'
    <2>1. ASSUME NEW t \in Sockets, Functor("connectDestroyed", t) \in Queued'
          PROVE  t \in made /\ Down(con'[t])
      <3>1. CASE t = s
        BY <2>1, <3>1, <1>8
      <3>2. CASE t # s
        BY <2>1, <3>2, <1>7, <1>8 DEF Backed
      <3> QED
        BY <3>1, <3>2
    <2> QED
      BY <2>1, <1>1, <1>7 DEF Backed, callVars
  <1> QED
    BY <1>9, <1>10, <1>11, <1>12, <1>13, <1>14

LEMMA RunOwningStep ==
    ASSUME ClientInv, RunFunctor, Head(batch).fn \notin ConnectorFunctors
    PROVE  ClientInv'
  <1> DEFINE s == Head(batch).c
             k == IF Head(batch).fn = "connectDestroyed" THEN ConnectDestroyed(con[s])
                  ELSE ForceCloseInLoop(con[s])
  <1>1. /\ batch # <<>> /\ batch' = Tail(batch) /\ ~restarting /\ Commit(s, k)
        /\ UNCHANGED <<connector, raw, net, active, lpc, callVars>>
    BY DEF RunFunctor
  <1>2. /\ Tail(batch) \in Seq(Functors) /\ Head(batch) \in Functors
        /\ Distinct(pending, Tail(batch)) /\ lpc = "run" /\ active = {}
        /\ Entries(Tail(batch)) \subseteq Entries(batch)
        /\ Queued = Entries(pending) \cup Entries(Tail(batch)) \cup {Head(batch)}
        /\ Head(batch) \in Queued
    BY <1>1, Taken
  <1>3. /\ s \in Sockets /\ Head(batch).fn \in {"connectDestroyed", "forceCloseInLoop"}
        /\ Head(batch) = Functor(Head(batch).fn, s)
    BY <1>2, FunctorKinds
  <1>4. s \in made
    BY <1>2, <1>3 DEF ClientInv, Backed
  <1>5. /\ con \in [Sockets -> Conn] /\ con[s] \in Conn /\ con[s].post = "none"
        /\ Open(con[s]) \/ Down(con[s]) \/ Dead(con[s])
    BY <1>3, <1>4 DEF ClientInv, ClientTypeOK, Lives
  <1>6. CASE Head(batch).fn = "connectDestroyed"
    <2>1. Down(con[s])
      BY <1>2, <1>3, <1>6 DEF ClientInv, Backed
    <2>2. k = ConnectDestroyed(con[s]) /\ k.post = "none" /\ ~Open(con[s])
      BY <1>5, <1>6, <2>1, DestroyRemoves, OpenNotShut
    <2>3. /\ con' = [con EXCEPT ![s] = Cleared(k)]
          /\ UNCHANGED <<client, pending, restarting, bad, made, closeCallback_, peer>>
      BY <1>1, <2>2 DEF Commit, Cleared
    <2> HIDE DEF s, k
    <2> QED
      BY <1>1, <1>2, <1>3, <1>4, <1>6, <2>2, <2>3, RunLateStep
  <1>7. CASE Head(batch).fn = "forceCloseInLoop" /\ ~Open(con[s])
    <2>1. Shut(con[s])
      BY <1>5, <1>7 DEF Down, Dead
    <2>2. k = con[s]
      BY <1>7, <2>1, LateCalls
    <2>3. /\ con' = [con EXCEPT ![s] = Cleared(con[s])]
          /\ UNCHANGED <<client, pending, restarting, bad, made, closeCallback_, peer>>
      <3>1. Commit(s, con[s])
        BY <1>1, <2>2
      <3> HIDE DEF s, k
      <3> QED
        BY <1>5, <3>1 DEF Commit, Cleared
    <2>4. con' = con
      <3>1. Cleared(con[s]) = con[s]
        BY <1>5, ClearedSame
      <3> QED
        BY <1>3, <1>5, <2>3, <3>1
    <2> HIDE DEF s, k
    <2> QED
      BY <1>1, <1>2, <1>3, <1>4, <1>7, <2>3, <2>4, RunLateStep
  <1>8. CASE Head(batch).fn = "forceCloseInLoop" /\ Open(con[s])
    <2>1. k = HandleClose(con[s])
      BY <1>8 DEF ForceCloseInLoop, Open
    <2>2. Down(k) /\ k.post = "removeConnection"
      BY <1>8, <2>1, CloseShuts
    <2>3. Owned(s)
      BY <1>4, <1>8, OpenNotShut DEF ClientInv, Lives
    <2>4. s # None
      BY <1>3 DEF Sockets, None
    <2>5. client.alive => ~IsQueued("resetChannel")
      BY <1>2, <1>3, <1>8, <2>3, <2>4 DEF ClientInv, Up, Owned
    <2>6. \A f \in Queued : f # Functor("forceCloseInLoop", s) =>
             f \in Entries(pending) \cup Entries(Tail(batch))
      BY <1>2, <1>3, <1>8
    <2> HIDE DEF s, k
    <2> QED
      BY <1>1, <1>2, <1>4, <1>8, <2>2, <2>5, <2>6, CloseStep
  <1> QED
    BY <1>3, <1>6, <1>7, <1>8

(* ~TcpClient with a settled connection: it is left to the queue.          *)
LEMMA DestroyStep ==
    ASSUME ClientInv, DestroyWhen # "any", Destroy
    PROVE  ClientInv'
  <1> USE DEF ClientInv
  <1> DEFINE f(s) == Functor("forceCloseInLoop", s)
  <1>0. PICK s : s = client.connection_
    OBVIOUS
  <1>1. /\ lpc = "run" /\ ~restarting /\ client.alive /\ ucall = NoCall /\ s # None
        /\ \A g \in Queued : g.fn \notin ConnectorFunctors
        /\ CloseOnDestroy(s, ~Held(s))
        /\ client' = [client EXCEPT !.alive = FALSE, !.connection_ = None]
        /\ connector' = [connector EXCEPT !.alive = FALSE, !.connect_ = FALSE]
        /\ bad' = bad \cup Check(connector.channel_ = None, "~Connector")
        /\ UNCHANGED <<raw, net, made, peer, batch, active, lpc, restarting, callVars>>
    BY <1>0 DEF Destroy
  <1>2. /\ s \in made /\ s \in Sockets /\ Open(con[s]) /\ con[s].post = "none" /\ con[s] \in Conn
        /\ connector.channel_ = None /\ ~IsQueued("resetChannel")
    BY <1>0, <1>1 DEF Up, Lives, IsQueued, ConnectorFunctors, ClientTypeOK
  <1>3. bad' = {}
    BY <1>1, <1>2 DEF Check
  <1>4. client' \in Clients /\ client'.alive = FALSE /\ client'.connection_ = None
    <2> DEFINE j == [client EXCEPT !.alive = FALSE]
    <2>1. client' = [j EXCEPT !.connection_ = None]
      BY <1>1 DEF ClientTypeOK, Clients
    <2>2. j \in Clients /\ j.alive = FALSE
      BY DEF ClientTypeOK, Clients
    <2> HIDE DEF j
    <2> QED
      BY <2>1, <2>2 DEF Clients
  <1>5. connector' \in Connectors /\ connector'.alive = FALSE
        /\ connector'.state_ = connector.state_ /\ connector'.channel_ = connector.channel_
    <2> DEFINE j == [connector EXCEPT !.alive = FALSE]
    <2>1. connector' = [j EXCEPT !.connect_ = FALSE]
      BY <1>1 DEF ClientTypeOK, Connectors
    <2>2. j \in Connectors /\ j.alive = FALSE /\ j.state_ = connector.state_
          /\ j.channel_ = connector.channel_
      BY DEF ClientTypeOK, Connectors
    <2> HIDE DEF j
    <2> QED
      BY <2>1, <2>2 DEF Connectors
  <1>6. closeCallback_' \in [Sockets -> {"client", "detail"}] /\ closeCallback_'[s] = "detail"
    BY <1>1, <1>2 DEF CloseOnDestroy, ClientTypeOK
  <1>7. connector.state_ # "kConnecting" /\ ~Startable
    BY <1>0, <1>1, <1>2 DEF Trying, Fresh
  <1>8. f(s) \in Functors /\ f(s).fn = "forceCloseInLoop"
    BY <1>2, FunctorsIn
  <1>9. /\ pending' \in Seq(Functors) /\ Distinct(pending', batch)
        /\ Queued \subseteq Queued' /\ Queued' \subseteq Queued \cup {f(s)} /\ f(s) \in Queued'
        /\ con' \in [Sockets -> Conn] /\ Open(con'[s]) /\ con'[s].post = "none"
        /\ \A t \in Sockets : t # s => con'[t] = con[t]
    <2>0. /\ pending \in Seq(Functors) /\ batch \in Seq(Functors) /\ Distinct(pending, batch)
          /\ con \in [Sockets -> Conn] /\ con[s].state \in {"kConnected", "kDisconnecting"}
      BY <1>2 DEF ClientTypeOK, OnceQueued, Open
    <2>1. CASE Held(s)
      <3>1. UNCHANGED <<con, pending>>
        BY <1>1, <2>1 DEF CloseOnDestroy
      <3>2. PICK g \in Queued : g.c = s /\ g.fn \in OwningFunctors
        BY <2>1 DEF Held
      <3>3. g \in Functors
        BY QueueTyped
      <3>4. g = Functor(g.fn, s) /\ g.fn \in {"connectDestroyed", "forceCloseInLoop"}
        BY <3>2, <3>3, FunctorKinds DEF OwningFunctors, ConnectorFunctors
      <3>5. g.fn # "connectDestroyed"
        BY <3>2, <3>4, <1>2, OpenNotShut DEF Backed
      <3>6. f(s) \in Queued
        BY <3>2, <3>4, <3>5
      <3>7. Queued' = Queued
        BY <1>1, <3>1 DEF Queued
      <3> QED
        BY <3>1, <3>6, <3>7, <2>0, <1>2
    <2>2. CASE ~Held(s)
      <3>1. /\ con' = [con EXCEPT ![s].state = "kDisconnecting"]
            /\ pending' = Append(pending, f(s))
        BY <1>1, <2>0, <2>2 DEF CloseOnDestroy
      <3>2. /\ Append(pending, f(s)) \in Seq(Functors)
            /\ Entries(Append(pending, f(s))) = Entries(pending) \cup {f(s)}
            /\ Distinct(Append(pending, f(s)), batch)
        BY <1>8, <2>0, Pushed DEF SingleUse
      <3>3. Queued' = Queued \cup {f(s)}
        BY <1>1, <3>1, <3>2 DEF Queued
      <3>4. PICK j : j = [con[s] EXCEPT !.state = "kDisconnecting"]
        OBVIOUS
      <3>5. Open(j) /\ j.post = "none" /\ j \in Conn
        BY <1>2, <3>4 DEF Open, Conn
      <3>6. con' = [con EXCEPT ![s] = j]
        BY <3>1, <3>4
      <3> QED
        BY <1>2, <2>0, <3>1, <3>2, <3>3, <3>5, <3>6
    <2> QED
      BY <2>1, <2>2
  <1> HIDE DEF f
  <1>10. \A fn \in ConnectorFunctors : ~IsQueued(fn)'
    BY <1>1, <1>8, <1>9 DEF IsQueued, ConnectorFunctors
  <1>11. ~Startable' /\ OnceQueued' /\ Phases'
    BY <1>1, <1>7, <1>9, <1>10 DEF Startable, OnceQueued, Phases, ConnectorFunctors, callVars
  <1>12. ClientTypeOK'
    BY <1>1, <1>4, <1>5, <1>6, <1>9 DEF ClientTypeOK, callVars
  <1>13. SocketsOwned' /\ Fresh' /\ Trying' /\ Reconnecting' /\ Up'
    BY <1>1, <1>4, <1>5, <1>7, <1>11 DEF SocketsOwned, Fresh, Trying, Reconnecting, Up
  <1>14. Lives'
    <2> SUFFICES ASSUME NEW t \in made
                 PROVE  /\ con'[t].post = "none"
                        /\ \/ Open(con'[t]) /\ Owned(t)'
                           \/ Down(con'[t]) /\ Functor("connectDestroyed", t) \in Queued'
                           \/ Dead(con'[t])
      BY <1>1 DEF Lives
    <2>1. CASE t = s
      BY <2>1, <1>4, <1>6, <1>9 DEF Owned, f
    <2>2. CASE t # s
      <3>1. con'[t] = con[t] /\ ~Open(con[t])
        BY <2>2, <1>0, <1>1, <1>9, OpenNotShut DEF Lives, Owned, ClientTypeOK
      <3> QED
        BY <3>1, <1>9 DEF Lives
    <2> QED
      BY <2>1, <2>2
  <1>15. Backed'
    <2>1. ASSUME NEW t \in Sockets, Functor("connectDestroyed", t) \in Queued'
          PROVE  t \in made /\ Down(con'[t])
      <3>1. Functor("connectDestroyed", t) \in Queued
        BY <2>1, <1>8, <1>9, FunctorsIn
      <3>2. t \in made /\ Down(con[t])
        BY <3>1 DEF Backed
      <3>3. t # s
        BY <3>2, <1>2, OpenNotShut
      <3> QED
        BY <3>2, <3>3, <1>9
    <2>2. ASSUME NEW t \in Sockets, Functor("forceCloseInLoop", t) \in Queued'
          PROVE  t \in made
      BY <2>2, <1>2, <1>9, FunctorsIn DEF Backed, f
    <2>3. active' = {}
      BY <1>1 DEF Phases
    <2>4. ucall' = NoCall /\ \A g \in Queued' : g.fn \notin ConnectorFunctors
      BY <1>1, <1>10 DEF IsQueued, callVars
    <2> QED
      BY <1>1, <1>4, <1>5, <2>1, <2>2, <2>3, <2>4 DEF Backed
  <1> QED
    BY <1>3, <1>11, <1>12, <1>13, <1>14, <1>15

LEMMA ClientInvStep ==
    ASSUME MaxConnects <= 1, DestroyWhen # "any"
    PROVE  ClientInv /\ [Next]_vars => ClientInv'
  <1> SUFFICES ASSUME ClientInv, [Next]_vars PROVE ClientInv'
    OBVIOUS
  <1>1. CASE HandleChannel
    <2>1. PICK ch \in active :
             /\ active' = active \ {ch}
             /\ IF ch.who = "connection"
                THEN HandleConnection(ch.s) /\ UNCHANGED <<connector, raw>>
                ELSE ConnectorHandleWrite(ch.s) /\ UNCHANGED restarting
      BY <1>1 DEF HandleChannel
    <2>2. lpc = "handle" /\ UNCHANGED <<net, batch, lpc, callVars>>
      BY <1>1 DEF HandleChannel
    <2>3. CASE ch.who = "connection"
      BY <2>1, <2>2, <2>3, HandleConnectionStep
    <2>4. CASE ch.who # "connection"
      <3>1. ch.who = "connector"
        BY <2>4 DEF ClientInv, ClientTypeOK
      <3> QED
        BY <2>1, <2>2, <3>1, HandleConnectorStep
    <2> QED
      BY <2>3, <2>4
  <1>2. CASE RunFunctor
    <2>1. Head(batch).fn \in ConnectorFunctors =>
             Head(batch).fn \in {"startInLoop", "stopInLoop", "resetChannel"}
      BY DEF ConnectorFunctors
    <2> QED
      BY <1>2, <2>1, RunStartStep, RunStopStep, RunResetStep, RunOwningStep
  <1>3. ASSUME NEW op \in LoopCalls, LoopCall(op) PROVE ClientInv'
    <2>1. op \in {"connect", "disconnect", "stop"}
      BY ClientAssumption DEF Calls
    <2> QED
      BY <1>3, <2>1, LoopConnectStep, LoopStopStep, LoopDisconnectStep
  <1>4. CASE UNCHANGED vars
    <2>1. Queued' = Queued
      BY <1>4 DEF vars, Queued
    <2>2. ClientTypeOK' /\ Phases' /\ SocketsOwned' /\ (bad = {})'
      BY <1>4 DEF vars, ClientInv, ClientTypeOK, Phases, SocketsOwned
    <2>3. OnceQueued' /\ Fresh' /\ Trying' /\ Reconnecting'
      BY <1>4, <2>1 DEF vars, ClientInv, OnceQueued, Startable, Fresh, Trying, Reconnecting, IsQueued
    <2>4. Up' /\ Lives' /\ Backed'
      BY <1>4, <2>1 DEF vars, ClientInv, Up, Lives, Owned, Backed, IsQueued
    <2> QED
      BY <2>2, <2>3, <2>4 DEF ClientInv
  <1>5. CASE Poll \/ PollTimeout
    BY <1>5, PollStep
  <1>6. CASE Swap \/ EndIteration
    BY <1>6, IterationStep
  <1>7. CASE Restart
    BY <1>7, RestartStep
  <1>8. ASSUME NEW op \in UserCalls, UserCall(op) PROVE ClientInv'
    BY <1>8, UserCallStep
  <1>9. CASE UserCallRest
    BY <1>9, UserCallRestStep
  <1>10. CASE Destroy
    BY <1>10, DestroyStep
  <1>11. ASSUME NEW s \in Sockets, NetAnswers(s) \/ PeerCloses(s) PROVE ClientInv'
    BY <1>11, NetStep
  <1> QED
    BY <1>1, <1>2, <1>3, <1>4, <1>5, <1>6, <1>7, <1>8, <1>9, <1>10, <1>11 DEF Next, LoopStep
-----------------------------------------------------------------------------
(* If connect() is called at most once and the client is destroyed, if at  *)
(* all, with a settled connection, no assert of Connector, TcpClient,      *)
(* TcpConnection, Channel or Poller fails, no functor or closeCallback_    *)
(* finds its object gone, and a connection dies closed and unregistered.   *)
THEOREM ClientAsserts ==
    ASSUME MaxConnects <= 1, DestroyWhen # "any"
    PROVE  Spec => []NoClientAssertFails
  <1>1. ASSUME ClientInv PROVE NoClientAssertFails
    <2> SUFFICES ASSUME NEW s \in made
                 PROVE  /\ con[s].bad = {}
                        /\ ~Alive(s) => con[s].state = "kDisconnected" /\ con[s].index = "kNew"
      BY <1>1 DEF NoClientAssertFails, ClientInv
    <2>1. CASE Open(con[s]) /\ Owned(s)
      <3>1. Alive(s)
        BY <2>1, FunctorsIn DEF Alive, Held, Owned, OwningFunctors
      <3> QED
        BY <2>1, <3>1 DEF Open
    <2>2. CASE Down(con[s]) /\ Functor("connectDestroyed", s) \in Queued
      <3>1. Alive(s)
        BY <2>2, FunctorsIn DEF Alive, Held, OwningFunctors
      <3> QED
        BY <2>2, <3>1 DEF Down, Shut
    <2>3. CASE Dead(con[s])
      BY <2>3 DEF Dead, Shut
    <2> QED
      BY <1>1, <2>1, <2>2, <2>3 DEF ClientInv, Lives
  <1> QED
    BY <1>1, ClientInvInit, ClientInvStep, PTL DEF Spec

(* Under the same conditions every descriptor has one owner: one that no   *)
(* TcpConnection owns is that of the attempt in progress, and an attempt   *)
(* in progress has its descriptor (Connector::removeAndResetChannel,       *)
(* retry, handleWrite and restart in every order with stop()).             *)
THEOREM ClientSockets ==
    ASSUME MaxConnects <= 1, DestroyWhen # "any"
    PROVE  Spec => []SocketsOwned
  <1>1. ClientInv => SocketsOwned
    BY DEF ClientInv
  <1> QED
    BY <1>1, ClientInvInit, ClientInvStep, PTL DEF Spec
=============================================================================
