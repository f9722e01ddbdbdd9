-------------------------- MODULE TcpConnectionProofs --------------------------
(***************************************************************************)
(* What the members of TcpConnection do to a connection, and what a queue  *)
(* of functors holds: the lemmas the proofs about TcpServer and TcpClient  *)
(* share.                                                                  *)
(***************************************************************************)
EXTENDS TcpConnection, SequenceTheorems, TLAPS

(* The asserts that may fail, and a connection's value.                    *)
Sites == {"connectEstablished", "handleClose", "removeConnectionInLoop",
          "server destroyed", "Channel::remove", "Poller::removeChannel"}

Conn == [state : {"kConnecting", "kConnected", "kDisconnecting", "kDisconnected"},
         events : SUBSET {"read", "write"},
         index : {"kNew", "kAdded", "kDeleted"},
         reading : BOOLEAN, out : BOOLEAN, shut : BOOLEAN, session : BOOLEAN,
         ups : Nat, downs : Nat,
         post : {"none", "removeConnection", "forceCloseInLoop"},
         bad : SUBSET Sites]

(* The connection's life after connectEstablished: open, told to close,    *)
(* and removed from its loop.                                              *)
Open(k) ==
    /\ k \in Conn
    /\ k.state \in {"kConnected", "kDisconnecting"}
    /\ "read" \in k.events /\ k.index = "kAdded"
    /\ k.out <=> "write" \in k.events
    /\ k.ups = 1 /\ k.downs = 0 /\ k.bad = {}

Shut(k) ==
    /\ k \in Conn
    /\ k.state = "kDisconnected"
    /\ k.events = {}
    /\ k.ups = 1 /\ k.downs = 1 /\ k.bad = {}

Down(k) == Shut(k) /\ k.index = "kDeleted"
Dead(k) == Shut(k) /\ k.index = "kNew"

(* Half closed with nothing left to write and no FIN sent.                 *)
Stuck(k) == k.state = "kDisconnecting" /\ ~k.out /\ ~k.shut
-----------------------------------------------------------------------------
(* What the members of TcpConnection do to such a connection.              *)

LEMMA NewConnFields ==
    /\ NewConn \in Conn
    /\ NewConn.state = "kConnecting" /\ NewConn.events = {} /\ NewConn.index = "kNew"
    /\ NewConn.out = FALSE /\ NewConn.session = FALSE /\ NewConn.ups = 0 /\ NewConn.downs = 0
    /\ NewConn.post = "none" /\ NewConn.bad = {}
  BY DEF NewConn, Conn

LEMMA EstablishedOpens ==
    /\ Open(ConnectEstablished(NewConn))
    /\ ConnectEstablished(NewConn).post = "none"
    /\ ConnectEstablished(NewConn).state = "kConnected"
    /\ ConnectEstablished(NewConn).session = KeepSession
  <1> DEFINE fresh == Assert(NewConn, NewConn.state = "kConnecting", "connectEstablished")
             up == [fresh EXCEPT !.state = "kConnected"]
             seen == [up EXCEPT !.events = @ \cup {"read"}]
             added == [seen EXCEPT !.index = "kAdded"]
  <1>1. fresh = NewConn
    BY NewConnFields DEF Assert
  <1>2. up \in Conn /\ up.state = "kConnected" /\ up.events = {} /\ up.index = "kNew"
        /\ up.out = FALSE /\ up.ups = 0 /\ up.downs = 0 /\ up.bad = {} /\ up.post = "none"
    BY <1>1, NewConnFields DEF Conn
  <1> HIDE DEF up
  <1>3. added \in Conn /\ added.state = "kConnected" /\ added.events = {"read"}
        /\ added.index = "kAdded" /\ added.out = FALSE /\ added.ups = 0 /\ added.downs = 0
        /\ added.bad = {} /\ added.post = "none"
    BY <1>2 DEF Conn
  <1>4. Enable(up, "read") = added
    <2>1. seen.index # "kAdded"
      BY <1>2 DEF Conn
    <2> QED
      BY <2>1 DEF Enable, Update
  <1> HIDE DEF added
  <1>5. ConnectEstablished(NewConn) = [added EXCEPT !.ups = @ + 1, !.session = KeepSession]
    <2>1. ConnectEstablished(NewConn) = ConnectionCallback(Enable(up, "read"))
      BY DEF ConnectEstablished, up, fresh
    <2> QED
      BY <2>1, <1>3, <1>4 DEF ConnectionCallback
  <1>6. /\ ConnectEstablished(NewConn) \in Conn
        /\ ConnectEstablished(NewConn).state = "kConnected"
        /\ ConnectEstablished(NewConn).events = {"read"}
        /\ ConnectEstablished(NewConn).index = "kAdded"
        /\ ConnectEstablished(NewConn).out = FALSE
        /\ ConnectEstablished(NewConn).ups = 1
        /\ ConnectEstablished(NewConn).downs = 0
        /\ ConnectEstablished(NewConn).bad = {}
        /\ ConnectEstablished(NewConn).post = "none"
        /\ ConnectEstablished(NewConn).session = KeepSession
    <2> DEFINE once == [added EXCEPT !.ups = @ + 1]
    <2>1. ConnectEstablished(NewConn) = [once EXCEPT !.session = KeepSession]
      BY <1>3, <1>5 DEF Conn
    <2>2. once \in Conn /\ once.state = "kConnected" /\ once.events = {"read"}
          /\ once.index = "kAdded" /\ once.out = FALSE /\ once.ups = 1 /\ once.downs = 0
          /\ once.bad = {} /\ once.post = "none"
      BY <1>3 DEF Conn
    <2> HIDE DEF once
    <2>3. KeepSession \in BOOLEAN
      BY SessionAssumption
    <2> QED
      BY <2>1, <2>2, <2>3 DEF Conn
  <1> QED
    BY <1>6 DEF Open

LEMMA CloseShuts ==
    ASSUME NEW k, Open(k)
    PROVE  /\ Down(HandleClose(k))
           /\ HandleClose(k).post = "removeConnection"
  <1> DEFINE live == Assert(k, k.state \in {"kConnected", "kDisconnecting"}, "handleClose")
             off == [live EXCEPT !.state = "kDisconnected"]
             quiet == [off EXCEPT !.events = {}]
             gone == [quiet EXCEPT !.index = "kDeleted"]
             down == [gone EXCEPT !.downs = @ + 1]
  <1>1. live = k
    BY DEF Assert, Open
  <1>2. off \in Conn /\ off.state = "kDisconnected" /\ off.index = "kAdded"
        /\ off.ups = 1 /\ off.downs = 0 /\ off.bad = {}
    BY <1>1 DEF Open, Conn
  <1> HIDE DEF off
  <1>3. quiet \in Conn /\ quiet.state = "kDisconnected" /\ quiet.index = "kAdded"
        /\ quiet.ups = 1 /\ quiet.downs = 0 /\ quiet.bad = {} /\ quiet.events = {}
    BY <1>2 DEF Conn
  <1>4. DisableAll(off) = gone
    BY <1>3 DEF DisableAll, Update
  <1> HIDE DEF quiet
  <1>5. gone \in Conn /\ gone.state = "kDisconnected" /\ gone.index = "kDeleted"
        /\ gone.ups = 1 /\ gone.downs = 0 /\ gone.bad = {} /\ gone.events = {}
    BY <1>3 DEF Conn
  <1> HIDE DEF gone
  <1>6. down \in Conn /\ down.state = "kDisconnected" /\ down.index = "kDeleted"
        /\ down.ups = 1 /\ down.downs = 1 /\ down.bad = {} /\ down.events = {}
    BY <1>5 DEF Conn
  <1>7. HandleClose(k) = [down EXCEPT !.post = "removeConnection"]
    BY <1>4, <1>5 DEF HandleClose, ConnectionCallback, off, live
  <1> HIDE DEF down
  <1> QED
    BY <1>6, <1>7 DEF Conn, Down, Shut

(* Subscribing to one event more keeps an open channel in epoll, and so    *)
(* does dropping writability.                                              *)
LEMMA WatchWrite ==
    ASSUME NEW k \in Conn, k.index = "kAdded"
    PROVE  Enable(k, "write") = [k EXCEPT !.events = @ \cup {"write"}]
  <1> DEFINE seen == [k EXCEPT !.events = @ \cup {"write"}]
  <1>1. seen.index = "kAdded" /\ seen.events # {}
    BY DEF Conn
  <1> QED
    BY <1>1 DEF Enable, Update

LEMMA UnwatchWrite ==
    ASSUME NEW k \in Conn, k.index = "kAdded", "read" \in k.events
    PROVE  Disable(k, "write") = [k EXCEPT !.events = @ \ {"write"}]
  <1> DEFINE seen == [k EXCEPT !.events = @ \ {"write"}]
  <1>1. seen.index = "kAdded" /\ seen.events # {}
    BY DEF Conn
  <1> QED
    BY <1>1 DEF Disable, Update

LEMMA SendKeepsOpen ==
    ASSUME NEW k, Open(k), NEW partial \in BOOLEAN
    PROVE  /\ Open(SendInLoop(k, partial))
           /\ SendInLoop(k, partial).post = k.post
           /\ SendInLoop(k, partial).state = k.state
           /\ Stuck(SendInLoop(k, partial)) => Stuck(k)
  <1> DEFINE o == [k EXCEPT !.out = TRUE]
  <1>1. o \in Conn /\ o.state = k.state /\ o.events = k.events /\ o.index = "kAdded"
        /\ o.ups = 1 /\ o.downs = 0 /\ o.bad = {} /\ o.out = TRUE /\ o.post = k.post
        /\ o.shut = k.shut
    BY DEF Open, Conn
  <1> HIDE DEF o
  <1>2. Enable(o, "write") = [o EXCEPT !.events = @ \cup {"write"}]
    BY <1>1, WatchWrite
  <1>3. SendInLoop(k, partial) \in {k, o, Enable(o, "write")}
    BY DEF SendInLoop, o
  <1>4. CASE SendInLoop(k, partial) = k
    BY <1>4
  <1>5. CASE SendInLoop(k, partial) # k /\ "write" \in k.events
    <2>1. SendInLoop(k, partial) = o
      BY <1>5 DEF SendInLoop, o
    <2> QED
      BY <2>1, <1>1, <1>5 DEF Open, Stuck
  <1>6. CASE SendInLoop(k, partial) # k /\ "write" \notin k.events
    <2>1. SendInLoop(k, partial) = [o EXCEPT !.events = @ \cup {"write"}]
      BY <1>2, <1>6 DEF SendInLoop, o
    <2> QED
      BY <2>1, <1>1 DEF Open, Stuck, Conn
  <1> QED
    BY <1>4, <1>5, <1>6

LEMMA ShutdownKeepsOpen ==
    ASSUME NEW k, Open(k)
    PROVE  /\ Open(ShutdownInLoop(k))
           /\ ShutdownInLoop(k).post = k.post
           /\ ~Stuck(ShutdownInLoop(k))
  <1>1. CASE "write" \in k.events
    BY <1>1 DEF ShutdownInLoop, Open, Stuck
  <1>2. CASE "write" \notin k.events
    BY <1>2 DEF ShutdownInLoop, Open, Stuck, Conn
  <1> QED
    BY <1>1, <1>2

(* What the message callback may do without leaving the safe ground: the   *)
(* connection stays open, and half closed it has sent its FIN, still has   *)
(* output, or has queued its close.                                        *)
LEMMA OpKeepsOpen ==
    ASSUME NEW k, Open(k), k.post = "none", NEW partial \in BOOLEAN,
           NEW op \in {"send", "shutdown", "forceClose", "none"}
    PROVE  /\ Open(InLoopOp(k, op, partial))
           /\ InLoopOp(k, op, partial).post \in {"none", "forceCloseInLoop"}
           /\ Stuck(InLoopOp(k, op, partial)) =>
                 Stuck(k) \/ InLoopOp(k, op, partial).post = "forceCloseInLoop"
  <1> DEFINE half == [k EXCEPT !.state = "kDisconnecting"]
             forced == [k EXCEPT !.state = "kDisconnecting", !.post = "forceCloseInLoop"]
  <1>1. Open(half) /\ half.post = "none"
    BY DEF Open, Conn
  <1>2. Open(forced) /\ forced.post = "forceCloseInLoop"
    <2>1. forced = [half EXCEPT !.post = "forceCloseInLoop"]
      BY DEF Open, Conn
    <2> HIDE DEF half
    <2> QED
      BY <1>1, <2>1 DEF Open, Conn
  <1> HIDE DEF half, forced
  <1>3. CASE op = "send"
    <2>1. InLoopOp(k, op, partial) = SendInLoop(k, partial) \/ InLoopOp(k, op, partial) = k
      BY <1>3 DEF InLoopOp
    <2> QED
      BY <2>1, SendKeepsOpen
  <1>4. CASE op = "shutdown"
    <2>1. InLoopOp(k, op, partial) = ShutdownInLoop(half) \/ InLoopOp(k, op, partial) = k
      BY <1>4 DEF InLoopOp, half
    <2> QED
      BY <2>1, <1>1, ShutdownKeepsOpen
  <1>5. CASE op = "forceClose"
    <2>1. InLoopOp(k, op, partial) = forced
      BY <1>5 DEF InLoopOp, forced, Open
    <2> QED
      BY <2>1, <1>2
  <1>6. CASE op = "none"
    <2>1. InLoopOp(k, op, partial) = k
      BY <1>6 DEF InLoopOp
    <2> QED
      BY <2>1
  <1> QED
    BY <1>3, <1>4, <1>5, <1>6

LEMMA WriteKeepsOpen ==
    ASSUME NEW k, Open(k), NEW p, NEW partial \in BOOLEAN
    PROVE  /\ Open(HandleWrite(k, p, partial))
           /\ HandleWrite(k, p, partial).post = k.post
           /\ Stuck(HandleWrite(k, p, partial)) => Stuck(k)
  <1> DEFINE empty == [k EXCEPT !.out = FALSE]
             drained == [empty EXCEPT !.events = @ \ {"write"}]
  <1>1. empty \in Conn /\ empty.index = "kAdded" /\ "read" \in empty.events
        /\ empty.state = k.state /\ empty.out = FALSE /\ empty.post = k.post
        /\ empty.shut = k.shut /\ empty.ups = 1 /\ empty.downs = 0 /\ empty.bad = {}
    BY DEF Open, Conn
  <1> HIDE DEF empty
  <1>2. Disable(empty, "write") = drained
    BY <1>1, UnwatchWrite
  <1>3. Open(drained) /\ drained.post = k.post /\ drained.state = k.state
    BY <1>1 DEF Open, Conn
  <1> HIDE DEF drained
  <1>4. CASE HandleWrite(k, p, partial) = k
    BY <1>4
  <1>5. CASE "write" \in k.events /\ p # "reset" /\ ~partial
    <2>1. HandleWrite(k, p, partial) =
             IF k.state = "kDisconnecting" THEN ShutdownInLoop(drained) ELSE drained
      BY <1>2, <1>5 DEF HandleWrite, empty
    <2>2. CASE k.state = "kDisconnecting"
      BY <2>1, <2>2, <1>3, ShutdownKeepsOpen
    <2>3. CASE k.state # "kDisconnecting"
      BY <2>1, <2>3, <1>3 DEF Stuck
    <2> QED
      BY <2>2, <2>3
  <1> QED
    BY <1>4, <1>5 DEF HandleWrite

(* An event on an open connection leaves it open or closes it.             *)
LEMMA EventOpensOrShuts ==
    ASSUME NEW k, Open(k), k.post = "none", NEW p, NEW partial \in BOOLEAN,
           NEW op \in {"send", "shutdown", "forceClose", "none"}
    PROVE  LET r == HandleEvent(k, p, op, partial)
           IN  \/ /\ Open(r) /\ r.post \in {"none", "forceCloseInLoop"}
                  /\ Stuck(r) => Stuck(k) \/ r.post = "forceCloseInLoop"
               \/ Down(r) /\ r.post = "removeConnection"
  <1> DEFINE r == HandleEvent(k, p, op, partial)
             read == HandleRead(k, p, op, partial)
  <1> SUFFICES \/ /\ Open(r) /\ r.post \in {"none", "forceCloseInLoop"}
                  /\ Stuck(r) => Stuck(k) \/ r.post = "forceCloseInLoop"
               \/ Down(r) /\ r.post = "removeConnection"
    OBVIOUS
  <1>1. "read" \in Revents(k, p)
    BY DEF Revents, Open
  <1>2. r = IF "write" \in Revents(k, p) THEN HandleWrite(read, p, partial) ELSE read
    BY <1>1 DEF HandleEvent
  <1>3. CASE p = "open"
    <2>1. read = InLoopOp(k, op, partial)
      BY <1>3 DEF HandleRead
    <2>2. /\ Open(read) /\ read.post \in {"none", "forceCloseInLoop"}
          /\ Stuck(read) => Stuck(k) \/ read.post = "forceCloseInLoop"
      BY <2>1, OpKeepsOpen
    <2> HIDE DEF read, r
    <2> QED
      BY <1>2, <2>2, WriteKeepsOpen
  <1>4. CASE p # "open"
    <2>1. read = HandleClose(k)
      BY <1>4 DEF HandleRead
    <2>2. Down(read) /\ read.post = "removeConnection"
      BY <2>1, CloseShuts
    <2>3. HandleWrite(read, p, partial) = read
      BY <2>2 DEF HandleWrite, Down, Shut
    <2> HIDE DEF read, r
    <2> QED
      BY <1>2, <2>2, <2>3
  <1> QED
    BY <1>3, <1>4

LEMMA DestroyRemoves ==
    ASSUME NEW k, Down(k)
    PROVE  Dead(ConnectDestroyed(k)) /\ ConnectDestroyed(k).post = k.post
  <1>1. ConnectDestroyed(k) = Remove(k)
    BY DEF ConnectDestroyed, Down, Shut
  <1>2. Remove(k) = [k EXCEPT !.index = "kNew"]
    BY DEF Remove, Assert, Down, Shut
  <1> QED
    BY <1>1, <1>2 DEF Down, Dead, Shut, Conn

LEMMA WriteKeepsState ==
    ASSUME NEW k, Open(k), NEW p, NEW partial \in BOOLEAN, k.state = "kConnected"
    PROVE  HandleWrite(k, p, partial).state = "kConnected"
  <1> DEFINE empty == [k EXCEPT !.out = FALSE]
  <1>1. empty \in Conn /\ empty.index = "kAdded" /\ "read" \in empty.events
        /\ empty.state = "kConnected"
    BY DEF Open, Conn
  <1>2. HandleWrite(k, p, partial) = Disable(empty, "write") \/ HandleWrite(k, p, partial) = k
    BY DEF HandleWrite
  <1> HIDE DEF empty
  <1>3. Disable(empty, "write").state = "kConnected"
    BY <1>1, UnwatchWrite DEF Conn
  <1> QED
    BY <1>2, <1>3

(* connectDestroyed of an open connection closes it too, and of one that   *)
(* is not in the Poller fails removeChannel's assert.                      *)
LEMMA DestroyCloses ==
    ASSUME NEW k, Open(k), k.state = "kConnected"
    PROVE  Dead(ConnectDestroyed(k)) /\ ConnectDestroyed(k).post = k.post
  <1> DEFINE off == [k EXCEPT !.state = "kDisconnected"]
             quiet == [off EXCEPT !.events = {}]
             gone == [quiet EXCEPT !.index = "kDeleted"]
             down == [gone EXCEPT !.downs = @ + 1]
  <1>1. off \in Conn /\ off.state = "kDisconnected" /\ off.index = "kAdded"
        /\ off.ups = 1 /\ off.downs = 0 /\ off.bad = {} /\ off.post = k.post
    BY DEF Open, Conn
  <1> HIDE DEF off
  <1>2. quiet \in Conn /\ quiet.state = "kDisconnected" /\ quiet.index = "kAdded"
        /\ quiet.ups = 1 /\ quiet.downs = 0 /\ quiet.bad = {} /\ quiet.events = {}
        /\ quiet.post = k.post
    BY <1>1 DEF Conn
  <1>3. DisableAll(off) = gone
    BY <1>2 DEF DisableAll, Update
  <1> HIDE DEF quiet
  <1>4. gone \in Conn /\ gone.state = "kDisconnected" /\ gone.index = "kDeleted"
        /\ gone.ups = 1 /\ gone.downs = 0 /\ gone.bad = {} /\ gone.events = {}
        /\ gone.post = k.post
    BY <1>2 DEF Conn
  <1> HIDE DEF gone
  <1>5. down \in Conn /\ down.state = "kDisconnected" /\ down.index = "kDeleted"
        /\ down.ups = 1 /\ down.downs = 1 /\ down.bad = {} /\ down.events = {}
        /\ down.post = k.post
    BY <1>4 DEF Conn
  <1>6. ConnectDestroyed(k) = Remove(down)
    BY <1>3, <1>4 DEF ConnectDestroyed, ConnectionCallback, off
  <1> HIDE DEF down
  <1>7. Remove(down) = [down EXCEPT !.index = "kNew"]
    BY <1>5 DEF Remove, Assert
  <1> QED
    BY <1>5, <1>6, <1>7 DEF Dead, Shut, Conn

LEMMA DestroyAgain ==
    ASSUME NEW k \in Conn, k.state # "kConnected", k.events = {}, k.index = "kNew", k.bad = {}
    PROVE  /\ ConnectDestroyed(k) \in Conn
           /\ ConnectDestroyed(k).post = k.post
           /\ ConnectDestroyed(k).bad = {"Poller::removeChannel"}
  <1> DEFINE known == [k EXCEPT !.bad = @ \cup {"Poller::removeChannel"}]
  <1>1. known \in Conn /\ known.post = k.post /\ known.bad = {"Poller::removeChannel"}
    BY DEF Conn, Sites
  <1>2. ConnectDestroyed(k) = [known EXCEPT !.index = "kNew"]
    BY DEF ConnectDestroyed, Remove, Assert
  <1> HIDE DEF known
  <1> QED
    BY <1>1, <1>2 DEF Conn

(* An event whose callback only sends leaves the connection connected or   *)
(* closes it.                                                              *)
LEMMA SendEvent ==
    ASSUME NEW k, Open(k), k.state = "kConnected", k.post = "none", NEW p,
           NEW partial \in BOOLEAN, NEW op \in {"send", "none"}
    PROVE  LET r == HandleEvent(k, p, op, partial)
           IN  \/ Open(r) /\ r.state = "kConnected" /\ r.post = "none"
               \/ Down(r) /\ r.post = "removeConnection"
  <1> DEFINE r == HandleEvent(k, p, op, partial)
             read == HandleRead(k, p, op, partial)
  <1> SUFFICES \/ Open(r) /\ r.state = "kConnected" /\ r.post = "none"
               \/ Down(r) /\ r.post = "removeConnection"
    OBVIOUS
  <1>1. "read" \in Revents(k, p)
    BY DEF Revents, Open
  <1>2. r = IF "write" \in Revents(k, p) THEN HandleWrite(read, p, partial) ELSE read
    BY <1>1 DEF HandleEvent
  <1>3. CASE p = "open"
    <2>1. read = InLoopOp(k, op, partial)
      BY <1>3 DEF HandleRead
    <2>2. read = SendInLoop(k, partial) \/ read = k
      BY <2>1 DEF InLoopOp
    <2>3. Open(read) /\ read.state = "kConnected" /\ read.post = "none"
      BY <2>2, SendKeepsOpen
    <2> HIDE DEF read, r
    <2>4. /\ Open(HandleWrite(read, p, partial)) /\ HandleWrite(read, p, partial).post = "none"
          /\ HandleWrite(read, p, partial).state = "kConnected"
      BY <2>3, WriteKeepsOpen, WriteKeepsState
    <2> QED
      BY <1>2, <2>3, <2>4
  <1>4. CASE p # "open"
    <2>1. read = HandleClose(k)
      BY <1>4 DEF HandleRead
    <2>2. Down(read) /\ read.post = "removeConnection"
      BY <2>1, CloseShuts
    <2>3. HandleWrite(read, p, partial) = read
      BY <2>2 DEF HandleWrite, Down, Shut
    <2> HIDE DEF read, r
    <2> QED
      BY <1>2, <2>2, <2>3
  <1> QED
    BY <1>3, <1>4

(* A closed connection ignores what arrives late.                          *)
LEMMA LateCalls ==
    ASSUME NEW k, Shut(k), NEW partial
    PROVE  ForceCloseInLoop(k) = k /\ SendInLoop(k, partial) = k
  BY DEF ForceCloseInLoop, SendInLoop, Shut

(* The posting is carried out and forgotten.                               *)
Cleared(k) == [k EXCEPT !.post = "none"]

LEMMA ClearedSame ==
    ASSUME NEW k \in Conn
    PROVE  /\ Cleared(k) \in Conn /\ Cleared(k).post = "none"
           /\ Cleared(k).ups = k.ups
           /\ Open(k) => Open(Cleared(k))
           /\ Down(k) => Down(Cleared(k))
           /\ Dead(k) => Dead(Cleared(k))
           /\ Stuck(Cleared(k)) <=> Stuck(k)
           /\ k.post = "none" => Cleared(k) = k
  <1>1. /\ Cleared(k) \in Conn /\ Cleared(k).post = "none"
        /\ Cleared(k).state = k.state /\ Cleared(k).events = k.events
        /\ Cleared(k).index = k.index /\ Cleared(k).out = k.out /\ Cleared(k).shut = k.shut
        /\ Cleared(k).ups = k.ups /\ Cleared(k).downs = k.downs /\ Cleared(k).bad = k.bad
    BY DEF Cleared, Conn
  <1>2. k.post = "none" => Cleared(k) = k
    BY DEF Cleared, Conn
  <1> HIDE DEF Cleared
  <1> QED
    BY <1>1, <1>2 DEF Open, Down, Dead, Shut, Stuck
-----------------------------------------------------------------------------
(* No member but connectEstablished touches the session.                   *)
Keeps(k, r) == r \in Conn /\ r.ups = k.ups /\ r.session = k.session

LEMMA KeepsTransitive ==
    ASSUME NEW j, NEW k, NEW r, Keeps(j, k), Keeps(k, r)
    PROVE  Keeps(j, r)
  BY DEF Keeps

Fails(k, site) == [k EXCEPT !.bad = @ \cup {site}]

LEMMA BadKeeps ==
    ASSUME NEW k \in Conn, NEW site \in Sites
    PROVE  Keeps(k, Fails(k, site)) /\ Keeps(k, k)
  BY DEF Keeps, Conn, Fails

LEMMA PollerKeeps ==
    ASSUME NEW k \in Conn
    PROVE  /\ Keeps(k, Update(k))
           /\ \A e \in {"read", "write"} : Keeps(k, Enable(k, e)) /\ Keeps(k, Disable(k, e))
           /\ Keeps(k, DisableAll(k))
           /\ Keeps(k, Remove(k))
  <1>1. ASSUME NEW j \in Conn, NEW i \in {"kNew", "kAdded", "kDeleted"}
        PROVE  Keeps(j, [j EXCEPT !.index = i])
    BY DEF Keeps, Conn
  <1>2. ASSUME NEW j \in Conn PROVE Keeps(j, Update(j))
    <2>1. Update(j) \in {j, [j EXCEPT !.index = "kAdded"], [j EXCEPT !.index = "kDeleted"]}
      BY DEF Update
    <2>2. Keeps(j, j)
      BY DEF Keeps
    <2> QED
      BY <2>1, <2>2, <1>1
  <1>3. ASSUME NEW ev \in SUBSET {"read", "write"} PROVE Keeps(k, [k EXCEPT !.events = ev])
    BY DEF Keeps, Conn
  <1>4. ASSUME NEW ev \in SUBSET {"read", "write"}
        PROVE  Keeps(k, Update([k EXCEPT !.events = ev]))
    <2>1. PICK j \in Conn : j = [k EXCEPT !.events = ev] /\ Keeps(k, j)
      BY <1>3 DEF Keeps
    <2>2. Keeps(j, Update(j))
      BY <1>2
    <2> QED
      BY <2>1, <2>2 DEF Keeps
  <1>5. k.events \in SUBSET {"read", "write"}
    BY DEF Conn
  <1>7. ASSUME NEW e \in {"read", "write"} PROVE Keeps(k, Enable(k, e)) /\ Keeps(k, Disable(k, e))
    <2>1. /\ k.events \cup {e} \in SUBSET {"read", "write"}
          /\ k.events \ {e} \in SUBSET {"read", "write"}
      BY <1>5
    <2> QED
      BY <2>1, <1>4 DEF Enable, Disable
  <1>8. Keeps(k, DisableAll(k))
    BY <1>4 DEF DisableAll
  <1>9. Keeps(k, Remove(k))
    <2> DEFINE quiet == Assert(k, k.events = {}, "Channel::remove")
               known == Assert(quiet, k.index # "kNew", "Poller::removeChannel")
    <2>1. Keeps(k, quiet)
      <3>1. quiet = k \/ quiet = Fails(k, "Channel::remove")
        BY DEF Assert, Fails
      <3>2. Keeps(k, k) /\ Keeps(k, Fails(k, "Channel::remove"))
        BY BadKeeps DEF Sites
      <3> HIDE DEF quiet
      <3> QED
        BY <3>1, <3>2
    <2> HIDE DEF quiet
    <2>2. Keeps(quiet, known)
      <3>1. known = quiet \/ known = Fails(quiet, "Poller::removeChannel")
        BY DEF Assert, Fails
      <3>2. quiet \in Conn
        BY <2>1 DEF Keeps
      <3>3. Keeps(quiet, quiet) /\ Keeps(quiet, Fails(quiet, "Poller::removeChannel"))
        BY <3>2, BadKeeps DEF Sites
      <3> HIDE DEF known
      <3> QED
        BY <3>1, <3>3
    <2>3. Remove(k) = [known EXCEPT !.index = "kNew"]
      BY DEF Remove, quiet
    <2> HIDE DEF known
    <2>4. Keeps(known, [known EXCEPT !.index = "kNew"])
      BY <1>1, <2>2 DEF Keeps
    <2> QED
      BY <2>1, <2>2, <2>3, <2>4 DEF Keeps
  <1> QED
    BY <1>2, <1>7, <1>8, <1>9

LEMMA FieldKeeps ==
    ASSUME NEW k \in Conn
    PROVE  /\ \A s \in {"kConnected", "kDisconnecting", "kDisconnected"} :
                 Keeps(k, [k EXCEPT !.state = s]) /\ [k EXCEPT !.state = s].state = s
           /\ \A b \in BOOLEAN : /\ Keeps(k, [k EXCEPT !.out = b])
                                 /\ Keeps(k, [k EXCEPT !.shut = b])
                                 /\ Keeps(k, [k EXCEPT !.reading = b])
           /\ \A p \in {"none", "removeConnection", "forceCloseInLoop"} :
                 Keeps(k, [k EXCEPT !.post = p])
           /\ Keeps(k, [k EXCEPT !.downs = @ + 1])
           /\ Keeps(k, k)
  <1>1. \A s \in {"kConnected", "kDisconnecting", "kDisconnected"} :
           Keeps(k, [k EXCEPT !.state = s]) /\ [k EXCEPT !.state = s].state = s
    BY DEF Keeps, Conn
  <1>2. \A b \in BOOLEAN : /\ Keeps(k, [k EXCEPT !.out = b])
                           /\ Keeps(k, [k EXCEPT !.shut = b])
                           /\ Keeps(k, [k EXCEPT !.reading = b])
    BY DEF Keeps, Conn
  <1>3. \A p \in {"none", "removeConnection", "forceCloseInLoop"} :
           Keeps(k, [k EXCEPT !.post = p])
    BY DEF Keeps, Conn
  <1>4. Keeps(k, [k EXCEPT !.downs = @ + 1]) /\ Keeps(k, k)
    BY DEF Keeps, Conn
  <1> QED
    BY <1>1, <1>2, <1>3, <1>4

LEMMA DownKeeps ==
    ASSUME NEW k \in Conn
    PROVE  Keeps(k, ConnectionCallback(DisableAll([k EXCEPT !.state = "kDisconnected"])))
  <1> DEFINE off == [k EXCEPT !.state = "kDisconnected"]
             quiet == DisableAll(off)
  <1>1. Keeps(k, off) /\ off.state = "kDisconnected" /\ off \in Conn
    BY FieldKeeps DEF Keeps
  <1> HIDE DEF off
  <1>2. Keeps(off, quiet) /\ quiet \in Conn
    BY <1>1, PollerKeeps DEF Keeps
  <1>3. quiet.state = "kDisconnected"
    <2>1. PICK j : j = [off EXCEPT !.events = {}]
      OBVIOUS
    <2>2. j \in Conn /\ j.state = "kDisconnected"
      BY <1>1, <2>1 DEF Conn
    <2>3. Update(j).state = "kDisconnected"
      BY <2>2 DEF Update, Conn
    <2> QED
      BY <2>1, <2>3 DEF DisableAll
  <1> HIDE DEF quiet
  <1>4. ConnectionCallback(quiet) = [quiet EXCEPT !.downs = @ + 1]
    BY <1>3 DEF ConnectionCallback
  <1>5. Keeps(quiet, ConnectionCallback(quiet))
    BY <1>2, <1>4, FieldKeeps
  <1>6. Keeps(k, ConnectionCallback(quiet))
    BY <1>1, <1>2, <1>5, KeepsTransitive
  <1> QED
    BY <1>6 DEF quiet, off

LEMMA CloseKeeps ==
    ASSUME NEW k \in Conn
    PROVE  Keeps(k, HandleClose(k)) /\ Keeps(k, ConnectDestroyed(k))
           /\ Keeps(k, ForceCloseInLoop(k))
  <1>1. Keeps(k, HandleClose(k))
    <2> DEFINE live == Assert(k, k.state \in {"kConnected", "kDisconnecting"}, "handleClose")
               down == ConnectionCallback(DisableAll([live EXCEPT !.state = "kDisconnected"]))
    <2>1. Keeps(k, live) /\ live \in Conn
      <3>1. live = k \/ live = Fails(k, "handleClose")
        BY DEF Assert, Fails
      <3>2. Keeps(k, k) /\ Keeps(k, Fails(k, "handleClose"))
        BY BadKeeps DEF Sites
      <3> HIDE DEF live
      <3> QED
        BY <3>1, <3>2 DEF Keeps
    <2> HIDE DEF live
    <2>2. Keeps(live, down) /\ down \in Conn
      BY <2>1, DownKeeps DEF Keeps
    <2>3. HandleClose(k) = [down EXCEPT !.post = "removeConnection"]
      BY DEF HandleClose, live
    <2> HIDE DEF down
    <2>4. Keeps(down, HandleClose(k))
      BY <2>2, <2>3, FieldKeeps
    <2> QED
      BY <2>1, <2>2, <2>4, KeepsTransitive
  <1>2. Keeps(k, ConnectDestroyed(k))
    <2> DEFINE down == ConnectionCallback(DisableAll([k EXCEPT !.state = "kDisconnected"]))
    <2>1. Keeps(k, down) /\ down \in Conn
      BY DownKeeps DEF Keeps
    <2>2. ConnectDestroyed(k) = Remove(down) \/ ConnectDestroyed(k) = Remove(k)
      BY DEF ConnectDestroyed
    <2> HIDE DEF down
    <2>3. Keeps(down, Remove(down)) /\ Keeps(k, Remove(k))
      BY <2>1, PollerKeeps
    <2> QED
      BY <2>1, <2>2, <2>3, KeepsTransitive
  <1>3. Keeps(k, ForceCloseInLoop(k))
    BY <1>1, FieldKeeps DEF ForceCloseInLoop
  <1> QED
    BY <1>1, <1>2, <1>3

LEMMA UseKeeps ==
    ASSUME NEW k \in Conn
    PROVE  /\ Keeps(k, ShutdownInLoop(k))
           /\ \A partial : Keeps(k, SendInLoop(k, partial))
           /\ Keeps(k, StopReadInLoop(k)) /\ Keeps(k, StartReadInLoop(k))
  <1>1. Keeps(k, ShutdownInLoop(k))
    BY FieldKeeps DEF ShutdownInLoop
  <1>2. ASSUME NEW partial PROVE Keeps(k, SendInLoop(k, partial))
    <2> DEFINE o == [k EXCEPT !.out = TRUE]
    <2>1. Keeps(k, o) /\ o \in Conn
      BY FieldKeeps DEF Keeps
    <2>2. SendInLoop(k, partial) \in {k, o, Enable(o, "write")}
      BY DEF SendInLoop
    <2> HIDE DEF o
    <2>3. Keeps(o, Enable(o, "write"))
      BY <2>1, PollerKeeps
    <2>4. Keeps(k, Enable(o, "write")) /\ Keeps(k, k)
      BY <2>1, <2>3, FieldKeeps, KeepsTransitive
    <2> QED
      BY <2>1, <2>2, <2>4
  <1>3. ASSUME NEW j \in Conn, Keeps(k, j), NEW b \in BOOLEAN
        PROVE  Keeps(k, [j EXCEPT !.reading = b])
    BY <1>3, FieldKeeps, KeepsTransitive
  <1>4. Keeps(k, Disable(k, "read")) /\ Keeps(k, Enable(k, "read"))
    BY PollerKeeps
  <1>5. Disable(k, "read") \in Conn /\ Enable(k, "read") \in Conn
    BY <1>4 DEF Keeps
  <1>6. Keeps(k, StopReadInLoop(k)) /\ Keeps(k, StartReadInLoop(k))
    BY <1>3, <1>4, <1>5, FieldKeeps DEF StopReadInLoop, StartReadInLoop
  <1> QED
    BY <1>1, <1>2, <1>6

LEMMA OpKeeps ==
    ASSUME NEW k \in Conn, NEW op, NEW partial
    PROVE  Keeps(k, InLoopOp(k, op, partial))
  <1> DEFINE half == [k EXCEPT !.state = "kDisconnecting"]
             forced == [k EXCEPT !.state = "kDisconnecting", !.post = "forceCloseInLoop"]
  <1>1. Keeps(k, half) /\ half \in Conn
    BY FieldKeeps DEF Keeps
  <1>2. forced = [half EXCEPT !.post = "forceCloseInLoop"]
    BY DEF Conn
  <1>3. InLoopOp(k, op, partial) \in
           {k, SendInLoop(k, partial), ShutdownInLoop(half), forced, half,
            StopReadInLoop(k), StartReadInLoop(k)}
    BY DEF InLoopOp
  <1> HIDE DEF half, forced
  <1>4. Keeps(k, forced)
    BY <1>1, <1>2, FieldKeeps, KeepsTransitive
  <1>5. Keeps(k, ShutdownInLoop(half))
    BY <1>1, UseKeeps, KeepsTransitive
  <1>6. /\ Keeps(k, SendInLoop(k, partial)) /\ Keeps(k, k)
        /\ Keeps(k, StopReadInLoop(k)) /\ Keeps(k, StartReadInLoop(k))
    BY UseKeeps, FieldKeeps
  <1> QED
    BY <1>1, <1>3, <1>4, <1>5, <1>6

LEMMA EventKeeps ==
    ASSUME NEW k \in Conn, NEW p, NEW op, NEW partial
    PROVE  Keeps(k, HandleEvent(k, p, op, partial))
  <1>1. ASSUME NEW j \in Conn PROVE Keeps(j, HandleRead(j, p, op, partial))
    BY CloseKeeps, OpKeeps DEF HandleRead
  <1>2. ASSUME NEW j \in Conn PROVE Keeps(j, HandleWrite(j, p, partial))
    <2> DEFINE empty == [j EXCEPT !.out = FALSE]
               drained == Disable(empty, "write")
    <2>1. Keeps(j, empty) /\ empty \in Conn
      BY FieldKeeps DEF Keeps
    <2>2. HandleWrite(j, p, partial) \in {j, drained, ShutdownInLoop(drained)}
      BY DEF HandleWrite
    <2> HIDE DEF empty
    <2>3. Keeps(empty, drained) /\ drained \in Conn
      BY <2>1, PollerKeeps DEF Keeps
    <2> HIDE DEF drained
    <2>4. Keeps(drained, ShutdownInLoop(drained))
      BY <2>3, UseKeeps
    <2>5. Keeps(j, drained)
      BY <2>1, <2>3, KeepsTransitive
    <2>6. Keeps(j, ShutdownInLoop(drained))
      BY <2>4, <2>5, KeepsTransitive
    <2> QED
      BY <2>2, <2>5, <2>6, FieldKeeps
  <1> DEFINE ev == Revents(k, p)
             closed == IF "hup" \in ev /\ "read" \notin ev THEN HandleClose(k) ELSE k
             read == IF "read" \in ev THEN HandleRead(closed, p, op, partial) ELSE closed
  <1>3. HandleEvent(k, p, op, partial) = IF "write" \in ev THEN HandleWrite(read, p, partial) ELSE read
    BY DEF HandleEvent
  <1>4. Keeps(k, closed) /\ closed \in Conn
    BY CloseKeeps, FieldKeeps DEF Keeps
  <1> HIDE DEF closed
  <1>5. Keeps(k, read) /\ read \in Conn
    <2>1. Keeps(closed, HandleRead(closed, p, op, partial))
      BY <1>1, <1>4
    <2>2. Keeps(k, read)
      BY <1>4, <2>1, KeepsTransitive
    <2> QED
      BY <2>2 DEF Keeps
  <1> HIDE DEF read
  <1>6. Keeps(k, HandleWrite(read, p, partial))
    BY <1>2, <1>5, KeepsTransitive
  <1> QED
    BY <1>3, <1>5, <1>6

LEMMA EstablishedKeepsSession ==
    ASSUME KeepSession, NEW k \in Conn
    PROVE  /\ ConnectEstablished(k) \in Conn
           /\ ConnectEstablished(k).session = TRUE /\ ConnectEstablished(k).ups > 0
  <1> DEFINE fresh == Assert(k, k.state = "kConnecting", "connectEstablished")
             up == [fresh EXCEPT !.state = "kConnected"]
             seen == Enable(up, "read")
  <1>1. fresh \in Conn
    <2>1. fresh = k \/ fresh = Fails(k, "connectEstablished")
      BY DEF Assert, Fails
    <2>2. Keeps(k, k) /\ Keeps(k, Fails(k, "connectEstablished"))
      BY BadKeeps DEF Sites
    <2> HIDE DEF fresh
    <2> QED
      BY <2>1, <2>2 DEF Keeps
  <1> HIDE DEF fresh
  <1>2. up \in Conn /\ up.state = "kConnected"
    BY <1>1, FieldKeeps DEF Keeps
  <1> HIDE DEF up
  <1>3. seen \in Conn
    BY <1>2, PollerKeeps DEF Keeps
  <1>4. seen.state = "kConnected"
    <2>1. PICK j : j = [up EXCEPT !.events = @ \cup {"read"}]
      OBVIOUS
    <2>2. j \in Conn /\ j.state = "kConnected"
      BY <1>2, <2>1 DEF Conn
    <2>3. Update(j).state = "kConnected"
      BY <2>2 DEF Update, Conn
    <2> QED
      BY <2>1, <2>3 DEF Enable
  <1> HIDE DEF seen
  <1>5. ConnectEstablished(k) = [seen EXCEPT !.ups = @ + 1, !.session = KeepSession]
    BY <1>4 DEF ConnectEstablished, ConnectionCallback, seen, up, fresh
  <1> DEFINE once == [seen EXCEPT !.ups = @ + 1]
  <1>6. ConnectEstablished(k) = [once EXCEPT !.session = TRUE]
    <2>1. KeepSession = TRUE
      BY SessionAssumption
    <2> QED
      BY <1>3, <1>5, <2>1 DEF Conn
  <1>7. once \in Conn /\ once.ups > 0
    BY <1>3 DEF Conn
  <1> HIDE DEF once
  <1> QED
    BY <1>6, <1>7 DEF Conn
-----------------------------------------------------------------------------
(* Queues: no functor fn of `fns' on the same connection is in s twice.    *)
Once(s, fns) == \A i, j \in 1..Len(s) : s[i] = s[j] /\ s[i].fn \in fns => i = j

LEMMA EmptyEntries ==
    Entries(<<>>) = {} /\ \A fns : Once(<<>>, fns)
  BY DEF Entries, Once

LEMMA AppendEntries ==
    ASSUME NEW S, NEW s \in Seq(S), NEW e \in S
    PROVE  /\ Append(s, e) \in Seq(S)
           /\ Entries(Append(s, e)) = Entries(s) \cup {e}
           /\ \A fns : Once(s, fns) /\ (e \notin Entries(s) \/ e.fn \notin fns)
                          => Once(Append(s, e), fns)
  <1> DEFINE t == Append(s, e)
  <1>1. /\ t \in Seq(S) /\ Len(t) = Len(s) + 1 /\ Len(s) \in Nat
        /\ \A i \in 1..Len(s) : t[i] = s[i]
        /\ t[Len(s) + 1] = e
    BY AppendProperties, LenProperties
  <1> HIDE DEF t
  <1>2. 1..Len(t) = 1..Len(s) \cup {Len(s) + 1}
    BY <1>1
  <1>3. Entries(t) = Entries(s) \cup {e}
    BY <1>1, <1>2 DEF Entries
  <1>4. ASSUME NEW fns, Once(s, fns), e \notin Entries(s) \/ e.fn \notin fns
        PROVE  Once(t, fns)
    <2> SUFFICES ASSUME NEW i \in 1..Len(t), NEW j \in 1..Len(t), t[i] = t[j], t[i].fn \in fns
                 PROVE  i = j
      BY DEF Once
    <2>1. CASE i \in 1..Len(s) /\ j \in 1..Len(s)
      BY <2>1, <1>1, <1>4 DEF Once
    <2>2. CASE i = Len(s) + 1 /\ j \in 1..Len(s)
      BY <2>2, <1>1, <1>4 DEF Entries
    <2>3. CASE i \in 1..Len(s) /\ j = Len(s) + 1
      BY <2>3, <1>1, <1>4 DEF Entries
    <2> QED
      BY <1>2, <2>1, <2>2, <2>3
  <1> QED
    BY <1>1, <1>3, <1>4 DEF t

LEMMA TailEntries ==
    ASSUME NEW S, NEW s \in Seq(S), s # <<>>
    PROVE  /\ Tail(s) \in Seq(S) /\ Head(s) \in S
           /\ Entries(s) = Entries(Tail(s)) \cup {Head(s)}
           /\ \A fns : Once(s, fns) =>
                 /\ Once(Tail(s), fns)
                 /\ Head(s).fn \in fns => Head(s) \notin Entries(Tail(s))
  <1> DEFINE t == Tail(s)
  <1>1. /\ t \in Seq(S) /\ Head(s) \in S /\ Head(s) = s[1]
        /\ Len(s) \in Nat \ {0} /\ Len(t) = Len(s) - 1
        /\ \A i \in 1..Len(t) : t[i] = s[i + 1]
    BY HeadTailProperties, LenProperties
  <1> HIDE DEF t
  <1>2. \A i \in 1..Len(t) : i + 1 \in 1..Len(s) /\ i + 1 # 1
    BY <1>1
  <1>3. \A i \in 1..Len(s) : i = 1 \/ (i - 1 \in 1..Len(t) /\ s[i] = t[i - 1])
    BY <1>1
  <1>4. Entries(s) = Entries(t) \cup {Head(s)}
    <2>1. ASSUME NEW x \in Entries(s) PROVE x \in Entries(t) \cup {Head(s)}
      <3>1. PICK i \in 1..Len(s) : x = s[i]
        BY DEF Entries
      <3>2. CASE i = 1
        BY <3>1, <3>2, <1>1
      <3>3. CASE i - 1 \in 1..Len(t) /\ s[i] = t[i - 1]
        BY <3>1, <3>3 DEF Entries
      <3> QED
        BY <3>2, <3>3, <1>3
    <2>2. Entries(t) \subseteq Entries(s)
      BY <1>1, <1>2 DEF Entries
    <2>3. Head(s) \in Entries(s)
      <3>1. 1 \in 1..Len(s)
        BY <1>1
      <3> QED
        BY <3>1, <1>1 DEF Entries
    <2> QED
      BY <2>1, <2>2, <2>3
  <1>5. ASSUME NEW fns, Once(s, fns)
        PROVE  Once(t, fns) /\ (Head(s).fn \in fns => Head(s) \notin Entries(t))
    <2>1. Once(t, fns)
      <3> SUFFICES ASSUME NEW i \in 1..Len(t), NEW j \in 1..Len(t), t[i] = t[j], t[i].fn \in fns
                   PROVE  i = j
        BY DEF Once
      <3>1. i + 1 = j + 1
        BY <1>1, <1>2, <1>5 DEF Once
      <3> QED
        BY <3>1
    <2>2. ASSUME Head(s).fn \in fns, Head(s) \in Entries(t) PROVE FALSE
      <3>1. PICK i \in 1..Len(t) : t[i] = s[1]
        BY <2>2, <1>1 DEF Entries
      <3>2. 1 \in 1..Len(s) /\ i + 1 \in 1..Len(s) /\ i + 1 # 1 /\ s[i + 1] = s[1]
        BY <3>1, <1>1, <1>2
      <3> QED
        BY <3>2, <2>2, <1>1, <1>5 DEF Once
    <2> QED
      BY <2>1, <2>2
  <1> QED
    BY <1>1, <1>4, <1>5 DEF t

LEMMA EntriesTyped ==
    ASSUME NEW S, NEW s \in Seq(S)
    PROVE  Entries(s) \subseteq S
  BY ElementOfSeq DEF Entries
=============================================================================
