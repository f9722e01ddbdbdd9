-------------------------------- MODULE Session --------------------------------
(***************************************************************************)
(* The TCP sessions of unit-manager (unit-manager/src/tcp_comm.cpp,        *)
(* zmq_bus.cpp, remote_server.cpp, remote_action.cpp, include/session.h)   *)
(* on top of the messaging wrapper (hybrid-comm/include/pzmq.hpp).         *)
(*                                                                         *)
(* Every connection gets a number from counter_port and binds a PULL       *)
(* socket to ipc:///tmp/llm/<number>.sock, read by a thread of its own:    *)
(* whatever arrives there is sent to the client.  Two event loops run the  *)
(* callbacks of their connections; unit_action_match, behind one mutex,    *)
(* answers a request itself or hands it to a node, which answers later, to *)
(* the socket named in the request.                                        *)
(*                                                                         *)
(* A socket is a name in the file system.  A second bind to a name takes   *)
(* it over, closing any of the sockets bound to it removes it, and closing *)
(* a socket that still has a message for a name nobody is bound to waits   *)
(* (no ZMQ_LINGER is set, and by default a context waits for ever).        *)
(***************************************************************************)
EXTENDS Integers, Sequences

CONSTANTS
    NumConns,       \* bound: connections ever accepted
    NumLoops,       \* setThreadNum(2)
    MinPort,        \* 8000
    MaxPort,        \* 65535
    MaxRequests,    \* bound: requests of one connection
    MayCollide,     \* a number may come round while it is still in use
    MayDie          \* the node may be terminated (once) and restarted

ASSUME SessionsAssumption ==
    /\ {NumConns, NumLoops, MaxRequests} \subseteq Nat \ {0}
    /\ {MinPort, MaxPort} \subseteq Nat /\ MinPort <= MaxPort
    /\ {MayCollide, MayDie} \subseteq BOOLEAN

VARIABLES
    counter_port,
    conn,     \* connection -> [phase, port, asked]
    loop,     \* loop -> [pc, c]: the callback it is running, for which connection
    mtx,      \* unit_action_match_mtx: the loop that holds it
    path,     \* number -> the session the socket file leads to
    pull,     \* session -> its PULL thread: [pc, flage, shut]
    inbox,    \* session -> the askers of the messages its socket holds
    node,     \* the node's process: "up", "dead", "again" (restarted)
    nodeq     \* requests the node has queued: [port, asker]

vars == <<counter_port, conn, loop, mtx, path, pull, inbox, node, nodeq>>

Conns == 1..NumConns
Loops == 0..(NumLoops - 1)
Nobody == 0
NoLoop == -1
Idle == [pc |-> "idle", c |-> Nobody]
Numbers == MinPort..(MaxPort + NumLoops - 1)

Init ==
    /\ counter_port = MinPort
    /\ conn = [c \in Conns |-> [phase |-> "new", port |-> MinPort, asked |-> 0]]
    /\ loop = [l \in Loops |-> Idle]
    /\ mtx = NoLoop
    /\ path = [p \in Numbers |-> Nobody]
    /\ pull = [c \in Conns |-> [pc |-> "none", flage |-> TRUE, shut |-> FALSE]]
    /\ inbox = [c \in Conns |-> <<>>]
    /\ node = "up"
    /\ nodeq = <<>>
-----------------------------------------------------------------------------
(* A loop runs one callback at a time; connections are dealt to the loops  *)
(* in turn.                                                                *)
Begin(l, c, pc) ==
    /\ loop[l] = Idle
    /\ c % NumLoops = l
    /\ loop' = [loop EXCEPT ![l] = [pc |-> pc, c |-> c]]

Goto(l, pc) == loop' = [loop EXCEPT ![l].pc = pc]
Return(l) == loop' = [loop EXCEPT ![l] = Idle]
At(l, pc) == loop[l].pc = pc

InUse == {conn[c].port : c \in {d \in Conns : conn[d].phase \in {"taken", "open"}}}
             \cup {nodeq[i].port : i \in DOMAIN nodeq}

(* onConnection, connected: the number is taken in one step ...            *)
Connect(l, c) ==
    /\ conn[c].phase = "new"
    /\ \A d \in 1..(c - 1) : conn[d].phase # "new"
    /\ MayCollide \/ counter_port \notin InUse
    /\ Begin(l, c, "work")
    /\ conn' = [conn EXCEPT ![c].phase = "taken", ![c].port = counter_port]
    /\ counter_port' = counter_port + 1
    /\ UNCHANGED <<mtx, path, pull, inbox, node, nodeq>>

\* Mutant: the number is the counter's last one by the time of the bind.
WorkRereads(l) ==
    LET c == loop[l].c
        p == counter_port - 1
    IN  /\ At(l, "work")
        /\ conn' = [conn EXCEPT ![c].phase = "open", ![c].port = p]
        /\ path' = [path EXCEPT ![p] = c]
        /\ pull' = [pull EXCEPT ![c] = [pc |-> "poll", flage |-> FALSE, shut |-> FALSE]]
        /\ Goto(l, "test")
        /\ UNCHANGED <<counter_port, mtx, inbox, node, nodeq>>

(* ... work binds the socket and starts its thread ...                     *)
Work(l) ==
    LET c == loop[l].c
    IN  /\ At(l, "work")
        /\ conn' = [conn EXCEPT ![c].phase = "open"]
        /\ path' = [path EXCEPT ![conn[c].port] = c]
        /\ pull' = [pull EXCEPT ![c] = [pc |-> "poll", flage |-> FALSE, shut |-> FALSE]]
        /\ Goto(l, "test")
        /\ UNCHANGED <<counter_port, mtx, inbox, node, nodeq>>

\* Mutant: the counter is compared for equality.
TestEqual(l) ==
    /\ At(l, "test")
    /\ IF counter_port = MaxPort + 1 THEN Goto(l, "store") ELSE Return(l)
    /\ UNCHANGED <<counter_port, conn, mtx, path, pull, inbox, node, nodeq>>

(* ... and the counter is read again, and perhaps set back.                *)
Test(l) ==
    /\ At(l, "test")
    /\ IF counter_port > MaxPort THEN Goto(l, "store") ELSE Return(l)
    /\ UNCHANGED <<counter_port, conn, mtx, path, pull, inbox, node, nodeq>>

Store(l) ==
    /\ At(l, "store")
    /\ counter_port' = MinPort
    /\ Return(l)
    /\ UNCHANGED <<conn, mtx, path, pull, inbox, node, nodeq>>
-----------------------------------------------------------------------------
(* onMessage: select_json_str, on_data, unit_action_match.                 *)
Message(l, c) ==
    /\ conn[c].phase = "open"
    /\ conn[c].asked < MaxRequests
    /\ Begin(l, c, "lock")
    /\ conn' = [conn EXCEPT ![c].asked = @ + 1]
    /\ UNCHANGED <<counter_port, mtx, path, pull, inbox, node, nodeq>>

(* The request is refused (a missing or broken field) or goes to a node.   *)
Lock(l) ==
    /\ At(l, "lock")
    /\ mtx = NoLoop
    /\ mtx' = l
    /\ Goto(l, "print") \/ Goto(l, "call")
    /\ UNCHANGED <<counter_port, conn, path, pull, inbox, node, nodeq>>

(* zmq_com_send: the socket's destructor waits until the message is gone.  *)
Delivered(p, asker) ==
    /\ path[p] # Nobody
    /\ inbox' = [inbox EXCEPT ![path[p]] = Append(@, asker)]

(* usr_print_error.                                                        *)
PrintError(l) ==
    LET c == loop[l].c
    IN  /\ At(l, "print")
        /\ Delivered(conn[c].port, c)
        /\ mtx' = NoLoop
        /\ Return(l)
        /\ UNCHANGED <<counter_port, conn, path, pull, node, nodeq>>

(* remote_call to a living node: its RPC thread queues the request and     *)
(* answers at once.                                                        *)
Call(l) ==
    LET c == loop[l].c
    IN  /\ At(l, "call")
        /\ node # "dead"
        /\ nodeq' = Append(nodeq, [port |-> conn[c].port, asker |-> c])
        /\ mtx' = NoLoop
        /\ Return(l)
        /\ UNCHANGED <<counter_port, conn, path, pull, inbox, node>>

(* The socket file of a terminated node is still there, so creat_req goes  *)
(* on: the request is queued, the answer times out, and close_zmq waits    *)
(* for the request to leave.  `ret' is still 0.  With no file (the node    *)
(* closed its socket in good order) the client is told "unit call false".  *)
CallTimesOut(l) ==
    /\ At(l, "call")
    /\ node = "dead"
    /\ Goto(l, "linger") \/ Goto(l, "print")
    /\ UNCHANGED <<counter_port, conn, mtx, path, pull, inbox, node, nodeq>>

CloseCall(l) ==
    LET c == loop[l].c
    IN  /\ At(l, "linger")
        /\ node # "dead"
        /\ nodeq' = Append(nodeq, [port |-> conn[c].port, asker |-> c])
        /\ mtx' = NoLoop
        /\ Return(l)
        /\ UNCHANGED <<counter_port, conn, path, pull, inbox, node>>
-----------------------------------------------------------------------------
\* Mutant: ~pzmq does not raise the flag.
StopUnflagged(l, c) ==
    /\ conn[c].phase = "open"
    /\ Begin(l, c, "join")
    /\ pull' = [pull EXCEPT ![c].shut = TRUE]
    /\ UNCHANGED <<counter_port, conn, mtx, path, inbox, node, nodeq>>

(* onConnection, disconnected: session->stop().  ~pzmq raises the flag,    *)
(* shuts the context down ...                                              *)
Stop(l, c) ==
    /\ conn[c].phase = "open"
    /\ Begin(l, c, "join")
    /\ pull' = [pull EXCEPT ![c].flage = TRUE, ![c].shut = TRUE]
    /\ UNCHANGED <<counter_port, conn, mtx, path, inbox, node, nodeq>>

(* ... joins the thread, and close_zmq closes the socket and removes its   *)
(* file, whoever is bound to that name now.                                *)
Close(l) ==
    LET c == loop[l].c
    IN  /\ At(l, "join")
        /\ pull[c].pc = "exited"
        /\ conn' = [conn EXCEPT ![c].phase = "closed"]
        /\ path' = [path EXCEPT ![conn[c].port] = Nobody]
        /\ inbox' = [inbox EXCEPT ![c] = <<>>]
        /\ Return(l)
        /\ UNCHANGED <<counter_port, mtx, pull, node, nodeq>>
-----------------------------------------------------------------------------
(* zmq_event_loop of a PULL socket: a message is read ...                  *)
PullMessage(c) ==
    /\ pull[c].pc = "poll" /\ ~pull[c].shut
    /\ inbox[c] # <<>>
    /\ inbox' = [inbox EXCEPT ![c] = Tail(@)]
    /\ pull' = [pull EXCEPT ![c].pc = "call"]
    /\ UNCHANGED <<counter_port, conn, loop, mtx, path, node, nodeq>>

(* ... and sent to the client (TcpSession::send_data queues it in the      *)
(* connection's loop), and the flag is tested again ...                    *)
PullCall(c) ==
    /\ pull[c].pc = "call"
    /\ pull' = [pull EXCEPT ![c].pc = IF pull[c].flage THEN "exited" ELSE "poll"]
    /\ UNCHANGED <<counter_port, conn, loop, mtx, path, inbox, node, nodeq>>

(* ... until zmq_poll fails because the context is shut down: the socket   *)
(* is closed, and the flag ends the loop.                                  *)
PullFails(c) ==
    /\ pull[c].pc = "poll" /\ pull[c].shut
    /\ pull' = [pull EXCEPT ![c].pc = IF pull[c].flage THEN "exited" ELSE "poll"]
    /\ UNCHANGED <<counter_port, conn, loop, mtx, path, inbox, node, nodeq>>
-----------------------------------------------------------------------------
(* The node's event thread handles its requests in order and answers each  *)
(* to the socket that came with it (StackFlow::send, the same wait).       *)
NodeAnswer ==
    /\ node # "dead"
    /\ nodeq # <<>>
    /\ Delivered(Head(nodeq).port, Head(nodeq).asker)
    /\ nodeq' = Tail(nodeq)
    /\ UNCHANGED <<counter_port, conn, loop, mtx, path, pull, node>>

NodeDies ==
    /\ MayDie /\ node = "up"
    /\ node' = "dead"
    /\ nodeq' = <<>>
    /\ UNCHANGED <<counter_port, conn, loop, mtx, path, pull, inbox>>

NodeRestarts ==
    /\ node = "dead"
    /\ node' = "again"
    /\ UNCHANGED <<counter_port, conn, loop, mtx, path, pull, inbox, nodeq>>
-----------------------------------------------------------------------------
LoopStep(l) ==
    \/ Work(l)
    \/ Test(l)
    \/ Store(l)
    \/ Lock(l)
    \/ PrintError(l)
    \/ Call(l)
    \/ CallTimesOut(l)
    \/ CloseCall(l)
    \/ Close(l)

PullStep(c) ==
    \/ PullMessage(c)
    \/ PullCall(c)
    \/ PullFails(c)

Next ==
    \/ \E l \in Loops, c \in Conns : Connect(l, c)
    \/ \E l \in Loops, c \in Conns : Message(l, c)
    \/ \E l \in Loops, c \in Conns : Stop(l, c)
    \/ \E l \in Loops : LoopStep(l)
    \/ \E c \in Conns : PullStep(c)
    \/ NodeAnswer
    \/ NodeDies
    \/ NodeRestarts

(* The loops, the PULL threads and the node keep running; clients need not *)
(* send, stay or leave, and nobody restarts a node for certain.            *)
Fairness ==
    /\ \A l \in Loops : WF_vars(LoopStep(l))
    /\ \A c \in Conns : WF_vars(PullStep(c))
    /\ WF_vars(NodeAnswer)

Spec == Init /\ [][Next]_vars /\ Fairness
-----------------------------------------------------------------------------
(* The number a session gets goes past 65535 by no more than the loops     *)
(* that were between taking a number and setting the counter back          *)
(* (tcp_comm.cpp:33-38), however their steps interleave.                   *)
CounterBounded ==
    \A c \in Conns : conn[c].port <= MaxPort + NumLoops - 1

(* What reaches a session's socket, and so its client, is an answer to one *)
(* of that client's own requests.  It rests on every number being taken by *)
(* one connection only, and holds as long as a number comes round after    *)
(* its last use.                                                           *)
AnswersToAsker ==
    \A c \in Conns : \A i \in DOMAIN inbox[c] : inbox[c][i] = c

(* Unless a dead node stays dead, every callback a loop runs comes to its  *)
(* end: asking a node, answering, and above all the join of the PULL       *)
(* thread, done in the loop's own thread when the client leaves.           *)
CallbacksEnd ==
    []<>(node # "dead") => \A l \in Loops : loop[l] # Idle ~> loop[l] = Idle

(* "timeout_(3000)": asking a node takes three seconds at most, whatever   *)
(* becomes of the node.                                                    *)
CallsTimeOut == \A l \in Loops : At(l, "call") ~> loop[l] = Idle

(* "timeout_(3000)", ZMQ_SNDTIMEO: the node gets rid of every answer.      *)
NodeAnswersAll == nodeq # <<>> ~> nodeq = <<>>
=============================================================================
