------------------------------- MODULE Acceptor -------------------------------
(***************************************************************************)
(* Acceptor (network/src/Acceptor.cc) at the limit of open descriptors.    *)
(* When accept fails with EMFILE the pending connection stays in the       *)
(* listening socket, which stays readable: the loop would spin.  So the    *)
(* acceptor keeps one descriptor in reserve, idleFd_, gives it up, accepts *)
(* the connection with it, closes it, and takes the reserve back.          *)
(*                                                                         *)
(* Descriptors are counted.  Each system call of handleRead is a step,     *)
(* since the other threads of the process open and close descriptors too   *)
(* (a session's sockets).                                                  *)
(***************************************************************************)
EXTENDS Integers

CONSTANTS
    Limit,       \* the process's limit of open descriptors, idleFd_ included
    MaxPeers,    \* bound: connections ever attempted
    Stealing     \* other threads may open descriptors while handleRead runs

ASSUME LimitAssumption ==
    Limit \in Nat \ {0} /\ MaxPeers \in Nat /\ Stealing \in BOOLEAN

VARIABLES
    pending,    \* connections in the listening socket's queue
    peers,      \* connections attempted so far
    conns,      \* descriptors of accepted connections
    others,     \* descriptors of other threads
    idleFd_,    \* 1 if the reserve is open, 0 if it is -1
    pc          \* where handleRead is

vars == <<pending, peers, conns, others, idleFd_, pc>>

Free == Limit - conns - others - idleFd_

Init ==
    /\ pending = 0 /\ peers = 0 /\ conns = 0 /\ others = 0
    /\ idleFd_ = 1
    /\ pc = "poll"
-----------------------------------------------------------------------------
(* The listening socket is readable: handleRead accepts one connection ... *)
HandleReadAccept ==
    /\ pc = "poll" /\ pending > 0
    /\ Free > 0
    /\ pending' = pending - 1
    /\ conns' = conns + 1
    /\ UNCHANGED <<peers, others, idleFd_, pc>>

(* ... finds that it was aborted ...                                       *)
HandleReadAborted ==
    /\ pc = "poll" /\ pending > 0
    /\ pending' = pending - 1
    /\ UNCHANGED <<peers, conns, others, idleFd_, pc>>

(* ... or there is no descriptor for it: EMFILE.                           *)
HandleReadFull ==
    /\ pc = "poll" /\ pending > 0
    /\ Free = 0
    /\ pc' = "close"
    /\ UNCHANGED <<pending, peers, conns, others, idleFd_>>

\* Mutant: the reserve is not given up.
CloseIdleNot ==
    /\ pc = "close"
    /\ pc' = "accept"
    /\ UNCHANGED <<pending, peers, conns, others, idleFd_>>

CloseIdle ==
    /\ pc = "close"
    /\ idleFd_' = 0
    /\ pc' = "accept"
    /\ UNCHANGED <<pending, peers, conns, others>>

(* idleFd_ is the connection, if there was one and a descriptor for it.    *)
AcceptIdle ==
    /\ pc = "accept"
    /\ IF Free > 0 /\ pending > 0
       THEN idleFd_' = 1 /\ pending' = pending - 1
       ELSE UNCHANGED <<idleFd_, pending>>
    /\ pc' = "shed"
    /\ UNCHANGED <<peers, conns, others>>

ShedIdle ==
    /\ pc = "shed"
    /\ idleFd_' = 0
    /\ pc' = "open"
    /\ UNCHANGED <<pending, peers, conns, others>>

OpenIdle ==
    /\ pc = "open"
    /\ idleFd_' = IF Free > 0 THEN 1 ELSE 0
    /\ pc' = "poll"
    /\ UNCHANGED <<pending, peers, conns, others>>
-----------------------------------------------------------------------------
PeerConnects ==
    /\ peers < MaxPeers
    /\ peers' = peers + 1
    /\ pending' = pending + 1
    /\ UNCHANGED <<conns, others, idleFd_, pc>>

ConnCloses ==
    /\ conns > 0
    /\ conns' = conns - 1
    /\ UNCHANGED <<pending, peers, others, idleFd_, pc>>

OtherOpens ==
    /\ Stealing \/ pc = "poll"
    /\ Free > 0
    /\ others' = others + 1
    /\ UNCHANGED <<pending, peers, conns, idleFd_, pc>>

OtherCloses ==
    /\ others > 0
    /\ others' = others - 1
    /\ UNCHANGED <<pending, peers, conns, idleFd_, pc>>
-----------------------------------------------------------------------------
HandleRead ==
    \/ HandleReadAccept
    \/ HandleReadFull
    \/ CloseIdle
    \/ AcceptIdle
    \/ ShedIdle
    \/ OpenIdle

Next ==
    \/ HandleRead
    \/ HandleReadAborted
    \/ PeerConnects
    \/ ConnCloses
    \/ OtherOpens
    \/ OtherCloses

(* Only the loop thread is sure to go on: nobody has to close a connection.*)
Spec == Init /\ [][Next]_vars /\ WF_vars(HandleRead)
-----------------------------------------------------------------------------
(* "The special problem of accept()ing when you can't": every pending      *)
(* connection is accepted or turned away, even if no descriptor is ever    *)
(* given back, so the loop does not spin on a listening socket that stays  *)
(* readable.                                                               *)
BacklogServed == pending > 0 ~> pending = 0
=============================================================================
