---------------------------- MODULE TcpConnection ----------------------------
(***************************************************************************)
(* network::TcpConnection with its Channel and the Poller's bookkeeping of *)
(* it, as functions from a connection to the connection after a call: the  *)
(* part that TcpServer and TcpClient share.  They run in the loop thread   *)
(* of the connection, one at a time.                                       *)
(*                                                                         *)
(* A member function cannot touch its owner's map or a loop's queue here;  *)
(* what it posts there is left in the field `post' and carried out by the  *)
(* module that owns the connection.  A failed assert of the code is        *)
(* recorded in the field `bad'.                                            *)
(***************************************************************************)
EXTENDS Naturals, Sequences

CONSTANT KeepSession   \* onConnection stores a TcpSession that owns the connection

ASSUME SessionAssumption == KeepSession \in BOOLEAN

Functor(fn, c) == [fn |-> fn, c |-> c]

Entries(s) == {s[i] : i \in 1..Len(s)}
-----------------------------------------------------------------------------
(* Channel and Poller: `events' is what the channel subscribes to, `index' *)
(* whether the Poller has never seen it, has it in epoll, or has only it   *)
(* in its map.                                                             *)

NewConn == [state |-> "kConnecting", events |-> {}, index |-> "kNew",
            reading |-> TRUE, out |-> FALSE, shut |-> FALSE, session |-> FALSE,
            ups |-> 0, downs |-> 0, post |-> "none", bad |-> {}]

Assert(k, holds, site) ==
    IF holds THEN k ELSE [k EXCEPT !.bad = @ \cup {site}]

(* A channel that is not in epoll is added even if it subscribes to        *)
(* nothing; epoll still reports a hang-up on it.                           *)
Update(k) ==
    CASE k.index # "kAdded" -> [k EXCEPT !.index = "kAdded"]
      [] k.index = "kAdded" /\ k.events = {} -> [k EXCEPT !.index = "kDeleted"]
      [] OTHER -> k

Enable(k, e) == Update([k EXCEPT !.events = @ \cup {e}])
Disable(k, e) == Update([k EXCEPT !.events = @ \ {e}])
DisableAll(k) == Update([k EXCEPT !.events = {}])

Remove(k) ==
    LET quiet == Assert(k, k.events = {}, "Channel::remove")
        known == Assert(quiet, k.index # "kNew", "Poller::removeChannel")
    IN  [known EXCEPT !.index = "kNew"]
-----------------------------------------------------------------------------
(* TcpConnection's members, as functions of the connection.                *)

\* Mutant: the callback keeps no session.
ConnectionCallbackNoSession(k) ==
    IF k.state = "kConnected"
    THEN [k EXCEPT !.ups = @ + 1]
    ELSE [k EXCEPT !.downs = @ + 1]

(* connectionCallback_; unit-manager's onConnection stores a session that  *)
(* owns the connection, and its down branch stops the session but keeps it.*)
ConnectionCallback(k) ==
    IF k.state = "kConnected"
    THEN [k EXCEPT !.ups = @ + 1, !.session = KeepSession]
    ELSE [k EXCEPT !.downs = @ + 1]

ConnectEstablished(k) ==
    LET fresh == Assert(k, k.state = "kConnecting", "connectEstablished")
    IN  ConnectionCallback(Enable([fresh EXCEPT !.state = "kConnected"], "read"))

\* Mutant: the guard of the down branch is dropped.
ConnectDestroyedUnguarded(k) ==
    Remove(ConnectionCallback(DisableAll([k EXCEPT !.state = "kDisconnected"])))

ConnectDestroyed(k) ==
    IF k.state = "kConnected"
    THEN Remove(ConnectionCallback(DisableAll([k EXCEPT !.state = "kDisconnected"])))
    ELSE Remove(k)

\* Mutant: the channel stays in epoll after the close.
HandleCloseNoDisable(k) ==
    LET live == Assert(k, k.state \in {"kConnected", "kDisconnecting"}, "handleClose")
        down == ConnectionCallback([live EXCEPT !.state = "kDisconnected"])
    IN  [down EXCEPT !.post = "removeConnection"]

HandleClose(k) ==
    LET live == Assert(k, k.state \in {"kConnected", "kDisconnecting"}, "handleClose")
        down == ConnectionCallback(DisableAll([live EXCEPT !.state = "kDisconnected"]))
    IN  [down EXCEPT !.post = "removeConnection"]

ForceCloseInLoop(k) ==
    IF k.state \in {"kConnected", "kDisconnecting"} THEN HandleClose(k) ELSE k

ShutdownInLoop(k) ==
    IF "write" \in k.events THEN k ELSE [k EXCEPT !.shut = TRUE]

\* Mutant: what the kernel did not take is buffered but not watched for.
SendInLoopUnwatched(k, partial) ==
    IF k.state = "kDisconnected" \/ ("write" \notin k.events /\ ~k.out /\ ~partial)
    THEN k
    ELSE [k EXCEPT !.out = TRUE]

(* `partial': the kernel takes less than everything (or nothing now).  An  *)
(* error drops the message, as if all of it had been written.              *)
SendInLoop(k, partial) ==
    IF k.state = "kDisconnected" \/ ("write" \notin k.events /\ ~k.out /\ ~partial)
    THEN k
    ELSE IF "write" \in k.events
         THEN [k EXCEPT !.out = TRUE]
         ELSE Enable([k EXCEPT !.out = TRUE], "write")

StopReadInLoop(k) ==
    IF k.reading \/ "read" \in k.events
    THEN [Disable(k, "read") EXCEPT !.reading = FALSE]
    ELSE k

StartReadInLoop(k) ==
    IF ~k.reading \/ "read" \notin k.events
    THEN [Enable(k, "read") EXCEPT !.reading = TRUE]
    ELSE k

(* The public operations called in the loop thread.  forceCloseWithDelay's *)
(* timer is commented out: it only changes state_.                         *)
InLoopOp(k, op, partial) ==
    CASE op = "send" /\ k.state = "kConnected" -> SendInLoop(k, partial)
      [] op = "shutdown" /\ k.state = "kConnected" ->
             ShutdownInLoop([k EXCEPT !.state = "kDisconnecting"])
      [] op = "forceClose" /\ k.state \in {"kConnected", "kDisconnecting"} ->
             [k EXCEPT !.state = "kDisconnecting", !.post = "forceCloseInLoop"]
      [] op = "forceCloseWithDelay" /\ k.state \in {"kConnected", "kDisconnecting"} ->
             [k EXCEPT !.state = "kDisconnecting"]
      [] op = "stopRead" -> StopReadInLoop(k)
      [] op = "startRead" -> StartReadInLoop(k)
      [] OTHER -> k

(* read() returns data while the peer is open (the message callback then   *)
(* does `op'), otherwise 0; an error is only logged and read again.        *)
HandleRead(k, p, op, partial) ==
    IF p = "open" THEN InLoopOp(k, op, partial) ELSE HandleClose(k)

\* Mutant: a drained output buffer does not complete a pending shutdown.
HandleWriteForgetsShutdown(k, p, partial) ==
    IF "write" \in k.events /\ p # "reset" /\ ~partial
    THEN Disable([k EXCEPT !.out = FALSE], "write")
    ELSE k

(* write() drains the output buffer, or takes a part of it or nothing: the *)
(* rest waits for the next event.  On a reset connection it only fails.    *)
HandleWrite(k, p, partial) ==
    IF "write" \in k.events /\ p # "reset" /\ ~partial
    THEN LET drained == Disable([k EXCEPT !.out = FALSE], "write")
         IN  IF k.state = "kDisconnecting" THEN ShutdownInLoop(drained) ELSE drained
    ELSE k

(* What epoll reports: readable if subscribed to, writable if subscribed   *)
(* to, a hang-up in any case once both directions are closed.              *)
Hup(k, p) == p = "reset" \/ (p = "fin" /\ k.shut)
Revents(k, p) ==
    {e \in {"read", "write"} : e \in k.events} \cup (IF Hup(k, p) THEN {"hup"} ELSE {})

(* Channel::handleEvent.  At most one write() is made: the callback's, if  *)
(* no output was waiting, or handleWrite's, if some was; `partial' is      *)
(* about that one.                                                         *)
HandleEvent(k, p, op, partial) ==
    LET ev == Revents(k, p)
        closed == IF "hup" \in ev /\ "read" \notin ev THEN HandleClose(k) ELSE k
        read == IF "read" \in ev THEN HandleRead(closed, p, op, partial) ELSE closed
    IN  IF "write" \in ev THEN HandleWrite(read, p, partial) ELSE read
=============================================================================
