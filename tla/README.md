# Verification of the edge LLM runtime

The repository is a small runtime for language-model services on one machine:
a reactor network library in the style of muduo (`network/`), a messaging and
RPC wrapper around ZeroMQ (`hybrid-comm/`), a framework for service nodes
(`infra-controller/`), the central `unit-manager/` that clients talk to over
TCP, and one test node (`node/test/`). This directory holds TLA+ models of its
concurrent core, the TLC configurations that check them, and TLAPS proofs.

## 1. Inventory

### Components, their state and operations

| component | state | operations | hard parts |
|---|---|---|---|
| EventLoop (`network/src/EventLoop.cc`) | `quit_`, eventfd, `pendingFunctors_` under a mutex, `callingPendingFunctors_`, active channels | `loop`, `queueInLoop`, `runInLoop`, `quit`, `wakeup` | publication and wakeup are separate steps; the loop's own callbacks queue work |
| EventLoopThread, EventLoopThreadPool | `loop_` (shared pointer), the thread; round-robin index | `startLoop`, `threadFunc`, destructor; `getNextLoop` | the loop is published before it runs; the destructor reads `loop_` unlocked |
| Channel, Poller | subscription, epoll registration | `update`, `remove`, `handleEvent`, `poll` | asserts on registration; a channel out of epoll is added again by any update |
| TcpConnection | `state_`, channel, output buffer, `context_` | `connectEstablished`, `connectDestroyed`, `send`, `shutdown`, `forceClose`, `stopRead`, event handlers | life time by `shared_ptr`, some callbacks hold a bare `this`; `state_` is touched by several threads |
| TcpServer, Acceptor | `connections_`, `nextConnId_`, `idleFd_` | `newConnection`, `removeConnection`, destructor, `handleRead` | the close path crosses two loops twice; no descriptor left |
| Buffer | vector, reader and writer index | `append`, `retrieve`, `prepend`, `unwrite`, `readFd` ... | move or resize, reads that spill over |
| unit registry (`unit-manager/src/remote_server.cpp`) | `key_sql` under a spin lock, `port_list`, `unit_data` objects | `register_unit`, `release_unit`, `sql_*` | objects are used outside the lock; the port list may run out |
| ZMQ bus, TCP sessions (`zmq_bus.cpp`, `tcp_comm.cpp`, `session.h`) | one session per connection, its ZMQ thread and port | `onConnection`, `onMessage`, `stop`, `zmq_bus_publisher_push` | the session owns the connection that owns it; `counter_port` is shared by two loops and wraps; `stop` joins a thread inside a loop |
| pzmq, pzmq_data | one socket and one service thread | `call_rpc_action`, `zmq_event_loop`, `close_zmq`, `set_param`/`get_param` | RPC timeouts, shutdown, sockets closed with messages left |
| StackFlow, llm_channel | event queue, tasks, channels | `setup`, `exit`, `pause`, `sys_register_unit`, `sys_release_unit` | a node's view of its registration against the unit manager's |
| stream helpers (`StackFlowUtil.cpp`), test node | the map `stream_buff` and `count`, both static | `sample_json_str_get`, `decode_stream`, `task_user_data`, `task_output` | pieces lost or mixed; JSON read by searching text |
| Connector, TcpClient | `connect_` of both, `state_`, `channel_`, `connection_` | `start`, `stop`, `restart`, `connect`, destructor | two threads, bare `this` in functors; not used by the programs of the repository |

How they interact. Loops talk to each other only through functors
(`queueInLoop`, `runInLoop`). `TcpServer` runs on one loop and hands each
connection to a loop of its pool; the connection reports its end back to the
server's loop, which answers with `connectDestroyed`. In unit-manager
`onConnection` gives the connection a session, whose ZMQ thread calls `send`;
`onMessage` calls `unit_action_match`, which pushes to a unit found in
`key_sql`, or calls a node's RPC and waits, its mutex held. A node's RPC thread
only queues the request; its event loop thread serves it, and registers and
releases units through the RPC service "sys" of the unit manager, executed by
one thread of its own. A task's subscriber thread receives what is pushed to
its unit and sends the outcome to the session that asked.

What makes each correct: no work handed to a loop is lost, and it runs in
order; a thread that is destroyed is joined; a connection comes up and goes
down once for its user, is unregistered before it dies and does die; a buffer
is a queue of bytes; a port belongs to one unit and the table leads to living
units; a node and the unit manager agree on the units there are, a task's
threads end before what they use, and a request is answered, to the client
that made it and with the text it sent; a client's attempt has one descriptor
and `stop` ends it. `PROJECT.json` lists the hazards line by line.

### Plan

1. *Done*: `FunctorQueue`, `EventLoop`, `EventLoopThread`, `TcpConnection`,
   `TcpServer`, `TcpClient`, `Acceptor`, `Buffer`, `UnitManager`, `Session`,
   `StackFlow`, `Stream`, `PzmqData`.
2. *Done*: proofs of every safety invariant of the runs of `EventLoop`,
   `EventLoopThread`, `TcpServer`, `TcpClient`, `Buffer`, `UnitManager`,
   `Session`, `StackFlow` and `Stream`, and of the round trips of `PzmqData`.
3. Left to TLC: liveness.

## 2. Modules

* **FunctorQueue** is what a caller may rely on: a FIFO of functors, each run
  once in order, until a quit stops the loop. It models no code.
* **EventLoop** models `EventLoop.cc`. The loop thread's control point is `pc`
  (`start`, `check`, `poll`, `handle`, `swap`, `run`, `done`); `cb` is the
  callback it is inside of, during which it may call `queueInLoop` and `quit`
  itself. A caller's push (`QueueInLoop`) or flag (`Quit`) and its write of the
  eventfd (`Wakeup`) are separate actions. `posted` and `ran` are history
  variables. Each functor is queued at most once.
* **EventLoopThread** extends `EventLoop` by the owner and `threadFunc`, with
  the condition variable between them: `startLoop` tests `loop_` under the mutex
  (`StartLoopTests`), keeps the mutex until `cv_.wait` has made it a waiter
  (`StartLoopWaits`) and may be woken up for nothing (`SpuriousWakeup`);
  `threadFunc` publishes under the mutex and notifies whoever waits at that
  moment (`PublishLoop`). A notification too early, or none, would leave the
  owner asleep.
* **TcpConnection** models `TcpConnection.cc`, `Channel.cc` and the
  bookkeeping of `Poller.cc` as functions from a connection's record to the
  record after a call. What a call posts elsewhere is left in the field `post`,
  a failed assert in `bad`. The build type is Debug, so the asserts are live.
  Every `write` (of `sendInLoop` and of `handleWrite`) takes all there is, or
  only a part or nothing (`partial`): then the output, the subscription and a
  FIN that is owed wait for a later event.
* **TcpServer** extends it by `TcpServer.cc`, the accepting part of
  `Acceptor.cc`, the round robin of the pool and
  `onConnection`/`tcp_stop_work` of unit-manager. Loop 0 is the server's.
  `Commit` stores the record and does what the call posted. One handler or
  functor is one step: on a connection's loop nothing else touches the
  connection, except `state_`, which other threads test (`UserCall`) and set
  (`UserCallRest`) in two steps. `Referenced` says who holds a `shared_ptr`.
  A failed assert, or the use of an object that is gone, stops the process
  (`Aborted`); this includes the assert of `~TcpConnection` when a loop that
  quits drops a functor that was the last owner (`DiesClosed`).
  `tcp_stop_work` runs in a signal handler in loop 0's thread (`StopWork`);
  `SignalAt` says where the signal may find that thread: polling, between the
  handlers of an iteration, among its functors, or inside a critical section,
  in which case it keeps that loop's mutex (`held`) until the handler returns.
  A session's thread goes on calling `send` while the destructor runs.
* **TcpClient** extends it by `TcpClient.cc` and `Connector.cc` on one loop.
  The descriptor of an attempt is in `raw` until a `TcpConnection` takes it;
  descriptors are reused as the kernel reuses them. `connect()` and `stop()`
  come from the loop thread at once (`LoopCall`) or from another thread in
  three steps (`UserCall`, `UserCallRest`), between which the loop runs. How
  often each is called is bounded by constants (`MaxConnects`, `MaxStops`,
  `MaxDisconnects`).
  `removeConnection` tests `connect_` in one step and restarts in another.
* **Acceptor** is `handleRead` at the limit of descriptors, one system call a
  step, with descriptors counted.
* **Buffer** models `Buffer.h` and `readFd`. A C++ index `i` is the position
  `i + 1` of the sequence.
* **UnitManager** models the registry. `ReleaseUnit` and `EraseUnit` are two
  steps of the RPC thread, `PushRead` and `PushSend` two steps of a TCP loop.
  A port number read uninitialised is any number. `PushSend` returns 0 in
  both cases, because the `else` in `zmq_bus_publisher_push` is bound to the
  `if` that the macro `ALOGW` ends with.
* **Session** models the sessions of unit-manager: `onConnection` and
  `onMessage` of two loops (`loop` is the callback each is in and how far),
  `counter_port` in its three steps, `unit_action_match` behind its mutex, the
  PULL thread of each session and its end by `~pzmq`, and a node that answers
  in order to the socket named in the request. The socket file of a number
  (`path`) leads to the session that bound it last, and whoever closes removes
  it. Closing a socket with an undelivered message waits: libzmq's linger is
  infinite and nobody sets it. A terminated node leaves its socket file.
* **Stream** models the texts. A message is a sequence of tokens, and
  `sample_json_str_get` scans it as the code does, character by character, so
  that texts that contain braces, quotes, backslashes or a key are told apart
  from those that do not; `Escape` is what the client's `json.dumps` does.
  Numbers (`index`, `request_id`) are tokens as well: `Numerals` has as many as
  a run needs, and `Digits` puts them in an order. `Clean` says which texts the
  scanner gives back as they were.
  `stream_buff` and `count` are one variable each, as in the code.
* **PzmqData** is the encoding of two parameters in one message; it is only
  proved about.
* **StackFlow** extends `UnitManager` by a node and its clients. The threads
  are `unit_action_match` (`RemoteCall`, `Inference`, one at a time under its
  mutex; `rcall` is how far a call is: before `creat_req`'s look at the socket
  file, sent, delivered), the node's RPC thread (`RpcEnqueue`), its event loop
  (`ev`), its main thread (`main`, which constructs and destroys it), one
  subscriber per task (`sub`) and the unit manager's "sys" thread, which
  executes the actions of `UnitManager` for the requests in `sysq`. `process()`
  takes all events there are (`batch`). A subscriber is destroyed in two steps:
  the flag (`StopSubscriber`, after which it receives nothing more) and the
  join (`Joined`), after which the other sockets are closed (`Cleared`). A
  session may leave (`left`); a task's output for it stays in `zmq_[-2]`
  (`undelivered`), and the thread that then destroys that socket (an exit, a
  new URL, `~llm_llm`), or that answers such a session through `send()`, waits
  in `close_zmq` for ever: `lingering` is a control point of the event loop, of
  the main thread and of a subscriber. `zmq_.clear()` destroys the subscriber
  before the sockets its callback uses: with the keys 0, -2 and -1 that is the
  order of libstdc++'s hash map. An exception that leaves a thread is
  `Terminate`. That is what every error answer is: `send()` wants a string, and
  converting the JSON object `error_body` to one throws. It is also what a
  registration without answer is: `get_param` on an empty message asks for a
  string of impossible length, whatever byte it finds. `faultless` records that
  clients have been orderly and nothing unusual has happened (a misuse, a
  timeout, an early request, a session that leaves, a signal); what is promised
  to orderly clients is stated under it, and their account (`unanswered`,
  `known`, `booked`) is kept until then (`Account`).

The proofs are in modules of their own: `EventLoopProofs` (on `EventLoop` and
`EventLoopThread`), `BufferProofs`, `TcpConnectionProofs` (what one call makes
of a connection), `TcpServerProofs` and `TcpClientProofs` (which extend it),
`SessionProofs`, `StackFlowProofs` (on `UnitManager` and `StackFlow`) and
`StreamProofs` (on `Stream` and `PzmqData`).

Abstractions worth knowing: epoll returns every ready channel (the event list
doubles when full); `revents_` is computed when the channel is handled, not
when `epoll_wait` returned (the peer only moves from open to closed, so this
merges two consecutive polls); a failed `read` is only logged by the code and
is a stuttering step; the output buffer is empty or not, its length does not
matter; in `TcpServer` `session->stop()` does not wait for the session's
thread, which allows more interleavings than the code. In `StackFlow` the RPCs
are all registered at the start (a request that comes between two registrations
is answered "NotAction" and lost); a `remote_call` that a living node has
received does not time out, since the RPC thread it waits for only queues; one
that the node received and did not answer before it ended returns after
`timeout_` (`GivesUp`); and one that was sent to a node that is gone stays
where it is: libzmq waits for ever to deliver it. A session does not leave
during its own call, which its loop's thread makes. In `Session` a request asks
for one answer and `unit_action_match` either refuses it or hands it on; the
failing read of half a request is such a refusal. In `Stream` the keys of a
request come in the order of `sample/test.py`, `data` last, and each thread's
callback is one step, though the two static variables are not locked. A piece
of a stream that is not the last is an inference whose outcome is empty. Two
accesses without a lock are left with every outcome the build can produce: the
push socket replaced under a subscriber that sends (`PushUrlRace`), and the
task map changed by `~llm_llm` under a handler (`DtorEraseTask`).

## 3. Runs

| run | checks | bounds | result |
|---|---|---|---|
| EventLoop | TypeOK, NoLostWakeup, FunctorsInOrder, FunctorsRun, QuitStopsLoop, ImplementsFunctorQueue | 2 callers and the loop itself, 3 functors, 1 I/O channel | holds |
| EventLoopThread | LoopLivesUntilDestroyed, StartLoopTerminates, LateDestructorJoins | 3 functors, any number of spurious wakeups | holds |
| TcpServer | NoAssertFails, DiesDisconnected, CallbacksPaired, OutputWatched, ShutdownCompletes, ClosedIsDestroyed | 2 pool loops, 2 connections, callbacks send, shut down, force-close, any number of partial writes | holds |
| TcpServerSessions | BareFunctorsAlive, ClosedCleanly, DestructorReturns | 2 pool loops, 2 connections, a send from a session's thread at any time, the signal while loop 0 polls or runs its functors | holds |
| TcpClient | NoClientAssertFails, SocketsOwned, StopEndsAttempt, DestroyedClientDisconnects | 2 descriptors, retry on, `connect` and `stop` from another thread, `stop` and `disconnect` from the loop, 2 of each, destroyed with a connection | holds |
| Acceptor | BacklogServed | 4 descriptors, 4 peers | holds |
| Buffer | IndexesOrdered, SizeBounded, ByteQueue | 2 byte values, prepend 2, initial 2, extrabuf 2, calls up to 3 bytes, 4 bytes held | holds |
| UnitManager | PortsOwned, TableAlive | 5 ports, 4 units | holds |
| Session | CounterBounded, AnswersToAsker, CallbacksEnd | 2 loops, 4 connections, 2 numbers, 1 request each, a node that dies once | holds |
| Stream | AnswersWhole, DiesOfLossOnly, StreamsAnswered | 2 clients, 1 task, 2 streams of up to 2 pieces of up to 2 tokens | holds |
| StackFlow | NodeSurvives, UnitsOwned, SubscribersBacked, RequestsAnswered, RemoteCallReturns, DestructorEnds | 3 requests, 1 task at a time, 2 sessions, any number of inferences, timeouts, a session that leaves, SIGTERM | holds |
| StackFlowRefusal | RefusalAnswered | 2 requests, 1 session, no timeouts | violated |

Why the bounds are enough. Two callers and a self-call give every race around
one eventfd; functors that arrive before, during and after one swap need three.
Connections meet only through the loops' queues: two connections on two loops
(or one) show reordering between loops, two loops show the round robin. The
Buffer's branches depend on the order of a few sums; sizes 2 to 4 reach both
sides of each, and the proofs remove the bounds. Five ports are odd, as are the
545 of `master_config.json`: one unit gets its first port and not its second.
In `StackFlow` three requests are a setup, its exit and a setup that relies on
it, or two setups of which one is too many, with a request about either; a node
that takes one task meets its limit with the second. `RemoteCallReturns`
excludes the one case in which the code does not return: the request was sent,
not delivered, and the node is gone. `DestructorEnds` excludes threads that
linger for a session that left. `StackFlowCallLingers` and
`StackFlowStopLingers` show both. The largest runs have about 0.9 million
(`TcpClient`) and 0.55 million (`StackFlow`) distinct states. `StackFlow.cfg`,
`Session.cfg` and `Stream.cfg` do not check for deadlock: clients may stop, and
a terminated node stays so. `DestructorReturns` holds with `"handle"` in
`SignalAt` too; `ClosedCleanly` does not (`TcpServerStopInHandler`), and with a
mutex held neither would be of use, for the destructor waits for its own thread
(`TcpServerStopLocked`). In `TcpClient` two stops and two disconnects suffice
for a call that finds the work of the first one done or still queued; two
descriptors are what a client has at most: the connection that closes and the
attempt that follows it. In `Session` two numbers and two loops make the
counter pass its end, be set back by both, and four connections come round to a
number that was given back; requests are bounded because `std::mutex` promises
no fairness to a loop that a busy one keeps overtaking. In `Stream` two tokens
make a text with matching braces, a key or a mismatch; two pieces make a gap
when the first is lost. The numbers in messages are at most 2, so three
numerals suffice.

What the runs leave out on purpose, because the code does not survive it, is
in configurations of its own: `MayCollide`, `AnyText`, `Mixing`, `LoseFinish`,
`Stealing` and `DestroyWhen` switch it on.

More configurations show counterexamples and are kept for the reader to run
(where one names several properties, `tlc -continue` shows all of them):

| configuration | property | what happens |
|---|---|---|
| EventLoopThreadEarlyQuit | DestructorJoins | `quit()` before `loop()` is lost |
| TcpServerSessionLeak | ClosedIsDestroyed | unit-manager's sessions keep closed connections |
| TcpServerStop | RemovedChannelIsQuiet | the destructor meets a half-closed connection |
| | RemoveOnLiveServer | a functor runs on the destroyed server |
| | DiesDisconnected | a loop quits with `connectDestroyed` queued |
| TcpServerStopLocked | DestructorReturns | the signal comes with a loop's mutex held |
| TcpServerStopInHandler | ClosedCleanly | the signal comes between two handlers |
| TcpServerStopRead | ClosedOnce | `stopRead` and a reset peer close twice |
| TcpServerForceCloseRace | RemovedOnce | `forceClose` from another thread closes twice |
| TcpClientConnectAgain | NoClientAssertFails | `connect()` after the connection closed |
| TcpClientDestroy | NoClientAssertFails | the client destroyed without a connection |
| TcpClientRetry | RetryFollows | a failed attempt is the last |
| TcpClientLateStop | StopPreventsConnection | `restart()` undoes a `stop()` |
| AcceptorStealing | BacklogServed | another thread takes the reserve |
| UnitManagerExhausted | PortsConfigured | a port number that was never set |
| UnitManagerPush | PushFailureReported | a push to no unit is reported as done |
| | PushedUnitAlive | a push to a deleted unit |
| SessionWrap | AnswersToAsker | a number comes round while in use |
| SessionNodeDies | CallsTimeOut | a call of a dead node never returns |
| SessionGone | NodeAnswersAll | an answer to a closed session blocks the node |
| StackFlowCallLingers | RemoteCallEnds | the node ends between the look at its socket file and the delivery |
| StackFlowStopLingers | StopEndsNode | output for a session that left keeps the node from ending |
| StreamTwoTasks, StreamTwoClients | AnswersWhole | overlapping streams mix |
| StreamLostFinish | AnswersWhole | stale pieces join the next text |
| StreamAnyText | AnswersWhole | escapes come back as sent on the wire |
| StreamReserved | DiesOfLossOnly | a text that is a key ends the node |
| StreamPlain | PlainAnswered | a task that does not stream answers nothing |

What the violations show is written under "findings" in `PROJECT.json`, each
with the line of the repository it contradicts. In short: `quit()` before
`loop()` is lost; the destruction of a `TcpServer` with open connections is
unsafe in three ways, and from a signal handler in two more; `stopRead` and a
`forceClose` from another thread each lead to a second close; unit-manager's
sessions keep every closed connection and its descriptor; `register_unit` with
no port left uses an uninitialised number; a push to an unknown unit is
reported as done; a node is terminated by every request it refuses, and by its
destructor if a channel is left; a `TcpClient` connects once and does not
retry; a call of a dead node, or an answer to a client that left, waits for
ever; streams mix, and texts are not unescaped.

Fairness. A thread that can take a step eventually does (`WF` on the loop's
steps, on a caller that has published and must still write the eventfd, on the
destructor; in `Session` on the loops, the PULL threads and the node, in
`Stream` on the tasks' threads, in `Acceptor` on `handleRead`; in `StackFlow`
on each thread of the node and of the unit manager until it lingers, on ZMQ's
delivery to a node that listens, and on a subscriber's callback, which sends
three messages and returns). In `EventLoopThread` the publication of `loop_`
has strong fairness: the owner takes the mutex again after every spurious
wakeup, and `threadFunc` is assumed to get it some time. `PollTimeout` gets
none, so that nothing holds only because `epoll_wait` gives up after ten
seconds; neither do clients, peers or what a program may choose to do. The
scheduler of the operating system justifies the rest.

## 4. Proofs

**EventLoopProofs**, from `LoopThreadAssumption` and `CallbackAssumption`
(the loop's thread is not one of the others, callbacks are distinct things),
for any set of threads, functors and channels:

* `TypeCorrect`: `Spec => []TypeOK`.
* `WakeupNeverLost`: `Spec => []NoLostWakeup`. The property speaks of the
  polling loop only and is not inductive. `WakeupInv` adds that pending
  functors are announced in every phase from the end of one swap to the next
  poll (`PendingAnnounced`; in `handle` and `swap` they need no announcement,
  they are about to be taken), that `callingPendingFunctors_` is true exactly
  in `swap` and `run` (`CallingPhase`: this is why a functor that queues wakes
  the loop), that the loop thread itself is about to write the eventfd only
  inside a functor, and a quit's announcement.
* `OrderPreserved`: `Spec => []FunctorsInOrder`, from the associativity of
  concatenation.
* `Refinement`: `Spec => Promise!Spec`: `EventLoop` implements the safety part
  of `FunctorQueue` under the mapping `queue <- functors \o pendingFunctors_`.

* `ThreadUsesLoop`: `ThreadSpec => Spec /\ []NoLostWakeup /\ []FunctorsInOrder`:
  the owner and `threadFunc` only take steps the loop's specification allows,
  so what is proved of the loop holds of a loop in its thread.
* `LoopLives`: `ThreadSpec => [](LoopLivesUntilDestroyed /\ opc # "terminated")`:
  from the return of `startLoop`, however it was woken up, to the begin of the
  destructor the loop exists, and the joinable thread is never destroyed. It
  says nothing of the destructor's own `quit()`, whose `wakeup()` may come when
  the loop is gone. Its invariant relates the
  owner's step, the thread's and the publication of `loop_`.

**BufferProofs**, from `ZeroAssumption` and `SizeAssumption` (sizes are natural
numbers), for every byte set, prepend size, initial size, `extrabuf` size and
call length:

* `IndexesStayOrdered`, `SizeStaysBounded`, `BytesPreserved`. The inductive
  invariant `BufferInv` says that the indexes are ordered and the vector holds
  at least the reserved bytes, that the content is at most `MaxReadable` and
  that the size is bounded. Each operation has a lemma on the content it
  leaves (`AppendBytes`, `RetrieveBytes`, `PrependBytes`, `UnwriteBytes`,
  `ReadFdBytes`), which rest on lemmas about slices of a vector that is
  partly overwritten.

**TcpConnectionProofs** has no theorem of its own. Its lemmas say, call by call,
what `TcpConnection.cc` makes of a connection in one of four conditions: new,
`Open` (up once, registered, subscribed as its output demands), `Down` (closed,
quiet, still registered), `Dead` (destroyed). They also have the facts about
queues: what an append and a removal leave, and that what is queued once stays
so.

**TcpServerProofs**, for any number of pool threads and connections:

* `ServerAsserts`, `ServerDestruction`, `ServerCallbacks`, `ServerOutput`,
  `ServerShutdown`: `Spec => []` of `NoAssertFails`, `DiesDisconnected`,
  `CallbacksPaired`, `OutputWatched`, `ShutdownCompletes`, under `Orderly`
  (callbacks send, shut down or close; other threads send; the server is not
  destroyed), with writes that take all, a part or nothing: waiting output and
  an owed FIN may last over any number of writability events. None is
  inductive. `LifeInv` says in which phase each connection
  is: `Born` (new, in the map, `connectEstablished` queued), `Living`,
  `Closing` (down, in the map, `removeConnectionInLoop` queued at loop 0),
  `Closed` (out of the map, `connectDestroyed` queued at its own loop) or
  `Gone`. The functor that ends a phase must be queued once (`QueuedOnce`) and
  in the right loop (`Placed`), the active channels of a loop must be those of
  its own open connections (`LoopPhases`), and nobody else may interfere
  (`Undisturbed`).
* `ServerBareFunctors`: `Spec => []BareFunctorsAlive` under `KeepSession`,
  whatever callbacks, other threads and the destructor do. `Held` says that a
  connection that has come up has its session, and that bare functors are for
  such connections only.
* `ServerEndings`: `Spec => []ClosedCleanly` if callbacks and other threads
  only send, as unit-manager's do, and the signal that runs the destructor
  finds loop 0 polling or among its functors (`SignalAt`). A functor
  on the destroyed server, or a second `connectDestroyed`, ends the process,
  and the state after it satisfies no invariant worth having; so `Endings` is
  `ClosedCleanly /\ (~Aborted => CleanInv)`. `CleanInv` is weaker than
  `LifeInv`: `connectDestroyed` may be queued by the destructor before the
  connection is down, and a connection may be out of the map while it lives.

The hypotheses are the line between what the code survives and what it does
not: `TcpServerForceCloseRace` (another thread closes), `TcpServerStopRead`
(a callback stops reading), `TcpServerStopInHandler` (the signal between two
handlers) and `TcpServerStop` (a half-closed connection meets the destructor;
the destructor against the loops) are the counterexamples without them.

**TcpClientProofs**, for any number of descriptors and of calls of `stop()` and
`disconnect()`, with or without retry:

* `ClientAsserts`, `ClientSockets`: `Spec => []` of `NoClientAssertFails` and
  `SocketsOwned`, if `connect()` is called at most once and the client is
  destroyed never or in a settled state (`TcpClientConnectAgain` and
  `TcpClientDestroy` show what happens otherwise). `ClientInv` follows the one
  attempt: nothing has happened before `startInLoop` (`Fresh`); while it
  connects its descriptor is nobody else's (`Trying`); once there is a
  connection, the `resetChannel` the attempt has queued runs before anything
  can close the connection (`Up`), which is what keeps a reconnection from
  finding the old channel; the way is free when `removeConnection` restarts
  (`Reconnecting`); every connection is open and owned, closed with its
  `connectDestroyed` queued, or destroyed (`Lives`, `Backed`).

**SessionProofs**, for any number of loops, connections, numbers and requests:

* `SessionNumbers`: `Spec => [](SessionTypeOK /\ CounterBounded)`. That two
  loops read, increment and reset `counter_port` without a lock makes it pass
  its end by at most one for each loop; `Overshoot` counts the loops between
  the read and the write.
* `SessionAnswers`: `Spec => []AnswersToAsker` under `~MayCollide` (a number
  comes round only after its last use; `SessionWrap` shows the rest).
  `AnswerInv` adds that sessions in use have different numbers, that the socket
  file of a number leads to the session that has it, and that a queued request
  names its asker's.

**StackFlowProofs**, for any number of ports, units, clients, requests and
tasks:

* `UnitManagerTypes`, `UnitManagerTable` (`TableAlive`: the table names a
  deleted unit only between the `delete` and the `SAFE_ERASE` of its own
  release, a window `UnitManagerPush` shows to matter), and
  `UnitManagerPorts` (`PortsOwned` and `PortsConfigured`) under `~MayExhaust`:
  there are ports left (`UnitManagerExhausted` shows the rest).
* `NodeUsesRegistry`: `NodeSpec => Spec /\ []TableAlive`: the node's threads
  use the registry only through the registry's own actions.
* `NodeSubscribers`, `NodeOwnsUnits`: `NodeSpec => []` of `SubscribersBacked`
  and `UnitsOwned`. `NodeInv` says where the one request at "sys" and its
  answer are (`Calling`, `Requested`, `Erasing`, `Granted`), that tasks have
  channels whose numbers have been given out, and how far a thread that
  lingers had come.
* `NodeSurvival`: `NodeSpec => []NodeSurvives`. `SurvivalInv` adds, as long as
  `faultless`, that every request on its way (`Line`, in the order the node
  will meet them) is one the node serves, about a task of which no earlier
  request is the exit, that clients know only such tasks, that no session has
  left and nothing is undelivered, and that tasks and setups on their way
  together are no more than were booked.

**StreamProofs**, for texts, streams and strings of any length:

* `ReadsBack`: what `sample_json_str_get` finds under each key of a request is
  what the client wrote there, if the text is `Clean` (`StreamAnyText` and
  `StreamReserved` show the rest). The scanner is a function by recursion over
  the text. `ScanTrace` unfolds it to the sequence of its states, `Climb`
  (from the least counterexample) carries a fact along that sequence, and
  `ReadQuoted`, `ReadBare` and `ReadObject` say what it returns for a value in
  quotes, a bare one and an object; `PieceChars` and `RawChars` say which token
  is where, so that `FirstKey` can name the place where a key is met first.
* `StreamAnswers`, `StreamDeaths`: `Spec => []` of `AnswersWhole` and
  `DiesOfLossOnly`, for one task that streams its answers, `~AnyText`,
  `~Mixing` and `~LoseFinish` (the other configurations of `Stream` show what
  happens without each). `StreamInv` says that the run has a history
  (`Held`): which client started the k-th stream and with which pieces, how
  many streams have been sent and how many put together, and which piece of
  which stream each queued message is. Queued messages are in the order of
  sending, and the last piece of every stream that is sent and not put
  together is among them (`Queued`); `stream_buff` has pieces of the next
  stream only, and unless one was lost all that left the queue (`Buffered`);
  the calls still to come answer the stream put together last (`Inferring`);
  `asked` has the client's streams in order (`Asking`), the first one the
  answer at hand, the second the one being answered if its answer has not
  begun (`Answering`).
* `ParamRoundTrip`: `get_param` reads back both parameters of `set_param`, if
  the first is no longer than the largest `char` (127 or 255, a hypothesis of
  the theorems; the first parameters of this repository are URLs and numbers,
  far shorter).
* `RegistrationRoundTrip`: so does the node with the nested answer of
  `register_unit`. Both rest on `MessageParts`, which says where the bytes of a
  message come from, and `SliceIs`.

Only model-checked: all liveness (TLAPS does not do fairness or ENABLED), which
is all that `Acceptor` has.

## 5. Not modelled

`json.hpp` (24766 lines) and libzmq's header are vendored: of the lines in the
repository most are theirs, and no model of this system could cover them.
`Socket.cc`, `SocketsOps.cc`, `InetAddress.cc`, `util.cc`, `Endian.h` wrap
system calls and keep no state; samples, container scripts and measurement data
are not part of the system. A second `start()`, `getLoopForHash`,
`writeCompleteCallback_` and `highWaterMarkCallback_` (never set here) are left
out, and so are a channel's subscriptions to other units and URLs, a node's
`sys_sql` calls, `unicode_to_utf8` and `file_exists`, which nothing here uses.
A request with an empty `work_id` ends the unit manager by an exception; it is
a finding and not part of `Session`. The data race on `stream_buff` itself (two
threads inside one `unordered_map`) has no outcome a model could enumerate.
