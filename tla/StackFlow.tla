------------------------------ MODULE StackFlow ------------------------------
(***************************************************************************)
(* A node: StackFlow (infra-controller/src/StackFlow.cpp), its channels    *)
(* (channel.cpp) and the tasks of the test node (node/test/src/main.cpp),  *)
(* together with the unit manager it serves (UnitManager.tla) over the RPC *)
(* wrapper (hybrid-comm/include/pzmq.hpp).                                 *)
(*                                                                         *)
(* A client's request reaches the node through unit_action_match of the    *)
(* unit manager, under its mutex: remote_call looks for the node's socket  *)
(* file, sends the request and waits for the node's RPC thread, which only *)
(* queues an event.  The node's event loop thread                          *)
(* handles the events; to set a task up or to end one it calls the "sys"   *)
(* RPCs of the unit manager.  Each task has a thread that receives the     *)
(* inference messages the unit manager publishes to the task's unit.  The  *)
(* main thread constructs the node and, after a signal, destroys it.       *)
(*                                                                         *)
(* An exception that leaves a thread ends the process.  So does every      *)
(* error answer: send() takes error_msg as a std::string, and the          *)
(* conversion of the JSON object error_body to one throws type_error 302.  *)
(*                                                                         *)
(* A ZMQ socket lingers: its destructor waits, without a limit, until what *)
(* it was given to send is delivered.  For a session that has left that is *)
(* for ever, and so for a request to a node that is gone.                  *)
(***************************************************************************)
EXTENDS UnitManager, Sequences

CONSTANTS
    TaskCount,     \* llm_llm::task_count_
    Urls,          \* the sessions' URLs, 1 being the session all well-formed use goes through
    MaxRequests,   \* bound: requests clients send
    MayTimeout,    \* a sys RPC may take longer than timeout_
    MayStop,       \* the node may get a SIGTERM
    Leaving        \* the sessions that may leave

ASSUME NodeAssumption ==
    /\ TaskCount \in Nat
    /\ 1 \in Urls /\ 0 \notin Urls
    /\ MaxRequests \in Nat /\ MaxRequests <= MaxUnits
    /\ MayTimeout \in BOOLEAN /\ MayStop \in BOOLEAN
    /\ Leaving \subseteq Urls

VARIABLES
    alive,         \* the node's process has not been terminated
    main,          \* the main thread: constructor, running, destructors
    queue, batch,  \* event_queue_, and the events process() has taken from it
    ev,            \* the event loop thread: where it is, and the event it handles
    channel,       \* keys of llm_task_channel_
    task,          \* keys of llm_task_
    output_url_,   \* of each channel
    sub,           \* the subscriber thread of each channel
    inbox,         \* the inference message on its way to it
    call,          \* the node's call of a sys RPC
    sysq,          \* the requests waiting for the sys RPC thread
    match,         \* unit_action_match: free, or the request of its remote_call
    rcall,         \* how far that remote_call is
    left,          \* the sessions that have left
    undelivered,   \* the channels whose zmq_[-2] has output for one of them
    requests,      \* requests sent so far
    unanswered,    \* of them, as clients count: those without an answer,
    known,         \* the units they have and have not asked to end,
    booked,        \* setups asked for and not yet ended
    faultless      \* no misuse, timeout, early request, departure or signal so far

nodeVars == <<alive, main, queue, batch, ev, channel, task, output_url_, undelivered, sub, call>>
account == <<unanswered, known, booked, faultless>>
clientVars == <<match, rcall, left, requests, account>>
allVars == <<vars, nodeVars, inbox, sysq, clientVars>>

NoId == -100                                 \* WORK_ID_NONE
Kinds == {"setup", "exit", "taskinfo", "pause"}
Events == [kind : Kinds, id : Ids \cup {NoId}, url : Urls, ok : BOOLEAN]
NoneEvent == [kind |-> "none", id |-> NoId, url |-> 1, ok |-> TRUE]
NoCall == [st |-> "none", id |-> NoId]
NoUrl == 0
Empty == [url |-> NoUrl, ok |-> TRUE]

NodeInit ==
    /\ Init
    /\ alive = TRUE /\ main = "constructing"
    /\ queue = <<>> /\ batch = <<>>
    /\ ev = [pc |-> "unborn", e |-> NoneEvent]
    /\ channel = {} /\ task = {}
    /\ output_url_ = [id \in Ids |-> NoUrl]
    /\ sub = [id \in Ids |-> "none"]
    /\ inbox = [id \in Ids |-> Empty]
    /\ call = NoCall /\ sysq = <<>>
    /\ match = NoneEvent /\ rcall = "idle" /\ requests = 0 /\ unanswered = 0
    /\ left = {} /\ undelivered = {}
    /\ known = {} /\ booked = 0 /\ faultless = TRUE

(* std::terminate: the process is gone, with its threads and their state.  *)
Terminate ==
    /\ alive' = FALSE
    /\ queue' = <<>> /\ batch' = <<>>
    /\ ev' = [pc |-> "ended", e |-> NoneEvent]
    /\ channel' = {} /\ task' = {}
    /\ output_url_' = [id \in Ids |-> NoUrl]
    /\ sub' = [id \in Ids |-> "none"]
    /\ call' = NoCall
    /\ undelivered' = {}
    /\ UNCHANGED main
-----------------------------------------------------------------------------
(* The clients and unit_action_match.                                      *)

(* What orderly clients keep account of; the first fault ends it.          *)
Account(ok, u, k, b) ==
    /\ faultless' = (faultless /\ ok)
    /\ unanswered' = IF faultless /\ ok THEN u ELSE 0
    /\ known' = IF faultless /\ ok THEN k ELSE {}
    /\ booked' = IF faultless /\ ok THEN b ELSE 0
Fault == Account(FALSE, 0, {}, 0)

(* A request the node serves, from a client that keeps to one session, to  *)
(* the units it was given and to the number of tasks a node takes.         *)
WellFormed(e) ==
    /\ e.url = 1
    /\ \/ e.kind = "setup" /\ e.ok /\ booked < TaskCount
       \/ e.kind = "exit" /\ e.id \in known
       \/ e.kind = "taskinfo" /\ e.id \in known \cup {NoId}

(* A request for the unit: remote_call makes a socket.  (Another session   *)
(* than the first asks only about tasks that exist.)                       *)
RemoteCall(e) ==
    /\ rcall = "idle" /\ push = NoPush
    /\ requests < MaxRequests
    /\ e.url \notin left
    /\ e.id = NoId \/ (e.kind \in {"exit", "taskinfo"} /\ e.id < work_id_number_counter)
    /\ e.ok \/ e.kind = "setup"
    /\ e.url = 1 \/ e.kind \in {"exit", "taskinfo"}
    /\ match' = e
    /\ rcall' = "access"
    /\ requests' = requests + 1
    /\ Account(WellFormed(e), unanswered + 1,
               IF e.kind = "exit" THEN known \ {e.id} ELSE known,
               IF e.kind = "setup" THEN booked + 1 ELSE booked)
    /\ UNCHANGED <<vars, nodeVars, inbox, sysq, left>>

(* The socket file goes with the node's destruction; a process that was    *)
(* terminated leaves it behind.                                            *)
SocketFile == main # "ended"
Listening == alive /\ main # "ended"

\* Mutant: creat_req waits for the socket file.
UnitCallWaits ==
    /\ rcall = "access" /\ ~SocketFile
    /\ UNCHANGED allVars

(* creat_req finds no socket file: nothing was sent, and the client is     *)
(* told "unit call false" ...                                              *)
UnitCallFalse ==
    /\ rcall = "access" /\ ~SocketFile
    /\ rcall' = "idle" /\ match' = NoneEvent
    /\ Account(TRUE, unanswered - 1, known, booked)
    /\ UNCHANGED <<vars, nodeVars, inbox, sysq, left, requests>>

(* ... or it finds one: the socket is connected and takes the request.     *)
CreatReq ==
    /\ rcall = "access" /\ SocketFile
    /\ rcall' = "sent"
    /\ UNCHANGED <<vars, nodeVars, inbox, sysq, match, left, requests, account>>

(* External: ZMQ delivers it to a node that listens.  To one that is gone  *)
(* by now it never will: zmq_msg_recv gives up after timeout_, and the     *)
(* socket lingers in close_zmq for ever, under the mutex.                  *)
Deliver ==
    /\ rcall = "sent" /\ Listening
    /\ rcall' = "delivered"
    /\ UNCHANGED <<vars, nodeVars, inbox, sysq, match, left, requests, account>>

(* The node's RPC thread queues the event and answers "None" (in less than *)
(* timeout_).                                                              *)
RpcEnqueue ==
    /\ rcall = "delivered" /\ Listening
    /\ queue' = Append(queue, match)
    /\ rcall' = "idle" /\ match' = NoneEvent
    /\ UNCHANGED <<vars, alive, main, batch, ev, channel, task, output_url_, undelivered,
                   sub, call, inbox, sysq, left, requests, account>>

(* The node is gone without an answer: after timeout_ the call returns as  *)
(* if there had been one, and the client is told nothing.                  *)
GivesUp ==
    /\ rcall = "delivered" /\ ~Listening
    /\ rcall' = "idle" /\ match' = NoneEvent
    /\ UNCHANGED <<vars, nodeVars, inbox, sysq, left, requests, account>>

UnitActionMatch == UnitCallFalse \/ CreatReq \/ Deliver \/ RpcEnqueue \/ GivesUp

(* External: a client closes its connection.  (Not from inside a call: the *)
(* session's own thread makes it.)                                         *)
SessionLeaves(url) ==
    /\ url \in Leaving \ left
    /\ rcall # "idle" => match.url # url
    /\ push = NoPush
    /\ left' = left \cup {url}
    /\ Fault
    /\ UNCHANGED <<vars, nodeVars, inbox, sysq, match, rcall, requests>>

(* action "inference": zmq_bus_publisher_push, which publishes to the      *)
(* unit's subscriber; nobody may be listening, and then it is lost.  (One  *)
(* message at a time for each unit; UnitManager.tla has the pushes to      *)
(* units that are not there.)                                              *)
Inference(id) ==
    /\ rcall = "idle" /\ left # Urls
    /\ id \in Live /\ inbox[id] = Empty
    /\ PushRead(id)
    /\ UNCHANGED <<nodeVars, inbox, sysq, clientVars>>

InferencePublish(url, ok) ==
    /\ url \notin left
    /\ PushSend
    /\ \/ UNCHANGED <<inbox, account>>
       \/ /\ push.unit_p /\ sub[push.id] # "none" /\ inbox[push.id] = Empty
          /\ inbox' = [inbox EXCEPT ![push.id] = [url |-> url, ok |-> ok]]
          /\ Account(ok /\ url = 1, unanswered, known, booked)
    /\ UNCHANGED <<nodeVars, sysq, match, rcall, left, requests>>
-----------------------------------------------------------------------------
(* The sys RPC thread of the unit manager.                                 *)

(* Its answer reaches the caller unless the caller has stopped waiting.    *)
Answer(r) ==
    /\ sysq' = Tail(sysq)
    /\ call' = IF alive /\ Head(sysq).waiting
               THEN [st |-> "answered", id |-> r]
               ELSE call

SysRegister ==
    /\ sysq # <<>> /\ Head(sysq).fun = "register_unit"
    /\ AllocateUnit
    /\ Answer(work_id_number_counter)
    /\ UNCHANGED <<alive, main, queue, batch, ev, channel, task, output_url_, undelivered,
                   sub, inbox, clientVars>>

SysRelease ==
    /\ sysq # <<>> /\ Head(sysq).fun = "release_unit"
    /\ ReleaseUnit(Head(sysq).id)
    /\ UNCHANGED <<nodeVars, inbox, sysq, clientVars>>

SysErase ==
    /\ EraseUnit
    /\ Answer(rpc)
    /\ UNCHANGED <<alive, main, queue, batch, ev, channel, task, output_url_, undelivered,
                   sub, inbox, clientVars>>

SysStep == SysRegister \/ SysRelease \/ SysErase

(* call_rpc_action: the request is sent, the caller waits.                 *)
CallSys(fun, id) ==
    /\ call' = [st |-> "sent", id |-> id]
    /\ sysq' = Append(sysq, [fun |-> fun, id |-> id, waiting |-> TRUE])

(* After timeout_ the caller goes on with an empty message; the request    *)
(* stays where it is.                                                      *)
CallTimeout ==
    /\ MayTimeout /\ alive /\ call.st = "sent"
    /\ call' = [call EXCEPT !.st = "timeout"]
    /\ sysq' = [i \in DOMAIN sysq |-> [sysq[i] EXCEPT !.waiting = FALSE]]
    /\ Fault
    /\ UNCHANGED <<vars, alive, main, queue, batch, ev, channel, task, output_url_,
                   undelivered, sub, inbox, match, rcall, left, requests>>
-----------------------------------------------------------------------------
(* A channel's sockets and its subscriber thread.                          *)

(* get_channel; a handler that does not find one goes on without.          *)
GetChannel(id) == {id} \cap channel

(* set_push_url: a different URL replaces the socket zmq_[-2].             *)
SetPushUrl(ids, url) ==
    output_url_' = [id \in Ids |-> IF id \in ids THEN url ELSE output_url_[id]]

(* The one replaced is destroyed, and lingers with output for a session    *)
(* that has left.                                                          *)
PushLingers(id, url) == id \in channel \cap undelivered /\ output_url_[id] # url

InCall == {"calling", "ending"}              \* inside task_user_data

(* The event loop thread does so without a lock: if the subscriber thread  *)
(* is using the socket, or the main thread is clearing the map, anything   *)
(* can happen.                                                             *)
PushUrlRace(id, url) ==
    /\ id \in channel
    /\ \/ output_url_[id] # url /\ sub[id] \in InCall
       \/ main = "lingering" /\ id \in task /\ sub[id] = "none"

(* zmq_event_loop receives a message; subscriber_event_call sets the URL   *)
(* of the sender and calls task_user_data.                                 *)
SubscriberReceive(id) ==
    /\ alive /\ sub[id] = "waiting" /\ inbox[id] # Empty
    /\ sub' = [sub EXCEPT ![id] = IF PushLingers(id, inbox[id].url) THEN "lingering"
                                  ELSE "calling"]
    /\ undelivered' = IF PushLingers(id, inbox[id].url) THEN undelivered \ {id}
                      ELSE undelivered
    /\ SetPushUrl({id}, inbox[id].url)
    /\ UNCHANGED <<vars, alive, main, queue, batch, ev, channel, task, call, inbox, sysq,
                   clientVars>>

(* task_user_data wants the weak pointers to the task and the channel to   *)
(* lead somewhere and the data to be usable ...                            *)
UserDataAccepted(id) == id \in task /\ id \in channel /\ inbox[id].ok

(* ... and then sends the outcome of the inference, if there is one yet,   *)
(* through the channel.                                                    *)
SubscriberDone(id) ==
    /\ alive /\ sub[id] \in InCall
    /\ inbox' = [inbox EXCEPT ![id] = Empty]
    /\ IF UserDataAccepted(id)
       THEN /\ sub' = [sub EXCEPT ![id] = IF @ = "ending" THEN "none" ELSE "waiting"]
            /\ \/ UNCHANGED undelivered
               \/ /\ output_url_[id] \in left
                  /\ undelivered' = undelivered \cup {id}
            /\ UNCHANGED <<alive, main, queue, batch, ev, channel, task, output_url_, call>>
       ELSE Terminate
    /\ UNCHANGED <<vars, sysq, clientVars>>

(* subscriber_work_id: a socket and its thread.                            *)
Subscribe(id) == sub' = [sub EXCEPT ![id] = "waiting"]

\* Mutant: flage_ is not set before the thread is joined.
StopSubscriberNoFlag(id) ==
    /\ sub' = [sub EXCEPT ![id] = IF @ \in InCall \cup {"lingering"} THEN @ ELSE "none"]
    /\ inbox' = [inbox EXCEPT ![id] = IF sub[id] \in InCall THEN @ ELSE Empty]

(* stop_subscriber(""): zmq_.clear() destroys the subscriber first.  Its   *)
(* destructor sets flage_ and shuts the context down, so that the thread   *)
(* receives nothing more ...                                               *)
StopSubscriber(id) ==
    /\ sub' = [sub EXCEPT ![id] = CASE @ \in InCall -> "ending"
                                    [] @ = "lingering" -> @
                                    [] OTHER -> "none"]
    /\ inbox' = [inbox EXCEPT ![id] = IF sub[id] \in InCall THEN @ ELSE Empty]

(* ... and waits for the thread.  The other sockets go after it: zmq_[-2]  *)
(* lingers with output for a session that has left.                        *)
Joined(id) == sub[id] = "none"
Cleared(id) == Joined(id) /\ id \notin undelivered
-----------------------------------------------------------------------------
(* The event loop thread.                                                  *)

exit_flage_ == main \in {"joining", "releasing", "ended"}
status_ == main \notin {"constructing", "started"}
DerivedAlive == main \in {"running", "dtorTasks", "lingering"}  \* virtual calls reach llm_llm

(* even_loop tests exit_flage_ ...                                         *)
EvenLoop ==
    /\ alive /\ ev.pc = "loop"
    /\ ev' = [ev EXCEPT !.pc = IF exit_flage_ THEN "ended" ELSE "wait"]
    /\ UNCHANGED <<vars, alive, main, queue, batch, channel, task, output_url_, undelivered,
                   sub, call, inbox, sysq, clientVars>>

(* ... and only then waits for an event; process() takes all there are.    *)
WaitReturns ==
    /\ alive /\ ev.pc = "wait" /\ queue # <<>>
    /\ batch' = queue /\ queue' = <<>>
    /\ ev' = [ev EXCEPT !.pc = "process"]
    /\ UNCHANGED <<vars, alive, main, channel, task, output_url_, undelivered, sub, call,
                   inbox, sysq, clientVars>>

ProcessEnd ==
    /\ alive /\ ev.pc = "process" /\ batch = <<>>
    /\ ev' = [ev EXCEPT !.pc = "loop"]
    /\ UNCHANGED <<vars, alive, main, queue, batch, channel, task, output_url_, undelivered,
                   sub, call, inbox, sysq, clientVars>>

(* _setup, _exit, _pause and _taskinfo unpack the event.                   *)
Dispatch(kinds) ==
    /\ alive /\ ev.pc = "process" /\ batch # <<>>
    /\ Head(batch).kind \in kinds

(* The EVENT_NONE of the destructor, and any event that comes before the   *)
(* constructor has set status_: the request is dropped.                    *)
Ignore ==
    /\ Dispatch(Kinds \cup {"none"})
    /\ Head(batch).kind = "none" \/ ~status_
    /\ batch' = Tail(batch)
    /\ Account(Head(batch).kind = "none", unanswered, known, booked)
    /\ UNCHANGED <<vars, alive, main, queue, ev, channel, task, output_url_, undelivered,
                   sub, call, inbox, sysq, match, rcall, left, requests>>

(* setup: sys_register_unit calls the unit manager ...                     *)
Setup ==
    /\ Dispatch({"setup"}) /\ status_
    /\ ev' = [pc |-> "registering", e |-> Head(batch)]
    /\ batch' = Tail(batch)
    /\ CallSys("register_unit", NoId)
    /\ UNCHANGED <<vars, alive, main, queue, channel, task, output_url_, undelivered, sub,
                   inbox, clientVars>>

\* Mutant: the channel just made is forgotten in the count.
TaskFullAtTotal(channels) == Cardinality(channels) = TaskCount

(* llm_llm::setup counts the channels, the new one included.               *)
TaskFull(channels) == Cardinality(channels) - 1 = TaskCount

(* load_model: the configuration has what a task needs.                    *)
ModelLoads(e) == e.ok

(* llm_llm::setup; without llm_llm, StackFlow::setup, which refuses.       *)
Accepts(e) == DerivedAlive /\ ~TaskFull(channel \cup {call.id}) /\ ModelLoads(e)

(* sys_register_unit: on the empty message of a call without answer the    *)
(* callback's get_param throws.                                            *)
NotRegistered == call.st = "timeout"
Registered == call.st = "answered"

(* send() makes a PUSH socket for the answer, and its end waits for the    *)
(* delivery: for a session that has left the thread lingers in there.      *)
Lingering(e) == ev' = [pc |-> "lingering", e |-> e]

(* ... the unit gets a channel; the task is set up, or refused.            *)
SetupTask ==
    LET id == call.id
    IN  /\ alive /\ ev.pc = "registering"
        /\ \/ /\ NotRegistered \/ (Registered /\ ~Accepts(ev.e))
              /\ Terminate
              /\ UNCHANGED account
           \/ /\ Registered /\ Accepts(ev.e)
              /\ channel' = channel \cup {id}
              /\ task' = task \cup {id}
              /\ SetPushUrl({id}, ev.e.url)
              /\ Subscribe(id)
              /\ call' = NoCall
              /\ IF ev.e.url \in left
                 THEN Lingering(ev.e) /\ UNCHANGED account
                 ELSE /\ ev' = [ev EXCEPT !.pc = "process"]
                      /\ Account(TRUE, unanswered - 1, known \cup {id}, booked)
              /\ UNCHANGED <<alive, main, queue, batch, undelivered>>
        /\ UNCHANGED <<vars, inbox, sysq, match, rcall, left, requests>>

(* exit: the channel, if there is one, answers to the new URL; a task that *)
(* does not exist is refused, one that does loses its subscriber ...       *)
Exit ==
    LET e == Head(batch)
    IN  /\ Dispatch({"exit"}) /\ status_
        /\ \/ /\ e.id \notin task \/ ~DerivedAlive \/ PushUrlRace(e.id, e.url)
              /\ Terminate
              /\ UNCHANGED inbox
           \/ /\ e.id \in task /\ DerivedAlive
              /\ SetPushUrl(GetChannel(e.id), e.url)
              /\ batch' = Tail(batch)
              /\ IF PushLingers(e.id, e.url)
                 THEN /\ Lingering(e)
                      /\ undelivered' = undelivered \ {e.id}
                      /\ UNCHANGED <<sub, inbox>>
                 ELSE /\ StopSubscriber(e.id)
                      /\ ev' = [pc |-> "exiting", e |-> e]
                      /\ UNCHANGED undelivered
              /\ UNCHANGED <<alive, main, queue, channel, task, call>>
        /\ UNCHANGED <<vars, sysq, clientVars>>

\* Mutant: the subscriber thread is not waited for.
ExitTaskDetached ==
    LET id == ev.e.id
    IN  /\ alive /\ ev.pc = "exiting"
        /\ task' = task \ {id}
        /\ Account(TRUE, unanswered - 1, known, booked - 1)
        /\ CallSys("release_unit", id)
        /\ ev' = [ev EXCEPT !.pc = "releasing"]
        /\ UNCHANGED <<vars, alive, main, queue, batch, channel, output_url_, undelivered,
                       sub, inbox, match, rcall, left, requests>>

\* Mutant: the unit manager is not told.
ExitTaskNoRelease ==
    LET id == ev.e.id
    IN  /\ alive /\ ev.pc = "exiting"
        /\ Cleared(id) /\ ev.e.url \notin left
        /\ task' = task \ {id}
        /\ Account(TRUE, unanswered - 1, known, booked - 1)
        /\ call' = [st |-> "answered", id |-> id]
        /\ ev' = [ev EXCEPT !.pc = "releasing"]
        /\ UNCHANGED <<vars, alive, main, queue, batch, channel, output_url_, undelivered,
                       sub, inbox, sysq, match, rcall, left, requests>>

(* ... and, when its thread has ended and its sockets are closed, is       *)
(* erased; the client is told and sys_release_unit calls the unit manager  *)
(* ...                                                                     *)
ExitTask ==
    LET id == ev.e.id
    IN  /\ alive /\ ev.pc = "exiting"
        /\ Cleared(id) /\ ev.e.url \notin left
        /\ task' = task \ {id}
        /\ Account(TRUE, unanswered - 1, known, booked - 1)
        /\ CallSys("release_unit", id)
        /\ ev' = [ev EXCEPT !.pc = "releasing"]
        /\ UNCHANGED <<vars, alive, main, queue, batch, channel, output_url_, undelivered,
                       sub, inbox, match, rcall, left, requests>>

(* ... unless the output for a session that has left keeps zmq_.clear()    *)
(* waiting, or the answer to one keeps send().                             *)
ExitLingers ==
    LET id == ev.e.id
    IN  /\ alive /\ ev.pc = "exiting"
        /\ Joined(id)
        /\ \/ id \in undelivered /\ UNCHANGED task
           \/ id \notin undelivered /\ ev.e.url \in left /\ task' = task \ {id}
        /\ Lingering(ev.e)
        /\ UNCHANGED <<vars, alive, main, queue, batch, channel, output_url_, undelivered,
                       sub, call, inbox, sysq, clientVars>>

(* ... and erases the channel when the call returns, answered or not.      *)
ReleaseReturns ==
    /\ alive /\ ev.pc = "releasing"
    /\ call.st \in {"answered", "timeout"}
    /\ channel' = channel \ {ev.e.id}
    /\ output_url_' = [output_url_ EXCEPT ![ev.e.id] = NoUrl]
    /\ ev' = [ev EXCEPT !.pc = "process"]
    /\ call' = NoCall
    /\ UNCHANGED <<vars, alive, main, queue, batch, task, undelivered, sub, inbox, sysq,
                   clientVars>>

(* llm_llm::taskinfo: of all tasks, or of one, which must exist.           *)
HasInfo(id) == DerivedAlive /\ id \in task \cup {NoId}

(* taskinfo: the channel, if there is one, answers to the new URL.         *)
Taskinfo ==
    LET e == Head(batch)
    IN  /\ Dispatch({"taskinfo"}) /\ status_
        /\ \/ /\ ~HasInfo(e.id) \/ PushUrlRace(e.id, e.url)
              /\ Terminate
              /\ UNCHANGED account
           \/ /\ HasInfo(e.id)
              /\ SetPushUrl(GetChannel(e.id), e.url)
              /\ batch' = Tail(batch)
              /\ undelivered' = IF PushLingers(e.id, e.url) THEN undelivered \ {e.id}
                                ELSE undelivered
              /\ IF PushLingers(e.id, e.url) \/ e.url \in left
                 THEN Lingering(e) /\ UNCHANGED account
                 ELSE Account(TRUE, unanswered - 1, known, booked) /\ UNCHANGED ev
              /\ UNCHANGED <<alive, main, queue, channel, task, sub, call>>
        /\ UNCHANGED <<vars, inbox, sysq, match, rcall, left, requests>>

(* pause: the node has none, so StackFlow::pause answers with an error.    *)
Pause ==
    /\ Dispatch({"pause"}) /\ status_
    /\ Terminate
    /\ UNCHANGED <<vars, inbox, sysq, clientVars>>

EventLoopThread ==
    \/ EvenLoop \/ WaitReturns \/ ProcessEnd \/ Ignore
    \/ Setup \/ SetupTask
    \/ Exit \/ ExitTask \/ ExitLingers \/ ReleaseReturns
    \/ Taskinfo \/ Pause
-----------------------------------------------------------------------------
(* The main thread.                                                        *)

(* The constructor has registered the RPCs; it starts the event loop       *)
(* thread ...                                                              *)
StartEvenLoop ==
    /\ alive /\ main = "constructing"
    /\ main' = "started"
    /\ ev' = [ev EXCEPT !.pc = "loop"]
    /\ UNCHANGED <<vars, alive, queue, batch, channel, task, output_url_, undelivered, sub,
                   call, inbox, sysq, clientVars>>

(* ... and then stores 1 to status_.                                       *)
StatusStored ==
    /\ alive /\ main = "started"
    /\ main' = "running"
    /\ UNCHANGED <<vars, alive, queue, batch, ev, channel, task, output_url_, undelivered,
                   sub, call, inbox, sysq, clientVars>>

(* SIGTERM: main returns, ~llm_llm begins.                                 *)
Sigterm ==
    /\ MayStop /\ alive /\ main = "running"
    /\ main' = "dtorTasks"
    /\ Fault
    /\ UNCHANGED <<vars, alive, queue, batch, ev, channel, task, output_url_, undelivered,
                   sub, call, inbox, sysq, match, rcall, left, requests>>

(* ~llm_llm stops the subscriber of one task after the other; get_channel  *)
(* must find the channel ...                                               *)
DtorStopTask(id) ==
    /\ alive /\ main = "dtorTasks" /\ id \in task
    /\ sub[id] \in {"waiting", "calling"}
    /\ \A jd \in task : sub[jd] # "ending"
    /\ IF id \in channel
       THEN /\ StopSubscriber(id)
            /\ UNCHANGED <<alive, main, queue, batch, ev, channel, task, output_url_,
                           undelivered, call>>
       ELSE Terminate /\ UNCHANGED inbox
    /\ UNCHANGED <<vars, sysq, clientVars>>

(* ... waits, as above, for ever if the thread does or zmq_[-2] lingers    *)
(* after it ...                                                            *)
DtorLingers(id) ==
    /\ alive /\ main = "dtorTasks" /\ id \in task
    /\ \A jd \in task : sub[jd] # "ending"
    /\ sub[id] = "lingering" \/ (Joined(id) /\ id \in undelivered)
    /\ main' = "lingering"
    /\ UNCHANGED <<vars, alive, queue, batch, ev, channel, task, output_url_, undelivered,
                   sub, call, inbox, sysq, clientVars>>

(* ... and erases the task.  A handler of the event loop thread that is    *)
(* under way uses the same map, without a lock.                            *)
DtorEraseTask(id) ==
    /\ alive /\ main = "dtorTasks" /\ id \in task
    /\ Cleared(id)
    /\ \/ ev.pc \in {"registering", "exiting"} /\ Terminate
       \/ /\ task' = task \ {id}
          /\ UNCHANGED <<alive, main, queue, batch, ev, channel, output_url_, undelivered,
                         sub, call>>
    /\ UNCHANGED <<vars, inbox, sysq, clientVars>>

\* Mutant: the event loop thread is not woken up.
DtorStopsSilently ==
    /\ alive /\ main = "dtorTasks" /\ task = {}
    /\ main' = "joining"
    /\ UNCHANGED <<vars, alive, queue, batch, ev, channel, task, output_url_, undelivered,
                   sub, call, inbox, sysq, clientVars>>

(* ~StackFlow: exit_flage_ is set and EVENT_NONE wakes the event loop ...  *)
DtorStopsLoop ==
    /\ alive /\ main = "dtorTasks" /\ task = {}
    /\ main' = "joining"
    /\ queue' = Append(queue, NoneEvent)
    /\ UNCHANGED <<vars, alive, batch, ev, channel, task, output_url_, undelivered, sub,
                   call, inbox, sysq, clientVars>>

(* ... the thread is joined; without a channel the node is destroyed, or   *)
(* else the unit of the first one is released ...                          *)
DtorJoins ==
    /\ alive /\ main = "joining" /\ ev.pc = "ended"
    /\ \/ /\ channel = {}
          /\ main' = "ended"
          /\ UNCHANGED <<call, sysq>>
       \/ \E id \in channel :
              /\ main' = "releasing"
              /\ CallSys("release_unit", id)
    /\ UNCHANGED <<vars, alive, queue, batch, ev, channel, task, output_url_, undelivered,
                   sub, inbox, clientVars>>

(* ... and the second round joins the thread again, which throws.          *)
DtorSecondJoin ==
    /\ alive /\ main = "releasing"
    /\ call.st \in {"answered", "timeout"}
    /\ Terminate
    /\ UNCHANGED <<vars, inbox, sysq, clientVars>>

MainThread ==
    \/ StartEvenLoop \/ StatusStored
    \/ \E id \in Ids : DtorStopTask(id) \/ DtorLingers(id) \/ DtorEraseTask(id)
    \/ DtorStopsLoop \/ DtorJoins \/ DtorSecondJoin
-----------------------------------------------------------------------------
Client ==
    \/ \E e \in Events : RemoteCall(e)
    \/ \E id \in Ids : Inference(id)
    \/ \E url \in Urls : SessionLeaves(url)

NodeNext ==
    \/ Client \/ UnitActionMatch
    \/ \E url \in Urls, ok \in BOOLEAN : InferencePublish(url, ok)
    \/ SysStep \/ CallTimeout
    \/ \E id \in Ids : SubscriberReceive(id) \/ SubscriberDone(id)
    \/ EventLoopThread
    \/ MainThread \/ Sigterm

(* Every thread runs until it lingers, and ZMQ delivers to a node that     *)
(* listens; nothing is assumed of clients, timeouts and signals.           *)
NodeSpec ==
    /\ NodeInit /\ [][NodeNext]_allVars
    /\ WF_allVars(UnitActionMatch)
    /\ WF_allVars(SysStep)
    /\ WF_allVars(EventLoopThread)
    /\ WF_allVars(MainThread)
    /\ \A id \in Ids : WF_allVars(SubscriberDone(id))
-----------------------------------------------------------------------------
(* With clients that keep to one session, to the units they were given and *)
(* to TaskCount tasks, and without a timeout, an early request, a          *)
(* departure or a signal, no exception ends the node, in every             *)
(* interleaving of its threads and the unit manager's: a setup sent as     *)
(* soon as an exit is answered finds room, no callback finds an expired    *)
(* pointer, no handler a missing channel.                                  *)
NodeSurvives == faultless => alive

(* The releases on their way to or inside the sys RPC thread.              *)
Releasing == {sysq[i].id : i \in {j \in DOMAIN sysq : sysq[j].fun = "release_unit"}}

(* The node and the unit manager agree, timeouts included: a living unit   *)
(* has a channel, or is the answer to the setup under way (one without an  *)
(* answer in time ends the node), or its release has been sent and will be *)
(* served; and a channel has a living unit until that release is served.   *)
UnitsOwned ==
    alive => /\ \A id \in Live : \/ id \in channel \cup Releasing
                                 \/ ev.pc = "registering" /\ call = [st |-> "answered", id |-> id]
                                 \/ ev.pc = "registering" /\ call.st = "timeout"
             /\ \A id \in channel : \/ unit[id].alive /\ key_sql[id] = "unit"
                                    \/ id \in Releasing
                                    \/ id = call.id /\ call.st \in {"answered", "timeout"}

(* As long as a subscriber thread exists, what its callbacks use does: the *)
(* weak pointers to the task and the channel never expire under it, and a  *)
(* channel is never destroyed by its own thread.                           *)
SubscribersBacked ==
    alive => \A id \in Ids :
        sub[id] # "none" => /\ id \in channel /\ id \in task
                            /\ output_url_[id] # NoUrl

(* Under the same use every request is answered.                           *)
RequestsAnswered == [](faultless /\ unanswered > 0 => <>(~faultless \/ unanswered = 0))

(* unit_action_match comes back from a node that lives (the event loop's   *)
(* own calls of the unit manager do not keep the node from taking the      *)
(* request), from one that has taken the request, whatever becomes of it,  *)
(* and from one that had removed its socket file when creat_req looked.    *)
(* Only a request sent to a node that is gone by then keeps the mutex.     *)
RemoteCallReturns == rcall # "idle" ~> (rcall = "idle" \/ (rcall = "sent" /\ ~Listening))

(* A thread of the node waits for the delivery to a session that has left. *)
Lingers ==
    \/ ev.pc = "lingering" \/ main = "lingering"
    \/ \E id \in Ids : sub[id] = "lingering"

(* The destructors come to an end, one way or the other: every join ends,  *)
(* whatever else the event loop and the subscribers are doing when the     *)
(* signal comes, unless one of them, or the main thread, waits for the     *)
(* delivery of an answer or of output to a session that has left.          *)
DestructorEnds == main = "dtorTasks" ~> (main = "ended" \/ ~alive \/ Lingers)

(* What a caller of unit_action_match and a user who stops the node expect *)
(* and lingering sockets prevent.                                          *)
RemoteCallEnds == rcall # "idle" ~> rcall = "idle"
StopEndsNode == main = "dtorTasks" ~> (main = "ended" \/ ~alive)

(* An error is an answer: "Error Code: ..., Message: ..." is what a client *)
(* is told of a request that is refused, by a node that goes on.           *)
RefusalAnswered == alive
=============================================================================
