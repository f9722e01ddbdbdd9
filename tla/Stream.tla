-------------------------------- MODULE Stream --------------------------------
(***************************************************************************)
(* Streamed inference: clients send a text in numbered pieces, a task of   *)
(* the node puts them together (decode_stream), runs the inference and     *)
(* streams the answer back (infra-controller/src/StackFlowUtil.cpp,        *)
(* channel.cpp, node/test/src/main.cpp).                                   *)
(*                                                                         *)
(* The node never parses a message: sample_json_str_get looks for          *)
(* "<key>" in the text and copies what follows.  So a message is modelled  *)
(* as the sequence of its tokens: the punctuation of JSON, and words (a    *)
(* key, a number, a name, a piece of a text).  A text is a sequence of     *)
(* tokens as well, and what a client's JSON library does to it is Escape.  *)
(*                                                                         *)
(* Every task has a thread for its SUB socket.  stream_buff and count are  *)
(* static: all tasks share them.                                           *)
(***************************************************************************)
EXTENDS Integers, FiniteSets, SequencesExt

CONSTANTS
    Clients,
    Tasks,
    Plain,         \* the tasks with no "stream" in their response_format
    Words,         \* the tokens texts are made of
    Numerals,      \* the numbers that occur in messages, as tokens
    MaxText,       \* bound: tokens in the text of a piece
    MaxPieces,     \* bound: pieces of a stream
    MaxStreams,    \* bound: streams sent by all clients together
    AnyText,       \* texts may be broken by the scanner
    Mixing,        \* clients may send while another one's stream is incomplete
    LoseFinish     \* the last piece of a stream may be lost, too

(* Quote, backslash, braces, colon and comma; and the keys of a message.   *)
Punctuation == {"q", "b", "o", "c", "colon", "comma"}
Keys == {"zmq_com", "request_id", "action", "object", "data", "delta", "index", "finish"}

ASSUME StreamAssumption ==
    /\ Plain \subseteq Tasks
    /\ {MaxText, MaxPieces, MaxStreams} \subseteq Nat
    /\ {AnyText, Mixing, LoseFinish} \subseteq BOOLEAN
    /\ IsFiniteSet(Numerals) /\ {MaxPieces, MaxStreams} \subseteq 0..Cardinality(Numerals)
    /\ (Clients \cup Numerals) \cap (Punctuation \cup Keys) = {}

VARIABLES
    client,        \* client -> [stream, sent, rid, task]: the stream it is sending to its task
    started,       \* streams started
    queue,         \* task -> messages on their way to its SUB socket, as Scanned
    chan,          \* task -> [zmq_com, request_id] of its channel
    out,           \* task -> the out_callback_ calls its inference still makes
    stream_buff,   \* index -> text
    count,         \* the next index of an answer
    alive,         \* the node's process has not been terminated
    asked,         \* client -> the streams it sent to the end, not yet answered
    answer,        \* client -> the answer it is receiving
    lost           \* a piece was lost

vars == <<client, started, queue, chan, out, stream_buff, count, alive, asked, answer, lost>>
-----------------------------------------------------------------------------
(* The format of a message.                                                *)

(* The numeral of n is Digits[n + 1].  Only its identity matters.          *)
Digits == SetToSeq(Numerals)

Escape(text) ==
    FlattenSeq([i \in DOMAIN text |->
        IF text[i] \in {"q", "b"} THEN <<"b", text[i]>> ELSE <<text[i]>>])

(* The data of an inference request, and the request as unit_action_match  *)
(* passes it on: the client's document with zmq_com put in front.          *)
Piece(m) ==
    <<"o", "q", "delta", "q", "colon", "q">> \o Escape(m.text)
    \o <<"q", "comma", "q", "index", "q", "colon", Digits[m.index + 1],
         "comma", "q", "finish", "q", "colon", IF m.finish THEN "true" ELSE "false", "c">>

Raw(m) ==
    <<"o", "q", "zmq_com", "q", "colon", "q", m.client, "q",
      "comma", "q", "request_id", "q", "colon", "q", m.rid, "q",
      "comma", "q", "action", "q", "colon", "q", "inference", "q",
      "comma", "q", "object", "q", "colon", "q", "stream", "q",
      "comma", "q", "data", "q", "colon">> \o Piece(m) \o <<"c">>
-----------------------------------------------------------------------------
(* sample_json_str_get: one character of the text after the key.  The      *)
(* value has not begun (status 0), ...                                     *)
St(status, last_c, obj_flage, key_val) ==
    [status |-> status, last_c |-> last_c, obj_flage |-> obj_flage, key_val |-> key_val]

ScanBefore(st, c) ==
    CASE c = "q" -> St(100, c, st.obj_flage, st.key_val)
      [] c = "o" -> St(10, c, 1, Append(st.key_val, c))
      [] c = "colon" -> St(0, c, 1, st.key_val)
      [] c \in {"comma", "c"} -> St(-1, c, 0, st.key_val)
      [] OTHER -> St(0, c, st.obj_flage,
                     IF st.obj_flage # 0 THEN Append(st.key_val, c) ELSE st.key_val)

(* ... is an object (10), ...                                              *)
ScanObject(st, c) ==
    LET flage == st.obj_flage + (IF c = "o" THEN 1 ELSE 0) - (IF c = "c" THEN 1 ELSE 0)
    IN  St(IF flage = 0 THEN -1 ELSE 10, c, flage, Append(st.key_val, c))

(* ... is quoted (100), or has been read (-1).                             *)
ScanQuoted(st, c) ==
    IF c = "q" /\ st.last_c # "b"
    THEN St(-1, c, 0, st.key_val)
    ELSE St(100, c, st.obj_flage, Append(st.key_val, c))

ScanStep(st, c) ==
    CASE st.status = 0 -> ScanBefore(st, c)
      [] st.status = 10 -> ScanObject(st, c)
      [] st.status = 100 -> ScanQuoted(st, c)
      [] OTHER -> [st EXCEPT !.last_c = c]

(* The scanner, after the characters from position `from' on.             *)
Scan(json, from) ==
    LET scan[i \in 0..Len(json)] ==
            IF i < from THEN St(0, "nul", 0, <<>>) ELSE ScanStep(scan[i - 1], json[i])
    IN  scan[Len(json)]

(* The value the scanner finds under a key; empty if there is none or it   *)
(* does not end.                                                           *)
sample_json_str_get(json, key) ==
    LET hits == {i \in 1..(Len(json) - 2) : SubSeq(json, i, i + 2) = <<"q", key, "q">>}
        first == CHOOSE i \in hits : \A j \in hits : i <= j
        end == Scan(json, first + 3)
    IN  IF hits = {} \/ end.obj_flage # 0 THEN <<>> ELSE end.key_val

(* All that the node reads of a message.                                   *)
Scanned(raw) ==
    LET data == sample_json_str_get(raw, "data")
    IN  [zmq_com |-> sample_json_str_get(raw, "zmq_com"),
         request_id |-> sample_json_str_get(raw, "request_id"),
         object |-> sample_json_str_get(raw, "object"),
         data |-> data,
         index |-> sample_json_str_get(data, "index"),
         finish |-> sample_json_str_get(data, "finish"),
         delta |-> sample_json_str_get(data, "delta")]
-----------------------------------------------------------------------------
Threw == [res |-> "throw", buff |-> <<>>, text |-> <<>>]

(* stream_buff with a piece stored in it.                                  *)
Stored(index, delta) ==
    [i \in DOMAIN stream_buff \cup {index} |-> IF i = index THEN delta ELSE stream_buff[i]]

\* Mutant: what was put together is not cleared.
PutTogetherKeeps(buff) ==
    LET n == Cardinality(DOMAIN buff)
    IN  IF DOMAIN buff # 0..(n - 1)
        THEN Threw
        ELSE [res |-> "text", buff |-> buff,
              text |-> FlattenSeq([i \in 1..n |-> buff[i - 1]])]

\* Mutant: the pieces are looked up from 1 on.
PutTogetherFromOne(buff) ==
    LET n == Cardinality(DOMAIN buff)
    IN  IF DOMAIN buff # 1..n
        THEN Threw
        ELSE [res |-> "text", buff |-> <<>>,
              text |-> FlattenSeq([i \in 1..n |-> buff[i]])]

(* decode_stream at the last piece: the pieces 0, 1, ... are concatenated, *)
(* where a gap throws, and the buffer is cleared.                          *)
PutTogether(buff) ==
    LET n == Cardinality(DOMAIN buff)
    IN  IF DOMAIN buff # 0..(n - 1)
        THEN Threw
        ELSE [res |-> "text", buff |-> <<>>,
              text |-> FlattenSeq([i \in 1..n |-> buff[i - 1]])]

(* decode_stream.  stoi throws unless a number comes first; the last piece *)
(* is the one with no `f' in its finish.  What is thrown is caught by      *)
(* task_user_data, which clears the buffer.                                *)
decode_stream(in) ==
    IF in.index = <<>> \/ in.index[1] \notin Range(Digits)
    THEN Threw
    ELSE LET index == CHOOSE i \in 0..(Len(Digits) - 1) : Digits[i + 1] = in.index[1]
             buff == Stored(index, in.delta)
         IN  IF {"false", "finish"} \cap Range(in.finish) = {}
             THEN PutTogether(buff)
             ELSE [res |-> "more", buff |-> buff, text |-> <<>>]
-----------------------------------------------------------------------------
(* A text the scanner reads back as it was: it needs no escape, is no key  *)
(* that is looked for behind it, and its braces match.                     *)
Depth(text, i) ==
    Cardinality({j \in 1..i : text[j] = "o"}) - Cardinality({j \in 1..i : text[j] = "c"})

Clean(text) ==
    /\ {"q", "b"} \cap Range(text) = {}
    /\ text \notin {<<"index">>, <<"finish">>}
    /\ \A i \in DOMAIN text : Depth(text, i) >= 0
    /\ Depth(text, Len(text)) = 0

Texts == {t \in SeqOf(Words, MaxText) : AnyText \/ Clean(t)}
Streams == SeqOf(Texts, MaxPieces) \ {<<>>}
Rest(t) == [stream |-> <<>>, sent |-> 0, rid |-> "none", task |-> t]

Init ==
    /\ \E taskOf \in [Clients -> Tasks] : client = [c \in Clients |-> Rest(taskOf[c])]
    /\ started = 0
    /\ queue = [t \in Tasks |-> <<>>]
    /\ chan = [t \in Tasks |-> [zmq_com |-> <<>>, request_id |-> <<>>]]
    /\ out = [t \in Tasks |-> <<>>]
    /\ stream_buff = <<>>
    /\ count = 0
    /\ alive = TRUE
    /\ asked = [c \in Clients |-> <<>>]
    /\ answer = [c \in Clients |-> <<>>]
    /\ lost = FALSE

Sending(c) == client[c].stream # <<>>

(* A client begins a stream ...                                            *)
StartStream(c) ==
    /\ ~Sending(c)
    /\ started < MaxStreams
    /\ Mixing \/ \A d \in Clients : ~Sending(d)
    /\ started' = started + 1
    /\ \E s \in Streams :
           client' = [client EXCEPT ![c].stream = s, ![c].rid = Digits[started + 1]]
    /\ UNCHANGED <<queue, chan, out, stream_buff, count, alive, asked, answer, lost>>

(* ... and sends its pieces.  A PUB socket drops what it has no subscriber *)
(* or no room for.                                                         *)
SendPiece(c, lose) ==
    LET s == client[c]
        i == s.sent + 1
        last == i = Len(s.stream)
        m == [client |-> c, rid |-> s.rid, text |-> s.stream[i], index |-> s.sent, finish |-> last]
    IN  /\ Sending(c)
        /\ lose => ~last \/ LoseFinish
        /\ queue' = IF lose THEN queue ELSE [queue EXCEPT ![s.task] = Append(@, Scanned(Raw(m)))]
        /\ lost' = (lost \/ lose)
        /\ client' = [client EXCEPT ![c] = IF last THEN Rest(s.task) ELSE [@ EXCEPT !.sent = i]]
        /\ asked' = IF last /\ ~lose
                    THEN [asked EXCEPT ![c] =
                              Append(@, [text |-> FlattenSeq(s.stream), rid |-> s.rid])]
                    ELSE asked
        /\ UNCHANGED <<started, chan, out, stream_buff, count, alive, answer>>
-----------------------------------------------------------------------------
(* subscriber_event_call: the channel's addressee is the one of the last   *)
(* message.                                                                *)
SetChannel(t, in) ==
    chan' = [chan EXCEPT ![t] =
        [zmq_com |-> IF in.zmq_com # <<>> THEN in.zmq_com ELSE @.zmq_com,
         request_id |-> in.request_id]]

(* inference: three calls of out_callback_.                                *)
inference(msg) ==
    <<[data |-> msg, finish |-> FALSE],
      [data |-> <<"hello">>, finish |-> FALSE],
      [data |-> <<>>, finish |-> TRUE]>>

(* A task's SUB thread: subscriber_event_call and task_user_data.  Its     *)
(* error answers pass a JSON object for the string error_msg, which throws *)
(* out of the thread: the process is terminated.                           *)
TaskUserData(t) ==
    LET in == Head(queue[t])
        decoded == decode_stream(in)
    IN  /\ alive
        /\ queue[t] # <<>> /\ out[t] = <<>>
        /\ queue' = [queue EXCEPT ![t] = Tail(@)]
        /\ SetChannel(t, in)
        /\ IF in.data = <<>>
           THEN alive' = FALSE /\ UNCHANGED <<stream_buff, out>>
           ELSE IF in.object # <<"stream">>
           THEN out' = [out EXCEPT ![t] = inference(in.data)] /\ UNCHANGED <<alive, stream_buff>>
           ELSE /\ stream_buff' = decoded.buff
                /\ alive' = (decoded.res # "throw")
                /\ out' = IF decoded.res = "text"
                          THEN [out EXCEPT ![t] = inference(decoded.text)]
                          ELSE out
        /\ UNCHANGED <<client, started, count, asked, answer, lost>>

(* The client gets a piece of an answer.                                   *)
Complete(c) == answer[c] # <<>> /\ Last(answer[c]).finish

Receive(c, piece) ==
    /\ answer' = [answer EXCEPT ![c] = IF Complete(c) THEN <<piece>> ELSE Append(@, piece)]
    /\ asked' = IF Complete(c) THEN [asked EXCEPT ![c] = Tail(@)] ELSE asked

\* Mutant: a task without text to send does not answer.
TaskOutputSkips(t) ==
    LET o == Head(out[t])
    IN  /\ alive /\ out[t] # <<>>
        /\ out' = [out EXCEPT ![t] = Tail(@)]
        /\ count' = IF o.finish THEN 0 ELSE count + 1
        /\ IF o.data = <<>>
           THEN UNCHANGED <<answer, asked>>
           ELSE Receive(chan[t].zmq_com[1],
                        [index |-> count, delta |-> o.data, finish |-> o.finish,
                         request_id |-> chan[t].request_id])
        /\ UNCHANGED <<client, started, queue, chan, stream_buff, alive, lost>>

(* task_output.  A task that does not stream its answer sends only the     *)
(* data of the last call.                                                  *)
TaskOutput(t) ==
    LET o == Head(out[t])
    IN  /\ alive /\ out[t] # <<>>
        /\ out' = [out EXCEPT ![t] = Tail(@)]
        /\ count' = IF t \in Plain THEN count ELSE IF o.finish THEN 0 ELSE count + 1
        /\ IF t \in Plain /\ ~o.finish
           THEN UNCHANGED <<answer, asked>>
           ELSE Receive(chan[t].zmq_com[1],
                        [index |-> IF t \in Plain THEN 0 ELSE count,
                         delta |-> o.data, finish |-> o.finish,
                         request_id |-> chan[t].request_id])
        /\ UNCHANGED <<client, started, queue, chan, stream_buff, alive, lost>>

Next ==
    \/ \E c \in Clients : StartStream(c)
    \/ \E c \in Clients, lose \in BOOLEAN : SendPiece(c, lose)
    \/ \E t \in Tasks : TaskUserData(t)
    \/ \E t \in Tasks : TaskOutput(t)

Fairness ==
    \A t \in Tasks : WF_vars(TaskUserData(t)) /\ WF_vars(TaskOutput(t))

Spec == Init /\ [][Next]_vars /\ Fairness
-----------------------------------------------------------------------------
(* What a client receives is, piece by piece, the answer to the stream it  *)
(* asked first: numbered from 0, under its request_id, and carrying the    *)
(* whole text of that stream and nothing of any other.                     *)
AnswersWhole ==
    \A c \in Clients : \A i \in DOMAIN answer[c] :
        /\ asked[c] # <<>>
        /\ answer[c][i] =
               [index |-> i - 1, finish |-> i = 3,
                request_id |-> <<asked[c][1].rid>>,
                delta |-> CASE i = 1 -> asked[c][1].text [] i = 2 -> <<"hello">> [] OTHER -> <<>>]

(* The inference of a task that does not stream its answer is answered,    *)
(* too: with the text and what the model adds to it.                       *)
PlainAnswered ==
    \A c \in Clients :
        Complete(c) => answer[c][1].delta = asked[c][1].text \o <<"hello">>

(* Nothing a client sends in good order terminates the node: only a piece  *)
(* that got lost does.                                                     *)
DiesOfLossOnly == alive \/ lost

(* Every stream that was sent is answered to the end, unless the node is   *)
(* gone.                                                                   *)
Waiting(c) == asked[c] # <<>> /\ ~(Complete(c) /\ Len(asked[c]) = 1)

StreamsAnswered == \A c \in Clients : Waiting(c) ~> ~Waiting(c) \/ ~alive
=============================================================================
