----------------------------- MODULE SessionProofs -----------------------------
(***************************************************************************)
(* Proofs about the TCP sessions of unit-manager, for any number of        *)
(* connections and event loops and any range of numbers: the counter's     *)
(* overshoot is bounded by the loops, and, as long as a number does not    *)
(* come round while it is in use, every answer reaches the client that     *)
(* asked.                                                                  *)
(***************************************************************************)
EXTENDS Session, FiniteSetTheorems, SequenceTheorems, TLAPS

(* The loops between taking a number and setting the counter back.         *)
Taking == {l \in Loops : loop[l].pc \in {"work", "test", "store"}}

Pcs == {"idle", "work", "test", "store", "lock", "print", "call", "linger", "join"}

SessionTypeOK ==
    /\ counter_port \in Nat /\ MinPort <= counter_port
    /\ conn \in [Conns -> [phase : {"new", "taken", "open", "closed"},
                           port : Numbers, asked : Nat]]
    /\ loop \in [Loops -> [pc : Pcs, c : Conns \cup {Nobody}]]
    /\ path \in [Numbers -> Conns \cup {Nobody}]
    /\ inbox \in [Conns -> Seq(Conns)]
    /\ nodeq \in Seq([port : Numbers, asker : Conns])

(* A loop runs callbacks of its own connections only.                      *)
OwnCallbacks ==
    \A l \in Loops : loop[l].pc # "idle" => loop[l].c \in Conns /\ loop[l].c % NumLoops = l

(* The overshoot is at most one number for every loop that took one and    *)
(* has not looked at the counter since.                                    *)
Overshoot == counter_port <= MaxPort + Cardinality(Taking)

NumberInv == SessionTypeOK /\ OwnCallbacks /\ Overshoot
-----------------------------------------------------------------------------
LEMMA LoopsFinite ==
    /\ IsFiniteSet(Loops)
    /\ Cardinality(Loops) = NumLoops
    /\ NumLoops \in Nat \ {0} /\ MinPort \in Nat /\ MaxPort \in Nat /\ MinPort <= MaxPort
    /\ NumConns \in Nat /\ MaxRequests \in Nat
  <1>1. NumLoops \in Nat \ {0} /\ MinPort \in Nat /\ MaxPort \in Nat /\ MinPort <= MaxPort
        /\ NumConns \in Nat /\ MaxRequests \in Nat
    BY SessionsAssumption
  <1>2. IsFiniteSet(0..(NumLoops - 1))
        /\ Cardinality(0..(NumLoops - 1)) =
              IF 0 > NumLoops - 1 THEN 0 ELSE (NumLoops - 1) - 0 + 1
    BY <1>1, FS_Interval
  <1> QED
    BY <1>1, <1>2 DEF Loops

(* Cardinality of the loops that took a number: at most all of them, and   *)
(* fewer when one of them is idle.                                         *)
LEMMA TakingBounded ==
    ASSUME NEW S, S \subseteq Loops
    PROVE  /\ IsFiniteSet(S) /\ Cardinality(S) \in Nat /\ Cardinality(S) <= NumLoops
           /\ \A l \in Loops \ S : /\ Cardinality(S \cup {l}) = Cardinality(S) + 1
                                   /\ Cardinality(S) <= NumLoops - 1
  <1>1. ASSUME NEW T, T \subseteq Loops
        PROVE  IsFiniteSet(T) /\ Cardinality(T) \in Nat /\ Cardinality(T) <= NumLoops
    BY <1>1, LoopsFinite, FS_Subset, FS_CardinalityType
  <1>2. ASSUME NEW l \in Loops \ S
        PROVE  Cardinality(S \cup {l}) = Cardinality(S) + 1 /\ Cardinality(S) <= NumLoops - 1
    <2>1. Cardinality(S \cup {l}) = Cardinality(S) + 1
      BY <1>1, FS_AddElement
    <2>2. Cardinality(S \cup {l}) <= NumLoops
      BY <1>1
    <2> QED
      BY <2>1, <2>2, <1>1, LoopsFinite
  <1> QED
    BY <1>1, <1>2

(* Sequences of any kind of entries.                                       *)
LEMMA Entries ==
    ASSUME NEW S, NEW s \in Seq(S)
    PROVE  /\ <<>> \in Seq(S)
           /\ \A e \in S : Append(s, e) \in Seq(S)
           /\ s # <<>> => Head(s) \in S /\ Tail(s) \in Seq(S)
           /\ \A i \in DOMAIN s : s[i] \in S
  OBVIOUS

LEMMA NumberInit == Init => NumberInv
  <1> SUFFICES ASSUME Init PROVE NumberInv
    OBVIOUS
  <1>1. MinPort \in Numbers
    BY LoopsFinite DEF Numbers
  <1>2. SessionTypeOK
    BY <1>1, LoopsFinite DEF Init, SessionTypeOK, Pcs, Idle
  <1>3. OwnCallbacks
    BY DEF Init, OwnCallbacks, Idle
  <1>4. Overshoot
    <2>1. Taking \subseteq Loops
      BY DEF Taking
    <2>2. Cardinality(Taking) \in Nat
      BY <2>1, TakingBounded
    <2> QED
      BY <2>2, LoopsFinite DEF Init, Overshoot
  <1> QED
    BY <1>2, <1>3, <1>4 DEF NumberInv

(* While a loop is idle the counter is a number a socket file may have.    *)
LEMMA NumberWhileIdle ==
    ASSUME NumberInv, NEW l \in Loops, loop[l] = Idle
    PROVE  counter_port \in Numbers
  <1>1. Taking \subseteq Loops /\ l \in Loops \ Taking
    BY DEF Taking, Idle
  <1>2. Cardinality(Taking) \in Nat /\ Cardinality(Taking) <= NumLoops - 1
    BY <1>1, TakingBounded
  <1> QED
    BY <1>2, LoopsFinite DEF NumberInv, Overshoot, SessionTypeOK, Numbers

(* What the three ways a loop moves on do to the loops.                    *)
LEMMA LoopBegins ==
    ASSUME SessionTypeOK, NEW l \in Loops, NEW c \in Conns, NEW pc \in Pcs, Begin(l, c, pc)
    PROVE  /\ loop' \in [Loops -> [pc : Pcs, c : Conns \cup {Nobody}]]
           /\ loop[l].pc = "idle" /\ c % NumLoops = l
           /\ loop'[l].pc = pc /\ loop'[l].c = c
           /\ \A k \in Loops \ {l} : loop'[k] = loop[k]
  BY DEF SessionTypeOK, Begin, Idle

LEMMA LoopGoes ==
    ASSUME SessionTypeOK, NEW l \in Loops, NEW pc \in Pcs, Goto(l, pc)
    PROVE  /\ loop' \in [Loops -> [pc : Pcs, c : Conns \cup {Nobody}]]
           /\ loop'[l].pc = pc /\ loop'[l].c = loop[l].c
           /\ \A k \in Loops \ {l} : loop'[k] = loop[k]
  BY DEF SessionTypeOK, Goto

LEMMA LoopReturns ==
    ASSUME SessionTypeOK, NEW l \in Loops, Return(l)
    PROVE  /\ loop' \in [Loops -> [pc : Pcs, c : Conns \cup {Nobody}]]
           /\ loop'[l].pc = "idle"
           /\ \A k \in Loops \ {l} : loop'[k] = loop[k]
  BY DEF SessionTypeOK, Return, Idle, Pcs

(* A step that moves loop l keeps the callbacks where they belong, and the *)
(* overshoot bounded when it neither takes a number nor looks at the       *)
(* counter.                                                                *)
LEMMA LoopMoves ==
    ASSUME NumberInv, NEW l \in Loops,
           loop' \in [Loops -> [pc : Pcs, c : Conns \cup {Nobody}]],
           loop'[l].pc = "idle" \/ (loop'[l].c \in Conns /\ loop'[l].c % NumLoops = l),
           \A k \in Loops \ {l} : loop'[k] = loop[k]
    PROVE  /\ OwnCallbacks'
           /\ Taking \subseteq Loops /\ Taking' \subseteq Loops
           /\ l \in Taking <=> loop[l].pc \in {"work", "test", "store"}
           /\ l \in Taking' <=> loop'[l].pc \in {"work", "test", "store"}
           /\ Taking \ {l} = Taking' \ {l}
  BY LoopsFinite DEF NumberInv, OwnCallbacks, Taking, Loops

LEMMA SameOvershoot ==
    ASSUME Overshoot, Taking' = Taking, UNCHANGED counter_port
    PROVE  Overshoot'
  BY DEF Overshoot

LEMMA NumberConnect ==
    ASSUME NumberInv, NEW l \in Loops, NEW c \in Conns, Connect(l, c)
    PROVE  NumberInv'
  <1> USE DEF NumberInv
  <1>1. Begin(l, c, "work") /\ "work" \in Pcs
    BY DEF Connect, Pcs
  <1>2. /\ loop' \in [Loops -> [pc : Pcs, c : Conns \cup {Nobody}]]
        /\ loop[l].pc = "idle" /\ c % NumLoops = l
        /\ loop'[l].pc = "work" /\ loop'[l].c = c
        /\ \A k \in Loops \ {l} : loop'[k] = loop[k]
    BY <1>1, LoopBegins
  <1>3. /\ OwnCallbacks'
        /\ Taking \subseteq Loops /\ Taking' \subseteq Loops
        /\ l \notin Taking /\ l \in Taking'
        /\ Taking \ {l} = Taking' \ {l}
    BY <1>2, LoopMoves
  <1>4. Taking' = Taking \cup {l}
    BY <1>3
  <1>5. Cardinality(Taking) \in Nat /\ Cardinality(Taking') = Cardinality(Taking) + 1
    BY <1>3, <1>4, TakingBounded
  <1>6. Overshoot'
    BY <1>5, LoopsFinite DEF Overshoot, Connect, SessionTypeOK
  <1>7. counter_port \in Numbers
    BY <1>1, NumberWhileIdle DEF Begin
  <1>8. conn' \in [Conns -> [phase : {"new", "taken", "open", "closed"},
                             port : Numbers, asked : Nat]]
    BY <1>7 DEF SessionTypeOK, Connect
  <1>9. SessionTypeOK'
    BY <1>2, <1>8, LoopsFinite DEF SessionTypeOK, Connect
  <1> QED
    BY <1>3, <1>6, <1>9

LEMMA NumberMessage ==
    ASSUME NumberInv, NEW l \in Loops, NEW c \in Conns, Message(l, c)
    PROVE  NumberInv'
  <1> USE DEF NumberInv
  <1>1. Begin(l, c, "lock") /\ "lock" \in Pcs
    BY DEF Message, Pcs
  <1>2. /\ OwnCallbacks'
        /\ l \notin Taking /\ l \notin Taking'
        /\ Taking \ {l} = Taking' \ {l}
        /\ loop' \in [Loops -> [pc : Pcs, c : Conns \cup {Nobody}]]
    BY <1>1, LoopBegins, LoopMoves
  <1>3. Overshoot'
    BY <1>2, SameOvershoot DEF Message
  <1>4. conn' \in [Conns -> [phase : {"new", "taken", "open", "closed"},
                             port : Numbers, asked : Nat]]
    <2>1. conn[c] \in [phase : {"new", "taken", "open", "closed"}, port : Numbers, asked : Nat]
      BY DEF SessionTypeOK
    <2>2. conn[c].asked + 1 \in Nat
      BY <2>1
    <2> QED
      BY <2>2 DEF SessionTypeOK, Message
  <1> QED
    BY <1>2, <1>3, <1>4 DEF SessionTypeOK, Message

LEMMA NumberStop ==
    ASSUME NumberInv, NEW l \in Loops, NEW c \in Conns, Stop(l, c)
    PROVE  NumberInv'
  <1> USE DEF NumberInv
  <1>1. Begin(l, c, "join") /\ "join" \in Pcs
    BY DEF Stop, Pcs
  <1>2. /\ OwnCallbacks'
        /\ l \notin Taking /\ l \notin Taking'
        /\ Taking \ {l} = Taking' \ {l}
        /\ loop' \in [Loops -> [pc : Pcs, c : Conns \cup {Nobody}]]
    BY <1>1, LoopBegins, LoopMoves
  <1>3. Overshoot'
    BY <1>2, SameOvershoot DEF Stop
  <1> QED
    BY <1>2, <1>3 DEF SessionTypeOK, Stop

(* A loop that goes on with its callback, or returns from one that took no *)
(* number.                                                                 *)
LEMMA NumberGoes ==
    ASSUME NumberInv, NEW l \in Loops, NEW pc \in Pcs, Goto(l, pc), loop[l].pc # "idle",
           loop[l].pc \in {"work", "test", "store"} <=> pc \in {"work", "test", "store"},
           UNCHANGED counter_port
    PROVE  /\ OwnCallbacks' /\ Overshoot'
           /\ loop' \in [Loops -> [pc : Pcs, c : Conns \cup {Nobody}]]
  <1>1. /\ OwnCallbacks'
        /\ l \in Taking <=> l \in Taking'
        /\ Taking \ {l} = Taking' \ {l}
        /\ loop' \in [Loops -> [pc : Pcs, c : Conns \cup {Nobody}]]
    BY LoopGoes, LoopMoves DEF NumberInv, OwnCallbacks
  <1> QED
    BY <1>1, SameOvershoot DEF NumberInv

LEMMA NumberReturns ==
    ASSUME NumberInv, NEW l \in Loops, Return(l)
    PROVE  /\ OwnCallbacks'
           /\ loop' \in [Loops -> [pc : Pcs, c : Conns \cup {Nobody}]]
           /\ Cardinality(Taking') \in Nat
           /\ (loop[l].pc \notin {"work", "test", "store"} /\ UNCHANGED counter_port)
                 => Overshoot'
  <1>1. /\ OwnCallbacks'
        /\ l \in Taking <=> loop[l].pc \in {"work", "test", "store"}
        /\ l \notin Taking'
        /\ Taking \ {l} = Taking' \ {l}
        /\ Taking' \subseteq Loops
        /\ loop' \in [Loops -> [pc : Pcs, c : Conns \cup {Nobody}]]
    BY LoopReturns, LoopMoves DEF NumberInv
  <1>2. Cardinality(Taking') \in Nat
    BY <1>1, TakingBounded
  <1>3. ASSUME loop[l].pc \notin {"work", "test", "store"}, UNCHANGED counter_port
        PROVE  Overshoot'
    BY <1>1, <1>3, SameOvershoot DEF NumberInv
  <1> QED
    BY <1>1, <1>2, <1>3

(* The answer to a socket leaves the types alone.                          *)
LEMMA DeliveredTyped ==
    ASSUME SessionTypeOK, NEW p \in Numbers, NEW a \in Conns, Delivered(p, a)
    PROVE  /\ inbox' \in [Conns -> Seq(Conns)]
           /\ path[p] \in Conns
           /\ inbox'[path[p]] = Append(inbox[path[p]], a)
           /\ \A d \in Conns \ {path[p]} : inbox'[d] = inbox[d]
  <1>1. path[p] \in Conns
    BY DEF SessionTypeOK, Delivered
  <1>2. inbox[path[p]] \in Seq(Conns)
    BY <1>1 DEF SessionTypeOK
  <1>3. Append(inbox[path[p]], a) \in Seq(Conns)
    BY <1>2
  <1> QED
    BY <1>1, <1>3 DEF SessionTypeOK, Delivered

LEMMA NumberLoopStep ==
    ASSUME NumberInv, NEW l \in Loops, LoopStep(l)
    PROVE  NumberInv'
  <1> USE DEF NumberInv, At
  <1> DEFINE c == loop[l].c
  <1>0. /\ loop[l].pc # "idle" => c \in Conns
        /\ c \in Conns => conn[c].port \in Numbers
    BY DEF OwnCallbacks, SessionTypeOK
  <1>1. CASE Work(l)
    <2>1. loop[l].pc = "work" /\ Goto(l, "test") /\ UNCHANGED counter_port /\ "test" \in Pcs
      BY <1>1 DEF Work, Pcs
    <2>2. OwnCallbacks' /\ Overshoot' /\ loop' \in [Loops -> [pc : Pcs, c : Conns \cup {Nobody}]]
      BY <2>1, NumberGoes
    <2>3. conn' \in [Conns -> [phase : {"new", "taken", "open", "closed"},
                               port : Numbers, asked : Nat]]
      BY <1>1 DEF SessionTypeOK, Work
    <2>4. path' \in [Numbers -> Conns \cup {Nobody}]
      BY <1>1, <1>0, <2>1 DEF SessionTypeOK, Work
    <2> QED
      BY <1>1, <2>2, <2>3, <2>4 DEF SessionTypeOK, Work
  <1>2. CASE Test(l)
    <2>1. CASE counter_port > MaxPort
      <3>1. loop[l].pc = "test" /\ Goto(l, "store") /\ UNCHANGED counter_port /\ "store" \in Pcs
        BY <1>2, <2>1 DEF Test, Pcs
      <3>2. OwnCallbacks' /\ Overshoot' /\ loop' \in [Loops -> [pc : Pcs, c : Conns \cup {Nobody}]]
        BY <3>1, NumberGoes
      <3> QED
        BY <1>2, <3>2 DEF SessionTypeOK, Test
    <2>2. CASE ~(counter_port > MaxPort)
      <3>1. Return(l) /\ UNCHANGED counter_port
        BY <1>2, <2>2 DEF Test
      <3>2. /\ OwnCallbacks' /\ loop' \in [Loops -> [pc : Pcs, c : Conns \cup {Nobody}]]
            /\ Cardinality(Taking') \in Nat
        BY <3>1, NumberReturns
      <3>3. Overshoot'
        BY <2>2, <3>1, <3>2, LoopsFinite DEF Overshoot, SessionTypeOK
      <3> QED
        BY <1>2, <3>2, <3>3 DEF SessionTypeOK, Test
    <2> QED
      BY <2>1, <2>2
  <1>3. CASE Store(l)
    <2>1. /\ OwnCallbacks' /\ loop' \in [Loops -> [pc : Pcs, c : Conns \cup {Nobody}]]
          /\ Cardinality(Taking') \in Nat
      BY <1>3, NumberReturns DEF Store
    <2>2. Overshoot'
      BY <1>3, <2>1, LoopsFinite DEF Overshoot, Store
    <2> QED
      BY <1>3, <2>1, <2>2, LoopsFinite DEF SessionTypeOK, Store
  <1>4. CASE Lock(l)
    <2>1. PICK pc \in {"print", "call"} : Goto(l, pc)
      BY <1>4 DEF Lock
    <2>2. loop[l].pc = "lock" /\ UNCHANGED counter_port /\ pc \in Pcs
      BY <1>4, <2>1 DEF Lock, Pcs
    <2>3. OwnCallbacks' /\ Overshoot' /\ loop' \in [Loops -> [pc : Pcs, c : Conns \cup {Nobody}]]
      BY <2>1, <2>2, NumberGoes
    <2> QED
      BY <1>4, <2>3 DEF SessionTypeOK, Lock
  <1>5. CASE PrintError(l)
    <2>1. loop[l].pc = "print" /\ Return(l) /\ UNCHANGED counter_port
      BY <1>5 DEF PrintError
    <2>2. OwnCallbacks' /\ Overshoot' /\ loop' \in [Loops -> [pc : Pcs, c : Conns \cup {Nobody}]]
      BY <2>1, NumberReturns
    <2>3. inbox' \in [Conns -> Seq(Conns)]
      BY <1>5, <1>0, <2>1, DeliveredTyped DEF PrintError
    <2> QED
      BY <1>5, <2>2, <2>3 DEF SessionTypeOK, PrintError
  <1>6. CASE Call(l) \/ CloseCall(l)
    <2>1. loop[l].pc \in {"call", "linger"} /\ Return(l) /\ UNCHANGED counter_port
      BY <1>6 DEF Call, CloseCall
    <2>2. OwnCallbacks' /\ Overshoot' /\ loop' \in [Loops -> [pc : Pcs, c : Conns \cup {Nobody}]]
      BY <2>1, NumberReturns
    <2>3. [port |-> conn[c].port, asker |-> c] \in [port : Numbers, asker : Conns]
      BY <1>0, <2>1
    <2>4. nodeq' \in Seq([port : Numbers, asker : Conns])
      <3>1. nodeq \in Seq([port : Numbers, asker : Conns])
            /\ nodeq' = Append(nodeq, [port |-> conn[c].port, asker |-> c])
        BY <1>6 DEF SessionTypeOK, Call, CloseCall
      <3> HIDE DEF c
      <3> QED
        BY <2>3, <3>1, Entries
    <2> QED
      BY <1>6, <2>2, <2>4 DEF SessionTypeOK, Call, CloseCall
  <1>7. CASE CallTimesOut(l)
    <2>1. PICK pc \in {"linger", "print"} : Goto(l, pc)
      BY <1>7 DEF CallTimesOut
    <2>2. loop[l].pc = "call" /\ UNCHANGED counter_port /\ pc \in Pcs
      BY <1>7, <2>1 DEF CallTimesOut, Pcs
    <2>3. OwnCallbacks' /\ Overshoot' /\ loop' \in [Loops -> [pc : Pcs, c : Conns \cup {Nobody}]]
      BY <2>1, <2>2, NumberGoes
    <2> QED
      BY <1>7, <2>3 DEF SessionTypeOK, CallTimesOut
  <1>8. CASE Close(l)
    <2>1. loop[l].pc = "join" /\ Return(l) /\ UNCHANGED counter_port
      BY <1>8 DEF Close
    <2>2. OwnCallbacks' /\ Overshoot' /\ loop' \in [Loops -> [pc : Pcs, c : Conns \cup {Nobody}]]
      BY <2>1, NumberReturns
    <2>3. conn' \in [Conns -> [phase : {"new", "taken", "open", "closed"},
                               port : Numbers, asked : Nat]]
      BY <1>8 DEF SessionTypeOK, Close
    <2>4. path' \in [Numbers -> Conns \cup {Nobody}] /\ inbox' \in [Conns -> Seq(Conns)]
      BY <1>8, <1>0, <2>1 DEF SessionTypeOK, Close
    <2> QED
      BY <1>8, <2>2, <2>3, <2>4 DEF SessionTypeOK, Close
  <1> QED
    BY <1>1, <1>2, <1>3, <1>4, <1>5, <1>6, <1>7, <1>8 DEF LoopStep

(* The messages' readers and the node move no loop and take no number.     *)
LEMMA NumberOthers ==
    ASSUME NumberInv,
           (\E c \in Conns : PullStep(c)) \/ NodeAnswer \/ NodeDies \/ NodeRestarts
                  \/ UNCHANGED vars
    PROVE  NumberInv'
  <1>1. UNCHANGED <<counter_port, conn, loop, path>>
    BY DEF PullStep, PullMessage, PullCall, PullFails, NodeAnswer, NodeDies, NodeRestarts, vars
  <1>2. Taking' = Taking /\ OwnCallbacks'
    BY <1>1 DEF Taking, NumberInv, OwnCallbacks
  <1>3. Overshoot'
    BY <1>1, <1>2, SameOvershoot DEF NumberInv
  <1>4. inbox' \in [Conns -> Seq(Conns)] /\ nodeq' \in Seq([port : Numbers, asker : Conns])
    <2> USE DEF NumberInv, SessionTypeOK
    <2>1. ASSUME NEW c \in Conns, PullStep(c)
          PROVE  inbox' \in [Conns -> Seq(Conns)] /\ UNCHANGED nodeq
      <3>1. CASE PullMessage(c)
        <4>1. inbox[c] \in Seq(Conns) /\ inbox[c] # <<>>
          BY <3>1 DEF PullMessage
        <4>2. Tail(inbox[c]) \in Seq(Conns)
          BY <4>1
        <4> QED
          BY <3>1, <4>2 DEF PullMessage
      <3>2. CASE PullCall(c) \/ PullFails(c)
        BY <3>2 DEF PullCall, PullFails
      <3> QED
        BY <2>1, <3>1, <3>2 DEF PullStep
    <2>2. CASE NodeAnswer
      <3>1. nodeq # <<>> /\ Delivered(Head(nodeq).port, Head(nodeq).asker) /\ nodeq' = Tail(nodeq)
        BY <2>2 DEF NodeAnswer
      <3>2. Head(nodeq) \in [port : Numbers, asker : Conns]
            /\ Tail(nodeq) \in Seq([port : Numbers, asker : Conns])
        BY <3>1, Entries
      <3>3. Head(nodeq).port \in Numbers /\ Head(nodeq).asker \in Conns
        BY <3>2
      <3> QED
        BY <3>1, <3>2, <3>3, DeliveredTyped
    <2>3. CASE NodeDies \/ NodeRestarts \/ UNCHANGED vars
      <3>1. UNCHANGED inbox /\ (nodeq' = nodeq \/ nodeq' = <<>>)
        BY <2>3 DEF NodeDies, NodeRestarts, vars
      <3>2. <<>> \in Seq([port : Numbers, asker : Conns])
        BY Entries
      <3> QED
        BY <3>1, <3>2
    <2> QED
      BY <2>1, <2>2, <2>3
  <1> QED
    BY <1>1, <1>2, <1>3, <1>4 DEF NumberInv, SessionTypeOK

LEMMA NumberStep == NumberInv /\ [Next]_vars => NumberInv'
  BY NumberConnect, NumberMessage, NumberStop, NumberLoopStep, NumberOthers DEF Next

(* However the loops interleave their taking of numbers and their tests of *)
(* the counter (tcp_comm.cpp:33-38), no number is more than NumLoops - 1   *)
(* above 65535, and every one of them names a socket file of Numbers.      *)
THEOREM SessionNumbers == Spec => [](SessionTypeOK /\ CounterBounded)
  <1>1. NumberInv => SessionTypeOK /\ CounterBounded
    <2> SUFFICES ASSUME NumberInv, NEW c \in Conns
                 PROVE  conn[c].port <= MaxPort + NumLoops - 1
      BY DEF NumberInv, CounterBounded
    <2>1. conn[c].port \in Numbers
      BY DEF NumberInv, SessionTypeOK
    <2> QED
      BY <2>1, LoopsFinite DEF Numbers
  <1> QED
    BY <1>1, NumberInit, NumberStep, PTL DEF Spec
-----------------------------------------------------------------------------
(* A callback finds its connection in the phase it was begun in: only the  *)
(* connection's own loop changes it.                                       *)
Holds(c) == conn[c].phase \in {"taken", "open"}

PhasesKept ==
    \A l \in Loops :
        /\ loop[l].pc = "work" => conn[loop[l].c].phase = "taken"
        /\ loop[l].pc \in {"lock", "print", "call", "linger", "join"}
              => conn[loop[l].c].phase = "open"

(* A number belongs to one living session.                                 *)
NumbersDiffer ==
    \A c, d \in Conns : Holds(c) /\ Holds(d) /\ conn[c].port = conn[d].port => c = d

(* A socket file leads to the open session that has its number.            *)
FilesCurrent ==
    \A p \in Numbers : path[p] # Nobody =>
        conn[path[p]].phase = "open" /\ conn[path[p]].port = p

(* A queued request names its asker's socket, and no other session has     *)
(* been given that number since.                                           *)
RequestsCurrent ==
    \A i \in DOMAIN nodeq :
        /\ conn[nodeq[i].asker].phase # "new"
        /\ conn[nodeq[i].asker].port = nodeq[i].port
        /\ \A d \in Conns : Holds(d) /\ conn[d].port = nodeq[i].port => d = nodeq[i].asker

AnswerInv ==
    /\ NumberInv
    /\ PhasesKept
    /\ NumbersDiffer
    /\ FilesCurrent
    /\ RequestsCurrent
    /\ AnswersToAsker

LEMMA AnswerInit == Init => AnswerInv
  <1> SUFFICES ASSUME Init PROVE AnswerInv
    OBVIOUS
  <1>1. NumberInv
    BY NumberInit
  <1>2. PhasesKept
    BY DEF Init, PhasesKept, Idle
  <1>3. NumbersDiffer
    BY DEF Init, NumbersDiffer, Holds
  <1>4. FilesCurrent /\ RequestsCurrent /\ AnswersToAsker
    BY DEF Init, FilesCurrent, RequestsCurrent, AnswersToAsker
  <1> QED
    BY <1>1, <1>2, <1>3, <1>4 DEF AnswerInv

(* What the invariant says of a callback's connection.                     *)
LEMMA CallbackFacts ==
    ASSUME AnswerInv, NEW l \in Loops, loop[l].pc # "idle"
    PROVE  /\ loop[l].c \in Conns /\ conn[loop[l].c].port \in Numbers
           /\ \A k \in Loops \ {l} : loop[k].pc # "idle" => loop[k].c # loop[l].c
           /\ loop[l].pc = "work" => conn[loop[l].c].phase = "taken"
           /\ loop[l].pc \in {"lock", "print", "call", "linger", "join"}
                => conn[loop[l].c].phase = "open"
  BY DEF AnswerInv, NumberInv, OwnCallbacks, SessionTypeOK, PhasesKept

(* A step of loop l that leaves the connections alone keeps their phases,  *)
(* if the callback goes on to a point that wants the same phase.           *)
LEMMA PhasesFrame ==
    ASSUME PhasesKept, NEW l \in Loops, UNCHANGED conn,
           \A k \in Loops \ {l} : loop'[k] = loop[k],
           loop'[l].pc = "work" => conn[loop'[l].c].phase = "taken",
           loop'[l].pc \in {"lock", "print", "call", "linger", "join"}
               => conn[loop'[l].c].phase = "open"
    PROVE  PhasesKept'
  BY DEF PhasesKept

(* Nothing but the phases, the numbers, the files and the queue matters.   *)
LEMMA AnswerFrame ==
    ASSUME AnswerInv, UNCHANGED <<conn, path, nodeq>>
    PROVE  NumbersDiffer' /\ FilesCurrent' /\ RequestsCurrent'
  BY DEF AnswerInv, NumbersDiffer, FilesCurrent, RequestsCurrent, Holds

LEMMA AnswerConnect ==
    ASSUME AnswerInv, ~MayCollide, NEW l \in Loops, NEW c \in Conns, Connect(l, c)
    PROVE  AnswerInv'
  <1>1. NumberInv /\ SessionTypeOK /\ NumberInv'
    BY NumberConnect DEF AnswerInv, NumberInv
  <1>2. /\ conn[c].phase = "new" /\ counter_port \notin InUse
        /\ conn'[c].phase = "taken" /\ conn'[c].port = counter_port
        /\ \A d \in Conns \ {c} : conn'[d] = conn[d]
        /\ UNCHANGED <<path, inbox, nodeq>>
    BY <1>1 DEF Connect, SessionTypeOK
  <1>3. /\ \A d \in Conns : Holds(d) => conn[d].port # counter_port
        /\ \A i \in DOMAIN nodeq : nodeq[i].port # counter_port
    BY <1>2 DEF InUse, Holds
  <1>4. /\ loop[l].pc = "idle"
        /\ loop'[l].pc = "work" /\ loop'[l].c = c /\ c % NumLoops = l
        /\ \A k \in Loops \ {l} : loop'[k] = loop[k]
    <2>1. Begin(l, c, "work") /\ "work" \in Pcs
      BY DEF Connect, Pcs
    <2> QED
      BY <1>1, <2>1, LoopBegins
  <1>5. PhasesKept'
    <2> SUFFICES ASSUME NEW k \in Loops
                 PROVE  /\ loop'[k].pc = "work" => conn'[loop'[k].c].phase = "taken"
                        /\ loop'[k].pc \in {"lock", "print", "call", "linger", "join"}
                              => conn'[loop'[k].c].phase = "open"
      BY DEF PhasesKept
    <2>1. CASE k = l
      BY <2>1, <1>2, <1>4
    <2>2. CASE k # l
      BY <2>2, <1>1, <1>2, <1>4 DEF AnswerInv, PhasesKept, NumberInv, OwnCallbacks
    <2> QED
      BY <2>1, <2>2
  <1>6. NumbersDiffer'
    BY <1>2, <1>3 DEF AnswerInv, NumbersDiffer, Holds
  <1>7. FilesCurrent'
    <2> SUFFICES ASSUME NEW p \in Numbers, path[p] # Nobody
                 PROVE  conn'[path[p]].phase = "open" /\ conn'[path[p]].port = p
      BY <1>2 DEF FilesCurrent
    <2>1. path[p] \in Conns /\ conn[path[p]].phase = "open" /\ conn[path[p]].port = p
      BY <1>1 DEF AnswerInv, FilesCurrent, SessionTypeOK
    <2> QED
      BY <2>1, <1>2
  <1>8. RequestsCurrent'
    <2> SUFFICES ASSUME NEW i \in DOMAIN nodeq
                 PROVE  /\ conn'[nodeq[i].asker].phase # "new"
                        /\ conn'[nodeq[i].asker].port = nodeq[i].port
                        /\ \A d \in Conns : Holds(d)' /\ conn'[d].port = nodeq[i].port
                               => d = nodeq[i].asker
      BY <1>2 DEF RequestsCurrent
    <2>1. /\ conn[nodeq[i].asker].phase # "new"
          /\ conn[nodeq[i].asker].port = nodeq[i].port
          /\ \A d \in Conns : Holds(d) /\ conn[d].port = nodeq[i].port
                 => d = nodeq[i].asker
      BY DEF AnswerInv, RequestsCurrent
    <2>2. nodeq[i].asker \in Conns \ {c}
      <3>1. nodeq[i] \in [port : Numbers, asker : Conns]
        BY <1>1, Entries DEF SessionTypeOK
      <3> QED
        BY <3>1, <2>1, <1>2
    <2> QED
      BY <2>1, <2>2, <1>2, <1>3 DEF Holds
  <1>9. AnswersToAsker'
    BY <1>2 DEF AnswerInv, AnswersToAsker
  <1> QED
    BY <1>1, <1>5, <1>6, <1>7, <1>8, <1>9 DEF AnswerInv

LEMMA AnswerMessage ==
    ASSUME AnswerInv, NEW l \in Loops, NEW c \in Conns, Message(l, c)
    PROVE  AnswerInv'
  <1>1. NumberInv /\ SessionTypeOK /\ NumberInv'
    BY NumberMessage DEF AnswerInv, NumberInv
  <1>2. /\ conn[c].phase = "open"
        /\ \A d \in Conns : conn'[d].phase = conn[d].phase /\ conn'[d].port = conn[d].port
        /\ UNCHANGED <<path, inbox, nodeq>>
    BY <1>1 DEF Message, SessionTypeOK
  <1>3. /\ loop'[l].pc = "lock" /\ loop'[l].c = c
        /\ \A k \in Loops \ {l} : loop'[k] = loop[k]
    <2>1. Begin(l, c, "lock") /\ "lock" \in Pcs
      BY DEF Message, Pcs
    <2> QED
      BY <1>1, <2>1, LoopBegins
  <1>4. PhasesKept'
    <2> SUFFICES ASSUME NEW k \in Loops
                 PROVE  /\ loop'[k].pc = "work" => conn'[loop'[k].c].phase = "taken"
                        /\ loop'[k].pc \in {"lock", "print", "call", "linger", "join"}
                              => conn'[loop'[k].c].phase = "open"
      BY DEF PhasesKept
    <2> QED
      BY <1>1, <1>2, <1>3 DEF AnswerInv, PhasesKept, NumberInv, OwnCallbacks
  <1>5. NumbersDiffer'
    BY <1>2 DEF AnswerInv, NumbersDiffer, Holds
  <1>6. FilesCurrent'
    BY <1>1, <1>2 DEF AnswerInv, FilesCurrent, SessionTypeOK
  <1>7. RequestsCurrent'
    <2> SUFFICES ASSUME NEW i \in DOMAIN nodeq
                 PROVE  /\ conn'[nodeq[i].asker].phase # "new"
                        /\ conn'[nodeq[i].asker].port = nodeq[i].port
                        /\ \A d \in Conns : Holds(d)' /\ conn'[d].port = nodeq[i].port
                               => d = nodeq[i].asker
      BY <1>2 DEF RequestsCurrent
    <2>1. nodeq[i] \in [port : Numbers, asker : Conns]
      BY <1>1, Entries DEF SessionTypeOK
    <2> QED
      BY <2>1, <1>2 DEF AnswerInv, RequestsCurrent, Holds
  <1>8. AnswersToAsker'
    BY <1>2 DEF AnswerInv, AnswersToAsker
  <1> QED
    BY <1>1, <1>4, <1>5, <1>6, <1>7, <1>8 DEF AnswerInv

LEMMA AnswerStop ==
    ASSUME AnswerInv, NEW l \in Loops, NEW c \in Conns, Stop(l, c)
    PROVE  AnswerInv'
  <1>1. NumberInv /\ SessionTypeOK /\ NumberInv'
    BY NumberStop DEF AnswerInv, NumberInv
  <1>2. conn[c].phase = "open" /\ UNCHANGED <<conn, path, inbox, nodeq>>
    BY DEF Stop
  <1>3. /\ loop'[l].pc = "join" /\ loop'[l].c = c
        /\ \A k \in Loops \ {l} : loop'[k] = loop[k]
    <2>1. Begin(l, c, "join") /\ "join" \in Pcs
      BY DEF Stop, Pcs
    <2> QED
      BY <1>1, <2>1, LoopBegins
  <1>4. PhasesKept'
    BY <1>2, <1>3, PhasesFrame DEF AnswerInv
  <1>5. AnswersToAsker'
    BY <1>2 DEF AnswerInv, AnswersToAsker
  <1> QED
    BY <1>1, <1>2, <1>4, <1>5, AnswerFrame DEF AnswerInv

(* The entries of a queue after one is added or taken.                     *)
LEMMA EntriesAfter ==
    ASSUME NEW S, NEW s \in Seq(S), NEW e \in S
    PROVE  /\ \A i \in DOMAIN Append(s, e) :
                 (i \in DOMAIN s /\ Append(s, e)[i] = s[i]) \/ Append(s, e)[i] = e
           /\ s # <<>> => /\ 1 \in DOMAIN s /\ Head(s) = s[1]
                          /\ \A i \in DOMAIN Tail(s) : i + 1 \in DOMAIN s /\ Tail(s)[i] = s[i + 1]
  OBVIOUS

(* An answer sent to its asker's number, while no other living session has *)
(* it, reaches the asker or nobody.                                        *)
LEMMA DeliveredToAsker ==
    ASSUME AnswerInv, NEW p \in Numbers, NEW a \in Conns, Delivered(p, a),
           \A d \in Conns : Holds(d) /\ conn[d].port = p => d = a
    PROVE  AnswersToAsker'
  <1>1. SessionTypeOK
    BY DEF AnswerInv, NumberInv
  <1>2. /\ path[p] \in Conns
        /\ inbox'[path[p]] = Append(inbox[path[p]], a)
        /\ \A d \in Conns \ {path[p]} : inbox'[d] = inbox[d]
    BY <1>1, DeliveredTyped
  <1>3. path[p] = a
    BY <1>2, LoopsFinite DEF AnswerInv, FilesCurrent, Holds, Delivered
  <1> SUFFICES ASSUME NEW d \in Conns, NEW i \in DOMAIN inbox'[d]
               PROVE  inbox'[d][i] = d
    BY DEF AnswersToAsker
  <1>4. CASE d = a
    <2>1. inbox[a] \in Seq(Conns)
      BY <1>1 DEF SessionTypeOK
    <2>2. i \in DOMAIN Append(inbox[a], a)
      BY <1>2, <1>3, <1>4
    <2>3. (i \in DOMAIN inbox[a] /\ Append(inbox[a], a)[i] = inbox[a][i])
             \/ Append(inbox[a], a)[i] = a
      BY <2>1, <2>2, EntriesAfter
    <2> QED
      BY <2>3, <1>2, <1>3, <1>4 DEF AnswerInv, AnswersToAsker
  <1>5. CASE d # a
    BY <1>2, <1>3, <1>5 DEF AnswerInv, AnswersToAsker
  <1> QED
    BY <1>4, <1>5

LEMMA AnswerLoopStep ==
    ASSUME AnswerInv, NEW l \in Loops, LoopStep(l)
    PROVE  AnswerInv'
  <1> DEFINE c == loop[l].c
  <1>0. NumberInv /\ SessionTypeOK /\ NumberInv'
    BY NumberLoopStep DEF AnswerInv, NumberInv
  <1>1. loop[l].pc # "idle"
    BY DEF LoopStep, Work, Test, Store, Lock, PrintError, Call, CallTimesOut, CloseCall, Close, At
  <1>2. /\ c \in Conns /\ conn[c].port \in Numbers
        /\ \A k \in Loops \ {l} : loop[k].pc # "idle" => loop[k].c \in Conns \ {c}
        /\ loop[l].pc = "work" => conn[c].phase = "taken"
        /\ loop[l].pc \in {"lock", "print", "call", "linger", "join"}
              => conn[c].phase = "open"
    BY <1>1, CallbackFacts
  <1>3. CASE Work(l)
    <2>1. /\ loop[l].pc = "work" /\ UNCHANGED <<inbox, nodeq>>
          /\ conn'[c].phase = "open" /\ conn'[c].port = conn[c].port
          /\ \A d \in Conns \ {c} : conn'[d] = conn[d]
          /\ path'[conn[c].port] = c
          /\ \A p \in Numbers \ {conn[c].port} : path'[p] = path[p]
      BY <1>3, <1>0, <1>2 DEF Work, At, SessionTypeOK
    <2>2. /\ loop'[l].pc = "test" /\ loop'[l].c = c
          /\ \A k \in Loops \ {l} : loop'[k] = loop[k]
      <3>1. Goto(l, "test") /\ "test" \in Pcs
        BY <1>3 DEF Work, Pcs
      <3> QED
        BY <3>1, <1>0, LoopGoes
    <2> HIDE DEF c
    <2>3. PhasesKept'
      <3> SUFFICES ASSUME NEW k \in Loops
                   PROVE  /\ loop'[k].pc = "work" => conn'[loop'[k].c].phase = "taken"
                          /\ loop'[k].pc \in {"lock", "print", "call", "linger", "join"}
                                => conn'[loop'[k].c].phase = "open"
        BY DEF PhasesKept
      <3>1. CASE k = l
        BY <3>1, <2>2
      <3>2. CASE k # l
        BY <3>2, <2>1, <2>2, <1>2 DEF AnswerInv, PhasesKept
      <3> QED
        BY <3>1, <3>2
    <2>4. NumbersDiffer'
      BY <1>2, <2>1 DEF AnswerInv, NumbersDiffer, Holds
    <2>5. FilesCurrent'
      <3> SUFFICES ASSUME NEW p \in Numbers, path'[p] # Nobody
                   PROVE  conn'[path'[p]].phase = "open" /\ conn'[path'[p]].port = p
        BY DEF FilesCurrent
      <3>1. CASE p = conn[c].port
        BY <3>1, <2>1
      <3>2. CASE p # conn[c].port
        <4>1. path'[p] = path[p] /\ path[p] \in Conns
          BY <3>2, <2>1, <1>0 DEF SessionTypeOK
        <4>2. conn[path[p]].phase = "open" /\ conn[path[p]].port = p
          BY <4>1 DEF AnswerInv, FilesCurrent
        <4> QED
          BY <4>1, <4>2, <2>1, <1>2
      <3> QED
        BY <3>1, <3>2
    <2>6. RequestsCurrent'
      <3> SUFFICES ASSUME NEW i \in DOMAIN nodeq
                   PROVE  /\ conn'[nodeq[i].asker].phase # "new"
                          /\ conn'[nodeq[i].asker].port = nodeq[i].port
                          /\ \A d \in Conns : Holds(d)' /\ conn'[d].port = nodeq[i].port
                                 => d = nodeq[i].asker
        BY <2>1 DEF RequestsCurrent
      <3>1. nodeq[i] \in [port : Numbers, asker : Conns]
        BY <1>0, Entries DEF SessionTypeOK
      <3> QED
        BY <3>1, <2>1, <1>2 DEF AnswerInv, RequestsCurrent, Holds
    <2> QED
      BY <1>0, <2>1, <2>3, <2>4, <2>5, <2>6 DEF AnswerInv, AnswersToAsker
  <1>4. CASE Test(l) \/ Store(l) \/ Lock(l) \/ CallTimesOut(l)
    <2>1. UNCHANGED <<conn, path, inbox, nodeq>>
      BY <1>4 DEF Test, Store, Lock, CallTimesOut
    <2>2. /\ \A k \in Loops \ {l} : loop'[k] = loop[k]
          /\ \/ loop'[l].pc \in {"store", "idle"}
             \/ /\ loop[l].pc \in {"lock", "call"}
                /\ loop'[l].pc \in {"print", "call", "linger"} /\ loop'[l].c = c
      <3>1. {"store", "print", "call", "linger"} \subseteq Pcs
        BY DEF Pcs
      <3>2. \/ Goto(l, "store") \/ Return(l)
            \/ loop[l].pc \in {"lock", "call"} /\ \E pc \in {"print", "call", "linger"} : Goto(l, pc)
        BY <1>4 DEF Test, Store, Lock, CallTimesOut, At
      <3> QED
        BY <3>1, <3>2, <1>0, LoopGoes, LoopReturns
    <2>3. PhasesKept'
      BY <1>2, <2>1, <2>2, PhasesFrame DEF AnswerInv
    <2> QED
      BY <1>0, <2>1, <2>3, AnswerFrame DEF AnswerInv, AnswersToAsker
  <1>5. CASE PrintError(l)
    <2>1. /\ loop[l].pc = "print" /\ Delivered(conn[c].port, c) /\ Return(l)
          /\ UNCHANGED <<conn, path, nodeq>>
      BY <1>5 DEF PrintError, At
    <2> HIDE DEF c
    <2>2. \A d \in Conns : Holds(d) /\ conn[d].port = conn[c].port => d = c
      BY <1>2, <2>1 DEF AnswerInv, NumbersDiffer, Holds
    <2>3. AnswersToAsker'
      BY <1>2, <2>1, <2>2, DeliveredToAsker
    <2>4. PhasesKept'
      BY <1>0, <2>1, LoopReturns, PhasesFrame DEF AnswerInv
    <2> QED
      BY <1>0, <2>1, <2>3, <2>4, AnswerFrame DEF AnswerInv
  <1>6. CASE Call(l) \/ CloseCall(l)
    <2>1. /\ loop[l].pc \in {"call", "linger"} /\ Return(l)
          /\ nodeq' = Append(nodeq, [port |-> conn[c].port, asker |-> c])
          /\ UNCHANGED <<conn, path, inbox>>
      BY <1>6 DEF Call, CloseCall, At
    <2> HIDE DEF c
    <2> DEFINE e == [port |-> conn[c].port, asker |-> c]
    <2>2. PhasesKept'
      BY <1>0, <2>1, LoopReturns, PhasesFrame DEF AnswerInv
    <2>3. NumbersDiffer' /\ FilesCurrent' /\ AnswersToAsker'
      BY <2>1 DEF AnswerInv, NumbersDiffer, Holds, FilesCurrent, AnswersToAsker
    <2>4. RequestsCurrent'
      <3> SUFFICES ASSUME NEW i \in DOMAIN nodeq'
                   PROVE  /\ conn[nodeq'[i].asker].phase # "new"
                          /\ conn[nodeq'[i].asker].port = nodeq'[i].port
                          /\ \A d \in Conns : Holds(d) /\ conn[d].port = nodeq'[i].port
                                 => d = nodeq'[i].asker
        BY <2>1 DEF RequestsCurrent, Holds
      <3>1. e \in [port : Numbers, asker : Conns] /\ e.port = conn[c].port /\ e.asker = c
        BY <1>2
      <3>2. nodeq' = Append(nodeq, e) /\ nodeq \in Seq([port : Numbers, asker : Conns])
        BY <1>0, <2>1 DEF SessionTypeOK
      <3> HIDE DEF e
      <3>3. (i \in DOMAIN nodeq /\ nodeq'[i] = nodeq[i]) \/ nodeq'[i] = e
        BY <3>1, <3>2, EntriesAfter
      <3>4. CASE i \in DOMAIN nodeq /\ nodeq'[i] = nodeq[i]
        BY <3>4 DEF AnswerInv, RequestsCurrent
      <3>5. CASE nodeq'[i] = e
        BY <3>1, <3>5, <1>2, <2>1 DEF AnswerInv, NumbersDiffer, Holds
      <3> QED
        BY <3>3, <3>4, <3>5
    <2> QED
      BY <1>0, <2>2, <2>3, <2>4 DEF AnswerInv
  <1>7. CASE Close(l)
    <2>1. /\ loop[l].pc = "join" /\ Return(l) /\ UNCHANGED nodeq
          /\ conn'[c].phase = "closed" /\ conn'[c].port = conn[c].port
          /\ \A d \in Conns \ {c} : conn'[d] = conn[d]
          /\ path'[conn[c].port] = Nobody
          /\ \A p \in Numbers \ {conn[c].port} : path'[p] = path[p]
          /\ inbox'[c] = <<>>
          /\ \A d \in Conns \ {c} : inbox'[d] = inbox[d]
      BY <1>7, <1>0, <1>2 DEF Close, At, SessionTypeOK
    <2>2. loop'[l].pc = "idle" /\ \A k \in Loops \ {l} : loop'[k] = loop[k]
      BY <1>0, <2>1, LoopReturns
    <2> HIDE DEF c
    <2>3. PhasesKept'
      <3> SUFFICES ASSUME NEW k \in Loops
                   PROVE  /\ loop'[k].pc = "work" => conn'[loop'[k].c].phase = "taken"
                          /\ loop'[k].pc \in {"lock", "print", "call", "linger", "join"}
                                => conn'[loop'[k].c].phase = "open"
        BY DEF PhasesKept
      <3>1. CASE k = l
        BY <3>1, <2>2
      <3>2. CASE k # l
        BY <3>2, <2>1, <2>2, <1>2 DEF AnswerInv, PhasesKept
      <3> QED
        BY <3>1, <3>2
    <2>4. NumbersDiffer'
      BY <1>2, <2>1 DEF AnswerInv, NumbersDiffer, Holds
    <2>5. FilesCurrent'
      <3> SUFFICES ASSUME NEW p \in Numbers, path'[p] # Nobody
                   PROVE  conn'[path'[p]].phase = "open" /\ conn'[path'[p]].port = p
        BY DEF FilesCurrent
      <3>1. p # conn[c].port /\ path'[p] = path[p] /\ path[p] \in Conns
        BY <2>1, <1>0 DEF SessionTypeOK
      <3>2. conn[path[p]].phase = "open" /\ conn[path[p]].port = p
        BY <3>1 DEF AnswerInv, FilesCurrent
      <3> QED
        BY <3>1, <3>2, <2>1, <1>2
    <2>6. RequestsCurrent'
      <3> SUFFICES ASSUME NEW i \in DOMAIN nodeq
                   PROVE  /\ conn'[nodeq[i].asker].phase # "new"
                          /\ conn'[nodeq[i].asker].port = nodeq[i].port
                          /\ \A d \in Conns : Holds(d)' /\ conn'[d].port = nodeq[i].port
                                 => d = nodeq[i].asker
        BY <2>1 DEF RequestsCurrent
      <3>1. nodeq[i] \in [port : Numbers, asker : Conns]
        BY <1>0, Entries DEF SessionTypeOK
      <3> QED
        BY <3>1, <2>1, <1>2 DEF AnswerInv, RequestsCurrent, Holds
    <2>7. AnswersToAsker'
      BY <2>1, <1>2 DEF AnswerInv, AnswersToAsker
    <2> QED
      BY <1>0, <2>3, <2>4, <2>5, <2>6, <2>7 DEF AnswerInv
  <1> QED
    BY <1>3, <1>4, <1>5, <1>6, <1>7 DEF LoopStep

LEMMA AnswerOthers ==
    ASSUME AnswerInv,
           (\E c \in Conns : PullStep(c)) \/ NodeAnswer \/ NodeDies \/ NodeRestarts
                  \/ UNCHANGED vars
    PROVE  AnswerInv'
  <1>0. NumberInv /\ SessionTypeOK /\ NumberInv'
    BY NumberOthers DEF AnswerInv, NumberInv
  <1>1. UNCHANGED <<conn, loop, path>>
    BY DEF PullStep, PullMessage, PullCall, PullFails, NodeAnswer, NodeDies, NodeRestarts, vars
  <1>2. PhasesKept' /\ NumbersDiffer' /\ FilesCurrent'
    BY <1>1 DEF AnswerInv, PhasesKept, NumbersDiffer, FilesCurrent, Holds
  <1>3. RequestsCurrent' /\ AnswersToAsker'
    <2>1. ASSUME NEW c \in Conns, PullMessage(c)
          PROVE  RequestsCurrent' /\ AnswersToAsker'
      <3>1. /\ inbox[c] \in Seq(Conns) /\ inbox[c] # <<>> /\ inbox'[c] = Tail(inbox[c])
            /\ \A d \in Conns \ {c} : inbox'[d] = inbox[d]
            /\ UNCHANGED nodeq
        BY <2>1, <1>0 DEF PullMessage, SessionTypeOK
      <3>2. \A i \in DOMAIN inbox'[c] : i + 1 \in DOMAIN inbox[c] /\ inbox'[c][i] = inbox[c][i + 1]
        BY <3>1, EntriesAfter
      <3>3. AnswersToAsker'
        BY <3>1, <3>2 DEF AnswerInv, AnswersToAsker
      <3> QED
        BY <1>1, <3>1, <3>3, AnswerFrame
    <2>2. CASE (\E c \in Conns : PullCall(c) \/ PullFails(c)) \/ NodeRestarts \/ UNCHANGED vars
      <3>1. UNCHANGED <<conn, path, nodeq, inbox>>
        BY <1>1, <2>2 DEF PullCall, PullFails, NodeRestarts, vars
      <3> QED
        BY <3>1, AnswerFrame DEF AnswerInv, AnswersToAsker
    <2>3. CASE NodeAnswer
      <3>1. /\ nodeq # <<>> /\ nodeq \in Seq([port : Numbers, asker : Conns])
            /\ Delivered(Head(nodeq).port, Head(nodeq).asker) /\ nodeq' = Tail(nodeq)
        BY <2>3, <1>0 DEF NodeAnswer, SessionTypeOK
      <3>2. /\ Head(nodeq) \in [port : Numbers, asker : Conns]
            /\ 1 \in DOMAIN nodeq /\ Head(nodeq) = nodeq[1]
            /\ \A i \in DOMAIN nodeq' : i + 1 \in DOMAIN nodeq /\ nodeq'[i] = nodeq[i + 1]
        <4>1. Head(nodeq) \in [port : Numbers, asker : Conns]
          BY <3>1, Entries
        <4> QED
          BY <3>1, <4>1, EntriesAfter
      <3>3. /\ Head(nodeq).port \in Numbers /\ Head(nodeq).asker \in Conns
            /\ \A d \in Conns : Holds(d) /\ conn[d].port = Head(nodeq).port
                   => d = Head(nodeq).asker
        BY <3>2 DEF AnswerInv, RequestsCurrent
      <3>4. AnswersToAsker'
        BY <3>1, <3>3, DeliveredToAsker
      <3>5. RequestsCurrent'
        <4> SUFFICES ASSUME NEW i \in DOMAIN nodeq'
                     PROVE  /\ conn[nodeq'[i].asker].phase # "new"
                            /\ conn[nodeq'[i].asker].port = nodeq'[i].port
                            /\ \A d \in Conns : Holds(d) /\ conn[d].port = nodeq'[i].port
                                   => d = nodeq'[i].asker
          BY <1>1 DEF RequestsCurrent, Holds
        <4> QED
          BY <3>2 DEF AnswerInv, RequestsCurrent
      <3> QED
        BY <3>4, <3>5
    <2>4. CASE NodeDies
      BY <2>4 DEF NodeDies, AnswerInv, RequestsCurrent, AnswersToAsker
    <2> QED
      BY <2>1, <2>2, <2>3, <2>4 DEF PullStep
  <1> QED
    BY <1>0, <1>2, <1>3 DEF AnswerInv

(* As long as a number comes round only after its last use, what reaches a *)
(* client is the answer to one of its own requests, whatever the loops,    *)
(* the PULL threads, the node and its death do meanwhile.                  *)
THEOREM SessionAnswers ==
    ASSUME ~MayCollide
    PROVE  Spec => []AnswersToAsker
  <1>1. AnswerInv /\ [Next]_vars => AnswerInv'
    BY AnswerConnect, AnswerMessage, AnswerStop, AnswerLoopStep, AnswerOthers DEF Next
  <1>2. AnswerInv => AnswersToAsker
    BY DEF AnswerInv
  <1> QED
    BY <1>1, <1>2, AnswerInit, PTL DEF Spec
=============================================================================
