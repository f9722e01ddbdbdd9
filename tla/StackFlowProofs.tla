---------------------------- MODULE StackFlowProofs ----------------------------
(***************************************************************************)
(* Proofs about unit-manager's registry (UnitManager.tla), for any number  *)
(* of ports and units and any order of registrations, releases, table      *)
(* writes and pushes, and about the node that uses it (StackFlow.tla), for *)
(* any number of tasks, sessions and requests.                             *)
(***************************************************************************)
EXTENDS StackFlow, FiniteSetTheorems, FunctionTheorems, SequenceTheorems, TLAPS

LEMMA NumbersTyped ==
    /\ NumPorts \in Nat /\ MaxUnits \in Nat
    /\ Idle \notin Ids
    /\ IsFiniteSet(Ports) /\ OutOfRange \notin Ports
  <1>1. NumPorts \in Nat /\ MaxUnits \in Nat
    BY NumbersAssumption
  <1>2. IsFiniteSet(0..(NumPorts - 1))
    BY <1>1, FS_Interval
  <1> QED
    BY <1>1, <1>2 DEF Idle, Ids, Ports, OutOfRange

(* One scan: a number and the list with it marked; with a port left, that  *)
(* port was free, and is marked alone.                                     *)
LEMMA ScanProperties ==
    ASSUME NEW taken \in SUBSET Ports, NEW s \in Scan(taken)
    PROVE  /\ s.port \in Ports \cup {OutOfRange}
           /\ s.taken \in SUBSET Ports
           /\ Ports \ taken # {} => s.port \in Ports \ taken /\ s.taken = taken \cup {s.port}
  <1>1. CASE Ports \ taken = {}
    <2>1. PICK p \in Ports \cup {OutOfRange} : s = [port |-> p, taken |-> taken]
      BY <1>1 DEF Scan
    <2> QED
      BY <1>1, <2>1
  <1>2. CASE Ports \ taken # {}
    <2>1. PICK p \in Ports \ taken : s = [port |-> p, taken |-> taken \cup {p}]
      BY <1>2 DEF Scan
    <2> QED
      BY <2>1
  <1> QED
    BY <1>1, <1>2

(* With two ports left, the two scans of one registration give two         *)
(* different free ports and mark exactly these.                            *)
LEMMA TwoScans ==
    ASSUME NEW taken \in SUBSET Ports, Cardinality(Ports \ taken) >= 2,
           NEW out \in Scan(taken), NEW inf \in Scan(out.taken)
    PROVE  /\ {out.port, inf.port} \subseteq Ports \ taken
           /\ out.port # inf.port
           /\ inf.taken = taken \cup {out.port, inf.port}
  <1>1. IsFiniteSet(Ports \ taken)
    BY NumbersTyped, FS_Difference
  <1>2. Ports \ taken # {}
    BY <1>1, FS_EmptySet
  <1>3. out.port \in Ports \ taken /\ out.taken = taken \cup {out.port}
    BY <1>2, ScanProperties
  <1>4. Ports \ out.taken = (Ports \ taken) \ {out.port}
    BY <1>3
  <1>5. Cardinality(Ports \ out.taken) = Cardinality(Ports \ taken) - 1
    BY <1>1, <1>3, <1>4, FS_RemoveElement
  <1>6. Ports \ out.taken # {}
    <2>1. Cardinality(Ports \ taken) \in Nat
      BY <1>1, FS_CardinalityType
    <2>2. Cardinality(Ports \ out.taken) # 0
      BY <2>1, <1>5
    <2> QED
      BY <2>2, FS_EmptySet
  <1>7. inf.port \in Ports \ out.taken /\ inf.taken = out.taken \cup {inf.port}
    BY <1>3, <1>6, ScanProperties
  <1> QED
    BY <1>3, <1>7
-----------------------------------------------------------------------------
LEMMA RegistryTyped == TypeOK /\ [Next]_vars => TypeOK'
  <1> SUFFICES ASSUME TypeOK, [Next]_vars PROVE TypeOK'
    OBVIOUS
  <1> USE DEF TypeOK
  <1>1. CASE AllocateUnit
    <2>1. PICK out \in Scan(port_list) : \E inf \in Scan(out.taken) :
             /\ port_list' = inf.taken
             /\ unit' = [unit EXCEPT ![work_id_number_counter] =
                    [output |-> out.port, inference |-> inf.port, alive |-> TRUE]]
      BY <1>1 DEF AllocateUnit
    <2>2. PICK inf \in Scan(out.taken) :
             /\ port_list' = inf.taken
             /\ unit' = [unit EXCEPT ![work_id_number_counter] =
                    [output |-> out.port, inference |-> inf.port, alive |-> TRUE]]
      BY <2>1
    <2>3. out.port \in Ports \cup {OutOfRange} /\ out.taken \in SUBSET Ports
      BY ScanProperties
    <2>4. inf.port \in Ports \cup {OutOfRange} /\ inf.taken \in SUBSET Ports
      BY <2>3, ScanProperties
    <2>5. work_id_number_counter' \in 0..MaxUnits
      BY <1>1, NumbersTyped DEF AllocateUnit
    <2> QED
      BY <1>1, <2>2, <2>3, <2>4, <2>5 DEF AllocateUnit
  <1>2. ASSUME NEW id \in Ids, ReleaseUnit(id) PROVE TypeOK'
    BY <1>2 DEF ReleaseUnit
  <1>3. CASE EraseUnit
    BY <1>3 DEF EraseUnit
  <1>4. ASSUME NEW id \in Ids, SqlSet(id) \/ SqlUnset(id) PROVE TypeOK'
    BY <1>4 DEF SqlSet, SqlUnset, SqlWrite
  <1>5. ASSUME NEW id \in Ids, PushRead(id) PROVE TypeOK'
    BY <1>5 DEF PushRead
  <1>6. CASE PushSend
    <2>1. push \in [id : Ids, unit_p : BOOLEAN]
      BY <1>6 DEF PushSend
    <2> QED
      BY <1>6, <2>1 DEF PushSend
  <1>7. CASE UNCHANGED vars
    BY <1>7 DEF vars
  <1> QED
    BY <1>1, <1>2, <1>3, <1>4, <1>5, <1>6, <1>7 DEF Next

LEMMA RegistryInit == Init => TypeOK /\ TableAlive
  BY NumbersTyped DEF Init, TypeOK, TableAlive, NoUnit, NoPush, NoReply

(* The registry keeps its types, MayExhaust or not.                        *)
THEOREM UnitManagerTypes == Spec => []TypeOK
  BY RegistryInit, RegistryTyped, PTL DEF Spec
-----------------------------------------------------------------------------
LEMMA TableStep == TypeOK /\ TableAlive /\ [Next]_vars => TableAlive'
  <1> SUFFICES ASSUME TypeOK, TableAlive, [Next]_vars, NEW id \in Ids,
                      key_sql'[id] = "unit" \/ out_port'[id] = "url"
               PROVE  unit'[id].alive \/ rpc' = id
    BY DEF TableAlive
  <1> USE DEF TypeOK, TableAlive
  <1>1. CASE AllocateUnit
    <2>1. PICK out, inf :
             unit' = [unit EXCEPT ![work_id_number_counter] =
                         [output |-> out, inference |-> inf, alive |-> TRUE]]
      BY <1>1 DEF AllocateUnit
    <2>2. CASE id = work_id_number_counter
      BY <2>1, <2>2
    <2>3. CASE id # work_id_number_counter
      BY <1>1, <2>1, <2>3, NumbersTyped DEF AllocateUnit
    <2> QED
      BY <2>2, <2>3
  <1>2. ASSUME NEW jd \in Ids, ReleaseUnit(jd) PROVE unit'[id].alive \/ rpc' = id
    BY <1>2, NumbersTyped DEF ReleaseUnit
  <1>3. CASE EraseUnit
    BY <1>3 DEF EraseUnit
  <1>4. ASSUME NEW jd \in Ids, SqlSet(jd) \/ SqlUnset(jd) PROVE unit'[id].alive \/ rpc' = id
    BY <1>4 DEF SqlSet, SqlUnset, SqlWrite
  <1>5. ASSUME NEW jd \in Ids, PushRead(jd) PROVE unit'[id].alive \/ rpc' = id
    BY <1>5 DEF PushRead
  <1>6. CASE PushSend \/ UNCHANGED vars
    BY <1>6 DEF PushSend, vars
  <1> QED
    BY <1>1, <1>2, <1>3, <1>4, <1>5, <1>6 DEF Next

(* The table leads to a deleted unit only between the delete and the       *)
(* SAFE_ERASE of its own release_unit (remote_server.cpp, sys_release_unit *)
(* and rpc_release_unit).                                                  *)
THEOREM UnitManagerTable == Spec => []TableAlive
  BY RegistryInit, RegistryTyped, TableStep, PTL DEF Spec
-----------------------------------------------------------------------------
(* A number not yet given names no unit.                                   *)
Fresh == \A id \in Ids : id >= work_id_number_counter => ~unit[id].alive

PortsInv == TypeOK /\ TableAlive /\ Fresh /\ PortsOwned

LEMMA PortsStep ==
    ASSUME ~MayExhaust
    PROVE  PortsInv /\ [Next]_vars => PortsInv'
  <1> SUFFICES ASSUME PortsInv, [Next]_vars PROVE PortsInv'
    OBVIOUS
  <1>0. TypeOK /\ TypeOK' /\ TableAlive'
    BY RegistryTyped, TableStep DEF PortsInv
  <1>1. CASE AllocateUnit
    <2> DEFINE n == work_id_number_counter
    <2>1. /\ n \in Ids /\ n \in 0..MaxUnits /\ Cardinality(Ports \ port_list) >= 2
          /\ n' = n + 1
      BY <1>0, <1>1, NumbersTyped DEF AllocateUnit, Ids, TypeOK
    <2>2. PICK out \in Scan(port_list) : \E inf \in Scan(out.taken) :
             /\ port_list' = inf.taken
             /\ unit' = [unit EXCEPT ![n] =
                    [output |-> out.port, inference |-> inf.port, alive |-> TRUE]]
      BY <1>1 DEF AllocateUnit
    <2>3. PICK inf \in Scan(out.taken) :
             /\ port_list' = inf.taken
             /\ unit' = [unit EXCEPT ![n] =
                    [output |-> out.port, inference |-> inf.port, alive |-> TRUE]]
      BY <2>2
    <2>4. /\ {out.port, inf.port} \subseteq Ports \ port_list
          /\ out.port # inf.port
          /\ port_list' = port_list \cup {out.port, inf.port}
      BY <2>1, <2>3, <1>0, TwoScans DEF TypeOK
    <2>5. /\ ~unit[n].alive /\ unit'[n].alive
          /\ unit'[n].output = out.port /\ unit'[n].inference = inf.port
          /\ \A id \in Ids \ {n} : unit'[id] = unit[id]
      BY <2>1, <2>3, <1>0, NumbersTyped DEF PortsInv, Fresh, TypeOK
    <2>6. Fresh'
      <3> SUFFICES ASSUME NEW id \in Ids, id >= n' PROVE ~unit'[id].alive
        BY DEF Fresh
      <3>1. id # n /\ id >= n
        BY <2>1, NumbersTyped DEF Ids
      <3> QED
        BY <3>1, <2>5 DEF PortsInv, Fresh
    <2> HIDE DEF n
    <2>7. PortsOwned'
      <3>1. /\ n \notin Live /\ Live' = Live \cup {n} /\ Live \subseteq Ids
            /\ \A id \in Live : unit'[id] = unit[id]
        BY <2>1, <2>5 DEF Live
      <3>2. /\ port_list = {unit[id].output : id \in Live} \cup {unit[id].inference : id \in Live}
            /\ \A id \in Live : unit[id].output # unit[id].inference
            /\ \A id, jd \in Live :
                   id # jd => {unit[id].output, unit[id].inference} \cap
                              {unit[jd].output, unit[jd].inference} = {}
        BY DEF PortsInv, PortsOwned
      <3>3. \A id \in Live : {unit[id].output, unit[id].inference} \cap {out.port, inf.port} = {}
        BY <3>2, <2>4
      <3>4. port_list' = {unit'[id].output : id \in Live'} \cup {unit'[id].inference : id \in Live'}
        <4>1. {unit'[id].output : id \in Live'} = {unit[id].output : id \in Live} \cup {out.port}
          BY <3>1, <2>5
        <4>2. {unit'[id].inference : id \in Live'}
                 = {unit[id].inference : id \in Live} \cup {inf.port}
          BY <3>1, <2>5
        <4> QED
          BY <4>1, <4>2, <3>2, <2>4
      <3>5. \A id \in Live' : unit'[id].output # unit'[id].inference
        BY <3>1, <3>2, <2>4, <2>5
      <3>6. ASSUME NEW id \in Live', NEW jd \in Live', id # jd
            PROVE  {unit'[id].output, unit'[id].inference} \cap
                   {unit'[jd].output, unit'[jd].inference} = {}
        <4>1. CASE id = n
          BY <4>1, <3>1, <3>3, <3>6, <2>5
        <4>2. CASE jd = n
          BY <4>2, <3>1, <3>3, <3>6, <2>5
        <4>3. CASE id # n /\ jd # n
          BY <4>3, <3>1, <3>2, <3>6
        <4> QED
          BY <4>1, <4>2, <4>3
      <3> QED
        BY <3>4, <3>5, <3>6 DEF PortsOwned
    <2> QED
      BY <1>0, <2>6, <2>7 DEF PortsInv
  <1>2. ASSUME NEW id \in Ids, ReleaseUnit(id) PROVE PortsInv'
    <2>1. unit[id].alive
      BY <1>2, NumbersTyped DEF ReleaseUnit, PortsInv, TableAlive
    <2>2. /\ ~unit'[id].alive
          /\ \A jd \in Ids \ {id} : unit'[jd] = unit[jd]
          /\ port_list' = port_list \ {unit[id].output, unit[id].inference}
          /\ UNCHANGED work_id_number_counter
      BY <1>0, <1>2 DEF ReleaseUnit, TypeOK
    <2>3. Fresh'
      BY <2>2 DEF PortsInv, Fresh
    <2>4. PortsOwned'
      <3>1. /\ id \in Live /\ Live' = Live \ {id} /\ Live \subseteq Ids
            /\ \A jd \in Live' : unit'[jd] = unit[jd]
        BY <2>1, <2>2 DEF Live
      <3>2. /\ port_list = {unit[jd].output : jd \in Live} \cup {unit[jd].inference : jd \in Live}
            /\ \A jd \in Live : unit[jd].output # unit[jd].inference
            /\ \A jd, kd \in Live :
                   jd # kd => {unit[jd].output, unit[jd].inference} \cap
                              {unit[kd].output, unit[kd].inference} = {}
        BY DEF PortsInv, PortsOwned
      <3>3. port_list' = {unit'[jd].output : jd \in Live'} \cup {unit'[jd].inference : jd \in Live'}
        <4>1. /\ {unit'[jd].output : jd \in Live'} = {unit[jd].output : jd \in Live \ {id}}
              /\ {unit'[jd].inference : jd \in Live'} = {unit[jd].inference : jd \in Live \ {id}}
          BY <3>1
        <4>2. \A jd \in Live \ {id} :
                 {unit[jd].output, unit[jd].inference} \cap {unit[id].output, unit[id].inference} = {}
          BY <3>1, <3>2
        <4>3. /\ {unit[jd].output : jd \in Live}
                    = {unit[jd].output : jd \in Live \ {id}} \cup {unit[id].output}
              /\ {unit[jd].inference : jd \in Live}
                    = {unit[jd].inference : jd \in Live \ {id}} \cup {unit[id].inference}
          BY <3>1
        <4> DEFINE outs == {unit[jd].output : jd \in Live \ {id}}
                   infs == {unit[jd].inference : jd \in Live \ {id}}
        <4>4. (outs \cup infs) \cap {unit[id].output, unit[id].inference} = {}
          BY <4>2
        <4>5. port_list = (outs \cup {unit[id].output}) \cup (infs \cup {unit[id].inference})
          BY <4>3, <3>2
        <4> HIDE DEF outs, infs
        <4>6. port_list' = outs \cup infs
          BY <4>4, <4>5, <2>2
        <4> QED
          BY <4>1, <4>6 DEF outs, infs
      <3>4. /\ \A jd \in Live' : unit'[jd].output # unit'[jd].inference
            /\ \A jd, kd \in Live' :
                   jd # kd => {unit'[jd].output, unit'[jd].inference} \cap
                              {unit'[kd].output, unit'[kd].inference} = {}
        BY <3>1, <3>2
      <3> QED
        BY <3>3, <3>4 DEF PortsOwned
    <2> QED
      BY <1>0, <2>3, <2>4 DEF PortsInv
  <1>3. ASSUME UNCHANGED <<work_id_number_counter, port_list, unit>> PROVE PortsInv'
    BY <1>0, <1>3 DEF PortsInv, Fresh, PortsOwned, Live
  <1> QED
    BY <1>1, <1>2, <1>3 DEF Next, EraseUnit, SqlSet, SqlUnset, SqlWrite, PushRead, PushSend, vars

(* As long as two ports are free whenever a unit is registered, the list   *)
(* marks exactly the ports of the living units, each port belongs to one   *)
(* URL of one unit (sys_allocate_unit, sys_release_unit), and all of them  *)
(* lie in the configured range.                                            *)
THEOREM UnitManagerPorts ==
    ASSUME ~MayExhaust
    PROVE  Spec => [](PortsOwned /\ PortsConfigured)
  <1>1. Init => PortsInv
    <2> SUFFICES ASSUME Init PROVE PortsInv
      OBVIOUS
    <2>1. TypeOK /\ TableAlive
      BY RegistryInit
    <2>2. Fresh /\ PortsOwned
      BY DEF Init, Fresh, PortsOwned, Live, NoUnit
    <2> QED
      BY <2>1, <2>2 DEF PortsInv
  <1>2. PortsInv => PortsOwned /\ PortsConfigured
    BY DEF PortsInv, PortsOwned, PortsConfigured, TypeOK, Live
  <1> QED
    BY <1>1, <1>2, PortsStep, PTL DEF Spec
-----------------------------------------------------------------------------
(* The node (StackFlow.tla).                                               *)
AnyEvent == Events \cup {NoneEvent}
SysCalls == [fun : {"register_unit", "release_unit"}, id : Ids \cup {NoId}, waiting : BOOLEAN]

NodeTypeOK ==
    /\ TypeOK
    /\ alive \in BOOLEAN
    /\ main \in {"constructing", "started", "running", "dtorTasks", "lingering", "joining",
                "releasing", "ended"}
    /\ queue \in Seq(AnyEvent) /\ batch \in Seq(AnyEvent) /\ match \in AnyEvent
    /\ ev \in [pc : {"unborn", "loop", "wait", "process", "registering", "exiting",
                     "releasing", "lingering", "ended"}, e : AnyEvent]
    /\ channel \subseteq Ids /\ task \subseteq Ids
    /\ output_url_ \in [Ids -> Urls \cup {NoUrl}]
    /\ sub \in [Ids -> {"none", "waiting", "calling", "ending", "lingering"}]
    /\ inbox \in [Ids -> [url : Urls, ok : BOOLEAN] \cup {Empty}]
    /\ call \in [st : {"none", "sent", "answered", "timeout"}, id : Ids \cup {NoId}]
    /\ sysq \in Seq(SysCalls)
    /\ \A i \in DOMAIN sysq : sysq[i].fun = "release_unit" => sysq[i].id \in Ids
    /\ alive /\ main = "constructing" => ev.pc = "unborn"
    /\ ev.pc = "exiting" => ev.e.id \in Ids
    /\ call.st = "answered" => call.id \in Ids
    /\ rpc # Idle => sysq # <<>>
    /\ known \subseteq Ids /\ booked \in Int /\ faultless \in BOOLEAN
    /\ rcall \in {"idle", "access", "sent", "delivered"}
    /\ rcall = "idle" <=> match = NoneEvent
    /\ undelivered \subseteq Ids

(* The calls of the sys RPCs follow one another: the one under way belongs *)
(* to a setup, to an exit or to the destructor.                            *)
Calling ==
    /\ call.st = "none" <=> ev.pc \notin {"registering", "releasing"} /\ main # "releasing"
    /\ ev.pc = "registering" /\ call.st \in {"sent", "timeout"} => call.id = NoId
    /\ ev.pc = "exiting" => ev.e.id \in channel
    /\ ev.pc = "releasing" => ev.e.id \in channel \ task /\ call.id = ev.e.id
    /\ main \in {"releasing", "ended"} => ev.pc = "ended"
    /\ main = "releasing" => call.id \in channel

(* What waits for the sys RPC thread: the call under way comes last, the   *)
(* calls before it have timed out, and those are releases of channels that *)
(* are gone.                                                               *)
Requested ==
    \A i \in DOMAIN sysq :
        LET st == IF sysq[i].waiting THEN "sent" ELSE "timeout"
        IN  /\ i < Len(sysq) => sysq[i].fun = "release_unit" /\ ~sysq[i].waiting
            /\ sysq[i].fun = "register_unit" => ev.pc = "registering" /\ call.st = st
            /\ sysq[i].fun = "release_unit" =>
                   /\ sysq[i].id < work_id_number_counter
                   /\ sysq[i].waiting \/ sysq[i].id \in channel =>
                          call.id = sysq[i].id /\ call.st = st

(* The unit that is being erased is that of the first request.             *)
Erasing ==
    rpc # Idle => /\ sysq # <<>> /\ sysq[1].fun = "release_unit" /\ sysq[1].id = rpc
                  /\ ~unit[rpc].alive

(* A setup's answer is a new unit.                                         *)
Granted ==
    ev.pc = "registering" /\ call.st = "answered" =>
        /\ call.id \in Ids /\ call.id < work_id_number_counter
        /\ call.id \notin channel \cup Releasing
        /\ unit[call.id].alive /\ key_sql[call.id] = "unit"

Channels ==
    /\ task \subseteq channel
    /\ \A id \in channel : id < work_id_number_counter
    /\ ev.pc = "releasing" => ev.e.id \in Releasing \/ ~unit[ev.e.id].alive

NodeInv ==
    /\ NodeTypeOK
    /\ SubscribersBacked /\ UnitsOwned
    /\ alive => Calling /\ Requested /\ Erasing /\ Granted /\ Channels
-----------------------------------------------------------------------------
LEMMA NodeNumbers ==
    /\ NoId \notin Ids /\ NoUrl \notin Urls /\ 1 \in Urls /\ TaskCount \in Nat
    /\ \A id \in Ids : id \in Nat
  BY NodeAssumption DEF NoId, Ids, NoUrl

LEMMA NodeEvents ==
    /\ NoneEvent \in AnyEvent
    /\ \A e \in AnyEvent : /\ e.id \in Ids \cup {NoId} /\ e.url \in Urls /\ e.ok \in BOOLEAN
                           /\ e.kind \in Kinds \cup {"none"}
                           /\ e.kind = "none" <=> e = NoneEvent
  <1>1. NoneEvent \in AnyEvent
    BY DEF AnyEvent
  <1>2. ASSUME NEW e \in Events
        PROVE  e.id \in Ids \cup {NoId} /\ e.url \in Urls /\ e.ok \in BOOLEAN /\ e.kind \in Kinds
    BY DEF Events
  <1>3. /\ NoneEvent.id = NoId /\ NoneEvent.url = 1 /\ NoneEvent.ok = TRUE
        /\ NoneEvent.kind = "none" /\ "none" \notin Kinds
    BY DEF NoneEvent, Kinds
  <1> QED
    BY <1>1, <1>2, <1>3, NodeNumbers DEF AnyEvent

(* The request at the head of sysq.                                        *)
LEMMA FirstCall ==
    ASSUME NodeTypeOK, sysq # <<>>
    PROVE  /\ Head(sysq) \in SysCalls /\ Head(sysq) = sysq[1]
           /\ 1 \in DOMAIN sysq /\ Len(sysq) \in Nat \ {0} /\ DOMAIN sysq = 1..Len(sysq)
           /\ Head(sysq).fun = "release_unit" => Head(sysq).id \in Ids
           /\ Tail(sysq) \in Seq(SysCalls) /\ Len(Tail(sysq)) = Len(sysq) - 1
           /\ DOMAIN Tail(sysq) = 1..(Len(sysq) - 1)
           /\ \A i \in 1..(Len(sysq) - 1) :
                  Tail(sysq)[i] = sysq[i + 1] /\ i + 1 \in DOMAIN sysq
  <1>1. sysq \in Seq(SysCalls)
    BY DEF NodeTypeOK
  <1>2. /\ Head(sysq) \in SysCalls /\ Head(sysq) = sysq[1]
        /\ Len(sysq) \in Nat \ {0} /\ DOMAIN sysq = 1..Len(sysq)
        /\ Tail(sysq) \in Seq(SysCalls) /\ Len(Tail(sysq)) = Len(sysq) - 1
        /\ \A i \in 1..Len(Tail(sysq)) : Tail(sysq)[i] = sysq[i + 1]
    BY <1>1, HeadTailProperties, LenProperties
  <1>3. DOMAIN Tail(sysq) = 1..(Len(sysq) - 1)
    BY <1>2, LenProperties
  <1>4. 1 \in DOMAIN sysq
    BY <1>2
  <1>5. Head(sysq).fun = "release_unit" => Head(sysq).id \in Ids
    BY <1>2, <1>4 DEF NodeTypeOK
  <1>6. \A i \in 1..(Len(sysq) - 1) : i + 1 \in DOMAIN sysq
    BY <1>2
  <1> QED
    BY <1>2, <1>3, <1>4, <1>5, <1>6

(* A step of the node or of its clients is one of the registry, or leaves  *)
(* it alone.                                                               *)
LEMMA NodeStepsRegistry == NodeTypeOK /\ [NodeNext]_allVars => [Next]_vars
  <1> SUFFICES ASSUME NodeTypeOK, [NodeNext]_allVars PROVE [Next]_vars
    OBVIOUS
  <1>1. CASE SysStep
    <2>1. CASE SysRegister
      BY <2>1 DEF SysRegister, Next
    <2>2. CASE SysRelease
      BY <2>2, FirstCall DEF SysRelease, Next
    <2>3. CASE SysErase
      BY <2>3 DEF SysErase, Next
    <2> QED
      BY <1>1, <2>1, <2>2, <2>3 DEF SysStep
  <1>2. CASE Client
    BY <1>2 DEF Client, RemoteCall, Inference, SessionLeaves, Next
  <1>3. ASSUME NEW url \in Urls, NEW ok \in BOOLEAN, InferencePublish(url, ok) PROVE [Next]_vars
    BY <1>3 DEF InferencePublish, Next
  <1>4. CASE UnitActionMatch \/ CallTimeout
    BY <1>4 DEF UnitActionMatch, UnitCallFalse, CreatReq, Deliver, RpcEnqueue, GivesUp, CallTimeout
  <1>5. ASSUME NEW id \in Ids, SubscriberReceive(id) \/ SubscriberDone(id) PROVE [Next]_vars
    BY <1>5 DEF SubscriberReceive, SubscriberDone
  <1>6. CASE EventLoopThread
    BY <1>6 DEF EventLoopThread, EvenLoop, WaitReturns, ProcessEnd, Ignore, Setup, SetupTask,
          Exit, ExitTask, ExitLingers, ReleaseReturns, Taskinfo, Pause
  <1>7. CASE MainThread \/ Sigterm
    BY <1>7 DEF MainThread, Sigterm, StartEvenLoop, StatusStored, DtorStopTask, DtorLingers,
          DtorEraseTask, DtorStopsLoop, DtorJoins, DtorSecondJoin
  <1>8. CASE UNCHANGED allVars
    BY <1>8 DEF allVars
  <1> QED
    BY <1>1, <1>2, <1>3, <1>4, <1>5, <1>6, <1>7, <1>8 DEF NodeNext

LEMMA EventSeqs ==
    ASSUME NodeTypeOK
    PROVE  /\ <<>> \in Seq(AnyEvent)
           /\ \A e \in AnyEvent : Append(queue, e) \in Seq(AnyEvent)
           /\ batch # <<>> => Head(batch) \in AnyEvent /\ Tail(batch) \in Seq(AnyEvent)
  <1>1. queue \in Seq(AnyEvent) /\ batch \in Seq(AnyEvent)
    BY DEF NodeTypeOK
  <1> QED
    BY <1>1, EmptySeq, AppendProperties, HeadTailProperties

(* What CallSys adds to sysq.                                              *)
LEMMA SysqAppend ==
    ASSUME NodeTypeOK, NEW fun \in {"register_unit", "release_unit"},
           NEW id \in Ids \cup {NoId}, fun = "release_unit" => id \in Ids, CallSys(fun, id)
    PROVE  /\ call' = [st |-> "sent", id |-> id]
           /\ sysq' \in Seq(SysCalls) /\ Len(sysq) \in Nat /\ Len(sysq') = Len(sysq) + 1
           /\ DOMAIN sysq = 1..Len(sysq) /\ DOMAIN sysq' = 1..(Len(sysq) + 1)
           /\ \A i \in 1..Len(sysq) : sysq'[i] = sysq[i]
           /\ sysq'[Len(sysq) + 1] = [fun |-> fun, id |-> id, waiting |-> TRUE]
           /\ \A i \in DOMAIN sysq' : sysq'[i].fun = "release_unit" => sysq'[i].id \in Ids
           /\ Releasing' = Releasing \cup (IF fun = "release_unit" THEN {id} ELSE {})
           /\ sysq # <<>> => sysq'[1] = sysq[1]
           /\ sysq' # <<>>
  <1> DEFINE c == [fun |-> fun, id |-> id, waiting |-> TRUE]
  <1>1. c \in SysCalls
    BY DEF SysCalls
  <1>2. sysq \in Seq(SysCalls)
    BY DEF NodeTypeOK
  <1>3. /\ sysq' \in Seq(SysCalls) /\ Len(sysq) \in Nat /\ Len(sysq') = Len(sysq) + 1
        /\ \A i \in 1..Len(sysq) : sysq'[i] = sysq[i]
        /\ sysq'[Len(sysq) + 1] = c
    BY <1>1, <1>2, AppendProperties, LenProperties DEF CallSys
  <1>4. DOMAIN sysq = 1..Len(sysq) /\ DOMAIN sysq' = 1..(Len(sysq) + 1)
    BY <1>2, <1>3, LenProperties
  <1>5. DOMAIN sysq' = DOMAIN sysq \cup {Len(sysq) + 1}
    BY <1>3, <1>4
  <1>6. \A i \in DOMAIN sysq' : sysq'[i].fun = "release_unit" => sysq'[i].id \in Ids
    <2>1. \A i \in DOMAIN sysq : sysq[i].fun = "release_unit" => sysq[i].id \in Ids
      BY DEF NodeTypeOK
    <2> QED
      BY <1>3, <1>4, <1>5, <2>1
  <1>7. Releasing' = Releasing \cup (IF fun = "release_unit" THEN {id} ELSE {})
    BY <1>3, <1>4, <1>5 DEF Releasing
  <1>8. sysq' # <<>> /\ (sysq # <<>> => sysq'[1] = sysq[1])
    BY <1>2, <1>3, EmptySeq, LenProperties
  <1> QED
    BY <1>3, <1>4, <1>6, <1>7, <1>8 DEF CallSys

(* What Answer takes from it.                                              *)
LEMMA SysqTail ==
    ASSUME NodeTypeOK, sysq # <<>>, sysq' = Tail(sysq)
    PROVE  /\ sysq' \in Seq(SysCalls) /\ Len(sysq') = Len(sysq) - 1
           /\ \A i \in DOMAIN sysq' : sysq'[i].fun = "release_unit" => sysq'[i].id \in Ids
           /\ \A i \in DOMAIN sysq' : i + 1 \in DOMAIN sysq /\ i + 1 > 1 /\ sysq'[i] = sysq[i + 1]
           /\ \A id \in Releasing : id \in Releasing' \/ (id = sysq[1].id /\ sysq[1].fun = "release_unit")
           /\ Releasing' \subseteq Releasing
           /\ Len(sysq) = 1 => sysq' = <<>> /\ Releasing' = {}
  <1>1. /\ sysq' \in Seq(SysCalls) /\ Len(sysq') = Len(sysq) - 1
        /\ DOMAIN sysq = 1..Len(sysq) /\ DOMAIN sysq' = 1..(Len(sysq) - 1)
        /\ Len(sysq) \in Nat \ {0}
    BY FirstCall
  <1>2. \A i \in DOMAIN sysq' : i + 1 \in DOMAIN sysq /\ i + 1 > 1 /\ sysq'[i] = sysq[i + 1]
    BY <1>1, FirstCall
  <1>3. \A i \in DOMAIN sysq' : sysq'[i].fun = "release_unit" => sysq'[i].id \in Ids
    BY <1>2 DEF NodeTypeOK
  <1>4. \A j \in DOMAIN sysq : j = 1 \/ (j - 1 \in DOMAIN sysq' /\ sysq'[j - 1] = sysq[j])
    BY <1>1, <1>2
  <1>5. \A id \in Releasing : id \in Releasing' \/ (id = sysq[1].id /\ sysq[1].fun = "release_unit")
    <2> SUFFICES ASSUME NEW j \in DOMAIN sysq, sysq[j].fun = "release_unit", j # 1
                 PROVE  sysq[j].id \in Releasing'
      BY DEF Releasing
    <2> QED
      BY <1>4 DEF Releasing
  <1>6. Releasing' \subseteq Releasing
    BY <1>2 DEF Releasing
  <1>7. Len(sysq) = 1 => sysq' = <<>> /\ Releasing' = {}
    <2> HAVE Len(sysq) = 1
    <2>1. Len(sysq') = 0 /\ DOMAIN sysq' = {}
      BY <1>1
    <2> QED
      BY <1>1, <2>1, EmptySeq DEF Releasing
  <1> QED
    BY <1>1, <1>2, <1>3, <1>5, <1>6, <1>7

(* What a timeout leaves of it.                                            *)
LEMMA SysqTimeout ==
    ASSUME NodeTypeOK, CallTimeout
    PROVE  /\ sysq' \in Seq(SysCalls) /\ Len(sysq') = Len(sysq) /\ DOMAIN sysq' = DOMAIN sysq
           /\ \A i \in DOMAIN sysq : /\ sysq'[i].fun = sysq[i].fun /\ sysq'[i].id = sysq[i].id
                                     /\ ~sysq'[i].waiting
           /\ Releasing' = Releasing
           /\ sysq # <<>> => sysq' # <<>>
  <1>1. sysq \in Seq(SysCalls)
    BY DEF NodeTypeOK
  <1>2. DOMAIN sysq = 1..Len(sysq) /\ Len(sysq) \in Nat /\ \A i \in DOMAIN sysq : sysq[i] \in SysCalls
    BY <1>1, LenProperties, ElementOfSeq
  <1>3. sysq' = [i \in 1..Len(sysq) |-> [sysq[i] EXCEPT !.waiting = FALSE]]
    BY <1>2 DEF CallTimeout
  <1>4. \A i \in 1..Len(sysq) : /\ sysq'[i] \in SysCalls
                                /\ sysq'[i].fun = sysq[i].fun /\ sysq'[i].id = sysq[i].id
                                /\ ~sysq'[i].waiting
    BY <1>2, <1>3 DEF SysCalls
  <1>5. sysq' \in [1..Len(sysq) -> SysCalls]
    BY <1>3, <1>4
  <1>6. sysq' \in Seq(SysCalls)
    BY <1>2, <1>5, IsASeq
  <1>7. DOMAIN sysq' = DOMAIN sysq /\ Len(sysq') = Len(sysq)
    BY <1>2, <1>5, <1>6, LenProperties
  <1>8. Releasing' = Releasing
    BY <1>2, <1>4, <1>7 DEF Releasing
  <1>9. sysq # <<>> => sysq' # <<>>
    BY <1>1, <1>6, <1>7, EmptySeq, LenProperties
  <1> QED
    BY <1>2, <1>4, <1>6, <1>7, <1>8, <1>9
-----------------------------------------------------------------------------
LEMMA NodeTyped == NodeTypeOK /\ [NodeNext]_allVars => NodeTypeOK'
  <1> SUFFICES ASSUME NodeTypeOK, [NodeNext]_allVars PROVE NodeTypeOK'
    OBVIOUS
  <1>1. TypeOK'
    BY NodeStepsRegistry, RegistryTyped DEF NodeTypeOK
  <1>e. /\ <<>> \in Seq(AnyEvent)
        /\ \A e \in AnyEvent : Append(queue, e) \in Seq(AnyEvent)
        /\ batch # <<>> => Head(batch) \in AnyEvent /\ Tail(batch) \in Seq(AnyEvent)
    BY EventSeqs
  <1> USE <1>1, <1>e, NodeNumbers, NodeEvents DEF NodeTypeOK, vars
  <1>t. ASSUME Terminate, UNCHANGED <<vars, sysq, match, rcall, account>>,
               inbox' \in [Ids -> [url : Urls, ok : BOOLEAN] \cup {Empty}]
        PROVE  NodeTypeOK'
    BY <1>t DEF Terminate, NoCall, vars, account
  <1>2. CASE SysStep
    <2>1. CASE SysRegister
      <3>1. work_id_number_counter \in Ids
        BY <2>1, NumbersTyped DEF SysRegister, AllocateUnit, TypeOK, Ids
      <3>2. sysq # <<>> /\ sysq' = Tail(sysq)
        BY <2>1 DEF SysRegister, Answer
      <3>3. /\ call' \in [st : {"none", "sent", "answered", "timeout"}, id : Ids \cup {NoId}]
            /\ call'.st = "answered" => call'.id \in Ids
        BY <2>1, <3>1 DEF SysRegister, Answer
      <3>4. rpc' = Idle
        BY <2>1 DEF SysRegister, AllocateUnit
      <3> QED
        BY <2>1, <3>2, <3>3, <3>4, SysqTail DEF SysRegister, clientVars, account
    <2>2. CASE SysRelease
      BY <2>2 DEF SysRelease, nodeVars, clientVars, account
    <2>3. CASE SysErase
      <3>1. rpc \in Ids
        BY <2>3 DEF SysErase, EraseUnit, TypeOK
      <3>2. sysq' = Tail(sysq)
        BY <2>3 DEF SysErase, Answer
      <3>3. /\ call' \in [st : {"none", "sent", "answered", "timeout"}, id : Ids \cup {NoId}]
            /\ call'.st = "answered" => call'.id \in Ids
        BY <2>3, <3>1 DEF SysErase, Answer
      <3>4. sysq # <<>> /\ rpc' = Idle
        BY <2>3 DEF SysErase, EraseUnit
      <3> QED
        BY <2>3, <3>2, <3>3, <3>4, SysqTail DEF SysErase, clientVars, account
    <2> QED
      BY <1>2, <2>1, <2>2, <2>3 DEF SysStep
  <1>3. CASE Client
    <2>1. ASSUME NEW e \in Events, RemoteCall(e) PROVE NodeTypeOK'
      <3>1. known' \subseteq Ids /\ booked' \in Int /\ faultless' \in BOOLEAN
        BY <2>1 DEF RemoteCall, WellFormed, Account
      <3>2. e \in AnyEvent /\ e # NoneEvent
        BY DEF AnyEvent, Events, NoneEvent, Kinds
      <3> QED
        BY <2>1, <3>1, <3>2 DEF RemoteCall, nodeVars
    <2>3. ASSUME NEW url \in Urls, SessionLeaves(url) PROVE NodeTypeOK'
      <3>1. known' \subseteq Ids /\ booked' \in Int /\ faultless' \in BOOLEAN
        BY <2>3 DEF SessionLeaves, Fault, Account
      <3> QED
        BY <2>3, <3>1 DEF SessionLeaves, nodeVars
    <2>2. ASSUME NEW id \in Ids, Inference(id) PROVE NodeTypeOK'
      BY <2>2 DEF Inference, PushRead, nodeVars, clientVars, account
    <2> QED
      BY <1>3, <2>1, <2>2, <2>3 DEF Client
  <1>4. ASSUME NEW url \in Urls, NEW ok \in BOOLEAN, InferencePublish(url, ok) PROVE NodeTypeOK'
    <2>1. UNCHANGED <<nodeVars, sysq, match, rcall, rpc>>
      BY <1>4 DEF InferencePublish, PushSend
    <2>2. /\ inbox' \in [Ids -> [url : Urls, ok : BOOLEAN] \cup {Empty}]
          /\ known' \subseteq Ids /\ booked' \in Int /\ faultless' \in BOOLEAN
      <3>1. CASE UNCHANGED <<inbox, account>>
        BY <3>1 DEF account
      <3>2. CASE /\ push.unit_p
                 /\ inbox' = [inbox EXCEPT ![push.id] = [url |-> url, ok |-> ok]]
                 /\ Account(ok /\ url = 1, unanswered, known, booked)
        <4>1. inbox' \in [Ids -> [url : Urls, ok : BOOLEAN] \cup {Empty}]
          BY <3>2 DEF TypeOK, NoPush
        <4> QED
          BY <3>2, <4>1 DEF Account
      <3> QED
        BY <1>4, <3>1, <3>2 DEF InferencePublish
    <2> QED
      BY <2>1, <2>2 DEF nodeVars
  <1>5. CASE UnitActionMatch
    <2>1. CASE UnitCallFalse
      <3>1. known' \subseteq Ids /\ booked' \in Int /\ faultless' \in BOOLEAN
        BY <2>1 DEF UnitCallFalse, Account
      <3> QED
        BY <2>1, <3>1 DEF UnitCallFalse, nodeVars
    <2>2. CASE CreatReq \/ Deliver \/ GivesUp
      BY <2>2 DEF CreatReq, Deliver, GivesUp, nodeVars, account
    <2>3. CASE RpcEnqueue
      <3>1. Append(queue, match) \in Seq(AnyEvent)
        OBVIOUS
      <3> QED
        BY <2>3, <3>1 DEF RpcEnqueue, account
    <2> QED
      BY <1>5, <2>1, <2>2, <2>3 DEF UnitActionMatch
  <1>6. CASE CallTimeout
    <2>1. known' \subseteq Ids /\ booked' \in Int /\ faultless' \in BOOLEAN
      BY <1>6 DEF CallTimeout, Fault, Account
    <2>2. /\ sysq' \in Seq(SysCalls) /\ (sysq # <<>> => sysq' # <<>>)
          /\ \A i \in DOMAIN sysq' : sysq'[i].fun = "release_unit" => sysq'[i].id \in Ids
      BY <1>6, SysqTimeout
    <2>3. /\ call' \in [st : {"none", "sent", "answered", "timeout"}, id : Ids \cup {NoId}]
          /\ call'.st # "answered"
      BY <1>6 DEF CallTimeout
    <2> QED
      BY <1>6, <2>1, <2>2, <2>3 DEF CallTimeout
  <1>7. ASSUME NEW id \in Ids, SubscriberReceive(id) PROVE NodeTypeOK'
    BY <1>7 DEF SubscriberReceive, SetPushUrl, clientVars, account, Empty
  <1>8. ASSUME NEW id \in Ids, SubscriberDone(id) PROVE NodeTypeOK'
    <2>1. CASE UserDataAccepted(id)
      <3>1. sub' \in [Ids -> {"none", "waiting", "calling", "ending", "lingering"}]
        BY <1>8, <2>1 DEF SubscriberDone
      <3>2. inbox' \in [Ids -> [url : Urls, ok : BOOLEAN] \cup {Empty}] /\ undelivered' \subseteq Ids
        BY <1>8, <2>1 DEF SubscriberDone
      <3> QED
        BY <1>8, <2>1, <3>1, <3>2 DEF SubscriberDone, clientVars, account
    <2>2. CASE ~UserDataAccepted(id)
      BY <1>8, <2>2, <1>t DEF SubscriberDone, clientVars, account
    <2> QED
      BY <2>1, <2>2
  <1>9. CASE EventLoopThread
    <2>1. CASE EvenLoop
      BY <2>1 DEF EvenLoop, clientVars, account
    <2>11. CASE WaitReturns
      BY <2>11 DEF WaitReturns, clientVars, account
    <2>12. CASE ProcessEnd
      BY <2>12 DEF ProcessEnd, clientVars, account
    <2>9. CASE Ignore
      <3>1. known' \subseteq Ids /\ booked' \in Int /\ faultless' \in BOOLEAN
        BY <2>9 DEF Ignore, Account
      <3> QED
        BY <2>9, <3>1 DEF Ignore, Dispatch
    <2>10. CASE ExitLingers
      BY <2>10 DEF ExitLingers, Lingering, clientVars, account
    <2>2. CASE Setup
      <3>1. CallSys("register_unit", NoId) /\ batch # <<>>
        BY <2>2 DEF Setup, Dispatch
      <3>2. /\ call' = [st |-> "sent", id |-> NoId] /\ sysq' \in Seq(SysCalls) /\ sysq' # <<>>
            /\ \A i \in DOMAIN sysq' : sysq'[i].fun = "release_unit" => sysq'[i].id \in Ids
        BY <3>1, SysqAppend
      <3> QED
        BY <2>2, <3>1, <3>2 DEF Setup, Dispatch, clientVars, account
    <2>3. CASE SetupTask
      <3>1. CASE Terminate /\ UNCHANGED account
        BY <2>3, <3>1, <1>t DEF SetupTask
      <3>2. CASE Registered /\ Accepts(ev.e) /\ ~(Terminate /\ UNCHANGED account)
        <4>1. /\ channel' = channel \cup {call.id} /\ task' = task \cup {call.id}
              /\ SetPushUrl({call.id}, ev.e.url) /\ Subscribe(call.id)
              /\ ev.pc = "registering" /\ call' = NoCall
              /\ \/ ev' = [ev EXCEPT !.pc = "process"]
                 \/ ev' = [pc |-> "lingering", e |-> ev.e]
              /\ UNCHANGED account \/ Account(TRUE, unanswered - 1, known \cup {call.id}, booked)
              /\ UNCHANGED <<alive, main, queue, batch, undelivered, vars, inbox, sysq, match, rcall>>
          BY <2>3, <3>2 DEF SetupTask, Lingering
        <4>2. call.id \in Ids
          BY <3>2 DEF Registered
        <4>3. known' \subseteq Ids /\ booked' \in Int /\ faultless' \in BOOLEAN
          BY <4>1, <4>2 DEF account, Account
        <4> QED
          BY <4>1, <4>2, <4>3 DEF SetPushUrl, Subscribe, NoCall, vars
      <3> QED
        BY <2>3, <3>1, <3>2 DEF SetupTask
    <2>4. CASE Exit
      <3>1. CASE Terminate /\ UNCHANGED inbox
        BY <2>4, <3>1, <1>t DEF Exit, clientVars, account
      <3>2. CASE ~(Terminate /\ UNCHANGED inbox)
        <4> DEFINE e == Head(batch)
        <4>1. e \in AnyEvent /\ Tail(batch) \in Seq(AnyEvent) /\ e.id \in Ids
          BY <2>4, <3>2 DEF Exit, Dispatch
        <4>2. /\ SetPushUrl(GetChannel(e.id), e.url)
              /\ StopSubscriber(e.id) \/ UNCHANGED <<sub, inbox>>
              /\ ev.pc = "process" /\ batch' = Tail(batch)
              /\ ev' = [pc |-> "exiting", e |-> e] \/ ev' = [pc |-> "lingering", e |-> e]
              /\ undelivered' = undelivered \/ undelivered' = undelivered \ {e.id}
              /\ UNCHANGED <<alive, main, queue, channel, task, call, vars, sysq, clientVars>>
          BY <2>4, <3>2 DEF Exit, Dispatch, Lingering
        <4> HIDE DEF e
        <4>3. /\ ev' \in [pc : {"exiting", "lingering"}, e : AnyEvent] /\ ev'.e.id \in Ids
              /\ undelivered' \subseteq Ids
          BY <4>1, <4>2
        <4>4. output_url_' \in [Ids -> Urls \cup {NoUrl}]
          BY <4>1, <4>2 DEF SetPushUrl
        <4>5. sub' \in [Ids -> {"none", "waiting", "calling", "ending", "lingering"}]
          BY <4>1, <4>2 DEF StopSubscriber
        <4>6. inbox' \in [Ids -> [url : Urls, ok : BOOLEAN] \cup {Empty}]
          BY <4>1, <4>2 DEF StopSubscriber
        <4> QED
          BY <4>1, <4>2, <4>3, <4>4, <4>5, <4>6 DEF clientVars, account, vars
      <3> QED
        BY <3>1, <3>2
    <2>5. CASE ExitTask
      <3>1. CallSys("release_unit", ev.e.id) /\ ev.e.id \in Ids
        BY <2>5 DEF ExitTask
      <3>2. /\ call' = [st |-> "sent", id |-> ev.e.id] /\ sysq' \in Seq(SysCalls) /\ sysq' # <<>>
            /\ \A i \in DOMAIN sysq' : sysq'[i].fun = "release_unit" => sysq'[i].id \in Ids
        BY <3>1, SysqAppend
      <3>3. /\ ev.pc = "exiting" /\ ev' = [ev EXCEPT !.pc = "releasing"]
            /\ task' = task \ {ev.e.id} /\ Account(TRUE, unanswered - 1, known, booked - 1)
            /\ UNCHANGED <<alive, main, queue, batch, channel, output_url_, undelivered, sub,
                           inbox, match, rcall>>
        BY <2>5 DEF ExitTask
      <3> QED
        <4>1. /\ call' \in [st : {"none", "sent", "answered", "timeout"}, id : Ids \cup {NoId}]
              /\ call'.st = "sent"
          BY <3>1, <3>2
        <4>2. /\ ev'.pc = "releasing"
              /\ ev' \in [pc : {"unborn", "loop", "wait", "process", "registering", "exiting",
                                "releasing", "lingering", "ended"}, e : AnyEvent]
          BY <3>3
        <4>3. /\ task' \subseteq Ids
              /\ known' \subseteq Ids /\ booked' \in Int /\ faultless' \in BOOLEAN
          BY <3>3 DEF Account
        <4> HIDE DEF vars
        <4> QED
          BY <3>2, <3>3, <4>1, <4>2, <4>3
    <2>6. CASE ReleaseReturns
      BY <2>6 DEF ReleaseReturns, NoCall, clientVars, account
    <2>7. CASE Taskinfo
      <3>1. CASE Terminate /\ UNCHANGED account
        BY <2>7, <3>1, <1>t DEF Taskinfo
      <3>2. CASE ~(Terminate /\ UNCHANGED account)
        <4> DEFINE e == Head(batch)
        <4>1. e \in AnyEvent /\ Tail(batch) \in Seq(AnyEvent)
          BY <2>7 DEF Taskinfo, Dispatch
        <4>2. /\ SetPushUrl(GetChannel(e.id), e.url)
              /\ alive /\ ev.pc = "process"
              /\ ev' = ev \/ ev' = [pc |-> "lingering", e |-> e]
              /\ batch' = Tail(batch)
              /\ undelivered' = undelivered \/ undelivered' = undelivered \ {e.id}
              /\ UNCHANGED account \/ Account(TRUE, unanswered - 1, known, booked)
              /\ UNCHANGED <<alive, main, queue, channel, task, sub, call, vars, inbox, sysq,
                             match, rcall>>
          BY <2>7, <3>2 DEF Taskinfo, Dispatch, Lingering
        <4> HIDE DEF e
        <4>3. known' \subseteq Ids /\ booked' \in Int /\ faultless' \in BOOLEAN
          BY <4>2 DEF account, Account
        <4>4. /\ ev' \in [pc : {"process", "lingering"}, e : AnyEvent]
              /\ undelivered' \subseteq Ids
              /\ ~(alive' /\ main' = "constructing")
          BY <4>1, <4>2
        <4>6. output_url_' \in [Ids -> Urls \cup {NoUrl}]
          BY <4>1, <4>2 DEF SetPushUrl
        <4>5. UNCHANGED rpc
          BY <4>2 DEF vars
        <4> HIDE DEF vars
        <4> QED
          BY <4>1, <4>2, <4>3, <4>4, <4>5, <4>6
      <3> QED
        BY <3>1, <3>2
    <2>8. CASE Pause
      BY <2>8, <1>t DEF Pause, clientVars, account
    <2> QED
      BY <1>9, <2>1, <2>2, <2>3, <2>4, <2>5, <2>6, <2>7, <2>8, <2>9, <2>10, <2>11, <2>12
         DEF EventLoopThread
  <1>10. CASE MainThread \/ Sigterm
    <2>1. CASE StartEvenLoop \/ StatusStored
      <3>1. ev' \in [pc : {"loop", ev.pc}, e : AnyEvent] /\ main' \in {"started", "running"}
        BY <2>1 DEF StartEvenLoop, StatusStored
      <3>2. ev'.pc = "exiting" => ev'.e.id \in Ids
        BY <2>1 DEF StartEvenLoop, StatusStored
      <3>3. UNCHANGED <<vars, alive, queue, batch, channel, task, output_url_, undelivered, sub,
                        call, inbox, sysq, match, rcall, known, booked, faultless>>
        BY <2>1 DEF StartEvenLoop, StatusStored, clientVars, account
      <3>4. UNCHANGED rpc
        BY <3>3 DEF vars
      <3> HIDE DEF vars
      <3> QED
        BY <3>1, <3>2, <3>3, <3>4
    <2>7. CASE Sigterm
      <3>1. known' \subseteq Ids /\ booked' \in Int /\ faultless' \in BOOLEAN
        BY <2>7 DEF Sigterm, Fault, Account
      <3> QED
        BY <2>7, <3>1 DEF Sigterm
    <2>8. ASSUME NEW id \in Ids, DtorLingers(id) PROVE NodeTypeOK'
      BY <2>8 DEF DtorLingers, clientVars, account
    <2>6. CASE DtorStopsLoop
      <3>1. Append(queue, NoneEvent) \in Seq(AnyEvent)
        OBVIOUS
      <3> QED
        BY <2>6, <3>1 DEF DtorStopsLoop, clientVars, account
    <2>2. ASSUME NEW id \in Ids, DtorStopTask(id) PROVE NodeTypeOK'
      <3>1. CASE id \in channel
        <4>1. /\ StopSubscriber(id)
              /\ UNCHANGED <<alive, main, queue, batch, ev, channel, task, output_url_, undelivered,
                             call, vars, sysq, clientVars>>
          BY <2>2, <3>1 DEF DtorStopTask
        <4>2. /\ sub' \in [Ids -> {"none", "waiting", "calling", "ending", "lingering"}]
              /\ inbox' \in [Ids -> [url : Urls, ok : BOOLEAN] \cup {Empty}]
          BY <4>1 DEF StopSubscriber
        <4> QED
          BY <4>1, <4>2 DEF clientVars, account
      <3>2. CASE id \notin channel
        BY <2>2, <3>2, <1>t DEF DtorStopTask, clientVars, account
      <3> QED
        BY <3>1, <3>2
    <2>3. ASSUME NEW id \in Ids, DtorEraseTask(id) PROVE NodeTypeOK'
      <3>1. CASE Terminate
        BY <2>3, <3>1, <1>t DEF DtorEraseTask, clientVars, account
      <3>2. CASE ~Terminate
        BY <2>3, <3>2 DEF DtorEraseTask, clientVars, account, vars
      <3> QED
        BY <3>1, <3>2
    <2>4. CASE DtorJoins
      <3>1. CASE channel = {}
        BY <2>4, <3>1 DEF DtorJoins, clientVars, account, vars
      <3>3. ASSUME NEW id \in channel, CallSys("release_unit", id), main' = "releasing"
            PROVE  NodeTypeOK'
        <4>1. /\ call' = [st |-> "sent", id |-> id] /\ sysq' \in Seq(SysCalls) /\ sysq' # <<>>
              /\ \A i \in DOMAIN sysq' : sysq'[i].fun = "release_unit" => sysq'[i].id \in Ids
          BY <3>3, SysqAppend
        <4> QED
          BY <2>4, <3>3, <4>1 DEF DtorJoins, clientVars, account, vars
      <3> QED
        BY <2>4, <3>1, <3>3 DEF DtorJoins
    <2>5. CASE DtorSecondJoin
      BY <2>5, <1>t DEF DtorSecondJoin, clientVars, account
    <2> QED
      BY <1>10, <2>1, <2>2, <2>3, <2>4, <2>5, <2>6, <2>7, <2>8 DEF MainThread
  <1>11. CASE UNCHANGED allVars
    BY <1>11 DEF allVars, vars, nodeVars, clientVars, account
  <1> QED
    BY <1>2, <1>3, <1>4, <1>5, <1>6, <1>7, <1>8, <1>9, <1>10, <1>11 DEF NodeNext
-----------------------------------------------------------------------------
(* The parts of NodeInv in a state of a living node.                       *)
AliveInv ==
    /\ SubscribersBacked /\ UnitsOwned
    /\ Calling /\ Requested /\ Erasing /\ Granted /\ Channels

LEMMA SameRequests == sysq' = sysq => Releasing' = Releasing
  BY DEF Releasing

(* Steps of the clients, of the sockets and of the threads between two     *)
(* requests: what ties the node to the unit manager stays as it is.        *)
LEMMA QuietStep ==
    ASSUME NodeTypeOK, NodeTypeOK', AliveInv, alive, alive',
           UNCHANGED <<work_id_number_counter, key_sql, unit, rpc, channel, call, sysq>>,
           task' \subseteq task,
           \/ UNCHANGED ev
           \/ /\ ev.pc \notin {"registering", "releasing"}
              /\ ev'.pc \notin {"registering", "exiting", "releasing"}
           \/ /\ ev.pc \notin {"registering", "exiting", "releasing"}
              /\ ev'.pc = "exiting" /\ ev'.e.id \in channel,
           \/ UNCHANGED main \/ main' \notin {"releasing", "ended"}
           \/ main' = "ended" /\ ev'.pc = "ended",
           main \in {"releasing", "ended"} => UNCHANGED <<main, ev>>,
           \A id \in Ids : sub'[id] # "none" =>
               id \in channel /\ id \in task' /\ output_url_'[id] # NoUrl
    PROVE  AliveInv'
  <1>1. Releasing' = Releasing
    BY SameRequests
  <1>2. SubscribersBacked'
    BY DEF SubscribersBacked
  <1>3. ev.pc = "registering" <=> ev'.pc = "registering"
    OBVIOUS
  <1>4. UnitsOwned'
    BY <1>1, <1>3 DEF AliveInv, UnitsOwned, Live
  <1>5. Calling'
    BY DEF AliveInv, Calling
  <1>6. Requested'
    BY <1>3 DEF AliveInv, Requested
  <1>7. Erasing' /\ Granted' /\ Channels'
    BY <1>1, <1>3 DEF AliveInv, Erasing, Granted, Channels
  <1> QED
    BY <1>2, <1>4, <1>5, <1>6, <1>7 DEF AliveInv

(* A call of a sys RPC: a setup's, an exit's or the destructor's.          *)
LEMMA CallStep ==
    ASSUME NodeTypeOK, NodeTypeOK', AliveInv, alive, alive', call.st = "none",
           NEW fun \in {"register_unit", "release_unit"}, NEW id \in Ids \cup {NoId},
           CallSys(fun, id),
           UNCHANGED <<work_id_number_counter, key_sql, unit, rpc, channel, output_url_, sub>>,
           \/ /\ fun = "register_unit" /\ id = NoId
              /\ ev'.pc = "registering" /\ main' = main /\ task' = task
           \/ /\ fun = "release_unit" /\ id \in channel
              /\ ev'.pc = "releasing" /\ ev'.e.id = id /\ main' = main
              /\ task' = task \ {id} /\ sub[id] = "none"
           \/ /\ fun = "release_unit" /\ id \in channel
              /\ ev' = ev /\ ev.pc = "ended" /\ main' = "releasing" /\ task' = task,
           ev.pc = "ended" => ev' = ev
    PROVE  AliveInv'
  <1>1. /\ call' = [st |-> "sent", id |-> id]
        /\ Len(sysq) \in Nat /\ Len(sysq') = Len(sysq) + 1
        /\ DOMAIN sysq = 1..Len(sysq) /\ DOMAIN sysq' = 1..(Len(sysq) + 1)
        /\ \A i \in 1..Len(sysq) : sysq'[i] = sysq[i]
        /\ sysq'[Len(sysq) + 1] = [fun |-> fun, id |-> id, waiting |-> TRUE]
        /\ Releasing' = Releasing \cup (IF fun = "release_unit" THEN {id} ELSE {})
        /\ sysq # <<>> => sysq'[1] = sysq[1]
        /\ sysq' # <<>>
    BY SysqAppend DEF NodeTypeOK
  <1>2. /\ ev.pc \notin {"registering", "releasing"} /\ main # "releasing"
        /\ main = "ended" => ev.pc = "ended"
    BY DEF AliveInv, Calling
  <1>3. id \in channel => id \in Ids /\ id # NoId
    BY NodeNumbers DEF NodeTypeOK
  <1>4. SubscribersBacked'
    BY DEF AliveInv, SubscribersBacked
  <1>5. UnitsOwned'
    BY <1>1, <1>2 DEF AliveInv, UnitsOwned, Live
  <1>6. Calling'
    BY <1>1, <1>2, <1>3 DEF AliveInv, Calling
  <1>7. Requested'
    <2>1. ASSUME NEW i \in 1..Len(sysq)
          PROVE  /\ sysq[i].fun = "release_unit" /\ ~sysq[i].waiting
                 /\ sysq[i].id < work_id_number_counter /\ sysq[i].id \notin channel
      <3>1. sysq[i] \in SysCalls
        BY <1>1, ElementOfSeq DEF NodeTypeOK
      <3> QED
        BY <1>1, <1>2, <3>1 DEF AliveInv, Requested, SysCalls
    <2>2. id \in channel => id < work_id_number_counter
      BY DEF AliveInv, Channels
    <2> SUFFICES ASSUME NEW i \in DOMAIN sysq'
                 PROVE  LET st == IF sysq'[i].waiting THEN "sent" ELSE "timeout"
                        IN  /\ i < Len(sysq') => sysq'[i].fun = "release_unit" /\ ~sysq'[i].waiting
                            /\ sysq'[i].fun = "register_unit" => ev'.pc = "registering" /\ call'.st = st
                            /\ sysq'[i].fun = "release_unit" =>
                                   /\ sysq'[i].id < work_id_number_counter'
                                   /\ sysq'[i].waiting \/ sysq'[i].id \in channel' =>
                                          call'.id = sysq'[i].id /\ call'.st = st
      BY DEF Requested
    <2>3. CASE i \in 1..Len(sysq)
      BY <2>1, <2>3, <1>1
    <2>4. CASE i = Len(sysq) + 1
      BY <2>2, <2>4, <1>1
    <2> QED
      BY <2>3, <2>4, <1>1
  <1>8. Erasing'
    BY <1>1 DEF AliveInv, Erasing
  <1>9. Granted' /\ Channels'
    BY <1>1, <1>2 DEF AliveInv, Granted, Channels
  <1> QED
    BY <1>4, <1>5, <1>6, <1>7, <1>8, <1>9 DEF AliveInv

(* A setup's call has been answered: the task gets its unit.               *)
LEMMA SetupStep ==
    ASSUME NodeTypeOK, NodeTypeOK', AliveInv, alive, alive', SetupTask
    PROVE  AliveInv'
  <1>0. ev' = [ev EXCEPT !.pc = "process"] \/ ev' = [pc |-> "lingering", e |-> ev.e]
    BY DEF SetupTask, Terminate, Lingering
  <1>1. /\ ev.pc = "registering" /\ call.st = "answered"
        /\ channel' = channel \cup {call.id} /\ task' = task \cup {call.id}
        /\ SetPushUrl({call.id}, ev.e.url) /\ Subscribe(call.id)
        /\ ev'.pc \in {"process", "lingering"} /\ call' = NoCall
        /\ UNCHANGED <<main, vars, sysq>>
    BY <1>0 DEF SetupTask, Terminate, Registered, NodeTypeOK
  <1>2. Releasing' = Releasing
    BY <1>1, SameRequests
  <1>3. /\ call.id \in Ids /\ call.id < work_id_number_counter
        /\ call.id \notin channel \cup Releasing
        /\ unit[call.id].alive /\ key_sql[call.id] = "unit"
    BY <1>1 DEF AliveInv, Granted
  <1>4. SubscribersBacked'
    <2>1. ev.e.url # NoUrl
      BY NodeEvents, NodeNumbers DEF NodeTypeOK
    <2> QED
      BY <1>1, <1>3, <2>1 DEF AliveInv, SubscribersBacked, SetPushUrl, Subscribe, NodeTypeOK
  <1>5. UnitsOwned'
    BY <1>1, <1>2, <1>3 DEF AliveInv, UnitsOwned, Live, vars
  <1>6. Calling'
    BY <1>1 DEF AliveInv, Calling, NoCall
  <1>7. Requested'
    <2>1. ASSUME NEW i \in DOMAIN sysq
          PROVE  /\ sysq[i].fun = "release_unit" /\ ~sysq[i].waiting
                 /\ sysq[i].id < work_id_number_counter /\ sysq[i].id \notin channel'
      <3>1. sysq[i] \in SysCalls
        BY ElementOfSeq DEF NodeTypeOK
      <3>2. /\ sysq[i].fun = "release_unit" /\ ~sysq[i].waiting
            /\ sysq[i].id < work_id_number_counter /\ sysq[i].id \notin channel
        BY <1>1, <3>1 DEF AliveInv, Requested, SysCalls
      <3>3. sysq[i].id \in Releasing
        BY <3>2 DEF Releasing
      <3> QED
        BY <1>1, <1>3, <3>2, <3>3
    <2> QED
      BY <1>1, <2>1 DEF Requested, vars
  <1>8. Erasing'
    BY <1>1 DEF AliveInv, Erasing, vars
  <1>9. Granted' /\ Channels'
    BY <1>1, <1>2, <1>3 DEF AliveInv, Granted, Channels, vars
  <1> QED
    BY <1>4, <1>5, <1>6, <1>7, <1>8, <1>9 DEF AliveInv

(* The release of an exit's unit has been answered or has timed out.       *)
LEMMA ReleaseStep ==
    ASSUME NodeTypeOK, NodeTypeOK', AliveInv, alive, alive', ReleaseReturns
    PROVE  AliveInv'
  <1> DEFINE id == ev.e.id
  <1>1. /\ ev.pc = "releasing" /\ call.st \in {"answered", "timeout"}
        /\ channel' = channel \ {id}
        /\ output_url_' = [output_url_ EXCEPT ![id] = NoUrl]
        /\ ev'.pc = "process" /\ call' = NoCall
        /\ UNCHANGED <<main, task, sub, vars, sysq>>
    BY DEF ReleaseReturns, NodeTypeOK
  <1>2. Releasing' = Releasing
    BY <1>1, SameRequests
  <1>3. id \in channel \ task /\ call.id = id /\ id \in Ids
    BY <1>1 DEF AliveInv, Calling, NodeTypeOK
  <1>4. id \in Releasing \/ ~unit[id].alive
    BY <1>1 DEF AliveInv, Channels
  <1> HIDE DEF id
  <1>5. SubscribersBacked'
    BY <1>1, <1>3 DEF AliveInv, SubscribersBacked, NodeTypeOK
  <1>6. UnitsOwned'
    BY <1>1, <1>2, <1>3, <1>4 DEF AliveInv, UnitsOwned, Live, vars
  <1>7. Calling'
    BY <1>1 DEF AliveInv, Calling, NoCall
  <1>8. Requested'
    <2>1. ASSUME NEW i \in DOMAIN sysq
          PROVE  /\ sysq[i].fun = "release_unit" /\ ~sysq[i].waiting
                 /\ sysq[i].id < work_id_number_counter /\ sysq[i].id \notin channel'
      <3>1. sysq[i] \in SysCalls
        BY ElementOfSeq DEF NodeTypeOK
      <3> QED
        BY <1>1, <1>3, <3>1 DEF AliveInv, Requested, SysCalls
    <2> QED
      BY <1>1, <2>1 DEF Requested, vars
  <1>9. Erasing'
    BY <1>1 DEF AliveInv, Erasing, vars
  <1>10. Granted' /\ Channels'
    BY <1>1, <1>2, <1>3 DEF AliveInv, Granted, Channels, vars
  <1> QED
    BY <1>5, <1>6, <1>7, <1>8, <1>9, <1>10 DEF AliveInv

LEMMA TimeoutStep ==
    ASSUME NodeTypeOK, NodeTypeOK', AliveInv, CallTimeout
    PROVE  AliveInv'
  <1>1. /\ DOMAIN sysq' = DOMAIN sysq /\ Len(sysq') = Len(sysq)
        /\ \A i \in DOMAIN sysq : /\ sysq'[i].fun = sysq[i].fun /\ sysq'[i].id = sysq[i].id
                                  /\ ~sysq'[i].waiting
        /\ Releasing' = Releasing
        /\ sysq # <<>> => sysq' # <<>>
    BY SysqTimeout
  <1>2. /\ alive /\ call.st = "sent" /\ call'.st = "timeout" /\ call'.id = call.id
        /\ UNCHANGED <<vars, alive, main, ev, channel, task, output_url_, sub>>
    BY DEF CallTimeout, NodeTypeOK
  <1>3. SubscribersBacked' /\ Calling' /\ Granted' /\ Channels'
    BY <1>1, <1>2 DEF AliveInv, SubscribersBacked, Calling, Granted, Channels, vars
  <1>4. UnitsOwned'
    BY <1>1, <1>2 DEF AliveInv, UnitsOwned, Live, vars
  <1>5. Requested'
    BY <1>1, <1>2 DEF AliveInv, Requested, vars
  <1>6. Erasing'
    <2>1. rpc # Idle => 1 \in DOMAIN sysq
      BY FirstCall DEF AliveInv, Erasing
    <2> QED
      BY <1>1, <1>2, <2>1 DEF AliveInv, Erasing, vars
  <1> QED
    BY <1>3, <1>4, <1>5, <1>6 DEF AliveInv

(* register_unit makes a unit for the setup that waits for it, or for one  *)
(* that has given up.                                                      *)
LEMMA SysRegisterStep ==
    ASSUME NodeTypeOK, NodeTypeOK', AliveInv, alive, SysRegister
    PROVE  AliveInv'
  <1> DEFINE n == work_id_number_counter
  <1>1. /\ sysq # <<>> /\ Head(sysq).fun = "register_unit" /\ sysq' = Tail(sysq)
        /\ call' = IF Head(sysq).waiting THEN [st |-> "answered", id |-> n] ELSE call
        /\ rpc = Idle /\ rpc' = Idle /\ n < MaxUnits /\ work_id_number_counter' = n + 1
        /\ key_sql' = [key_sql EXCEPT ![n] = "unit"]
        /\ UNCHANGED <<alive, main, ev, channel, task, output_url_, sub>>
    BY DEF SysRegister, Answer, AllocateUnit
  <1>2. n \in Ids /\ n \in Nat
    BY <1>1, NumbersTyped DEF NodeTypeOK, TypeOK, Ids
  <1>3. PICK out, inf :
           unit' = [unit EXCEPT ![n] = [output |-> out, inference |-> inf, alive |-> TRUE]]
    BY DEF SysRegister, AllocateUnit
  <1>4. /\ unit'[n].alive /\ key_sql'[n] = "unit"
        /\ \A id \in Ids \ {n} : unit'[id] = unit[id] /\ key_sql'[id] = key_sql[id]
    BY <1>1, <1>2, <1>3 DEF NodeTypeOK, TypeOK
  <1>5. /\ Head(sysq) = sysq[1] /\ Head(sysq) \in SysCalls /\ 1 \in DOMAIN sysq
        /\ Len(sysq) \in Nat \ {0}
    BY <1>1, FirstCall
  <1>6. /\ ev.pc = "registering"
        /\ call.st = (IF Head(sysq).waiting THEN "sent" ELSE "timeout")
        /\ Len(sysq) = 1
    <2>1. /\ 1 < Len(sysq) => sysq[1].fun = "release_unit"
          /\ sysq[1].fun = "register_unit" =>
                 /\ ev.pc = "registering"
                 /\ call.st = (IF sysq[1].waiting THEN "sent" ELSE "timeout")
      BY <1>5 DEF AliveInv, Requested
    <2>2. sysq[1].fun = "register_unit"
      BY <1>1, <1>5
    <2>3. Len(sysq) = 1
      <3>1. ~(1 < Len(sysq))
        BY <2>1, <2>2
      <3>2. \A k \in Nat \ {0} : ~(1 < k) => k = 1
        OBVIOUS
      <3> QED
        BY <1>5, <3>1, <3>2
    <2>4. call.st = (IF Head(sysq).waiting THEN "sent" ELSE "timeout") /\ ev.pc = "registering"
      BY <1>5, <2>1, <2>2
    <2> QED
      BY <2>3, <2>4
  <1>7. sysq' = <<>> /\ Releasing' = {} /\ Releasing = {}
    <2>1. sysq' = <<>> /\ Releasing' = {}
      BY <1>1, <1>6, SysqTail
    <2>2. Releasing = {}
      <3>1. ASSUME NEW i \in DOMAIN sysq PROVE i = 1
        BY <1>1, <1>6, FirstCall
      <3> QED
        BY <1>1, <1>5, <3>1 DEF Releasing
    <2> QED
      BY <2>1, <2>2
  <1>8. \A id \in channel : id \in Ids /\ id # n /\ id < n /\ id < n + 1
    BY <1>2, NodeNumbers DEF AliveInv, Channels, NodeTypeOK
  <1>c. \/ call' = [st |-> "answered", id |-> n] /\ call.st = "sent"
        \/ call'.st = "timeout" /\ call' = call
    <2>1. CASE Head(sysq).waiting
      BY <1>1, <1>6, <2>1
    <2>2. CASE ~Head(sysq).waiting
      BY <1>1, <1>6, <2>2
    <2> QED
      BY <2>1, <2>2
  <1>9. call'.st \in {"answered", "timeout"} /\ (call'.st = "answered" => call'.id = n)
    BY <1>c
  <1> HIDE DEF n
  <1>10. SubscribersBacked'
    BY <1>1 DEF AliveInv, SubscribersBacked
  <1>11. UnitsOwned'
    <2>1. ASSUME NEW id \in Ids, unit'[id].alive, call'.st # "timeout"
          PROVE  id \in channel' \/ call' = [st |-> "answered", id |-> id]
      <3>1. CASE id = n
        BY <3>1, <1>c, <2>1
      <3>2. CASE id # n
        <4>1. unit[id].alive
          BY <1>4, <2>1, <3>2
        <4>2. call.st # "timeout" /\ call.st # "answered"
          BY <1>c, <1>6, <2>1
        <4> QED
          BY <1>1, <1>7, <4>1, <4>2 DEF AliveInv, UnitsOwned, Live
      <3> QED
        BY <3>1, <3>2
    <2>2. ASSUME NEW id \in channel PROVE unit'[id].alive /\ key_sql'[id] = "unit"
      <3>1. call.st \notin {"answered", "timeout"} \/ call.id # id
        BY <1>6, NodeNumbers, <1>8 DEF AliveInv, Calling
      <3>2. unit[id].alive /\ key_sql[id] = "unit"
        BY <1>7, <3>1 DEF AliveInv, UnitsOwned
      <3> QED
        BY <3>2, <1>4, <1>8
    <2> QED
      BY <1>1, <1>6, <2>1, <2>2 DEF UnitsOwned, Live
  <1>12. Calling'
    BY <1>1, <1>6, <1>c DEF AliveInv, Calling
  <1>13. Requested' /\ Erasing'
    BY <1>1, <1>7 DEF Requested, Erasing
  <1>14. Granted'
    BY <1>1, <1>2, <1>4, <1>7, <1>8, <1>9 DEF Granted, n
  <1>15. Channels'
    BY <1>1, <1>6, <1>8 DEF AliveInv, Channels, n
  <1> QED
    BY <1>10, <1>11, <1>12, <1>13, <1>14, <1>15 DEF AliveInv

(* release_unit deletes a unit whose release was asked for.                *)
LEMMA SysReleaseStep ==
    ASSUME NodeTypeOK, NodeTypeOK', AliveInv, alive, SysRelease
    PROVE  AliveInv'
  <1>1. PICK id \in Ids : id = Head(sysq).id
    BY FirstCall DEF SysRelease
  <1>2. /\ sysq # <<>> /\ Head(sysq).fun = "release_unit" /\ rpc' = id
        /\ unit' = [unit EXCEPT ![id].alive = FALSE]
        /\ UNCHANGED <<work_id_number_counter, key_sql, alive, main, ev, channel, task,
                       output_url_, sub, call, sysq>>
    BY <1>1 DEF SysRelease, ReleaseUnit, nodeVars
  <1>3. /\ ~unit'[id].alive
        /\ \A jd \in Ids \ {id} : unit'[jd] = unit[jd]
    BY <1>2 DEF NodeTypeOK, TypeOK
  <1>4. Releasing' = Releasing
    BY <1>2, SameRequests
  <1>5. Head(sysq) = sysq[1] /\ 1 \in DOMAIN sysq
    BY <1>2, FirstCall
  <1>6. id \in Releasing
    BY <1>1, <1>2, <1>5 DEF Releasing
  <1>7. SubscribersBacked' /\ Calling'
    BY <1>2 DEF AliveInv, SubscribersBacked, Calling
  <1>8. UnitsOwned'
    <2>1. channel \subseteq Ids
      BY DEF NodeTypeOK
    <2> QED
      BY <1>2, <1>3, <1>4, <1>6, <2>1 DEF AliveInv, UnitsOwned, Live
  <1>9. Requested'
    BY <1>2 DEF AliveInv, Requested
  <1>10. Erasing'
    BY <1>1, <1>2, <1>3, <1>5 DEF Erasing
  <1>11. Granted'
    BY <1>2, <1>3, <1>4, <1>6 DEF AliveInv, Granted
  <1>12. Channels'
    <2>1. ev.pc = "releasing" => ev.e.id \in Ids
      BY DEF AliveInv, Calling, NodeTypeOK
    <2> QED
      BY <1>2, <1>3, <1>4, <2>1 DEF AliveInv, Channels
  <1> QED
    BY <1>7, <1>8, <1>9, <1>10, <1>11, <1>12 DEF AliveInv

(* The unit is out of the table; the caller, if it still waits, is told.   *)
LEMMA SysEraseStep ==
    ASSUME NodeTypeOK, NodeTypeOK', AliveInv, alive, SysErase
    PROVE  AliveInv'
  <1>1. PICK id \in Ids : id = rpc
    BY DEF SysErase, EraseUnit, NodeTypeOK, TypeOK
  <1>2. /\ rpc # Idle /\ rpc' = Idle /\ sysq' = Tail(sysq)
        /\ call' = IF Head(sysq).waiting THEN [st |-> "answered", id |-> id] ELSE call
        /\ key_sql' = [key_sql EXCEPT ![id] = "none"]
        /\ UNCHANGED <<work_id_number_counter, unit, alive, main, ev, channel, task,
                       output_url_, sub>>
    BY <1>1 DEF SysErase, Answer, EraseUnit
  <1>3. /\ sysq # <<>> /\ sysq[1].fun = "release_unit" /\ sysq[1].id = id /\ ~unit[id].alive
    BY <1>1, <1>2 DEF AliveInv, Erasing
  <1>4. /\ Head(sysq) = sysq[1] /\ sysq[1] \in SysCalls /\ 1 \in DOMAIN sysq
        /\ Len(sysq) \in Nat \ {0} /\ DOMAIN sysq = 1..Len(sysq)
    BY <1>3, FirstCall
  <1>5. \A jd \in Ids \ {id} : key_sql'[jd] = key_sql[jd]
    BY <1>2 DEF NodeTypeOK, TypeOK
  <1>6. /\ \A i \in DOMAIN sysq' : i + 1 \in DOMAIN sysq /\ i + 1 > 1 /\ sysq'[i] = sysq[i + 1]
        /\ \A jd \in Releasing : jd \in Releasing' \/ jd = id
        /\ Releasing' \subseteq Releasing
        /\ Len(sysq') = Len(sysq) - 1
        /\ Len(sysq) = 1 => sysq' = <<>>
    BY <1>2, <1>3, SysqTail
  <1>7. /\ sysq[1].waiting \/ id \in channel =>
              call.id = id /\ call.st = (IF sysq[1].waiting THEN "sent" ELSE "timeout")
        /\ sysq[1].waiting => Len(sysq) = 1
        /\ id < work_id_number_counter
    BY <1>3, <1>4 DEF AliveInv, Requested
  <1>8. id \in Releasing
    BY <1>3, <1>4 DEF Releasing
  <1>9. /\ sysq[1].waiting => call.st = "sent" /\ call.id = id /\ ev.pc # "registering"
        /\ sysq[1].waiting \/ call' = call
        /\ sysq[1].waiting => call' = [st |-> "answered", id |-> id]
    BY <1>2, <1>4, <1>7, NodeNumbers DEF AliveInv, Calling
  <1>10. id \in channel => call'.id = id /\ call'.st \in {"answered", "timeout"}
    BY <1>7, <1>9, <1>4 DEF SysCalls
  <1>11. SubscribersBacked'
    BY <1>2 DEF AliveInv, SubscribersBacked
  <1>12. UnitsOwned'
    <2>1. ASSUME NEW jd \in Ids, unit'[jd].alive
          PROVE  \/ jd \in channel' \cup Releasing'
                 \/ ev'.pc = "registering" /\ call' = [st |-> "answered", id |-> jd]
                 \/ ev'.pc = "registering" /\ call'.st = "timeout"
      <3>1. jd # id /\ unit[jd].alive
        BY <1>2, <1>3, <2>1
      <3> QED
        BY <1>2, <1>6, <1>9, <3>1 DEF AliveInv, UnitsOwned, Live
    <2>2. ASSUME NEW jd \in channel
          PROVE  \/ unit'[jd].alive /\ key_sql'[jd] = "unit"
                 \/ jd \in Releasing'
                 \/ jd = call'.id /\ call'.st \in {"answered", "timeout"}
      <3>1. CASE jd = id
        BY <3>1, <1>10
      <3>2. CASE jd # id
        BY <3>2, <1>2, <1>5, <1>6, <1>9 DEF AliveInv, UnitsOwned, NodeTypeOK
      <3> QED
        BY <3>1, <3>2
    <2> QED
      BY <1>2, <2>1, <2>2 DEF UnitsOwned, Live
  <1>13. Calling'
    <2>1. CASE sysq[1].waiting
      BY <1>2, <1>9, <2>1 DEF AliveInv, Calling
    <2>2. CASE ~sysq[1].waiting
      BY <1>2, <1>9, <2>2 DEF AliveInv, Calling
    <2> QED
      BY <2>1, <2>2
  <1>14. Requested'
    <2>1. CASE Len(sysq) = 1
      BY <1>6, <2>1 DEF Requested
    <2>2. CASE Len(sysq) # 1
      <3>1. call' = call
        BY <1>7, <1>9, <2>2
      <3> QED
        BY <1>2, <1>6, <3>1, <1>4 DEF AliveInv, Requested
    <2> QED
      BY <2>1, <2>2
  <1>15. Erasing'
    BY <1>2 DEF Erasing
  <1>16. Granted'
    BY <1>2, <1>5, <1>6, <1>8, <1>9 DEF AliveInv, Granted
  <1>17. Channels'
    BY <1>2, <1>3, <1>6 DEF AliveInv, Channels
  <1> QED
    BY <1>11, <1>12, <1>13, <1>14, <1>15, <1>16, <1>17 DEF AliveInv

LEMMA NodeInvAlive == NodeInv <=> NodeTypeOK /\ (alive => AliveInv)
  BY DEF NodeInv, AliveInv, SubscribersBacked, UnitsOwned

LEMMA NodeInvStep == NodeInv /\ [NodeNext]_allVars => NodeInv'
  <1> SUFFICES ASSUME NodeTypeOK, NodeTypeOK', alive => AliveInv, [NodeNext]_allVars, alive'
               PROVE  AliveInv'
    BY NodeInvAlive, NodeTyped DEF NodeInv, AliveInv, SubscribersBacked, UnitsOwned
  <1>a. alive
    BY DEF NodeNext, allVars, nodeVars, Client, RemoteCall, Inference, SessionLeaves,
           UnitActionMatch, UnitCallFalse, CreatReq, Deliver, RpcEnqueue, GivesUp,
           InferencePublish, SysStep, SysRegister, SysRelease, SysErase, CallTimeout,
           SubscriberReceive, SubscriberDone, EventLoopThread, EvenLoop, WaitReturns, ProcessEnd,
           Ignore, Setup, SetupTask, Exit, ExitTask, ExitLingers, ReleaseReturns, Taskinfo, Pause,
           Dispatch, MainThread, StartEvenLoop, StatusStored, DtorStopTask, DtorLingers,
           DtorEraseTask, DtorStopsLoop, DtorJoins, DtorSecondJoin, Sigterm
  <1>b. AliveInv /\ SubscribersBacked
    BY <1>a DEF AliveInv
  <1>c. \A id \in Ids : sub[id] # "none" => id \in channel /\ id \in task /\ output_url_[id] # NoUrl
    BY <1>a, <1>b DEF SubscribersBacked
  <1>n. ~Terminate
    BY DEF Terminate
  <1>u. \A e \in AnyEvent : e.url # NoUrl
    BY NodeEvents, NodeNumbers
  <1> USE <1>a, <1>b
  <1>2. CASE SysStep
    BY <1>2, SysRegisterStep, SysReleaseStep, SysEraseStep DEF SysStep
  <1>3. CASE CallTimeout
    BY <1>3, TimeoutStep
  <1>4. CASE Client \/ UnitActionMatch
             \/ \E url \in Urls, ok \in BOOLEAN : InferencePublish(url, ok)
    <2>1. UNCHANGED <<work_id_number_counter, key_sql, unit, rpc, channel, task, call, sysq, ev,
                      main, sub, output_url_>>
      BY <1>4 DEF Client, RemoteCall, Inference, SessionLeaves, UnitActionMatch, UnitCallFalse,
            CreatReq, Deliver, RpcEnqueue, GivesUp, InferencePublish, PushRead, PushSend, nodeVars,
            vars
    <2> QED
      BY <2>1, <1>c, QuietStep
  <1>5. ASSUME NEW id \in Ids, SubscriberReceive(id) PROVE AliveInv'
    <2>1. /\ UNCHANGED <<work_id_number_counter, key_sql, unit, rpc, channel, task, call, sysq,
                         ev, main>>
          /\ \/ sub' = [sub EXCEPT ![id] = "calling"]
             \/ sub' = [sub EXCEPT ![id] = "lingering"]
          /\ sub[id] # "none"
          /\ SetPushUrl({id}, inbox[id].url) /\ inbox[id] # Empty
      BY <1>5 DEF SubscriberReceive, vars
    <2>2. inbox[id].url # NoUrl
      BY <2>1, NodeNumbers DEF NodeTypeOK
    <2>3. \A jd \in Ids : sub'[jd] # "none" =>
              jd \in channel /\ jd \in task' /\ output_url_'[jd] # NoUrl
      BY <1>c, <2>1, <2>2 DEF SetPushUrl, NodeTypeOK
    <2> QED
      BY <2>1, <2>3, QuietStep
  <1>6. ASSUME NEW id \in Ids, SubscriberDone(id) PROVE AliveInv'
    <2>1. /\ UNCHANGED <<work_id_number_counter, key_sql, unit, rpc, channel, task, call, sysq,
                         ev, main, output_url_>>
          /\ sub' = [sub EXCEPT ![id] = IF @ = "ending" THEN "none" ELSE "waiting"]
          /\ sub[id] # "none"
      BY <1>6, <1>n DEF SubscriberDone, vars, InCall
    <2>2. \A jd \in Ids : sub'[jd] # "none" => sub[jd] # "none"
      BY <2>1 DEF NodeTypeOK
    <2> QED
      BY <1>c, <2>1, <2>2, QuietStep
  <1>7. CASE EventLoopThread
    <2>1. CASE EvenLoop \/ WaitReturns \/ ProcessEnd \/ Ignore
      <3>1. /\ UNCHANGED <<work_id_number_counter, key_sql, unit, rpc, channel, task, call, sysq,
                           main, sub, output_url_>>
            /\ \/ UNCHANGED ev
               \/ /\ ev.pc \in {"loop", "wait", "process"}
                  /\ ev'.pc \in {"ended", "wait", "process", "loop"}
        BY <2>1 DEF EvenLoop, WaitReturns, ProcessEnd, Ignore, vars, NodeTypeOK
      <3>2. main \in {"releasing", "ended"} => ev.pc = "ended"
        BY DEF AliveInv, Calling
      <3> QED
        BY <1>c, <3>1, <3>2, QuietStep
    <2>2. CASE Setup
      <3>1. /\ ev.pc = "process" /\ ev'.pc = "registering" /\ CallSys("register_unit", NoId)
            /\ UNCHANGED <<work_id_number_counter, key_sql, unit, rpc, channel, output_url_, sub,
                           main, task>>
        BY <2>2 DEF Setup, Dispatch, vars
      <3>2. call.st = "none"
        BY <3>1 DEF AliveInv, Calling
      <3> QED
        BY <3>1, <3>2, CallStep
    <2>3. CASE SetupTask
      BY <2>3, SetupStep
    <2>4. CASE Exit
      <3>1. PICK e \in AnyEvent : e = Head(batch)
        BY <2>4, EventSeqs DEF Exit, Dispatch
      <3>2. /\ ev.pc = "process" /\ ev'.pc \in {"exiting", "lingering"} /\ ev'.e = e
            /\ e.id \in task /\ SetPushUrl(GetChannel(e.id), e.url)
            /\ StopSubscriber(e.id) \/ UNCHANGED sub
            /\ UNCHANGED <<work_id_number_counter, key_sql, unit, rpc, channel, task, call, sysq,
                           main>>
        BY <2>4, <3>1, <1>n DEF Exit, Dispatch, Lingering, vars
      <3>3. e.id \in channel /\ main \notin {"releasing", "ended"}
        BY <3>2 DEF AliveInv, Channels, Calling
      <3>4. \A jd \in Ids : sub'[jd] # "none" =>
                jd \in channel /\ jd \in task' /\ output_url_'[jd] # NoUrl
        BY <1>c, <1>u, <3>2 DEF SetPushUrl, StopSubscriber, InCall, NodeTypeOK
      <3> QED
        BY <3>2, <3>3, <3>4, QuietStep
    <2>5. CASE ExitTask
      <3>1. PICK id \in Ids : id = ev.e.id
        BY <2>5 DEF ExitTask, NodeTypeOK
      <3>2. /\ ev.pc = "exiting" /\ ev'.pc = "releasing" /\ ev'.e.id = id
            /\ CallSys("release_unit", id) /\ sub[id] = "none"
            /\ task' = task \ {id}
            /\ UNCHANGED <<work_id_number_counter, key_sql, unit, rpc, channel, output_url_, sub,
                           main>>
        BY <2>5, <3>1 DEF ExitTask, Cleared, Joined, vars, NodeTypeOK
      <3>3. call.st = "none" /\ id \in channel
        <4>1. main # "releasing"
          BY <3>2 DEF AliveInv, Calling
        <4> QED
          BY <3>1, <3>2, <4>1 DEF AliveInv, Calling
      <3> QED
        BY <3>2, <3>3, CallStep
    <2>6. CASE ReleaseReturns
      BY <2>6, ReleaseStep
    <2>7. CASE Taskinfo
      <3>1. PICK e \in AnyEvent : e = Head(batch)
        BY <2>7, EventSeqs DEF Taskinfo, Dispatch
      <3>6. ev' = ev \/ ev' = [pc |-> "lingering", e |-> e]
        BY <2>7, <3>1, <1>n DEF Taskinfo, Lingering
      <3>2. /\ SetPushUrl(GetChannel(e.id), e.url)
            /\ UNCHANGED <<work_id_number_counter, key_sql, unit, rpc, channel, task, call, sysq,
                           main, sub>>
        BY <2>7, <3>1, <1>n DEF Taskinfo, vars
      <3>7. UNCHANGED ev \/ (ev.pc = "process" /\ ev'.pc = "lingering")
        BY <2>7, <3>6 DEF Taskinfo, Dispatch
      <3>3. \A jd \in Ids : sub'[jd] # "none" =>
                jd \in channel /\ jd \in task' /\ output_url_'[jd] # NoUrl
        BY <1>c, <1>u, <3>2 DEF SetPushUrl, NodeTypeOK
      <3>4. main \in {"releasing", "ended"} => ev.pc = "ended"
        BY DEF AliveInv, Calling
      <3>5. main \in {"releasing", "ended"} => UNCHANGED <<main, ev>>
        BY <3>2, <3>4, <3>7
      <3> QED
        BY <3>2, <3>3, <3>5, <3>7, QuietStep
    <2>9. CASE ExitLingers
      <3>1. /\ ev.pc = "exiting" /\ ev'.pc = "lingering"
            /\ task' \subseteq task /\ (task' = task \/ (task' = task \ {ev.e.id} /\ sub[ev.e.id] = "none"))
            /\ UNCHANGED <<work_id_number_counter, key_sql, unit, rpc, channel, call, sysq, main,
                           sub, output_url_>>
        BY <2>9 DEF ExitLingers, Joined, Lingering, vars
      <3>2. main \notin {"releasing", "ended"}
        BY <3>1 DEF AliveInv, Calling
      <3>3. \A jd \in Ids : sub'[jd] # "none" =>
                jd \in channel /\ jd \in task' /\ output_url_'[jd] # NoUrl
        BY <1>c, <3>1
      <3> QED
        BY <3>1, <3>2, <3>3, QuietStep
    <2>8. CASE Pause
      BY <2>8, <1>n DEF Pause
    <2> QED
      BY <1>7, <2>1, <2>2, <2>3, <2>4, <2>5, <2>6, <2>7, <2>8, <2>9 DEF EventLoopThread
  <1>8. CASE MainThread \/ Sigterm
    <2>1. CASE StartEvenLoop \/ StatusStored \/ Sigterm \/ DtorStopsLoop
      <3>1. /\ UNCHANGED <<work_id_number_counter, key_sql, unit, rpc, channel, task, call, sysq,
                           sub, output_url_>>
            /\ main \notin {"releasing", "ended"} /\ main' \notin {"releasing", "ended"}
            /\ UNCHANGED ev \/ (main = "constructing" /\ ev' = [ev EXCEPT !.pc = "loop"])
        BY <2>1 DEF StartEvenLoop, StatusStored, Sigterm, DtorStopsLoop, vars
      <3>2. main = "constructing" => ev.pc = "unborn"
        BY DEF NodeTypeOK
      <3>3. \/ UNCHANGED ev
            \/ /\ ev.pc \notin {"registering", "exiting", "releasing"}
               /\ ev'.pc \notin {"registering", "exiting", "releasing"}
        BY <3>1, <3>2 DEF NodeTypeOK
      <3> QED
        BY <1>c, <3>1, <3>3, QuietStep
    <2>2. ASSUME NEW id \in Ids, DtorStopTask(id) PROVE AliveInv'
      <3>1. /\ UNCHANGED <<work_id_number_counter, key_sql, unit, rpc, channel, task, call, sysq,
                           main, ev, output_url_>>
            /\ StopSubscriber(id) /\ sub[id] # "none"
        BY <2>2, <1>n DEF DtorStopTask, vars
      <3>2. \A jd \in Ids : sub'[jd] # "none" => sub[jd] # "none"
        BY <3>1 DEF StopSubscriber, NodeTypeOK
      <3> QED
        BY <1>c, <3>1, <3>2, QuietStep
    <2>3. ASSUME NEW id \in Ids, DtorEraseTask(id) PROVE AliveInv'
      <3>1. /\ UNCHANGED <<work_id_number_counter, key_sql, unit, rpc, channel, call, sysq,
                           main, ev, output_url_, sub>>
            /\ task' = task \ {id} /\ sub[id] = "none"
        BY <2>3, <1>n DEF DtorEraseTask, Cleared, Joined, vars
      <3> QED
        BY <1>c, <3>1, QuietStep
    <2>6. ASSUME NEW id \in Ids, DtorLingers(id) PROVE AliveInv'
      <3>1. /\ UNCHANGED <<work_id_number_counter, key_sql, unit, rpc, channel, task, call, sysq,
                           ev, output_url_, sub>>
            /\ main = "dtorTasks" /\ main' = "lingering"
        BY <2>6 DEF DtorLingers, vars
      <3> QED
        BY <1>c, <3>1, QuietStep
    <2>4. CASE DtorJoins
      <3>1. /\ main = "joining" /\ ev.pc = "ended"
            /\ UNCHANGED <<work_id_number_counter, key_sql, unit, rpc, channel, task,
                           ev, output_url_, sub>>
        BY <2>4 DEF DtorJoins, vars
      <3>2. CASE main' = "ended" /\ UNCHANGED <<call, sysq>>
        BY <1>c, <3>1, <3>2, QuietStep
      <3>3. ASSUME NEW id \in channel, main' = "releasing", CallSys("release_unit", id)
            PROVE  AliveInv'
        <4>1. call.st = "none" /\ id \in Ids
          BY <3>1 DEF AliveInv, Calling, NodeTypeOK
        <4> QED
          BY <3>1, <3>3, <4>1, CallStep
      <3> QED
        BY <2>4, <3>2, <3>3 DEF DtorJoins
    <2>5. CASE DtorSecondJoin
      BY <2>5, <1>n DEF DtorSecondJoin
    <2> QED
      BY <1>8, <2>1, <2>2, <2>3, <2>4, <2>5, <2>6 DEF MainThread
  <1>9. CASE UNCHANGED allVars
    <2>1. UNCHANGED <<work_id_number_counter, key_sql, unit, rpc, channel, task, call, sysq, ev,
                      main, sub, output_url_>>
      BY <1>9 DEF allVars, vars, nodeVars
    <2> QED
      BY <1>c, <2>1, QuietStep
  <1> QED
    BY <1>2, <1>3, <1>4, <1>5, <1>6, <1>7, <1>8, <1>9 DEF NodeNext

LEMMA NodeInvInit == NodeInit => NodeInv
  <1> SUFFICES ASSUME NodeInit PROVE NodeInv
    OBVIOUS
  <1> USE NodeNumbers, NodeEvents DEF NodeInit
  <1>1. NodeTypeOK
    <2>1. TypeOK
      BY RegistryInit
    <2>2. <<>> \in Seq(AnyEvent) /\ <<>> \in Seq(SysCalls) /\ DOMAIN <<>> = {}
      BY EmptySeq
    <2> QED
      BY <2>1, <2>2 DEF NodeTypeOK, NoCall, Init, Empty
  <1>2. SubscribersBacked /\ UnitsOwned
    BY NumbersTyped DEF SubscribersBacked, UnitsOwned, Live, Init, NoUnit
  <1>3. Calling /\ Requested /\ Erasing /\ Granted /\ Channels
    BY DEF Calling, Requested, Erasing, Granted, Channels, Init, NoCall
  <1> QED
    BY <1>1, <1>2, <1>3 DEF NodeInv

(* As long as a subscriber thread exists, its channel and its task do      *)
(* (channel.cpp, subscriber_event_call; node/test/src/main.cpp,            *)
(* task_user_data): ~llm_channel_obj joins the thread before either goes.  *)
THEOREM NodeSubscribers == NodeSpec => []SubscribersBacked
  <1>1. NodeInv => SubscribersBacked
    BY DEF NodeInv
  <1> QED
    BY <1>1, NodeInvInit, NodeInvStep, PTL DEF NodeSpec

(* The node and the unit manager agree on the units there are, through     *)
(* every timeout of register_unit and release_unit and in every            *)
(* interleaving of the node's threads, its destructors and the sys RPC     *)
(* thread.                                                                 *)
THEOREM NodeOwnsUnits == NodeSpec => []UnitsOwned
  <1>1. NodeInv => UnitsOwned
    BY DEF NodeInv
  <1> QED
    BY <1>1, NodeInvInit, NodeInvStep, PTL DEF NodeSpec

(* What the node and its clients do to the registry is what UnitManager    *)
(* allows: the registry's guarantees hold with the node in front of it.    *)
THEOREM NodeUsesRegistry == NodeSpec => Spec /\ []TableAlive
  <1>1. NodeInit => Init
    BY DEF NodeInit
  <1>2. NodeInv => NodeTypeOK
    BY DEF NodeInv
  <1>3. NodeSpec => Spec
    BY <1>1, <1>2, NodeInvInit, NodeInvStep, NodeStepsRegistry, PTL DEF NodeSpec, Spec
  <1> QED
    BY <1>3, UnitManagerTable, PTL
-----------------------------------------------------------------------------
(* The requests on their way to the node, in the order it will meet them.  *)
Line == batch \o queue \o <<match>>
Setups(s) == {i \in DOMAIN s : s[i].kind = "setup"}
ForTask(e) == e.kind = "exit" \/ (e.kind = "taskinfo" /\ e.id # NoId)

(* Every request is one the node serves, about a task that will be there:  *)
(* no exit of it comes earlier.                                            *)
GoodLine ==
    /\ \A i \in DOMAIN Line :
           /\ Line[i].kind # "none" => Line[i].kind # "pause" /\ Line[i].url = 1 /\ Line[i].ok
           /\ ForTask(Line[i]) => /\ Line[i].id \in task
                                  /\ ev.pc = "exiting" => Line[i].id # ev.e.id
    /\ \A i, j \in DOMAIN Line :
           i < j /\ Line[i].kind = "exit" /\ ForTask(Line[j]) => Line[i].id # Line[j].id

(* The units clients know are tasks that nobody has asked to end.          *)
GoodKnown ==
    /\ known \subseteq task
    /\ \A i \in DOMAIN Line : Line[i].kind = "exit" => Line[i].id \notin known
    /\ ev.pc = "exiting" => ev.e.id \in task \ known

(* The node has room: tasks, and setups on their way, were all booked.     *)
GoodCount ==
    /\ Cardinality(task) + Cardinality(Setups(Line)) + (IF ev.pc = "registering" THEN 1 ELSE 0)
           <= booked
    /\ booked <= TaskCount

GoodNode ==
    /\ alive /\ left = {} /\ undelivered = {}
    /\ main \in {"constructing", "started", "running"}
    /\ ev.pc \in {"registering", "exiting", "releasing"} => main = "running"
    /\ ev.pc \in {"unborn", "loop", "wait", "ended"} => batch = <<>>
    /\ channel = IF ev.pc = "releasing" THEN task \cup {ev.e.id} ELSE task
    /\ ev.pc = "registering" => ev.e.url = 1 /\ ev.e.ok
    /\ call.st # "timeout"
    /\ \A id \in Ids : inbox[id].ok /\ inbox[id].url \in {1, NoUrl}
    /\ \A id \in channel : output_url_[id] = 1

GoodInv == GoodNode /\ GoodLine /\ GoodKnown /\ GoodCount

SurvivalInv == NodeInv /\ (faultless => GoodInv)

(* How the line changes: its first request is taken, a request arrives at  *)
(* its end, its end moves on.                                              *)
LEMMA LineShape ==
    ASSUME NodeTypeOK
    PROVE  /\ Line \in Seq(AnyEvent) /\ Len(Line) \in Nat \ {0} /\ DOMAIN Line = 1..Len(Line)
           /\ Len(Line) \in DOMAIN Line /\ Line[Len(Line)] = match
           /\ batch # <<>> => Line[1] = Head(batch) /\ 1 \in DOMAIN Line
           /\ IsFiniteSet(Setups(Line)) /\ Cardinality(Setups(Line)) \in Nat
  <1> DEFINE base == batch \o queue
  <1>1. batch \in Seq(AnyEvent) /\ queue \in Seq(AnyEvent) /\ <<match>> \in Seq(AnyEvent)
    BY DEF NodeTypeOK
  <1>2. /\ base \in Seq(AnyEvent) /\ Len(base) = Len(batch) + Len(queue)
        /\ \A i \in 1..Len(batch) : base[i] = batch[i]
    BY <1>1, ConcatProperties, LenProperties
  <1>3. Len(batch) \in Nat /\ Len(queue) \in Nat /\ Len(base) \in Nat /\ Len(<<match>>) = 1
    BY <1>1, <1>2, LenProperties
  <1>4. /\ Line \in Seq(AnyEvent) /\ Len(Line) = Len(base) + 1
        /\ \A i \in 1..Len(base) : Line[i] = base[i]
        /\ Line[Len(base) + 1] = match
    <2> HIDE DEF base
    <2>1. Line = Append(base, match)
      <3>1. base \o <<match>> = Append(base, match)
        BY <1>1, <1>2, AppendIsConcat DEF NodeTypeOK
      <3> QED
        BY <3>1 DEF Line, base
    <2> QED
      BY <1>2, <1>3, <2>1, AppendProperties DEF NodeTypeOK
  <1>5. DOMAIN Line = 1..Len(Line)
    BY <1>4, LenProperties
  <1>6. batch # <<>> => Line[1] = Head(batch) /\ 1 \in DOMAIN Line
    <2> HAVE batch # <<>>
    <2>1. Head(batch) = batch[1] /\ Len(batch) # 0
      BY <1>1, HeadTailProperties, EmptySeq
    <2>2. 1 \in 1..Len(batch) /\ 1 \in 1..Len(base)
      BY <1>2, <1>3, <2>1
    <2> HIDE DEF base
    <2> QED
      BY <1>2, <1>3, <1>4, <1>5, <2>1, <2>2
  <1>7. IsFiniteSet(Setups(Line)) /\ Cardinality(Setups(Line)) \in Nat
    <2>1. IsFiniteSet(1..Len(Line))
      BY <1>3, <1>4, FS_Interval
    <2>2. Setups(Line) \subseteq 1..Len(Line)
      BY <1>5 DEF Setups
    <2> QED
      BY <2>1, <2>2, FS_Subset, FS_CardinalityType
  <1> HIDE DEF base
  <1> QED
    BY <1>3, <1>4, <1>5, <1>6, <1>7

(* The setups behind the first request are those of the line without it.   *)
LEMMA SetupsTail ==
    ASSUME NEW s \in Seq(AnyEvent), s # <<>>
    PROVE  Cardinality(Setups(s)) =
               Cardinality(Setups(Tail(s))) + (IF s[1].kind = "setup" THEN 1 ELSE 0)
  <1> DEFINE t == Tail(s)
             rest == Setups(s) \ {1}
             f == [i \in Setups(t) |-> i + 1]
  <1>1. /\ t \in Seq(AnyEvent) /\ Len(s) \in Nat \ {0} /\ Len(t) = Len(s) - 1
        /\ DOMAIN s = 1..Len(s) /\ DOMAIN t = 1..(Len(s) - 1)
        /\ \A i \in 1..Len(t) : t[i] = s[i + 1]
    BY HeadTailProperties, LenProperties, EmptySeq
  <1> HIDE DEF t
  <1>2. f \in [Setups(t) -> rest]
    BY <1>1 DEF Setups
  <1>3. \A a, b \in Setups(t) : f[a] = f[b] => a = b
    BY <1>1 DEF Setups
  <1>4. \A j \in rest : \E i \in Setups(t) : f[i] = j
    <2> SUFFICES ASSUME NEW j \in rest PROVE j - 1 \in Setups(t) /\ f[j - 1] = j
      OBVIOUS
    <2>1. j \in Nat /\ j - 1 \in 1..Len(t) /\ t[j - 1] = s[j]
      BY <1>1 DEF Setups
    <2>2. j - 1 \in Setups(t)
      BY <1>1, <2>1 DEF Setups
    <2> QED
      BY <2>1, <2>2
  <1>5. ExistsBijection(Setups(t), rest)
    <2> HIDE DEF f, rest
    <2>1. f \in Bijection(Setups(t), rest)
      BY <1>2, <1>3, <1>4, Fun_IsBij
    <2> QED
      BY <2>1 DEF ExistsBijection
  <1>6. IsFiniteSet(Setups(t)) /\ IsFiniteSet(Setups(s))
    <2>1. IsFiniteSet(1..(Len(s) - 1)) /\ IsFiniteSet(1..Len(s))
      BY <1>1, FS_Interval
    <2>2. Setups(t) \subseteq 1..(Len(s) - 1) /\ Setups(s) \subseteq 1..Len(s)
      BY <1>1 DEF Setups
    <2> QED
      BY <2>1, <2>2, FS_Subset
  <1>7. Cardinality(rest) = Cardinality(Setups(t))
    BY <1>5, <1>6, FS_Bijection
  <1>8. Cardinality(rest) = IF 1 \in Setups(s) THEN Cardinality(Setups(s)) - 1
                           ELSE Cardinality(Setups(s))
    BY <1>6, FS_RemoveElement
  <1>9. 1 \in Setups(s) <=> s[1].kind = "setup"
    BY <1>1 DEF Setups
  <1>10. Cardinality(Setups(s)) \in Nat /\ Cardinality(Setups(t)) \in Nat
    BY <1>6, FS_CardinalityType
  <1> QED
    BY <1>7, <1>8, <1>9, <1>10 DEF t

LEMMA LineTaken ==
    ASSUME NodeTypeOK, NodeTypeOK', batch # <<>>, batch' = Tail(batch), UNCHANGED <<queue, match>>
    PROVE  /\ \A i \in DOMAIN Line' : i + 1 \in DOMAIN Line /\ 1 < i + 1 /\ Line'[i] = Line[i + 1]
           /\ Cardinality(Setups(Line)) =
                 Cardinality(Setups(Line')) + (IF Head(batch).kind = "setup" THEN 1 ELSE 0)
  <1>1. /\ batch \in Seq(AnyEvent) /\ queue \in Seq(AnyEvent) /\ <<match>> \in Seq(AnyEvent)
        /\ queue \o <<match>> \in Seq(AnyEvent)
    BY ConcatProperties DEF NodeTypeOK
  <1>2. Line = batch \o (queue \o <<match>>) /\ Line' = Tail(batch) \o (queue \o <<match>>)
    <2>1. Tail(batch) \in Seq(AnyEvent)
      BY EventSeqs
    <2> QED
      BY <1>1, <2>1, ConcatAssociative DEF Line
  <1>3. Line' = Tail(Line) /\ Line # <<>>
    BY <1>1, <1>2, ConcatSimplifications
  <1>4. /\ Line \in Seq(AnyEvent) /\ Line[1] = Head(batch)
        /\ Len(Line) \in Nat \ {0} /\ DOMAIN Line = 1..Len(Line)
    BY LineShape
  <1>5. Cardinality(Setups(Line)) =
            Cardinality(Setups(Tail(Line))) + (IF Line[1].kind = "setup" THEN 1 ELSE 0)
    BY <1>3, <1>4, SetupsTail
  <1>6. /\ Tail(Line) \in Seq(AnyEvent) /\ Len(Tail(Line)) = Len(Line) - 1
        /\ \A i \in 1..Len(Tail(Line)) : Tail(Line)[i] = Line[i + 1]
    BY <1>3, <1>4, HeadTailProperties
  <1>7. DOMAIN Tail(Line) = 1..(Len(Line) - 1)
    BY <1>6, LenProperties
  <1>8. \A i \in DOMAIN Tail(Line) : i + 1 \in DOMAIN Line /\ 1 < i + 1
                                    /\ Tail(Line)[i] = Line[i + 1]
    BY <1>4, <1>6, <1>7
  <1> QED
    BY <1>3, <1>4, <1>5, <1>8

LEMMA LineArrives ==
    ASSUME NodeTypeOK, NodeTypeOK', match = NoneEvent, UNCHANGED <<batch, queue>>
    PROVE  /\ DOMAIN Line' = DOMAIN Line
           /\ \A i \in DOMAIN Line : \/ i < Len(Line) /\ Line'[i] = Line[i]
                                     \/ i = Len(Line) /\ Line[i] = NoneEvent /\ Line'[i] = match'
           /\ Len(Line) \in DOMAIN Line
           /\ Cardinality(Setups(Line')) =
                 Cardinality(Setups(Line)) + (IF match'.kind = "setup" THEN 1 ELSE 0)
  <1> DEFINE base == batch \o queue
  <1>1. base \in Seq(AnyEvent) /\ match \in AnyEvent /\ match' \in AnyEvent
    BY ConcatProperties DEF NodeTypeOK
  <1>2. Line = base \o <<match>> /\ Line' = base \o <<match'>>
    BY DEF Line
  <1> HIDE DEF base
  <1>3. Line = Append(base, match) /\ Line' = Append(base, match')
    BY <1>1, <1>2, AppendIsConcat
  <1>4. /\ Len(base) \in Nat /\ Len(Line) = Len(base) + 1 /\ Len(Line') = Len(base) + 1
        /\ \A i \in 1..Len(base) : Line[i] = base[i] /\ Line'[i] = base[i]
        /\ Line[Len(base) + 1] = match /\ Line'[Len(base) + 1] = match'
        /\ Line \in Seq(AnyEvent) /\ Line' \in Seq(AnyEvent)
    BY <1>1, <1>3, AppendProperties, LenProperties
  <1>5. DOMAIN Line = 1..(Len(base) + 1) /\ DOMAIN Line' = 1..(Len(base) + 1)
    BY <1>4, LenProperties
  <1>6. ASSUME NEW i \in DOMAIN Line
        PROVE  \/ i < Len(Line) /\ Line'[i] = Line[i]
               \/ i = Len(Line) /\ Line[i] = NoneEvent /\ Line'[i] = match'
    <2>1. i \in 1..Len(base) \/ i = Len(base) + 1
      BY <1>4, <1>5
    <2>2. CASE i \in 1..Len(base)
      BY <1>4, <2>2
    <2>3. CASE i = Len(base) + 1
      BY <1>4, <2>3
    <2> QED
      BY <2>1, <2>2, <2>3
  <1>7. Len(Line) \in DOMAIN Line
    BY <1>4, <1>5
  <1>8. /\ Setups(Line') = IF match'.kind = "setup" THEN Setups(Line) \cup {Len(Line)}
                           ELSE Setups(Line)
        /\ Len(Line) \notin Setups(Line)
    <2>1. NoneEvent.kind # "setup"
      BY DEF NoneEvent
    <2> QED
      BY <1>4, <1>5, <1>6, <1>7, <2>1 DEF Setups
  <1>9. IsFiniteSet(Setups(Line)) /\ Cardinality(Setups(Line)) \in Nat
    BY LineShape
  <1>10. Cardinality(Setups(Line')) =
             Cardinality(Setups(Line)) + (IF match'.kind = "setup" THEN 1 ELSE 0)
    <2>1. CASE match'.kind = "setup"
      <3>1. Cardinality(Setups(Line) \cup {Len(Line)}) = Cardinality(Setups(Line)) + 1
        BY <1>8, <1>9, FS_AddElement
      <3> QED
        BY <1>8, <2>1, <3>1
    <2>2. CASE match'.kind # "setup"
      BY <1>8, <1>9, <2>2
    <2> QED
      BY <2>1, <2>2
  <1>11. DOMAIN Line' = DOMAIN Line
    BY <1>5
  <1>12. \A i \in DOMAIN Line : \/ i < Len(Line) /\ Line'[i] = Line[i]
                                \/ i = Len(Line) /\ Line[i] = NoneEvent /\ Line'[i] = match'
    BY <1>6, Zenon
  <1> QED
    BY <1>7, <1>10, <1>11, <1>12, Zenon

LEMMA LineMoves ==
    ASSUME NodeTypeOK, NodeTypeOK', queue' = Append(queue, match), match' = NoneEvent,
           UNCHANGED batch
    PROVE  /\ \A i \in DOMAIN Line' : \/ i \in DOMAIN Line /\ Line'[i] = Line[i]
                                      \/ Line'[i] = NoneEvent
           /\ Cardinality(Setups(Line')) = Cardinality(Setups(Line))
  <1>1. /\ batch \in Seq(AnyEvent) /\ queue \in Seq(AnyEvent) /\ <<match>> \in Seq(AnyEvent)
        /\ match \in AnyEvent /\ NoneEvent \in AnyEvent
    BY NodeEvents DEF NodeTypeOK
  <1>2. batch \o Append(queue, match) = Line
    <2>1. Append(queue, match) = queue \o <<match>>
      BY <1>1, AppendIsConcat
    <2> QED
      BY <1>1, <2>1, ConcatAssociative DEF Line
  <1>3. Line \in Seq(AnyEvent) /\ Len(Line) \in Nat /\ DOMAIN Line = 1..Len(Line)
    BY LineShape
  <1>4. Line' = Append(Line, NoneEvent)
    <2>1. Line' = Line \o <<NoneEvent>>
      BY <1>2 DEF Line
    <2> QED
      BY <1>1, <1>3, <2>1, AppendIsConcat
  <1>5. /\ Len(Line') = Len(Line) + 1 /\ Line' \in Seq(AnyEvent)
        /\ \A i \in 1..Len(Line) : Line'[i] = Line[i]
        /\ Line'[Len(Line) + 1] = NoneEvent
    BY <1>1, <1>3, <1>4, AppendProperties
  <1>6. DOMAIN Line' = 1..Len(Line')
    BY <1>5, LenProperties
  <1>7. DOMAIN Line' = DOMAIN Line \cup {Len(Line) + 1}
    BY <1>3, <1>5, <1>6
  <1>8. Setups(Line') = Setups(Line)
    <2>1. NoneEvent.kind # "setup"
      BY DEF NoneEvent
    <2> QED
      BY <1>3, <1>5, <1>7, <2>1 DEF Setups
  <1> QED
    BY <1>3, <1>5, <1>7, <1>8
-----------------------------------------------------------------------------
LEMMA LineNumbers ==
    NodeTypeOK => /\ Cardinality(Setups(Line)) \in Nat /\ DOMAIN Line = 1..Len(Line)
                  /\ Len(Line) \in Nat
  BY LineShape

LEMMA TasksCounted ==
    ASSUME NEW ids \in SUBSET Ids
    PROVE  IsFiniteSet(ids) /\ Cardinality(ids) \in Nat
  <1>1. IsFiniteSet(Ids)
    BY NumbersTyped, FS_Interval DEF Ids
  <1> QED
    BY <1>1, FS_Subset, FS_CardinalityType

LEMMA SameLine == UNCHANGED <<batch, queue, match>> => Line' = Line
  BY DEF Line

(* Steps that neither send, take nor end a request.                        *)
LEMMA GoodQuiet ==
    ASSUME NodeTypeOK, NodeTypeOK', GoodInv, UNCHANGED <<alive, channel, task, known, booked>>,
           Line' = Line,
           ev'.pc = "exiting" => UNCHANGED ev,
           ev'.pc = "registering" <=> ev.pc = "registering",
           ev'.pc = "registering" => UNCHANGED ev,
           GoodNode'
    PROVE  GoodInv'
  BY DEF GoodInv, GoodLine, GoodKnown, GoodCount

(* The first request is taken, and dealt with or remembered in ev.         *)
LEMMA GoodTaken ==
    ASSUME NodeTypeOK, NodeTypeOK', GoodInv, UNCHANGED <<task, known, booked, queue, match>>,
           batch # <<>>, batch' = Tail(batch), ev.pc = "process",
           NEW e \in AnyEvent, e = Head(batch),
           \/ e.kind # "setup" /\ UNCHANGED ev
           \/ e.kind = "setup" /\ ev'.pc = "registering"
           \/ e.kind = "exit" /\ ev'.pc = "exiting" /\ ev'.e = e,
           GoodNode'
    PROVE  GoodInv'
  <1>1. /\ \A i \in DOMAIN Line' : i + 1 \in DOMAIN Line /\ 1 < i + 1 /\ Line'[i] = Line[i + 1]
        /\ Cardinality(Setups(Line)) =
              Cardinality(Setups(Line')) + (IF e.kind = "setup" THEN 1 ELSE 0)
    BY LineTaken
  <1>2. Line[1] = e /\ 1 \in DOMAIN Line /\ DOMAIN Line = 1..Len(Line) /\ Len(Line) \in Nat
    BY LineShape
  <1>3. Cardinality(Setups(Line')) \in Nat /\ DOMAIN Line' = 1..Len(Line') /\ Len(Line') \in Nat
    <2>1. (/\ Cardinality(Setups(Line)) \in Nat /\ DOMAIN Line = 1..Len(Line)
           /\ Len(Line) \in Nat)'
      BY LineNumbers, PTL
    <2> QED
      BY <2>1
  <1>4. GoodLine'
    <2>1. ASSUME NEW i \in DOMAIN Line'
          PROVE  /\ Line'[i].kind # "none" =>
                       Line'[i].kind # "pause" /\ Line'[i].url = 1 /\ Line'[i].ok
                 /\ ForTask(Line'[i]) => /\ Line'[i].id \in task'
                                         /\ ev'.pc = "exiting" => Line'[i].id # ev'.e.id
      <3>1. i + 1 \in DOMAIN Line /\ 1 < i + 1 /\ Line'[i] = Line[i + 1]
        BY <1>1
      <3>2. e.kind = "exit" /\ ForTask(Line[i + 1]) => e.id # Line[i + 1].id
        BY <1>2, <3>1 DEF GoodInv, GoodLine
      <3> QED
        BY <3>1, <3>2 DEF GoodInv, GoodLine
    <2>2. ASSUME NEW i \in DOMAIN Line', NEW j \in DOMAIN Line', i < j,
                 Line'[i].kind = "exit", ForTask(Line'[j])
          PROVE  Line'[i].id # Line'[j].id
      <3>1. /\ i + 1 \in DOMAIN Line /\ Line'[i] = Line[i + 1]
            /\ j + 1 \in DOMAIN Line /\ Line'[j] = Line[j + 1] /\ i + 1 < j + 1
        BY <1>1, <1>3, <2>2
      <3> QED
        BY <2>2, <3>1 DEF GoodInv, GoodLine
    <2> SUFFICES /\ \A i \in DOMAIN Line' :
                       /\ Line'[i].kind # "none" =>
                             Line'[i].kind # "pause" /\ Line'[i].url = 1 /\ Line'[i].ok
                       /\ ForTask(Line'[i]) => /\ Line'[i].id \in task'
                                               /\ ev'.pc = "exiting" => Line'[i].id # ev'.e.id
                 /\ \A i, j \in DOMAIN Line' :
                       i < j /\ Line'[i].kind = "exit" /\ ForTask(Line'[j])
                           => Line'[i].id # Line'[j].id
      BY DEF GoodLine, ForTask
    <2> QED
      BY <2>1, <2>2
  <1>5. GoodKnown'
    <2>1. e.kind = "exit" => e.id \in task \ known
      BY <1>2 DEF GoodInv, GoodLine, GoodKnown, ForTask
    <2>2. \A i \in DOMAIN Line' : Line'[i].kind = "exit" => Line'[i].id \notin known'
      BY <1>1 DEF GoodInv, GoodKnown
    <2>3. known' \subseteq task'
      BY DEF GoodInv, GoodKnown
    <2>4. ev'.pc = "exiting" => ev'.e.id \in task' \ known'
      BY <2>1
    <2> QED
      BY <2>2, <2>3, <2>4 DEF GoodKnown
  <1>6. GoodCount'
    <2>c. Cardinality(task) \in Nat /\ booked \in Int
      BY TasksCounted DEF NodeTypeOK
    <2>1. CASE e.kind = "setup"
      BY <1>1, <1>3, <2>1, <2>c DEF GoodInv, GoodCount
    <2>2. CASE e.kind # "setup"
      BY <1>1, <1>3, <2>2 DEF GoodInv, GoodCount
    <2> QED
      BY <2>1, <2>2
  <1> QED
    BY <1>4, <1>5, <1>6 DEF GoodInv

(* A well-formed request is sent.                                          *)
LEMMA GoodArrives ==
    ASSUME NodeTypeOK, NodeTypeOK', GoodInv, faultless, NEW e \in Events, RemoteCall(e), WellFormed(e)
    PROVE  GoodInv'
  <1>1. /\ match = NoneEvent /\ match' = e /\ UNCHANGED <<batch, queue>>
        /\ UNCHANGED <<alive, left, undelivered, main, ev, channel, task, output_url_, inbox, call>>
        /\ known' = IF e.kind = "exit" THEN known \ {e.id} ELSE known
        /\ booked' = IF e.kind = "setup" THEN booked + 1 ELSE booked
    BY DEF RemoteCall, Account, nodeVars, NodeTypeOK
  <1>2. e.id = NoId \/ e.kind \in {"exit", "taskinfo"}
    BY DEF RemoteCall
  <1>3. e.ok \/ e.kind = "setup"
    BY DEF RemoteCall
  <1>4. /\ DOMAIN Line' = DOMAIN Line
        /\ \A i \in DOMAIN Line : \/ i < Len(Line) /\ Line'[i] = Line[i]
                                  \/ i = Len(Line) /\ Line[i] = NoneEvent /\ Line'[i] = e
        /\ Len(Line) \in DOMAIN Line
        /\ Cardinality(Setups(Line')) =
              Cardinality(Setups(Line)) + (IF e.kind = "setup" THEN 1 ELSE 0)
    BY <1>1, LineArrives
  <1>5. /\ e.kind # "none" /\ e.kind # "pause" /\ e.url = 1 /\ e.ok
        /\ e.kind = "setup" => booked < TaskCount
        /\ ForTask(e) => e.id \in known
    BY <1>3 DEF WellFormed, ForTask
  <1>6. known \subseteq task /\ (ev.pc = "exiting" => ev.e.id \notin known)
    BY DEF GoodInv, GoodKnown
  <1>7. DOMAIN Line = 1..Len(Line) /\ Len(Line) \in Nat
    BY LineNumbers
  <1>8. NoneEvent.kind = "none" /\ ~ForTask(NoneEvent)
    BY DEF NoneEvent, ForTask
  <1>9. GoodLine'
    <2>1. ASSUME NEW i \in DOMAIN Line
          PROVE  /\ Line'[i].kind # "none" =>
                       Line'[i].kind # "pause" /\ Line'[i].url = 1 /\ Line'[i].ok
                 /\ ForTask(Line'[i]) =>
                       Line'[i].id \in task /\ (ev.pc = "exiting" => Line'[i].id # ev.e.id)
      <3>1. CASE Line'[i] = Line[i]
        BY <3>1 DEF GoodInv, GoodLine
      <3>2. CASE Line'[i] = e
        BY <3>2, <1>5, <1>6
      <3> QED
        BY <1>4, <3>1, <3>2
    <2>2. ASSUME NEW i \in DOMAIN Line, NEW j \in DOMAIN Line, i < j,
                 Line'[i].kind = "exit", ForTask(Line'[j])
          PROVE  Line'[i].id # Line'[j].id
      <3>1. i < Len(Line) /\ Line'[i] = Line[i]
        BY <1>4, <1>7, <2>2
      <3>2. CASE Line'[j] = Line[j]
        BY <2>2, <3>1, <3>2 DEF GoodInv, GoodLine
      <3>3. CASE Line'[j] = e
        <4>1. Line[i].id \notin known
          BY <2>2, <3>1 DEF GoodInv, GoodKnown
        <4>2. e.id \in known
          BY <1>5, <2>2, <3>3
        <4> QED
          BY <3>1, <3>3, <4>1, <4>2
      <3> QED
        BY <1>4, <3>2, <3>3
    <2> SUFFICES /\ \A i \in DOMAIN Line' :
                       /\ Line'[i].kind # "none" =>
                             Line'[i].kind # "pause" /\ Line'[i].url = 1 /\ Line'[i].ok
                       /\ ForTask(Line'[i]) =>
                             Line'[i].id \in task' /\ (ev'.pc = "exiting" => Line'[i].id # ev'.e.id)
                 /\ \A i, j \in DOMAIN Line' :
                       i < j /\ Line'[i].kind = "exit" /\ ForTask(Line'[j])
                           => Line'[i].id # Line'[j].id
      BY DEF GoodLine, ForTask
    <2> QED
      BY <1>1, <1>4, <2>1, <2>2
  <1>10. GoodKnown'
    <2>1. ASSUME NEW i \in DOMAIN Line, Line'[i].kind = "exit" PROVE Line'[i].id \notin known'
      <3>1. CASE Line'[i] = Line[i]
        BY <1>1, <2>1, <3>1 DEF GoodInv, GoodKnown
      <3>2. CASE Line'[i] = e
        BY <1>1, <2>1, <3>2
      <3> QED
        BY <1>4, <3>1, <3>2
    <2>2. known' \subseteq known
      BY <1>1
    <2> QED
      BY <1>1, <1>4, <2>1, <2>2 DEF GoodInv, GoodKnown
  <1>11. GoodCount'
    <2>1. Cardinality(task) \in Nat /\ booked \in Int /\ Cardinality(Setups(Line)) \in Nat
          /\ TaskCount \in Nat
      BY TasksCounted, LineNumbers, NodeNumbers DEF NodeTypeOK
    <2>2. CASE e.kind = "setup"
      BY <1>1, <1>4, <1>5, <2>1, <2>2 DEF GoodInv, GoodCount
    <2>3. CASE e.kind # "setup"
      BY <1>1, <1>4, <2>1, <2>3 DEF GoodInv, GoodCount
    <2> QED
      BY <2>2, <2>3
  <1>12. GoodNode'
    BY <1>1 DEF GoodInv, GoodNode
  <1> QED
    BY <1>9, <1>10, <1>11, <1>12 DEF GoodInv

(* A request moves from the socket to the queue.                           *)
LEMMA GoodMoves ==
    ASSUME NodeTypeOK, NodeTypeOK', GoodInv, RpcEnqueue
    PROVE  GoodInv'
  <1>1. /\ queue' = Append(queue, match) /\ match' = NoneEvent
        /\ UNCHANGED <<batch, alive, left, undelivered, main, ev, channel, task, output_url_, inbox, call,
                       known, booked>>
    BY DEF RpcEnqueue, account
  <1>2. /\ \A i \in DOMAIN Line' : (i \in DOMAIN Line /\ Line'[i] = Line[i]) \/ Line'[i] = NoneEvent
        /\ Cardinality(Setups(Line')) = Cardinality(Setups(Line))
    BY <1>1, LineMoves
  <1>3. NoneEvent.kind = "none" /\ ~ForTask(NoneEvent)
    BY DEF NoneEvent, ForTask
  <1>4. GoodLine'
    <2> SUFFICES /\ \A i \in DOMAIN Line' :
                       /\ Line'[i].kind # "none" =>
                             Line'[i].kind # "pause" /\ Line'[i].url = 1 /\ Line'[i].ok
                       /\ ForTask(Line'[i]) =>
                             Line'[i].id \in task' /\ (ev'.pc = "exiting" => Line'[i].id # ev'.e.id)
                 /\ \A i, j \in DOMAIN Line' :
                       i < j /\ Line'[i].kind = "exit" /\ ForTask(Line'[j])
                           => Line'[i].id # Line'[j].id
      BY DEF GoodLine, ForTask
    <2>1. ASSUME NEW i \in DOMAIN Line', NEW j \in DOMAIN Line', i < j,
                 Line'[i].kind = "exit", ForTask(Line'[j])
          PROVE  Line'[i].id # Line'[j].id
      BY <1>2, <1>3, <2>1 DEF GoodInv, GoodLine
    <2> QED
      BY <1>1, <1>2, <1>3, <2>1 DEF GoodInv, GoodLine
  <1>5. GoodKnown'
    BY <1>1, <1>2, <1>3 DEF GoodInv, GoodKnown
  <1>6. GoodCount' /\ GoodNode'
    BY <1>1, <1>2 DEF GoodInv, GoodCount, GoodNode
  <1> QED
    BY <1>4, <1>5, <1>6 DEF GoodInv

(* The unit a setup gets finds room for its task.                          *)
LEMMA GoodSetup ==
    ASSUME NodeTypeOK, NodeTypeOK', AliveInv, GoodInv, faultless, SetupTask
    PROVE  GoodInv'
  <1>1. /\ ev.pc = "registering" /\ alive /\ main = "running"
        /\ ev.e.url = 1 /\ ev.e.ok /\ channel = task /\ call.st # "timeout"
    BY DEF SetupTask, GoodInv, GoodNode
  <1>2. /\ IsFiniteSet(task) /\ Cardinality(task) \in Nat /\ booked \in Int /\ TaskCount \in Nat
        /\ Cardinality(Setups(Line)) \in Nat
    BY TasksCounted, LineNumbers, NodeNumbers DEF NodeTypeOK
  <1>3. Cardinality(task) < TaskCount
    BY <1>1, <1>2 DEF GoodInv, GoodCount
  <1>4. CASE call.st # "answered"
    BY <1>1, <1>4 DEF SetupTask, Registered, NotRegistered
  <1>5. CASE call.st = "answered"
    <2>1. call.id \in Ids /\ call.id \notin channel
      BY <1>1, <1>5 DEF AliveInv, Granted
    <2>2. Cardinality(task \cup {call.id}) = Cardinality(task) + 1
      BY <1>1, <1>2, <2>1, FS_AddElement
    <2>3. Accepts(ev.e)
      BY <1>1, <1>2, <1>3, <2>2 DEF Accepts, DerivedAlive, TaskFull, ModelLoads
    <2>4. /\ channel' = channel \cup {call.id} /\ task' = task \cup {call.id}
          /\ SetPushUrl({call.id}, ev.e.url)
          /\ ev' = [ev EXCEPT !.pc = "process"] /\ call' = NoCall
          /\ known' = known \cup {call.id}
          /\ UNCHANGED <<alive, left, undelivered, main, queue, batch, match, inbox, booked>>
      <3>1. left = {}
        BY DEF GoodInv, GoodNode
      <3> QED
        BY <1>1, <1>5, <2>3, <3>1 DEF SetupTask, NotRegistered, Account
    <2>5. Line' = Line /\ ev'.pc = "process"
      BY <2>4, SameLine DEF NodeTypeOK
    <2>6. GoodLine'
      BY <2>4, <2>5 DEF GoodInv, GoodLine
    <2>7. GoodKnown'
      <3>1. \A i \in DOMAIN Line : Line[i].kind = "exit" => Line[i].id # call.id
        BY <1>1, <2>1 DEF GoodInv, GoodLine, ForTask
      <3> QED
        BY <2>4, <2>5, <3>1 DEF GoodInv, GoodKnown
    <2>8. GoodCount'
      BY <1>1, <1>2, <2>2, <2>4, <2>5 DEF GoodInv, GoodCount
    <2>9. GoodNode'
      <3>1. \A id \in channel' : output_url_'[id] = 1
        BY <1>1, <2>1, <2>4 DEF GoodInv, GoodNode, SetPushUrl, NodeTypeOK
      <3> QED
        BY <1>1, <2>4, <2>5, <3>1 DEF GoodInv, GoodNode, NoCall
    <2> QED
      BY <2>6, <2>7, <2>8, <2>9 DEF GoodInv
  <1> QED
    BY <1>4, <1>5

(* The task of an exit is erased; no request behind it is about it.        *)
LEMMA GoodExit ==
    ASSUME NodeTypeOK, NodeTypeOK', GoodInv, faultless, ExitTask
    PROVE  GoodInv'
  <1>1. PICK id \in Ids : id = ev.e.id
    BY DEF ExitTask, NodeTypeOK
  <1>2. /\ ev.pc = "exiting" /\ ev'.pc = "releasing" /\ ev'.e.id = id
        /\ task' = task \ {id} /\ booked' = booked - 1 /\ call'.st = "sent"
        /\ UNCHANGED <<alive, left, undelivered, main, queue, batch, match, channel, output_url_, inbox, known>>
    BY <1>1 DEF ExitTask, CallSys, Account, NodeTypeOK
  <1>3. id \in task /\ id \notin known /\ channel = task /\ main = "running"
    BY <1>1, <1>2 DEF GoodInv, GoodKnown, GoodNode
  <1>4. /\ IsFiniteSet(task) /\ Cardinality(task) \in Nat /\ booked \in Int /\ TaskCount \in Nat
        /\ Cardinality(Setups(Line)) \in Nat
    BY TasksCounted, LineNumbers, NodeNumbers DEF NodeTypeOK
  <1>5. Cardinality(task') = Cardinality(task) - 1
    BY <1>2, <1>3, <1>4, FS_RemoveElement
  <1>6. Line' = Line
    BY <1>2, SameLine
  <1>7. GoodLine'
    BY <1>1, <1>2, <1>6 DEF GoodInv, GoodLine
  <1>8. GoodKnown'
    BY <1>2, <1>3, <1>6 DEF GoodInv, GoodKnown
  <1>9. GoodCount'
    BY <1>2, <1>4, <1>5, <1>6 DEF GoodInv, GoodCount
  <1>10. GoodNode'
    BY <1>1, <1>2, <1>3 DEF GoodInv, GoodNode
  <1> QED
    BY <1>7, <1>8, <1>9, <1>10 DEF GoodInv

LEMMA SurvivalStep ==
    ASSUME NodeInv, NodeInv', GoodInv, [NodeNext]_allVars, faultless, faultless'
    PROVE  GoodInv'
  <1>1. NodeTypeOK /\ NodeTypeOK'
    BY DEF NodeInv
  <1>2. alive /\ AliveInv
    BY DEF GoodInv, GoodNode, NodeInv, AliveInv
  <1>3. GoodNode
    BY DEF GoodInv
  <1>4. \A id \in Ids : sub[id] # "none" => id \in channel /\ id \in task
    BY <1>2 DEF AliveInv, SubscribersBacked
  <1> USE <1>1, <1>2
  <1>5. CASE SysStep
    <2>1. /\ UNCHANGED <<alive, left, undelivered, main, queue, batch, ev, channel, task, output_url_, inbox, match,
                         known, booked>>
          /\ call' = call \/ call'.st = "answered"
      <3>1. CASE SysRegister
        BY <3>1 DEF SysRegister, Answer, clientVars, account
      <3>2. CASE SysRelease
        BY <3>2 DEF SysRelease, nodeVars, clientVars, account
      <3>3. CASE SysErase
        BY <3>3 DEF SysErase, Answer, clientVars, account
      <3> QED
        BY <1>5, <3>1, <3>2, <3>3 DEF SysStep
    <2>2. GoodNode'
      BY <1>3, <2>1 DEF GoodNode
    <2> QED
      BY <2>1, <2>2, GoodQuiet, SameLine
  <1>6. CASE Client
    <2>1. ASSUME NEW e \in Events, RemoteCall(e) PROVE GoodInv'
      <3>1. WellFormed(e)
        BY <2>1 DEF RemoteCall, Account
      <3> QED
        BY <2>1, <3>1, GoodArrives
    <2>2. ASSUME NEW id \in Ids, Inference(id) PROVE GoodInv'
      <3>1. UNCHANGED <<alive, left, undelivered, main, queue, batch, ev, channel, task, output_url_, inbox, match,
                        known, booked, call>>
        BY <2>2 DEF Inference, nodeVars, clientVars, account
      <3>2. GoodNode'
        BY <1>3, <3>1 DEF GoodNode
      <3> QED
        BY <3>1, <3>2, GoodQuiet, SameLine
    <2> QED
      BY <1>6, <2>1, <2>2 DEF Client, SessionLeaves, Fault, Account
  <1>7. CASE UnitActionMatch
    <2>1. CASE RpcEnqueue
      BY <2>1, GoodMoves
    <2>2. CASE CreatReq \/ Deliver
      <3>1. UNCHANGED <<alive, left, undelivered, main, queue, batch, ev, channel, task,
                        output_url_, inbox, match, known, booked, call>>
        BY <2>2 DEF CreatReq, Deliver, nodeVars, account
      <3>2. GoodNode'
        BY <1>3, <3>1 DEF GoodNode
      <3> QED
        BY <3>1, <3>2, GoodQuiet, SameLine
    <2>3. Listening /\ SocketFile
      BY <1>3 DEF Listening, SocketFile, GoodNode
    <2> QED
      BY <1>7, <2>1, <2>2, <2>3 DEF UnitActionMatch, UnitCallFalse, GivesUp
  <1>8. CASE CallTimeout \/ Sigterm
    BY <1>8 DEF CallTimeout, Sigterm, Fault, Account
  <1>9. ASSUME NEW url \in Urls, NEW ok \in BOOLEAN, InferencePublish(url, ok) PROVE GoodInv'
    <2>1. UNCHANGED <<alive, left, undelivered, main, queue, batch, ev, channel, task, output_url_, match,
                      known, booked, call>>
      BY <1>9 DEF InferencePublish, nodeVars, Account, account
    <2>2. \A id \in Ids : inbox'[id].ok /\ inbox'[id].url \in {1, NoUrl}
      <3>1. CASE UNCHANGED inbox
        BY <1>3, <3>1 DEF GoodNode
      <3>2. CASE inbox' = [inbox EXCEPT ![push.id] = [url |-> url, ok |-> ok]] /\ ok /\ url = 1
        BY <1>3, <3>2 DEF GoodNode, NodeTypeOK
      <3> QED
        BY <1>9, <3>1, <3>2 DEF InferencePublish, Account
    <2>3. GoodNode'
      BY <1>3, <2>1, <2>2 DEF GoodNode
    <2> QED
      BY <2>1, <2>3, GoodQuiet, SameLine
  <1>10. ASSUME NEW id \in Ids, SubscriberReceive(id) PROVE GoodInv'
    <2>0. ~PushLingers(id, inbox[id].url)
      BY <1>3 DEF PushLingers, GoodNode
    <2>1. /\ UNCHANGED <<alive, left, undelivered, main, queue, batch, ev, channel, task, inbox,
                         match, known, booked, call>>
          /\ SetPushUrl({id}, inbox[id].url) /\ inbox[id] # Empty
      BY <1>10, <2>0 DEF SubscriberReceive, clientVars, account
    <2>2. inbox[id].url = 1
      BY <1>3, <2>1, NodeNumbers DEF GoodNode, NodeTypeOK
    <2>3. \A jd \in channel' : output_url_'[jd] = 1
      BY <1>3, <2>1, <2>2 DEF GoodNode, SetPushUrl, NodeTypeOK
    <2>4. GoodNode'
      BY <1>3, <2>1, <2>3 DEF GoodNode
    <2> QED
      BY <2>1, <2>4, GoodQuiet, SameLine
  <1>11. ASSUME NEW id \in Ids, SubscriberDone(id) PROVE GoodInv'
    <2>1. UserDataAccepted(id)
      BY <1>3, <1>4, <1>11 DEF SubscriberDone, InCall, UserDataAccepted, GoodNode
    <2>2. /\ UNCHANGED <<alive, left, undelivered, main, queue, batch, ev, channel, task, output_url_, match,
                         known, booked, call>>
          /\ inbox' = [inbox EXCEPT ![id] = Empty]
      BY <1>3, <1>11, <2>1 DEF SubscriberDone, clientVars, account, GoodNode
    <2>3. \A jd \in Ids : inbox'[jd].ok /\ inbox'[jd].url \in {1, NoUrl}
      BY <1>3, <2>2 DEF GoodNode, NodeTypeOK, Empty
    <2>4. GoodNode'
      BY <1>3, <2>2, <2>3 DEF GoodNode
    <2> QED
      BY <2>2, <2>4, GoodQuiet, SameLine
  <1>12. CASE EventLoopThread
    <2>1. CASE EvenLoop
      <3>1. /\ UNCHANGED <<alive, left, undelivered, main, queue, batch, channel, task, output_url_, inbox, match,
                           known, booked, call>>
            /\ ev.pc = "loop" /\ ev'.pc = "wait"
        BY <1>3, <2>1 DEF EvenLoop, clientVars, account, exit_flage_, GoodNode, NodeTypeOK
      <3>2. GoodNode'
        BY <1>3, <3>1 DEF GoodNode
      <3> QED
        BY <3>1, <3>2, GoodQuiet, SameLine
    <2>2. CASE WaitReturns
      <3>1. /\ UNCHANGED <<alive, left, undelivered, main, channel, task, output_url_, inbox, match,
                           known, booked, call>>
            /\ ev.pc = "wait" /\ ev'.pc = "process" /\ batch' = queue /\ queue' = <<>>
        BY <2>2 DEF WaitReturns, clientVars, account, NodeTypeOK
      <3>2. GoodNode' /\ batch = <<>>
        BY <1>3, <3>1 DEF GoodNode
      <3>3. Line' = Line
        <4>1. queue \in Seq(AnyEvent)
          BY DEF NodeTypeOK
        <4>2. queue \o <<>> = queue /\ <<>> \o queue = queue
          BY <4>1, ConcatEmptySeq
        <4> QED
          BY <3>1, <3>2, <4>2 DEF Line
      <3> QED
        BY <3>1, <3>2, <3>3, GoodQuiet
    <2>3. CASE ProcessEnd
      <3>1. /\ UNCHANGED <<alive, left, undelivered, main, queue, batch, channel, task, output_url_, inbox, match,
                           known, booked, call>>
            /\ ev.pc = "process" /\ ev'.pc = "loop" /\ batch = <<>>
        BY <2>3 DEF ProcessEnd, clientVars, account, NodeTypeOK
      <3>2. GoodNode'
        BY <1>3, <3>1 DEF GoodNode
      <3> QED
        BY <3>1, <3>2, GoodQuiet, SameLine
    <2>4. CASE Ignore
      <3>1. PICK e \in AnyEvent : e = Head(batch)
        BY <2>4, EventSeqs DEF Ignore, Dispatch
      <3>2. /\ UNCHANGED <<alive, left, undelivered, main, queue, ev, channel, task, output_url_, inbox, match,
                           known, booked, call>>
            /\ e.kind = "none" /\ ev.pc = "process" /\ batch # <<>> /\ batch' = Tail(batch)
        BY <2>4, <3>1 DEF Ignore, Dispatch, Account
      <3>3. GoodNode'
        BY <1>3, <3>2 DEF GoodNode
      <3> QED
        BY <3>1, <3>2, <3>3, GoodTaken
    <2>5. CASE Setup
      <3>1. PICK e \in AnyEvent : e = Head(batch)
        BY <2>5, EventSeqs DEF Setup, Dispatch
      <3>2. /\ UNCHANGED <<alive, left, undelivered, main, queue, channel, task, output_url_, inbox, match,
                           known, booked>>
            /\ e.kind = "setup" /\ ev.pc = "process" /\ batch # <<>> /\ batch' = Tail(batch)
            /\ ev' = [pc |-> "registering", e |-> e] /\ call'.st = "sent" /\ status_
        BY <2>5, <3>1 DEF Setup, Dispatch, CallSys, clientVars, account
      <3>3. e.url = 1 /\ e.ok
        BY <3>1, <3>2, LineShape DEF GoodInv, GoodLine
      <3>4. GoodNode'
        BY <1>3, <3>2, <3>3 DEF GoodNode, status_
      <3> QED
        BY <3>1, <3>2, <3>4, GoodTaken
    <2>6. CASE SetupTask
      BY <2>6, GoodSetup
    <2>7. CASE Exit
      <3>1. PICK e \in AnyEvent : e = Head(batch)
        BY <2>7, EventSeqs DEF Exit, Dispatch
      <3>2. /\ e.kind = "exit" /\ ev.pc = "process" /\ batch # <<>> /\ status_
        BY <2>7, <3>1 DEF Exit, Dispatch
      <3>3. e.url = 1 /\ e.id \in task
        BY <3>1, <3>2, LineShape DEF GoodInv, GoodLine, ForTask
      <3>4. main = "running" /\ channel = task
        BY <1>3, <3>2 DEF GoodNode, status_
      <3>5. ~PushUrlRace(e.id, e.url) /\ DerivedAlive /\ ~PushLingers(e.id, e.url)
        BY <1>3, <3>3, <3>4 DEF PushUrlRace, PushLingers, DerivedAlive, GoodNode
      <3>6. /\ SetPushUrl(GetChannel(e.id), e.url) /\ StopSubscriber(e.id)
            /\ ev' = [pc |-> "exiting", e |-> e] /\ batch' = Tail(batch)
            /\ UNCHANGED <<alive, left, undelivered, main, queue, channel, task, call, match, known, booked>>
        BY <2>7, <3>1, <3>3, <3>5 DEF Exit, clientVars, account
      <3>7. \A id \in channel' : output_url_'[id] = 1
        BY <1>3, <3>3, <3>6 DEF GoodNode, SetPushUrl, NodeTypeOK
      <3>8. \A id \in Ids : inbox'[id].ok /\ inbox'[id].url \in {1, NoUrl}
        BY <1>3, <3>6 DEF GoodNode, StopSubscriber, NodeTypeOK, Empty
      <3>9. GoodNode'
        BY <1>3, <3>2, <3>4, <3>6, <3>7, <3>8 DEF GoodNode
      <3> QED
        BY <3>1, <3>2, <3>6, <3>9, GoodTaken
    <2>8. CASE ExitTask
      BY <2>8, GoodExit
    <2>9. CASE ReleaseReturns
      <3>1. PICK id \in Ids : id = ev.e.id
        BY <2>9 DEF ReleaseReturns, AliveInv, Calling, NodeTypeOK
      <3>2. /\ UNCHANGED <<alive, left, undelivered, main, queue, batch, task, inbox, match, known, booked>>
            /\ ev.pc = "releasing" /\ ev'.pc = "process" /\ call' = NoCall
            /\ channel' = channel \ {id} /\ output_url_' = [output_url_ EXCEPT ![id] = NoUrl]
        BY <2>9, <3>1 DEF ReleaseReturns, clientVars, account, NodeTypeOK
      <3>3. channel = task \cup {id} /\ id \notin task
        BY <1>3, <3>1, <3>2 DEF GoodNode, AliveInv, Calling
      <3>4. GoodNode'
        BY <1>3, <3>2, <3>3 DEF GoodNode, NoCall, NodeTypeOK
      <3>5. Line' = Line
        BY <3>2, SameLine
      <3> QED
        BY <3>2, <3>4, <3>5 DEF GoodInv, GoodLine, GoodKnown, GoodCount
    <2>10. CASE Taskinfo
      <3>1. PICK e \in AnyEvent : e = Head(batch)
        BY <2>10, EventSeqs DEF Taskinfo, Dispatch
      <3>2. /\ e.kind = "taskinfo" /\ ev.pc = "process" /\ batch # <<>> /\ status_
        BY <2>10, <3>1 DEF Taskinfo, Dispatch
      <3>3. e.url = 1 /\ e.id \in task \cup {NoId}
        BY <3>1, <3>2, LineShape DEF GoodInv, GoodLine, ForTask
      <3>4. main = "running" /\ channel = task
        BY <1>3, <3>2 DEF GoodNode, status_
      <3>5. /\ ~PushUrlRace(e.id, e.url) /\ HasInfo(e.id)
            /\ ~PushLingers(e.id, e.url) /\ e.url \notin left
        BY <1>3, <3>3, <3>4 DEF PushUrlRace, PushLingers, HasInfo, DerivedAlive, GoodNode
      <3>6. /\ SetPushUrl(GetChannel(e.id), e.url) /\ batch' = Tail(batch)
            /\ UNCHANGED <<alive, left, undelivered, main, queue, ev, channel, task, call, inbox, match, known, booked>>
        BY <2>10, <3>1, <3>5 DEF Taskinfo, Account
      <3>7. \A id \in channel' : output_url_'[id] = 1
        BY <1>3, <3>3, <3>6 DEF GoodNode, SetPushUrl, NodeTypeOK
      <3>8. GoodNode'
        BY <1>3, <3>2, <3>6, <3>7 DEF GoodNode
      <3> QED
        BY <3>1, <3>2, <3>6, <3>8, GoodTaken
    <2>11. CASE Pause
      BY <2>11, LineShape DEF Pause, Dispatch, GoodInv, GoodLine
    <2>12. CASE ExitLingers
      BY <1>3, <2>12 DEF ExitLingers, GoodNode
    <2> QED
      BY <1>12, <2>1, <2>2, <2>3, <2>4, <2>5, <2>6, <2>7, <2>8, <2>9, <2>10, <2>11, <2>12
         DEF EventLoopThread
  <1>13. CASE MainThread
    <2>1. CASE StartEvenLoop \/ StatusStored
      <3>1. /\ UNCHANGED <<alive, left, undelivered, queue, batch, channel, task, output_url_, inbox, match,
                           known, booked, call>>
            /\ main' \in {"started", "running"}
            /\ \/ UNCHANGED ev /\ main' = "running"
               \/ main = "constructing" /\ ev' = [ev EXCEPT !.pc = "loop"]
        BY <2>1 DEF StartEvenLoop, StatusStored, clientVars, account
      <3>2. \/ UNCHANGED ev /\ main' = "running"
            \/ ev.pc = "unborn" /\ ev'.pc = "loop"
        BY <3>1 DEF NodeTypeOK
      <3>3. GoodNode'
        BY <1>3, <3>1, <3>2 DEF GoodNode
      <3> QED
        BY <3>1, <3>2, <3>3, GoodQuiet, SameLine
    <2> QED
      BY <1>3, <1>13, <2>1 DEF MainThread, DtorStopTask, DtorLingers, DtorEraseTask,
         DtorStopsLoop, DtorJoins, DtorSecondJoin, GoodNode
  <1>14. CASE UNCHANGED allVars
    <2>1. UNCHANGED <<alive, left, undelivered, main, queue, batch, ev, channel, task, output_url_, inbox, match,
                      known, booked, call>>
      BY <1>14 DEF allVars, nodeVars, clientVars, account
    <2>2. GoodNode'
      BY <1>3, <2>1 DEF GoodNode
    <2> QED
      BY <2>1, <2>2, GoodQuiet, SameLine
  <1> QED
    BY <1>5, <1>6, <1>7, <1>8, <1>9, <1>10, <1>11, <1>12, <1>13, <1>14 DEF NodeNext

LEMMA FaultsRemembered == NodeTypeOK /\ [NodeNext]_allVars /\ faultless' => faultless
  <1> SUFFICES ASSUME NodeTypeOK, [NodeNext]_allVars, faultless' PROVE faultless
    OBVIOUS
  <1>1. CASE Client \/ UnitActionMatch \/ SysStep \/ CallTimeout
             \/ \E url \in Urls, ok \in BOOLEAN : InferencePublish(url, ok)
    BY <1>1 DEF Client, RemoteCall, Inference, SessionLeaves, UnitActionMatch, UnitCallFalse,
          CreatReq, Deliver, RpcEnqueue, GivesUp, SysStep, SysRegister, SysRelease, SysErase,
          CallTimeout, InferencePublish, Fault, Account, clientVars, account
  <1>2. CASE EventLoopThread
    BY <1>2 DEF EventLoopThread, EvenLoop, WaitReturns, ProcessEnd, Ignore, Setup, SetupTask,
          Exit, ExitTask, ExitLingers, ReleaseReturns, Taskinfo, Pause, Account, clientVars, account
  <1>3. CASE MainThread \/ Sigterm \/ UNCHANGED allVars
             \/ \E id \in Ids : SubscriberReceive(id) \/ SubscriberDone(id)
    BY <1>3 DEF MainThread, Sigterm, StartEvenLoop, StatusStored, DtorStopTask, DtorLingers,
          DtorEraseTask, DtorStopsLoop, DtorJoins, DtorSecondJoin, SubscriberReceive,
          SubscriberDone, Fault, Account, clientVars, account, allVars
  <1> QED
    BY <1>1, <1>2, <1>3 DEF NodeNext

LEMMA SurvivalInit == NodeInit => SurvivalInv
  <1> SUFFICES ASSUME NodeInit PROVE SurvivalInv
    OBVIOUS
  <1>1. NodeInv
    BY NodeInvInit
  <1>2. Line = <<NoneEvent>>
    <2>1. <<>> \o <<>> = <<>> /\ <<>> \o <<NoneEvent>> = <<NoneEvent>>
      BY NodeEvents, ConcatEmptySeq, EmptySeq
    <2> QED
      BY <2>1 DEF NodeInit, Line
  <1>3. /\ DOMAIN Line = {1} /\ Line[1].kind = "none" /\ ~ForTask(Line[1])
    BY <1>2 DEF NoneEvent, ForTask
  <1>4. Setups(Line) = {}
    BY <1>3 DEF Setups
  <1>5. Cardinality({}) = 0
    BY FS_EmptySet
  <1>6. GoodLine /\ GoodKnown
    BY <1>3 DEF GoodLine, GoodKnown, NodeInit, ForTask
  <1>7. GoodCount
    BY <1>4, <1>5, NodeNumbers DEF GoodCount, NodeInit
  <1>8. GoodNode
    BY DEF GoodNode, NodeInit, NoCall, Empty
  <1> QED
    BY <1>1, <1>6, <1>7, <1>8 DEF SurvivalInv, GoodInv

(* With clients that keep to one session, to the units they were given and *)
(* to TaskCount tasks, and without a timeout, an early request, a          *)
(* departure or a signal, no exception ends the node: llm_llm::setup finds *)
(* room whenever the clients have counted so (node/test/src/main.cpp,      *)
(* task_count_), exit and taskinfo find their task, and no callback an     *)
(* expired pointer.                                                        *)
THEOREM NodeSurvival == NodeSpec => []NodeSurvives
  <1>1. SurvivalInv /\ [NodeNext]_allVars => SurvivalInv'
    <2> SUFFICES ASSUME SurvivalInv, [NodeNext]_allVars PROVE SurvivalInv'
      OBVIOUS
    <2>1. NodeInv /\ NodeInv'
      BY NodeInvStep DEF SurvivalInv
    <2>2. ASSUME faultless' PROVE GoodInv'
      <3>1. faultless
        BY <2>1, <2>2, FaultsRemembered DEF NodeInv
      <3>2. GoodInv
        BY <3>1 DEF SurvivalInv
      <3> QED
        BY <2>1, <2>2, <3>1, <3>2, SurvivalStep
    <2> QED
      BY <2>1, <2>2 DEF SurvivalInv
  <1>2. SurvivalInv => NodeSurvives
    BY DEF SurvivalInv, GoodInv, GoodNode, NodeSurvives
  <1> QED
    BY <1>1, <1>2, SurvivalInit, PTL DEF NodeSpec
=============================================================================
