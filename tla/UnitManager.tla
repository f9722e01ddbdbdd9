----------------------------- MODULE UnitManager -----------------------------
(***************************************************************************)
(* unit-manager's registry of units (unit-manager/src/remote_server.cpp,   *)
(* zmq_bus.cpp, include/all.h): the table key_sql behind a spin lock, the  *)
(* list of ports handed out, and the unit_data objects the table points    *)
(* to.                                                                     *)
(*                                                                         *)
(* One thread serves the "sys" RPCs (register_unit, release_unit, sql_set, *)
(* sql_unset).  The TCP loops push inference requests to units; a mutex    *)
(* lets one of them at a time into unit_action_match.  The two meet in     *)
(* key_sql only, whose lock covers one read or write each.                 *)
(*                                                                         *)
(* A unit is named by the number in its work_id.                           *)
(***************************************************************************)
EXTENDS Integers, FiniteSets

CONSTANTS
    NumPorts,      \* port_list.size(): config_zmq_max_port - config_zmq_min_port
    MaxUnits,      \* bound: units ever registered
    MayExhaust     \* register_unit may come when fewer than two ports are free

ASSUME NumbersAssumption ==
    NumPorts \in Nat /\ MaxUnits \in Nat /\ MayExhaust \in BOOLEAN

VARIABLES
    work_id_number_counter,
    port_list,     \* the ports marked in use
    key_sql,       \* what the table holds under a work_id
    out_port,      \* what it holds under work_id.out_port
    unit,          \* the unit_data objects
    rpc,           \* the RPC thread: idle, or the unit it is erasing
    push,          \* zmq_bus_publisher_push: idle, or holding the pointer it read
    reply          \* outcome of the last push: was the unit found, what returned

vars == <<work_id_number_counter, port_list, key_sql, out_port, unit, rpc, push, reply>>

Ids == 0..(MaxUnits - 1)
Ports == 0..(NumPorts - 1)
OutOfRange == NumPorts        \* any number that is no index of port_list
Idle == -1
NoPush == [id |-> Idle, unit_p |-> FALSE]
NoUnit == [output |-> OutOfRange, inference |-> OutOfRange, alive |-> FALSE]
NoReply == [found |-> TRUE, ret |-> 0]

Init ==
    /\ work_id_number_counter = 0
    /\ port_list = {}
    /\ key_sql = [id \in Ids |-> "none"]
    /\ out_port = [id \in Ids |-> "none"]
    /\ unit = [id \in Ids |-> NoUnit]
    /\ rpc = Idle
    /\ push = NoPush
    /\ reply = NoReply
-----------------------------------------------------------------------------
(* The RPC thread.                                                         *)

(* One scan of port_list: the first free port, which is marked; without a  *)
(* free one `port' stays uninitialised and is any number.                  *)
Scan(taken) ==
    LET free == Ports \ taken
    IN  IF free = {}
        THEN {[port |-> p, taken |-> taken] : p \in Ports \cup {OutOfRange}}
        ELSE {[port |-> p, taken |-> taken \cup {p}] :
                  p \in {q \in free : \A o \in free : q <= o}}

(* register_unit: sys_allocate_unit.                                       *)
AllocateUnit ==
    LET id == work_id_number_counter
    IN  /\ rpc = Idle
        /\ id < MaxUnits
        /\ MayExhaust \/ Cardinality(Ports \ port_list) >= 2
        /\ work_id_number_counter' = id + 1
        /\ \E out \in Scan(port_list) : \E inf \in Scan(out.taken) :
               /\ port_list' = inf.taken
               /\ unit' = [unit EXCEPT ![id] =
                      [output |-> out.port, inference |-> inf.port, alive |-> TRUE]]
        /\ key_sql' = [key_sql EXCEPT ![id] = "unit"]
        /\ out_port' = [out_port EXCEPT ![id] = "url"]
        /\ UNCHANGED <<rpc, push, reply>>

\* Mutant: only the port of the output URL is given back.
ReleaseOutputOnly(id) ==
    /\ rpc = Idle
    /\ key_sql[id] = "unit"
    /\ port_list' = port_list \ {unit[id].output}
    /\ unit' = [unit EXCEPT ![id].alive = FALSE]
    /\ rpc' = id
    /\ UNCHANGED <<work_id_number_counter, key_sql, out_port, push, reply>>

(* release_unit: sys_release_unit gives both ports back and deletes the    *)
(* object ... (A work_id without a unit changes nothing; an index out of   *)
(* range is written outside port_list.)                                    *)
ReleaseUnit(id) ==
    /\ rpc = Idle
    /\ key_sql[id] = "unit"
    /\ port_list' = port_list \ {unit[id].output, unit[id].inference}
    /\ unit' = [unit EXCEPT ![id].alive = FALSE]
    /\ rpc' = id
    /\ UNCHANGED <<work_id_number_counter, key_sql, out_port, push, reply>>

\* Mutant: the pointer stays in the table.
ErasePortOnly ==
    /\ rpc # Idle
    /\ out_port' = [out_port EXCEPT ![rpc] = "none"]
    /\ rpc' = Idle
    /\ UNCHANGED <<work_id_number_counter, port_list, key_sql, unit, push, reply>>

(* ... and then removes it from the table.                                 *)
EraseUnit ==
    /\ rpc # Idle
    /\ key_sql' = [key_sql EXCEPT ![rpc] = "none"]
    /\ out_port' = [out_port EXCEPT ![rpc] = "none"]
    /\ rpc' = Idle
    /\ UNCHANGED <<work_id_number_counter, port_list, unit, push, reply>>

(* sql_set and sql_unset with a unit's keys.                               *)
SqlWrite(id, value) ==
    /\ rpc = Idle
    /\ \/ key_sql' = [key_sql EXCEPT ![id] = value] /\ UNCHANGED out_port
       \/ out_port' = [out_port EXCEPT ![id] = value] /\ UNCHANGED key_sql
    /\ UNCHANGED <<work_id_number_counter, port_list, unit, rpc, push, reply>>

SqlSet(id) == SqlWrite(id, "string")
SqlUnset(id) == SqlWrite(id, "none")
-----------------------------------------------------------------------------
(* A TCP loop inside unit_action_match, action "inference".                *)

(* zmq_bus_publisher_push reads the pointer under the lock ...             *)
PushRead(id) ==
    /\ push = NoPush
    /\ push' = [id |-> id, unit_p |-> key_sql[id] = "unit"]
    /\ UNCHANGED <<work_id_number_counter, port_list, key_sql, out_port, unit, rpc, reply>>

(* ... and uses it after the unlock.  Its `else' belongs to the `if' in    *)
(* the macro ALOGW, whose condition (log_level >= SAMPLE_LOG_WARN) always  *)
(* holds: 0 is returned whether there was a unit or not.                   *)
PushSend ==
    /\ push # NoPush
    /\ reply' = [found |-> push.unit_p, ret |-> 0]
    /\ push' = NoPush
    /\ UNCHANGED <<work_id_number_counter, port_list, key_sql, out_port, unit, rpc>>

Next ==
    \/ AllocateUnit
    \/ \E id \in Ids : ReleaseUnit(id)
    \/ EraseUnit
    \/ \E id \in Ids : SqlSet(id)
    \/ \E id \in Ids : SqlUnset(id)
    \/ \E id \in Ids : PushRead(id)
    \/ PushSend

Spec == Init /\ [][Next]_vars
-----------------------------------------------------------------------------
Live == {id \in Ids : unit[id].alive}

(* Type correctness.                                                       *)
TypeOK ==
    /\ work_id_number_counter \in 0..MaxUnits
    /\ port_list \subseteq Ports
    /\ key_sql \in [Ids -> {"none", "unit", "string"}]
    /\ out_port \in [Ids -> {"none", "url", "string"}]
    /\ unit \in [Ids -> [output : Ports \cup {OutOfRange},
                         inference : Ports \cup {OutOfRange}, alive : BOOLEAN]]
    /\ rpc \in Ids \cup {Idle}
    /\ push \in [id : Ids, unit_p : BOOLEAN] \cup {NoPush}
    /\ reply \in [found : BOOLEAN, ret : {0, -1}]

(* As long as ports are left, the list and the units agree through every   *)
(* sequence of registrations, releases and table writes: a port is marked  *)
(* exactly if a unit has it, and then only one unit, for one URL.          *)
PortsOwned ==
    /\ port_list = {unit[id].output : id \in Live} \cup {unit[id].inference : id \in Live}
    /\ \A id \in Live : unit[id].output # unit[id].inference
    /\ \A id, jd \in Live :
           id # jd => {unit[id].output, unit[id].inference} \cap
                      {unit[jd].output, unit[jd].inference} = {}

(* The table leads to living units only, except to the one that            *)
(* release_unit has deleted and is about to erase: no second release and   *)
(* no later push finds a deleted object.                                   *)
TableAlive ==
    \A id \in Ids :
        key_sql[id] = "unit" \/ out_port[id] = "url" => unit[id].alive \/ rpc = id

(* Every unit gets two ports of the configured range, "config_zmq_min_port"*)
(* to "config_zmq_max_port", for itself.                                   *)
PortsConfigured ==
    \A id \in Live : /\ {unit[id].output, unit[id].inference} \subseteq Ports
                     /\ unit[id].output # unit[id].inference

(* "zmq_bus_publisher_push failed, not have work_id": a push to a work_id  *)
(* without a unit returns -1, which makes unit_action_match answer         *)
(* "inference data push false".                                            *)
PushFailureReported == reply.found \/ reply.ret # 0

(* The unit whose pointer zmq_bus_publisher_push has read is still there   *)
(* when send_msg is called on it (zmq_bus.cpp:81-83), though release_unit  *)
(* runs in another thread.                                                 *)
PushedUnitAlive == push.unit_p => unit[push.id].alive
=============================================================================
