------------------------------ MODULE Gateway ------------------------------
(***************************************************************************)
(* The names a gateway serves (jumpscale/tools/tfgateway/__init__.py): the *)
(* records of a host are one field of a redis hash, which is read, given   *)
(* the new records and written back, in three calls of redis.              *)
(***************************************************************************)
EXTENDS Naturals, Sequences, SequencesExt

CONSTANTS Callers, Hosts,
          V4, V6,     \* addresses of either kind
          Malformed,  \* what is no address
          MaxRecords  \* bound: records of a host

GatewayAssumption == /\ Hosts # {} /\ V4 # {} /\ V4 \cap V6 = {}
                     /\ Malformed \notin V4 \cup V6 /\ MaxRecords \in Nat

VARIABLES records,  \* the records of each host and type, the latest first
          services, \* the tcp services of the router
          calls,    \* what each caller registers, and what it has read
          behind,   \* ghost: callers whose host another has written since they read it
          kept      \* ghost: what was registered and not overwritten by such a caller

vars == <<records, services, calls, behind, kept>>

Types == {"a", "aaaa"}
Addresses == V4 \cup V6
Size(host) == Len(host["a"]) + Len(host["aaaa"])
Unset == [t \in Types |-> <<>>]
AnyHost == CHOOSE h \in Hosts : TRUE
AnyAddress == CHOOSE a \in Addresses : TRUE
Idle == [at |-> "idle", host |-> AnyHost, type |-> "a", ip |-> AnyAddress, read |-> Unset]

TypeOK ==
    /\ records \in [Hosts -> [Types -> Seq(Addresses)]]
    /\ \A h \in Hosts : Size(records[h]) <= MaxRecords
    /\ services \subseteq Hosts
    /\ calls \in [Callers -> [at : {"idle", "exists", "get", "set"}, host : Hosts,
                              type : Types, ip : Addresses, read : [Types -> Seq(Addresses)]]]
    /\ behind \subseteq Callers
    /\ kept \subseteq Hosts \X Types \X Addresses

Init ==
    /\ records = [h \in Hosts |-> Unset]
    /\ services = {}
    /\ calls = [c \in Callers |-> Idle]
    /\ behind = {} /\ kept = {}

At(c, stage) == calls[c].at = stage

(* tcpservice_register: one write, of an endpoint that is not looked at.   *)
RegisterService(h) ==
    /\ services' = services \cup {h}
    /\ UNCHANGED <<records, calls, behind, kept>>

(* addr_check: either kind of address will do for either type.             *)
\* Mutant: the address is not checked.
AddrCheck_Any(ip) == TRUE
AddrCheck(ip) == ip \in V4 \/ ip \in V6

(* domain_register_a and domain_register_aaaa; what is no address raises.  *)
Register(c, h, t, ip) ==
    /\ At(c, "idle") /\ AddrCheck(ip)
    /\ calls' = [calls EXCEPT ![c] = [at |-> "exists", host |-> h, type |-> t,
                                      ip |-> ip, read |-> Unset]]
    /\ UNCHANGED <<records, services, behind, kept>>

(* domain_register: hexists, and for a host that is there hget             *)
Exists(c) ==
    /\ At(c, "exists")
    /\ calls' = [calls EXCEPT ![c].at = IF records[calls[c].host] = Unset THEN "set" ELSE "get"]
    /\ behind' = behind \ {c}
    /\ UNCHANGED <<records, services, kept>>

Get(c) ==
    /\ At(c, "get")
    /\ calls' = [calls EXCEPT ![c].at = "set", ![c].read = records[calls[c].host]]
    /\ behind' = behind \ {c}
    /\ UNCHANGED <<records, services, kept>>

(* hset: the new record before those of its type, and the other type as it *)
(* was read                                                                *)
\* Mutant: the records of the type are replaced.
Extended_Replaced(call) == [call.read EXCEPT ![call.type] = <<call.ip>>]
Extended(call) == [call.read EXCEPT ![call.type] = <<call.ip>> \o @]

Has(host) == UNION {{t} \X ToSet(host[t]) : t \in Types}

Set(c) ==
    LET call == calls[c]
        host == Extended(call)
        mine == <<call.host, call.type, call.ip>>
        overwritten == {k \in kept : k[1] = call.host /\ <<k[2], k[3]>> \notin Has(host)}
    IN /\ At(c, "set") /\ Size(host) <= MaxRecords
       /\ records' = [records EXCEPT ![call.host] = host]
       /\ kept' = (IF c \in behind THEN kept \ overwritten ELSE kept) \cup {mine}
       /\ behind' = (behind \ {c}) \cup
            {d \in Callers \ {c} : calls[d].at \in {"get", "set"} /\ calls[d].host = call.host}
       /\ calls' = [calls EXCEPT ![c] = Idle]
       /\ UNCHANGED services

(* Redis does not answer, and the call raises.                             *)
Fails(c) ==
    /\ ~At(c, "idle")
    /\ calls' = [calls EXCEPT ![c] = Idle]
    /\ behind' = behind \ {c}
    /\ UNCHANGED <<records, services, kept>>

Next ==
    \/ \E h \in Hosts : RegisterService(h)
    \/ \E c \in Callers :
         \/ \E h \in Hosts, t \in Types, ip \in Addresses \cup {Malformed} : Register(c, h, t, ip)
         \/ Exists(c) \/ Get(c) \/ Set(c) \/ Fails(c)

Spec == Init /\ [][Next]_vars

-----------------------------------------------------------------------------
(* A record that was registered is served for good, whatever is registered *)
(* for the host or others later, of its type or the other, unless a caller *)
(* writes the host who had read it before another's write.                 *)
RecordsKept == \A k \in kept : k[3] \in ToSet(records[k[1]][k[2]])
=============================================================================
