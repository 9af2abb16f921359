---------------------------- MODULE PlanDocument ----------------------------
(***************************************************************************)
(* The plans of rentkeeper-core (plan.rs) and the JSON documents they are  *)
(* written to and read from.  The network's passphrase, which is copied    *)
(* and never looked at, is left out.                                       *)
(***************************************************************************)
EXTENDS Ttl, Sequences, FiniteSets

CONSTANT
    Durability      \* the durability of each key: "Persistent", "Temporary", "None"

(* The value of an Option<u32> without one: null, or an absent field.      *)
NoLedger == -1

OperationKind == {"extend", "restore"}

PlanEntry(key, kind, at, until) ==
    [key |-> key, kind |-> kind, durability |-> Durability[key],
     ttl |-> [at |-> at, until |-> until]]

ArchivalPlan(reference, extendTo, entries) ==
    [reference_ledger |-> reference, extend_to |-> extendTo, entries |-> entries]

Footprint(plan) == [i \in DOMAIN plan.entries |-> plan.entries[i].key]

RemainingTtl(entry) ==
    IF entry.ttl.until = NoLedger THEN NoLedger ELSE TtlLedgers(entry.ttl.until, entry.ttl.at)

Serialize(plan) ==
    [reference_ledger |-> plan.reference_ledger, extend_to |-> plan.extend_to,
     entries |-> [i \in DOMAIN plan.entries |->
                    LET e == plan.entries[i]
                    IN  [key_xdr |-> e.key, operation |-> e.kind, durability |-> e.durability,
                         current_ledger |-> e.ttl.at, live_until_ledger_seq |-> e.ttl.until]]]

(* from_str: keys must decode and operations be known.                     *)
Decodes(document) ==
    \A i \in DOMAIN document.entries :
        /\ document.entries[i].key_xdr \in DOMAIN Durability
        /\ document.entries[i].operation \in OperationKind

(* A mistake: the durability is what the text says.                        *)
DeserializeText(document) ==
    ArchivalPlan(document.reference_ledger, document.extend_to,
        [i \in DOMAIN document.entries |->
            LET e == document.entries[i]
                at == IF e.current_ledger = NoLedger THEN 0 ELSE e.current_ledger
            IN  [PlanEntry(e.key_xdr, e.operation, at, e.live_until_ledger_seq)
                    EXCEPT !.durability = e.durability]])

(* An absent current_ledger is 0; the durability is that of the key.       *)
Deserialize(document) ==
    ArchivalPlan(document.reference_ledger, document.extend_to,
        [i \in DOMAIN document.entries |->
            LET e == document.entries[i]
                at == IF e.current_ledger = NoLedger THEN 0 ELSE e.current_ledger
            IN  PlanEntry(e.key_xdr, e.operation, at, e.live_until_ledger_seq)])
=============================================================================
