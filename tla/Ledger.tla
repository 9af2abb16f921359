------------------------------- MODULE Ledger -------------------------------
(***************************************************************************)
(* EXTERNAL: the ledger as both programs see it: the last closed ledger    *)
(* and the entries they ask for, each with the last ledger at which it is  *)
(* live (ttl.rs, module comment).  An entry past that ledger stays in      *)
(* ledger state until the eviction scan takes it.                          *)
(***************************************************************************)
EXTENDS Integers, FiniteSets

CONSTANTS
    Keys,           \* the ledger keys of interest
    InitUntil,      \* possible last live ledgers of an entry at the start
    NetMax,         \* the network's max_entry_ttl
    MaxHeight       \* bound: ledgers that close

ASSUME LedgerAssumption ==
    /\ IsFiniteSet(Keys)
    /\ Keys # {}
    /\ InitUntil \subseteq Nat
    /\ NetMax \in Nat
    /\ MaxHeight \in Nat

VARIABLES
    height,         \* the last closed ledger
    liveUntil,      \* the last ledger at which each entry is live
    present         \* the entries still in ledger state

ledgerVars == <<height, liveUntil, present>>

LedgerTypeOK ==
    /\ height \in Nat
    /\ liveUntil \in [Keys -> Nat]
    /\ present \subseteq Keys

(* `created` are the entries that exist at all.                            *)
LedgerInit(created) ==
    /\ height = 0
    /\ liveUntil \in [Keys -> InitUntil]
    /\ present = created

(* An entry whose TTL has reached zero is dead (ttl.rs, module comment).   *)
IsLive(k) == k \in present /\ liveUntil[k] > height

LedgerCloses ==
    /\ height < MaxHeight
    /\ height' = height + 1
    /\ UNCHANGED <<liveUntil, present>>

(* ExtendFootprintTtl bumps its live entries *to* extendTo ledgers of      *)
(* remaining TTL, clamped by the network maximum; it never shortens.       *)
Bumped(keys, extendTo) ==
    LET target == height + (IF extendTo <= NetMax THEN extendTo ELSE NetMax)
    IN  [k \in Keys |-> IF k \in keys /\ IsLive(k) /\ target > liveUntil[k]
                        THEN target ELSE liveUntil[k]]

(* The eviction scan removes an expired entry from ledger state.           *)
EntryEvicted ==
    /\ \E k \in present : ~IsLive(k) /\ present' = present \ {k}
    /\ UNCHANGED <<height, liveUntil>>
=============================================================================
