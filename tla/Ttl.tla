--------------------------------- MODULE Ttl ---------------------------------
(***************************************************************************)
(* The pure TTL arithmetic of rentkeeper-core (ttl.rs) and the             *)
(* classification of one getLedgerEntries row (provider.rs).  Ledger       *)
(* sequence numbers are u32, TTLs are u64.                                 *)
(***************************************************************************)
EXTENDS Integers

CONSTANTS
    U32Max,     \* the largest u32
    U64         \* 2^64, the modulus of u64 arithmetic

ASSUME WordAssumption ==
    /\ U32Max \in Nat \ {0}
    /\ U64 \in Nat
    /\ U32Max < U64

MinOf(a, b) == IF a <= b THEN a ELSE b

(* The subtraction of two widened u32 values, as an optimised build does   *)
(* it: it wraps when the entry's last ledger lies behind `now`.            *)
TtlLedgers(until, now) == (until - now) % U64

(* A mistake: an entry exactly at the horizon is not at risk.              *)
IsBelowHorizon(until, now, horizon) == TtlLedgers(until, now) < horizon

IsAtRisk(until, now, horizon) == TtlLedgers(until, now) <= horizon

(* RiskWindow::from_days, for a window of so many seconds: a ledger takes  *)
(* five of them, and a part of one counts as one.                          *)
FromSeconds(seconds) ==
    LET ledgers == -((-seconds) \div 5)
    IN  IF ledgers < 0 THEN 0 ELSE MinOf(ledgers, U32Max)

(* u32::try_from(horizon) falls back to the network maximum.               *)
ExtendToLedgers(horizon, maxTtl) ==
    IF horizon <= U32Max THEN MinOf(horizon, maxTtl) ELSE maxTtl

(* What observe_chunk makes of a key at `latest`: `here` says whether the  *)
(* node returned a row for it.                                             *)
Observation(here, until, latest) ==
    IF ~here THEN [at |-> latest, state |-> "Archived", until |-> 0]
    ELSE IF until > latest THEN [at |-> latest, state |-> "Live", until |-> until]
    ELSE [at |-> latest, state |-> "ExpiredButPresent", until |-> 0]

(* Observation::needs_restore.                                             *)
NeedsRestore(observation) == observation.state \in {"ExpiredButPresent", "Archived"}

(* Entries that are not contract data (contract code) have no XDR          *)
(* durability; the planner puts them with the persistent ones.             *)
Group(durability) == IF durability = "Temporary" THEN "temporary" ELSE "persistent"
Groups == {"persistent", "temporary"}
=============================================================================
