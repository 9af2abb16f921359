------------------------------- MODULE KeepAlive -------------------------------
(***************************************************************************)
(* What the daemon is for: the timed loop against one watched entry whose  *)
(* TTL runs down with every ledger that closes.  Ledger numbers grow for   *)
(* ever, so the entry's TTL is kept in their place, and the run goes on    *)
(* without a bound.  Assumed of the environment: a ledger takes at least   *)
(* Close seconds, a queued transaction is applied within ApplyLedgers      *)
(* ledgers, and no more than MaxFailed cycles in a row fail.               *)
(***************************************************************************)
EXTENDS TimedLoop, Ttl

CONSTANTS
    Horizon,        \* alert_horizon_ledgers
    NetMax,         \* the network's max_entry_ttl
    Close,          \* the least number of seconds a ledger takes
    ApplyLedgers,   \* ledgers until a queued transaction is applied
    MaxFailed,      \* cycles in a row that fail
    InitTtl         \* TTLs of the entry when the daemon starts

VARIABLES
    ttl,            \* ledgers the entry has left; 0: it has expired
    sinceClose,     \* seconds since the last ledger closed, up to Close
    seen,           \* what the running attempt has done about the entry
    pending,        \* ledgers until the queued extension is applied; 0: none
    failed          \* cycles that have failed since the last that did not

entryVars == <<ttl, sinceClose, pending>>
aliveVars == <<vars, entryVars, seen, failed>>

Target == MinOf(ExtendToLedgers(Horizon, NetMax), NetMax)

(* From the observation that finds the entry above the horizon, or the     *)
(* ledger that extends it, to the submission of the next cycle that does   *)
(* not fail.                                                               *)
Exposure == (MaxFailed + 1) * Cadence + WorstCycle

ASSUME KeepAliveAssumption ==
    /\ Horizon \in Nat
    /\ NetMax \in 0..U32Max
    /\ Close \in Nat \ {0}
    /\ ApplyLedgers \in Nat \ {0}
    /\ MaxFailed \in Nat
    /\ InitTtl \subseteq Nat
    /\ Target * Close > Exposure + ApplyLedgers * Close
    /\ \A t \in InitTtl : t > Target

(* A cycle or an attempt begins: it knows nothing of the one before.       *)
Begins ==
    /\ Tick \/ Retry
    /\ seen' = "nothing"
    /\ UNCHANGED <<entryVars, failed>>

Around ==
    /\ Start \/ Deliver \/ Shutdown
    /\ UNCHANGED <<entryVars, seen, failed>>

(* An expired entry is no business of the daemon any more.                 *)
Observe ==
    /\ pc = "cycle"
    /\ seen = "nothing"
    /\ seen' = IF ttl > 0 /\ IsAtRisk(ttl, 0, Horizon) THEN "at risk" ELSE "left alone"
    /\ UNCHANGED <<vars, entryVars, failed>>

(* The transaction queues up behind one that is queued already.            *)
Submit ==
    /\ pc = "cycle"
    /\ seen = "at risk"
    /\ seen' = "submitted"
    /\ pending' = IF pending = 0 THEN ApplyLedgers ELSE pending
    /\ UNCHANGED <<vars, ttl, sinceClose, failed>>

Succeeds ==
    /\ seen \in {"left alone", "submitted"}
    /\ Ok
    /\ failed' = 0
    /\ UNCHANGED <<entryVars, seen>>

(* An attempt fails before or after it has submitted something.            *)
Fails ==
    /\ Err
    /\ \/ pc' = "backoff" /\ UNCHANGED failed
       \/ pc' = "select" /\ failed < MaxFailed /\ failed' = failed + 1
    /\ UNCHANGED <<entryVars, seen>>

SecondPasses ==
    /\ Second
    /\ sinceClose' = MinOf(sinceClose + 1, Close)
    /\ UNCHANGED <<ttl, pending, seen, failed>>

Aged == IF ttl > 0 THEN ttl - 1 ELSE 0
Renewed == IF Aged > 0 /\ Aged < Target THEN Target ELSE Aged

LedgerPasses ==
    /\ pc \notin {"down", "stopped"}
    /\ sinceClose = Close
    /\ sinceClose' = 0
    /\ \/ pending = 0 /\ ttl' = Aged /\ UNCHANGED pending
       \/ pending > 1 /\ ttl' = Aged /\ pending' = pending - 1
       \/ pending > 0 /\ ttl' = Renewed /\ pending' = 0
    /\ UNCHANGED <<vars, seen, failed>>

AliveInit ==
    /\ Init
    /\ ttl \in InitTtl
    /\ sinceClose \in 0..Close
    /\ seen = "nothing"
    /\ pending = 0
    /\ failed = 0

AliveNext ==
    \/ Begins \/ Around \/ Observe \/ Submit \/ Succeeds \/ Fails
    \/ SecondPasses \/ LedgerPasses

AliveSpec == AliveInit /\ [][AliveNext]_aliveVars

-----------------------------------------------------------------------------
(* README: the daemon extends entries "before anything expires".  While it *)
(* runs, the watched entry does not expire, provided that the horizon is   *)
(* worth more seconds than Exposure and the ledgers of one application.    *)
NeverExpires == ttl > 0
=============================================================================
