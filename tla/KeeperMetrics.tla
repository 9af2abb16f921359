---------------------------- MODULE KeeperMetrics ----------------------------
(***************************************************************************)
(* The Prometheus counters of rent-keeper/src/metrics.rs, updated by       *)
(* run_loop when run_cycle returns, beside the daemon of RentKeeper.  The  *)
(* counters live in the process: a restart begins them at zero.            *)
(***************************************************************************)
EXTENDS RentKeeper

VARIABLES
    poll_cycles, latest_observed_ledger, entries_at_risk,
    extends_submitted, extends_accepted, extends_rejected,
    (* history of the process, against which the counters are read *)
    accepted    \* submissions the node answered as accepted

counters == <<poll_cycles, latest_observed_ledger, entries_at_risk,
              extends_submitted, extends_accepted, extends_rejected>>
metricsVars == <<vars, counters, accepted>>

Planned == Cardinality(Plan("persistent")) + Cardinality(Plan("temporary"))

(* The run of run_cycle that this step ends has succeeded.                 *)
ReturnsOk == outcome' = "ok"

(* A mistake: an idle cycle counts a transaction too.                      *)
TransactionsIdle == submitted + 1

(* transactions of the CycleReport: the last plan's acceptance ends the    *)
(* run, so it is not in `submitted` yet.                                   *)
Transactions == IF pc = "send" THEN submitted + 1 ELSE 0

CountOk ==
    /\ ReturnsOk
    /\ poll_cycles' = poll_cycles + 1
    /\ latest_observed_ledger' = reference
    /\ entries_at_risk' = Planned
    /\ extends_submitted' = extends_submitted + Transactions
    /\ extends_accepted' = extends_accepted + (IF Transactions > 0 THEN 1 ELSE 0)
    /\ UNCHANGED extends_rejected

CountErr ==
    /\ outcome' \in ErrorKind
    /\ extends_rejected' = extends_rejected + (IF outcome' = "Rpc" THEN 1 ELSE 0)
    /\ UNCHANGED <<poll_cycles, latest_observed_ledger, entries_at_risk,
                   extends_submitted, extends_accepted>>

CountNothing == outcome' = "none" /\ UNCHANGED counters

(* The answer to a submission, told by what the step does to the daemon.   *)
Answered == ReturnsOk \/ (pc' = "sequence" /\ todo' # todo)

Tally ==
    accepted' = accepted + (IF pc = "send" /\ Answered THEN 1 ELSE 0)

Zero ==
    /\ poll_cycles = 0 /\ latest_observed_ledger = 0 /\ entries_at_risk = 0
    /\ extends_submitted = 0 /\ extends_accepted = 0 /\ extends_rejected = 0
    /\ accepted = 0

Reset ==
    /\ poll_cycles' = 0 /\ latest_observed_ledger' = 0 /\ entries_at_risk' = 0
    /\ extends_submitted' = 0 /\ extends_accepted' = 0 /\ extends_rejected' = 0
    /\ accepted' = 0

MetricsInit == Init /\ Zero

MetricsNext ==
    \/ KeeperStep /\ Tally /\ (CountOk \/ CountErr \/ CountNothing)
    \/ (Start \/ Deliver \/ Shutdown \/ Tick \/ NodeStep) /\ UNCHANGED <<counters, accepted>>
    \/ Crash /\ Reset

MetricsSpec == MetricsInit /\ [][MetricsNext]_metricsVars

-----------------------------------------------------------------------------
(* Properties.                                                             *)

(* Every transaction counted as submitted, and every one counted as        *)
(* accepted, is one that the node accepted from this process, however many *)
(* attempts of its cycle failed before; and a cycle is counted once, as    *)
(* completed or as failed with an Rpc error.  Of refusals nothing is said: *)
(* extends_rejected counts those failed cycles (main.rs:197), whatever     *)
(* they failed on, and so may claim rejections that never were.            *)
SubmissionsBacked ==
    /\ extends_accepted <= extends_submitted
    /\ extends_submitted <= accepted
    /\ poll_cycles + extends_rejected <= cycles

(* metrics.rs: "Submissions the node accepted (PENDING or duplicate)."     *)
AcceptedIsExact == pc = "select" => extends_accepted = accepted

(* metrics.rs: "Submissions the node rejected.": the failure that a cycle  *)
(* is counted for is the node's answer to a submission, not a call before  *)
(* one.                                                                    *)
RejectedByNode == [][extends_rejected' > extends_rejected => pc = "send"]_metricsVars
=============================================================================
