------------------------------- MODULE RunLoop -------------------------------
(***************************************************************************)
(* What run_loop of rent-keeper/src/main.rs promises, whatever run_cycle   *)
(* does: a tick or a termination signal is taken between cycles only, a    *)
(* cycle is run again after a transient failure, and never more often than *)
(* RETRY_ATTEMPTS.  RentKeeper (the whole daemon) and TimedLoop (the loop  *)
(* with its clock) implement this specification.                           *)
(***************************************************************************)
EXTENDS Integers

CONSTANTS RETRY_ATTEMPTS, Signals

VARIABLES pc, attempt, signal

vars == <<pc, attempt, signal>>

Init == pc = "down" /\ attempt = 0 /\ signal = {}

Start ==
    /\ pc = "down"
    /\ pc' = "select"
    /\ UNCHANGED <<attempt, signal>>

Crash ==
    /\ pc \notin {"down", "stopped"}
    /\ pc' = "down"
    /\ attempt' = 0
    /\ signal' = {}

Deliver ==
    /\ pc \notin {"down", "stopped"}
    /\ \E s \in Signals \ signal : signal' = signal \cup {s}
    /\ UNCHANGED <<pc, attempt>>

Shutdown ==
    /\ pc = "select"
    /\ signal # {}
    /\ pc' = "stopped"
    /\ UNCHANGED <<attempt, signal>>

Tick ==
    /\ pc = "select"
    /\ pc' = "cycle"
    /\ attempt' = 0
    /\ UNCHANGED signal

Ok ==
    /\ pc = "cycle"
    /\ pc' = "select"
    /\ UNCHANGED <<attempt, signal>>

(* Only a transient failure leads to a backoff, and not the last one.      *)
Err ==
    /\ pc = "cycle"
    /\ attempt' = attempt + 1
    /\ \/ pc' = "select"
       \/ attempt + 1 < RETRY_ATTEMPTS /\ pc' = "backoff"
    /\ UNCHANGED signal

Retry ==
    /\ pc = "backoff"
    /\ pc' = "cycle"
    /\ UNCHANGED <<attempt, signal>>

CycleStep == Ok \/ Err \/ Retry

Next == Start \/ Crash \/ Deliver \/ Shutdown \/ Tick \/ CycleStep

Spec == Init /\ [][Next]_vars

FairSpec == Spec /\ WF_vars(CycleStep) /\ SF_vars(Shutdown)
=============================================================================
