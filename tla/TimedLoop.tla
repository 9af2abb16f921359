------------------------------ MODULE TimedLoop ------------------------------
(***************************************************************************)
(* run_loop of rent-keeper/src/main.rs with its clock, in seconds: the     *)
(* ticker with MissedTickBehavior::Delay, the exponential backoff, and     *)
(* cycles that take time.  A cycle takes any time up to CycleTime, the     *)
(* most that its calls wait for their answers.                             *)
(***************************************************************************)
EXTENDS Integers

CONSTANTS
    RETRY_ATTEMPTS,     \* 3
    RETRY_BASE_DELAY,   \* 1 second
    Poll,               \* poll_interval
    CycleTime,          \* the longest run of run_cycle
    Signals

ASSUME TimedAssumption ==
    /\ RETRY_ATTEMPTS \in Nat \ {0}
    /\ RETRY_BASE_DELAY \in Nat
    /\ Poll \in Nat \ {0}
    /\ CycleTime \in Nat

VARIABLES
    pc, attempt, signal,
    ticker,         \* seconds to the ticker's deadline; 0: the tick is ready
    timer,          \* seconds of run_cycle spent, or of the backoff still to go
    sinceTick       \* history: seconds since the last tick was taken

vars == <<pc, attempt, signal, ticker, timer, sinceTick>>

Init ==
    /\ pc = "down"
    /\ attempt = 0
    /\ signal = {}
    /\ ticker = 0
    /\ timer = 0
    /\ sinceTick = 0

(* The first tick of a tokio interval completes at once.                   *)
Start ==
    /\ pc = "down"
    /\ pc' = "select"
    /\ ticker' = 0
    /\ sinceTick' = Poll
    /\ UNCHANGED <<attempt, signal, timer>>

Deliver ==
    /\ pc \notin {"down", "stopped"}
    /\ \E s \in Signals \ signal : signal' = signal \cup {s}
    /\ UNCHANGED <<pc, attempt, ticker, timer, sinceTick>>

(* A mistake: a ready tick goes before the signals.                        *)
TickBeforeSignal ==
    /\ pc = "select"
    /\ signal # {}
    /\ ticker > 0
    /\ pc' = "stopped"
    /\ UNCHANGED <<attempt, signal, ticker, timer, sinceTick>>

Shutdown ==
    /\ pc = "select"
    /\ signal # {}
    /\ pc' = "stopped"
    /\ UNCHANGED <<attempt, signal, ticker, timer, sinceTick>>

(* A mistake: the default behaviour of an interval, which makes up for     *)
(* missed ticks.                                                           *)
TickBurst ==
    /\ pc = "select"
    /\ ticker = 0
    /\ pc' = "cycle"
    /\ attempt' = 0
    /\ ticker' = IF 2 * Poll > sinceTick THEN 2 * Poll - sinceTick ELSE 0
    /\ timer' = 0
    /\ sinceTick' = 0
    /\ UNCHANGED signal

(* Delay: the next deadline is one period after the tick that was taken,   *)
(* however late that was.                                                  *)
Tick ==
    /\ pc = "select"
    /\ ticker = 0
    /\ pc' = "cycle"
    /\ attempt' = 0
    /\ ticker' = Poll
    /\ timer' = 0
    /\ sinceTick' = 0
    /\ UNCHANGED signal

Ok ==
    /\ pc = "cycle"
    /\ pc' = "select"
    /\ timer' = 0
    /\ UNCHANGED <<attempt, signal, ticker, sinceTick>>

(* 1 << n: n doublings.                                                    *)
Shifted[n \in Nat] == IF n = 0 THEN 1 ELSE 2 * Shifted[n - 1]

(* A mistake: the first delay is doubled already.                          *)
BackoffDoubled(failed) == RETRY_BASE_DELAY * Shifted[failed]

Backoff(failed) == RETRY_BASE_DELAY * Shifted[failed - 1]

(* A mistake: one attempt too many.                                        *)
ErrLate ==
    /\ pc = "cycle"
    /\ attempt' = attempt + 1
    /\ \/ pc' = "select" /\ timer' = 0
       \/ /\ attempt' <= RETRY_ATTEMPTS
          /\ pc' = "backoff"
          /\ timer' = Backoff(attempt')
    /\ UNCHANGED <<signal, ticker, sinceTick>>

Err ==
    /\ pc = "cycle"
    /\ attempt' = attempt + 1
    /\ \/ /\ pc' = "select"         \* not transient, or the last attempt
          /\ timer' = 0
       \/ /\ attempt' < RETRY_ATTEMPTS
          /\ pc' = "backoff"
          /\ timer' = Backoff(attempt')
    /\ UNCHANGED <<signal, ticker, sinceTick>>

(* A mistake: the count of attempts starts again.                          *)
RetryAnew ==
    /\ pc = "backoff"
    /\ timer = 0
    /\ pc' = "cycle"
    /\ attempt' = 0
    /\ UNCHANGED <<signal, ticker, timer, sinceTick>>

Retry ==
    /\ pc = "backoff"
    /\ timer = 0
    /\ pc' = "cycle"
    /\ UNCHANGED <<attempt, signal, ticker, timer, sinceTick>>

(* Time passes unless something that does not wait is due.                 *)
Waits ==
    \/ pc = "select" /\ ticker > 0 /\ signal = {}
    \/ pc = "cycle" /\ timer < CycleTime
    \/ pc = "backoff" /\ timer > 0

Second ==
    /\ Waits
    /\ ticker' = IF ticker > 0 THEN ticker - 1 ELSE 0
    /\ timer' = CASE pc = "cycle" -> timer + 1
                  [] pc = "backoff" -> timer - 1
                  [] OTHER -> timer
    /\ sinceTick' = sinceTick + 1
    /\ UNCHANGED <<pc, attempt, signal>>

Next == Start \/ Deliver \/ Shutdown \/ Tick \/ Ok \/ Err \/ Retry \/ Second

Spec == Init /\ [][Next]_vars

(* Time passes and due steps are taken; select! draws at random among its  *)
(* ready branches, so it does not pass over the signals for ever.          *)
FairSpec ==
    /\ Spec
    /\ WF_vars(Second)
    /\ WF_vars(Ok \/ Err \/ Retry)
    /\ SF_vars(Shutdown)

-----------------------------------------------------------------------------
(* Properties.                                                             *)

TypeOK ==
    /\ pc \in {"down", "select", "cycle", "backoff", "stopped"}
    /\ attempt \in 0..RETRY_ATTEMPTS
    /\ signal \subseteq Signals
    /\ ticker \in 0..Poll
    /\ timer \in Nat
    /\ sinceTick \in Nat

(* All attempts of one cycle at their longest with the backoffs between    *)
(* them: RETRY_BASE_DELAY * (1 + 2 + 4 + ...).                             *)
WorstCycle ==
    RETRY_ATTEMPTS * CycleTime + RETRY_BASE_DELAY * (Shifted[RETRY_ATTEMPTS - 1] - 1)

Cadence == IF Poll >= WorstCycle THEN Poll ELSE WorstCycle

(* Two cycles never begin further apart than the poll interval or, when    *)
(* that is longer, one cycle with all its retries.                         *)
CadenceKept == sinceTick <= Cadence

(* A tick missed during a long cycle is made up for once, and not with a   *)
(* burst: cycles begin at least a poll interval apart.                     *)
NoBurst == [][pc = "select" /\ pc' = "cycle" => sinceTick >= Poll]_vars

(* A termination signal stops the daemon, also when it comes in a cycle    *)
(* and when cycles last so long that the next tick is always ready.        *)
ShutdownHonoured == signal # {} ~> pc = "stopped"

Loop == INSTANCE RunLoop

(* The loop with its clock implements the loop without it, fairness        *)
(* included.                                                               *)
ImplementsRunLoop == Loop!FairSpec
=============================================================================
