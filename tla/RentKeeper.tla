----------------------------- MODULE RentKeeper -----------------------------
(***************************************************************************)
(* The rent-keeper daemon: main.rs (start-up and run_loop), watcher.rs     *)
(* (run_cycle and submit_plan), sequence.rs, and the calls these make into *)
(* rentkeeper-core, against the node of SorobanNode.  A step of the keeper *)
(* is what it does from one await point to the next; the node and the      *)
(* signals move in between.                                                *)
(***************************************************************************)
EXTENDS Ttl, SorobanNode, SequenceTracker

CONSTANTS
    Durability,         \* the durability of each key: "Persistent", "Temporary", "None"
    Chunks,             \* the number of getLedgerEntries requests per observation
    ChunkOf,            \* the request each key falls in
    Horizon,            \* the alert horizon, in ledgers
    DefaultMax,         \* the built-in max_entry_ttl, used when the node is not asked
    MaxFootprint,       \* keys one footprint holds (100)
    RETRY_ATTEMPTS,     \* attempts of one cycle (3)
    BadSeqRecognised,   \* is_bad_seq_error matches the text of the node's rejection
    Signals,            \* the termination signals that may be sent
    Troubles,           \* which of "mismatch", "rejected", "dropped", "late" may happen
    MaxCycles,          \* bound: poll cycles
    MaxFaults,          \* bound: transport faults in one cycle
    MaxCrashes          \* bound: crashes of the process

ASSUME KeeperAssumption ==
    /\ Durability \in [Keys -> {"Persistent", "Temporary", "None"}]
    /\ Chunks \in Nat \ {0}
    /\ ChunkOf \in [Keys -> 1..Chunks]
    /\ Horizon \in Nat
    /\ DefaultMax \in Nat
    /\ MaxFootprint \in Nat \ {0}
    /\ RETRY_ATTEMPTS \in Nat \ {0}
    /\ BadSeqRecognised \in BOOLEAN
    /\ Signals \subseteq {"SIGTERM", "SIGINT"}
    /\ Troubles \subseteq {"mismatch", "rejected", "dropped", "late"}
    /\ MaxCycles \in Nat
    /\ MaxFaults \in Nat
    /\ MaxCrashes \in Nat

VARIABLES
    pc,         \* where the daemon's one task waits
    attempt,    \* failed attempts of the current cycle
    signal,     \* signals delivered and not yet received
    maxTtl,     \* max_entry_ttl as the daemon knows it
    (* the locals of run_cycle and submit_plan *)
    obs,        \* the observation of each key
    chunk,      \* the request observe_entries is at
    reference,  \* observed_ledger
    todo,       \* the plans not yet submitted, by group
    seqNum,     \* the sequence number of the transaction in hand
    first,      \* the kind of the error that set off the bad-sequence retry
    submitted,  \* plans accepted in this run of run_cycle
    (* history, read by properties and bounds only *)
    cycles,     \* cycles begun
    crashes,    \* crashes so far
    faults,     \* transport faults in the current or last cycle
    trouble,    \* everything else that went wrong for it
    served,     \* keys for which a transaction was queued in it
    exposed,    \* transactions sent in it and not refused, per key
    outcome     \* how the last cycle ended

loopVars == <<pc, attempt, signal, maxTtl>>
localVars == <<obs, chunk, reference, todo, seqNum, first, submitted>>
boundVars == <<cycles, crashes>>
historyVars == <<boundVars, faults, trouble, served, exposed, outcome>>
vars == <<nodeVars, cached, loopVars, localVars, historyVars>>

Submitting == {"sequence", "simulate", "send"}
InCycle == {"network", "observe", "plan"} \cup Submitting

-----------------------------------------------------------------------------
(* Plans: plan_extend_split as a function of the observations.             *)

NoObs == [k \in Keys |-> Observation(FALSE, 0, 0)]

(* Only live entries reach the planner, and only those at risk at the      *)
(* ledger they were observed at enter a plan.                              *)
Plan(g) ==
    {k \in Keys : /\ obs[k].state = "Live"
                  /\ IsAtRisk(obs[k].until, obs[k].at, Horizon)
                  /\ Group(Durability[k]) = g}

ExtendTo == ExtendToLedgers(Horizon, maxTtl)

(* A mistake: the other order.                                             *)
TemporaryFirst == IF "temporary" \in todo THEN "temporary" ELSE "persistent"

(* Plans are submitted in this order.                                      *)
Current == IF "persistent" \in todo THEN "persistent" ELSE "temporary"

Tx == [seq |-> seqNum, keys |-> Plan(Current), extendTo |-> ExtendTo]

(* Temporary entries trap on a target above the network's limit.           *)
Traps == Current = "temporary" /\ ExtendTo > NetMax

(* The reply to a simulation: an error, or no transactionData to adopt.    *)
SimulationFails == Traps \/ "rejected" \in Troubles

-----------------------------------------------------------------------------
(* How a run of run_cycle ends.                                            *)

DropLocals ==
    /\ obs' = NoObs
    /\ chunk' = 1
    /\ reference' = 0
    /\ todo' = {}
    /\ seqNum' = 0
    /\ first' = "none"
    /\ submitted' = 0

CycleOk ==
    /\ pc' = "select"
    /\ outcome' = "ok"
    /\ DropLocals
    /\ UNCHANGED attempt

(* Mistakes: one attempt too many, and attempts that are not counted.      *)
CycleFailsLate(kind) ==
    /\ attempt' = attempt + 1
    /\ IF attempt + 1 > RETRY_ATTEMPTS \/ kind # "Rpc"
       THEN pc' = "select" /\ outcome' = kind
       ELSE pc' = "backoff" /\ UNCHANGED outcome
    /\ DropLocals

CycleFailsUncounted(kind) ==
    /\ UNCHANGED attempt
    /\ IF attempt + 1 >= RETRY_ATTEMPTS \/ kind # "Rpc"
       THEN pc' = "select" /\ outcome' = kind
       ELSE pc' = "backoff" /\ UNCHANGED outcome
    /\ DropLocals

(* Err: only Rpc errors are transient, and attempts are bounded.           *)
CycleFails(kind) ==
    /\ attempt' = attempt + 1
    /\ IF attempt + 1 >= RETRY_ATTEMPTS \/ kind # "Rpc"
       THEN pc' = "select" /\ outcome' = kind
       ELSE pc' = "backoff" /\ UNCHANGED outcome
    /\ DropLocals

(* submit_plan failed, with the cache at `cache`: a bad sequence is tried  *)
(* once more with a fresh number, and when that fails too the first error  *)
(* is the one returned.                                                    *)
SubmitFails(kind, badSeq, cache) ==
    IF first = "none" /\ badSeq
    THEN /\ ReportFailure(TRUE)
         /\ first' = kind
         /\ pc' = "sequence"
         /\ seqNum' = 0
         /\ UNCHANGED <<attempt, outcome, obs, chunk, reference, todo, submitted>>
    ELSE /\ cached' = cache
         /\ CycleFails(IF first = "none" THEN kind ELSE first)

(* A mistake: the cycle ends with the first plan.                          *)
FirstPlanEnds == CycleOk

PlanAccepted ==
    IF todo = {Current}
    THEN CycleOk
    ELSE /\ todo' = todo \ {Current}
         /\ submitted' = submitted + 1
         /\ first' = "none"
         /\ seqNum' = 0
         /\ pc' = "sequence"
         /\ UNCHANGED <<attempt, outcome, obs, chunk, reference>>

(* A call that does not come back: refused, timed out, connection lost.    *)
Fault == faults < MaxFaults /\ faults' = faults + 1

Meets(t) == trouble' = trouble \cup {t}

-----------------------------------------------------------------------------
(* The process.                                                            *)

Start ==
    /\ pc = "down"
    /\ pc' = "select"
    /\ \/ maxTtl' = NetMax          \* ttl_constants answers
       \/ maxTtl' = DefaultMax      \* it does not: the built-in constants stay
    /\ UNCHANGED <<nodeVars, cached, attempt, signal, localVars, historyVars>>

Crash ==
    /\ pc \notin {"down", "stopped"}
    /\ crashes < MaxCrashes
    /\ crashes' = crashes + 1
    /\ pc' = "down"
    /\ attempt' = 0
    /\ signal' = {}
    /\ cached' = NoSeq
    /\ outcome' = "none"
    /\ DropLocals
    /\ UNCHANGED <<nodeVars, maxTtl, cycles, faults, trouble, served, exposed>>

Deliver ==
    /\ pc \notin {"down", "stopped"}
    /\ \E s \in Signals \ signal : signal' = signal \cup {s}
    /\ UNCHANGED <<nodeVars, cached, pc, attempt, maxTtl, localVars, historyVars>>

(* The signal branches of select!, which is polled between cycles only.    *)
Shutdown ==
    /\ pc = "select"
    /\ signal # {}
    /\ pc' = "stopped"
    /\ UNCHANGED <<nodeVars, cached, attempt, signal, maxTtl, localVars, historyVars>>

(* The tick branch.                                                        *)
Tick ==
    /\ pc = "select"
    /\ cycles < MaxCycles
    /\ pc' = "network"
    /\ attempt' = 0
    /\ cycles' = cycles + 1
    /\ faults' = 0
    /\ trouble' = IF queued > netSeq THEN {"pending"} ELSE {}
    /\ served' = {}
    /\ exposed' = [k \in Keys |-> 0]
    /\ outcome' = "none"
    /\ UNCHANGED <<nodeVars, cached, signal, maxTtl, localVars, crashes>>

(* A mistake: the count of attempts starts again.                          *)
RetryAnew ==
    /\ pc = "backoff"
    /\ pc' = "network"
    /\ attempt' = 0
    /\ UNCHANGED <<nodeVars, cached, signal, maxTtl, localVars, historyVars>>

Retry ==
    /\ pc = "backoff"
    /\ pc' = "network"
    /\ UNCHANGED <<nodeVars, cached, attempt, signal, maxTtl, localVars, historyVars>>

-----------------------------------------------------------------------------
(* run_cycle.                                                              *)

CheckNetwork ==
    /\ pc = "network"
    /\ \/ /\ pc' = "observe"
          /\ UNCHANGED <<attempt, localVars, faults, trouble, outcome>>
       \/ Fault /\ CycleFails("Rpc") /\ UNCHANGED trouble
       \/ /\ "mismatch" \in Troubles
          /\ Meets("mismatch")
          /\ CycleFails("Rpc")
          /\ UNCHANGED faults
    /\ UNCHANGED <<nodeVars, cached, signal, maxTtl, boundVars, served, exposed>>

(* A mistake: observed_ledger is that of the last row.                     *)
LastLedger == height

(* observed_ledger is that of the first row.                               *)
ObservedLedger == IF chunk = 1 THEN height ELSE reference

(* One chunk of observe_entries.                                           *)
ObserveChunk ==
    /\ pc = "observe"
    /\ \/ /\ obs' = [k \in Keys |-> IF ChunkOf[k] = chunk
                                    THEN Observation(k \in present, liveUntil[k], height)
                                    ELSE obs[k]]
          /\ reference' = ObservedLedger
          /\ IF chunk < Chunks
             THEN chunk' = chunk + 1 /\ UNCHANGED pc
             ELSE pc' = "plan" /\ UNCHANGED chunk
          /\ UNCHANGED <<attempt, todo, seqNum, first, submitted, faults, outcome>>
       \/ Fault /\ CycleFails("Rpc")
    /\ UNCHANGED <<nodeVars, cached, signal, maxTtl, boundVars, trouble, served, exposed>>

(* Empty groups are omitted; nothing at risk ends the cycle.               *)
MakePlans ==
    /\ pc = "plan"
    /\ LET groups == {g \in Groups : Plan(g) # {}}
       IN  IF groups = {}
           THEN CycleOk
           ELSE /\ todo' = groups
                /\ pc' = "sequence"
                /\ UNCHANGED <<attempt, outcome, obs, chunk, reference, seqNum, first, submitted>>
    /\ UNCHANGED <<nodeVars, cached, signal, maxTtl, boundVars, faults, trouble, served, exposed>>

-----------------------------------------------------------------------------
(* submit_plan: a number is taken, then the transaction is built,          *)
(* simulated, signed and sent.                                             *)

TakeSequence ==
    /\ pc = "sequence"
    /\ \/ cached = NoSeq /\ Fault /\ SubmitFails("Rpc", FALSE, cached) /\ UNCHANGED trouble
       \/ /\ Cardinality(Plan(Current)) <= MaxFootprint
          /\ NextSequence(netSeq)
          /\ seqNum' = NextSeq(netSeq)
          /\ pc' = "simulate"
          /\ UNCHANGED <<attempt, obs, chunk, reference, todo, first, submitted,
                         faults, trouble, outcome>>
       \/ /\ Cardinality(Plan(Current)) > MaxFootprint
          /\ SubmitFails("Transaction", FALSE, NextSeq(netSeq))
          /\ Meets("oversize")
          /\ UNCHANGED faults
    /\ UNCHANGED <<nodeVars, signal, maxTtl, boundVars, served, exposed>>

Simulate ==
    /\ pc = "simulate"
    /\ \/ /\ ~Traps
          /\ pc' = "send"
          /\ UNCHANGED <<cached, attempt, localVars, faults, trouble, outcome>>
       \/ Fault /\ SubmitFails("Rpc", FALSE, cached) /\ UNCHANGED trouble
       \/ /\ SimulationFails
          /\ SubmitFails("Transaction", FALSE, cached)
          /\ Meets("rejected")
          /\ UNCHANGED faults
    /\ UNCHANGED <<nodeVars, signal, maxTtl, boundVars, served, exposed>>

Serve == served' = served \cup UNION {tx.keys : tx \in mempool' \ mempool}
Expose == [k \in Keys |-> IF k \in Tx.keys THEN exposed[k] + 1 ELSE exposed[k]]

SendQueued ==
    /\ Accepts(Tx)
    /\ Enqueue(Tx)
    /\ Serve
    /\ exposed' = Expose
    /\ \/ PlanAccepted /\ UNCHANGED <<cached, faults>>
       \/ Fault /\ SubmitFails("Rpc", FALSE, cached)     \* the answer is lost
    /\ UNCHANGED <<inFlight, trouble>>

SendKnown ==
    /\ ~Accepts(Tx)
    /\ IsDuplicate(Tx)
    /\ PlanAccepted
    /\ UNCHANGED <<cached, queued, mempool, inFlight, faults, trouble, served, exposed>>

SendRefused ==
    /\ \/ BadSeq(Tx) /\ SubmitFails("Rpc", BadSeqRecognised, cached) /\ UNCHANGED trouble
       \/ /\ "rejected" \in Troubles
          /\ SubmitFails("Rpc", FALSE, cached)
          /\ Meets("rejected")
    /\ UNCHANGED <<queued, mempool, inFlight, faults, served, exposed>>

(* The request is given up on; it may still arrive.                        *)
SendLost ==
    /\ Fault
    /\ inFlight' = IF "late" \in Troubles THEN inFlight \cup {Tx} ELSE inFlight
    /\ exposed' = Expose
    /\ SubmitFails("Rpc", FALSE, cached)
    /\ UNCHANGED <<queued, mempool, trouble, served>>

Send ==
    /\ pc = "send"
    /\ SendQueued \/ SendKnown \/ SendRefused \/ SendLost
    /\ UNCHANGED <<height, liveUntil, present, netSeq, foreign, signal, maxTtl, boundVars>>

-----------------------------------------------------------------------------
KeeperStep ==
    \/ CheckNetwork \/ ObserveChunk \/ MakePlans
    \/ TakeSequence \/ Simulate \/ Send \/ Retry

ProcessStep == Start \/ Crash \/ Deliver \/ Shutdown \/ Tick

NodeStep ==
    /\ \/ (CloseLedger \/ ApplyNext \/ Evict) /\ UNCHANGED <<trouble, served>>
       \/ ArriveLate /\ Serve /\ Meets("late")
       \/ ForeignSubmit /\ Meets("foreign") /\ UNCHANGED served
       \/ "dropped" \in Troubles /\ DropQueued /\ Meets("dropped") /\ UNCHANGED served
    /\ UNCHANGED <<cached, loopVars, localVars, boundVars, faults, exposed, outcome>>

Init ==
    /\ NodeInit
    /\ TrackerInit
    /\ pc = "down"
    /\ attempt = 0
    /\ signal = {}
    /\ maxTtl = DefaultMax
    /\ obs = NoObs
    /\ chunk = 1
    /\ reference = 0
    /\ todo = {}
    /\ seqNum = 0
    /\ first = "none"
    /\ submitted = 0
    /\ cycles = 0
    /\ crashes = 0
    /\ faults = 0
    /\ trouble = {}
    /\ served = {}
    /\ exposed = [k \in Keys |-> 0]
    /\ outcome = "none"

Next == KeeperStep \/ ProcessStep \/ NodeStep

Spec == Init /\ [][Next]_vars

(* Every call returns or times out.                                        *)
Fairness == WF_vars(KeeperStep)

FairSpec == Spec /\ Fairness

-----------------------------------------------------------------------------
(* Properties.                                                             *)

ObservationSet ==
    [at : Nat, state : {"Live", "ExpiredButPresent", "Archived"}, until : Nat]

ErrorKind == {"Rpc", "Transaction"}

ControlTypeOK ==
    /\ cached \in Nat \cup {NoSeq}
    /\ pc \in {"down", "select", "backoff", "stopped"} \cup InCycle
    /\ attempt \in 0..RETRY_ATTEMPTS
    /\ signal \subseteq Signals
    /\ maxTtl \in Nat
    /\ outcome \in {"none", "ok"} \cup ErrorKind

LocalTypeOK ==
    /\ obs \in [Keys -> ObservationSet]
    /\ chunk \in 1..Chunks
    /\ reference \in Nat
    /\ todo \subseteq Groups
    /\ seqNum \in Nat
    /\ first \in {"none"} \cup ErrorKind
    /\ submitted \in Nat

HistoryTypeOK ==
    /\ cycles \in Nat
    /\ crashes \in Nat
    /\ faults \in Nat
    /\ trouble \subseteq {"pending", "foreign", "late", "mismatch", "rejected", "dropped", "oversize"}
    /\ served \subseteq Keys
    /\ exposed \in [Keys -> Nat]

(* Every variable has its type, and the count of failed attempts stays     *)
(* where run_loop keeps it.                                                *)
TypeOK == NodeTypeOK /\ ControlTypeOK /\ LocalTypeOK /\ HistoryTypeOK

(* A plan restates its entries against the ledger of the first chunk       *)
(* (renormalize_ttl) although later chunks are read at later ledgers: the  *)
(* u64 subtraction behind its TTLs never wraps.                            *)
PlanTtlSound ==
    pc \in Submitting => \A g \in Groups : \A k \in Plan(g) : obs[k].until > reference

(* The inductive strengthening of PlanTtlSound: nothing of an observation  *)
(* outlives its cycle, and the first chunk, which fixes the reference,     *)
(* finds nothing observed before it.                                       *)
ObservationInv ==
    /\ reference <= height
    /\ pc \notin {"observe", "plan"} \cup Submitting => obs = NoObs /\ chunk = 1
    /\ pc = "observe" /\ chunk = 1 => obs = NoObs
    /\ \A k \in Keys : obs[k].state = "Live" => obs[k].until > reference

(* Retrying a whole cycle after a failure that hid an accepted submission  *)
(* puts a second transaction for the same entry out.  Those that are, or   *)
(* may yet be, queued and paid for are never more than the attempts.       *)
FeeExposure == \A k \in Keys : exposed[k] <= RETRY_ATTEMPTS

(* The inductive strengthening of FeeExposure: an attempt puts out at most *)
(* one transaction for an entry, and does so by taking its plan from todo. *)
Allowance(k) ==
    IF pc \in Submitting /\ Group(Durability[k]) \notin todo THEN attempt + 1
    ELSE IF pc \in InCycle \cup {"backoff"} THEN attempt
    ELSE RETRY_ATTEMPTS

AttemptsLeft == pc \in InCycle \cup {"backoff"} => attempt < RETRY_ATTEMPTS

FeeInv ==
    /\ AttemptsLeft
    /\ pc \in Submitting => todo # {}
    /\ \A k \in Keys : exposed[k] <= Allowance(k)

(* Whatever the cache was left with by earlier cycles, crashes and foreign *)
(* submissions: a cycle that begins with nothing of the account queued     *)
(* succeeds if at most one call of it is lost and nothing else goes wrong. *)
SingleFaultRecovered ==
    outcome \in ErrorKind => faults > 1 \/ trouble # {}

(* Temporary entries are submitted only after every persistent entry at    *)
(* risk has been, so that what they trap on cannot cost persistent ones.   *)
PersistentFirst ==
    pc \in Submitting /\ Current = "temporary" /\ "pending" \notin trouble
        => Plan("persistent") \subseteq served

(* A cycle reported as successful has had every live entry it saw at risk  *)
(* queued at the node.                                                     *)
SuccessMeansSubmitted ==
    [][(pc \in InCycle /\ outcome' = "ok" /\ "pending" \notin trouble)
        => (\A g \in Groups : Plan(g) \subseteq served')]_vars

(* The inductive strengthening of the two.  The numbers of the keeper's    *)
(* queued transactions are those the account has not committed yet.        *)
QueueInv ==
    /\ netSeq <= queued
    /\ \A tx \in mempool : netSeq < tx.seq /\ tx.seq <= queued

(* What is queued of this cycle is in served.                              *)
MempoolServed == "pending" \notin trouble => \A tx \in mempool : tx.keys \subseteq served

(* A plan leaves todo only when its entries are.                           *)
PlansServed ==
    pc \in Submitting /\ "pending" \notin trouble =>
        \A g \in Groups \ todo : Plan(g) \subseteq served

OutcomeOpen == pc \in InCycle \cup {"backoff"} => outcome = "none"

SubmissionInv == QueueInv /\ MempoolServed /\ PlansServed /\ OutcomeOpen

(* Every cycle ends, however its calls fail.                               *)
CycleTerminates == pc \in InCycle \cup {"backoff"} ~> pc \in {"select", "stopped", "down"}

(* The daemon's loop, whatever run_cycle does in it, is that of RunLoop.   *)
LoopPc == IF pc \in InCycle THEN "cycle" ELSE pc
Loop == INSTANCE RunLoop WITH pc <- LoopPc
ImplementsRunLoop == Loop!Spec

-----------------------------------------------------------------------------
(* What the documents say and the code does not do.                        *)

(* sequence.rs: "a foreign submission from the same account does not stall *)
(* protection for a whole poll interval."                                  *)
ForeignDoesNotStall ==
    outcome \in ErrorKind => faults > 0 \/ ~(trouble \subseteq {"foreign", "pending"})

(* README: "builds an ExtendFootprintTtl transaction for every entry at or *)
(* below the risk window": at the end of a cycle that nothing disturbed.   *)
EveryEntryExtended ==
    [][(pc \in InCycle /\ outcome' # "none" /\ faults' = 0 /\ trouble' \subseteq {"oversize"})
        => (\A g \in Groups : Plan(g) \subseteq served')]_vars
=============================================================================
