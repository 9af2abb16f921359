-------------------------- MODULE RentKeeper_proofs --------------------------
(***************************************************************************)
(* Theorems about the daemon for every set of keys, every size of its      *)
(* constants and any number of cycles, faults and crashes.                 *)
(***************************************************************************)
EXTENDS RentKeeper, TLAPS

Assumptions == WordAssumption /\ LedgerAssumption /\ NodeAssumption /\ NoSeqAssumption /\ KeeperAssumption

(* What the ends of run_cycle and submit_plan decide together.             *)
ReturnTypeOK ==
    /\ pc \in {"down", "select", "backoff", "stopped"} \cup InCycle
    /\ attempt \in 0..RETRY_ATTEMPTS
    /\ outcome \in {"none", "ok"} \cup ErrorKind
    /\ LocalTypeOK
    /\ AttemptsLeft

-----------------------------------------------------------------------------
LEMMA ObservationType ==
    ASSUME NEW here \in BOOLEAN, NEW until \in Nat, NEW latest \in Nat
    PROVE  Observation(here, until, latest) \in ObservationSet
BY DEF Observation, ObservationSet

LEMMA DropLocalsType == DropLocals => LocalTypeOK'
<1> SUFFICES ASSUME DropLocals PROVE LocalTypeOK'
    OBVIOUS
<1>1. NoObs \in [Keys -> ObservationSet]
    BY ObservationType DEF NoObs
<1>2. 1 \in 1..Chunks
    BY KeeperAssumption
<1> QED
    BY <1>1, <1>2 DEF DropLocals, LocalTypeOK, Groups, ErrorKind

LEMMA CycleOkType ==
    ASSUME TypeOK, CycleOk
    PROVE  ReturnTypeOK'
BY DropLocalsType DEF CycleOk, TypeOK, ControlTypeOK, ReturnTypeOK, AttemptsLeft, InCycle, Submitting

LEMMA CycleFailsType ==
    ASSUME TypeOK, attempt < RETRY_ATTEMPTS, NEW kind \in ErrorKind, CycleFails(kind)
    PROVE  ReturnTypeOK'
<1>1. attempt' \in 0..RETRY_ATTEMPTS
    BY KeeperAssumption DEF TypeOK, ControlTypeOK, CycleFails
<1>2. /\ pc' \in {"select", "backoff"}
      /\ pc' = "backoff" => attempt' < RETRY_ATTEMPTS
      /\ outcome' \in {"none", "ok"} \cup ErrorKind
    BY KeeperAssumption, <1>1 DEF TypeOK, ControlTypeOK, CycleFails
<1>3. LocalTypeOK'
    BY DropLocalsType DEF CycleFails
<1> QED
    BY <1>1, <1>2, <1>3 DEF ReturnTypeOK, AttemptsLeft, InCycle, Submitting

LEMMA SubmitFailsType ==
    ASSUME TypeOK, attempt < RETRY_ATTEMPTS,
           NEW kind \in ErrorKind, NEW badSeq \in BOOLEAN, NEW cache \in Nat \cup {NoSeq},
           SubmitFails(kind, badSeq, cache)
    PROVE  ReturnTypeOK' /\ cached' \in Nat \cup {NoSeq}
<1>1. CASE first = "none" /\ badSeq
    BY <1>1 DEF SubmitFails, ReportFailure, TypeOK, ControlTypeOK, LocalTypeOK,
                ReturnTypeOK, AttemptsLeft, InCycle, Submitting
<1>2. CASE ~(first = "none" /\ badSeq)
  <2> DEFINE error == IF first = "none" THEN kind ELSE first
  <2>1. error \in ErrorKind
    BY DEF TypeOK, LocalTypeOK
  <2>2. CycleFails(error) /\ cached' = cache
    BY <1>2 DEF SubmitFails
  <2> QED
    BY <2>1, <2>2, CycleFailsType
<1> QED
    BY <1>1, <1>2

LEMMA PlanAcceptedType ==
    ASSUME TypeOK, AttemptsLeft, pc \in Submitting, PlanAccepted
    PROVE  ReturnTypeOK'
<1>1. CASE todo = {Current}
    BY <1>1, CycleOkType DEF PlanAccepted
<1>2. CASE todo # {Current}
    BY <1>2 DEF PlanAccepted, TypeOK, ControlTypeOK, LocalTypeOK,
                ReturnTypeOK, AttemptsLeft, InCycle, Submitting
<1> QED
    BY <1>1, <1>2

-----------------------------------------------------------------------------
(* The type invariant.  AttemptsLeft is needed with it: it is why a failed *)
(* attempt leaves the count within RETRY_ATTEMPTS.                         *)
TypeInv == TypeOK /\ AttemptsLeft

LEMMA TransactionType == TypeOK => Tx \in Transaction
<1> SUFFICES ASSUME TypeOK PROVE Tx \in Transaction
    OBVIOUS
<1>1. ExtendTo \in Nat
    BY KeeperAssumption DEF ExtendTo, ExtendToLedgers, MinOf, TypeOK, ControlTypeOK
<1>2. Plan(Current) \subseteq Keys
    BY DEF Plan
<1>3. seqNum \in Nat
    BY DEF TypeOK, LocalTypeOK
<1> QED
    BY <1>1, <1>2, <1>3 DEF Tx, Transaction

LEMMA NextSeqType == TypeOK => NextSeq(netSeq) \in Nat
BY DEF TypeOK, NodeTypeOK, LedgerTypeOK, ControlTypeOK, NextSeq

LEMMA ExtendedType ==
    ASSUME TypeOK, NEW tx \in mempool
    PROVE  Extended(tx) \in [Keys -> Nat]
<1>1. tx.extendTo \in Nat /\ height \in Nat /\ liveUntil \in [Keys -> Nat]
    BY DEF TypeOK, NodeTypeOK, LedgerTypeOK, Transaction
<1>2. height + (IF tx.extendTo <= NetMax THEN tx.extendTo ELSE NetMax) \in Nat
    BY <1>1, LedgerAssumption, NodeAssumption
<1> QED
    BY <1>1, <1>2 DEF Extended, Bumped

LEMMA InitType == Init => TypeInv
<1> SUFFICES ASSUME Init PROVE TypeInv
    OBVIOUS
<1>1. NodeTypeOK
    BY LedgerAssumption, NodeAssumption DEF Init, NodeInit, LedgerInit, NodeTypeOK, LedgerTypeOK
<1>2. ControlTypeOK
    BY KeeperAssumption DEF Init, TrackerInit, ControlTypeOK
<1>3. LocalTypeOK
    <2>1. NoObs \in [Keys -> ObservationSet]
        BY ObservationType DEF NoObs
    <2> QED
        BY <2>1, KeeperAssumption DEF Init, LocalTypeOK
<1>4. HistoryTypeOK
    BY DEF Init, HistoryTypeOK
<1>5. AttemptsLeft
    BY DEF Init, AttemptsLeft, InCycle, Submitting
<1> QED
    BY <1>1, <1>2, <1>3, <1>4, <1>5 DEF TypeInv, TypeOK

LEMMA ProcessStepType == TypeInv /\ ProcessStep => TypeInv'
<1> SUFFICES ASSUME TypeInv, ProcessStep PROVE TypeInv'
    OBVIOUS
<1> USE DEF TypeInv, TypeOK
<1>1. CASE Start
    BY <1>1, LedgerAssumption, NodeAssumption, KeeperAssumption
    DEF Start, nodeVars, localVars, historyVars, boundVars, NodeTypeOK, LedgerTypeOK, ControlTypeOK,
        LocalTypeOK, HistoryTypeOK, AttemptsLeft, InCycle, Submitting
<1>2. CASE Crash
    <2>1. LocalTypeOK'
        BY <1>2, DropLocalsType DEF Crash
    <2>2. NodeTypeOK' /\ HistoryTypeOK'
        BY <1>2 DEF Crash, nodeVars, NodeTypeOK, LedgerTypeOK, HistoryTypeOK
    <2>3. ControlTypeOK' /\ AttemptsLeft'
        BY <1>2, KeeperAssumption DEF Crash, ControlTypeOK, AttemptsLeft, InCycle, Submitting
    <2> QED
        BY <2>1, <2>2, <2>3
<1>3. CASE Deliver
    BY <1>3
    DEF Deliver, nodeVars, localVars, historyVars, boundVars, NodeTypeOK, LedgerTypeOK, ControlTypeOK,
        LocalTypeOK, HistoryTypeOK, AttemptsLeft
<1>4. CASE Shutdown
    BY <1>4
    DEF Shutdown, nodeVars, localVars, historyVars, boundVars, NodeTypeOK, LedgerTypeOK, ControlTypeOK,
        LocalTypeOK, HistoryTypeOK, AttemptsLeft, InCycle, Submitting
<1>5. CASE Tick
    <2>1. NodeTypeOK' /\ LocalTypeOK'
        BY <1>5 DEF Tick, nodeVars, localVars, NodeTypeOK, LedgerTypeOK, LocalTypeOK
    <2>2. HistoryTypeOK'
        BY <1>5 DEF Tick, HistoryTypeOK
    <2>3. ControlTypeOK' /\ AttemptsLeft'
        BY <1>5, KeeperAssumption DEF Tick, ControlTypeOK, AttemptsLeft, InCycle, Submitting
    <2> QED
        BY <2>1, <2>2, <2>3
<1> QED
    BY <1>1, <1>2, <1>3, <1>4, <1>5 DEF ProcessStep

LEMMA NodeStepType == TypeInv /\ NodeStep => TypeInv'
<1> SUFFICES ASSUME TypeInv, NodeStep PROVE TypeInv'
    OBVIOUS
<1> USE DEF TypeInv, TypeOK
<1>1. ControlTypeOK' /\ LocalTypeOK' /\ AttemptsLeft'
    BY DEF NodeStep, loopVars, localVars, ControlTypeOK, LocalTypeOK, AttemptsLeft
<1>2. NodeTypeOK' /\ served' \subseteq Keys
    <2> USE DEF NodeTypeOK, LedgerTypeOK, HistoryTypeOK
    <2>1. CASE CloseLedger /\ UNCHANGED served
        BY <2>1 DEF CloseLedger, LedgerCloses
    <2>2. CASE ApplyNext /\ UNCHANGED served
        BY <2>2, ExtendedType DEF ApplyNext
    <2>3. CASE Evict /\ UNCHANGED served
        BY <2>3 DEF Evict, EntryEvicted
    <2>4. CASE ArriveLate /\ Serve
        <3>1. NodeTypeOK'
            BY <2>4 DEF ArriveLate, Enqueue
        <3>2. \A tx \in mempool' : tx.keys \subseteq Keys
            BY <3>1 DEF Transaction
        <3> QED
            BY <3>1, <3>2, <2>4 DEF Serve
    <2>5. CASE ForeignSubmit /\ UNCHANGED served
        BY <2>5 DEF ForeignSubmit
    <2>6. CASE DropQueued /\ UNCHANGED served
        <3>1. PICK s \in netSeq..(queued - 1) :
                 queued' = s /\ mempool' = {tx \in mempool : tx.seq <= s}
            BY <2>6 DEF DropQueued
        <3> QED
            BY <3>1, <2>6 DEF DropQueued
    <2> QED
        BY <2>1, <2>2, <2>3, <2>4, <2>5, <2>6 DEF NodeStep
<1>3. HistoryTypeOK'
    BY <1>2 DEF NodeStep, HistoryTypeOK, boundVars, Meets
<1> QED
    BY <1>1, <1>2, <1>3

(* The steps of run_cycle: each either moves on or returns.                *)
LEMMA KeeperStepType == TypeInv /\ KeeperStep => TypeInv'
<1> SUFFICES ASSUME TypeInv, KeeperStep PROVE TypeInv'
    OBVIOUS
<1> USE DEF TypeInv, TypeOK
<1>a. attempt < RETRY_ATTEMPTS
    BY DEF AttemptsLeft, InCycle, Submitting, KeeperStep, CheckNetwork, ObserveChunk,
           MakePlans, TakeSequence, Simulate, Send, Retry
<1>b. cached \in Nat \cup {NoSeq} /\ NextSeq(netSeq) \in Nat
    BY NextSeqType DEF ControlTypeOK
<1>1. CASE CheckNetwork
    <2>1. ReturnTypeOK'
        <3>1. CASE /\ pc' = "observe"
                   /\ UNCHANGED <<attempt, localVars, outcome>>
            BY <3>1, <1>a DEF localVars, ReturnTypeOK, ControlTypeOK, LocalTypeOK,
                              AttemptsLeft, InCycle, Submitting
        <3>2. CASE CycleFails("Rpc")
            BY <3>2, <1>a, CycleFailsType DEF ErrorKind
        <3> QED
            BY <1>1, <3>1, <3>2 DEF CheckNetwork
    <2>2. NodeTypeOK'
        BY <1>1 DEF CheckNetwork, nodeVars, NodeTypeOK, LedgerTypeOK
    <2>3. HistoryTypeOK'
        <3>1. trouble' \subseteq trouble \cup {"mismatch", "rejected", "oversize"}
            BY <1>1 DEF CheckNetwork, Meets
        <3>2. faults' \in Nat
            BY <1>1 DEF CheckNetwork, Fault, HistoryTypeOK
        <3> QED
            BY <1>1, <3>1, <3>2 DEF CheckNetwork, boundVars, HistoryTypeOK
    <2> QED
        BY <1>1, <2>1, <2>2, <2>3 DEF CheckNetwork, ReturnTypeOK, ControlTypeOK
<1>2. CASE ObserveChunk
    <2>1. ReturnTypeOK'
        <3>1. CASE CycleFails("Rpc")
            BY <3>1, <1>a, CycleFailsType DEF ErrorKind
        <3>2. CASE ~CycleFails("Rpc")
            <4>1. \A k \in Keys :
                     Observation(k \in present, liveUntil[k], height) \in ObservationSet
                BY ObservationType, \A k \in Keys : (k \in present) \in BOOLEAN DEF NodeTypeOK, LedgerTypeOK
            <4>2. obs' \in [Keys -> ObservationSet]
                BY <1>2, <3>2, <4>1 DEF ObserveChunk, LocalTypeOK
            <4>3. reference' \in Nat
                BY <1>2, <3>2 DEF ObserveChunk, ObservedLedger, NodeTypeOK, LedgerTypeOK, LocalTypeOK
            <4>4. chunk' \in 1..Chunks
                BY <1>2, <3>2, KeeperAssumption DEF ObserveChunk, LocalTypeOK
            <4>5. pc' \in {"observe", "plan"} /\ UNCHANGED <<attempt, outcome, todo, seqNum, first, submitted>>
                BY <1>2, <3>2 DEF ObserveChunk
            <4> QED
                BY <4>2, <4>3, <4>4, <4>5, <1>a
                DEF ReturnTypeOK, ControlTypeOK, LocalTypeOK, AttemptsLeft, InCycle, Submitting
        <3> QED
            BY <3>1, <3>2
    <2>2. NodeTypeOK' /\ HistoryTypeOK'
        BY <1>2 DEF ObserveChunk, nodeVars, boundVars, Fault, NodeTypeOK, LedgerTypeOK, HistoryTypeOK
    <2> QED
        BY <1>2, <2>1, <2>2 DEF ObserveChunk, ReturnTypeOK, ControlTypeOK
<1>3. CASE MakePlans
    <2>1. ReturnTypeOK'
        <3>1. CASE CycleOk
            BY <3>1, CycleOkType
        <3>2. CASE ~CycleOk
            <4>1. todo' \subseteq Groups /\ pc' = "sequence"
                  /\ UNCHANGED <<attempt, outcome, obs, chunk, reference, seqNum, first, submitted>>
                BY <1>3, <3>2 DEF MakePlans
            <4> QED
                BY <4>1, <1>a
                DEF ReturnTypeOK, ControlTypeOK, LocalTypeOK, AttemptsLeft, InCycle, Submitting
        <3> QED
            BY <3>1, <3>2
    <2>2. NodeTypeOK' /\ HistoryTypeOK'
        BY <1>3 DEF MakePlans, nodeVars, boundVars, NodeTypeOK, LedgerTypeOK, HistoryTypeOK
    <2> QED
        BY <1>3, <2>1, <2>2 DEF MakePlans, ReturnTypeOK, ControlTypeOK
<1>4. CASE TakeSequence
    <2>1. ReturnTypeOK' /\ cached' \in Nat \cup {NoSeq}
        <3>1. CASE SubmitFails("Rpc", FALSE, cached)
            BY <3>1, <1>a, <1>b, SubmitFailsType DEF ErrorKind
        <3>2. CASE SubmitFails("Transaction", FALSE, NextSeq(netSeq))
            BY <3>2, <1>a, <1>b, SubmitFailsType DEF ErrorKind
        <3>3. CASE /\ cached' = NextSeq(netSeq)
                   /\ seqNum' = NextSeq(netSeq)
                   /\ pc' = "simulate"
                   /\ UNCHANGED <<attempt, obs, chunk, reference, todo, first, submitted, outcome>>
            BY <3>3, <1>a, <1>b
            DEF ReturnTypeOK, ControlTypeOK, LocalTypeOK, AttemptsLeft, InCycle, Submitting
        <3> QED
            BY <1>4, <3>1, <3>2, <3>3 DEF TakeSequence, NextSequence
    <2>2. NodeTypeOK'
        BY <1>4 DEF TakeSequence, nodeVars, NodeTypeOK, LedgerTypeOK
    <2>3. HistoryTypeOK'
        <3>1. trouble' \subseteq trouble \cup {"mismatch", "rejected", "oversize"}
            BY <1>4 DEF TakeSequence, Meets
        <3>2. faults' \in Nat
            <4>1. faults' = faults \/ faults' = faults + 1
                BY <1>4 DEF TakeSequence, Fault
            <4> QED
                BY <4>1 DEF HistoryTypeOK
        <3> QED
            BY <1>4, <3>1, <3>2 DEF TakeSequence, boundVars, HistoryTypeOK
    <2> QED
        BY <1>4, <2>1, <2>2, <2>3 DEF TakeSequence, ReturnTypeOK, ControlTypeOK
<1>5. CASE Simulate
    <2>1. ReturnTypeOK' /\ cached' \in Nat \cup {NoSeq}
        <3>1. CASE SubmitFails("Rpc", FALSE, cached)
            BY <3>1, <1>a, <1>b, SubmitFailsType DEF ErrorKind
        <3>2. CASE SubmitFails("Transaction", FALSE, cached)
            BY <3>2, <1>a, <1>b, SubmitFailsType DEF ErrorKind
        <3>3. CASE pc' = "send" /\ UNCHANGED <<cached, attempt, localVars, outcome>>
            BY <3>3, <1>a, <1>b
            DEF localVars, ReturnTypeOK, ControlTypeOK, LocalTypeOK, AttemptsLeft, InCycle, Submitting
        <3> QED
            BY <1>5, <3>1, <3>2, <3>3 DEF Simulate
    <2>2. NodeTypeOK'
        BY <1>5 DEF Simulate, nodeVars, NodeTypeOK, LedgerTypeOK
    <2>3. HistoryTypeOK'
        <3>1. trouble' \subseteq trouble \cup {"mismatch", "rejected", "oversize"}
            BY <1>5 DEF Simulate, Meets
        <3>2. faults' \in Nat
            <4>1. faults' = faults \/ faults' = faults + 1
                BY <1>5 DEF Simulate, Fault
            <4> QED
                BY <4>1 DEF HistoryTypeOK
        <3> QED
            BY <1>5, <3>1, <3>2 DEF Simulate, boundVars, HistoryTypeOK
    <2> QED
        BY <1>5, <2>1, <2>2, <2>3 DEF Simulate, ReturnTypeOK, ControlTypeOK
<1>6. CASE Send
    <2>1. ReturnTypeOK' /\ cached' \in Nat \cup {NoSeq}
        <3>1. CASE SubmitFails("Rpc", FALSE, cached)
            BY <3>1, <1>a, <1>b, SubmitFailsType DEF ErrorKind
        <3>2. CASE SubmitFails("Rpc", BadSeqRecognised, cached)
            BY <3>2, <1>a, <1>b, KeeperAssumption, SubmitFailsType DEF ErrorKind
        <3>3. CASE PlanAccepted /\ UNCHANGED cached
            BY <3>3, <1>6, <1>b, PlanAcceptedType DEF Send, Submitting
        <3> QED
            BY <1>6, <3>1, <3>2, <3>3 DEF Send, SendQueued, SendKnown, SendRefused, SendLost
    <2>2. NodeTypeOK' /\ served' \subseteq Keys
        <3>1. Tx \in Transaction
            BY TransactionType
        <3>2. NodeTypeOK'
            <4>1. queued' \in {queued, queued + 1} /\ mempool' \subseteq mempool \cup {Tx}
                  /\ inFlight' \subseteq inFlight \cup {Tx}
                BY <1>6 DEF Send, SendQueued, SendKnown, SendRefused, SendLost, Enqueue
            <4> QED
                BY <1>6, <3>1, <4>1 DEF Send, NodeTypeOK, LedgerTypeOK
        <3>3. \A tx \in mempool' : tx.keys \subseteq Keys
            BY <3>2 DEF NodeTypeOK, LedgerTypeOK, Transaction
        <3> QED
            BY <1>6, <3>2, <3>3
            DEF Send, SendQueued, SendKnown, SendRefused, SendLost, Serve, HistoryTypeOK
    <2>3. exposed' \in [Keys -> Nat]
        <3>1. Expose \in [Keys -> Nat]
            BY DEF Expose, HistoryTypeOK
        <3> QED
            BY <1>6, <3>1 DEF Send, SendQueued, SendKnown, SendRefused, SendLost, HistoryTypeOK
    <2>4. HistoryTypeOK'
        <3>1. trouble' \subseteq trouble \cup {"rejected"}
            BY <1>6 DEF Send, SendQueued, SendKnown, SendRefused, SendLost, Meets
        <3>2. faults' \in Nat
            <4>1. faults' = faults \/ faults' = faults + 1
                BY <1>6 DEF Send, SendQueued, SendKnown, SendRefused, SendLost, Fault
            <4> QED
                BY <4>1 DEF HistoryTypeOK
        <3> QED
            BY <1>6, <2>2, <2>3, <3>1, <3>2 DEF Send, boundVars, HistoryTypeOK
    <2> QED
        BY <1>6, <2>1, <2>2, <2>4 DEF Send, ReturnTypeOK, ControlTypeOK
<1>7. CASE Retry
    BY <1>7, <1>a
    DEF Retry, nodeVars, localVars, historyVars, boundVars, NodeTypeOK, LedgerTypeOK, ControlTypeOK,
        LocalTypeOK, HistoryTypeOK, AttemptsLeft, InCycle
<1> QED
    BY <1>1, <1>2, <1>3, <1>4, <1>5, <1>6, <1>7 DEF KeeperStep

LEMMA TypeStep == TypeInv /\ [Next]_vars => TypeInv'
<1>1. TypeInv /\ UNCHANGED vars => TypeInv'
    BY DEF vars, nodeVars, loopVars, localVars, historyVars, boundVars, TypeInv, TypeOK,
           NodeTypeOK, LedgerTypeOK, ControlTypeOK, LocalTypeOK, HistoryTypeOK, AttemptsLeft
<1> QED
    BY <1>1, KeeperStepType, ProcessStepType, NodeStepType DEF Next

LEMMA TypeInvariant == Spec => []TypeInv
BY InitType, TypeStep, PTL DEF Spec

(* Every variable of the daemon and of the node keeps its type, and a      *)
(* cycle is never attempted more than RETRY_ATTEMPTS times.                *)
THEOREM TypeCorrect == Spec => []TypeOK
<1>1. TypeInv => TypeOK
    BY DEF TypeInv
<1> QED
    BY <1>1, TypeInvariant, PTL

-----------------------------------------------------------------------------
(* The exposure to fees.  While the plan of an entry's group is in todo,   *)
(* this attempt has put nothing out for the entry; once the plan has been  *)
(* taken from todo, at most one transaction.  A run of run_cycle therefore *)
(* ends with at most one transaction more than the attempts before it.     *)
ExposureBy(n) == \A k \in Keys : exposed[k] <= n

LEMMA CurrentInTodo ==
    ASSUME TypeInv, FeeInv, pc \in Submitting
    PROVE  Current \in todo
BY DEF TypeInv, TypeOK, LocalTypeOK, FeeInv, Current, Groups

LEMMA ExposureInCycle ==
    ASSUME TypeInv, FeeInv, pc \in InCycle
    PROVE  ExposureBy(attempt + 1) /\ attempt < RETRY_ATTEMPTS
<1>1. attempt < RETRY_ATTEMPTS
    BY DEF FeeInv, AttemptsLeft
<1>2. ASSUME NEW k \in Keys PROVE exposed[k] <= attempt + 1
    BY KeeperAssumption DEF FeeInv, Allowance, TypeInv, TypeOK, ControlTypeOK, HistoryTypeOK
<1> QED
    BY <1>1, <1>2 DEF ExposureBy

(* Sending the plan in hand.                                               *)
LEMMA ExposeAllows ==
    ASSUME TypeInv, FeeInv, pc \in Submitting
    PROVE  \A k \in Keys : Expose[k] <= attempt + 1
<1> TAKE k \in Keys
<1>1. exposed[k] \in Nat /\ attempt \in Nat
    BY KeeperAssumption DEF TypeInv, TypeOK, ControlTypeOK, HistoryTypeOK
<1>2. CASE k \in Tx.keys
    <2>1. Group(Durability[k]) \in todo
        BY <1>2, CurrentInTodo DEF Tx, Plan
    <2>2. exposed[k] <= attempt
        BY <2>1 DEF FeeInv, Allowance, InCycle
    <2> QED
        BY <1>1, <1>2, <2>2 DEF Expose
<1>3. CASE k \notin Tx.keys
    BY <1>3, ExposureInCycle DEF Expose, ExposureBy, InCycle
<1> QED
    BY <1>2, <1>3

LEMMA ReturnFee ==
    ASSUME TypeInv, TypeInv', FeeInv, pc \in InCycle, NEW kind,
           CycleOk \/ CycleFails(kind),
           \A k \in Keys : exposed'[k] <= attempt + 1
    PROVE  FeeInv'
<1>1. attempt < RETRY_ATTEMPTS
    BY ExposureInCycle
<1>2. pc' = "select" \/ (pc' = "backoff" /\ attempt' = attempt + 1)
    BY DEF CycleOk, CycleFails
<1>3. ASSUME NEW k \in Keys PROVE exposed'[k] <= Allowance(k)'
    <2>1. exposed'[k] \in Nat /\ attempt \in Nat
        BY KeeperAssumption DEF TypeInv, TypeOK, ControlTypeOK, HistoryTypeOK
    <2>2. exposed'[k] <= attempt + 1
        OBVIOUS
    <2> QED
        BY <1>1, <1>2, <2>1, <2>2, KeeperAssumption DEF Allowance, InCycle, Submitting
<1> QED
    BY <1>2, <1>3 DEF FeeInv, TypeInv, Submitting

LEMMA SubmitFailsFee ==
    ASSUME TypeInv, TypeInv', FeeInv, pc \in Submitting,
           NEW kind, NEW badSeq \in BOOLEAN, NEW cache, SubmitFails(kind, badSeq, cache),
           exposed' = exposed \/ (~badSeq /\ exposed' = Expose)
    PROVE  FeeInv'
<1>0. \A k \in Keys : exposed'[k] <= attempt + 1
    BY ExposeAllows, ExposureInCycle DEF ExposureBy, InCycle
<1>1. CASE first = "none" /\ badSeq
    <2>1. pc' = "sequence" /\ UNCHANGED <<attempt, todo, exposed>>
        BY <1>1 DEF SubmitFails
    <2> QED
        BY <2>1 DEF FeeInv, TypeInv, Allowance, InCycle, Submitting
<1>2. CASE ~(first = "none" /\ badSeq)
    <2>1. CycleFails(IF first = "none" THEN kind ELSE first)
        BY <1>2 DEF SubmitFails
    <2> QED
        BY <1>0, <2>1, ReturnFee DEF InCycle
<1> QED
    BY <1>1, <1>2

LEMMA PlanAcceptedFee ==
    ASSUME TypeInv, TypeInv', FeeInv, pc \in Submitting, PlanAccepted,
           exposed' = exposed \/ exposed' = Expose
    PROVE  FeeInv'
<1>0. \A k \in Keys : exposed'[k] <= attempt + 1
    BY ExposeAllows, ExposureInCycle DEF ExposureBy, InCycle
<1>1. CASE todo = {Current}
    BY <1>0, <1>1, ReturnFee DEF PlanAccepted, InCycle
<1>2. CASE todo # {Current}
    <2>1. todo' = todo \ {Current} /\ pc' = "sequence" /\ attempt' = attempt
        BY <1>2 DEF PlanAccepted
    <2>2. todo' # {}
        BY <1>2, <2>1, CurrentInTodo
    <2>3. ASSUME NEW k \in Keys PROVE exposed'[k] <= Allowance(k)'
        <3>1. CASE Group(Durability[k]) \notin todo'
            BY <1>0, <2>1, <3>1 DEF Allowance, Submitting
        <3>2. CASE Group(Durability[k]) \in todo'
            <4>1. Group(Durability[k]) \in todo /\ k \notin Tx.keys
                BY <2>1, <3>2 DEF Tx, Plan
            <4>2. exposed'[k] = exposed[k]
                BY <4>1 DEF Expose
            <4>3. exposed[k] <= attempt
                BY <4>1 DEF FeeInv, Allowance, InCycle
            <4> QED
                BY <2>1, <3>2, <4>2, <4>3 DEF Allowance, InCycle, Submitting
        <3> QED
            BY <3>1, <3>2
    <2> QED
        BY <2>2, <2>3 DEF FeeInv, TypeInv
<1> QED
    BY <1>1, <1>2

LEMMA InitFee == Init => FeeInv
BY KeeperAssumption DEF Init, FeeInv, AttemptsLeft, Allowance, InCycle, Submitting

(* Steps that leave the run of run_cycle where it is.                      *)
LEMMA StaysFee ==
    ASSUME TypeInv', FeeInv, UNCHANGED <<pc, attempt, todo, exposed>>
    PROVE  FeeInv'
BY DEF FeeInv, TypeInv, Allowance, InCycle, Submitting

LEMMA ProcessStepFee ==
    ASSUME TypeInv, TypeInv', FeeInv, ProcessStep
    PROVE  FeeInv'
<1>0. attempt \in 0..RETRY_ATTEMPTS
    BY DEF TypeInv, TypeOK, ControlTypeOK
<1>1. CASE Deliver
    BY <1>1, StaysFee DEF Deliver, localVars, historyVars
<1>2. CASE Start \/ Crash \/ Shutdown
    <2>1. pc' \notin InCycle \cup {"backoff"} /\ exposed' = exposed
        BY <1>2 DEF Start, Crash, Shutdown, historyVars, InCycle, Submitting
    <2>2. ASSUME NEW k \in Keys PROVE exposed[k] <= RETRY_ATTEMPTS
        <3>1. exposed[k] <= Allowance(k) /\ exposed[k] \in Nat
            BY DEF FeeInv, TypeInv, TypeOK, HistoryTypeOK
        <3>2. Allowance(k) <= RETRY_ATTEMPTS
            BY <1>0, KeeperAssumption DEF FeeInv, AttemptsLeft, Allowance, InCycle
        <3> QED
            BY <1>0, <3>1, <3>2, KeeperAssumption DEF Allowance
    <2>3. \A k \in Keys : Allowance(k)' = RETRY_ATTEMPTS
        BY <2>1 DEF Allowance, InCycle
    <2> QED
        BY <2>1, <2>2, <2>3 DEF FeeInv, TypeInv, InCycle
<1>3. CASE Tick
    <2>1. pc' = "network" /\ attempt' = 0 /\ exposed' = [k \in Keys |-> 0]
        BY <1>3 DEF Tick
    <2> QED
        BY <2>1 DEF FeeInv, TypeInv, Allowance, InCycle, Submitting
<1> QED
    BY <1>1, <1>2, <1>3 DEF ProcessStep

LEMMA KeeperStepFee ==
    ASSUME TypeInv, TypeInv', FeeInv, KeeperStep
    PROVE  FeeInv'
<1>1. ASSUME pc \in InCycle, NEW kind, CycleOk \/ CycleFails(kind), exposed' = exposed
      PROVE  FeeInv'
    BY <1>1, ExposureInCycle, ReturnFee DEF ExposureBy
<1>2. ASSUME pc \in InCycle \ Submitting, pc' \in InCycle \ Submitting,
             UNCHANGED <<attempt, exposed>>
      PROVE  FeeInv'
    BY <1>2 DEF FeeInv, TypeInv, Allowance
<1>3. CASE CheckNetwork
    <2>1. pc = "network" /\ exposed' = exposed
        BY <1>3 DEF CheckNetwork
    <2>2. CycleFails("Rpc") \/ (pc' = "observe" /\ attempt' = attempt)
        BY <1>3 DEF CheckNetwork
    <2> QED
        BY <2>1, <2>2, <1>1, <1>2 DEF InCycle, Submitting
<1>4. CASE ObserveChunk
    <2>1. pc = "observe" /\ exposed' = exposed
        BY <1>4 DEF ObserveChunk
    <2>2. CycleFails("Rpc") \/ (pc' \in {"observe", "plan"} /\ attempt' = attempt)
        BY <1>4 DEF ObserveChunk
    <2> QED
        BY <2>1, <2>2, <1>1, <1>2 DEF InCycle, Submitting
<1>5. CASE MakePlans
    <2>1. pc = "plan" /\ exposed' = exposed
        BY <1>5 DEF MakePlans
    <2>2. CycleOk \/ (pc' = "sequence" /\ attempt' = attempt /\ todo' # {})
        BY <1>5 DEF MakePlans
    <2>3. ASSUME pc' = "sequence", attempt' = attempt, todo' # {} PROVE FeeInv'
        <3>1. ASSUME NEW k \in Keys PROVE exposed[k] <= attempt /\ attempt <= Allowance(k)'
            BY <2>1, <2>3 DEF FeeInv, Allowance, InCycle, Submitting, TypeInv, TypeOK, ControlTypeOK
        <3>2. ASSUME NEW k \in Keys PROVE exposed'[k] <= Allowance(k)'
            BY <2>1, <2>3, <3>1 DEF Allowance, InCycle, Submitting, TypeInv, TypeOK, ControlTypeOK, HistoryTypeOK
        <3> QED
            BY <2>3, <3>2 DEF FeeInv, TypeInv
    <2> QED
        BY <2>1, <2>2, <2>3, <1>1 DEF InCycle
<1>6. CASE TakeSequence
    <2>1. pc \in Submitting /\ exposed' = exposed
        BY <1>6 DEF TakeSequence, Submitting
    <2>2. \/ \E kind, cache : SubmitFails(kind, FALSE, cache)
          \/ pc' = "simulate" /\ UNCHANGED <<attempt, todo>>
        BY <1>6 DEF TakeSequence
    <2>3. ASSUME pc' = "simulate", UNCHANGED <<attempt, todo>> PROVE FeeInv'
        BY <2>1, <2>3 DEF FeeInv, TypeInv, Allowance, InCycle, Submitting
    <2> QED
        BY <2>1, <2>2, <2>3, SubmitFailsFee
<1>7. CASE Simulate
    <2>1. pc \in Submitting /\ exposed' = exposed
        BY <1>7 DEF Simulate, Submitting
    <2>2. \/ \E kind, cache : SubmitFails(kind, FALSE, cache)
          \/ pc' = "send" /\ UNCHANGED <<attempt, todo>>
        BY <1>7 DEF Simulate, localVars
    <2>3. ASSUME pc' = "send", UNCHANGED <<attempt, todo>> PROVE FeeInv'
        BY <2>1, <2>3 DEF FeeInv, TypeInv, Allowance, InCycle, Submitting
    <2> QED
        BY <2>1, <2>2, <2>3, SubmitFailsFee
<1>8. CASE Send
    <2>1. pc \in Submitting
        BY <1>8 DEF Send, Submitting
    <2>2. CASE PlanAccepted /\ (exposed' = exposed \/ exposed' = Expose)
        BY <2>1, <2>2, PlanAcceptedFee
    <2>3. CASE /\ SubmitFails("Rpc", FALSE, cached)
               /\ exposed' = exposed \/ exposed' = Expose
        BY <2>1, <2>3, SubmitFailsFee
    <2>4. CASE SubmitFails("Rpc", BadSeqRecognised, cached) /\ exposed' = exposed
        BY <2>1, <2>4, SubmitFailsFee, KeeperAssumption
    <2> QED
        BY <1>8, <2>2, <2>3, <2>4 DEF Send, SendQueued, SendKnown, SendRefused, SendLost
<1>9. CASE Retry
    BY <1>9 DEF Retry, historyVars, localVars, FeeInv, TypeInv, Allowance, InCycle, Submitting
<1> QED
    BY <1>3, <1>4, <1>5, <1>6, <1>7, <1>8, <1>9 DEF KeeperStep

LEMMA FeeStep ==
    ASSUME TypeInv, TypeInv', FeeInv, [Next]_vars
    PROVE  FeeInv'
<1>1. CASE UNCHANGED vars
    BY <1>1, StaysFee DEF vars, loopVars, localVars, historyVars
<1>2. CASE NodeStep
    BY <1>2, StaysFee DEF NodeStep, loopVars, localVars
<1> QED
    BY <1>1, <1>2, KeeperStepFee, ProcessStepFee DEF Next

(* FeeInv is inductive together with the type invariant.                   *)
THEOREM FeeInvariant == Spec => []FeeInv
<1>1. Init => FeeInv
    BY InitFee
<1>2. TypeInv /\ TypeInv' /\ FeeInv /\ [Next]_vars => FeeInv'
    BY FeeStep
<1> QED
    BY <1>1, <1>2, TypeInvariant, PTL DEF Spec

(* However many cycles, lost answers, crashes and foreign submissions: one *)
(* cycle puts out at most RETRY_ATTEMPTS transactions for an entry.        *)
THEOREM FeesBounded == Spec => []FeeExposure
<1>1. TypeInv /\ FeeInv => FeeExposure
    <2> SUFFICES ASSUME TypeInv, FeeInv, NEW k \in Keys PROVE exposed[k] <= RETRY_ATTEMPTS
        BY DEF FeeExposure
    <2>1. exposed[k] <= Allowance(k) /\ exposed[k] \in Nat /\ attempt \in 0..RETRY_ATTEMPTS
        BY DEF FeeInv, TypeInv, TypeOK, ControlTypeOK, HistoryTypeOK
    <2> QED
        BY <2>1, KeeperAssumption DEF FeeInv, AttemptsLeft, Allowance, InCycle
<1> QED
    BY <1>1, TypeInvariant, FeeInvariant, PTL

-----------------------------------------------------------------------------
(* The daemon implements its abstract loop.                                *)

LEMMA ReturnRefines ==
    ASSUME TypeInv, pc \in InCycle, UNCHANGED signal,
           CycleOk \/ (\E kind : CycleFails(kind))
    PROVE  Loop!CycleStep
<1>1. CASE CycleOk
    BY <1>1 DEF CycleOk, Loop!CycleStep, Loop!Ok, LoopPc, InCycle, Submitting
<1>2. CASE \E kind : CycleFails(kind)
    <2>1. PICK kind : CycleFails(kind)
        BY <1>2
    <2>2. /\ attempt' = attempt + 1
          /\ pc' = "select" \/ (attempt + 1 < RETRY_ATTEMPTS /\ pc' = "backoff")
        BY <2>1, KeeperAssumption DEF CycleFails, TypeInv, TypeOK, ControlTypeOK
    <2> QED
        BY <2>2 DEF Loop!CycleStep, Loop!Err, LoopPc, InCycle, Submitting
<1> QED
    BY <1>1, <1>2

LEMMA SubmitFailsRefines ==
    ASSUME TypeInv, pc \in Submitting, UNCHANGED signal,
           NEW kind, NEW badSeq, NEW cache, SubmitFails(kind, badSeq, cache)
    PROVE  Loop!CycleStep \/ UNCHANGED Loop!vars
<1>1. CASE first = "none" /\ badSeq
    BY <1>1 DEF SubmitFails, Loop!vars, LoopPc, InCycle, Submitting
<1>2. CASE ~(first = "none" /\ badSeq)
    BY <1>2, ReturnRefines DEF SubmitFails, InCycle
<1> QED
    BY <1>1, <1>2

LEMMA KeeperStepRefines ==
    ASSUME TypeInv, KeeperStep
    PROVE  Loop!CycleStep \/ UNCHANGED Loop!vars
<1>0. UNCHANGED signal
    BY DEF KeeperStep, CheckNetwork, ObserveChunk, MakePlans, TakeSequence, Simulate, Send, Retry
<1>1. ASSUME pc \in InCycle, pc' \in InCycle, attempt' = attempt
      PROVE  UNCHANGED Loop!vars
    BY <1>0, <1>1 DEF Loop!vars, LoopPc
<1>2. CASE CheckNetwork
    <2>1. pc = "network" /\ (CycleFails("Rpc") \/ (pc' = "observe" /\ attempt' = attempt))
        BY <1>2 DEF CheckNetwork
    <2> QED
        BY <1>0, <1>1, <2>1, ReturnRefines DEF InCycle
<1>3. CASE ObserveChunk
    <2>1. pc = "observe" /\ (CycleFails("Rpc") \/ (pc' \in {"observe", "plan"} /\ attempt' = attempt))
        BY <1>3 DEF ObserveChunk
    <2> QED
        BY <1>0, <1>1, <2>1, ReturnRefines DEF InCycle
<1>4. CASE MakePlans
    <2>1. pc = "plan" /\ (CycleOk \/ (pc' = "sequence" /\ attempt' = attempt))
        BY <1>4 DEF MakePlans
    <2> QED
        BY <1>0, <1>1, <2>1, ReturnRefines DEF InCycle, Submitting
<1>5. CASE TakeSequence
    <2>1. /\ pc \in Submitting
          /\ \/ \E kind, cache : SubmitFails(kind, FALSE, cache)
             \/ pc' = "simulate" /\ attempt' = attempt
        BY <1>5 DEF TakeSequence, Submitting
    <2> QED
        BY <1>0, <1>1, <2>1, SubmitFailsRefines DEF InCycle, Submitting
<1>6. CASE Simulate
    <2>1. /\ pc \in Submitting
          /\ \/ \E kind, cache : SubmitFails(kind, FALSE, cache)
             \/ pc' = "send" /\ attempt' = attempt
        BY <1>6 DEF Simulate, Submitting
    <2> QED
        BY <1>0, <1>1, <2>1, SubmitFailsRefines DEF InCycle, Submitting
<1>7. CASE Send
    <2>1. pc \in Submitting
        BY <1>7 DEF Send, Submitting
    <2>2. CASE PlanAccepted
        <3>1. CycleOk \/ (pc' = "sequence" /\ attempt' = attempt)
            BY <2>2 DEF PlanAccepted
        <3> QED
            BY <1>0, <1>1, <2>1, <3>1, ReturnRefines DEF InCycle, Submitting
    <2>3. CASE SubmitFails("Rpc", FALSE, cached) \/ SubmitFails("Rpc", BadSeqRecognised, cached)
        BY <1>0, <2>1, <2>3, SubmitFailsRefines
    <2> QED
        BY <1>7, <2>2, <2>3 DEF Send, SendQueued, SendKnown, SendRefused, SendLost
<1>8. CASE Retry
    BY <1>8 DEF Retry, Loop!CycleStep, Loop!Retry, LoopPc, InCycle, Submitting
<1> QED
    BY <1>2, <1>3, <1>4, <1>5, <1>6, <1>7, <1>8 DEF KeeperStep

LEMMA StepRefines ==
    ASSUME TypeInv, [Next]_vars
    PROVE  [Loop!Next]_(Loop!vars)
<1>1. CASE UNCHANGED vars
    BY <1>1 DEF vars, loopVars, Loop!vars, LoopPc
<1>2. CASE NodeStep
    BY <1>2 DEF NodeStep, loopVars, Loop!vars, LoopPc
<1>3. CASE KeeperStep
    BY <1>3, KeeperStepRefines DEF Loop!Next
<1>4. CASE Start
    BY <1>4 DEF Start, Loop!Next, Loop!Start, LoopPc, InCycle, Submitting
<1>5. CASE Crash
    BY <1>5 DEF Crash, Loop!Next, Loop!Crash, LoopPc, InCycle, Submitting
<1>6. CASE Deliver
    <2>1. LoopPc \notin {"down", "stopped"} /\ LoopPc' = LoopPc
        BY <1>6 DEF Deliver, LoopPc
    <2> QED
        BY <1>6, <2>1 DEF Deliver, Loop!Next, Loop!Deliver
<1>7. CASE Shutdown
    BY <1>7 DEF Shutdown, Loop!Next, Loop!Shutdown, LoopPc, InCycle, Submitting
<1>8. CASE Tick
    BY <1>8 DEF Tick, Loop!Next, Loop!Tick, LoopPc, InCycle, Submitting
<1> QED
    BY <1>1, <1>2, <1>3, <1>4, <1>5, <1>6, <1>7, <1>8 DEF Next, ProcessStep

(* Every behaviour of the daemon, with everything run_cycle does in it, is *)
(* one of the abstract loop of RunLoop.                                    *)
THEOREM KeeperImplementsRunLoop == Spec => ImplementsRunLoop
<1>1. Init => Loop!Init
    BY DEF Init, Loop!Init, LoopPc, InCycle, Submitting
<1>2. TypeInv /\ [Next]_vars => [Loop!Next]_(Loop!vars)
    BY StepRefines
<1> QED
    BY <1>1, <1>2, TypeInvariant, PTL DEF Spec, ImplementsRunLoop, Loop!Spec

-----------------------------------------------------------------------------
(* The TTLs a plan states.  They are taken against the ledger of the first *)
(* chunk; ledgers only grow, so an entry found live later is live then.    *)

LEMMA NothingLive == \A k \in Keys : NoObs[k].state # "Live"
BY DEF NoObs, Observation

LEMMA DropLocalsObs == TypeInv /\ height' = height /\ DropLocals => ObservationInv'
BY NothingLive DEF DropLocals, ObservationInv, TypeInv, TypeOK, NodeTypeOK, LedgerTypeOK

LEMMA KeepsObs ==
    ASSUME ObservationInv, UNCHANGED <<height, obs, reference>>,
           pc \in Submitting \cup {"plan"}, pc' \in Submitting
    PROVE  ObservationInv'
BY DEF ObservationInv, Submitting

LEMMA ReturnObs ==
    ASSUME TypeInv, height' = height, NEW kind, CycleOk \/ CycleFails(kind)
    PROVE  ObservationInv'
BY DropLocalsObs DEF CycleOk, CycleFails

LEMMA SubmitFailsObs ==
    ASSUME TypeInv, ObservationInv, height' = height, pc \in Submitting,
           NEW kind, NEW badSeq, NEW cache, SubmitFails(kind, badSeq, cache)
    PROVE  ObservationInv'
BY ReturnObs, KeepsObs DEF SubmitFails, Submitting

LEMMA ObserveChunkObs ==
    ASSUME TypeInv, ObservationInv, ObserveChunk
    PROVE  ObservationInv'
<1>1. CASE CycleFails("Rpc")
    BY <1>1, ReturnObs DEF ObserveChunk, nodeVars
<1>2. CASE ~CycleFails("Rpc")
    <2>1. /\ obs' = [k \in Keys |-> IF ChunkOf[k] = chunk
                                   THEN Observation(k \in present, liveUntil[k], height)
                                   ELSE obs[k]]
          /\ reference' = IF chunk = 1 THEN height ELSE reference
          /\ (chunk' = chunk + 1 /\ pc' = pc) \/ pc' = "plan"
          /\ pc = "observe" /\ height' = height
        BY <1>2 DEF ObserveChunk, ObservedLedger, nodeVars
    <2>2. reference' <= height'
        BY <2>1 DEF ObservationInv, TypeInv, TypeOK, NodeTypeOK, LedgerTypeOK, LocalTypeOK
    <2>3. ASSUME NEW k \in Keys, obs'[k].state = "Live" PROVE obs'[k].until > reference'
        <3>1. CASE ChunkOf[k] = chunk
            <4>1. obs'[k] = Observation(k \in present, liveUntil[k], height)
                BY <2>1, <3>1
            <4>2. obs'[k].until = liveUntil[k] /\ liveUntil[k] > height
                BY <2>3, <4>1 DEF Observation
            <4>3. height \in Nat /\ liveUntil[k] \in Nat /\ reference \in Nat
                BY DEF TypeInv, TypeOK, NodeTypeOK, LedgerTypeOK, LocalTypeOK
            <4> QED
                BY <2>1, <2>2, <4>2, <4>3
        <3>2. CASE ChunkOf[k] # chunk
            <4>1. obs'[k] = obs[k]
                BY <2>1, <3>2
            <4>2. chunk # 1
                BY <2>1, <2>3, <4>1, NothingLive DEF ObservationInv
            <4> QED
                BY <2>1, <2>3, <4>1, <4>2 DEF ObservationInv
        <3> QED
            BY <3>1, <3>2
    <2>4. pc' = "observe" => chunk' # 1
        BY <2>1 DEF TypeInv, TypeOK, LocalTypeOK
    <2> QED
        BY <2>1, <2>2, <2>3, <2>4 DEF ObservationInv
<1> QED
    BY <1>1, <1>2

LEMMA KeeperStepObs ==
    ASSUME TypeInv, ObservationInv, KeeperStep
    PROVE  ObservationInv'
<1>1. CASE CheckNetwork
    <2>1. pc = "network" /\ height' = height
          /\ (CycleFails("Rpc") \/ (pc' = "observe" /\ UNCHANGED <<obs, reference, chunk>>))
        BY <1>1 DEF CheckNetwork, nodeVars, localVars
    <2> QED
        BY <2>1, ReturnObs DEF ObservationInv, Submitting
<1>2. CASE ObserveChunk
    BY <1>2, ObserveChunkObs
<1>3. CASE MakePlans
    <2>1. pc = "plan" /\ height' = height
          /\ (CycleOk \/ (pc' = "sequence" /\ UNCHANGED <<obs, reference>>))
        BY <1>3 DEF MakePlans, nodeVars
    <2> QED
        BY <2>1, ReturnObs, KeepsObs DEF Submitting
<1>4. CASE TakeSequence
    <2>1. pc \in Submitting /\ height' = height
        BY <1>4 DEF TakeSequence, nodeVars, Submitting
    <2>2. \/ \E kind, cache : SubmitFails(kind, FALSE, cache)
          \/ pc' = "simulate" /\ UNCHANGED <<obs, reference>>
        BY <1>4 DEF TakeSequence
    <2> QED
        BY <2>1, <2>2, SubmitFailsObs, KeepsObs DEF Submitting
<1>5. CASE Simulate
    <2>1. pc \in Submitting /\ height' = height
        BY <1>5 DEF Simulate, nodeVars, Submitting
    <2>2. \/ \E kind, cache : SubmitFails(kind, FALSE, cache)
          \/ pc' = "send" /\ UNCHANGED <<obs, reference>>
        BY <1>5 DEF Simulate, localVars
    <2> QED
        BY <2>1, <2>2, SubmitFailsObs, KeepsObs DEF Submitting
<1>6. CASE Send
    <2>1. pc \in Submitting /\ height' = height
        BY <1>6 DEF Send, Submitting
    <2>2. CASE PlanAccepted
        <3>1. CycleOk \/ (pc' = "sequence" /\ UNCHANGED <<obs, reference>>)
            BY <2>2 DEF PlanAccepted
        <3> QED
            BY <2>1, <3>1, ReturnObs, KeepsObs DEF Submitting
    <2>3. CASE SubmitFails("Rpc", FALSE, cached) \/ SubmitFails("Rpc", BadSeqRecognised, cached)
        BY <2>1, <2>3, SubmitFailsObs
    <2> QED
        BY <1>6, <2>2, <2>3 DEF Send, SendQueued, SendKnown, SendRefused, SendLost
<1>7. CASE Retry
    BY <1>7 DEF Retry, nodeVars, localVars, ObservationInv, Submitting
<1> QED
    BY <1>1, <1>2, <1>3, <1>4, <1>5, <1>6, <1>7 DEF KeeperStep

LEMMA ObsStep ==
    ASSUME TypeInv, ObservationInv, [Next]_vars
    PROVE  ObservationInv'
<1>1. ASSUME UNCHANGED <<pc, obs, chunk, reference>>, height' \in {height, height + 1}
      PROVE  ObservationInv'
    <2>1. height \in Nat /\ reference \in Nat /\ reference <= height
        BY DEF ObservationInv, TypeInv, TypeOK, NodeTypeOK, LedgerTypeOK, LocalTypeOK
    <2>2. reference <= height'
        BY <1>1, <2>1
    <2> QED
        BY <1>1, <2>2 DEF ObservationInv
<1>2. CASE UNCHANGED vars
    BY <1>2 DEF vars, nodeVars, loopVars, localVars, ObservationInv
<1>3. CASE NodeStep
    <2>1. height' \in {height, height + 1}
        BY <1>3 DEF NodeStep, CloseLedger, LedgerCloses, ApplyNext, Evict, EntryEvicted, ArriveLate, ForeignSubmit, DropQueued
    <2> QED
        BY <1>1, <1>3, <2>1 DEF NodeStep, loopVars, localVars
<1>4. CASE Crash
    BY <1>4, DropLocalsObs DEF Crash, nodeVars
<1>5. CASE Start \/ Deliver \/ Shutdown \/ Tick
    BY <1>5 DEF Start, Deliver, Shutdown, Tick, nodeVars, localVars, ObservationInv, Submitting
<1> QED
    BY <1>2, <1>3, <1>4, <1>5, KeeperStepObs DEF Next, ProcessStep

LEMMA ObservationInvariant == Spec => []ObservationInv
<1>1. Init => ObservationInv
    BY NothingLive DEF Init, NodeInit, LedgerInit, ObservationInv
<1>2. TypeInv /\ ObservationInv /\ [Next]_vars => ObservationInv'
    BY ObsStep
<1> QED
    BY <1>1, <1>2, TypeInvariant, PTL DEF Spec

(* In however many requests and at whatever ledgers they are observed, the *)
(* entries of a plan have a last ledger beyond the one it is stated at.    *)
THEOREM PlanTtlsSound == Spec => []PlanTtlSound
<1>1. ObservationInv => PlanTtlSound
    BY DEF ObservationInv, PlanTtlSound, Plan
<1> QED
    BY <1>1, ObservationInvariant, PTL
=============================================================================
