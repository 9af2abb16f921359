------------------------ MODULE KeeperMetrics_proofs ------------------------
(***************************************************************************)
(* The counters of submissions and cycles, for any number of cycles,       *)
(* plans, retries, faults and crashes.                                     *)
(***************************************************************************)
EXTENDS KeeperMetrics, Submission_proofs

(* The daemon with its counters is the daemon.                             *)
LEMMA MetricsWatch == MetricsSpec => Spec
<1>1. MetricsInit => Init
    BY DEF MetricsInit
<1>2. [MetricsNext]_metricsVars => [Next]_vars
    BY DEF MetricsNext, metricsVars, Next, ProcessStep
<1> QED
    BY <1>1, <1>2, PTL DEF MetricsSpec, Spec

-----------------------------------------------------------------------------
(* What a step of run_cycle may be: the end of a successful run, the end   *)
(* of a cycle that has failed, a step that accepts no plan, or one that    *)
(* accepts a plan with others to come.                                     *)
Returned == outcome' = "ok" /\ pc \in {"plan", "send"} /\ pc' = "select" /\ submitted' = 0
Failed == outcome' \in ErrorKind /\ pc' = "select" /\ submitted' = 0
Moved == outcome' = "none" /\ submitted' \in {0, submitted}
OneMore == outcome' = "none" /\ pc = "send" /\ Answered /\ submitted' = submitted + 1

Fate == Returned \/ Failed \/ Moved \/ OneMore

LEMMA CycleFailsFate ==
    ASSUME outcome = "none", NEW kind \in ErrorKind, CycleFails(kind)
    PROVE  Failed \/ Moved
BY DEF CycleFails, DropLocals, Failed, Moved

LEMMA SubmitFailsFate ==
    ASSUME outcome = "none", first \in {"none"} \cup ErrorKind, NEW kind \in ErrorKind,
           NEW badSeq, NEW cache, SubmitFails(kind, badSeq, cache)
    PROVE  Failed \/ Moved
<1>1. CASE first = "none" /\ badSeq
    BY <1>1 DEF SubmitFails, Moved
<1>2. CASE ~(first = "none" /\ badSeq)
    BY <1>2, CycleFailsFate DEF SubmitFails
<1> QED
    BY <1>1, <1>2

LEMMA PlanAcceptedFate ==
    ASSUME outcome = "none", pc = "send", todo # {}, todo \subseteq Groups, PlanAccepted
    PROVE  Returned \/ OneMore
<1>1. CASE todo = {Current}
    BY <1>1 DEF PlanAccepted, CycleOk, DropLocals, Returned
<1>2. CASE todo # {Current}
    <2>1. Current \in todo
        BY DEF Current, Groups
    <2> QED
        BY <1>2, <2>1 DEF PlanAccepted, OneMore, Answered
<1> QED
    BY <1>1, <1>2

LEMMA KeeperStepFate ==
    ASSUME TypeInv, OutcomeOpen, FeeInv, KeeperStep
    PROVE  Fate /\ pc \in InCycle \cup {"backoff"} /\ cycles' = cycles
<1>1. pc \in InCycle \cup {"backoff"} /\ outcome = "none" /\ cycles' = cycles
    BY DEF KeeperStep, CheckNetwork, ObserveChunk, MakePlans, TakeSequence, Simulate, Send, Retry,
           InCycle, Submitting, OutcomeOpen, boundVars, historyVars
<1>2. "Rpc" \in ErrorKind /\ "Transaction" \in ErrorKind /\ first \in {"none"} \cup ErrorKind
    BY DEF ErrorKind, TypeInv, TypeOK, LocalTypeOK
<1>3. CASE CheckNetwork
    <2>1. CASE CycleFails("Rpc")
        BY <1>1, <1>2, <2>1, CycleFailsFate DEF Fate
    <2>2. CASE UNCHANGED <<localVars, outcome>>
        BY <1>1, <2>2 DEF localVars, Fate, Moved
    <2> QED
        BY <1>3, <2>1, <2>2, <1>1 DEF CheckNetwork
<1>4. CASE ObserveChunk
    <2>1. CASE CycleFails("Rpc")
        BY <1>1, <1>2, <2>1, CycleFailsFate DEF Fate
    <2>2. CASE UNCHANGED <<submitted, outcome>>
        BY <1>1, <2>2 DEF Fate, Moved
    <2> QED
        BY <1>4, <2>1, <2>2, <1>1 DEF ObserveChunk
<1>5. CASE MakePlans
    <2>1. CASE CycleOk
        BY <1>1, <1>5, <2>1 DEF MakePlans, CycleOk, DropLocals, Fate, Returned
    <2>2. CASE UNCHANGED <<submitted, outcome>>
        BY <1>1, <2>2 DEF Fate, Moved
    <2> QED
        BY <1>5, <2>1, <2>2, <1>1 DEF MakePlans
<1>6. CASE TakeSequence \/ Simulate
    <2>1. CASE SubmitFails("Rpc", FALSE, cached)
        BY <1>1, <1>2, <2>1, SubmitFailsFate DEF Fate
    <2>2. CASE \E cache : SubmitFails("Transaction", FALSE, cache)
        BY <1>1, <1>2, <2>2, SubmitFailsFate DEF Fate
    <2>3. CASE UNCHANGED <<submitted, outcome>>
        BY <1>1, <2>3 DEF Fate, Moved
    <2> QED
        BY <1>6, <2>1, <2>2, <2>3, <1>1 DEF TakeSequence, Simulate, localVars
<1>7. CASE Send
    <2>1. pc = "send" /\ todo # {} /\ todo \subseteq Groups
        BY <1>7 DEF Send, FeeInv, Submitting, TypeInv, TypeOK, LocalTypeOK
    <2>2. CASE PlanAccepted
        BY <1>1, <2>1, <2>2, PlanAcceptedFate DEF Fate
    <2>3. CASE \E badSeq, cache : SubmitFails("Rpc", badSeq, cache)
        BY <1>1, <1>2, <2>3, SubmitFailsFate DEF Fate
    <2> QED
        BY <1>1, <1>7, <2>2, <2>3 DEF Send, SendQueued, SendKnown, SendRefused, SendLost
<1>8. CASE Retry
    BY <1>1, <1>8 DEF Retry, localVars, historyVars, Fate, Moved
<1> QED
    BY <1>1, <1>3, <1>4, <1>5, <1>6, <1>7, <1>8 DEF KeeperStep

-----------------------------------------------------------------------------
(* The inductive invariant.  A run of run_cycle reports its plans when it  *)
(* returns: until then those accepted are ahead of the counters.  A cycle  *)
(* is counted when it ends.                                                *)
CountersType ==
    /\ poll_cycles \in Nat /\ extends_submitted \in Nat
    /\ extends_accepted \in Nat /\ extends_rejected \in Nat
    /\ accepted \in Nat

Underway == pc \in InCycle \cup {"backoff"}

CountersInv ==
    /\ CountersType
    /\ extends_accepted <= extends_submitted
    /\ extends_submitted + submitted <= accepted
    /\ poll_cycles + extends_rejected <= cycles
    /\ Underway => poll_cycles + extends_rejected < cycles

LEMMA CountersInit == MetricsInit => CountersInv
BY DEF MetricsInit, Zero, Init, CountersInv, CountersType, Underway, InCycle, Submitting

LEMMA TallyStep ==
    ASSUME CountersInv, Tally
    PROVE  /\ accepted' \in Nat /\ accepted <= accepted'
           /\ pc = "send" /\ Answered => accepted' = accepted + 1
BY DEF CountersInv, CountersType, Tally

(* A step adds so much to each counter.                                    *)
LEMMA CountersAdd ==
    ASSUME CountersInv, cycles \in Nat, cycles' = cycles, Underway, submitted' \in Nat,
           accepted' \in Nat,
           NEW done \in 0..1, NEW failed \in 0..1, NEW plans \in Nat, NEW some \in 0..1,
           poll_cycles' = poll_cycles + done, extends_rejected' = extends_rejected + failed,
           extends_submitted' = extends_submitted + plans,
           extends_accepted' = extends_accepted + some,
           some <= plans, (extends_submitted + plans) + submitted' <= accepted',
           done + failed <= 1, Underway' => done = 0 /\ failed = 0
    PROVE  CountersInv'
<1>1. CountersType'
    BY DEF CountersInv, CountersType
<1>2. extends_accepted' <= extends_submitted'
    BY DEF CountersInv, CountersType
<1>3. poll_cycles \in Nat /\ extends_rejected \in Nat /\ poll_cycles + extends_rejected < cycles
    BY DEF CountersInv, CountersType
<1>4. /\ poll_cycles' + extends_rejected' <= cycles'
      /\ Underway' => poll_cycles' + extends_rejected' < cycles'
    BY <1>3
<1> QED
    BY <1>1, <1>2, <1>4 DEF CountersInv

LEMMA KeeperCounts ==
    ASSUME TypeInv, OutcomeOpen, FeeInv, CountersInv, KeeperStep, Tally,
           CountOk \/ CountErr \/ CountNothing
    PROVE  CountersInv'
<1>1. Fate /\ Underway /\ cycles' = cycles /\ cycles \in Nat /\ submitted \in Nat
    BY KeeperStepFate DEF Underway, TypeInv, TypeOK, LocalTypeOK, HistoryTypeOK
<1>2. /\ accepted' \in Nat /\ accepted <= accepted'
      /\ pc = "send" /\ Answered => accepted' = accepted + 1
    BY TallyStep
<1>3. pc' = "select" => ~Underway'
    BY DEF Underway, InCycle, Submitting
<1>4. /\ poll_cycles \in Nat /\ extends_rejected \in Nat /\ extends_submitted \in Nat
      /\ extends_accepted \in Nat /\ accepted \in Nat
      /\ extends_submitted + submitted <= accepted
    BY DEF CountersInv, CountersType
<1>5. CASE Returned
    <2>1. CountOk
        BY <1>5 DEF Returned, CountErr, CountNothing, ErrorKind
    <2>2. \E plans \in {0} \cup {submitted + 1} :
             /\ extends_submitted' = extends_submitted + plans
             /\ extends_accepted' = extends_accepted + (IF plans > 0 THEN 1 ELSE 0)
             /\ extends_submitted + plans <= accepted'
        <3>1. CASE pc = "send"
            <4>1. Transactions = submitted + 1 /\ accepted' = accepted + 1
                BY <1>2, <1>5, <3>1 DEF Transactions, Returned, Answered, ReturnsOk
            <4> QED
                BY <1>1, <1>4, <2>1, <4>1 DEF CountOk
        <3>2. CASE pc = "plan"
            <4>1. Transactions = 0
                BY <3>2 DEF Transactions
            <4> QED
                BY <1>1, <1>2, <1>4, <2>1, <4>1 DEF CountOk
        <3> QED
            BY <1>5, <3>1, <3>2 DEF Returned
    <2>3. /\ poll_cycles' = poll_cycles + 1 /\ extends_rejected' = extends_rejected + 0
          /\ submitted' = 0 /\ ~Underway'
        BY <1>3, <1>4, <1>5, <2>1 DEF Returned, CountOk
    <2> QED
        BY <1>1, <1>2, <1>4, <2>2, <2>3, CountersAdd
<1>6. CASE Failed
    <2>1. CountErr
        BY <1>6 DEF Failed, CountOk, ReturnsOk, CountNothing, ErrorKind
    <2>2. /\ poll_cycles' = poll_cycles + 0 /\ extends_submitted' = extends_submitted + 0
          /\ extends_accepted' = extends_accepted + 0
          /\ \E failed \in 0..1 : extends_rejected' = extends_rejected + failed
          /\ submitted' = 0 /\ ~Underway'
        BY <1>3, <1>4, <1>6, <2>1 DEF Failed, CountErr
    <2>3. (extends_submitted + 0) + submitted' <= accepted'
        BY <1>1, <1>2, <1>4, <2>2
    <2> QED
        BY <1>1, <1>2, <2>2, <2>3, CountersAdd
<1>7. CASE Moved \/ OneMore
    <2>1. UNCHANGED counters
        BY <1>7 DEF Moved, OneMore, CountOk, ReturnsOk, CountErr, CountNothing, ErrorKind
    <2>2. /\ poll_cycles' = poll_cycles + 0 /\ extends_submitted' = extends_submitted + 0
          /\ extends_accepted' = extends_accepted + 0 /\ extends_rejected' = extends_rejected + 0
        BY <1>4, <2>1 DEF counters
    <2>3. submitted' \in Nat /\ (extends_submitted + 0) + submitted' <= accepted'
        <3>1. CASE Moved
            <4>1. submitted' = 0 \/ submitted' = submitted
                BY <3>1 DEF Moved
            <4> QED
                BY <1>1, <1>2, <1>4, <4>1
        <3>2. CASE OneMore
            BY <1>1, <1>2, <1>4, <3>2 DEF OneMore
        <3> QED
            BY <1>7, <3>1, <3>2
    <2> QED
        BY <1>1, <1>2, <2>2, <2>3, CountersAdd
<1> QED
    BY <1>1, <1>5, <1>6, <1>7 DEF Fate

LEMMA CountersStep ==
    TypeInv /\ OutcomeOpen /\ FeeInv /\ CountersInv /\ [MetricsNext]_metricsVars => CountersInv'
<1> SUFFICES ASSUME TypeInv, OutcomeOpen, FeeInv, CountersInv, [MetricsNext]_metricsVars
             PROVE  CountersInv'
    OBVIOUS
<1>0. cycles \in Nat /\ submitted \in Nat
    BY DEF TypeInv, TypeOK, LocalTypeOK, HistoryTypeOK
<1>1. CASE KeeperStep /\ Tally /\ (CountOk \/ CountErr \/ CountNothing)
    BY <1>1, KeeperCounts
<1>2. CASE (Start \/ Deliver \/ Shutdown \/ NodeStep) /\ UNCHANGED <<counters, accepted>>
    <2>1. UNCHANGED <<cycles, submitted>> /\ Underway' = Underway
        BY <1>2 DEF Start, Deliver, Shutdown, NodeStep, localVars, historyVars, boundVars, loopVars,
                    Underway, InCycle, Submitting
    <2> QED
        BY <1>2, <2>1 DEF counters, CountersInv, CountersType
<1>3. CASE Tick /\ UNCHANGED <<counters, accepted>>
    <2>1. submitted' = submitted /\ cycles' = cycles + 1 /\ ~Underway
        BY <1>3 DEF Tick, localVars, Underway, InCycle, Submitting
    <2> QED
        BY <1>0, <1>3, <2>1 DEF counters, CountersInv, CountersType
<1>4. CASE Crash /\ Reset
    <2>1. submitted' = 0 /\ cycles' = cycles /\ ~Underway'
        BY <1>4 DEF Crash, DropLocals, Underway, InCycle, Submitting
    <2> QED
        BY <1>0, <1>4, <2>1 DEF Reset, CountersInv, CountersType
<1>5. CASE UNCHANGED metricsVars
    <2>1. UNCHANGED <<cycles, submitted, pc, counters, accepted>>
        BY <1>5 DEF metricsVars, vars, loopVars, localVars, historyVars, boundVars
    <2> QED
        BY <2>1 DEF counters, CountersInv, CountersType, Underway
<1> QED
    BY <1>1, <1>2, <1>3, <1>4, <1>5 DEF MetricsNext

LEMMA CountersInvariant == MetricsSpec => []CountersInv
<1>1. Spec => [](TypeInv /\ OutcomeOpen /\ FeeInv)
    <2>1. Inv => TypeInv /\ OutcomeOpen
        BY DEF Inv, SubmissionInv
    <2> QED
        BY <2>1, SubmissionInvariant, FeeInvariant, PTL
<1> QED
    BY <1>1, MetricsWatch, CountersInit, CountersStep, PTL DEF MetricsSpec

(* What run_loop counts as submitted and accepted (main.rs) the node has   *)
(* accepted from this process, and no cycle is counted twice, whatever     *)
(* failed or was retried in between.                                       *)
THEOREM CountedWasAccepted == MetricsSpec => []SubmissionsBacked
<1>1. TypeInv /\ CountersInv => SubmissionsBacked
    BY DEF TypeInv, TypeOK, LocalTypeOK, HistoryTypeOK, CountersInv, CountersType,
           SubmissionsBacked
<1> QED
    BY <1>1, TypeInvariant, MetricsWatch, CountersInvariant, PTL
=============================================================================
