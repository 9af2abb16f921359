-------------------------- MODULE Submission_proofs --------------------------
(***************************************************************************)
(* What a cycle that reports success has achieved, in which order, and     *)
(* which cycles do not fail: SuccessMeansSubmitted, PersistentFirst and    *)
(* SingleFaultRecovered of RentKeeper, for every set of keys and any       *)
(* number of cycles, faults, crashes and late requests.                    *)
(***************************************************************************)
EXTENDS RentKeeper_proofs

Inv == TypeInv /\ SubmissionInv

-----------------------------------------------------------------------------
(* The node's queue.                                                       *)

LEMMA QueueSame ==
    ASSUME QueueInv, UNCHANGED <<netSeq, queued, mempool>>
    PROVE  QueueInv'
BY DEF QueueInv

LEMMA MempoolSame ==
    ASSUME MempoolServed, UNCHANGED mempool, trouble \subseteq trouble', served \subseteq served'
    PROVE  MempoolServed'
BY DEF MempoolServed

(* A transaction joins the queue with the next free number.                *)
LEMMA EnqueueQueue ==
    ASSUME TypeInv, QueueInv, NEW tx \in Transaction, Accepts(tx), Enqueue(tx), Serve,
           UNCHANGED netSeq
    PROVE  QueueInv' /\ tx.keys \subseteq served' /\ served \subseteq served'
<1>1. tx.seq = queued + 1 /\ queued' = queued + 1 /\ mempool' = mempool \cup {tx}
    BY DEF Accepts, Enqueue
<1>2. netSeq \in Nat /\ queued \in Nat /\ \A t \in mempool : t.seq \in Nat
    BY DEF TypeInv, TypeOK, NodeTypeOK, LedgerTypeOK, Transaction
<1>3. tx \notin mempool
    BY <1>1, <1>2 DEF QueueInv
<1>4. QueueInv'
    BY <1>1, <1>2 DEF QueueInv
<1> QED
    BY <1>1, <1>3, <1>4 DEF Serve

LEMMA EnqueueServed ==
    ASSUME TypeInv, QueueInv, MempoolServed, NEW tx \in Transaction, Accepts(tx), Enqueue(tx),
           Serve, UNCHANGED netSeq, trouble \subseteq trouble'
    PROVE  MempoolServed'
BY EnqueueQueue DEF Enqueue, MempoolServed

LEMMA NodeStepQueue ==
    ASSUME TypeInv, QueueInv, MempoolServed, NodeStep
    PROVE  QueueInv' /\ MempoolServed' /\ served \subseteq served' /\ trouble \subseteq trouble'
<1>0. netSeq \in Nat /\ queued \in Nat /\ \A t \in mempool : t.seq \in Nat
    BY DEF TypeInv, TypeOK, NodeTypeOK, LedgerTypeOK, Transaction
<1>1. CASE (CloseLedger \/ Evict) /\ UNCHANGED <<trouble, served>>
    BY <1>1, QueueSame, MempoolSame DEF CloseLedger, LedgerCloses, Evict, EntryEvicted
<1>2. CASE ApplyNext /\ UNCHANGED <<trouble, served>>
    BY <1>0, <1>2 DEF ApplyNext, QueueInv, MempoolServed
<1>3. CASE ArriveLate /\ Serve /\ Meets("late")
    <2>1. PICK tx \in inFlight : IF Accepts(tx) THEN Enqueue(tx) ELSE UNCHANGED <<queued, mempool>>
        BY <1>3 DEF ArriveLate
    <2>2. tx \in Transaction
        BY DEF TypeInv, TypeOK, NodeTypeOK, LedgerTypeOK
    <2>3. trouble \subseteq trouble' /\ UNCHANGED netSeq
        BY <1>3 DEF Meets, ArriveLate
    <2>4. CASE Accepts(tx)
        BY <1>3, <2>1, <2>2, <2>3, <2>4, EnqueueQueue, EnqueueServed
    <2>5. CASE ~Accepts(tx)
        <3>1. UNCHANGED <<netSeq, queued, mempool>> /\ served \subseteq served'
            BY <1>3, <2>1, <2>3, <2>5 DEF Serve
        <3> QED
            BY <2>3, <3>1, QueueSame, MempoolSame
    <2> QED
        BY <2>4, <2>5
<1>4. CASE ForeignSubmit /\ Meets("foreign") /\ UNCHANGED served
    BY <1>0, <1>4 DEF ForeignSubmit, Meets, QueueInv, MempoolServed
<1>5. CASE DropQueued /\ Meets("dropped") /\ UNCHANGED served
    <2>1. PICK s \in netSeq..(queued - 1) :
             queued' = s /\ mempool' = {tx \in mempool : tx.seq <= s}
        BY <1>5 DEF DropQueued
    <2>2. netSeq' = netSeq /\ trouble \subseteq trouble' /\ served' = served
        BY <1>5 DEF DropQueued, Meets
    <2> QED
        BY <1>0, <2>1, <2>2 DEF QueueInv, MempoolServed
<1> QED
    BY <1>1, <1>2, <1>3, <1>4, <1>5 DEF NodeStep

-----------------------------------------------------------------------------
(* The ends of run_cycle and submit_plan.                                  *)

LEMMA ReturnServed ==
    ASSUME NEW kind, CycleOk \/ CycleFails(kind), OutcomeOpen, pc \in InCycle
    PROVE  PlansServed' /\ OutcomeOpen'
BY DEF CycleOk, CycleFails, PlansServed, OutcomeOpen, InCycle, Submitting

LEMMA SubmitFailsServed ==
    ASSUME PlansServed, OutcomeOpen, pc \in Submitting, trouble \subseteq trouble',
           served \subseteq served',
           NEW kind, NEW badSeq, NEW cache, SubmitFails(kind, badSeq, cache)
    PROVE  PlansServed' /\ OutcomeOpen'
<1>1. CASE first = "none" /\ badSeq
    <2>1. pc' = "sequence" /\ UNCHANGED <<obs, todo, outcome>>
        BY <1>1 DEF SubmitFails
    <2>2. \A g \in Groups : Plan(g)' = Plan(g)
        BY <2>1 DEF Plan
    <2> QED
        BY <2>1, <2>2 DEF PlansServed, OutcomeOpen, InCycle, Submitting
<1>2. CASE ~(first = "none" /\ badSeq)
    BY <1>2, ReturnServed DEF SubmitFails, InCycle
<1> QED
    BY <1>1, <1>2

LEMMA PlanAcceptedServed ==
    ASSUME PlansServed, OutcomeOpen, pc \in Submitting, trouble' = trouble,
           served \subseteq served',
           "pending" \notin trouble => Plan(Current) \subseteq served',
           PlanAccepted
    PROVE  PlansServed' /\ OutcomeOpen'
<1>1. CASE todo = {Current}
    BY <1>1, ReturnServed DEF PlanAccepted, InCycle
<1>2. CASE todo # {Current}
    <2>1. pc' = "sequence" /\ todo' = todo \ {Current} /\ UNCHANGED <<obs, outcome>>
        BY <1>2 DEF PlanAccepted
    <2>2. \A g \in Groups : Plan(g)' = Plan(g)
        BY <2>1 DEF Plan
    <2> QED
        BY <2>1, <2>2 DEF PlansServed, OutcomeOpen, InCycle, Submitting
<1> QED
    BY <1>1, <1>2

(* What is accepted has been queued in this cycle, now or before.          *)
LEMMA SendServes ==
    ASSUME Inv, pc = "send", SendQueued \/ SendKnown, UNCHANGED netSeq
    PROVE  /\ QueueInv' /\ MempoolServed'
           /\ served \subseteq served' /\ trouble' = trouble
           /\ "pending" \notin trouble => Plan(Current) \subseteq served'
<1>0. Tx \in Transaction /\ Tx.keys = Plan(Current)
    BY TransactionType DEF Inv, TypeInv, Tx
<1>1. QueueInv /\ MempoolServed
    BY DEF SubmissionInv, Inv
<1>2. CASE SendQueued
    <2>1. Accepts(Tx) /\ Enqueue(Tx) /\ Serve /\ trouble' = trouble
        BY <1>2 DEF SendQueued
    <2>2. QueueInv' /\ Tx.keys \subseteq served' /\ served \subseteq served'
        BY <1>0, <1>1, <2>1, EnqueueQueue DEF Inv
    <2>3. MempoolServed'
        BY <1>0, <1>1, <2>1, EnqueueServed DEF Inv
    <2> QED
        BY <1>0, <2>1, <2>2, <2>3
<1>3. CASE SendKnown
    <2>1. Tx \in mempool /\ UNCHANGED <<queued, mempool, served, trouble>>
        BY <1>3 DEF SendKnown, IsDuplicate
    <2>2. QueueInv' /\ MempoolServed'
        BY <1>1, <2>1, QueueSame, MempoolSame
    <2>3. "pending" \notin trouble => Tx.keys \subseteq served
        BY <1>1, <2>1 DEF MempoolServed
    <2> QED
        BY <1>0, <2>1, <2>2, <2>3
<1> QED
    BY <1>2, <1>3

-----------------------------------------------------------------------------
(* Inv is inductive.                                                       *)

LEMMA InitSubmission == Init => SubmissionInv
BY DEF Init, NodeInit, LedgerInit, SubmissionInv, QueueInv, MempoolServed, PlansServed, OutcomeOpen,
       InCycle, Submitting

LEMMA KeeperStepSubmission ==
    ASSUME Inv, KeeperStep
    PROVE  SubmissionInv'
<1>0. QueueInv /\ MempoolServed /\ PlansServed /\ OutcomeOpen
    BY DEF SubmissionInv, Inv
<1>1. ASSUME UNCHANGED <<nodeVars, served>>, trouble \subseteq trouble'
      PROVE  QueueInv' /\ MempoolServed'
    BY <1>0, <1>1, QueueSame, MempoolSame DEF nodeVars
<1>2. ASSUME pc' \in InCycle \ Submitting, outcome' = "none"
      PROVE  PlansServed' /\ OutcomeOpen'
    BY <1>2 DEF PlansServed, OutcomeOpen
<1>3. CASE CheckNetwork
    <2>1. /\ pc = "network"
          /\ CycleFails("Rpc") \/ (pc' = "observe" /\ outcome' = outcome)
          /\ UNCHANGED <<nodeVars, served>> /\ trouble \subseteq trouble'
        BY <1>3 DEF CheckNetwork, Meets
    <2>2. PlansServed' /\ OutcomeOpen'
        BY <1>0, <1>2, <2>1, ReturnServed DEF OutcomeOpen, InCycle, Submitting
    <2> QED
        BY <1>1, <2>1, <2>2 DEF SubmissionInv
<1>4. CASE ObserveChunk
    <2>1. /\ pc = "observe"
          /\ CycleFails("Rpc") \/ (pc' \in {"observe", "plan"} /\ outcome' = outcome)
          /\ UNCHANGED <<nodeVars, served>> /\ trouble \subseteq trouble'
        BY <1>4 DEF ObserveChunk
    <2>2. PlansServed' /\ OutcomeOpen'
        BY <1>0, <1>2, <2>1, ReturnServed DEF OutcomeOpen, InCycle, Submitting
    <2> QED
        BY <1>1, <2>1, <2>2 DEF SubmissionInv
<1>5. CASE MakePlans
    <2>1. /\ pc = "plan"
          /\ UNCHANGED <<nodeVars, served, trouble>>
          /\ \/ CycleOk
             \/ /\ pc' = "sequence" /\ UNCHANGED <<obs, outcome>>
                /\ todo' = {g \in Groups : Plan(g) # {}}
        BY <1>5 DEF MakePlans
    <2>2. ASSUME CycleOk PROVE PlansServed' /\ OutcomeOpen'
        <3>1. pc \in InCycle
            BY <2>1 DEF InCycle
        <3> QED
            BY <1>0, <2>2, <3>1, ReturnServed
    <2>3. ASSUME ~CycleOk PROVE PlansServed' /\ OutcomeOpen'
        <3>1. \A g \in Groups : Plan(g)' = Plan(g)
            BY <2>1, <2>3 DEF Plan
        <3>2. \A g \in Groups \ todo' : Plan(g) = {}
            BY <2>1, <2>3
        <3>3. PlansServed'
            BY <3>1, <3>2 DEF PlansServed
        <3>4. OutcomeOpen'
            BY <1>0, <2>1, <2>3 DEF OutcomeOpen, InCycle
        <3> QED
            BY <3>3, <3>4
    <2> QED
        BY <1>1, <2>1, <2>2, <2>3 DEF SubmissionInv
<1>6. CASE TakeSequence \/ Simulate
    <2>1. /\ pc \in Submitting
          /\ UNCHANGED <<nodeVars, served>> /\ trouble \subseteq trouble'
        BY <1>6 DEF TakeSequence, Simulate, Submitting, Meets
    <2>2. \/ \E kind, cache : SubmitFails(kind, FALSE, cache)
          \/ pc' \in Submitting /\ UNCHANGED <<obs, todo, outcome>>
        BY <1>6 DEF TakeSequence, Simulate, localVars, Submitting
    <2>3. ASSUME pc' \in Submitting, UNCHANGED <<obs, todo, outcome>>
          PROVE  PlansServed' /\ OutcomeOpen'
        <3>1. \A g \in Groups : Plan(g)' = Plan(g)
            BY <2>3 DEF Plan
        <3> QED
            BY <1>0, <2>1, <2>3, <3>1 DEF PlansServed, OutcomeOpen, InCycle
    <2>4. PlansServed' /\ OutcomeOpen'
        BY <1>0, <2>1, <2>2, <2>3, SubmitFailsServed
    <2> QED
        BY <1>1, <2>1, <2>4 DEF SubmissionInv
<1>7. CASE Send
    <2>0. pc = "send" /\ pc \in Submitting /\ UNCHANGED netSeq
        BY <1>7 DEF Send, Submitting
    <2>1. CASE SendQueued \/ SendKnown
        <3>1. PlanAccepted \/ SubmitFails("Rpc", FALSE, cached)
            BY <2>1 DEF SendQueued, SendKnown
        <3>2. PlansServed' /\ OutcomeOpen'
            BY <1>0, <2>0, <2>1, <3>1, SendServes, PlanAcceptedServed, SubmitFailsServed
        <3> QED
            BY <2>0, <2>1, <3>2, SendServes DEF SubmissionInv
    <2>2. CASE SendRefused \/ SendLost
        <3>1. /\ UNCHANGED <<netSeq, queued, mempool, served>> /\ trouble \subseteq trouble'
              /\ \/ SubmitFails("Rpc", FALSE, cached)
                 \/ SubmitFails("Rpc", BadSeqRecognised, cached)
            BY <2>0, <2>2 DEF SendRefused, SendLost, Meets
        <3>2. PlansServed' /\ OutcomeOpen'
            BY <1>0, <2>0, <3>1, SubmitFailsServed
        <3>3. QueueInv' /\ MempoolServed'
            BY <1>0, <3>1, QueueSame, MempoolSame
        <3> QED
            BY <3>2, <3>3 DEF SubmissionInv
    <2> QED
        BY <1>7, <2>1, <2>2 DEF Send
<1>8. CASE Retry
    <2>1. pc = "backoff" /\ pc' = "network" /\ UNCHANGED <<nodeVars, served, trouble, outcome>>
        BY <1>8 DEF Retry, historyVars
    <2> QED
        BY <1>0, <1>1, <1>2, <2>1 DEF SubmissionInv, OutcomeOpen, InCycle, Submitting
<1> QED
    BY <1>3, <1>4, <1>5, <1>6, <1>7, <1>8 DEF KeeperStep

LEMMA ProcessStepSubmission ==
    ASSUME Inv, ProcessStep
    PROVE  SubmissionInv'
<1>0. QueueInv /\ MempoolServed /\ PlansServed /\ OutcomeOpen
    BY DEF SubmissionInv, Inv
<1>1. QueueInv'
    BY <1>0, QueueSame DEF ProcessStep, Start, Crash, Deliver, Shutdown, Tick, nodeVars
<1>2. CASE Deliver
    <2>1. UNCHANGED <<pc, obs, todo, outcome, mempool, served, trouble>>
        BY <1>2 DEF Deliver, nodeVars, localVars, historyVars
    <2>2. \A g \in Groups : Plan(g)' = Plan(g)
        BY <2>1 DEF Plan
    <2> QED
        BY <1>0, <1>1, <2>1, <2>2 DEF SubmissionInv, MempoolServed, PlansServed, OutcomeOpen
<1>3. CASE Start \/ Crash \/ Shutdown
    <2>1. /\ pc' \notin InCycle \cup {"backoff"}
          /\ UNCHANGED <<mempool, served, trouble>>
        BY <1>3 DEF Start, Crash, Shutdown, nodeVars, historyVars, InCycle, Submitting
    <2> QED
        BY <1>0, <1>1, <2>1 DEF SubmissionInv, MempoolServed, PlansServed, OutcomeOpen, InCycle
<1>4. CASE Tick
    <2>1. pc' = "network" /\ outcome' = "none" /\ mempool' = mempool
        BY <1>4 DEF Tick, nodeVars
    <2>2. "pending" \notin trouble' => ~(queued > netSeq)
        BY <1>4 DEF Tick
    <2>3. "pending" \notin trouble' => mempool = {}
        <3>1. netSeq \in Nat /\ queued \in Nat /\ \A t \in mempool : t.seq \in Nat
            BY DEF Inv, TypeInv, TypeOK, NodeTypeOK, LedgerTypeOK, Transaction
        <3> QED
            BY <1>0, <2>2, <3>1 DEF QueueInv
    <2> QED
        BY <1>1, <2>1, <2>3
        DEF SubmissionInv, MempoolServed, PlansServed, OutcomeOpen, Submitting
<1> QED
    BY <1>2, <1>3, <1>4 DEF ProcessStep

LEMMA SubmissionStep ==
    ASSUME Inv, [Next]_vars
    PROVE  SubmissionInv'
<1>0. QueueInv /\ MempoolServed /\ PlansServed /\ OutcomeOpen
    BY DEF SubmissionInv, Inv
<1>1. ASSUME UNCHANGED <<pc, obs, todo, outcome>>, served \subseteq served', trouble \subseteq trouble'
      PROVE  PlansServed' /\ OutcomeOpen'
    <2>1. \A g \in Groups : Plan(g)' = Plan(g)
        BY <1>1 DEF Plan
    <2> QED
        BY <1>0, <1>1, <2>1 DEF PlansServed, OutcomeOpen
<1>2. CASE UNCHANGED vars
    BY <1>0, <1>1, <1>2, QueueSame, MempoolSame
    DEF SubmissionInv, vars, nodeVars, loopVars, localVars, historyVars
<1>3. CASE NodeStep
    <2>1. UNCHANGED <<pc, obs, todo, outcome>>
        BY <1>3 DEF NodeStep, loopVars, localVars
    <2> QED
        BY <1>0, <1>1, <1>3, <2>1, NodeStepQueue DEF SubmissionInv, Inv
<1> QED
    BY <1>2, <1>3, KeeperStepSubmission, ProcessStepSubmission DEF Next

LEMMA SubmissionInvariant == Spec => []Inv
<1>1. Init => SubmissionInv
    BY InitSubmission
<1>2. TypeInv /\ SubmissionInv /\ [Next]_vars => SubmissionInv'
    BY SubmissionStep DEF Inv
<1> QED
    BY <1>1, <1>2, TypeInvariant, PTL DEF Spec, Inv

-----------------------------------------------------------------------------
(* Temporary entries come after every persistent one, in every cycle.      *)
THEOREM PersistentComesFirst == Spec => []PersistentFirst
<1>1. Inv => PersistentFirst
    BY DEF Inv, SubmissionInv, PlansServed, PersistentFirst, Current, Groups
<1> QED
    BY <1>1, SubmissionInvariant, PTL

(* When run_cycle returns Ok, every live entry it saw at risk has had a    *)
(* transaction queued in this cycle.                                       *)
THEOREM SuccessIsHonest == Spec => SuccessMeansSubmitted
<1>1. ASSUME Inv, [Next]_vars, pc \in InCycle, outcome' = "ok", "pending" \notin trouble,
             NEW g \in Groups
      PROVE  Plan(g) \subseteq served'
    <2>0. PlansServed /\ OutcomeOpen
        BY <1>1 DEF SubmissionInv, Inv
    <2>1. outcome = "none"
        BY <1>1, <2>0 DEF OutcomeOpen
    <2>2. KeeperStep /\ pc # "backoff"
        BY <1>1, <2>1
        DEF Next, ProcessStep, NodeStep, Start, Crash, Deliver, Shutdown, Tick,
            vars, historyVars, InCycle, Submitting
    <2>3. \A kind \in ErrorKind : ~CycleFails(kind)
        BY <1>1, <2>1 DEF CycleFails, ErrorKind
    <2>4. \A kind \in ErrorKind : \A badSeq, cache : ~SubmitFails(kind, badSeq, cache)
        <3>1. (IF first = "none" THEN "Rpc" ELSE first) \in ErrorKind
              /\ (IF first = "none" THEN "Transaction" ELSE first) \in ErrorKind
            BY <1>1 DEF Inv, TypeInv, TypeOK, LocalTypeOK, ErrorKind
        <3> QED
            BY <1>1, <2>1, <2>3, <3>1 DEF SubmitFails, ErrorKind
    <2>5. CASE MakePlans
        BY <1>1, <2>1, <2>5 DEF MakePlans
    <2>6. CASE Send
        <3>1. PlanAccepted /\ (SendQueued \/ SendKnown) /\ UNCHANGED netSeq /\ pc = "send"
            BY <2>4, <2>6, KeeperAssumption
            DEF Send, SendQueued, SendKnown, SendRefused, SendLost, ErrorKind
        <3>2. todo = {Current}
            BY <1>1, <2>1, <3>1 DEF PlanAccepted
        <3>3. Plan(Current) \subseteq served' /\ served \subseteq served'
            BY <1>1, <3>1, SendServes
        <3> QED
            BY <1>1, <2>0, <3>1, <3>2, <3>3 DEF PlansServed, Submitting
    <2>7. CASE CheckNetwork \/ ObserveChunk \/ TakeSequence \/ Simulate \/ Retry
        BY <1>1, <2>1, <2>2, <2>3, <2>4, <2>7
        DEF CheckNetwork, ObserveChunk, TakeSequence, Simulate, Retry, ErrorKind, historyVars, localVars
    <2> QED
        BY <2>2, <2>5, <2>6, <2>7 DEF KeeperStep
<1>2. Inv /\ [Next]_vars =>
          [(pc \in InCycle /\ outcome' = "ok" /\ "pending" \notin trouble)
              => (\A g \in Groups : Plan(g) \subseteq served')]_vars
    BY <1>1
<1> QED
    BY <1>2, SubmissionInvariant, PTL DEF Spec, SuccessMeansSubmitted
-----------------------------------------------------------------------------
(* Recovery from one lost call.  In a cycle where at most one call is lost *)
(* and nothing else goes wrong, the number in hand (or the next one to be  *)
(* taken) and the queue stand in one of four relations.                    *)
Calm == trouble = {} /\ faults <= 1 /\ pc \in InCycle \cup {"backoff"}

HasNumber == pc \in {"simulate", "send"}

NextUp(n) ==
    IF HasNumber THEN seqNum = n
    ELSE IF cached = NoSeq THEN netSeq + 1 = n ELSE cached + 1 = n

(* Nothing is queued, and the cache may be anything: it has not been used. *)
Unused == netSeq = queued /\ first = "none" /\ attempt <= faults

(* The next number is the one the node expects.                            *)
Aligned ==
    /\ NextUp(queued + 1)
    /\ attempt <= faults \/ (attempt = 2 /\ faults = 1)
    /\ faults = 0 => queued <= netSeq + submitted

(* A number was taken and its transaction never arrived.                   *)
Ahead ==
    /\ NextUp(queued + 2)
    /\ first = "none" /\ attempt = 1 /\ faults = 1
    /\ queued <= netSeq + 1

(* The bad sequence that follows has dropped the cache, and the fresh      *)
(* number is the committed one plus one: at most one behind.               *)
Refreshed ==
    /\ first = "Rpc" /\ attempt = 1 /\ faults = 1
    /\ queued <= netSeq + 1
    /\ IF HasNumber THEN seqNum \in {queued, queued + 1}
       ELSE cached = NoSeq /\ pc = "sequence"

CalmInv ==
    Calm => /\ first \in {"none", "Rpc"}
            /\ HasNumber => cached = seqNum
            /\ Unused \/ Aligned \/ Ahead \/ Refreshed

(* At most two plans, and what one submission leaves for the next.         *)
PlansCounted ==
    IF pc \in Submitting THEN submitted = 0 \/ (submitted = 1 /\ todo = {"temporary"})
    ELSE submitted = 0 /\ first = "none"

RecoveryInv == CalmInv /\ PlansCounted /\ SingleFaultRecovered

LEMMA CalmTypes ==
    ASSUME TypeInv, Inv
    PROVE  /\ netSeq \in Nat /\ queued \in Nat /\ seqNum \in Nat /\ attempt \in Nat
           /\ faults \in Nat /\ submitted \in Nat /\ cached \in Nat \cup {NoSeq}
           /\ NoSeq \notin Int /\ netSeq <= queued
           /\ \A tx \in mempool : tx.seq \in Nat /\ netSeq < tx.seq /\ tx.seq <= queued
<1>1. netSeq \in Nat /\ queued \in Nat /\ \A tx \in mempool : tx.seq \in Nat
    BY DEF TypeInv, TypeOK, NodeTypeOK, Transaction
<1>2. seqNum \in Nat /\ attempt \in Nat /\ faults \in Nat /\ submitted \in Nat
      /\ cached \in Nat \cup {NoSeq}
    BY DEF TypeInv, TypeOK, ControlTypeOK, LocalTypeOK, HistoryTypeOK
<1> QED
    BY <1>1, <1>2, NoSeqAssumption DEF Inv, SubmissionInv, QueueInv

(* The error that ends an attempt of a calm cycle leaves another attempt.  *)
LEMMA CalmFails ==
    ASSUME RETRY_ATTEMPTS >= 3, attempt \in Nat, attempt <= 1, CycleFails("Rpc")
    PROVE  /\ pc' = "backoff" /\ first' = "none" /\ submitted' = 0
           /\ attempt' = attempt + 1 /\ outcome' = outcome
BY KeeperAssumption DEF CycleFails, DropLocals

(* A lost call that left the queue as it was.                              *)
LEMMA CalmFault ==
    ASSUME TypeInv, Inv, RETRY_ATTEMPTS >= 3, Calm, CalmInv, PlansCounted, pc \in InCycle,
           faults' = faults + 1, faults' <= 1, CycleFails("Rpc"),
           UNCHANGED <<cached, netSeq, queued>>
    PROVE  CalmInv' /\ PlansCounted' /\ outcome' = outcome
<1>0. faults = 0 /\ attempt = 0 /\ faults' = 1
    BY CalmTypes DEF CalmInv, Unused, Aligned, Ahead, Refreshed
<1>1. /\ pc' = "backoff" /\ first' = "none" /\ submitted' = 0
      /\ attempt' = 1 /\ outcome' = outcome
    BY <1>0, CalmFails
<1>2. PlansCounted'
    BY <1>1 DEF PlansCounted, Submitting
<1>3. CASE Unused
    <2>1. Unused'
        BY <1>0, <1>1, <1>3 DEF Unused
    <2> QED
        BY <1>1, <1>2, <2>1 DEF CalmInv, HasNumber
<1>4. CASE Aligned /\ ~HasNumber
    <2>1. NextUp(queued + 1)'
        BY <1>1, <1>4 DEF Aligned, NextUp, HasNumber
    <2>2. Aligned'
        BY <1>0, <1>1, <2>1 DEF Aligned
    <2> QED
        BY <1>1, <1>2, <2>2 DEF CalmInv, HasNumber
<1>5. CASE Aligned /\ HasNumber
    <2>1. seqNum = queued + 1 /\ cached = seqNum /\ queued <= netSeq + submitted
        BY <1>0, <1>5 DEF Aligned, NextUp, CalmInv
    <2>2. NextUp(queued + 2)'
        BY <1>1, <2>1, CalmTypes DEF NextUp, HasNumber
    <2>3. submitted <= 1
        BY DEF PlansCounted
    <2>4. Ahead'
        BY <1>0, <1>1, <2>1, <2>2, <2>3, CalmTypes DEF Ahead
    <2> QED
        BY <1>1, <1>2, <2>4 DEF CalmInv, HasNumber
<1> QED
    BY <1>0, <1>2, <1>3, <1>4, <1>5, <1>1 DEF CalmInv, Ahead, Refreshed

(* A step of run_cycle that touches no number.                             *)
LEMMA CalmMoves ==
    ASSUME TypeInv, Inv, Calm, CalmInv,
           HasNumber' <=> HasNumber, pc # "sequence",
           UNCHANGED <<cached, netSeq, queued, seqNum, attempt, first, faults, submitted>>
    PROVE  CalmInv'
<1>1. Unused => Unused'
    BY DEF Unused
<1>2. Aligned => Aligned'
    BY DEF Aligned, NextUp
<1>3. Ahead => Ahead'
    BY DEF Ahead, NextUp
<1>4. Refreshed => Refreshed'
    BY DEF Refreshed
<1> QED
    BY <1>1, <1>2, <1>3, <1>4 DEF CalmInv

(* The four answers a sent transaction can get in a calm cycle.            *)
LEMMA CalmAccepted ==
    ASSUME TypeInv, Inv, Calm, CalmInv, PlansCounted, FeeInv, pc = "send",
           PlanAccepted, UNCHANGED <<cached, netSeq, faults>>,
           \/ seqNum = queued + 1 /\ queued' = queued + 1
           \/ Tx \in mempool /\ queued' = queued
    PROVE  CalmInv' /\ PlansCounted' /\ outcome' \notin ErrorKind
<1>0. pc \in Submitting /\ HasNumber /\ cached = seqNum
    BY DEF Submitting, HasNumber, CalmInv
<1>1. CASE todo = {Current}
    BY <1>1 DEF PlanAccepted, CycleOk, DropLocals, CalmInv, Calm, PlansCounted, ErrorKind,
                InCycle, Submitting
<1>2. CASE todo # {Current}
    <2>1. /\ pc' = "sequence" /\ first' = "none" /\ submitted' = submitted + 1
          /\ todo' = todo \ {Current} /\ attempt' = attempt /\ outcome' = outcome
        BY <1>2 DEF PlanAccepted
    <2>2. submitted = 0
        BY <1>0, <1>2 DEF PlansCounted, Current
    <2>3. todo' = {"temporary"}
        <3>1. todo # {} /\ todo \subseteq {"persistent", "temporary"}
            BY <1>0 DEF FeeInv, TypeInv, TypeOK, LocalTypeOK, Groups
        <3> QED
            BY <1>2, <2>1, <3>1 DEF Current
    <2>4. PlansCounted'
        BY <2>1, <2>2, <2>3 DEF PlansCounted, Submitting
    <2>5. ~Ahead /\ seqNum = queued'
        <3>1. Tx.seq = seqNum
            BY DEF Tx
        <3>2. Tx \in mempool => seqNum <= queued /\ netSeq < seqNum
            BY <3>1, CalmTypes
        <3> QED
            BY <1>0, <3>2, CalmTypes DEF CalmInv, Unused, Aligned, Ahead, Refreshed, NextUp
    <2>6. NextUp(queued + 1)'
        BY <1>0, <2>1, <2>5, CalmTypes DEF NextUp, HasNumber
    <2>7. attempt <= faults \/ (attempt = 2 /\ faults = 1)
        BY <2>5 DEF CalmInv, Unused, Aligned, Refreshed
    <2>8. faults = 0 => queued' <= netSeq + 1
        BY <2>2, <2>5, CalmTypes DEF CalmInv, Unused, Aligned, Refreshed
    <2>9. Aligned'
        BY <2>1, <2>2, <2>6, <2>7, <2>8 DEF Aligned
    <2>10. outcome' = "none"
        BY <1>0, <2>1 DEF Inv, SubmissionInv, OutcomeOpen, InCycle
    <2> QED
        BY <2>1, <2>4, <2>9, <2>10 DEF CalmInv, HasNumber, ErrorKind
<1> QED
    BY <1>1, <1>2

(* The transaction is queued, and the answer is lost.                      *)
LEMMA CalmAnswerLost ==
    ASSUME TypeInv, Inv, RETRY_ATTEMPTS >= 3, Calm, CalmInv, pc = "send",
           seqNum = queued + 1, queued' = queued + 1, UNCHANGED <<cached, netSeq>>,
           faults' = faults + 1, faults' <= 1, CycleFails("Rpc")
    PROVE  CalmInv' /\ PlansCounted' /\ outcome' = outcome
<1>0. faults = 0 /\ attempt = 0 /\ faults' = 1 /\ cached = seqNum
    BY CalmTypes DEF CalmInv, Unused, Aligned, Ahead, Refreshed, HasNumber
<1>1. /\ pc' = "backoff" /\ first' = "none" /\ submitted' = 0
      /\ attempt' = 1 /\ outcome' = outcome
    BY <1>0, CalmFails
<1>2. NextUp(queued + 1)'
    BY <1>0, <1>1, CalmTypes DEF NextUp, HasNumber
<1>3. Aligned'
    BY <1>0, <1>1, <1>2 DEF Aligned
<1> QED
    BY <1>1, <1>3 DEF CalmInv, HasNumber, PlansCounted, Submitting

(* A bad sequence: the first drops the cache, and a second can only be the *)
(* number of a transaction that is queued already.                         *)
LEMMA CalmBadSeq ==
    ASSUME TypeInv, Inv, RETRY_ATTEMPTS >= 3, BadSeqRecognised, Calm, CalmInv, PlansCounted,
           pc = "send", BadSeq(Tx), SubmitFails("Rpc", BadSeqRecognised, cached),
           UNCHANGED <<netSeq, queued, faults>>
    PROVE  CalmInv' /\ PlansCounted' /\ outcome' = outcome
<1>0. HasNumber /\ cached = seqNum /\ seqNum # queued + 1
    BY DEF HasNumber, CalmInv, BadSeq, Accepts, Tx
<1>1. Unused \/ Ahead \/ Refreshed
    BY <1>0 DEF CalmInv, Aligned, NextUp
<1>2. CASE first = "none"
    <2>1. /\ pc' = "sequence" /\ first' = "Rpc" /\ cached' = NoSeq
          /\ UNCHANGED <<attempt, outcome, todo, submitted>>
        BY <1>2 DEF SubmitFails, ReportFailure
    <2>2. PlansCounted'
        BY <2>1 DEF PlansCounted, Submitting
    <2>3. CASE Unused
        <3>1. NextUp(queued + 1)'
            BY <2>1, <2>3 DEF NextUp, HasNumber, Unused
        <3>2. Aligned'
            BY <2>1, <2>3, <3>1, CalmTypes DEF Aligned, Unused
        <3> QED
            BY <2>1, <2>2, <3>2 DEF CalmInv, HasNumber
    <2>4. CASE Ahead
        <3>1. Refreshed'
            BY <2>1, <2>4 DEF Ahead, Refreshed, HasNumber
        <3> QED
            BY <2>1, <2>2, <3>1 DEF CalmInv, HasNumber
    <2> QED
        BY <1>1, <1>2, <2>3, <2>4 DEF Refreshed
<1>3. CASE first # "none"
    <2>1. first = "Rpc" /\ seqNum = queued /\ attempt = 1 /\ faults = 1
        BY <1>0, <1>1, <1>3 DEF Unused, Ahead, Refreshed
    <2>2. CycleFails("Rpc") /\ cached' = cached
        BY <2>1 DEF SubmitFails
    <2>3. /\ pc' = "backoff" /\ first' = "none" /\ submitted' = 0
          /\ attempt' = 2 /\ outcome' = outcome
        BY <2>1, <2>2, CalmFails
    <2>4. NextUp(queued + 1)'
        BY <1>0, <2>1, <2>2, <2>3, CalmTypes DEF NextUp, HasNumber
    <2>5. Aligned'
        BY <2>1, <2>3, <2>4 DEF Aligned
    <2> QED
        BY <2>3, <2>5 DEF CalmInv, HasNumber, PlansCounted, Submitting
<1> QED
    BY <1>2, <1>3

(* Outside Submitting nothing is counted, and no error has set off a retry. *)
LEMMA ReturnCounted ==
    ASSUME NEW kind, CycleOk \/ CycleFails(kind)
    PROVE  PlansCounted' /\ (Calm' => pc' = "backoff")
BY DEF CycleOk, CycleFails, DropLocals, PlansCounted, Calm, InCycle, Submitting

LEMMA SubmitFailsCounted ==
    ASSUME PlansCounted, pc \in Submitting,
           NEW kind, NEW badSeq, NEW cache, SubmitFails(kind, badSeq, cache)
    PROVE  PlansCounted'
<1>1. CASE first = "none" /\ badSeq
    BY <1>1 DEF SubmitFails, PlansCounted, Submitting
<1>2. CASE ~(first = "none" /\ badSeq)
    BY <1>2, ReturnCounted DEF SubmitFails
<1> QED
    BY <1>1, <1>2

LEMMA PlanAcceptedCounted ==
    ASSUME TypeInv, FeeInv, PlansCounted, pc \in Submitting, PlanAccepted
    PROVE  PlansCounted'
<1>1. CASE todo = {Current}
    BY <1>1, ReturnCounted DEF PlanAccepted
<1>2. CASE todo # {Current}
    <2>1. pc' = "sequence" /\ submitted' = submitted + 1 /\ todo' = todo \ {Current}
        BY <1>2 DEF PlanAccepted
    <2>2. submitted = 0
        BY <1>2 DEF PlansCounted, Current
    <2>3. todo # {} /\ todo \subseteq {"persistent", "temporary"}
        BY DEF FeeInv, TypeInv, TypeOK, LocalTypeOK, Groups
    <2>4. todo' = {"temporary"}
        BY <1>2, <2>1, <2>3 DEF Current
    <2> QED
        BY <2>1, <2>2, <2>4 DEF PlansCounted, Submitting
<1> QED
    BY <1>1, <1>2

LEMMA KeeperStepCounted ==
    ASSUME TypeInv, FeeInv, PlansCounted, KeeperStep
    PROVE  PlansCounted'
<1>1. CASE CheckNetwork
    BY <1>1, ReturnCounted DEF CheckNetwork, localVars, PlansCounted, Submitting
<1>2. CASE ObserveChunk
    BY <1>2, ReturnCounted DEF ObserveChunk, PlansCounted, Submitting
<1>3. CASE MakePlans
    BY <1>3, ReturnCounted DEF MakePlans, PlansCounted, Submitting
<1>4. CASE TakeSequence
    BY <1>4, SubmitFailsCounted DEF TakeSequence, PlansCounted, Submitting
<1>5. CASE Simulate
    BY <1>5, SubmitFailsCounted DEF Simulate, localVars, PlansCounted, Submitting
<1>6. CASE Send
    <2>1. pc \in Submitting
        BY <1>6 DEF Send, Submitting
    <2>2. PlanAccepted \/ \E badSeq : SubmitFails("Rpc", badSeq, cached)
        BY <1>6 DEF Send, SendQueued, SendKnown, SendRefused, SendLost
    <2> QED
        BY <2>1, <2>2, PlanAcceptedCounted, SubmitFailsCounted
<1>7. CASE Retry
    BY <1>7 DEF Retry, localVars, PlansCounted, Submitting
<1> QED
    BY <1>1, <1>2, <1>3, <1>4, <1>5, <1>6, <1>7 DEF KeeperStep

(* In a cycle that stays calm, a submission fails only by a lost call or   *)
(* by a bad sequence.                                                      *)
LEMMA CalmSubmitFault ==
    ASSUME TypeInv, Inv, RETRY_ATTEMPTS >= 3, Calm, CalmInv, PlansCounted, pc \in Submitting,
           Fault, faults' <= 1, SubmitFails("Rpc", FALSE, cached)
    PROVE  CycleFails("Rpc") /\ cached' = cached /\ faults' = faults + 1
BY DEF SubmitFails, Fault, CalmInv

LEMMA KeeperStepCalm ==
    ASSUME TypeInv, Inv, FeeInv, RETRY_ATTEMPTS >= 3, BadSeqRecognised,
           CalmInv, PlansCounted, KeeperStep, trouble' = {}, faults' <= 1
    PROVE  CalmInv' /\ outcome' \notin ErrorKind
<1>0. Calm /\ outcome = "none"
    <2>1. trouble = {}
        BY DEF KeeperStep, CheckNetwork, ObserveChunk, MakePlans, TakeSequence, Simulate, Send,
               SendQueued, SendKnown, SendRefused, SendLost, Retry, historyVars, Meets
    <2>2. faults' = faults \/ faults' = faults + 1
        BY DEF KeeperStep, CheckNetwork, ObserveChunk, MakePlans, TakeSequence, Simulate,
               Send, SendQueued, SendKnown, SendRefused, SendLost, Retry, historyVars, Fault
    <2>3. pc \in InCycle \cup {"backoff"}
        BY DEF KeeperStep, CheckNetwork, ObserveChunk, MakePlans, TakeSequence, Simulate, Send, Retry,
               InCycle, Submitting
    <2>4. faults <= 1
        BY <2>2, CalmTypes
    <2> QED
        BY <2>1, <2>3, <2>4 DEF Calm, Inv, SubmissionInv, OutcomeOpen
<1>a. "none" \notin ErrorKind /\ "ok" \notin ErrorKind
    BY DEF ErrorKind
<1>1. CASE CheckNetwork \/ ObserveChunk
    <2>1. /\ pc \in {"network", "observe"} /\ pc \in InCycle
          /\ UNCHANGED <<cached, netSeq, queued>>
        BY <1>1 DEF CheckNetwork, ObserveChunk, nodeVars, InCycle
    <2>2. \/ /\ pc' \in {"observe", "plan"}
             /\ UNCHANGED <<attempt, seqNum, first, submitted, faults, outcome>>
          \/ Fault /\ CycleFails("Rpc")
        BY <1>1 DEF CheckNetwork, ObserveChunk, Meets, localVars
    <2>3. CASE Fault /\ CycleFails("Rpc")
        BY <1>0, <1>a, <2>1, <2>3, CalmFault DEF Fault
    <2>4. CASE ~(Fault /\ CycleFails("Rpc"))
        BY <1>0, <1>a, <2>1, <2>2, <2>4, CalmMoves DEF HasNumber
    <2> QED
        BY <2>3, <2>4
<1>2. CASE MakePlans
    <2>1. CASE CycleOk
        BY <1>a, <2>1 DEF CycleOk, CalmInv, Calm, InCycle, Submitting
    <2>2. CASE ~CycleOk
        <3>1. /\ pc = "plan" /\ pc' = "sequence"
              /\ UNCHANGED <<cached, netSeq, queued, seqNum, attempt, first, faults, submitted, outcome>>
            BY <1>2, <2>2 DEF MakePlans, nodeVars
        <3> QED
            BY <1>0, <1>a, <3>1, CalmMoves DEF HasNumber
    <2> QED
        BY <2>1, <2>2
<1>3. CASE TakeSequence
    <2>1. /\ pc = "sequence" /\ pc \in Submitting /\ pc \in InCycle
          /\ UNCHANGED <<netSeq, queued>>
        BY <1>3 DEF TakeSequence, nodeVars, InCycle, Submitting
    <2>2. CASE Fault /\ SubmitFails("Rpc", FALSE, cached)
        BY <1>0, <1>a, <2>1, <2>2, CalmSubmitFault, CalmFault
    <2>3. CASE /\ cached' = NextSeq(netSeq) /\ seqNum' = NextSeq(netSeq) /\ pc' = "simulate"
               /\ UNCHANGED <<attempt, first, submitted, faults, outcome>>
        <3>1. ~HasNumber /\ HasNumber'
            BY <2>1, <2>3 DEF HasNumber
        <3>2. Unused => Unused'
            BY <2>1, <2>3 DEF Unused
        <3>3. Aligned => Aligned'
            BY <2>1, <2>3, <3>1, CalmTypes DEF Aligned, NextUp, NextSeq
        <3>4. Ahead => Ahead'
            BY <2>1, <2>3, <3>1, CalmTypes DEF Ahead, NextUp, NextSeq
        <3>5. Refreshed => Refreshed'
            BY <2>1, <2>3, <3>1, CalmTypes DEF Refreshed, NextSeq
        <3> QED
            BY <1>0, <1>a, <2>3, <3>2, <3>3, <3>4, <3>5 DEF CalmInv
    <2> QED
        BY <1>3, <2>2, <2>3 DEF TakeSequence, NextSequence, Meets
<1>4. CASE Simulate
    <2>1. /\ pc = "simulate" /\ pc \in Submitting /\ pc \in InCycle
          /\ UNCHANGED <<netSeq, queued>>
        BY <1>4 DEF Simulate, nodeVars, InCycle, Submitting
    <2>2. CASE Fault /\ SubmitFails("Rpc", FALSE, cached)
        BY <1>0, <1>a, <2>1, <2>2, CalmSubmitFault, CalmFault
    <2>3. CASE pc' = "send" /\ UNCHANGED <<cached, attempt, localVars, faults, outcome>>
        BY <1>0, <1>a, <2>1, <2>3, CalmMoves DEF HasNumber, localVars
    <2> QED
        BY <1>4, <2>2, <2>3 DEF Simulate, Meets
<1>5. CASE Send
    <2>1. /\ pc = "send" /\ pc \in Submitting /\ pc \in InCycle /\ UNCHANGED netSeq
          /\ Tx.seq = seqNum
        BY <1>5 DEF Send, InCycle, Submitting, Tx
    <2>2. CASE SendQueued
        <3>1. seqNum = queued + 1 /\ queued' = queued + 1
            BY <2>1, <2>2 DEF SendQueued, Accepts, Enqueue
        <3>2. CASE PlanAccepted /\ UNCHANGED <<cached, faults>>
            BY <1>0, <2>1, <3>1, <3>2, CalmAccepted
        <3>3. CASE Fault /\ SubmitFails("Rpc", FALSE, cached)
            BY <1>0, <1>a, <2>1, <3>1, <3>3, CalmSubmitFault, CalmAnswerLost
        <3> QED
            BY <2>2, <3>2, <3>3 DEF SendQueued
    <2>3. CASE SendKnown
        BY <1>0, <2>1, <2>3, CalmAccepted DEF SendKnown, IsDuplicate
    <2>4. CASE SendRefused
        BY <1>0, <1>a, <2>1, <2>4, CalmBadSeq DEF SendRefused, Meets
    <2>5. CASE SendLost
        BY <1>0, <1>a, <2>1, <2>5, CalmSubmitFault, CalmFault DEF SendLost
    <2> QED
        BY <1>5, <2>2, <2>3, <2>4, <2>5 DEF Send
<1>6. CASE Retry
    <2>1. /\ pc = "backoff" /\ pc' = "network"
          /\ UNCHANGED <<cached, netSeq, queued, seqNum, attempt, first, faults, submitted, outcome>>
        BY <1>6 DEF Retry, nodeVars, localVars, historyVars
    <2> QED
        BY <1>0, <1>a, <2>1, CalmMoves DEF HasNumber
<1> QED
    BY <1>1, <1>2, <1>3, <1>4, <1>5, <1>6 DEF KeeperStep

(* The node applies what is queued between two steps of a calm cycle, and  *)
(* does nothing else to the account.                                       *)
LEMMA NodeStepCalm ==
    ASSUME TypeInv, Inv, CalmInv, NodeStep, Calm'
    PROVE  CalmInv'
<1>0. UNCHANGED <<cached, seqNum, attempt, first, faults, submitted, pc>>
    BY DEF NodeStep, loopVars, localVars
<1>1. Calm /\ (CloseLedger \/ ApplyNext \/ Evict)
    BY <1>0 DEF NodeStep, Meets, Calm
<1>2. (HasNumber' <=> HasNumber) /\ queued' = queued
    BY <1>0, <1>1 DEF HasNumber, CloseLedger, ApplyNext, Evict
<1>3. CASE CloseLedger \/ Evict
    <2>1. UNCHANGED netSeq
        BY <1>3 DEF CloseLedger, Evict
    <2> QED
        BY <1>0, <1>1, <1>2, <2>1 DEF CalmInv, Unused, Aligned, Ahead, Refreshed, NextUp, HasNumber
<1>4. CASE ApplyNext
    <2>1. netSeq < queued /\ netSeq' = netSeq + 1
        BY <1>4 DEF ApplyNext
    <2>2. ~Unused
        BY <2>1, CalmTypes DEF Unused
    <2>3. Aligned => Aligned'
        BY <1>0, <1>2, <2>1, CalmTypes DEF Aligned, NextUp, HasNumber
    <2>4. Ahead => Ahead'
        BY <1>0, <1>2, <2>1, CalmTypes DEF Ahead, NextUp, HasNumber
    <2>5. Refreshed => Refreshed'
        BY <1>0, <1>2, <2>1, CalmTypes DEF Refreshed, HasNumber
    <2> QED
        BY <1>0, <1>1, <1>2, <2>2, <2>3, <2>4, <2>5 DEF CalmInv
<1> QED
    BY <1>1, <1>3, <1>4

LEMMA ProcessStepRecovery ==
    ASSUME TypeInv, Inv, RecoveryInv, ProcessStep
    PROVE  RecoveryInv'
<1>1. CASE Start \/ Shutdown
    BY <1>1 DEF Start, Shutdown, localVars, historyVars, boundVars, RecoveryInv, CalmInv, Calm,
                PlansCounted, SingleFaultRecovered, InCycle, Submitting
<1>2. CASE Crash
    BY <1>2 DEF Crash, DropLocals, RecoveryInv, CalmInv, Calm, PlansCounted, SingleFaultRecovered,
                ErrorKind, InCycle, Submitting
<1>3. CASE Deliver
    BY <1>3 DEF Deliver, nodeVars, localVars, historyVars, boundVars, RecoveryInv, CalmInv, Calm,
                PlansCounted, SingleFaultRecovered, Unused, Aligned, Ahead, Refreshed, NextUp, HasNumber
<1>4. CASE Tick
    <2>1. /\ pc = "select" /\ pc' = "network" /\ outcome' = "none" /\ attempt' = 0 /\ faults' = 0
          /\ trouble' = (IF queued > netSeq THEN {"pending"} ELSE {})
          /\ UNCHANGED <<netSeq, queued, first, submitted>>
        BY <1>4 DEF Tick, nodeVars, localVars
    <2>2. first = "none" /\ submitted = 0
        BY <2>1 DEF RecoveryInv, PlansCounted, Submitting
    <2>3. trouble' = {} => Unused'
        BY <2>1, <2>2, CalmTypes DEF Unused
    <2> QED
        BY <2>1, <2>2, <2>3
        DEF RecoveryInv, CalmInv, Calm, HasNumber, PlansCounted, SingleFaultRecovered, ErrorKind, Submitting
<1> QED
    BY <1>1, <1>2, <1>3, <1>4 DEF ProcessStep

LEMMA RecoveryStep ==
    ASSUME TypeInv, Inv, FeeInv, RETRY_ATTEMPTS >= 3, BadSeqRecognised, RecoveryInv, [Next]_vars
    PROVE  RecoveryInv'
<1>1. CASE KeeperStep
    <2>1. PlansCounted'
        BY <1>1, KeeperStepCounted DEF RecoveryInv
    <2>2. CASE trouble' = {} /\ faults' <= 1
        BY <1>1, <2>1, <2>2, KeeperStepCalm DEF RecoveryInv, SingleFaultRecovered
    <2>3. CASE ~(trouble' = {} /\ faults' <= 1)
        <3>1. faults' \in Nat
            BY TypeStep DEF TypeInv, TypeOK, HistoryTypeOK
        <3>2. CalmInv'
            BY <2>3 DEF CalmInv, Calm
        <3>3. SingleFaultRecovered'
            BY <2>3, <3>1 DEF SingleFaultRecovered
        <3> QED
            BY <2>1, <3>2, <3>3 DEF RecoveryInv
    <2> QED
        BY <2>2, <2>3
<1>2. CASE NodeStep
    <2>1. UNCHANGED <<pc, todo, first, submitted, faults, outcome>> /\ trouble \subseteq trouble'
        BY <1>2 DEF NodeStep, loopVars, localVars, Meets
    <2>2. PlansCounted' /\ SingleFaultRecovered'
        BY <2>1 DEF RecoveryInv, PlansCounted, SingleFaultRecovered
    <2>3. CalmInv'
        BY <1>2, NodeStepCalm DEF RecoveryInv, CalmInv
    <2> QED
        BY <2>2, <2>3 DEF RecoveryInv
<1>3. CASE UNCHANGED vars
    BY <1>3 DEF vars, nodeVars, loopVars, localVars, historyVars, RecoveryInv, CalmInv, Calm,
                PlansCounted, SingleFaultRecovered, Unused, Aligned, Ahead, Refreshed, NextUp, HasNumber
<1> QED
    BY <1>1, <1>2, <1>3, ProcessStepRecovery DEF Next

(* A cycle that begins with nothing of the account queued, in which at     *)
(* most one call is lost and nothing else goes wrong, does not fail.  The  *)
(* code's three attempts are as few as will do, and its test for a bad     *)
(* sequence has to know the node's words for it.                           *)
THEOREM OneFaultIsRecovered ==
    ASSUME RETRY_ATTEMPTS >= 3, BadSeqRecognised
    PROVE  Spec => []SingleFaultRecovered
<1>1. Init => RecoveryInv
    BY DEF Init, TrackerInit, RecoveryInv, CalmInv, Calm, PlansCounted, SingleFaultRecovered,
           ErrorKind, InCycle, Submitting
<1>2. Inv /\ FeeInv /\ RecoveryInv /\ [Next]_vars => RecoveryInv'
    BY RecoveryStep DEF Inv
<1>3. RecoveryInv => SingleFaultRecovered
    BY DEF RecoveryInv
<1> QED
    BY <1>1, <1>2, <1>3, SubmissionInvariant, FeeInvariant, PTL DEF Spec
=============================================================================
