------------------------ MODULE RestorePlanner_proofs ------------------------
(***************************************************************************)
(* Plans, their files and their signatures for every request, every edit   *)
(* of the operator, however long a plan lies on disk and whatever ledgers  *)
(* close and others do in the meantime.                                    *)
(***************************************************************************)
EXTENDS RestorePlanner, NatRecursion

-----------------------------------------------------------------------------
(* The values the planner's state consists of.                             *)

OptionalLedger == Nat \cup {NoLedger}

Observations ==
    [at : Nat, state : {"Live", "ExpiredButPresent", "Archived"}, until : Nat]

(* Entries as the code makes them: the durability is that of the key.      *)
Entries ==
    {e \in [key : Keys, kind : OperationKind, durability : {"Persistent", "Temporary", "None"},
            ttl : [at : Nat, until : OptionalLedger]] : e.durability = Durability[e.key]}

Plans == [reference_ledger : Nat, extend_to : Nat, entries : Seq(Entries)]

(* Entries as text: an editor may have been at them.                       *)
TextEntries ==
    [key_xdr : Keys \cup {"garbled"}, operation : {"extend", "restore", "bump"},
     durability : {"Persistent", "Temporary", "None"},
     current_ledger : OptionalLedger, live_until_ledger_seq : OptionalLedger]

Documents == [reference_ledger : Nat, extend_to : Nat, entries : Seq(TextEntries)]

Files == [state : {"torn", "written"}, document : Documents]

-----------------------------------------------------------------------------
(* Facts about the operators the commands are built from.                  *)

LEMMA ExtendToType == \A seconds \in Int : DaysToExtendTo(seconds) \in Nat
<1> SUFFICES ASSUME NEW seconds \in Int PROVE DaysToExtendTo(seconds) \in Nat
    OBVIOUS
<1>1. FromSeconds(seconds) \in Nat
    BY WordAssumption DEF FromSeconds, MinOf
<1> QED
    BY <1>1, WordAssumption, PlannerAssumption DEF DaysToExtendTo, ExtendToLedgers, MinOf

LEMMA EntryFields ==
    \A k, kind, at, until :
        /\ PlanEntry(k, kind, at, until).key = k
        /\ PlanEntry(k, kind, at, until).kind = kind
        /\ PlanEntry(k, kind, at, until).durability = Durability[k]
        /\ PlanEntry(k, kind, at, until).ttl.at = at
        /\ PlanEntry(k, kind, at, until).ttl.until = until
BY DEF PlanEntry

LEMMA EntryShape ==
    \A e \in Entries :
        /\ e.key \in Keys /\ e.kind \in OperationKind
        /\ e.durability = Durability[e.key]
        /\ e.ttl.at \in Nat /\ e.ttl.until \in OptionalLedger
        /\ e = PlanEntry(e.key, e.kind, e.ttl.at, e.ttl.until)
BY DEF Entries, PlanEntry

LEMMA EntryMade ==
    \A k \in Keys, kind \in OperationKind, at \in Nat, until \in OptionalLedger :
        PlanEntry(k, kind, at, until) \in Entries
BY PlannerAssumption DEF Entries, PlanEntry

LEMMA PlanMade ==
    ASSUME NEW ref \in Nat, NEW x \in Nat, NEW es \in Seq(Entries)
    PROVE  /\ ArchivalPlan(ref, x, es) \in Plans
           /\ ArchivalPlan(ref, x, es).entries = es
           /\ ArchivalPlan(ref, x, es).extend_to = x
           /\ ArchivalPlan(ref, x, es).reference_ledger = ref
BY DEF ArchivalPlan, Plans

LEMMA NoPlanType == NoPlan \in Plans
BY DEF NoPlan, ArchivalPlan, Plans

(* What is written can be read back, and is the same plan again: the key and    *)
(* the kind of an entry are legible, its ledger is there, its durability   *)
(* is that of its key.                                                     *)
LEMMA SerializeType == \A p \in Plans : Serialize(p) \in Documents
<1> SUFFICES ASSUME NEW p \in Plans PROVE Serialize(p) \in Documents
    OBVIOUS
<1>1. p.entries \in Seq(Entries) /\ p.reference_ledger \in Nat /\ p.extend_to \in Nat
    BY DEF Plans
<1>2. DOMAIN p.entries = 1..Len(p.entries) /\ Len(p.entries) \in Nat
    BY <1>1
<1>3. \A i \in DOMAIN p.entries : p.entries[i] \in Entries
    BY <1>1
<1> DEFINE Text(i) ==
        LET e == p.entries[i]
        IN  [key_xdr |-> e.key, operation |-> e.kind, durability |-> e.durability,
             current_ledger |-> e.ttl.at, live_until_ledger_seq |-> e.ttl.until]
<1>4. \A i \in DOMAIN p.entries : Text(i) \in TextEntries
    BY <1>3, EntryShape, PlannerAssumption DEF TextEntries, OperationKind, OptionalLedger
<1> HIDE DEF Text
<1>5. [i \in DOMAIN p.entries |-> Text(i)] \in Seq(TextEntries)
    BY <1>2, <1>4
<1>6. Serialize(p) = [reference_ledger |-> p.reference_ledger, extend_to |-> p.extend_to,
                      entries |-> [i \in DOMAIN p.entries |-> Text(i)]]
    BY DEF Serialize, Text
<1> QED
    BY <1>1, <1>5, <1>6 DEF Documents

LEMMA ReadsAsWritten ==
    \A p \in Plans : Decodes(Serialize(p)) /\ Deserialize(Serialize(p)) = p
<1> SUFFICES ASSUME NEW p \in Plans
             PROVE  Decodes(Serialize(p)) /\ Deserialize(Serialize(p)) = p
    OBVIOUS
<1> DEFINE d == Serialize(p)
<1>1. p = ArchivalPlan(p.reference_ledger, p.extend_to, p.entries) /\ p.entries \in Seq(Entries)
    BY DEF Plans, ArchivalPlan
<1>2. /\ d.reference_ledger = p.reference_ledger /\ d.extend_to = p.extend_to
      /\ DOMAIN d.entries = DOMAIN p.entries
      /\ \A i \in DOMAIN p.entries :
            /\ d.entries[i].key_xdr = p.entries[i].key
            /\ d.entries[i].operation = p.entries[i].kind
            /\ d.entries[i].current_ledger = p.entries[i].ttl.at
            /\ d.entries[i].live_until_ledger_seq = p.entries[i].ttl.until
    BY DEF Serialize
<1>3. \A i \in DOMAIN p.entries : p.entries[i] \in Entries
    BY <1>1
<1> HIDE DEF d
<1>4. Decodes(d)
    BY <1>2, <1>3, EntryShape, PlannerAssumption DEF Decodes
<1> DEFINE Entry(i) ==
        LET e == d.entries[i]
            at == IF e.current_ledger = NoLedger THEN 0 ELSE e.current_ledger
        IN  PlanEntry(e.key_xdr, e.operation, at, e.live_until_ledger_seq)
<1>5. \A i \in DOMAIN p.entries : Entry(i) = p.entries[i]
    <2> SUFFICES ASSUME NEW i \in DOMAIN p.entries PROVE Entry(i) = p.entries[i]
        OBVIOUS
    <2>1. d.entries[i].current_ledger # NoLedger
        BY <1>2, <1>3, EntryShape DEF NoLedger
    <2>2. Entry(i) = PlanEntry(p.entries[i].key, p.entries[i].kind, p.entries[i].ttl.at,
                              p.entries[i].ttl.until)
        BY <1>2, <2>1
    <2> QED
        BY <1>3, <2>2, EntryShape
<1>6. Deserialize(d) = ArchivalPlan(d.reference_ledger, d.extend_to,
                                    [i \in DOMAIN d.entries |-> Entry(i)])
    BY DEF Deserialize
<1> HIDE DEF Entry
<1>7. [i \in DOMAIN d.entries |-> Entry(i)] = p.entries
    BY <1>1, <1>2, <1>5
<1>8. Deserialize(d) = p
    BY <1>1, <1>2, <1>6, <1>7
<1> QED
    BY <1>4, <1>8 DEF d

(* Whatever an editor has made of a document: a plan that is read from it  *)
(* has entries like those of the planner.                                  *)
LEMMA DeserializeType ==
    ASSUME NEW d \in Documents, Decodes(d)
    PROVE  Deserialize(d) \in Plans
<1> DEFINE Entry(i) ==
        LET e == d.entries[i]
            at == IF e.current_ledger = NoLedger THEN 0 ELSE e.current_ledger
        IN  PlanEntry(e.key_xdr, e.operation, at, e.live_until_ledger_seq)
<1>1. d.entries \in Seq(TextEntries) /\ d.reference_ledger \in Nat /\ d.extend_to \in Nat
    BY DEF Documents
<1>2. DOMAIN d.entries = 1..Len(d.entries) /\ Len(d.entries) \in Nat
    BY <1>1
<1>3. ASSUME NEW i \in DOMAIN d.entries PROVE Entry(i) \in Entries
    <2>1. d.entries[i] \in TextEntries
        BY <1>1
    <2>2. d.entries[i].key_xdr \in Keys /\ d.entries[i].operation \in OperationKind
        BY PlannerAssumption DEF Decodes
    <2>3. /\ d.entries[i].live_until_ledger_seq \in OptionalLedger
          /\ (IF d.entries[i].current_ledger = NoLedger THEN 0 ELSE d.entries[i].current_ledger)
                \in Nat
        BY <2>1 DEF TextEntries, OptionalLedger
    <2> QED
        BY <2>2, <2>3, EntryMade
<1>4. Deserialize(d) = ArchivalPlan(d.reference_ledger, d.extend_to,
                                    [i \in DOMAIN d.entries |-> Entry(i)])
    BY DEF Deserialize
<1> HIDE DEF Entry
<1>5. [i \in DOMAIN d.entries |-> Entry(i)] \in Seq(Entries)
    BY <1>2, <1>3
<1> QED
    BY <1>1, <1>4, <1>5, PlanMade

-----------------------------------------------------------------------------
(* The rows a restore plan keeps.                                          *)

LEMMA DeadDefined ==
    DeadAmong = [n \in Nat |->
        IF n = 0 THEN <<>>
        ELSE IF NeedsRestore(obs[n]) THEN Append(DeadAmong[n - 1], n) ELSE DeadAmong[n - 1]]
<1> DEFINE Step == [pair \in Nat \X Seq(Nat) |->
                        IF NeedsRestore(obs[pair[1]]) THEN Append(pair[2], pair[1]) ELSE pair[2]]
<1>1. Step \in [Nat \X Seq(Nat) -> Seq(Nat)]
    OBVIOUS
<1>2. \A n \in Nat, rows \in Seq(Nat) :
         Step[<<n, rows>>] = IF NeedsRestore(obs[n]) THEN Append(rows, n) ELSE rows
    OBVIOUS
<1> HIDE DEF Step
<1>3. PICK f : Solves(Seq(Nat), <<>>, Step, f)
    <2>1. <<>> \in Seq(Nat)
        OBVIOUS
    <2> QED
        BY <1>1, <2>1, RecursionOnNat
<1>4. f = [n \in Nat |-> IF n = 0 THEN <<>>
                         ELSE IF NeedsRestore(obs[n]) THEN Append(f[n - 1], n) ELSE f[n - 1]]
    <2>1. ASSUME NEW n \in Nat, n # 0
          PROVE  f[n] = IF NeedsRestore(obs[n]) THEN Append(f[n - 1], n) ELSE f[n - 1]
        <3>1. n - 1 \in Nat /\ f[n - 1] \in Seq(Nat)
            BY <1>3, <2>1 DEF Solves
        <3> QED
            BY <1>2, <1>3, <2>1, <3>1 DEF Solves
    <2> QED
        BY <1>3, <2>1 DEF Solves
<1> QED
    BY <1>4, Zenon DEF DeadAmong

LEMMA DeadSteps ==
    /\ DeadAmong[0] = <<>>
    /\ \A n \in Nat : DeadAmong[n + 1] =
          IF NeedsRestore(obs[n + 1]) THEN Append(DeadAmong[n], n + 1) ELSE DeadAmong[n]
<1>1. DeadAmong[0] = <<>>
    BY DeadDefined
<1>2. ASSUME NEW n \in Nat
      PROVE  DeadAmong[n + 1] =
                IF NeedsRestore(obs[n + 1]) THEN Append(DeadAmong[n], n + 1) ELSE DeadAmong[n]
    <2>1. n + 1 \in Nat /\ n + 1 # 0 /\ (n + 1) - 1 = n
        OBVIOUS
    <2> QED
        BY <2>1, DeadDefined
<1> QED
    BY <1>1, <1>2

(* They are rows, and none is kept only if none is dead.                   *)
LEMMA DeadRows ==
    \A n \in Nat :
        /\ DeadAmong[n] \in Seq(1..n)
        /\ DeadAmong[n] = <<>> => \A i \in 1..n : ~NeedsRestore(obs[i])
<1> DEFINE S == {n \in Nat : /\ DeadAmong[n] \in Seq(1..n)
                             /\ DeadAmong[n] = <<>> => \A i \in 1..n : ~NeedsRestore(obs[i])}
<1>1. 0 \in S
    <2>1. DeadAmong[0] \in Seq(1..0)
        <3>1. <<>> \in Seq(1..0)
            OBVIOUS
        <3> QED
            BY <3>1, DeadSteps
    <2>2. \A i \in 1..0 : FALSE
        OBVIOUS
    <2> QED
        BY <2>1, <2>2
<1>2. ASSUME NEW n \in S PROVE n + 1 \in S
    <2>1. n \in Nat /\ DeadAmong[n] \in Seq(1..(n + 1))
        <3>1. 1..n \subseteq 1..(n + 1)
            OBVIOUS
        <3> QED
            BY <3>1
    <2>2. CASE NeedsRestore(obs[n + 1])
        <3>1. DeadAmong[n + 1] = Append(DeadAmong[n], n + 1)
            BY <2>1, <2>2, DeadSteps
        <3>2. Append(DeadAmong[n], n + 1) \in Seq(1..(n + 1)) /\ Append(DeadAmong[n], n + 1) # <<>>
            BY <2>1
        <3>3. DeadAmong[n + 1] \in Seq(1..(n + 1)) /\ DeadAmong[n + 1] # <<>>
            BY <3>1, <3>2
        <3> QED
            BY <2>1, <3>3
    <2>3. CASE ~NeedsRestore(obs[n + 1])
        <3>1. DeadAmong[n + 1] = DeadAmong[n]
            BY <2>1, <2>3, DeadSteps
        <3>2. \A i \in 1..(n + 1) : i \in 1..n \/ i = n + 1
            BY <2>1
        <3> QED
            BY <2>1, <2>3, <3>1, <3>2
    <2> QED
        BY <2>2, <2>3
<1> HIDE DEF S
<1>3. S = Nat
    BY <1>1, <1>2, Inductive DEF S
<1> QED
    BY <1>3 DEF S

LEMMA DeadType ==
    ASSUME obs \in Seq(Observations)
    PROVE  /\ Dead \in Seq(DOMAIN obs)
           /\ Dead = <<>> => \A i \in DOMAIN obs : ~NeedsRestore(obs[i])
BY DeadRows DEF Dead

-----------------------------------------------------------------------------
(* What the commands observe and plan.  A plan is sound: none of its rows  *)
(* was read before the reference, none past its own last ledger, and they  *)
(* are of one kind.                                                        *)

Timely(e, p) ==
    /\ p.reference_ledger <= e.ttl.at
    /\ e.ttl.until # NoLedger => e.ttl.at < e.ttl.until

Sound(p) ==
    /\ \A i \in DOMAIN p.entries : Timely(p.entries[i], p)
    /\ \A i, j \in DOMAIN p.entries : p.entries[i].kind = p.entries[j].kind

(* What an observation says of an entry that is live.                      *)
Seen(observation) == ~NeedsRestore(observation) => observation.at < observation.until

LEMMA ObservationType ==
    ASSUME NEW here \in BOOLEAN, NEW until \in Nat, NEW latest \in Nat
    PROVE  /\ Observation(here, until, latest) \in Observations
           /\ Observation(here, until, latest).at = latest
           /\ Seen(Observation(here, until, latest))
BY DEF Observation, Observations, Seen, NeedsRestore

LEMMA RowAt == \A here, until, latest : Observation(here, until, latest).at = latest
BY DEF Observation

(* The observations were made one after the other.                         *)
InOrder == \A i \in DOMAIN obs : obs[1].at <= obs[i].at

LEMMA RestorePlanType ==
    ASSUME obs \in Seq(Observations), request \in Seq(Keys), Len(obs) = Len(request),
           extendTo \in Nat, Dead # <<>>
    PROVE  RestorePlan \in Plans /\ Sound(RestorePlan)
<1> DEFINE Row(n) == PlanEntry(request[Dead[n]], "restore", CurrentLedger, NoLedger)
<1>1. Dead \in Seq(DOMAIN obs) /\ DOMAIN Dead = 1..Len(Dead) /\ Len(Dead) \in Nat
    BY DeadType
<1>2. DOMAIN obs = DOMAIN request
    OBVIOUS
<1>3. CurrentLedger \in Nat
    <2>1. obs # <<>>
        BY <1>1
    <2>2. obs[1] \in Observations
        BY <2>1
    <2> QED
        BY <2>2 DEF CurrentLedger, Observations
<1>4. ASSUME NEW n \in DOMAIN Dead
      PROVE  /\ Row(n) \in Entries /\ Row(n).kind = "restore"
             /\ Row(n).ttl.at = CurrentLedger /\ Row(n).ttl.until = NoLedger
    <2>1. request[Dead[n]] \in Keys
        BY <1>1, <1>2
    <2>2. "restore" \in OperationKind /\ NoLedger \in OptionalLedger
        BY DEF OperationKind, OptionalLedger
    <2> QED
        BY <1>3, <2>1, <2>2, EntryMade, EntryFields
<1> DEFINE rows == [n \in DOMAIN Dead |-> Row(n)]
<1> HIDE DEF Row
<1>5. rows \in Seq(Entries)
    BY <1>1, <1>4
<1>6. \A n \in DOMAIN rows :
         rows[n].kind = "restore" /\ rows[n].ttl.at = CurrentLedger /\ rows[n].ttl.until = NoLedger
    BY <1>4
<1>7. RestorePlan = ArchivalPlan(CurrentLedger, extendTo, rows)
    BY DEF RestorePlan, Row
<1> HIDE DEF rows
<1> QED
    BY <1>3, <1>5, <1>6, <1>7, PlanMade DEF Sound, Timely

LEMMA ExtendPlanType ==
    ASSUME obs \in Seq(Observations), request \in Seq(Keys), Len(obs) = Len(request),
           request # <<>>, extendTo \in Nat, Dead = <<>>, InOrder,
           \A i \in DOMAIN obs : Seen(obs[i])
    PROVE  ExtendPlan \in Plans /\ Sound(ExtendPlan)
<1> DEFINE Row(i) == PlanEntry(request[i], "extend", obs[i].at, obs[i].until)
<1>1. DOMAIN obs = 1..Len(obs) /\ Len(obs) \in Nat /\ DOMAIN obs = DOMAIN request
    OBVIOUS
<1>2. CurrentLedger \in Nat
    <2>1. obs[1] \in Observations
        BY <1>1
    <2> QED
        BY <2>1 DEF CurrentLedger, Observations
<1>3. ASSUME NEW i \in DOMAIN obs
      PROVE  /\ Row(i) \in Entries /\ Row(i).kind = "extend"
             /\ CurrentLedger <= Row(i).ttl.at
             /\ Row(i).ttl.at < Row(i).ttl.until
    <2>0. obs[i] \in Observations
        BY <1>1
    <2>1. obs[i].at \in Nat /\ obs[i].until \in OptionalLedger
        BY <2>0 DEF Observations, OptionalLedger
    <2>2. obs[i].at < obs[i].until /\ CurrentLedger <= obs[i].at
        BY DeadType DEF Seen, InOrder, CurrentLedger
    <2>3. request[i] \in Keys /\ "extend" \in OperationKind
        BY <1>1 DEF OperationKind
    <2> QED
        BY <2>1, <2>2, <2>3, EntryMade, EntryFields
<1> DEFINE rows == [i \in DOMAIN obs |-> Row(i)]
<1> HIDE DEF Row
<1>4. rows \in Seq(Entries)
    BY <1>1, <1>3
<1>5. \A i \in DOMAIN rows :
         /\ rows[i].kind = "extend"
         /\ CurrentLedger <= rows[i].ttl.at
         /\ rows[i].ttl.at < rows[i].ttl.until
    BY <1>3
<1>6. ExtendPlan = ArchivalPlan(CurrentLedger, extendTo, rows)
    BY DEF ExtendPlan, Row
<1> HIDE DEF rows
<1> QED
    BY <1>2, <1>4, <1>5, <1>6, PlanMade DEF Sound, Timely

(* The ledger of a row is that of an observation.                          *)
LEMMA RowsOfObservations ==
    ASSUME obs \in Seq(Observations), NEW p \in {RestorePlan, ExtendPlan}
    PROVE  \A i \in DOMAIN p.entries : \E j \in DOMAIN obs : p.entries[i].ttl.at = obs[j].at
<1>1. CASE p = RestorePlan
    <2>1. SUFFICES ASSUME NEW i \in DOMAIN p.entries PROVE p.entries[i].ttl.at = obs[1].at /\ 1 \in DOMAIN obs
        OBVIOUS
    <2>2. /\ DOMAIN p.entries = DOMAIN Dead
          /\ p.entries[i] = PlanEntry(request[Dead[i]], "restore", CurrentLedger, NoLedger)
        BY <1>1 DEF RestorePlan, ArchivalPlan
    <2>3. obs # <<>>
        BY <2>2, DeadType
    <2> QED
        BY <2>2, <2>3, EntryFields DEF CurrentLedger
<1>2. CASE p = ExtendPlan
    <2>1. SUFFICES ASSUME NEW i \in DOMAIN p.entries
                   PROVE i \in DOMAIN obs /\ p.entries[i].ttl.at = obs[i].at
        OBVIOUS
    <2>2. DOMAIN p.entries = DOMAIN obs
        BY <1>2 DEF ExtendPlan, ArchivalPlan
    <2>3. p.entries[i] = PlanEntry(request[i], "extend", obs[i].at, obs[i].until)
        BY <1>2, <2>2 DEF ExtendPlan, ArchivalPlan
    <2> QED
        BY <2>2, <2>3, EntryFields
<1> QED
    BY <1>1, <1>2

-----------------------------------------------------------------------------
(* The inductive invariant.  Its parts: the ledger; what a command has     *)
(* observed; the plans and the file; and that none of them is of a ledger  *)
(* to come.                                                                *)

LedgerInv ==
    /\ LedgerTypeOK
    /\ height <= MaxHeight
    /\ \A k \in Keys : liveUntil[k] <= U32Max

ObservationInv ==
    /\ request \in Seq(Keys)
    /\ extendTo \in Nat
    /\ obs \in Seq(Observations)
    /\ \A i \in DOMAIN obs : Seen(obs[i])
    /\ InOrder
    /\ pc = "idle" => obs = <<>>
    /\ pc \in {"observe", "plan"} => request # <<>> /\ Len(obs) <= Len(request)
    /\ pc = "plan" => Len(obs) = Len(request)

(* Until somebody has edited it, a file that is whole holds the plan last  *)
(* written; a torn one holds nothing a command would take.                 *)
FileInv ==
    /\ plan \in Plans
    /\ made \in Plans
    /\ file \subseteq Files
    /\ \A f, g \in file : f = g
    /\ \A f \in file : f.state = "written" /\ ~edited => f.document = Serialize(made)
    /\ pc = "write" => plan = made /\ ~edited
    /\ pc \in {"show", "build", "simulate", "send"} /\ ~edited => plan = made

SoundInv ==
    /\ pc = "emit" => Sound(plan)
    /\ Sound(made)

(* The envelope is that of the plan, through the whole of the signing.     *)
EnvelopeInv ==
    /\ pc \in {"simulate", "send"} => Builds(plan)
    /\ pc = "simulate" => envelope = BuildUnsigned(plan)
    /\ pc = "send" =>
        /\ simulated \in Fees
        /\ envelope = SimulateAndSign(BuildUnsigned(plan), simulated)

CommandInv == ObservationInv /\ FileInv /\ SoundInv /\ EnvelopeInv

(* Nothing that was observed, planned or written is of a ledger to come.   *)
Closed(p) == \A i \in DOMAIN p.entries : p.entries[i].ttl.at <= height

ClosedInv ==
    /\ \A i \in DOMAIN obs : obs[i].at <= height
    /\ pc \in {"emit", "write"} => Closed(plan)
    /\ Closed(made)

PlannerInv == LedgerInv /\ CommandInv /\ ClosedInv


LEMMA PlannerInit == Init => PlannerInv
<1> SUFFICES ASSUME Init PROVE PlannerInv
    OBVIOUS
<1> USE DEF Init
<1>1. LedgerInv
    <2>1. liveUntil \in [Keys -> InitUntil] /\ height = 0 /\ present = Keys \ Phantom
        BY DEF LedgerInit
    <2>2. \A k \in Keys : liveUntil[k] \in Nat /\ liveUntil[k] <= U32Max
        <3>1. \A n \in InitUntil : n \in Nat /\ n <= U32Max
            BY LedgersFit, WordAssumption
        <3> QED
            BY <2>1, <3>1
    <2> QED
        BY <2>1, <2>2, LedgerAssumption DEF LedgerInv, LedgerTypeOK
<1>2. ObservationInv
    BY DEF ObservationInv, InOrder
<1>3. FileInv
    BY NoPlanType DEF FileInv
<1>4. SoundInv /\ EnvelopeInv /\ ClosedInv
    BY DEF SoundInv, EnvelopeInv, ClosedInv, Closed, NoPlan, ArchivalPlan, Sound
<1> QED
    BY <1>1, <1>2, <1>3, <1>4 DEF PlannerInv, CommandInv

(* The ledger, whoever it is that bumps an entry.                          *)
LEMMA BumpedType ==
    ASSUME LedgerInv, NEW keys, NEW extendTo_ \in Nat
    PROVE  /\ Bumped(keys, extendTo_) \in [Keys -> Nat]
           /\ \A k \in Keys : Bumped(keys, extendTo_)[k] <= U32Max
           /\ \A k \in Keys : Bumped(keys, extendTo_)[k] >= liveUntil[k]
           /\ \A k \in keys \cap Keys : IsLive(k) =>
                 Bumped(keys, extendTo_)[k] >= height + MinOf(extendTo_, NetMax)
<1> DEFINE target == height + (IF extendTo_ <= NetMax THEN extendTo_ ELSE NetMax)
<1>1. height \in Nat /\ height <= MaxHeight /\ \A k \in Keys : liveUntil[k] \in Nat /\ liveUntil[k] <= U32Max
    BY DEF LedgerInv, LedgerTypeOK
<1>2. target \in Nat /\ target <= U32Max /\ target = height + MinOf(extendTo_, NetMax)
    BY <1>1, LedgerAssumption, LedgersFit, WordAssumption DEF MinOf
<1>3. Bumped(keys, extendTo_) =
        [k \in Keys |-> IF k \in keys /\ IsLive(k) /\ target > liveUntil[k]
                        THEN target ELSE liveUntil[k]]
    BY DEF Bumped
<1> HIDE DEF target
<1> QED
    BY <1>1, <1>2, <1>3

LEMMA ApplyType ==
    ASSUME LedgerInv, envelope.extend_to \in Nat, KeysOf(envelope) \subseteq Keys, Apply,
           UNCHANGED height
    PROVE  LedgerInv'
<1>1. CASE envelope.operation = "extend" /\ UNCHANGED present
           /\ liveUntil' = Bumped(KeysOf(envelope), envelope.extend_to)
    BY <1>1, BumpedType DEF LedgerInv, LedgerTypeOK
<1>2. CASE liveUntil' = [k \in Keys |-> IF k \in Restorable(envelope)
                                        THEN height + MinTtl ELSE liveUntil[k]]
           /\ present' = present \cup Restorable(envelope)
    <2>1. Restorable(envelope) \subseteq Keys
        BY DEF Restorable
    <2>2. height + MinTtl \in Nat /\ height + MinTtl <= U32Max
        BY LedgersFit, PlannerAssumption, LedgerAssumption, WordAssumption
        DEF LedgerInv, LedgerTypeOK
    <2>3. \A k \in Keys : liveUntil'[k] \in Nat /\ liveUntil'[k] <= U32Max
        BY <1>2, <2>2 DEF LedgerInv, LedgerTypeOK
    <2> QED
        BY <1>2, <2>1, <2>3 DEF LedgerInv, LedgerTypeOK
<1> QED
    BY <1>1, <1>2 DEF Apply


(* What is sent extends and restores entries of the plan.                  *)
LEMMA EnvelopeType ==
    ASSUME FileInv, EnvelopeInv, pc = "send"
    PROVE  /\ envelope.operation = plan.entries[1].kind
           /\ envelope.keys = Footprint(plan)
           /\ envelope.extend_to = IF envelope.operation = "extend" THEN plan.extend_to ELSE 0
           /\ envelope.extend_to \in Nat
           /\ KeysOf(envelope) = {plan.entries[i].key : i \in DOMAIN plan.entries}
           /\ KeysOf(envelope) \subseteq Keys
           /\ 1 \in DOMAIN plan.entries
<1>1. envelope = SimulateAndSign(BuildUnsigned(plan), simulated)
    BY DEF EnvelopeInv
<1>2. /\ envelope.operation = OperationOf(plan)
      /\ envelope.keys = Footprint(plan)
      /\ envelope.extend_to = IF OperationOf(plan) = "extend" THEN plan.extend_to ELSE 0
    BY <1>1 DEF SimulateAndSign, Sign, ApplySimulation, BuildUnsigned
<1>3. plan.entries \in Seq(Entries) /\ plan.extend_to \in Nat
    BY DEF FileInv, Plans
<1>4. 1 \in DOMAIN plan.entries
    BY <1>3 DEF EnvelopeInv, Builds
<1>5. KeysOf(envelope) = {plan.entries[i].key : i \in DOMAIN plan.entries}
    BY <1>2 DEF KeysOf, Footprint
<1>6. \A i \in DOMAIN plan.entries : plan.entries[i].key \in Keys
    BY <1>3, EntryShape
<1> QED
    BY <1>2, <1>3, <1>4, <1>5, <1>6 DEF OperationOf

LEMMA LedgerStep == PlannerInv /\ [Next]_vars => LedgerInv'
<1> SUFFICES ASSUME PlannerInv, [Next]_vars PROVE LedgerInv'
    OBVIOUS
<1>0. LedgerInv
    BY DEF PlannerInv
<1>1. CASE UNCHANGED ledgerVars
    BY <1>0, <1>1 DEF ledgerVars, LedgerInv, LedgerTypeOK
<1>2. CASE Send
    <2>1. CASE UNCHANGED ledgerVars
        BY <1>1, <2>1
    <2>2. CASE Apply
        <3>1. pc = "send" /\ UNCHANGED height
            BY <1>2 DEF Send
        <3> QED
            BY <1>0, <2>2, <3>1, EnvelopeType, ApplyType DEF PlannerInv, CommandInv
    <2> QED
        BY <1>2, <2>1, <2>2 DEF Send, ledgerVars
<1>3. CASE LedgerCloses
    BY <1>0, <1>3, LedgerAssumption DEF LedgerCloses, LedgerInv, LedgerTypeOK
<1>4. CASE EntryEvicted
    BY <1>0, <1>4 DEF EntryEvicted, LedgerInv, LedgerTypeOK
<1>5. CASE OthersExtend
    <2>1. PICK k \in Keys : liveUntil' = Bumped({k}, NetMax)
        BY <1>5 DEF OthersExtend
    <2> QED
        BY <1>0, <1>5, <2>1, BumpedType, LedgerAssumption
        DEF OthersExtend, LedgerInv, LedgerTypeOK
<1> QED
    BY <1>1, <1>2, <1>3, <1>4, <1>5
    DEF Next, vars, Run, CommandStep, NetworkStep, ObserveChunk, Plan, Emit, Write, Read, Show,
        Build, Simulate, Kill, Edit


-----------------------------------------------------------------------------
(* The steps of the commands.                                              *)

LEMMA EndsStep ==
    ASSUME CommandInv, Ends, UNCHANGED <<file, made, edited>>
    PROVE  CommandInv'
<1>1. ObservationInv'
    BY DEF Ends, ObservationInv, InOrder
<1>2. FileInv'
    BY NoPlanType DEF Ends, CommandInv, FileInv
<1>3. SoundInv' /\ EnvelopeInv'
    BY DEF Ends, CommandInv, SoundInv, EnvelopeInv, Sound, Timely
<1> QED
    BY <1>1, <1>2, <1>3 DEF CommandInv

LEMMA RunStep == CommandInv /\ Run => CommandInv'
<1> SUFFICES ASSUME CommandInv, Run PROVE CommandInv'
    OBVIOUS
<1>1. pc = "idle" /\ UNCHANGED <<obs, plan, file, made, edited>>
    BY DEF Run
<1>2. pc' \in {"idle", "observe", "read"}
    BY <1>1 DEF Run, commandVars
<1>3. ObservationInv'
    <2>1. CASE request' \in Requests /\ extendTo' \in {DaysToExtendTo(s) : s \in Windows}
               /\ pc' = "observe"
        <3>1. request' \in Seq(Keys) /\ request' # <<>> /\ extendTo' \in Nat
            BY <2>1, ExtendToType, PlannerAssumption
        <3> QED
            BY <1>1, <2>1, <3>1 DEF CommandInv, ObservationInv, InOrder
    <2>2. CASE pc' \in {"idle", "read"} /\ UNCHANGED <<request, extendTo>>
        BY <1>1, <2>2 DEF CommandInv, ObservationInv, InOrder
    <2> QED
        BY <1>1, <2>1, <2>2 DEF Run, commandVars
<1>4. FileInv' /\ SoundInv' /\ EnvelopeInv'
    BY <1>1, <1>2 DEF CommandInv, FileInv, SoundInv, EnvelopeInv, Sound, Timely
<1> QED
    BY <1>3, <1>4 DEF CommandInv

LEMMA ObserveStep == PlannerInv /\ ObserveChunk => CommandInv'
<1> SUFFICES ASSUME PlannerInv, ObserveChunk, ~Ends PROVE CommandInv'
    BY EndsStep DEF ObserveChunk, PlannerInv
<1> DEFINE n == MinOf(Len(obs) + Batch, Len(request))
           Row(i) == IF i <= Len(obs) THEN obs[i]
                     ELSE Observation(request[i] \in present, liveUntil[request[i]], height)
<1>1. /\ pc = "observe"
      /\ obs' = [i \in 1..n |-> Row(i)]
      /\ pc' = IF Len(obs') = Len(request) THEN "plan" ELSE "observe"
      /\ UNCHANGED <<request, extendTo, plan, file, made, edited>>
    BY DEF ObserveChunk, commandVars
<1>2. /\ obs \in Seq(Observations) /\ request \in Seq(Keys) /\ request # <<>>
      /\ \A i \in DOMAIN obs : Seen(obs[i])
      /\ Len(obs) <= Len(request)
    BY <1>1 DEF PlannerInv, CommandInv, ObservationInv
<1>3. n \in Nat /\ n <= Len(request)
    BY <1>2, PlannerAssumption DEF MinOf
<1>4. ASSUME NEW i \in 1..n PROVE Row(i) \in Observations /\ Seen(Row(i))
    <2>1. CASE i <= Len(obs)
        BY <1>2, <1>3, <2>1
    <2>2. CASE ~(i <= Len(obs))
        <3>1. request[i] \in Keys
            BY <1>2, <1>3
        <3>2. liveUntil[request[i]] \in Nat /\ liveUntil[request[i]] <= U32Max /\ height \in Nat
            BY <3>1 DEF PlannerInv, LedgerInv, LedgerTypeOK
        <3>3. Row(i) = Observation(request[i] \in present, liveUntil[request[i]], height)
            BY <2>2
        <3>4. (request[i] \in present) \in BOOLEAN
            OBVIOUS
        <3>5. LET o == Observation(request[i] \in present, liveUntil[request[i]], height)
              IN  o \in Observations /\ Seen(o)
            BY <3>2, <3>4, ObservationType
        <3> QED
            BY <3>3, <3>5
    <2> QED
        BY <2>1, <2>2
<1> HIDE DEF n, Row
<1>5. obs' \in Seq(Observations) /\ Len(obs') = n /\ \A i \in DOMAIN obs' : Seen(obs'[i])
    BY <1>1, <1>3, <1>4
<1>6. InOrder'
    <2>1. SUFFICES ASSUME NEW i \in 1..n PROVE Row(1).at <= Row(i).at
        BY <1>1, <1>3 DEF InOrder
    <2>2. height \in Nat /\ \A j \in DOMAIN obs : obs[j].at \in Nat /\ obs[j].at <= height
        <3>1. \A j \in DOMAIN obs : obs[j] \in Observations
            BY <1>2
        <3> QED
            BY <3>1 DEF PlannerInv, ClosedInv, LedgerInv, LedgerTypeOK, Observations
    <2>3. \A j \in 1..n : Row(j).at = IF j \in DOMAIN obs THEN obs[j].at ELSE height
        BY <1>2, <1>3, RowAt DEF Row
    <2>4. \A j \in DOMAIN obs : obs[1].at <= obs[j].at
        BY <1>1 DEF PlannerInv, CommandInv, ObservationInv, InOrder
    <2>5. 1 \in 1..n /\ (i \in DOMAIN obs => 1 \in DOMAIN obs)
        BY <1>2, <1>3
    <2> QED
        BY <2>2, <2>3, <2>4, <2>5
<1>7. ObservationInv'
    BY <1>1, <1>2, <1>3, <1>5, <1>6 DEF PlannerInv, CommandInv, ObservationInv
<1>8. FileInv' /\ SoundInv' /\ EnvelopeInv'
    BY <1>1 DEF PlannerInv, CommandInv, FileInv, SoundInv, EnvelopeInv, Sound, Timely
<1> QED
    BY <1>7, <1>8 DEF CommandInv

LEMMA PlanStep == CommandInv /\ Plan => CommandInv'
<1> SUFFICES ASSUME CommandInv, Plan, ~Ends PROVE CommandInv'
    BY EndsStep DEF Plan
<1>1. /\ pc = "plan" /\ pc' = "emit"
      /\ UNCHANGED <<request, extendTo, obs, file, made, edited>>
      /\ \/ Dead # <<>> /\ plan' = RestorePlan
         \/ Dead = <<>> /\ plan' = ExtendPlan
    BY DEF Plan, Makes, commandVars
<1>2. plan' \in Plans /\ Sound(plan')
    <2>1. /\ obs \in Seq(Observations) /\ request \in Seq(Keys) /\ extendTo \in Nat
          /\ \A i \in DOMAIN obs : Seen(obs[i])
          /\ request # <<>> /\ Len(obs) = Len(request) /\ InOrder
        BY <1>1 DEF CommandInv, ObservationInv, InOrder
    <2> QED
        BY <1>1, <2>1, RestorePlanType, ExtendPlanType
<1>3. ObservationInv'
    BY <1>1 DEF CommandInv, ObservationInv, InOrder
<1>4. FileInv'
    BY <1>1, <1>2 DEF CommandInv, FileInv
<1>5. SoundInv' /\ EnvelopeInv'
    BY <1>1, <1>2 DEF CommandInv, SoundInv, EnvelopeInv, Sound, Timely
<1> QED
    BY <1>3, <1>4, <1>5 DEF CommandInv


LEMMA EmitStep == CommandInv /\ Emit => CommandInv'
<1> SUFFICES ASSUME CommandInv, Emit PROVE CommandInv'
    OBVIOUS
<1>1. CASE Ends /\ UNCHANGED <<file, made, edited>>
    BY <1>1, EndsStep
<1>2. CASE /\ file' = {Torn} /\ made' = plan /\ edited' = FALSE /\ pc' = "write"
           /\ UNCHANGED <<commandVars, obs, plan, envelope, simulated>>
    <2>1. pc = "emit"
        BY DEF Emit
    <2>2. Torn \in Files /\ Torn.state # "written"
        BY NoPlanType, SerializeType DEF Torn, Files
    <2>3. ObservationInv'
        BY <1>2, <2>1 DEF CommandInv, ObservationInv, InOrder, commandVars
    <2>4. FileInv'
        BY <1>2, <2>1, <2>2 DEF CommandInv, FileInv
    <2>5. SoundInv' /\ EnvelopeInv'
        BY <1>2, <2>1 DEF CommandInv, SoundInv, EnvelopeInv, Sound, Timely
    <2> QED
        BY <2>3, <2>4, <2>5 DEF CommandInv
<1> QED
    BY <1>1, <1>2 DEF Emit

LEMMA WriteStep == CommandInv /\ Write => CommandInv'
<1> SUFFICES ASSUME CommandInv, Write, ~UNCHANGED file PROVE CommandInv'
    BY EndsStep DEF Write
<1>1. /\ pc = "write" /\ Ends /\ UNCHANGED <<made, edited>>
      /\ file' = {Holding(Serialize(plan))}
    BY DEF Write
<1>2. plan = made /\ made \in Plans
    BY <1>1 DEF CommandInv, FileInv
<1>3. Holding(Serialize(made)) \in Files /\ Holding(Serialize(made)).document = Serialize(made)
    BY <1>2, SerializeType DEF Holding, Files
<1>4. ObservationInv'
    BY <1>1 DEF Ends, ObservationInv, InOrder
<1>5. FileInv'
    BY <1>1, <1>2, <1>3, NoPlanType DEF Ends, FileInv
<1>6. SoundInv' /\ EnvelopeInv'
    BY <1>1 DEF Ends, CommandInv, SoundInv, EnvelopeInv, Sound, Timely
<1> QED
    BY <1>4, <1>5, <1>6 DEF CommandInv

LEMMA ReadStep == CommandInv /\ Read => CommandInv'
<1> SUFFICES ASSUME CommandInv, Read, ~Ends PROVE CommandInv'
    BY EndsStep DEF Read
<1>1. /\ pc = "read" /\ pc' \in {"show", "build"}
      /\ UNCHANGED <<request, extendTo, obs, file, made, edited>>
      /\ \E f \in file : Readable(f) /\ plan' = Deserialize(f.document)
    BY DEF Read, commandVars, CommandInv, FileInv
<1>2. plan' \in Plans /\ (~edited => plan' = made)
    <2>1. PICK f \in file : f.state = "written" /\ Decodes(f.document)
                            /\ plan' = Deserialize(f.document)
        BY <1>1 DEF Readable
    <2>2. f.document \in Documents /\ made \in Plans /\ (~edited => f.document = Serialize(made))
        BY <2>1 DEF CommandInv, FileInv, Files
    <2> QED
        BY <2>1, <2>2, DeserializeType, ReadsAsWritten
<1>3. ObservationInv'
    BY <1>1 DEF CommandInv, ObservationInv, InOrder
<1>4. FileInv'
    BY <1>1, <1>2 DEF CommandInv, FileInv
<1>5. SoundInv' /\ EnvelopeInv'
    BY <1>1 DEF CommandInv, SoundInv, EnvelopeInv, Sound, Timely
<1> QED
    BY <1>3, <1>4, <1>5 DEF CommandInv

LEMMA BuildStep == CommandInv /\ Build => CommandInv'
<1> SUFFICES ASSUME CommandInv, Build, ~Ends PROVE CommandInv'
    BY EndsStep DEF Build
<1>1. /\ pc = "build" /\ pc' = "simulate" /\ Builds(plan) /\ envelope' = BuildUnsigned(plan)
      /\ UNCHANGED <<request, extendTo, obs, plan, file, made, edited>>
    BY DEF Build, commandVars
<1>2. ObservationInv' /\ FileInv' /\ SoundInv'
    BY <1>1 DEF CommandInv, ObservationInv, InOrder, FileInv, SoundInv, Sound, Timely
<1>3. EnvelopeInv'
    BY <1>1 DEF EnvelopeInv, Builds, BuildUnsigned, OperationOf, Footprint
<1> QED
    BY <1>2, <1>3 DEF CommandInv

LEMMA SimulateStep == CommandInv /\ Simulate => CommandInv'
<1> SUFFICES ASSUME CommandInv, Simulate, ~Ends PROVE CommandInv'
    BY EndsStep DEF Simulate
<1>1. PICK fee \in Fees :
         /\ pc = "simulate" /\ pc' = "send" /\ simulated' = fee
         /\ envelope' = SimulateAndSign(envelope, fee)
         /\ UNCHANGED <<request, extendTo, obs, plan, file, made, edited>>
    BY DEF Simulate, commandVars
<1>2. ObservationInv' /\ FileInv' /\ SoundInv'
    BY <1>1 DEF CommandInv, ObservationInv, InOrder, FileInv, SoundInv, Sound, Timely
<1>3. EnvelopeInv'
    <2>1. Builds(plan) /\ envelope = BuildUnsigned(plan)
        BY <1>1 DEF CommandInv, EnvelopeInv
    <2>2. BuildUnsigned(plan)' = BuildUnsigned(plan) /\ Builds(plan)' = Builds(plan)
        BY <1>1 DEF Builds, BuildUnsigned, OperationOf, Footprint
    <2> QED
        BY <1>1, <2>1, <2>2 DEF EnvelopeInv, SimulateAndSign, Sign, ApplySimulation, Payload
<1> QED
    BY <1>2, <1>3 DEF CommandInv

LEMMA DocumentWith ==
    ASSUME NEW d \in Documents, NEW entries \in Seq(TextEntries)
    PROVE  [d EXCEPT !.entries = entries] \in Documents
BY DEF Documents

LEMMA ChangedType ==
    ASSUME NEW text \in TextEntries, NEW e \in Changed(text)
    PROVE  e \in TextEntries
<1>1. CASE \E o \in {"extend", "restore", "bump"} : e = [text EXCEPT !.operation = o]
    BY <1>1 DEF TextEntries
<1>2. CASE e = [text EXCEPT !.durability = "Temporary"]
    BY <1>2 DEF TextEntries
<1>3. CASE e = [text EXCEPT !.key_xdr = "garbled"]
    BY <1>3 DEF TextEntries
<1>4. CASE e = [text EXCEPT !.current_ledger = NoLedger]
    BY <1>4 DEF TextEntries, OptionalLedger
<1>5. CASE e = [text EXCEPT !.live_until_ledger_seq = NoLedger]
    BY <1>5 DEF TextEntries, OptionalLedger
<1>6. CASE e = [text EXCEPT !.current_ledger = text.live_until_ledger_seq + 1]
    <2>1. text.live_until_ledger_seq + 1 \in OptionalLedger
        BY DEF TextEntries, OptionalLedger, NoLedger
    <2> QED
        BY <1>6, <2>1 DEF TextEntries
<1> QED
    BY <1>1, <1>2, <1>3, <1>4, <1>5, <1>6 DEF Changed

(* Any text that an editor makes of the first entry, or no entry at all.   *)
LEMMA EditStep == CommandInv /\ Edit => CommandInv'
<1> SUFFICES ASSUME CommandInv, Edit PROVE CommandInv'
    OBVIOUS
<1>1. /\ pc = "idle" /\ edited' = TRUE
      /\ UNCHANGED <<pc, request, extendTo, obs, plan, made, envelope, simulated>>
    BY DEF Edit, commandVars
<1>2. \E d \in Documents : file' = {Holding(d)}
    <2>1. PICK f \in file :
             \/ \E e \in Changed(f.document.entries[1]) :
                   file' = {Holding([f.document EXCEPT !.entries[1] = e])}
             \/ file' = {Holding([f.document EXCEPT !.entries = <<>>])}
        BY DEF Edit
    <2>2. f.document \in Documents /\ f.document.entries \in Seq(TextEntries)
        BY <2>1 DEF CommandInv, FileInv, Files, Documents
    <2>3. [f.document EXCEPT !.entries = <<>>] \in Documents
        <3>1. <<>> \in Seq(TextEntries)
            OBVIOUS
        <3> QED
            BY <2>2, <3>1, DocumentWith
    <2>4. ASSUME NEW e \in Changed(f.document.entries[1])
          PROVE  [f.document EXCEPT !.entries[1] = e] \in Documents
        <3> DEFINE entries == [f.document.entries EXCEPT ![1] = e]
        <3>1. CASE 1 \in DOMAIN f.document.entries
            <4>1. e \in TextEntries
                BY <2>2, <3>1, ChangedType
            <4>2. entries \in Seq(TextEntries)
                BY <2>2, <3>1, <4>1
            <4> QED
                BY <2>2, <4>2, DocumentWith
        <3>2. CASE 1 \notin DOMAIN f.document.entries
            <4>1. entries = f.document.entries
                BY <2>2, <3>2
            <4> QED
                BY <2>2, <4>1, DocumentWith
        <3> QED
            BY <3>1, <3>2
    <2> QED
        BY <2>1, <2>3, <2>4
<1>3. FileInv'
    BY <1>1, <1>2 DEF CommandInv, FileInv, Files, Holding
<1>4. ObservationInv' /\ SoundInv'
    BY <1>1 DEF CommandInv, ObservationInv, InOrder, SoundInv, Sound, Timely
<1>5. EnvelopeInv'
    BY <1>1 DEF EnvelopeInv
<1> QED
    BY <1>3, <1>4, <1>5 DEF CommandInv


LEMMA CommandStepInv == PlannerInv /\ [Next]_vars => CommandInv'
<1> SUFFICES ASSUME PlannerInv, [Next]_vars PROVE CommandInv'
    OBVIOUS
<1>0. CommandInv
    BY DEF PlannerInv
<1>1. CASE UNCHANGED <<pc, commandVars, obs, plan, envelope, simulated, file, made, edited>>
    <2>1. ObservationInv' /\ FileInv' /\ SoundInv'
        BY <1>0, <1>1 DEF commandVars, CommandInv, ObservationInv, InOrder, FileInv, SoundInv, Sound, Timely
    <2>2. EnvelopeInv'
        BY <1>0, <1>1 DEF CommandInv, EnvelopeInv, Builds, BuildUnsigned, OperationOf, Footprint
    <2> QED
        BY <2>1, <2>2 DEF CommandInv
<1>2. CASE Ends /\ UNCHANGED <<file, made, edited>>
    BY <1>0, <1>2, EndsStep
<1>3. CASE Run
    BY <1>0, <1>3, RunStep
<1>4. CASE ObserveChunk
    BY <1>4, ObserveStep
<1>5. CASE Plan
    BY <1>0, <1>5, PlanStep
<1>6. CASE Emit
    BY <1>0, <1>6, EmitStep
<1>7. CASE Write
    BY <1>0, <1>7, WriteStep
<1>8. CASE Read
    BY <1>0, <1>8, ReadStep
<1>9. CASE Build
    BY <1>0, <1>9, BuildStep
<1>10. CASE Simulate
    BY <1>0, <1>10, SimulateStep
<1>11. CASE Edit
    BY <1>0, <1>11, EditStep
<1>12. CASE Show \/ Send \/ Kill
    BY <1>2, <1>12 DEF Show, Send, Kill
<1>13. CASE NetworkStep \/ UNCHANGED vars
    BY <1>1, <1>13 DEF NetworkStep, vars
<1> QED
    BY <1>3, <1>4, <1>5, <1>6, <1>7, <1>8, <1>9, <1>10, <1>11, <1>12, <1>13
    DEF Next, CommandStep

(* Ledgers close behind what is observed, planned and written, never in    *)
(* front of it.                                                            *)
LEMMA HeightGrows ==
    ASSUME LedgerInv, [Next]_vars
    PROVE  height \in Nat /\ height' \in Nat /\ height <= height'
<1>1. height \in Nat
    BY DEF LedgerInv, LedgerTypeOK
<1>2. UNCHANGED height \/ LedgerCloses
    BY DEF Next, vars, ledgerVars, Run, CommandStep, NetworkStep, ObserveChunk, Plan, Emit,
           Write, Read, Show, Build, Simulate, Send, Kill, Edit, EntryEvicted, OthersExtend
<1> QED
    BY <1>1, <1>2 DEF LedgerCloses

LEMMA ClosedLater ==
    ASSUME NEW p \in Plans, NEW h \in Nat, NEW later \in Nat, h <= later,
           \A i \in DOMAIN p.entries : p.entries[i].ttl.at <= h
    PROVE  \A i \in DOMAIN p.entries : p.entries[i].ttl.at <= later
<1>1. \A i \in DOMAIN p.entries : p.entries[i] \in Entries
    BY DEF Plans
<1>2. \A i \in DOMAIN p.entries : p.entries[i].ttl.at \in Nat
    BY <1>1, EntryShape
<1> QED
    BY <1>2

LEMMA ClosedStep == PlannerInv /\ [Next]_vars => ClosedInv'
<1> SUFFICES ASSUME PlannerInv, [Next]_vars PROVE ClosedInv'
    OBVIOUS
<1>0. height \in Nat /\ height' \in Nat /\ height <= height' /\ plan \in Plans /\ made \in Plans
    BY HeightGrows DEF PlannerInv, CommandInv, FileInv
<1>1. (pc' \in {"emit", "write"} => Closed(plan)') /\ Closed(made)'
    <2>1. CASE pc \in {"emit", "write"} /\ UNCHANGED plan /\ made' \in {made, plan}
        BY <1>0, <2>1, ClosedLater DEF PlannerInv, ClosedInv, Closed
    <2>2. CASE pc' \notin {"emit", "write"} /\ UNCHANGED made
        BY <1>0, <2>2, ClosedLater DEF PlannerInv, ClosedInv, Closed
    <2>3. CASE Plan /\ pc' = "emit"
        <3>1. /\ pc = "plan" /\ UNCHANGED <<height, made>>
              /\ plan' = RestorePlan \/ plan' = ExtendPlan
            BY <2>3 DEF Plan, Makes, Ends, ledgerVars
        <3>2. \A i \in DOMAIN plan'.entries :
                 \E j \in DOMAIN obs : plan'.entries[i].ttl.at = obs[j].at
            BY <3>1, RowsOfObservations DEF PlannerInv, CommandInv, ObservationInv
        <3> QED
            BY <1>0, <3>1, <3>2 DEF PlannerInv, ClosedInv, Closed
    <2>4. CASE Ends /\ UNCHANGED made
        BY <2>2, <2>4 DEF Ends
    <2>5. CASE Run \/ ObserveChunk \/ Read \/ Show \/ Build \/ Simulate \/ Send \/ Write \/ Kill
        <3>1. UNCHANGED made
            BY <2>5 DEF Run, ObserveChunk, Read, Show, Build, Simulate, Send, Write, Kill
        <3>2. pc' \notin {"emit", "write"}
            BY <2>5 DEF Run, ObserveChunk, Read, Show, Build, Simulate, Send, Write, Kill, Ends
        <3> QED
            BY <2>2, <3>1, <3>2
    <2>6. CASE Plan
        BY <2>3, <2>4, <2>6 DEF Plan, Makes
    <2>7. CASE Emit
        BY <2>1, <2>4, <2>7 DEF Emit
    <2>8. CASE Edit \/ NetworkStep \/ UNCHANGED vars
        BY <2>1, <2>2, <2>8 DEF Edit, NetworkStep, vars
    <2> QED
        BY <2>5, <2>6, <2>7, <2>8 DEF Next, CommandStep
<1>2. \A i \in DOMAIN obs' : obs'[i].at <= height'
    <2>1. CASE UNCHANGED obs
        <3>1. obs \in Seq(Observations) /\ \A i \in DOMAIN obs : obs[i].at <= height
            BY DEF PlannerInv, CommandInv, ObservationInv, ClosedInv
        <3>2. \A i \in DOMAIN obs : obs[i] \in Observations
            BY <3>1
        <3>3. \A i \in DOMAIN obs : obs[i].at \in Nat
            BY <3>2 DEF Observations
        <3> QED
            BY <1>0, <2>1, <3>1, <3>3
    <2>2. CASE Ends
        BY <2>2 DEF Ends
    <2>3. CASE ObserveChunk /\ ~Ends
        <3>1. /\ UNCHANGED height
              /\ \A i \in DOMAIN obs' : \/ i \in DOMAIN obs /\ obs'[i] = obs[i]
                                        \/ obs'[i].at = height
            <4> DEFINE n == MinOf(Len(obs) + Batch, Len(request))
                       Row(i) == IF i <= Len(obs) THEN obs[i]
                                 ELSE Observation(request[i] \in present, liveUntil[request[i]], height)
            <4>1. UNCHANGED height /\ obs' = [i \in 1..n |-> Row(i)]
                BY <2>3 DEF ObserveChunk, ledgerVars
            <4>2. obs \in Seq(Observations)
                BY DEF PlannerInv, CommandInv, ObservationInv
            <4>3. ASSUME NEW i \in 1..n
                  PROVE  \/ Row(i).at = height
                         \/ i \in DOMAIN obs /\ Row(i) = obs[i]
                BY <4>2, RowAt
            <4> HIDE DEF n, Row
            <4> QED
                BY <4>1, <4>3
        <3> QED
            BY <1>0, <3>1 DEF PlannerInv, ClosedInv
    <2> QED
        BY <2>1, <2>2, <2>3
        DEF Next, vars, Run, CommandStep, NetworkStep, ObserveChunk, Plan, Makes, Emit,
            Write, Read, Show, Build, Simulate, Send, Kill, Edit
<1> QED
    BY <1>1, <1>2 DEF ClosedInv

LEMMA PlannerInvariant == Spec => []PlannerInv
<1>1. PlannerInv /\ [Next]_vars => PlannerInv'
    BY LedgerStep, CommandStepInv, ClosedStep DEF PlannerInv
<1> QED
    BY <1>1, PlannerInit, PTL DEF Spec

-----------------------------------------------------------------------------
(* A plan that is shown or signed is the one last written, unless somebody *)
(* has edited it: emit_plan and read_plan, with torn writes in between.    *)
THEOREM PlanReadBack == Spec => []ReadBack
<1>1. PlannerInv => ReadBack
    BY DEF PlannerInv, CommandInv, FileInv, ReadBack
<1> QED
    BY <1>1, PlannerInvariant, PTL

(* The durability in a plan is that of the key (plan.rs, from_str), through *)
(* every edit of the file.                                                 *)
THEOREM DurabilityKept == Spec => []DurabilityOfKey
<1>1. PlannerInv => DurabilityOfKey
    <2> SUFFICES ASSUME PlannerInv, NEW i \in DOMAIN plan.entries
                 PROVE  plan.entries[i].durability = Durability[plan.entries[i].key]
        BY DEF DurabilityOfKey
    <2>1. plan.entries[i] \in Entries
        BY DEF PlannerInv, CommandInv, FileInv, Plans
    <2> QED
        BY <2>1, EntryShape
<1> QED
    BY <1>1, PlannerInvariant, PTL

(* The rows that show-plan prints of an unedited file fit the reference of *)
(* their plan and the ledgers closed by now, whatever chunks they were     *)
(* read in and however long they lay on disk.                              *)
THEOREM ShownRowsAreSound == Spec => []ShownRowsSound
<1>1. PlannerInv => ShownRowsSound
    BY DEF PlannerInv, CommandInv, FileInv, SoundInv, Sound, Timely, ClosedInv, Closed, ShownRowsSound
<1> QED
    BY <1>1, PlannerInvariant, PTL

(* What is sent pays for what the simulation asked for and is signed as it *)
(* is sent (tx.rs, apply_simulation and sign), whatever the fee.           *)
THEOREM FeeIsSound == Spec => []FeeSound
<1>1. PlannerInv => FeeSound
    <2> SUFFICES ASSUME PlannerInv, pc = "send"
                 PROVE  /\ envelope.fee >= U32(BaseFee) /\ envelope.fee >= U32(simulated)
                        /\ \A i \in DOMAIN envelope.signatures :
                              envelope.signatures[i] = Payload(envelope)
        BY DEF FeeSound
    <2> DEFINE unsigned == ApplySimulation(BuildUnsigned(plan), simulated)
    <2>1. envelope = Sign(unsigned) /\ simulated \in Nat
        BY PlannerAssumption DEF PlannerInv, CommandInv, EnvelopeInv, SimulateAndSign
    <2>2. unsigned.fee = TotalFee(simulated) /\ unsigned.signatures = <<>>
        BY DEF ApplySimulation, BuildUnsigned
    <2>3. envelope.fee = TotalFee(simulated)
        BY <2>1, <2>2 DEF Sign
    <2>4. TotalFee(simulated) >= U32(BaseFee) /\ TotalFee(simulated) >= U32(simulated)
        BY <2>1, WordAssumption, BuilderAssumption DEF TotalFee, U32, MinOf
    <2>5. envelope.signatures = <<Payload(unsigned)>> /\ Payload(envelope) = Payload(unsigned)
        <3>1. unsigned = [operation |-> unsigned.operation, keys |-> unsigned.keys,
                          extend_to |-> unsigned.extend_to, fee |-> unsigned.fee,
                          signatures |-> <<>>]
            BY DEF ApplySimulation, BuildUnsigned
        <3> HIDE DEF unsigned
        <3>2. Append(unsigned.signatures, Payload(unsigned)) = <<Payload(unsigned)>>
            BY <2>2
        <3>3. envelope = [unsigned EXCEPT !.signatures = <<Payload(unsigned)>>]
            BY <2>1, <3>2 DEF Sign
        <3> QED
            BY <3>1, <3>3 DEF Payload
    <2> QED
        BY <2>3, <2>4, <2>5
<1> QED
    BY <1>1, PlannerInvariant, PTL

(* What is sent of an unedited file is the whole plan last made, under the *)
(* operation of its every entry, whatever writes, kills and ledgers came   *)
(* between the making and the sending.                                     *)
THEOREM SentIsMade == Spec => []SentAsMade
<1>1. PlannerInv => SentAsMade
    <2> SUFFICES ASSUME PlannerInv, pc = "send", ~edited
                 PROVE  /\ envelope.keys = Footprint(made)
                        /\ \A i \in DOMAIN made.entries : made.entries[i].kind = envelope.operation
                        /\ envelope.operation = "extend" => envelope.extend_to = made.extend_to
        BY DEF SentAsMade
    <2>1. plan = made /\ Sound(made)
        BY DEF PlannerInv, CommandInv, FileInv, SoundInv
    <2>2. /\ envelope.operation = made.entries[1].kind /\ 1 \in DOMAIN made.entries
          /\ envelope.keys = Footprint(made)
          /\ envelope.operation = "extend" => envelope.extend_to = made.extend_to
        BY <2>1, EnvelopeType DEF PlannerInv, CommandInv
    <2> QED
        BY <2>1, <2>2 DEF Sound
<1> QED
    BY <1>1, PlannerInvariant, PTL
=============================================================================
