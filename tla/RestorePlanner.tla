---------------------------- MODULE RestorePlanner ----------------------------
(***************************************************************************)
(* The operator's command restore-planner (main.rs, cli.rs) against a      *)
(* ledger that moves: a command observes, makes a plan and writes it to a  *)
(* file, which is looked at, edited by hand, and at last fed to a signing  *)
(* and submission step made of the library's transaction builder.          *)
(***************************************************************************)
EXTENDS Ledger, TxBuilder

CONSTANTS
    Phantom,        \* keys of which no entry was ever created
    Requests,       \* the --key-xdr lists an operator asks for, of one --durability each
    Windows,        \* the --ttl-days an operator gives, in seconds
    BuiltinMax,     \* max_entry_ttl of stellar_public
    MinTtl,         \* the network's min_persistent_ttl
    Batch,          \* OBSERVE_BATCH_ENTRIES
    Fees,           \* resource fees a simulation may come to
    HandEdits,      \* an operator edits plan files
    MaxCommands     \* bound: commands

ASSUME PlannerAssumption ==
    /\ Durability \in [Keys -> {"Persistent", "Temporary", "None"}]
    /\ Phantom \subseteq Keys
    /\ \A request \in Requests :
        /\ request \in Seq(Keys) /\ request # <<>>
        /\ \A i, j \in DOMAIN request : Durability[request[i]] = Durability[request[j]]
    /\ Windows \subseteq Int
    /\ BuiltinMax \in Nat
    /\ MinTtl \in Nat \ {0}
    /\ Batch \in Nat \ {0}
    /\ Fees \subseteq Nat
    /\ HandEdits \in BOOLEAN
    /\ MaxCommands \in Nat

(* No ledger the network gets to has a number beyond u32, nor has the last *)
(* one of an entry.                                                        *)
ASSUME LedgersFit ==
    /\ InitUntil \subseteq 0..U32Max
    /\ MaxHeight + NetMax <= U32Max
    /\ MaxHeight + MinTtl <= U32Max

VARIABLES
    pc,         \* what the running command does
    command,    \* its subcommand
    request,    \* its keys
    extendTo,   \* days_to_extend_to of its --ttl-days
    obs,        \* the observations so far, in the order of the keys
    plan,       \* the plan it has made or read
    envelope,   \* the transaction in the signing step
    file,       \* the plan file, if there is one: written, or torn
    (* history, read by properties and bounds only *)
    made,       \* the plan last begun to be written to the file
    edited,     \* the file has been edited by hand
    simulated,  \* the resource fee of the last simulation
    commands    \* commands run

commandVars == <<command, request, extendTo>>
vars == <<ledgerVars, pc, commandVars, obs, plan, envelope, simulated, file,
          made, edited, commands>>

NoPlan == ArchivalPlan(0, 0, <<>>)
NoEnvelope == [operation |-> "none", keys |-> <<>>, extend_to |-> 0, fee |-> 0, signatures |-> <<>>]
Torn == [state |-> "torn", document |-> Serialize(NoPlan)]
Holding(document) == [state |-> "written", document |-> document]

(* A command ends, with or without an error, and what it held in memory    *)
(* is gone.                                                                *)
Ends ==
    /\ pc' = "idle"
    /\ command' = "none"
    /\ request' = <<>>
    /\ extendTo' = 0
    /\ obs' = <<>>
    /\ plan' = NoPlan
    /\ envelope' = NoEnvelope
    /\ simulated' = 0

-----------------------------------------------------------------------------
(* The commands.                                                           *)

DaysToExtendTo(seconds) == ExtendToLedgers(FromSeconds(seconds), BuiltinMax)

(* Arguments are parsed before the node is asked for anything.             *)
Run ==
    /\ pc = "idle"
    /\ commands < MaxCommands
    /\ commands' = commands + 1
    /\ \/ /\ command' \in {"inspect", "plan-restore", "plan-extend"}
          /\ request' \in Requests
          /\ extendTo' \in {DaysToExtendTo(s) : s \in Windows}
          /\ pc' = "observe"
       \/ /\ command' \in {"show-plan", "sign"}
          /\ pc' = "read"
          /\ UNCHANGED <<request, extendTo>>
       \/ UNCHANGED <<pc, commandVars>>       \* a strkey, hash, key or durability does not parse
    /\ UNCHANGED <<ledgerVars, obs, plan, envelope, simulated, file, made, edited>>

(* One request of observe_entries, or its failure.                         *)
ObserveChunk ==
    /\ pc = "observe"
    /\ \/ /\ obs' = [i \in 1..MinOf(Len(obs) + Batch, Len(request)) |->
                        IF i <= Len(obs) THEN obs[i]
                        ELSE Observation(request[i] \in present, liveUntil[request[i]], height)]
          /\ pc' = IF Len(obs') = Len(request) THEN "plan" ELSE "observe"
          /\ UNCHANGED <<commandVars, plan, envelope, simulated>>
       \/ Ends
    /\ UNCHANGED <<ledgerVars, file, made, edited, commands>>

(* A mistake: the ledger of the last chunk.                                *)
LastLedger == obs[Len(obs)].at

(* The ledger of the first row, which the rows of later chunks may be      *)
(* ahead of.                                                               *)
CurrentLedger == obs[1].at

(* The rows that a restore plan keeps, in their order: of the first n, and *)
(* of all.                                                                 *)
DeadAmong[n \in Nat] ==
    IF n = 0 THEN <<>>
    ELSE IF NeedsRestore(obs[n]) THEN Append(DeadAmong[n - 1], n) ELSE DeadAmong[n - 1]

Dead == DeadAmong[Len(obs)]

(* A mistake: what is live is planned as well, to be extended.             *)
MixedPlan ==
    ArchivalPlan(CurrentLedger, extendTo,
        [i \in DOMAIN obs |->
            IF NeedsRestore(obs[i]) THEN PlanEntry(request[i], "restore", CurrentLedger, NoLedger)
            ELSE PlanEntry(request[i], "extend", obs[i].at, obs[i].until)])

(* What is dead is planned, what is live is passed over; nothing dead is   *)
(* an error.                                                               *)
RestorePlan ==
    ArchivalPlan(CurrentLedger, extendTo,
        [n \in DOMAIN Dead |-> PlanEntry(request[Dead[n]], "restore", CurrentLedger, NoLedger)])

(* A mistake: every TTL is restated against the last chunk.                *)
LateExtendPlan ==
    ArchivalPlan(LastLedger, extendTo,
        [i \in DOMAIN obs |-> PlanEntry(request[i], "extend", LastLedger, obs[i].until)])

(* Entries keep the ledger of their own chunk.                             *)
ExtendPlan ==
    ArchivalPlan(CurrentLedger, extendTo,
        [i \in DOMAIN obs |-> PlanEntry(request[i], "extend", obs[i].at, obs[i].until)])

Makes(p) ==
    /\ plan' = p
    /\ pc' = "emit"
    /\ UNCHANGED <<commandVars, obs, envelope, simulated>>

Plan ==
    /\ pc = "plan"
    /\ \/ command = "inspect" /\ Ends
       \/ command = "plan-restore" /\ IF Dead # <<>> THEN Makes(RestorePlan) ELSE Ends
       \/ command = "plan-extend" /\ IF Dead = <<>> THEN Makes(ExtendPlan) ELSE Ends
    /\ UNCHANGED <<ledgerVars, file, made, edited, commands>>

(* emit_plan: to stdout, or to a file that is emptied before it is         *)
(* written; opening it may fail as well.                                   *)
Emit ==
    /\ pc = "emit"
    /\ \/ Ends /\ UNCHANGED <<file, made, edited>>
       \/ /\ file' = {Torn}
          /\ made' = plan
          /\ edited' = FALSE
          /\ pc' = "write"
          /\ UNCHANGED <<commandVars, obs, plan, envelope, simulated>>
    /\ UNCHANGED <<ledgerVars, commands>>

Write ==
    /\ pc = "write"
    /\ \/ file' = {Holding(Serialize(plan))} /\ Ends
       \/ UNCHANGED file /\ Ends
    /\ UNCHANGED <<ledgerVars, made, edited, commands>>

(* An interrupt, at any time.                                              *)
Kill ==
    /\ pc # "idle"
    /\ Ends
    /\ UNCHANGED <<ledgerVars, file, made, edited, commands>>

(* A mistake: half a document is taken for what it holds so far.           *)
ReadableTorn(f) == Decodes(f.document)

(* read_plan, up to from_str.                                              *)
Readable(f) == f.state = "written" /\ Decodes(f.document)

Read ==
    /\ pc = "read"
    /\ IF \E f \in file : Readable(f)
       THEN /\ \E f \in file : plan' = Deserialize(f.document)
            /\ pc' = IF command = "sign" THEN "build" ELSE "show"
            /\ UNCHANGED <<commandVars, obs, envelope, simulated>>
       ELSE Ends
    /\ UNCHANGED <<ledgerVars, file, made, edited, commands>>

Show ==
    /\ pc = "show"
    /\ Ends
    /\ UNCHANGED <<ledgerVars, file, made, edited, commands>>

-----------------------------------------------------------------------------
(* The signing step that a plan is fed to, in the order that               *)
(* apply_simulation asks for.                                              *)

Build ==
    /\ pc = "build"
    /\ IF Builds(plan)
       THEN /\ envelope' = BuildUnsigned(plan)
            /\ pc' = "simulate"
            /\ UNCHANGED <<commandVars, obs, plan, simulated>>
       ELSE Ends
    /\ UNCHANGED <<ledgerVars, file, made, edited, commands>>

(* A mistake: signed with the fee of before the simulation.                *)
SignFirst(env, fee) == ApplySimulation(Sign(env), fee)

SimulateAndSign(env, fee) == Sign(ApplySimulation(env, fee))

(* The node may reject the operation or leave out its transactionData.     *)
Simulate ==
    /\ pc = "simulate"
    /\ \/ \E fee \in Fees :
            /\ envelope' = SimulateAndSign(envelope, fee)
            /\ simulated' = fee
            /\ pc' = "send"
            /\ UNCHANGED <<commandVars, obs, plan>>
       \/ Ends
    /\ UNCHANGED <<ledgerVars, file, made, edited, commands>>

-----------------------------------------------------------------------------
(* The network.                                                            *)

KeysOf(env) == {env.keys[i] : i \in DOMAIN env.keys}

(* ExtendFootprintTtl is clamped for persistent entries and traps for      *)
(* temporary ones.  RestoreFootprint gives back persistent entries that    *)
(* exist, each with the least TTL of its kind, and leaves live ones alone. *)
Restorable(env) == {k \in KeysOf(env) \ Phantom : Durability[k] # "Temporary" /\ ~IsLive(k)}

Apply ==
    \/ /\ envelope.operation = "extend"
       /\ \/ envelope.extend_to <= NetMax
          \/ \A k \in KeysOf(envelope) : Durability[k] # "Temporary"
       /\ liveUntil' = Bumped(KeysOf(envelope), envelope.extend_to)
       /\ UNCHANGED present
    \/ /\ envelope.operation = "restore"
       /\ liveUntil' = [k \in Keys |-> IF k \in Restorable(envelope)
                                       THEN height + MinTtl ELSE liveUntil[k]]
       /\ present' = present \cup Restorable(envelope)

(* The transaction is applied, or refused.                                 *)
Send ==
    /\ pc = "send"
    /\ \/ Apply /\ Ends
       \/ UNCHANGED <<liveUntil, present>> /\ Ends
    /\ UNCHANGED <<height, file, made, edited, commands>>

(* Another party, the daemon for one, extends an entry.                    *)
OthersExtend ==
    /\ \E k \in Keys : IsLive(k) /\ liveUntil' = Bumped({k}, NetMax) /\ liveUntil' # liveUntil
    /\ UNCHANGED <<height, present>>

-----------------------------------------------------------------------------
(* The operator's editor: one change to the first entry, or none left.     *)
Changed(entry) ==
    {[entry EXCEPT !.operation = o] : o \in {"extend", "restore", "bump"}}
    \cup {[entry EXCEPT !.durability = "Temporary"], [entry EXCEPT !.key_xdr = "garbled"],
          [entry EXCEPT !.current_ledger = NoLedger],
          [entry EXCEPT !.current_ledger = entry.live_until_ledger_seq + 1],
          [entry EXCEPT !.live_until_ledger_seq = NoLedger]}

Edit ==
    /\ HandEdits
    /\ pc = "idle"
    /\ ~edited
    /\ \E f \in file :
        /\ f.state = "written"
        /\ \/ \E e \in Changed(f.document.entries[1]) :
                file' = {Holding([f.document EXCEPT !.entries[1] = e])}
           \/ file' = {Holding([f.document EXCEPT !.entries = <<>>])}
    /\ edited' = TRUE
    /\ UNCHANGED <<ledgerVars, pc, commandVars, obs, plan, envelope, simulated, made, commands>>

NetworkStep ==
    /\ LedgerCloses \/ EntryEvicted \/ OthersExtend
    /\ UNCHANGED <<pc, commandVars, obs, plan, envelope, simulated, file, made, edited, commands>>

CommandStep ==
    \/ ObserveChunk \/ Plan \/ Emit \/ Write \/ Read \/ Show
    \/ Build \/ Simulate \/ Send

Init ==
    /\ LedgerInit(Keys \ Phantom)
    /\ pc = "idle"
    /\ command = "none"
    /\ request = <<>>
    /\ extendTo = 0
    /\ obs = <<>>
    /\ plan = NoPlan
    /\ envelope = NoEnvelope
    /\ file = {}
    /\ made = NoPlan
    /\ edited = FALSE
    /\ simulated = 0
    /\ commands = 0

Next == Run \/ CommandStep \/ Kill \/ Edit \/ NetworkStep

Spec == Init /\ [][Next]_vars

-----------------------------------------------------------------------------
(* Properties.                                                             *)

(* A plan that is read back is the one that a command last set out to      *)
(* write, whatever interrupted or failed writes the file has been through. *)
ReadBack ==
    pc \in {"show", "build"} /\ ~edited => plan = made

(* plan.rs: "plans stay self-consistent even if hand-edited."              *)
DurabilityOfKey ==
    \A i \in DOMAIN plan.entries : plan.entries[i].durability = Durability[plan.entries[i].key]

(* Of a file that nobody has edited, show-plan prints rows that fit        *)
(* together and the network, although they were read at different ledgers: *)
(* none is older than the reference of the plan, none is of a ledger that  *)
(* has not closed, and none was read past its last one, so that no TTL     *)
(* wraps.  An edited file promises nothing of this: from_str takes any     *)
(* current_ledger, and the TTL of a row that is put past its last ledger   *)
(* does wrap.                                                              *)
ShownRowsSound ==
    pc = "show" =>
        \/ edited
        \/ \A i \in DOMAIN plan.entries :
              LET row == plan.entries[i].ttl
              IN  /\ plan.reference_ledger <= row.at /\ row.at <= height
                  /\ row.until # NoLedger => row.at < row.until

(* What is signed and sent of a file that nobody has edited is the plan    *)
(* last made, whole: the builder takes the operation of every entry from   *)
(* the first one (tx.rs:89), so no command may write a plan that mixes     *)
(* them, and an extension has the planned target.                          *)
SentAsMade ==
    pc = "send" /\ ~edited =>
        /\ envelope.keys = Footprint(made)
        /\ \A i \in DOMAIN made.entries : made.entries[i].kind = envelope.operation
        /\ envelope.operation = "extend" => envelope.extend_to = made.extend_to

(* tx.rs: the fee "can never wrap into a smaller fee", and the signature   *)
(* covers the fee that is sent.                                            *)
FeeSound ==
    pc = "send" =>
        /\ envelope.fee >= U32(BaseFee)
        /\ envelope.fee >= U32(simulated)
        /\ \A i \in DOMAIN envelope.signatures : envelope.signatures[i] = Payload(envelope)

-----------------------------------------------------------------------------
(* What the documents say and the code does not do.                        *)

(* README: "validates that the entries really are archived before writing  *)
(* the plan".                                                              *)
RequestIsDead ==
    pc = "emit" /\ command = "plan-restore" => \A i \in DOMAIN obs : NeedsRestore(obs[i])

(* cli.rs: "Target TTL in days after restore (clamped to network max)."    *)
(* planner.rs: "Restored entries are immediately extended to the plan's    *)
(* `extend_to`".  Of the plan that a command made, when it is applied.     *)
RestoredToTarget ==
    [][pc = "send" /\ ~edited /\ envelope.operation = "restore" /\ Apply =>
        \A k \in Restorable(envelope) :
            liveUntil'[k] >= height + MinOf(made.extend_to, NetMax)]_vars
=============================================================================
