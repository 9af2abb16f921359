--------------------------- MODULE StartUp_proofs ---------------------------
(***************************************************************************)
(* Theorems about the start of the daemon, for every set of                *)
(* configurations.                                                         *)
(***************************************************************************)
EXTENDS StartUp, TLAPS

(* What main holds true on its way to the loop.                            *)
Validated == {"loaded", "payer", "connected", "loop", "observe"}

StartInv ==
    /\ config \in Config
    /\ pc \in Validated \cup {"idle", "load", "exit 0", "exit 2"}
    /\ pc \in Validated => ValidConfig(config)
    /\ verdict => ValidConfig(config)
    /\ pc = "exit 2" => ~ValidConfig(config) \/ SecretKey(config) # "seed" \/ config.rpc_url # "url"
    /\ pc = "observe" => watched = Len(config.watch)

(* Rounding up and clamping leave a positive window positive.              *)
LEMMA PositiveWindow ==
    ASSUME NEW seconds \in Int, seconds > 0
    PROVE  FromSeconds(seconds) > 0
<1>1. -((-seconds) \div 5) > 0
    OBVIOUS
<1> QED
    BY <1>1, WordAssumption DEF FromSeconds, MinOf

(* Both parsers of a rule agree on the rules that the first one accepts.   *)
LEMMA ValidResolves ==
    ASSUME NEW spec \in WatchSpec, ValidWatchSpec(spec)
    PROVE  Resolved(spec) = "key"
<1>1. spec.type = "contract_code" => WasmHashBytes(spec.wasm_hash) = "key"
    BY DEF ValidWatchSpec, ValidHexHash, WasmHashBytes
<1> QED
    BY <1>1 DEF ValidWatchSpec, Resolved

(* In a valid configuration every rule resolves.                           *)
LEMMA AllResolve ==
    ASSUME NEW c \in Config, ValidConfig(c)
    PROVE  /\ \A i \in DOMAIN c.watch : Resolved(c.watch[i]) = "key"
           /\ c.watch # <<>>
<1>1. c.watch \in Seq(WatchSpec)
    BY DEF Config
<1>2. \A i \in DOMAIN c.watch : c.watch[i] \in WatchSpec
    BY <1>1
<1> QED
    BY <1>2, ValidResolves DEF ValidConfig

LEMMA StartInit == Init => StartInv
BY StartUpAssumption DEF Init, StartInv, Validated

LEMMA StartStep == StartInv /\ [Next]_vars => StartInv'
<1> SUFFICES ASSUME StartInv, [Next]_vars PROVE StartInv'
    OBVIOUS
<1> USE DEF StartInv, Validated
<1>1. CASE Launch
    BY <1>1 DEF Launch
<1>2. CASE Load
    BY <1>2 DEF Load
<1>3. CASE CheckPasses
    BY <1>3 DEF CheckPasses
<1>4. CASE ParsePayer
    BY <1>4 DEF ParsePayer
<1>5. CASE Connect
    BY <1>5 DEF Connect
<1>6. CASE EnterLoop
    <2>1. pc = "connected" /\ ValidConfig(config)
        BY <1>6 DEF EnterLoop
    <2>2. config.poll_interval_secs # 0
        BY <2>1 DEF ValidConfig, ValidScalars
    <2> QED
        BY <1>6, <2>1, <2>2 DEF EnterLoop
<1>7. CASE ResolveWatchKeys
    <2>1. pc = "loop" /\ ValidConfig(config)
        BY <1>7 DEF ResolveWatchKeys
    <2>2. {Resolved(config.watch[i]) : i \in DOMAIN config.watch} \subseteq {"key"}
        BY <2>1, AllResolve
    <2>3. config.watch # <<>>
        BY <2>1, AllResolve
    <2>4. pc' = "observe" /\ watched' = Len(config.watch)
        BY <1>7, <2>2, <2>3 DEF ResolveWatchKeys
    <2> QED
        BY <1>7, <2>1, <2>4 DEF ResolveWatchKeys
<1>8. CASE UNCHANGED vars
    BY <1>8 DEF vars
<1> QED
    BY <1>1, <1>2, <1>3, <1>4, <1>5, <1>6, <1>7, <1>8 DEF Next

LEMMA StartInvariant == Spec => []StartInv
BY StartInit, StartStep, PTL DEF Spec

(* Whatever an operator configures, the loop never meets a rule that it    *)
(* cannot resolve, an interval it cannot tick, or an empty horizon.        *)
THEOREM LoopIsSafe == Spec => []LoopPreconditions
<1>1. StartInv => LoopPreconditions
    <2> SUFFICES ASSUME StartInv PROVE LoopPreconditions
        OBVIOUS
    <2>1. pc \notin {"panic", "cycle fails", "other entries"}
        BY DEF StartInv, Validated
    <2>2. CASE pc = "observe"
        <3>1. config \in Config /\ ValidConfig(config) /\ watched = Len(config.watch)
            BY <2>2 DEF StartInv, Validated
        <3>2. config.watch \in Seq(WatchSpec) /\ config.watch # <<>>
            BY <3>1 DEF Config, ValidConfig
        <3>3. Len(config.watch) > 0
            BY <3>2
        <3>4. config.risk_window.seconds \in Int /\ config.risk_window.seconds > 0
            BY <3>1 DEF Config, ValidConfig, ValidScalars
        <3>5. Horizon(config) > 0
            BY <3>4, PositiveWindow DEF Horizon
        <3> QED
            BY <2>1, <3>1, <3>3, <3>5 DEF LoopPreconditions
    <2> QED
        BY <2>1, <2>2 DEF LoopPreconditions
<1> QED
    BY <1>1, StartInvariant, PTL

(* A configuration that --check has accepted is refused for its secret or  *)
(* its URL only.                                                           *)
THEOREM CheckIsHonest == Spec => []CheckPredicts
<1>1. StartInv => CheckPredicts
    BY DEF StartInv, CheckPredicts, ValidConfig, ValidScalars, Config
<1> QED
    BY <1>1, StartInvariant, PTL
=============================================================================
