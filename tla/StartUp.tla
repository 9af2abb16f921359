------------------------------- MODULE StartUp -------------------------------
(***************************************************************************)
(* The start of the daemon: load_config of config.rs, main up to run_loop, *)
(* and the resolution of the watch rules with which every cycle begins.    *)
(* The same rules are read twice, by the validation and by the resolution, *)
(* each with parsers of its own.                                           *)
(***************************************************************************)
EXTENDS Ttl, Sequences

CONSTANT Configs    \* what an operator may start the daemon with

(* Texts, by what the parsers make of them.  A secret may be surrounded by *)
(* white space ("leading", "trailing"), begin with an S without being one  *)
(* ("garbled"), or be another kind of strkey.                              *)
Secrets == {"empty", "seed", "leading", "trailing", "garbled", "account"}
DurabilityNames == {"persistent", "temporary"}

(* A Wasm hash: how many characters follow the optional 0x, and whether    *)
(* they are hex digits (if not, the first one is none).                    *)
Hash == [digits : Nat, hex : BOOLEAN]

(* A watch rule; a field its type does not have is ignored.                *)
WatchSpec ==
    [type : {"instance", "data_key", "contract_code"},
     contract_id : {"contract", "account", "garbled"},
     key_xdr : {"scval", "garbled"},
     durability : DurabilityNames \cup {"other"},
     wasm_hash : Hash]

(* The TOML file, the environment variable and the secret file.  The risk  *)
(* window is finite or not, and then so many seconds.                      *)
Config ==
    [readable : BOOLEAN,
     rpc_url : {"empty", "malformed", "url"},
     network_passphrase : {"empty", "given"},
     env : Secrets \cup {"unset"},
     secret_key_file : Secrets \cup {"unset", "unreadable"},
     secret_key : Secrets,
     watch : Seq(WatchSpec),
     poll_interval_secs : Nat,
     risk_window : [finite : BOOLEAN, seconds : Int]]

ASSUME StartUpAssumption == Configs \subseteq Config

VARIABLES
    config,
    check,      \* --check
    pc,         \* how far main is
    watched,    \* the number of keys the first cycle asks the node for
    verdict     \* history: --check has accepted this configuration

vars == <<config, check, pc, watched, verdict>>

-----------------------------------------------------------------------------
(* load_config.                                                            *)

Trimmed(secret) == IF secret \in {"leading", "trailing"} THEN "seed" ELSE secret

(* Environment, then file, then inline; only the first two are trimmed.    *)
SecretKey(c) ==
    IF c.env # "unset" THEN Trimmed(c.env)
    ELSE IF c.secret_key_file # "unset" THEN Trimmed(c.secret_key_file)
    ELSE c.secret_key

StartsWithS(secret) == secret \in {"seed", "trailing", "garbled"}

(* A mistake: the length of a hash is not looked at.                       *)
ValidDigits(hash) == hash.hex

ValidHexHash(hash) == hash.digits = 64 /\ hash.hex

ValidWatchSpec(spec) ==
    IF spec.type = "contract_code"
    THEN ValidHexHash(spec.wasm_hash)
    ELSE /\ spec.contract_id = "contract"
         /\ spec.type = "data_key" =>
                spec.durability \in DurabilityNames /\ spec.key_xdr = "scval"

ValidScalars(c) ==
    /\ c.rpc_url # "empty"
    /\ c.network_passphrase # "empty"
    /\ StartsWithS(SecretKey(c))
    /\ c.poll_interval_secs # 0
    /\ c.risk_window.finite /\ c.risk_window.seconds > 0

ValidConfig(c) ==
    /\ c.readable
    /\ ValidScalars(c)
    /\ c.watch # <<>>
    /\ \A i \in DOMAIN c.watch : ValidWatchSpec(c.watch[i])

Horizon(c) == FromSeconds(c.risk_window.seconds)

-----------------------------------------------------------------------------
(* resolve_watch_keys: the key a rule names, another key, an error, or a   *)
(* panic.                                                                  *)

(* Two characters make a byte of an array of 32: a short hash leaves the   *)
(* rest of it zero, and the 33rd byte is written beyond its end.           *)
WasmHashBytes(hash) ==
    IF ~hash.hex THEN "error"
    ELSE IF hash.digits >= 66 THEN "panic"
    ELSE IF hash.digits % 2 = 1 THEN "error"
    ELSE IF hash.digits = 64 THEN "key"
    ELSE "other key"

Resolved(spec) ==
    IF spec.type = "contract_code" THEN WasmHashBytes(spec.wasm_hash)
    ELSE IF /\ spec.contract_id = "contract"
            /\ spec.type = "data_key" =>
                    spec.key_xdr = "scval" /\ spec.durability \in DurabilityNames
    THEN "key"
    ELSE "error"

-----------------------------------------------------------------------------
Launch ==
    /\ pc = "idle"
    /\ pc' = "load"
    /\ check' \in BOOLEAN
    /\ UNCHANGED <<config, watched, verdict>>

(* A mistake: a check that stops at the first fields.                      *)
LoadScalars ==
    /\ pc = "load"
    /\ pc' = IF ValidConfig(config) \/ (check /\ ValidScalars(config))
             THEN "loaded" ELSE "exit 2"
    /\ UNCHANGED <<config, check, watched, verdict>>

Load ==
    /\ pc = "load"
    /\ pc' = IF ValidConfig(config) THEN "loaded" ELSE "exit 2"
    /\ UNCHANGED <<config, check, watched, verdict>>

(* The check returns before the secret and the URL are used.               *)
CheckPasses ==
    /\ pc = "loaded"
    /\ check
    /\ pc' = "idle"
    /\ verdict' = TRUE
    /\ UNCHANGED <<config, check, watched>>

ParsePayer ==
    /\ pc = "loaded"
    /\ ~check
    /\ pc' = IF SecretKey(config) = "seed" THEN "payer" ELSE "exit 2"
    /\ UNCHANGED <<config, check, watched, verdict>>

Connect ==
    /\ pc = "payer"
    /\ pc' = IF config.rpc_url = "url" THEN "connected" ELSE "exit 2"
    /\ UNCHANGED <<config, check, watched, verdict>>

(* run_loop up to its select!: an interval of zero panics, and a handler   *)
(* that cannot be installed ends the daemon.                               *)
EnterLoop ==
    /\ pc = "connected"
    /\ \/ pc' = IF config.poll_interval_secs = 0 THEN "panic" ELSE "loop"
       \/ pc' = "exit 0"
    /\ UNCHANGED <<config, check, watched, verdict>>

(* The head of run_cycle, the same in every cycle.                         *)
ResolveWatchKeys ==
    /\ pc = "loop"
    /\ LET results == {Resolved(config.watch[i]) : i \in DOMAIN config.watch}
       IN  /\ pc' = IF "panic" \in results THEN "panic"
                    ELSE IF "error" \in results \/ config.watch = <<>> THEN "cycle fails"
                    ELSE IF "other key" \in results THEN "other entries"
                    ELSE "observe"
           /\ watched' = IF pc' = "observe" THEN Len(config.watch) ELSE 0
    /\ UNCHANGED <<config, check, verdict>>

Init ==
    /\ config \in Configs
    /\ check = FALSE
    /\ pc = "idle"
    /\ watched = 0
    /\ verdict = FALSE

Next ==
    \/ Launch \/ Load \/ CheckPasses \/ ParsePayer \/ Connect
    \/ EnterLoop \/ ResolveWatchKeys

Spec == Init /\ [][Next]_vars

-----------------------------------------------------------------------------
(* Properties.                                                             *)

(* What load_config lets pass never fails or panics later: no cycle fails  *)
(* on a rule, none watches other entries than the rules name, and each     *)
(* observes every rule's key and looks at least one ledger ahead.          *)
LoopPreconditions ==
    /\ pc \notin {"panic", "cycle fails", "other entries"}
    /\ pc = "observe" => watched = Len(config.watch) /\ watched > 0 /\ Horizon(config) > 0

(* A configuration that --check has accepted is refused afterwards for its *)
(* secret or its URL only.                                                 *)
CheckPredicts ==
    verdict /\ pc = "exit 2" => SecretKey(config) # "seed" \/ config.rpc_url = "malformed"
=============================================================================
