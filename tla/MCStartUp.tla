------------------------------ MODULE MCStartUp ------------------------------
(* StartUp for TLC: every secret in every place, every rule alone and      *)
(* beside a good one, and every other field varied on its own.             *)
EXTENDS StartUp

GoodHash == [digits |-> 64, hex |-> TRUE]
Instance ==
    [type |-> "instance", contract_id |-> "contract", key_xdr |-> "scval",
     durability |-> "persistent", wasm_hash |-> GoodHash]

Good ==
    [readable |-> TRUE, rpc_url |-> "url", network_passphrase |-> "given",
     env |-> "unset", secret_key_file |-> "unset", secret_key |-> "seed",
     watch |-> <<Instance>>, poll_interval_secs |-> 30,
     risk_window |-> [finite |-> TRUE, seconds |-> 604800]]

Rules ==
    {[Instance EXCEPT !.contract_id = c] : c \in {"contract", "account", "garbled"}}
    \cup {[Instance EXCEPT !.type = "data_key", !.contract_id = c, !.key_xdr = k, !.durability = d] :
            c \in {"contract", "account"}, k \in {"scval", "garbled"},
            d \in {"persistent", "temporary", "other"}}
    \cup {[Instance EXCEPT !.type = "contract_code", !.wasm_hash = [digits |-> n, hex |-> h]] :
            n \in {0, 63, 64, 65, 66}, h \in BOOLEAN}

Watches == {<<>>} \cup {<<r>> : r \in Rules} \cup {<<Instance, r>> : r \in Rules}

Windows ==
    [finite : {TRUE}, seconds : {-5, 0, 1, 5, 6, 10000}] \cup [finite : {FALSE}, seconds : {0}]

Starts ==
    {[Good EXCEPT !.env = e, !.secret_key_file = f, !.secret_key = s] :
        e \in Secrets \cup {"unset"}, f \in Secrets \cup {"unset", "unreadable"}, s \in Secrets}
    \cup {[Good EXCEPT !.watch = w] : w \in Watches}
    \cup {[Good EXCEPT !.risk_window = w] : w \in Windows}
    \cup {[Good EXCEPT !.rpc_url = u] : u \in {"empty", "malformed"}}
    \cup {[Good EXCEPT !.network_passphrase = "empty"], [Good EXCEPT !.poll_interval_secs = 0],
          [Good EXCEPT !.readable = FALSE]}
=============================================================================
