----------------------------- MODULE SorobanNode -----------------------------
(***************************************************************************)
(* EXTERNAL: the Soroban RPC node, modelled from what the crates ask of it *)
(* and from what their comments say it does.  Beside the ledger it keeps   *)
(* the fee payer's committed sequence number and the payer's queued        *)
(* transactions.  Sequence numbers netSeq+1 .. queued are taken by queued  *)
(* transactions; those of the keeper are in mempool, the others belong to  *)
(* a foreign submitter that shares the account.                            *)
(***************************************************************************)
EXTENDS Ledger

CONSTANT
    MaxForeign      \* bound: transactions of the foreign submitter

ASSUME NodeAssumption == MaxForeign \in Nat

VARIABLES
    netSeq,         \* the payer's committed sequence number
    queued,         \* the last sequence number taken by a queued transaction
    mempool,        \* the keeper's queued transactions
    inFlight,       \* sent by the keeper, given up on, not (yet) at the node
    foreign         \* how many transactions the foreign submitter has sent

nodeVars == <<height, liveUntil, present, netSeq, queued, mempool, inFlight, foreign>>

Transaction == [seq : Nat, keys : SUBSET Keys, extendTo : Nat]

NodeTypeOK ==
    /\ LedgerTypeOK
    /\ netSeq \in Nat
    /\ queued \in Nat
    /\ mempool \subseteq Transaction
    /\ inFlight \subseteq Transaction
    /\ foreign \in Nat

NodeInit ==
    /\ LedgerInit(Keys)
    /\ netSeq = 0
    /\ queued = 0
    /\ mempool = {}
    /\ inFlight = {}
    /\ foreign = 0

CloseLedger ==
    /\ LedgerCloses
    /\ UNCHANGED <<netSeq, queued, mempool, inFlight, foreign>>

Extended(tx) == Bumped(tx.keys, tx.extendTo)

(* The queued transaction with the next sequence number is applied; one of *)
(* the keeper may fail when it is, which uses its sequence number only.    *)
ApplyNext ==
    /\ netSeq < queued
    /\ netSeq' = netSeq + 1
    /\ mempool' = {tx \in mempool : tx.seq # netSeq + 1}
    /\ \/ UNCHANGED liveUntil
       \/ \E tx \in mempool : tx.seq = netSeq + 1 /\ liveUntil' = Extended(tx)
    /\ UNCHANGED <<height, present, queued, inFlight, foreign>>

(* The node forgets the transactions queued after some sequence number.    *)
DropQueued ==
    /\ \E s \in netSeq..(queued - 1) :
        /\ queued' = s
        /\ mempool' = {tx \in mempool : tx.seq <= s}
    /\ UNCHANGED <<height, liveUntil, present, netSeq, inFlight, foreign>>

Evict ==
    /\ EntryEvicted
    /\ UNCHANGED <<netSeq, queued, mempool, inFlight, foreign>>

(* Another client of the same account gets a transaction queued.           *)
ForeignSubmit ==
    /\ foreign < MaxForeign
    /\ foreign' = foreign + 1
    /\ queued' = queued + 1
    /\ UNCHANGED <<height, liveUntil, present, netSeq, mempool, inFlight>>

(* sendTransaction: queued when it carries the next free number, known     *)
(* when the same envelope is queued already, a bad sequence otherwise.     *)
Accepts(tx) == tx.seq = queued + 1
IsDuplicate(tx) == tx \in mempool
BadSeq(tx) == ~Accepts(tx) /\ ~IsDuplicate(tx)

Enqueue(tx) ==
    /\ queued' = queued + 1
    /\ mempool' = mempool \cup {tx}

(* A request the keeper stopped waiting for arrives after all.             *)
ArriveLate ==
    /\ \E tx \in inFlight :
        /\ inFlight' = inFlight \ {tx}
        /\ IF Accepts(tx) THEN Enqueue(tx) ELSE UNCHANGED <<queued, mempool>>
    /\ UNCHANGED <<height, liveUntil, present, netSeq, foreign>>
=============================================================================
