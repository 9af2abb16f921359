------------------------------ MODULE TxBuilder ------------------------------
(***************************************************************************)
(* The transaction builder of rentkeeper-core (tx.rs): a plan becomes an   *)
(* envelope, the simulation sets its fee, and a signature covers what the  *)
(* envelope holds when it is signed.  Fees are u64 while they are added    *)
(* and u32 in the envelope.                                                *)
(***************************************************************************)
EXTENDS PlanDocument

CONSTANTS
    BaseFee,        \* DEFAULT_BASE_FEE
    MaxFootprint    \* keys one footprint holds (100)

ASSUME BuilderAssumption ==
    /\ BaseFee \in Nat \ {0}
    /\ MaxFootprint \in Nat \ {0}

U32(n) == MinOf(n, U32Max)      \* u32::try_from, or the largest one

(* An empty plan and one too large for a footprint are refused.            *)
Builds(plan) == Len(plan.entries) \in 1..MaxFootprint

(* The operation of all entries is that of the first.                      *)
OperationOf(plan) == plan.entries[1].kind

BuildUnsigned(plan) ==
    [operation |-> OperationOf(plan), keys |-> Footprint(plan),
     extend_to |-> IF OperationOf(plan) = "extend" THEN plan.extend_to ELSE 0,
     fee |-> U32(BaseFee), signatures |-> <<>>]

(* A mistake: u32 arithmetic.                                              *)
WrappedFee(resourceFee) == (BaseFee + resourceFee) % (U32Max + 1)

(* saturating_add in u64.                                                  *)
TotalFee(resourceFee) == U32(MinOf(BaseFee + resourceFee, U64 - 1))

ApplySimulation(envelope, resourceFee) == [envelope EXCEPT !.fee = TotalFee(resourceFee)]

(* What a signature covers.                                                *)
Payload(envelope) == [envelope EXCEPT !.signatures = <<>>]

Sign(envelope) == [envelope EXCEPT !.signatures = Append(@, Payload(envelope))]
=============================================================================
