---------------------------- MODULE MCRentKeeper ----------------------------
(* RentKeeper for TLC: a persistent entry, a temporary one, and contract   *)
(* code, which has no durability of its own.                               *)
EXTENDS RentKeeper

CONSTANTS instance, balance, code

TwoKeys == {instance, balance}
TwoDurability == [k \in TwoKeys |-> IF k = instance THEN "Persistent" ELSE "Temporary"]
TwoInOne == [k \in TwoKeys |-> 1]
TwoInTwo == [k \in TwoKeys |-> IF k = instance THEN 1 ELSE 2]

ThreeKeys == {instance, balance, code}
ThreeDurability ==
    [k \in ThreeKeys |-> CASE k = instance -> "Persistent"
                           [] k = balance -> "Temporary"
                           [] k = code -> "None"]
ThreeInTwo == [k \in ThreeKeys |-> IF k = instance THEN 1 ELSE 2]
=============================================================================
