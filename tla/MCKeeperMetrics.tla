--------------------------- MODULE MCKeeperMetrics ---------------------------
(* KeeperMetrics for TLC: an entry of each durability, one request.        *)
EXTENDS KeeperMetrics

CONSTANTS instance, balance

TwoKeys == {instance, balance}
TwoDurability == [k \in TwoKeys |-> IF k = instance THEN "Persistent" ELSE "Temporary"]
TwoInOne == [k \in TwoKeys |-> 1]
=============================================================================
