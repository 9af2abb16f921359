-------------------------- MODULE MCRestorePlanner --------------------------
(* RestorePlanner for TLC: two persistent entries, a temporary one and a   *)
(* persistent key without an entry.  Of the requests, each of one          *)
(* durability, one names a key twice.                                      *)
EXTENDS RestorePlanner

CONSTANTS instance, balance, allowance, ghost

FourKeys == {instance, balance, allowance, ghost}
KeyDurability == [k \in FourKeys |-> IF k = allowance THEN "Temporary" ELSE "Persistent"]
TwoKeys == {instance, balance}
TwoDurability == [k \in TwoKeys |-> "Persistent"]
Pair == {<<instance, balance>>}
SomeRequests == Pair \cup {<<allowance>>, <<instance, instance, ghost>>}
=============================================================================
