----------------------------- MODULE MCSharding -----------------------------
(* A small instance of Sharding: one group or two, and two keys that two   *)
(* groups would share.                                                     *)
EXTENDS Sharding

CONSTANTS k1, k2

TwoKeys == {k1, k2}
Parity  == [k \in TwoKeys |-> IF k = k1 THEN 4 ELSE 7]
=============================================================================
