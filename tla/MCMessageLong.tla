--------------------------- MODULE MCMessageLong ---------------------------
(* Values for TLC: longs only.                                              *)
EXTENDS Message

LongValues == [k \in Kinds |-> IF k = "long" THEN {<<1, 0, 0, 0>>, <<5, 5, 5, 5>>} ELSE {}]
=============================================================================
