-------------------------- MODULE MCMessageString --------------------------
(* Values for TLC: strings on both sides of the sign bit of their length.   *)
EXTENDS Message

Str(l) == [len |-> l, nul |-> l]
NarrowValues == [k \in Kinds |-> IF k = "string" THEN {Str(127), Str(128)} ELSE {}]
=============================================================================
