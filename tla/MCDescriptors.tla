--------------------------- MODULE MCDescriptors ---------------------------
(* Two Connections and some NetworkInterfaces over a table of a few        *)
(* descriptors, so that numbers run out and are reused.                    *)
EXTENDS Descriptors, TLC

CONSTANTS c1, c2

MCConnections == {c1, c2}
Symmetry == Permutations(MCConnections)

=============================================================================
