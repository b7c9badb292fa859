--------------------------- MODULE MCSocketStream ---------------------------
(* Calls of different sizes at the two ends, so that they never line up.    *)
EXTENDS SocketStream
=============================================================================
