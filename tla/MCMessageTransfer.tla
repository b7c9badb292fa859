------------------------ MODULE MCMessageTransfer ------------------------
(* The real sizes are 26 bytes and more for a message, 30 for LengthKnown *)
(* and 2^64 - 1 for SIZE_MAX; what matters of them is their order.        *)
EXTENDS MessageTransfer
==========================================================================
