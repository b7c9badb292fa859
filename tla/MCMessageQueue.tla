--------------------------- MODULE MCMessageQueue ---------------------------
(* Values for TLC that the format carries faithfully, in a message of few    *)
(* bytes.                                                                    *)
EXTENDS MessageQueue

Str(l) == [len |-> l, nul |-> l]

\* Some bytes are type tags, so that a cursor out of step would be taken in.
FaithfulValues ==
    [bool |-> {<<0>>, <<1>>}, byte |-> {<<2>>}, short |-> {<<2, 11>>},
     int |-> {<<1, 1, 2, 255>>}, long |-> {}, longlong |-> {<<2, 2, 2, 2, 2, 2, 2, 2>>},
     float |-> {}, double |-> {}, char |-> {<<9>>}, wchar |-> {}, time |-> {<<2, 0, 0, 0, 0, 0, 0, 0>>},
     duration |-> {<<0, 0, 0, 128>>}, string |-> {Str(0), Str(2), Str(10)}, wstring |-> {}]
=============================================================================
