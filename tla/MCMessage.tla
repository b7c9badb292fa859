----------------------------- MODULE MCMessage -----------------------------
(* Values for TLC: every put method, the lengths at which the format's own  *)
(* limits lie, and wire bytes that look like type tags.                     *)
EXTENDS Message

Str(l, n) == [len |-> l, nul |-> n]

\* Long 1114112 = 0x110000: the half getLong leaves behind begins with byte 0x11,
\* the tag of a bool array; long 1 leaves zeros.
AnyValues ==
    [bool |-> {<<1>>}, byte |-> {<<255>>}, short |-> {<<3, 0>>},
     int |-> {<<4, 0, 0, 128>>}, long |-> {<<1, 0, 0, 0>>, <<0, 128, 17, 0>>},
     longlong |-> {<<1, 2, 3, 4, 5, 6, 7, 8>>}, float |-> {<<0, 0, 128, 63>>},
     double |-> {<<0, 0, 0, 0, 0, 0, 240, 63>>}, char |-> {<<97>>},
     wchar |-> {<<97, 0, 0, 0>>}, time |-> {<<9, 0, 0, 0, 0, 0, 0, 0>>, <<0, 0, 0, 0, 0, 0, 0, 1>>},
     duration |-> {<<255, 255, 255, 255>>},
     string |-> {Str(0, 0), Str(3, 1), Str(127, 127), Str(128, 128), Str(255, 255),
                 Str(256, 256), Str(32767, 32767), Str(32736, 32736),
                 Str(32768, 32768), Str(65506, 65506), Str(65507, 65507)},
     wstring |-> {Str(2, 2), Str(2, 1), Str(127, 127), Str(128, 128), Str(256, 256),
                  Str(16376, 16376)}]

\* The header, on buffers of 28 bytes and headers of two bytes' values.
H == INSTANCE MessageHeader
SampleHeaders ==
    {[f \in H!Fields |-> [i \in 1..H!Width[f] |-> IF i = 1 \/ f \in both THEN low ELSE high]] :
        both \in SUBSET H!Fields, low \in {{}, {0, 2, 7}}, high \in {{1}}}
SampleBuffers == {[i \in 0..27 |-> {i % 8}], [i \in 0..27 |-> {}]}

ASSUME HeaderAssumption ==
    \A h \in SampleHeaders :
        /\ \A buf \in SampleBuffers : H!RoundTrips(buf, h) /\ H!LeavesTheRest(buf, h)
        /\ H!SettersIndependent(h, <<{3}, {}>>)
=============================================================================
