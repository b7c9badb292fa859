---------------------------- MODULE MessageHeader ----------------------------
(***************************************************************************)
(* The header of a kcmsg::Message: nine fields kept in the struct hdr, set *)
(* and got one by one, and copied to and from the first bytes of the       *)
(* buffer by writeHeader and readHeader (src/src/Message.cpp).             *)
(*                                                                         *)
(* Nothing in the library calls the two: the header is operators on values *)
(* here, no state.  A byte is the set of its bits; a field is the tuple of *)
(* its bytes, the lowest first, as the little-endian buffers store it.     *)
(***************************************************************************)
EXTENDS Integers, Sequences

Byte == SUBSET (0..7)

\* Where in the buffer a field begins, and the bytes it takes there.
Offset == [source_ident |-> 0, source_organization |-> 4, target_ident |-> 6,
           target_organization |-> 10, transaction_ident |-> 12,
           transaction_application |-> 14, transaction_organization |-> 16,
           ttl |-> 18, flags |-> 22]

Width == [source_ident |-> 4, source_organization |-> 2, target_ident |-> 4,
          target_organization |-> 2, transaction_ident |-> 2,
          transaction_application |-> 2, transaction_organization |-> 2,
          ttl |-> 4, flags |-> 2]

Fields == {"source_ident", "source_organization", "target_ident", "target_organization",
           "transaction_ident", "transaction_application", "transaction_organization",
           "ttl", "flags"}

MESSAGE_LENGTH_OFFSET == 24

Header == {h \in [Fields -> Seq(Byte)] : \A f \in Fields : Len(h[f]) = Width[f]}

\* The bytes of a message of n bytes.
Buffer(n) == [0..(n - 1) -> Byte]

Span(f) == Offset[f]..(Offset[f] + Width[f] - 1)

\* The field whose byte i of the buffer is; no two overlap.
FieldAt(i) == CHOOSE f \in Fields : i \in Span(f)

readHeader(buf) == [f \in Fields |-> [i \in 1..Width[f] |-> buf[Offset[f] + i - 1]]]

writeHeader(buf, h) ==
    [i \in DOMAIN buf |->
        IF \E f \in Fields : i \in Span(f)
        THEN h[FieldAt(i)][i - Offset[FieldAt(i)] + 1]
        ELSE buf[i]]

----------------------------------------------------------------------------
(* The set and get methods.                                                *)

\* The field that the methods set... and get... of a name deal with.
FieldOf == [SourceIdentifier |-> "source_ident",
            SourceOrganization |-> "source_organization",
            TargetIdentifier |-> "target_ident",
            TargetOrganization |-> "target_organization",
            TransactionIdentifier |-> "transaction_ident",
            TransactionApplication |-> "transaction_application",
            TransactionOrganization |-> "transaction_organization",
            TTL |-> "ttl"]

Methods == {"SourceIdentifier", "SourceOrganization", "TargetIdentifier",
            "TargetOrganization", "TransactionIdentifier", "TransactionApplication",
            "TransactionOrganization", "TTL"}

set(m, h, v) == [h EXCEPT ![FieldOf[m]] = v]
get(m, h) == h[FieldOf[m]]

\* The bit of each flag, all in the low byte of flags.
FlagBit == [OnceAndOnlyOnce |-> 0, QuickDeath |-> 1, MessageFragment |-> 2]
Flags == {"OnceAndOnlyOnce", "QuickDeath", "MessageFragment"}

setFlag(m, h, v) ==
    LET low == IF v THEN h["flags"][1] \cup {FlagBit[m]} ELSE h["flags"][1] \ {FlagBit[m]}
    IN  [h EXCEPT !["flags"] = <<low, h["flags"][2]>>]

isFlag(m, h) == FlagBit[m] \in h["flags"][1]

----------------------------------------------------------------------------
(* What they do together.                                                  *)

\* A header that is written and read again is the same.
RoundTrips(buf, h) == readHeader(writeHeader(buf, h)) = h

\* Writing a header leaves the length field and the items behind it alone, and what
\* was read from a buffer writes it back as it was.
LeavesTheRest(buf, h) ==
    /\ \A i \in DOMAIN buf : i >= MESSAGE_LENGTH_OFFSET => writeHeader(buf, h)[i] = buf[i]
    /\ writeHeader(buf, readHeader(buf)) = buf

\* No setter disturbs what another setter, or a flag, was set to.
SettersIndependent(h, v) ==
    /\ \A m \in Methods : /\ get(m, set(m, h, v)) = v
                          /\ \A n \in Methods \ {m} : get(n, set(m, h, v)) = get(n, h)
                          /\ \A fl \in Flags : isFlag(fl, set(m, h, v)) = isFlag(fl, h)
    /\ \A fl \in Flags, b \in BOOLEAN :
          /\ isFlag(fl, setFlag(fl, h, b)) = b
          /\ \A g \in Flags \ {fl} : isFlag(g, setFlag(fl, h, b)) = isFlag(g, h)
          /\ \A m \in Methods : get(m, setFlag(fl, h, b)) = get(m, h)

=============================================================================
