------------------------ MODULE MessageHeader_proofs ------------------------
(***************************************************************************)
(* What holds of the header of a message of any length, for any values of  *)
(* its fields.                                                             *)
(***************************************************************************)
EXTENDS MessageHeader, SequenceTheorems, TLAPS

\* The fields lie side by side: no byte belongs to two of them, and together they are
\* the bytes before the length field.
LEMMA SpansDisjoint ==
    /\ \A f \in Fields : Span(f) \subseteq 0..(MESSAGE_LENGTH_OFFSET - 1)
    /\ \A f, g \in Fields : f # g => Span(f) \cap Span(g) = {}
  BY DEF Fields, Span, Offset, Width, MESSAGE_LENGTH_OFFSET

LEMMA FieldAtType ==
    ASSUME NEW f \in Fields, NEW i \in Span(f)
    PROVE  FieldAt(i) = f
  <1>1. \A g \in Fields : i \in Span(g) => g = f
    BY SpansDisjoint
  <1> QED
    BY <1>1 DEF FieldAt

LEMMA OffsetType ==
    \A f \in Fields : Offset[f] \in 0..(MESSAGE_LENGTH_OFFSET - 1) /\ Width[f] \in {2, 4}
  BY DEF Fields, Offset, Width, MESSAGE_LENGTH_OFFSET

\* A header written into the buffer of a message and read from it again is the same.
THEOREM HeaderRoundTrips ==
    ASSUME NEW n \in Nat, MESSAGE_LENGTH_OFFSET <= n, NEW buf \in Buffer(n), NEW h \in Header
    PROVE  RoundTrips(buf, h)
  <1>1. ASSUME NEW f \in Fields
        PROVE  readHeader(writeHeader(buf, h))[f] = h[f]
    <2>1. Len(h[f]) = Width[f] /\ h[f] \in Seq(Byte) /\ DOMAIN h[f] = 1..Width[f]
      BY LenProperties DEF Header
    <2>2. ASSUME NEW i \in 1..Width[f]
          PROVE  writeHeader(buf, h)[Offset[f] + i - 1] = h[f][i]
      <3>1. Offset[f] + i - 1 \in Span(f) /\ Offset[f] + i - 1 \in 0..(n - 1)
        BY OffsetType, SpansDisjoint DEF Span, MESSAGE_LENGTH_OFFSET
      <3>2. DOMAIN buf = 0..(n - 1)
        BY DEF Buffer
      <3>3. FieldAt(Offset[f] + i - 1) = f
        BY <3>1, FieldAtType
      <3>4. (Offset[f] + i - 1) - Offset[f] + 1 = i
        BY OffsetType DEF MESSAGE_LENGTH_OFFSET
      <3> QED
        BY <3>1, <3>2, <3>3, <3>4 DEF writeHeader
    <2>3. readHeader(writeHeader(buf, h))[f] = [i \in 1..Width[f] |-> h[f][i]]
      BY <2>2 DEF readHeader
    <2> QED
      BY <2>1, <2>3
  <1>2. readHeader(writeHeader(buf, h)) = [f \in Fields |-> h[f]]
    BY <1>1 DEF readHeader
  <1>3. h = [f \in Fields |-> h[f]]
    BY DEF Header
  <1> QED
    BY <1>2, <1>3 DEF RoundTrips

\* Writing a header touches nothing behind it; writing back what was read, nothing.
THEOREM HeaderLeavesTheRest ==
    ASSUME NEW n \in Nat, MESSAGE_LENGTH_OFFSET <= n, NEW buf \in Buffer(n), NEW h \in Header
    PROVE  LeavesTheRest(buf, h)
  <1>1. DOMAIN buf = 0..(n - 1)
    BY DEF Buffer
  <1>2. ASSUME NEW i \in DOMAIN buf, i >= MESSAGE_LENGTH_OFFSET
        PROVE  writeHeader(buf, h)[i] = buf[i]
    <2>1. i \notin 0..(MESSAGE_LENGTH_OFFSET - 1)
      <3>1. i \in Int
        BY <1>1, <1>2
      <3> QED
        BY <1>2, <3>1 DEF MESSAGE_LENGTH_OFFSET
    <2>2. ~ \E f \in Fields : i \in Span(f)
      BY <2>1, SpansDisjoint, Zenon
    <2> QED
      BY <2>2 DEF writeHeader
  <1>3. ASSUME NEW i \in DOMAIN buf
        PROVE  writeHeader(buf, readHeader(buf))[i] = buf[i]
    <2>1. CASE \E f \in Fields : i \in Span(f)
      <3>1. PICK f \in Fields : i \in Span(f)
        BY <2>1
      <3>2. FieldAt(i) = f
        BY <3>1, FieldAtType
      <3>3. i - Offset[f] + 1 \in 1..Width[f] /\ Offset[f] + (i - Offset[f] + 1) - 1 = i
        <4>1. Offset[f] \in Int /\ Width[f] \in Int
          BY OffsetType DEF MESSAGE_LENGTH_OFFSET
        <4>2. i \in Int /\ Offset[f] <= i /\ i <= Offset[f] + Width[f] - 1
          BY <1>1, <3>1, <4>1 DEF Span
        <4> QED
          BY <4>1, <4>2
      <3>4. readHeader(buf)[f][i - Offset[f] + 1] = buf[i]
        BY <3>3 DEF readHeader
      <3> QED
        BY <2>1, <3>2, <3>4 DEF writeHeader
    <2>2. CASE ~ \E f \in Fields : i \in Span(f)
      BY <2>2 DEF writeHeader
    <2> QED
      BY <2>1, <2>2
  <1>4. writeHeader(buf, readHeader(buf)) = [i \in DOMAIN buf |-> buf[i]]
    BY <1>3 DEF writeHeader
  <1>5. buf = [i \in DOMAIN buf |-> buf[i]]
    BY DEF Buffer
  <1> QED
    BY <1>2, <1>4, <1>5 DEF LeavesTheRest

\* Each setter and each flag keeps to its own part of the header.
THEOREM HeaderSettersIndependent ==
    ASSUME NEW h \in Header, NEW v \in Seq(Byte)
    PROVE  SettersIndependent(h, v)
  <1>1. h \in [Fields -> Seq(Byte)]
    BY DEF Header
  <1>2. /\ \A m \in Methods : FieldOf[m] \in Fields \ {"flags"}
        /\ \A m, n \in Methods : m # n => FieldOf[m] # FieldOf[n]
    BY DEF Methods, FieldOf, Fields
  <1>3. "flags" \in Fields
    BY DEF Fields
  <1>4. ASSUME NEW m \in Methods
        PROVE  /\ get(m, set(m, h, v)) = v
               /\ \A n \in Methods \ {m} : get(n, set(m, h, v)) = get(n, h)
               /\ \A fl \in Flags : isFlag(fl, set(m, h, v)) = isFlag(fl, h)
    <2>1. \A f \in Fields : set(m, h, v)[f] = IF f = FieldOf[m] THEN v ELSE h[f]
      BY <1>1, <1>2 DEF set
    <2>2. set(m, h, v)["flags"] = h["flags"]
      BY <1>2, <1>3, <2>1
    <2> QED
      BY <1>2, <2>1, <2>2 DEF get, isFlag
  <1>5. ASSUME NEW fl \in Flags, NEW b \in BOOLEAN
        PROVE  /\ isFlag(fl, setFlag(fl, h, b)) = b
               /\ \A g \in Flags \ {fl} : isFlag(g, setFlag(fl, h, b)) = isFlag(g, h)
               /\ \A m \in Methods : get(m, setFlag(fl, h, b)) = get(m, h)
    <2> DEFINE low == IF b THEN h["flags"][1] \cup {FlagBit[fl]}
                           ELSE h["flags"][1] \ {FlagBit[fl]}
               s == setFlag(fl, h, b)
    <2>1. s["flags"] = <<low, h["flags"][2]>> /\ \A f \in Fields \ {"flags"} : s[f] = h[f]
      BY <1>1, <1>3 DEF setFlag
    <2> HIDE DEF s
    <2>2. s["flags"][1] = low
      BY <2>1
    <2>3. \A g \in Flags \ {fl} : FlagBit[g] # FlagBit[fl]
      BY DEF Flags, FlagBit
    <2>4. FlagBit[fl] \in low <=> b
      OBVIOUS
    <2>5. \A g \in Flags \ {fl} : FlagBit[g] \in low <=> FlagBit[g] \in h["flags"][1]
      BY <2>3
    <2> HIDE DEF low
    <2>6. isFlag(fl, s) = b
      BY <2>2, <2>4 DEF isFlag
    <2>7. \A g \in Flags \ {fl} : isFlag(g, s) = isFlag(g, h)
      BY <2>2, <2>5 DEF isFlag
    <2>8. \A m \in Methods : get(m, s) = get(m, h)
      BY <1>2, <2>1 DEF get
    <2> QED
      BY <2>6, <2>7, <2>8 DEF s
  <1> QED
    BY <1>4, <1>5 DEF SettersIndependent

=============================================================================
