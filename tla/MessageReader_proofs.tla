------------------------ MODULE MessageReader_proofs ------------------------
(* The reader of a Message, proved for every buffer size, every set of      *)
(* values and every sequence of calls: where its cursor stands, what it     *)
(* returns and what ends it; and that a Message is a TypedQueue.            *)
EXTENDS MessageQueue, Message_proofs

(***************************************************************************)
(* What the bytes of the buffer are.                                       *)
(***************************************************************************)
\* The bytes of an item are found where it was put: no two items overlap.
LEMMA ItemBytes ==
    ASSUME IInv, NEW n \in DOMAIN data, NEW heap, NEW i \in Nat, i < Size(data[n].item)
    PROVE  ByteAt(data[n].at + i, heap) = ByteOf(data[n].item, i)
<1>. DEFINE o == data[n].at + i
<1>1. /\ data[n].at \in Nat /\ Size(data[n].item) \in Nat
      /\ \A m \in DOMAIN data : /\ m \in 1..Len(data)
                                /\ data[m].at \in Nat /\ Size(data[m].item) \in Nat
  BY DataType DEF IInv
<1>2. Len(data) \in Nat /\ DOMAIN data = 1..Len(data)
  BY LenProperties DEF IInv, TypeOK
<1>3. o \in Nat /\ o < data[n].at + Size(data[n].item) /\ data[n].at <= o
  BY <1>1
<1>4. ~(o >= MAX_MSG_DATA)
  <2>1. data[n].at + Size(data[n].item) <= MAX_MSG_DATA /\ MAX_MSG_DATA \in Nat
    BY MessageAssumption DEF IInv, InBounds
  <2>. HIDE DEF o
  <2>. QED  BY <1>1, <1>3, <2>1
<1>5. Covers(data[n], o)
  BY <1>3 DEF Covers
<1>. HIDE DEF o
<1>6. ASSUME NEW m \in DOMAIN data, Covers(data[m], o)
      PROVE  m = n
  <2>1. data[m].at <= o /\ o < data[m].at + Size(data[m].item)
    BY <1>6 DEF Covers
  <2>2. ~(m < n)
    <3>1. m < n => data[m].at + Size(data[m].item) <= data[n].at
      BY <1>2 DEF IInv, InBounds
    <3>. QED  BY <1>1, <1>3, <2>1, <3>1
  <2>3. ~(n < m)
    <3>1. n < m => data[n].at + Size(data[n].item) <= data[m].at
      BY <1>2 DEF IInv, InBounds
    <3>. QED  BY <1>1, <1>3, <2>1, <3>1
  <2>. QED  BY <1>2, <2>2, <2>3
<1>7. (CHOOSE m \in DOMAIN data : Covers(data[m], o)) = n
  BY <1>5, <1>6
<1>8. ByteAt(o, heap) = ByteOf(data[n].item, o - data[n].at)
  BY <1>4, <1>5, <1>7 DEF ByteAt
<1>9. o - data[n].at = i
  BY <1>1 DEF o
<1>. QED  BY <1>8, <1>9 DEF o

\* Behind the last item the buffer is zero.
LEMMA ZeroBehind ==
    ASSUME IInv, NEW o \in Nat, DataEnd <= o, o < MAX_MSG_DATA, NEW heap
    PROVE  ByteAt(o, heap) = 0
<1>1. MAX_MSG_DATA \in Nat /\ DataEnd \in Nat
  BY MessageAssumption, DataEndType DEF IInv
<1>2. ASSUME NEW m \in DOMAIN data
      PROVE  ~Covers(data[m], o)
  BY <1>1, DataType, EndBeforeDataEnd DEF IInv, Covers
<1>. QED  BY <1>1, <1>2 DEF ByteAt

\* The tag of an item is that of its kind alone, and says how wide its length is.
LEMMA TagDecides ==
    ASSUME NEW it \in Item
    PROVE  /\ \A k \in FixedKinds : TagOf(it) = DATA_TYPE[k] <=> it.kind = k
           /\ TagOf(it) \in {STRING_1, STRING_2} <=> it.kind = "string"
           /\ TagOf(it) \in {WSTRING_1, WSTRING_2} <=> it.kind = "wstring"
           /\ it.kind \notin FixedKinds =>
                 (TagOf(it) \in {STRING_1, WSTRING_1} <=> LenWidth(it.val.len) = 1)
<1>1. CASE it.kind \in FixedKinds
  BY <1>1 DEF TagOf, DATA_TYPE, FixedKinds, STRING_1, STRING_2, WSTRING_1, WSTRING_2
<1>2. CASE it.kind \notin FixedKinds
  <2>1. it.kind \in {"string", "wstring"} /\ it.val.len \in Nat
    BY <1>2, ItemCases
  <2>2. LenWidth(it.val.len) \in {1, 2}
    BY <2>1 DEF LenWidth
  <2>3. TagOf(it) = StringTag[it.kind][LenWidth(it.val.len)]
    BY <1>2 DEF TagOf
  <2>. QED
    BY <1>2, <2>1, <2>2, <2>3
       DEF StringTag, DATA_TYPE, FixedKinds, STRING_1, STRING_2, WSTRING_1, WSTRING_2
<1>. QED  BY <1>1, <1>2

(***************************************************************************)
(* What the getters do with the cursor at an item, and behind the last.    *)
(***************************************************************************)
\* The get method of a kind.
GetterOf(k, heap) ==
    \/ k \in FixedKinds /\ GetFixed(k, heap)
    \/ k = "string" /\ getString(heap)
    \/ k = "wstring" /\ getWString(heap)

\* At an item that is stepped over exactly the getter of its kind goes to the end of
\* it, and only the getter of another kind ends the process.
Outcome(k, it) ==
    \/ \E r \in Item, d \in Nat \ {0} :
          /\ Return(r, d)
          /\ it.kind = k
          /\ InStep(it) => d = Size(it)
          /\ Faithful(it) => r = it
    \/ \E d \in Nat : /\ Abort(k, d)
                      /\ InStep(it) => it.kind # k
                      /\ it.kind # k => d = 1

AtItem(n) == n \in DOMAIN data /\ offset = data[n].at

\* The tag under the cursor.
LEMMA TagAt ==
    ASSUME IInv, NEW n, AtItem(n), NEW heap
    PROVE  /\ data[n].item \in Item /\ data[n].at \in Nat /\ offset \in Nat
           /\ ByteAt(offset, heap) = TagOf(data[n].item)
<1>1. n \in DOMAIN data /\ offset = data[n].at
  BY DEF AtItem
<1>2. data[n].item \in Item /\ data[n].at \in Nat
  BY <1>1, DataType DEF IInv
<1>3. Size(data[n].item) \in Nat /\ 0 < Size(data[n].item)
  BY <1>2, SizeType
<1>4. ByteAt(data[n].at + 0, heap) = ByteOf(data[n].item, 0)
  BY <1>1, <1>3, ItemBytes
<1>. QED  BY <1>1, <1>2, <1>4 DEF ByteOf

\* The bytes of a fixed-width item behind its tag are its value.
LEMMA FixedBytes ==
    ASSUME IInv, NEW n, AtItem(n), NEW heap, data[n].item.kind \in FixedKinds
    PROVE  [i \in 1..PutWidth[data[n].item.kind] |-> ByteAt(offset + i, heap)]
               = data[n].item.val
<1>. DEFINE it == data[n].item
            w == PutWidth[it.kind]
<1>1. n \in DOMAIN data /\ offset = data[n].at /\ it \in Item
  BY TagAt DEF AtItem
<1>2. it.val \in Seq(Byte) /\ Len(it.val) = w /\ w \in Nat
  <2>1. it.val \in Seq(Byte) /\ Len(it.val) = PutWidth[it.kind]
    BY <1>1, ItemCases
  <2>2. PutWidth[it.kind] \in Nat
    BY WidthType
  <2>. QED  BY <2>1, <2>2
<1>3. Size(it) = 1 + w
  BY DEF Size
<1>. HIDE DEF w
<1>4. ASSUME NEW i \in 1..w
      PROVE  ByteAt(offset + i, heap) = it.val[i]
  <2>1. i \in Nat /\ i < Size(it) /\ i # 0
    BY <1>2, <1>3
  <2>2. ByteAt(offset + i, heap) = ByteOf(it, i)
    BY <1>1, <2>1, ItemBytes
  <2>. QED  BY <2>1, <2>2 DEF ByteOf
<1>. HIDE DEF it
<1>5. it.val = [i \in 1..w |-> it.val[i]]
  BY <1>2
<1>6. [i \in 1..w |-> ByteAt(offset + i, heap)] = [i \in 1..w |-> it.val[i]]
  BY <1>4
<1>. QED  BY <1>5, <1>6 DEF it, w

\* The getters of fixed-width values at an item.
LEMMA FixedAt ==
    ASSUME IInv, NEW n, AtItem(n), NEW heap \in Byte, NEW k \in FixedKinds, GetFixed(k, heap)
    PROVE  Outcome(k, data[n].item)
<1>. DEFINE it == data[n].item
            b == [i \in 1..GetWidth[k] |-> ByteAt(offset + i, heap)]
            r == [kind |-> k, val |-> Decode(k, b)]
<1>1. it \in Item /\ ByteAt(offset, heap) = TagOf(it) /\ offset \in Nat
  BY TagAt
<1>2. k \notin {"string", "wstring"}
  BY DEF FixedKinds
<1>3. CASE ByteAt(offset, heap) = DATA_TYPE[k] /\ Return(r, 1 + GetWidth[k])
  <2>1. it.kind = k
    BY <1>1, <1>3, TagDecides
  <2>2. GetWidth[k] \in Nat /\ 1 + GetWidth[k] \in Nat \ {0}
    BY WidthType
  <2>3. k # "long" => GetWidth[k] = PutWidth[k]
    BY DEF GetWidth, PutWidth, FixedKinds
  <2>4. InStep(it) => 1 + GetWidth[k] = Size(it)
    BY <2>1, <2>3 DEF InStep, Size
  <2>5. r \in Item
    <3>1. ASSUME NEW i \in 1..GetWidth[k]
          PROVE  ByteAt(offset + i, heap) \in Byte
      BY <1>1, <2>2, ByteAtType DEF IInv
    <3>2. b \in [1..GetWidth[k] -> Byte]
      BY <3>1
    <3>. HIDE DEF b
    <3>. QED  BY <3>2, DecodeType, FixedItemIntro
  <2>6. ASSUME Faithful(it)
        PROVE  r = it
    <3>1. k # "long"
      BY <2>1, <2>6 DEF Faithful, InStep
    <3>2. b = it.val
      BY <2>1, <2>3, <3>1, FixedBytes
    <3>. HIDE DEF b
    <3>3. it = [kind |-> k, val |-> it.val]
      BY <1>1, <2>1, <1>2 DEF Item, FixedItem, StringItem
    <3>4. CASE k = "bool"
      <4>1. it.val \in Seq(Byte) /\ Len(it.val) = 1 /\ it.val[1] \in {0, 1}
        <5>1. it.kind = "bool" /\ it.kind \in FixedKinds /\ it.kind \notin {"string", "wstring"}
          BY <2>1, <3>4, <1>2
        <5>2. it \in FixedItem
          BY <1>1, <5>1 DEF Item, StringItem
        <5>3. PutWidth["bool"] = 1
          BY DEF PutWidth
        <5>. QED  BY <5>1, <5>2, <5>3 DEF FixedItem
      <4>2. it.val = <<it.val[1]>>
        BY <4>1
      <4>3. Decode(k, it.val) = <<it.val[1]>>
        BY <3>4, <4>1 DEF Decode
      <4>. QED  BY <3>2, <3>3, <4>2, <4>3
    <3>5. CASE k # "bool"
      BY <3>1, <3>2, <3>3, <3>5 DEF Decode
    <3>. QED  BY <3>4, <3>5
  <2>. HIDE DEF it, r
  <2>7. Outcome(k, it)
    BY <1>3, <2>1, <2>2, <2>4, <2>5, <2>6 DEF Outcome
  <2>. QED  BY <2>7 DEF it
<1>4. CASE ByteAt(offset, heap) # DATA_TYPE[k] /\ Abort(k, 1)
  <2>1. it.kind # k
    BY <1>1, <1>4, TagDecides
  <2>2. Abort(k, 1)
    BY <1>4
  <2>. HIDE DEF it
  <2>3. \E d \in Nat : Abort(k, d) /\ (InStep(it) => it.kind # k) /\ (it.kind # k => d = 1)
    <3>. WITNESS 1 \in Nat
    <3>. QED  BY <2>1, <2>2
  <2>4. Outcome(k, it)
    BY <2>3, Zenon DEF Outcome
  <2>. QED  BY <2>4 DEF it
<1>. QED  BY <1>3, <1>4 DEF GetFixed

\* A number of two bytes is put together from them.
LEMMA TwoBytes ==
    ASSUME NEW l \in Nat
    PROVE  (l % 256) + 256 * (l \div 256) = l
  OBVIOUS

\* The length prefix of a string that is stepped over exactly is read as its length.
LEMMA LengthAt ==
    ASSUME IInv, NEW n, AtItem(n), NEW heap,
           data[n].item.kind \notin FixedKinds, InStep(data[n].item)
    PROVE  SignedLength(LenWidth(data[n].item.val.len), heap) = data[n].item.val.len
<1>. DEFINE it == data[n].item
            l == it.val.len
            w == LenWidth(l)
<1>1. n \in DOMAIN data /\ offset = data[n].at /\ it \in Item
  BY TagAt DEF AtItem
<1>2. it.kind \in {"string", "wstring"} /\ l \in Nat
  BY <1>1, ItemCases
<1>3. w \in {1, 2} /\ (w = 1 <=> l <= 255)
  BY <1>2 DEF LenWidth
<1>4. Size(it) = 1 + w + CharWidth[it.kind] * l /\ CharWidth[it.kind] * l \in Nat
  BY <1>2 DEF Size, CharWidth
<1>5. l < 128 \/ (256 <= l /\ l < 32768)
  BY <1>2 DEF InStep
<1>6. StringByte(it, 1) = l % 256
  BY DEF StringByte
<1>7. w = 2 => StringByte(it, 2) = l \div 256
  <2>1. ASSUME w = 2
        PROVE  2 - 1 - LenWidth(l) < 0
    BY <2>1
  <2>. QED  BY <2>1 DEF StringByte
<1>. HIDE DEF w
<1>8. 1 \in Nat /\ 1 < Size(it) /\ (w = 2 => 2 \in Nat /\ 2 < Size(it))
  <2>. DEFINE c == CharWidth[it.kind] * l
  <2>1. c \in Nat /\ Size(it) = 1 + w + c
    BY <1>4
  <2>. HIDE DEF c
  <2>. QED  BY <1>3, <2>1
<1>9. ByteAt(offset + 1, heap) = l % 256
  <2>1. ByteAt(data[n].at + 1, heap) = ByteOf(it, 1)
    BY <1>1, <1>8, ItemBytes
  <2>. QED  BY <1>1, <1>6, <2>1 DEF ByteOf
<1>10. w = 2 => ByteAt(offset + 2, heap) = l \div 256
  <2>1. w = 2 => ByteAt(data[n].at + 2, heap) = ByteOf(it, 2)
    BY <1>1, <1>8, ItemBytes
  <2>. QED  BY <1>1, <1>7, <2>1 DEF ByteOf
<1>. HIDE DEF l
<1>11. CASE w = 1
  BY <1>2, <1>3, <1>5, <1>9, <1>11 DEF SignedLength, l, w
<1>12. CASE w = 2
  <2>1. (l % 256) + 256 * (l \div 256) = l
    BY <1>2, TwoBytes
  <2>2. SignedLength(2, heap) = IF l > 32767 THEN l - 65536 ELSE l
    BY <1>9, <1>10, <1>12, <2>1 DEF SignedLength
  <2>3. SignedLength(2, heap) = l
    BY <1>3, <1>5, <1>12, <1>2, <2>2 DEF l
  <2>. QED  BY <1>12, <2>3 DEF l, w
<1>. QED  BY <1>3, <1>11, <1>12

\* No two items begin at the same place.
LEMMA OneItemThere ==
    ASSUME IInv, NEW n \in DOMAIN data, NEW m \in DOMAIN data, data[m].at = data[n].at
    PROVE  m = n
<1>1. /\ data[n].at \in Nat
      /\ \A j \in DOMAIN data : Size(data[j].item) \in Nat /\ Size(data[j].item) >= 2
  BY DataType, SizeType DEF IInv
<1>2. Len(data) \in Nat /\ DOMAIN data = 1..Len(data)
  BY LenProperties DEF IInv, TypeOK
<1>3. m < n => data[m].at + Size(data[m].item) <= data[n].at
  BY <1>2 DEF IInv, InBounds
<1>4. n < m => data[n].at + Size(data[n].item) <= data[m].at
  BY <1>2 DEF IInv, InBounds
<1>5. ~(m < n)
  BY <1>1, <1>3
<1>6. ~(n < m)
  BY <1>1, <1>4
<1>. QED  BY <1>2, <1>5, <1>6

\* The getters of strings at an item.
LEMMA StringAt ==
    ASSUME IInv, NEW n, AtItem(n), NEW heap \in Byte, getString(heap)
    PROVE  Outcome("string", data[n].item)
<1>. DEFINE it == data[n].item
            w == IF ByteAt(offset, heap) = STRING_1 THEN 1 ELSE 2
            l == SignedLength(w, heap)
            s == FirstNul("string", 1, offset + 1 + w, l, heap)
            r == [kind |-> "string", val |-> [len |-> s, nul |-> s]]
<1>1. it \in Item /\ ByteAt(offset, heap) = TagOf(it) /\ offset \in Nat
      /\ n \in DOMAIN data /\ offset = data[n].at
  BY TagAt DEF AtItem
<1>2. w \in {1, 2} /\ l \in Int
  BY SignedLengthType
<1>3. CASE ByteAt(offset, heap) \notin {STRING_1, STRING_2} /\ Abort("string", 1)
  <2>1. it.kind # "string" /\ 1 \in Nat
    BY <1>1, <1>3, TagDecides
  <2>. HIDE DEF it
  <2>2. Outcome("string", it)
    BY <1>3, <2>1 DEF Outcome
  <2>. QED  BY <2>2 DEF it
<1>4. ASSUME ByteAt(offset, heap) \in {STRING_1, STRING_2}
      PROVE  /\ it.kind = "string" /\ it.kind \notin FixedKinds /\ it.val.len \in Nat
             /\ w = LenWidth(it.val.len)
             /\ InStep(it) => l = it.val.len
  <2>1. it.kind = "string"
    BY <1>1, <1>4, TagDecides
  <2>2. it.kind \notin FixedKinds /\ it.val.len \in Nat
    BY <1>1, <2>1, ItemCases
  <2>3. LenWidth(it.val.len) \in {1, 2}
    BY <2>2 DEF LenWidth
  <2>4. TagOf(it) \in {STRING_1, WSTRING_1} <=> LenWidth(it.val.len) = 1
    BY <1>1, <2>2, TagDecides
  <2>5. w = LenWidth(it.val.len)
    BY <1>1, <1>4, <2>3, <2>4 DEF STRING_1, STRING_2, WSTRING_1
  <2>. HIDE DEF w
  <2>6. InStep(it) => l = it.val.len
    BY <2>2, <2>5, LengthAt
  <2>. QED  BY <2>1, <2>2, <2>5, <2>6
<1>5. CASE /\ ByteAt(offset, heap) \in {STRING_1, STRING_2}
           /\ l < 0 /\ Abort("string", 1 + w)
  <2>1. ~InStep(it) /\ it.kind = "string" /\ 1 + w \in Nat
    BY <1>2, <1>4, <1>5
  <2>. HIDE DEF it, w
  <2>2. Outcome("string", it)
    BY <1>5, <2>1 DEF Outcome
  <2>. QED  BY <2>2 DEF it
<1>6. CASE /\ ByteAt(offset, heap) \in {STRING_1, STRING_2}
           /\ l >= 0 /\ Return(r, 1 + w + l)
  <2>1. /\ it.kind = "string" /\ it.kind \notin FixedKinds /\ it.val.len \in Nat
        /\ w = LenWidth(it.val.len)
        /\ InStep(it) => l = it.val.len
    BY <1>4, <1>6
  <2>. HIDE DEF w, l
  <2>2. l \in Nat /\ 1 + w + l \in Nat \ {0}
    BY <1>2, <1>6
  <2>3. InStep(it) => 1 + w + l = Size(it)
    BY <2>1 DEF Size, CharWidth
  <2>4. s = it.val.nul
    <3>1. \E m \in DOMAIN data : data[m].at = offset /\ data[m].item.kind = "string"
      BY <1>1, <2>1
    <3>2. (CHOOSE m \in DOMAIN data : data[m].at = offset /\ data[m].item.kind = "string") = n
      BY <1>1, <3>1, OneItemThere
    <3>. QED  BY <3>1, <3>2 DEF FirstNul
  <2>5. s \in Nat
    BY <2>2, FirstNulType
  <2>. HIDE DEF s
  <2>6. r \in Item
    BY <2>5, StringItemIntro
  <2>7. Faithful(it) => r = it
    <3>1. it = [kind |-> "string", val |-> [len |-> it.val.len, nul |-> it.val.nul]]
      BY <1>1, <2>1 DEF Item, FixedItem, StringItem, StringValue
    <3>2. Faithful(it) => it.val.nul = it.val.len
      BY <2>1 DEF Faithful
    <3>. QED  BY <2>4, <3>1, <3>2
  <2>. HIDE DEF it, r
  <2>8. Outcome("string", it)
    BY <1>6, <2>1, <2>2, <2>3, <2>6, <2>7 DEF Outcome
  <2>. QED  BY <2>8 DEF it
<1>. QED  BY <1>3, <1>5, <1>6 DEF getString

LEMMA WStringAt ==
    ASSUME IInv, NEW n, AtItem(n), NEW heap \in Byte, getWString(heap)
    PROVE  Outcome("wstring", data[n].item)
<1>. DEFINE it == data[n].item
            w == IF ByteAt(offset, heap) = WSTRING_1 THEN 1 ELSE 2
            l == SignedLength(w, heap)
            nul == FirstNul("wstring", 4, offset + 1 + w, l, heap)
            s(tail) == IF nul < l THEN nul ELSE l + tail
            r(tail) == [kind |-> "wstring", val |-> [len |-> s(tail), nul |-> s(tail)]]
<1>1. it \in Item /\ ByteAt(offset, heap) = TagOf(it) /\ offset \in Nat
  BY TagAt
<1>2. w \in {1, 2} /\ l \in Int
  BY SignedLengthType
<1>3. CASE ByteAt(offset, heap) \notin {WSTRING_1, WSTRING_2} /\ Abort("wstring", 1)
  <2>1. it.kind # "wstring" /\ 1 \in Nat
    BY <1>1, <1>3, TagDecides
  <2>. HIDE DEF it
  <2>2. Outcome("wstring", it)
    BY <1>3, <2>1 DEF Outcome
  <2>. QED  BY <2>2 DEF it
<1>4. ASSUME ByteAt(offset, heap) \in {WSTRING_1, WSTRING_2}
      PROVE  /\ it.kind = "wstring" /\ it.kind \notin FixedKinds /\ it.val.len \in Nat
             /\ w = LenWidth(it.val.len)
             /\ InStep(it) => l = it.val.len
  <2>1. it.kind = "wstring"
    BY <1>1, <1>4, TagDecides
  <2>2. it.kind \notin FixedKinds /\ it.val.len \in Nat
    BY <1>1, <2>1, ItemCases
  <2>3. LenWidth(it.val.len) \in {1, 2}
    BY <2>2 DEF LenWidth
  <2>4. TagOf(it) \in {STRING_1, WSTRING_1} <=> LenWidth(it.val.len) = 1
    BY <1>1, <2>2, TagDecides
  <2>5. w = LenWidth(it.val.len)
    BY <1>1, <1>4, <2>3, <2>4 DEF STRING_1, WSTRING_1, WSTRING_2
  <2>. HIDE DEF w
  <2>6. InStep(it) => l = it.val.len
    BY <2>2, <2>5, LengthAt
  <2>. QED  BY <2>1, <2>2, <2>5, <2>6
<1>5. CASE /\ ByteAt(offset, heap) \in {WSTRING_1, WSTRING_2}
           /\ l < 0 /\ Abort("wstring", 1 + w)
  <2>1. ~InStep(it) /\ it.kind = "wstring" /\ 1 + w \in Nat
    BY <1>2, <1>4, <1>5
  <2>. HIDE DEF it, w
  <2>2. Outcome("wstring", it)
    BY <1>5, <2>1 DEF Outcome
  <2>. QED  BY <2>2 DEF it
<1>6. ASSUME ByteAt(offset, heap) \in {WSTRING_1, WSTRING_2}, l >= 0,
             NEW tail \in Tails, Return(r(tail), 1 + w + 4 * l)
      PROVE  Outcome("wstring", it)
  <2>1. /\ it.kind = "wstring" /\ it.kind \notin FixedKinds /\ it.val.len \in Nat
        /\ w = LenWidth(it.val.len)
        /\ InStep(it) => l = it.val.len
    BY <1>4, <1>6
  <2>. HIDE DEF w, l
  <2>2. l \in Nat /\ 1 + w + 4 * l \in Nat \ {0}
    BY <1>2, <1>6
  <2>3. InStep(it) => 1 + w + 4 * l = Size(it)
    BY <2>1 DEF Size, CharWidth
  <2>4. nul \in Nat /\ tail \in Nat
    BY <2>2, FirstNulType, MessageAssumption
  <2>. HIDE DEF nul
  <2>5. s(tail) \in Nat
    BY <2>2, <2>4
  <2>. HIDE DEF s
  <2>6. r(tail) \in Item
    BY <2>5, StringItemIntro
  <2>7. ~Faithful(it)
    BY <2>1 DEF Faithful
  <2>. HIDE DEF it, r
  <2>. QED  BY <1>6, <2>1, <2>2, <2>3, <2>6, <2>7 DEF Outcome
<1>. QED  BY <1>3, <1>5, <1>6 DEF getWString

\* Any getter at an item.
LEMMA GetterAt ==
    ASSUME IInv, NEW n, AtItem(n), NEW heap \in Byte, NEW k, GetterOf(k, heap)
    PROVE  Outcome(k, data[n].item)
  BY FixedAt, StringAt, WStringAt DEF GetterOf

\* Where there is a zero every getter ends the process.
LEMMA GetterAtZero ==
    ASSUME NEW heap, ByteAt(offset, heap) = 0, NEW k, GetterOf(k, heap)
    PROVE  Abort(k, 1)
<1>1. \A j \in FixedKinds : DATA_TYPE[j] # 0
  BY DEF FixedKinds, DATA_TYPE
<1>2. 0 \notin {STRING_1, STRING_2, WSTRING_1, WSTRING_2}
  BY DEF STRING_1, STRING_2, WSTRING_1, WSTRING_2
<1>. QED
  BY <1>1, <1>2, Zenon DEF GetterOf, GetFixed, getString, getWString

\* Wherever the cursor is, a getter moves it on and returns a value, or ends the
\* process.
LEMMA GetterAny ==
    ASSUME IInv, NEW heap \in Byte, NEW k, GetterOf(k, heap)
    PROVE  \/ \E r, d : d \in Nat \ {0} /\ Return(r, d)
           \/ \E d : d \in Nat \ {0} /\ Abort(k, d)
<1>1. CASE k \in FixedKinds /\ GetFixed(k, heap)
  <2>1. 1 + GetWidth[k] \in Nat \ {0}
    BY <1>1, WidthType
  <2>2. 1 \in Nat \ {0}
    OBVIOUS
  <2>. QED  BY <1>1, <2>1, <2>2, Zenon DEF GetFixed
<1>2. CASE k = "string" /\ getString(heap)
  <2>. DEFINE w == IF ByteAt(offset, heap) = STRING_1 THEN 1 ELSE 2
              l == SignedLength(w, heap)
  <2>1. w \in {1, 2} /\ l \in Int
    BY SignedLengthType
  <2>2. l >= 0 => 1 + w + l \in Nat \ {0}
    <3>. HIDE DEF w, l
    <3>. QED  BY <2>1
  <2>3. 1 \in Nat \ {0} /\ 1 + w \in Nat \ {0}
    BY <2>1
  <2>. QED  BY <1>2, <2>2, <2>3, Zenon DEF getString
<1>3. CASE k = "wstring" /\ getWString(heap)
  <2>. DEFINE w == IF ByteAt(offset, heap) = WSTRING_1 THEN 1 ELSE 2
              l == SignedLength(w, heap)
  <2>1. w \in {1, 2} /\ l \in Int
    BY SignedLengthType
  <2>2. l >= 0 => 1 + w + 4 * l \in Nat \ {0}
    <3>. HIDE DEF w, l
    <3>. QED  BY <2>1
  <2>3. 1 \in Nat \ {0} /\ 1 + w \in Nat \ {0}
    BY <2>1
  <2>. QED  BY <1>3, <2>2, <2>3, Zenon DEF getWString
<1>. QED  BY <1>1, <1>2, <1>3 DEF GetterOf

(***************************************************************************)
(* The calls of a program, and where the cursor stands between them.       *)
(***************************************************************************)
\* The tags that the getter of a kind accepts.
TagsOf(k) ==
    IF k = "string" THEN {STRING_1, STRING_2}
    ELSE IF k = "wstring" THEN {WSTRING_1, WSTRING_2} ELSE {DATA_TYPE[k]}

StorePut(it, surplus) ==
    Idle /\ Store(it, surplus) /\ (surplus # 0 => it.kind = "wstring" /\ it.val.len > 255)

GetCall(k, heap) == Idle /\ offset <= MAX_MSG_DATA /\ GetterOf(k, heap)

\* A turn of the print loop that gets a value ...
PrintGet(k, heap) ==
    /\ printing /\ offset < data_length /\ offset <= MAX_MSG_DATA
    /\ ByteAt(offset, heap) \in TagsOf(k)
    /\ GetterOf(k, heap)

\* ... that finds a time without a date ...
PrintNoDate(heap) ==
    /\ printing /\ offset < data_length /\ offset <= MAX_MSG_DATA
    /\ ByteAt(offset, heap) = DATA_TYPE["time"]
    /\ NoDate([i \in 1..8 |-> ByteAt(offset + i, heap)])
    /\ Abort("gmtime", 9)

\* ... or that finds no item.
PrintNothing(heap) ==
    /\ printing /\ offset < data_length /\ offset <= MAX_MSG_DATA
    /\ ByteAt(offset, heap) \notin 1..28
    /\ printing' = FALSE
    /\ UNCHANGED <<data, data_length, length_field, offset, reads, refused, aborted>>

\* What the put methods do.
LEMMA PutCalls ==
    ASSUME Put
    PROVE  \/ \E it \in Puttable, surplus \in Nat : StorePut(it, surplus)
           \/ \E it \in Puttable : Idle /\ Refuse(it)
<1>1. ASSUME NEW k \in Kinds, NEW v \in Values[k]
      PROVE  [kind |-> k, val |-> v] \in Puttable /\ [kind |-> k, val |-> v] \in Item
  BY MessageAssumption DEF Puttable
<1>2. ASSUME NEW k \in Kinds, NEW v \in Values[k], Idle,
             Store([kind |-> k, val |-> v], 0) \/ Refuse([kind |-> k, val |-> v])
      PROVE  \/ \E it \in Puttable, surplus \in Nat : StorePut(it, surplus)
             \/ \E it \in Puttable : Idle /\ Refuse(it)
  <2>. DEFINE it == [kind |-> k, val |-> v]
  <2>1. it \in Puttable /\ 0 \in Nat
    BY <1>1
  <2>2. Store(it, 0) => StorePut(it, 0)
    BY <1>2 DEF StorePut
  <2>. HIDE DEF it
  <2>. QED  BY <1>2, <2>1, <2>2 DEF it
<1>3. ASSUME NEW k \in FixedKinds, PutFixed(k)
      PROVE  \E v \in Values[k] : Idle /\ (Store([kind |-> k, val |-> v], 0)
                                          \/ Refuse([kind |-> k, val |-> v]))
  BY <1>3 DEF PutFixed
<1>4. CASE putString
  <2>1. PICK v \in Values["string"] : Store([kind |-> "string", val |-> v], 0)
                                      \/ Refuse([kind |-> "string", val |-> v])
    BY <1>4 DEF putString
  <2>2. Idle /\ "string" \in Kinds
    BY <1>4 DEF putString, Kinds
  <2>. QED  BY <1>2, <2>1, <2>2
<1>5. CASE putWString
  <2>1. PICK v \in Values["wstring"] :
               Store([kind |-> "wstring", val |-> v], CountedAgain(v))
               \/ Refuse([kind |-> "wstring", val |-> v])
    BY <1>5 DEF putWString
  <2>. DEFINE it == [kind |-> "wstring", val |-> v]
  <2>2. Idle /\ "wstring" \in Kinds
    BY <1>5 DEF putWString, Kinds
  <2>3. it \in Puttable /\ it \in Item /\ it.kind = "wstring" /\ it.val = v
    BY <1>1, <2>2
  <2>4. v.len \in Nat
    BY <2>3, ItemCases DEF FixedKinds
  <2>5. CountedAgain(v) \in Nat /\ (CountedAgain(v) # 0 => v.len > 255)
    BY <2>4 DEF CountedAgain
  <2>6. Store(it, CountedAgain(v)) => StorePut(it, CountedAgain(v))
    BY <2>2, <2>3, <2>5 DEF StorePut
  <2>. HIDE DEF it
  <2>. QED  BY <2>1, <2>2, <2>3, <2>5, <2>6 DEF it
<1>6. CASE \E k \in FixedKinds : PutFixed(k)
  BY <1>2, <1>3, <1>6 DEF Kinds
<1>. QED
  BY <1>4, <1>5, <1>6 DEF Put, FixedKinds, putBool, putByte, putShort, putInt, putLong,
     putLongLong, putFloat, putDouble, putChar, putWChar, putTime, putDuration

\* What a turn of the print loop does.
LEMMA PrintCalls ==
    ASSUME PrintItem
    PROVE  \E heap \in Byte : \/ \E k \in Kinds : PrintGet(k, heap)
                              \/ PrintNoDate(heap)
                              \/ UNCHANGED vars
                              \/ PrintNothing(heap)
<1>1. printing /\ offset < data_length /\ offset <= MAX_MSG_DATA
  BY DEF PrintItem
<1>2. PICK heap \in HeapBytes :
        \/ \E k \in FixedKinds \ {"time"} : ByteAt(offset, heap) = DATA_TYPE[k] /\ GetFixed(k, heap)
        \/ ByteAt(offset, heap) = DATA_TYPE["time"] /\ PrintTime(heap)
        \/ ByteAt(offset, heap) \in {STRING_1, STRING_2} /\ getString(heap)
        \/ ByteAt(offset, heap) \in {WSTRING_1, WSTRING_2} /\ getWString(heap)
        \/ UNCHANGED vars
        \/ /\ ByteAt(offset, heap) \notin 1..28
           /\ printing' = FALSE
           /\ UNCHANGED <<data, data_length, length_field, offset, reads, refused, aborted>>
  BY Zenon DEF PrintItem
<1>3. heap \in Byte
  BY MessageAssumption
<1>4. \A k \in FixedKinds : TagsOf(k) = {DATA_TYPE[k]} /\ k \in Kinds
  BY DEF TagsOf, FixedKinds, Kinds
<1>5. "time" \in FixedKinds /\ "string" \in Kinds /\ "wstring" \in Kinds
  BY DEF FixedKinds, Kinds
<1>6. ASSUME NEW k \in FixedKinds, ByteAt(offset, heap) = DATA_TYPE[k], GetFixed(k, heap)
      PROVE  PrintGet(k, heap)
  BY <1>1, <1>4, <1>6 DEF PrintGet, GetterOf
<1>7. ASSUME ByteAt(offset, heap) = DATA_TYPE["time"], PrintTime(heap)
      PROVE  PrintGet("time", heap) \/ PrintNoDate(heap)
  BY <1>1, <1>5, <1>6, <1>7, Zenon DEF PrintTime, getTime, PrintNoDate
<1>8. ASSUME ByteAt(offset, heap) \in {STRING_1, STRING_2}, getString(heap)
      PROVE  PrintGet("string", heap)
  BY <1>1, <1>8 DEF PrintGet, GetterOf, TagsOf
<1>9. ASSUME ByteAt(offset, heap) \in {WSTRING_1, WSTRING_2}, getWString(heap)
      PROVE  PrintGet("wstring", heap)
  BY <1>1, <1>9 DEF PrintGet, GetterOf, TagsOf
<1>10. ASSUME /\ ByteAt(offset, heap) \notin 1..28
              /\ printing' = FALSE
              /\ UNCHANGED <<data, data_length, length_field, offset, reads, refused, aborted>>
       PROVE  PrintNothing(heap)
  BY <1>1, <1>10 DEF PrintNothing
<1>. QED
  BY <1>2, <1>3, <1>4, <1>5, <1>6, <1>7, <1>8, <1>9, <1>10, Zenon

\* What the get methods do.
LEMMA GetCalls ==
    ASSUME Get
    PROVE  \E heap \in Byte, k \in Kinds : GetCall(k, heap)
<1>1. Idle /\ offset <= MAX_MSG_DATA
  BY DEF Get
<1>2. PICK heap \in HeapBytes :
         \/ \E k \in FixedKinds : GetFixed(k, heap)
         \/ getString(heap) \/ getWString(heap)
  BY Zenon DEF Get, FixedKinds, getBool, getByte, getShort, getInt, getLong, getLongLong,
     getFloat, getDouble, getChar, getWChar, getTime, getDuration
<1>3. heap \in Byte
  BY MessageAssumption
<1>4. \E k \in Kinds : GetterOf(k, heap)
  BY <1>2, Zenon DEF GetterOf, Kinds
<1>. QED  BY <1>1, <1>3, <1>4 DEF GetCall

\* Every step.
LEMMA Calls ==
    ASSUME [Next]_vars
    PROVE  \/ \E it \in Puttable, surplus \in Nat : StorePut(it, surplus)
           \/ \E it \in Puttable : Idle /\ Refuse(it)
           \/ readMessageLength
           \/ \E heap \in Byte, k \in Kinds : GetCall(k, heap)
           \/ debugMessagePrint
           \/ \E heap \in Byte, k \in Kinds : PrintGet(k, heap)
           \/ \E heap \in Byte : PrintNoDate(heap)
           \/ \E heap \in Byte : PrintNothing(heap)
           \/ PrintDone
           \/ UNCHANGED vars
  BY PutCalls, PrintCalls, GetCalls, Zenon DEF Next

\* The item after one that is stepped over exactly follows it at once, and so will the
\* next one to be put.
Chain ==
    /\ \A n \in 1..(Len(data) - 1) :
          InStep(data[n].item) => data[n + 1].at = data[n].at + Size(data[n].item)
    /\ (data # <<>> => InStep(data[Len(data)].item)) => data_length = DataEnd

\* The cursor stands between two items, or was led astray by one that is not stepped
\* over exactly, or left a full buffer.
Between == Len(reads) <= Len(data) /\ offset = StartOf(Len(reads) + 1)
Astray == \E m \in DOMAIN data : m <= Len(reads) /\ ~InStep(data[m].item)
Overread == DataEnd = MAX_MSG_DATA /\ Len(data) < Len(reads) /\ offset > MAX_MSG_DATA
Cursor == aborted = {} => Between \/ Astray \/ Overread

Dead == aborted # {} => ~printing

\* The strengthening of what is to be proved of the reader.
RInv == Chain /\ Cursor /\ Dead /\ RoundTrip /\ NoSpuriousAbort

\* Both sequences are sequences.
LEMMA Counts ==
    ASSUME IInv
    PROVE  /\ Len(data) \in Nat /\ DOMAIN data = 1..Len(data)
           /\ Len(reads) \in Nat /\ DOMAIN reads = 1..Len(reads)
           /\ data = <<>> <=> Len(data) = 0
           /\ MAX_MSG_DATA \in Nat /\ DataEnd \in Nat /\ DataEnd <= MAX_MSG_DATA
           /\ data_length \in Nat /\ DataEnd <= data_length /\ offset \in Nat
  BY LenProperties, EmptySeq, DataEndType, MessageAssumption DEF IInv, TypeOK, InBounds

\* The cursor of a living process is at the next item, at the end, astray or outside.
LEMMA CursorAt ==
    ASSUME IInv, RInv, aborted = {}
    PROVE  \/ Len(reads) < Len(data) /\ AtItem(Len(reads) + 1)
           \/ Len(reads) = Len(data) /\ offset = DataEnd /\ data_length = DataEnd
           \/ Astray
           \/ Overread
<1>0. Len(data) \in Nat /\ Len(reads) \in Nat /\ DOMAIN data = 1..Len(data)
  BY Counts
<1>1. CASE Between /\ Len(reads) < Len(data)
  <2>1. Len(reads) + 1 \in DOMAIN data /\ Len(reads) + 1 <= Len(data)
    BY <1>0, <1>1
  <2>2. offset = data[Len(reads) + 1].at
    BY <1>1, <2>1 DEF Between, StartOf
  <2>. QED  BY <1>1, <2>1, <2>2 DEF AtItem
<1>2. CASE Between /\ Len(reads) = Len(data)
  <2>1. offset = data_length
    BY <1>2, Counts DEF Between, StartOf
  <2>2. CASE data # <<>> => InStep(data[Len(data)].item)
    BY <1>2, <2>1, <2>2 DEF RInv, Chain
  <2>3. CASE data # <<>> /\ ~InStep(data[Len(data)].item)
    <3>1. Len(data) \in DOMAIN data /\ Len(data) <= Len(reads)
      BY <1>2, <2>3, Counts
    <3>. QED  BY <2>3, <3>1 DEF Astray
  <2>. QED  BY <2>2, <2>3
<1>3. Between => Len(reads) < Len(data) \/ Len(reads) = Len(data)
  BY <1>0 DEF Between
<1>. QED  BY <1>1, <1>2, <1>3 DEF RInv, Cursor

(***************************************************************************)
(* What the steps keep.                                                    *)
(***************************************************************************)
\* Nothing of what the reader stands on moves.
LEMMA SameReader ==
    ASSUME RInv, UNCHANGED <<data, data_length, offset, reads, aborted>>,
           aborted # {} => ~printing'
    PROVE  RInv'
<1>1. Chain'
  BY DEF RInv, Chain, DataEnd
<1>2. Cursor' /\ Dead'
  BY DEF RInv, Cursor, Dead, Between, StartOf, Astray, Overread, DataEnd
<1>3. RoundTrip' /\ NoSpuriousAbort'
  BY DEF RInv, RoundTrip, NoSpuriousAbort, AllInStep, OnlyMisuseAborts
<1>. QED  BY <1>1, <1>2, <1>3 DEF RInv

\* A put moves the end on, and the item begins where the one before it ended.
LEMMA PutReader ==
    ASSUME IInv, RInv, NEW it \in Item, NEW surplus \in Nat, StorePut(it, surplus)
    PROVE  RInv'
<1>. DEFINE w == [at |-> data_length, item |-> it]
            N == Len(data)
            R == Len(reads)
<1>1. /\ N \in Nat /\ DOMAIN data = 1..N /\ R \in Nat /\ DOMAIN reads = 1..R
      /\ MAX_MSG_DATA \in Nat /\ DataEnd \in Nat
      /\ data_length \in Nat /\ DataEnd <= data_length
  BY Counts
<1>2. /\ DOMAIN data' = 1..(N + 1) /\ Len(data') = N + 1
      /\ \A n \in 1..N : data'[n] = data[n]
      /\ data'[N + 1] = w
  <2>1. data \in Seq([at : Nat, item : Item]) /\ w \in [at : Nat, item : Item]
    BY <1>1 DEF IInv, TypeOK
  <2>2. data' = Append(data, w)
    BY DEF StorePut, Store
  <2>. QED  BY <2>1, <2>2, AppendProperties, LenProperties
<1>3. /\ data_length + Size(it) <= MAX_MSG_DATA
      /\ data_length' = data_length + Size(it) + surplus
      /\ UNCHANGED <<offset, reads, aborted, printing>>
      /\ aborted = {}
      /\ surplus # 0 => it.kind = "wstring" /\ it.val.len > 255
  BY DEF StorePut, Store, updateDataLength, Idle
<1>4. Size(it) \in Nat /\ Size(it) >= 2
  BY SizeType
<1>. HIDE DEF N, R
<1>5. DataEnd' = data_length + Size(it)
  <2>1. data' # <<>> /\ DataEnd' = data'[Len(data')].at + Size(data'[Len(data')].item)
    <3>1. 1 \in DOMAIN data'
      BY <1>1, <1>2
    <3>. QED  BY <3>1 DEF DataEnd
  <2>2. data'[Len(data')].at = data_length /\ data'[Len(data')].item = it
    BY <1>2
  <2>. QED  BY <2>1, <2>2
<1>6. ~Overread
  BY <1>1, <1>3, <1>4 DEF Overread
<1>7. Astray => Astray'
  <2>1. ASSUME NEW m \in DOMAIN data, m <= Len(reads), ~InStep(data[m].item)
        PROVE  Astray'
    <3>1. m \in DOMAIN data' /\ data'[m] = data[m]
      BY <1>1, <1>2
    <3>. QED  BY <1>3, <2>1, <3>1 DEF Astray
  <2>. QED  BY <2>1 DEF Astray
<1>8. Between => Between'
  <2>. SUFFICES ASSUME Between
                PROVE  Between'
    OBVIOUS
  <2>1. R <= N /\ offset = StartOf(R + 1)
    BY DEF Between, R, N
  <2>2. CASE R < N
    <3>1. R + 1 \in 1..N /\ R + 1 <= N /\ R + 1 <= N + 1 /\ R <= N + 1
      BY <1>1, <2>2
    <3>2. offset = data[R + 1].at
      BY <2>1, <3>1 DEF StartOf, N
    <3>. QED  BY <1>2, <1>3, <3>1, <3>2 DEF Between, StartOf, R
  <2>3. CASE R = N
    <3>1. offset = data_length
      BY <1>1, <2>1, <2>3 DEF StartOf, N
    <3>2. R + 1 <= N + 1 /\ R <= N + 1
      BY <1>1, <2>3
    <3>3. data'[R + 1].at = data_length
      BY <1>2, <2>3
    <3>. QED  BY <1>2, <1>3, <3>1, <3>2, <3>3 DEF Between, StartOf, R
  <2>. QED  BY <1>1, <2>1, <2>2, <2>3
<1>9. Cursor' /\ Dead'
  BY <1>3, <1>6, <1>7, <1>8 DEF RInv, Cursor, Dead, Idle, StorePut
<1>10. Chain'
  <2>1. ASSUME NEW n \in 1..N, InStep(data'[n].item)
        PROVE  data'[n + 1].at = data'[n].at + Size(data'[n].item)
    <3>1. data'[n] = data[n]
      BY <1>2
    <3>2. CASE n < N
      <4>1. n + 1 \in 1..N /\ n \in 1..(N - 1)
        BY <1>1, <3>2
      <4>2. data'[n + 1] = data[n + 1]
        BY <1>2, <4>1
      <4>. QED  BY <2>1, <3>1, <4>1, <4>2 DEF RInv, Chain, N
    <3>3. CASE n = N
      <4>1. data # <<>>
        BY <1>1, <3>3
      <4>2. DataEnd = data[n].at + Size(data[n].item)
        BY <3>3, <4>1 DEF DataEnd, N
      <4>3. data_length = DataEnd
        BY <2>1, <3>1, <3>3 DEF RInv, Chain, N
      <4>. QED  BY <1>2, <3>1, <3>3, <4>2, <4>3
    <3>. QED  BY <1>1, <3>2, <3>3
  <2>2. InStep(it) => data_length' = DataEnd'
    <3>1. it.kind = "wstring" => it.val.len \in Nat
      BY ItemCases DEF FixedKinds
    <3>2. InStep(it) => surplus = 0
      BY <1>3, <3>1 DEF InStep
    <3>. QED  BY <1>1, <1>3, <1>4, <1>5, <3>2
  <2>3. data' # <<>> /\ data'[Len(data')].item = it /\ 1..(Len(data') - 1) = 1..N
    <3>1. 1 \in DOMAIN data'
      BY <1>1, <1>2
    <3>2. (N + 1) - 1 = N
      BY <1>1
    <3>. QED  BY <1>2, <3>1, <3>2
  <2>. QED  BY <2>1, <2>2, <2>3 DEF Chain
<1>11. NoSpuriousAbort'
  BY <1>3 DEF NoSpuriousAbort, OnlyMisuseAborts
<1>12. RoundTrip'
  <2>. SUFFICES ASSUME NEW n \in DOMAIN reads', n \in DOMAIN data',
                       \A m \in 1..n : InStep(data'[m].item), Faithful(data'[n].item)
                PROVE  reads'[n] = data'[n].item
    BY DEF RoundTrip
  <2>1. n \in 1..R /\ n \in 1..(N + 1)
    BY <1>1, <1>2, <1>3
  <2>2. CASE n \in 1..N
    <3>1. data'[n] = data[n] /\ \A m \in 1..n : data'[m] = data[m]
      BY <1>1, <1>2, <2>2
    <3>. QED  BY <1>1, <1>3, <2>2, <3>1 DEF RInv, RoundTrip
  <2>3. CASE n = N + 1
    <3>1. ~(R <= N)
      BY <1>1, <2>1, <2>3
    <3>2. Astray
      BY <1>3, <1>6, <3>1 DEF RInv, Cursor, Between, R, N
    <3>3. PICK m \in DOMAIN data : ~InStep(data[m].item)
      BY <3>2 DEF Astray
    <3>4. m \in 1..n /\ data'[m] = data[m]
      BY <1>1, <1>2, <2>3
    <3>. QED  BY <3>3, <3>4
  <2>. QED  BY <1>1, <2>1, <2>2, <2>3
<1>. QED  BY <1>9, <1>10, <1>11, <1>12 DEF RInv

\* Rereading the length changes it only behind an item that was counted twice.
LEMMA RereadReader ==
    ASSUME IInv, RInv, readMessageLength
    PROVE  RInv'
<1>1. /\ data_length' = DataEnd /\ DataEnd' = DataEnd
      /\ UNCHANGED <<data, offset, reads, aborted, printing>> /\ aborted = {}
  BY DEF readMessageLength, IInv, LengthIsEnd, DataEnd, Idle
<1>2. Chain'
  BY <1>1 DEF RInv, Chain
<1>3. Cursor'
  <2>1. Astray => Astray'
    BY <1>1 DEF Astray
  <2>2. Overread => Overread'
    BY <1>1 DEF Overread
  <2>3. CASE Len(reads) < Len(data) /\ AtItem(Len(reads) + 1)
    <3>1. Len(reads) + 1 <= Len(data) /\ Len(reads) <= Len(data)
      BY <2>3, Counts
    <3>. QED  BY <1>1, <2>3, <3>1 DEF Cursor, Between, StartOf, AtItem
  <2>4. CASE Len(reads) = Len(data) /\ offset = DataEnd
    <3>1. ~(Len(reads) + 1 <= Len(data)) /\ Len(reads) <= Len(data)
      BY <2>4, Counts
    <3>. QED  BY <1>1, <2>4, <3>1 DEF Cursor, Between, StartOf
  <2>. QED  BY <1>1, <2>1, <2>2, <2>3, <2>4, CursorAt DEF Cursor
<1>4. Dead' /\ RoundTrip' /\ NoSpuriousAbort'
  BY <1>1 DEF RInv, Dead, RoundTrip, NoSpuriousAbort, AllInStep, OnlyMisuseAborts
<1>. QED  BY <1>2, <1>3, <1>4 DEF RInv

\* Appending to what was read leaves the values read before.
LEMMA ReadsGrow ==
    ASSUME IInv, NEW r, reads' = Append(reads, r)
    PROVE  /\ Len(reads') = Len(reads) + 1 /\ DOMAIN reads' = 1..(Len(reads) + 1)
           /\ \A n \in 1..Len(reads) : reads'[n] = reads[n]
           /\ reads'[Len(reads) + 1] = r
<1>1. reads \in Seq(Item \cup {r})
  BY DEF IInv, TypeOK
<1>. QED  BY <1>1, AppendProperties, LenProperties

\* At an item that is stepped over exactly the getter passes it and returns its value ...
Passes(r, d) ==
    Len(reads) < Len(data) /\ AtItem(Len(reads) + 1) =>
        /\ InStep(data[Len(reads) + 1].item) => d = Size(data[Len(reads) + 1].item)
        /\ Faithful(data[Len(reads) + 1].item) => r = data[Len(reads) + 1].item

\* ... and behind the last item it returns only where the buffer ends.
ReturnsAtFull == Len(reads) = Len(data) /\ offset = DataEnd => DataEnd = MAX_MSG_DATA

\* A getter that returns goes from one item to the next, unless the item is not one
\* that is stepped over exactly or the buffer is full and read to its end.
LEMMA ReturnReader ==
    ASSUME IInv, RInv, aborted = {}, offset <= MAX_MSG_DATA,
           NEW r, NEW d \in Nat \ {0}, Return(r, d), Passes(r, d), ReturnsAtFull
    PROVE  RInv'
<1>. DEFINE N == Len(data)
            R == Len(reads)
<1>1. /\ N \in Nat /\ DOMAIN data = 1..N /\ R \in Nat /\ DOMAIN reads = 1..R
      /\ MAX_MSG_DATA \in Nat /\ DataEnd \in Nat /\ offset \in Nat
      /\ DataEnd <= MAX_MSG_DATA
  BY Counts
<1>2. /\ offset' = offset + d /\ reads' = Append(reads, r)
      /\ UNCHANGED <<data, data_length, length_field, aborted, printing>>
  BY DEF Return
<1>3. /\ Len(reads') = R + 1 /\ DOMAIN reads' = 1..(R + 1)
      /\ \A n \in 1..R : reads'[n] = reads[n]
      /\ reads'[R + 1] = r
  BY <1>2, ReadsGrow
<1>. HIDE DEF N, R
<1>4. ~Overread
  BY <1>1 DEF Overread
<1>5. Astray => Astray'
  <2>. SUFFICES ASSUME NEW m \in DOMAIN data, m <= Len(reads), ~InStep(data[m].item)
                PROVE  Astray'
    BY DEF Astray
  <2>1. m <= Len(reads')
    BY <1>1, <1>3 DEF R
  <2>. QED  BY <1>2, <2>1 DEF Astray
<1>6. ASSUME Len(reads) < Len(data), AtItem(Len(reads) + 1)
      PROVE  Cursor'
  <2>. DEFINE it == data[R + 1].item
  <2>1. R + 1 \in DOMAIN data /\ offset = data[R + 1].at /\ R < N
    BY <1>6 DEF AtItem, R, N
  <2>2. CASE ~InStep(it)
    <3>1. R + 1 <= Len(reads')
      BY <1>1, <1>3
    <3>2. Astray'
      BY <1>2, <2>1, <2>2, <3>1 DEF Astray
    <3>. QED  BY <3>2 DEF Cursor
  <2>3. CASE InStep(it)
    <3>1. offset' = data[R + 1].at + Size(it)
      BY <1>2, <1>6, <2>1, <2>3 DEF Passes, R
    <3>2. R + 1 <= N
      BY <1>1, <2>1
    <3>3. CASE R + 1 < N
      <4>1. R + 1 \in 1..(N - 1) /\ R + 2 <= N
        BY <1>1, <3>3
      <4>2. data[(R + 1) + 1].at = data[R + 1].at + Size(it)
        BY <2>3, <4>1 DEF RInv, Chain, N
      <4>3. (R + 1) + 1 = R + 2 /\ (R + 1) + 1 <= N
        BY <1>1, <4>1
      <4>. QED
        BY <1>2, <1>3, <3>1, <3>2, <4>2, <4>3 DEF Cursor, Between, StartOf, N
    <3>4. CASE R + 1 = N
      <4>1. data # <<>>
        BY <1>1, <3>4 DEF N
      <4>2. DataEnd = data[R + 1].at + Size(it)
        BY <3>4, <4>1 DEF DataEnd, N
      <4>3. data_length = DataEnd
        BY <2>3, <3>4 DEF RInv, Chain, N
      <4>4. ~((R + 1) + 1 <= N)
        BY <1>1, <3>4
      <4>. QED
        BY <1>2, <1>3, <3>1, <3>2, <4>2, <4>3, <4>4 DEF Cursor, Between, StartOf, N
    <3>. QED  BY <1>1, <3>2, <3>3, <3>4
  <2>. QED  BY <2>2, <2>3
<1>7. ASSUME Len(reads) = Len(data), offset = DataEnd
      PROVE  Cursor'
  <2>1. DataEnd = MAX_MSG_DATA
    BY <1>7 DEF ReturnsAtFull
  <2>2. DataEnd' = DataEnd
    BY <1>2 DEF DataEnd
  <2>3. Overread'
    BY <1>1, <1>2, <1>3, <1>7, <2>1, <2>2 DEF Overread, N, R
  <2>. QED  BY <2>3 DEF Cursor
<1>8. Cursor'
  BY <1>4, <1>5, <1>6, <1>7, CursorAt DEF Cursor
<1>9. Chain' /\ Dead'
  BY <1>2 DEF RInv, Chain, Dead, DataEnd
<1>10. NoSpuriousAbort'
  BY <1>2 DEF NoSpuriousAbort, OnlyMisuseAborts
<1>11. RoundTrip'
  <2>. SUFFICES ASSUME NEW n \in DOMAIN reads', n \in DOMAIN data',
                       \A m \in 1..n : InStep(data'[m].item), Faithful(data'[n].item)
                PROVE  reads'[n] = data'[n].item
    BY DEF RoundTrip
  <2>1. n \in 1..(R + 1) /\ n \in 1..N
    BY <1>1, <1>2, <1>3
  <2>2. CASE n \in 1..R
    BY <1>1, <1>2, <1>3, <2>1, <2>2 DEF RInv, RoundTrip
  <2>3. CASE n = R + 1
    <3>1. R < N
      BY <1>1, <2>1, <2>3
    <3>2. ~Astray
      <4>1. ASSUME NEW m \in DOMAIN data, m <= R, ~InStep(data[m].item)
            PROVE  FALSE
        <5>1. m \in 1..n
          BY <1>1, <2>3, <4>1
        <5>. QED  BY <1>2, <4>1, <5>1
      <4>. QED  BY <4>1 DEF Astray, R
    <3>3. AtItem(R + 1)
      <4>1. ~(R = N)
        BY <1>1, <3>1
      <4>. QED  BY <1>4, <3>2, <4>1, CursorAt DEF N, R
    <3>4. r = data[R + 1].item
      BY <1>2, <2>3, <3>1, <3>3 DEF N, R, Passes
    <3>. QED  BY <1>2, <1>3, <2>3, <3>4
  <2>. QED  BY <1>1, <2>1, <2>2, <2>3
<1>. QED  BY <1>8, <1>9, <1>10, <1>11 DEF RInv

\* The process ends; nothing is read any more.
LEMMA AbortReader ==
    ASSUME IInv, RInv, aborted = {}, NEW k, NEW d, Abort(k, d),
           Len(reads) < Len(data) /\ AtItem(Len(reads) + 1) /\ AllInStep =>
              data[Len(reads) + 1].item.kind # k \/ k = "gmtime",
           offset <= MAX_MSG_DATA
    PROVE  RInv'
<1>1. /\ aborted' = {k} /\ printing' = FALSE
      /\ UNCHANGED <<data, data_length, length_field, reads>>
  BY DEF Abort
<1>2. Chain' /\ RoundTrip'
  BY <1>1 DEF RInv, Chain, RoundTrip, DataEnd
<1>3. Cursor' /\ Dead'
  BY <1>1 DEF Cursor, Dead
<1>4. NoSpuriousAbort'
  <2>. SUFFICES ASSUME AllInStep, Len(reads) < Len(data)
                PROVE  data[Len(reads) + 1].item.kind \notin {k}
    <3>1. AllInStep' <=> AllInStep
      BY <1>1 DEF AllInStep
    <3>2. Len(reads) >= Len(data) \/ Len(reads) < Len(data)
      BY Counts
    <3>. QED  BY <1>1, <3>1, <3>2 DEF NoSpuriousAbort, OnlyMisuseAborts
  <2>1. Len(data) \in Nat /\ Len(reads) \in Nat /\ DOMAIN data = 1..Len(data)
    BY Counts
  <2>2. ~Astray
    BY DEF Astray, AllInStep
  <2>3. ~Overread
    BY <2>1 DEF Overread
  <2>4. AtItem(Len(reads) + 1)
    BY <2>1, <2>2, <2>3, CursorAt
  <2>5. data[Len(reads) + 1].item.kind # "gmtime"
    <3>1. data[Len(reads) + 1].item \in Item
      BY <2>4, DataType DEF AtItem, IInv
    <3>. QED  BY <3>1, ItemCases DEF FixedKinds
  <2>. QED  BY <2>4, <2>5
<1>. QED  BY <1>2, <1>3, <1>4 DEF RInv

\* Any getter, called or from the print loop.
LEMMA GetterReader ==
    ASSUME IInv, RInv, aborted = {}, offset <= MAX_MSG_DATA,
           NEW heap \in Byte, NEW k \in Kinds, GetterOf(k, heap)
    PROVE  RInv'
<1>1. ASSUME NEW n, AtItem(n)
      PROVE  Outcome(k, data[n].item)
  BY <1>1, GetterAt
<1>2. offset \in Nat /\ DataEnd \in Nat /\ MAX_MSG_DATA \in Nat /\ DataEnd <= MAX_MSG_DATA
  BY Counts
<1>3. offset = DataEnd => DataEnd = MAX_MSG_DATA \/ Abort(k, 1)
  <2>1. offset = DataEnd /\ DataEnd # MAX_MSG_DATA => ByteAt(offset, heap) = 0
    BY <1>2, ZeroBehind
  <2>. QED  BY <2>1, GetterAtZero
<1>4. CASE \E r, d : d \in Nat \ {0} /\ Return(r, d)
  <2>1. ~\E e : Abort(k, e)
    BY <1>4 DEF Return, Abort
  <2>2. CASE Len(reads) < Len(data) /\ AtItem(Len(reads) + 1)
    <3>. DEFINE it == data[Len(reads) + 1].item
    <3>1. PICK r \in Item, d \in Nat \ {0} :
             /\ Return(r, d)
             /\ InStep(it) => d = Size(it)
             /\ Faithful(it) => r = it
      <4>1. Outcome(k, it)
        BY <1>1, <2>2
      <4>. HIDE DEF it
      <4>. QED  BY <2>1, <4>1, Zenon DEF Outcome
    <3>2. ~(Len(reads) = Len(data))
      <4>1. Len(reads) \in Nat /\ Len(data) \in Nat
        BY Counts
      <4>. QED  BY <2>2, <4>1
    <3>3. Passes(r, d) /\ ReturnsAtFull
      BY <3>1, <3>2 DEF Passes, ReturnsAtFull
    <3>. QED  BY <3>1, <3>3, ReturnReader
  <2>3. CASE ~(Len(reads) < Len(data) /\ AtItem(Len(reads) + 1))
    <3>1. PICK r, d : d \in Nat \ {0} /\ Return(r, d)
      BY <1>4
    <3>2. Passes(r, d)
      BY <2>3 DEF Passes
    <3>3. ReturnsAtFull
      BY <1>3, <2>1 DEF ReturnsAtFull
    <3>. QED  BY <3>1, <3>2, <3>3, ReturnReader
  <2>. QED  BY <2>2, <2>3
<1>5. CASE \E d : d \in Nat \ {0} /\ Abort(k, d)
  <2>1. PICK d : Abort(k, d)
    BY <1>5
  <2>2. ASSUME AtItem(Len(reads) + 1), AllInStep
        PROVE  data[Len(reads) + 1].item.kind # k
    <3>. DEFINE it == data[Len(reads) + 1].item
    <3>1. InStep(it) /\ Outcome(k, it)
      BY <1>1, <2>2 DEF AtItem, AllInStep
    <3>2. ~\E r, e : Return(r, e)
      BY <1>5 DEF Return, Abort
    <3>. HIDE DEF it
    <3>3. it.kind # k
      BY <3>1, <3>2 DEF Outcome
    <3>. QED  BY <3>3 DEF it
  <2>. QED  BY <2>1, <2>2, AbortReader
<1>. QED  BY <1>4, <1>5, GetterAny

\* Every argument of a put method makes an item.
LEMMA PuttableItem == Puttable \subseteq Item
  BY MessageAssumption DEF Puttable

\* A turn of the print loop that gets a value gets it from an item, or leaves a full
\* buffer, or reads on astray.
LEMMA PrintPlace ==
    ASSUME IInv, RInv, aborted = {}, offset < data_length, offset <= MAX_MSG_DATA, ~Astray
    PROVE  Len(reads) < Len(data) /\ AtItem(Len(reads) + 1)
<1>1. offset \in Nat /\ MAX_MSG_DATA \in Nat /\ data_length \in Nat
  BY Counts
<1>2. ~Overread
  BY <1>1 DEF Overread
<1>3. ~(offset = DataEnd /\ data_length = DataEnd)
  BY <1>1
<1>. QED  BY <1>2, <1>3, CursorAt

\* A new message.
LEMMA InitReader == Init => RInv
<1>. SUFFICES ASSUME Init
              PROVE  RInv
  OBVIOUS
<1>1. data = <<>> /\ reads = <<>> /\ aborted = {} /\ printing = FALSE
      /\ offset = HEADER_SIZE /\ data_length = HEADER_SIZE
  BY DEF Init
<1>2. Len(data) = 0 /\ Len(reads) = 0 /\ DOMAIN reads = {}
  BY <1>1
<1>3. Chain
  <2>1. 1..(Len(data) - 1) = {}
    BY <1>2
  <2>. QED  BY <1>1, <2>1 DEF Chain, DataEnd
<1>4. Cursor
  <2>1. ~(Len(reads) + 1 <= Len(data))
    BY <1>2
  <2>. QED  BY <1>1, <1>2, <2>1 DEF Cursor, Between, StartOf
<1>5. Dead /\ NoSpuriousAbort /\ RoundTrip
  BY <1>1, <1>2 DEF Dead, NoSpuriousAbort, OnlyMisuseAborts, RoundTrip
<1>. QED  BY <1>3, <1>4, <1>5 DEF RInv

\* Every step.
LEMMA NextReader == IInv /\ RInv /\ [Next]_vars => RInv'
<1>. SUFFICES ASSUME IInv, RInv, [Next]_vars
              PROVE  RInv'
  OBVIOUS
<1>0. printing => aborted = {}
  BY DEF RInv, Dead
<1>1. ASSUME NEW it \in Puttable, NEW surplus \in Nat, StorePut(it, surplus)
      PROVE  RInv'
  BY <1>1, PuttableItem, PutReader
<1>2. ASSUME NEW it \in Puttable, Idle, Refuse(it)
      PROVE  RInv'
  BY <1>2, SameReader DEF Refuse, Idle
<1>3. ASSUME NEW heap \in Byte, NEW k \in Kinds, GetCall(k, heap)
      PROVE  RInv'
  BY <1>3, GetterReader DEF GetCall, Idle
<1>4. ASSUME debugMessagePrint
      PROVE  RInv'
  BY <1>4, SameReader DEF debugMessagePrint, Idle
<1>5. ASSUME NEW heap \in Byte, NEW k \in Kinds, PrintGet(k, heap)
      PROVE  RInv'
  BY <1>0, <1>5, GetterReader DEF PrintGet
<1>6. ASSUME NEW heap \in Byte, PrintNoDate(heap)
      PROVE  RInv'
  BY <1>0, <1>6, AbortReader DEF PrintNoDate
<1>7. ASSUME NEW heap \in Byte, PrintNothing(heap)
      PROVE  RInv'
  BY <1>7, SameReader DEF PrintNothing
<1>8. ASSUME PrintDone
      PROVE  RInv'
  BY <1>8, SameReader DEF PrintDone
<1>9. ASSUME UNCHANGED vars
      PROVE  RInv'
  BY <1>9, SameReader DEF vars, RInv, Dead
<1>. QED
  BY <1>1, <1>2, <1>3, <1>4, <1>5, <1>6, <1>7, <1>8, <1>9, RereadReader, Calls

(***************************************************************************)
(* The theorems about the reader.                                          *)
(***************************************************************************)
\* The invariants of the layout and of the reader hold in every reachable state.
THEOREM Reading == Spec => [](IInv /\ RInv)
<1>1. Init => IInv /\ RInv
  BY InitLayout, InitReader
<1>2. (IInv /\ RInv) /\ [Next]_vars => (IInv /\ RInv)'
  BY NextLayout, NextReader
<1>. QED  BY <1>1, <1>2, PTL DEF Spec

\* While every item is one its getter steps over exactly, the cursor of a living
\* process stands between two items, after as many items as were returned.
THEOREM CursorSynchronised == Spec => []Synchronised
<1>1. IInv /\ RInv => Synchronised
  <2>. SUFFICES ASSUME IInv, RInv, AllInStep, aborted = {}, data_length < MAX_MSG_DATA
                PROVE  Between
    BY DEF Synchronised, Between
  <2>1. ~Astray
    BY DEF Astray, AllInStep
  <2>2. ~Overread
    <3>1. DataEnd \in Nat /\ MAX_MSG_DATA \in Nat /\ data_length \in Nat /\ DataEnd <= data_length
      BY Counts
    <3>. QED  BY <3>1 DEF Overread
  <2>. QED  BY <2>1, <2>2 DEF RInv, Cursor
<1>. QED  BY <1>1, Reading, PTL

\* The n-th value returned is the n-th value put, when that is one the format carries
\* faithfully and every item before it was stepped over exactly.
THEOREM ValuesComeBack == Spec => []RoundTrip
<1>1. IInv /\ RInv => RoundTrip
  BY DEF RInv
<1>. QED  BY <1>1, Reading, PTL

\* Nobody but a caller who asks for the wrong type, or for more items than there are,
\* is stopped by an assertion, when every item is stepped over exactly.
THEOREM OnlyMisuseEnds == Spec => []NoSpuriousAbort
<1>1. IInv /\ RInv => NoSpuriousAbort
  BY DEF RInv
<1>. QED  BY <1>1, Reading, PTL

\* debugMessagePrint ends only after every item was printed, in a message of items
\* that are stepped over exactly and times that have a date.
THEOREM PrintsEverything == Spec => PrintReadsAll
<1>. DEFINE Dated == \A n \in DOMAIN data : data[n].item.kind = "time" => ~NoDate(data[n].item.val)
            Printed == printing /\ ~printing' /\ AllInStep /\ Dated
                          => aborted' = {} /\ Len(reads') >= Len(data)
<1>1. IInv /\ RInv /\ [Next]_vars => Printed
  <2>. SUFFICES ASSUME IInv, RInv, [Next]_vars, printing, ~printing', AllInStep, Dated
                PROVE  aborted' = {} /\ Len(reads') >= Len(data)
    OBVIOUS
  <2>. HIDE DEF Dated
  <2>0. aborted = {} /\ ~Astray
    BY DEF RInv, Dead, Astray, AllInStep
  <2>1. /\ offset \in Nat /\ MAX_MSG_DATA \in Nat /\ data_length \in Nat
        /\ Len(reads) \in Nat /\ Len(data) \in Nat
    BY Counts
  <2>2. ASSUME NEW heap \in Byte, NEW k \in Kinds, PrintGet(k, heap)
        PROVE  FALSE
    <3>. DEFINE it == data[Len(reads) + 1].item
    <3>1. AtItem(Len(reads) + 1)
      BY <2>0, <2>2, PrintPlace DEF PrintGet
    <3>2. it \in Item /\ TagOf(it) \in TagsOf(k)
      BY <2>2, <3>1, TagAt DEF PrintGet
    <3>3. InStep(it) /\ Outcome(k, it)
      BY <2>2, <3>1, GetterAt DEF AtItem, AllInStep, PrintGet
    <3>. HIDE DEF it
    <3>4. it.kind = k
      BY <3>2, TagDecides DEF TagsOf, Kinds
    <3>5. ~\E d : Abort(k, d)
      BY <3>3, <3>4 DEF Outcome, Return, Abort
    <3>6. \E r, d : Return(r, d)
      BY <3>3, <3>5, Zenon DEF Outcome
    <3>. QED  BY <3>6 DEF Return
  <2>3. ASSUME NEW heap \in Byte, PrintNoDate(heap)
        PROVE  FALSE
    <3>. DEFINE it == data[Len(reads) + 1].item
    <3>1. AtItem(Len(reads) + 1)
      BY <2>0, <2>3, PrintPlace DEF PrintNoDate
    <3>2. it.kind = "time"
      <4>1. it \in Item /\ TagOf(it) = DATA_TYPE["time"]
        BY <2>3, <3>1, TagAt DEF PrintNoDate
      <4>. HIDE DEF it
      <4>. QED  BY <4>1, TagDecides DEF FixedKinds
    <3>3. [i \in 1..PutWidth[it.kind] |-> ByteAt(offset + i, heap)] = it.val
      BY <3>1, <3>2, FixedBytes DEF FixedKinds
    <3>4. [i \in 1..8 |-> ByteAt(offset + i, heap)] = it.val
      BY <3>2, <3>3 DEF PutWidth
    <3>. QED  BY <2>3, <3>1, <3>2, <3>4 DEF PrintNoDate, Dated, AtItem
  <2>4. ASSUME NEW heap \in Byte, PrintNothing(heap)
        PROVE  FALSE
    <3>. DEFINE it == data[Len(reads) + 1].item
    <3>1. AtItem(Len(reads) + 1)
      BY <2>0, <2>4, PrintPlace DEF PrintNothing
    <3>2. it \in Item /\ TagOf(it) = ByteAt(offset, heap)
      BY <3>1, TagAt
    <3>. HIDE DEF it
    <3>3. TagOf(it) \in 1..16
      BY <3>2, TagType
    <3>. QED  BY <2>4, <3>2, <3>3 DEF PrintNothing
  <2>5. ASSUME PrintDone
        PROVE  aborted' = {} /\ Len(reads') >= Len(data)
    <3>1. UNCHANGED <<reads, aborted>> /\ offset >= data_length
      BY <2>5 DEF PrintDone
    <3>2. ASSUME Len(reads) < Len(data), AtItem(Len(reads) + 1)
          PROVE  FALSE
      <4>. DEFINE w == data[Len(reads) + 1]
      <4>1. /\ Len(reads) + 1 \in DOMAIN data /\ offset = w.at /\ w.item \in Item
            /\ w.at \in Nat
        BY <3>2, TagAt DEF AtItem
      <4>2. w.at + Size(w.item) <= DataEnd
        BY <4>1, EndBeforeDataEnd DEF IInv
      <4>3. Size(w.item) \in Nat /\ Size(w.item) >= 2
        BY <4>1, SizeType
      <4>4. DataEnd \in Nat /\ DataEnd <= data_length
        BY Counts
      <4>. HIDE DEF w
      <4>. QED  BY <2>1, <3>1, <4>1, <4>2, <4>3, <4>4
    <3>3. Len(reads) >= Len(data)
      BY <2>0, <2>1, <3>2, CursorAt DEF Overread
    <3>. QED  BY <2>0, <3>1, <3>3
  <2>6. ~Idle
    BY DEF Idle
  <2>7. ~UNCHANGED vars
    BY Zenon DEF vars
  <2>. QED
    BY <2>2, <2>3, <2>4, <2>5, <2>6, <2>7, Calls, Zenon
       DEF StorePut, readMessageLength, GetCall, debugMessagePrint
<1>2. IInv /\ RInv /\ [Next]_vars => [Printed]_vars
  BY <1>1
<1>. HIDE DEF Printed
<1>3. Spec => [][Printed]_vars
  BY <1>2, Reading, PTL DEF Spec
<1>. QED  BY <1>3 DEF PrintReadsAll, Printed

(***************************************************************************)
(* With values the format carries faithfully a Message is a TypedQueue.    *)
(***************************************************************************)
\* The values still to be read, as MessageQueue maps them.
QueueBar == [n \in 1..(Len(data) - Len(reads)) |-> data[Len(reads) + n].item]

\* Only arguments of the put methods are in the buffer.
OnlyPut == \A n \in DOMAIN data : data[n].item \in Puttable

LEMMA PuttableFaithful ==
    ASSUME NEW it \in Puttable
    PROVE  it \in Item /\ Faithful(it) /\ InStep(it) /\ (it.kind = "time" => ~NoDate(it.val))
<1>1. it \in Item
  BY PuttableItem
<1>2. PICK k \in Kinds : it \in {[kind |-> k, val |-> v] : v \in Values[k]}
  BY DEF Puttable
<1>3. PICK v \in Values[k] : it = [kind |-> k, val |-> v]
  BY <1>2
<1>4. Faithful(it) /\ (k = "time" => ~NoDate(v)) /\ it.kind = k /\ it.val = v
  BY <1>3, FaithfulAssumption
<1>. QED  BY <1>1, <1>4 DEF Faithful

\* So no item leads the cursor astray, and the member is the length of the message.
LEMMA NeverAstray ==
    ASSUME IInv, OnlyPut
    PROVE  ~Astray /\ AllInStep /\ data_length = DataEnd
<1>1. \A n \in DOMAIN data : InStep(data[n].item)
  BY PuttableFaithful DEF OnlyPut
<1>2. \A n \in DOMAIN data : data[n].item.kind # "wstring"
  BY PuttableFaithful DEF OnlyPut, Faithful
<1>3. NoDoubleCount
  BY <1>2 DEF NoDoubleCount
<1>. QED  BY <1>1, <1>3 DEF Astray, AllInStep, IInv, LengthIsEnd

\* Storing an item adds it to the buffer.
LEMMA Stored ==
    ASSUME IInv, NEW it \in Item, NEW surplus \in Nat, StorePut(it, surplus)
    PROVE  /\ Len(data') = Len(data) + 1 /\ DOMAIN data' = 1..(Len(data) + 1)
           /\ \A n \in 1..Len(data) : data'[n] = data[n]
           /\ data'[Len(data) + 1].item = it
<1>. DEFINE w == [at |-> data_length, item |-> it]
<1>1. data \in Seq([at : Nat, item : Item]) /\ w \in [at : Nat, item : Item]
  BY DEF IInv, TypeOK
<1>2. data' = Append(data, w)
  BY DEF StorePut, Store
<1>. QED  BY <1>1, <1>2, AppendProperties, LenProperties

LEMMA OnlyPutKept == IInv /\ RInv /\ OnlyPut /\ [Next]_vars => OnlyPut'
<1>. SUFFICES ASSUME IInv, RInv, OnlyPut, [Next]_vars
              PROVE  OnlyPut'
  OBVIOUS
<1>1. ASSUME NEW it \in Puttable, NEW surplus \in Nat, StorePut(it, surplus)
      PROVE  OnlyPut'
  <2>1. it \in Item /\ Len(data) \in Nat /\ DOMAIN data = 1..Len(data)
    BY PuttableItem, Counts
  <2>. QED  BY <1>1, <2>1, Stored DEF OnlyPut
<1>2. ASSUME UNCHANGED data
      PROVE  OnlyPut'
  BY <1>2 DEF OnlyPut
<1>3. ASSUME NEW k, NEW heap, GetterOf(k, heap)
      PROVE  UNCHANGED data
  BY <1>3, Zenon DEF GetterOf, GetFixed, getString, getWString, Return, Abort
<1>4. ASSUME NEW it, Refuse(it)
      PROVE  UNCHANGED data
  BY <1>4 DEF Refuse
<1>. QED
  BY <1>1, <1>2, <1>3, <1>4, Calls, Zenon
     DEF readMessageLength, GetCall, debugMessagePrint, PrintGet, PrintNoDate, Abort,
         PrintNothing, PrintDone, vars

\* The queue as a sequence.
LEMMA QueueShape ==
    ASSUME IInv, Len(reads) <= Len(data)
    PROVE  /\ QueueBar \in Seq(Item) /\ Len(QueueBar) = Len(data) - Len(reads)
           /\ \A n \in 1..(Len(data) - Len(reads)) : QueueBar[n] = data[Len(reads) + n].item
<1>. DEFINE N == Len(data)
            R == Len(reads)
<1>1. N \in Nat /\ R \in Nat /\ DOMAIN data = 1..N /\ R <= N
  BY Counts
<1>2. ASSUME NEW n \in 1..(N - R)
      PROVE  data[R + n].item \in Item
  <2>1. R + n \in DOMAIN data
    BY <1>1
  <2>. QED  BY <2>1, DataType DEF IInv
<1>. HIDE DEF N, R
<1>3. N - R \in Nat
  BY <1>1
<1>4. QueueBar = [n \in 1..(N - R) |-> data[R + n].item]
  BY DEF QueueBar, N, R
<1>. DEFINE q == [n \in 1..(N - R) |-> data[R + n].item]
<1>5. q \in [1..(N - R) -> Item]
  BY <1>2
<1>6. \A n \in 1..(N - R) : q[n] = data[R + n].item
  OBVIOUS
<1>. HIDE DEF q
<1>7. q \in Seq(Item) /\ Len(q) = N - R
  BY <1>3, <1>5
<1>. QED  BY <1>4, <1>6, <1>7 DEF N, R, q

\* An empty queue, also when more was read than was put.
LEMMA QueueEmpty ==
    ASSUME IInv, Len(data) <= Len(reads)
    PROVE  QueueBar = <<>>
<1>1. Len(data) \in Nat /\ Len(reads) \in Nat
  BY Counts
<1>2. 1..(Len(data) - Len(reads)) = {}
  BY <1>1
<1>. QED  BY <1>2 DEF QueueBar

\* A put that stores is a put into the queue.
LEMMA PutMaps ==
    ASSUME IInv, RInv, OnlyPut, NEW it \in Puttable, NEW surplus \in Nat, StorePut(it, surplus)
    PROVE  Queue!Put(it)
<1>. DEFINE N == Len(data)
            R == Len(reads)
<1>1. /\ aborted = {} /\ data_length + Size(it) <= MAX_MSG_DATA
      /\ data_length' = data_length + Size(it) + surplus
      /\ refused' = {} /\ UNCHANGED <<offset, reads, aborted>>
      /\ surplus # 0 => it.kind = "wstring"
  BY DEF StorePut, Store, updateDataLength, Idle
<1>2. it \in Item /\ Faithful(it)
  BY PuttableFaithful
<1>3. surplus = 0
  BY <1>1, <1>2 DEF Faithful
<1>4. Size(it) \in Nat /\ Size(it) >= 2
  BY <1>2, SizeType
<1>5. /\ N \in Nat /\ R \in Nat /\ DataEnd \in Nat /\ data_length \in Nat
      /\ MAX_MSG_DATA \in Nat /\ DataEnd <= data_length
  BY Counts
<1>6. /\ Len(data') = N + 1
      /\ \A n \in 1..N : data'[n] = data[n]
      /\ data'[N + 1].item = it
  BY <1>2, Stored
<1>7. ~Overread
  BY <1>1, <1>4, <1>5 DEF Overread
<1>. HIDE DEF N, R
<1>8. R <= N
  <2>1. R = N \/ R < N
    BY <1>1, <1>7, NeverAstray, CursorAt DEF N, R
  <2>. QED  BY <1>5, <2>1
<1>9. QueueBar' = Append(QueueBar, it)
  <2>1. QueueBar' = [n \in 1..(N + 1 - R) |-> data'[R + n].item]
    <3>1. Len(reads') = R /\ Len(data') = N + 1
      BY <1>1, <1>6 DEF R
    <3>2. QueueBar' = [n \in 1..(Len(data') - Len(reads')) |-> data'[Len(reads') + n].item]
      BY DEF QueueBar
    <3>3. 1..(Len(data') - Len(reads')) = 1..(N + 1 - R)
      BY <1>5, <3>1
    <3>4. \A n \in 1..(N + 1 - R) : data'[Len(reads') + n].item = data'[R + n].item
      BY <1>5, <3>1
    <3>. QED  BY <3>2, <3>3, <3>4
  <2>2. /\ QueueBar \in Seq(Item) /\ Len(QueueBar) = N - R
        /\ \A n \in 1..(N - R) : QueueBar[n] = data[R + n].item
    BY <1>8, QueueShape DEF N, R
  <2>. DEFINE b == Append(QueueBar, it)
  <2>3. /\ b \in Seq(Item) /\ Len(b) = (N - R) + 1
        /\ \A n \in 1..(N - R) : b[n] = QueueBar[n]
        /\ b[(N - R) + 1] = it
    BY <1>2, <2>2, AppendProperties
  <2>. HIDE DEF b
  <2>4. ASSUME NEW n \in 1..(N + 1 - R)
        PROVE  data'[R + n].item = b[n]
    <3>1. CASE n \in 1..(N - R)
      <4>1. R + n \in 1..N
        BY <1>5, <1>8, <3>1
      <4>. QED  BY <1>6, <2>2, <2>3, <3>1, <4>1
    <3>2. CASE n = (N - R) + 1
      <4>1. R + n = N + 1
        BY <1>5, <3>2
      <4>. QED  BY <1>6, <2>3, <3>2, <4>1
    <3>. QED  BY <1>5, <1>8, <3>1, <3>2
  <2>5. b = [n \in 1..(N + 1 - R) |-> b[n]]
    <3>1. (N - R) + 1 = N + 1 - R
      BY <1>5
    <3>. QED  BY <2>3, <3>1
  <2>6. [n \in 1..(N + 1 - R) |-> data'[R + n].item] = [n \in 1..(N + 1 - R) |-> b[n]]
    BY <2>4
  <2>. QED  BY <2>1, <2>5, <2>6 DEF b
<1>10. /\ (data_length - HEADER_SIZE) + Size(it) <= MAX_MSG_DATA - HEADER_SIZE
       /\ data_length' - HEADER_SIZE = (data_length - HEADER_SIZE) + Size(it)
  BY <1>1, <1>3, <1>4, <1>5 DEF HEADER_SIZE, MESSAGE_LENGTH_OFFSET
<1>. QED  BY <1>1, <1>9, <1>10 DEF Queue!Put, QueueBar

\* A refused put is refused by the queue.
LEMMA RefuseMaps ==
    ASSUME IInv, NEW it \in Puttable, Idle, Refuse(it)
    PROVE  Queue!Refuse(it)
<1>1. /\ aborted = {} /\ data_length + Size(it) > MAX_MSG_DATA /\ refused' = {it}
      /\ UNCHANGED <<data, data_length, offset, reads, aborted>>
  BY DEF Refuse, Idle
<1>2. Size(it) \in Nat /\ MAX_MSG_DATA \in Nat /\ data_length \in Nat
  BY PuttableItem, SizeType, Counts
<1>3. (data_length - HEADER_SIZE) + Size(it) > MAX_MSG_DATA - HEADER_SIZE
  BY <1>1, <1>2 DEF HEADER_SIZE, MESSAGE_LENGTH_OFFSET
<1>. QED  BY <1>1, <1>3 DEF Queue!Refuse

\* A getter takes the next value, or ends the process of one who asked for another,
\* or leaves a full buffer.
LEMMA GetterMaps ==
    ASSUME IInv, RInv, OnlyPut, aborted = {}, offset <= MAX_MSG_DATA,
           NEW heap \in Byte, NEW k \in Kinds, GetterOf(k, heap)
    PROVE  Queue!Take \/ Queue!Misuse(k) \/ Queue!Overrun
<1>. DEFINE N == Len(data)
            R == Len(reads)
<1>1. /\ N \in Nat /\ R \in Nat /\ DOMAIN data = 1..N /\ DataEnd \in Nat
      /\ data_length \in Nat /\ MAX_MSG_DATA \in Nat /\ offset \in Nat
      /\ DataEnd <= MAX_MSG_DATA
  BY Counts
<1>2. ~Astray /\ data_length = DataEnd
  BY NeverAstray
<1>3. ~Overread
  BY <1>1 DEF Overread
<1>4. CASE R < N /\ AtItem(R + 1)
  <2>. DEFINE it == data[R + 1].item
  <2>1. R + 1 \in DOMAIN data /\ offset = data[R + 1].at /\ it \in Puttable
    BY <1>4 DEF AtItem, OnlyPut
  <2>2. it \in Item /\ Faithful(it) /\ InStep(it) /\ Size(it) \in Nat /\ Size(it) >= 2
    BY <2>1, PuttableFaithful, SizeType
  <2>3. offset + Size(it) <= MAX_MSG_DATA
    <3>1. data[R + 1].at + Size(it) <= MAX_MSG_DATA
      BY <2>1 DEF IInv, InBounds
    <3>. QED  BY <2>1, <3>1
  <2>4. Outcome(k, it)
    BY <1>4, GetterAt
  <2>5. /\ QueueBar \in Seq(Item) /\ Len(QueueBar) = N - R /\ QueueBar[1] = it
        /\ \A n \in 1..(N - R) : QueueBar[n] = data[R + n].item
    <3>1. R <= N /\ 1 \in 1..(N - R)
      BY <1>1, <1>4
    <3>. QED  BY <3>1, QueueShape
  <2>. HIDE DEF it, N, R
  <2>6. QueueBar # <<>> /\ Head(QueueBar) = it
    <3>1. Len(QueueBar) > 0
      BY <1>1, <1>4, <2>5
    <3>2. QueueBar # <<>>
      BY <2>5, <3>1, EmptySeq
    <3>. QED  BY <2>5, <3>2, HeadTailProperties
  <2>7. ASSUME Return(it, Size(it))
        PROVE  Queue!Take
    <3>1. /\ offset' = offset + Size(it) /\ reads' = Append(reads, it) /\ refused' = {}
          /\ UNCHANGED <<data, data_length, aborted>>
      BY <2>7 DEF Return
    <3>2. Len(reads') = R + 1
      BY <3>1, ReadsGrow DEF R
    <3>3. QueueBar' = Tail(QueueBar)
      <4>1. QueueBar' = [n \in 1..(N - (R + 1)) |-> data[(R + 1) + n].item]
        BY <3>1, <3>2 DEF QueueBar, N
      <4>. DEFINE t == Tail(QueueBar)
      <4>2. /\ t \in Seq(Item) /\ Len(t) = (N - R) - 1
            /\ \A n \in 1..((N - R) - 1) : t[n] = QueueBar[n + 1]
        BY <2>5, <2>6, HeadTailProperties
      <4>. HIDE DEF t
      <4>3. (N - R) - 1 = N - (R + 1)
        BY <1>1
      <4>4. ASSUME NEW n \in 1..(N - (R + 1))
            PROVE  data[(R + 1) + n].item = t[n]
        <5>1. n + 1 \in 1..(N - R) /\ R + (n + 1) = (R + 1) + n /\ n \in 1..((N - R) - 1)
          BY <1>1
        <5>. QED  BY <2>5, <4>2, <5>1
      <4>5. t = [n \in 1..(N - (R + 1)) |-> t[n]]
        BY <4>2, <4>3
      <4>6. [n \in 1..(N - (R + 1)) |-> data[(R + 1) + n].item] = [n \in 1..(N - (R + 1)) |-> t[n]]
        BY <4>4
      <4>. QED  BY <4>1, <4>5, <4>6 DEF t
    <3>4. (offset > MAX_MSG_DATA)' = (offset > MAX_MSG_DATA)
      BY <1>1, <2>2, <2>3, <3>1
    <3>. QED  BY <2>6, <3>1, <3>3, <3>4 DEF Queue!Take, QueueBar
  <2>8. ASSUME Abort(k, 1), it.kind # k
        PROVE  Queue!Misuse(k)
    <3>1. /\ offset' = offset + 1 /\ aborted' = {k} /\ refused' = {}
          /\ UNCHANGED <<data, data_length, reads>>
      BY <2>8 DEF Abort
    <3>2. (offset > MAX_MSG_DATA)' = (offset > MAX_MSG_DATA)
      BY <1>1, <2>2, <2>3, <3>1
    <3>3. QueueBar' = QueueBar
      BY <3>1 DEF QueueBar
    <3>. QED  BY <2>6, <2>8, <3>1, <3>2, <3>3 DEF Queue!Misuse, QueueBar
  <2>9. Return(it, Size(it)) \/ (Abort(k, 1) /\ it.kind # k)
    BY <2>2, <2>4, Zenon DEF Outcome
  <2>. QED  BY <2>7, <2>8, <2>9
<1>5. CASE R = N /\ offset = DataEnd
  <2>1. QueueBar = <<>>
    BY <1>1, <1>5, QueueEmpty
  <2>2. CASE DataEnd < MAX_MSG_DATA
    <3>1. Abort(k, 1)
      BY <1>1, <1>5, <2>2, ZeroBehind, GetterAtZero
    <3>2. /\ offset' = offset + 1 /\ aborted' = {k} /\ refused' = {}
          /\ UNCHANGED <<data, data_length, reads>>
      BY <3>1 DEF Abort
    <3>3. (offset > MAX_MSG_DATA)' = (offset > MAX_MSG_DATA)
      BY <1>1, <1>5, <2>2, <3>2
    <3>4. QueueBar' = QueueBar
      BY <3>2 DEF QueueBar
    <3>. QED  BY <2>1, <3>2, <3>3, <3>4 DEF Queue!Misuse, QueueBar
  <2>3. CASE DataEnd = MAX_MSG_DATA
    <3>1. PICK d \in Nat \ {0} : offset' = offset + d
      BY GetterAny DEF Return, Abort
    <3>2. (offset > MAX_MSG_DATA)'
      BY <1>1, <1>5, <2>3, <3>1
    <3>3. data_length - HEADER_SIZE = MAX_MSG_DATA - HEADER_SIZE
      BY <1>2, <2>3
    <3>. QED  BY <2>1, <3>2, <3>3 DEF Queue!Overrun, QueueBar
  <2>. QED  BY <1>1, <2>2, <2>3
<1>. QED  BY <1>2, <1>3, <1>4, <1>5, CursorAt

\* A call that changes none of what the queue sees is a call of the queue or none.
LEMMA OtherMaps ==
    ASSUME UNCHANGED <<data, data_length, offset, reads, aborted>>
    PROVE  /\ refused' = {} => Queue!Other
           /\ refused' = refused => UNCHANGED Queue!vars
  BY DEF Queue!Other, Queue!vars

\* Every step of a message is a step of the queue.
LEMMA QueueStep ==
    ASSUME IInv, RInv, OnlyPut, [Next]_vars
    PROVE  [Queue!Next]_(Queue!vars)
<1>0. printing => aborted = {}
  BY DEF RInv, Dead
<1>1. ASSUME NEW it \in Puttable, NEW surplus \in Nat, StorePut(it, surplus)
      PROVE  Queue!Next
  BY <1>1, PutMaps DEF Queue!Next
<1>2. ASSUME NEW it \in Puttable, Idle, Refuse(it)
      PROVE  Queue!Next
  BY <1>2, RefuseMaps DEF Queue!Next
<1>3. ASSUME readMessageLength
      PROVE  Queue!Next
  <2>1. data_length' = data_length
    BY <1>3, NeverAstray DEF readMessageLength, IInv, LengthIsEnd
  <2>. QED  BY <1>3, <2>1, OtherMaps DEF readMessageLength, Queue!Next
<1>4. ASSUME aborted = {}, offset <= MAX_MSG_DATA,
             NEW heap \in Byte, NEW k \in Kinds, GetterOf(k, heap)
      PROVE  Queue!Next
  BY <1>4, GetterMaps DEF Queue!Next
<1>5. ASSUME debugMessagePrint
      PROVE  Queue!Next
  BY <1>5, OtherMaps DEF debugMessagePrint, Queue!Next
<1>6. ASSUME NEW heap \in Byte, PrintNoDate(heap)
      PROVE  FALSE
  <2>. DEFINE it == data[Len(reads) + 1].item
  <2>1. AtItem(Len(reads) + 1)
    BY <1>0, <1>6, NeverAstray, PrintPlace DEF PrintNoDate
  <2>2. it.kind = "time"
    <3>1. it \in Item /\ TagOf(it) = DATA_TYPE["time"]
      BY <1>6, <2>1, TagAt DEF PrintNoDate
    <3>. HIDE DEF it
    <3>. QED  BY <3>1, TagDecides DEF FixedKinds
  <2>3. [i \in 1..PutWidth[it.kind] |-> ByteAt(offset + i, heap)] = it.val
    BY <2>1, <2>2, FixedBytes DEF FixedKinds
  <2>4. [i \in 1..8 |-> ByteAt(offset + i, heap)] = it.val
    BY <2>2, <2>3 DEF PutWidth
  <2>5. it \in Puttable
    BY <2>1 DEF AtItem, OnlyPut
  <2>. QED  BY <1>6, <2>2, <2>4, <2>5, PuttableFaithful DEF PrintNoDate
<1>7. ASSUME NEW heap \in Byte, PrintNothing(heap)
      PROVE  UNCHANGED Queue!vars
  BY <1>7, OtherMaps DEF PrintNothing
<1>8. ASSUME PrintDone
      PROVE  UNCHANGED Queue!vars
  BY <1>8, OtherMaps DEF PrintDone
<1>9. ASSUME UNCHANGED vars
      PROVE  UNCHANGED Queue!vars
  BY <1>9, OtherMaps DEF vars
<1>10. ASSUME NEW heap \in Byte, NEW k \in Kinds, GetCall(k, heap) \/ PrintGet(k, heap)
       PROVE  Queue!Next
  BY <1>0, <1>4, <1>10 DEF GetCall, PrintGet, Idle
<1>. QED
  BY <1>1, <1>2, <1>3, <1>5, <1>6, <1>7, <1>8, <1>9, <1>10, Calls, Zenon

\* With values the format carries faithfully, whatever the size of the message and
\* however puts, gets, rereads of the length and prints follow one another, a Message
\* is a first-in first-out queue of typed values.
THEOREM MessageIsQueue == Spec => ImplementsQueue
<1>1. Init => Queue!Init
  <2>. SUFFICES ASSUME Init
                PROVE  Queue!Init
    OBVIOUS
  <2>1. Init /\ IInv
    BY InitLayout
  <2>2. Len(data) = 0 /\ Len(reads) = 0
    BY DEF Init
  <2>3. QueueBar = <<>>
    BY <2>1, <2>2, QueueEmpty
  <2>4. data_length - HEADER_SIZE = 0 /\ (offset > MAX_MSG_DATA) = FALSE
    BY MessageAssumption DEF Init, HEADER_SIZE, MESSAGE_LENGTH_OFFSET
  <2>. QED  BY <2>3, <2>4 DEF Init, Queue!Init, QueueBar
<1>2. Init => OnlyPut
  BY DEF Init, OnlyPut
<1>3. (IInv /\ RInv) /\ OnlyPut /\ [Next]_vars => OnlyPut'
  BY OnlyPutKept
<1>4. (IInv /\ RInv) /\ OnlyPut /\ [Next]_vars => [Queue!Next]_(Queue!vars)
  BY QueueStep
<1>. QED  BY <1>1, <1>2, <1>3, <1>4, Reading, PTL DEF Spec, ImplementsQueue, Queue!Spec
=============================================================================
