--------------------------- MODULE Message_proofs ---------------------------
(* The layout of a Message's buffer, proved for every buffer size, every    *)
(* set of values and every number of puts.                                  *)
EXTENDS Message, TLAPS, SequenceTheorems, WellFoundedInduction

(***************************************************************************)
(* Lemmas about the layout of one item.                                    *)
(***************************************************************************)
\* An item is of a fixed width or a string.
LEMMA ItemCases ==
    ASSUME NEW it \in Item
    PROVE  \/ /\ it.kind \in FixedKinds
              /\ it.kind \notin {"string", "wstring"}
              /\ it.val \in Seq(Byte)
              /\ Len(it.val) = PutWidth[it.kind]
           \/ /\ it.kind \in {"string", "wstring"}
              /\ it.kind \notin FixedKinds
              /\ it.val.len \in Nat
              /\ it.val.nul \in Nat
  BY DEF Item, FixedItem, StringItem, StringValue, FixedKinds

\* Every put method writes between one and eight bytes after the tag.
LEMMA WidthType ==
    ASSUME NEW k \in FixedKinds
    PROVE  PutWidth[k] \in 1..8 /\ GetWidth[k] \in 1..PutWidth[k]
  BY DEF FixedKinds, PutWidth, GetWidth

\* Every item takes up at least its tag and one more byte.
LEMMA SizeType ==
    ASSUME NEW it \in Item
    PROVE  Size(it) \in Nat /\ Size(it) >= 2
<1>1. CASE it.kind \in FixedKinds
  BY <1>1, WidthType DEF Size
<1>2. CASE /\ it.kind \in {"string", "wstring"}
           /\ it.kind \notin FixedKinds
           /\ it.val.len \in Nat
  BY <1>2 DEF Size, LenWidth, CharWidth
<1>. QED  BY <1>1, <1>2, ItemCases

\* A string that fits in a message has a length that fits in its prefix.
LEMMA LenFits ==
    ASSUME NEW it \in Item, it.kind \notin FixedKinds, Size(it) <= UINT16_MAX
    PROVE  it.val.len \in Nat /\ it.val.len <= UINT16_MAX
<1>1. it.kind \in {"string", "wstring"} /\ it.val.len \in Nat
  BY ItemCases
<1>2. Size(it) = 1 + LenWidth(it.val.len) + CharWidth[it.kind] * it.val.len
  BY DEF Size
<1>3. CharWidth[it.kind] * it.val.len >= it.val.len
  <2>1. CASE it.kind = "string"
    BY <1>1, <2>1 DEF CharWidth
  <2>2. CASE it.kind = "wstring"
    BY <1>1, <2>2 DEF CharWidth
  <2>. QED  BY <1>1, <2>1, <2>2
<1>4. LenWidth(it.val.len) \in Nat /\ CharWidth[it.kind] * it.val.len \in Nat
  BY <1>1 DEF LenWidth, CharWidth
<1>. QED  BY <1>1, <1>2, <1>3, <1>4 DEF UINT16_MAX

\* Every tag is one of the type identifiers.
LEMMA TagType ==
    ASSUME NEW it \in Item
    PROVE  TagOf(it) \in 1..16
<1>1. CASE it.kind \in FixedKinds
  BY <1>1 DEF TagOf, DATA_TYPE, FixedKinds
<1>2. CASE it.kind \notin FixedKinds
  <2>1. it.kind \in {"string", "wstring"} /\ it.val.len \in Nat
    BY <1>2, ItemCases
  <2>2. LenWidth(it.val.len) \in {1, 2}
    BY <2>1 DEF LenWidth
  <2>. QED  BY <1>2, <2>1, <2>2 DEF TagOf, StringTag, STRING_1, STRING_2, WSTRING_1, WSTRING_2
<1>. QED  BY <1>1, <1>2

\* Every byte of an item that fits in a message is a byte.
LEMMA ByteOfType ==
    ASSUME NEW it \in Item, Size(it) <= UINT16_MAX, NEW i \in Nat, i < Size(it)
    PROVE  ByteOf(it, i) \in Byte
<1>1. CASE i = 0
  BY <1>1, TagType DEF ByteOf, Byte
<1>2. CASE i # 0 /\ it.kind \in FixedKinds
  <2>1. it.val \in Seq(Byte) /\ Len(it.val) = PutWidth[it.kind] /\ PutWidth[it.kind] \in 1..8
    BY <1>2, ItemCases, WidthType
  <2>2. i \in 1..Len(it.val)
    BY <1>2, <2>1 DEF Size
  <2>3. it.val[i] \in Byte
    BY <2>1, <2>2, ElementOfSeq
  <2>. QED  BY <1>2, <2>3 DEF ByteOf
<1>3. CASE i # 0 /\ it.kind \notin FixedKinds
  <2>1. it.val.len \in Nat /\ it.val.len <= UINT16_MAX
    BY <1>3, LenFits
  <2>2. StringByte(it, i) \in Nat /\ StringByte(it, i) <= 255
    BY <2>1 DEF StringByte, Letter, UINT16_MAX
  <2>. QED  BY <1>3, <2>2 DEF ByteOf, Byte
<1>. QED  BY <1>1, <1>2, <1>3

(***************************************************************************)
(* Lemmas about the buffer.                                                *)
(***************************************************************************)
\* A set of natural numbers that is not empty has a minimum, which is in it.
LEMMA MinType ==
    ASSUME NEW S, S \subseteq Nat, S # {}
    PROVE  Min(S) \in S
<1>1. PICK x \in S : \A y \in S : <<y, x>> \notin OpToRel(<, Nat)
  BY WFMin, NatLessThanWellFounded
<1>2. \A y \in S : x <= y
  <2>. SUFFICES ASSUME NEW y \in S, y < x
                PROVE  FALSE
    OBVIOUS
  <2>1. <<y, x>> \in Nat \X Nat /\ <<y, x>>[1] < <<y, x>>[2]
    OBVIOUS
  <2>2. <<y, x>> \in OpToRel(<, Nat)
    BY <2>1, Zenon DEF OpToRel
  <2>. QED  BY <1>1, <2>2
<1>. QED  BY <1>2 DEF Min

\* Every write is at a position and of an item.
LEMMA DataType ==
    ASSUME TypeOK, NEW n \in DOMAIN data
    PROVE  /\ n \in 1..Len(data)
           /\ data[n].at \in Nat
           /\ data[n].item \in Item
           /\ Size(data[n].item) \in Nat
<1>1. data \in Seq([at : Nat, item : Item])
  BY DEF TypeOK
<1>2. n \in 1..Len(data)
  BY <1>1
<1>3. data[n] \in [at : Nat, item : Item]
  BY <1>1, <1>2, ElementOfSeq
<1>4. data[n].item \in Item
  BY <1>3
<1>. QED  BY <1>2, <1>3, <1>4, SizeType

\* One past the last byte written is a position after the header, in the buffer.
LEMMA DataEndType ==
    ASSUME TypeOK, InBounds
    PROVE  DataEnd \in Nat /\ HEADER_SIZE <= DataEnd /\ DataEnd <= MAX_MSG_DATA
<1>. USE MessageAssumption DEF HEADER_SIZE, MESSAGE_LENGTH_OFFSET
<1>1. CASE data = <<>>
  BY <1>1 DEF DataEnd
<1>2. CASE data # <<>>
  <2>1. data \in Seq([at : Nat, item : Item])
    BY DEF TypeOK
  <2>2. Len(data) \in DOMAIN data
    BY <1>2, <2>1, EmptySeq, LenProperties
  <2>. QED  BY <1>2, <2>2, DataType DEF DataEnd, InBounds
<1>. QED  BY <1>1, <1>2

\* The last item is the one that ends last.
LEMMA EndBeforeDataEnd ==
    ASSUME TypeOK, InBounds, NEW m \in DOMAIN data
    PROVE  data[m].at + Size(data[m].item) <= DataEnd
<1>1. m \in 1..Len(data) /\ Len(data) \in DOMAIN data /\ Len(data) \in Nat /\ data # <<>>
  BY LenProperties, DataType DEF TypeOK
<1>2. DataEnd = data[Len(data)].at + Size(data[Len(data)].item)
  BY <1>1 DEF DataEnd
<1>3. CASE m = Len(data)
  BY <1>1, <1>2, <1>3, DataType
<1>4. CASE m \in 1..(Len(data) - 1)
  <2>1. data[m].at + Size(data[m].item) <= data[Len(data)].at
    BY <1>1, <1>4 DEF InBounds
  <2>. QED  BY <1>1, <1>2, <2>1, DataType
<1>. QED  BY <1>1, <1>3, <1>4

\* Whatever is read, inside the allocation or just past it, is a byte.
LEMMA ByteAtType ==
    ASSUME TypeOK, InBounds, NEW o \in Nat, NEW heap \in Byte
    PROVE  ByteAt(o, heap) \in Byte
<1>1. CASE o >= MAX_MSG_DATA
  BY <1>1 DEF ByteAt
<1>2. CASE ~(o >= MAX_MSG_DATA) /\ ~\E n \in DOMAIN data : Covers(data[n], o)
  BY <1>2 DEF ByteAt, Byte
<1>3. CASE ~(o >= MAX_MSG_DATA) /\ \E n \in DOMAIN data : Covers(data[n], o)
  <2>. DEFINE n == CHOOSE n \in DOMAIN data : Covers(data[n], o)
  <2>1. n \in DOMAIN data /\ Covers(data[n], o)
    BY <1>3
  <2>2. ByteAt(o, heap) = ByteOf(data[n].item, o - data[n].at)
    BY <1>3 DEF ByteAt
  <2>. HIDE DEF n
  <2>3. data[n].at \in Nat /\ data[n].item \in Item
    BY <2>1, DataType
  <2>4. Size(data[n].item) \in Nat
    BY <2>1, DataType
  <2>5. o - data[n].at \in Nat /\ o - data[n].at < Size(data[n].item)
    BY <2>1, <2>3, <2>4 DEF Covers
  <2>6. Size(data[n].item) <= UINT16_MAX
    BY <2>1, <2>3, <2>4, MessageAssumption DEF InBounds, UINT16_MAX
  <2>. QED  BY <2>2, <2>3, <2>5, <2>6, ByteOfType
<1>. QED  BY <1>1, <1>2, <1>3

(***************************************************************************)
(* The put methods.  The three invariants are proved together: a byte of   *)
(* the buffer is a byte only because every item lies inside it, and the    *)
(* room a put tests for is there only because data_length never falls      *)
(* behind the last item.                                                   *)
(***************************************************************************)
IInv == TypeOK /\ InBounds /\ LengthIsEnd

\* A step that leaves the buffer and its lengths alone keeps their invariants.
LEMMA LayoutUnchanged ==
    ASSUME InBounds, LengthIsEnd, UNCHANGED <<data, data_length, length_field>>
    PROVE  InBounds' /\ LengthIsEnd'
  BY DEF InBounds, LengthIsEnd, DataEnd, NoDoubleCount

\* Neither does a step that changes nothing.
LEMMA StutterLayout ==
    ASSUME IInv, UNCHANGED vars
    PROVE  IInv'
<1>1. TypeOK'
  BY Zenon DEF IInv, TypeOK, vars
<1>2. InBounds' /\ LengthIsEnd'
  BY LayoutUnchanged DEF IInv, vars
<1>. QED  BY <1>1, <1>2 DEF IInv

\* Storing an item that fits keeps them too, when only a wide string of more than
\* 255 characters is counted twice.
LEMMA StoreLayout ==
    ASSUME IInv, NEW it \in Item, NEW surplus \in Nat, Store(it, surplus),
           surplus # 0 => it.kind = "wstring" /\ it.val.len > 255
    PROVE  IInv'
<1>. DEFINE w == [at |-> data_length, item |-> it]
<1>1. data \in Seq([at : Nat, item : Item]) /\ data_length \in Nat
  BY DEF IInv, TypeOK
<1>2. w \in [at : Nat, item : Item]
  BY <1>1
<1>3. data' = Append(data, w)
  BY DEF Store
<1>4. /\ data' \in Seq([at : Nat, item : Item])
      /\ Len(data') = Len(data) + 1
      /\ DOMAIN data' = 1..(Len(data) + 1)
      /\ \A n \in 1..Len(data) : data'[n] = data[n]
      /\ data'[Len(data) + 1] = w
  BY <1>1, <1>2, <1>3, AppendProperties, LenProperties
<1>5. Size(it) \in Nat /\ Size(it) >= 2
  BY SizeType
<1>6. /\ data_length + Size(it) <= MAX_MSG_DATA
      /\ data_length' = data_length + Size(it) + surplus
      /\ length_field' = (data_length + Size(it)) % (UINT16_MAX + 1)
      /\ UNCHANGED <<offset, reads, aborted, printing>>
      /\ refused' = {}
  BY DEF Store, updateDataLength
<1>7. length_field' = data_length + Size(it) /\ data_length + Size(it) <= UINT16_MAX
  <2>1. MAX_MSG_DATA \in Nat /\ MAX_MSG_DATA <= UINT16_MAX
    BY MessageAssumption
  <2>. DEFINE end == data_length + Size(it)
  <2>2. length_field' = end % (UINT16_MAX + 1) /\ end <= MAX_MSG_DATA /\ end \in Nat
    BY <1>1, <1>5, <1>6
  <2>. HIDE DEF end
  <2>3. end <= UINT16_MAX
    BY <2>1, <2>2 DEF UINT16_MAX
  <2>4. length_field' = end
    BY <2>2, <2>3 DEF UINT16_MAX
  <2>. QED  BY <2>3, <2>4 DEF end
<1>8. TypeOK'
  <2>1. data_length' \in Nat
    BY <1>1, <1>5, <1>6
  <2>2. length_field' \in Nat /\ length_field' <= UINT16_MAX
    <3>. DEFINE end == data_length + Size(it)
    <3>1. end \in Nat
      BY <1>1, <1>5
    <3>. HIDE DEF end
    <3>. QED  BY <1>7, <3>1, Zenon DEF end
  <2>3. TypeOK
    BY DEF IInv
  <2>. QED  BY <1>4, <1>6, <2>1, <2>2, <2>3, Zenon DEF TypeOK
<1>9. Len(data) \in Nat /\ DOMAIN data = 1..Len(data)
  BY <1>1, LenProperties
<1>10. DataEnd' = data_length + Size(it)
  <2>1. data' # <<>>
    BY <1>4, <1>9
  <2>. QED  BY <2>1, <1>4 DEF DataEnd
<1>11. HEADER_SIZE <= data_length
  BY DataEndType, <1>1 DEF IInv, InBounds, HEADER_SIZE, MESSAGE_LENGTH_OFFSET
<1>12. InBounds'
  <2>1. ASSUME NEW n \in 1..(Len(data) + 1)
        PROVE  /\ HEADER_SIZE <= data'[n].at
               /\ data'[n].at + Size(data'[n].item) <= MAX_MSG_DATA
               /\ \A m \in 1..(n - 1) : data'[m].at + Size(data'[m].item) <= data'[n].at
    <3>1. CASE n \in 1..Len(data)
      <4>1. data'[n] = data[n] /\ \A m \in 1..(n - 1) : data'[m] = data[m]
        BY <1>4, <1>9, <3>1
      <4>. QED  BY <1>9, <3>1, <4>1 DEF IInv, InBounds
    <3>2. CASE n = Len(data) + 1
      <4>1. data'[n] = w
        BY <1>4, <3>2
      <4>2. ASSUME NEW m \in 1..Len(data)
            PROVE  data'[m].at + Size(data'[m].item) <= data_length
        <5>1. data'[m] = data[m] /\ m \in DOMAIN data
          BY <1>4, <1>9
        <5>2. data[m].at + Size(data[m].item) <= DataEnd
          BY <5>1, EndBeforeDataEnd DEF IInv
        <5>3. DataEnd \in Nat /\ DataEnd <= data_length
          BY DataEndType DEF IInv, InBounds
        <5>. QED  BY <1>1, <5>1, <5>2, <5>3, DataType DEF IInv
      <4>. QED  BY <1>6, <1>9, <1>11, <3>2, <4>1, <4>2
    <3>. QED  BY <1>9, <3>1, <3>2
  <2>2. DataEnd' <= data_length'
    <3>1. data_length + Size(it) \in Nat
      BY <1>1, <1>5
    <3>2. data_length + Size(it) <= data_length'
      BY <1>6, <3>1
    <3>. QED  BY <1>10, <3>2
  <2>. QED  BY <1>4, <2>1, <2>2 DEF InBounds
<1>13. LengthIsEnd'
  <2>1. NoDoubleCount' => surplus = 0
    <3>1. NoDoubleCount' => (it.kind = "wstring" => it.val.len <= 255)
      BY <1>4, <1>9 DEF NoDoubleCount
    <3>2. surplus # 0 => it.val.len \in Nat /\ it.val.len > 255 /\ it.kind = "wstring"
      BY ItemCases DEF FixedKinds
    <3>. QED  BY <3>1, <3>2
  <2>. QED  BY <1>1, <1>5, <1>6, <1>7, <1>10, <2>1 DEF LengthIsEnd
<1>. QED  BY <1>8, <1>12, <1>13 DEF IInv

\* Refusing an item changes nothing but the memory of it.
LEMMA RefuseLayout ==
    ASSUME IInv, NEW it \in Item, Refuse(it)
    PROVE  IInv'
<1>1. TypeOK'
  BY DEF IInv, TypeOK, Refuse
<1>2. InBounds' /\ LengthIsEnd'
  BY LayoutUnchanged DEF IInv, Refuse
<1>. QED  BY <1>1, <1>2 DEF IInv

\* Every put method.
LEMMA PutLayout ==
    ASSUME IInv, Put
    PROVE  IInv'
<1>1. ASSUME NEW k \in FixedKinds, PutFixed(k)
      PROVE  IInv'
  <2>1. PICK v \in Values[k] : Store([kind |-> k, val |-> v], 0)
                               \/ Refuse([kind |-> k, val |-> v])
    BY <1>1 DEF PutFixed
  <2>2. [kind |-> k, val |-> v] \in Item
    BY MessageAssumption DEF Kinds
  <2>. QED  BY <2>1, <2>2, StoreLayout, RefuseLayout
<1>2. ASSUME putString
      PROVE  IInv'
  <2>1. PICK v \in Values["string"] : Store([kind |-> "string", val |-> v], 0)
                                      \/ Refuse([kind |-> "string", val |-> v])
    BY <1>2 DEF putString
  <2>2. [kind |-> "string", val |-> v] \in Item
    BY MessageAssumption DEF Kinds
  <2>. QED  BY <2>1, <2>2, StoreLayout, RefuseLayout
<1>3. ASSUME putWString
      PROVE  IInv'
  <2>1. PICK v \in Values["wstring"] :
               Store([kind |-> "wstring", val |-> v], CountedAgain(v))
               \/ Refuse([kind |-> "wstring", val |-> v])
    BY <1>3 DEF putWString
  <2>. DEFINE it == [kind |-> "wstring", val |-> v]
  <2>2. it \in Item
    BY MessageAssumption DEF Kinds
  <2>3. it.kind = "wstring" /\ it.val = v
    OBVIOUS
  <2>4. v.len \in Nat
    BY <2>2, <2>3, ItemCases DEF FixedKinds
  <2>5. CountedAgain(v) \in Nat /\ (CountedAgain(v) # 0 => v.len > 255)
    BY <2>4 DEF CountedAgain
  <2>. HIDE DEF it
  <2>. QED  BY <2>1, <2>2, <2>3, <2>5, StoreLayout, RefuseLayout DEF it
<1>. QED
  BY <1>1, <1>2, <1>3 DEF Put, FixedKinds, putBool, putByte, putShort, putInt, putLong,
     putLongLong, putFloat, putDouble, putChar, putWChar, putTime, putDuration

(***************************************************************************)
(* The get methods and debugMessagePrint: they move the cursor, so all     *)
(* there is to prove is that what they return is a value of its type.      *)
(***************************************************************************)
\* A byte is a number below 256, in a form the provers need not enumerate.
LEMMA ByteRange ==
    /\ \A b \in Byte : b \in Nat /\ b < 256
    /\ \A b \in Nat : b < 256 => b \in Byte
  BY DEF Byte

\* A fixed-width value has the width its put method wrote.
LEMMA FixedItemIntro ==
    ASSUME NEW k \in FixedKinds, NEW v \in Seq(Byte), Len(v) = PutWidth[k],
           k = "bool" => v[1] \in {0, 1}
    PROVE  [kind |-> k, val |-> v] \in Item
  BY DEF Item, FixedItem

\* A string item may have any length.
LEMMA StringItemIntro ==
    ASSUME NEW k \in {"string", "wstring"}, NEW l \in Nat
    PROVE  [kind |-> k, val |-> [len |-> l, nul |-> l]] \in Item
  BY DEF Item, StringItem, StringValue

\* Decoding gives a value of the width that was put.
LEMMA DecodeType ==
    ASSUME NEW k \in FixedKinds, NEW b \in [1..GetWidth[k] -> Byte]
    PROVE  /\ Decode(k, b) \in Seq(Byte) /\ Len(Decode(k, b)) = PutWidth[k]
           /\ k = "bool" => Decode(k, b)[1] \in {0, 1}
<1>1. 0 \in Byte /\ 1 \in Byte /\ 255 \in Byte
  BY ByteRange
<1>2. CASE k = "bool"
  <2>1. Decode(k, b) \in {<<0>>, <<1>>}
    BY <1>2 DEF Decode
  <2>2. <<0>> \in Seq(Byte) /\ <<1>> \in Seq(Byte)
    BY <1>1
  <2>3. PutWidth[k] = 1 /\ Len(<<0>>) = 1 /\ Len(<<1>>) = 1
    BY <1>2 DEF PutWidth
  <2>4. Decode(k, b)[1] \in {0, 1}
    BY <2>1
  <2>5. Decode(k, b) \in Seq(Byte) /\ Len(Decode(k, b)) = PutWidth[k]
    BY <2>1, <2>2, <2>3
  <2>. QED  BY <2>4, <2>5
<1>3. CASE k = "long"
  <2>1. GetWidth[k] = 2 /\ PutWidth[k] = 4
    BY <1>3 DEF PutWidth, GetWidth
  <2>2. b[1] \in Byte /\ b[2] \in Byte
    BY <2>1
  <2>3. SignByte(b[2]) \in Byte
    BY <1>1 DEF SignByte
  <2>4. Decode(k, b) = <<b[1], b[2], SignByte(b[2]), SignByte(b[2])>>
    BY <1>3 DEF Decode
  <2>5. k # "bool"
    BY <1>3
  <2>6. Decode(k, b) \in Seq(Byte) /\ Len(Decode(k, b)) = PutWidth[k]
    BY <2>1, <2>2, <2>3, <2>4
  <2>. QED  BY <2>5, <2>6
<1>4. CASE k \notin {"bool", "long"}
  <2>1. Decode(k, b) = b
    BY <1>4 DEF Decode
  <2>2. GetWidth[k] = PutWidth[k] /\ PutWidth[k] \in Nat
    BY <1>4, WidthType DEF PutWidth, GetWidth, FixedKinds
  <2>3. b \in Seq(Byte) /\ Len(b) = PutWidth[k]
    BY <2>2
  <2>. QED  BY <1>4, <2>1, <2>3
<1>. QED  BY <1>2, <1>3, <1>4

\* Returning an item, or ending the process, keeps the invariants.
LEMMA ReturnLayout ==
    ASSUME IInv, NEW it \in Item, NEW n \in Nat, Return(it, n)
    PROVE  IInv'
<1>1. reads' \in Seq(Item) /\ offset' \in Nat
  BY AppendProperties DEF IInv, TypeOK, Return
<1>2. TypeOK'
  BY <1>1 DEF IInv, TypeOK, Return
<1>3. InBounds' /\ LengthIsEnd'
  BY LayoutUnchanged DEF IInv, Return
<1>. QED  BY <1>2, <1>3 DEF IInv

LEMMA AbortLayout ==
    ASSUME IInv, NEW k \in Kinds \cup {"gmtime"}, NEW n \in Nat, Abort(k, n)
    PROVE  IInv'
<1>1. aborted' \subseteq Kinds \cup {"gmtime"} /\ offset' \in Nat
  BY DEF IInv, TypeOK, Abort
<1>2. TypeOK'
  <2>1. printing' \in BOOLEAN
    BY Zenon DEF Abort
  <2>2. refused' \subseteq Item /\ UNCHANGED <<data, data_length, length_field, reads>>
    BY DEF Abort
  <2>. QED  BY <1>1, <2>1, <2>2, Zenon DEF IInv, TypeOK
<1>3. InBounds' /\ LengthIsEnd'
  BY LayoutUnchanged DEF IInv, Abort
<1>. QED  BY <1>2, <1>3 DEF IInv

\* The getters of fixed-width values.
LEMMA GetFixedLayout ==
    ASSUME IInv, NEW heap \in Byte, NEW k \in FixedKinds, GetFixed(k, heap)
    PROVE  IInv'
<1>. DEFINE b == [i \in 1..GetWidth[k] |-> ByteAt(offset + i, heap)]
<1>1. CASE Return([kind |-> k, val |-> Decode(k, b)], 1 + GetWidth[k])
  <2>1. GetWidth[k] \in Nat /\ offset \in Nat
    BY WidthType DEF IInv, TypeOK
  <2>2. ASSUME NEW i \in 1..GetWidth[k]
        PROVE  ByteAt(offset + i, heap) \in Byte
    BY <2>1, ByteAtType DEF IInv
  <2>3. b \in [1..GetWidth[k] -> Byte]
    BY <2>2
  <2>. HIDE DEF b
  <2>4. [kind |-> k, val |-> Decode(k, b)] \in Item
    BY <2>3, DecodeType, FixedItemIntro
  <2>5. 1 + GetWidth[k] \in Nat
    BY <2>1
  <2>. QED  BY <1>1, <2>4, <2>5, ReturnLayout
<1>2. CASE Abort(k, 1)
  BY <1>2, AbortLayout DEF Kinds
<1>. QED  BY <1>1, <1>2 DEF GetFixed

\* The index of the first NUL is a number, and the length prefix an integer.
LEMMA FirstNulType ==
    ASSUME IInv, NEW k \in {"string", "wstring"}, NEW c, NEW o, NEW l \in Nat, NEW heap
    PROVE  FirstNul(k, c, o, l, heap) \in Nat
<1>1. CASE \E n \in DOMAIN data : data[n].at = offset /\ data[n].item.kind = k
  <2>. DEFINE n == CHOOSE n \in DOMAIN data : data[n].at = offset /\ data[n].item.kind = k
  <2>1. FirstNul(k, c, o, l, heap) = data[n].item.val.nul
    BY <1>1 DEF FirstNul
  <2>2. n \in DOMAIN data /\ data[n].item.kind = k
    BY <1>1
  <2>. HIDE DEF n
  <2>3. data[n].item \in Item
    BY <2>2, DataType DEF IInv
  <2>. QED  BY <2>1, <2>2, <2>3, ItemCases DEF FixedKinds
<1>2. CASE ~\E n \in DOMAIN data : data[n].at = offset /\ data[n].item.kind = k
  <2>. DEFINE S == {l} \cup {i \in 0..(l - 1) :
                               \A j \in 0..(c - 1) : ByteAt(o + c * i + j, heap) = 0}
  <2>1. FirstNul(k, c, o, l, heap) = Min(S)
    BY <1>2 DEF FirstNul
  <2>2. S \subseteq Nat /\ S # {}
    OBVIOUS
  <2>. HIDE DEF S
  <2>. QED  BY <2>1, <2>2, MinType
<1>. QED  BY <1>1, <1>2

\* The getters of strings: the length prefix is an integer, and a value is returned
\* only when it is not negative.
LEMMA SignedLengthType ==
    ASSUME IInv, NEW w \in {1, 2}, NEW heap \in Byte
    PROVE  SignedLength(w, heap) \in Int
<1>1. offset + 1 \in Nat /\ offset + 2 \in Nat
  BY DEF IInv, TypeOK
<1>2. ByteAt(offset + 1, heap) \in Nat /\ ByteAt(offset + 2, heap) \in Nat
  BY <1>1, ByteAtType, ByteRange DEF IInv
<1>. QED  BY <1>2 DEF SignedLength

LEMMA GetStringLayout ==
    ASSUME IInv, NEW heap \in Byte, getString(heap)
    PROVE  IInv'
<1>. DEFINE w == IF ByteAt(offset, heap) = STRING_1 THEN 1 ELSE 2
            l == SignedLength(w, heap)
            s == FirstNul("string", 1, offset + 1 + w, l, heap)
<1>1. w \in {1, 2} /\ l \in Int
  BY SignedLengthType
<1>2. CASE Abort("string", 1) \/ Abort("string", 1 + w)
  <2>1. "string" \in Kinds \cup {"gmtime"} /\ 1 + w \in Nat
    BY <1>1 DEF Kinds
  <2>. HIDE DEF w
  <2>. QED  BY <1>2, <2>1, AbortLayout
<1>3. CASE l >= 0 /\ Return([kind |-> "string", val |-> [len |-> s, nul |-> s]], 1 + w + l)
  <2>. HIDE DEF w, l
  <2>1. l \in Nat /\ 1 + w + l \in Nat
    BY <1>1, <1>3
  <2>2. s \in Nat
    BY <2>1, FirstNulType
  <2>. HIDE DEF s
  <2>. QED  BY <1>3, <2>1, <2>2, StringItemIntro, ReturnLayout
<1>. QED  BY <1>2, <1>3 DEF getString

LEMMA GetWStringLayout ==
    ASSUME IInv, NEW heap \in Byte, getWString(heap)
    PROVE  IInv'
<1>. DEFINE w == IF ByteAt(offset, heap) = WSTRING_1 THEN 1 ELSE 2
            l == SignedLength(w, heap)
            n == FirstNul("wstring", 4, offset + 1 + w, l, heap)
            s(tail) == IF n < l THEN n ELSE l + tail
<1>1. w \in {1, 2} /\ l \in Int
  BY SignedLengthType
<1>2. CASE Abort("wstring", 1) \/ Abort("wstring", 1 + w)
  <2>1. "wstring" \in Kinds \cup {"gmtime"} /\ 1 + w \in Nat
    BY <1>1 DEF Kinds
  <2>. HIDE DEF w
  <2>. QED  BY <1>2, <2>1, AbortLayout
<1>3. ASSUME l >= 0, NEW tail \in Tails,
             Return([kind |-> "wstring", val |-> [len |-> s(tail), nul |-> s(tail)]],
                    1 + w + 4 * l)
      PROVE  IInv'
  <2>. HIDE DEF w, l
  <2>1. l \in Nat /\ 1 + w + 4 * l \in Nat
    BY <1>1, <1>3
  <2>2. n \in Nat /\ tail \in Nat
    BY <2>1, FirstNulType, MessageAssumption
  <2>. HIDE DEF n
  <2>3. s(tail) \in Nat
    BY <2>1, <2>2
  <2>. HIDE DEF s
  <2>. QED  BY <1>3, <2>1, <2>3, StringItemIntro, ReturnLayout
<1>. QED  BY <1>2, <1>3 DEF getWString

\* Every get method.
LEMMA GetLayout ==
    ASSUME IInv, Get
    PROVE  IInv'
<1>1. PICK heap \in HeapBytes :
         \/ \E k \in FixedKinds : GetFixed(k, heap)
         \/ getString(heap) \/ getWString(heap)
  BY Zenon DEF Get, FixedKinds, getBool, getByte, getShort, getInt, getLong, getLongLong,
     getFloat, getDouble, getChar, getWChar, getTime, getDuration
<1>2. heap \in Byte
  BY MessageAssumption
<1>. QED  BY <1>1, <1>2, GetFixedLayout, GetStringLayout, GetWStringLayout

\* The loop of debugMessagePrint.
LEMMA PrintItemLayout ==
    ASSUME IInv, PrintItem
    PROVE  IInv'
<1>1. PICK heap \in HeapBytes :
         \/ \E k \in FixedKinds : GetFixed(k, heap)
         \/ Abort("gmtime", 9)
         \/ getString(heap) \/ getWString(heap)
         \/ UNCHANGED vars
         \/ /\ printing' = FALSE
            /\ UNCHANGED <<data, data_length, length_field, offset, reads, refused, aborted>>
  BY Zenon DEF PrintItem, PrintTime, getTime, FixedKinds
<1>2. heap \in Byte
  BY MessageAssumption
<1>3. ASSUME Abort("gmtime", 9)
      PROVE  IInv'
  BY <1>3, AbortLayout
<1>4. ASSUME UNCHANGED vars
      PROVE  IInv'
  BY <1>4, StutterLayout
<1>5. ASSUME printing' = FALSE,
             UNCHANGED <<data, data_length, length_field, offset, reads, refused, aborted>>
      PROVE  IInv'
  <2>1. TypeOK'
    BY <1>5, Zenon DEF IInv, TypeOK
  <2>2. InBounds' /\ LengthIsEnd'
    BY <1>5, LayoutUnchanged DEF IInv
  <2>. QED  BY <2>1, <2>2 DEF IInv
<1>. QED
  BY <1>1, <1>2, <1>3, <1>4, <1>5, GetFixedLayout, GetStringLayout, GetWStringLayout

(***************************************************************************)
(* The theorems.                                                           *)
(***************************************************************************)
\* A new message satisfies the invariants.
LEMMA InitLayout == Init => IInv
<1>. SUFFICES ASSUME Init
              PROVE  IInv
  OBVIOUS
<1>. USE DEF Init, HEADER_SIZE, MESSAGE_LENGTH_OFFSET
<1>1. TypeOK
  <2>1. printing \in BOOLEAN
    BY Zenon
  <2>2. /\ data \in Seq([at : Nat, item : Item]) /\ reads \in Seq(Item)
        /\ data_length \in Nat /\ length_field \in Nat /\ length_field <= UINT16_MAX
        /\ offset \in Nat /\ refused \subseteq Item
        /\ aborted \subseteq Kinds \cup {"gmtime"}
    BY DEF UINT16_MAX
  <2>. QED  BY <2>1, <2>2, Zenon DEF TypeOK
<1>2. DataEnd = HEADER_SIZE
  BY DEF DataEnd
<1>3. InBounds /\ LengthIsEnd
  BY <1>2 DEF InBounds, LengthIsEnd
<1>. QED  BY <1>1, <1>3 DEF IInv

\* Every call, and every turn of the print loop, keeps the invariants.
LEMMA NextLayout == IInv /\ [Next]_vars => IInv'
<1>. SUFFICES ASSUME IInv, [Next]_vars
              PROVE  IInv'
  OBVIOUS
<1>1. CASE readMessageLength
  <2>1. DataEnd' = DataEnd /\ DataEnd \in Nat
    BY <1>1, DataEndType DEF IInv, readMessageLength, DataEnd
  <2>2. data_length' = DataEnd /\ length_field' = DataEnd
    BY <1>1 DEF IInv, LengthIsEnd, readMessageLength
  <2>3. TypeOK'
    BY <1>1 DEF IInv, TypeOK, readMessageLength
  <2>4. InBounds'
    BY <1>1, <2>1, <2>2 DEF IInv, InBounds, readMessageLength
  <2>5. LengthIsEnd'
    BY <2>1, <2>2 DEF LengthIsEnd
  <2>. QED  BY <2>3, <2>4, <2>5 DEF IInv
<1>2. CASE debugMessagePrint
  <2>1. printing' \in BOOLEAN
    BY <1>2, Zenon DEF debugMessagePrint
  <2>2. /\ refused' \subseteq Item
        /\ UNCHANGED <<data, data_length, length_field, offset, reads, aborted>>
    BY <1>2 DEF debugMessagePrint
  <2>3. TypeOK'
    BY <2>1, <2>2, Zenon DEF IInv, TypeOK
  <2>. QED  BY <2>2, <2>3, LayoutUnchanged DEF IInv
<1>3. CASE PrintDone
  <2>1. printing' \in BOOLEAN
    BY <1>3, Zenon DEF PrintDone
  <2>2. UNCHANGED <<data, data_length, length_field, offset, reads, refused, aborted>>
    BY <1>3 DEF PrintDone
  <2>3. TypeOK'
    BY <2>1, <2>2, Zenon DEF IInv, TypeOK
  <2>. QED  BY <2>2, <2>3, LayoutUnchanged DEF IInv
<1>4. CASE UNCHANGED vars
  BY <1>4, StutterLayout
<1>. QED
  BY <1>1, <1>2, <1>3, <1>4, PutLayout, GetLayout, PrintItemLayout DEF Next

\* TypeOK, InBounds and LengthIsEnd hold together in every reachable state.
THEOREM Layout == Spec => []IInv
  BY InitLayout, NextLayout, PTL DEF Spec

\* Every variable always holds a value of its type; in particular every string put
\* has a length its prefix can hold and every byte read back is a byte.
THEOREM TypeCorrect == Spec => []TypeOK
<1>1. IInv => TypeOK
  BY DEF IInv
<1>. QED  BY <1>1, Layout, PTL

\* No put, in any order with rereading the length, writes over the header, over an
\* earlier item or past the allocation, for every buffer of at most 65535 bytes.
THEOREM NeverOverruns == Spec => []InBounds
<1>1. IInv => InBounds
  BY DEF IInv
<1>. QED  BY <1>1, Layout, PTL

\* The length in the buffer is always that of the message; the member data_length
\* too, unless a wide string of more than 255 characters was put.
THEOREM LengthCorrect == Spec => []LengthIsEnd
<1>1. IInv => LengthIsEnd
  BY DEF IInv
<1>. QED  BY <1>1, Layout, PTL

\* What a step does to the memory of the last refusal.
LEMMA RefusedSteps ==
    ASSUME [Next]_vars
    PROVE  \/ refused' = {}
           \/ \E it \in Item : Refuse(it)
           \/ UNCHANGED <<data, refused>>
<1>1. ASSUME NEW it \in Item, NEW surplus, Store(it, surplus)
      PROVE  refused' = {}
  BY <1>1 DEF Store
<1>2. ASSUME Put
      PROVE  refused' = {} \/ \E it \in Item : Refuse(it)
  <2>. DEFINE Stored(it) == \E surplus : Store(it, surplus)
  <2>1. ASSUME NEW k \in FixedKinds, PutFixed(k)
        PROVE  \E it \in Item : Stored(it) \/ Refuse(it)
    <3>1. PICK v \in Values[k] : Store([kind |-> k, val |-> v], 0)
                                 \/ Refuse([kind |-> k, val |-> v])
      BY <2>1 DEF PutFixed
    <3>2. [kind |-> k, val |-> v] \in Item
      BY MessageAssumption DEF Kinds
    <3>. QED  BY <3>1, <3>2
  <2>2. ASSUME putString
        PROVE  \E it \in Item : Stored(it) \/ Refuse(it)
    <3>1. PICK v \in Values["string"] : Store([kind |-> "string", val |-> v], 0)
                                        \/ Refuse([kind |-> "string", val |-> v])
      BY <2>2 DEF putString
    <3>2. [kind |-> "string", val |-> v] \in Item
      BY MessageAssumption DEF Kinds
    <3>. QED  BY <3>1, <3>2
  <2>3. ASSUME putWString
        PROVE  \E it \in Item : Stored(it) \/ Refuse(it)
    <3>1. PICK v \in Values["wstring"] :
               Store([kind |-> "wstring", val |-> v], CountedAgain(v))
               \/ Refuse([kind |-> "wstring", val |-> v])
      BY <2>3 DEF putWString
    <3>2. [kind |-> "wstring", val |-> v] \in Item
      BY MessageAssumption DEF Kinds
    <3>. QED  BY <3>1, <3>2
  <2>4. PICK it \in Item : Stored(it) \/ Refuse(it)
    BY <1>2, <2>1, <2>2, <2>3 DEF Put, FixedKinds, putBool, putByte, putShort, putInt,
       putLong, putLongLong, putFloat, putDouble, putChar, putWChar, putTime, putDuration
  <2>. QED  BY <1>1, <2>4
<1>3. ASSUME NEW it, NEW n, Return(it, n)
      PROVE  refused' = {}
  BY <1>3 DEF Return
<1>4. ASSUME NEW k, NEW n, Abort(k, n)
      PROVE  refused' = {}
  BY <1>4 DEF Abort
<1>5. ASSUME NEW heap, NEW k, GetFixed(k, heap)
      PROVE  refused' = {}
  BY <1>3, <1>4, <1>5 DEF GetFixed
<1>6. ASSUME NEW heap, getString(heap) \/ getWString(heap)
      PROVE  refused' = {}
  BY <1>3, <1>4, <1>6, Zenon DEF getString, getWString
<1>7. ASSUME Get
      PROVE  refused' = {}
  BY <1>5, <1>6, <1>7, Zenon DEF Get, getBool, getByte, getShort, getInt, getLong,
     getLongLong, getFloat, getDouble, getChar, getWChar, getTime, getDuration
<1>8. ASSUME PrintItem
      PROVE  refused' = {} \/ UNCHANGED <<data, refused>>
  BY <1>4, <1>5, <1>6, <1>8, Zenon DEF PrintItem, PrintTime, getTime, vars
<1>. QED
  BY <1>2, <1>7, <1>8, Zenon
     DEF Next, readMessageLength, debugMessagePrint, PrintDone, vars

\* A put throws only when the item does not fit behind the last one, as long as no
\* wide string of more than 255 characters was put.
THEOREM RefusesOnlyWhenFull == Spec => []RefusedOnlyWhenFull
<1>1. Init => RefusedOnlyWhenFull
  BY DEF Init, RefusedOnlyWhenFull
<1>2. IInv /\ RefusedOnlyWhenFull /\ [Next]_vars => RefusedOnlyWhenFull'
  <2>. SUFFICES ASSUME IInv, RefusedOnlyWhenFull, [Next]_vars
                PROVE  RefusedOnlyWhenFull'
    OBVIOUS
  <2>1. CASE refused' = {}
    BY <2>1 DEF RefusedOnlyWhenFull
  <2>2. ASSUME NEW it \in Item, Refuse(it)
        PROVE  RefusedOnlyWhenFull'
    <3>1. DataEnd' = DataEnd /\ (NoDoubleCount' <=> NoDoubleCount)
      BY <2>2 DEF Refuse, DataEnd, NoDoubleCount
    <3>2. NoDoubleCount => DataEnd = data_length
      BY DEF IInv, LengthIsEnd
    <3>3. data_length + Size(it) > MAX_MSG_DATA /\ refused' = {it}
      BY <2>2 DEF Refuse
    <3>. QED  BY <3>1, <3>2, <3>3 DEF RefusedOnlyWhenFull
  <2>3. CASE UNCHANGED <<data, refused>>
    BY <2>3 DEF RefusedOnlyWhenFull, NoDoubleCount, DataEnd
  <2>. QED  BY <2>1, <2>2, <2>3, RefusedSteps
<1>. QED  BY <1>1, <1>2, Layout, PTL DEF Spec
=============================================================================
