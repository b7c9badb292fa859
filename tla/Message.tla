------------------------------ MODULE Message ------------------------------
(***************************************************************************)
(* One kcmsg::Message: a buffer of MAX_MSG_DATA bytes that the put methods *)
(* fill with type-tagged items and the get methods empty again through a   *)
(* cursor that only moves forward (src/src/Message.cpp).                   *)
(*                                                                         *)
(* The buffer is kept as the sequence of the items written into it, each   *)
(* with the offset of its tag byte; ByteAt gives the byte a read of any    *)
(* offset finds, so a getter that is out of step with the puts reads       *)
(* exactly what it would in the program.  A fixed-width value is the tuple *)
(* of its little-endian two's complement bytes; a string is its length and *)
(* the index of its first NUL character (its length when it has none).     *)
(*                                                                         *)
(* The model is of a build with assertions enabled, on an LP64 little-     *)
(* endian platform (wchar_t of 4 bytes, time_t of 8).                      *)
(***************************************************************************)
EXTENDS Integers, Sequences, FiniteSetsExt

CONSTANTS
    MAX_MSG_DATA, \* size of the allocation, 0xFFFF in the code
    Values,       \* Values[k]: the arguments callers pass to the put method of kind k
    HeapBytes,    \* the values a byte just past the allocation may have
    Tails,        \* how many wide characters may run on from a wide string
                  \* whose terminator was never written
    MaxPuts       \* bound on the number of items put into the message

FixedKinds == {"bool", "byte", "short", "int", "long", "longlong", "float",
               "double", "char", "wchar", "time", "duration"}
Kinds == FixedKinds \cup {"string", "wstring"}

UINT16_MAX == 65535
MESSAGE_LENGTH_OFFSET == 24
HEADER_SIZE == MESSAGE_LENGTH_OFFSET + 2

DATA_TYPE == [bool |-> 1, byte |-> 2, short |-> 3, int |-> 4, long |-> 5,
              longlong |-> 6, float |-> 7, double |-> 8, char |-> 9,
              wchar |-> 10, time |-> 15, duration |-> 16]
STRING_1 == 11
STRING_2 == 12
WSTRING_1 == 13
WSTRING_2 == 14
StringTag == [string |-> <<STRING_1, STRING_2>>, wstring |-> <<WSTRING_1, WSTRING_2>>]
ArrayTypes == 17..28

\* The bytes a put method writes after the tag, and those the getter reads.
PutWidth == [bool |-> 1, byte |-> 1, short |-> 2, int |-> 4, long |-> 4,
             longlong |-> 8, float |-> 4, double |-> 8, char |-> 1,
             wchar |-> 4, time |-> 8, duration |-> 4]
\* A plausible slip (used by no action): a duration read through a 16-bit buffer.
GetWidthOfHalfDuration == [PutWidth EXCEPT !["long"] = 2, !["duration"] = 2]

GetWidth == [PutWidth EXCEPT !["long"] = 2]

CharWidth == [string |-> 1, wstring |-> 4]

Byte == 0..255
StringValue == {v \in [len : Nat, nul : Nat] : v.nul <= v.len}
FixedItem ==
    {it \in [kind : FixedKinds, val : Seq(Byte)] :
        /\ Len(it.val) = PutWidth[it.kind]
        /\ it.kind = "bool" => it.val[1] \in {0, 1}}
StringItem == [kind : {"string", "wstring"}, val : StringValue]
Item == FixedItem \cup StringItem

ASSUME MessageAssumption ==
    /\ MAX_MSG_DATA \in Nat /\ HEADER_SIZE <= MAX_MSG_DATA /\ MAX_MSG_DATA <= UINT16_MAX
    /\ \A k \in Kinds : \A v \in Values[k] : [kind |-> k, val |-> v] \in Item
    /\ HeapBytes \subseteq Byte
    /\ Tails \subseteq Nat
    /\ MaxPuts \in Nat

VARIABLES
    data,         \* the writes made into the buffer, in order: [at, item]
    data_length,  \* the member data_length
    length_field, \* the two bytes of the buffer at MESSAGE_LENGTH_OFFSET
    offset,       \* the member offset, the read cursor
    reads,        \* history: what the getters returned, in order
    refused,      \* the item the last put threw domain_error on, if it did
    aborted,      \* what ended the process: the getter of a kind, or gmtime
    printing      \* the loop of debugMessagePrint is running

vars == <<data, data_length, length_field, offset, reads, refused, aborted, printing>>

----------------------------------------------------------------------------
(* The layout of an item in the buffer.                                    *)

LenWidth(l) == IF l > 255 THEN 2 ELSE 1

\* A plausible slip (used by no action): short wide strings tagged as an array.
TagOfArray(it) ==
    IF it.kind \in FixedKinds
    THEN DATA_TYPE[it.kind]
    ELSE IF it.kind = "wstring" /\ it.val.len <= 255 THEN 26
    ELSE StringTag[it.kind][LenWidth(it.val.len)]

TagOf(it) ==
    IF it.kind \in FixedKinds
    THEN DATA_TYPE[it.kind]
    ELSE StringTag[it.kind][LenWidth(it.val.len)]

Size(it) ==
    IF it.kind \in FixedKinds
    THEN 1 + PutWidth[it.kind]
    ELSE 1 + LenWidth(it.val.len) + CharWidth[it.kind] * it.val.len

\* Byte number i (from 0) of a string's length prefix and characters; every
\* character that is not NUL is the letter 'a'.
Letter == 97
StringByte(it, i) ==
    LET l == it.val.len
        c == i - 1 - LenWidth(l)
    IN  IF i = 1 THEN l % 256
        ELSE IF c < 0 THEN l \div 256
        ELSE IF c % CharWidth[it.kind] = 0 /\ c \div CharWidth[it.kind] # it.val.nul
             THEN Letter ELSE 0

ByteOf(it, i) ==
    IF i = 0 THEN TagOf(it)
    ELSE IF it.kind \in FixedKinds THEN it.val[i]
    ELSE StringByte(it, i)

Covers(w, o) == w.at <= o /\ o < w.at + Size(w.item)

\* What a read of data[o] finds: the heap past the end of the allocation, the
\* item written there, or the zero the constructor's memset left.
ByteAt(o, heap) ==
    IF o >= MAX_MSG_DATA THEN heap
    ELSE IF \E n \in DOMAIN data : Covers(data[n], o)
         THEN LET n == CHOOSE n \in DOMAIN data : Covers(data[n], o)
              IN  ByteOf(data[n].item, o - data[n].at)
         ELSE 0

----------------------------------------------------------------------------
(* The put methods.                                                        *)

Init ==
    /\ data = <<>>
    /\ data_length = HEADER_SIZE
    /\ length_field = HEADER_SIZE
    /\ offset = HEADER_SIZE
    /\ reads = <<>>
    /\ refused = {}
    /\ aborted = {}
    /\ printing = FALSE

\* The caller may make another call: the process lives and no call is running.
Idle == aborted = {} /\ ~printing

\* Plausible slips (used by no action): the double count written into the buffer
\* too, and the length stored before delta is added to it.
CountedInBuffer(delta, surplus) ==
    /\ data_length' = data_length + delta + surplus
    /\ length_field' = data_length + delta + surplus

StoredTooEarly(delta, surplus) ==
    /\ data_length' = data_length + delta + surplus
    /\ length_field' = data_length % (UINT16_MAX + 1)

\* updateDataLength: both the member and the two bytes in the buffer move on;
\* surplus is what the caller of updateDataLength adds to the member afterwards.
updateDataLength(delta, surplus) ==
    /\ data_length' = data_length + delta + surplus
    /\ length_field' = (data_length + delta) % (UINT16_MAX + 1)

\* A plausible slip (used by no action): the tag byte left out of the test for room.
StoreUncountedTag(it, surplus) ==
    /\ data_length + Size(it) - 1 <= MAX_MSG_DATA
    /\ data' = Append(data, [at |-> data_length, item |-> it])
    /\ updateDataLength(Size(it), surplus)
    /\ refused' = {}
    /\ UNCHANGED <<offset, reads, aborted, printing>>

Store(it, surplus) ==
    /\ data_length + Size(it) <= MAX_MSG_DATA
    /\ data' = Append(data, [at |-> data_length, item |-> it])
    /\ updateDataLength(Size(it), surplus)
    /\ refused' = {}
    /\ UNCHANGED <<offset, reads, aborted, printing>>

\* A plausible slip (used by no action): an item that fits exactly is refused.
RefuseExactFit(it) ==
    /\ data_length + Size(it) >= MAX_MSG_DATA
    /\ refused' = {it}
    /\ UNCHANGED <<data, data_length, length_field, offset, reads, aborted, printing>>

Refuse(it) ==
    /\ data_length + Size(it) > MAX_MSG_DATA
    /\ refused' = {it}
    /\ UNCHANGED <<data, data_length, length_field, offset, reads, aborted, printing>>

PutFixed(k) ==
    /\ Idle
    /\ Len(data) < MaxPuts
    /\ \E v \in Values[k] :
          LET it == [kind |-> k, val |-> v]
          IN  Store(it, 0) \/ Refuse(it)

putBool == PutFixed("bool")
putByte == PutFixed("byte")
putShort == PutFixed("short")
putInt == PutFixed("int")
putLong == PutFixed("long")
putLongLong == PutFixed("longlong")
putFloat == PutFixed("float")
putDouble == PutFixed("double")
putChar == PutFixed("char")
putWChar == PutFixed("wchar")
putTime == PutFixed("time")
putDuration == PutFixed("duration")

putString ==
    /\ Idle
    /\ Len(data) < MaxPuts
    /\ \E v \in Values["string"] :
          LET it == [kind |-> "string", val |-> v]
          IN  Store(it, 0) \/ Refuse(it)

\* A wide string of more than 255 characters is counted twice: after the last
\* updateDataLength the method adds the characters' bytes to data_length again.
CountedAgain(v) == IF v.len > 255 THEN 4 * v.len ELSE 0

putWString ==
    /\ Idle
    /\ Len(data) < MaxPuts
    /\ \E v \in Values["wstring"] :
          LET it == [kind |-> "wstring", val |-> v]
          IN  Store(it, CountedAgain(v)) \/ Refuse(it)

\* A plausible slip (used by no action): the length taken for that of the user data.
LengthWithoutHeader ==
    /\ Idle
    /\ data_length' = length_field - HEADER_SIZE
    /\ refused' = {}
    /\ UNCHANGED <<data, length_field, offset, reads, aborted, printing>>

\* readMessageLength takes the member back from the two bytes in the buffer.
readMessageLength ==
    /\ Idle
    /\ data_length' = length_field
    /\ refused' = {}
    /\ UNCHANGED <<data, length_field, offset, reads, aborted, printing>>

----------------------------------------------------------------------------
(* The get methods.  Each reads the tag, moves past it and asserts it; none *)
(* looks at data_length.                                                    *)

Return(it, n) ==
    /\ offset' = offset + n
    /\ reads' = Append(reads, it)
    /\ refused' = {}
    /\ UNCHANGED <<data, data_length, length_field, aborted, printing>>

Abort(k, n) ==
    /\ offset' = offset + n
    /\ aborted' = {k}
    /\ refused' = {}
    /\ printing' = FALSE
    /\ UNCHANGED <<data, data_length, length_field, reads>>

SignByte(b) == IF b >= 128 THEN 255 ELSE 0

\* A plausible slip (used by no action): a short's bytes taken in network order.
DecodeSwapped(k, b) ==
    IF k = "short" THEN <<b[2], b[1]>>
    ELSE IF k = "long" THEN <<b[1], b[2], SignByte(b[2]), SignByte(b[2])>>
    ELSE b

\* The value a getter makes of the bytes it read: getBool normalises to 0 or 1,
\* getLong sign-extends the two bytes it reads to four.
Decode(k, b) ==
    IF k = "bool" THEN <<IF b[1] # 0 THEN 1 ELSE 0>>
    ELSE IF k = "long" THEN <<b[1], b[2], SignByte(b[2]), SignByte(b[2])>>
    ELSE b

GetFixed(k, heap) ==
    \/ /\ ByteAt(offset, heap) = DATA_TYPE[k]
       /\ LET b == [i \in 1..GetWidth[k] |-> ByteAt(offset + i, heap)]
          IN  Return([kind |-> k, val |-> Decode(k, b)], 1 + GetWidth[k])
    \/ /\ ByteAt(offset, heap) # DATA_TYPE[k]
       /\ Abort(k, 1)

getBool(heap) == GetFixed("bool", heap)
getByte(heap) == GetFixed("byte", heap)
getShort(heap) == GetFixed("short", heap)
getInt(heap) == GetFixed("int", heap)
getLong(heap) == GetFixed("long", heap)
getLongLong(heap) == GetFixed("longlong", heap)
getFloat(heap) == GetFixed("float", heap)
getDouble(heap) == GetFixed("double", heap)
getChar(heap) == GetFixed("char", heap)
getWChar(heap) == GetFixed("wchar", heap)
getTime(heap) == GetFixed("time", heap)
getDuration(heap) == GetFixed("duration", heap)

\* A plausible slip (used by no action): the sign of one-byte lengths off by one.
SignedLengthOffByOne(w, heap) ==
    LET low == ByteAt(offset + 1, heap)
        l   == IF w = 1 THEN low ELSE low + 256 * ByteAt(offset + 2, heap)
    IN  IF w = 1 THEN (IF l > 126 THEN l - 256 ELSE l)
                 ELSE (IF l > 32767 THEN l - 65536 ELSE l)

\* A length prefix of w bytes, read as the signed integer the getters declare.
SignedLength(w, heap) ==
    LET low == ByteAt(offset + 1, heap)
        l   == IF w = 1 THEN low ELSE low + 256 * ByteAt(offset + 2, heap)
    IN  IF w = 1 THEN (IF l > 127 THEN l - 256 ELSE l)
                 ELSE (IF l > 32767 THEN l - 65536 ELSE l)

\* The index of the first NUL among the l characters of c bytes from offset o on,
\* or l.  At an item of that kind it is the index the item was put with.
FirstNul(k, c, o, l, heap) ==
    IF \E n \in DOMAIN data : data[n].at = offset /\ data[n].item.kind = k
    THEN LET n == CHOOSE n \in DOMAIN data : data[n].at = offset /\ data[n].item.kind = k
         IN  data[n].item.val.nul
    ELSE Min({l} \cup {i \in 0..(l - 1) :
                          \A j \in 0..(c - 1) : ByteAt(o + c * i + j, heap) = 0})

\* The string object keeps the characters up to the first NUL, as assign(char *)
\* does.  A negative length becomes a size near 2^64: malloc returns NULL (the
\* assertion on ptr fails), or for -1 is asked for 0 bytes and the copy faults.
getString(heap) ==
    \/ /\ ByteAt(offset, heap) \notin {STRING_1, STRING_2}
       /\ Abort("string", 1)
    \/ /\ ByteAt(offset, heap) \in {STRING_1, STRING_2}
       /\ LET w == IF ByteAt(offset, heap) = STRING_1 THEN 1 ELSE 2
              l == SignedLength(w, heap)
          IN  \/ /\ l < 0
                 /\ Abort("string", 1 + w)
              \/ /\ l >= 0
                 /\ LET s == FirstNul("string", 1, offset + 1 + w, l, heap)
                    IN  Return([kind |-> "string", val |-> [len |-> s, nul |-> s]],
                               1 + w + l)

\* The copy's terminator is never written (memset clears l + 1 bytes, not l + 1
\* wide characters), so without a NUL of its own the string may run on.
getWString(heap) ==
    \/ /\ ByteAt(offset, heap) \notin {WSTRING_1, WSTRING_2}
       /\ Abort("wstring", 1)
    \/ /\ ByteAt(offset, heap) \in {WSTRING_1, WSTRING_2}
       /\ LET w == IF ByteAt(offset, heap) = WSTRING_1 THEN 1 ELSE 2
              l == SignedLength(w, heap)
          IN  \/ /\ l < 0
                 /\ Abort("wstring", 1 + w)
              \/ /\ l >= 0
                 /\ \E tail \in Tails :
                      LET n == FirstNul("wstring", 4, offset + 1 + w, l, heap)
                          s == IF n < l THEN n ELSE l + tail
                      IN  Return([kind |-> "wstring", val |-> [len |-> s, nul |-> s]],
                                 1 + w + 4 * l)

\* Any getter at any time.  Bound: once the cursor is past the allocation the
\* model takes no further call.
Get ==
    /\ Idle
    /\ offset <= MAX_MSG_DATA
    /\ \E heap \in HeapBytes :
          \/ getBool(heap) \/ getByte(heap) \/ getShort(heap) \/ getInt(heap)
          \/ getLong(heap) \/ getLongLong(heap) \/ getFloat(heap)
          \/ getDouble(heap) \/ getChar(heap) \/ getWChar(heap) \/ getTime(heap)
          \/ getDuration(heap) \/ getString(heap) \/ getWString(heap)

----------------------------------------------------------------------------
(* debugMessagePrint walks the rest of the message with the getters.       *)

debugMessagePrint ==
    /\ Idle
    /\ printing' = TRUE
    /\ refused' = {}
    /\ UNCHANGED <<data, data_length, length_field, offset, reads, aborted>>

\* gmtime returns NULL for a time whose year does not fit an int: seconds beyond
\* 0x00F0C2..., either way (to the nearest 2^40 seconds).
NoDate(v) ==
    LET high == 256 * v[7] + v[6]
    IN  \/ v[8] \notin {0, 255}
        \/ v[8] = 0 /\ high > 61634
        \/ v[8] = 255 /\ high < 3901

\* The time item: printing follows the pointer gmtime returned.
PrintTime(heap) ==
    LET v == [i \in 1..8 |-> ByteAt(offset + i, heap)]
    IN  \/ ~NoDate(v) /\ getTime(heap)
        \/ NoDate(v) /\ Abort("gmtime", 9)

\* One turn of the loop: the getter of the type found, nothing at all for an
\* array type (the cursor stays), domain_error for any other byte.  Bound: the
\* loop is not followed once the cursor is past the allocation.
PrintItem ==
    /\ printing
    /\ offset < data_length
    /\ offset <= MAX_MSG_DATA
    /\ \E heap \in HeapBytes :
        LET dt == ByteAt(offset, heap)
        IN  \/ \E k \in FixedKinds \ {"time"} : dt = DATA_TYPE[k] /\ GetFixed(k, heap)
            \/ dt = DATA_TYPE["time"] /\ PrintTime(heap)
            \/ dt \in {STRING_1, STRING_2} /\ getString(heap)
            \/ dt \in {WSTRING_1, WSTRING_2} /\ getWString(heap)
            \/ dt \in ArrayTypes /\ UNCHANGED vars
            \/ /\ dt \notin 1..28
               /\ printing' = FALSE
               /\ UNCHANGED <<data, data_length, length_field, offset, reads,
                              refused, aborted>>

\* A plausible slip (used by no action): no turn of the loop for the last two bytes.
PrintDoneEarly ==
    /\ printing
    /\ offset + 2 >= data_length
    /\ printing' = FALSE
    /\ UNCHANGED <<data, data_length, length_field, offset, reads, refused, aborted>>

PrintDone ==
    /\ printing
    /\ offset >= data_length
    /\ printing' = FALSE
    /\ UNCHANGED <<data, data_length, length_field, offset, reads, refused, aborted>>

----------------------------------------------------------------------------
Put ==
    \/ putBool \/ putByte \/ putShort \/ putInt \/ putLong \/ putLongLong
    \/ putFloat \/ putDouble \/ putChar \/ putWChar \/ putTime \/ putDuration
    \/ putString \/ putWString

Next ==
    \/ Put
    \/ readMessageLength
    \/ Get
    \/ debugMessagePrint
    \/ PrintItem
    \/ PrintDone

\* The loop of debugMessagePrint runs on in its thread; calls need not be made.
Spec == Init /\ [][Next]_vars /\ WF_vars(PrintItem \/ PrintDone)
----------------------------------------------------------------------------
(* Properties.                                                             *)

\* Every variable holds a value of its type.
TypeOK ==
    /\ data \in Seq([at : Nat, item : Item])
    /\ data_length \in Nat
    /\ length_field \in Nat /\ length_field <= UINT16_MAX
    /\ offset \in Nat
    /\ reads \in Seq(Item)
    /\ refused \subseteq Item
    /\ aborted \subseteq Kinds \cup {"gmtime"}
    /\ printing \in BOOLEAN

\* One past the last byte ever written into the buffer.
DataEnd ==
    IF data = <<>> THEN HEADER_SIZE
    ELSE data[Len(data)].at + Size(data[Len(data)].item)

\* The getter of an item stops where the put that wrote it stopped: not so for a
\* long (2 bytes of 4 are read), a string whose length is negative once signed,
\* or a wide string whose put leaves a gap behind it.
InStep(it) ==
    /\ it.kind # "long"
    /\ it.kind = "string" => \/ it.val.len < 128
                             \/ 256 <= it.val.len /\ it.val.len < 32768
    /\ it.kind = "wstring" => it.val.len < 128

\* ... and returns the value that was put.
Faithful(it) ==
    /\ InStep(it)
    /\ it.kind # "wstring"
    /\ it.kind = "string" => it.val.nul = it.val.len

AllInStep == \A n \in DOMAIN data : InStep(data[n].item)

\* No put writes over the header, over the length field, over an earlier item or
\* past the allocation, whatever was put and however often the length was reread;
\* nor will the next one.
InBounds ==
    /\ \A n \in DOMAIN data :
        /\ HEADER_SIZE <= data[n].at
        /\ data[n].at + Size(data[n].item) <= MAX_MSG_DATA
        /\ \A m \in 1..(n - 1) : data[m].at + Size(data[m].item) <= data[n].at
    /\ DataEnd <= data_length

\* No wide string is so long that its put counts it twice.
NoDoubleCount ==
    \A n \in DOMAIN data : data[n].item.kind = "wstring" => data[n].item.val.len <= 255

\* The length stored in the buffer, the one a receiver would read, always ends
\* the message where its last item ends; so does the member data_length, except
\* after a wide string of more than 255 characters.
LengthIsEnd ==
    /\ length_field = DataEnd
    /\ NoDoubleCount => data_length = DataEnd

\* Where the n-th item starts, or where the next one will.
StartOf(n) == IF n <= Len(data) THEN data[n].at ELSE data_length

\* While every item is one its getter steps over exactly, the cursor of a living
\* process stands between two items, after as many items as were returned.  (A
\* message filled to its last byte is left out: a read past its end leaves the
\* allocation, and what it finds there may pass for an item.)
Synchronised ==
    AllInStep /\ aborted = {} /\ data_length < MAX_MSG_DATA =>
        /\ Len(reads) <= Len(data)
        /\ offset = StartOf(Len(reads) + 1)

\* The n-th value returned is the n-th value put, when the n-th item is one the
\* format carries faithfully and every item before it was stepped over exactly.
RoundTrip ==
    \A n \in DOMAIN reads :
        /\ n \in DOMAIN data
        /\ \A m \in 1..n : InStep(data[m].item)
        /\ Faithful(data[n].item)
        => reads[n] = data[n].item

\* The assertions in the getters stop only a caller who asked for the wrong type
\* or for more items than there are: what asserting the type tag says.
OnlyMisuseAborts ==
    aborted # {} =>
        \/ Len(reads) >= Len(data)
        \/ data[Len(reads) + 1].item.kind \notin aborted

\* ... which is so when every item is one its getter steps over exactly.
NoSpuriousAbort == AllInStep => OnlyMisuseAborts

\* A put throws only when the item does not fit behind the last one, as long as no
\* wide string of more than 255 characters used up the room twice.
RefusedOnlyWhenFull ==
    NoDoubleCount => \A it \in refused : DataEnd + Size(it) > MAX_MSG_DATA

\* debugMessagePrint ends only after every item was printed, in a message of items
\* that are stepped over exactly and times that have a date.
PrintReadsAll ==
    [][printing /\ ~printing' /\ AllInStep
       /\ (\A n \in DOMAIN data : data[n].item.kind = "time" => ~NoDate(data[n].item.val))
       => aborted' = {} /\ Len(reads') >= Len(data)]_vars

\* debugMessagePrint returns, in a message of items that are stepped over exactly.
PrintReturns == (printing /\ AllInStep) ~> ~printing

=============================================================================
