----------------------- MODULE MessageTransfer_proofs -----------------------
(***************************************************************************)
(* What holds of ReadMessage for buffers and messages of every size.  All  *)
(* follows from the account of the bytes: until the length can be looked   *)
(* for, what is stored and what is left make up the buffer; from then on   *)
(* nleft is 2^w less what is stored, which no read() accepts.              *)
(***************************************************************************)
EXTENDS MessageTransfer, SequenceTheorems, TLAPS

\* A system call moves no more bytes than were asked for, and no more than there are.
LEMMA MinOfTwo ==
    ASSUME NEW a \in Int, NEW b \in Int
    PROVE  Min({a, b}) \in Int /\ Min({a, b}) <= a /\ Min({a, b}) <= b
  <1>1. \E x \in {a, b} : \A y \in {a, b} : x <= y
    OBVIOUS
  <1>2. Min({a, b}) \in {a, b} /\ \A y \in {a, b} : Min({a, b}) <= y
    BY <1>1 DEF Min
  <1> QED
    BY <1>2

Account ==
    IF reader.stored < LengthKnown
    THEN reader.stored + reader.nleft = reader.nbytes
    ELSE /\ reader.pc \in {"reading", "failed"}
         /\ reader.stored <= reader.nbytes
         /\ reader.nleft = SIZE_MAX + 1 - reader.stored

\* A closed stream gets no more bytes, and a call that returned with its buffer not
\* full found nothing left in it.
Ended ==
    /\ closed => wleft = 0
    /\ reader.pc = "returned" /\ reader.nleft > 0 => closed /\ backlog = 0

IInv == TypeOK /\ Account /\ Ended

----------------------------------------------------------------------------
(* Lemmas.                                                                 *)

LEMMA Limits ==
    /\ LengthKnown \in Nat /\ LengthKnown > 0
    /\ SIZE_MAX \in Nat /\ SSIZE_MAX \in Nat /\ 2 * SSIZE_MAX <= SIZE_MAX
    /\ \A n \in Sizes \cup {0} : n \in Nat /\ n <= SSIZE_MAX
  <1>1. LengthKnown \in Nat /\ LengthKnown > 0
    BY TransferAssumption
  <1>2. SIZE_MAX \in Nat
    BY TransferAssumption
  <1>3. SSIZE_MAX \in Nat /\ 2 * SSIZE_MAX <= SIZE_MAX
    BY <1>2 DEF SSIZE_MAX
  <1>4. \A n \in Sizes \cup {0} : n \in Nat /\ n <= SSIZE_MAX
    <2>1. \A n \in Sizes : n \in Nat /\ n <= SSIZE_MAX
      BY TransferAssumption DEF SSIZE_MAX
    <2> QED
      BY <1>3, <2>1
  <1> QED
    BY <1>1, <1>2, <1>3, <1>4

LEMMA ReaderType ==
    ASSUME TypeOK
    PROVE  /\ reader.nbytes \in Nat /\ reader.nbytes <= SSIZE_MAX
           /\ reader.nleft \in Nat /\ reader.nleft <= SIZE_MAX
           /\ reader.stored \in Nat /\ reader.msgsize = 0
           /\ reader = [pc |-> reader.pc, nbytes |-> reader.nbytes, nleft |-> reader.nleft,
                        stored |-> reader.stored, msgsize |-> reader.msgsize]
  <1>1. /\ reader.nbytes \in Sizes \cup {0} /\ reader.nleft \in 0..SIZE_MAX
        /\ reader.stored \in Nat /\ reader.msgsize = 0
        /\ reader = [pc |-> reader.pc, nbytes |-> reader.nbytes, nleft |-> reader.nleft,
                     stored |-> reader.stored, msgsize |-> reader.msgsize]
    BY DEF TypeOK
  <1>2. reader.nbytes \in Nat /\ reader.nbytes <= SSIZE_MAX
    BY <1>1, Limits
  <1>3. reader.nleft \in Nat /\ reader.nleft <= SIZE_MAX
    BY <1>1, Limits
  <1> QED
    BY <1>1, <1>2, <1>3

\* What one read() makes of nleft: it wraps exactly when the length can be looked for.
LEMMA NextLeft ==
    ASSUME IInv, Reading, reader.nleft <= SSIZE_MAX,
           NEW k \in Nat \ {0}, k <= reader.nleft
    PROVE  LET left == Minus(reader.nleft, k)
           IN  /\ left = reader.nleft - k
               /\ reader.stored < LengthKnown
               /\ Enough(reader, left) = (reader.stored + k >= LengthKnown)
               /\ LeftAfter(reader, left) =
                     IF reader.stored + k >= LengthKnown THEN SIZE_MAX + 1 - (reader.stored + k)
                     ELSE reader.nleft - k
  <1> DEFINE left == Minus(reader.nleft, k)
             s == reader.stored  l == reader.nleft  n == reader.nbytes
  <1>1. /\ n \in Nat /\ n <= SSIZE_MAX /\ l \in Nat /\ l <= SSIZE_MAX /\ s \in Nat
        /\ reader.msgsize = 0 /\ k \in Nat /\ k > 0 /\ k <= l
    BY ReaderType DEF IInv
  <1>2. /\ SIZE_MAX \in Nat /\ SSIZE_MAX \in Nat /\ 2 * SSIZE_MAX <= SIZE_MAX
        /\ LengthKnown \in Nat /\ LengthKnown > 0
    BY Limits
  <1>3. s < LengthKnown /\ s + l = n
    <2>1. CASE s < LengthKnown
      BY <2>1 DEF IInv, Account
    <2>2. CASE ~(s < LengthKnown)
      <3>1. s <= n /\ l = SIZE_MAX + 1 - s
        BY <2>2 DEF IInv, Account
      <3> QED
        BY <1>1, <1>2, <3>1
    <2> QED
      BY <2>1, <2>2
  <1>4. left = l - k
    BY <1>1 DEF Minus
  <1>5. Minus(n, left) = s + k
    <2>1. ~(n < left) /\ n - left = s + k
      BY <1>1, <1>3, <1>4
    <2> QED
      BY <2>1 DEF Minus
  <1>6. Enough(reader, left) = (s + k >= LengthKnown)
    BY <1>1, <1>5 DEF Enough
  <1>7. Minus(left, n - 0) = SIZE_MAX + 1 - (s + k)
    <2>1. left < n - 0 /\ left - (n - 0) + SIZE_MAX + 1 = SIZE_MAX + 1 - (s + k)
      BY <1>1, <1>2, <1>3, <1>4
    <2> QED
      BY <2>1 DEF Minus
  <1>8. LeftAfter(reader, left) =
            IF s + k >= LengthKnown THEN SIZE_MAX + 1 - (s + k) ELSE l - k
    BY <1>1, <1>4, <1>6, <1>7 DEF LeftAfter
  <1> QED
    BY <1>3, <1>4, <1>6, <1>8

----------------------------------------------------------------------------
(* The steps.                                                              *)

LEMMA WriterSteps ==
    IInv /\ (WriteMessage \/ WriteSome \/ WriteFails \/ CloseWriter) => IInv'
  <1> SUFFICES ASSUME IInv, WriteMessage \/ WriteSome \/ WriteFails \/ CloseWriter
               PROVE  IInv'
    OBVIOUS
  <1>1. backlog \in Nat /\ wleft \in Nat /\ reads \in Nat /\ written \in Seq(Lengths)
    BY DEF IInv, TypeOK
  <1>2. CASE WriteMessage
    <2>1. PICK length \in Lengths : wleft' = length /\ written' = Append(written, length)
      BY <1>2 DEF WriteMessage
    <2>2. length \in Nat
      BY TransferAssumption
    <2>3. written' \in Seq(Lengths)
      BY <1>1, <2>1, AppendProperties
    <2> QED
      BY <1>2, <2>1, <2>2, <2>3 DEF WriteMessage, IInv, TypeOK, Account, Ended
  <1>3. CASE WriteSome
    <2>1. PICK k \in 1..wleft : backlog' = backlog + k /\ wleft' = wleft - k
      BY <1>3 DEF WriteSome
    <2>2. backlog' \in Nat /\ wleft' \in Nat /\ wleft # 0
      BY <1>1, <2>1
    <2> QED
      BY <1>3, <2>2 DEF WriteSome, IInv, TypeOK, Account, Ended
  <1>4. CASE WriteFails
    BY <1>1, <1>4 DEF WriteFails, IInv, TypeOK, Account, Ended
  <1>5. CASE CloseWriter
    BY <1>5 DEF CloseWriter, IInv, TypeOK, Account, Ended
  <1> QED
    BY <1>2, <1>3, <1>4, <1>5

LEMMA ReadMessageStep == IInv /\ ReadMessage => IInv'
  <1> SUFFICES ASSUME IInv, ReadMessage
               PROVE  IInv'
    OBVIOUS
  <1>1. PICK n \in Sizes : reader' = [Idle EXCEPT !.pc = "reading", !.nbytes = n, !.nleft = n]
    BY DEF ReadMessage
  <1>2. /\ n \in Nat /\ n <= SIZE_MAX /\ LengthKnown \in Nat /\ 0 < LengthKnown
    BY Limits
  <1>3. reader' = [pc |-> "reading", nbytes |-> n, nleft |-> n, stored |-> 0, msgsize |-> 0]
    BY <1>1 DEF Idle
  <1>4. /\ reads' = reads + 1 /\ reads \in Nat
        /\ UNCHANGED <<backlog, closed, wleft, written>>
    BY DEF ReadMessage, IInv, TypeOK
  <1>5. TypeOK'
    <2>1. n \in 0..SIZE_MAX /\ reads' \in Nat
      BY <1>2, <1>4, Limits
    <2> QED
      BY <1>3, <1>4, <2>1 DEF IInv, TypeOK
  <1>6. Account'
    BY <1>2, <1>3 DEF Account
  <1>7. Ended'
    BY <1>3, <1>4 DEF IInv, Ended
  <1> QED
    BY <1>5, <1>6, <1>7 DEF IInv

LEMMA ReadSomeStep == IInv /\ ReadSome => IInv'
  <1> SUFFICES ASSUME IInv, ReadSome
               PROVE  IInv'
    OBVIOUS
  <1>1. /\ Reading /\ reader.nleft <= SSIZE_MAX
        /\ UNCHANGED <<closed, wleft, written, reads>>
    BY DEF ReadSome
  <1>2. PICK k \in 1..Min({reader.nleft, backlog}) :
          /\ backlog' = backlog - k
          /\ \/ reader' = [reader EXCEPT !.nleft = LeftAfter(reader, Minus(reader.nleft, k)),
                                         !.stored = @ + k]
             \/ reader' = [Idle EXCEPT !.pc = "killed"]
    BY DEF ReadSome
  <1>3. /\ reader.nbytes \in Nat /\ reader.nbytes <= SSIZE_MAX /\ reader.nleft \in Nat
        /\ reader.stored \in Nat /\ reader.msgsize = 0 /\ backlog \in Nat
    BY ReaderType DEF IInv, TypeOK
  <1>4. k \in Nat \ {0} /\ k <= reader.nleft /\ k <= backlog
    <2>1. reader.nleft \in Int /\ backlog \in Int
      BY <1>3
    <2>2. /\ Min({reader.nleft, backlog}) \in Int
          /\ Min({reader.nleft, backlog}) <= reader.nleft
          /\ Min({reader.nleft, backlog}) <= backlog
      BY <2>1, MinOfTwo
    <2>3. k \in Int /\ 1 <= k /\ k <= Min({reader.nleft, backlog})
      BY <1>2, <2>2
    <2> QED
      BY <2>1, <2>2, <2>3
  <1>5. backlog' \in Nat
    BY <1>2, <1>3, <1>4
  <1>6. SIZE_MAX \in Nat /\ SSIZE_MAX \in Nat /\ 2 * SSIZE_MAX <= SIZE_MAX
        /\ LengthKnown \in Nat /\ LengthKnown > 0
    BY Limits
  <1> DEFINE left == Minus(reader.nleft, k)
             total == reader.stored + k
             after == LeftAfter(reader, left)
  <1>7. /\ reader.stored < LengthKnown
        /\ after = IF total >= LengthKnown THEN SIZE_MAX + 1 - total ELSE reader.nleft - k
    BY <1>1, <1>4, NextLeft
  <1>8. total <= reader.nbytes /\ total \in Nat /\ total > 0 /\ total + (reader.nleft - k) = reader.nbytes
    <2>1. reader.stored + reader.nleft = reader.nbytes
      BY <1>7 DEF IInv, Account
    <2> QED
      BY <1>3, <1>4, <2>1
  <1>9. after \in 0..SIZE_MAX
    <2>1. CASE total >= LengthKnown
      <3>1. after = SIZE_MAX + 1 - total
        BY <1>7, <2>1
      <3> HIDE DEF after, total
      <3> QED
        BY <1>3, <1>6, <1>8, <3>1
    <2>2. CASE ~(total >= LengthKnown)
      <3>1. after = reader.nleft - k
        BY <1>7, <2>2
      <3> HIDE DEF after
      <3> QED
        BY <1>1, <1>3, <1>4, <1>6, <3>1
    <2> QED
      BY <2>1, <2>2
  <1>10. CASE reader' = [reader EXCEPT !.nleft = after, !.stored = @ + k]
    <2>1. reader' = [pc |-> "reading", nbytes |-> reader.nbytes, nleft |-> after,
                     stored |-> total, msgsize |-> 0]
      <3>1. /\ reader = [pc |-> reader.pc, nbytes |-> reader.nbytes, nleft |-> reader.nleft,
                         stored |-> reader.stored, msgsize |-> reader.msgsize]
            /\ reader.pc = "reading"
        BY <1>1, ReaderType DEF IInv, Reading
      <3>2. reader' = [reader EXCEPT !.nleft = after, !.stored = total]
        BY <1>10, <3>1
      <3> HIDE DEF after, total
      <3> QED
        BY <1>3, <3>1, <3>2
    <2> HIDE DEF after, total
    <2>2. TypeOK'
      <3>1. reader.nbytes \in Sizes \cup {0}
        BY DEF IInv, TypeOK
      <3> QED
        BY <1>1, <1>5, <1>8, <1>9, <2>1, <3>1 DEF IInv, TypeOK
    <2>3. Account'
      <3>1. /\ reader'.stored = total /\ reader'.nleft = after /\ reader'.nbytes = reader.nbytes
            /\ reader'.pc = "reading"
        BY <2>1
      <3>2. CASE total >= LengthKnown
        <4>1. after = SIZE_MAX + 1 - total
          BY <1>7, <3>2
        <4>2. ~(total < LengthKnown)
          BY <1>6, <1>8, <3>2
        <4> QED
          BY <1>8, <3>1, <4>1, <4>2 DEF Account
      <3>3. CASE ~(total >= LengthKnown)
        <4>1. after = reader.nleft - k /\ total < LengthKnown
          BY <1>6, <1>7, <1>8, <3>3
        <4> QED
          BY <1>8, <3>1, <4>1 DEF Account
      <3> QED
        BY <3>2, <3>3
    <2>4. Ended'
      BY <1>1, <2>1 DEF IInv, Ended
    <2> QED
      BY <2>2, <2>3, <2>4 DEF IInv
  <1>11. CASE reader' = [Idle EXCEPT !.pc = "killed"]
    <2>1. reader' = [pc |-> "killed", nbytes |-> 0, nleft |-> 0, stored |-> 0, msgsize |-> 0]
      BY <1>11 DEF Idle
    <2>2. 0 \in 0..SIZE_MAX
      BY <1>6
    <2>3. TypeOK'
      BY <1>1, <1>5, <2>1, <2>2 DEF IInv, TypeOK
    <2>4. Account'
      BY <1>6, <2>1 DEF Account
    <2>5. Ended'
      BY <1>1, <2>1 DEF IInv, Ended
    <2> QED
      BY <2>3, <2>4, <2>5 DEF IInv
  <1> QED
    BY <1>2, <1>10, <1>11

\* The ways a call ends leave its numbers as they are.
LEMMA ReadEndsSteps ==
    IInv /\ (ReadEnd \/ ReadRefused \/ ReadFails \/ ReadReturn) => IInv'
  <1> SUFFICES ASSUME IInv, ReadEnd \/ ReadRefused \/ ReadFails \/ ReadReturn
               PROVE  IInv'
    OBVIOUS
  <1>1. /\ UNCHANGED <<backlog, closed, wleft, written, reads>>
        /\ Reading
        /\ \/ reader' = [reader EXCEPT !.pc = "failed"]
           \/ /\ reader' = [reader EXCEPT !.pc = "returned"]
              /\ reader.nleft = 0 \/ (reader.nleft \in 1..SSIZE_MAX /\ backlog = 0 /\ closed)
    BY DEF ReadEnd, ReadRefused, ReadFails, ReadReturn
  <1>2. /\ reader.nbytes \in Nat /\ reader.nbytes <= SSIZE_MAX
        /\ reader.nleft \in Nat /\ reader.stored \in Nat
        /\ reader = [pc |-> reader.pc, nbytes |-> reader.nbytes, nleft |-> reader.nleft,
                     stored |-> reader.stored, msgsize |-> reader.msgsize]
    BY ReaderType DEF IInv
  <1>3. SIZE_MAX \in Nat /\ SSIZE_MAX \in Nat /\ 2 * SSIZE_MAX <= SIZE_MAX
    BY Limits
  <1>4. PICK pc \in {"failed", "returned"} :
          /\ reader' = [reader EXCEPT !.pc = pc]
          /\ pc = "returned" =>
                reader.nleft = 0 \/ (reader.nleft \in 1..SSIZE_MAX /\ backlog = 0 /\ closed)
    BY <1>1
  <1>5. /\ reader' = [pc |-> pc, nbytes |-> reader.nbytes, nleft |-> reader.nleft,
                      stored |-> reader.stored, msgsize |-> reader.msgsize]
    BY <1>2, <1>4
  <1>6. TypeOK'
    BY <1>1, <1>5 DEF IInv, TypeOK
  <1>7. Account'
    <2>1. CASE reader.stored < LengthKnown
      BY <1>5, <2>1 DEF IInv, Account
    <2>2. CASE ~(reader.stored < LengthKnown)
      <3>1. reader.stored <= reader.nbytes /\ reader.nleft = SIZE_MAX + 1 - reader.stored
        BY <2>2 DEF IInv, Account
      <3>2. reader.nleft > SSIZE_MAX
        BY <1>2, <1>3, <3>1
      <3>3. pc = "failed"
        BY <1>2, <1>3, <1>4, <3>2
      <3> QED
        BY <1>5, <2>2, <3>1, <3>3 DEF Account
    <2> QED
      BY <2>1, <2>2
  <1>8. Ended'
    <2>1. pc = "returned" /\ reader.nleft > 0 => closed /\ backlog = 0
      BY <1>2, <1>4
    <2> QED
      BY <1>1, <1>5, <2>1 DEF IInv, Ended
  <1> QED
    BY <1>6, <1>7, <1>8 DEF IInv

LEMMA InitInv == Init => IInv
  <1> SUFFICES ASSUME Init
               PROVE  IInv
    OBVIOUS
  <1>1. reader = [pc |-> "idle", nbytes |-> 0, nleft |-> 0, stored |-> 0, msgsize |-> 0]
    BY DEF Init, Idle
  <1>2. 0 \in 0..SIZE_MAX /\ 0 < LengthKnown
    BY Limits
  <1>3. TypeOK
    <2>1. written \in Seq(Lengths)
      BY EmptySeq DEF Init
    <2>2. reader \in [pc : {"idle", "reading", "returned", "failed", "killed"},
                      nbytes : Sizes \cup {0}, nleft : 0..SIZE_MAX, stored : Nat,
                      msgsize : {0}]
      BY <1>1, <1>2
    <2>3. backlog = 0 /\ wleft = 0 /\ reads = 0
      BY DEF Init
    <2>4. {backlog, wleft, reads} \subseteq Nat
      BY <2>3
    <2>5. closed \in BOOLEAN
      BY Zenon DEF Init
    <2> QED
      BY <2>1, <2>2, <2>4, <2>5 DEF TypeOK
  <1>4. Account
    BY <1>1, <1>2 DEF Account
  <1>5. Ended
    BY <1>1 DEF Init, Ended
  <1> QED
    BY <1>3, <1>4, <1>5 DEF IInv

LEMMA NextInv == IInv /\ [Next]_vars => IInv'
  <1> SUFFICES ASSUME IInv, [Next]_vars
               PROVE  IInv'
    OBVIOUS
  <1>1. CASE Interrupted \/ UNCHANGED vars
    <2>1. UNCHANGED vars
      BY <1>1 DEF Interrupted
    <2> QED
      BY <2>1 DEF vars, IInv, TypeOK, Account, Ended
  <1> QED
    BY <1>1, WriterSteps, ReadMessageStep, ReadSomeStep, ReadEndsSteps DEF Next

LEMMA SpecInv == Spec => []IInv
  BY InitInv, NextInv, PTL DEF Spec

----------------------------------------------------------------------------
(* The theorems.                                                           *)

\* Every variable holds a value of its type; nleft, in particular, is always a size_t.
THEOREM TransferTyped == Spec => []TypeOK
  <1>1. IInv => TypeOK
    BY DEF IInv
  <1> QED
    BY <1>1, SpecInv, PTL

\* ReadMessage with a buffer too small for the length stays inside it.
THEOREM SmallBuffersRespected == Spec => []SmallBufferRespected
  <1>1. IInv => SmallBufferRespected
    <2> SUFFICES ASSUME IInv, reader.nbytes < LengthKnown
                 PROVE  /\ reader.stored <= reader.nbytes
                        /\ reader.stored + reader.nleft = reader.nbytes
      BY DEF SmallBufferRespected
    <2>1. /\ reader.nbytes \in Nat /\ reader.nleft \in Nat /\ reader.stored \in Nat
          /\ LengthKnown \in Nat
      BY ReaderType, Limits DEF IInv
    <2>2. reader.stored < LengthKnown
      <3>1. ~(reader.stored < LengthKnown) => reader.stored <= reader.nbytes
        BY DEF IInv, Account
      <3> QED
        BY <2>1, <3>1
    <2>3. reader.stored + reader.nleft = reader.nbytes
      BY <2>2 DEF IInv, Account
    <2> QED
      BY <2>1, <2>3
  <1> QED
    BY <1>1, SpecInv, PTL

\* ReadMessage with a buffer in which the length fits never returns a message: what
\* returns is a fragment at the end of the stream.
THEOREM NoMessageReturned == Spec => []OnlyFragmentsReturned
  <1>1. IInv => OnlyFragmentsReturned
    <2> SUFFICES ASSUME IInv, reader.pc = "returned", reader.nbytes >= LengthKnown
                 PROVE  reader.stored < LengthKnown /\ closed /\ backlog = 0
      BY DEF OnlyFragmentsReturned
    <2>1. /\ reader.nbytes \in Nat /\ reader.nleft \in Nat /\ reader.stored \in Nat
          /\ LengthKnown \in Nat
      BY ReaderType, Limits DEF IInv
    <2>2. reader.stored < LengthKnown /\ reader.stored + reader.nleft = reader.nbytes
      BY DEF IInv, Account
    <2>3. reader.nleft > 0
      BY <2>1, <2>2
    <2> QED
      BY <2>2, <2>3 DEF IInv, Ended
  <1> QED
    BY <1>1, SpecInv, PTL

=============================================================================
