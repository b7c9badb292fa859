------------------------ MODULE SocketStream_proofs ------------------------
(***************************************************************************)
(* What holds of Writen and Readn for any sizes of their calls and any     *)
(* capacity of the socket.  The bytes delivered, those the reader has      *)
(* stored, those on the wire and those still to be written follow one      *)
(* another without overlap, and without a gap until a call fails; every    *)
(* step that moves bytes moves them from the head of one of these to the   *)
(* tail of the one before.  Hence the two ends implement a BytePipe, which *)
(* holds what the reader has stored and what is on the wire.               *)
(***************************************************************************)
EXTENDS SocketStream, SequenceTheorems, TLAPS

\* A system call moves no more bytes than were asked for, and no more than there are.
LEMMA MinOfTwo ==
    ASSUME NEW a \in Int, NEW b \in Int
    PROVE  Min({a, b}) \in Int /\ Min({a, b}) <= a /\ Min({a, b}) <= b
  <1>1. \E x \in {a, b} : \A y \in {a, b} : x <= y
    OBVIOUS
  <1>2. Min({a, b}) \in {a, b} /\ \A y \in {a, b} : Min({a, b}) <= y
    BY <1>1 DEF Min
  <1> QED
    BY <1>2

\* A place in a sequence that k elements were added to is an old one or a new one.
LEMMA OldOrNew ==
    \A n, k \in Nat : \A i \in 1..(n + k) :
        i \in Int /\ (i \in 1..n \/ (i - n \in 1..k /\ i = n + (i - n)))
  OBVIOUS

LEMMA AddedPlace ==
    \A n, k \in Nat : \A i \in 1..k : n + i \in 1..(n + k)
  OBVIOUS

\* A function on 1..n is a sequence.
LEMMA SeqOfLength ==
    ASSUME NEW S, NEW n \in Nat, NEW s \in [1..n -> S]
    PROVE  s \in Seq(S)
  <1>1. \E m \in Nat : s \in [1..m -> S]
    BY Zenon
  <1> QED
    BY <1>1, SeqDef

Act == [msg : Seq(Nat), ptr : Nat, nbytes : Nat, nleft : Nat]

Types ==
    /\ wire \in Seq(1..MaxBytes) /\ Len(wire) <= Capacity
    /\ {wclosed, rclosed, short} \subseteq BOOLEAN
    /\ handed \in 0..MaxBytes
    /\ accepted \subseteq 1..MaxBytes
    /\ delivered \in Seq(Nat)
    /\ failed \subseteq {"writer", "reader"}

\* A call of Writen writes the last bytes that were handed over.
WriterType ==
    \/ writer = NoCall
    \/ writer = Killed
    \/ /\ writer \in Act
       /\ writer.ptr + writer.nleft = writer.nbytes
       /\ writer.nbytes <= handed
       /\ Len(writer.msg) = writer.nbytes
       /\ \A i \in 1..writer.nbytes : writer.msg[i] = handed - writer.nbytes + i

ReaderType ==
    \/ reader = NoCall
    \/ /\ reader \in Act
       /\ reader.ptr + reader.nleft = reader.nbytes
       /\ Len(reader.msg) = reader.nbytes

\* The number of the last byte handed over that is no longer the writer's to send.
Sent == IF Running(writer) THEN handed - writer.nleft ELSE handed

\* The first n elements of s grow, from above lo to no more than hi.
Growing(s, n, lo, hi) ==
    /\ \A i \in 1..n : s[i] \in Nat /\ lo < s[i] /\ s[i] <= hi
    /\ \A i, j \in 1..n : i < j => s[i] < s[j]

Order ==
    \E a, b, c \in Nat :
        /\ Growing(delivered, Len(delivered), 0, a)
        /\ Growing(reader.msg, reader.ptr, a, b)
        /\ Growing(wire, Len(wire), b, c)
        /\ a <= b /\ b <= c /\ c <= Sent

Gapless ==
    failed = {} =>
        /\ \A i \in 1..Len(delivered) : delivered[i] = i
        /\ \A i \in 1..reader.ptr : reader.msg[i] = Len(delivered) + i
        /\ \A i \in 1..Len(wire) : wire[i] = Len(delivered) + reader.ptr + i
        /\ writer # Killed => Len(delivered) + reader.ptr + Len(wire) = Sent

Delivered(x) == \E i \in 1..Len(delivered) : delivered[i] = x
OnItsWay(x) ==
    \/ Delivered(x)
    \/ \E i \in 1..reader.ptr : reader.msg[i] = x
    \/ \E i \in 1..Len(wire) : wire[i] = x

Accepted ==
    "reader" \notin failed =>
        /\ \A x \in accepted : OnItsWay(x)
        /\ Running(writer) => \A i \in 1..writer.ptr : OnItsWay(writer.msg[i])

Ended ==
    /\ wclosed => ~Running(writer)
    /\ short => /\ wclosed /\ Len(wire) = 0
                /\ failed = {} => \A x \in accepted : Delivered(x)

Moving == Types /\ WriterType /\ ReaderType
IInv == Moving /\ Order /\ Gapless /\ Accepted /\ Ended

----------------------------------------------------------------------------
(* Lemmas.                                                                 *)

\* A piece of a sequence.
LEMMA Piece ==
    ASSUME NEW S, NEW s \in Seq(S), NEW m \in Nat, NEW k \in Nat, m + k <= Len(s)
    PROVE  /\ SubSeq(s, m + 1, m + k) \in Seq(S)
           /\ Len(SubSeq(s, m + 1, m + k)) = k
           /\ \A i \in 1..k : SubSeq(s, m + 1, m + k)[i] = s[m + i]
  <1>1. Len(s) \in Nat /\ m + 1 \in Int /\ m + k \in Int
    BY LenProperties
  <1>2. \A i \in (m + 1)..(m + k) : s[i] \in S
    BY <1>1, ElementOfSeq
  <1>3. /\ SubSeq(s, m + 1, m + k) \in Seq(S)
        /\ Len(SubSeq(s, m + 1, m + k)) = IF m + 1 <= m + k THEN (m + k) - (m + 1) + 1 ELSE 0
        /\ \A i \in 1..((m + k) - (m + 1) + 1) : SubSeq(s, m + 1, m + k)[i] = s[(m + 1) + i - 1]
    BY <1>1, <1>2, SubSeqProperties
  <1>4. /\ (m + k) - (m + 1) + 1 = k
        /\ (IF m + 1 <= m + k THEN (m + k) - (m + 1) + 1 ELSE 0) = k
        /\ \A i \in 1..k : (m + 1) + i - 1 = m + i
    OBVIOUS
  <1>5. Len(SubSeq(s, m + 1, m + k)) = k
    BY <1>3, <1>4, Zenon
  <1>6. \A i \in 1..k : SubSeq(s, m + 1, m + k)[i] = s[m + i]
    BY <1>3, <1>4, Zenon
  <1> QED
    BY <1>3, <1>5, <1>6

LEMMA ElementsType ==
    ASSUME NEW T, NEW S, NEW s \in Seq(T), \A i \in 1..Len(s) : s[i] \in S
    PROVE  s \in Seq(S)
  <1>1. Len(s) \in Nat /\ s = [i \in 1..Len(s) |-> s[i]]
    BY LenProperties
  <1>2. [i \in 1..Len(s) |-> s[i]] \in [1..Len(s) -> S]
    OBVIOUS
  <1>3. s \in [1..Len(s) -> S]
    BY <1>1, <1>2, Zenon
  <1> QED
    BY <1>1, <1>3, SeqOfLength, Zenon

\* Two sequences, one after the other.
LEMMA Joined ==
    ASSUME NEW S, NEW s \in Seq(S), NEW t \in Seq(S)
    PROVE  /\ s \o t \in Seq(S) /\ Len(s \o t) = Len(s) + Len(t)
           /\ \A i \in 1..Len(s) : (s \o t)[i] = s[i]
           /\ \A i \in 1..Len(t) : (s \o t)[Len(s) + i] = t[i]
  <1>1. /\ s \o t \in Seq(S) /\ Len(s \o t) = Len(s) + Len(t)
        /\ \A i \in 1..(Len(s) + Len(t)) :
              (s \o t)[i] = IF i <= Len(s) THEN s[i] ELSE t[i - Len(s)]
    BY ConcatProperties
  <1>2. Len(s) \in Nat /\ Len(t) \in Nat
    BY LenProperties
  <1>3. ASSUME NEW i \in 1..Len(s)
        PROVE  (s \o t)[i] = s[i]
    <2>1. i \in 1..(Len(s) + Len(t)) /\ i <= Len(s)
      BY <1>2
    <2> QED
      BY <1>1, <2>1
  <1>4. ASSUME NEW i \in 1..Len(t)
        PROVE  (s \o t)[Len(s) + i] = t[i]
    <2>1. Len(s) + i \in 1..(Len(s) + Len(t)) /\ ~(Len(s) + i <= Len(s)) /\ Len(s) + i - Len(s) = i
      BY <1>2
    <2>2. (s \o t)[Len(s) + i] = t[Len(s) + i - Len(s)]
      BY <1>1, <2>1
    <2> QED
      BY <2>1, <2>2
  <1> QED
    BY <1>1, <1>3, <1>4

\* What WriteSome does: the next k bytes of the message go to the tail of the wire.
LEMMA WriteMoves ==
    ASSUME Moving, WriteSome
    PROVE  \E k \in Nat \ {0} :
             /\ k <= writer.nleft /\ Len(wire) + k <= Capacity
             /\ writer \in Act /\ Running(writer) /\ Len(wire) \in Nat
             /\ wire' \in Seq(1..MaxBytes) /\ Len(wire') = Len(wire) + k
             /\ \A i \in 1..Len(wire) : wire'[i] = wire[i]
             /\ \A i \in 1..k : wire'[Len(wire) + i] = handed - writer.nleft + i
             /\ \A i \in 1..k : writer.msg[writer.ptr + i] = handed - writer.nleft + i
             /\ writer' \in Act /\ writer'.nleft = writer.nleft - k
             /\ writer'.ptr = writer.ptr + k /\ writer'.nbytes = writer.nbytes
             /\ writer'.msg = writer.msg
  <1>1. /\ writer \in Act /\ writer.nleft > 0
        /\ writer.ptr + writer.nleft = writer.nbytes /\ writer.nbytes <= handed
        /\ Len(writer.msg) = writer.nbytes
        /\ \A i \in 1..writer.nbytes : writer.msg[i] = handed - writer.nbytes + i
    BY DEF Moving, WriterType, WriteSome, NoCall, Killed
  <1>2. /\ writer.nleft \in Nat /\ writer.ptr \in Nat /\ writer.nbytes \in Nat
        /\ writer.msg \in Seq(Nat) /\ Len(wire) \in Nat /\ Capacity \in Nat
        /\ handed \in 0..MaxBytes /\ MaxBytes \in Nat /\ wire \in Seq(1..MaxBytes)
    BY <1>1, LenProperties, StreamAssumption DEF Act, Moving, Types
  <1>3. PICK k \in 1..Min({writer.nleft, Capacity - Len(wire)}) :
          /\ wire' = wire \o SubSeq(writer.msg, writer.ptr + 1, writer.ptr + k)
          /\ writer' = Advance(writer, k)
    BY DEF WriteSome
  <1>4. k \in Nat \ {0} /\ k <= writer.nleft /\ Len(wire) + k <= Capacity
    <2>1. writer.nleft \in Int /\ Capacity - Len(wire) \in Int
      BY <1>2
    <2>2. /\ Min({writer.nleft, Capacity - Len(wire)}) \in Int
          /\ Min({writer.nleft, Capacity - Len(wire)}) <= writer.nleft
          /\ Min({writer.nleft, Capacity - Len(wire)}) <= Capacity - Len(wire)
      BY <2>1, MinOfTwo
    <2>3. k \in Int /\ 1 <= k /\ k <= Min({writer.nleft, Capacity - Len(wire)})
      BY <1>3, <2>2
    <2>4. k \in Nat \ {0} /\ k <= writer.nleft /\ k <= Capacity - Len(wire)
      BY <2>1, <2>2, <2>3
    <2>5. Capacity \in Int /\ Len(wire) \in Int /\ k \in Int
      BY <1>2, <2>3
    <2> QED
      BY <2>4, <2>5
  <1> DEFINE piece == SubSeq(writer.msg, writer.ptr + 1, writer.ptr + k)
             n == Len(wire)
  <1>a. wire' = wire \o piece
    BY <1>3
  <1>b. n \in Nat /\ k \in Nat
    BY <1>2, <1>4
  <1>5. \A i \in 1..k : writer.msg[writer.ptr + i] = handed - writer.nleft + i
    <2> SUFFICES ASSUME NEW i \in 1..k
                 PROVE  writer.msg[writer.ptr + i] = handed - writer.nleft + i
      OBVIOUS
    <2>0. /\ writer.nleft \in Nat /\ writer.ptr \in Nat /\ writer.nbytes \in Nat
          /\ writer.nleft \in Int /\ writer.ptr \in Int /\ writer.nbytes \in Int
          /\ handed \in Int /\ i \in Int
      BY <1>2
    <2>1. writer.ptr + i \in 1..writer.nbytes
      BY <1>1, <2>0, <1>4
    <2>2. writer.msg[writer.ptr + i] = handed - writer.nbytes + (writer.ptr + i)
      BY <1>1, <2>1
    <2>3. handed - writer.nbytes + (writer.ptr + i) = handed - writer.nleft + i
      <3> DEFINE left == writer.nleft
                 ptr == writer.ptr
                 all == writer.nbytes
      <3>1. left \in Int /\ ptr \in Int /\ all \in Int /\ ptr + left = all
        BY <1>1, <2>0
      <3> HIDE DEF left, ptr, all
      <3>2. handed - all + (ptr + i) = handed - left + i
        BY <2>0, <3>1
      <3> QED
        BY <3>2 DEF left, ptr, all
    <2> QED
      BY <2>2, <2>3, Zenon
  <1>c. writer.ptr + k <= Len(writer.msg)
    <2>0. writer.nleft \in Nat /\ writer.ptr \in Nat /\ writer.nbytes \in Nat
      BY <1>2
    <2> QED
      BY <1>1, <1>4, <2>0
  <1>6. /\ piece \in Seq(Nat) /\ Len(piece) = k
        /\ \A i \in 1..k : piece[i] = writer.msg[writer.ptr + i]
    <2> DEFINE s == writer.msg
               m == writer.ptr
    <2>1. s \in Seq(Nat) /\ m \in Nat /\ k \in Nat /\ m + k <= Len(s)
      BY <1>2, <1>b, <1>c
    <2> HIDE DEF s, m
    <2>2. /\ SubSeq(s, m + 1, m + k) \in Seq(Nat) /\ Len(SubSeq(s, m + 1, m + k)) = k
          /\ \A i \in 1..k : SubSeq(s, m + 1, m + k)[i] = s[m + i]
      BY <2>1, Piece
    <2> QED
      BY <2>2 DEF s, m
  <1> HIDE DEF piece, n
  <1>7. piece \in Seq(1..MaxBytes)
    <2>1. \A i \in 1..k : piece[i] = handed - writer.nleft + i
      BY <1>5, <1>6
    <2>0. writer.nleft \in Nat /\ writer.nleft <= handed /\ handed \in Nat /\ handed <= MaxBytes
      <3>1. handed \in Int /\ MaxBytes \in Int /\ 0 <= handed /\ handed <= MaxBytes
        BY <1>2
      <3>2. writer.nleft \in Nat /\ writer.ptr \in Nat /\ writer.nbytes \in Nat
        BY <1>2
      <3> QED
        BY <1>1, <3>1, <3>2
    <2>2. ASSUME NEW i \in 1..k
          PROVE  piece[i] \in 1..MaxBytes
      <3>1. MaxBytes \in Nat /\ k \in Nat /\ i \in Nat /\ 1 <= i /\ i <= k /\ k <= writer.nleft
        BY <1>2, <1>4
      <3> QED
        BY <2>0, <2>1, <3>1
    <2>3. \A i \in 1..Len(piece) : piece[i] \in 1..MaxBytes
      BY <1>6, <2>2
    <2> QED
      BY <1>6, <2>3, ElementsType
  <1>8. /\ wire' \in Seq(1..MaxBytes) /\ Len(wire') = n + k
        /\ \A i \in 1..n : wire'[i] = wire[i]
        /\ \A i \in 1..k : wire'[n + i] = piece[i]
    <2>1. wire \in Seq(1..MaxBytes)
      BY <1>2
    <2>2. /\ wire \o piece \in Seq(1..MaxBytes) /\ Len(wire \o piece) = Len(wire) + Len(piece)
          /\ \A i \in 1..Len(wire) : (wire \o piece)[i] = wire[i]
          /\ \A i \in 1..Len(piece) : (wire \o piece)[Len(wire) + i] = piece[i]
      BY <2>1, <1>7, Joined
    <2>3. n = Len(wire) /\ k = Len(piece)
      BY <1>6 DEF n
    <2> QED
      BY <1>a, <2>2, <2>3, Zenon
  <1>9. \A i \in 1..k : wire'[n + i] = handed - writer.nleft + i
    BY <1>5, <1>6, <1>8
  <1>10. writer' = [msg |-> writer.msg, ptr |-> writer.ptr + k, nbytes |-> writer.nbytes,
                    nleft |-> writer.nleft - k]
    BY <1>1, <1>3 DEF Advance, Act
  <1>11. /\ writer' \in Act /\ writer'.nleft = writer.nleft - k
         /\ writer'.ptr = writer.ptr + k /\ writer'.nbytes = writer.nbytes
         /\ writer'.msg = writer.msg
    BY <1>2, <1>4, <1>10 DEF Act
  <1>12. wire' \in Seq(1..MaxBytes) /\ Running(writer)
    BY <1>1, <1>2, <1>8 DEF Running
  <1> QED
    BY <1>1, <1>2, <1>4, <1>5, <1>8, <1>9, <1>11, <1>12 DEF n

\* What ReadSome does: the first k bytes of the wire go behind those already stored.
LEMMA ReadMoves ==
    ASSUME Moving, ReadSome
    PROVE  \E k \in Nat \ {0} :
             /\ k <= reader.nleft /\ k <= Len(wire)
             /\ reader \in Act /\ Len(wire) \in Nat
             /\ wire' \in Seq(1..MaxBytes) /\ Len(wire') = Len(wire) - k
             /\ \A i \in 1..(Len(wire) - k) : wire'[i] = wire[k + i]
             /\ \A i \in 1..reader.ptr : reader'.msg[i] = reader.msg[i]
             /\ \A i \in 1..k : reader'.msg[reader.ptr + i] = wire[i]
             /\ reader' \in Act /\ reader'.nleft = reader.nleft - k
             /\ reader'.ptr = reader.ptr + k /\ reader'.nbytes = reader.nbytes
             /\ Len(reader'.msg) = reader.nbytes
  <1>1. /\ reader \in Act /\ reader.nleft > 0
        /\ reader.ptr + reader.nleft = reader.nbytes
        /\ Len(reader.msg) = reader.nbytes
    BY DEF Moving, ReaderType, ReadSome, NoCall
  <1>2. /\ reader.nleft \in Nat /\ reader.ptr \in Nat /\ reader.nbytes \in Nat
        /\ reader.msg \in Seq(Nat)
    BY <1>1 DEF Act
  <1>3. wire \in Seq(1..MaxBytes) /\ Len(wire) \in Nat
    BY LenProperties DEF Moving, Types
  <1>4. PICK k \in 1..Min({reader.nleft, Len(wire)}) :
          /\ reader' = [Advance(reader, k) EXCEPT
                          !.msg = [i \in DOMAIN @ |->
                                     IF i - reader.ptr \in 1..k THEN wire[i - reader.ptr]
                                     ELSE @[i]]]
          /\ wire' = SubSeq(wire, k + 1, Len(wire))
    BY DEF ReadSome
  <1>5. k \in Nat \ {0} /\ k <= reader.nleft /\ k <= Len(wire)
    <2>1. reader.nleft \in Int /\ Len(wire) \in Int
      BY <1>2, <1>3
    <2>2. /\ Min({reader.nleft, Len(wire)}) \in Int
          /\ Min({reader.nleft, Len(wire)}) <= reader.nleft
          /\ Min({reader.nleft, Len(wire)}) <= Len(wire)
      BY <2>1, MinOfTwo
    <2>3. k \in Int /\ 1 <= k /\ k <= Min({reader.nleft, Len(wire)})
      BY <1>4, <2>2
    <2> QED
      BY <2>1, <2>2, <2>3
  <1> DEFINE n == Len(wire)
             store == [i \in DOMAIN reader.msg |->
                         IF i - reader.ptr \in 1..k THEN wire[i - reader.ptr] ELSE reader.msg[i]]
  <1>6. /\ wire' \in Seq(1..MaxBytes) /\ Len(wire') = n - k
        /\ \A i \in 1..(n - k) : wire'[i] = wire[k + i]
    <2>1. n - k \in Nat /\ k \in Nat /\ k + (n - k) = n /\ n \in Nat
      BY <1>3, <1>5
    <2> DEFINE m == n - k
    <2>2. wire \in Seq(1..MaxBytes) /\ m \in Nat /\ k \in Nat /\ k + m <= Len(wire)
      BY <1>3, <2>1
    <2>3. k + m = n /\ wire' = SubSeq(wire, k + 1, n)
      BY <1>4, <2>1
    <2> HIDE DEF m, n
    <2>4. /\ SubSeq(wire, k + 1, k + m) \in Seq(1..MaxBytes)
          /\ Len(SubSeq(wire, k + 1, k + m)) = m
          /\ \A i \in 1..m : SubSeq(wire, k + 1, k + m)[i] = wire[k + i]
      BY <2>2, Piece
    <2>5. wire' = SubSeq(wire, k + 1, k + m)
      BY <2>3
    <2>6. wire' \in Seq(1..MaxBytes) /\ Len(wire') = m /\ \A i \in 1..m : wire'[i] = wire[k + i]
      BY <2>4, <2>5, Zenon
    <2> QED
      BY <2>6 DEF m
  <1>7. [Advance(reader, k) EXCEPT !.msg = store] =
            [msg |-> store, ptr |-> reader.ptr + k, nbytes |-> reader.nbytes,
             nleft |-> reader.nleft - k]
    <2> HIDE DEF store
    <2>1. reader = [msg |-> reader.msg, ptr |-> reader.ptr, nbytes |-> reader.nbytes,
                    nleft |-> reader.nleft]
      BY <1>1 DEF Act
    <2>2. Advance(reader, k) = [msg |-> reader.msg, ptr |-> reader.ptr + k,
                                nbytes |-> reader.nbytes, nleft |-> reader.nleft - k]
      <3>1. Advance(reader, k) = [reader EXCEPT !.nleft = reader.nleft - k,
                                                !.ptr = reader.ptr + k]
        BY <1>1 DEF Advance, Act
      <3> QED
        BY <1>1, <3>1 DEF Act
    <2> QED
      BY <2>2
  <1>8. reader' = [msg |-> store, ptr |-> reader.ptr + k, nbytes |-> reader.nbytes,
                   nleft |-> reader.nleft - k]
    <2>1. Advance(reader, k).msg = reader.msg
      BY <1>1 DEF Advance, Act
    <2>2. reader' = [Advance(reader, k) EXCEPT !.msg = store]
      BY <1>4, <2>1
    <2> QED
      BY <1>7, <2>2
  <1>9. DOMAIN reader.msg = 1..reader.nbytes
    BY <1>1, <1>2, LenProperties
  <1>10. store \in Seq(Nat) /\ Len(store) = reader.nbytes
    <2>1. ASSUME NEW i \in 1..reader.nbytes
          PROVE  store[i] \in Nat
      <3>1. CASE i - reader.ptr \in 1..k
        <4>1. i - reader.ptr \in 1..Len(wire)
          BY <1>3, <1>5, <3>1
        <4>2. wire[i - reader.ptr] \in 1..MaxBytes
          BY <1>3, <4>1, ElementOfSeq
        <4>3. store[i] = wire[i - reader.ptr]
          BY <1>9, <3>1
        <4> QED
          BY <4>2, <4>3
      <3>2. CASE ~(i - reader.ptr \in 1..k)
        <4>1. reader.msg[i] \in Nat
          BY <1>1, <1>2, <2>1, ElementOfSeq
        <4> QED
          BY <1>9, <3>2, <4>1
      <3> QED
        BY <3>1, <3>2
    <2>2. DOMAIN store = 1..reader.nbytes /\ store = [i \in 1..reader.nbytes |-> store[i]]
      BY <1>9
    <2> HIDE DEF store
    <2>3. store \in [1..reader.nbytes -> Nat]
      BY <2>1, <2>2
    <2>4. reader.nbytes \in Nat /\ DOMAIN store = 1..reader.nbytes
      BY <1>2, <2>2
    <2>5. store \in Seq(Nat)
      BY <2>3, <2>4, SeqOfLength, Zenon
    <2> QED
      BY <2>4, <2>5, LenProperties
  <1>11. ASSUME NEW i \in 1..reader.ptr
         PROVE  store[i] = reader.msg[i]
    <2>1. i \in 1..reader.nbytes /\ ~(i - reader.ptr \in 1..k)
      BY <1>1, <1>2, <1>5
    <2> QED
      BY <1>9, <2>1
  <1>12. ASSUME NEW i \in 1..k
         PROVE  store[reader.ptr + i] = wire[i]
    <2> DEFINE j == reader.ptr + i
    <2>0. j \in 1..reader.nbytes /\ j - reader.ptr = i
      BY <1>1, <1>2, <1>5
    <2> HIDE DEF j
    <2>1. j \in DOMAIN reader.msg /\ j - reader.ptr \in 1..k
      BY <1>9, <2>0, Zenon
    <2>2. store[j] = wire[j - reader.ptr]
      BY <2>1
    <2>3. store[j] = wire[i]
      BY <2>0, <2>2, Zenon
    <2> QED
      BY <2>3 DEF j
  <1> HIDE DEF store
  <1>13. /\ reader'.msg = store /\ reader'.ptr = reader.ptr + k
         /\ reader'.nbytes = reader.nbytes /\ reader'.nleft = reader.nleft - k
    BY <1>8
  <1>14. reader.ptr + k \in Nat /\ reader.nleft - k \in Nat
    BY <1>2, <1>5
  <1>15. reader' \in Act
    BY <1>2, <1>8, <1>10, <1>14 DEF Act
  <1> QED
    BY <1>1, <1>3, <1>5, <1>6, <1>10, <1>11, <1>12, <1>13, <1>15

\* What ReturnCount does: the bytes the reader has stored go behind those delivered.
LEMMA ReturnMoves ==
    ASSUME Moving, ReturnCount, reader.nleft >= 0
    PROVE  /\ reader \in Act /\ reader' = NoCall
           /\ delivered' \in Seq(Nat) /\ Len(delivered) \in Nat
           /\ Len(delivered') = Len(delivered) + reader.ptr
           /\ \A i \in 1..Len(delivered) : delivered'[i] = delivered[i]
           /\ \A i \in 1..reader.ptr : delivered'[Len(delivered) + i] = reader.msg[i]
           /\ short' = (reader.nleft > 0)
  <1>1. /\ reader \in Act /\ reader.ptr + reader.nleft = reader.nbytes
        /\ Len(reader.msg) = reader.nbytes
    BY DEF Moving, ReaderType, NoCall
  <1>2. /\ reader.nleft \in Nat /\ reader.ptr \in Nat /\ reader.nbytes \in Nat
        /\ reader.msg \in Seq(Nat)
    BY <1>1 DEF Act
  <1>3. delivered \in Seq(Nat) /\ Len(delivered) \in Nat
    BY LenProperties DEF Moving, Types
  <1> DEFINE count == reader.nbytes - reader.nleft
             piece == SubSeq(reader.msg, 1, count)
  <1>4. /\ delivered' = delivered \o piece /\ short' = (count < reader.nbytes)
        /\ reader' = NoCall
    BY DEF ReturnCount
  <1>5. count = reader.ptr /\ (count < reader.nbytes) = (reader.nleft > 0)
    BY <1>1, <1>2
  <1>6. /\ piece \in Seq(Nat) /\ Len(piece) = reader.ptr
        /\ \A i \in 1..reader.ptr : piece[i] = reader.msg[i]
    <2> DEFINE s == reader.msg
               m == reader.ptr
    <2>1. s \in Seq(Nat) /\ m \in Nat /\ 0 \in Nat /\ 0 + m <= Len(s)
      BY <1>1, <1>2
    <2>2. piece = SubSeq(s, 1, m)
      BY <1>5, Zenon
    <2> HIDE DEF s, m, piece
    <2>3. /\ SubSeq(s, 0 + 1, 0 + m) \in Seq(Nat) /\ Len(SubSeq(s, 0 + 1, 0 + m)) = m
          /\ \A i \in 1..m : SubSeq(s, 0 + 1, 0 + m)[i] = s[0 + i]
      BY <2>1, Piece
    <2>4. 0 + 1 = 1 /\ 0 + m = m /\ \A i \in 1..m : 0 + i = i
      BY <2>1
    <2>5. /\ SubSeq(s, 1, m) \in Seq(Nat) /\ Len(SubSeq(s, 1, m)) = m
          /\ \A i \in 1..m : SubSeq(s, 1, m)[i] = s[i]
      BY <2>3, <2>4, Zenon
    <2>6. /\ piece \in Seq(Nat) /\ Len(piece) = m /\ \A i \in 1..m : piece[i] = s[i]
      BY <2>2, <2>5, Zenon
    <2> QED
      BY <2>6 DEF s, m
  <1> HIDE DEF piece, count
  <1>7. /\ delivered \o piece \in Seq(Nat) /\ Len(delivered \o piece) = Len(delivered) + Len(piece)
        /\ \A i \in 1..Len(delivered) : (delivered \o piece)[i] = delivered[i]
        /\ \A i \in 1..Len(piece) : (delivered \o piece)[Len(delivered) + i] = piece[i]
    BY <1>3, <1>6, Joined
  <1>8. /\ delivered' \in Seq(Nat) /\ Len(delivered') = Len(delivered) + reader.ptr
        /\ \A i \in 1..Len(delivered) : delivered'[i] = delivered[i]
        /\ \A i \in 1..reader.ptr : delivered'[Len(delivered) + i] = piece[i]
    BY <1>4, <1>6, <1>7, Zenon
  <1>9. short' = (reader.nleft > 0)
    BY <1>4, <1>5, Zenon
  <1> QED
    BY <1>1, <1>3, <1>4, <1>6, <1>8, <1>9

----------------------------------------------------------------------------
(* Growing sequences, put together and taken apart.                        *)

LEMMA GrowingEmpty ==
    ASSUME NEW s, NEW lo \in Nat, NEW hi \in Nat
    PROVE  Growing(s, 0, lo, hi)
  BY DEF Growing

LEMMA GrowingJoin ==
    ASSUME NEW s, NEW t, NEW u, NEW n \in Nat, NEW k \in Nat,
           NEW lo \in Nat, NEW mid \in Nat, NEW hi \in Nat, lo <= mid, mid <= hi,
           Growing(s, n, lo, mid), Growing(t, k, mid, hi),
           \A i \in 1..n : u[i] = s[i],
           \A i \in 1..k : u[n + i] = t[i]
    PROVE  Growing(u, n + k, lo, hi)
  <1>1. \A i \in 1..n : u[i] \in Nat /\ lo < u[i] /\ u[i] <= mid
    BY DEF Growing
  <1>2. \A i \in 1..k : u[n + i] \in Nat /\ mid < u[n + i] /\ u[n + i] <= hi
    BY DEF Growing
  <1>3. \A i \in 1..(n + k) : i \in 1..n \/ (i - n \in 1..k /\ i = n + (i - n))
    OBVIOUS
  <1>4. ASSUME NEW i \in 1..(n + k)
        PROVE  u[i] \in Nat /\ lo < u[i] /\ u[i] <= hi
    BY <1>1, <1>2, <1>3
  <1>5. ASSUME NEW i \in 1..(n + k), NEW j \in 1..(n + k), i < j
        PROVE  u[i] < u[j]
    <2>1. CASE j \in 1..n
      <3>1. i \in 1..n /\ u[i] = s[i] /\ u[j] = s[j]
        BY <1>5, <2>1
      <3> QED
        BY <1>5, <2>1, <3>1 DEF Growing
    <2>2. CASE j \notin 1..n
      <3>1. j - n \in 1..k /\ j = n + (j - n)
        BY <1>3, <2>2
      <3>2. mid < u[j] /\ u[j] \in Nat
        BY <1>2, <3>1
      <3>3. CASE i \in 1..n
        BY <1>1, <3>2, <3>3
      <3>4. CASE i \notin 1..n
        <4>1. i - n \in 1..k /\ i = n + (i - n)
          BY <1>3, <3>4
        <4>2. t[i - n] < t[j - n]
          BY <1>5, <3>1, <4>1 DEF Growing
        <4>3. u[i] = t[i - n] /\ u[j] = t[j - n]
          BY <3>1, <4>1
        <4> QED
          BY <4>2, <4>3
      <3> QED
        BY <3>3, <3>4
    <2> QED
      BY <2>1, <2>2
  <1> QED
    BY <1>4, <1>5 DEF Growing

LEMMA GrowingSplit ==
    ASSUME NEW s, NEW t, NEW n \in Nat, NEW k \in 1..n, NEW lo \in Nat, NEW hi \in Nat,
           Growing(s, n, lo, hi),
           \A i \in 1..(n - k) : t[i] = s[k + i]
    PROVE  /\ s[k] \in Nat /\ lo < s[k] /\ s[k] <= hi
           /\ Growing(s, k, lo, s[k])
           /\ Growing(t, n - k, s[k], hi)
  <1>1. s[k] \in Nat /\ lo < s[k] /\ s[k] <= hi
    BY DEF Growing
  <1>2. Growing(s, k, lo, s[k])
    <2>1. \A i \in 1..k : i \in 1..n /\ (i = k \/ i < k)
      OBVIOUS
    <2>2. \A i \in 1..k : s[i] \in Nat /\ lo < s[i] /\ s[i] <= s[k]
      BY <2>1 DEF Growing
    <2>3. \A i, j \in 1..k : i < j => s[i] < s[j]
      BY <2>1 DEF Growing
    <2> QED
      BY <2>2, <2>3 DEF Growing
  <1>3. Growing(t, n - k, s[k], hi)
    <2>1. \A i \in 1..(n - k) : k + i \in 1..n /\ k < k + i
      OBVIOUS
    <2>2. \A i \in 1..(n - k) : t[i] \in Nat /\ s[k] < t[i] /\ t[i] <= hi
      BY <2>1 DEF Growing
    <2>3. ASSUME NEW i \in 1..(n - k), NEW j \in 1..(n - k), i < j
          PROVE  t[i] < t[j]
      <3>1. k + i \in 1..n /\ k + j \in 1..n /\ k + i < k + j
        BY <2>3
      <3>2. s[k + i] < s[k + j]
        BY <3>1 DEF Growing
      <3> QED
        BY <3>2
    <2> QED
      BY <2>2, <2>3 DEF Growing
  <1> QED
    BY <1>1, <1>2, <1>3

----------------------------------------------------------------------------
(* The steps of the writer.                                                *)

LEMMA Numbers ==
    ASSUME Moving
    PROVE  /\ handed \in Nat /\ MaxBytes \in Nat /\ handed <= MaxBytes
           /\ Len(wire) \in Nat /\ Len(delivered) \in Nat /\ reader.ptr \in Nat
           /\ reader.nleft \in Int
           /\ Running(writer) => /\ writer \in Act /\ writer.nleft \in Nat /\ writer.ptr \in Nat
                                 /\ writer.nleft <= handed
           /\ Sent \in Nat /\ Sent <= handed
  <1>0. MaxBytes \in Nat
    BY StreamAssumption
  <1>1. handed \in Nat /\ MaxBytes \in Nat /\ handed <= MaxBytes
    BY <1>0 DEF Moving, Types
  <1>2. Len(wire) \in Nat /\ Len(delivered) \in Nat
    BY LenProperties DEF Moving, Types
  <1>3. reader.ptr \in Nat /\ reader.nleft \in Int
    BY DEF Moving, ReaderType, NoCall, Act
  <1>4. ASSUME Running(writer)
        PROVE  /\ writer \in Act /\ writer.nleft \in Nat /\ writer.ptr \in Nat
               /\ writer.nleft <= handed
    <2>1. /\ writer \in Act /\ writer.ptr + writer.nleft = writer.nbytes
          /\ writer.nbytes <= handed
      BY <1>4 DEF Moving, WriterType, Running, NoCall, Killed
    <2> QED
      BY <1>1, <2>1 DEF Act
  <1>5. Sent \in Nat /\ Sent <= handed
    BY <1>1, <1>4 DEF Sent
  <1> QED
    BY <1>1, <1>2, <1>3, <1>4, <1>5

\* A step that moves no byte, and takes back none that was sent.
LEMMA Framed ==
    ASSUME Moving, Order, UNCHANGED <<wire, reader, delivered>>,
           Sent' \in Nat, Sent <= Sent'
    PROVE  /\ Order'
           /\ \A x : OnItsWay(x) => OnItsWay(x)'
           /\ \A x : Delivered(x) => Delivered(x)'
  <1>1. Sent \in Nat /\ Sent' \in Nat
    BY Numbers
  <1>2. Order'
    <2>1. PICK a \in Nat, b \in Nat, c \in Nat :
            /\ Growing(delivered, Len(delivered), 0, a)
            /\ Growing(reader.msg, reader.ptr, a, b)
            /\ Growing(wire, Len(wire), b, c)
            /\ a <= b /\ b <= c /\ c <= Sent
      BY DEF Order
    <2>2. c <= Sent'
      BY <1>1, <2>1
    <2> QED
      BY <2>1, <2>2 DEF Order
  <1>3. \A x : OnItsWay(x) => OnItsWay(x)'
    BY DEF OnItsWay, Delivered
  <1>4. \A x : Delivered(x) => Delivered(x)'
    BY DEF Delivered
  <1> QED
    BY <1>2, <1>3, <1>4

LEMMA CallWritenStep == IInv /\ CallWriten => IInv'
  <1> SUFFICES ASSUME IInv, CallWriten
               PROVE  IInv'
    OBVIOUS
  <1> USE DEF IInv
  <1>1. PICK n \in Sizes :
          /\ handed + n <= MaxBytes
          /\ writer' = Activation([i \in 1..n |-> handed + i], n)
          /\ handed' = handed + n
    BY DEF CallWriten
  <1>2. /\ writer = NoCall /\ ~wclosed /\ n \in Nat
        /\ UNCHANGED <<wire, wclosed, rclosed, reader, accepted, delivered, short, failed>>
    BY StreamAssumption DEF CallWriten
  <1>3. handed \in Nat /\ MaxBytes \in Nat /\ Sent = handed
    BY <1>2, Numbers DEF Sent, Running, NoCall
  <1> DEFINE m == [i \in 1..n |-> handed + i]
  <1>4. m \in Seq(Nat) /\ Len(m) = n /\ \A i \in 1..n : m[i] = handed + i
    <2>1. m \in [1..n -> Nat]
      BY <1>2, <1>3
    <2>2. m \in Seq(Nat)
      BY <1>2, <2>1, SeqDef
    <2>3. DOMAIN m = 1..n
      OBVIOUS
    <2>4. \A i \in 1..n : m[i] = handed + i
      OBVIOUS
    <2> HIDE DEF m
    <2>5. Len(m) = n
      BY <1>2, <2>2, <2>3, LenProperties
    <2> QED
      BY <2>2, <2>4, <2>5
  <1>5. writer' = [msg |-> m, ptr |-> 0, nbytes |-> n, nleft |-> n]
    BY <1>1 DEF Activation
  <1> HIDE DEF m
  <1>6. Types'
    <2>1. handed' \in 0..MaxBytes
      BY <1>1, <1>2, <1>3
    <2> QED
      BY <1>2, <2>1 DEF Moving, Types
  <1>7. WriterType'
    <2>1. writer' \in Act
      BY <1>2, <1>4, <1>5 DEF Act
    <2>2. /\ writer'.nbytes = n /\ writer'.nleft = n /\ writer'.ptr = 0 /\ writer'.msg = m
      BY <1>5
    <2>3. \A i \in 1..n : m[i] = handed' - n + i
      BY <1>1, <1>2, <1>3, <1>4
    <2>4. 0 + n = n /\ n <= handed'
      BY <1>1, <1>2, <1>3
    <2> QED
      BY <1>4, <2>1, <2>2, <2>3, <2>4 DEF WriterType
  <1>8. ReaderType'
    BY <1>2 DEF Moving, ReaderType
  <1>9. Sent' = Sent /\ Sent' \in Nat
    <2>1. writer'.nleft = n
      BY <1>5
    <2> QED
      BY <1>1, <1>2, <1>3, <2>1 DEF Sent, Running
  <1>10. /\ Order'
         /\ \A x : OnItsWay(x) => OnItsWay(x)'
         /\ \A x : Delivered(x) => Delivered(x)'
    BY <1>2, <1>3, <1>9, Framed
  <1>11. Gapless'
    <2>1. writer # Killed
      BY <1>2 DEF NoCall, Killed
    <2> QED
      BY <1>2, <1>9, <2>1 DEF Gapless
  <1>12. Accepted'
    <2>1. writer'.ptr = 0
      BY <1>5
    <2>2. \A i \in 1..writer'.ptr : FALSE
      BY <2>1
    <2> QED
      BY <1>2, <1>10, <2>2 DEF Accepted
  <1>13. Ended'
    BY <1>2 DEF Ended
  <1> QED
    BY <1>6, <1>7, <1>8, <1>10, <1>11, <1>12, <1>13 DEF Moving

LEMMA WriteSomeStep == IInv /\ WriteSome => IInv'
  <1> SUFFICES ASSUME IInv, WriteSome
               PROVE  IInv'
    OBVIOUS
  <1> USE DEF IInv
  <1>1. PICK k \in Nat \ {0} :
             /\ k <= writer.nleft /\ Len(wire) + k <= Capacity
             /\ writer \in Act /\ Running(writer) /\ Len(wire) \in Nat
             /\ wire' \in Seq(1..MaxBytes) /\ Len(wire') = Len(wire) + k
             /\ \A i \in 1..Len(wire) : wire'[i] = wire[i]
             /\ \A i \in 1..k : wire'[Len(wire) + i] = handed - writer.nleft + i
             /\ \A i \in 1..k : writer.msg[writer.ptr + i] = handed - writer.nleft + i
             /\ writer' \in Act /\ writer'.nleft = writer.nleft - k
             /\ writer'.ptr = writer.ptr + k /\ writer'.nbytes = writer.nbytes
             /\ writer'.msg = writer.msg
    BY WriteMoves
  <1>2. /\ writer.nleft > 0
        /\ UNCHANGED <<wclosed, rclosed, reader, handed, accepted, delivered, short, failed>>
    BY DEF WriteSome
  <1>3. /\ handed \in Nat /\ writer.nleft \in Nat /\ writer.nleft <= handed /\ Sent \in Nat
        /\ writer.ptr \in Nat /\ Len(wire) \in Nat /\ Len(delivered) \in Nat
        /\ reader.ptr \in Nat
    BY <1>1, Numbers
  <1>a. /\ k \in Nat /\ k > 0 /\ k <= writer.nleft /\ Len(wire') = Len(wire) + k
        /\ writer'.nleft = writer.nleft - k /\ writer'.ptr = writer.ptr + k
    BY <1>1
  <1>b. /\ writer.nleft - k \in Nat
        /\ handed - writer.nleft \in Nat /\ (handed - writer.nleft) + k \in Nat
        /\ handed - (writer.nleft - k) = (handed - writer.nleft) + k
    <2> DEFINE left == writer.nleft
    <2>1. left \in Nat /\ k <= left /\ left <= handed /\ handed \in Nat /\ k \in Nat
      BY <1>3, <1>a
    <2> HIDE DEF left
    <2>2. /\ left - k \in Nat
          /\ handed - left \in Nat /\ (handed - left) + k \in Nat
          /\ handed - (left - k) = (handed - left) + k
      BY <2>1
    <2> QED
      BY <2>2, Zenon DEF left
  <1>c. /\ k \in Int /\ Len(wire) \in Int /\ Len(delivered) \in Int /\ reader.ptr \in Int
        /\ writer.ptr \in Int /\ writer.nleft \in Int
    BY <1>3, <1>a
  <1>4. writer'.nleft \in Nat /\ Running(writer)' /\ Running(writer)
    <2>1. writer'.nleft \in Nat
      BY <1>a, <1>b, Zenon
    <2>2. writer'.nleft >= 0 /\ writer.nleft >= 0
      BY <2>1, <1>3
    <2> QED
      BY <2>1, <2>2 DEF Running
  <1>5. Sent = handed - writer.nleft /\ Sent' = Sent + k /\ Sent' \in Nat
    <2>1. Sent = handed - writer.nleft /\ Sent' = handed - writer'.nleft
      BY <1>2, <1>4 DEF Sent
    <2> QED
      BY <1>a, <1>b, <2>1, Zenon
  <1>d. Sent \in Int /\ Sent \in Nat /\ Sent <= Sent'
    <2>1. \A s \in Nat : s \in Int /\ s <= s + k
      BY <1>a
    <2> QED
      BY <1>3, <1>5, <2>1, Zenon
  <1> DEFINE n == Len(wire)
  <1>6. Types'
    <2>1. wire' \in Seq(1..MaxBytes) /\ Len(wire') <= Capacity
      BY <1>1
    <2>2. Types
      BY DEF Moving
    <2> QED
      BY <1>2, <2>1, <2>2 DEF Types
  <1>7. WriterType'
    <2>1. /\ writer.ptr + writer.nleft = writer.nbytes
          /\ writer.nbytes <= handed
          /\ Len(writer.msg) = writer.nbytes
          /\ \A i \in 1..writer.nbytes : writer.msg[i] = handed - writer.nbytes + i
      BY <1>2 DEF Moving, WriterType, NoCall, Killed
    <2>2. writer'.ptr + writer'.nleft = writer.nbytes
      <3> DEFINE left == writer.nleft
                 ptr == writer.ptr
      <3>1. left \in Int /\ ptr \in Int /\ k \in Int
        BY <1>c
      <3> HIDE DEF left, ptr
      <3>2. (ptr + k) + (left - k) = ptr + left
        BY <3>1
      <3> QED
        BY <1>a, <2>1, <3>2, Zenon DEF left, ptr
    <2> QED
      BY <1>1, <1>2, <2>1, <2>2, Zenon DEF WriterType
  <1>8. ReaderType'
    BY <1>2 DEF Moving, ReaderType
  <1>9. Order'
    <2>1. PICK a \in Nat, b \in Nat, c \in Nat :
            /\ Growing(delivered, Len(delivered), 0, a)
            /\ Growing(reader.msg, reader.ptr, a, b)
            /\ Growing(wire, Len(wire), b, c)
            /\ a <= b /\ b <= c /\ c <= Sent
      BY DEF Order
    <2> DEFINE u == [i \in 1..k |-> Sent + i]
    <2>2. Growing(u, k, c, Sent')
      <3>1. c \in Nat /\ c <= Sent /\ Sent \in Nat /\ k \in Nat /\ Sent' = Sent + k
        BY <1>3, <1>5, <1>a, <2>1
      <3>2. \A i \in 1..k : u[i] = Sent + i /\ Sent + i \in Nat /\ c < Sent + i /\ Sent + i <= Sent'
        BY <3>1
      <3>3. \A i, j \in 1..k : i < j => u[i] < u[j]
        BY <3>1
      <3> QED
        BY <3>2, <3>3 DEF Growing
    <2>3. \A i \in 1..k : wire'[n + i] = u[i]
      BY <1>1, <1>5
    <2> HIDE DEF u
    <2>4. c <= Sent' /\ b <= Sent'
      <3>1. \A s, t \in Nat : c <= s /\ s <= t => c <= t /\ b <= t
        BY <2>1
      <3> QED
        BY <1>5, <1>d, <2>1, <3>1, Zenon
    <2>5. Growing(wire', n + k, b, Sent')
      <3>1. n \in Nat /\ k \in Nat /\ \A i \in 1..n : wire'[i] = wire[i]
        BY <1>1
      <3>2. Growing(wire, n, b, c)
        BY <2>1
      <3> HIDE DEF n
      <3> QED
        BY <1>5, <2>1, <2>2, <2>3, <2>4, <3>1, <3>2, GrowingJoin
    <2>6. Growing(wire', Len(wire'), b, Sent')
      BY <1>1, <2>5, Zenon
    <2>7. /\ Growing(delivered', Len(delivered'), 0, a)
          /\ Growing(reader'.msg, reader'.ptr, a, b)
      BY <1>2, <2>1
    <2> QED
      <3>1. /\ a \in Nat /\ b \in Nat /\ Sent' \in Nat
            /\ Growing(delivered', Len(delivered'), 0, a)
            /\ Growing(reader'.msg, reader'.ptr, a, b)
            /\ Growing(wire', Len(wire'), b, Sent')
            /\ a <= b /\ b <= Sent' /\ Sent' <= Sent'
        BY <1>5, <2>1, <2>4, <2>6, <2>7
      <3> QED
        BY <3>1, Zenon DEF Order
  <1>10. Gapless'
    <2> SUFFICES ASSUME failed = {}
                 PROVE  /\ \A i \in 1..Len(delivered) : delivered[i] = i
                        /\ \A i \in 1..reader.ptr : reader.msg[i] = Len(delivered) + i
                        /\ \A i \in 1..Len(wire') : wire'[i] = Len(delivered) + reader.ptr + i
                        /\ Len(delivered) + reader.ptr + Len(wire') = Sent'
      BY <1>2 DEF Gapless
    <2>1. /\ \A i \in 1..Len(delivered) : delivered[i] = i
          /\ \A i \in 1..reader.ptr : reader.msg[i] = Len(delivered) + i
          /\ \A i \in 1..Len(wire) : wire[i] = Len(delivered) + reader.ptr + i
          /\ Len(delivered) + reader.ptr + Len(wire) = Sent
      <3>1. writer # Killed
        BY <1>2 DEF NoCall, Killed
      <3> QED
        BY <3>1 DEF Gapless
    <2>0. Len(delivered) + reader.ptr + Len(wire) = Sent
      BY <2>1
    <2>2. ASSUME NEW i \in 1..Len(wire')
          PROVE  wire'[i] = Len(delivered) + reader.ptr + i
      <3>1. i \in Int /\ (i \in 1..n \/ (i - n \in 1..k /\ i = n + (i - n)))
        BY <1>a, <1>3, OldOrNew, Zenon
      <3>2. CASE i \in 1..n
        BY <1>1, <2>1, <3>2, Zenon
      <3>3. CASE i - n \in 1..k /\ i = n + (i - n)
        <4>1. wire'[n + (i - n)] = Sent + (i - n)
          BY <1>1, <1>5, <3>3, Zenon
        <4>2. Sent + (i - n) = Len(delivered) + reader.ptr + i
          <5> DEFINE r == reader.ptr
          <5>1. r \in Int /\ Len(delivered) + r + n = Sent
            BY <1>c, <2>0
          <5> HIDE DEF r
          <5>2. Sent + (i - n) = Len(delivered) + r + i
            BY <1>c, <1>d, <3>1, <5>1
          <5> QED
            BY <5>2 DEF r
        <4> QED
          BY <3>3, <4>1, <4>2, Zenon
      <3> QED
        BY <3>1, <3>2, <3>3
    <2>3. Len(delivered) + reader.ptr + Len(wire') = Sent'
      <3> DEFINE r == reader.ptr
      <3>1. r \in Int /\ Len(delivered) + r + n = Sent
        BY <1>c, <2>0
      <3> HIDE DEF r
      <3>2. Len(delivered) + r + Len(wire') = Sent'
        BY <1>a, <1>c, <1>d, <1>5, <3>1
      <3> QED
        BY <3>2 DEF r
    <2> QED
      BY <2>1, <2>2, <2>3
  <1>11. \A x : OnItsWay(x) => OnItsWay(x)'
    <2>1. \A i \in 1..Len(wire) : i \in 1..Len(wire')
      BY <1>1, <1>3
    <2> QED
      BY <1>1, <1>2, <2>1 DEF OnItsWay, Delivered
  <1>12. Accepted'
    <2> SUFFICES ASSUME "reader" \notin failed
                 PROVE  /\ \A x \in accepted : OnItsWay(x)'
                        /\ \A i \in 1..writer'.ptr : (OnItsWay(writer.msg[i]))'
      BY <1>1, <1>2 DEF Accepted
    <2>1. \A x \in accepted : OnItsWay(x)'
      BY <1>11 DEF Accepted
    <2>2. ASSUME NEW i \in 1..writer'.ptr
          PROVE  (OnItsWay(writer.msg[i]))'
      <3>1. i \in 1..writer.ptr \/ (i - writer.ptr \in 1..k /\ i = writer.ptr + (i - writer.ptr))
        <4>1. writer.ptr \in Nat /\ k \in Nat /\ i \in 1..(writer.ptr + k)
          BY <1>a, <1>3
        <4> QED
          BY <4>1, OldOrNew, Zenon
      <3>2. CASE i \in 1..writer.ptr
        <4>1. OnItsWay(writer.msg[i])
          BY <1>4, <3>2 DEF Accepted
        <4>2. writer'.msg[i] = writer.msg[i]
          BY <1>1
        <4>3. \A x : OnItsWay(x) =>
                 \/ \E j \in 1..Len(delivered') : delivered'[j] = x
                 \/ \E j \in 1..reader'.ptr : reader'.msg[j] = x
                 \/ \E j \in 1..Len(wire') : wire'[j] = x
          BY <1>11 DEF OnItsWay, Delivered
        <4> QED
          BY <4>1, <4>2, <4>3 DEF OnItsWay, Delivered
      <3>3. CASE i - writer.ptr \in 1..k /\ i = writer.ptr + (i - writer.ptr)
        <4>1. /\ wire'[n + (i - writer.ptr)] = handed - writer.nleft + (i - writer.ptr)
              /\ writer.msg[i] = handed - writer.nleft + (i - writer.ptr)
          BY <1>1, <3>3
        <4>2. n + (i - writer.ptr) \in 1..Len(wire')
          BY <1>a, <1>3, <3>3, AddedPlace, Zenon
        <4>3. writer'.msg[i] = writer.msg[i]
          BY <1>1
        <4> QED
          BY <4>1, <4>2, <4>3 DEF OnItsWay
      <3> QED
        BY <3>1, <3>2, <3>3
    <2> QED
      BY <2>1, <2>2
  <1>13. Ended'
    <2>1. ~wclosed
      BY <1>4 DEF Ended
    <2> QED
      BY <1>2, <2>1 DEF Ended
  <1> QED
    BY <1>6, <1>7, <1>8, <1>9, <1>10, <1>12, <1>13 DEF Moving

LEMMA WriteFailsStep == IInv /\ WriteFails => IInv'
  <1> SUFFICES ASSUME IInv, WriteFails
               PROVE  IInv'
    OBVIOUS
  <1> USE DEF IInv
  <1>1. /\ writer' = NoCall /\ failed' = failed \cup {"writer"} /\ Running(writer)
        /\ UNCHANGED <<wire, wclosed, rclosed, reader, handed, accepted, delivered, short>>
    <2>1. writer \in Act
      BY DEF WriteFails, Moving, WriterType, NoCall, Killed
    <2> QED
      BY <2>1 DEF WriteFails, Running, Act
  <1>2. Sent' \in Nat /\ Sent <= Sent'
    BY <1>1, Numbers DEF Sent, Running, NoCall
  <1>3. /\ Order'
        /\ \A x : OnItsWay(x) => OnItsWay(x)'
        /\ \A x : Delivered(x) => Delivered(x)'
    BY <1>1, <1>2, Framed
  <1>4. Moving'
    BY <1>1 DEF Moving, Types, WriterType, ReaderType
  <1>5. Gapless'
    BY <1>1 DEF Gapless
  <1>6. Accepted'
    <2>1. ~Running(writer)'
      BY <1>1 DEF Running, NoCall
    <2>2. "reader" \notin failed' => "reader" \notin failed
      BY <1>1
    <2> QED
      BY <1>1, <1>3, <2>1, <2>2 DEF Accepted
  <1>7. Ended'
    <2>1. ~wclosed
      BY <1>1 DEF Ended
    <2> QED
      BY <1>1, <2>1 DEF Ended
  <1> QED
    BY <1>3, <1>4, <1>5, <1>6, <1>7

LEMMA WriteKilledStep == IInv /\ WriteKilled => IInv'
  <1> SUFFICES ASSUME IInv, WriteKilled
               PROVE  IInv'
    OBVIOUS
  <1> USE DEF IInv
  <1>1. /\ writer' = Killed /\ wclosed' = TRUE /\ Running(writer)
        /\ UNCHANGED <<wire, rclosed, reader, handed, accepted, delivered, short, failed>>
    <2>1. writer \in Act
      BY DEF WriteKilled, Moving, WriterType, NoCall, Killed
    <2> QED
      BY <2>1 DEF WriteKilled, Running, Act
  <1>2. ~Running(writer)'
    BY <1>1 DEF Running, NoCall, Killed
  <1>3. Sent' \in Nat /\ Sent <= Sent'
    BY <1>1, <1>2, Numbers DEF Sent
  <1>4. /\ Order'
        /\ \A x : OnItsWay(x) => OnItsWay(x)'
        /\ \A x : Delivered(x) => Delivered(x)'
    BY <1>1, <1>3, Framed
  <1>5. Moving'
    BY <1>1 DEF Moving, Types, WriterType, ReaderType
  <1>6. Gapless'
    <2>1. writer # Killed
      BY <1>1 DEF Running, NoCall, Killed
    <2> QED
      BY <1>1, <2>1 DEF Gapless
  <1>7. Accepted'
    BY <1>1, <1>2, <1>4 DEF Accepted
  <1>8. Ended'
    <2>1. ~short
      BY <1>1 DEF Ended
    <2> QED
      BY <1>1, <1>2, <2>1 DEF Ended
  <1> QED
    BY <1>4, <1>5, <1>6, <1>7, <1>8

\* The bytes of the message that was written are those now accepted.
LEMMA WritenReturnStep == IInv /\ WritenReturn => IInv'
  <1> SUFFICES ASSUME IInv, WritenReturn
               PROVE  IInv'
    OBVIOUS
  <1> USE DEF IInv
  <1>1. /\ writer' = NoCall /\ accepted' = accepted \cup ToSet(writer.msg)
        /\ writer.nleft = 0 /\ Running(writer)
        /\ UNCHANGED <<wire, wclosed, rclosed, reader, handed, delivered, short, failed>>
    BY DEF WritenReturn, Running
  <1>2. /\ writer \in Act /\ writer.ptr + writer.nleft = writer.nbytes
        /\ writer.nbytes <= handed /\ Len(writer.msg) = writer.nbytes
        /\ \A i \in 1..writer.nbytes : writer.msg[i] = handed - writer.nbytes + i
    BY <1>1 DEF Moving, WriterType, NoCall, Killed
  <1>3. /\ handed \in Nat /\ MaxBytes \in Nat /\ handed <= MaxBytes /\ Sent \in Nat
        /\ writer.ptr \in Nat /\ writer.nbytes \in Nat /\ writer.ptr = writer.nbytes
    BY <1>1, <1>2, Numbers DEF Act
  <1>4. ToSet(writer.msg) = {writer.msg[i] : i \in 1..writer.ptr}
    <2>1. DOMAIN writer.msg = 1..writer.ptr
      BY <1>2, <1>3, LenProperties DEF Act
    <2> QED
      BY <2>1 DEF ToSet
  <1>5. ~Running(writer)'
    BY <1>1 DEF Running, NoCall
  <1>6. Sent' = Sent /\ Sent' \in Nat
    BY <1>1, <1>3, <1>5 DEF Sent
  <1>7. /\ Order'
        /\ \A x : OnItsWay(x) => OnItsWay(x)'
        /\ \A x : Delivered(x) => Delivered(x)'
    BY <1>1, <1>3, <1>6, Framed
  <1>8. Moving'
    <2>1. \A i \in 1..writer.ptr : writer.msg[i] \in 1..MaxBytes
      <3>0. writer.nbytes <= handed
        BY <1>2
      <3>1. \A i \in 1..writer.ptr : handed - writer.nbytes + i \in 1..MaxBytes
        BY <1>3, <3>0
      <3>2. \A i \in 1..writer.ptr : writer.msg[i] = handed - writer.nbytes + i
        BY <1>2, <1>3
      <3> QED
        BY <3>1, <3>2
    <2>2. accepted' \subseteq 1..MaxBytes
      BY <1>1, <1>4, <2>1 DEF Moving, Types
    <2> QED
      BY <1>1, <2>2 DEF Moving, Types, WriterType, ReaderType
  <1>9. Gapless'
    <2>1. writer # Killed
      BY <1>1 DEF NoCall, Killed
    <2> QED
      BY <1>1, <1>6, <2>1 DEF Gapless
  <1>10. Accepted'
    <2> SUFFICES ASSUME "reader" \notin failed, NEW x \in accepted'
                 PROVE  OnItsWay(x)'
      BY <1>1, <1>5 DEF Accepted
    <2>1. OnItsWay(x)
      BY <1>1, <1>4 DEF Accepted
    <2> QED
      BY <1>7, <2>1
  <1>11. Ended'
    <2>1. ~wclosed
      BY <1>1 DEF Ended
    <2> QED
      BY <1>1, <2>1 DEF Ended
  <1> QED
    BY <1>7, <1>8, <1>9, <1>10, <1>11

----------------------------------------------------------------------------
(* The steps of the reader.                                                *)

LEMMA CallReadnStep == IInv /\ CallReadn => IInv'
  <1> SUFFICES ASSUME IInv, CallReadn
               PROVE  IInv'
    OBVIOUS
  <1> USE DEF IInv
  <1>1. PICK n \in Sizes : reader' = Activation([i \in 1..n |-> 0], n)
    BY DEF CallReadn
  <1>2. /\ reader = NoCall /\ n \in Nat
        /\ UNCHANGED <<wire, wclosed, rclosed, writer, handed, accepted, delivered, short,
                       failed>>
    BY StreamAssumption DEF CallReadn
  <1> DEFINE m == [i \in 1..n |-> 0]
  <1>3. m \in Seq(Nat) /\ Len(m) = n
    <2>1. m \in [1..n -> Nat] /\ DOMAIN m = 1..n
      OBVIOUS
    <2> HIDE DEF m
    <2>2. m \in Seq(Nat)
      BY <1>2, <2>1, SeqDef
    <2> QED
      BY <1>2, <2>1, <2>2, LenProperties
  <1>4. reader' = [msg |-> m, ptr |-> 0, nbytes |-> n, nleft |-> n]
    BY <1>1 DEF Activation
  <1> HIDE DEF m
  <1>5. /\ reader' \in Act /\ reader'.ptr = 0 /\ reader'.nleft = n /\ reader'.nbytes = n
        /\ reader'.msg = m
    BY <1>2, <1>3, <1>4 DEF Act
  <1>6. ReaderType'
    <2>1. 0 + n = n
      BY <1>2
    <2> QED
      BY <1>3, <1>5, <2>1 DEF ReaderType
  <1>7. Moving'
    BY <1>2, <1>6 DEF Moving, Types, WriterType
  <1>8. Sent' = Sent
    BY <1>2 DEF Sent, Running
  <1>9. reader.ptr = 0 /\ \A i \in 1..0 : FALSE
    BY <1>2 DEF NoCall
  <1>10. Order'
    <2>1. PICK a \in Nat, b \in Nat, c \in Nat :
            /\ Growing(delivered, Len(delivered), 0, a)
            /\ Growing(reader.msg, reader.ptr, a, b)
            /\ Growing(wire, Len(wire), b, c)
            /\ a <= b /\ b <= c /\ c <= Sent
      BY DEF Order
    <2>2. Growing(reader'.msg, reader'.ptr, a, b)
      BY <1>5, GrowingEmpty
    <2> QED
      BY <1>2, <1>8, <2>1, <2>2 DEF Order
  <1>11. Gapless'
    <2> SUFFICES ASSUME failed = {}
                 PROVE  /\ \A i \in 1..Len(delivered) : delivered[i] = i
                        /\ \A i \in 1..0 : reader'.msg[i] = Len(delivered) + i
                        /\ \A i \in 1..Len(wire) : wire[i] = Len(delivered) + 0 + i
                        /\ writer # Killed => Len(delivered) + 0 + Len(wire) = Sent
      BY <1>2, <1>5, <1>8 DEF Gapless
    <2> QED
      BY <1>9 DEF Gapless
  <1>12. \A x : OnItsWay(x) => OnItsWay(x)'
    BY <1>2, <1>9 DEF OnItsWay, Delivered
  <1>13. Accepted'
    <2> SUFFICES ASSUME "reader" \notin failed
                 PROVE  /\ \A x \in accepted : OnItsWay(x)'
                        /\ Running(writer) => \A i \in 1..writer.ptr : (OnItsWay(writer.msg[i]))'
      BY <1>2 DEF Accepted, Running
    <2>1. ASSUME NEW x, OnItsWay(x)
          PROVE  \/ \E j \in 1..Len(delivered) : delivered[j] = x
                 \/ \E j \in 1..Len(wire) : wire[j] = x
      BY <1>9, <2>1 DEF OnItsWay, Delivered
    <2>2. ASSUME Running(writer), NEW i \in 1..writer.ptr
          PROVE  (OnItsWay(writer.msg[i]))'
      <3>1. OnItsWay(writer.msg[i])
        BY <2>2 DEF Accepted
      <3> QED
        BY <1>2, <2>1, <3>1 DEF OnItsWay, Delivered
    <2> QED
      BY <1>12, <2>2 DEF Accepted
  <1>14. Ended'
    BY <1>2 DEF Ended, Running, Delivered
  <1> QED
    BY <1>7, <1>10, <1>11, <1>13, <1>14

LEMMA ReadSomeStep == IInv /\ ReadSome => IInv'
  <1> SUFFICES ASSUME IInv, ReadSome
               PROVE  IInv'
    OBVIOUS
  <1> USE DEF IInv
  <1>1. PICK k \in Nat \ {0} :
             /\ k <= reader.nleft /\ k <= Len(wire)
             /\ reader \in Act /\ Len(wire) \in Nat
             /\ wire' \in Seq(1..MaxBytes) /\ Len(wire') = Len(wire) - k
             /\ \A i \in 1..(Len(wire) - k) : wire'[i] = wire[k + i]
             /\ \A i \in 1..reader.ptr : reader'.msg[i] = reader.msg[i]
             /\ \A i \in 1..k : reader'.msg[reader.ptr + i] = wire[i]
             /\ reader' \in Act /\ reader'.nleft = reader.nleft - k
             /\ reader'.ptr = reader.ptr + k /\ reader'.nbytes = reader.nbytes
             /\ Len(reader'.msg) = reader.nbytes
    BY ReadMoves
  <1>2. UNCHANGED <<wclosed, rclosed, writer, handed, accepted, delivered, short, failed>>
    BY DEF ReadSome
  <1>3. /\ Len(wire) \in Nat /\ Len(delivered) \in Nat /\ reader.ptr \in Nat /\ Sent \in Nat
        /\ reader.nleft \in Int
    BY Numbers
  <1>4. /\ k \in Nat /\ 0 < k /\ k <= Len(wire) /\ Len(wire') = Len(wire) - k
        /\ reader'.ptr = reader.ptr + k /\ reader'.nleft = reader.nleft - k
        /\ reader'.nbytes = reader.nbytes
    BY <1>1
  <1>5. Sent' = Sent
    BY <1>2 DEF Sent, Running
  <1> DEFINE n == Len(wire)
             p == reader.ptr
  <1>6. Moving'
    <2>1. Len(wire') <= Capacity
      <3>1. Len(wire) <= Capacity /\ Capacity \in Nat
        BY StreamAssumption DEF Moving, Types
      <3> QED
        BY <1>3, <1>4, <3>1
    <2>2. Types'
      BY <1>1, <1>2, <2>1 DEF Moving, Types
    <2>3. reader'.ptr + reader'.nleft = reader'.nbytes
      <3>1. reader.ptr + reader.nleft = reader.nbytes
        BY <1>1, <1>4 DEF Moving, ReaderType, NoCall, Act
      <3> QED
        BY <1>3, <1>4, <3>1
    <2>4. ReaderType'
      BY <1>1, <2>3 DEF ReaderType
    <2> QED
      BY <1>2, <2>2, <2>4 DEF Moving, WriterType
  <1>7. Order'
    <2>1. PICK a \in Nat, b \in Nat, c \in Nat :
            /\ Growing(delivered, Len(delivered), 0, a)
            /\ Growing(reader.msg, reader.ptr, a, b)
            /\ Growing(wire, Len(wire), b, c)
            /\ a <= b /\ b <= c /\ c <= Sent
      BY DEF Order
    <2>2. /\ wire[k] \in Nat /\ b < wire[k] /\ wire[k] <= c
          /\ Growing(wire, k, b, wire[k])
          /\ Growing(wire', n - k, wire[k], c)
      <3>1. n \in Nat /\ k \in 1..n /\ \A i \in 1..(n - k) : wire'[i] = wire[k + i]
        BY <1>1, <1>4, <1>3
      <3>2. Growing(wire, n, b, c)
        BY <2>1
      <3> HIDE DEF n
      <3> QED
        BY <2>1, <3>1, <3>2, GrowingSplit
    <2>3. a <= wire[k] /\ b <= wire[k]
      BY <2>1, <2>2
    <2>4. Growing(reader'.msg, p + k, a, wire[k])
      <3>1. p \in Nat /\ k \in Nat
        BY <1>3, <1>4
      <3>2. /\ \A i \in 1..p : reader'.msg[i] = reader.msg[i]
            /\ \A i \in 1..k : reader'.msg[p + i] = wire[i]
        BY <1>1
      <3>3. Growing(reader.msg, p, a, b)
        BY <2>1
      <3> HIDE DEF p
      <3> QED
        BY <2>1, <2>2, <2>3, <3>1, <3>2, <3>3, GrowingJoin
    <2>5. Growing(reader'.msg, reader'.ptr, a, wire[k])
      BY <1>4, <2>4, Zenon
    <2>6. Growing(wire', Len(wire'), wire[k], c)
      BY <1>4, <2>2, Zenon
    <2> QED
      BY <1>2, <1>5, <2>1, <2>2, <2>3, <2>5, <2>6 DEF Order
  <1>8. Gapless'
    <2> SUFFICES ASSUME failed = {}
                 PROVE  /\ \A i \in 1..Len(delivered) : delivered[i] = i
                        /\ \A i \in 1..reader'.ptr : reader'.msg[i] = Len(delivered) + i
                        /\ \A i \in 1..Len(wire') : wire'[i] = Len(delivered) + reader'.ptr + i
                        /\ writer # Killed => Len(delivered) + reader'.ptr + Len(wire') = Sent
      BY <1>2, <1>5 DEF Gapless
    <2>1. /\ \A i \in 1..Len(delivered) : delivered[i] = i
          /\ \A i \in 1..p : reader.msg[i] = Len(delivered) + i
          /\ \A i \in 1..n : wire[i] = Len(delivered) + p + i
          /\ writer # Killed => Len(delivered) + p + n = Sent
      BY DEF Gapless
    <2>2. ASSUME NEW i \in 1..reader'.ptr
          PROVE  reader'.msg[i] = Len(delivered) + i
      <3>1. i \in 1..p \/ (i - p \in 1..k /\ i = p + (i - p))
        BY <1>3, <1>4, OldOrNew, Zenon
      <3>2. CASE i \in 1..p
        BY <1>1, <2>1, <3>2
      <3>3. CASE i - p \in 1..k /\ i = p + (i - p)
        <4>1. i - p \in 1..n
          BY <1>3, <1>4, <3>3
        <4>2. reader'.msg[p + (i - p)] = wire[i - p]
          BY <1>1, <3>3
        <4>3. wire[i - p] = Len(delivered) + p + (i - p)
          BY <2>1, <4>1
        <4>4. Len(delivered) + p + (i - p) = Len(delivered) + i
          BY <1>3
        <4> QED
          BY <3>3, <4>2, <4>3, <4>4
      <3> QED
        BY <3>1, <3>2, <3>3
    <2>3. ASSUME NEW i \in 1..Len(wire')
          PROVE  wire'[i] = Len(delivered) + reader'.ptr + i
      <3>1. i \in 1..(n - k) /\ k + i \in 1..n
        BY <1>3, <1>4
      <3>2. wire'[i] = wire[k + i] /\ wire[k + i] = Len(delivered) + p + (k + i)
        BY <1>1, <2>1, <3>1
      <3>3. Len(delivered) + p + (k + i) = Len(delivered) + reader'.ptr + i
        BY <1>3, <1>4
      <3> QED
        BY <3>2, <3>3
    <2>4. writer # Killed => Len(delivered) + reader'.ptr + Len(wire') = Sent
      BY <1>3, <1>4, <2>1
    <2> QED
      BY <2>1, <2>2, <2>3, <2>4
  <1>9. ASSUME NEW x, OnItsWay(x)
        PROVE  \/ \E j \in 1..Len(delivered') : delivered'[j] = x
               \/ \E j \in 1..reader'.ptr : reader'.msg[j] = x
               \/ \E j \in 1..Len(wire') : wire'[j] = x
    <2>1. CASE Delivered(x)
      BY <1>2, <2>1 DEF Delivered
    <2>2. CASE \E i \in 1..p : reader.msg[i] = x
      <3>1. \A i \in 1..p : i \in 1..reader'.ptr
        BY <1>3, <1>4
      <3> QED
        BY <1>1, <2>2, <3>1
    <2>3. CASE \E i \in 1..n : wire[i] = x
      <3>1. PICK i \in 1..n : wire[i] = x
        BY <2>3
      <3>2. CASE i <= k
        <4>1. i \in 1..k /\ p + i \in 1..reader'.ptr
          BY <1>3, <1>4, <3>2
        <4>2. reader'.msg[p + i] = x
          BY <1>1, <3>1, <4>1
        <4> QED
          BY <4>1, <4>2
      <3>3. CASE ~(i <= k)
        <4>1. i - k \in 1..(n - k) /\ i - k \in 1..Len(wire') /\ k + (i - k) = i
          BY <1>3, <1>4, <3>3
        <4>2. wire'[i - k] = wire[k + (i - k)]
          BY <1>1, <4>1
        <4> QED
          BY <3>1, <4>1, <4>2
      <3> QED
        BY <3>2, <3>3
    <2> QED
      BY <1>9, <2>1, <2>2, <2>3 DEF OnItsWay
  <1>10. Accepted'
    <2> SUFFICES ASSUME "reader" \notin failed
                 PROVE  /\ \A x \in accepted : OnItsWay(x)'
                        /\ Running(writer) => \A i \in 1..writer.ptr : (OnItsWay(writer.msg[i]))'
      BY <1>2 DEF Accepted, Running
    <2>1. \A x \in accepted : OnItsWay(x)'
      BY <1>9 DEF Accepted, OnItsWay, Delivered
    <2>2. ASSUME Running(writer), NEW i \in 1..writer.ptr
          PROVE  (OnItsWay(writer.msg[i]))'
      <3>1. OnItsWay(writer.msg[i])
        BY <2>2 DEF Accepted
      <3> QED
        BY <1>2, <1>9, <3>1 DEF OnItsWay, Delivered
    <2> QED
      BY <2>1, <2>2
  <1>11. Ended'
    <2>1. Len(wire) # 0
      BY <1>3, <1>4
    <2>2. ~short
      BY <2>1 DEF Ended
    <2> QED
      BY <1>2, <2>2 DEF Ended, Running
  <1> QED
    BY <1>6, <1>7, <1>8, <1>10, <1>11

\* A call of Readn that returns a count; a short one, at the end of the stream.
LEMMA ReturnStep ==
    ASSUME IInv, ReturnCount, reader.nleft >= 0,
           reader.nleft > 0 => wire = <<>> /\ wclosed
    PROVE  IInv'
  <1> USE DEF IInv
  <1>1. /\ reader \in Act /\ reader' = NoCall
        /\ delivered' \in Seq(Nat) /\ Len(delivered) \in Nat
        /\ Len(delivered') = Len(delivered) + reader.ptr
        /\ \A i \in 1..Len(delivered) : delivered'[i] = delivered[i]
        /\ \A i \in 1..reader.ptr : delivered'[Len(delivered) + i] = reader.msg[i]
        /\ short' = (reader.nleft > 0)
    BY ReturnMoves
  <1>2. UNCHANGED <<wire, wclosed, rclosed, writer, handed, accepted, failed>>
    BY DEF ReturnCount
  <1>3. /\ Len(wire) \in Nat /\ Len(delivered) \in Nat /\ reader.ptr \in Nat /\ Sent \in Nat
    BY Numbers
  <1>4. Len(delivered') = Len(delivered) + reader.ptr /\ reader'.ptr = 0
    BY <1>1 DEF NoCall
  <1>5. Sent' = Sent
    BY <1>2 DEF Sent, Running
  <1> DEFINE n == Len(delivered)
             p == reader.ptr
  <1>6. Moving'
    <2>1. short' \in BOOLEAN
      BY <1>1
    <2>2. Types'
      BY <1>1, <1>2, <2>1 DEF Moving, Types
    <2> QED
      BY <1>1, <1>2, <2>2 DEF Moving, WriterType, ReaderType
  <1>7. Order'
    <2>1. PICK a \in Nat, b \in Nat, c \in Nat :
            /\ Growing(delivered, n, 0, a)
            /\ Growing(reader.msg, p, a, b)
            /\ Growing(wire, Len(wire), b, c)
            /\ a <= b /\ b <= c /\ c <= Sent
      BY DEF Order
    <2>2. Growing(delivered', n + p, 0, b)
      <3>1. p \in Nat /\ n \in Nat /\ 0 \in Nat /\ 0 <= a
        BY <1>3, <2>1
      <3>2. /\ \A i \in 1..n : delivered'[i] = delivered[i]
            /\ \A i \in 1..p : delivered'[n + i] = reader.msg[i]
        BY <1>1
      <3> HIDE DEF p, n
      <3> QED
        BY <2>1, <3>1, <3>2, GrowingJoin
    <2>3. Growing(delivered', Len(delivered'), 0, b)
      BY <1>4, <2>2, Zenon
    <2>4. Growing(reader'.msg, reader'.ptr, b, b)
      BY <1>4, <2>1, GrowingEmpty
    <2> QED
      BY <1>2, <1>5, <2>1, <2>3, <2>4 DEF Order
  <1>8. Gapless'
    <2> SUFFICES ASSUME failed = {}
                 PROVE  /\ \A i \in 1..Len(delivered') : delivered'[i] = i
                        /\ \A i \in 1..0 : reader'.msg[i] = Len(delivered') + i
                        /\ \A i \in 1..Len(wire) : wire[i] = Len(delivered') + 0 + i
                        /\ writer # Killed => Len(delivered') + 0 + Len(wire) = Sent
      BY <1>2, <1>4, <1>5 DEF Gapless
    <2>1. /\ \A i \in 1..n : delivered[i] = i
          /\ \A i \in 1..p : reader.msg[i] = n + i
          /\ \A i \in 1..Len(wire) : wire[i] = n + p + i
          /\ writer # Killed => n + p + Len(wire) = Sent
      BY DEF Gapless
    <2>2. ASSUME NEW i \in 1..Len(delivered')
          PROVE  delivered'[i] = i
      <3>1. i \in 1..n \/ (i - n \in 1..p /\ i = n + (i - n))
        BY <1>3, <1>4
      <3>2. CASE i \in 1..n
        BY <1>1, <2>1, <3>2
      <3>3. CASE i - n \in 1..p /\ i = n + (i - n)
        <4>1. delivered'[n + (i - n)] = reader.msg[i - n] /\ reader.msg[i - n] = n + (i - n)
          BY <1>1, <2>1, <3>3
        <4> QED
          BY <3>3, <4>1
      <3> QED
        BY <3>1, <3>2, <3>3
    <2>3. Len(delivered') + 0 = n + p /\ \A i \in 1..0 : FALSE
      BY <1>3, <1>4
    <2>4. \A i \in 1..Len(wire) : wire[i] = Len(delivered') + 0 + i
      BY <2>1, <2>3, Zenon
    <2>5. writer # Killed => Len(delivered') + 0 + Len(wire) = Sent
      BY <2>1, <2>3, Zenon
    <2> QED
      BY <2>2, <2>3, <2>4, <2>5
  <1>9. ASSUME NEW x, OnItsWay(x)
        PROVE  \/ \E j \in 1..Len(delivered') : delivered'[j] = x
               \/ \E j \in 1..Len(wire) : wire[j] = x
    <2>1. CASE Delivered(x)
      <3>1. \A i \in 1..n : i \in 1..Len(delivered')
        BY <1>3, <1>4
      <3> QED
        BY <1>1, <2>1, <3>1 DEF Delivered
    <2>2. CASE \E i \in 1..p : reader.msg[i] = x
      <3>1. PICK i \in 1..p : reader.msg[i] = x
        BY <2>2
      <3>2. n + i \in 1..Len(delivered')
        BY <1>3, <1>4
      <3> QED
        BY <1>1, <3>1, <3>2
    <2>3. CASE \E i \in 1..Len(wire) : wire[i] = x
      BY <2>3
    <2> QED
      BY <1>9, <2>1, <2>2, <2>3 DEF OnItsWay
  <1>10. Accepted'
    <2> SUFFICES ASSUME "reader" \notin failed
                 PROVE  /\ \A x \in accepted : OnItsWay(x)'
                        /\ Running(writer) => \A i \in 1..writer.ptr : (OnItsWay(writer.msg[i]))'
      BY <1>2 DEF Accepted, Running
    <2>1. \A x \in accepted : OnItsWay(x)'
      BY <1>2, <1>9 DEF Accepted, OnItsWay, Delivered
    <2>2. ASSUME Running(writer), NEW i \in 1..writer.ptr
          PROVE  (OnItsWay(writer.msg[i]))'
      <3>1. OnItsWay(writer.msg[i])
        BY <2>2 DEF Accepted
      <3> QED
        BY <1>2, <1>9, <3>1 DEF OnItsWay, Delivered
    <2> QED
      BY <2>1, <2>2
  <1>11. Ended'
    <2>1. (wclosed => ~Running(writer))'
      BY <1>2 DEF Ended, Running
    <2>2. ASSUME short'
          PROVE  /\ wclosed /\ Len(wire) = 0
                 /\ failed = {} => \A x \in accepted : Delivered(x)'
      <3>1. wire = <<>> /\ wclosed
        BY <1>1, <2>2
      <3>2. Len(wire) = 0 /\ \A j \in 1..Len(wire) : FALSE
        BY <3>1
      <3>3. ASSUME failed = {}, NEW x \in accepted
            PROVE  Delivered(x)'
        <4>1. OnItsWay(x)
          BY <3>3 DEF Accepted
        <4> QED
          BY <1>9, <3>2, <4>1 DEF Delivered
      <3> QED
        BY <3>1, <3>2, <3>3
    <2> QED
      BY <1>2, <2>1, <2>2 DEF Ended
  <1> QED
    BY <1>6, <1>7, <1>8, <1>10, <1>11

LEMMA ReadFailsStep == IInv /\ ReadFails => IInv'
  <1> SUFFICES ASSUME IInv, ReadFails
               PROVE  IInv'
    OBVIOUS
  <1> USE DEF IInv
  <1>1. /\ reader' = NoCall /\ failed' = failed \cup {"reader"}
        /\ UNCHANGED <<wire, wclosed, rclosed, writer, handed, accepted, delivered, short>>
    BY DEF ReadFails
  <1>2. Moving'
    BY <1>1 DEF Moving, Types, WriterType, ReaderType
  <1>3. Order'
    <2>1. PICK a \in Nat, b \in Nat, c \in Nat :
            /\ Growing(delivered, Len(delivered), 0, a)
            /\ Growing(reader.msg, reader.ptr, a, b)
            /\ Growing(wire, Len(wire), b, c)
            /\ a <= b /\ b <= c /\ c <= Sent
      BY DEF Order
    <2>2. Growing(reader'.msg, reader'.ptr, a, b)
      BY <1>1, <2>1, GrowingEmpty DEF NoCall
    <2>3. Sent' = Sent
      BY <1>1 DEF Sent, Running
    <2> QED
      BY <1>1, <2>1, <2>2, <2>3 DEF Order
  <1>4. "reader" \in failed' /\ failed' # {}
    BY <1>1
  <1>5. Gapless' /\ Accepted'
    BY <1>4 DEF Gapless, Accepted
  <1>6. Ended'
    BY <1>1, <1>4 DEF Ended, Running
  <1> QED
    BY <1>2, <1>3, <1>5, <1>6

----------------------------------------------------------------------------
(* The invariant.                                                          *)

\* Closing an end, an interruption and a step of neither process move nothing.
LEMMA OtherSteps ==
    IInv /\ (Interrupted \/ CloseWriter \/ CloseReader \/ UNCHANGED vars) => IInv'
  <1> SUFFICES ASSUME IInv, Interrupted \/ CloseWriter \/ CloseReader \/ UNCHANGED vars
               PROVE  IInv'
    OBVIOUS
  <1> USE DEF IInv
  <1>1. /\ UNCHANGED <<wire, writer, reader, handed, accepted, delivered, short, failed>>
        /\ wclosed' = wclosed \/ (wclosed' = TRUE /\ ~Running(writer))
        /\ rclosed' = rclosed \/ rclosed' = TRUE
    BY DEF Interrupted, CloseWriter, CloseReader, vars
  <1>2. Sent' = Sent /\ Sent' \in Nat
    BY <1>1, Numbers DEF Sent, Running
  <1>3. /\ Order'
        /\ \A x : OnItsWay(x) => OnItsWay(x)'
        /\ \A x : Delivered(x) => Delivered(x)'
    BY <1>1, <1>2, Numbers, Framed
  <1>4. Moving'
    BY <1>1 DEF Moving, Types, WriterType, ReaderType
  <1>5. Gapless'
    BY <1>1, <1>2 DEF Gapless
  <1>6. Accepted'
    <2> SUFFICES ASSUME "reader" \notin failed
                 PROVE  /\ \A x \in accepted : OnItsWay(x)'
                        /\ Running(writer) => \A i \in 1..writer.ptr : (OnItsWay(writer.msg[i]))'
      BY <1>1 DEF Accepted, Running
    <2>1. \A x : OnItsWay(x) => OnItsWay(x)'
      BY <1>3
    <2>2. ASSUME Running(writer), NEW i \in 1..writer.ptr
          PROVE  (OnItsWay(writer.msg[i]))'
      <3>1. OnItsWay(writer.msg[i])
        BY <2>2 DEF Accepted
      <3> QED
        BY <1>1, <3>1 DEF OnItsWay, Delivered
    <2> QED
      BY <2>1, <2>2 DEF Accepted
  <1>7. Ended'
    BY <1>1, <1>3 DEF Ended, Running
  <1> QED
    BY <1>3, <1>4, <1>5, <1>6, <1>7

LEMMA InitInv == Init => IInv
  <1> SUFFICES ASSUME Init
               PROVE  IInv
    OBVIOUS
  <1>1. /\ wire = <<>> /\ delivered = <<>> /\ writer = NoCall /\ reader = NoCall
        /\ handed = 0 /\ accepted = {} /\ failed = {} /\ wclosed = FALSE /\ rclosed = FALSE
        /\ short = FALSE
    BY DEF Init
  <1>2. /\ Len(wire) = 0 /\ Len(delivered) = 0 /\ reader.ptr = 0 /\ ~Running(writer)
        /\ wire \in Seq(1..MaxBytes) /\ delivered \in Seq(Nat)
    BY <1>1 DEF NoCall, Running
  <1>3. 0 <= Capacity /\ 0 \in 0..MaxBytes
    BY StreamAssumption
  <1>4. Moving
    BY <1>1, <1>2, <1>3 DEF Moving, Types, WriterType, ReaderType
  <1>5. Sent = 0
    BY <1>1, <1>2 DEF Sent
  <1>6. Order
    BY <1>2, <1>5, GrowingEmpty DEF Order
  <1>7. \A i \in 1..0 : FALSE
    OBVIOUS
  <1>8. Gapless
    BY <1>2, <1>5, <1>7 DEF Gapless
  <1>9. Accepted /\ Ended
    BY <1>1, <1>2 DEF Accepted, Ended
  <1> QED
    BY <1>4, <1>6, <1>8, <1>9 DEF IInv

LEMMA NextInv == IInv /\ [Next]_vars => IInv'
  <1> SUFFICES ASSUME IInv, [Next]_vars
               PROVE  IInv'
    OBVIOUS
  <1>1. CASE ReadEnd
    <2>1. ReturnCount /\ reader.nleft >= 0 /\ (reader.nleft > 0 => wire = <<>> /\ wclosed)
      <3>1. reader.nleft \in Int
        BY Numbers DEF IInv
      <3> QED
        BY <1>1, <3>1 DEF ReadEnd
    <2> QED
      BY <2>1, ReturnStep
  <1>2. CASE ReadnReturn
    <2>1. ReturnCount /\ reader.nleft >= 0 /\ (reader.nleft > 0 => wire = <<>> /\ wclosed)
      BY <1>2 DEF ReadnReturn
    <2> QED
      BY <2>1, ReturnStep
  <1> QED
    BY <1>1, <1>2, CallWritenStep, WriteSomeStep, WriteFailsStep, WriteKilledStep,
       WritenReturnStep, CallReadnStep, ReadSomeStep, ReadFailsStep, OtherSteps DEF Next

LEMMA SpecInv == Spec => []IInv
  BY InitInv, NextInv, PTL DEF Spec

----------------------------------------------------------------------------
(* The theorems.                                                           *)

\* Every variable holds a value of its type, and the cursors of the loops of Writen
\* and Readn stay inside the caller's buffer.
THEOREM StreamTyped == Spec => []TypeOK
  <1>1. IInv => TypeOK
    <2> SUFFICES ASSUME IInv
                 PROVE  TypeOK
      OBVIOUS
    <2>1. writer \in {NoCall, Killed} \/ IsActivation(writer)
      BY DEF IInv, Moving, WriterType, IsActivation, Act
    <2>2. reader = NoCall \/ IsActivation(reader)
      BY DEF IInv, Moving, ReaderType, IsActivation, Act
    <2> QED
      BY <2>1, <2>2 DEF TypeOK, IInv, Moving, Types
  <1> QED
    BY <1>1, SpecInv, PTL

\* What the calls of Readn deliver is in the order of the calls of Writen, without a
\* byte repeated or made up, whatever fails and wherever the kernel splits it.
THEOREM BytesInOrder == Spec => []InOrder
  <1>1. IInv => InOrder
    <2> SUFFICES ASSUME IInv, NEW i \in DOMAIN delivered
                 PROVE  /\ delivered[i] \in 1..handed
                        /\ i > 1 => delivered[i - 1] < delivered[i]
      BY DEF InOrder
    <2>1. PICK a \in Nat, b \in Nat, c \in Nat :
            /\ Growing(delivered, Len(delivered), 0, a)
            /\ a <= b /\ b <= c /\ c <= Sent
      BY DEF IInv, Order
    <2>2. a <= handed /\ handed \in Nat /\ Len(delivered) \in Nat
      BY <2>1, Numbers DEF IInv
    <2>3. i \in 1..Len(delivered)
      BY LenProperties DEF IInv, Moving, Types
    <2>4. delivered[i] \in 1..handed
      BY <2>2, <2>1, <2>3 DEF Growing
    <2>5. ASSUME i > 1
          PROVE  delivered[i - 1] < delivered[i]
      <3>1. i - 1 \in 1..Len(delivered) /\ i - 1 < i
        BY <2>2, <2>3, <2>5
      <3> QED
        BY <2>1, <2>3, <3>1 DEF Growing
    <2> QED
      BY <2>4, <2>5
  <1> QED
    BY <1>1, SpecInv, PTL

\* Until a call returns -1 nothing is left out of what Readn delivers.
THEOREM BytesWithoutGap == Spec => []NoGap
  <1>1. IInv => NoGap
    <2> SUFFICES ASSUME IInv, failed = {}, NEW i \in DOMAIN delivered
                 PROVE  delivered[i] = i
      BY DEF NoGap
    <2>1. i \in 1..Len(delivered)
      BY LenProperties DEF IInv, Moving, Types
    <2> QED
      BY <2>1 DEF IInv, Gapless
  <1> QED
    BY <1>1, SpecInv, PTL

\* A Readn that returns less than it was asked for has seen the end of the stream, and
\* everything that was accepted before is with the reader.
THEOREM ShortCountIsTheEnd == Spec => []ShortOnlyAtEnd
  <1>1. IInv => ShortOnlyAtEnd
    <2> SUFFICES ASSUME IInv, short
                 PROVE  /\ wclosed /\ wire = <<>>
                        /\ failed = {} => accepted \subseteq ToSet(delivered)
      BY DEF ShortOnlyAtEnd
    <2>1. wclosed /\ Len(wire) = 0 /\ (failed = {} => \A x \in accepted : Delivered(x))
      BY DEF IInv, Ended
    <2>2. wire = <<>>
      BY <2>1, EmptySeq DEF IInv, Moving, Types
    <2>3. \A x : Delivered(x) => x \in ToSet(delivered)
      <3>1. DOMAIN delivered = 1..Len(delivered)
        BY LenProperties DEF IInv, Moving, Types
      <3> QED
        BY <3>1 DEF Delivered, ToSet
    <2> QED
      BY <2>1, <2>2, <2>3
  <1> QED
    BY <1>1, SpecInv, PTL

\* The bytes of a Writen that returned its count are delivered, stored by a Readn that
\* is running or on the wire, unless a Readn failed.
THEOREM AcceptedNotLost == Spec => []AcceptedIsOnItsWay
  <1>1. IInv => AcceptedIsOnItsWay
    <2> SUFFICES ASSUME IInv, "reader" \notin failed, NEW x \in accepted
                 PROVE  x \in ToSet(delivered) \cup ToSet(SubSeq(reader.msg, 1, reader.ptr))
                                \cup ToSet(wire)
      BY DEF AcceptedIsOnItsWay
    <2>1. OnItsWay(x)
      BY DEF IInv, Accepted
    <2>2. CASE Delivered(x)
      <3>1. DOMAIN delivered = 1..Len(delivered)
        BY LenProperties DEF IInv, Moving, Types
      <3> QED
        BY <2>2, <3>1 DEF Delivered, ToSet
    <2>3. CASE \E i \in 1..Len(wire) : wire[i] = x
      <3>1. DOMAIN wire = 1..Len(wire)
        BY LenProperties DEF IInv, Moving, Types
      <3> QED
        BY <2>3, <3>1 DEF ToSet
    <2>4. CASE \E i \in 1..reader.ptr : reader.msg[i] = x
      <3>1. PICK i \in 1..reader.ptr : reader.msg[i] = x
        BY <2>4
      <3>2. reader \in Act /\ reader.ptr + reader.nleft = reader.nbytes
            /\ Len(reader.msg) = reader.nbytes
        BY <3>1 DEF IInv, Moving, ReaderType, NoCall
      <3> DEFINE s == reader.msg
                 m == reader.ptr
                 piece == SubSeq(reader.msg, 1, reader.ptr)
      <3>3. s \in Seq(Nat) /\ m \in Nat /\ 0 \in Nat /\ 0 + m <= Len(s)
        BY <3>2 DEF Act
      <3>4. piece = SubSeq(s, 1, m) /\ i \in 1..m /\ s[i] = x
        BY <3>1
      <3> HIDE DEF s, m, piece
      <3>5. /\ SubSeq(s, 0 + 1, 0 + m) \in Seq(Nat) /\ Len(SubSeq(s, 0 + 1, 0 + m)) = m
            /\ \A j \in 1..m : SubSeq(s, 0 + 1, 0 + m)[j] = s[0 + j]
        BY <3>3, Piece
      <3>6. 0 + 1 = 1 /\ 0 + m = m /\ \A j \in 1..m : 0 + j = j
        BY <3>3
      <3>7. /\ piece \in Seq(Nat) /\ Len(piece) = m /\ \A j \in 1..m : piece[j] = s[j]
        BY <3>4, <3>5, <3>6, Zenon
      <3>8. DOMAIN piece = 1..m
        BY <3>7, LenProperties
      <3>9. x \in ToSet(piece)
        BY <3>4, <3>7, <3>8 DEF ToSet
      <3> QED
        BY <3>9 DEF piece
    <2> QED
      BY <2>1, <2>2, <2>3, <2>4 DEF OnItsWay
  <1> QED
    BY <1>1, SpecInv, PTL

----------------------------------------------------------------------------
(* The two ends of a connection are a BytePipe.                            *)

\* The bytes between the two ends, and the number of the last that was sent, as the
\* refinement mapping has them.
PipeBar == SubSeq(reader.msg, 1, reader.ptr) \o wire
SentBar == handed - (IF Running(writer) THEN writer.nleft ELSE 0)

\* What is in the pipe: what is stored, and then what is on the wire.
LEMMA PipeBytes ==
    ASSUME Moving
    PROVE  /\ PipeBar \in Seq(Nat) /\ Len(PipeBar) = reader.ptr + Len(wire)
           /\ \A i \in 1..reader.ptr : PipeBar[i] = reader.msg[i]
           /\ \A i \in 1..Len(wire) : PipeBar[reader.ptr + i] = wire[i]
           /\ reader.ptr \in Nat /\ Len(wire) \in Nat
  <1>1. reader.ptr \in Nat /\ Len(wire) \in Nat
    BY Numbers
  <1> DEFINE s == reader.msg
             m == reader.ptr
             piece == SubSeq(s, 1, m)
  <1>2. s \in Seq(Nat) /\ m \in Nat /\ 0 \in Nat /\ 0 + m <= Len(s)
    <2>1. CASE reader = NoCall
      BY <2>1, EmptySeq DEF NoCall
    <2>2. CASE reader # NoCall
      <3>1. /\ reader \in Act /\ reader.ptr + reader.nleft = reader.nbytes
            /\ Len(reader.msg) = reader.nbytes
        BY <2>2 DEF Moving, ReaderType
      <3> QED
        BY <3>1 DEF Act
    <2> QED
      BY <2>1, <2>2
  <1>3. wire \in Seq(Nat)
    <2>1. wire \in Seq(1..MaxBytes) /\ MaxBytes \in Nat
      BY StreamAssumption DEF Moving, Types
    <2>2. \A i \in 1..Len(wire) : wire[i] \in Nat
      BY <2>1, ElementOfSeq
    <2> QED
      BY <2>1, <2>2, ElementsType
  <1>4. PipeBar = piece \o wire
    BY DEF PipeBar
  <1> HIDE DEF s, m
  <1>5. piece \in Seq(Nat) /\ Len(piece) = m /\ \A i \in 1..m : piece[i] = s[i]
    <2>1. /\ SubSeq(s, 0 + 1, 0 + m) \in Seq(Nat) /\ Len(SubSeq(s, 0 + 1, 0 + m)) = m
          /\ \A i \in 1..m : SubSeq(s, 0 + 1, 0 + m)[i] = s[0 + i]
      BY <1>2, Piece
    <2>2. 0 + 1 = 1 /\ 0 + m = m /\ \A i \in 1..m : 0 + i = i
      BY <1>2
    <2> QED
      BY <2>1, <2>2, Zenon
  <1> HIDE DEF piece
  <1>6. /\ piece \o wire \in Seq(Nat) /\ Len(piece \o wire) = Len(piece) + Len(wire)
        /\ \A i \in 1..Len(piece) : (piece \o wire)[i] = piece[i]
        /\ \A i \in 1..Len(wire) : (piece \o wire)[Len(piece) + i] = wire[i]
    <2>1. piece \in Seq(Nat)
      BY <1>5
    <2> QED
      BY <1>3, <2>1, Joined
  <1>7. /\ PipeBar \in Seq(Nat) /\ Len(PipeBar) = m + Len(wire)
        /\ \A i \in 1..m : PipeBar[i] = s[i]
        /\ \A i \in 1..Len(wire) : PipeBar[m + i] = wire[i]
    BY <1>4, <1>5, <1>6, Zenon
  <1> QED
    BY <1>1, <1>7 DEF s, m

\* When nothing is stored the wire is all there is.
LEMMA PipeIsWire ==
    ASSUME Moving, reader.ptr = 0
    PROVE  PipeBar = wire
  <1>1. wire \in Seq(1..MaxBytes)
    BY DEF Moving, Types
  <1>2. reader.ptr = 0 /\ Len(wire) \in Nat
    BY LenProperties DEF Moving, Types
  <1>3. wire \in Seq(Nat)
    <2>1. \A i \in 1..Len(wire) : wire[i] \in Nat
      BY <1>1, StreamAssumption, ElementOfSeq
    <2> QED
      BY <1>1, <2>1, ElementsType
  <1>4. PipeBar \in Seq(Nat) /\ Len(PipeBar) = Len(wire)
        /\ \A i \in 1..Len(wire) : PipeBar[i] = wire[i]
    BY <1>2, PipeBytes
  <1> QED
    BY <1>3, <1>4, SeqEqual

\* A system call of Writen sends the next bytes.
LEMMA SendMaps ==
    ASSUME IInv, IInv', WriteSome
    PROVE  \E k \in 1..(handed - SentBar) : Pipe!Send(k)
  <1> USE DEF IInv
  <1>1. PICK k \in Nat \ {0} :
             /\ k <= writer.nleft
             /\ writer \in Act /\ Running(writer) /\ Len(wire) \in Nat
             /\ Len(wire') = Len(wire) + k
             /\ \A i \in 1..Len(wire) : wire'[i] = wire[i]
             /\ \A i \in 1..k : wire'[Len(wire) + i] = handed - writer.nleft + i
             /\ writer'.nleft = writer.nleft - k
    BY WriteMoves
  <1>2. UNCHANGED <<wclosed, rclosed, reader, handed, accepted, delivered, short, failed>>
    BY DEF WriteSome
  <1>3. /\ handed \in Nat /\ writer.nleft \in Nat /\ writer.nleft <= handed
        /\ SentBar = handed - writer.nleft /\ k \in Nat
    BY <1>1, Numbers DEF SentBar
  <1>4. SentBar' = SentBar + k
    <2>1. Running(writer)'
      BY <1>1, <1>3 DEF Running
    <2> QED
      BY <1>1, <1>2, <1>3, <2>1 DEF SentBar
  <1>5. SentBar \in Nat /\ SentBar + k <= handed /\ k \in 1..(handed - SentBar)
    <2> DEFINE left == writer.nleft
    <2>1. /\ left \in Nat /\ left <= handed /\ k <= left /\ k \in Nat \ {0} /\ handed \in Nat
          /\ SentBar = handed - left
      BY <1>1, <1>3
    <2> HIDE DEF left
    <2> QED
      BY <2>1
  <1> DEFINE new == [i \in 1..k |-> SentBar + i]
             s == SentBar
  <1>6. new \in Seq(Nat) /\ Len(new) = k /\ \A i \in 1..k : new[i] = SentBar + i
    <2>1. s \in Nat /\ k \in Nat
      BY <1>3, <1>5
    <2> HIDE DEF s
    <2>2. [i \in 1..k |-> s + i] \in [1..k -> Nat]
      BY <2>1
    <2>3. [i \in 1..k |-> s + i] \in Seq(Nat)
      BY <2>1, <2>2, SeqDef
    <2>4. Len([i \in 1..k |-> s + i]) = k
      BY <2>1, <2>3, LenProperties
    <2>5. \A i \in 1..k : [j \in 1..k |-> s + j][i] = s + i
      OBVIOUS
    <2> QED
      BY <2>3, <2>4, <2>5 DEF s
  <1> DEFINE p == reader.ptr
             w == Len(wire)
  <1>7. /\ PipeBar \in Seq(Nat) /\ Len(PipeBar) = p + w
        /\ \A i \in 1..p : PipeBar[i] = reader.msg[i]
        /\ \A i \in 1..w : PipeBar[p + i] = wire[i]
        /\ p \in Nat /\ w \in Nat
    BY PipeBytes
  <1>8. /\ PipeBar' \in Seq(Nat) /\ Len(PipeBar') = p + (w + k)
        /\ \A i \in 1..p : PipeBar'[i] = reader.msg[i]
        /\ \A i \in 1..(w + k) : PipeBar'[p + i] = wire'[i]
    <2>1. (Moving => /\ PipeBar \in Seq(Nat) /\ Len(PipeBar) = reader.ptr + Len(wire)
                     /\ \A i \in 1..reader.ptr : PipeBar[i] = reader.msg[i]
                     /\ \A i \in 1..Len(wire) : PipeBar[reader.ptr + i] = wire[i])'
      BY PipeBytes, PTL
    <2> QED
      BY <1>1, <1>2, <2>1
  <1> HIDE DEF new, s
  <1>9. /\ PipeBar \o new \in Seq(Nat) /\ Len(PipeBar \o new) = Len(PipeBar) + Len(new)
        /\ \A i \in 1..Len(PipeBar) : (PipeBar \o new)[i] = PipeBar[i]
        /\ \A i \in 1..Len(new) : (PipeBar \o new)[Len(PipeBar) + i] = new[i]
    <2>1. PipeBar \in Seq(Nat) /\ new \in Seq(Nat)
      BY <1>6, <1>7
    <2> QED
      BY <2>1, Joined
  <1>10. PipeBar' = PipeBar \o new
    <2> DEFINE u == PipeBar \o new
               v == PipeBar'
    <2>0. /\ \A i \in 1..w : wire'[i] = wire[i]
          /\ \A i \in 1..k : wire'[w + i] = new[i]
      BY <1>1, <1>3, <1>6
    <2>1. Len(u) = p + w + k /\ Len(v) = p + w + k /\ k \in Nat
      BY <1>3, <1>6, <1>7, <1>8, <1>9
    <2>2. u \in Seq(Nat) /\ v \in Seq(Nat)
      BY <1>8, <1>9
    <2>3. /\ \A i \in 1..(p + w) : u[i] = PipeBar[i]
          /\ \A i \in 1..k : u[p + w + i] = new[i]
      BY <1>6, <1>7, <1>9
    <2> HIDE DEF u, v, p, w
    <2>4. ASSUME NEW i \in 1..(p + w + k)
          PROVE  u[i] = v[i]
      <3>1. CASE i \in 1..p
        <4>1. i \in 1..(p + w)
          BY <1>7, <3>1
        <4> QED
          BY <1>7, <1>8, <2>3, <3>1, <4>1 DEF v
      <3>2. CASE i - p \in 1..w
        <4>1. i \in 1..(p + w) /\ i - p \in 1..(w + k) /\ p + (i - p) = i
          BY <1>7, <2>1, <3>2
        <4>2. v[p + (i - p)] = wire'[i - p] /\ PipeBar[p + (i - p)] = wire[i - p]
          BY <1>7, <1>8, <3>2, <4>1 DEF v
        <4> QED
          BY <2>0, <2>3, <3>2, <4>1, <4>2
      <3>3. CASE i - p - w \in 1..k
        <4>1. /\ i - p \in 1..(w + k) /\ p + (i - p) = i /\ w + (i - p - w) = i - p
              /\ p + w + (i - p - w) = i
          BY <1>7, <2>1, <3>3
        <4>2. v[p + (i - p)] = wire'[i - p]
          BY <1>8, <4>1 DEF v
        <4>3. wire'[w + (i - p - w)] = new[i - p - w] /\ u[p + w + (i - p - w)] = new[i - p - w]
          BY <2>0, <2>3, <3>3
        <4> QED
          BY <4>1, <4>2, <4>3
      <3>4. i \in 1..p \/ i - p \in 1..w \/ i - p - w \in 1..k
        BY <1>7, <2>1
      <3> QED
        BY <3>1, <3>2, <3>3, <3>4
    <2>5. u = v
      BY <2>1, <2>2, <2>4, SeqEqual
    <2> QED
      BY <2>5 DEF u, v
  <1>11. ~wclosed
    BY <1>1 DEF Ended
  <1>12. Pipe!Send(k)
    BY <1>2, <1>4, <1>5, <1>10, <1>11 DEF Pipe!Send, PipeBar, SentBar, new
  <1> QED
    BY <1>5, <1>12

\* The head of the pipe is with the reader, and its tail is on the wire.
LEMMA PipeParts ==
    ASSUME Moving
    PROVE  /\ reader.ptr <= Len(PipeBar) /\ Len(PipeBar) \in Nat
           /\ SubSeq(PipeBar, 1, reader.ptr) = SubSeq(reader.msg, 1, reader.ptr)
           /\ SubSeq(PipeBar, reader.ptr + 1, Len(PipeBar)) = wire
  <1> DEFINE m == reader.ptr
             w == Len(wire)
             s == reader.msg
             b == PipeBar
  <1>1. /\ b \in Seq(Nat) /\ Len(b) = m + w
        /\ \A i \in 1..m : b[i] = s[i]
        /\ \A i \in 1..w : b[m + i] = wire[i]
        /\ m \in Nat /\ w \in Nat
    BY PipeBytes
  <1>2. s \in Seq(Nat) /\ m <= Len(s)
    <2>1. CASE reader = NoCall
      BY <2>1, EmptySeq DEF NoCall
    <2>2. CASE reader # NoCall
      <3>1. /\ reader \in Act /\ reader.ptr + reader.nleft = reader.nbytes
            /\ Len(reader.msg) = reader.nbytes
        BY <2>2 DEF Moving, ReaderType
      <3> QED
        BY <3>1 DEF Act
    <2> QED
      BY <2>1, <2>2
  <1>3. wire \in Seq(Nat)
    <2>1. wire \in Seq(1..MaxBytes) /\ MaxBytes \in Nat
      BY StreamAssumption DEF Moving, Types
    <2>2. \A i \in 1..Len(wire) : wire[i] \in Nat
      BY <2>1, ElementOfSeq
    <2> QED
      BY <2>1, <2>2, ElementsType
  <1>w. w = Len(wire)
    OBVIOUS
  <1> HIDE DEF m, w, s, b
  <1>4. 0 \in Nat /\ 0 + m = m /\ 0 + 1 = 1 /\ (\A i \in 1..m : 0 + i = i)
        /\ m <= Len(b) /\ m + w <= Len(b)
    BY <1>1
  <1>5. /\ SubSeq(b, 1, m) \in Seq(Nat) /\ Len(SubSeq(b, 1, m)) = m
        /\ \A i \in 1..m : SubSeq(b, 1, m)[i] = b[i]
    <2>1. 0 + m <= Len(b)
      BY <1>4
    <2>2. /\ SubSeq(b, 0 + 1, 0 + m) \in Seq(Nat) /\ Len(SubSeq(b, 0 + 1, 0 + m)) = m
          /\ \A i \in 1..m : SubSeq(b, 0 + 1, 0 + m)[i] = b[0 + i]
      BY <1>1, <1>4, <2>1, Piece
    <2> QED
      BY <1>4, <2>2, Zenon
  <1>6. /\ SubSeq(s, 1, m) \in Seq(Nat) /\ Len(SubSeq(s, 1, m)) = m
        /\ \A i \in 1..m : SubSeq(s, 1, m)[i] = s[i]
    <2>1. 0 + m <= Len(s)
      BY <1>2, <1>4
    <2>2. /\ SubSeq(s, 0 + 1, 0 + m) \in Seq(Nat) /\ Len(SubSeq(s, 0 + 1, 0 + m)) = m
          /\ \A i \in 1..m : SubSeq(s, 0 + 1, 0 + m)[i] = s[0 + i]
      BY <1>1, <1>2, <1>4, <2>1, Piece
    <2> QED
      BY <1>4, <2>2, Zenon
  <1>7. /\ SubSeq(b, m + 1, m + w) \in Seq(Nat) /\ Len(SubSeq(b, m + 1, m + w)) = w
        /\ \A i \in 1..w : SubSeq(b, m + 1, m + w)[i] = b[m + i]
    BY <1>1, <1>4, Piece
  <1>8. SubSeq(b, 1, m) = SubSeq(s, 1, m)
    <2>1. \A i \in 1..m : SubSeq(b, 1, m)[i] = SubSeq(s, 1, m)[i]
      BY <1>1, <1>5, <1>6
    <2> QED
      BY <1>5, <1>6, <2>1, SeqEqual
  <1>9. SubSeq(b, m + 1, m + w) = wire
    <2>1. \A i \in 1..w : SubSeq(b, m + 1, m + w)[i] = wire[i]
      BY <1>1, <1>7
    <2> QED
      BY <1>3, <1>7, <1>w, <2>1, SeqEqual
  <1>10. SubSeq(b, m + 1, Len(b)) = wire /\ Len(b) \in Nat
    BY <1>1, <1>9
  <1> QED
    BY <1>4, <1>8, <1>10 DEF m, s, b

\* A system call of Readn takes from the wire what it adds to what is stored.
LEMMA ReadMaps ==
    ASSUME IInv, IInv', ReadSome
    PROVE  PipeBar' = PipeBar
  <1> USE DEF IInv
  <1>1. PICK k \in Nat \ {0} :
             /\ k <= Len(wire) /\ Len(wire) \in Nat
             /\ Len(wire') = Len(wire) - k
             /\ \A i \in 1..(Len(wire) - k) : wire'[i] = wire[k + i]
             /\ \A i \in 1..reader.ptr : reader'.msg[i] = reader.msg[i]
             /\ \A i \in 1..k : reader'.msg[reader.ptr + i] = wire[i]
             /\ reader'.ptr = reader.ptr + k
    BY ReadMoves
  <1> DEFINE p == reader.ptr
             w == Len(wire)
             b == PipeBar
             c == PipeBar'
  <1>2. /\ b \in Seq(Nat) /\ Len(b) = p + w
        /\ \A i \in 1..p : b[i] = reader.msg[i]
        /\ \A i \in 1..w : b[p + i] = wire[i]
        /\ p \in Nat /\ w \in Nat
    BY PipeBytes
  <1>3. /\ c \in Seq(Nat) /\ Len(c) = (p + k) + (w - k)
        /\ \A i \in 1..(p + k) : c[i] = reader'.msg[i]
        /\ \A i \in 1..(w - k) : c[(p + k) + i] = wire'[i]
    <2>1. (Moving => /\ PipeBar \in Seq(Nat) /\ Len(PipeBar) = reader.ptr + Len(wire)
                     /\ \A i \in 1..reader.ptr : PipeBar[i] = reader.msg[i]
                     /\ \A i \in 1..Len(wire) : PipeBar[reader.ptr + i] = wire[i])'
      BY PipeBytes, PTL
    <2> QED
      BY <1>1, <2>1
  <1>4. /\ k \in Nat /\ 0 < k /\ k <= w
        /\ \A i \in 1..(w - k) : wire'[i] = wire[k + i]
        /\ \A i \in 1..p : reader'.msg[i] = reader.msg[i]
        /\ \A i \in 1..k : reader'.msg[p + i] = wire[i]
    <2>1. k \in Nat /\ 0 < k /\ k <= w
      BY <1>1
    <2> QED
      BY <1>1, <2>1, Zenon
  <1> HIDE DEF p, w, b, c
  <1>5. ASSUME NEW i \in 1..(p + w)
        PROVE  b[i] = c[i]
    <2>1. CASE i \in 1..p
      <3>1. i \in 1..(p + k)
        BY <1>2, <1>4, <2>1
      <3> QED
        BY <1>2, <1>3, <1>4, <2>1, <3>1
    <2>2. CASE i - p \in 1..k
      <3>1. i \in 1..(p + k) /\ i - p \in 1..w /\ p + (i - p) = i
        BY <1>2, <1>4, <2>2
      <3>2. c[i] = reader'.msg[p + (i - p)] /\ b[p + (i - p)] = wire[i - p]
        BY <1>2, <1>3, <3>1
      <3> QED
        BY <1>4, <2>2, <3>1, <3>2
    <2>3. CASE i - p - k \in 1..(w - k)
      <3>1. i - p \in 1..w /\ p + (i - p) = i /\ k + (i - p - k) = i - p
            /\ (p + k) + (i - p - k) = i
        BY <1>2, <1>4, <2>3
      <3>2. c[(p + k) + (i - p - k)] = wire'[i - p - k] /\ b[p + (i - p)] = wire[i - p]
        BY <1>2, <1>3, <2>3, <3>1
      <3>3. wire'[i - p - k] = wire[k + (i - p - k)]
        BY <1>4, <2>3
      <3> QED
        BY <3>1, <3>2, <3>3
    <2>4. i \in 1..p \/ i - p \in 1..k \/ i - p - k \in 1..(w - k)
      <3>1. p \in Int /\ k \in Int /\ w \in Int /\ i \in Int /\ 1 <= i /\ i <= p + w
        BY <1>2, <1>4
      <3> QED
        BY <3>1
    <2> QED
      BY <2>1, <2>2, <2>3, <2>4
  <1>6. Len(b) = Len(c) /\ Len(b) = p + w
    BY <1>2, <1>3, <1>4
  <1>7. b = c
    BY <1>2, <1>3, <1>5, <1>6, SeqEqual
  <1> QED
    BY <1>7 DEF b, c

\* A Readn that returns all it asked for, or what there was up to the end.
LEMMA ReturnMaps ==
    ASSUME IInv, IInv', ReturnCount, reader.nleft >= 0,
           reader.nleft > 0 => wire = <<>> /\ wclosed
    PROVE  Pipe!Receive(reader.nbytes) \/ Pipe!ReceiveRest(reader.nbytes)
  <1> USE DEF IInv
  <1>1. /\ reader \in Act /\ reader' = NoCall /\ short' = (reader.nleft > 0)
    BY ReturnMoves
  <1>2. /\ reader.ptr + reader.nleft = reader.nbytes
        /\ reader.ptr \in Nat /\ reader.nleft \in Nat /\ reader.nbytes \in Nat
    BY <1>1 DEF Moving, ReaderType, NoCall, Act
  <1>3. /\ delivered' = delivered \o SubSeq(reader.msg, 1, reader.nbytes - reader.nleft)
        /\ UNCHANGED <<wire, wclosed, rclosed, writer, handed, accepted, failed>>
    BY DEF ReturnCount
  <1>4. reader.nbytes - reader.nleft = reader.ptr
    BY <1>2
  <1>5. delivered' = delivered \o SubSeq(PipeBar, 1, reader.ptr)
    BY <1>3, <1>4, PipeParts
  <1>6. PipeBar' = wire
    <2>1. (Moving /\ reader.ptr = 0 => PipeBar = wire)'
      BY PipeIsWire, PTL
    <2> QED
      BY <1>1, <1>3, <2>1 DEF NoCall
  <1>7. SentBar' = SentBar
    BY <1>3 DEF SentBar, Running
  <1>8. reader.ptr <= Len(PipeBar) /\ SubSeq(PipeBar, reader.ptr + 1, Len(PipeBar)) = wire
    BY PipeParts
  <1>9. CASE reader.nleft = 0
    <2>1. reader.nbytes = reader.ptr /\ short' = FALSE
      <3>1. reader.nbytes = reader.ptr
        BY <1>2, <1>9
      <3>2. (reader.nleft > 0) = FALSE
        BY <1>9
      <3> QED
        BY <1>1, <3>1, <3>2, Zenon
    <2>2. Pipe!Receive(reader.ptr)
      BY <1>3, <1>5, <1>6, <1>7, <1>8, <2>1 DEF Pipe!Receive, PipeBar, SentBar
    <2> QED
      BY <2>1, <2>2
  <1>10. CASE reader.nleft > 0
    <2>1. wire = <<>> /\ wclosed /\ short' = TRUE
      BY <1>1, <1>10
    <2>2. Len(PipeBar) = reader.ptr /\ PipeBar \in Seq(Nat)
      BY <1>2, <2>1, PipeBytes
    <2>3. Len(PipeBar) < reader.nbytes
      BY <1>2, <1>10, <2>2
    <2>4. SubSeq(PipeBar, 1, reader.ptr) = PipeBar
      <3> DEFINE b == PipeBar
                 m == reader.ptr
      <3>1. b \in Seq(Nat) /\ Len(b) = m /\ m \in Nat
        BY <1>2, <2>2
      <3> HIDE DEF b, m
      <3>2. 0 + 1 = 1 /\ 0 + m = m /\ 0 + m <= Len(b) /\ 0 \in Nat /\ \A i \in 1..m : 0 + i = i
        BY <3>1
      <3>3. /\ SubSeq(b, 0 + 1, 0 + m) \in Seq(Nat) /\ Len(SubSeq(b, 0 + 1, 0 + m)) = m
            /\ \A i \in 1..m : SubSeq(b, 0 + 1, 0 + m)[i] = b[0 + i]
        BY <3>1, <3>2, Piece
      <3>4. /\ SubSeq(b, 1, m) \in Seq(Nat) /\ Len(SubSeq(b, 1, m)) = m
            /\ \A i \in 1..m : SubSeq(b, 1, m)[i] = b[i]
        BY <3>2, <3>3, Zenon
      <3>5. SubSeq(b, 1, m) = b
        BY <3>1, <3>4, SeqEqual
      <3> QED
        BY <3>5 DEF b, m
    <2>5. delivered' = delivered \o PipeBar /\ PipeBar' = <<>>
      BY <1>5, <1>6, <2>1, <2>4
    <2> QED
      BY <1>3, <1>7, <2>1, <2>3, <2>5 DEF Pipe!ReceiveRest, PipeBar, SentBar
  <1> QED
    BY <1>2, <1>9, <1>10

\* A Readn that fails loses what it had stored.
LEMMA LoseMaps ==
    ASSUME IInv, IInv', ReadFails
    PROVE  \E k \in 0..Len(PipeBar) : Pipe!Lose(k)
  <1> USE DEF IInv
  <1>1. /\ reader' = NoCall /\ failed' = failed \cup {"reader"}
        /\ UNCHANGED <<wire, wclosed, rclosed, writer, handed, accepted, delivered, short>>
    BY DEF ReadFails
  <1>2. PipeBar' = wire
    <2>1. (Moving /\ reader.ptr = 0 => PipeBar = wire)'
      BY PipeIsWire, PTL
    <2> QED
      BY <1>1, <2>1 DEF NoCall
  <1>3. SentBar' = SentBar
    BY <1>1 DEF SentBar, Running
  <1>4. /\ reader.ptr <= Len(PipeBar) /\ SubSeq(PipeBar, reader.ptr + 1, Len(PipeBar)) = wire
        /\ Len(PipeBar) \in Nat /\ reader.ptr \in Nat
    BY PipeParts, PipeBytes
  <1>5. Pipe!Lose(reader.ptr)
    BY <1>1, <1>2, <1>3, <1>4 DEF Pipe!Lose, PipeBar, SentBar
  <1> QED
    BY <1>4, <1>5

\* The steps of a call of Writen that send nothing, and the end of the sender.
LEMMA GiveMaps ==
    ASSUME IInv, CallWriten
    PROVE  \E n \in Sizes : Pipe!Give(n)
  <1> USE DEF IInv
  <1>1. PICK n \in Sizes : /\ writer' = Activation([i \in 1..n |-> handed + i], n)
                           /\ handed' = handed + n
    BY DEF CallWriten
  <1>2. /\ writer = NoCall /\ ~wclosed /\ n \in Nat /\ handed \in Nat
        /\ UNCHANGED <<wire, wclosed, rclosed, reader, accepted, delivered, short, failed>>
    BY StreamAssumption, Numbers DEF CallWriten
  <1>3. writer'.nleft = n
    BY <1>1 DEF Activation
  <1>4. SentBar = handed
    BY <1>2 DEF SentBar, Running, NoCall
  <1>5. SentBar' = handed
    <2>1. Running(writer)'
      BY <1>2, <1>3 DEF Running
    <2> QED
      BY <1>1, <1>2, <1>3, <2>1 DEF SentBar
  <1>6. PipeBar' = PipeBar
    BY <1>2 DEF PipeBar
  <1>7. Pipe!Give(n)
    BY <1>1, <1>2, <1>4, <1>5, <1>6 DEF Pipe!Give, PipeBar, SentBar
  <1> QED
    BY <1>7

LEMMA GiveUpMaps ==
    ASSUME IInv, WriteFails \/ WriteKilled
    PROVE  Pipe!GiveUp
  <1> USE DEF IInv
  <1>1. /\ writer.nleft > 0 /\ writer' \in {NoCall, Killed}
        /\ UNCHANGED <<wire, rclosed, reader, handed, accepted, delivered, short>>
        /\ \/ failed' = failed \cup {"writer"} /\ wclosed' = wclosed
           \/ failed' = failed /\ wclosed' = TRUE
    BY DEF WriteFails, WriteKilled
  <1>2. Running(writer) /\ writer.nleft \in Nat /\ handed \in Nat
    <2>1. writer.nleft \in Int
      BY <1>1 DEF Moving, WriterType, NoCall, Killed, Act
    <2>2. Running(writer)
      BY <1>1, <2>1 DEF Running
    <2> QED
      BY <2>2, Numbers
  <1>3. SentBar = handed - writer.nleft /\ SentBar < handed
    BY <1>1, <1>2 DEF SentBar
  <1>4. SentBar' = handed
    BY <1>1, <1>2 DEF SentBar, Running, NoCall, Killed
  <1>5. PipeBar' = PipeBar
    BY <1>1 DEF PipeBar
  <1> QED
    BY <1>1, <1>3, <1>4, <1>5 DEF Pipe!GiveUp, PipeBar, SentBar

LEMMA CloseMaps ==
    ASSUME CloseWriter, IInv
    PROVE  Pipe!Close
  <1>1. /\ ~Running(writer) /\ wclosed' = TRUE
        /\ UNCHANGED <<wire, rclosed, writer, reader, handed, accepted, delivered, short, failed>>
    BY DEF CloseWriter
  <1>2. SentBar = handed /\ SentBar' = SentBar /\ PipeBar' = PipeBar
    BY <1>1, Numbers DEF SentBar, PipeBar, Running, IInv
  <1> QED
    BY <1>1, <1>2 DEF Pipe!Close, PipeBar, SentBar

\* A step that changes none of what the pipe sees.
LEMMA Stutters ==
    ASSUME UNCHANGED <<handed, delivered, wclosed, short, failed>>,
           SentBar' = SentBar, PipeBar' = PipeBar
    PROVE  UNCHANGED Pipe!vars
  BY DEF Pipe!vars, PipeBar, SentBar

LEMMA OthersStutter ==
    ASSUME IInv, IInv',
           WritenReturn \/ CallReadn \/ ReadSome \/ Interrupted \/ CloseReader \/ UNCHANGED vars
    PROVE  UNCHANGED Pipe!vars
  <1> USE DEF IInv
  <1>1. CASE WritenReturn
    <2>1. /\ writer.nleft = 0 /\ writer' = NoCall
          /\ UNCHANGED <<wire, wclosed, rclosed, reader, handed, delivered, short, failed>>
      BY <1>1 DEF WritenReturn
    <2>2. SentBar' = SentBar
      BY <2>1, Numbers DEF SentBar, Running, NoCall
    <2>3. PipeBar' = PipeBar
      BY <2>1 DEF PipeBar
    <2> QED
      BY <2>1, <2>2, <2>3, Stutters
  <1>2. CASE CallReadn
    <2>1. PICK n \in Sizes : reader' = Activation([i \in 1..n |-> 0], n)
      BY <1>2 DEF CallReadn
    <2>2. /\ reader = NoCall
          /\ UNCHANGED <<wire, wclosed, rclosed, writer, handed, accepted, delivered, short, failed>>
      BY <1>2 DEF CallReadn
    <2>3. reader.ptr = 0 /\ reader'.ptr = 0
      BY <2>1, <2>2 DEF Activation, NoCall
    <2>4. PipeBar = wire
      BY <2>3, PipeIsWire
    <2>5. PipeBar' = wire
      <3>1. (Moving /\ reader.ptr = 0 => PipeBar = wire)'
        BY PipeIsWire, PTL
      <3> QED
        BY <2>2, <2>3, <3>1
    <2>6. SentBar' = SentBar
      BY <2>2 DEF SentBar, Running
    <2> QED
      BY <2>2, <2>4, <2>5, <2>6, Stutters
  <1>3. CASE ReadSome
    <2>1. UNCHANGED <<wclosed, rclosed, writer, handed, accepted, delivered, short, failed>>
      BY <1>3 DEF ReadSome
    <2>2. SentBar' = SentBar
      BY <2>1 DEF SentBar, Running
    <2> QED
      BY <1>3, <2>1, <2>2, ReadMaps, Stutters
  <1>4. CASE Interrupted \/ CloseReader \/ UNCHANGED vars
    <2>1. UNCHANGED <<wire, wclosed, writer, reader, handed, delivered, short, failed>>
      BY <1>4 DEF Interrupted, CloseReader, vars
    <2>2. SentBar' = SentBar /\ PipeBar' = PipeBar
      BY <2>1 DEF SentBar, PipeBar, Running
    <2> QED
      BY <2>1, <2>2, Stutters
  <1> QED
    BY <1>1, <1>2, <1>3, <1>4

\* A running Readn was asked for one of the sizes there are.
Asked == reader # NoCall => reader.nbytes \in Sizes

LEMMA AskedNext == IInv /\ Asked /\ [Next]_vars => Asked'
  <1> SUFFICES ASSUME IInv, Asked, [Next]_vars, reader' # NoCall
               PROVE  reader'.nbytes \in Sizes
    BY DEF Asked
  <1>1. CASE CallReadn
    BY <1>1 DEF CallReadn, Activation
  <1>2. CASE ReadSome
    <2>1. reader # NoCall
      BY <1>2 DEF ReadSome, NoCall
    <2>2. reader'.nbytes = reader.nbytes
      BY <1>2, ReadMoves DEF IInv
    <2> QED
      BY <2>1, <2>2 DEF Asked
  <1>3. CASE reader' = reader
    BY <1>3 DEF Asked
  <1>4. CallReadn \/ ReadSome \/ reader' = reader \/ reader' = NoCall
    BY DEF Next, vars, CallWriten, WriteSome, WriteFails, WriteKilled, WritenReturn, ReadEnd,
           ReadFails, ReadnReturn, ReturnCount, Interrupted, CloseWriter, CloseReader
  <1> QED
    BY <1>1, <1>2, <1>3, <1>4

\* Every step of the two ends is a step of the pipe, or changes nothing of it.
LEMMA PipeStep ==
    ASSUME IInv, IInv', Asked, [Next]_vars
    PROVE  [Pipe!Next]_(Pipe!vars)
  <1>1. CASE CallWriten
    BY <1>1, GiveMaps DEF Pipe!Next
  <1>2. CASE WriteSome
    BY <1>2, SendMaps DEF Pipe!Next, PipeBar, SentBar
  <1>3. CASE WriteFails \/ WriteKilled
    BY <1>3, GiveUpMaps DEF Pipe!Next
  <1>4. CASE ReadEnd \/ ReadnReturn
    <2>1. ReturnCount /\ reader.nleft >= 0 /\ (reader.nleft > 0 => wire = <<>> /\ wclosed)
      <3>1. reader.nleft \in Int
        BY Numbers DEF IInv
      <3> QED
        BY <1>4, <3>1 DEF ReadEnd, ReadnReturn
    <2>2. reader.nbytes \in Sizes
      BY <2>1 DEF Asked, NoCall
    <2>3. Pipe!Receive(reader.nbytes) \/ Pipe!ReceiveRest(reader.nbytes)
      BY <2>1, ReturnMaps
    <2> QED
      BY <2>2, <2>3 DEF Pipe!Next
  <1>5. CASE ReadFails
    BY <1>5, LoseMaps DEF Pipe!Next, PipeBar
  <1>6. CASE CloseWriter
    BY <1>6, CloseMaps DEF Pipe!Next
  <1>7. CASE WritenReturn \/ CallReadn \/ ReadSome \/ Interrupted \/ CloseReader \/ UNCHANGED vars
    BY <1>7, OthersStutter
  <1> QED
    BY <1>1, <1>2, <1>3, <1>4, <1>5, <1>6, <1>7 DEF Next

\* However the kernel splits the transfers, wherever the two processes are in the loops
\* of Writen and Readn and whichever call fails, the two ends are a first-in first-out
\* pipe: a Readn gets all it asked for or what there is up to the end, and only a call
\* that fails, or a process that dies, loses bytes.
THEOREM StreamIsPipe == Spec => ImplementsPipe
  <1>1. Init => Pipe!Init
    <2> SUFFICES ASSUME Init
                 PROVE  Pipe!Init
      OBVIOUS
    <2>1. IInv
      BY InitInv
    <2>2. /\ wire = <<>> /\ delivered = <<>> /\ writer = NoCall /\ reader = NoCall
          /\ handed = 0 /\ failed = {} /\ wclosed = FALSE /\ short = FALSE
      BY DEF Init
    <2>3. PipeBar = <<>>
      BY <2>1, <2>2, PipeIsWire DEF IInv, NoCall
    <2>4. SentBar = 0
      BY <2>2 DEF SentBar, Running, NoCall
    <2> QED
      BY <2>2, <2>3, <2>4 DEF Pipe!Init, PipeBar, SentBar
  <1>2. Init => Asked
    BY DEF Init, Asked
  <1>3. IInv /\ IInv' /\ Asked /\ [Next]_vars => [Pipe!Next]_(Pipe!vars)
    BY PipeStep
  <1> QED
    BY <1>1, <1>2, <1>3, AskedNext, SpecInv, PTL DEF Spec, ImplementsPipe, Pipe!Spec

=============================================================================
