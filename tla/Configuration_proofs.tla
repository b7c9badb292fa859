------------------------ MODULE Configuration_proofs ------------------------
(***************************************************************************)
(* What holds of Configuration for every tree read_json may make: the      *)
(* types, that no counter in num goes below zero, that every value is      *)
(* deleted once, and that nothing read is ever kept.  The strengthening    *)
(* says that the map of every frame is empty, always, and that the frames  *)
(* form a path in the tree.                                                *)
(***************************************************************************)
EXTENDS Configuration, SequenceTheorems, FiniteSetTheorems, TLAPS

FrameSet == [pt : Node, it : Nat \ {0}, kp : Seq(Seq(Names)), vp : Seq(Value),
             num : Seq(0..UINT_MAX), props : {NoProps}]

\* The counters of frame f are positive, and when last is, so is the last of them.
Positive(f, last) == \A i \in 1..Len(f.num) : f.num[i] > 0 \/ (~last /\ i = Len(f.num))

Walking ==
    /\ pc \in {"idle", "visit", "unwind", "crashed"}
    /\ file \in Files
    /\ stack \in Seq(FrameSet)
    /\ \A d \in 1..Len(stack) : /\ stack[d].it <= Len(stack[d].pt.kids) + 1
                                /\ Positive(stack[d], pc = "visit" \/ d # Len(stack))
    /\ pc = "idle" => stack = <<>>
    /\ Running => stack # <<>> /\ stack[1].pt = file /\ calls \in 1..MaxCalls
    /\ pc = "unwind" => Top.it <= Len(Top.pt.kids)
    /\ \A d \in 1..(Len(stack) - 1) :
          stack[d].it <= Len(stack[d].pt.kids) /\ stack[d + 1].pt = stack[d].pt.kids[stack[d].it]

Ledger ==
    /\ inserted \in Seq(Entry)
    /\ deleted \in Seq({1})
    /\ Len(deleted) = Len(inserted)

Rest ==
    /\ calls \in 0..MaxCalls
    /\ result \in {"none", "read", "ENOENT", "nothing read", "thrown"}
    /\ properties = NoProps
    /\ answer = NoAnswer
    /\ wild \in BOOLEAN

IInv == Walking /\ Ledger /\ Rest

----------------------------------------------------------------------------
(* Lemmas about the operators.                                             *)

\* The children of a node are nodes, no more of them than a uint counts.
LEMMA KidsType ==
    ASSUME NEW n \in Node
    PROVE  /\ n.key \in Seq(Names) /\ n.data \in Seq(Value)
           /\ n.kids \in Seq(Node) /\ Len(n.kids) \in 0..UINT_MAX
           /\ \A i \in 1..Len(n.kids) : n.kids[i] \in Node
  <1>1. n.key \in Seq(Names) /\ n.data \in Seq(Value) /\ n.kids \in Seq(Node)
        /\ Len(n.kids) <= UINT_MAX /\ UINT_MAX \in Nat
    BY ConfigurationAssumption
  <1>2. Len(n.kids) \in Nat /\ \A i \in 1..Len(n.kids) : n.kids[i] \in Node
    BY <1>1, LenProperties, ElementOfSeq
  <1> QED
    BY <1>1, <1>2

\* An empty map has nothing to delete.
LEMMA DestroyNothing ==
    ASSUME NEW d \in Seq({1})
    PROVE  Destroy(NoProps, d) = d
  <1>1. ASSUME NEW n \in DOMAIN d
        PROVE  d[n] + Cardinality({k \in DOMAIN NoProps : NoProps[k] = n}) = d[n]
    <2>1. {k \in DOMAIN NoProps : NoProps[k] = n} = {}
      BY DEF NoProps
    <2>2. d[n] \in {1}
      BY LenProperties, ElementOfSeq
    <2>3. d[n] + 0 = d[n]
      BY <2>2
    <2> QED
      BY <2>1, <2>3, FS_EmptySet
  <1>2. \A n \in DOMAIN d : d[n] + Cardinality({k \in DOMAIN NoProps : NoProps[k] = n}) = d[n]
    BY <1>1
  <1>3. Destroy(NoProps, d) = [n \in DOMAIN d |-> d[n]]
    BY <1>2 DEF Destroy
  <1> QED
    BY <1>3

\* insertProperty deletes the value it allocated, once, and no other.
LEMMA InsertLedger ==
    ASSUME Ledger, calls \in 1..MaxCalls, NEW kp \in Seq(Seq(Names)), NEW vp \in Seq(Value),
           insertProperty(kp, vp, NoProps)
    PROVE  Ledger'
  <1>1. CASE vp = <<>>
    BY <1>1 DEF insertProperty, Ledger
  <1>2. CASE vp # <<>>
    <2> DEFINE n == Len(inserted) + 1
               m == Put(NoProps, Key(kp), n)
               d == Append(deleted, 0)
    <2>1. n \in Nat /\ Len(deleted) = n - 1 /\ n > 0
      BY LenProperties DEF Ledger
    <2>2. inserted' = Append(inserted, [call |-> calls, kp |-> kp, vals |-> vp])
          /\ deleted' = Destroy(m, d)
      BY <1>2 DEF insertProperty, Returned
    <2>3. inserted' \in Seq(Entry) /\ Len(inserted') = n
      <3>1. [call |-> calls, kp |-> kp, vals |-> vp] \in Entry
        BY <1>2 DEF Entry
      <3> QED
        BY <2>2, <3>1, AppendProperties DEF Ledger
    <2>4. DOMAIN m = {Key(kp)} /\ m[Key(kp)] = n
      BY DEF Put, NoProps
    <2>5. \A i \in 1..n : Cardinality({k \in DOMAIN m : m[k] = i}) = IF i = n THEN 1 ELSE 0
      <3> HIDE DEF m
      <3>1. {k \in DOMAIN m : m[k] = n} = {Key(kp)}
        BY <2>4
      <3>2. \A i \in 1..n : i # n => {k \in DOMAIN m : m[k] = i} = {}
        BY <2>4
      <3>3. Cardinality({k \in DOMAIN m : m[k] = n}) = 1
        BY <3>1, FS_Singleton
      <3>4. \A i \in 1..n : i # n => Cardinality({k \in DOMAIN m : m[k] = i}) = 0
        BY <3>2, FS_EmptySet
      <3> QED
        BY <3>3, <3>4
    <2>6. /\ d \in Seq({0, 1}) /\ Len(d) = n /\ DOMAIN d = 1..n
          /\ \A i \in 1..n : d[i] = IF i = n THEN 0 ELSE 1
      <3>1. deleted \in Seq({0, 1})
        BY SeqMonotonic DEF Ledger
      <3>2. d \in Seq({0, 1}) /\ Len(d) = n /\ d[n] = 0
            /\ \A i \in 1..Len(deleted) : d[i] = deleted[i]
        BY <2>1, <3>1, AppendProperties
      <3>3. \A i \in 1..Len(deleted) : deleted[i] = 1
        BY ElementOfSeq DEF Ledger
      <3> HIDE DEF d
      <3> QED
        BY <2>1, <3>2, <3>3, LenProperties
    <2>7. deleted' = [i \in 1..n |-> 1]
      <3> HIDE DEF m, d
      <3>1. deleted' = [i \in 1..n |-> d[i] + Cardinality({k \in DOMAIN m : m[k] = i})]
        BY <2>2, <2>6 DEF Destroy
      <3>2. \A i \in 1..n : d[i] + Cardinality({k \in DOMAIN m : m[k] = i}) = 1
        BY <2>5, <2>6
      <3> QED
        BY <3>1, <3>2
    <2>8. deleted' \in Seq({1}) /\ Len(deleted') = n
      BY <2>1, <2>7
    <2> QED
      BY <2>3, <2>8 DEF Ledger
  <1> QED
    BY <1>1, <1>2

\* Counting down a last counter that is positive takes one from it and leaves the
\* others; it does not wrap.
LEMMA CountDownType ==
    ASSUME NEW num \in Seq(0..UINT_MAX), \A i \in 1..Len(num) : num[i] > 0
    PROVE  /\ CountDown(num) \in Seq(0..UINT_MAX)
           /\ Len(CountDown(num)) = Len(num)
           /\ \A i \in 1..Len(num) : CountDown(num)[i] > 0 \/ i = Len(num)
  <1>1. CASE num = <<>>
    BY <1>1 DEF CountDown
  <1>2. CASE num # <<>>
    <2>1. Len(num) \in Nat /\ Len(num) > 0 /\ UINT_MAX \in Nat
      BY <1>2, EmptySeq, LenProperties, ConfigurationAssumption
    <2>2. num[Len(num)] \in 1..UINT_MAX
      BY <2>1, ElementOfSeq
    <2>3. Minus1(num[Len(num)]) = num[Len(num)] - 1
      BY <2>1, <2>2 DEF Minus1
    <2>4. Minus1(num[Len(num)]) \in 0..UINT_MAX
      BY <2>1, <2>2, <2>3
    <2>5. CountDown(num) = [num EXCEPT ![Len(num)] = Minus1(num[Len(num)])]
      BY <1>2 DEF CountDown
    <2> QED
      BY <2>1, <2>4, <2>5, ExceptSeq
  <1> QED
    BY <1>1, <1>2

----------------------------------------------------------------------------
(* Lemmas about the frames.                                                *)

\* The running frame is typed, and so is the child it is at.
LEMMA TopType ==
    ASSUME Walking, Running
    PROVE  /\ Len(stack) \in Nat \ {0}
           /\ Top \in FrameSet
           /\ Top.it <= Len(Top.pt.kids) => Child \in Node
  <1>1. Len(stack) \in Nat \ {0}
    BY EmptySeq DEF Walking
  <1>2. Top \in FrameSet
    BY <1>1, ElementOfSeq DEF Walking, Top
  <1>3. Top.pt \in Node /\ Top.it \in Nat \ {0}
    BY <1>2 DEF FrameSet
  <1> QED
    BY <1>1, <1>2, <1>3, KidsType DEF Child

\* Whatever the body of the loop makes of the running frame, the frames stay a path,
\* as long as only its last counter may have come down to zero.
LEMMA BecomeWalking ==
    ASSUME Walking, Running, Top.it <= Len(Top.pt.kids),
           NEW f \in FrameSet, Become(f), f.pt = Top.pt, f.it = Top.it,
           Positive(f, FALSE), pc' \in {"unwind", "crashed"}, UNCHANGED <<file, calls>>
    PROVE  Walking'
  <1> DEFINE n == Len(stack)
  <1>1. n \in Nat \ {0} /\ stack \in Seq(FrameSet)
    BY TopType DEF Walking
  <1>2. /\ stack' \in Seq(FrameSet) /\ Len(stack') = n
        /\ \A d \in 1..n : stack'[d] = IF d = n THEN f ELSE stack[d]
    BY <1>1, ExceptSeq DEF Become
  <1>3. stack' # <<>> /\ Top' = f
    BY <1>1, <1>2, EmptySeq DEF Top
  <1>4. \A d \in 1..n : stack'[d].pt = stack[d].pt /\ stack'[d].it = stack[d].it
    BY <1>2 DEF Top
  <1> HIDE DEF n
  <1>5. \A d \in 1..n : stack'[d].it <= Len(stack'[d].pt.kids) + 1
    BY <1>4 DEF Walking, n
  <1>6. \A d \in 1..n : Positive(stack'[d], d # n)
    <2>1. ASSUME NEW d \in 1..n, d # n
          PROVE  Positive(stack'[d], d # n)
      BY <1>2, <2>1 DEF Walking, Positive, n
    <2> QED
      BY <1>1, <1>2, <2>1
  <1>7. stack'[1].pt = file'
    BY <1>1, <1>4 DEF Walking
  <1>8. \A d \in 1..(n - 1) :
          stack'[d].it <= Len(stack'[d].pt.kids) /\ stack'[d + 1].pt = stack'[d].pt.kids[stack'[d].it]
    <2> SUFFICES ASSUME NEW d \in 1..(n - 1)
                 PROVE  /\ stack'[d].it <= Len(stack'[d].pt.kids)
                        /\ stack'[d + 1].pt = stack'[d].pt.kids[stack'[d].it]
      OBVIOUS
    <2>1. d \in 1..n /\ d + 1 \in 1..n
      BY <1>1
    <2>2. stack[d].it <= Len(stack[d].pt.kids) /\ stack[d + 1].pt = stack[d].pt.kids[stack[d].it]
      BY DEF Walking, n
    <2> QED
      BY <1>4, <2>1, <2>2
  <1>9. Top'.it <= Len(Top'.pt.kids)
    BY <1>3
  <1>10. pc' # "visit" /\ pc' # "idle" /\ pc' \in {"idle", "visit", "unwind", "crashed"}
    OBVIOUS
  <1>11. calls' \in 1..MaxCalls /\ file' \in Files
    BY DEF Walking
  <1> QED
    BY <1>2, <1>3, <1>5, <1>6, <1>7, <1>8, <1>9, <1>10, <1>11 DEF Walking, n, Running

----------------------------------------------------------------------------
(* The steps.                                                              *)

\* Counting a frame down, with its values replaced: what every visit to a child
\* without children does.
LEMMA CountedFrame ==
    ASSUME NEW f \in FrameSet, Positive(f, TRUE), NEW vp \in Seq(Value), NEW g,
           g = [f EXCEPT !.num = CountDown(@), !.vp = vp]
    PROVE  g \in FrameSet /\ g.pt = f.pt /\ g.it = f.it /\ Positive(g, FALSE)
  <1>1. f.num \in Seq(0..UINT_MAX) /\ \A i \in 1..Len(f.num) : f.num[i] > 0
    BY DEF FrameSet, Positive
  <1>2. /\ CountDown(f.num) \in Seq(0..UINT_MAX)
        /\ Len(CountDown(f.num)) = Len(f.num)
        /\ \A i \in 1..Len(f.num) : CountDown(f.num)[i] > 0 \/ i = Len(f.num)
    BY <1>1, CountDownType
  <1>3. g = [pt |-> f.pt, it |-> f.it, kp |-> f.kp, vp |-> vp, num |-> CountDown(f.num),
             props |-> f.props]
    BY DEF FrameSet
  <1>4. g \in FrameSet /\ g.pt = f.pt /\ g.it = f.it /\ g.num = CountDown(f.num)
    BY <1>2, <1>3 DEF FrameSet
  <1> QED
    BY <1>2, <1>4 DEF Positive

LEMMA InsertedFrame ==
    ASSUME NEW f \in FrameSet, Positive(f, TRUE), NEW kp, NEW vp
    PROVE  /\ Inserted(f, kp, vp) \in FrameSet
           /\ Inserted(f, kp, vp).pt = f.pt /\ Inserted(f, kp, vp).it = f.it
           /\ Positive(Inserted(f, kp, vp), FALSE)
  <1>1. f.props = NoProps
    BY DEF FrameSet
  <1>2. PropsAfterInsert(kp, vp, f.props) = NoProps
    BY <1>1 DEF PropsAfterInsert, Returned
  <1>3. Inserted(f, kp, vp) = [f EXCEPT !.num = CountDown(@), !.vp = <<>>]
    BY <1>1, <1>2 DEF Inserted, FrameSet
  <1>4. <<>> \in Seq(Value)
    BY EmptySeq
  <1> DEFINE g == Inserted(f, kp, vp)
  <1>5. g = [f EXCEPT !.num = CountDown(@), !.vp = <<>>]
    BY <1>3
  <1> HIDE DEF g
  <1>6. g \in FrameSet /\ g.pt = f.pt /\ g.it = f.it /\ Positive(g, FALSE)
    BY <1>4, <1>5, CountedFrame, Zenon
  <1> QED
    BY <1>6 DEF g

\* A frame in the loop has only positive counters when a child is visited.
LEMMA VisitingFrame ==
    ASSUME IInv, Visiting
    PROVE  /\ Running /\ Top.it <= Len(Top.pt.kids)
           /\ Top \in FrameSet /\ Positive(Top, TRUE) /\ Top.props = NoProps
           /\ Child \in Node /\ Child.key \in Seq(Names) /\ Child.data \in Seq(Value)
           /\ Len(Child.kids) \in 0..UINT_MAX
           /\ Top.vp \o Child.data \in Seq(Value)
           /\ Append(Top.kp, Child.key) \in Seq(Seq(Names))
  <1>1. Running /\ Top.it <= Len(Top.pt.kids)
    BY DEF Visiting, Running
  <1>2. Top \in FrameSet /\ Child \in Node /\ Len(stack) \in Nat \ {0}
    BY <1>1, TopType DEF IInv
  <1>3. Positive(Top, TRUE)
    <2>1. pc = "visit" /\ Len(stack) \in 1..Len(stack)
      BY <1>2 DEF Visiting
    <2>2. Positive(stack[Len(stack)], pc = "visit" \/ Len(stack) # Len(stack))
      BY <2>1 DEF IInv, Walking
    <2> QED
      BY <2>1, <2>2 DEF Positive, Top
  <1>4. Child.key \in Seq(Names) /\ Child.data \in Seq(Value) /\ Len(Child.kids) \in 0..UINT_MAX
    BY <1>2, KidsType
  <1>5. Top.vp \in Seq(Value) /\ Top.kp \in Seq(Seq(Names)) /\ Top.props = NoProps
    BY <1>2 DEF FrameSet
  <1>6. Top.vp \o Child.data \in Seq(Value)
    BY <1>4, <1>5, ConcatProperties
  <1>7. Append(Top.kp, Child.key) \in Seq(Seq(Names))
    BY <1>4, <1>5, AppendProperties
  <1> QED
    BY <1>1, <1>2, <1>3, <1>4, <1>5, <1>6, <1>7

LEMMA SectionStep == IInv /\ VisitSection => IInv'
  <1> SUFFICES ASSUME IInv, VisitSection PROVE IInv'
    OBVIOUS
  <1> DEFINE f == [Top EXCEPT !.num = Append(@, Len(Child.kids)),
                              !.kp = IF Child.key = <<>> THEN @ ELSE Append(@, Child.key),
                              !.vp = @ \o Child.data]
             kp == IF Child.key = <<>> THEN Top.kp ELSE Append(Top.kp, Child.key)
             num == Append(Top.num, Len(Child.kids))
  <1>1. Visiting /\ Len(Child.kids) > 0 /\ Become(f) /\ pc' = "unwind"
    BY DEF VisitSection
  <1>2. Top \in FrameSet /\ Positive(Top, TRUE)
    BY <1>1, VisitingFrame
  <1>3. kp \in Seq(Seq(Names)) /\ Top.vp \o Child.data \in Seq(Value)
    BY <1>1, <1>2, VisitingFrame DEF FrameSet
  <1>4. num \in Seq(0..UINT_MAX) /\ \A i \in 1..Len(num) : num[i] > 0
    <2>1. Top.num \in Seq(0..UINT_MAX) /\ \A i \in 1..Len(Top.num) : Top.num[i] > 0
      BY <1>2 DEF FrameSet, Positive
    <2>2. Len(Child.kids) \in 0..UINT_MAX
      BY <1>1, VisitingFrame
    <2>3. /\ num \in Seq(0..UINT_MAX) /\ Len(num) = Len(Top.num) + 1
          /\ \A i \in 1..Len(Top.num) : num[i] = Top.num[i]
          /\ num[Len(Top.num) + 1] = Len(Child.kids)
      BY <2>1, <2>2, AppendProperties
    <2>4. Len(Top.num) \in Nat
      BY <2>1, LenProperties
    <2> HIDE DEF num
    <2> QED
      BY <1>1, <2>1, <2>3, <2>4
  <1>5. f = [pt |-> Top.pt, it |-> Top.it, kp |-> kp, vp |-> Top.vp \o Child.data,
             num |-> num, props |-> Top.props]
    <2>1. CASE Child.key = <<>>
      <3>1. f = [Top EXCEPT !.num = num, !.kp = kp, !.vp = Top.vp \o Child.data]
        BY <1>2, <2>1 DEF FrameSet
      <3> HIDE DEF num, kp, f
      <3> QED
        BY <1>2, <3>1 DEF FrameSet
    <2>2. CASE Child.key # <<>>
      <3>1. f = [Top EXCEPT !.num = num, !.kp = kp, !.vp = Top.vp \o Child.data]
        BY <1>2, <2>2 DEF FrameSet
      <3> HIDE DEF num, kp, f
      <3> QED
        BY <1>2, <3>1 DEF FrameSet
    <2> QED
      BY <2>1, <2>2
  <1> HIDE DEF f, kp, num
  <1>6. f \in FrameSet /\ f.pt = Top.pt /\ f.it = Top.it /\ f.num = num
    BY <1>2, <1>3, <1>4, <1>5 DEF FrameSet
  <1>7. Positive(f, FALSE)
    BY <1>4, <1>6 DEF Positive
  <1>8. Walking'
    BY <1>1, <1>6, <1>7, VisitingFrame, BecomeWalking DEF IInv, VisitSection
  <1> QED
    BY <1>8 DEF IInv, Ledger, Rest, VisitSection

LEMMA PropertyStep == IInv /\ VisitProperty => IInv'
  <1> SUFFICES ASSUME IInv, VisitProperty PROVE IInv'
    OBVIOUS
  <1> DEFINE kp == Append(Top.kp, Child.key)
             vp == Top.vp \o Child.data
             f == Inserted(Top, kp, vp)
  <1>1. Visiting /\ insertProperty(kp, vp, Top.props) /\ Become(f) /\ pc' = "unwind"
    BY DEF VisitProperty
  <1>2. f \in FrameSet /\ f.pt = Top.pt /\ f.it = Top.it /\ Positive(f, FALSE)
    BY <1>1, VisitingFrame, InsertedFrame
  <1>3. Walking'
    <2> HIDE DEF f
    <2> QED
      BY <1>1, <1>2, VisitingFrame, BecomeWalking DEF IInv, VisitProperty
  <1>4. Ledger'
    <2>1. kp \in Seq(Seq(Names)) /\ vp \in Seq(Value) /\ Top.props = NoProps
          /\ calls \in 1..MaxCalls
      BY <1>1, VisitingFrame DEF IInv, Walking
    <2> QED
      BY <1>1, <2>1, InsertLedger DEF IInv
  <1>5. Rest'
    BY DEF IInv, Rest, VisitProperty
  <1> QED
    BY <1>3, <1>4, <1>5 DEF IInv

LEMMA ElementStep == IInv /\ VisitElement => IInv'
  <1> SUFFICES ASSUME IInv, VisitElement PROVE IInv'
    OBVIOUS
  <1> DEFINE vp == Top.vp \o Child.data
             f == [Top EXCEPT !.num = CountDown(@), !.vp = @ \o Child.data]
  <1>1. Visiting /\ Become(f) /\ pc' = "unwind"
    BY DEF VisitElement
  <1>2. f = [Top EXCEPT !.num = CountDown(@), !.vp = vp]
    BY <1>1, VisitingFrame DEF FrameSet
  <1> HIDE DEF f
  <1>3. f \in FrameSet /\ f.pt = Top.pt /\ f.it = Top.it /\ Positive(f, FALSE)
    BY <1>1, <1>2, VisitingFrame, CountedFrame
  <1>4. Walking'
    BY <1>1, <1>3, VisitingFrame, BecomeWalking DEF IInv, VisitElement
  <1> QED
    BY <1>4 DEF IInv, Ledger, Rest, VisitElement

LEMMA LastElementStep == IInv /\ VisitLastElement => IInv'
  <1> SUFFICES ASSUME IInv, VisitLastElement PROVE IInv'
    OBVIOUS
  <1> DEFINE vp == Top.vp \o Child.data
             f == Inserted(Top, Top.kp, vp)
  <1>1. Visiting /\ insertProperty(Top.kp, vp, Top.props) /\ Become(f)
        /\ pc' \in {"unwind", "crashed"}
    BY DEF VisitLastElement
  <1>2. f \in FrameSet /\ f.pt = Top.pt /\ f.it = Top.it /\ Positive(f, FALSE)
    BY <1>1, VisitingFrame, InsertedFrame
  <1>3. Walking'
    <2> HIDE DEF f
    <2> QED
      BY <1>1, <1>2, VisitingFrame, BecomeWalking DEF IInv, VisitLastElement
  <1>4. Ledger'
    <2>1. Top.kp \in Seq(Seq(Names)) /\ vp \in Seq(Value) /\ Top.props = NoProps
          /\ calls \in 1..MaxCalls
      BY <1>1, VisitingFrame DEF IInv, Walking, FrameSet
    <2> QED
      BY <1>1, <2>1, InsertLedger DEF IInv
  <1>5. Rest'
    BY DEF IInv, Rest, VisitLastElement
  <1> QED
    BY <1>3, <1>4, <1>5 DEF IInv

\* A prefix of a sequence.
LEMMA FrontType ==
    ASSUME NEW S, NEW s \in Seq(S), s # <<>>
    PROVE  /\ Front(s) \in Seq(S) /\ Len(Front(s)) = Len(s) - 1
           /\ \A i \in 1..(Len(s) - 1) : Front(s)[i] = s[i]
  <1>1. Len(s) \in Nat \ {0}
    BY EmptySeq
  <1> DEFINE m == Len(s) - 1
  <1>2. m \in Nat /\ \A i \in 1..m : s[i] \in S
    BY <1>1, ElementOfSeq
  <1> HIDE DEF m
  <1>3. /\ SubSeq(s, 1, m) \in Seq(S)
        /\ Len(SubSeq(s, 1, m)) = IF 1 <= m THEN m - 1 + 1 ELSE 0
        /\ \A i \in 1..(m - 1 + 1) : SubSeq(s, 1, m)[i] = s[1 + i - 1]
    BY <1>2, SubSeqProperties
  <1>4. m - 1 + 1 = m /\ (~(1 <= m) => m = 0) /\ \A i \in 1..m : 1 + i - 1 = i
    BY <1>2
  <1>5. Len(SubSeq(s, 1, m)) = m /\ \A i \in 1..m : SubSeq(s, 1, m)[i] = s[i]
    BY <1>3, <1>4, Zenon
  <1>6. Front(s) = SubSeq(s, 1, m)
    BY DEF Front, m
  <1> QED
    BY <1>3, <1>5, <1>6, Zenon DEF m

LEMMA UnwindStep == IInv /\ Unwind => IInv'
  <1> SUFFICES ASSUME IInv, Unwind PROVE IInv'
    OBVIOUS
  <1>1. Ledger' /\ Rest'
    BY DEF IInv, Ledger, Rest, Unwind
  <1>2. Running /\ Top.it <= Len(Top.pt.kids) /\ Top \in FrameSet /\ Len(stack) \in Nat \ {0}
    BY TopType DEF IInv, Walking, Unwind, Running
  <1>3. Positive(Top, FALSE)
    <2>1. Positive(stack[Len(stack)], pc = "visit" \/ Len(stack) # Len(stack))
      BY <1>2 DEF IInv, Walking
    <2> QED
      BY <2>1 DEF Positive, Top, Unwind
  <1>4. CASE Top.kp # <<>> /\ pc' = pc
             /\ Become([Top EXCEPT !.num = CountDown(Front(@)), !.kp = Front(@)])
    <2> DEFINE f == [Top EXCEPT !.num = CountDown(Front(@)), !.kp = Front(@)]
               num == Front(Top.num)
    <2>1. Top.num \in Seq(0..UINT_MAX) /\ Top.num # <<>> /\ Top.kp \in Seq(Seq(Names))
      BY <1>2 DEF FrameSet, Unwind, SectionComplete
    <2>2. /\ num \in Seq(0..UINT_MAX) /\ Len(num) = Len(Top.num) - 1
          /\ \A i \in 1..(Len(Top.num) - 1) : num[i] = Top.num[i]
      BY <2>1, FrontType
    <2>3. Len(Top.num) \in Nat \ {0}
      BY <2>1, EmptySeq
    <2>4. \A i \in 1..Len(num) : num[i] > 0
      <3> HIDE DEF num
      <3> QED
        BY <1>3, <2>2, <2>3 DEF Positive
    <2>5. /\ CountDown(num) \in Seq(0..UINT_MAX)
          /\ Len(CountDown(num)) = Len(num)
          /\ \A i \in 1..Len(num) : CountDown(num)[i] > 0 \/ i = Len(num)
      BY <2>2, <2>4, CountDownType
    <2>6. Front(Top.kp) \in Seq(Seq(Names))
      BY <1>4, <2>1, FrontType
    <2>7. f = [pt |-> Top.pt, it |-> Top.it, kp |-> Front(Top.kp), vp |-> Top.vp,
               num |-> CountDown(num), props |-> Top.props]
      <3>1. f = [Top EXCEPT !.num = CountDown(num), !.kp = Front(Top.kp)]
        BY <1>2 DEF FrameSet
      <3> HIDE DEF f, num
      <3> QED
        BY <1>2, <3>1 DEF FrameSet
    <2> HIDE DEF f, num
    <2>8. f \in FrameSet /\ f.pt = Top.pt /\ f.it = Top.it /\ f.num = CountDown(num)
      BY <1>2, <2>5, <2>6, <2>7 DEF FrameSet
    <2>9. Positive(f, FALSE)
      BY <2>5, <2>8 DEF Positive
    <2>10. Become(f) /\ pc' = "unwind"
      BY <1>4 DEF f, Unwind
    <2>11. Walking'
      BY <1>2, <2>8, <2>9, <2>10, BecomeWalking DEF IInv, Unwind
    <2> QED
      BY <1>1, <2>11 DEF IInv
  <1>5. CASE pc' = "crashed" /\ stack' = stack
    <2>1. Walking'
      BY <1>5 DEF IInv, Walking, Unwind, Running, Top
    <2> QED
      BY <1>1, <2>1 DEF IInv
  <1> QED
    BY <1>4, <1>5 DEF Unwind

LEMMA DescendStep == IInv /\ Descend => IInv'
  <1> SUFFICES ASSUME IInv, Descend PROVE IInv'
    OBVIOUS
  <1> DEFINE n == Len(stack)
             f == Frame(Child, Top.kp, Top.vp, Top.num, Top.props)
  <1>1. Ledger' /\ Rest'
    BY DEF IInv, Ledger, Rest, Descend
  <1>2. /\ Running /\ Top.it <= Len(Top.pt.kids) /\ Top \in FrameSet /\ n \in Nat \ {0}
        /\ Child \in Node /\ stack \in Seq(FrameSet)
    BY TopType DEF IInv, Walking, Descend, Running
  <1>3. Positive(Top, TRUE)
    <2>1. Positive(stack[n], pc = "visit" \/ n # n)
      BY <1>2 DEF IInv, Walking
    <2>2. Top.num \in Seq(0..UINT_MAX)
      BY <1>2 DEF FrameSet
    <2>3. \A i \in 1..Len(Top.num) : Top.num[i] \in 0..UINT_MAX
      BY <2>2, ElementOfSeq
    <2>4. Len(Top.num) \in Nat /\ UINT_MAX \in Nat
      BY <2>2, LenProperties, ConfigurationAssumption
    <2>5. Top.num # <<>> => Top.num[Len(Top.num)] # 0
      BY DEF Descend, SectionComplete, Last
    <2>6. Top.num = <<>> => Len(Top.num) = 0
      BY EmptySeq
    <2> QED
      BY <2>1, <2>3, <2>4, <2>5, <2>6 DEF Positive, Top
  <1>4. f \in FrameSet /\ f.pt = Child /\ f.it = 1 /\ f.num = Top.num
    BY <1>2 DEF Frame, FrameSet
  <1>5. stack' = Append(stack, f) /\ pc' = "visit"
    BY DEF Descend
  <1> HIDE DEF f
  <1>6. /\ stack' \in Seq(FrameSet) /\ Len(stack') = n + 1 /\ stack'[n + 1] = f
        /\ \A d \in 1..n : stack'[d] = stack[d]
    BY <1>2, <1>4, <1>5, AppendProperties
  <1> HIDE DEF n
  <1>7. \A d \in 1..(n + 1) : /\ stack'[d].it <= Len(stack'[d].pt.kids) + 1
                              /\ Positive(stack'[d], TRUE)
    <2>1. ASSUME NEW d \in 1..n
          PROVE  stack[d].it <= Len(stack[d].pt.kids) + 1 /\ Positive(stack[d], TRUE)
      <3>1. stack[d].it <= Len(stack[d].pt.kids) + 1 /\ Positive(stack[d], pc = "visit" \/ d # n)
        BY DEF IInv, Walking, n
      <3> QED
        BY <1>2, <1>3, <3>1 DEF Positive, Top, n
    <2>2. f.it <= Len(f.pt.kids) + 1 /\ Positive(f, TRUE)
      BY <1>2, <1>3, <1>4, KidsType DEF Positive
    <2>3. ASSUME NEW d \in 1..(n + 1)
          PROVE  stack'[d].it <= Len(stack'[d].pt.kids) + 1 /\ Positive(stack'[d], TRUE)
      <3>1. CASE d \in 1..n
        <4>1. stack'[d] = stack[d]
          BY <1>6, <3>1
        <4>2. stack[d].it <= Len(stack[d].pt.kids) + 1 /\ Positive(stack[d], TRUE)
          BY <2>1, <3>1
        <4> QED
          BY <4>1, <4>2, Zenon
      <3>2. CASE d = n + 1
        <4>1. stack'[d] = f
          BY <1>6, <3>2
        <4> QED
          BY <2>2, <4>1, Zenon
      <3>3. d \in 1..n \/ d = n + 1
        BY <1>2
      <3> QED
        BY <3>1, <3>2, <3>3, Zenon
    <2> QED
      BY <2>3
  <1>8. \A d \in 1..n : stack'[d].it <= Len(stack'[d].pt.kids)
                        /\ stack'[d + 1].pt = stack'[d].pt.kids[stack'[d].it]
    <2>1. ASSUME NEW d \in 1..n, d # n
          PROVE  stack'[d].it <= Len(stack'[d].pt.kids)
                 /\ stack'[d + 1].pt = stack'[d].pt.kids[stack'[d].it]
      <3>1. d \in 1..(n - 1) /\ d + 1 \in 1..n
        BY <1>2, <2>1
      <3>2. stack[d].it <= Len(stack[d].pt.kids) /\ stack[d + 1].pt = stack[d].pt.kids[stack[d].it]
        BY <3>1 DEF IInv, Walking, n
      <3> QED
        BY <1>6, <3>1, <3>2
    <2>2. stack'[n].it <= Len(stack'[n].pt.kids)
          /\ stack'[n + 1].pt = stack'[n].pt.kids[stack'[n].it]
      BY <1>2, <1>4, <1>6 DEF Top, Child, n
    <2> QED
      BY <2>1, <2>2
  <1>9. stack' # <<>> /\ stack'[1].pt = file' /\ calls' \in 1..MaxCalls /\ file' \in Files
    <2>1. stack[1].pt = file /\ calls \in 1..MaxCalls /\ file \in Files
      BY <1>2 DEF IInv, Walking
    <2>2. stack' # <<>>
      BY <1>2, <1>6, EmptySeq
    <2> QED
      BY <1>2, <1>6, <2>1, <2>2 DEF Descend
  <1>10. \A d \in 1..(n + 1) : Positive(stack'[d], pc' = "visit" \/ d # n + 1)
    BY <1>7 DEF Positive
  <1>11. Walking'
    <2>1. Len(stack') - 1 = n /\ (pc = "unwind")' = FALSE /\ pc' # "idle"
      BY <1>2, <1>5, <1>6
    <2>2. \A d \in 1..Len(stack') : /\ stack'[d].it <= Len(stack'[d].pt.kids) + 1
                                    /\ Positive(stack'[d], pc' = "visit" \/ d # Len(stack'))
      BY <1>6, <1>7, <1>10
    <2> QED
      BY <1>5, <1>6, <1>8, <1>9, <2>1, <2>2 DEF Walking
  <1> QED
    BY <1>1, <1>11 DEF IInv

LEMMA ReturnStep == IInv /\ Return => IInv'
  <1> SUFFICES ASSUME IInv, Return PROVE IInv'
    OBVIOUS
  <1> DEFINE n == Len(stack) - 1
             c == stack[n]
             f == [c EXCEPT !.it = @ + 1, !.props = NoProps]
  <1>1. /\ Running /\ Top \in FrameSet /\ n \in Nat \ {0} /\ Len(stack) = n + 1
        /\ stack \in Seq(FrameSet)
    BY TopType DEF IInv, Walking, Return, Running
  <1>2. c \in FrameSet /\ c.props = NoProps /\ Top.props = NoProps
    <2>1. n \in 1..Len(stack)
      BY <1>1
    <2> HIDE DEF n
    <2>2. c \in FrameSet
      BY <1>1, <2>1, ElementOfSeq
    <2> HIDE DEF c
    <2> QED
      BY <1>1, <2>2 DEF FrameSet
  <1>3. stack' = [Front(stack) EXCEPT ![n] = f] /\ deleted' = Destroy(NoProps, deleted)
    BY <1>2 DEF Return, Returned, Advanced
  <1>4. Ledger' /\ Rest'
    <2>1. UNCHANGED <<inserted, calls, result, properties, answer, wild>>
      BY DEF Return
    <2>2. deleted' = deleted
      BY <1>3, DestroyNothing DEF IInv, Ledger
    <2> QED
      BY <2>1, <2>2 DEF IInv, Ledger, Rest
  <1>5. f = [pt |-> c.pt, it |-> c.it + 1, kp |-> c.kp, vp |-> c.vp, num |-> c.num,
             props |-> NoProps]
    <2> HIDE DEF c
    <2>1. c = [pt |-> c.pt, it |-> c.it, kp |-> c.kp, vp |-> c.vp, num |-> c.num,
               props |-> c.props]
      BY <1>2 DEF FrameSet
    <2>2. f = [c EXCEPT !.it = c.it + 1]
      BY <1>2, <2>1
    <2> HIDE DEF f
    <2> QED
      BY <1>2, <2>1, <2>2
  <1> HIDE DEF f, c
  <1>6. f \in FrameSet /\ f.pt = c.pt /\ f.it = c.it + 1 /\ f.num = c.num
    BY <1>2, <1>5 DEF FrameSet
  <1> HIDE DEF n
  <1>7. /\ stack' \in Seq(FrameSet) /\ Len(stack') = n
        /\ \A d \in 1..n : stack'[d] = IF d = n THEN f ELSE stack[d]
    <2>1. stack # <<>>
      BY <1>1, EmptySeq
    <2>2. /\ Front(stack) \in Seq(FrameSet) /\ Len(Front(stack)) = Len(stack) - 1
          /\ \A d \in 1..(Len(stack) - 1) : Front(stack)[d] = stack[d]
      BY <1>1, <2>1, FrontType
    <2>3. Len(Front(stack)) = n /\ Len(stack) - 1 = n /\ n \in 1..n
      BY <1>1, <2>2
    <2>4. /\ stack' \in Seq(FrameSet) /\ Len(stack') = n
          /\ \A d \in 1..n : stack'[d] = IF d = n THEN f ELSE Front(stack)[d]
      BY <1>3, <1>6, <2>2, <2>3, ExceptSeq
    <2> QED
      BY <2>2, <2>3, <2>4
  <1>8. \A d \in 1..n : /\ stack[d].it <= Len(stack[d].pt.kids)
                        /\ stack[d + 1].pt = stack[d].pt.kids[stack[d].it]
                        /\ Positive(stack[d], TRUE)
    <2> SUFFICES ASSUME NEW d \in 1..n
                 PROVE  /\ stack[d].it <= Len(stack[d].pt.kids)
                        /\ stack[d + 1].pt = stack[d].pt.kids[stack[d].it]
                        /\ Positive(stack[d], TRUE)
      OBVIOUS
    <2>1. d \in 1..(Len(stack) - 1) /\ d \in 1..Len(stack) /\ d # Len(stack)
      BY <1>1
    <2>2. /\ stack[d].it <= Len(stack[d].pt.kids)
          /\ stack[d + 1].pt = stack[d].pt.kids[stack[d].it]
          /\ Positive(stack[d], pc = "visit" \/ d # Len(stack))
      BY <2>1 DEF IInv, Walking
    <2> QED
      BY <2>1, <2>2 DEF Positive
  <1>9. \A d \in 1..n : /\ stack'[d].pt = stack[d].pt
                        /\ stack'[d].it <= Len(stack'[d].pt.kids) + 1
                        /\ Positive(stack'[d], TRUE)
    <2> SUFFICES ASSUME NEW d \in 1..n
                 PROVE  /\ stack'[d].pt = stack[d].pt
                        /\ stack'[d].it <= Len(stack'[d].pt.kids) + 1
                        /\ Positive(stack'[d], TRUE)
      OBVIOUS
    <2>1. stack[d] \in FrameSet /\ Len(stack[d].pt.kids) \in Nat
      <3>1. d \in 1..Len(stack)
        BY <1>1
      <3>2. stack[d] \in FrameSet
        BY <1>1, <3>1, ElementOfSeq
      <3>3. stack[d].pt \in Node
        BY <3>2 DEF FrameSet
      <3>4. Len(stack[d].pt.kids) \in 0..UINT_MAX
        BY <3>3, KidsType
      <3> QED
        BY <3>2, <3>4
    <2>2. stack[d].it \in Nat
      BY <2>1 DEF FrameSet
    <2>3. CASE d = n
      <3>1. stack'[d] = f /\ f.pt = stack[d].pt /\ f.it = stack[d].it + 1 /\ f.num = stack[d].num
        BY <1>6, <1>7, <2>3 DEF c
      <3> QED
        BY <1>8, <2>1, <2>2, <3>1 DEF Positive
    <2>4. CASE d # n
      <3>1. stack'[d] = stack[d]
        BY <1>7, <2>4
      <3> QED
        BY <1>8, <2>1, <2>2, <3>1 DEF Positive
    <2> QED
      BY <2>3, <2>4
  <1>10. \A d \in 1..(n - 1) : stack'[d].it <= Len(stack'[d].pt.kids)
                               /\ stack'[d + 1].pt = stack'[d].pt.kids[stack'[d].it]
    <2> SUFFICES ASSUME NEW d \in 1..(n - 1)
                 PROVE  /\ stack'[d].it <= Len(stack'[d].pt.kids)
                        /\ stack'[d + 1].pt = stack'[d].pt.kids[stack'[d].it]
      OBVIOUS
    <2>1. d \in 1..n /\ d + 1 \in 1..n /\ d # n
      BY <1>1
    <2>2. stack'[d] = stack[d] /\ stack'[d + 1].pt = stack[d + 1].pt
      BY <1>7, <1>9, <2>1
    <2> QED
      BY <1>8, <2>1, <2>2
  <1>11. stack' # <<>> /\ stack'[1].pt = file' /\ calls' \in 1..MaxCalls /\ file' \in Files
    <2>1. stack[1].pt = file /\ calls \in 1..MaxCalls /\ file \in Files
      BY <1>1 DEF IInv, Walking
    <2>2. stack' # <<>>
      BY <1>1, <1>7, EmptySeq
    <2>3. stack'[1].pt = stack[1].pt
      <3>1. 1 \in 1..n
        BY <1>1
      <3> QED
        BY <1>9, <3>1
    <2>4. file' = file /\ calls' = calls
      BY DEF Return
    <2> QED
      BY <2>1, <2>2, <2>3, <2>4
  <1>12. pc' = "visit"
    BY DEF Return
  <1>13. Walking'
    <2>1. \A d \in 1..n : Positive(stack'[d], pc' = "visit" \/ d # n)
      BY <1>9, <1>12 DEF Positive
    <2> QED
      BY <1>7, <1>9, <1>10, <1>11, <1>12, <2>1 DEF Walking
  <1> QED
    BY <1>4, <1>13 DEF IInv

\* One call more, within the bound.
LEMMA CountedCall ==
    ASSUME calls \in 0..MaxCalls, calls < MaxCalls
    PROVE  calls + 1 \in 1..MaxCalls
  <1>1. MaxCalls \in Nat
    BY ConfigurationAssumption
  <1> QED
    BY <1>1

LEMMA ReadFileStep == IInv /\ ReadFile => IInv'
  <1> SUFFICES ASSUME IInv, ReadFile PROVE IInv'
    OBVIOUS
  <1>1. PICK f \in Files : file' = f /\ stack' = <<Frame(f, <<>>, <<>>, <<>>, NoProps)>>
    BY DEF ReadFile
  <1> DEFINE r == Frame(f, <<>>, <<>>, <<>>, NoProps)
  <1>2. f \in Node /\ Len(f.kids) \in Nat
    BY ConfigurationAssumption, KidsType
  <1>3. r \in FrameSet /\ r.pt = f /\ r.it = 1 /\ r.num = <<>>
    BY <1>2, EmptySeq DEF Frame, FrameSet
  <1> HIDE DEF r
  <1>4. stack' = <<r>> /\ pc' = "visit" /\ calls' \in 1..MaxCalls
    <2>1. calls' = calls + 1 /\ calls < MaxCalls /\ calls \in 0..MaxCalls /\ pc' = "visit"
      BY DEF ReadFile, IInv, Rest
    <2>2. calls' \in 1..MaxCalls
      BY <2>1, CountedCall
    <2> QED
      BY <1>1, <2>1, <2>2 DEF r
  <1>5. stack' \in Seq(FrameSet) /\ Len(stack') = 1 /\ stack'[1] = r /\ stack' # <<>>
    BY <1>3, <1>4
  <1>6. Positive(r, TRUE) /\ r.it <= Len(r.pt.kids) + 1
    BY <1>2, <1>3 DEF Positive
  <1>7. \A d \in 1..1 : Positive(stack'[d], pc' = "visit" \/ d # 1)
    BY <1>4, <1>5, <1>6 DEF Positive
  <1>8. Walking'
    BY <1>1, <1>3, <1>4, <1>5, <1>6, <1>7 DEF Walking
  <1>9. Ledger' /\ Rest'
    <2>1. calls' \in 0..MaxCalls
      BY <1>4
    <2> QED
      BY <2>1 DEF IInv, Ledger, Rest, ReadFile
  <1> QED
    BY <1>8, <1>9 DEF IInv

\* The map that comes back is empty, and so is what is copied into the member.
LEMMA ReadDoneStep == IInv /\ ReadDone => IInv'
  <1> SUFFICES ASSUME IInv, ReadDone PROVE IInv'
    OBVIOUS
  <1>1. Running /\ Top \in FrameSet
    BY TopType DEF IInv, ReadDone, Running
  <1>2. Top.props = NoProps
    BY <1>1 DEF FrameSet
  <1>3. /\ properties' = Overwrite(NoProps, properties)
        /\ deleted' = Destroy(NoProps, Destroy(NoProps, deleted))
    BY <1>2 DEF ReadDone, Returned
  <1>4. Ledger'
    BY <1>3, DestroyNothing DEF IInv, Ledger, ReadDone
  <1>5. properties' = NoProps
    BY <1>3 DEF IInv, Rest, Overwrite, NoProps
  <1>6. Rest'
    BY <1>5 DEF IInv, Rest, ReadDone
  <1>7. Walking'
    <2>1. stack' = <<>> /\ Len(stack') = 0 /\ stack' \in Seq(FrameSet) /\ pc' = "idle"
      BY EmptySeq DEF ReadDone
    <2> QED
      BY <2>1 DEF IInv, Walking, ReadDone, Running
  <1> QED
    BY <1>4, <1>6, <1>7 DEF IInv

LEMMA IdleStep == IInv /\ (ReadNoFile \/ Crash \/ Lookup \/ UNCHANGED vars) => IInv'
  <1>1. IInv /\ ReadNoFile => IInv'
    <2> SUFFICES ASSUME IInv, ReadNoFile PROVE IInv'
      OBVIOUS
    <2>1. calls' \in 0..MaxCalls /\ calls \in 0..MaxCalls
      <3>1. calls' = calls + 1 /\ calls < MaxCalls /\ calls \in 0..MaxCalls
        BY DEF IInv, Rest, ReadNoFile
      <3>2. calls' \in 1..MaxCalls
        BY <3>1, CountedCall
      <3> QED
        BY <3>1, <3>2
    <2>2. Walking'
      BY <2>1 DEF IInv, Walking, ReadNoFile, MayCall, Running, Top
    <2> QED
      BY <2>1, <2>2 DEF IInv, Ledger, Rest, ReadNoFile
  <1>2. IInv /\ Crash => IInv'
    <2> SUFFICES ASSUME IInv, Crash PROVE IInv'
      OBVIOUS
    <2>1. \A d \in 1..Len(stack) : Positive(stack[d], pc' = "visit" \/ d # Len(stack))
      BY DEF IInv, Walking, Crash, Positive
    <2>2. Walking'
      BY <2>1 DEF IInv, Walking, Crash, Running, Top
    <2> QED
      BY <2>2 DEF IInv, Ledger, Rest, Crash
  <1>3. IInv /\ Lookup => IInv'
    <2> SUFFICES ASSUME IInv, Lookup PROVE IInv'
      OBVIOUS
    <2>1. PICK key \in Keys : getProperty(key) \/ getPropertyVector(key) \/ propertyExists(key)
      BY DEF Lookup
    <2>2. key \notin DOMAIN properties
      BY DEF IInv, Rest, NoProps
    <2>3. ValuesOf(key) = <<>> /\ Len(<<>>) = 0
      BY <2>2, EmptySeq DEF ValuesOf
    <2>4. Answer(FALSE, <<>>)
      <3>1. getProperty(key) => Answer(FALSE, <<>>)
        BY <2>3 DEF getProperty
      <3>2. getPropertyVector(key) => Answer(FALSE, <<>>)
        BY <2>3 DEF getPropertyVector
      <3>3. propertyExists(key) => Answer(FALSE, <<>>)
        <4>1. (key \in DOMAIN properties) = FALSE
          BY <2>2
        <4> QED
          BY <4>1, Zenon DEF propertyExists
      <3> QED
        BY <2>1, <3>1, <3>2, <3>3
    <2> QED
      BY <2>4 DEF IInv, Walking, Ledger, Rest, Answer, NoAnswer, Running, Top
  <1>4. IInv /\ UNCHANGED vars => IInv'
    BY DEF IInv, Walking, Ledger, Rest, vars, Running, Top
  <1> QED
    BY <1>1, <1>2, <1>3, <1>4

LEMMA InitInv == Init => IInv
  <1> SUFFICES ASSUME Init PROVE IInv
    OBVIOUS
  <1>1. <<>> \in Seq(FrameSet) /\ <<>> \in Seq(Entry) /\ <<>> \in Seq({1}) /\ Len(<<>>) = 0
    BY EmptySeq
  <1> QED
    <2>1. 0 \in 0..MaxCalls
      BY ConfigurationAssumption
    <2>2. Walking
      BY <1>1 DEF Init, Walking, Running
    <2>3. Ledger
      BY <1>1 DEF Init, Ledger
    <2>4. Rest
      BY <2>1 DEF Init, Rest
    <2> QED
      BY <2>2, <2>3, <2>4 DEF IInv

LEMMA NextInv == IInv /\ [Next]_vars => IInv'
  BY SectionStep, PropertyStep, ElementStep, LastElementStep, UnwindStep, DescendStep,
     ReturnStep, ReadFileStep, ReadDoneStep, IdleStep DEF Next, Walk

LEMMA SpecInv == Spec => []IInv
  <1> QED
    BY InitInv, NextInv, PTL DEF Spec

----------------------------------------------------------------------------
(* The theorems.                                                           *)

\* Every variable of Configuration keeps its type, and the activations of mapProperties
\* are a path in the tree from its root.
THEOREM ConfigurationTyped == Spec => []TypeOK
  <1>1. IInv => TypeOK
    <2> SUFFICES ASSUME IInv PROVE TypeOK
      OBVIOUS
    <2>1. IsProps(NoProps)
      BY DEF IsProps, NoProps
    <2>2. ASSUME NEW d \in DOMAIN stack
          PROVE  IsFrame(stack[d])
      <3>1. d \in 1..Len(stack) /\ stack[d] \in FrameSet
        BY LenProperties, ElementOfSeq DEF IInv, Walking
      <3>2. stack[d].it <= Len(stack[d].pt.kids) + 1
        BY <3>1 DEF IInv, Walking
      <3>3. stack[d].pt \in Node /\ stack[d].it \in Nat \ {0} /\ stack[d].props = NoProps
        BY <3>1 DEF FrameSet
      <3>4. stack[d].it \in 1..(Len(stack[d].pt.kids) + 1)
        BY <3>2, <3>3, KidsType
      <3> QED
        BY <2>1, <3>1, <3>3, <3>4 DEF IsFrame, FrameSet
    <2>3. deleted \in Seq(Nat)
      BY SeqMonotonic DEF IInv, Ledger
    <2>4. answer \in [found : BOOLEAN, values : Seq(Value)]
      BY EmptySeq DEF IInv, Rest, NoAnswer
    <2> QED
      BY <2>1, <2>2, <2>3, <2>4 DEF TypeOK, IInv, Walking, Ledger, Rest
  <1> QED
    BY <1>1, SpecInv, PTL

\* No counter of num is ever counted down below zero, whatever the file.
THEOREM CountersNeverWrap == Spec => []CountersPositive
  <1>1. IInv => CountersPositive
    <2> SUFFICES ASSUME IInv, NEW d \in DOMAIN stack, NEW i \in DOMAIN stack[d].num
                 PROVE  stack[d].num[i] > 0
                        \/ (pc # "visit" /\ d = Len(stack) /\ i = Len(stack[d].num))
      BY DEF CountersPositive
    <2>1. d \in 1..Len(stack) /\ stack[d] \in FrameSet
      BY LenProperties, ElementOfSeq DEF IInv, Walking
    <2>2. stack[d].num \in Seq(0..UINT_MAX)
      BY <2>1 DEF FrameSet
    <2>3. i \in 1..Len(stack[d].num)
      BY <2>2, LenProperties
    <2>4. Positive(stack[d], pc = "visit" \/ d # Len(stack))
      BY <2>1 DEF IInv, Walking
    <2> QED
      BY <2>3, <2>4 DEF Positive
  <1> QED
    BY <1>1, SpecInv, PTL

\* The value of every Property is deleted exactly once, by the copy of the map it was
\* put into, and the member never holds one that was.
THEOREM ValuesDeletedOnce == Spec => []DeletedOnce
  <1>1. IInv => DeletedOnce
    <2> SUFFICES ASSUME IInv PROVE DeletedOnce
      OBVIOUS
    <2>1. \A n \in DOMAIN deleted : deleted[n] = 1
      BY LenProperties, ElementOfSeq DEF IInv, Ledger
    <2>2. \A k \in DOMAIN properties : FALSE
      BY DEF IInv, Rest, NoProps
    <2> QED
      BY <2>1, <2>2 DEF DeletedOnce
  <1> QED
    BY <1>1, SpecInv, PTL

=============================================================================
