---------------------- MODULE ConfigurationWalk_proofs ----------------------
(***************************************************************************)
(* What the walk of readConfigurationFile makes of the tree it is          *)
(* given: when it goes astray, what it finds of a file, and under which    *)
(* keys.  Three parts build on one another:                                *)
(*   - lemmas about FlattenSeq and about recursion over the tree, from     *)
(*     which the equations of Nodes, Under and Flatten follow;             *)
(*   - PlainWalk: in a plain file a frame always has a counter that lasts  *)
(*     for all the children it has yet to visit;                           *)
(*   - RegularWalk: there are marks, one for every frame, that say how     *)
(*     much was inserted before its node and what the node's key is; what  *)
(*     was inserted since is what the file says of the children the frame  *)
(*     is done with.                                                       *)
(* The marks stand for no variable: the invariant says that they exist.    *)
(* Last, the order in which the walk goes through the tree of any file.    *)
(***************************************************************************)
EXTENDS Configuration_proofs, WellFoundedInduction, TLAPS

----------------------------------------------------------------------------
(* Induction over naturals, by the least counterexample.                   *)

\* Every nonempty set of naturals has a least element: the induction of this module.
LEMMA NatMin ==
    ASSUME NEW T, T \subseteq Nat, T # {}
    PROVE  \E m \in T : \A k \in T : m <= k
  <1> DEFINE R == {ss \in Nat \X Nat : ss[1] < ss[2]}
  <1>1. IsWellFoundedOn(R, Nat)
    BY NatLessThanWellFounded, Zenon DEF OpToRel
  <1>2. \E x \in T : \A y \in T : ~(<<y, x>> \in R)
    <2> HIDE DEF R
    <2> QED
      BY <1>1, WFMin
  <1>3. PICK x \in T : \A y \in T : ~(<<y, x>> \in R)
    BY <1>2
  <1>4. ASSUME NEW y \in T PROVE x <= y
    <2>1. x \in Nat /\ y \in Nat /\ ~(<<y, x>> \in R)
      BY <1>3
    <2>2. ~(y < x)
      BY <2>1
    <2> QED
      BY <2>1, <2>2
  <1> QED
    BY <1>4

\* A set of naturals that 0 is in, and with every number the next, holds them all.
LEMMA NatAll ==
    ASSUME NEW S, 0 \in S, \A h \in Nat : h \in S => h + 1 \in S
    PROVE  \A h \in Nat : h \in S
  <1> SUFFICES ASSUME Nat \ S # {} PROVE FALSE
    OBVIOUS
  <1>1. PICK m \in Nat \ S : \A k \in Nat \ S : m <= k
    BY NatMin
  <1>2. m # 0 /\ m - 1 \in Nat
    BY <1>1
  <1>3. m - 1 \in S
    BY <1>1, <1>2
  <1>4. (m - 1) + 1 \in S
    BY <1>2, <1>3
  <1> QED
    BY <1>1, <1>2, <1>4

----------------------------------------------------------------------------
(* FlattenSeq.                                                             *)

\* f is what FlattenSeq defines of s: at i the first i members of s, joined.
Joins(f, s) == f = [i \in 1..Len(s) |-> IF i = 1 THEN s[i] ELSE f[i - 1] \o s[i]]

\* What such a function is at 1, and at each further place.
LEMMA JoinsFirst ==
    ASSUME NEW s, Len(s) \in Nat \ {0}, NEW f, Joins(f, s)
    PROVE  /\ f[1] = s[1]
           /\ \A i \in 1..(Len(s) - 1) : f[i + 1] = f[i] \o s[i + 1]
  <1>1. \A i \in 1..Len(s) : f[i] = IF i = 1 THEN s[i] ELSE f[i - 1] \o s[i]
    BY DEF Joins
  <1>2. ASSUME NEW i \in 1..(Len(s) - 1)
        PROVE  f[i + 1] = f[i] \o s[i + 1]
    <2>1. i + 1 \in 1..Len(s) /\ i + 1 # 1 /\ (i + 1) - 1 = i
      OBVIOUS
    <2>2. f[i + 1] = f[(i + 1) - 1] \o s[i + 1]
      BY <1>1, <2>1, Zenon
    <2> QED
      BY <2>1, <2>2
  <1>3. 1 \in 1..Len(s)
    OBVIOUS
  <1>4. f[1] = s[1]
    BY <1>1, <1>3, Zenon
  <1> QED
    BY <1>2, <1>4

\* One more sequence at the end changes nothing before it.
LEMMA JoinsSame ==
    ASSUME NEW T, NEW s \in Seq(T), NEW x \in T, NEW f, NEW g,
           Joins(f, s), Joins(g, Append(s, x)), NEW j \in 1..Len(s)
    PROVE  f[j] = g[j]
  <1> DEFINE n == Len(s)
             t == Append(s, x)
             Bad == {i \in 1..n : f[i] # g[i]}
  <1>1. n \in Nat /\ Len(t) = n + 1 /\ \A i \in 1..n : t[i] = s[i]
    BY AppendProperties, LenProperties
  <1>2. f[1] = s[1] /\ \A i \in 1..(n - 1) : f[i + 1] = f[i] \o s[i + 1]
    <2>1. n \in Nat \ {0}
      BY <1>1
    <2> QED
      BY <2>1, JoinsFirst
  <1>3. g[1] = t[1] /\ \A i \in 1..n : g[i + 1] = g[i] \o t[i + 1]
    <2>1. Len(t) \in Nat \ {0} /\ Len(t) - 1 = n /\ Joins(g, t)
      BY <1>1
    <2> HIDE DEF t
    <2> QED
      BY <2>1, JoinsFirst
  <1>n. j \in 1..n
    OBVIOUS
  <1> HIDE DEF n, t
  <1> SUFFICES ASSUME Bad # {} PROVE FALSE
    BY <1>n
  <1>4. Bad \subseteq Nat
    BY <1>1
  <1>5. PICK m \in Bad : \A k \in Bad : m <= k
    <2> HIDE DEF Bad
    <2> QED
      BY <1>4, NatMin
  <1>6. m \in 1..n /\ f[m] # g[m]
    BY <1>5
  <1>7. CASE m = 1
    BY <1>1, <1>2, <1>3, <1>6, <1>7
  <1>8. CASE m # 1
    <2>1. m - 1 \in 1..n /\ m - 1 \notin Bad
      BY <1>1, <1>5, <1>6, <1>8
    <2>2. f[m - 1] = g[m - 1] /\ s[m] = t[m]
      BY <1>1, <1>6, <2>1
    <2>3. m - 1 \in 1..(n - 1) /\ (m - 1) + 1 = m
      BY <1>1, <1>6, <1>8
    <2>4. f[m] = f[m - 1] \o s[m]
      BY <1>2, <2>3
    <2>5. g[m] = g[m - 1] \o t[m]
      BY <1>3, <2>1, <2>3
    <2> QED
      BY <1>6, <2>2, <2>4, <2>5
  <1> QED
    BY <1>7, <1>8

\* There is such a function, for every sequence.
LEMMA JoinsExists ==
    ASSUME NEW T, NEW s \in Seq(T)
    PROVE  \E f : Joins(f, s)
  <1> DEFINE n == Len(s)
             Upto(m) == \E f : f = [i \in 1..m |-> IF i = 1 THEN s[i] ELSE f[i - 1] \o s[i]]
             S == {m \in Nat : Upto(m)}
  <1>1. n \in Nat
    BY LenProperties
  <1>2. 0 \in S
    <2>1. [i \in 1..0 |-> 0] = [i \in 1..0 |-> IF i = 1 THEN s[i] ELSE [j \in 1..0 |-> 0][i - 1] \o s[i]]
      OBVIOUS
    <2>2. Upto(0)
      BY <2>1, Zenon
    <2> QED
      BY <2>2
  <1>3. ASSUME NEW m \in Nat, m \in S PROVE m + 1 \in S
    <2>1. PICK f : f = [i \in 1..m |-> IF i = 1 THEN s[i] ELSE f[i - 1] \o s[i]]
      BY <1>3
    <2> DEFINE g == [i \in 1..(m + 1) |-> IF i = m + 1
                        THEN (IF i = 1 THEN s[i] ELSE f[i - 1] \o s[i]) ELSE f[i]]
    <2>2. ASSUME NEW i \in 1..(m + 1)
          PROVE  g[i] = IF i = 1 THEN s[i] ELSE g[i - 1] \o s[i]
      <3>1. CASE i = m + 1
        <4>1. i # 1 => i - 1 \in 1..(m + 1) /\ i - 1 # m + 1
          BY <3>1
        <4>2. i # 1 => g[i - 1] = f[i - 1]
          BY <4>1
        <4>3. g[i] = IF i = 1 THEN s[i] ELSE f[i - 1] \o s[i]
          BY <3>1
        <4> HIDE DEF g
        <4> QED
          BY <4>2, <4>3
      <3>2. CASE i # m + 1
        <4>1. i \in 1..m /\ (i # 1 => i - 1 \in 1..m)
          BY <3>2
        <4>2. g[i] = f[i] /\ (i # 1 => g[i - 1] = f[i - 1])
          BY <3>2, <4>1
        <4>3. f[i] = IF i = 1 THEN s[i] ELSE f[i - 1] \o s[i]
          BY <2>1, <4>1
        <4> HIDE DEF g
        <4> QED
          BY <4>2, <4>3
      <3> QED
        BY <3>1, <3>2
    <2>3. DOMAIN g = 1..(m + 1) /\ g = [i \in 1..(m + 1) |-> g[i]]
      OBVIOUS
    <2> HIDE DEF g
    <2>4. g = [i \in 1..(m + 1) |-> IF i = 1 THEN s[i] ELSE g[i - 1] \o s[i]]
      <3> DEFINE h == [i \in 1..(m + 1) |-> IF i = 1 THEN s[i] ELSE g[i - 1] \o s[i]]
      <3>1. \A i \in 1..(m + 1) : h[i] = IF i = 1 THEN s[i] ELSE g[i - 1] \o s[i]
        OBVIOUS
      <3>2. DOMAIN h = 1..(m + 1) /\ h = [i \in 1..(m + 1) |-> h[i]]
        OBVIOUS
      <3> HIDE DEF h
      <3>3. \A i \in 1..(m + 1) : g[i] = h[i]
        BY <2>2, <3>1, Zenon
      <3>4. g = h
        BY <2>3, <3>2, <3>3
      <3> QED
        BY <3>4 DEF h
    <2>5. Upto(m + 1)
      BY <2>4, Zenon
    <2>6. m + 1 \in Nat
      OBVIOUS
    <2> HIDE DEF Upto
    <2> QED
      BY <2>5, <2>6
  <1> HIDE DEF S
  <1>4. n \in S
    BY <1>1, <1>2, <1>3, NatAll
  <1>5. Upto(n)
    BY <1>4 DEF S
  <1> QED
    BY <1>5, Zenon DEF Joins

LEMMA FlattenJoins ==
    ASSUME NEW T, NEW s \in Seq(T), s # <<>>
    PROVE  \E f : Joins(f, s) /\ FlattenSeq(s) = f[Len(s)]
  <1>1. Len(s) \in Nat \ {0}
    BY EmptySeq, LenProperties
  <1>2. FlattenSeq(s) =
          (CHOOSE f : f = [i \in 1..Len(s) |-> IF i = 1 THEN s[i] ELSE f[i - 1] \o s[i]])[Len(s)]
    BY <1>1 DEF FlattenSeq
  <1>3. \E f : f = [i \in 1..Len(s) |-> IF i = 1 THEN s[i] ELSE f[i - 1] \o s[i]]
    BY JoinsExists DEF Joins
  <1> DEFINE g == CHOOSE f : f = [i \in 1..Len(s) |-> IF i = 1 THEN s[i] ELSE f[i - 1] \o s[i]]
  <1>4. g = [i \in 1..Len(s) |-> IF i = 1 THEN s[i] ELSE g[i - 1] \o s[i]]
    BY <1>3, Zenon
  <1>5. FlattenSeq(s) = g[Len(s)]
    BY <1>2
  <1> HIDE DEF g
  <1> QED
    BY <1>4, <1>5 DEF Joins

\* What FlattenSeq makes of no sequence, and of one sequence more.
LEMMA FlattenEmpty == FlattenSeq(<<>>) = <<>>
  BY EmptySeq DEF FlattenSeq

LEMMA FlattenAppend ==
    ASSUME NEW V, NEW s \in Seq(Seq(V)), NEW x \in Seq(V)
    PROVE  FlattenSeq(Append(s, x)) = FlattenSeq(s) \o x
  <1> DEFINE t == Append(s, x)
  <1>1. /\ t \in Seq(Seq(V)) /\ Len(t) = Len(s) + 1 /\ Len(s) \in Nat
        /\ t[Len(s) + 1] = x /\ t # <<>>
    BY AppendProperties, LenProperties
  <1>2. PICK g : Joins(g, t) /\ FlattenSeq(t) = g[Len(t)]
    <2> HIDE DEF t
    <2> QED
      BY <1>1, FlattenJoins
  <1>3. CASE s = <<>>
    <2>1. Len(t) = 1 /\ t[1] = x
      BY <1>1, <1>3, EmptySeq
    <2>2. g[1] = x
      <3>1. Len(t) \in Nat \ {0}
        BY <2>1
      <3>2. g[1] = t[1]
        BY <1>2, <3>1, JoinsFirst
      <3> QED
        BY <2>1, <3>2
    <2>3. FlattenSeq(s) = <<>>
      BY <1>3, FlattenEmpty
    <2>4. <<>> \o x = x
      BY ConcatEmptySeq
    <2> QED
      BY <1>2, <1>3, <2>1, <2>2, <2>3, <2>4
  <1>4. CASE s # <<>>
    <2>1. PICK f : Joins(f, s) /\ FlattenSeq(s) = f[Len(s)]
      BY <1>4, FlattenJoins
    <2>2. Len(s) \in 1..Len(s)
      BY <1>1, <1>4, EmptySeq
    <2>3. f[Len(s)] = g[Len(s)]
      BY <1>2, <2>1, <2>2, JoinsSame
    <2>4. g[Len(s) + 1] = g[Len(s)] \o t[Len(s) + 1]
      <3>1. Len(t) \in Nat \ {0} /\ Len(s) \in 1..(Len(t) - 1)
        BY <1>1, <2>2
      <3> HIDE DEF t
      <3> QED
        BY <1>2, <3>1, JoinsFirst
    <2> QED
      BY <1>1, <1>2, <2>1, <2>3, <2>4
  <1> QED
    BY <1>3, <1>4

\* FlattenSeq of sequences over V is one.
LEMMA FlattenType ==
    ASSUME NEW V, NEW s \in Seq(Seq(V))
    PROVE  FlattenSeq(s) \in Seq(V)
  <1> DEFINE Good(t) == FlattenSeq(t) \in Seq(V)
             S == {n \in Nat : \A t \in Seq(Seq(V)) : Len(t) = n => Good(t)}
  <1>1. 0 \in S
    <2>1. ASSUME NEW t \in Seq(Seq(V)), Len(t) = 0 PROVE Good(t)
      <3>1. t = <<>>
        BY <2>1, EmptySeq
      <3> QED
        BY <3>1, FlattenEmpty, EmptySeq
    <2> HIDE DEF Good
    <2> QED
      BY <2>1
  <1>2. ASSUME NEW n \in Nat, n \in S PROVE n + 1 \in S
    <2>1. ASSUME NEW t \in Seq(Seq(V)), Len(t) = n + 1 PROVE Good(t)
      <3>1. t # <<>>
        BY <2>1, EmptySeq
      <3>2. PICK r \in Seq(Seq(V)), x \in Seq(V) : t = Append(r, x)
        BY <3>1, SequenceEmptyOrAppend
      <3>3. Len(r) \in Nat /\ Len(t) = Len(r) + 1
        BY <3>2, AppendProperties, LenProperties
      <3>4. Len(r) = n
        BY <2>1, <3>3
      <3>5. Good(r)
        BY <1>2, <3>4
      <3>6. FlattenSeq(t) = FlattenSeq(r) \o x
        BY <3>2, FlattenAppend
      <3> QED
        BY <3>5, <3>6, ConcatProperties
    <2> HIDE DEF Good
    <2> QED
      BY <2>1
  <1>3. Len(s) \in Nat /\ \A h \in Nat : h \in S
    <2> HIDE DEF S
    <2> QED
      BY <1>1, <1>2, NatAll, LenProperties
  <1> QED
    BY <1>3

\* The first k + 1 members of F, joined, are the first k and the next.
LEMMA FlattenNext ==
    ASSUME NEW V, NEW k \in Nat, NEW F, \A i \in 1..(k + 1) : F[i] \in Seq(V)
    PROVE  FlattenSeq([i \in 1..(k + 1) |-> F[i]]) = FlattenSeq([i \in 1..k |-> F[i]]) \o F[k + 1]
  <1> DEFINE s == [i \in 1..k |-> F[i]]
             t == [i \in 1..(k + 1) |-> F[i]]
  <1>1. s \in Seq(Seq(V)) /\ Len(s) = k
    OBVIOUS
  <1>2. t \in Seq(Seq(V)) /\ Len(t) = k + 1
    OBVIOUS
  <1>3. F[k + 1] \in Seq(V)
    OBVIOUS
  <1>4. Append(s, F[k + 1]) \in Seq(Seq(V)) /\ Len(Append(s, F[k + 1])) = k + 1
        /\ \A i \in 1..k : Append(s, F[k + 1])[i] = s[i]
        /\ Append(s, F[k + 1])[k + 1] = F[k + 1]
    <2> HIDE DEF s
    <2> QED
      BY <1>1, <1>3, AppendProperties
  <1>5. ASSUME NEW i \in 1..(k + 1)
        PROVE  t[i] = Append(s, F[k + 1])[i]
    <2>1. CASE i = k + 1
      BY <1>4, <2>1
    <2>2. CASE i # k + 1
      <3>1. i \in 1..k /\ s[i] = F[i] /\ t[i] = F[i]
        BY <2>2
      <3> QED
        BY <1>4, <3>1
    <2> QED
      BY <2>1, <2>2
  <1> HIDE DEF s, t
  <1>6. t = Append(s, F[k + 1])
    BY <1>2, <1>4, <1>5, SeqEqual
  <1>7. FlattenSeq(t) = FlattenSeq(s) \o F[k + 1]
    BY <1>1, <1>3, <1>6, FlattenAppend
  <1> QED
    BY <1>7 DEF s, t

----------------------------------------------------------------------------
(* Recursion over a tree.                                                  *)

\* h is a function on the nodes lower than m that satisfies the equation of G there.
SolvesBelow(h, G, m) == \A n \in Node : Height[n] < m => h[n] = G[h][n]

\* The children of a node are lower than it.
LEMMA NodeHeight ==
    ASSUME NEW n \in Node
    PROVE  /\ Height[n] \in Nat
           /\ \A i \in DOMAIN n.kids : n.kids[i] \in Node /\ Height[n.kids[i]] < Height[n]
                                       /\ Height[n.kids[i]] \in Nat
  <1>1. n.kids \in Seq(Node) /\ Height[n] \in Nat
        /\ \A i \in DOMAIN n.kids : Height[n.kids[i]] < Height[n]
    BY ConfigurationAssumption
  <1>2. \A i \in DOMAIN n.kids : n.kids[i] \in Node
    BY <1>1, LenProperties, ElementOfSeq
  <1>3. \A m \in Node : Height[m] \in Nat
    BY ConfigurationAssumption
  <1> QED
    BY <1>1, <1>2, <1>3

\* What G makes of a function at a node depends on the function at its children only.
Local(G, V) ==
    \A g, h \in [Node -> V] : \A n \in Node :
        (\A i \in DOMAIN n.kids : g[n.kids[i]] = h[n.kids[i]]) => G[g][n] = G[h][n]

\* Two solutions agree where both are solutions.
LEMMA SolutionsAgree ==
    ASSUME NEW V, NEW G, Local(G, V),
           NEW g \in [Node -> V], NEW h \in [Node -> V], NEW k \in Nat,
           SolvesBelow(g, G, k), SolvesBelow(h, G, k),
           NEW n \in Node, Height[n] < k
    PROVE  g[n] = h[n]
  <1> DEFINE Bad == {j \in Nat : \E m \in Node : Height[m] = j /\ j < k /\ g[m] # h[m]}
  <1> SUFFICES ASSUME g[n] # h[n] PROVE FALSE
    OBVIOUS
  <1>1. Height[n] \in Nat
    BY NodeHeight
  <1>2. Bad # {} /\ Bad \subseteq Nat
    BY <1>1
  <1>3. PICK j \in Bad : \A i \in Bad : j <= i
    <2> HIDE DEF Bad
    <2> QED
      BY <1>2, NatMin
  <1>4. PICK m \in Node : Height[m] = j /\ j < k /\ g[m] # h[m]
    BY <1>3
  <1>5. \A i \in DOMAIN m.kids : g[m.kids[i]] = h[m.kids[i]]
    <2> SUFFICES ASSUME NEW i \in DOMAIN m.kids, g[m.kids[i]] # h[m.kids[i]] PROVE FALSE
      OBVIOUS
    <2>1. m.kids[i] \in Node /\ Height[m.kids[i]] \in Nat /\ Height[m.kids[i]] < j
      BY <1>4, NodeHeight
    <2>2. Height[m.kids[i]] < k
      BY <1>3, <1>4, <2>1
    <2>3. Height[m.kids[i]] \in Bad
      BY <2>1, <2>2
    <2> QED
      BY <1>3, <2>1, <2>3
  <1>6. G[g][m] = G[h][m]
    BY <1>5 DEF Local
  <1>7. g[m] = G[g][m] /\ h[m] = G[h][m]
    BY <1>4 DEF SolvesBelow
  <1> QED
    BY <1>4, <1>6, <1>7

\* There is a solution below every height ...
LEMMA SolutionBelow ==
    ASSUME NEW V, NEW v \in V, NEW G \in [[Node -> V] -> [Node -> V]], Local(G, V),
           NEW k \in Nat
    PROVE  \E g \in [Node -> V] : SolvesBelow(g, G, k)
  <1> DEFINE S == {m \in Nat : \E g \in [Node -> V] : SolvesBelow(g, G, m)}
  <1>1. 0 \in S
    <2>1. [n \in Node |-> v] \in [Node -> V]
      OBVIOUS
    <2>2. SolvesBelow([n \in Node |-> v], G, 0)
      BY NodeHeight DEF SolvesBelow
    <2> QED
      BY <2>1, <2>2
  <1>2. ASSUME NEW m \in Nat, m \in S PROVE m + 1 \in S
    <2>1. PICK g \in [Node -> V] : SolvesBelow(g, G, m)
      BY <1>2
    <2>2. G[g] \in [Node -> V]
      OBVIOUS
    <2>3. SolvesBelow(G[g], G, m + 1)
      <3> SUFFICES ASSUME NEW n \in Node, Height[n] < m + 1
                   PROVE  G[g][n] = G[G[g]][n]
        BY DEF SolvesBelow
      <3>1. \A i \in DOMAIN n.kids : g[n.kids[i]] = G[g][n.kids[i]]
        <4> SUFFICES ASSUME NEW i \in DOMAIN n.kids PROVE g[n.kids[i]] = G[g][n.kids[i]]
          OBVIOUS
        <4>1. n.kids[i] \in Node /\ Height[n.kids[i]] < m
          BY NodeHeight
        <4> QED
          BY <2>1, <4>1 DEF SolvesBelow
      <3> QED
        BY <2>2, <3>1 DEF Local
    <2>4. m + 1 \in Nat
      OBVIOUS
    <2> QED
      BY <2>2, <2>3, <2>4
  <1>3. k \in S
    <2> HIDE DEF S
    <2> QED
      BY <1>1, <1>2, NatAll
  <1> QED
    BY <1>3

\* ... and so one for all of them: recursion over the children of a node defines
\* a function.
LEMMA TreeRecursion ==
    ASSUME NEW V, NEW v \in V, NEW G \in [[Node -> V] -> [Node -> V]], Local(G, V)
    PROVE  \E f \in [Node -> V] : f = G[f]
  <1> DEFINE Sol(n) == CHOOSE g \in [Node -> V] : SolvesBelow(g, G, Height[n] + 1)
             f == [n \in Node |-> Sol(n)[n]]
  <1>1. ASSUME NEW n \in Node
        PROVE  Sol(n) \in [Node -> V] /\ SolvesBelow(Sol(n), G, Height[n] + 1)
    <2>1. Height[n] + 1 \in Nat
      BY NodeHeight
    <2>2. \E g \in [Node -> V] : SolvesBelow(g, G, Height[n] + 1)
      BY <2>1, SolutionBelow
    <2> QED
      BY <2>2, Zenon
  <1> HIDE DEF Sol
  <1>2. f \in [Node -> V]
    BY <1>1
  <1>3. ASSUME NEW n \in Node
        PROVE  f[n] = G[f][n]
    <2> DEFINE g == Sol(n)
    <2>1. g \in [Node -> V] /\ SolvesBelow(g, G, Height[n] + 1)
      BY <1>1
    <2> HIDE DEF g
    <2>2. \A i \in DOMAIN n.kids : f[n.kids[i]] = g[n.kids[i]]
      <3> SUFFICES ASSUME NEW i \in DOMAIN n.kids PROVE f[n.kids[i]] = g[n.kids[i]]
        OBVIOUS
      <3> DEFINE c == n.kids[i]
                 h == Sol(c)
      <3>1. c \in Node /\ Height[c] \in Nat /\ Height[n] \in Nat /\ Height[c] < Height[n]
        BY NodeHeight
      <3>2. h \in [Node -> V] /\ SolvesBelow(h, G, Height[c] + 1)
        BY <1>1, <3>1
      <3>3. f[c] = h[c]
        BY <3>1
      <3> HIDE DEF c, h
      <3>4. SolvesBelow(g, G, Height[c] + 1)
        <4>1. \A m \in Node : Height[m] \in Nat
          BY NodeHeight
        <4>2. ASSUME NEW m \in Node, Height[m] < Height[c] + 1
              PROVE  Height[m] < Height[n] + 1
          BY <3>1, <4>1, <4>2
        <4> QED
          BY <2>1, <4>2 DEF SolvesBelow
      <3>5. Height[c] + 1 \in Nat /\ Height[c] < Height[c] + 1
        BY <3>1
      <3>6. g[c] = h[c]
        BY <2>1, <3>1, <3>2, <3>4, <3>5, SolutionsAgree
      <3> QED
        BY <3>3, <3>6 DEF c
    <2>3. G[f][n] = G[g][n]
      <3> HIDE DEF f
      <3> QED
        BY <1>2, <2>1, <2>2 DEF Local
    <2>4. Height[n] \in Nat /\ Height[n] < Height[n] + 1
      BY NodeHeight
    <2>5. g[n] = G[g][n]
      BY <2>1, <2>4 DEF SolvesBelow
    <2>6. f[n] = g[n]
      BY DEF g
    <2> QED
      BY <2>3, <2>5, <2>6
  <1>4. G[f] \in [Node -> V]
    BY <1>2
  <1> HIDE DEF f
  <1>5. f = G[f]
    BY <1>2, <1>3, <1>4
  <1> QED
    BY <1>2, <1>5

----------------------------------------------------------------------------
(* The recursive functions of Configuration.                               *)

\* The equations by which Nodes, Under and Flatten are defined hold.
LEMMA NodesDef ==
    ASSUME NEW n \in Node
    PROVE  Nodes[n] = {n} \cup UNION {Nodes[n.kids[i]] : i \in DOMAIN n.kids}
  <1> DEFINE V == SUBSET Node
             Step(g, m) == {m} \cup UNION {g[m.kids[i]] : i \in DOMAIN m.kids}
             Of(g) == [m \in Node |-> Step(g, m)]
             G == [g \in [Node -> V] |-> Of(g)]
  <1>1. ASSUME NEW g \in [Node -> V]
        PROVE  G[g] = Of(g) /\ Of(g) \in [Node -> V]
    <2>1. ASSUME NEW m \in Node PROVE Step(g, m) \in V
      <3>1. \A i \in DOMAIN m.kids : m.kids[i] \in Node
        BY NodeHeight
      <3>2. \A i \in DOMAIN m.kids : g[m.kids[i]] \subseteq Node
        BY <3>1
      <3> QED
        BY <3>2
    <2> HIDE DEF Step
    <2> QED
      BY <2>1
  <1>2. G \in [[Node -> V] -> [Node -> V]]
    <2> HIDE DEF Of, V
    <2> QED
      BY <1>1
  <1>3. Local(G, V)
    <2>1. ASSUME NEW g \in [Node -> V], NEW h \in [Node -> V], NEW m \in Node,
                 \A i \in DOMAIN m.kids : g[m.kids[i]] = h[m.kids[i]]
          PROVE  G[g][m] = G[h][m]
      <3>1. Step(g, m) = Step(h, m)
        BY <2>1
      <3>2. Of(g)[m] = Step(g, m) /\ Of(h)[m] = Step(h, m)
        OBVIOUS
      <3> HIDE DEF Of, Step, V, G
      <3> QED
        BY <1>1, <3>1, <3>2
    <2> HIDE DEF G, V
    <2> QED
      BY <2>1, Zenon DEF Local
  <1>4. \E f \in [Node -> V] : f = G[f]
    <2>1. {} \in V
      OBVIOUS
    <2> HIDE DEF G, V
    <2> QED
      BY <1>2, <1>3, <2>1, TreeRecursion
  <1>5. \E f : f = Of(f)
    <2> HIDE DEF G, Of
    <2> QED
      BY <1>1, <1>4
  <1>6. Nodes = CHOOSE f : f = Of(f)
    BY Zenon DEF Nodes
  <1>7. Nodes = Of(Nodes)
    <2> HIDE DEF Of
    <2> QED
      BY <1>5, <1>6, Zenon
  <1>8. Of(Nodes)[n] = Step(Nodes, n)
    BY Zenon
  <1> HIDE DEF Of
  <1> QED
    BY <1>7, <1>8, Zenon

\* A node is in its tree, and the trees of its children are.
LEMMA NodesOfKid ==
    ASSUME NEW n \in Node
    PROVE  n \in Nodes[n] /\ \A i \in DOMAIN n.kids : Nodes[n.kids[i]] \subseteq Nodes[n]
  BY NodesDef

\* What Flatten makes of a node.
Flat == Seq([key : Seq(Names), vals : Seq(Value) \ {<<>>}])

\* A function on 1..n is a sequence.
LEMMA SeqOfLength ==
    ASSUME NEW S, NEW n \in Nat, NEW s \in [1..n -> S]
    PROVE  s \in Seq(S) /\ Len(s) = n
  <1>1. \E m \in Nat : s \in [1..m -> S]
    BY Zenon
  <1>2. s \in Seq(S)
    BY <1>1, SeqDef
  <1>3. DOMAIN s = 1..n
    OBVIOUS
  <1> QED
    BY <1>2, <1>3, LenProperties

LEMMA UnderType ==
    ASSUME NEW key \in Seq(Names), NEW p \in Flat
    PROVE  /\ Under(key, p) \in Flat /\ Len(Under(key, p)) = Len(p)
           /\ \A j \in 1..Len(p) : /\ Under(key, p)[j].vals = p[j].vals
                                   /\ Under(key, p)[j].key = key \o p[j].key
  <1>1. Len(p) \in Nat /\ DOMAIN p = 1..Len(p)
    BY LenProperties DEF Flat
  <1>2. Under(key, p) = [j \in 1..Len(p) |-> [key |-> key \o p[j].key, vals |-> p[j].vals]]
    BY <1>1 DEF Under
  <1>3. ASSUME NEW j \in 1..Len(p)
        PROVE  [key |-> key \o p[j].key, vals |-> p[j].vals]
                  \in [key : Seq(Names), vals : Seq(Value) \ {<<>>}]
    <2>1. p[j] \in [key : Seq(Names), vals : Seq(Value) \ {<<>>}]
      BY ElementOfSeq DEF Flat
    <2>2. key \o p[j].key \in Seq(Names)
      BY <2>1, ConcatProperties
    <2> QED
      BY <2>1, <2>2
  <1> DEFINE E == [key : Seq(Names), vals : Seq(Value) \ {<<>>}]
             u == Under(key, p)
  <1>4. \A j \in 1..Len(p) :
           u[j] \in E /\ u[j].vals = p[j].vals /\ u[j].key = key \o p[j].key
    BY <1>2, <1>3
  <1>5. DOMAIN u = 1..Len(p) /\ u = [j \in 1..Len(p) |-> u[j]]
    BY <1>2
  <1> HIDE DEF E, u
  <1>6. u \in [1..Len(p) -> E]
    BY <1>4, <1>5
  <1>7. u \in Seq(E) /\ Len(u) = Len(p)
    BY <1>1, <1>6, SeqOfLength, Zenon
  <1> QED
    BY <1>4, <1>7 DEF E, u, Flat

LEMMA HeldType ==
    ASSUME NEW vals \in Seq(Value)
    PROVE  Held(vals) \in Flat
  <1>1. CASE vals = <<>>
    BY <1>1, EmptySeq DEF Held, Flat
  <1>2. CASE vals # <<>>
    <2>1. Held(vals) = <<[key |-> <<>>, vals |-> vals]>> /\ <<>> \in Seq(Names)
      BY <1>2, EmptySeq DEF Held
    <2> QED
      BY <1>2, <2>1 DEF Flat
  <1> QED
    BY <1>1, <1>2

LEMMA FlattenDef ==
    ASSUME NEW n \in Node
    PROVE  /\ Flatten[n] \in Flat
           /\ Flatten[n] = Under(n.key,
                IF IsLeaf(n) THEN Held(n.data)
                ELSE IF IsArray(n) THEN Held(FlattenSeq([i \in DOMAIN n.kids |-> n.kids[i].data]))
                ELSE FlattenSeq([i \in DOMAIN n.kids |-> Flatten[n.kids[i]]]))
  <1> DEFINE Inner(g, m) ==
               IF IsLeaf(m) THEN Held(m.data)
               ELSE IF IsArray(m) THEN Held(FlattenSeq([i \in DOMAIN m.kids |-> m.kids[i].data]))
               ELSE FlattenSeq([i \in DOMAIN m.kids |-> g[m.kids[i]]])
             Of(g) == [m \in Node |-> Under(m.key, Inner(g, m))]
             G == [g \in [Node -> Flat] |-> Of(g)]
  <1>1. ASSUME NEW g \in [Node -> Flat], NEW m \in Node
        PROVE  Inner(g, m) \in Flat
    <2>1. /\ m.key \in Seq(Names) /\ m.data \in Seq(Value) /\ m.kids \in Seq(Node)
          /\ DOMAIN m.kids = 1..Len(m.kids) /\ Len(m.kids) \in Nat
      BY KidsType, LenProperties
    <2>2. \A i \in 1..Len(m.kids) : m.kids[i] \in Node
      BY <2>1, ElementOfSeq
    <2>3. Held(FlattenSeq([i \in DOMAIN m.kids |-> m.kids[i].data])) \in Flat
      <3>1. \A i \in 1..Len(m.kids) : m.kids[i].data \in Seq(Value)
        BY <2>2, KidsType
      <3>2. [i \in DOMAIN m.kids |-> m.kids[i].data] \in Seq(Seq(Value))
        BY <2>1, <3>1
      <3> QED
        BY <3>2, FlattenType, HeldType
    <2>4. FlattenSeq([i \in DOMAIN m.kids |-> g[m.kids[i]]]) \in Flat
      <3>1. \A i \in 1..Len(m.kids) : g[m.kids[i]] \in Flat
        BY <2>2
      <3>2. [i \in DOMAIN m.kids |-> g[m.kids[i]]] \in Seq(Flat)
        BY <2>1, <3>1
      <3> QED
        BY <3>2, FlattenType DEF Flat
    <2>5. Held(m.data) \in Flat
      BY <2>1, HeldType
    <2> QED
      BY <2>3, <2>4, <2>5
  <1>2. ASSUME NEW g \in [Node -> Flat]
        PROVE  G[g] = Of(g) /\ Of(g) \in [Node -> Flat]
    <2>1. \A m \in Node : Under(m.key, Inner(g, m)) \in Flat
      <3> SUFFICES ASSUME NEW m \in Node PROVE Under(m.key, Inner(g, m)) \in Flat
        OBVIOUS
      <3>1. Inner(g, m) \in Flat
        BY <1>1
      <3>2. m.key \in Seq(Names)
        BY KidsType
      <3> HIDE DEF Inner
      <3> QED
        BY <3>1, <3>2, UnderType
    <2> HIDE DEF Inner
    <2> QED
      BY <2>1
  <1>3. G \in [[Node -> Flat] -> [Node -> Flat]]
    <2> HIDE DEF Of
    <2> QED
      BY <1>2
  <1>4. Local(G, Flat)
    <2>1. ASSUME NEW g \in [Node -> Flat], NEW h \in [Node -> Flat], NEW m \in Node,
                 \A i \in DOMAIN m.kids : g[m.kids[i]] = h[m.kids[i]]
          PROVE  G[g][m] = G[h][m]
      <3>1. [i \in DOMAIN m.kids |-> g[m.kids[i]]] = [i \in DOMAIN m.kids |-> h[m.kids[i]]]
        BY <2>1
      <3>2. Inner(g, m) = Inner(h, m)
        BY <3>1, Zenon
      <3>3. Of(g)[m] = Under(m.key, Inner(g, m)) /\ Of(h)[m] = Under(m.key, Inner(h, m))
        BY Zenon
      <3> HIDE DEF Of, Inner, G
      <3> QED
        BY <1>2, <3>2, <3>3
    <2> HIDE DEF G
    <2> QED
      BY <2>1, Zenon DEF Local
  <1>5. PICK f \in [Node -> Flat] : f = G[f]
    <2>1. <<>> \in Flat
      BY EmptySeq DEF Flat
    <2> HIDE DEF G
    <2> QED
      BY <1>3, <1>4, <2>1, TreeRecursion
  <1>6. \E g : g = Of(g)
    <2> HIDE DEF G, Of
    <2> QED
      BY <1>2, <1>5
  <1>7. Flatten = CHOOSE g : g = Of(g)
    BY Zenon DEF Flatten
  <1>8. Flatten = Of(Flatten)
    <2> HIDE DEF Of
    <2> QED
      BY <1>6, <1>7, Zenon
  <1>9. ASSUME NEW m \in Node
        PROVE  Flatten[m] = Under(m.key, Inner(Flatten, m))
    <2>1. Of(Flatten)[m] = Under(m.key, Inner(Flatten, m))
      BY Zenon
    <2> HIDE DEF Of, Inner
    <2> QED
      BY <1>8, <2>1, Zenon
  <1>10. Flatten[n] \in Flat
    <2> DEFINE Bad == {j \in Nat : \E m \in Node : Height[m] = j /\ Flatten[m] \notin Flat}
    <2> SUFFICES ASSUME Flatten[n] \notin Flat PROVE FALSE
      OBVIOUS
    <2>1. Bad # {} /\ Bad \subseteq Nat
      <3>1. Height[n] \in Nat
        BY NodeHeight
      <3> QED
        BY <3>1
    <2>2. PICK j \in Bad : \A i \in Bad : j <= i
      <3> HIDE DEF Bad
      <3> QED
        BY <2>1, NatMin
    <2>3. PICK m \in Node : Height[m] = j /\ Flatten[m] \notin Flat
      BY <2>2
    <2>4. \A i \in DOMAIN m.kids : Flatten[m.kids[i]] \in Flat
      <3> SUFFICES ASSUME NEW i \in DOMAIN m.kids, Flatten[m.kids[i]] \notin Flat PROVE FALSE
        OBVIOUS
      <3>1. m.kids[i] \in Node /\ Height[m.kids[i]] \in Nat /\ Height[m.kids[i]] < j
        BY <2>3, NodeHeight
      <3>2. Height[m.kids[i]] \in Bad
        BY <3>1
      <3> QED
        BY <2>2, <3>1, <3>2
    <2> DEFINE g == [k \in Node |-> IF Flatten[k] \in Flat THEN Flatten[k] ELSE <<>>]
    <2>5. g \in [Node -> Flat]
      BY EmptySeq DEF Flat
    <2>6. \A i \in DOMAIN m.kids : g[m.kids[i]] = Flatten[m.kids[i]]
      BY <2>4, NodeHeight
    <2>7. [i \in DOMAIN m.kids |-> g[m.kids[i]]] = [i \in DOMAIN m.kids |-> Flatten[m.kids[i]]]
      <3> HIDE DEF g
      <3> QED
        BY <2>6
    <2>8. Inner(g, m) = Inner(Flatten, m)
      <3> HIDE DEF g
      <3> QED
        BY <2>7, Zenon
    <2>9. Inner(Flatten, m) \in Flat /\ m.key \in Seq(Names)
      <3> HIDE DEF g, Inner
      <3> QED
        BY <1>1, <2>5, <2>8, KidsType
    <2> HIDE DEF Inner
    <2> QED
      BY <1>9, <2>3, <2>9, UnderType
  <1> HIDE DEF Inner
  <1>11. Flatten[n] = Under(n.key, Inner(Flatten, n))
    BY <1>9
  <1> QED
    BY <1>10, <1>11 DEF Inner

----------------------------------------------------------------------------
(* What each step does to the stack.                                       *)

\* The child that frame f is at.
At(f) == f.pt.kids[f.it]

\* The step changes the running frame to g, and no other.
Turn(g) ==
    /\ Len(stack') = Len(stack) /\ stack'[Len(stack)] = g
    /\ \A d \in 1..(Len(stack) - 1) : stack'[d] = stack[d]

\* g is at the same child of the same node as f.
SamePlace(g, f) == g.pt = f.pt /\ g.it = f.it

\* What IInv says of every frame on the stack.
LEMMA Frames ==
    ASSUME IInv, Running
    PROVE  /\ Len(stack) \in Nat \ {0} /\ stack \in Seq(FrameSet)
           /\ \A d \in 1..Len(stack) :
                 /\ stack[d] \in FrameSet /\ stack[d].pt \in Node
                 /\ Len(stack[d].pt.kids) \in Nat
                 /\ stack[d].it \in 1..(Len(stack[d].pt.kids) + 1)
                 /\ d # Len(stack) \/ pc = "unwind" => stack[d].it <= Len(stack[d].pt.kids)
                 /\ stack[d].it <= Len(stack[d].pt.kids) =>
                       At(stack[d]) \in Node /\ stack[d].it \in DOMAIN stack[d].pt.kids
                 /\ d # Len(stack) => stack[d + 1].pt = At(stack[d])
           /\ stack[1].pt = file /\ file \in Node
  <1>1. Len(stack) \in Nat \ {0} /\ stack \in Seq(FrameSet)
    BY TopType DEF IInv, Walking
  <1>2. ASSUME NEW d \in 1..Len(stack)
        PROVE  /\ stack[d] \in FrameSet /\ stack[d].pt \in Node
               /\ Len(stack[d].pt.kids) \in Nat
               /\ stack[d].it \in 1..(Len(stack[d].pt.kids) + 1)
               /\ d # Len(stack) \/ pc = "unwind" => stack[d].it <= Len(stack[d].pt.kids)
               /\ stack[d].it <= Len(stack[d].pt.kids) =>
                     At(stack[d]) \in Node /\ stack[d].it \in DOMAIN stack[d].pt.kids
               /\ d # Len(stack) => stack[d + 1].pt = At(stack[d])
    <2>1. stack[d] \in FrameSet
      BY <1>1, ElementOfSeq
    <2>2. stack[d].pt \in Node /\ stack[d].it \in Nat \ {0}
      BY <2>1 DEF FrameSet
    <2>3. stack[d].it <= Len(stack[d].pt.kids) + 1
      BY DEF IInv, Walking
    <2>4. stack[d].pt.kids \in Seq(Node) /\ Len(stack[d].pt.kids) \in Nat
          /\ DOMAIN stack[d].pt.kids = 1..Len(stack[d].pt.kids)
      BY <2>2, KidsType, LenProperties
    <2>5. stack[d].it <= Len(stack[d].pt.kids) =>
            At(stack[d]) \in Node /\ stack[d].it \in DOMAIN stack[d].pt.kids
      BY <2>2, <2>4, ElementOfSeq DEF At
    <2>6. d # Len(stack) => /\ stack[d].it <= Len(stack[d].pt.kids)
                            /\ stack[d + 1].pt = At(stack[d])
      <3>1. d # Len(stack) => d \in 1..(Len(stack) - 1)
        BY <1>1
      <3> QED
        BY <3>1 DEF IInv, Walking, At
    <2>7. d = Len(stack) /\ pc = "unwind" => stack[d].it <= Len(stack[d].pt.kids)
      BY DEF IInv, Walking, Top
    <2>8. stack[d].it \in 1..(Len(stack[d].pt.kids) + 1)
      BY <2>2, <2>3, <2>4
    <2> QED
      BY <2>1, <2>2, <2>4, <2>5, <2>6, <2>7, <2>8
  <1>3. stack[1].pt = file /\ file \in Node
    BY ConfigurationAssumption DEF IInv, Walking
  <1> QED
    BY <1>1, <1>2, <1>3

LEMMA BecomeTurn ==
    ASSUME IInv, Running, NEW g \in FrameSet, Become(g)
    PROVE  Turn(g)
  <1>1. Len(stack) \in 1..Len(stack) /\ stack \in Seq(FrameSet) /\ Len(stack) \in Nat
    BY Frames
  <1>2. stack' = [stack EXCEPT ![Len(stack)] = g]
    BY DEF Become
  <1>3. /\ Len(stack') = Len(stack)
        /\ \A d \in 1..Len(stack) : stack'[d] = IF d = Len(stack) THEN g ELSE stack[d]
    BY <1>1, <1>2, ExceptSeq
  <1> QED
    BY <1>1, <1>3 DEF Turn

\* Counting down takes one from the last counter, and leaves the others.
LEMMA CountDownLast ==
    ASSUME NEW num \in Seq(0..UINT_MAX), num # <<>>, num[Len(num)] > 0
    PROVE  /\ Len(num) \in Nat \ {0} /\ Last(num) = num[Len(num)] /\ num[Len(num)] \in Nat
           /\ Len(CountDown(num)) = Len(num) /\ CountDown(num) # <<>>
           /\ \A i \in 1..(Len(num) - 1) : CountDown(num)[i] = num[i]
           /\ CountDown(num)[Len(num)] = num[Len(num)] - 1
           /\ Last(CountDown(num)) = num[Len(num)] - 1
  <1>1. Len(num) \in Nat \ {0} /\ UINT_MAX \in Nat
    BY EmptySeq, ConfigurationAssumption
  <1>2. num[Len(num)] \in 1..UINT_MAX
    <2>1. num[Len(num)] \in 0..UINT_MAX
      BY <1>1, ElementOfSeq
    <2> QED
      BY <2>1
  <1>3. Minus1(num[Len(num)]) = num[Len(num)] - 1 /\ num[Len(num)] - 1 \in 0..UINT_MAX
    BY <1>1, <1>2 DEF Minus1
  <1>4. CountDown(num) = [num EXCEPT ![Len(num)] = num[Len(num)] - 1]
    BY <1>3 DEF CountDown
  <1>5. /\ Len(CountDown(num)) = Len(num) /\ CountDown(num) \in Seq(0..UINT_MAX)
        /\ \A i \in 1..Len(num) : CountDown(num)[i] = IF i = Len(num) THEN num[Len(num)] - 1
                                                      ELSE num[i]
    BY <1>1, <1>3, <1>4, ExceptSeq
  <1>6. CountDown(num) # <<>>
    BY <1>1, <1>5, EmptySeq
  <1> QED
    BY <1>1, <1>2, <1>5, <1>6 DEF Last

\* The counter of a frame in the loop of mapProperties is positive ...
LEMMA VisitCounter ==
    ASSUME IInv, Visiting
    PROVE  /\ Top = stack[Len(stack)] /\ Child = At(Top) /\ Running /\ Top \in FrameSet
           /\ Top.it <= Len(Top.pt.kids) /\ Child \in Node
           /\ Top.num \in Seq(0..UINT_MAX) /\ Top.kp \in Seq(Seq(Names)) /\ Top.vp \in Seq(Value)
           /\ Top.num # <<>> => Top.num[Len(Top.num)] > 0 /\ Len(Top.num) \in Nat \ {0}
  <1>1. /\ Top \in FrameSet /\ Positive(Top, TRUE) /\ Child \in Node /\ Running
        /\ Top.it <= Len(Top.pt.kids)
    BY VisitingFrame
  <1>2. Top.num \in Seq(0..UINT_MAX) /\ Top.kp \in Seq(Seq(Names)) /\ Top.vp \in Seq(Value)
    BY <1>1 DEF FrameSet
  <1>3. Top.num # <<>> => Len(Top.num) \in Nat \ {0}
    BY <1>2, EmptySeq
  <1>4. Top.num # <<>> => Top.num[Len(Top.num)] > 0
    BY <1>1, <1>3 DEF Positive
  <1> QED
    BY <1>1, <1>2, <1>3, <1>4 DEF Top, Child, At

\* What the four visits do to the running frame.
LEMMA SectionTurn ==
    ASSUME IInv, VisitSection
    PROVE  /\ ~IsLeaf(Child)
           /\ \E g \in FrameSet :
                 /\ Turn(g) /\ SamePlace(g, Top)
                 /\ g.num = Append(Top.num, Len(Child.kids))
                 /\ g.kp = (IF Child.key = <<>> THEN Top.kp ELSE Append(Top.kp, Child.key))
                 /\ g.vp = Top.vp
  <1> DEFINE f == [Top EXCEPT !.num = Append(@, Len(Child.kids)),
                              !.kp = IF Child.key = <<>> THEN @ ELSE Append(@, Child.key),
                              !.vp = @ \o Child.data]
             kp == IF Child.key = <<>> THEN Top.kp ELSE Append(Top.kp, Child.key)
             num == Append(Top.num, Len(Child.kids))
  <1>1. Visiting /\ Len(Child.kids) > 0 /\ Become(f)
    BY DEF VisitSection
  <1>2. /\ Top \in FrameSet /\ Running /\ Child \in Node /\ Top.num \in Seq(0..UINT_MAX)
        /\ Top.kp \in Seq(Seq(Names)) /\ Top.vp \in Seq(Value)
    BY <1>1, VisitCounter
  <1>3. ~IsLeaf(Child) /\ Child.data = <<>>
    <2>1. Child.kids # <<>>
      BY <1>1, EmptySeq
    <2> QED
      BY <1>2, <2>1, ConfigurationAssumption DEF IsLeaf
  <1>4. kp \in Seq(Seq(Names)) /\ num \in Seq(0..UINT_MAX)
    <2>1. Child.key \in Seq(Names) /\ Len(Child.kids) \in 0..UINT_MAX
      BY <1>2, KidsType
    <2> QED
      BY <1>2, <2>1, AppendProperties
  <1>5. Top.vp \o Child.data = Top.vp
    BY <1>2, <1>3, ConcatEmptySeq
  <1>6. f = [pt |-> Top.pt, it |-> Top.it, kp |-> kp, vp |-> Top.vp, num |-> num,
             props |-> Top.props]
    <2>1. f = [Top EXCEPT !.num = num, !.kp = kp, !.vp = Top.vp]
      <3>1. CASE Child.key = <<>>
        BY <1>2, <1>5, <3>1 DEF FrameSet
      <3>2. CASE Child.key # <<>>
        BY <1>2, <1>5, <3>2 DEF FrameSet
      <3> QED
        BY <3>1, <3>2
    <2> HIDE DEF num, kp, f
    <2> QED
      BY <1>2, <2>1 DEF FrameSet
  <1> HIDE DEF f, kp, num
  <1>7. f \in FrameSet /\ SamePlace(f, Top) /\ f.num = num /\ f.kp = kp /\ f.vp = Top.vp
    BY <1>2, <1>4, <1>6 DEF FrameSet, SamePlace
  <1>8. Turn(f)
    BY <1>1, <1>2, <1>7, BecomeTurn
  <1> QED
    BY <1>3, <1>7, <1>8 DEF kp, num

LEMMA InsertedTurn ==
    ASSUME IInv, Visiting, NEW kp, NEW vp, Become(Inserted(Top, kp, vp))
    PROVE  \E g \in FrameSet : /\ Turn(g) /\ SamePlace(g, Top)
                               /\ g.num = CountDown(Top.num) /\ g.kp = Top.kp /\ g.vp = <<>>
  <1> DEFINE f == Inserted(Top, kp, vp)
  <1>1. Top \in FrameSet /\ Positive(Top, TRUE) /\ Top.props = NoProps /\ Running
    BY VisitingFrame
  <1>2. f \in FrameSet /\ SamePlace(f, Top)
    BY <1>1, InsertedFrame DEF SamePlace
  <1>3. f = [Top EXCEPT !.num = CountDown(@), !.vp = <<>>, !.props = PropsAfterInsert(kp, vp, @)]
    BY DEF Inserted
  <1>4. f.num = CountDown(Top.num) /\ f.kp = Top.kp /\ f.vp = <<>>
    <2> HIDE DEF f
    <2> QED
      BY <1>1, <1>3 DEF FrameSet
  <1> HIDE DEF f
  <1>5. Turn(f)
    BY <1>1, <1>2, BecomeTurn DEF f
  <1> QED
    BY <1>2, <1>4, <1>5

LEMMA ElementTurn ==
    ASSUME IInv, VisitElement
    PROVE  \E g \in FrameSet : /\ Turn(g) /\ SamePlace(g, Top)
                               /\ g.num = CountDown(Top.num) /\ g.kp = Top.kp
                               /\ g.vp = Top.vp \o Child.data
  <1> DEFINE vp == Top.vp \o Child.data
             f == [Top EXCEPT !.num = CountDown(@), !.vp = @ \o Child.data]
  <1>1. Visiting /\ Become(f)
    BY DEF VisitElement
  <1>2. Top \in FrameSet /\ Positive(Top, TRUE) /\ Running /\ vp \in Seq(Value)
    BY <1>1, VisitingFrame
  <1>3. f = [Top EXCEPT !.num = CountDown(@), !.vp = vp]
    BY <1>2 DEF FrameSet
  <1> HIDE DEF f, vp
  <1>4. f \in FrameSet /\ SamePlace(f, Top)
    BY <1>2, <1>3, CountedFrame DEF SamePlace
  <1>5. f.num = CountDown(Top.num) /\ f.kp = Top.kp /\ f.vp = vp
    BY <1>2, <1>3 DEF FrameSet
  <1>6. Turn(f)
    BY <1>1, <1>2, <1>4, BecomeTurn
  <1> QED
    BY <1>4, <1>5, <1>6 DEF vp

\* What unwinding one section does.
LEMMA UnwindTurn ==
    ASSUME IInv, Unwind, Top.kp # <<>>
    PROVE  /\ pc' = "unwind" /\ Top.num # <<>> /\ Top.num[Len(Top.num)] = 0
           /\ \E g \in FrameSet : /\ Turn(g) /\ SamePlace(g, Top)
                                  /\ g.num = CountDown(Front(Top.num)) /\ g.kp = Front(Top.kp)
                                  /\ g.vp = Top.vp
           /\ \A i \in 1..(Len(Top.num) - 1) : Top.num[i] > 0
  <1> DEFINE f == [Top EXCEPT !.num = CountDown(Front(@)), !.kp = Front(@)]
             num == Front(Top.num)
  <1>1. Running /\ Top \in FrameSet /\ Len(stack) \in 1..Len(stack)
    BY TopType DEF IInv, Unwind, Running
  <1>2. Become(f) /\ pc' = "unwind" /\ Top.num # <<>> /\ Top.num[Len(Top.num)] = 0
    BY DEF Unwind, SectionComplete, Last
  <1>3. Top.num \in Seq(0..UINT_MAX) /\ Top.kp \in Seq(Seq(Names))
    BY <1>1 DEF FrameSet
  <1>4. Len(Top.num) \in Nat \ {0}
    BY <1>2, <1>3, EmptySeq
  <1>5. \A i \in 1..(Len(Top.num) - 1) : Top.num[i] > 0
    <2>1. Positive(stack[Len(stack)], pc = "visit" \/ Len(stack) # Len(stack))
      BY <1>1 DEF IInv, Walking
    <2>2. Positive(Top, FALSE)
      BY <2>1 DEF Positive, Top, Unwind
    <2> QED
      BY <1>4, <2>2 DEF Positive
  <1>6. /\ num \in Seq(0..UINT_MAX) /\ Len(num) = Len(Top.num) - 1
        /\ \A i \in 1..(Len(Top.num) - 1) : num[i] = Top.num[i]
    BY <1>2, <1>3, FrontType
  <1>7. CountDown(num) \in Seq(0..UINT_MAX)
    <2> HIDE DEF num
    <2>1. \A i \in 1..Len(num) : num[i] > 0
      BY <1>5, <1>6
    <2> QED
      BY <1>6, <2>1, CountDownType
  <1>8. Front(Top.kp) \in Seq(Seq(Names))
    BY <1>3, FrontType
  <1>9. f = [pt |-> Top.pt, it |-> Top.it, kp |-> Front(Top.kp), vp |-> Top.vp,
             num |-> CountDown(num), props |-> Top.props]
    <2>1. f = [Top EXCEPT !.num = CountDown(num), !.kp = Front(Top.kp)]
      BY <1>1 DEF FrameSet
    <2> HIDE DEF f, num
    <2> QED
      BY <1>1, <2>1 DEF FrameSet
  <1> HIDE DEF f, num
  <1>10. /\ f \in FrameSet /\ SamePlace(f, Top) /\ f.num = CountDown(num)
         /\ f.kp = Front(Top.kp) /\ f.vp = Top.vp
    BY <1>1, <1>7, <1>8, <1>9 DEF FrameSet, SamePlace
  <1>11. Turn(f)
    BY <1>1, <1>2, <1>10, BecomeTurn
  <1> QED
    BY <1>2, <1>5, <1>10, <1>11 DEF num

\* What the call for a child and its return do to the stack.
LEMMA DescendPush ==
    ASSUME IInv, Descend
    PROVE  /\ Len(stack') = Len(stack) + 1
           /\ \A d \in 1..Len(stack) : stack'[d] = stack[d]
           /\ \E g \in FrameSet :
                 /\ stack'[Len(stack) + 1] = g /\ g.pt = Child /\ g.it = 1
                 /\ g.kp = Top.kp /\ g.vp = Top.vp /\ g.num = Top.num
  <1> DEFINE f == Frame(Child, Top.kp, Top.vp, Top.num, Top.props)
  <1>1. Running /\ Top.it <= Len(Top.pt.kids) /\ Top \in FrameSet /\ Child \in Node
        /\ stack \in Seq(FrameSet)
    BY TopType DEF IInv, Walking, Descend, Running
  <1>2. /\ f \in FrameSet /\ f.pt = Child /\ f.it = 1
        /\ f.kp = Top.kp /\ f.vp = Top.vp /\ f.num = Top.num
    BY <1>1 DEF Frame, FrameSet
  <1>3. stack' = Append(stack, f)
    BY DEF Descend
  <1> HIDE DEF f
  <1>4. /\ Len(stack') = Len(stack) + 1 /\ stack'[Len(stack) + 1] = f
        /\ \A d \in 1..Len(stack) : stack'[d] = stack[d]
    BY <1>1, <1>2, <1>3, AppendProperties
  <1> QED
    BY <1>2, <1>4

LEMMA ReturnPop ==
    ASSUME IInv, Return
    PROVE  /\ Len(stack) - 1 \in Nat \ {0} /\ Len(stack') = Len(stack) - 1
           /\ Top.it = Len(Top.pt.kids) + 1
           /\ \A d \in 1..(Len(stack) - 2) : stack'[d] = stack[d]
           /\ \E g \in FrameSet :
                 /\ stack'[Len(stack) - 1] = g
                 /\ g.pt = stack[Len(stack) - 1].pt /\ g.it = stack[Len(stack) - 1].it + 1
                 /\ g.kp = stack[Len(stack) - 1].kp /\ g.vp = stack[Len(stack) - 1].vp
                 /\ g.num = stack[Len(stack) - 1].num
  <1> DEFINE n == Len(stack) - 1
             c == stack[n]
             f == [c EXCEPT !.it = @ + 1, !.props = Returned(Top.props, c.props).props]
  <1>1. Running /\ n \in Nat \ {0} /\ Len(stack) = n + 1 /\ stack \in Seq(FrameSet)
    BY TopType DEF IInv, Walking, Return, Running
  <1>2. c \in FrameSet /\ Top \in FrameSet /\ Top.it = Len(Top.pt.kids) + 1
    <2>1. n \in 1..Len(stack) /\ Len(stack) \in 1..Len(stack)
      BY <1>1
    <2>2. Top.it > Len(Top.pt.kids)
      BY DEF Return
    <2>3. c \in FrameSet /\ Top \in FrameSet
      BY <1>1, <2>1, Frames, Zenon DEF Top
    <2>4. Len(Top.pt.kids) \in Nat /\ Top.it \in 1..(Len(Top.pt.kids) + 1)
      BY <1>1, <2>1, Frames, Zenon DEF Top
    <2> DEFINE len == Len(Top.pt.kids)
               it == Top.it
    <2>5. len \in Nat /\ it \in 1..(len + 1) /\ it > len
      BY <2>2, <2>4
    <2> HIDE DEF len, it
    <2>6. it = len + 1
      BY <2>5
    <2> QED
      BY <2>3, <2>6 DEF len, it
  <1>3. stack' = [Front(stack) EXCEPT ![n] = f]
    BY DEF Return, Advanced
  <1>4. f = [pt |-> c.pt, it |-> c.it + 1, kp |-> c.kp, vp |-> c.vp, num |-> c.num,
             props |-> c.props]
    <2> HIDE DEF c
    <2>1. c = [pt |-> c.pt, it |-> c.it, kp |-> c.kp, vp |-> c.vp, num |-> c.num,
               props |-> c.props]
      BY <1>2 DEF FrameSet
    <2>2. f = [c EXCEPT !.it = c.it + 1, !.props = c.props]
      BY <1>2, <2>1 DEF Returned
    <2> HIDE DEF f
    <2> QED
      BY <1>2, <2>1, <2>2
  <1> HIDE DEF f, c
  <1>5. /\ f \in FrameSet /\ f.pt = c.pt /\ f.it = c.it + 1
        /\ f.kp = c.kp /\ f.vp = c.vp /\ f.num = c.num
    BY <1>2, <1>4 DEF FrameSet
  <1> HIDE DEF n
  <1>6. /\ Len(stack') = n
        /\ \A d \in 1..n : stack'[d] = IF d = n THEN f ELSE stack[d]
    <2>1. stack # <<>>
      BY <1>1, EmptySeq
    <2>2. /\ Front(stack) \in Seq(FrameSet) /\ Len(Front(stack)) = Len(stack) - 1
          /\ \A d \in 1..(Len(stack) - 1) : Front(stack)[d] = stack[d]
      BY <1>1, <2>1, FrontType
    <2>3. Len(Front(stack)) = n /\ Len(stack) - 1 = n /\ n \in 1..n
      BY <1>1, <2>2
    <2>4. /\ Len(stack') = n
          /\ \A d \in 1..n : stack'[d] = IF d = n THEN f ELSE Front(stack)[d]
      BY <1>3, <1>5, <2>2, <2>3, ExceptSeq
    <2> QED
      BY <2>2, <2>3, <2>4
  <1>7. Len(stack) - 1 = n /\ Len(stack) - 2 = n - 1
    BY <1>1
  <1>8. stack'[n] = f /\ \A d \in 1..(n - 1) : stack'[d] = stack[d]
    BY <1>1, <1>6
  <1>9. c = stack[Len(stack) - 1]
    BY <1>7 DEF c
  <1> QED
    BY <1>1, <1>2, <1>5, <1>6, <1>7, <1>8, <1>9

\* How many children the walk of frame f has yet to visit.
Left(f, visits) == Len(f.pt.kids) - f.it + (IF visits THEN 1 ELSE 0)

\* A counter of f lasts for r more children, whatever is unwound on the way.
Enough(f, r) == r = 0 \/ \E p \in 1..Len(f.num) : f.num[p] >= r + (Len(f.num) - p)

\* The number of the children of the section that f is at is the last it counted.
Pushed(f) == f.num # <<>> /\ Last(f.num) = Len(At(f).kids)

\* A frame of the walk of a plain file whose nodes are in all.
Kept(f, root, visits, all) ==
    /\ Nodes[f.pt] \subseteq all
    /\ Len(f.kp) = Len(f.num)
    /\ ~root => Enough(f, Left(f, visits))

\* The walk of a plain file: num's buffer was never left, and every frame is kept.
PlainWalk ==
    IsPlain(file) =>
        /\ ~wild /\ pc # "crashed"
        /\ Running => \A d \in 1..Len(stack) :
                         Kept(stack[d], d = 1, pc = "visit" /\ d = Len(stack), Nodes[file])
        /\ pc = "unwind" /\ ~IsLeaf(At(Top)) => Pushed(Top)

----------------------------------------------------------------------------
(* A counter that lasts, and what the walk does to it.                     *)

LEMMA CounterType ==
    ASSUME NEW num \in Seq(0..UINT_MAX), NEW p \in 1..Len(num)
    PROVE  num[p] \in Nat
  BY ElementOfSeq, ConfigurationAssumption

LEMMA EnoughCounts ==
    ASSUME NEW f \in FrameSet, NEW r \in Nat, Enough(f, r), r > 0
    PROVE  f.num # <<>> /\ Len(f.num) \in Nat \ {0}
  <1>1. PICK p \in 1..Len(f.num) : f.num[p] >= r + (Len(f.num) - p)
    BY DEF Enough
  <1>2. f.num \in Seq(0..UINT_MAX)
    BY DEF FrameSet
  <1>3. Len(f.num) \in Nat /\ (f.num = <<>> => Len(f.num) = 0)
    BY <1>2, EmptySeq, LenProperties
  <1> QED
    BY <1>1, <1>3

LEMMA EnoughForChild ==
    ASSUME NEW f \in FrameSet, NEW g \in FrameSet, NEW r \in Nat, Enough(f, r + 1),
           f.num[Len(f.num)] > 0, g.num = CountDown(f.num)
    PROVE  Enough(g, r)
  <1>1. f.num # <<>> /\ Len(f.num) \in Nat \ {0} /\ f.num \in Seq(0..UINT_MAX)
    BY EnoughCounts DEF FrameSet
  <1> DEFINE n == Len(f.num)
  <1>2. PICK p \in 1..n : f.num[p] >= (r + 1) + (n - p)
    <2>1. r + 1 # 0
      OBVIOUS
    <2> QED
      BY <2>1, Zenon DEF Enough
  <1>3. /\ Len(g.num) = n /\ \A i \in 1..(n - 1) : g.num[i] = f.num[i]
        /\ g.num[n] = f.num[n] - 1 /\ f.num[n] \in Nat
    <2> DEFINE num == f.num
    <2>1. num \in Seq(0..UINT_MAX) /\ num # <<>> /\ num[Len(num)] > 0
      BY <1>1
    <2>2. g.num = CountDown(num) /\ Len(num) = n
      OBVIOUS
    <2> HIDE DEF num, n
    <2>3. /\ Len(CountDown(num)) = n /\ \A i \in 1..(n - 1) : CountDown(num)[i] = num[i]
          /\ CountDown(num)[n] = num[n] - 1 /\ num[n] \in Nat
      BY <2>1, <2>2, CountDownLast
    <2> QED
      BY <2>2, <2>3 DEF num
  <1>4. f.num[p] \in Nat
    BY <1>1, <1>2, CounterType, Zenon
  <1> HIDE DEF n
  <1>5. g.num[p] >= r + (n - p)
    <2>1. CASE p = n
      BY <1>2, <1>3, <1>4, <2>1
    <2>2. CASE p # n
      <3>1. p \in 1..(n - 1) /\ n \in Nat
        BY <1>1, <1>2, <2>2 DEF n
      <3> QED
        BY <1>2, <1>3, <1>4, <3>1
    <2> QED
      BY <2>1, <2>2
  <1> QED
    BY <1>2, <1>3, <1>5 DEF Enough

LEMMA EnoughForSection ==
    ASSUME NEW f \in FrameSet, NEW g \in FrameSet, NEW r \in Nat, Enough(f, r + 1),
           NEW k \in 0..UINT_MAX, g.num = Append(f.num, k)
    PROVE  Enough(g, r)
  <1>1. f.num \in Seq(0..UINT_MAX) /\ Len(f.num) \in Nat
    BY EnoughCounts DEF FrameSet
  <1> DEFINE n == Len(f.num)
  <1>2. PICK p \in 1..n : f.num[p] >= (r + 1) + (n - p)
    <2>1. r + 1 # 0
      OBVIOUS
    <2> QED
      BY <2>1, Zenon DEF Enough
  <1>3. Len(g.num) = n + 1 /\ \A i \in 1..n : g.num[i] = f.num[i]
    BY <1>1, AppendProperties
  <1>4. f.num[p] \in Nat
    BY <1>1, <1>2, CounterType, Zenon
  <1> HIDE DEF n
  <1>5. n \in Nat
    BY <1>1 DEF n
  <1>6. g.num[p] >= r + ((n + 1) - p) /\ p \in 1..(n + 1)
    BY <1>2, <1>3, <1>4, <1>5
  <1> QED
    BY <1>3, <1>6 DEF Enough

LEMMA EnoughUnwound ==
    ASSUME NEW f \in FrameSet, NEW g \in FrameSet, NEW r \in Nat, Enough(f, r),
           f.num # <<>>, f.num[Len(f.num)] = 0, \A i \in 1..(Len(f.num) - 1) : f.num[i] > 0,
           g.num = CountDown(Front(f.num))
    PROVE  Enough(g, r)
  <1> SUFFICES ASSUME r # 0 PROVE Enough(g, r)
    BY DEF Enough
  <1> DEFINE n == Len(f.num) - 1
             m == Front(f.num)
  <1>1. f.num \in Seq(0..UINT_MAX) /\ Len(f.num) \in Nat \ {0} /\ Len(f.num) = n + 1 /\ n \in Nat
    BY EmptySeq DEF FrameSet
  <1>2. PICK p \in 1..(n + 1) : f.num[p] >= r + ((n + 1) - p)
    BY <1>1 DEF Enough
  <1>3. p # n + 1
    BY <1>1, <1>2
  <1>4. p \in 1..n
    BY <1>1, <1>2, <1>3
  <1>5. m \in Seq(0..UINT_MAX) /\ Len(m) = n /\ \A i \in 1..n : m[i] = f.num[i]
    BY <1>1, FrontType
  <1> HIDE DEF n, m
  <1>6. m # <<>> /\ n \in 1..n
    BY <1>4, <1>5, EmptySeq
  <1>7. m[n] > 0
    <2>1. f.num[n] > 0
      BY <1>6 DEF n
    <2> QED
      BY <1>5, <1>6, <2>1
  <1>8. /\ Len(g.num) = n /\ \A i \in 1..(n - 1) : g.num[i] = m[i]
        /\ g.num[n] = m[n] - 1 /\ m[n] \in Nat
    <2>1. /\ Len(CountDown(m)) = n /\ \A i \in 1..(n - 1) : CountDown(m)[i] = m[i]
          /\ CountDown(m)[n] = m[n] - 1 /\ m[n] \in Nat
      BY <1>5, <1>6, <1>7, CountDownLast
    <2>2. g.num = CountDown(m)
      BY DEF m
    <2> QED
      BY <2>1, <2>2
  <1>9. m[p] \in Nat
    BY <1>4, <1>5, ElementOfSeq, ConfigurationAssumption
  <1>10. g.num[p] >= r + (n - p)
    <2>1. m[p] >= r + ((n + 1) - p)
      BY <1>2, <1>4, <1>5
    <2>2. CASE p = n
      BY <1>1, <1>8, <1>9, <2>1, <2>2
    <2>3. CASE p # n
      <3>1. p \in 1..(n - 1)
        BY <1>1, <1>4, <2>3
      <3> QED
        BY <1>1, <1>8, <1>9, <2>1, <3>1
    <2> QED
      BY <2>2, <2>3
  <1> QED
    BY <1>4, <1>8, <1>10 DEF Enough

----------------------------------------------------------------------------
(* The walk of a plain file.                                               *)

\* What is known of the running frame, and of the child it is at.
LEMMA PlainFrame ==
    ASSUME IInv, PlainWalk, IsPlain(file), Running, Top.it <= Len(Top.pt.kids)
    PROVE  /\ ~wild /\ pc # "crashed" /\ Top \in FrameSet /\ Top.pt \in Node
           /\ Len(stack) \in Nat \ {0} /\ Top = stack[Len(stack)]
           /\ Len(Top.kp) = Len(Top.num)
           /\ Nodes[Top.pt] \subseteq Nodes[file] /\ Nodes[At(Top)] \subseteq Nodes[file]
           /\ At(Top) \in Node /\ Child = At(Top)
           /\ Len(Top.pt.kids) - Top.it \in Nat
           /\ SectionsNamed(Top.pt)
           /\ IsLeaf(At(Top)) => Len(stack) # 1
           /\ At(Top).key = <<>> => IsLeaf(At(Top))
           /\ Len(stack) # 1 => Enough(Top, Left(Top, pc = "visit"))
  <1>1. /\ Top = stack[Len(stack)] /\ Len(stack) \in Nat \ {0} /\ Len(stack) \in 1..Len(stack)
        /\ Child = At(Top)
    BY Frames DEF Top, Child, At
  <1>2. /\ Top \in FrameSet /\ Top.pt \in Node /\ At(Top) \in Node
        /\ Top.it \in DOMAIN Top.pt.kids /\ Len(Top.pt.kids) - Top.it \in Nat
    BY <1>1, Frames
  <1>3. Kept(Top, Len(stack) = 1, pc = "visit" /\ Len(stack) = Len(stack), Nodes[file])
    BY <1>1 DEF PlainWalk
  <1>4. Nodes[Top.pt] \subseteq Nodes[file] /\ Len(Top.kp) = Len(Top.num)
    BY <1>3 DEF Kept
  <1>5. Top.pt \in Nodes[Top.pt] /\ Nodes[At(Top)] \subseteq Nodes[Top.pt]
    BY <1>2, NodesOfKid DEF At
  <1>6. SectionsNamed(Top.pt)
    BY <1>4, <1>5 DEF IsPlain
  <1>7. At(Top).key = <<>> => IsLeaf(At(Top))
    BY <1>2, <1>6 DEF SectionsNamed, At
  <1>8. IsLeaf(At(Top)) => Len(stack) # 1
    <2> SUFFICES ASSUME Len(stack) = 1 PROVE ~IsLeaf(At(Top))
      OBVIOUS
    <2>1. Top.pt = file
      BY <1>1, Frames
    <2> QED
      BY <1>2, <2>1 DEF IsPlain, At
  <1>9. Len(stack) # 1 => Enough(Top, Left(Top, pc = "visit"))
    BY <1>3 DEF Kept, Left
  <1>10. ~wild /\ pc # "crashed"
    BY DEF PlainWalk
  <1> QED
    BY <1>1, <1>2, <1>4, <1>5, <1>6, <1>7, <1>8, <1>9, <1>10

\* A frame below the running one does not visit.
LEMMA KeptBelow ==
    ASSUME IInv, PlainWalk, IsPlain(file), Running, NEW d \in 1..(Len(stack) - 1)
    PROVE  Kept(stack[d], d = 1, FALSE, Nodes[file])
  <1>1. d \in 1..Len(stack) /\ d # Len(stack)
    BY Frames
  <1>2. Kept(stack[d], d = 1, pc = "visit" /\ d = Len(stack), Nodes[file])
    BY <1>1 DEF PlainWalk
  <1> QED
    BY <1>1, <1>2 DEF Kept, Left

\* Of a step that changes the running frame, the new frame is all there is to look at.
LEMMA TurnPlain ==
    ASSUME IInv, PlainWalk, IsPlain(file), Running, Top.it <= Len(Top.pt.kids),
           file' = file, ~wild', pc' = "unwind",
           NEW g \in FrameSet, Turn(g), SamePlace(g, Top),
           Len(g.kp) = Len(g.num),
           Len(stack) # 1 => Enough(g, Left(g, FALSE)),
           ~IsLeaf(At(g)) => Pushed(g)
    PROVE  PlainWalk'
  <1> DEFINE n == Len(stack)
  <1>1. n \in Nat \ {0} /\ Nodes[Top.pt] \subseteq Nodes[file] /\ Top = stack[n]
    BY PlainFrame
  <1>2. Len(stack') = n /\ stack'[n] = g /\ \A d \in 1..(n - 1) : stack'[d] = stack[d]
    BY DEF Turn
  <1>3. Top' = g
    BY <1>2 DEF Top
  <1>4. g.pt = Top.pt
    BY DEF SamePlace
  <1>5. ASSUME NEW d \in 1..n
        PROVE  Kept(stack'[d], d = 1, FALSE, Nodes[file])
    <2>1. CASE d = n
      <3>1. Kept(g, n = 1, FALSE, Nodes[file])
        BY <1>1, <1>4 DEF Kept
      <3> QED
        BY <1>2, <2>1, <3>1
    <2>2. CASE d # n
      <3>1. d \in 1..(n - 1)
        BY <1>1, <2>2
      <3>2. Kept(stack[d], d = 1, FALSE, Nodes[file])
        BY <3>1, KeptBelow
      <3> QED
        BY <1>2, <3>1, <3>2
    <2> QED
      BY <2>1, <2>2
  <1>6. \A d \in 1..n : Kept(stack'[d], d = 1, pc' = "visit" /\ d = Len(stack'), Nodes[file'])
    BY <1>5 DEF Kept, Left
  <1> QED
    BY <1>2, <1>3, <1>6 DEF PlainWalk, Pushed, At

----------------------------------------------------------------------------
(* What each step leaves of the walk of a plain file.                      *)

LEMMA PlainSection ==
    ASSUME IInv, PlainWalk, IsPlain(file), VisitSection
    PROVE  PlainWalk'
  <1>1. Visiting /\ Running /\ pc' = "unwind" /\ file' = file /\ wild' = wild /\ pc = "visit"
    BY DEF VisitSection, Visiting, Running
  <1>2. Top.it <= Len(Top.pt.kids) /\ Top \in FrameSet /\ Top.kp \in Seq(Seq(Names))
        /\ Top.num \in Seq(0..UINT_MAX)
    BY <1>1, VisitCounter
  <1>3. /\ ~wild /\ Child = At(Top) /\ At(Top) \in Node /\ Len(Top.kp) = Len(Top.num)
        /\ Len(Top.pt.kids) - Top.it \in Nat
        /\ At(Top).key = <<>> => IsLeaf(At(Top))
        /\ Len(stack) # 1 => Enough(Top, Left(Top, TRUE))
    BY <1>1, <1>2, PlainFrame
  <1>4. ~IsLeaf(Child)
    BY SectionTurn
  <1>5. PICK g \in FrameSet :
            /\ Turn(g) /\ SamePlace(g, Top)
            /\ g.num = Append(Top.num, Len(Child.kids))
            /\ g.kp = (IF Child.key = <<>> THEN Top.kp ELSE Append(Top.kp, Child.key))
            /\ g.vp = Top.vp
    BY SectionTurn
  <1>6. Len(Child.kids) \in 0..UINT_MAX /\ Child.key \in Seq(Names)
    BY <1>3, KidsType
  <1>7. /\ Len(g.num) = Len(Top.num) + 1 /\ Len(g.kp) = Len(Top.kp) + 1
        /\ g.num[Len(Top.num) + 1] = Len(Child.kids)
    <2> DEFINE num == Top.num
               kids == Len(Child.kids)
    <2>1. g.kp = Append(Top.kp, Child.key) /\ g.num = Append(num, kids)
      BY <1>3, <1>4, <1>5
    <2>2. num \in Seq(0..UINT_MAX) /\ kids \in 0..UINT_MAX
      BY <1>2, <1>6
    <2>3. Len(Append(Top.kp, Child.key)) = Len(Top.kp) + 1
      BY <1>2, <1>6, AppendProperties
    <2> HIDE DEF num, kids
    <2>4. Len(Append(num, kids)) = Len(num) + 1 /\ Append(num, kids)[Len(num) + 1] = kids
      BY <2>2, AppendProperties
    <2> QED
      BY <2>1, <2>3, <2>4, Zenon DEF num, kids
  <1>8. Len(g.kp) = Len(g.num) /\ At(g) = At(Top)
    BY <1>3, <1>5, <1>7 DEF SamePlace, At
  <1>9. Pushed(g)
    <2> DEFINE num == g.num
    <2>1. num \in Seq(0..UINT_MAX) /\ Len(num) = Len(Top.num) + 1 /\ Len(Top.num) \in Nat
      BY <1>2, <1>7, LenProperties DEF FrameSet
    <2> HIDE DEF num
    <2>2. num # <<>>
      BY <2>1, EmptySeq
    <2>3. g.num # <<>>
      BY <2>2 DEF num
    <2> QED
      BY <1>3, <1>7, <1>8, <2>3 DEF Pushed, Last
  <1>10. ASSUME Len(stack) # 1
         PROVE  Enough(g, Left(g, FALSE))
    <2> DEFINE r == Len(Top.pt.kids) - Top.it
    <2>1. Left(Top, TRUE) = r + 1 /\ Left(g, FALSE) = r + 0 /\ r \in Nat
      BY <1>3, <1>5 DEF Left, SamePlace
    <2> HIDE DEF r
    <2>2. Left(g, FALSE) = r /\ Enough(Top, r + 1)
      <3>1. Enough(Top, Left(Top, TRUE))
        BY <1>3, <1>10
      <3>2. Left(Top, TRUE) = r + 1
        BY <2>1
      <3>3. Enough(Top, r + 1)
        BY <3>1, <3>2
      <3>4. r + 0 = r
        BY <2>1
      <3> QED
        BY <2>1, <3>3, <3>4, Zenon
    <2>3. Enough(g, r)
      BY <1>2, <1>5, <1>6, <2>1, <2>2, EnoughForSection
    <2> QED
      BY <2>2, <2>3
  <1> QED
    BY <1>1, <1>2, <1>3, <1>5, <1>8, <1>9, <1>10, TurnPlain

\* A child without children, whatever becomes of its value.
LEMMA PlainLeaf ==
    ASSUME IInv, PlainWalk, IsPlain(file), Visiting, IsLeaf(Child),
           NEW g \in FrameSet, Turn(g), SamePlace(g, Top),
           g.num = CountDown(Top.num), g.kp = Top.kp,
           wild' = (wild \/ Top.num = <<>>), file' = file,
           Top.kp # <<>> => pc' = "unwind"
    PROVE  PlainWalk'
  <1>1. Running /\ pc = "visit"
    BY DEF Visiting, Running
  <1>2. /\ Top.it <= Len(Top.pt.kids) /\ Top \in FrameSet /\ Top.kp \in Seq(Seq(Names))
        /\ Top.num \in Seq(0..UINT_MAX)
        /\ Top.num # <<>> => Top.num[Len(Top.num)] > 0 /\ Len(Top.num) \in Nat \ {0}
    BY VisitCounter
  <1>3. /\ ~wild /\ Child = At(Top) /\ Len(Top.kp) = Len(Top.num)
        /\ Len(Top.pt.kids) - Top.it \in Nat
        /\ Len(stack) # 1 /\ Enough(Top, Left(Top, TRUE))
    BY <1>1, <1>2, PlainFrame
  <1> DEFINE r == Len(Top.pt.kids) - Top.it
  <1>4. Left(Top, TRUE) = r + 1 /\ Left(g, FALSE) = r + 0 /\ r \in Nat
    BY <1>3 DEF Left, SamePlace
  <1> HIDE DEF r
  <1>5. Left(g, FALSE) = r /\ Enough(Top, r + 1) /\ r + 1 \in Nat /\ r + 1 > 0
    <2>1. Enough(Top, r + 1)
      <3>1. Enough(Top, Left(Top, TRUE))
        BY <1>3
      <3>2. Left(Top, TRUE) = r + 1
        BY <1>4
      <3> QED
        BY <3>1, <3>2
    <2>2. r + 0 = r /\ r + 1 \in Nat /\ r + 1 > 0
      BY <1>4
    <2> QED
      BY <1>4, <2>1, <2>2, Zenon
  <1>6. Top.num # <<>>
    BY <1>2, <1>5, EnoughCounts
  <1>7. Enough(g, r)
    BY <1>2, <1>4, <1>5, <1>6, EnoughForChild
  <1>8. Len(g.num) = Len(Top.num)
    BY <1>2, <1>6, CountDownLast
  <1>9. ~wild' /\ pc' = "unwind" /\ At(g) = At(Top)
    <2>1. Top.kp # <<>>
      <3>1. Top.kp = <<>> => Len(Top.kp) = 0
        BY EmptySeq
      <3> QED
        BY <1>2, <1>3, <1>6, <3>1
    <2> QED
      BY <1>3, <1>6, <2>1 DEF SamePlace, At
  <1>10. IsLeaf(At(g))
    BY <1>3, <1>9
  <1> QED
    BY <1>1, <1>2, <1>3, <1>5, <1>7, <1>8, <1>9, <1>10, TurnPlain

LEMMA PlainVisit ==
    ASSUME IInv, PlainWalk, IsPlain(file), VisitProperty \/ VisitElement \/ VisitLastElement
    PROVE  PlainWalk'
  <1>1. CASE VisitProperty
    <2>1. /\ Visiting /\ IsLeaf(Child) /\ wild' = (wild \/ Top.num = <<>>) /\ file' = file
          /\ pc' = "unwind"
          /\ Become(Inserted(Top, Append(Top.kp, Child.key), Top.vp \o Child.data))
      BY <1>1 DEF VisitProperty, IsLeaf
    <2>2. PICK g \in FrameSet : /\ Turn(g) /\ SamePlace(g, Top)
                                /\ g.num = CountDown(Top.num) /\ g.kp = Top.kp /\ g.vp = <<>>
      BY <2>1, InsertedTurn
    <2> QED
      BY <2>1, <2>2, PlainLeaf
  <1>2. CASE VisitElement
    <2>1. /\ Visiting /\ IsLeaf(Child) /\ wild' = (wild \/ Top.num = <<>>) /\ file' = file
          /\ pc' = "unwind"
      BY <1>2 DEF VisitElement, IsLeaf
    <2>2. PICK g \in FrameSet : /\ Turn(g) /\ SamePlace(g, Top)
                                /\ g.num = CountDown(Top.num) /\ g.kp = Top.kp
                                /\ g.vp = Top.vp \o Child.data
      BY <1>2, ElementTurn
    <2> QED
      BY <2>1, <2>2, PlainLeaf
  <1>3. CASE VisitLastElement
    <2>1. /\ Visiting /\ IsLeaf(Child) /\ wild' = (wild \/ Top.num = <<>>) /\ file' = file
          /\ Top.kp # <<>> => pc' = "unwind"
          /\ Become(Inserted(Top, Top.kp, Top.vp \o Child.data))
      BY <1>3 DEF VisitLastElement, IsLeaf
    <2>2. PICK g \in FrameSet : /\ Turn(g) /\ SamePlace(g, Top)
                                /\ g.num = CountDown(Top.num) /\ g.kp = Top.kp /\ g.vp = <<>>
      BY <2>1, InsertedTurn
    <2> QED
      BY <2>1, <2>2, PlainLeaf
  <1> QED
    BY <1>1, <1>2, <1>3

\* A section is only unwound when a child without children has been visited last.
LEMMA UnwindsAtLeaf ==
    ASSUME IInv, PlainWalk, IsPlain(file), Unwind
    PROVE  IsLeaf(At(Top))
  <1>1. pc = "unwind" /\ Running /\ Top.num # <<>> /\ Last(Top.num) = 0
    BY DEF Unwind, SectionComplete, Running
  <1>2. Top.it <= Len(Top.pt.kids)
    BY <1>1 DEF IInv, Walking
  <1>3. At(Top) \in Node
    BY <1>1, <1>2, PlainFrame
  <1>4. At(Top).kids \in Seq(Node) /\ (Len(At(Top).kids) = 0 => At(Top).kids = <<>>)
    BY <1>3, KidsType, EmptySeq
  <1> QED
    BY <1>1, <1>4 DEF PlainWalk, Pushed, IsLeaf

LEMMA PlainUnwind ==
    ASSUME IInv, PlainWalk, IsPlain(file), Unwind
    PROVE  PlainWalk'
  <1>1. pc = "unwind" /\ Running /\ Top.num # <<>> /\ file' = file /\ wild' = wild
    BY DEF Unwind, SectionComplete, Running
  <1>2. Top.it <= Len(Top.pt.kids) /\ Top \in FrameSet
    BY <1>1, TopType DEF IInv, Walking
  <1>3. Top.num \in Seq(0..UINT_MAX) /\ Top.kp \in Seq(Seq(Names))
    BY <1>2 DEF FrameSet
  <1>4. /\ ~wild /\ Len(Top.kp) = Len(Top.num)
        /\ Len(Top.pt.kids) - Top.it \in Nat
        /\ Len(stack) # 1 /\ Enough(Top, Left(Top, FALSE))
    BY <1>1, <1>2, PlainFrame, UnwindsAtLeaf
  <1>5. Top.kp # <<>> /\ Len(Top.num) \in Nat \ {0}
    <2>1. Len(Top.num) \in Nat \ {0} /\ (Top.kp = <<>> => Len(Top.kp) = 0)
      BY <1>1, <1>3, EmptySeq
    <2> QED
      BY <1>4, <2>1
  <1>6. /\ pc' = "unwind" /\ Top.num[Len(Top.num)] = 0
        /\ \A i \in 1..(Len(Top.num) - 1) : Top.num[i] > 0
    BY <1>5, UnwindTurn
  <1>7. PICK g \in FrameSet : /\ Turn(g) /\ SamePlace(g, Top)
                              /\ g.num = CountDown(Front(Top.num)) /\ g.kp = Front(Top.kp)
                              /\ g.vp = Top.vp
    BY <1>5, UnwindTurn
  <1>8. Left(g, FALSE) = Left(Top, FALSE) /\ Left(Top, FALSE) \in Nat /\ At(g) = At(Top)
    BY <1>4, <1>7 DEF Left, SamePlace, At
  <1>9. Enough(g, Left(g, FALSE))
    BY <1>1, <1>2, <1>4, <1>6, <1>7, <1>8, EnoughUnwound
  <1>10. Len(g.num) = Len(Top.num) - 1
    <2>1. /\ Front(Top.num) \in Seq(0..UINT_MAX) /\ Len(Front(Top.num)) = Len(Top.num) - 1
          /\ \A i \in 1..(Len(Top.num) - 1) : Front(Top.num)[i] = Top.num[i]
      BY <1>1, <1>3, FrontType
    <2>2. \A i \in 1..Len(Front(Top.num)) : Front(Top.num)[i] > 0
      BY <1>6, <2>1
    <2> QED
      BY <1>7, <2>1, <2>2, CountDownType
  <1>11. Len(g.kp) = Len(Top.kp) - 1
    BY <1>3, <1>5, <1>7, FrontType
  <1>12. Len(g.kp) = Len(g.num) /\ IsLeaf(At(g)) /\ ~wild'
    BY <1>1, <1>4, <1>8, <1>10, <1>11, UnwindsAtLeaf
  <1> QED
    BY <1>1, <1>2, <1>6, <1>7, <1>9, <1>12, TurnPlain

LEMMA PlainDescend ==
    ASSUME IInv, PlainWalk, IsPlain(file), Descend
    PROVE  PlainWalk'
  <1> DEFINE n == Len(stack)
  <1>1. pc = "unwind" /\ Running /\ file' = file /\ wild' = wild /\ pc' = "visit"
    BY DEF Descend, Running
  <1>2. Top.it <= Len(Top.pt.kids)
    BY <1>1 DEF IInv, Walking
  <1>3. /\ ~wild /\ Top \in FrameSet /\ Top = stack[n] /\ n \in Nat \ {0} /\ Child = At(Top)
        /\ Len(Top.kp) = Len(Top.num) /\ At(Top) \in Node
        /\ Nodes[Top.pt] \subseteq Nodes[file] /\ Nodes[At(Top)] \subseteq Nodes[file]
        /\ Len(stack) # 1 => Enough(Top, Left(Top, FALSE))
    BY <1>1, <1>2, PlainFrame
  <1>4. Len(stack') = n + 1 /\ \A d \in 1..n : stack'[d] = stack[d]
    BY DescendPush
  <1>5. PICK g \in FrameSet : /\ stack'[n + 1] = g /\ g.pt = Child /\ g.it = 1
                              /\ g.kp = Top.kp /\ g.vp = Top.vp /\ g.num = Top.num
    BY DescendPush
  <1>6. Kept(g, FALSE, TRUE, Nodes[file])
    <2>1. Enough(g, Left(g, TRUE))
      <3> DEFINE k == Len(Child.kids)
      <3>1. k \in Nat /\ Child.kids \in Seq(Node)
        BY <1>3, KidsType
      <3>2. Left(g, TRUE) = k
        BY <1>5, <3>1 DEF Left
      <3>3. CASE IsLeaf(Child)
        BY <3>2, <3>3, EmptySeq DEF IsLeaf, Enough
      <3>4. CASE ~IsLeaf(Child)
        <4>1. Top.num # <<>> /\ Last(Top.num) = k
          BY <1>1, <1>3, <3>4 DEF PlainWalk, Pushed
        <4>2. Len(g.num) \in Nat \ {0} /\ g.num[Len(g.num)] = k
          <5>1. Top.num \in Seq(0..UINT_MAX)
            BY <1>3 DEF FrameSet
          <5>2. Len(Top.num) \in Nat \ {0}
            BY <4>1, <5>1, EmptySeq
          <5> QED
            BY <1>5, <4>1, <5>2 DEF Last
        <4> HIDE DEF k
        <4>3. g.num[Len(g.num)] >= k + (Len(g.num) - Len(g.num))
          BY <3>1, <4>2
        <4>4. Len(g.num) \in 1..Len(g.num)
          BY <4>2
        <4>5. Enough(g, k)
          BY <4>3, <4>4, Zenon DEF Enough
        <4> QED
          BY <3>2, <4>5, Zenon
      <3> QED
        BY <3>3, <3>4
    <2> QED
      BY <1>3, <1>5, <2>1 DEF Kept
  <1>7. ASSUME NEW d \in 1..n
        PROVE  Kept(stack'[d], d = 1, FALSE, Nodes[file])
    <2>1. CASE d = n
      BY <1>1, <1>3, <1>4, <2>1 DEF Kept
    <2>2. CASE d # n
      <3>1. d \in 1..(n - 1)
        BY <1>3, <2>2
      <3> QED
        BY <1>1, <1>4, <3>1, KeptBelow
    <2> QED
      BY <2>1, <2>2
  <1>8. ASSUME NEW d \in 1..(n + 1)
        PROVE  Kept(stack'[d], d = 1, d = n + 1, Nodes[file])
    <2>1. CASE d = n + 1
      BY <1>3, <1>5, <1>6, <2>1 DEF Kept
    <2>2. CASE d # n + 1
      <3>1. d \in 1..n
        BY <1>3, <2>2
      <3> QED
        BY <1>7, <2>2, <3>1 DEF Kept, Left
    <2> QED
      BY <2>1, <2>2
  <1>9. \A d \in 1..Len(stack') :
            Kept(stack'[d], d = 1, pc' = "visit" /\ d = Len(stack'), Nodes[file'])
    BY <1>1, <1>4, <1>8 DEF Kept, Left
  <1> QED
    BY <1>1, <1>3, <1>9 DEF PlainWalk

LEMMA PlainReturn ==
    ASSUME IInv, PlainWalk, IsPlain(file), Return
    PROVE  PlainWalk'
  <1> DEFINE n == Len(stack) - 1
  <1>1. pc = "visit" /\ Running /\ file' = file /\ wild' = wild /\ pc' = "visit"
    BY DEF Return, Running
  <1>2. /\ n \in Nat \ {0} /\ Len(stack) = n + 1 /\ Len(stack') = n
        /\ \A d \in 1..(n - 1) : stack'[d] = stack[d]
    <2>1. /\ Len(stack) - 1 \in Nat \ {0} /\ Len(stack') = Len(stack) - 1
          /\ \A d \in 1..(Len(stack) - 2) : stack'[d] = stack[d]
      BY ReturnPop
    <2>2. Len(stack) \in Nat
      BY <1>1, Frames
    <2>3. Len(stack) - 2 = n - 1 /\ Len(stack) = n + 1
      BY <2>2
    <2> QED
      BY <2>1, <2>3
  <1>3. PICK g \in FrameSet : /\ stack'[n] = g /\ g.pt = stack[n].pt /\ g.it = stack[n].it + 1
                              /\ g.kp = stack[n].kp /\ g.vp = stack[n].vp /\ g.num = stack[n].num
    BY ReturnPop
  <1> HIDE DEF n
  <1>4. \A d \in 1..n : Kept(stack[d], d = 1, FALSE, Nodes[file])
    <2>1. Len(stack) - 1 = n
      BY <1>2
    <2> QED
      BY <1>1, <2>1, KeptBelow
  <1>5. Kept(g, n = 1, TRUE, Nodes[file])
    <2>1. Kept(stack[n], n = 1, FALSE, Nodes[file])
      <3>1. n \in 1..n
        BY <1>2
      <3> QED
        BY <1>4, <3>1
    <2>2. Left(g, TRUE) = Left(stack[n], FALSE)
      <3>1. n \in 1..Len(stack)
        BY <1>2
      <3>2. stack[n].it \in Nat /\ Len(stack[n].pt.kids) \in Nat
        BY <1>1, <3>1, Frames
      <3> QED
        BY <1>3, <3>2 DEF Left
    <2> QED
      BY <1>3, <2>1, <2>2 DEF Kept, Enough
  <1>6. ASSUME NEW d \in 1..n
        PROVE  Kept(stack'[d], d = 1, d = n, Nodes[file])
    <2>1. CASE d = n
      BY <1>3, <1>5, <2>1 DEF Kept
    <2>2. CASE d # n
      <3>1. d \in 1..(n - 1)
        BY <1>2, <2>2
      <3> QED
        BY <1>2, <1>4, <2>2, <3>1 DEF Kept, Left
    <2> QED
      BY <2>1, <2>2
  <1>7. \A d \in 1..Len(stack') :
            Kept(stack'[d], d = 1, pc' = "visit" /\ d = Len(stack'), Nodes[file'])
    BY <1>1, <1>2, <1>6 DEF Kept, Left
  <1>8. ~wild
    BY DEF PlainWalk
  <1> QED
    BY <1>1, <1>7, <1>8 DEF PlainWalk

LEMMA PlainRest ==
    ASSUME IInv, PlainWalk, ReadFile \/ ReadDone \/ ReadNoFile \/ Crash \/ Lookup \/ UNCHANGED vars
    PROVE  PlainWalk'
  <1>1. CASE ReadFile
    <2>1. PICK f \in Files : file' = f /\ stack' = <<Frame(f, <<>>, <<>>, <<>>, NoProps)>>
      BY <1>1 DEF ReadFile
    <2> DEFINE r == Frame(f, <<>>, <<>>, <<>>, NoProps)
    <2>2. r.pt = f /\ r.kp = <<>> /\ r.num = <<>>
      BY DEF Frame
    <2> HIDE DEF r
    <2>3. Len(stack') = 1 /\ stack'[1] = r
      BY <2>1 DEF r
    <2>4. Kept(r, TRUE, TRUE, Nodes[file'])
      BY <2>1, <2>2 DEF Kept
    <2>5. \A d \in 1..Len(stack') :
              Kept(stack'[d], d = 1, pc' = "visit" /\ d = Len(stack'), Nodes[file'])
      BY <2>3, <2>4 DEF Kept
    <2>6. ~wild' /\ pc' = "visit"
      BY <1>1 DEF ReadFile, MayCall
    <2> QED
      BY <2>5, <2>6 DEF PlainWalk
  <1>2. CASE ReadDone
    BY <1>2 DEF ReadDone, PlainWalk, Running
  <1>3. CASE ReadNoFile
    BY <1>3 DEF ReadNoFile, MayCall, PlainWalk, Running
  <1>4. CASE Crash
    BY <1>4 DEF Crash, PlainWalk
  <1>5. CASE Lookup
    BY <1>5 DEF Lookup, getProperty, getPropertyVector, propertyExists, Answer, MayCall,
                PlainWalk, Running
  <1>6. CASE UNCHANGED vars
    BY <1>6 DEF vars, PlainWalk, Running, Top
  <1> QED
    BY <1>1, <1>2, <1>3, <1>4, <1>5, <1>6

LEMMA PlainNext == IInv /\ PlainWalk /\ [Next]_vars => PlainWalk'
  <1> SUFFICES ASSUME IInv, PlainWalk, [Next]_vars PROVE PlainWalk'
    OBVIOUS
  <1>1. CASE ReadFile \/ ReadDone \/ ReadNoFile \/ Crash \/ Lookup \/ UNCHANGED vars
    BY <1>1, PlainRest
  <1>2. CASE IsPlain(file)
    BY <1>1, <1>2, PlainSection, PlainVisit, PlainUnwind, PlainDescend, PlainReturn DEF Next, Walk
  <1>3. CASE ~IsPlain(file)
    <2>1. CASE VisitSection \/ VisitProperty \/ VisitElement \/ VisitLastElement
               \/ Unwind \/ Descend \/ Return
      <3>1. file' = file
        BY <2>1 DEF VisitSection, VisitProperty, VisitElement, VisitLastElement, Unwind, Descend,
                    Return
      <3> QED
        BY <1>3, <3>1 DEF PlainWalk
    <2> QED
      BY <1>1, <2>1 DEF Next, Walk
  <1> QED
    BY <1>2, <1>3

----------------------------------------------------------------------------
(* When the walk goes astray.                                              *)

\* A file that begins with a property: until the walk has left num's buffer, it is
\* still at that property.
FirstLeaf ==
    file.kids # <<>> /\ IsLeaf(file.kids[1]) /\ ~wild =>
        /\ result # "read"
        /\ Running => /\ pc = "visit" /\ Len(stack) = 1
                      /\ stack[1].it = 1 /\ stack[1].num = <<>>

LEMMA FirstLeafNext == IInv /\ FirstLeaf /\ [Next]_vars => FirstLeaf'
  <1> SUFFICES ASSUME IInv, FirstLeaf, [Next]_vars, file'.kids # <<>>, IsLeaf(file'.kids[1]), ~wild'
               PROVE  /\ result' # "read"
                      /\ Running' => /\ pc' = "visit" /\ Len(stack') = 1
                                     /\ stack'[1].it = 1 /\ stack'[1].num = <<>>
    BY DEF FirstLeaf
  <1>1. CASE ReadFile
    <2>1. PICK f \in Files : stack' = <<Frame(f, <<>>, <<>>, <<>>, NoProps)>>
      BY <1>1 DEF ReadFile
    <2>2. pc' = "visit" /\ result' = "none"
      BY <1>1 DEF ReadFile
    <2> QED
      BY <2>1, <2>2 DEF Frame
  <1>2. CASE Walk
    <2>1. Running /\ file' = file
      BY <1>2 DEF Walk, VisitSection, VisitProperty, VisitElement, VisitLastElement, Visiting,
                  Unwind, Descend, Return, ReadDone, Running
    <2>2. ~wild
      BY <1>2 DEF Walk, VisitSection, VisitProperty, VisitElement, VisitLastElement, Unwind,
                  Descend, Return, ReadDone
    <2>3. pc = "visit" /\ Len(stack) = 1 /\ stack[1].it = 1 /\ stack[1].num = <<>>
      BY <2>1, <2>2 DEF FirstLeaf
    <2>4. Top = stack[1] /\ Top.pt = file /\ Child = file.kids[1] /\ file \in Node
      BY <2>1, <2>3, Frames DEF Top, Child
    <2>5. ~(Top.it > Len(Top.pt.kids))
      <3>1. file.kids \in Seq(Node) /\ file.kids # <<>>
        BY <2>1, <2>4, KidsType
      <3>2. Len(file.kids) \in Nat \ {0}
        BY <3>1, EmptySeq
      <3> QED
        BY <2>3, <2>4, <3>2
    <2>6. ~(Len(Child.kids) > 0)
      BY <2>1, <2>4, EmptySeq DEF IsLeaf
    <2>7. ~VisitSection /\ ~Unwind /\ ~Descend /\ ~Return /\ ~ReadDone
      BY <2>3, <2>5, <2>6 DEF VisitSection, Unwind, Descend, Return, ReadDone
    <2>8. ~VisitProperty /\ ~VisitElement /\ ~VisitLastElement
      BY <2>3, <2>4 DEF VisitProperty, VisitElement, VisitLastElement
    <2> QED
      BY <1>2, <2>7, <2>8 DEF Walk
  <1>3. CASE ReadNoFile
    BY <1>3 DEF ReadNoFile, MayCall, Running
  <1>4. CASE Crash
    BY <1>4 DEF Crash
  <1>5. CASE Lookup
    <2>1. UNCHANGED <<pc, file, stack, calls, result, inserted, deleted, properties, wild>>
      BY <1>5 DEF Lookup, getProperty, getPropertyVector, propertyExists, Answer
    <2>2. pc = "idle"
      BY <1>5 DEF Lookup, MayCall
    <2> QED
      BY <2>1, <2>2 DEF FirstLeaf, Running
  <1>6. CASE UNCHANGED vars
    BY <1>6 DEF vars, FirstLeaf, Running
  <1> QED
    BY <1>1, <1>2, <1>3, <1>4, <1>5, <1>6 DEF Next

\* The walk leaves num's buffer, and the process ends, for no file but those that have a
\* property at the top, or an object or an array in an array; and for every file that
\* begins with a property.
THEOREM AstrayOnlyWhereSaid == Spec => []AstrayOnlyWhere
  <1> DEFINE Inv == IInv /\ PlainWalk /\ FirstLeaf
  <1>1. Init => Inv
    <2>1. Init => PlainWalk /\ FirstLeaf
      BY DEF Init, PlainWalk, FirstLeaf, Running
    <2> QED
      BY <2>1, InitInv
  <1>2. Inv /\ [Next]_vars => Inv'
    BY NextInv, PlainNext, FirstLeafNext
  <1>3. Inv => AstrayOnlyWhere
    BY DEF PlainWalk, FirstLeaf, AstrayOnlyWhere
  <1> HIDE DEF Inv
  <1> QED
    BY <1>1, <1>2, <1>3, PTL DEF Spec

----------------------------------------------------------------------------
(* What a file says of the first children of a node.                       *)

\* The values of the first k children of a node, and the properties that its first k
\* children are, seen from the node: an array is one, at its last child.
Elems(n, k) == FlattenSeq([i \in 1..k |-> n.kids[i].data])

Inside(n, k) ==
    IF IsArray(n) THEN (IF k = Len(n.kids) THEN Held(Elems(n, k)) ELSE <<>>)
    ELSE FlattenSeq([i \in 1..k |-> Flatten[n.kids[i]]])

LEMMA KidsOf ==
    ASSUME NEW n \in Node
    PROVE  /\ Len(n.kids) \in Nat /\ DOMAIN n.kids = 1..Len(n.kids)
           /\ \A i \in 1..Len(n.kids) : /\ n.kids[i] \in Node /\ n.kids[i].data \in Seq(Value)
                                        /\ n.kids[i].key \in Seq(Names)
                                        /\ Flatten[n.kids[i]] \in Flat
           /\ IsLeaf(n) <=> Len(n.kids) = 0
           /\ ~IsLeaf(n) => n.data = <<>>
  <1>1. n.kids \in Seq(Node)
    BY KidsType
  <1>2. Len(n.kids) \in Nat /\ DOMAIN n.kids = 1..Len(n.kids)
    BY <1>1, LenProperties
  <1>3. ASSUME NEW i \in 1..Len(n.kids)
        PROVE  /\ n.kids[i] \in Node /\ n.kids[i].data \in Seq(Value)
               /\ n.kids[i].key \in Seq(Names) /\ Flatten[n.kids[i]] \in Flat
    <2>1. n.kids[i] \in Node
      BY <1>1, ElementOfSeq
    <2> QED
      BY <2>1, KidsType, FlattenDef
  <1>4. IsLeaf(n) <=> Len(n.kids) = 0
    BY <1>1, EmptySeq DEF IsLeaf
  <1>5. ~IsLeaf(n) => n.data = <<>>
    BY ConfigurationAssumption DEF IsLeaf
  <1> QED
    BY <1>2, <1>3, <1>4, <1>5

LEMMA ElemsType ==
    ASSUME NEW n \in Node, NEW k \in 0..Len(n.kids)
    PROVE  Elems(n, k) \in Seq(Value)
  <1>1. k \in Nat /\ \A i \in 1..k : n.kids[i].data \in Seq(Value)
    BY KidsOf
  <1>2. [i \in 1..k |-> n.kids[i].data] \in Seq(Seq(Value))
    BY <1>1
  <1> QED
    BY <1>2, FlattenType DEF Elems

LEMMA ElemsNone == ASSUME NEW n PROVE Elems(n, 0) = <<>>
  <1>1. [i \in 1..0 |-> n.kids[i].data] = <<>>
    OBVIOUS
  <1> QED
    BY <1>1, FlattenEmpty DEF Elems

LEMMA ElemsNext ==
    ASSUME NEW n \in Node, NEW k \in Nat, k + 1 <= Len(n.kids)
    PROVE  Elems(n, k + 1) = Elems(n, k) \o n.kids[k + 1].data
  <1> DEFINE F == [i \in 1..(k + 1) |-> n.kids[i].data]
  <1>1. Len(n.kids) \in Nat /\ \A i \in 1..Len(n.kids) : n.kids[i].data \in Seq(Value)
    BY KidsOf
  <1>2. \A i \in 1..(k + 1) : F[i] \in Seq(Value)
    BY <1>1
  <1>3. F = [i \in 1..(k + 1) |-> F[i]] /\ F[k + 1] = n.kids[k + 1].data
    OBVIOUS
  <1>4. [i \in 1..k |-> F[i]] = [i \in 1..k |-> n.kids[i].data]
    OBVIOUS
  <1> HIDE DEF F
  <1>5. FlattenSeq(F) = FlattenSeq([i \in 1..k |-> F[i]]) \o F[k + 1]
    BY <1>2, <1>3, FlattenNext
  <1> QED
    BY <1>3, <1>4, <1>5 DEF Elems, F

LEMMA InsideType ==
    ASSUME NEW n \in Node, NEW k \in 0..Len(n.kids)
    PROVE  Inside(n, k) \in Flat
  <1>1. Held(Elems(n, k)) \in Flat /\ <<>> \in Flat
    BY ElemsType, HeldType, EmptySeq DEF Flat
  <1>2. k \in Nat /\ \A i \in 1..k : Flatten[n.kids[i]] \in Flat
    BY KidsOf
  <1>3. [i \in 1..k |-> Flatten[n.kids[i]]] \in Seq(Flat)
    BY <1>2
  <1>4. FlattenSeq([i \in 1..k |-> Flatten[n.kids[i]]]) \in Flat
    BY <1>3, FlattenType DEF Flat
  <1> QED
    BY <1>1, <1>4 DEF Inside

LEMMA InsideNone == ASSUME NEW n \in Node PROVE Inside(n, 0) = <<>>
  <1>1. IsArray(n) => Len(n.kids) # 0
    BY KidsOf DEF IsArray
  <1>2. [i \in 1..0 |-> Flatten[n.kids[i]]] = <<>>
    OBVIOUS
  <1> QED
    BY <1>1, <1>2, FlattenEmpty DEF Inside

LEMMA InsideNext ==
    ASSUME NEW n \in Node, ~IsArray(n), NEW k \in Nat, k + 1 <= Len(n.kids)
    PROVE  Inside(n, k + 1) = Inside(n, k) \o Flatten[n.kids[k + 1]]
  <1> DEFINE F == [i \in 1..(k + 1) |-> Flatten[n.kids[i]]]
             E == [key : Seq(Names), vals : Seq(Value) \ {<<>>}]
  <1>1. Len(n.kids) \in Nat /\ \A i \in 1..Len(n.kids) : Flatten[n.kids[i]] \in Flat
    BY KidsOf
  <1>2. \A i \in 1..(k + 1) : F[i] \in Flat
    BY <1>1
  <1>3. F = [i \in 1..(k + 1) |-> F[i]] /\ F[k + 1] = Flatten[n.kids[k + 1]]
    OBVIOUS
  <1>4. [i \in 1..k |-> F[i]] = [i \in 1..k |-> Flatten[n.kids[i]]]
    OBVIOUS
  <1> HIDE DEF F
  <1>5. FlattenSeq(F) = FlattenSeq([i \in 1..k |-> F[i]]) \o F[k + 1]
    <2>1. \A i \in 1..(k + 1) : F[i] \in Seq(E)
      BY <1>2 DEF Flat
    <2> HIDE DEF E
    <2> QED
      BY <1>3, <2>1, FlattenNext
  <1> QED
    BY <1>3, <1>4, <1>5 DEF Inside, F

\* What is inside all of a node, and its key, is what Flatten says of it.
LEMMA FlattenInside ==
    ASSUME NEW n \in Node, IsLeaf(n) => n.data = <<>>
    PROVE  Flatten[n] = Under(n.key, Inside(n, Len(n.kids)))
  <1>1. DOMAIN n.kids = 1..Len(n.kids)
    BY KidsOf
  <1>2. CASE IsLeaf(n)
    <2>1. Held(n.data) = <<>> /\ Inside(n, Len(n.kids)) = <<>>
      <3>1. Len(n.kids) = 0
        BY <1>2, KidsOf
      <3>2. Inside(n, 0) = <<>>
        BY InsideNone
      <3> QED
        BY <1>2, <3>1, <3>2 DEF Held
    <2>2. Flatten[n] = Under(n.key, Held(n.data))
      BY <1>2, FlattenDef
    <2> QED
      BY <2>1, <2>2
  <1>3. CASE ~IsLeaf(n)
    <2>1. CASE IsArray(n)
      <3>1. Flatten[n] = Under(n.key, Held(FlattenSeq([i \in DOMAIN n.kids |-> n.kids[i].data])))
        BY <1>3, <2>1, FlattenDef
      <3> QED
        BY <1>1, <2>1, <3>1 DEF Inside, Elems
    <2>2. CASE ~IsArray(n)
      <3>1. Flatten[n] = Under(n.key, FlattenSeq([i \in DOMAIN n.kids |-> Flatten[n.kids[i]]]))
        BY <1>3, <2>2, FlattenDef
      <3> QED
        BY <1>1, <2>2, <3>1 DEF Inside
    <2> QED
      BY <2>1, <2>2
  <1> QED
    BY <1>2, <1>3

----------------------------------------------------------------------------
(* What was inserted, and what the file says.                              *)

\* The entries of log after the s-th, up to the e-th, are the properties in flat: their
\* values, and with keys their keys, below pre.
Seg(log, s, e, pre, flat, keys) ==
    /\ e = s + Len(flat) /\ e <= Len(log)
    /\ \A j \in 1..Len(flat) : /\ log[s + j].vals = flat[j].vals
                               /\ keys => Key(log[s + j].kp) = pre \o flat[j].key

LEMMA SegNone ==
    ASSUME NEW log, NEW s \in Nat, s <= Len(log), NEW pre, NEW keys
    PROVE  Seg(log, s, s, pre, <<>>, keys)
  BY EmptySeq DEF Seg

LEMMA SegLonger ==
    ASSUME NEW log, NEW longer, Len(log) \in Nat, Len(longer) \in Nat, Len(log) <= Len(longer),
           \A i \in 1..Len(log) : longer[i] = log[i],
           NEW s \in Nat, NEW e, NEW pre, NEW flat \in Flat, NEW keys,
           Seg(log, s, e, pre, flat, keys)
    PROVE  Seg(longer, s, e, pre, flat, keys)
  <1>1. Len(flat) \in Nat
    BY LenProperties DEF Flat
  <1>2. e = s + Len(flat) /\ e <= Len(log)
    BY DEF Seg
  <1>3. ASSUME NEW j \in 1..Len(flat)
        PROVE  longer[s + j] = log[s + j]
    <2>1. s + j \in 1..Len(log)
      BY <1>1, <1>2
    <2> QED
      BY <2>1
  <1>4. e <= Len(longer)
    BY <1>1, <1>2
  <1>5. \A j \in 1..Len(flat) : /\ log[s + j].vals = flat[j].vals
                                /\ keys => Key(log[s + j].kp) = pre \o flat[j].key
    BY DEF Seg
  <1>6. \A j \in 1..Len(flat) : /\ longer[s + j].vals = flat[j].vals
                                /\ keys => Key(longer[s + j].kp) = pre \o flat[j].key
    BY <1>3, <1>5
  <1> QED
    BY <1>2, <1>4, <1>6 DEF Seg

LEMMA SegJoin ==
    ASSUME NEW log, Len(log) \in Nat, NEW s \in Nat, NEW m, NEW e, NEW pre, NEW keys,
           NEW a \in Flat, NEW b \in Flat,
           Seg(log, s, m, pre, a, keys), Seg(log, m, e, pre, b, keys)
    PROVE  Seg(log, s, e, pre, a \o b, keys)
  <1> DEFINE E == [key : Seq(Names), vals : Seq(Value) \ {<<>>}]
  <1>1. Len(a) \in Nat /\ Len(b) \in Nat /\ a \in Seq(E) /\ b \in Seq(E)
    BY LenProperties DEF Flat
  <1> HIDE DEF E
  <1>2. m = s + Len(a) /\ e = m + Len(b) /\ e <= Len(log)
    BY DEF Seg
  <1>3. /\ Len(a \o b) = Len(a) + Len(b)
        /\ \A i \in 1..(Len(a) + Len(b)) :
              (a \o b)[i] = IF i <= Len(a) THEN a[i] ELSE b[i - Len(a)]
    BY <1>1, ConcatProperties
  <1>4. ASSUME NEW j \in 1..(Len(a) + Len(b))
        PROVE  /\ log[s + j].vals = (a \o b)[j].vals
               /\ keys => Key(log[s + j].kp) = pre \o (a \o b)[j].key
    <2>1. CASE j <= Len(a)
      <3>1. j \in 1..Len(a) /\ (a \o b)[j] = a[j]
        BY <1>1, <1>3, <2>1
      <3> QED
        BY <3>1 DEF Seg
    <2>2. CASE ~(j <= Len(a))
      <3> DEFINE i == j - Len(a)
      <3>1. i \in 1..Len(b) /\ (a \o b)[j] = b[i] /\ s + j = m + i
        BY <1>1, <1>2, <1>3, <2>2
      <3> HIDE DEF i
      <3> QED
        BY <3>1 DEF Seg
    <2> QED
      BY <2>1, <2>2
  <1> HIDE DEF Seg
  <1>5. e = s + Len(a \o b)
    BY <1>1, <1>2, <1>3
  <1> QED
    BY <1>2, <1>3, <1>4, <1>5 DEF Seg

LEMMA NamesAssociative ==
    \A a, b, c \in Seq(Names) : (a \o b) \o c = a \o (b \o c)
  BY ConcatAssociative

LEMMA SegUnder ==
    ASSUME NEW log, NEW s \in Nat, NEW e, NEW pre \in Seq(Names), NEW key \in Seq(Names),
           NEW keys, NEW a \in Flat, Seg(log, s, e, pre \o key, a, keys)
    PROVE  Seg(log, s, e, pre, Under(key, a), keys)
  <1>1. /\ Len(Under(key, a)) = Len(a)
        /\ \A j \in 1..Len(a) : /\ Under(key, a)[j].vals = a[j].vals
                                /\ Under(key, a)[j].key = key \o a[j].key
    BY UnderType
  <1>2. ASSUME NEW j \in 1..Len(a)
        PROVE  (pre \o key) \o a[j].key = pre \o (key \o a[j].key)
    <2> DEFINE k == a[j].key
    <2>1. a[j] \in [key : Seq(Names), vals : Seq(Value) \ {<<>>}]
      BY ElementOfSeq DEF Flat
    <2>2. k \in Seq(Names)
      BY <2>1
    <2> HIDE DEF k
    <2>3. (pre \o key) \o k = pre \o (key \o k)
      BY <2>2, NamesAssociative, Zenon
    <2> QED
      BY <2>3 DEF k
  <1>3. /\ e = s + Len(a) /\ e <= Len(log)
        /\ \A j \in 1..Len(a) : /\ log[s + j].vals = a[j].vals
                                /\ keys => Key(log[s + j].kp) = (pre \o key) \o a[j].key
    BY DEF Seg
  <1>4. ASSUME NEW j \in 1..Len(a)
        PROVE  /\ log[s + j].vals = Under(key, a)[j].vals
               /\ keys => Key(log[s + j].kp) = pre \o Under(key, a)[j].key
    <2>1. log[s + j].vals = Under(key, a)[j].vals
      BY <1>1, <1>3
    <2>2. ASSUME keys PROVE Key(log[s + j].kp) = pre \o Under(key, a)[j].key
      <3>1. Key(log[s + j].kp) = (pre \o key) \o a[j].key
        BY <1>3, <2>2
      <3>2. Under(key, a)[j].key = key \o a[j].key
        BY <1>1
      <3> QED
        BY <1>2, <3>1, <3>2
    <2> QED
      BY <2>1, <2>2
  <1> QED
    BY <1>1, <1>3, <1>4 DEF Seg

\* One more entry, where the file says one more property.
LEMMA SegOneMore ==
    ASSUME NEW log \in Seq(Entry), NEW x \in Entry, NEW s \in Nat, NEW pre, NEW keys,
           NEW a \in Flat, NEW p, <<p>> \in Flat,
           Seg(log, s, Len(log), pre, a, keys),
           x.vals = p.vals, keys => Key(x.kp) = pre \o p.key
    PROVE  Seg(Append(log, x), s, Len(log) + 1, pre, a \o <<p>>, keys)
  <1> DEFINE longer == Append(log, x)
             n == Len(log)
  <1>1. /\ Len(longer) = n + 1 /\ n \in Nat /\ longer[n + 1] = x
        /\ \A i \in 1..n : longer[i] = log[i]
    BY AppendProperties, LenProperties
  <1> HIDE DEF longer
  <1>2. Seg(longer, s, n, pre, a, keys)
    <2>1. /\ Len(log) \in Nat /\ Len(longer) \in Nat /\ Len(log) <= Len(longer)
          /\ \A i \in 1..Len(log) : longer[i] = log[i]
      BY <1>1
    <2>2. Seg(longer, s, Len(log), pre, a, keys)
      BY <2>1, SegLonger
    <2> QED
      BY <2>2
  <1>3. Seg(longer, n, n + 1, pre, <<p>>, keys)
    <2> HIDE DEF n
    <2> QED
      BY <1>1 DEF Seg
  <1>4. Len(longer) \in Nat
    BY <1>1
  <1> HIDE DEF n
  <1>5. Seg(longer, s, n + 1, pre, a \o <<p>>, keys)
    BY <1>1, <1>2, <1>3, <1>4, SegJoin
  <1> QED
    BY <1>5 DEF n, longer

----------------------------------------------------------------------------
(* Where a frame stands between what was inserted and what the file says.  *)

\* How many children of its node a frame is done with: one without children of its own
\* as soon as it was visited, a section when its call is back.
Done(f, visits) == IF visits \/ ~IsLeaf(At(f)) THEN f.it - 1 ELSE f.it

\* What a frame goes on with: the values of the elements so far, the children to come
\* and the key of its own node.
Steady(f, root, visits, pre, keys) ==
    LET k == Len(f.pt.kids)
    IN  /\ ~IsLeaf(f.pt) /\ ~IsArray(f.pt) => f.vp = <<>>
        /\ IsArray(f.pt) /\ Done(f, visits) < k => f.vp = Elems(f.pt, Done(f, visits))
        /\ (visits \/ IsLeaf(At(f))) /\ Done(f, visits) < k =>
              /\ ~root /\ (keys \/ IsArray(f.pt)) =>
                    f.num # <<>> /\ Last(f.num) = k - Done(f, visits)
              /\ keys => Key(f.kp) = pre
        /\ ~visits /\ ~IsLeaf(At(f)) /\ keys => Key(f.kp) = pre \o At(f).key

\* A mark says of a frame how much was inserted before its node, and the node's key.
Marks == [Nat -> [start : Nat, pre : Seq(Names)]]

\* Frame f, with mark a: the entries of log after its start, up to e, are what its node
\* says of the children it is done with.
Tracked(f, a, root, visits, e, log, keys) ==
    /\ Steady(f, root, visits, a.pre, keys)
    /\ Seg(log, a.start, e, a.pre, Inside(f.pt, Done(f, visits)), keys)

\* The marks fit the stack stk and what was inserted, log; n frames are there.
Fits(m, stk, n, log, visits, keys) ==
    /\ m[1].pre = <<>>
    /\ Tracked(stk[n], m[n], n = 1, visits, Len(log), log, keys)
    /\ \A d \in 1..(n - 1) : /\ Tracked(stk[d], m[d], d = 1, FALSE, m[d + 1].start, log, keys)
                             /\ m[d + 1].pre = m[d].pre \o stk[d + 1].pt.key

\* Of the n entries of log, those after the s-th are call c's.
OfCall(log, n, c, s) == \A i \in 1..n : log[i].call = c <=> i > s

\* The entries of log are the first of longer.
Prefix(log, longer) ==
    /\ Len(log) \in Nat /\ Len(longer) \in Nat /\ Len(log) <= Len(longer)
    /\ \A i \in 1..Len(log) : longer[i] = log[i]

\* What the insertion of values vp at kp makes of log; without values, none is made.
Grown(log, c, kp, vp) ==
    IF vp = <<>> THEN log ELSE Append(log, [call |-> c, kp |-> kp, vals |-> vp])

\* What a node says of its children, in a file that the walk finds all values of.
LEMMA KidOf ==
    ASSUME NEW n \in Node, SectionsNamed(n), Unmixed(n), NEW i \in 1..Len(n.kids)
    PROVE  /\ ~IsLeaf(n)
           /\ n.kids[i].key = <<>> => IsArray(n) /\ IsLeaf(n.kids[i])
           /\ n.kids[i].key # <<>> => ~IsArray(n)
           /\ SectionLast(n) /\ ~IsLeaf(n.kids[i]) => i = Len(n.kids)
  <1>1. i \in DOMAIN n.kids
    BY KidsOf
  <1>2. ~IsLeaf(n)
    BY KidsOf
  <1>3. n.kids[i].key = <<>> => IsArray(n) /\ IsLeaf(n.kids[i])
    BY <1>1 DEF SectionsNamed, Unmixed
  <1>4. n.kids[i].key # <<>> => ~IsArray(n)
    BY <1>1 DEF IsArray
  <1>5. SectionLast(n) /\ ~IsLeaf(n.kids[i]) => i = Len(n.kids)
    BY <1>1 DEF SectionLast
  <1> QED
    BY <1>2, <1>3, <1>4, <1>5

LEMMA FlattenLeaf ==
    ASSUME NEW c \in Node, IsLeaf(c)
    PROVE  Flatten[c] = Under(c.key, Held(c.data))
  BY FlattenDef

LEMMA GrownType ==
    ASSUME NEW log \in Seq(Entry), NEW c \in 1..MaxCalls, NEW kp \in Seq(Seq(Names)),
           NEW vp \in Seq(Value)
    PROVE  /\ Grown(log, c, kp, vp) \in Seq(Entry)
           /\ Prefix(log, Grown(log, c, kp, vp))
           /\ \A i \in 1..Len(Grown(log, c, kp, vp)) :
                 i > Len(log) => Grown(log, c, kp, vp)[i].call = c
  <1> DEFINE x == [call |-> c, kp |-> kp, vals |-> vp]
  <1>1. Len(log) \in Nat
    BY LenProperties
  <1>2. CASE vp = <<>>
    <2>1. Grown(log, c, kp, vp) = log
      BY <1>2 DEF Grown
    <2> QED
      BY <1>1, <2>1 DEF Prefix
  <1>3. CASE vp # <<>>
    <2>1. Grown(log, c, kp, vp) = Append(log, x) /\ x \in Entry /\ x.call = c
      BY <1>3 DEF Grown, Entry
    <2> HIDE DEF x
    <2>2. /\ Append(log, x) \in Seq(Entry) /\ Len(Append(log, x)) = Len(log) + 1
          /\ \A i \in 1..Len(log) : Append(log, x)[i] = log[i]
          /\ Append(log, x)[Len(log) + 1] = x
      BY <2>1, AppendProperties
    <2>3. Prefix(log, Append(log, x))
      BY <1>1, <2>2 DEF Prefix
    <2>4. ASSUME NEW i \in 1..Len(Append(log, x)), i > Len(log)
          PROVE  Append(log, x)[i].call = c
      <3>1. i = Len(log) + 1
        BY <1>1, <2>2, <2>4
      <3> QED
        BY <2>1, <2>2, <3>1
    <2> QED
      BY <2>1, <2>2, <2>3, <2>4
  <1> QED
    BY <1>2, <1>3

\* An insertion is what the file says next: of a value at key below pre, if there is one.
LEMMA SegGrown ==
    ASSUME NEW log \in Seq(Entry), NEW c \in 1..MaxCalls, NEW kp \in Seq(Seq(Names)),
           NEW vp \in Seq(Value), NEW s \in Nat, NEW pre \in Seq(Names), NEW key \in Seq(Names),
           NEW keys, NEW a \in Flat, Seg(log, s, Len(log), pre, a, keys),
           keys => Key(kp) = pre \o key
    PROVE  Seg(Grown(log, c, kp, vp), s, Len(Grown(log, c, kp, vp)), pre,
               a \o Under(key, Held(vp)), keys)
  <1>1. a \in Flat /\ Len(log) \in Nat
    BY LenProperties
  <1>2. CASE vp = <<>>
    <2>1. Grown(log, c, kp, vp) = log
      BY <1>2 DEF Grown
    <2>2. Under(key, Held(vp)) = <<>>
      BY <1>2 DEF Held, Under
    <2>3. a \o <<>> = a
      BY ConcatEmptySeq DEF Flat
    <2>4. a \o Under(key, Held(vp)) = a
      BY <2>2, <2>3
    <2> DEFINE g == Grown(log, c, kp, vp)
               b == a \o Under(key, Held(vp))
    <2>5. g = log /\ b = a
      BY <2>1, <2>4
    <2> HIDE DEF g, b
    <2>6. Seg(g, s, Len(g), pre, b, keys)
      BY <2>5
    <2> QED
      BY <2>6 DEF g, b
  <1>3. CASE vp # <<>>
    <2> DEFINE x == [call |-> c, kp |-> kp, vals |-> vp]
               p == [key |-> key, vals |-> vp]
    <2>1. Grown(log, c, kp, vp) = Append(log, x) /\ x \in Entry /\ x.vals = p.vals /\ x.kp = kp
          /\ p.key = key
      BY <1>3 DEF Grown, Entry
    <2>2. Under(key, Held(vp)) = <<p>> /\ <<p>> \in Flat
      <3> DEFINE q == Held(vp)
                 u == Under(key, q)
      <3>1. q = <<[key |-> <<>>, vals |-> vp]>> /\ q \in Flat
        BY <1>3, HeldType DEF Held
      <3>2. Len(q) = 1 /\ q[1].vals = vp /\ q[1].key = <<>>
        BY <3>1
      <3> HIDE DEF q
      <3>3. u \in Flat /\ Len(u) = 1 /\ u[1].vals = vp /\ u[1].key = key \o <<>>
        <4>1. 1 \in 1..Len(q)
          BY <3>2
        <4>2. /\ u \in Flat /\ Len(u) = Len(q)
              /\ \A j \in 1..Len(q) : u[j].vals = q[j].vals /\ u[j].key = key \o q[j].key
          BY <3>1, UnderType
        <4> HIDE DEF u
        <4> QED
          BY <3>2, <4>1, <4>2
      <3> HIDE DEF u
      <3>4. u \in Seq([key : Seq(Names), vals : Seq(Value) \ {<<>>}])
        BY <3>3 DEF Flat
      <3>5. u[1] = p
        <4>1. u[1] \in [key : Seq(Names), vals : Seq(Value) \ {<<>>}]
          <5>1. 1 \in 1..Len(u)
            BY <3>3
          <5> QED
            BY <3>4, <5>1, ElementOfSeq
        <4>2. key \o <<>> = key
          BY ConcatEmptySeq
        <4> QED
          BY <3>3, <4>1, <4>2
      <3>6. u = <<p>>
        <4> HIDE DEF p
        <4> QED
          BY <3>3, <3>4, <3>5
      <3> QED
        BY <3>3, <3>6 DEF u, q
    <2>3. keys => Key(x.kp) = pre \o p.key
      BY <2>1
    <2> HIDE DEF x, p
    <2>4. Seg(Append(log, x), s, Len(log) + 1, pre, a \o <<p>>, keys)
      BY <2>1, <2>2, <2>3, SegOneMore
    <2>5. Len(Append(log, x)) = Len(log) + 1
      BY <2>1, AppendProperties
    <2> QED
      BY <2>1, <2>2, <2>4, <2>5
  <1> QED
    BY <1>2, <1>3

\* Without a key, what is under a node is what is in it.
LEMMA UnderNothing ==
    ASSUME NEW p \in Flat
    PROVE  Under(<<>>, p) = p
  <1> DEFINE E == [key : Seq(Names), vals : Seq(Value) \ {<<>>}]
             u == Under(<<>>, p)
  <1>1. <<>> \in Seq(Names)
    BY EmptySeq
  <1>2. /\ u \in Flat /\ Len(u) = Len(p)
        /\ \A j \in 1..Len(p) : u[j].vals = p[j].vals /\ u[j].key = <<>> \o p[j].key
    BY <1>1, UnderType
  <1> HIDE DEF u
  <1>3. ASSUME NEW j \in 1..Len(p) PROVE u[j] = p[j]
    <2>1. u[j] \in [key : Seq(Names), vals : Seq(Value) \ {<<>>}]
      BY <1>2, ElementOfSeq DEF Flat
    <2>2. p[j] \in [key : Seq(Names), vals : Seq(Value) \ {<<>>}]
      BY ElementOfSeq DEF Flat
    <2>3. <<>> \o p[j].key = p[j].key
      <3> DEFINE k == p[j].key
      <3>1. k \in Seq(Names)
        BY <2>2
      <3> HIDE DEF k
      <3>2. <<>> \o k = k
        BY <3>1, ConcatEmptySeq
      <3> QED
        BY <3>2 DEF k
    <2> QED
      BY <1>2, <2>1, <2>2, <2>3
  <1>4. u \in Seq(E) /\ p \in Seq(E)
    BY <1>2 DEF Flat
  <1> HIDE DEF E
  <1>5. u = p
    BY <1>2, <1>3, <1>4, SeqEqual
  <1> QED
    BY <1>5 DEF u

\* A step of the running frame leaves the frames below, and their marks, as they are.
LEMMA FitsTurn ==
    ASSUME NEW n \in Nat \ {0}, NEW stk, NEW new, \A d \in 1..(n - 1) : new[d] = stk[d],
           new[n].pt = stk[n].pt, NEW log, NEW longer, Prefix(log, longer),
           NEW m \in Marks, NEW v, NEW w, NEW keys, Fits(m, stk, n, log, v, keys),
           \A d \in 1..(n - 1) : Inside(stk[d].pt, Done(stk[d], FALSE)) \in Flat,
           Tracked(new[n], m[n], n = 1, w, Len(longer), longer, keys)
    PROVE  Fits(m, new, n, longer, w, keys)
  <1>1. ASSUME NEW d \in 1..(n - 1)
        PROVE  /\ Tracked(new[d], m[d], d = 1, FALSE, m[d + 1].start, longer, keys)
               /\ m[d + 1].pre = m[d].pre \o new[d + 1].pt.key
    <2>1. /\ Tracked(stk[d], m[d], d = 1, FALSE, m[d + 1].start, log, keys)
          /\ m[d + 1].pre = m[d].pre \o stk[d + 1].pt.key
      BY DEF Fits
    <2>2. m[d].start \in Nat
      BY DEF Marks
    <2>3. Seg(longer, m[d].start, m[d + 1].start, m[d].pre, Inside(stk[d].pt, Done(stk[d], FALSE)),
              keys)
      <3> DEFINE flat == Inside(stk[d].pt, Done(stk[d], FALSE))
                 start == m[d].start
                 end == m[d + 1].start
                 pre == m[d].pre
      <3>1. Seg(log, start, end, pre, flat, keys) /\ flat \in Flat /\ start \in Nat
        BY <2>1, <2>2 DEF Tracked
      <3>2. /\ Len(log) \in Nat /\ Len(longer) \in Nat /\ Len(log) <= Len(longer)
            /\ \A i \in 1..Len(log) : longer[i] = log[i]
        BY DEF Prefix
      <3> HIDE DEF flat, start, end, pre
      <3>3. Seg(longer, start, end, pre, flat, keys)
        BY <3>1, <3>2, SegLonger
      <3> QED
        BY <3>3 DEF flat, start, end, pre
    <2>4. Tracked(stk[d], m[d], d = 1, FALSE, m[d + 1].start, longer, keys)
      BY <2>1, <2>3 DEF Tracked
    <2>5. new[d + 1].pt = stk[d + 1].pt
      <3>1. d + 1 \in 1..(n - 1) \/ d + 1 = n
        OBVIOUS
      <3> QED
        BY <3>1
    <2> QED
      BY <2>1, <2>4, <2>5
  <1> QED
    BY <1>1 DEF Fits

\* What the first frame found begins within what was inserted.
LEMMA FitsStart ==
    ASSUME NEW n \in Nat \ {0}, NEW stk, NEW log \in Seq(Entry), NEW m \in Marks, NEW v, NEW keys,
           Fits(m, stk, n, log, v, keys),
           \A d \in 1..(n - 1) : Inside(stk[d].pt, Done(stk[d], FALSE)) \in Flat,
           Inside(stk[n].pt, Done(stk[n], v)) \in Flat
    PROVE  m[1].start <= Len(log)
  <1>1. m[1].start \in Nat /\ Len(log) \in Nat
    BY LenProperties DEF Marks
  <1>2. CASE n = 1
    <2>1. Len(Inside(stk[n].pt, Done(stk[n], v))) \in Nat
      BY LenProperties DEF Flat
    <2>2. Len(log) = m[1].start + Len(Inside(stk[n].pt, Done(stk[n], v)))
      BY <1>2 DEF Fits, Tracked, Seg
    <2> QED
      BY <1>1, <2>1, <2>2
  <1>3. CASE n # 1
    <2> DEFINE e == m[1 + 1].start
               p == Inside(stk[1].pt, Done(stk[1], FALSE))
    <2>1. 1 \in 1..(n - 1) /\ e \in Nat
      BY <1>3 DEF Marks
    <2>2. p \in Flat /\ Tracked(stk[1], m[1], 1 = 1, FALSE, e, log, keys)
      <3>1. \A d \in 1..(n - 1) : Tracked(stk[d], m[d], d = 1, FALSE, m[d + 1].start, log, keys)
        BY DEF Fits
      <3> QED
        BY <2>1, <3>1
    <2>3. e = m[1].start + Len(p) /\ e <= Len(log)
      <3> HIDE DEF e
      <3> QED
        BY <2>2 DEF Tracked, Seg
    <2>4. Len(p) \in Nat
      <3> HIDE DEF p
      <3> QED
        BY <2>2, LenProperties DEF Flat
    <2> HIDE DEF p, e
    <2> QED
      BY <1>1, <2>1, <2>3, <2>4
  <1> QED
    BY <1>2, <1>3

----------------------------------------------------------------------------
(* What each step does to the frame it changes.                            *)

LEMMA KeyAppend ==
    ASSUME NEW kp \in Seq(Seq(Names)), NEW key \in Seq(Names)
    PROVE  Key(Append(kp, key)) = Key(kp) \o key /\ Key(kp) \in Seq(Names)
  BY FlattenAppend, FlattenType DEF Key

\* A frame at a child, in a file that the walk finds all values of.
AtChild(f, a) ==
    /\ f \in FrameSet /\ f.pt \in Node /\ f.it \in 1..Len(f.pt.kids) /\ At(f) \in Node
    /\ SectionsNamed(f.pt) /\ Unmixed(f.pt)
    /\ a.start \in Nat /\ a.pre \in Seq(Names)

LEMMA AtChildFacts ==
    ASSUME NEW f, NEW a, AtChild(f, a)
    PROVE  /\ Len(f.pt.kids) \in Nat /\ f.it \in Nat \ {0} /\ f.it - 1 \in Nat
           /\ f.it - 1 < Len(f.pt.kids) /\ (f.it - 1) + 1 = f.it
           /\ ~IsLeaf(f.pt)
           /\ At(f).key = <<>> => IsArray(f.pt) /\ IsLeaf(At(f))
           /\ At(f).key # <<>> => ~IsArray(f.pt)
           /\ SectionLast(f.pt) /\ ~IsLeaf(At(f)) => f.it = Len(f.pt.kids)
           /\ At(f).key \in Seq(Names) /\ At(f).data \in Seq(Value)
           /\ f.kp \in Seq(Seq(Names)) /\ f.vp \in Seq(Value) /\ f.num \in Seq(0..UINT_MAX)
           /\ Inside(f.pt, f.it) \in Flat /\ Inside(f.pt, f.it - 1) \in Flat
  <1>1. f.pt \in Node /\ f.it \in 1..Len(f.pt.kids) /\ At(f) \in Node /\ f \in FrameSet
        /\ SectionsNamed(f.pt) /\ Unmixed(f.pt)
    BY DEF AtChild
  <1>2. Len(f.pt.kids) \in Nat
    BY <1>1, KidsOf
  <1>3. /\ f.it \in Nat \ {0} /\ f.it - 1 \in Nat /\ f.it - 1 < Len(f.pt.kids)
        /\ (f.it - 1) + 1 = f.it /\ f.it \in 0..Len(f.pt.kids) /\ f.it - 1 \in 0..Len(f.pt.kids)
    BY <1>1, <1>2
  <1>4. /\ ~IsLeaf(f.pt)
        /\ At(f).key = <<>> => IsArray(f.pt) /\ IsLeaf(At(f))
        /\ At(f).key # <<>> => ~IsArray(f.pt)
        /\ SectionLast(f.pt) /\ ~IsLeaf(At(f)) => f.it = Len(f.pt.kids)
    BY <1>1, KidOf DEF At
  <1>5. At(f).key \in Seq(Names) /\ At(f).data \in Seq(Value)
    BY <1>1, KidsType
  <1>6. f.kp \in Seq(Seq(Names)) /\ f.vp \in Seq(Value) /\ f.num \in Seq(0..UINT_MAX)
    BY <1>1 DEF FrameSet
  <1>7. Inside(f.pt, f.it) \in Flat /\ Inside(f.pt, f.it - 1) \in Flat
    BY <1>1, <1>3, InsideType
  <1> QED
    BY <1>2, <1>3, <1>4, <1>5, <1>6, <1>7

LEMMA SectionTracked ==
    ASSUME NEW f, NEW a, AtChild(f, a), NEW g \in FrameSet, SamePlace(g, f), ~IsLeaf(At(f)),
           NEW root, NEW e, NEW log, NEW keys, Tracked(f, a, root, TRUE, e, log, keys),
           g.vp = f.vp, g.kp = Append(f.kp, At(f).key)
    PROVE  Tracked(g, a, root, FALSE, e, log, keys)
  <1>1. g.pt = f.pt /\ g.it = f.it /\ At(g) = At(f)
    BY DEF SamePlace, At
  <1>2. Done(f, TRUE) = f.it - 1 /\ Done(g, FALSE) = f.it - 1
    BY <1>1 DEF Done
  <1>3. ~IsLeaf(f.pt) /\ ~IsArray(f.pt) /\ f.it - 1 < Len(f.pt.kids)
    BY AtChildFacts
  <1>4. Steady(f, root, TRUE, a.pre, keys)
    BY DEF Tracked
  <1>5. f.vp = <<>> /\ (keys => Key(f.kp) = a.pre)
    BY <1>2, <1>3, <1>4 DEF Steady
  <1>6. Key(g.kp) = Key(f.kp) \o At(f).key
    BY AtChildFacts, KeyAppend
  <1>7. Steady(g, root, FALSE, a.pre, keys)
    BY <1>1, <1>3, <1>5, <1>6 DEF Steady
  <1>8. Seg(log, a.start, e, a.pre, Inside(g.pt, Done(g, FALSE)), keys)
    <2>1. Inside(g.pt, Done(g, FALSE)) = Inside(f.pt, Done(f, TRUE))
      BY <1>1, <1>2
    <2>2. Seg(log, a.start, e, a.pre, Inside(f.pt, Done(f, TRUE)), keys)
      BY DEF Tracked
    <2> QED
      BY <2>1, <2>2
  <1> QED
    BY <1>7, <1>8 DEF Tracked

\* A visit of a child without children takes it from the counter.
LEMMA LeafCounted ==
    ASSUME NEW f, NEW a, AtChild(f, a), NEW g \in FrameSet, g.num = CountDown(f.num),
           f.num # <<>>, Last(f.num) = Len(f.pt.kids) - (f.it - 1), f.num[Len(f.num)] > 0
    PROVE  g.num # <<>> /\ Last(g.num) = Len(f.pt.kids) - f.it
  <1>1. f.num \in Seq(0..UINT_MAX) /\ f.it \in Nat /\ Len(f.pt.kids) \in Nat
    BY AtChildFacts
  <1>2. /\ CountDown(f.num) # <<>> /\ Last(f.num) = f.num[Len(f.num)]
        /\ Last(CountDown(f.num)) = f.num[Len(f.num)] - 1
    BY <1>1, CountDownLast
  <1>3. f.num[Len(f.num)] = Len(f.pt.kids) - (f.it - 1)
    BY <1>2
  <1>4. g.num # <<>> /\ Last(g.num) = f.num[Len(f.num)] - 1
    BY <1>2
  <1> QED
    BY <1>1, <1>3, <1>4

LEMMA PropertyTracked ==
    ASSUME NEW f, NEW a, AtChild(f, a), NEW g \in FrameSet, SamePlace(g, f),
           IsLeaf(At(f)), At(f).key # <<>>, f.num # <<>> => f.num[Len(f.num)] > 0,
           g.num = CountDown(f.num), g.kp = f.kp, g.vp = <<>>,
           NEW log \in Seq(Entry), NEW c \in 1..MaxCalls, NEW longer,
           longer = Grown(log, c, Append(f.kp, At(f).key), f.vp \o At(f).data),
           NEW root, NEW keys, Tracked(f, a, root, TRUE, Len(log), log, keys)
    PROVE  Tracked(g, a, root, FALSE, Len(longer), longer, keys)
  <1>1. g.pt = f.pt /\ g.it = f.it /\ At(g) = At(f)
    BY DEF SamePlace, At
  <1>2. Done(f, TRUE) = f.it - 1 /\ Done(g, FALSE) = f.it
    BY <1>1 DEF Done
  <1>3. /\ ~IsLeaf(f.pt) /\ ~IsArray(f.pt) /\ f.it - 1 < Len(f.pt.kids)
        /\ At(f).key \in Seq(Names) /\ At(f).data \in Seq(Value)
        /\ f.kp \in Seq(Seq(Names)) /\ f.it - 1 \in Nat /\ (f.it - 1) + 1 = f.it
        /\ f.it \in Nat /\ Len(f.pt.kids) \in Nat
        /\ Inside(f.pt, f.it - 1) \in Flat
    BY AtChildFacts
  <1>4. Steady(f, root, TRUE, a.pre, keys)
    BY DEF Tracked
  <1>5. f.vp = <<>> /\ (keys => Key(f.kp) = a.pre)
    BY <1>2, <1>3, <1>4 DEF Steady
  <1>6. Steady(g, root, FALSE, a.pre, keys)
    <2>1. ASSUME ~root, keys
          PROVE  g.num # <<>> /\ Last(g.num) = Len(f.pt.kids) - f.it
      <3>1. f.num # <<>> /\ Last(f.num) = Len(f.pt.kids) - (f.it - 1)
        BY <1>2, <1>3, <1>4, <2>1 DEF Steady
      <3> QED
        BY <3>1, LeafCounted
    <2> QED
      BY <1>1, <1>2, <1>3, <1>5, <2>1 DEF Steady
  <1> DEFINE kp == Append(f.kp, At(f).key)
             vp == At(f).data
             key == At(f).key
  <1>7. f.vp \o At(f).data = vp
    BY <1>3, <1>5, ConcatEmptySeq
  <1>8. keys => Key(kp) = a.pre \o key
    BY <1>3, <1>5, KeyAppend
  <1>9. kp \in Seq(Seq(Names)) /\ vp \in Seq(Value) /\ key \in Seq(Names)
    BY <1>3, AppendProperties
  <1>10. Seg(log, a.start, Len(log), a.pre, Inside(f.pt, f.it - 1), keys)
    <2>1. Seg(log, a.start, Len(log), a.pre, Inside(f.pt, Done(f, TRUE)), keys)
      BY DEF Tracked
    <2> QED
      BY <1>2, <2>1
  <1>11. Inside(f.pt, f.it) = Inside(f.pt, f.it - 1) \o Under(key, Held(vp))
    <2>1. f.pt \in Node /\ At(f) \in Node /\ f.it <= Len(f.pt.kids)
      BY DEF AtChild
    <2>2. Inside(f.pt, (f.it - 1) + 1)
            = Inside(f.pt, f.it - 1) \o Flatten[f.pt.kids[(f.it - 1) + 1]]
      BY <1>3, <2>1, InsideNext
    <2>3. Flatten[At(f)] = Under(key, Held(vp))
      BY <2>1, FlattenLeaf
    <2> HIDE DEF key, vp
    <2> QED
      BY <1>3, <2>2, <2>3 DEF At
  <1> HIDE DEF kp, vp, key
  <1>12. a.start \in Nat /\ a.pre \in Seq(Names)
    BY DEF AtChild
  <1> DEFINE s == a.start
             pre == a.pre
             in == Inside(f.pt, f.it - 1)
  <1>13. Seg(longer, s, Len(longer), pre, in \o Under(key, Held(vp)), keys)
    <2>1. longer = Grown(log, c, kp, vp)
      BY <1>7 DEF kp
    <2>2. s \in Nat /\ pre \in Seq(Names) /\ in \in Flat
      BY <1>3, <1>12
    <2>3. Seg(log, s, Len(log), pre, in, keys) /\ (keys => Key(kp) = pre \o key)
      BY <1>8, <1>10
    <2> HIDE DEF s, pre, in
    <2>4. Seg(Grown(log, c, kp, vp), s, Len(Grown(log, c, kp, vp)), pre,
              in \o Under(key, Held(vp)), keys)
      BY <1>9, <2>2, <2>3, SegGrown
    <2> QED
      BY <2>1, <2>4
  <1>14. Inside(g.pt, Done(g, FALSE)) = in \o Under(key, Held(vp))
    BY <1>1, <1>2, <1>11
  <1>15. Seg(longer, a.start, Len(longer), a.pre, Inside(g.pt, Done(g, FALSE)), keys)
    BY <1>13, <1>14
  <1> QED
    BY <1>6, <1>15 DEF Tracked

\* An element of an array: its frame has counted those before it.
LEMMA ElementFacts ==
    ASSUME NEW f, NEW a, AtChild(f, a), At(f).key = <<>>,
           NEW root, NEW keys, Steady(f, root, TRUE, a.pre, keys)
    PROVE  /\ IsArray(f.pt) /\ f.vp \o At(f).data = Elems(f.pt, f.it)
           /\ Inside(f.pt, f.it - 1) = <<>>
           /\ f.it = Len(f.pt.kids) => Inside(f.pt, f.it) = Held(f.vp \o At(f).data)
           /\ f.it # Len(f.pt.kids) => Inside(f.pt, f.it) = <<>>
  <1>1. /\ IsArray(f.pt) /\ f.it - 1 < Len(f.pt.kids)
        /\ f.it - 1 \in Nat /\ (f.it - 1) + 1 = f.it /\ f.it \in Nat /\ Len(f.pt.kids) \in Nat
    BY AtChildFacts
  <1>2. Done(f, TRUE) = f.it - 1
    BY DEF Done
  <1>3. f.vp = Elems(f.pt, f.it - 1)
    BY <1>1, <1>2 DEF Steady
  <1>4. Elems(f.pt, (f.it - 1) + 1) = Elems(f.pt, f.it - 1) \o f.pt.kids[(f.it - 1) + 1].data
    <2>1. f.pt \in Node /\ (f.it - 1) + 1 <= Len(f.pt.kids)
      BY <1>1 DEF AtChild
    <2> QED
      BY <1>1, <2>1, ElemsNext
  <1>5. f.vp \o At(f).data = Elems(f.pt, f.it)
    BY <1>1, <1>3, <1>4 DEF At
  <1>6. f.it - 1 # Len(f.pt.kids)
    BY <1>1
  <1> QED
    BY <1>1, <1>5, <1>6 DEF Inside

LEMMA ElementTracked ==
    ASSUME NEW f, NEW a, AtChild(f, a), NEW g \in FrameSet, SamePlace(g, f),
           IsLeaf(At(f)), At(f).key = <<>>, f.num # <<>> => f.num[Len(f.num)] > 0,
           f.num # <<>> => Last(CountDown(f.num)) # 0,
           g.num = CountDown(f.num), g.kp = f.kp, g.vp = f.vp \o At(f).data,
           NEW e, NEW log, NEW root, NEW keys, ~root, Tracked(f, a, root, TRUE, e, log, keys)
    PROVE  Tracked(g, a, root, FALSE, e, log, keys)
  <1>1. g.pt = f.pt /\ g.it = f.it /\ At(g) = At(f)
    BY DEF SamePlace, At
  <1>2. Done(f, TRUE) = f.it - 1 /\ Done(g, FALSE) = f.it
    BY <1>1 DEF Done
  <1>3. /\ f.it - 1 < Len(f.pt.kids) /\ f.it \in Nat /\ Len(f.pt.kids) \in Nat
    BY AtChildFacts
  <1>4. Steady(f, root, TRUE, a.pre, keys)
    BY DEF Tracked
  <1>5. /\ IsArray(f.pt) /\ g.vp = Elems(f.pt, f.it) /\ Inside(f.pt, f.it - 1) = <<>>
        /\ f.it # Len(f.pt.kids) => Inside(f.pt, f.it) = <<>>
    BY <1>4, ElementFacts
  <1>6. f.num # <<>> /\ g.num # <<>> /\ Last(g.num) = Len(f.pt.kids) - f.it
    <2>1. IsArray(f.pt)
      BY <1>5
    <2>2. f.num # <<>> /\ Last(f.num) = Len(f.pt.kids) - (f.it - 1)
      BY <1>2, <1>3, <1>4, <2>1 DEF Steady
    <2> QED
      BY <2>2, LeafCounted
  <1>7. f.it # Len(f.pt.kids)
    BY <1>3, <1>6
  <1>8. keys => Key(g.kp) = a.pre
    BY <1>2, <1>3, <1>4 DEF Steady
  <1>9. Steady(g, root, FALSE, a.pre, keys)
    BY <1>1, <1>2, <1>5, <1>6, <1>8 DEF Steady
  <1>10. Seg(log, a.start, e, a.pre, Inside(g.pt, Done(g, FALSE)), keys)
    <2>1. Inside(g.pt, Done(g, FALSE)) = Inside(f.pt, Done(f, TRUE))
      BY <1>1, <1>2, <1>5, <1>7
    <2>2. Seg(log, a.start, e, a.pre, Inside(f.pt, Done(f, TRUE)), keys)
      BY DEF Tracked
    <2> QED
      BY <2>1, <2>2
  <1> QED
    BY <1>9, <1>10 DEF Tracked

LEMMA LastElementTracked ==
    ASSUME NEW f, NEW a, AtChild(f, a), NEW g \in FrameSet, SamePlace(g, f),
           IsLeaf(At(f)), At(f).key = <<>>, f.num # <<>> => f.num[Len(f.num)] > 0,
           f.num # <<>> => Last(CountDown(f.num)) = 0,
           g.num = CountDown(f.num), g.kp = f.kp, g.vp = <<>>,
           NEW log \in Seq(Entry), NEW c \in 1..MaxCalls, NEW longer,
           longer = Grown(log, c, f.kp, f.vp \o At(f).data),
           NEW root, NEW keys, ~root, Tracked(f, a, root, TRUE, Len(log), log, keys)
    PROVE  Tracked(g, a, root, FALSE, Len(longer), longer, keys)
  <1>1. g.pt = f.pt /\ g.it = f.it /\ At(g) = At(f)
    BY DEF SamePlace, At
  <1>2. Done(f, TRUE) = f.it - 1 /\ Done(g, FALSE) = f.it
    BY <1>1 DEF Done
  <1>3. /\ f.it - 1 < Len(f.pt.kids) /\ f.it \in Nat /\ Len(f.pt.kids) \in Nat
        /\ f.kp \in Seq(Seq(Names)) /\ f.vp \in Seq(Value) /\ At(f).data \in Seq(Value)
    BY AtChildFacts
  <1>4. Steady(f, root, TRUE, a.pre, keys)
    BY DEF Tracked
  <1> DEFINE vp == f.vp \o At(f).data
  <1>5. /\ IsArray(f.pt) /\ Inside(f.pt, f.it - 1) = <<>>
        /\ f.it = Len(f.pt.kids) => Inside(f.pt, f.it) = Held(vp)
    BY <1>4, ElementFacts
  <1>6. f.num # <<>> /\ g.num # <<>> /\ Last(g.num) = Len(f.pt.kids) - f.it
    <2>1. IsArray(f.pt)
      BY <1>5
    <2>2. f.num # <<>> /\ Last(f.num) = Len(f.pt.kids) - (f.it - 1)
      BY <1>2, <1>3, <1>4, <2>1 DEF Steady
    <2> QED
      BY <2>2, LeafCounted
  <1>7. f.it = Len(f.pt.kids)
    BY <1>3, <1>6
  <1>8. keys => Key(f.kp) = a.pre
    BY <1>2, <1>3, <1>4 DEF Steady
  <1>9. Steady(g, root, FALSE, a.pre, keys)
    <2>1. IsArray(f.pt) /\ ~(f.it < Len(f.pt.kids))
      BY <1>3, <1>5, <1>7
    <2> QED
      BY <1>1, <1>2, <2>1 DEF Steady
  <1>10. vp \in Seq(Value)
    BY <1>3, ConcatProperties
  <1>11. a.start \in Nat /\ a.pre \in Seq(Names)
    BY DEF AtChild
  <1>12. Seg(log, a.start, Len(log), a.pre, <<>>, keys)
    <2>1. Seg(log, a.start, Len(log), a.pre, Inside(f.pt, Done(f, TRUE)), keys)
      BY DEF Tracked
    <2> QED
      BY <1>2, <1>5, <2>1
  <1> HIDE DEF vp
  <1> DEFINE s == a.start
             pre == a.pre
             key == <<>>
  <1>13. Seg(longer, s, Len(longer), pre, Held(vp), keys)
    <2>1. s \in Nat /\ pre \in Seq(Names) /\ key \in Seq(Names) /\ <<>> \in Flat
      BY <1>11, EmptySeq DEF Flat
    <2>2. keys => Key(f.kp) = pre \o key
      <3>1. pre \o <<>> = pre
        BY <2>1, ConcatEmptySeq
      <3> QED
        BY <1>8, <3>1
    <2>3. longer = Grown(log, c, f.kp, vp)
      BY DEF vp
    <2>4. <<>> \o Under(key, Held(vp)) = Held(vp)
      <3>1. Held(vp) \in Flat
        BY <1>10, HeldType
      <3>2. Under(<<>>, Held(vp)) = Held(vp)
        BY <3>1, UnderNothing
      <3>3. <<>> \o Held(vp) = Held(vp)
        BY <3>1, ConcatEmptySeq DEF Flat
      <3> QED
        BY <3>2, <3>3
    <2>5. Seg(log, s, Len(log), pre, <<>>, keys)
      BY <1>12
    <2> HIDE DEF s, pre, key
    <2>6. Seg(Grown(log, c, f.kp, vp), s, Len(Grown(log, c, f.kp, vp)), pre,
              <<>> \o Under(key, Held(vp)), keys)
      BY <1>3, <1>10, <2>1, <2>2, <2>5, SegGrown
    <2> QED
      BY <2>3, <2>4, <2>6
  <1>14. Inside(g.pt, Done(g, FALSE)) = Held(vp)
    BY <1>1, <1>2, <1>5, <1>7
  <1>15. Seg(longer, a.start, Len(longer), a.pre, Inside(g.pt, Done(g, FALSE)), keys)
    BY <1>13, <1>14
  <1> QED
    BY <1>9, <1>15 DEF Tracked

\* A section is unwound after the last of its children, or where keys are lost anyway.
LEMMA UnwindTracked ==
    ASSUME NEW f, NEW a, AtChild(f, a), NEW g \in FrameSet, SamePlace(g, f), IsLeaf(At(f)),
           f.num # <<>>, Last(f.num) = 0, g.vp = f.vp,
           NEW e, NEW log, NEW root, NEW keys, ~root, Tracked(f, a, root, FALSE, e, log, keys)
    PROVE  Tracked(g, a, root, FALSE, e, log, keys)
  <1>1. g.pt = f.pt /\ g.it = f.it /\ At(g) = At(f)
    BY DEF SamePlace, At
  <1>2. Done(f, FALSE) = f.it /\ Done(g, FALSE) = f.it
    BY <1>1 DEF Done
  <1>3. f.it \in Nat /\ Len(f.pt.kids) \in Nat
    BY AtChildFacts
  <1>4. Steady(f, root, FALSE, a.pre, keys)
        /\ Seg(log, a.start, e, a.pre, Inside(f.pt, Done(f, FALSE)), keys)
    BY DEF Tracked
  <1>5. ASSUME keys \/ IsArray(f.pt), f.it < Len(f.pt.kids)
        PROVE  FALSE
    <2>1. Last(f.num) = Len(f.pt.kids) - f.it
      BY <1>2, <1>4, <1>5 DEF Steady
    <2> QED
      BY <1>3, <1>5, <2>1
  <1>6. Steady(g, root, FALSE, a.pre, keys)
    BY <1>1, <1>2, <1>4, <1>5 DEF Steady
  <1>7. Inside(g.pt, Done(g, FALSE)) = Inside(f.pt, Done(f, FALSE))
    BY <1>1, <1>2
  <1>8. Seg(log, a.start, e, a.pre, Inside(g.pt, Done(g, FALSE)), keys)
    BY <1>4, <1>7
  <1> QED
    BY <1>6, <1>8 DEF Tracked

----------------------------------------------------------------------------
(* The walk of a file whose values are all found.                          *)

\* The marks m fit the stack, and begin with what the call has inserted.
Matched(m, visits) ==
    /\ Fits(m, stack, Len(stack), inserted, visits, IsOrderly(file))
    /\ OfCall(inserted, Len(inserted), calls, m[1].start)

\* The walk of a regular file, at every step of it.
RegularWalk ==
    IsRegular(file) => /\ pc = "visit" => \E m \in Marks : Matched(m, TRUE)
                       /\ pc = "unwind" => \E m \in Marks : Matched(m, FALSE)

LEMMA RegularBelow ==
    ASSUME IInv, Running
    PROVE  \A d \in 1..(Len(stack) - 1) : Inside(stack[d].pt, Done(stack[d], FALSE)) \in Flat
  <1> SUFFICES ASSUME NEW d \in 1..(Len(stack) - 1)
               PROVE  Inside(stack[d].pt, Done(stack[d], FALSE)) \in Flat
    OBVIOUS
  <1>1. d \in 1..Len(stack) /\ d # Len(stack)
    BY Frames
  <1>2. /\ stack[d].pt \in Node /\ Len(stack[d].pt.kids) \in Nat
        /\ stack[d].it \in 1..(Len(stack[d].pt.kids) + 1)
        /\ stack[d].it <= Len(stack[d].pt.kids)
    BY <1>1, Frames
  <1>3. Done(stack[d], FALSE) \in 0..Len(stack[d].pt.kids)
    BY <1>2 DEF Done
  <1> QED
    BY <1>2, <1>3, InsideType

LEMMA RegularTop ==
    ASSUME IInv, PlainWalk, IsRegular(file), Running, Top.it <= Len(Top.pt.kids),
           NEW m \in Marks
    PROVE  /\ AtChild(Top, m[Len(stack)]) /\ Top = stack[Len(stack)] /\ Child = At(Top)
           /\ Len(stack) \in Nat \ {0}
           /\ IsLeaf(At(Top)) => Len(stack) # 1
           /\ IsOrderly(file) => SectionLast(Top.pt)
           /\ inserted \in Seq(Entry) /\ calls \in 1..MaxCalls
  <1>1. IsPlain(file)
    BY DEF IsRegular
  <1>2. /\ Top \in FrameSet /\ Top.pt \in Node /\ Top = stack[Len(stack)] /\ Child = At(Top)
        /\ Len(stack) \in Nat \ {0} /\ At(Top) \in Node
        /\ Nodes[Top.pt] \subseteq Nodes[file] /\ SectionsNamed(Top.pt)
        /\ IsLeaf(At(Top)) => Len(stack) # 1
    BY <1>1, PlainFrame
  <1>3. Top.it \in 1..Len(Top.pt.kids)
    <2>1. Len(stack) \in 1..Len(stack)
      BY <1>2
    <2>2. stack[Len(stack)].it \in 1..(Len(stack[Len(stack)].pt.kids) + 1)
          /\ Len(stack[Len(stack)].pt.kids) \in Nat
      BY <2>1, Frames
    <2>3. Top.it \in 1..(Len(Top.pt.kids) + 1) /\ Len(Top.pt.kids) \in Nat
      BY <1>2, <2>2
    <2> QED
      BY <2>3
  <1>4. Top.pt \in Nodes[file]
    BY <1>2, NodesOfKid
  <1>5. Unmixed(Top.pt) /\ (IsOrderly(file) => SectionLast(Top.pt))
    BY <1>4 DEF IsRegular, IsOrderly
  <1>6. m[Len(stack)].start \in Nat /\ m[Len(stack)].pre \in Seq(Names)
    BY <1>2 DEF Marks
  <1>7. AtChild(Top, m[Len(stack)])
    BY <1>2, <1>3, <1>5, <1>6 DEF AtChild
  <1>8. inserted \in Seq(Entry) /\ calls \in 1..MaxCalls
    BY DEF IInv, Ledger, Walking
  <1> QED
    BY <1>2, <1>5, <1>7, <1>8

\* A turn of the running frame, with what it inserts if anything.
LEMMA RegularTurn ==
    ASSUME IInv, PlainWalk, IsRegular(file), Running, Top.it <= Len(Top.pt.kids),
           file' = file, calls' = calls, pc' = "unwind",
           NEW m \in Marks, NEW v, Matched(m, v),
           NEW kp \in Seq(Seq(Names)), NEW vp \in Seq(Value),
           inserted' = Grown(inserted, calls, kp, vp),
           NEW g \in FrameSet, Turn(g), SamePlace(g, Top),
           Tracked(g, m[Len(stack)], Len(stack) = 1, FALSE, Len(inserted'), inserted',
                   IsOrderly(file))
    PROVE  RegularWalk'
  <1> DEFINE n == Len(stack)
  <1>1. n \in Nat \ {0} /\ Top = stack[n] /\ inserted \in Seq(Entry) /\ calls \in 1..MaxCalls
    BY RegularTop
  <1>2. Len(stack') = n /\ stack'[n] = g /\ \A d \in 1..(n - 1) : stack'[d] = stack[d]
    BY DEF Turn
  <1>3. g.pt = stack[n].pt
    BY <1>1 DEF SamePlace
  <1>4. /\ Prefix(inserted, inserted')
        /\ \A i \in 1..Len(inserted') : i > Len(inserted) => inserted'[i].call = calls
    BY <1>1, GrownType
  <1>5. Fits(m, stack, n, inserted, v, IsOrderly(file))
        /\ OfCall(inserted, Len(inserted), calls, m[1].start)
    BY DEF Matched
  <1>6. \A d \in 1..(n - 1) : Inside(stack[d].pt, Done(stack[d], FALSE)) \in Flat
    BY RegularBelow
  <1>7. Fits(m, stack', n, inserted', FALSE, IsOrderly(file))
    <2> DEFINE keys == IsOrderly(file)
               stk == stack
               new == stack'
               log == inserted
               longer == inserted'
    <2>1. Tracked(new[n], m[n], n = 1, FALSE, Len(longer), longer, keys)
      BY <1>2
    <2>2. new[n].pt = stk[n].pt /\ \A d \in 1..(n - 1) : new[d] = stk[d]
      BY <1>2, <1>3
    <2>3. Fits(m, stk, n, log, v, keys) /\ Prefix(log, longer)
      BY <1>4, <1>5
    <2>4. \A d \in 1..(n - 1) : Inside(stk[d].pt, Done(stk[d], FALSE)) \in Flat
      BY <1>6
    <2> HIDE DEF keys, stk, new, log, longer, n
    <2>5. Fits(m, new, n, longer, FALSE, keys)
      BY <1>1, <2>1, <2>2, <2>3, <2>4, FitsTurn
    <2> QED
      BY <2>5 DEF keys, new, longer
  <1>8. m[1].start <= Len(inserted)
    <2> DEFINE keys == IsOrderly(file)
               stk == stack
               log == inserted
    <2>1. Inside(stk[n].pt, Done(stk[n], v)) \in Flat
      <3>1. Inside(Top.pt, Top.it) \in Flat /\ Inside(Top.pt, Top.it - 1) \in Flat
        BY RegularTop, AtChildFacts
      <3>2. Done(Top, v) = Top.it \/ Done(Top, v) = Top.it - 1
        BY DEF Done
      <3>3. Inside(Top.pt, Done(Top, v)) \in Flat
        BY <3>1, <3>2
      <3> QED
        BY <1>1, <3>3
    <2>2. Fits(m, stk, n, log, v, keys) /\ log \in Seq(Entry)
      BY <1>1, <1>5
    <2>3. \A d \in 1..(n - 1) : Inside(stk[d].pt, Done(stk[d], FALSE)) \in Flat
      BY <1>6
    <2> HIDE DEF keys, stk, log, n
    <2>4. m[1].start <= Len(log)
      BY <1>1, <2>1, <2>2, <2>3, FitsStart
    <2> QED
      BY <2>4 DEF log
  <1>9. OfCall(inserted', Len(inserted'), calls, m[1].start)
    <2> SUFFICES ASSUME NEW i \in 1..Len(inserted')
                 PROVE  inserted'[i].call = calls <=> i > m[1].start
      BY DEF OfCall
    <2>1. CASE i <= Len(inserted)
      <3>1. i \in 1..Len(inserted) /\ inserted'[i] = inserted[i]
        BY <1>4, <2>1 DEF Prefix
      <3> QED
        BY <1>5, <3>1 DEF OfCall
    <2>2. CASE ~(i <= Len(inserted))
      <3>1. Len(inserted) \in Nat /\ Len(inserted') \in Nat
        BY <1>4 DEF Prefix
      <3>2. i > Len(inserted)
        BY <2>2, <3>1
      <3> DEFINE s == m[1].start
      <3>3. s \in Nat /\ s <= Len(inserted)
        BY <1>1, <1>8 DEF Marks
      <3> HIDE DEF s
      <3>4. i > s
        BY <3>1, <3>2, <3>3
      <3>5. i > m[1].start
        BY <3>4 DEF s
      <3>6. inserted'[i].call = calls
        BY <1>4, <3>2
      <3> QED
        BY <3>5, <3>6
    <2> QED
      BY <2>1, <2>2
  <1>10. Matched(m, FALSE)'
    BY <1>2, <1>7, <1>9 DEF Matched
  <1> QED
    BY <1>10 DEF RegularWalk

----------------------------------------------------------------------------
(* What each visit leaves of it.                                           *)

\* The marks of the running frame's walk, and what they say of it.
LEMMA RegularVisit ==
    ASSUME IInv, PlainWalk, IsRegular(file), RegularWalk, Visiting
    PROVE  /\ Running /\ Top.it <= Len(Top.pt.kids) /\ Top \in FrameSet
           /\ Top.num # <<>> => Top.num[Len(Top.num)] > 0
           /\ Child = At(Top) /\ Child.key \in Seq(Names) /\ Top.vp \o Child.data \in Seq(Value)
           /\ Append(Top.kp, Child.key) \in Seq(Seq(Names)) /\ Top.kp \in Seq(Seq(Names))
           /\ IsLeaf(Child) => Len(stack) # 1
           /\ inserted \in Seq(Entry) /\ calls \in 1..MaxCalls
           /\ \E m \in Marks :
                 /\ Matched(m, TRUE) /\ AtChild(Top, m[Len(stack)])
                 /\ Tracked(Top, m[Len(stack)], Len(stack) = 1, TRUE, Len(inserted), inserted,
                            IsOrderly(file))
  <1>1. /\ Running /\ Top.it <= Len(Top.pt.kids) /\ pc = "visit"
    BY DEF Visiting, Running
  <1>2. /\ Top \in FrameSet /\ Child = At(Top)
        /\ Top.num # <<>> => Top.num[Len(Top.num)] > 0
        /\ Top.kp \in Seq(Seq(Names))
    BY VisitCounter
  <1>3. /\ Child.key \in Seq(Names) /\ Top.vp \o Child.data \in Seq(Value)
        /\ Append(Top.kp, Child.key) \in Seq(Seq(Names))
    BY VisitingFrame
  <1>4. PICK m \in Marks : Matched(m, TRUE)
    BY <1>1 DEF RegularWalk
  <1>5. /\ AtChild(Top, m[Len(stack)]) /\ Top = stack[Len(stack)]
        /\ IsLeaf(At(Top)) => Len(stack) # 1
        /\ inserted \in Seq(Entry) /\ calls \in 1..MaxCalls
    BY <1>1, RegularTop
  <1>6. Tracked(Top, m[Len(stack)], Len(stack) = 1, TRUE, Len(inserted), inserted,
                IsOrderly(file))
    BY <1>4, <1>5 DEF Matched, Fits
  <1> QED
    BY <1>1, <1>2, <1>3, <1>4, <1>5, <1>6

LEMMA RegularSection ==
    ASSUME IInv, PlainWalk, IsRegular(file), RegularWalk, VisitSection
    PROVE  RegularWalk'
  <1>1. Visiting /\ pc' = "unwind" /\ file' = file /\ calls' = calls /\ inserted' = inserted
    BY DEF VisitSection
  <1>2. /\ Running /\ Top.it <= Len(Top.pt.kids) /\ Child = At(Top)
        /\ inserted \in Seq(Entry) /\ calls \in 1..MaxCalls /\ Top.kp \in Seq(Seq(Names))
    BY <1>1, RegularVisit
  <1>3. PICK m \in Marks :
            /\ Matched(m, TRUE) /\ AtChild(Top, m[Len(stack)])
            /\ Tracked(Top, m[Len(stack)], Len(stack) = 1, TRUE, Len(inserted), inserted,
                       IsOrderly(file))
    BY <1>1, RegularVisit
  <1>4. ~IsLeaf(Child)
    BY SectionTurn
  <1>5. PICK g \in FrameSet :
            /\ Turn(g) /\ SamePlace(g, Top)
            /\ g.kp = (IF Child.key = <<>> THEN Top.kp ELSE Append(Top.kp, Child.key))
            /\ g.vp = Top.vp
    BY SectionTurn
  <1>6. g.kp = Append(Top.kp, At(Top).key)
    <2>1. At(Top).key # <<>>
      BY <1>2, <1>3, <1>4, AtChildFacts
    <2> QED
      BY <1>2, <1>5, <2>1
  <1>7. Tracked(g, m[Len(stack)], Len(stack) = 1, FALSE, Len(inserted), inserted,
                IsOrderly(file))
    BY <1>2, <1>3, <1>4, <1>5, <1>6, SectionTracked
  <1>8. Tracked(g, m[Len(stack)], Len(stack) = 1, FALSE, Len(inserted'), inserted',
                IsOrderly(file))
    BY <1>1, <1>7
  <1>9. inserted' = Grown(inserted, calls, Top.kp, <<>>) /\ <<>> \in Seq(Value)
    BY <1>1, EmptySeq DEF Grown
  <1> QED
    BY <1>1, <1>2, <1>3, <1>5, <1>8, <1>9, RegularTurn

LEMMA InsertGrows ==
    ASSUME NEW kp, NEW vp, NEW props, insertProperty(kp, vp, props)
    PROVE  inserted' = Grown(inserted, calls, kp, vp)
  BY DEF insertProperty, Grown

LEMMA RegularProperty ==
    ASSUME IInv, PlainWalk, IsRegular(file), RegularWalk, VisitProperty
    PROVE  RegularWalk'
  <1> DEFINE kp == Append(Top.kp, Child.key)
             vp == Top.vp \o Child.data
             n == Len(stack)
  <1>1. /\ Visiting /\ pc' = "unwind" /\ file' = file /\ calls' = calls
        /\ IsLeaf(Child) /\ Child.key # <<>>
        /\ insertProperty(kp, vp, Top.props) /\ Become(Inserted(Top, kp, vp))
    BY DEF VisitProperty, IsLeaf
  <1>2. /\ Running /\ Top.it <= Len(Top.pt.kids) /\ Child = At(Top)
        /\ Top.num # <<>> => Top.num[Len(Top.num)] > 0
        /\ kp \in Seq(Seq(Names)) /\ vp \in Seq(Value)
        /\ inserted \in Seq(Entry) /\ calls \in 1..MaxCalls
    BY <1>1, RegularVisit
  <1>3. PICK m \in Marks :
            /\ Matched(m, TRUE) /\ AtChild(Top, m[n])
            /\ Tracked(Top, m[n], n = 1, TRUE, Len(inserted), inserted, IsOrderly(file))
    BY <1>1, RegularVisit
  <1>4. PICK g \in FrameSet : /\ Turn(g) /\ SamePlace(g, Top)
                              /\ g.num = CountDown(Top.num) /\ g.kp = Top.kp /\ g.vp = <<>>
    BY <1>1, InsertedTurn
  <1>5. inserted' = Grown(inserted, calls, kp, vp)
    BY <1>1, InsertGrows
  <1>6. Tracked(g, m[n], n = 1, FALSE, Len(inserted'), inserted', IsOrderly(file))
    <2> DEFINE f == Top
               a == m[n]
               log == inserted
               longer == inserted'
               c == calls
               root == n = 1
               keys == IsOrderly(file)
    <2>1. /\ AtChild(f, a) /\ SamePlace(g, f) /\ IsLeaf(At(f)) /\ At(f).key # <<>>
          /\ f.num # <<>> => f.num[Len(f.num)] > 0
          /\ g.num = CountDown(f.num) /\ g.kp = f.kp /\ g.vp = <<>>
      BY <1>1, <1>2, <1>3, <1>4
    <2>2. /\ log \in Seq(Entry) /\ c \in 1..MaxCalls
          /\ longer = Grown(log, c, Append(f.kp, At(f).key), f.vp \o At(f).data)
      BY <1>2, <1>5
    <2>3. Tracked(f, a, root, TRUE, Len(log), log, keys)
      BY <1>3
    <2> HIDE DEF f, a, log, longer, c, root, keys
    <2>4. Tracked(g, a, root, FALSE, Len(longer), longer, keys)
      BY <2>1, <2>2, <2>3, PropertyTracked
    <2> QED
      BY <2>4 DEF a, root, longer, keys
  <1> HIDE DEF kp, vp
  <1> QED
    BY <1>1, <1>2, <1>3, <1>4, <1>5, <1>6, RegularTurn

LEMMA RegularElement ==
    ASSUME IInv, PlainWalk, IsRegular(file), RegularWalk, VisitElement
    PROVE  RegularWalk'
  <1> DEFINE n == Len(stack)
  <1>1. /\ Visiting /\ pc' = "unwind" /\ file' = file /\ calls' = calls /\ inserted' = inserted
        /\ IsLeaf(Child) /\ Child.key = <<>>
        /\ Top.num # <<>> => Last(CountDown(Top.num)) # 0
    BY DEF VisitElement, IsLeaf
  <1>2. /\ Running /\ Top.it <= Len(Top.pt.kids) /\ Child = At(Top) /\ n # 1
        /\ Top.num # <<>> => Top.num[Len(Top.num)] > 0
        /\ Top.kp \in Seq(Seq(Names))
    BY <1>1, RegularVisit
  <1>3. PICK m \in Marks :
            /\ Matched(m, TRUE) /\ AtChild(Top, m[n])
            /\ Tracked(Top, m[n], n = 1, TRUE, Len(inserted), inserted, IsOrderly(file))
    BY <1>1, RegularVisit
  <1>4. PICK g \in FrameSet : /\ Turn(g) /\ SamePlace(g, Top)
                              /\ g.num = CountDown(Top.num) /\ g.kp = Top.kp
                              /\ g.vp = Top.vp \o Child.data
    BY ElementTurn
  <1>5. Tracked(g, m[n], n = 1, FALSE, Len(inserted'), inserted', IsOrderly(file))
    <2> DEFINE f == Top
               a == m[n]
               log == inserted
               root == n = 1
               keys == IsOrderly(file)
    <2>1. /\ AtChild(f, a) /\ SamePlace(g, f) /\ IsLeaf(At(f)) /\ At(f).key = <<>>
          /\ f.num # <<>> => f.num[Len(f.num)] > 0
          /\ f.num # <<>> => Last(CountDown(f.num)) # 0
          /\ g.num = CountDown(f.num) /\ g.kp = f.kp /\ g.vp = f.vp \o At(f).data /\ ~root
      BY <1>1, <1>2, <1>3, <1>4
    <2>2. Tracked(f, a, root, TRUE, Len(log), log, keys)
      BY <1>3
    <2> HIDE DEF f, a, log, root, keys
    <2>3. Tracked(g, a, root, FALSE, Len(log), log, keys)
      BY <2>1, <2>2, ElementTracked
    <2> QED
      BY <1>1, <2>3 DEF a, root, log, keys
  <1>6. inserted' = Grown(inserted, calls, Top.kp, <<>>) /\ <<>> \in Seq(Value)
    BY <1>1, EmptySeq DEF Grown
  <1> QED
    BY <1>1, <1>2, <1>3, <1>4, <1>5, <1>6, RegularTurn

LEMMA RegularLastElement ==
    ASSUME IInv, PlainWalk, IsRegular(file), RegularWalk, VisitLastElement, PlainWalk'
    PROVE  RegularWalk'
  <1> DEFINE vp == Top.vp \o Child.data
             n == Len(stack)
  <1>1. /\ Visiting /\ file' = file /\ calls' = calls
        /\ IsLeaf(Child) /\ Child.key = <<>>
        /\ Top.num # <<>> => Last(CountDown(Top.num)) = 0
        /\ insertProperty(Top.kp, vp, Top.props) /\ Become(Inserted(Top, Top.kp, vp))
        /\ pc' \in {"crashed", "unwind"}
    BY DEF VisitLastElement, IsLeaf
  <1>2. /\ Running /\ Top.it <= Len(Top.pt.kids) /\ Child = At(Top) /\ n # 1
        /\ Top.num # <<>> => Top.num[Len(Top.num)] > 0
        /\ Top.kp \in Seq(Seq(Names)) /\ vp \in Seq(Value)
        /\ inserted \in Seq(Entry) /\ calls \in 1..MaxCalls
    BY <1>1, RegularVisit
  <1>3. PICK m \in Marks :
            /\ Matched(m, TRUE) /\ AtChild(Top, m[n])
            /\ Tracked(Top, m[n], n = 1, TRUE, Len(inserted), inserted, IsOrderly(file))
    BY <1>1, RegularVisit
  <1>4. PICK g \in FrameSet : /\ Turn(g) /\ SamePlace(g, Top)
                              /\ g.num = CountDown(Top.num) /\ g.kp = Top.kp /\ g.vp = <<>>
    BY <1>1, InsertedTurn
  <1>5. inserted' = Grown(inserted, calls, Top.kp, vp)
    BY <1>1, InsertGrows
  <1>6. Tracked(g, m[n], n = 1, FALSE, Len(inserted'), inserted', IsOrderly(file))
    <2> DEFINE f == Top
               a == m[n]
               log == inserted
               longer == inserted'
               c == calls
               root == n = 1
               keys == IsOrderly(file)
    <2>1. /\ AtChild(f, a) /\ SamePlace(g, f) /\ IsLeaf(At(f)) /\ At(f).key = <<>>
          /\ f.num # <<>> => f.num[Len(f.num)] > 0
          /\ f.num # <<>> => Last(CountDown(f.num)) = 0
          /\ g.num = CountDown(f.num) /\ g.kp = f.kp /\ g.vp = <<>> /\ ~root
      BY <1>1, <1>2, <1>3, <1>4
    <2>2. /\ log \in Seq(Entry) /\ c \in 1..MaxCalls
          /\ longer = Grown(log, c, f.kp, f.vp \o At(f).data)
      BY <1>2, <1>5
    <2>3. Tracked(f, a, root, TRUE, Len(log), log, keys)
      BY <1>3
    <2> HIDE DEF f, a, log, longer, c, root, keys
    <2>4. Tracked(g, a, root, FALSE, Len(longer), longer, keys)
      BY <2>1, <2>2, <2>3, LastElementTracked
    <2> QED
      BY <2>4 DEF a, root, longer, keys
  <1>7. pc' = "unwind"
    BY <1>1 DEF PlainWalk, IsRegular
  <1> HIDE DEF vp
  <1> QED
    BY <1>1, <1>2, <1>3, <1>4, <1>5, <1>6, <1>7, RegularTurn

LEMMA RegularUnwind ==
    ASSUME IInv, PlainWalk, IsRegular(file), RegularWalk, Unwind, PlainWalk'
    PROVE  RegularWalk'
  <1> DEFINE n == Len(stack)
  <1>1. /\ pc = "unwind" /\ Running /\ Top.num # <<>> /\ Last(Top.num) = 0 /\ file' = file
        /\ calls' = calls /\ inserted' = inserted
    BY DEF Unwind, SectionComplete, Running
  <1>2. Top.it <= Len(Top.pt.kids) /\ Top \in FrameSet /\ IsPlain(file)
    BY <1>1, TopType DEF IInv, Walking, IsRegular
  <1>3. IsLeaf(At(Top)) /\ Top.kp # <<>>
    <2>1. pc' # "crashed"
      BY <1>1, <1>2 DEF PlainWalk
    <2> QED
      BY <1>2, <2>1, UnwindsAtLeaf DEF Unwind
  <1>4. PICK m \in Marks : Matched(m, FALSE)
    BY <1>1 DEF RegularWalk
  <1>5. AtChild(Top, m[n]) /\ Top = stack[n] /\ n # 1
    BY <1>1, <1>2, <1>3, RegularTop
  <1>6. Tracked(Top, m[n], n = 1, FALSE, Len(inserted), inserted, IsOrderly(file))
    BY <1>4, <1>5 DEF Matched, Fits
  <1>7. pc' = "unwind"
    BY <1>3, UnwindTurn
  <1>8. PICK g \in FrameSet : Turn(g) /\ SamePlace(g, Top) /\ g.vp = Top.vp
    BY <1>3, UnwindTurn
  <1>9. Tracked(g, m[n], n = 1, FALSE, Len(inserted'), inserted', IsOrderly(file))
    <2> DEFINE f == Top
               a == m[n]
               log == inserted
               root == n = 1
               keys == IsOrderly(file)
    <2>1. /\ AtChild(f, a) /\ SamePlace(g, f) /\ IsLeaf(At(f)) /\ f.num # <<>>
          /\ Last(f.num) = 0 /\ g.vp = f.vp /\ ~root
      BY <1>1, <1>3, <1>5, <1>8
    <2>2. Tracked(f, a, root, FALSE, Len(log), log, keys)
      BY <1>6
    <2> HIDE DEF f, a, log, root, keys
    <2>3. Tracked(g, a, root, FALSE, Len(log), log, keys)
      BY <2>1, <2>2, UnwindTracked
    <2> QED
      BY <1>1, <2>3 DEF a, root, log, keys
  <1>10. inserted' = Grown(inserted, calls, Top.kp, <<>>) /\ <<>> \in Seq(Value)
         /\ Top.kp \in Seq(Seq(Names))
    BY <1>1, <1>2, EmptySeq DEF Grown, FrameSet
  <1> QED
    BY <1>1, <1>2, <1>4, <1>7, <1>8, <1>9, <1>10, RegularTurn

----------------------------------------------------------------------------
(* Calls and returns.                                                      *)

\* Frame g, marked b, goes on the n frames of stk, marked by m, which makes it new.
Opens(m, stk, n, log, g, b, root, new) ==
    /\ n \in Nat \ {0} /\ m \in Marks /\ b \in [start : Nat, pre : Seq(Names)]
    /\ b.start = Len(log) /\ b.pre = m[n].pre \o g.pt.key
    /\ root = (n + 1 = 1)
    /\ new[n + 1] = g /\ \A d \in 1..n : new[d] = stk[d]

LEMMA FitsPush ==
    ASSUME NEW m, NEW stk, NEW n, NEW log, NEW keys, Fits(m, stk, n, log, FALSE, keys),
           NEW g, NEW b, NEW root, Tracked(g, b, root, TRUE, Len(log), log, keys),
           NEW new, Opens(m, stk, n, log, g, b, root, new)
    PROVE  \E o \in Marks : o[1] = m[1] /\ Fits(o, new, n + 1, log, TRUE, keys)
  <1>0. /\ n \in Nat \ {0} /\ m \in Marks /\ b \in [start : Nat, pre : Seq(Names)]
        /\ b.start = Len(log) /\ b.pre = m[n].pre \o g.pt.key
        /\ root = (n + 1 = 1)
        /\ new[n + 1] = g /\ \A d \in 1..n : new[d] = stk[d]
    BY Zenon DEF Opens
  <1> DEFINE o == [m EXCEPT ![n + 1] = b]
  <1>1. o \in Marks /\ o[n + 1] = b /\ \A d \in 1..n : o[d] = m[d]
    <2> DEFINE E == [start : Nat, pre : Seq(Names)]
               k == n + 1
    <2>1. k \in Nat /\ \A d \in 1..n : d \in Nat /\ d # k
      BY <1>0
    <2>2. m \in [Nat -> E] /\ b \in E
      BY <1>0 DEF Marks
    <2>3. o = [m EXCEPT ![k] = b]
      OBVIOUS
    <2> HIDE DEF E, k, o
    <2>4. o \in [Nat -> E] /\ o[k] = b /\ \A d \in 1..n : o[d] = m[d]
      BY <2>1, <2>2, <2>3
    <2> QED
      BY <2>4 DEF Marks, E, k
  <1> HIDE DEF o
  <1>2. o[1] = m[1] /\ o[1].pre = <<>>
    <2>1. o[1] = m[1]
      BY <1>0, <1>1
    <2> QED
      BY <2>1 DEF Fits
  <1>3. ASSUME NEW d \in 1..((n + 1) - 1)
        PROVE  /\ Tracked(new[d], o[d], d = 1, FALSE, o[d + 1].start, log, keys)
               /\ o[d + 1].pre = o[d].pre \o new[d + 1].pt.key
    <2>1. d \in 1..n /\ new[d] = stk[d] /\ o[d] = m[d]
      BY <1>0, <1>1
    <2>2. CASE d = n
      <3>1. Tracked(stk[n], m[n], n = 1, FALSE, Len(log), log, keys)
        BY DEF Fits
      <3>2. new[d + 1] = g /\ o[d + 1] = b
        BY <1>0, <1>1, <2>2
      <3>3. Tracked(new[d], o[d], d = 1, FALSE, o[d + 1].start, log, keys)
        BY <1>0, <2>1, <2>2, <3>1, <3>2, Zenon
      <3> QED
        BY <1>0, <2>1, <2>2, <3>2, <3>3, Zenon
    <2>3. CASE d # n
      <3>1. d \in 1..(n - 1) /\ d + 1 \in 1..n
        BY <1>0, <2>1, <2>3
      <3>2. new[d + 1] = stk[d + 1] /\ o[d + 1] = m[d + 1]
        BY <1>0, <1>1, <3>1
      <3>3. /\ Tracked(stk[d], m[d], d = 1, FALSE, m[d + 1].start, log, keys)
            /\ m[d + 1].pre = m[d].pre \o stk[d + 1].pt.key
        BY <3>1 DEF Fits
      <3> QED
        BY <2>1, <3>2, <3>3
    <2> QED
      BY <2>2, <2>3
  <1>4. Tracked(new[n + 1], o[n + 1], n + 1 = 1, TRUE, Len(log), log, keys)
    BY <1>0, <1>1, Zenon
  <1>5. Fits(o, new, n + 1, log, TRUE, keys)
    BY <1>2, <1>3, <1>4 DEF Fits
  <1> QED
    BY <1>1, <1>2, <1>5

LEMMA FitsPop ==
    ASSUME NEW n \in Nat \ {0}, NEW stk, NEW new, \A d \in 1..(n - 1) : new[d] = stk[d],
           new[n].pt = stk[n].pt, NEW log, NEW m \in Marks, NEW v, NEW keys,
           Fits(m, stk, n + 1, log, v, keys),
           Tracked(new[n], m[n], n = 1, TRUE, Len(log), log, keys)
    PROVE  Fits(m, new, n, log, TRUE, keys)
  <1>1. ASSUME NEW d \in 1..(n - 1)
        PROVE  /\ Tracked(new[d], m[d], d = 1, FALSE, m[d + 1].start, log, keys)
               /\ m[d + 1].pre = m[d].pre \o new[d + 1].pt.key
    <2>1. d \in 1..((n + 1) - 1)
      OBVIOUS
    <2>2. /\ Tracked(stk[d], m[d], d = 1, FALSE, m[d + 1].start, log, keys)
          /\ m[d + 1].pre = m[d].pre \o stk[d + 1].pt.key
      BY <2>1 DEF Fits
    <2>3. new[d + 1].pt = stk[d + 1].pt /\ new[d] = stk[d]
      <3>1. d + 1 \in 1..(n - 1) \/ d + 1 = n
        OBVIOUS
      <3> QED
        BY <3>1
    <2> QED
      BY <2>2, <2>3
  <1> QED
    BY <1>1 DEF Fits

\* The frame of a call: it begins where its caller's values, key and counter are.
LEMMA CalledTracked ==
    ASSUME NEW f, NEW a, AtChild(f, a), NEW g \in FrameSet, g.pt = At(f), g.it = 1,
           g.kp = f.kp, g.vp = f.vp, g.num = f.num, ~IsLeaf(At(f)) => Pushed(f),
           NEW log \in Seq(Entry), NEW root, NEW keys,
           Tracked(f, a, root, FALSE, Len(log), log, keys),
           NEW b, b.start = Len(log), b.pre = a.pre \o At(f).key, NEW down
    PROVE  Tracked(g, b, down, TRUE, Len(log), log, keys)
  <1>1. At(f) \in Node /\ ~IsLeaf(f.pt)
    BY AtChildFacts DEF AtChild
  <1>2. Done(g, TRUE) = 0 /\ Len(log) \in Nat
    BY LenProperties DEF Done
  <1>3. Inside(g.pt, 0) = <<>> /\ Elems(g.pt, 0) = <<>>
    BY <1>1, InsideNone, ElemsNone
  <1>4. Seg(log, b.start, Len(log), b.pre, Inside(g.pt, Done(g, TRUE)), keys)
    <2>1. Seg(log, Len(log), Len(log), b.pre, <<>>, keys)
      <3> DEFINE s == Len(log)
      <3>1. s \in Nat /\ s <= Len(log)
        BY <1>2
      <3> HIDE DEF s
      <3>2. Seg(log, s, s, b.pre, <<>>, keys)
        BY <3>1, SegNone
      <3> QED
        BY <3>2 DEF s
    <2> QED
      BY <1>2, <1>3, <2>1
  <1>5. Len(g.pt.kids) \in Nat /\ (IsLeaf(g.pt) => Len(g.pt.kids) = 0)
    BY <1>1, KidsOf
  <1>6. Steady(g, down, TRUE, b.pre, keys)
    <2>1. CASE IsLeaf(At(f))
      <3>1. IsLeaf(g.pt) /\ ~IsArray(g.pt) /\ ~(0 < Len(g.pt.kids))
        BY <1>5, <2>1 DEF IsArray
      <3> QED
        BY <1>2, <3>1 DEF Steady
    <2>2. CASE ~IsLeaf(At(f))
      <3>1. ~IsArray(f.pt) /\ Steady(f, root, FALSE, a.pre, keys)
        BY <2>2, AtChildFacts DEF Tracked
      <3>2. f.vp = <<>> /\ (keys => Key(f.kp) = b.pre)
        BY <1>1, <2>2, <3>1 DEF Steady
      <3>3. f.num # <<>> /\ Last(f.num) = Len(At(f).kids)
        BY <2>2 DEF Pushed
      <3>4. Len(g.pt.kids) - 0 = Len(g.pt.kids)
        BY <1>5
      <3>5. /\ g.num # <<>> /\ Last(g.num) = Len(g.pt.kids) - 0
            /\ g.vp = <<>> /\ (keys => Key(g.kp) = b.pre)
        BY <3>2, <3>3, <3>4
      <3> QED
        BY <1>2, <1>3, <3>5 DEF Steady
    <2> QED
      BY <2>1, <2>2
  <1> QED
    BY <1>4, <1>6 DEF Tracked

\* The caller when its call is back: what the child had to say was inserted.
LEMMA BackTracked ==
    ASSUME NEW f, NEW a, AtChild(f, a), NEW t, t.pt = At(f), t.it = Len(t.pt.kids) + 1,
           NEW b, b.start \in Nat, b.pre = a.pre \o At(f).key,
           NEW log \in Seq(Entry), NEW root, NEW down, NEW keys, keys => SectionLast(f.pt),
           Tracked(f, a, root, FALSE, b.start, log, keys),
           Tracked(t, b, down, TRUE, Len(log), log, keys),
           NEW g \in FrameSet, g.pt = f.pt, g.it = f.it + 1,
           g.kp = f.kp, g.vp = f.vp, g.num = f.num
    PROVE  Tracked(g, a, root, TRUE, Len(log), log, keys)
  <1>1. At(f) \in Node /\ f.pt \in Node /\ a.start \in Nat /\ a.pre \in Seq(Names)
    BY DEF AtChild
  <1>2. /\ Len(f.pt.kids) \in Nat /\ f.it \in Nat /\ f.it - 1 \in Nat /\ (f.it - 1) + 1 = f.it
        /\ f.it - 1 < Len(f.pt.kids) /\ ~IsLeaf(f.pt)
        /\ SectionLast(f.pt) /\ ~IsLeaf(At(f)) => f.it = Len(f.pt.kids)
        /\ ~IsLeaf(At(f)) => ~IsArray(f.pt)
        /\ At(f).key \in Seq(Names)
        /\ Inside(f.pt, f.it) \in Flat /\ Inside(f.pt, f.it - 1) \in Flat
    BY AtChildFacts
  <1>3. Len(log) \in Nat /\ Len(At(f).kids) \in Nat
    BY <1>1, KidsOf, LenProperties
  <1>4. Done(g, TRUE) = f.it /\ Done(t, TRUE) = Len(At(f).kids)
    BY <1>2, <1>3 DEF Done
  <1>5. /\ Steady(f, root, FALSE, a.pre, keys)
        /\ Seg(log, a.start, b.start, a.pre, Inside(f.pt, Done(f, FALSE)), keys)
        /\ Seg(log, b.start, Len(log), a.pre \o At(f).key, Inside(At(f), Len(At(f).kids)), keys)
    <2>1. Seg(log, b.start, Len(log), b.pre, Inside(t.pt, Done(t, TRUE)), keys)
      BY DEF Tracked
    <2> QED
      BY <1>4, <2>1 DEF Tracked
  <1>6. CASE IsLeaf(At(f))
    <2>1. Done(f, FALSE) = f.it
      BY <1>6 DEF Done
    <2>2. Steady(g, root, TRUE, a.pre, keys)
      BY <1>2, <1>4, <1>5, <1>6, <2>1 DEF Steady
    <2>3. Len(log) = b.start
      <3>1. Len(At(f).kids) = 0
        BY <1>1, <1>6, KidsOf
      <3>2. Inside(At(f), Len(At(f).kids)) = <<>>
        BY <1>1, <3>1, InsideNone
      <3>3. Len(Inside(At(f), Len(At(f).kids))) = 0
        BY <3>2, EmptySeq
      <3>4. Len(log) = b.start + Len(Inside(At(f), Len(At(f).kids)))
        BY <1>5 DEF Seg
      <3> QED
        BY <3>3, <3>4
    <2>4. Seg(log, a.start, Len(log), a.pre, Inside(g.pt, Done(g, TRUE)), keys)
      BY <1>4, <1>5, <2>1, <2>3
    <2> QED
      BY <2>2, <2>4 DEF Tracked
  <1>7. CASE ~IsLeaf(At(f))
    <2>1. Done(f, FALSE) = f.it - 1
      BY <1>7 DEF Done
    <2>2. Steady(g, root, TRUE, a.pre, keys)
      <3>1. g.vp = <<>> /\ ~IsArray(g.pt)
        BY <1>2, <1>5, <1>7 DEF Steady
      <3>2. keys => ~(f.it < Len(f.pt.kids))
        BY <1>2, <1>7
      <3> QED
        BY <1>4, <3>1, <3>2 DEF Steady
    <2> DEFINE c == At(f)
               in == Inside(f.pt, f.it - 1)
               all == Inside(c, Len(c.kids))
               s == a.start
               mid == b.start
               e == Len(log)
               pre == a.pre
               key == c.key
    <2>3. Flatten[c] = Under(key, all) /\ all \in Flat /\ Under(key, all) \in Flat
      <3>1. Flatten[c] = Under(key, all)
        BY <1>1, <1>7, FlattenInside
      <3>2. all \in Flat
        <4>1. Len(c.kids) \in 0..Len(c.kids)
          BY <1>3
        <4> QED
          BY <1>1, <4>1, InsideType
      <3> HIDE DEF all, c, key
      <3>3. key \in Seq(Names)
        BY <1>2 DEF key, c
      <3> QED
        BY <3>1, <3>2, <3>3, UnderType
    <2>4. Inside(f.pt, f.it) = in \o Under(key, all)
      <3>1. (f.it - 1) + 1 <= Len(f.pt.kids)
        BY <1>2
      <3>2. Inside(f.pt, (f.it - 1) + 1)
              = Inside(f.pt, f.it - 1) \o Flatten[f.pt.kids[(f.it - 1) + 1]]
        BY <1>1, <1>2, <1>7, <3>1, InsideNext
      <3> HIDE DEF all, key
      <3> QED
        BY <1>2, <2>3, <3>2 DEF At
    <2>5. Seg(log, s, mid, pre, in, keys) /\ Seg(log, mid, e, pre \o key, all, keys)
      BY <1>5, <2>1
    <2>6. /\ s \in Nat /\ mid \in Nat /\ e \in Nat /\ pre \in Seq(Names) /\ key \in Seq(Names)
          /\ in \in Flat
      BY <1>1, <1>2, <1>3
    <2>7. Len(log) \in Nat
      BY <1>3
    <2> HIDE DEF c, in, all, s, mid, e, pre, key
    <2>8. Seg(log, mid, e, pre, Under(key, all), keys)
      BY <2>3, <2>5, <2>6, SegUnder
    <2>9. Seg(log, s, e, pre, in \o Under(key, all), keys)
      BY <2>3, <2>5, <2>6, <2>7, <2>8, SegJoin
    <2>10. Seg(log, a.start, Len(log), a.pre, Inside(g.pt, Done(g, TRUE)), keys)
      <3>1. Inside(g.pt, Done(g, TRUE)) = in \o Under(key, all)
        BY <1>4, <2>4
      <3> QED
        BY <2>9, <3>1 DEF s, e, pre
    <2> QED
      BY <2>2, <2>10 DEF Tracked
  <1> QED
    BY <1>6, <1>7

\* A frame that waits for its call, in a file whose values are all found.
LEMMA RegularCaller ==
    ASSUME IInv, PlainWalk, IsRegular(file), Running, NEW d \in 1..(Len(stack) - 1),
           NEW m \in Marks
    PROVE  AtChild(stack[d], m[d]) /\ (IsOrderly(file) => SectionLast(stack[d].pt))
  <1>1. d \in 1..Len(stack) /\ d # Len(stack) /\ d \in Nat
    BY Frames
  <1>2. /\ stack[d] \in FrameSet /\ stack[d].pt \in Node /\ Len(stack[d].pt.kids) \in Nat
        /\ stack[d].it \in 1..(Len(stack[d].pt.kids) + 1)
        /\ stack[d].it <= Len(stack[d].pt.kids) /\ At(stack[d]) \in Node
    BY <1>1, Frames
  <1>3. stack[d].it \in 1..Len(stack[d].pt.kids)
    BY <1>2
  <1>4. Nodes[stack[d].pt] \subseteq Nodes[file]
    BY KeptBelow DEF Kept, IsRegular
  <1>5. stack[d].pt \in Nodes[file]
    BY <1>2, <1>4, NodesOfKid
  <1>6. /\ SectionsNamed(stack[d].pt) /\ Unmixed(stack[d].pt)
        /\ IsOrderly(file) => SectionLast(stack[d].pt)
    BY <1>5 DEF IsRegular, IsPlain, IsOrderly
  <1>7. m[d].start \in Nat /\ m[d].pre \in Seq(Names)
    BY <1>1 DEF Marks
  <1> QED
    BY <1>2, <1>3, <1>6, <1>7 DEF AtChild

LEMMA RegularDescend ==
    ASSUME IInv, PlainWalk, IsRegular(file), RegularWalk, Descend
    PROVE  RegularWalk'
  <1> DEFINE n == Len(stack)
             keys == IsOrderly(file)
  <1>1. /\ pc = "unwind" /\ Running /\ file' = file /\ calls' = calls /\ inserted' = inserted
        /\ pc' = "visit"
    BY DEF Descend, Running
  <1>2. Top.it <= Len(Top.pt.kids)
    BY <1>1 DEF IInv, Walking
  <1>3. PICK m \in Marks : Matched(m, FALSE)
    BY <1>1 DEF RegularWalk
  <1>4. /\ AtChild(Top, m[n]) /\ Top = stack[n] /\ n \in Nat \ {0} /\ Child = At(Top)
        /\ inserted \in Seq(Entry)
    BY <1>1, <1>2, RegularTop
  <1>5. Len(stack') = n + 1 /\ \A d \in 1..n : stack'[d] = stack[d]
    BY DescendPush
  <1>6. PICK g \in FrameSet : /\ stack'[n + 1] = g /\ g.pt = Child /\ g.it = 1
                              /\ g.kp = Top.kp /\ g.vp = Top.vp /\ g.num = Top.num
    BY DescendPush
  <1>7. ~IsLeaf(At(Top)) => Pushed(Top)
    BY <1>1 DEF PlainWalk, IsRegular
  <1>8. Fits(m, stack, n, inserted, FALSE, keys)
        /\ OfCall(inserted, Len(inserted), calls, m[1].start)
    BY <1>3 DEF Matched
  <1> DEFINE b == [start |-> Len(inserted), pre |-> m[n].pre \o At(Top).key]
  <1>9. /\ b \in [start : Nat, pre : Seq(Names)]
        /\ b.start = Len(inserted) /\ b.pre = m[n].pre \o At(Top).key
    <2>1. Len(inserted) \in Nat
      BY <1>4, LenProperties
    <2>2. m[n].pre \o At(Top).key \in Seq(Names)
      <3>1. m[n].pre \in Seq(Names) /\ At(Top).key \in Seq(Names)
        BY <1>4, AtChildFacts DEF AtChild
      <3> QED
        BY <3>1, ConcatProperties
    <2> QED
      BY <2>1, <2>2
  <1> HIDE DEF b
  <1>10. PICK o \in Marks : o[1] = m[1] /\ Fits(o, stack', n + 1, inserted, TRUE, keys)
    <2> DEFINE stk == stack
               new == stack'
               log == inserted
               f == Top
               a == m[n]
               root == n = 1
               down == n + 1 = 1
    <2>1. /\ AtChild(f, a) /\ g.pt = At(f) /\ g.it = 1 /\ g.kp = f.kp /\ g.vp = f.vp
          /\ g.num = f.num /\ (~IsLeaf(At(f)) => Pushed(f)) /\ log \in Seq(Entry)
          /\ b.start = Len(log) /\ b.pre = a.pre \o At(f).key
      BY <1>4, <1>6, <1>7, <1>9
    <2>2. Tracked(f, a, root, FALSE, Len(log), log, keys)
      BY <1>4, <1>8 DEF Fits
    <2>3. new[n + 1] = g /\ (\A d \in 1..n : new[d] = stk[d]) /\ a = m[n]
      BY <1>5, <1>6
    <2>4. Fits(m, stk, n, log, FALSE, keys)
      BY <1>8
    <2>9. n \in Nat \ {0} /\ m \in Marks /\ b \in [start : Nat, pre : Seq(Names)]
      BY <1>4, <1>9
    <2> HIDE DEF f, a, log, keys, n, stk, new, root, down
    <2>5. Tracked(g, b, down, TRUE, Len(log), log, keys)
      BY <2>1, <2>2, CalledTracked
    <2>6. down = (n + 1 = 1)
      BY DEF down
    <2>7. b.pre = m[n].pre \o g.pt.key /\ b.start = Len(log)
      BY <2>1, <2>3
    <2>8. \E o \in Marks : o[1] = m[1] /\ Fits(o, new, n + 1, log, TRUE, keys)
      <3>1. new[n + 1] = g /\ \A d \in 1..n : new[d] = stk[d]
        BY <2>3
      <3>2. Opens(m, stk, n, log, g, b, down, new)
        BY <2>6, <2>7, <2>9, <3>1, Zenon DEF Opens
      <3> QED
        BY <2>4, <2>5, <3>2, FitsPush, Zenon
    <2> QED
      BY <2>8 DEF new, log
  <1>11. Matched(o, TRUE)'
    BY <1>1, <1>5, <1>8, <1>10 DEF Matched
  <1> QED
    BY <1>1, <1>11 DEF RegularWalk

LEMMA RegularReturn ==
    ASSUME IInv, PlainWalk, IsRegular(file), RegularWalk, Return
    PROVE  RegularWalk'
  <1> DEFINE n == Len(stack) - 1
             keys == IsOrderly(file)
  <1>1. /\ pc = "visit" /\ Running /\ file' = file /\ calls' = calls /\ inserted' = inserted
        /\ pc' = "visit"
    BY DEF Return, Running
  <1>2. /\ n \in Nat \ {0} /\ Len(stack) = n + 1 /\ Len(stack') = n
        /\ Top.it = Len(Top.pt.kids) + 1
        /\ \A d \in 1..(n - 1) : stack'[d] = stack[d]
    <2>1. /\ Len(stack) - 1 \in Nat \ {0} /\ Len(stack') = Len(stack) - 1
          /\ Top.it = Len(Top.pt.kids) + 1
          /\ \A d \in 1..(Len(stack) - 2) : stack'[d] = stack[d]
      BY ReturnPop
    <2>2. Len(stack) \in Nat
      BY <1>1, Frames
    <2>3. Len(stack) - 2 = n - 1 /\ Len(stack) = n + 1
      BY <2>2
    <2> QED
      BY <2>1, <2>3
  <1>3. PICK g \in FrameSet : /\ stack'[n] = g /\ g.pt = stack[n].pt /\ g.it = stack[n].it + 1
                              /\ g.kp = stack[n].kp /\ g.vp = stack[n].vp /\ g.num = stack[n].num
    BY ReturnPop
  <1> HIDE DEF n
  <1>4. PICK m \in Marks : Matched(m, TRUE)
    BY <1>1 DEF RegularWalk
  <1>5. AtChild(stack[n], m[n]) /\ (keys => SectionLast(stack[n].pt))
    <2>1. n \in 1..(Len(stack) - 1)
      BY <1>2
    <2> QED
      BY <1>1, <2>1, RegularCaller
  <1>6. /\ Fits(m, stack, n + 1, inserted, TRUE, keys)
        /\ OfCall(inserted, Len(inserted), calls, m[1].start)
    BY <1>2, <1>4 DEF Matched
  <1>7. Top = stack[n + 1] /\ Top.pt = At(stack[n])
    <2>1. n \in 1..Len(stack) /\ n # Len(stack)
      BY <1>2
    <2>2. stack[n + 1].pt = At(stack[n])
      <3>1. \A d \in 1..Len(stack) : d # Len(stack) => stack[d + 1].pt = At(stack[d])
        BY <1>1, Frames
      <3> QED
        BY <2>1, <3>1
    <2> QED
      BY <1>2, <2>2 DEF Top
  <1>8. inserted \in Seq(Entry) /\ m[n + 1].start \in Nat
    BY <1>2 DEF IInv, Ledger, Marks
  <1>9. /\ Tracked(stack[n], m[n], n = 1, FALSE, m[n + 1].start, inserted, keys)
        /\ m[n + 1].pre = m[n].pre \o stack[n + 1].pt.key
        /\ Tracked(stack[n + 1], m[n + 1], n + 1 = 1, TRUE, Len(inserted), inserted, keys)
    <2>1. n \in 1..((n + 1) - 1)
      BY <1>2
    <2> QED
      BY <1>6, <2>1 DEF Fits
  <1>10. Tracked(g, m[n], n = 1, TRUE, Len(inserted), inserted, keys)
    <2> DEFINE f == stack[n]
               a == m[n]
               t == stack[n + 1]
               b == m[n + 1]
               log == inserted
               root == n = 1
               down == n + 1 = 1
    <2>1. /\ AtChild(f, a) /\ t.pt = At(f) /\ t.it = Len(t.pt.kids) + 1
          /\ b.start \in Nat /\ b.pre = a.pre \o At(f).key /\ log \in Seq(Entry)
          /\ g.pt = f.pt /\ g.it = f.it + 1 /\ g.kp = f.kp /\ g.vp = f.vp /\ g.num = f.num
      BY <1>2, <1>3, <1>5, <1>7, <1>8, <1>9
    <2>2. keys => SectionLast(f.pt)
      BY <1>5
    <2>3. /\ Tracked(f, a, root, FALSE, b.start, log, keys)
          /\ Tracked(t, b, down, TRUE, Len(log), log, keys)
      BY <1>9
    <2> HIDE DEF f, a, t, b, log, root, down, keys
    <2>4. Tracked(g, a, root, TRUE, Len(log), log, keys)
      BY <2>1, <2>2, <2>3, BackTracked
    <2> QED
      BY <2>4 DEF a, root, log
  <1>11. Fits(m, stack', n, inserted, TRUE, keys)
    <2> DEFINE stk == stack
               new == stack'
               log == inserted
    <2>1. /\ \A d \in 1..(n - 1) : new[d] = stk[d]
          /\ new[n].pt = stk[n].pt
      BY <1>2, <1>3
    <2>2. Tracked(new[n], m[n], n = 1, TRUE, Len(log), log, keys)
      BY <1>3, <1>10
    <2>3. Fits(m, stk, n + 1, log, TRUE, keys)
      BY <1>6
    <2> HIDE DEF stk, new, log, keys
    <2>4. Fits(m, new, n, log, TRUE, keys)
      BY <1>2, <2>1, <2>2, <2>3, FitsPop
    <2> QED
      BY <2>4 DEF new, log
  <1>12. Matched(m, TRUE)'
    BY <1>1, <1>2, <1>6, <1>11 DEF Matched
  <1> QED
    BY <1>1, <1>12 DEF RegularWalk

----------------------------------------------------------------------------
(* Readings from beginning to end.                                         *)

\* No entry is of a call to come, and a call that runs has no result yet.
Calling ==
    /\ \A i \in 1..Len(inserted) : inserted[i].call <= calls
    /\ Running => result = "none"

\* What the last call inserted is what its file says.
RegularDone ==
    result = "read" /\ IsRegular(file) =>
        \E base \in Nat :
            /\ OfCall(inserted, Len(inserted), calls, base)
            /\ Seg(inserted, base, Len(inserted), <<>>, Flatten[file], IsOrderly(file))

LEMMA CallingNext == IInv /\ Calling /\ [Next]_vars => Calling'
  <1> SUFFICES ASSUME IInv, Calling, [Next]_vars PROVE Calling'
    OBVIOUS
  <1>1. calls \in Nat /\ inserted \in Seq(Entry) /\ (Running => calls \in 1..MaxCalls)
    <2>1. calls \in 0..MaxCalls /\ inserted \in Seq(Entry) /\ (Running => calls \in 1..MaxCalls)
      BY DEF IInv, Rest, Ledger, Walking
    <2> QED
      BY <2>1
  <1>2. CASE VisitProperty \/ VisitLastElement
    <2>1. /\ Visiting /\ Running /\ calls' = calls /\ result' = result
          /\ \E kp \in Seq(Seq(Names)), vp \in Seq(Value) :
                inserted' = Grown(inserted, calls, kp, vp)
      <3>1. CASE VisitProperty
        <4>1. Visiting /\ Running /\ calls' = calls /\ result' = result
              /\ insertProperty(Append(Top.kp, Child.key), Top.vp \o Child.data, Top.props)
          BY <3>1 DEF VisitProperty, Visiting, Running
        <4> QED
          BY <4>1, VisitingFrame, InsertGrows
      <3>2. CASE VisitLastElement
        <4>1. Visiting /\ Running /\ calls' = calls /\ result' = result
              /\ insertProperty(Top.kp, Top.vp \o Child.data, Top.props)
          BY <3>2 DEF VisitLastElement, Visiting, Running
        <4>2. Top.kp \in Seq(Seq(Names))
          BY <4>1, VisitCounter
        <4> QED
          BY <4>1, <4>2, VisitingFrame, InsertGrows
      <3> QED
        BY <1>2, <3>1, <3>2
    <2>2. PICK kp \in Seq(Seq(Names)), vp \in Seq(Value) :
              inserted' = Grown(inserted, calls, kp, vp)
      BY <2>1
    <2>3. /\ Prefix(inserted, inserted')
          /\ \A i \in 1..Len(inserted') : i > Len(inserted) => inserted'[i].call = calls
      BY <1>1, <2>1, <2>2, GrownType
    <2>4. ASSUME NEW i \in 1..Len(inserted')
          PROVE  inserted'[i].call <= calls
      <3>1. CASE i > Len(inserted)
        BY <1>1, <2>3, <3>1
      <3>2. CASE ~(i > Len(inserted))
        <4>1. i \in 1..Len(inserted) /\ inserted'[i] = inserted[i]
          BY <2>3, <3>2 DEF Prefix
        <4> QED
          BY <4>1 DEF Calling
      <3> QED
        BY <3>1, <3>2
    <2> QED
      BY <2>1, <2>4 DEF Calling
  <1>3. CASE VisitSection \/ VisitElement \/ Unwind \/ Descend \/ Return
    <2>1. Running /\ UNCHANGED <<inserted, calls, result>>
      BY <1>3 DEF VisitSection, VisitElement, Unwind, Descend, Return, Visiting, Running
    <2> QED
      BY <2>1 DEF Calling
  <1>4. CASE ReadFile \/ ReadNoFile
    <2>1. inserted' = inserted /\ calls' = calls + 1
      BY <1>4 DEF ReadFile, ReadNoFile
    <2>2. Running' => result' = "none"
      BY <1>4 DEF ReadFile, ReadNoFile, MayCall, Running
    <2>3. ASSUME NEW i \in 1..Len(inserted)
          PROVE  inserted[i].call <= calls + 1
      <3>1. inserted[i].call <= calls /\ inserted[i] \in Entry
        BY <1>1, ElementOfSeq DEF Calling
      <3>2. inserted[i].call \in Nat
        BY <3>1, ConfigurationAssumption DEF Entry
      <3> QED
        BY <1>1, <3>1, <3>2
    <2> QED
      BY <2>1, <2>2, <2>3 DEF Calling
  <1>5. CASE ReadDone \/ Crash \/ Lookup \/ UNCHANGED vars
    <2>1. inserted' = inserted /\ calls' = calls
      BY <1>5 DEF ReadDone, Crash, Lookup, getProperty, getPropertyVector, propertyExists, Answer,
                  vars
    <2>2. Running' => Running /\ result' = result
      BY <1>5 DEF ReadDone, Crash, Lookup, getProperty, getPropertyVector, propertyExists, Answer,
                  vars, Running
    <2> QED
      BY <2>1, <2>2 DEF Calling
  <1> QED
    BY <1>2, <1>3, <1>4, <1>5 DEF Next, Walk

LEMMA RegularReadFile ==
    ASSUME IInv, Calling, ReadFile
    PROVE  RegularWalk'
  <1> DEFINE s == Len(inserted)
  <1>1. PICK f \in Files : file' = f /\ stack' = <<Frame(f, <<>>, <<>>, <<>>, NoProps)>>
    BY DEF ReadFile
  <1>2. pc' = "visit" /\ calls' = calls + 1 /\ inserted' = inserted
    BY DEF ReadFile
  <1> DEFINE r == Frame(f, <<>>, <<>>, <<>>, NoProps)
             keys == IsOrderly(f)
  <1>3. r.pt = f /\ r.it = 1 /\ r.kp = <<>> /\ r.vp = <<>>
    BY DEF Frame
  <1> HIDE DEF r
  <1>4. Len(stack') = 1 /\ stack'[1] = r
    BY <1>1 DEF r
  <1>5. f \in Node /\ inserted \in Seq(Entry) /\ s \in Nat /\ calls \in Nat
    <2>1. calls \in 0..MaxCalls /\ inserted \in Seq(Entry)
      BY DEF IInv, Rest, Ledger
    <2> QED
      BY <2>1, ConfigurationAssumption, LenProperties
  <1>6. PICK m \in Marks : m[1].start = s /\ m[1].pre = <<>>
    <2>1. <<>> \in Seq(Names)
      BY EmptySeq
    <2> HIDE DEF s
    <2>2. [i \in Nat |-> [start |-> s, pre |-> <<>>]] \in Marks
      BY <1>5, <2>1 DEF Marks
    <2>3. [i \in Nat |-> [start |-> s, pre |-> <<>>]][1] = [start |-> s, pre |-> <<>>]
      OBVIOUS
    <2> QED
      BY <2>2, <2>3
  <1>7. Done(r, TRUE) = 0 /\ Inside(r.pt, 0) = <<>> /\ Elems(r.pt, 0) = <<>>
    BY <1>3, <1>5, InsideNone, ElemsNone DEF Done
  <1>8. Key(r.kp) = <<>>
    BY <1>3, FlattenEmpty DEF Key
  <1> HIDE DEF keys
  <1>9. Steady(r, 1 = 1, TRUE, m[1].pre, keys)
    BY <1>3, <1>6, <1>7, <1>8 DEF Steady
  <1>10. Seg(inserted, s, s, <<>>, <<>>, keys)
    <2>1. s <= Len(inserted)
      BY <1>5
    <2> HIDE DEF s
    <2> QED
      BY <1>5, <2>1, SegNone
  <1>11. Tracked(r, m[1], 1 = 1, TRUE, Len(inserted), inserted, keys)
    BY <1>6, <1>7, <1>9, <1>10 DEF Tracked
  <1>12. Fits(m, stack', Len(stack'), inserted, TRUE, keys)
    <2>1. 1..(1 - 1) = {}
      OBVIOUS
    <2>2. Fits(m, stack', 1, inserted, TRUE, keys)
      BY <1>4, <1>6, <1>11, <2>1 DEF Fits
    <2> QED
      BY <1>4, <2>2
  <1>13. OfCall(inserted, Len(inserted), calls + 1, m[1].start)
    <2> SUFFICES ASSUME NEW i \in 1..Len(inserted)
                 PROVE  inserted[i].call # calls + 1 /\ ~(i > m[1].start)
      BY <1>5 DEF OfCall
    <2>1. inserted[i].call <= calls /\ inserted[i] \in Entry
      BY <1>5, ElementOfSeq DEF Calling
    <2>2. inserted[i].call \in Nat
      BY <2>1, ConfigurationAssumption DEF Entry
    <2>3. inserted[i].call # calls + 1
      BY <1>5, <2>1, <2>2
    <2> QED
      BY <1>5, <1>6, <2>3
  <1>14. Matched(m, TRUE)'
    <2>1. IsOrderly(file)' <=> keys
      BY <1>1 DEF keys
    <2> HIDE DEF s
    <2> QED
      BY <1>1, <1>2, <1>12, <1>13, <2>1 DEF Matched, keys
  <1> QED
    BY <1>2, <1>6, <1>14 DEF RegularWalk

LEMMA RegularNext ==
    IInv /\ PlainWalk /\ Calling /\ RegularWalk /\ [Next]_vars /\ PlainWalk' => RegularWalk'
  <1> SUFFICES ASSUME IInv, PlainWalk, Calling, RegularWalk, [Next]_vars, PlainWalk'
               PROVE  RegularWalk'
    OBVIOUS
  <1>1. CASE ReadFile
    BY <1>1, RegularReadFile
  <1>2. CASE VisitSection \/ VisitProperty \/ VisitElement \/ VisitLastElement
             \/ Unwind \/ Descend \/ Return
    <2>1. file' = file
      BY <1>2 DEF VisitSection, VisitProperty, VisitElement, VisitLastElement, Unwind, Descend,
                  Return
    <2>2. CASE IsRegular(file)
      BY <1>2, <2>2, RegularSection, RegularProperty, RegularElement, RegularLastElement,
         RegularUnwind, RegularDescend, RegularReturn
    <2>3. CASE ~IsRegular(file)
      BY <2>1, <2>3 DEF RegularWalk
    <2> QED
      BY <2>2, <2>3
  <1>3. CASE ReadDone
    BY <1>3 DEF ReadDone, RegularWalk
  <1>4. CASE ReadNoFile
    BY <1>4 DEF ReadNoFile, MayCall, RegularWalk
  <1>5. CASE Crash
    BY <1>5 DEF Crash, RegularWalk
  <1>6. CASE Lookup
    BY <1>6 DEF Lookup, getProperty, getPropertyVector, propertyExists, Answer, MayCall, RegularWalk
  <1>7. CASE UNCHANGED vars
    BY <1>7 DEF vars, RegularWalk, Matched
  <1> QED
    BY <1>1, <1>2, <1>3, <1>4, <1>5, <1>6, <1>7 DEF Next, Walk

LEMMA RegularReadDone ==
    ASSUME IInv, PlainWalk, RegularWalk, ReadDone, IsRegular(file)
    PROVE  RegularDone'
  <1>1. /\ pc = "visit" /\ Running /\ Top.it > Len(Top.pt.kids) /\ Len(stack) = 1
        /\ file' = file /\ inserted' = inserted /\ calls' = calls
    BY DEF ReadDone, Running
  <1>2. PICK m \in Marks : Matched(m, TRUE)
    BY <1>1 DEF RegularWalk
  <1>3. /\ Top = stack[1] /\ Top.pt = file /\ file \in Node
        /\ Top.it = Len(file.kids) + 1 /\ Len(file.kids) \in Nat
    <2>1. 1 \in 1..Len(stack) /\ Top = stack[1]
      BY <1>1 DEF Top
    <2>2. /\ stack[1].it \in 1..(Len(stack[1].pt.kids) + 1)
          /\ Len(stack[1].pt.kids) \in Nat /\ stack[1].pt = file /\ file \in Node
      BY <1>1, <2>1, Frames
    <2> QED
      BY <1>1, <2>1, <2>2
  <1>4. Done(Top, TRUE) = Len(file.kids)
    BY <1>3 DEF Done
  <1> DEFINE keys == IsOrderly(file)
             all == Inside(file, Len(file.kids))
  <1>5. /\ Seg(inserted, m[1].start, Len(inserted), <<>>, all, keys)
        /\ OfCall(inserted, Len(inserted), calls, m[1].start)
    <2>1. /\ Fits(m, stack, 1, inserted, TRUE, keys)
          /\ OfCall(inserted, Len(inserted), calls, m[1].start)
      BY <1>1, <1>2 DEF Matched
    <2>2. Tracked(stack[1], m[1], 1 = 1, TRUE, Len(inserted), inserted, keys) /\ m[1].pre = <<>>
      BY <2>1 DEF Fits
    <2> QED
      BY <1>3, <1>4, <2>1, <2>2 DEF Tracked
  <1>6. all \in Flat
    <2>1. Len(file.kids) \in 0..Len(file.kids)
      BY <1>3
    <2> QED
      BY <1>3, <2>1, InsideType
  <1>7. file.key = <<>> /\ file.data = <<>>
    BY ConfigurationAssumption DEF IInv, Walking, IsRegular
  <1>8. Flatten[file] = all
    <2>1. Flatten[file] = Under(file.key, all)
      BY <1>3, <1>7, FlattenInside
    <2> HIDE DEF all
    <2> QED
      BY <1>6, <1>7, <2>1, UnderNothing
  <1>9. m[1].start \in Nat
    BY DEF Marks
  <1>10. Seg(inserted, m[1].start, Len(inserted), <<>>, Flatten[file], IsOrderly(file))
    BY <1>5, <1>8
  <1>11. \E base \in Nat :
            /\ OfCall(inserted, Len(inserted), calls, base)
            /\ Seg(inserted, base, Len(inserted), <<>>, Flatten[file], IsOrderly(file))
    BY <1>5, <1>9, <1>10
  <1> QED
    BY <1>1, <1>11 DEF RegularDone

LEMMA RegularDoneNext ==
    IInv /\ PlainWalk /\ Calling /\ RegularWalk /\ RegularDone /\ [Next]_vars => RegularDone'
  <1> SUFFICES ASSUME IInv, PlainWalk, Calling, RegularWalk, RegularDone, [Next]_vars
               PROVE  RegularDone'
    OBVIOUS
  <1>1. CASE ReadDone
    <2>1. file' = file
      BY <1>1 DEF ReadDone
    <2> QED
      BY <1>1, <2>1, RegularReadDone DEF RegularDone
  <1>2. CASE VisitSection \/ VisitProperty \/ VisitElement \/ VisitLastElement
             \/ Unwind \/ Descend \/ Return
    <2>1. Running /\ result' = result
      BY <1>2 DEF VisitSection, VisitProperty, VisitElement, VisitLastElement, Unwind, Descend,
                  Return, Visiting, Running
    <2> QED
      BY <2>1 DEF Calling, RegularDone
  <1>3. CASE ReadFile \/ ReadNoFile
    BY <1>3 DEF ReadFile, ReadNoFile, RegularDone
  <1>4. CASE Crash \/ Lookup \/ UNCHANGED vars
    <2>1. UNCHANGED <<file, calls, result, inserted>>
      BY <1>4 DEF Crash, Lookup, getProperty, getPropertyVector, propertyExists, Answer, vars
    <2> QED
      BY <2>1 DEF RegularDone
  <1> QED
    BY <1>1, <1>2, <1>3, <1>4 DEF Next, Walk

----------------------------------------------------------------------------
(* What the last call inserted.                                            *)

LEMMA ThisCall ==
    ASSUME IInv, NEW base \in Nat, base <= Len(inserted),
           OfCall(inserted, Len(inserted), calls, base)
    PROVE  /\ DOMAIN OfThisCall = 1..(Len(inserted) - base)
           /\ \A i \in 1..(Len(inserted) - base) : OfThisCall[i] = inserted[base + i]
  <1> DEFINE before == {i \in DOMAIN inserted : inserted[i].call # calls}
             n == Len(inserted)
  <1>1. inserted \in Seq(Entry) /\ n \in Nat /\ DOMAIN inserted = 1..n
    BY LenProperties DEF IInv, Ledger
  <1>2. before = 1..base
    <2>1. \A i \in 1..n : inserted[i].call # calls <=> i <= base
      <3>1. \A i \in 1..n : inserted[i].call = calls <=> i > base
        BY DEF OfCall
      <3> HIDE DEF n
      <3> QED
        BY <1>1, <3>1
    <2>2. 1..base \subseteq 1..n
      BY <1>1
    <2> HIDE DEF n
    <2> QED
      BY <1>1, <2>1, <2>2
  <1>3. Cardinality(before) = base
    <2>1. Cardinality(1..base) = IF 1 > base THEN 0 ELSE base - 1 + 1
      BY FS_Interval
    <2>2. Cardinality(1..base) = base
      BY <2>1
    <2> HIDE DEF before
    <2> QED
      BY <1>2, <2>2
  <1>4. OfThisCall = SubSeq(inserted, base + 1, n)
    BY <1>3 DEF OfThisCall
  <1>5. SubSeq(inserted, base + 1, n) = [i \in 1..(n - base) |-> inserted[base + i]]
    <2>1. SubSeq(inserted, base + 1, n) = [i \in 1..(1 + n - (base + 1)) |-> inserted[i + (base + 1) - 1]]
      OBVIOUS
    <2>2. 1 + n - (base + 1) = n - base
      BY <1>1
    <2>3. \A i \in 1..(n - base) : i + (base + 1) - 1 = base + i
      BY <1>1
    <2> HIDE DEF n
    <2> QED
      BY <2>1, <2>2, <2>3
  <1> HIDE DEF n
  <1> QED
    BY <1>4, <1>5 DEF n

LEMMA ReadAsSaid ==
    ASSUME IInv, RegularDone, result = "read", IsRegular(file)
    PROVE  /\ DOMAIN OfThisCall = DOMAIN Flatten[file]
           /\ \A i \in DOMAIN OfThisCall :
                 /\ OfThisCall[i].vals = Flatten[file][i].vals
                 /\ IsOrderly(file) => Key(OfThisCall[i].kp) = Flatten[file][i].key
                 /\ Flatten[file][i] \in [key : Seq(Names), vals : Seq(Value) \ {<<>>}]
  <1>1. PICK base \in Nat :
            /\ OfCall(inserted, Len(inserted), calls, base)
            /\ Seg(inserted, base, Len(inserted), <<>>, Flatten[file], IsOrderly(file))
    BY DEF RegularDone
  <1> DEFINE flat == Flatten[file]
             n == Len(inserted)
             E == [key : Seq(Names), vals : Seq(Value) \ {<<>>}]
  <1>2. flat \in Seq(E) /\ Len(flat) \in Nat /\ DOMAIN flat = 1..Len(flat)
    <2>1. file \in Node
      BY ConfigurationAssumption DEF IInv, Walking
    <2>2. flat \in Seq(E)
      BY <2>1, FlattenDef DEF Flat
    <2> HIDE DEF flat, E
    <2> QED
      BY <2>2, LenProperties
  <1>3. n = base + Len(flat)
    BY <1>1 DEF Seg
  <1>4. ASSUME NEW j \in 1..Len(flat)
        PROVE  /\ inserted[base + j].vals = flat[j].vals
               /\ IsOrderly(file) => Key(inserted[base + j].kp) = <<>> \o flat[j].key
    BY <1>1 DEF Seg
  <1>5. base <= n /\ n - base = Len(flat)
    BY <1>2, <1>3
  <1>6. /\ DOMAIN OfThisCall = 1..(n - base)
        /\ \A i \in 1..(n - base) : OfThisCall[i] = inserted[base + i]
    BY <1>1, <1>5, ThisCall
  <1> HIDE DEF flat, n
  <1>7. ASSUME NEW j \in 1..Len(flat)
        PROVE  flat[j] \in E /\ <<>> \o flat[j].key = flat[j].key
    <2> DEFINE k == flat[j].key
    <2>1. flat[j] \in E
      <3> HIDE DEF E
      <3> QED
        BY <1>2, ElementOfSeq
    <2>2. k \in Seq(Names)
      BY <2>1
    <2> HIDE DEF k
    <2>3. <<>> \o k = k
      BY <2>2, ConcatEmptySeq
    <2> QED
      BY <2>1, <2>3 DEF k
  <1> HIDE DEF E
  <1>8. /\ DOMAIN OfThisCall = DOMAIN flat
        /\ \A i \in DOMAIN OfThisCall :
              /\ OfThisCall[i].vals = flat[i].vals
              /\ IsOrderly(file) => Key(OfThisCall[i].kp) = flat[i].key
              /\ flat[i] \in E
    <2>1. DOMAIN OfThisCall = 1..Len(flat) /\ \A i \in 1..Len(flat) : OfThisCall[i] = inserted[base + i]
      BY <1>5, <1>6
    <2>2. ASSUME NEW i \in 1..Len(flat)
          PROVE  /\ OfThisCall[i].vals = flat[i].vals
                 /\ IsOrderly(file) => Key(OfThisCall[i].kp) = flat[i].key
                 /\ flat[i] \in E
      <3>1. OfThisCall[i] = inserted[base + i]
        BY <2>1
      <3> QED
        BY <1>4, <1>7, <3>1
    <2> QED
      BY <1>2, <2>1, <2>2
  <1> QED
    BY <1>8 DEF flat, E

\* The strengthening of ValuesKept and WalkRight.
RegularInv == IInv /\ PlainWalk /\ Calling /\ RegularWalk /\ RegularDone

LEMMA SpecRegular == Spec => []RegularInv
  <1>1. Init => RegularInv
    <2>1. Init => PlainWalk /\ Calling /\ RegularWalk /\ RegularDone
      BY EmptySeq DEF Init, PlainWalk, Calling, RegularWalk, RegularDone, Running
    <2> QED
      BY <2>1, InitInv DEF RegularInv
  <1>2. RegularInv /\ [Next]_vars => RegularInv'
    BY NextInv, PlainNext, CallingNext, RegularNext, RegularDoneNext DEF RegularInv
  <1> QED
    BY <1>1, <1>2, PTL DEF Spec

\* The values of every regular file are found, once, in order and grouped as in the file.
THEOREM EveryValueIsKept == Spec => []ValuesKept
  <1>1. RegularInv => ValuesKept
    <2> SUFFICES ASSUME RegularInv, result = "read", IsRegular(file)
                 PROVE  [i \in DOMAIN OfThisCall |-> OfThisCall[i].vals]
                          = [i \in DOMAIN Flatten[file] |-> Flatten[file][i].vals]
      BY DEF ValuesKept
    <2>1. /\ DOMAIN OfThisCall = DOMAIN Flatten[file]
          /\ \A i \in DOMAIN OfThisCall : OfThisCall[i].vals = Flatten[file][i].vals
      BY ReadAsSaid DEF RegularInv
    <2> QED
      BY <2>1
  <1> QED
    BY <1>1, SpecRegular, PTL

\* A file with no more than one section in each section, the last of its children, is
\* read as it is written: every property under its key, once, in order.
THEOREM OrderlyFilesReadRight == Spec => []WalkRight
  <1>1. RegularInv => WalkRight
    <2> SUFFICES ASSUME RegularInv, result = "read", IsOrderly(file)
                 PROVE  [i \in DOMAIN OfThisCall |->
                           [key |-> Key(OfThisCall[i].kp), vals |-> OfThisCall[i].vals]]
                          = Flatten[file]
      BY DEF WalkRight
    <2> DEFINE flat == Flatten[file]
               this == OfThisCall
    <2>1. /\ DOMAIN this = DOMAIN flat
          /\ \A i \in DOMAIN this :
                /\ this[i].vals = flat[i].vals /\ Key(this[i].kp) = flat[i].key
                /\ flat[i] \in [key : Seq(Names), vals : Seq(Value) \ {<<>>}]
      BY ReadAsSaid DEF RegularInv, IsOrderly
    <2>2. flat = [i \in DOMAIN flat |-> flat[i]]
      <3>1. file \in Node
        BY ConfigurationAssumption DEF RegularInv, IInv, Walking
      <3>2. flat \in Seq([key : Seq(Names), vals : Seq(Value) \ {<<>>}])
        BY <3>1, FlattenDef DEF Flat
      <3> HIDE DEF flat
      <3> QED
        BY <3>2
    <2>3. ASSUME NEW i \in DOMAIN this
          PROVE  [key |-> Key(this[i].kp), vals |-> this[i].vals] = flat[i]
      BY <2>1
    <2> HIDE DEF flat, this
    <2>4. [i \in DOMAIN this |-> [key |-> Key(this[i].kp), vals |-> this[i].vals]]
            = [i \in DOMAIN flat |-> flat[i]]
      BY <2>1, <2>3
    <2> QED
      BY <2>2, <2>4 DEF flat, this
  <1> QED
    BY <1>1, SpecRegular, PTL

----------------------------------------------------------------------------
(* The walk goes on.                                                       *)

\* Frames that are at some children.
Places(s) == Len(s) \in Nat /\ DOMAIN s = 1..Len(s) /\ \A d \in DOMAIN s : s[d].it \in Nat

LEMMA FramesArePlaces == ASSUME IInv PROVE Places(stack)
  <1>1. stack \in Seq(FrameSet)
    BY DEF IInv, Walking
  <1>2. Len(stack) \in Nat /\ DOMAIN stack = 1..Len(stack)
    BY <1>1, LenProperties
  <1>3. ASSUME NEW d \in 1..Len(stack) PROVE stack[d].it \in Nat
    <2>1. stack[d] \in FrameSet
      BY <1>1, ElementOfSeq
    <2> QED
      BY <2>1 DEF FrameSet
  <1> QED
    BY <1>2, <1>3 DEF Places

\* The places in a file are ordered: who is further than another place is not where it
\* was, nor back there, so that a walk that only goes further visits no node twice.
THEOREM PlacesAreOrdered ==
    ASSUME NEW s, NEW t, NEW u, Places(s), Places(t), Places(u)
    PROVE  /\ ~Further(s, s)
           /\ SameChildren(s, t) => ~Further(s, t) /\ ~Further(t, s)
           /\ Further(s, t) /\ Further(t, u) => Further(s, u)
           /\ Further(s, t) /\ SameChildren(t, u) => Further(s, u)
           /\ SameChildren(s, t) /\ Further(t, u) => Further(s, u)
           /\ Further(s, t) => ~Further(t, s)
  <1>1. ASSUME NEW v, Places(v), SameChildren(s, v), Further(s, v) PROVE FALSE
    <2>1. PICK d \in DOMAIN v : d <= Len(s) => v[d].it > s[d].it
      BY <1>1 DEF Further
    <2>2. d \in DOMAIN s /\ d <= Len(s) /\ v[d].it = s[d].it /\ v[d].it \in Nat
      BY <1>1, <2>1 DEF SameChildren, Places
    <2> QED
      BY <2>1, <2>2
  <1>2. ASSUME NEW v, Places(v), SameChildren(s, v) PROVE SameChildren(v, s)
    BY <1>2 DEF SameChildren, Places
  <1>3. ASSUME NEW v, Places(v), SameChildren(s, v), Further(v, s) PROVE FALSE
    <2>1. PICK d \in DOMAIN s : d <= Len(v) => s[d].it > v[d].it
      BY <1>3 DEF Further
    <2>2. d <= Len(v) /\ v[d].it = s[d].it /\ v[d].it \in Nat
      BY <1>3, <2>1 DEF SameChildren, Places
    <2> QED
      BY <2>1, <2>2
  <1>4. SameChildren(s, s)
    BY DEF SameChildren
  <1>5. ASSUME NEW v, Places(v), Further(s, t), Further(t, v)
        PROVE  Further(s, v)
    <2>1. PICK d \in DOMAIN t : /\ d <= Len(s) + 1
                                /\ \A i \in 1..(d - 1) : t[i].it = s[i].it
                                /\ d <= Len(s) => t[d].it > s[d].it
      BY <1>5 DEF Further
    <2>2. PICK e \in DOMAIN v : /\ e <= Len(t) + 1
                                /\ \A i \in 1..(e - 1) : v[i].it = t[i].it
                                /\ e <= Len(t) => v[e].it > t[e].it
      BY <1>5 DEF Further
    <2>3. /\ d \in 1..Len(t) /\ e \in 1..Len(v) /\ Len(s) \in Nat /\ Len(t) \in Nat
          /\ Len(v) \in Nat
      BY <1>5, <2>1, <2>2 DEF Places
    <2>4. CASE e < d
      <3>1. \A i \in 1..(e - 1) : v[i].it = s[i].it
        <4>1. \A i \in 1..(e - 1) : i \in 1..(d - 1)
          BY <2>3, <2>4
        <4> QED
          BY <2>1, <2>2, <4>1, Zenon
      <3>2. e <= Len(s) + 1 /\ e \in DOMAIN v
        BY <2>1, <2>2, <2>3, <2>4
      <3>3. e \in 1..(d - 1) /\ e <= Len(t)
        BY <2>3, <2>4
      <3>4. v[e].it > t[e].it /\ t[e].it = s[e].it
        BY <2>1, <2>2, <3>3
      <3> QED
        BY <3>1, <3>2, <3>4 DEF Further
    <2>5. CASE e = d
      <3>1. \A i \in 1..(d - 1) : v[i].it = s[i].it
        BY <2>1, <2>2, <2>5
      <3>2. d \in DOMAIN v /\ d <= Len(s) + 1
        BY <2>1, <2>2, <2>5
      <3>3. v[d].it > t[d].it
        BY <2>2, <2>3, <2>5
      <3>4. ASSUME d <= Len(s) PROVE v[d].it > s[d].it
        <4> DEFINE x == s[d].it
                   y == t[d].it
                   z == v[d].it
        <4>1. d \in DOMAIN s
          BY <2>3, <3>4 DEF Places
        <4>2. x \in Nat /\ y \in Nat /\ z \in Nat
          BY <1>5, <2>1, <3>2, <4>1 DEF Places
        <4>3. y > x /\ z > y
          BY <2>1, <3>3, <3>4
        <4> HIDE DEF x, y, z
        <4>4. z > x
          BY <4>2, <4>3
        <4> QED
          BY <4>4 DEF x, z
      <3> QED
        BY <3>1, <3>2, <3>4 DEF Further
    <2>6. CASE e > d
      <3>1. d \in 1..(e - 1) /\ d \in 1..Len(v)
        BY <2>3, <2>6
      <3>2. \A i \in 1..(d - 1) : i \in 1..(e - 1)
        BY <2>3, <2>6
      <3>3. \A i \in 1..(d - 1) : v[i].it = s[i].it
        BY <2>1, <2>2, <3>2
      <3>4. v[d].it = t[d].it
        BY <2>2, <3>1
      <3>5. d <= Len(s) => v[d].it > s[d].it
        BY <2>1, <3>4
      <3>6. d \in DOMAIN v
        BY <1>5, <3>1 DEF Places
      <3> QED
        BY <2>1, <3>3, <3>5, <3>6 DEF Further
    <2> QED
      BY <2>3, <2>4, <2>5, <2>6
  <1>6. Further(s, t) => ~Further(t, s)
    BY <1>1, <1>4, <1>5
  <1>7. ASSUME Further(s, t), SameChildren(t, u) PROVE Further(s, u)
    <2>1. PICK d \in DOMAIN t : /\ d <= Len(s) + 1
                                /\ \A i \in 1..(d - 1) : t[i].it = s[i].it
                                /\ d <= Len(s) => t[d].it > s[d].it
      BY <1>7 DEF Further
    <2>2. d \in 1..Len(t) /\ Len(t) \in Nat /\ DOMAIN t = 1..Len(t)
      BY <2>1 DEF Places
    <2>3. d \in DOMAIN u /\ \A i \in 1..Len(t) : u[i].it = t[i].it
      BY <1>7, <2>2 DEF SameChildren, Places
    <2>4. \A i \in 1..(d - 1) : i \in 1..Len(t)
      BY <2>2
    <2>5. \A i \in 1..(d - 1) : u[i].it = s[i].it
      BY <2>1, <2>3, <2>4, Zenon
    <2>6. d <= Len(s) => u[d].it > s[d].it
      BY <2>1, <2>2, <2>3
    <2> QED
      BY <2>1, <2>3, <2>5, <2>6 DEF Further
  <1>8. ASSUME SameChildren(s, t), Further(t, u) PROVE Further(s, u)
    <2>1. PICK d \in DOMAIN u : /\ d <= Len(t) + 1
                                /\ \A i \in 1..(d - 1) : u[i].it = t[i].it
                                /\ d <= Len(t) => u[d].it > t[d].it
      BY <1>8 DEF Further
    <2>2. d \in 1..Len(u) /\ Len(u) \in Nat /\ Len(s) \in Nat /\ Len(t) = Len(s)
      BY <1>8, <2>1 DEF Places, SameChildren
    <2>3. \A i \in 1..Len(s) : t[i].it = s[i].it
      BY <1>8 DEF SameChildren, Places
    <2>4. \A i \in 1..(d - 1) : i \in 1..Len(s)
      BY <2>1, <2>2
    <2>5. \A i \in 1..(d - 1) : u[i].it = s[i].it
      BY <2>1, <2>3, <2>4, Zenon
    <2>6. d <= Len(s) => d \in 1..Len(s)
      BY <2>2
    <2>7. d <= Len(s) => u[d].it > s[d].it
      BY <2>1, <2>2, <2>3, <2>6
    <2> QED
      BY <2>1, <2>2, <2>5, <2>7 DEF Further
  <1> QED
    BY <1>1, <1>2, <1>3, <1>4, <1>5, <1>6, <1>7, <1>8

\* A turn of the loop leaves every frame at its child.
LEMMA TurnSame ==
    ASSUME IInv, Running, NEW g, Turn(g), SamePlace(g, Top)
    PROVE  SameChildren(stack, stack') /\ Top' = g
  <1> DEFINE n == Len(stack)
  <1>1. n \in Nat
    BY Frames
  <1>2. DOMAIN stack = 1..n
    BY FramesArePlaces DEF Places
  <1>3. Len(stack') = n /\ stack'[n] = g /\ \A d \in 1..(n - 1) : stack'[d] = stack[d]
    BY DEF Turn
  <1>4. g.it = stack[n].it
    BY DEF SamePlace, Top
  <1> HIDE DEF n
  <1>5. ASSUME NEW d \in 1..n PROVE stack'[d].it = stack[d].it
    <2>1. d = n \/ d \in 1..(n - 1)
      BY <1>1
    <2> QED
      BY <1>3, <1>4, <2>1, Zenon
  <1>6. SameChildren(stack, stack')
    BY <1>2, <1>3, <1>5 DEF SameChildren, n
  <1> QED
    BY <1>3, <1>6 DEF Top

\* Visiting a child makes a turn.
LEMMA VisitStays ==
    ASSUME IInv, VisitSection \/ VisitProperty \/ VisitElement \/ VisitLastElement
    PROVE  SameChildren(stack, stack') /\ pc = "visit" /\ (Running' => pc' = "unwind")
  <1>1. pc = "visit" /\ Running /\ Visiting /\ (Running' => pc' = "unwind")
    BY DEF VisitSection, VisitProperty, VisitElement, VisitLastElement, Visiting, Running
  <1>2. \E g : Turn(g) /\ SamePlace(g, Top)
    <2>1. CASE VisitSection
      BY <2>1, SectionTurn
    <2>2. CASE VisitElement
      BY <2>2, ElementTurn
    <2>3. CASE VisitProperty \/ VisitLastElement
      <3>1. \E kp, vp : Become(Inserted(Top, kp, vp))
        BY <2>3 DEF VisitProperty, VisitLastElement
      <3> QED
        BY <1>1, <3>1, InsertedTurn
    <2> QED
      BY <2>1, <2>2, <2>3
  <1> QED
    BY <1>1, <1>2, TurnSame

\* Leaving a section takes one counter from num.
LEMMA UnwindShortens ==
    ASSUME IInv, Unwind, Running'
    PROVE  SameChildren(stack, stack') /\ pc' = pc /\ Len(Top'.num) < Len(Top.num)
  <1>1. Running /\ Top.kp # <<>> /\ pc = "unwind"
    BY DEF Unwind, Running
  <1>2. pc' = "unwind" /\ Top.num # <<>>
    BY <1>1, UnwindTurn
  <1>3. PICK g \in FrameSet : Turn(g) /\ SamePlace(g, Top) /\ g.num = CountDown(Front(Top.num))
    BY <1>1, UnwindTurn
  <1>4. SameChildren(stack, stack') /\ Top' = g
    BY <1>1, <1>3, TurnSame
  <1>5. Top \in FrameSet
    BY <1>1, TopType DEF IInv
  <1>6. Top.num \in Seq(0..UINT_MAX)
    BY <1>5 DEF FrameSet
  <1> DEFINE num == Top.num
             front == Front(num)
  <1>7. Len(num) \in Nat \ {0} /\ front \in Seq(0..UINT_MAX) /\ Len(front) = Len(num) - 1
    BY <1>2, <1>6, EmptySeq, FrontType
  <1>8. \A i \in 1..Len(front) : front[i] > 0
    <2>1. \A i \in 1..(Len(num) - 1) : num[i] > 0
      BY <1>1, UnwindTurn, Zenon
    <2>2. \A i \in 1..(Len(num) - 1) : front[i] = num[i]
      BY <1>2, <1>6, FrontType, Zenon
    <2> HIDE DEF num, front
    <2> QED
      BY <1>7, <2>1, <2>2
  <1>9. Len(CountDown(front)) = Len(front)
    <2> HIDE DEF front
    <2> QED
      BY <1>7, <1>8, CountDownType
  <1>10. Top'.num = CountDown(front)
    BY <1>3, <1>4
  <1> HIDE DEF num, front
  <1>11. Len(Top'.num) < Len(num)
    BY <1>7, <1>9, <1>10
  <1> QED
    BY <1>1, <1>2, <1>4, <1>11 DEF num

\* The call for a child leads to a new frame ...
LEMMA DescendGoesOn == ASSUME IInv, Descend PROVE Further(stack, stack')
  <1> DEFINE n == Len(stack) + 1
  <1>1. Len(stack) \in Nat /\ Len(stack') = n /\ stack' \in Seq(FrameSet)
    <2>1. IInv'
      BY DescendStep
    <2> QED
      BY <2>1, FramesArePlaces, DescendPush DEF IInv, Walking, Places
  <1>2. DOMAIN stack' = 1..n
    BY <1>1, LenProperties
  <1>3. n \in DOMAIN stack' /\ n <= Len(stack) + 1 /\ ~(n <= Len(stack))
    BY <1>1, <1>2
  <1>4. \A i \in 1..(n - 1) : stack'[i].it = stack[i].it
    <2>1. n - 1 = Len(stack)
      BY <1>1
    <2>2. \A i \in 1..Len(stack) : stack'[i] = stack[i]
      BY DescendPush
    <2> QED
      BY <2>1, <2>2
  <1> QED
    BY <1>3, <1>4 DEF Further

\* ... and its return to the next child of the caller.
LEMMA ReturnGoesOn == ASSUME IInv, Return PROVE Further(stack, stack')
  <1> DEFINE n == Len(stack) - 1
  <1>1. n \in Nat \ {0} /\ Len(stack') = n /\ Len(stack) = n + 1
    <2>1. n \in Nat \ {0} /\ Len(stack') = n /\ Len(stack) \in Nat
      BY ReturnPop, FramesArePlaces DEF Places
    <2> QED
      BY <2>1
  <1>2. DOMAIN stack' = 1..n
    <2>1. stack' \in Seq(FrameSet)
      BY ReturnStep DEF IInv, Walking
    <2> QED
      BY <1>1, <2>1, LenProperties
  <1>3. stack'[n].it = stack[n].it + 1 /\ stack[n].it \in Nat
    <2>1. stack'[n].it = stack[n].it + 1
      BY ReturnPop
    <2>2. n \in DOMAIN stack
      BY <1>1, FramesArePlaces DEF Places
    <2> QED
      BY <2>1, <2>2, FramesArePlaces DEF Places
  <1>4. \A i \in 1..(n - 1) : stack'[i].it = stack[i].it
    <2>1. n - 1 = Len(stack) - 2
      BY <1>1
    <2>2. \A i \in 1..(Len(stack) - 2) : stack'[i] = stack[i]
      BY ReturnPop
    <2> QED
      BY <2>1, <2>2
  <1> DEFINE a == stack[n].it
             b == stack'[n].it
  <1>5. b > a
    <2>1. b = a + 1 /\ a \in Nat
      BY <1>3
    <2> HIDE DEF a, b
    <2> QED
      BY <2>1
  <1>6. n \in DOMAIN stack' /\ n <= Len(stack) + 1
    BY <1>1, <1>2
  <1> HIDE DEF n
  <1> QED
    BY <1>4, <1>5, <1>6 DEF Further

\* While a call runs, no step takes the walk back, and none leaves everything as it
\* was: each one leads to a later place in the file, or visits the child, or leaves a
\* section with one counter less.
THEOREM TheWalkGoesOn == Spec => WalkGoesOn
  <1> DEFINE Step == Running /\ Running' =>
               \/ Further(stack, stack')
               \/ SameChildren(stack, stack') /\ pc = "visit" /\ pc' = "unwind"
               \/ SameChildren(stack, stack') /\ pc' = pc /\ Len(Top'.num) < Len(Top.num)
  <1>1. IInv /\ [Next]_vars => [Step]_vars
    <2> SUFFICES ASSUME IInv, Next, Running, Running' PROVE Step
      OBVIOUS
    <2>1. CASE VisitSection \/ VisitProperty \/ VisitElement \/ VisitLastElement
      BY <2>1, VisitStays
    <2>2. CASE Unwind
      BY <2>2, UnwindShortens
    <2>3. CASE Descend
      BY <2>3, DescendGoesOn
    <2>4. CASE Return
      BY <2>4, ReturnGoesOn
    <2>5. CASE ReadDone \/ ReadFile \/ ReadNoFile \/ Crash \/ Lookup
      <3>1. pc = "idle" \/ pc' \in {"idle", "crashed"}
        BY <2>5, Zenon DEF ReadDone, ReadFile, ReadNoFile, Crash, Lookup, MayCall
      <3> QED
        BY <3>1 DEF Running
    <2> QED
      BY <2>1, <2>2, <2>3, <2>4, <2>5 DEF Next, Walk
  <1>2. Spec => [][Step]_vars
    BY <1>1, SpecInv, PTL DEF Spec
  <1> QED
    BY <1>2 DEF WalkGoesOn
=============================================================================
