------------------------------ MODULE SharedLemmas -----------------------------
(***************************************************************************)
(* What the proof modules share.  First, induction over the natural        *)
(* numbers as a statement about sets, for what recursive functions         *)
(* compute, and what FlattenSeq of the community modules does to a         *)
(* sequence that grows, and to sequences of counted events.  Then what the *)
(* accesses of a program read when its sections run one after the other:   *)
(* the reference that the two runs of a gate are compared with.  Last,     *)
(* queues: what is left of one when an element is taken out of it or       *)
(* added, which of its elements come first, and its prefixes.              *)
(***************************************************************************)
EXTENDS SequencesExt, Integers, FiniteSets, FiniteSetTheorems, WellFoundedInduction,
        SequenceTheorems, TLAPS

\* Every set of numbers has a least one.
LEMMA LeastNumber ==
  ASSUME NEW T \in SUBSET Nat, T # {}
  PROVE  \E k \in T : \A j \in T : k <= j
  <1> DEFINE Below == {p \in Nat \X Nat : p[1] < p[2]}
  <1>1. IsWellFoundedOn(Below, Nat)
    BY NatLessThanWellFounded, Zenon DEF OpToRel
  <1> HIDE DEF Below
  <1>2. PICK k \in T : \A j \in T : ~ (<<j, k>> \in Below)
    BY <1>1, WFMin, Zenon
  <1>3. \A j \in T : ~ (j < k)
    BY <1>2 DEF Below
  <1> QED BY <1>3

\* Induction from a number on: what holds there and carries over to the next number
\* holds of all.  T is the set of the numbers it holds of.
LEMMA InductionFrom ==
  ASSUME NEW from \in Nat, NEW to \in Nat, NEW T,
         from \in T,
         \A i \in from..to : i \in T /\ i < to => i + 1 \in T
  PROVE  from..to \subseteq T
  <1> DEFINE Out == {i \in from..to : i \notin T}
  <1> SUFFICES ASSUME Out # {} PROVE FALSE
    OBVIOUS
  <1>1. PICK k \in Out : \A j \in Out : k <= j
    <2>1. Out \in SUBSET Nat
      OBVIOUS
    <2> HIDE DEF Out
    <2> QED BY <2>1, LeastNumber
  <1>2. k \in from..to /\ k # from /\ k \notin T
    OBVIOUS
  <1>3. k - 1 \in from..to /\ k - 1 \notin Out
    BY <1>1, <1>2
  <1>4. k - 1 \in T /\ k - 1 < to /\ k - 1 + 1 = k
    BY <1>2, <1>3
  <1>5. k \in T
    BY <1>3, <1>4
  <1> QED BY <1>2, <1>5

-------------------------------------------------------------------------------

\* g[i] are the first i sequences of s, one after the other.
Joins(g, s, n) ==
  \A i \in 1..n : g[i] = IF i = 1 THEN s[i] ELSE g[i - 1] \o s[i]

\* There is such a function for every length.
LEMMA JoinsExist ==
  ASSUME NEW S, NEW s \in Seq(Seq(S)), s # <<>>
  PROVE  \E g \in [1..Len(s) -> Seq(S)] : Joins(g, s, Len(s))
  <1> DEFINE T == {n \in 1..Len(s) : \E g \in [1..n -> Seq(S)] : Joins(g, s, n)}
  <1>1. Len(s) \in Nat /\ Len(s) >= 1
    BY EmptySeq
  <1>2. \A i \in 1..Len(s) : s[i] \in Seq(S)
    BY ElementOfSeq
  <1>3. 1 \in T
    <2> DEFINE g == [i \in 1..1 |-> s[1]]
    <2>1. g \in [1..1 -> Seq(S)] /\ Joins(g, s, 1)
      BY <1>1, <1>2 DEF Joins
    <2> QED BY <1>1, <2>1
  <1>4. ASSUME NEW i \in 1..Len(s), i \in T, i < Len(s)
        PROVE  i + 1 \in T
    <2>1. PICK g \in [1..i -> Seq(S)] : Joins(g, s, i)
      BY <1>4
    <2> DEFINE h == [j \in 1..(i + 1) |-> IF j <= i THEN g[j] ELSE g[i] \o s[i + 1]]
    <2>2. g[i] \o s[i + 1] \in Seq(S)
      <3>1. g[i] \in Seq(S) /\ s[i + 1] \in Seq(S)
        BY <1>1, <1>2, <1>4
      <3> QED BY <3>1, ConcatProperties
    <2>3. h \in [1..(i + 1) -> Seq(S)]
      BY <1>4, <2>2
    <2>4. Joins(h, s, i + 1)
      <3> SUFFICES ASSUME NEW j \in 1..(i + 1)
                   PROVE  h[j] = IF j = 1 THEN s[j] ELSE h[j - 1] \o s[j]
        BY DEF Joins
      <3>1. CASE j <= i
        <4>1. g[j] = IF j = 1 THEN s[j] ELSE g[j - 1] \o s[j]
          <5>1. j \in 1..i
            BY <1>4, <3>1
          <5> QED BY <2>1, <5>1, Zenon DEF Joins
        <4>2. h[j] = g[j] /\ (j # 1 => h[j - 1] = g[j - 1])
          BY <1>4, <3>1
        <4> QED BY <4>1, <4>2
      <3>2. CASE j = i + 1
        BY <1>4, <3>2
      <3> QED BY <1>4, <3>1, <3>2
    <2>5. i + 1 \in 1..Len(s)
      BY <1>1, <1>4
    <2> HIDE DEF h
    <2> QED BY <2>3, <2>4, <2>5
  <1> HIDE DEF T
  <1>5. 1..Len(s) \subseteq T
    BY <1>1, <1>3, <1>4, InductionFrom
  <1>6. Len(s) \in T
    BY <1>1, <1>5
  <1> QED BY <1>6 DEF T

\* It is the only one.
LEMMA JoinsUnique ==
  ASSUME NEW s, NEW n \in Nat, NEW g, NEW h, Joins(g, s, n), Joins(h, s, n)
  PROVE  \A i \in 1..n : g[i] = h[i]
  <1> SUFFICES ASSUME n >= 1 PROVE \A i \in 1..n : g[i] = h[i]
    OBVIOUS
  <1> DEFINE T == {i \in 1..n : g[i] = h[i]}
  <1>1. 1 \in T
    BY DEF Joins
  <1>2. \A i \in 1..n : i \in T /\ i < n => i + 1 \in T
    BY DEF Joins
  <1> HIDE DEF T
  <1>3. 1..n \subseteq T
    BY <1>1, <1>2, InductionFrom
  <1> QED BY <1>3 DEF T

\* FlattenSeq is the last value of that function.
LEMMA FlattenIsJoin ==
  ASSUME NEW S, NEW s \in Seq(Seq(S)), s # <<>>,
         NEW g \in [1..Len(s) -> Seq(S)], Joins(g, s, Len(s))
  PROVE  FlattenSeq(s) = g[Len(s)]
  <1> DEFINE Body(f) == [i \in 1..Len(s) |-> IF i = 1 THEN s[i] ELSE f[i - 1] \o s[i]]
             flatten == CHOOSE f : f = Body(f)
  <1>1. Len(s) \in Nat /\ Len(s) >= 1
    BY EmptySeq
  <1>2. g = Body(g)
    BY DEF Joins
  <1>3. flatten = Body(flatten)
    BY <1>2
  <1>4. FlattenSeq(s) = flatten[Len(s)]
    BY <1>1 DEF FlattenSeq
  <1>5. Joins(flatten, s, Len(s))
    <2> HIDE DEF flatten
    <2> QED BY <1>3 DEF Joins
  <1> HIDE DEF flatten
  <1>6. flatten[Len(s)] = g[Len(s)]
    BY <1>1, <1>5, JoinsUnique
  <1> QED BY <1>4, <1>6

\* Nothing is made of nothing.
LEMMA FlattenEmpty == FlattenSeq(<<>>) = <<>>
  BY DEF FlattenSeq

\* The sequence appended last comes last.
LEMMA FlattenAppend ==
  ASSUME NEW S, NEW s \in Seq(Seq(S)), NEW e \in Seq(S)
  PROVE  /\ FlattenSeq(s) \in Seq(S)
         /\ FlattenSeq(Append(s, e)) = FlattenSeq(s) \o e
  <1> DEFINE t == Append(s, e)
             n == Len(s)
  <1>1. /\ n \in Nat /\ t \in Seq(Seq(S)) /\ t # <<>> /\ Len(t) = n + 1
        /\ \A i \in 1..n : t[i] = s[i]
        /\ t[n + 1] = e
    BY AppendProperties, LenProperties
  <1> HIDE DEF t, n
  <1>2. PICK g \in [1..(n + 1) -> Seq(S)] : Joins(g, t, n + 1)
    <2>1. t \in Seq(Seq(S)) /\ t # <<>>
      BY <1>1
    <2>2. \E g \in [1..Len(t) -> Seq(S)] : Joins(g, t, Len(t))
      BY <2>1, JoinsExist
    <2>3. Len(t) = n + 1
      BY <1>1
    <2> QED BY <2>2, <2>3, Zenon
  <1>3. FlattenSeq(t) = g[n + 1]
    BY <1>1, <1>2, FlattenIsJoin
  <1>4. CASE s = <<>>
    <2>1. n = 0
      BY <1>4, EmptySeq DEF n
    <2>2. FlattenSeq(t) = e
      <3>1. g[1] = t[1]
        BY <1>2, <2>1 DEF Joins
      <3> QED BY <1>1, <1>3, <2>1, <3>1
    <2>3. FlattenSeq(s) = <<>> /\ <<>> \o e = e /\ <<>> \in Seq(S)
      BY <1>4, FlattenEmpty, ConcatEmptySeq, EmptySeq
    <2> QED BY <2>2, <2>3 DEF t
  <1>5. CASE s # <<>>
    <2>1. n >= 1
      BY <1>5, EmptySeq DEF n
    <2> DEFINE h == [i \in 1..n |-> g[i]]
    <2>2. h \in [1..n -> Seq(S)] /\ Joins(h, s, n)
      <3>1. ASSUME NEW i \in 1..n
            PROVE  h[i] = IF i = 1 THEN s[i] ELSE h[i - 1] \o s[i]
        <4>1. i \in 1..(n + 1)
          BY <1>1
        <4>2. g[i] = IF i = 1 THEN t[i] ELSE g[i - 1] \o t[i]
          BY <1>2, <4>1, Zenon DEF Joins
        <4>3. h[i] = g[i] /\ t[i] = s[i] /\ (i # 1 => h[i - 1] = g[i - 1])
          BY <1>1
        <4> QED BY <4>2, <4>3, Zenon
      <3>2. h \in [1..n -> Seq(S)]
        BY <1>1, <1>2
      <3> QED BY <3>1, <3>2, Zenon DEF Joins
    <2>3. FlattenSeq(s) = h[n]
      <3> HIDE DEF h
      <3> QED BY <1>5, <2>2, FlattenIsJoin DEF n
    <2>4. h[n] = g[n] /\ g[n] \in Seq(S)
      BY <1>1, <1>2, <2>1
    <2>5. g[n + 1] = g[n] \o t[n + 1]
      <3>1. n + 1 \in 1..(n + 1) /\ n + 1 # 1 /\ (n + 1) - 1 = n
        BY <1>1, <2>1
      <3>2. g[n + 1] = g[(n + 1) - 1] \o t[n + 1]
        BY <1>2, <3>1, Zenon DEF Joins
      <3> QED BY <3>1, <3>2
    <2> QED BY <1>1, <1>3, <2>3, <2>4, <2>5 DEF t
  <1> QED BY <1>4, <1>5

\* A beginning of a sequence grows by one element at a time.
LEMMA PrefixGrows ==
  ASSUME NEW S, NEW s \in Seq(S), NEW n \in 0..(Len(s) - 1)
  PROVE  /\ SubSeq(s, 1, n) \in Seq(S)
         /\ s[n + 1] \in S
         /\ SubSeq(s, 1, n + 1) = Append(SubSeq(s, 1, n), s[n + 1])
  <1>1. Len(s) \in Nat /\ \A i \in 1..Len(s) : s[i] \in S
    BY LenProperties, ElementOfSeq
  <1>2. /\ SubSeq(s, 1, n) \in Seq(S)
        /\ Len(SubSeq(s, 1, n)) = n
        /\ \A i \in 1..n : SubSeq(s, 1, n)[i] = s[i]
    <2>1. \A i \in 1..n : s[i] \in S
      BY <1>1
    <2>2. /\ SubSeq(s, 1, n) \in Seq(S)
          /\ Len(SubSeq(s, 1, n)) = IF 1 <= n THEN n - 1 + 1 ELSE 0
          /\ \A i \in 1..(n - 1 + 1) : SubSeq(s, 1, n)[i] = s[1 + i - 1]
      BY <2>1, SubSeqProperties
    <2> QED BY <1>1, <2>2
  <1>3. /\ SubSeq(s, 1, n + 1) \in Seq(S)
        /\ Len(SubSeq(s, 1, n + 1)) = n + 1
        /\ \A i \in 1..(n + 1) : SubSeq(s, 1, n + 1)[i] = s[i]
    <2>1. \A i \in 1..(n + 1) : s[i] \in S
      BY <1>1
    <2>2. /\ SubSeq(s, 1, n + 1) \in Seq(S)
          /\ Len(SubSeq(s, 1, n + 1)) = IF 1 <= n + 1 THEN (n + 1) - 1 + 1 ELSE 0
          /\ \A i \in 1..((n + 1) - 1 + 1) : SubSeq(s, 1, n + 1)[i] = s[1 + i - 1]
      BY <2>1, SubSeqProperties
    <2> QED BY <1>1, <2>2
  <1> DEFINE a == Append(SubSeq(s, 1, n), s[n + 1])
  <1>4. s[n + 1] \in S
    BY <1>1
  <1>5. /\ a \in Seq(S) /\ Len(a) = n + 1
        /\ \A i \in 1..n : a[i] = s[i]
        /\ a[n + 1] = s[n + 1]
    BY <1>2, <1>4, AppendProperties
  <1> HIDE DEF a
  <1>6. \A i \in 1..(n + 1) : SubSeq(s, 1, n + 1)[i] = a[i]
    BY <1>3, <1>5
  <1>7. SubSeq(s, 1, n + 1) = a
    BY <1>3, <1>5, <1>6, SeqEqual
  <1> QED BY <1>2, <1>4, <1>7 DEF a

\* A sequence is its first element and the others.
LEMMA FirstAndOthers ==
  ASSUME NEW S, NEW s \in Seq(S), s # <<>>
  PROVE  /\ Head(s) \in S /\ <<Head(s)>> \in Seq(S) /\ Tail(s) \in Seq(S)
         /\ s = <<Head(s)>> \o Tail(s)
  <1>1. Head(s) \in S /\ Tail(s) \in Seq(S)
    BY HeadTailProperties
  <1>2. 1 \in 1..Len(s) /\ Len(s) \in 1..Len(s) /\ Head(s) = s[1]
    BY EmptySeq
  <1>3. SubSeq(s, 1, Len(s)) = <<s[1]>> \o SubSeq(s, 1 + 1, Len(s))
    BY <1>2, SubSeqRecursiveFirst
  <1>4. SubSeq(s, 1, Len(s)) = s /\ Tail(s) = SubSeq(s, 1 + 1, Len(s))
    BY SubSeqFull, TailIsSubSeq
  <1>5. <<Head(s)>> \in Seq(S)
    BY <1>1
  <1> QED BY <1>1, <1>2, <1>3, <1>4, <1>5

\* Flattening is done part by part.
LEMMA FlattenConcat ==
  ASSUME NEW S, NEW s \in Seq(Seq(S)), NEW t \in Seq(Seq(S))
  PROVE  FlattenSeq(s \o t) = FlattenSeq(s) \o FlattenSeq(t)
  <1>a. \A x, y, z \in Seq(S) : x \o y \o z = x \o (y \o z)
    BY ConcatAssociative, SMTT(30)
  <1>b. \A x, y, z \in Seq(Seq(S)) : x \o y \o z = x \o (y \o z)
    BY ConcatAssociative, SMTT(30)
  <1> DEFINE p(n) == SubSeq(t, 1, n)
             T == {n \in 0..Len(t) :
                     /\ p(n) \in Seq(Seq(S))
                     /\ FlattenSeq(s \o p(n)) = FlattenSeq(s) \o FlattenSeq(p(n))}
  <1>1. Len(t) \in Nat /\ <<>> \in Seq(S)
    BY LenProperties, EmptySeq
  <1>2. FlattenSeq(s) \in Seq(S)
    BY <1>1, FlattenAppend
  <1>3. 0 \in T
    <2>1. p(0) = <<>>
      BY SubSeqEmpty
    <2>2. s \o <<>> = s /\ FlattenSeq(s) \o <<>> = FlattenSeq(s)
      BY <1>2, ConcatEmptySeq
    <2>3. <<>> \in Seq(Seq(S)) /\ 0 \in 0..Len(t)
      BY <1>1, EmptySeq
    <2> QED BY <2>1, <2>2, <2>3, FlattenEmpty
  <1>4. ASSUME NEW n \in 0..Len(t), n \in T, n < Len(t)
        PROVE  n + 1 \in T
    <2> DEFINE e == t[n + 1]
               q == p(n)
    <2>1. e \in Seq(S) /\ q \in Seq(Seq(S)) /\ p(n + 1) = Append(q, e)
      <3>1. n \in 0..(Len(t) - 1)
        BY <1>1, <1>4
      <3> QED BY <3>1, PrefixGrows
    <2>2. FlattenSeq(s \o q) = FlattenSeq(s) \o FlattenSeq(q)
      BY <1>4
    <2>3. n + 1 \in 0..Len(t)
      BY <1>1, <1>4
    <2> HIDE DEF e, q
    <2>4. s \o Append(q, e) = Append(s \o q, e) /\ s \o q \in Seq(Seq(S))
          /\ Append(q, e) \in Seq(Seq(S))
      <3>1. Append(q, e) = q \o <<e>> /\ <<e>> \in Seq(Seq(S))
        BY <2>1, AppendIsConcat
      <3>2. s \o q \in Seq(Seq(S)) /\ Append(q, e) \in Seq(Seq(S))
        BY <2>1, ConcatProperties, AppendProperties
      <3>3. Append(s \o q, e) = (s \o q) \o <<e>>
        BY <2>1, <3>2, AppendIsConcat
      <3>4. (s \o q) \o <<e>> = s \o (q \o <<e>>)
        BY <2>1, <3>1, <1>b, Zenon
      <3> QED BY <3>1, <3>2, <3>3, <3>4
    <2>5. FlattenSeq(Append(s \o q, e)) = (FlattenSeq(s) \o FlattenSeq(q)) \o e
      <3> DEFINE w == s \o q
      <3>1. w \in Seq(Seq(S)) /\ e \in Seq(S)
        BY <2>1, <2>4
      <3> HIDE DEF w
      <3>2. FlattenSeq(Append(w, e)) = FlattenSeq(w) \o e
        BY <3>1, FlattenAppend
      <3> QED BY <2>2, <3>2 DEF w
    <2>6. FlattenSeq(Append(q, e)) = FlattenSeq(q) \o e /\ FlattenSeq(q) \in Seq(S)
      BY <2>1, FlattenAppend
    <2>7. (FlattenSeq(s) \o FlattenSeq(q)) \o e = FlattenSeq(s) \o (FlattenSeq(q) \o e)
      BY <1>2, <2>1, <2>6, <1>a, Zenon
    <2> QED BY <2>1, <2>3, <2>4, <2>5, <2>6, <2>7
  <1>5. p(Len(t)) = t
    BY SubSeqFull
  <1>6. Len(t) \in T
    <2> HIDE DEF T
    <2>1. 0..Len(t) \subseteq T
      BY <1>1, <1>3, <1>4, InductionFrom
    <2> QED BY <1>1, <2>1
  <1> QED BY <1>5, <1>6

-------------------------------------------------------------------------------

\* An event that was counted, and a sequence of such events, one by one.
Copies(c) == [j \in 1..c.count |-> c.event]
Unfolded(s) == FlattenSeq([i \in DOMAIN s |-> Copies(s[i])])

\* Counted events of a set E of events.
CountedOf(R, E) == \A r \in R : r.event \in E /\ r.count \in Nat

\* The copies of an event are a sequence.
LEMMA CopiesAreEvents ==
  ASSUME NEW E, NEW c, c.event \in E, c.count \in Nat
  PROVE  Copies(c) \in Seq(E) /\ Len(Copies(c)) = c.count
  BY DEF Copies

\* Each element of the sequence has its copies.
LEMMA CopiesOfEach ==
  ASSUME NEW E, NEW R, CountedOf(R, E), NEW s \in Seq(R)
  PROVE  [i \in DOMAIN s |-> Copies(s[i])] \in Seq(Seq(E))
  <1>1. Len(s) \in Nat /\ DOMAIN s = 1..Len(s) /\ \A i \in 1..Len(s) : s[i] \in R
    BY LenProperties, ElementOfSeq
  <1>2. \A i \in 1..Len(s) : Copies(s[i]) \in Seq(E)
    BY <1>1, CopiesAreEvents DEF CountedOf
  <1> QED BY <1>1, <1>2

\* Nothing is made of nothing.
LEMMA UnfoldedEmpty == Unfolded(<<>>) = <<>>
  BY FlattenEmpty DEF Unfolded

\* Unfolding is done part by part.
LEMMA UnfoldedConcat ==
  ASSUME NEW E, NEW R, CountedOf(R, E), NEW s \in Seq(R), NEW t \in Seq(R)
  PROVE  /\ Unfolded(s) \in Seq(E)
         /\ Unfolded(s \o t) = Unfolded(s) \o Unfolded(t)
  <1> DEFINE C(u) == [i \in DOMAIN u |-> Copies(u[i])]
  <1>1. C(s) \in Seq(Seq(E)) /\ C(t) \in Seq(Seq(E)) /\ <<>> \in Seq(E)
    BY CopiesOfEach, EmptySeq
  <1>2. C(s \o t) = C(s) \o C(t)
    <2>1. /\ Len(s) \in Nat /\ DOMAIN s = 1..Len(s)
          /\ Len(t) \in Nat /\ DOMAIN t = 1..Len(t)
      BY LenProperties
    <2>2. /\ s \o t \in Seq(R) /\ Len(s \o t) = Len(s) + Len(t)
          /\ \A i \in 1..(Len(s) + Len(t)) :
                (s \o t)[i] = IF i <= Len(s) THEN s[i] ELSE t[i - Len(s)]
      BY ConcatProperties
    <2>3. DOMAIN (s \o t) = 1..(Len(s) + Len(t))
      BY <2>2, LenProperties
    <2>4. Len(C(s)) = Len(s) /\ Len(C(t)) = Len(t)
      BY <1>1, <2>1
    <2>5. C(s \o t) \in Seq(Seq(E)) /\ Len(C(s \o t)) = Len(s) + Len(t)
      <3>1. C(s \o t) \in Seq(Seq(E))
        BY <2>2, CopiesOfEach
      <3> QED BY <2>1, <2>3, <3>1
    <2>6. /\ C(s) \o C(t) \in Seq(Seq(E))
          /\ Len(C(s) \o C(t)) = Len(s) + Len(t)
          /\ \A i \in 1..(Len(s) + Len(t)) :
                (C(s) \o C(t))[i] = IF i <= Len(s) THEN C(s)[i] ELSE C(t)[i - Len(s)]
      <3>1. \A a, b \in Seq(Seq(E)) :
              /\ a \o b \in Seq(Seq(E))
              /\ Len(a \o b) = Len(a) + Len(b)
              /\ \A i \in 1..(Len(a) + Len(b)) :
                    (a \o b)[i] = IF i <= Len(a) THEN a[i] ELSE b[i - Len(a)]
        BY ConcatProperties
      <3> HIDE DEF C
      <3>2. /\ C(s) \o C(t) \in Seq(Seq(E))
            /\ Len(C(s) \o C(t)) = Len(C(s)) + Len(C(t))
            /\ \A i \in 1..(Len(C(s)) + Len(C(t))) :
                  (C(s) \o C(t))[i]
                    = IF i <= Len(C(s)) THEN C(s)[i] ELSE C(t)[i - Len(C(s))]
        BY <1>1, <3>1, Zenon
      <3> QED BY <2>4, <3>2, Zenon
    <2>7. ASSUME NEW i \in 1..(Len(s) + Len(t))
          PROVE  C(s \o t)[i] = (C(s) \o C(t))[i]
      <3>1. CASE i <= Len(s)
        <4>1. C(s \o t)[i] = Copies(s[i]) /\ C(s)[i] = Copies(s[i])
          BY <2>1, <2>2, <2>3, <3>1
        <4> QED BY <2>6, <3>1, <4>1
      <3>2. CASE i > Len(s)
        <4>1. i - Len(s) \in 1..Len(t)
          BY <2>1, <3>2
        <4>2. C(s \o t)[i] = Copies(t[i - Len(s)])
              /\ C(t)[i - Len(s)] = Copies(t[i - Len(s)])
          BY <2>1, <2>2, <2>3, <3>2, <4>1
        <4>3. (C(s) \o C(t))[i] = C(t)[i - Len(s)]
          BY <2>1, <2>6, <3>2
        <4> QED BY <4>2, <4>3
      <3> QED BY <2>1, <3>1, <3>2
    <2> HIDE DEF C
    <2> QED BY <2>1, <2>5, <2>6, <2>7, SeqEqual
  <1>3. FlattenSeq(C(s)) \in Seq(E)
    BY <1>1, FlattenAppend
  <1>4. FlattenSeq(C(s) \o C(t)) = FlattenSeq(C(s)) \o FlattenSeq(C(t))
    BY <1>1, FlattenConcat
  <1>5. \A u : Unfolded(u) = FlattenSeq(C(u))
    BY DEF Unfolded
  <1> HIDE DEF C
  <1> QED BY <1>2, <1>3, <1>4, <1>5

\* One counted event is its copies.
LEMMA UnfoldedOne ==
  ASSUME NEW E, NEW c, c.event \in E, c.count \in Nat
  PROVE  Unfolded(<<c>>) = Copies(c)
  <1>1. [i \in DOMAIN <<c>> |-> Copies(<<c>>[i])] = <<Copies(c)>>
    OBVIOUS
  <1>2. Copies(c) \in Seq(E)
    BY CopiesAreEvents
  <1>3. FlattenSeq(Append(<<>>, Copies(c))) = FlattenSeq(<<>>) \o Copies(c)
    BY <1>2, EmptySeq, FlattenAppend
  <1>4. Append(<<>>, Copies(c)) = <<Copies(c)>> /\ <<>> \o Copies(c) = Copies(c)
    BY <1>2, ConcatEmptySeq
  <1> QED BY <1>1, <1>3, <1>4, FlattenEmpty DEF Unfolded

-------------------------------------------------------------------------------
\* Reads of a serial execution.  order is a sequence of sections <<t, s>>; a value
\* names the access that wrote it, as in OmpProgram.

Body(code, t, s) == code[t][s].body

\* Access a of section s of thread t writes v; it reads its variable.
WritesTo(code, t, s, a, v) ==
  Body(code, t, s)[a].op # "load" /\ Body(code, t, s)[a].var = v
IsRead(code, t, s, a) == Body(code, t, s)[a].op # "store"

\* The section, up to access a, has not written v; or w is its last write to v.
SilentOn(code, t, s, a, v) == \A b \in 1..(a - 1) : ~WritesTo(code, t, s, b, v)
WroteLast(code, t, s, a, v, w) ==
  \E b \in 1..(a - 1) : /\ w = <<t, s, b>> /\ WritesTo(code, t, s, b, v)
                        /\ \A c \in (b + 1)..(a - 1) : ~WritesTo(code, t, s, c, v)

End(code, t, s) == Len(Body(code, t, s)) + 1

\* v holds w after the first k sections of the order.
HoldsAfter(code, order, k, v, w) ==
  \/ \E i \in 1..k :
       /\ WroteLast(code, order[i][1], order[i][2], End(code, order[i][1], order[i][2]), v, w)
       /\ \A j \in (i + 1)..k :
            SilentOn(code, order[j][1], order[j][2], End(code, order[j][1], order[j][2]), v)
  \/ /\ w = <<>>
     /\ \A j \in 1..k :
          SilentOn(code, order[j][1], order[j][2], End(code, order[j][1], order[j][2]), v)

\* v holds w before access a of section <<t, s>>, which follows these k sections.
HoldsAt(code, order, k, t, s, a, v, w) ==
  \/ WroteLast(code, t, s, a, v, w)
  \/ SilentOn(code, t, s, a, v) /\ HoldsAfter(code, order, k, v, w)

\* The first k sections of two orders are the same.
SamePrefix(order, other, k) == \A i \in 1..k : other[i] = order[i]

-------------------------------------------------------------------------------

\* A section has at most one last write to a variable, and none if it is silent.
LEMMA OneLastWrite ==
  ASSUME NEW code, NEW t, NEW s, NEW a \in Int, NEW v, NEW w, NEW x,
         WroteLast(code, t, s, a, v, w)
  PROVE  /\ ~SilentOn(code, t, s, a, v)
         /\ WroteLast(code, t, s, a, v, x) => x = w
  <1>1. PICK b \in 1..(a - 1) :
          /\ w = <<t, s, b>> /\ WritesTo(code, t, s, b, v)
          /\ \A c \in (b + 1)..(a - 1) : ~WritesTo(code, t, s, c, v)
    BY DEF WroteLast
  <1>2. ASSUME WroteLast(code, t, s, a, v, x)
        PROVE  x = w
    <2>1. PICK d \in 1..(a - 1) :
            /\ x = <<t, s, d>> /\ WritesTo(code, t, s, d, v)
            /\ \A c \in (d + 1)..(a - 1) : ~WritesTo(code, t, s, c, v)
      BY <1>2 DEF WroteLast
    <2>2. ~(b < d) /\ ~(d < b)
      BY <1>1, <2>1
    <2>3. b = d
      BY <2>2
    <2> QED BY <1>1, <2>1, <2>3
  <1> QED BY <1>1, <1>2 DEF SilentOn

\* A variable holds one value after a number of sections.
LEMMA OneValueAfter ==
  ASSUME NEW code, NEW order, NEW k \in Nat, NEW v, NEW w, NEW x,
         \A i \in 1..k : End(code, order[i][1], order[i][2]) \in Int,
         HoldsAfter(code, order, k, v, w), HoldsAfter(code, order, k, v, x)
  PROVE  x = w
  <1> DEFINE Silent(i) ==
               SilentOn(code, order[i][1], order[i][2],
                        End(code, order[i][1], order[i][2]), v)
             LastIs(i, y) ==
               WroteLast(code, order[i][1], order[i][2],
                         End(code, order[i][1], order[i][2]), v, y)
  <1>1. \A i \in 1..k : \A y, z : LastIs(i, y) => ~Silent(i) /\ (LastIs(i, z) => z = y)
    BY OneLastWrite
  <1>2. \/ \E i \in 1..k : LastIs(i, w) /\ \A j \in (i + 1)..k : Silent(j)
        \/ w = <<>> /\ \A j \in 1..k : Silent(j)
    BY DEF HoldsAfter
  <1>3. \/ \E i \in 1..k : LastIs(i, x) /\ \A j \in (i + 1)..k : Silent(j)
        \/ x = <<>> /\ \A j \in 1..k : Silent(j)
    BY DEF HoldsAfter
  <1> HIDE DEF Silent, Last
  <1>4. CASE \A j \in 1..k : Silent(j)
    BY <1>1, <1>2, <1>3, <1>4
  <1>5. CASE ~ \A j \in 1..k : Silent(j)
    <2>1. PICK i \in 1..k : LastIs(i, w) /\ \A j \in (i + 1)..k : Silent(j)
      BY <1>2, <1>5
    <2>2. PICK e \in 1..k : LastIs(e, x) /\ \A j \in (e + 1)..k : Silent(j)
      BY <1>3, <1>5
    <2>3. ~Silent(i) /\ ~Silent(e)
      BY <1>1, <2>1, <2>2
    <2>4. ~(i < e) /\ ~(e < i)
      BY <2>1, <2>2, <2>3
    <2>5. i = e
      BY <2>4
    <2> QED BY <1>1, <2>1, <2>2, <2>5
  <1> QED BY <1>4, <1>5

\* Nor can an access find two values.
LEMMA OneValueAt ==
  ASSUME NEW code, NEW order, NEW k \in Nat, NEW t, NEW s, NEW a \in Int,
         NEW v, NEW w, NEW x,
         \A i \in 1..k : End(code, order[i][1], order[i][2]) \in Int,
         HoldsAt(code, order, k, t, s, a, v, w), HoldsAt(code, order, k, t, s, a, v, x)
  PROVE  x = w
  <1>1. CASE WroteLast(code, t, s, a, v, w)
    BY <1>1, OneLastWrite DEF HoldsAt
  <1>2. CASE SilentOn(code, t, s, a, v) /\ HoldsAfter(code, order, k, v, w)
    <2>1. ~WroteLast(code, t, s, a, v, x)
      BY <1>2, OneLastWrite
    <2>2. HoldsAfter(code, order, k, v, x)
      BY <2>1 DEF HoldsAt
    <2> QED BY <1>2, <2>2, OneValueAfter
  <1> QED BY <1>1, <1>2 DEF HoldsAt

\* The first access of a section finds what the sections before it left.
LEMMA HoldsAtFirst ==
  ASSUME NEW code, NEW order, NEW k, NEW t, NEW s, NEW v, NEW w
  PROVE  HoldsAt(code, order, k, t, s, 1, v, w) <=> HoldsAfter(code, order, k, v, w)
  BY DEF HoldsAt, WroteLast, SilentOn

\* An access that does not write v leaves its value; one that does is its value.
LEMMA HoldsNext ==
  ASSUME NEW code, NEW order, NEW k, NEW t, NEW s, NEW a \in Nat \ {0}, NEW v, NEW w
  PROVE  /\ WritesTo(code, t, s, a, v) =>
              HoldsAt(code, order, k, t, s, a + 1, v, <<t, s, a>>)
         /\ ~WritesTo(code, t, s, a, v) /\ HoldsAt(code, order, k, t, s, a, v, w) =>
              HoldsAt(code, order, k, t, s, a + 1, v, w)
  <1>1. ASSUME WritesTo(code, t, s, a, v)
        PROVE  WroteLast(code, t, s, a + 1, v, <<t, s, a>>)
    BY <1>1 DEF WroteLast
  <1>2. ASSUME ~WritesTo(code, t, s, a, v), SilentOn(code, t, s, a, v)
        PROVE  SilentOn(code, t, s, a + 1, v)
    BY <1>2 DEF SilentOn
  <1>3. ASSUME ~WritesTo(code, t, s, a, v), WroteLast(code, t, s, a, v, w)
        PROVE  WroteLast(code, t, s, a + 1, v, w)
    <2>1. PICK b \in 1..(a - 1) :
            /\ w = <<t, s, b>> /\ WritesTo(code, t, s, b, v)
            /\ \A c \in (b + 1)..(a - 1) : ~WritesTo(code, t, s, c, v)
      BY <1>3 DEF WroteLast
    <2>2. b \in 1..(a + 1 - 1) /\ \A c \in (b + 1)..(a + 1 - 1) : ~WritesTo(code, t, s, c, v)
      BY <1>3, <2>1
    <2> QED BY <2>1, <2>2 DEF WroteLast
  <1> QED BY <1>1, <1>2, <1>3 DEF HoldsAt

\* What is known of k sections stays known when the order grows.
LEMMA HoldsKept ==
  ASSUME NEW code, NEW order, NEW other, NEW k, SamePrefix(order, other, k), k \in Nat,
         NEW v, NEW w
  PROVE  /\ HoldsAfter(code, order, k, v, w) => HoldsAfter(code, other, k, v, w)
         /\ \A t, s, a : HoldsAt(code, order, k, t, s, a, v, w) =>
                           HoldsAt(code, other, k, t, s, a, v, w)
  <1>1. ASSUME HoldsAfter(code, order, k, v, w)
        PROVE  HoldsAfter(code, other, k, v, w)
    <2>1. \A i \in 1..k : other[i] = order[i]
      BY DEF SamePrefix
    <2>2. \A i \in 1..k : \A j \in (i + 1)..k : other[j] = order[j]
      BY <2>1
    <2> QED BY <1>1, <2>1, <2>2 DEF HoldsAfter
  <1> QED BY <1>1 DEF HoldsAt

\* A section that does not write v may be next in the order without changing it.
LEMMA HoldsSilent ==
  ASSUME NEW code, NEW order, NEW k \in Nat, NEW v, NEW w,
         SilentOn(code, order[k + 1][1], order[k + 1][2],
                  End(code, order[k + 1][1], order[k + 1][2]), v)
  PROVE  /\ HoldsAfter(code, order, k, v, w) => HoldsAfter(code, order, k + 1, v, w)
         /\ \A t, s, a : HoldsAt(code, order, k, t, s, a, v, w) =>
                           HoldsAt(code, order, k + 1, t, s, a, v, w)
  <1>1. ASSUME HoldsAfter(code, order, k, v, w)
        PROVE  HoldsAfter(code, order, k + 1, v, w)
    <2> DEFINE Silent(i) ==
                 SilentOn(code, order[i][1], order[i][2],
                          End(code, order[i][1], order[i][2]), v)
               Final(i) ==
                 WroteLast(code, order[i][1], order[i][2],
                           End(code, order[i][1], order[i][2]), v, w)
    <2>1. Silent(k + 1)
      OBVIOUS
    <2>2. \/ \E i \in 1..k : Final(i) /\ \A j \in (i + 1)..k : Silent(j)
          \/ w = <<>> /\ \A j \in 1..k : Silent(j)
      BY <1>1 DEF HoldsAfter
    <2>3. \/ \E i \in 1..(k + 1) : Final(i) /\ \A j \in (i + 1)..(k + 1) : Silent(j)
          \/ w = <<>> /\ \A j \in 1..(k + 1) : Silent(j)
      <3> HIDE DEF Silent, Final
      <3>1. CASE \E i \in 1..k : Final(i) /\ \A j \in (i + 1)..k : Silent(j)
        <4>1. PICK i \in 1..k : Final(i) /\ \A j \in (i + 1)..k : Silent(j)
          BY <3>1
        <4>2. i \in 1..(k + 1) /\ \A j \in (i + 1)..(k + 1) : Silent(j)
          BY <2>1, <4>1
        <4> QED BY <4>1, <4>2
      <3>2. CASE w = <<>> /\ \A j \in 1..k : Silent(j)
        BY <2>1, <3>2
      <3> QED BY <2>2, <3>1, <3>2
    <2> QED BY <2>3 DEF HoldsAfter
  <1> QED BY <1>1 DEF HoldsAt

\* A section that has run to its end is the next one of the order.
LEMMA HoldsEnd ==
  ASSUME NEW code, NEW order, NEW k \in Nat, NEW t, NEW s, NEW v, NEW w,
         order[k + 1] = <<t, s>>,
         HoldsAt(code, order, k, t, s, End(code, t, s), v, w)
  PROVE  HoldsAfter(code, order, k + 1, v, w)
  <1>1. CASE WroteLast(code, t, s, End(code, t, s), v, w)
    <2>1. k + 1 \in 1..(k + 1) /\ (k + 1 + 1)..(k + 1) = {}
      OBVIOUS
    <2> QED BY <1>1, <2>1 DEF HoldsAfter
  <1>2. CASE SilentOn(code, t, s, End(code, t, s), v) /\ HoldsAfter(code, order, k, v, w)
    BY <1>2, HoldsSilent
  <1> QED BY <1>1, <1>2 DEF HoldsAt

-------------------------------------------------------------------------------
\* Where the values a thread reads are in its log.

\* The reading accesses of thread t before access a of its section s.
Reads(code, t, s, a) ==
  {p \in (1..Len(code[t])) \X Nat :
     /\ p[2] \in 1..Len(Body(code, t, p[1])) /\ IsRead(code, t, p[1], p[2])
     /\ p[1] < s \/ (p[1] = s /\ p[2] < a)}

\* All reading accesses of thread t, and the place of one in the log.
AllReads(code, t) == Reads(code, t, Len(code[t]) + 1, 1)
PlaceOf(code, t, p) == Cardinality(Reads(code, t, p[1], p[2])) + 1

\* Reads that are past have their place among the reads that are past.
LEMMA ReadsFirst ==
  ASSUME NEW code, NEW t
  PROVE  Reads(code, t, 1, 1) = {}
  BY DEF Reads

\* An access is a read itself, or adds none.
LEMMA ReadsNext ==
  ASSUME NEW code, NEW t, Len(code[t]) \in Nat,
         NEW s \in 1..Len(code[t]), NEW a \in 1..Len(Body(code, t, s))
  PROVE  /\ <<s, a>> \notin Reads(code, t, s, a)
         /\ IsRead(code, t, s, a) =>
              Reads(code, t, s, a + 1) = Reads(code, t, s, a) \cup {<<s, a>>}
         /\ ~IsRead(code, t, s, a) => Reads(code, t, s, a + 1) = Reads(code, t, s, a)
  <1> DEFINE In(p) == p[2] \in 1..Len(Body(code, t, p[1])) /\ IsRead(code, t, p[1], p[2])
             All == (1..Len(code[t])) \X Nat
  <1>1. \A p \in All : (p[1] < s \/ (p[1] = s /\ p[2] < a + 1))
                         <=> (p[1] < s \/ (p[1] = s /\ p[2] < a) \/ p = <<s, a>>)
    <2> SUFFICES ASSUME NEW p \in All
                 PROVE  (p[1] < s \/ (p[1] = s /\ p[2] < a + 1))
                          <=> (p[1] < s \/ (p[1] = s /\ p[2] < a) \/ p = <<s, a>>)
      OBVIOUS
    <2>1. p = <<p[1], p[2]>> /\ p[1] \in Nat /\ p[2] \in Nat
      OBVIOUS
    <2>2. p = <<s, a>> <=> p[1] = s /\ p[2] = a
      BY <2>1
    <2> QED BY <2>1, <2>2
  <1>2. <<s, a>> \in All /\ (In(<<s, a>>) <=> IsRead(code, t, s, a))
    OBVIOUS
  <1>3. Reads(code, t, s, a) = {p \in All : In(p) /\ (p[1] < s \/ (p[1] = s /\ p[2] < a))}
    BY DEF Reads
  <1>4. Reads(code, t, s, a + 1)
          = {p \in All : In(p) /\ (p[1] < s \/ (p[1] = s /\ p[2] < a + 1))}
    BY DEF Reads
  <1>5. <<s, a>> \notin Reads(code, t, s, a)
    BY <1>3
  <1> HIDE DEF In, All
  <1> QED BY <1>1, <1>2, <1>3, <1>4, <1>5

\* Going on to the next section adds none.
LEMMA ReadsEnd ==
  ASSUME NEW code, NEW t, Len(code[t]) \in Nat, NEW s \in 1..Len(code[t]),
         Len(Body(code, t, s)) \in Nat
  PROVE  Reads(code, t, s + 1, 1) = Reads(code, t, s, End(code, t, s))
  <1>1. \A p \in (1..Len(code[t])) \X Nat :
          p[2] \in 1..Len(Body(code, t, p[1])) =>
            ((p[1] < s + 1 \/ (p[1] = s + 1 /\ p[2] < 1))
               <=> (p[1] < s \/ (p[1] = s /\ p[2] < End(code, t, s))))
    BY DEF End
  <1> QED BY <1>1 DEF Reads

\* Later points have more reads behind them.
LEMMA ReadsGrow ==
  ASSUME NEW code, NEW t, NEW s \in Nat, NEW a \in Nat, NEW u \in Nat, NEW b \in Nat,
         s < u \/ (s = u /\ a <= b)
  PROVE  Reads(code, t, s, a) \subseteq Reads(code, t, u, b)
  BY DEF Reads

\* n values have been read before access a of section s: each has its own place.
Shape(code, t, s, a, n) ==
  /\ IsFiniteSet(Reads(code, t, s, a)) /\ n = Cardinality(Reads(code, t, s, a))
  /\ \A p \in Reads(code, t, s, a) : PlaceOf(code, t, p) \in 1..n
  /\ \A i \in 1..n : \E p \in Reads(code, t, s, a) : PlaceOf(code, t, p) = i

\* At the start nothing has been read.
LEMMA ShapeFirst ==
  ASSUME NEW code, NEW t
  PROVE  Shape(code, t, 1, 1, 0)
  BY ReadsFirst, FS_EmptySet DEF Shape

\* The value that is read has the next place.
LEMMA ShapeNext ==
  ASSUME NEW code, NEW t, Len(code[t]) \in Nat,
         NEW s \in 1..Len(code[t]), NEW a \in 1..Len(Body(code, t, s)),
         NEW n \in Nat, Shape(code, t, s, a, n)
  PROVE  /\ IsRead(code, t, s, a) =>
              Shape(code, t, s, a + 1, n + 1) /\ PlaceOf(code, t, <<s, a>>) = n + 1
         /\ ~IsRead(code, t, s, a) => Shape(code, t, s, a + 1, n)
  <1>0. /\ <<s, a>> \notin Reads(code, t, s, a)
        /\ IsRead(code, t, s, a) =>
             Reads(code, t, s, a + 1) = Reads(code, t, s, a) \cup {<<s, a>>}
        /\ ~IsRead(code, t, s, a) => Reads(code, t, s, a + 1) = Reads(code, t, s, a)
    BY ReadsNext
  <1>1. CASE ~IsRead(code, t, s, a)
    BY <1>0, <1>1 DEF Shape
  <1>2. CASE IsRead(code, t, s, a)
    <2>q. PICK q, P, Q : q = <<s, a>> /\ P = Reads(code, t, s, a) /\ Q = P \cup {q}
      OBVIOUS
    <2>1. q \notin P /\ Q = Reads(code, t, s, a + 1)
      <3>1. /\ <<s, a>> \notin Reads(code, t, s, a)
            /\ Reads(code, t, s, a + 1) = Reads(code, t, s, a) \cup {<<s, a>>}
        BY <1>0, <1>2
      <3> QED BY <2>q, <3>1
    <2>2. IsFiniteSet(P) /\ n = Cardinality(P)
      BY <2>q DEF Shape
    <2>3. IsFiniteSet(Q) /\ Cardinality(Q) = n + 1
      <3>1. IsFiniteSet(P \cup {q}) /\ Cardinality(P \cup {q}) = Cardinality(P) + 1
        BY <2>1, <2>2, FS_AddElement
      <3> QED BY <2>q, <2>2, <3>1
    <2>4. PlaceOf(code, t, q) = n + 1
      BY <2>q, <2>2 DEF PlaceOf
    <2>5. /\ \A p \in P : PlaceOf(code, t, p) \in 1..n
          /\ \A i \in 1..n : \E p \in P : PlaceOf(code, t, p) = i
      BY <2>q DEF Shape
    <2>6. \A p \in Q : PlaceOf(code, t, p) \in 1..(n + 1)
      BY <2>q, <2>4, <2>5
    <2>7. ASSUME NEW i \in 1..(n + 1)
          PROVE  \E p \in Q : PlaceOf(code, t, p) = i
      <3>1. CASE i \in 1..n
        BY <2>q, <2>5, <3>1
      <3>2. CASE i \notin 1..n
        <4>1. i = n + 1
          BY <3>2
        <4> QED BY <2>q, <2>4, <4>1
      <3> QED BY <3>1, <3>2
    <2>8. Shape(code, t, s, a + 1, n + 1)
      BY <2>1, <2>3, <2>6, <2>7 DEF Shape
    <2> QED BY <1>2, <2>q, <2>4, <2>8
  <1> QED BY <1>1, <1>2

\* Going on to the next section reads nothing.
LEMMA ShapeEnd ==
  ASSUME NEW code, NEW t, Len(code[t]) \in Nat, NEW s \in 1..Len(code[t]),
         Len(Body(code, t, s)) \in Nat, NEW n, Shape(code, t, s, End(code, t, s), n)
  PROVE  Shape(code, t, s + 1, 1, n)
  BY ReadsEnd DEF Shape

-------------------------------------------------------------------------------
\* Sequences that lose or gain an element, and stay in order.

\* The least number of a set, or 0.
LEMMA LeastFound ==
  ASSUME NEW I \in SUBSET Nat, 0 \notin I, NEW i, i = IF I # {} THEN Min(I) ELSE 0
  PROVE  IF I = {} THEN i = 0 ELSE i \in I /\ \A j \in I : i <= j
  <1>1. CASE I = {}
    BY <1>1
  <1>2. CASE I # {}
    <2>1. \E k \in I : \A j \in I : k <= j
      BY <1>2, LeastNumber
    <2>2. i = CHOOSE x \in I : \A y \in I : x <= y
      BY <1>2 DEF Min
    <2> QED BY <1>2, <2>1, <2>2
  <1> QED BY <1>1, <1>2

\* t is what is left of q at the places K, in order.
Thins(t, q, K) ==
  \E f \in [DOMAIN t -> K] :
    /\ \A a, b \in DOMAIN t : a < b => f[a] < f[b]
    /\ \A a \in DOMAIN t : t[a] = q[f[a]]
    /\ \A j \in K : \E a \in DOMAIN t : f[a] = j

\* What RemoveAt leaves.
LEMMA RemoveAtThins ==
  ASSUME NEW S, NEW q \in Seq(S), NEW i \in 1..Len(q)
  PROVE  RemoveAt(q, i) \in Seq(S) /\ Thins(RemoveAt(q, i), q, DOMAIN q \ {i})
  <1> DEFINE t == RemoveAt(q, i)
             L == Len(q)
             g == [a \in 1..(L - 1) |-> IF a < i THEN a ELSE a + 1]
  <1>1. L \in Nat /\ DOMAIN q = 1..L /\ i \in 1..L /\ \A j \in 1..L : q[j] \in S
    BY LenProperties, ElementOfSeq
  <1>2. /\ SubSeq(q, 1, i - 1) \in Seq(S) /\ Len(SubSeq(q, 1, i - 1)) = i - 1
        /\ \A a \in 1..(i - 1) : SubSeq(q, 1, i - 1)[a] = q[a]
    <2>1. \A a \in 1..(i - 1) : q[a] \in S
      BY <1>1
    <2>2. /\ SubSeq(q, 1, i - 1) \in Seq(S)
          /\ Len(SubSeq(q, 1, i - 1)) = IF 1 <= i - 1 THEN (i - 1) - 1 + 1 ELSE 0
          /\ \A a \in 1..((i - 1) - 1 + 1) : SubSeq(q, 1, i - 1)[a] = q[1 + a - 1]
      <3>1. 1 \in Int /\ i - 1 \in Int
        BY <1>1
      <3> QED BY <2>1, <3>1, SubSeqProperties
    <2> QED BY <1>1, <2>2
  <1>3. /\ SubSeq(q, i + 1, L) \in Seq(S) /\ Len(SubSeq(q, i + 1, L)) = L - i
        /\ \A a \in 1..(L - i) : SubSeq(q, i + 1, L)[a] = q[i + a]
    <2>1. \A a \in (i + 1)..L : q[a] \in S
      BY <1>1
    <2>2. /\ SubSeq(q, i + 1, L) \in Seq(S)
          /\ Len(SubSeq(q, i + 1, L)) = IF i + 1 <= L THEN L - (i + 1) + 1 ELSE 0
          /\ \A a \in 1..(L - (i + 1) + 1) : SubSeq(q, i + 1, L)[a] = q[(i + 1) + a - 1]
      <3>1. i + 1 \in Int /\ L \in Int
        BY <1>1
      <3> HIDE DEF L
      <3> QED BY <2>1, <3>1, SubSeqProperties
    <2>3. /\ L - (i + 1) + 1 = L - i /\ (~(i + 1 <= L) => L - i = 0)
          /\ \A a \in 1..(L - i) : (i + 1) + a - 1 = i + a
      <3>1. L \in Nat /\ i \in 1..L
        BY <1>1
      <3> HIDE DEF L
      <3> QED BY <3>1
    <2> HIDE DEF L
    <2> QED BY <2>2, <2>3
  <1>4. t = SubSeq(q, 1, i - 1) \o SubSeq(q, i + 1, L)
    BY DEF RemoveAt
  <1>5. /\ t \in Seq(S) /\ Len(t) = L - 1
        /\ \A a \in 1..(L - 1) : t[a] = q[g[a]]
    <2> DEFINE u == SubSeq(q, 1, i - 1)
               v == SubSeq(q, i + 1, L)
    <2>1. u \in Seq(S) /\ v \in Seq(S) /\ Len(u) = i - 1 /\ Len(v) = L - i
      BY <1>2, <1>3
    <2> HIDE DEF u, v
    <2>2. /\ u \o v \in Seq(S) /\ Len(u \o v) = Len(u) + Len(v)
          /\ \A a \in 1..(Len(u) + Len(v)) :
               (u \o v)[a] = IF a <= Len(u) THEN u[a] ELSE v[a - Len(u)]
      BY <2>1, ConcatProperties
    <2>3. t = u \o v
      BY <1>4 DEF u, v
    <2>4. \A a \in 1..(i - 1) : u[a] = q[a]
      BY <1>2 DEF u
    <2>5. \A a \in 1..(L - i) : v[a] = q[i + a]
      BY <1>3 DEF v
    <2> HIDE DEF t, L
    <2>6. ASSUME NEW a \in 1..(L - 1)
          PROVE  t[a] = q[g[a]]
      <3>1. t[a] = IF a <= i - 1 THEN u[a] ELSE v[a - (i - 1)]
        BY <1>1, <2>1, <2>2, <2>3
      <3>2. CASE a <= i - 1
        BY <1>1, <2>4, <3>1, <3>2
      <3>3. CASE a > i - 1
        <4>1. a - (i - 1) \in 1..(L - i) /\ i + (a - (i - 1)) = a + 1 /\ ~(a < i)
          BY <1>1, <3>3
        <4>2. v[a - (i - 1)] = q[a + 1]
          BY <2>5, <4>1
        <4> QED BY <1>1, <3>1, <3>3, <4>1, <4>2
      <3> QED BY <1>1, <3>2, <3>3
    <2>7. (i - 1) + (L - i) = L - 1
      BY <1>1
    <2> HIDE DEF g
    <2> QED BY <2>1, <2>2, <2>3, <2>6, <2>7
  <1>6. DOMAIN t = 1..(L - 1)
    BY <1>5, LenProperties
  <1> HIDE DEF t, L
  <1>7. g \in [DOMAIN t -> DOMAIN q \ {i}]
    BY <1>1, <1>6
  <1>8. \A a, b \in DOMAIN t : a < b => g[a] < g[b]
    BY <1>1, <1>6
  <1>9. \A j \in DOMAIN q \ {i} : \E a \in DOMAIN t : g[a] = j
    <2> SUFFICES ASSUME NEW j \in DOMAIN q \ {i} PROVE \E a \in DOMAIN t : g[a] = j
      OBVIOUS
    <2>1. CASE j < i
      <3>1. j \in DOMAIN t /\ g[j] = j
        BY <1>1, <1>6, <2>1
      <3> QED BY <3>1
    <2>2. CASE j > i
      <3>1. j - 1 \in DOMAIN t /\ g[j - 1] = j
        BY <1>1, <1>6, <2>2
      <3> QED BY <3>1
    <2> QED BY <1>1, <2>1, <2>2
  <1>10. Thins(t, q, DOMAIN q \ {i})
    <2> HIDE DEF g
    <2> QED BY <1>5, <1>6, <1>7, <1>8, <1>9 DEF Thins
  <1> QED BY <1>5, <1>10 DEF t

\* What Tail leaves.
LEMMA TailThins ==
  ASSUME NEW S, NEW q \in Seq(S), q # <<>>
  PROVE  /\ Tail(q) \in Seq(S) /\ Head(q) = q[1] /\ 1 \in DOMAIN q
         /\ Thins(Tail(q), q, DOMAIN q \ {1})
  <1> DEFINE t == Tail(q)
             g == [a \in 1..(Len(q) - 1) |-> a + 1]
  <1>1. Len(q) \in Nat /\ DOMAIN q = 1..Len(q) /\ Len(q) >= 1
    BY EmptySeq, LenProperties
  <1>2. /\ t \in Seq(S) /\ Len(t) = Len(q) - 1 /\ Head(q) = q[1]
        /\ \A a \in 1..Len(t) : t[a] = q[a + 1]
    BY HeadTailProperties
  <1>3. DOMAIN t = 1..(Len(q) - 1)
    BY <1>2, LenProperties
  <1> HIDE DEF t
  <1>4. g \in [DOMAIN t -> DOMAIN q \ {1}]
    BY <1>1, <1>3
  <1>5. \A a, b \in DOMAIN t : a < b => g[a] < g[b]
    BY <1>1, <1>3
  <1>6. \A a \in DOMAIN t : t[a] = q[g[a]]
    BY <1>1, <1>2, <1>3
  <1>7. \A j \in DOMAIN q \ {1} : \E a \in DOMAIN t : g[a] = j
    <2> SUFFICES ASSUME NEW j \in DOMAIN q \ {1} PROVE \E a \in DOMAIN t : g[a] = j
      OBVIOUS
    <2>1. j - 1 \in DOMAIN t /\ g[j - 1] = j
      BY <1>1, <1>3
    <2> QED BY <2>1
  <1>8. Thins(t, q, DOMAIN q \ {1})
    <2> HIDE DEF g
    <2> QED BY <1>4, <1>5, <1>6, <1>7 DEF Thins
  <1> QED BY <1>1, <1>2, <1>8 DEF t

\* The elements that are left.
LEMMA ThinsElements ==
  ASSUME NEW S, NEW q \in Seq(S), NEW K \in SUBSET DOMAIN q, NEW t, Thins(t, q, K)
  PROVE  ToSet(t) = {q[j] : j \in K} /\ ToSet(t) \subseteq ToSet(q)
  <1>1. PICK f \in [DOMAIN t -> K] :
          /\ \A a \in DOMAIN t : t[a] = q[f[a]]
          /\ \A j \in K : \E a \in DOMAIN t : f[a] = j
    BY DEF Thins
  <1>2. ToSet(t) = {t[a] : a \in DOMAIN t} /\ ToSet(q) = {q[j] : j \in DOMAIN q}
    BY Zenon DEF ToSet
  <1>3. ToSet(t) = {q[j] : j \in K}
    <2>1. \A x \in ToSet(t) : x \in {q[j] : j \in K}
      BY <1>1, <1>2
    <2>2. \A x \in {q[j] : j \in K} : x \in ToSet(t)
      BY <1>1, <1>2
    <2> QED BY <2>1, <2>2
  <1> QED BY <1>2, <1>3

\* Sequences in order.
ByNumber(q) == \A i, j \in DOMAIN q : i < j => q[i].n < q[j].n
BySource(q) == \A i, j \in DOMAIN q : i < j /\ q[i].from = q[j].from => q[i].n < q[j].n
ByRequest(q) == \A i, j \in DOMAIN q : i < j => q[i].k < q[j].k

\* They are in the same order.
LEMMA ThinsOrder ==
  ASSUME NEW S, NEW q \in Seq(S), NEW K \in SUBSET DOMAIN q, NEW t, Thins(t, q, K)
  PROVE  /\ ByNumber(q) => ByNumber(t)
         /\ BySource(q) => BySource(t)
         /\ ByRequest(q) => ByRequest(t)
  <1>1. PICK f \in [DOMAIN t -> K] :
          /\ \A a, b \in DOMAIN t : a < b => f[a] < f[b]
          /\ \A a \in DOMAIN t : t[a] = q[f[a]]
    BY DEF Thins
  <1>2. \A a \in DOMAIN t : f[a] \in DOMAIN q
    BY <1>1
  <1>3. ByNumber(q) => ByNumber(t)
    BY <1>1, <1>2 DEF ByNumber
  <1>4. BySource(q) => BySource(t)
    BY <1>1, <1>2 DEF BySource
  <1>5. ByRequest(q) => ByRequest(t)
    BY <1>1, <1>2 DEF ByRequest
  <1> QED BY <1>3, <1>4, <1>5

\* What Append adds.
LEMMA AppendElements ==
  ASSUME NEW S, NEW q \in Seq(S), NEW e \in S
  PROVE  Append(q, e) \in Seq(S) /\ ToSet(Append(q, e)) = ToSet(q) \cup {e}
  <1> DEFINE t == Append(q, e)
  <1>1. /\ t \in Seq(S) /\ Len(t) = Len(q) + 1 /\ Len(q) \in Nat
        /\ \A i \in 1..Len(q) : t[i] = q[i]
        /\ t[Len(q) + 1] = e
    BY AppendProperties, LenProperties
  <1>2. DOMAIN t = 1..(Len(q) + 1) /\ DOMAIN q = 1..Len(q)
    BY <1>1, LenProperties
  <1>3. ToSet(t) = {t[a] : a \in DOMAIN t} /\ ToSet(q) = {q[j] : j \in DOMAIN q}
    BY Zenon DEF ToSet
  <1> HIDE DEF t
  <1>4. \A x \in ToSet(t) : x \in ToSet(q) \cup {e}
    <2> SUFFICES ASSUME NEW a \in DOMAIN t PROVE t[a] \in ToSet(q) \cup {e}
      BY <1>3
    <2>1. CASE a = Len(q) + 1
      BY <1>1, <2>1
    <2>2. CASE a # Len(q) + 1
      <3>1. a \in 1..Len(q)
        BY <1>1, <1>2, <2>2
      <3> QED BY <1>1, <1>2, <1>3, <3>1
    <2> QED BY <2>1, <2>2
  <1>5. \A x \in ToSet(q) : x \in ToSet(t)
    <2> SUFFICES ASSUME NEW a \in DOMAIN q PROVE q[a] \in ToSet(t)
      BY <1>3
    <2>1. a \in 1..Len(q) /\ a \in DOMAIN t
      BY <1>1, <1>2
    <2>2. t[a] = q[a]
      BY <1>1, <2>1
    <2> QED BY <1>3, <2>1, <2>2
  <1>6. e \in ToSet(t)
    <2>1. Len(q) + 1 \in DOMAIN t
      BY <1>1, <1>2
    <2> QED BY <1>1, <1>3, <2>1
  <1>7. ToSet(t) = ToSet(q) \cup {e}
    BY <1>4, <1>5, <1>6
  <1> QED BY <1>1, <1>7 DEF t

\* What is appended comes last.
LEMMA AppendOrder ==
  ASSUME NEW S, NEW q \in Seq(S), NEW e \in S
  PROVE  /\ ByNumber(q) /\ (\A x \in ToSet(q) : x.n < e.n) => ByNumber(Append(q, e))
         /\ BySource(q) /\ (\A x \in ToSet(q) : x.from = e.from => x.n < e.n) =>
              BySource(Append(q, e))
         /\ ByRequest(q) /\ (\A x \in ToSet(q) : x.k < e.k) => ByRequest(Append(q, e))
  <1> DEFINE t == Append(q, e)
  <1>1. /\ t \in Seq(S) /\ Len(t) = Len(q) + 1 /\ Len(q) \in Nat
        /\ \A i \in 1..Len(q) : t[i] = q[i]
        /\ t[Len(q) + 1] = e
    BY AppendProperties, LenProperties
  <1>2. DOMAIN t = 1..(Len(q) + 1) /\ DOMAIN q = 1..Len(q)
    BY <1>1, LenProperties
  <1>3. \A i \in 1..Len(q) : q[i] \in ToSet(q)
    BY <1>2, Zenon DEF ToSet
  <1> HIDE DEF t
  <1>4. ASSUME NEW i \in DOMAIN t, NEW j \in DOMAIN t, i < j
        PROVE  /\ i \in 1..Len(q) /\ t[i] = q[i] /\ t[i] \in ToSet(q)
               /\ (j \in 1..Len(q) /\ t[j] = q[j]) \/ t[j] = e
    <2>1. i \in 1..Len(q)
      BY <1>1, <1>2, <1>4
    <2>2. j \in 1..Len(q) \/ j = Len(q) + 1
      BY <1>1, <1>2
    <2> QED BY <1>1, <1>3, <2>1, <2>2
  <1>5. ByNumber(q) /\ (\A x \in ToSet(q) : x.n < e.n) => ByNumber(t)
    BY <1>2, <1>4 DEF ByNumber
  <1>6. BySource(q) /\ (\A x \in ToSet(q) : x.from = e.from => x.n < e.n) => BySource(t)
    BY <1>2, <1>4 DEF BySource
  <1>7. ByRequest(q) /\ (\A x \in ToSet(q) : x.k < e.k) => ByRequest(t)
    BY <1>2, <1>4 DEF ByRequest
  <1> QED BY <1>5, <1>6, <1>7 DEF t

\* The first message of a queue was sent first.
LEMMA HeadFirst ==
  ASSUME NEW S, NEW q \in Seq(S), q # <<>>, ByNumber(q)
  PROVE  /\ Head(q) \in ToSet(q)
         /\ \A x \in ToSet(Tail(q)) : x \in ToSet(q) /\ Head(q).n < x.n
         /\ \A x \in ToSet(q) : x = Head(q) \/ x \in ToSet(Tail(q))
  <1>1. /\ Tail(q) \in Seq(S) /\ Head(q) = q[1] /\ 1 \in DOMAIN q
        /\ Thins(Tail(q), q, DOMAIN q \ {1})
    BY TailThins
  <1>2. DOMAIN q \ {1} \in SUBSET DOMAIN q
    OBVIOUS
  <1> DEFINE t == Tail(q)
             K == DOMAIN q \ {1}
  <1>3. Thins(t, q, K) /\ K \in SUBSET DOMAIN q
    BY <1>1, <1>2
  <1>4. ToSet(t) = {q[j] : j \in K}
    <2> HIDE DEF t, K
    <2> QED BY <1>3, ThinsElements
  <1>5. ToSet(q) = {q[j] : j \in DOMAIN q}
    BY Zenon DEF ToSet
  <1>6. \A j \in K : 1 < j
    BY LenProperties
  <1> HIDE DEF t
  <1>7. \A x \in ToSet(t) : x \in ToSet(q) /\ q[1].n < x.n
    BY <1>1, <1>4, <1>5, <1>6 DEF ByNumber
  <1>8. \A x \in ToSet(q) : x = q[1] \/ x \in ToSet(t)
    BY <1>4, <1>5
  <1>9. q[1] \in ToSet(q)
    BY <1>1, <1>5
  <1> QED BY <1>1, <1>7, <1>8, <1>9 DEF t

-------------------------------------------------------------------------------
\* Sets of numbers in order.

\* A set of indices has a greatest one.
LEMMA GreatestExists ==
  ASSUME NEW L \in Nat, NEW is \in SUBSET (1..L), is # {}
  PROVE  \E x \in is : \A y \in is : y <= x
  <1> DEFINE Back == {n \in Nat : \E x \in is : n = L - x}
  <1>1. \A x \in is : x \in Nat /\ x <= L
    OBVIOUS
  <1>2. Back \in SUBSET Nat /\ Back # {}
    <2>1. PICK x \in is : TRUE
      OBVIOUS
    <2>2. L - x \in Back
      BY <1>1
    <2> QED BY <2>2
  <1>3. \E n \in Back : \A j \in Back : n <= j
    <2> HIDE DEF Back
    <2> QED BY <1>2, LeastNumber
  <1>4. PICK n \in Back : \A j \in Back : n <= j
    BY <1>3
  <1>5. PICK x \in is : n = L - x
    BY <1>4
  <1>6. \A y \in is : L - y \in Back
    BY <1>1
  <1>7. \A y \in is : y <= x
    BY <1>1, <1>4, <1>5, <1>6
  <1> QED BY <1>7

Ascending(s) == \A i, j \in DOMAIN s : i < j => s[i] < s[j]

\* A set without its greatest element.
LEMMA OrderExtends ==
  ASSUME NEW n \in Nat, NEW S, NEW is, NEW x \in Nat, is = S \cup {x}, x \notin S,
         \A y \in S : y \in Nat /\ y < x,
         NEW s \in [1..n -> S], Ascending(s)
  PROVE  \E t \in [1..(n + 1) -> is] : Ascending(t)
  <1> DEFINE t == [j \in 1..(n + 1) |-> IF j <= n THEN s[j] ELSE x]
  <1>1. \A j \in 1..(n + 1) : IF j <= n THEN j \in 1..n /\ t[j] = s[j] ELSE j = n + 1 /\ t[j] = x
    OBVIOUS
  <1>2. t \in [1..(n + 1) -> is]
    <2>1. \A j \in 1..(n + 1) : t[j] \in is
      BY <1>1
    <2> QED BY <2>1
  <1>3. \A i, j \in 1..(n + 1) : i < j => t[i] < t[j]
    <2> SUFFICES ASSUME NEW i \in 1..(n + 1), NEW j \in 1..(n + 1), i < j PROVE t[i] < t[j]
      OBVIOUS
    <2>1. i \in 1..n /\ t[i] = s[i] /\ s[i] \in S
      BY <1>1
    <2>2. CASE j <= n
      BY <1>1, <2>1, <2>2 DEF Ascending
    <2>3. CASE ~(j <= n)
      BY <1>1, <2>1, <2>3
    <2> QED BY <2>2, <2>3
  <1> HIDE DEF t
  <1>4. Ascending(t)
    BY <1>2, <1>3 DEF Ascending
  <1> QED BY <1>2, <1>4

\* A set of indices can be put in order.
LEMMA OrderExists ==
  ASSUME NEW L \in Nat
  PROVE  \A is \in SUBSET (1..L) : \E s \in [1..Cardinality(is) -> is] : Ascending(s)
  <1> DEFINE Good(n) == \A is \in SUBSET (1..n) : \E s \in [1..Cardinality(is) -> is] : Ascending(s)
             T == {n \in 0..L : Good(n)}
  <1>1. 0 \in T
    <2>1. ASSUME NEW is \in SUBSET (1..0) PROVE \E s \in [1..Cardinality(is) -> is] : Ascending(s)
      <3>1. is = {} /\ Cardinality({}) = 0
        BY <2>1, FS_EmptySet
      <3>2. [j \in 1..0 |-> j] \in [1..Cardinality(is) -> is] /\ Ascending([j \in 1..0 |-> j])
        BY <3>1 DEF Ascending
      <3> QED BY <3>2
    <2> QED BY <2>1
  <1>2. ASSUME NEW n \in 0..L, n \in T, n < L PROVE n + 1 \in T
    <2>1. ASSUME NEW is \in SUBSET (1..(n + 1))
          PROVE  \E s \in [1..Cardinality(is) -> is] : Ascending(s)
      <3>1. CASE n + 1 \notin is
        <4>1. is \in SUBSET (1..n)
          BY <2>1, <3>1
        <4> QED BY <1>2, <4>1
      <3>2. CASE n + 1 \in is
        <4> DEFINE S == is \ {n + 1}
        <4>1. S \in SUBSET (1..n) /\ n + 1 \notin S /\ is = S \cup {n + 1}
          BY <2>1, <3>2
        <4>2. PICK s \in [1..Cardinality(S) -> S] : Ascending(s)
          BY <1>2, <4>1
        <4>3. IsFiniteSet(S)
          <5>1. IsFiniteSet(1..n)
            BY <1>2, FS_Interval
          <5> QED BY <4>1, <5>1, FS_Subset
        <4>4. Cardinality(S) \in Nat /\ Cardinality(is) = Cardinality(S) + 1
          <5>1. Cardinality(S) \in Nat
            BY <4>3, FS_CardinalityType
          <5>2. Cardinality(S \cup {n + 1}) = Cardinality(S) + 1
            <6> HIDE DEF S
            <6> QED BY <4>1, <4>3, FS_AddElement
          <5> QED BY <4>1, <5>1, <5>2
        <4>5. PICK m : m = Cardinality(S)
          OBVIOUS
        <4>7. \A y \in S : y \in Nat /\ y < n + 1
          BY <4>1
        <4> HIDE DEF S
        <4>6. m \in Nat /\ s \in [1..m -> S] /\ n \in Nat /\ n + 1 \in Nat
          BY <1>2, <4>2, <4>4, <4>5
        <4>8. \E t \in [1..(m + 1) -> is] : Ascending(t)
          BY <4>1, <4>2, <4>6, <4>7, OrderExtends
        <4> QED BY <4>4, <4>5, <4>8
      <3> QED BY <3>1, <3>2
    <2> QED BY <1>2, <2>1
  <1>3. 0..L \subseteq T
    <2> HIDE DEF T
    <2>1. 0 \in Nat /\ L \in Nat /\ 0 \in T /\ \A n \in 0..L : n \in T /\ n < L => n + 1 \in T
      BY <1>1, <1>2
    <2> QED BY <2>1, InductionFrom
  <1>4. L \in 0..L
    OBVIOUS
  <1>5. L \in T
    BY <1>3, <1>4
  <1> QED BY <1>5

\* A set in order, as long as the set, has every one of its numbers.
LEMMA AscendingHasAll ==
  ASSUME NEW n \in Nat, NEW is \in SUBSET Nat, IsFiniteSet(is), n = Cardinality(is),
         NEW s \in [1..n -> is], Ascending(s)
  PROVE  \A i \in is : \E j \in 1..n : s[j] = i
  <1>1. \A i, j \in 1..n : i # j => s[i] # s[j]
    <2> SUFFICES ASSUME NEW i \in 1..n, NEW j \in 1..n, i # j PROVE s[i] # s[j]
      OBVIOUS
    <2>1. i \in Nat /\ j \in Nat /\ s[i] \in Nat /\ s[j] \in Nat /\ DOMAIN s = 1..n
      <3>1. s[i] \in is /\ s[j] \in is /\ DOMAIN s = 1..n
        OBVIOUS
      <3>2. s[i] \in Nat /\ s[j] \in Nat
        BY <3>1
      <3>3. i \in Nat /\ j \in Nat
        OBVIOUS
      <3> QED BY <3>1, <3>2, <3>3
    <2>2. (i < j => s[i] < s[j]) /\ (j < i => s[j] < s[i])
      BY <2>1 DEF Ascending
    <2> QED BY <2>1, <2>2
  <1>2. IsFiniteSet(1..n) /\ Cardinality(1..n) = n
    BY FS_Interval
  <1>3. s \in Injection(1..n, is)
    BY <1>1 DEF Injection, IsInjective
  <1>4. s \in Surjection(1..n, is)
    BY <1>2, <1>3, FS_Injection
  <1> QED BY <1>4 DEF Surjection

-------------------------------------------------------------------------------
\* Sequences that begin with others.

IsSeq(s) == s \in Seq(ToSet(s))
PrefixOf(s, t) == Len(s) <= Len(t) /\ \A i \in 1..Len(s) : s[i] = t[i]

\* A longer sequence begins with a shorter one.
LEMMA PrefixChain ==
  ASSUME NEW s, NEW t, NEW u, IsSeq(s), IsSeq(t), IsSeq(u), PrefixOf(s, t), PrefixOf(t, u)
  PROVE  PrefixOf(s, u)
  <1>1. Len(s) \in Nat /\ Len(t) \in Nat /\ Len(u) \in Nat
    BY LenProperties DEF IsSeq
  <1> QED BY <1>1 DEF PrefixOf

\* Sequences begin with themselves.
LEMMA PrefixOfItself ==
  ASSUME NEW s, IsSeq(s)
  PROVE  PrefixOf(s, s)
  <1>1. Len(s) \in Nat
    BY LenProperties DEF IsSeq
  <1> QED BY <1>1 DEF PrefixOf

\* A sequence begins what it is when it gets one more element.
LEMMA PrefixOfAppend ==
  ASSUME NEW s, IsSeq(s), NEW x
  PROVE  IsSeq(Append(s, x)) /\ PrefixOf(s, Append(s, x))
  <1>1. PICK S : S = ToSet(s) \cup {x}
    OBVIOUS
  <1>2. s \in Seq(ToSet(s)) /\ Len(s) \in Nat
    BY LenProperties DEF IsSeq
  <1>3. s \in Seq(S)
    <2>1. DOMAIN s = 1..Len(s) /\ \A i \in 1..Len(s) : s[i] \in S
      BY <1>1, <1>2, LenProperties, ElementOfSeq
    <2> QED BY <1>1, <1>2, <2>1
  <1>4. Append(s, x) \in Seq(S) /\ ToSet(Append(s, x)) = ToSet(s) \cup {x}
    BY <1>1, <1>3, AppendElements
  <1>5. IsSeq(Append(s, x))
    BY <1>1, <1>4 DEF IsSeq
  <1>6. /\ Len(Append(s, x)) = Len(s) + 1
        /\ \A i \in 1..Len(s) : Append(s, x)[i] = s[i]
    BY <1>1, <1>3, AppendProperties
  <1>7. PrefixOf(s, Append(s, x))
    BY <1>2, <1>6 DEF PrefixOf
  <1> QED BY <1>5, <1>7

\* A prefix in the sense of the invariant is one in the sense of the library.
LEMMA PrefixIs ==
  ASSUME NEW s, IsSeq(s), NEW t, IsSeq(t), PrefixOf(s, t)
  PROVE  IsPrefix(s, t)
  <1>1. Len(s) \in Nat /\ DOMAIN s = 1..Len(s) /\ s \in Seq(ToSet(s))
    BY DEF IsSeq
  <1>2. Len(t) \in Nat /\ DOMAIN t = 1..Len(t) /\ t \in Seq(ToSet(t))
    BY DEF IsSeq
  <1>3. Len(s) <= Len(t) /\ \A i \in 1..Len(s) : s[i] = t[i]
    BY DEF PrefixOf
  <1>4. SubSeq(s, 1, Len(s)) = SubSeq(t, 1, Len(s))
    BY <1>1, <1>2, <1>3
  <1> QED BY <1>3, <1>4 DEF IsPrefix

\* A sequence of elements that are all in T.
LEMMA SeqOver ==
  ASSUME NEW S, NEW T, NEW q \in Seq(S), \A x \in ToSet(q) : x \in T
  PROVE  q \in Seq(T)
  <1>1. Len(q) \in Nat /\ DOMAIN q = 1..Len(q) /\ q = [i \in 1..Len(q) |-> q[i]]
    BY LenProperties
  <1>2. \A i \in 1..Len(q) : q[i] \in T
    BY <1>1 DEF ToSet
  <1>3. q \in [1..Len(q) -> T]
    BY <1>1, <1>2
  <1> QED BY <1>1, <1>3, SeqDef

\* One queue of those between every two of R is replaced.
LEMMA QueueReplaced ==
  ASSUME NEW S, NEW R, NEW T \in [R \X R -> S], NEW p \in R, NEW r \in R,
         NEW q \in S, NEW V, V = [T EXCEPT ![<<p, r>>] = q]
  PROVE  /\ V \in [R \X R -> S]
         /\ \A s, d \in R : V[<<s, d>>] = IF s = p /\ d = r THEN q ELSE T[<<s, d>>]
  <1>1. <<p, r>> \in R \X R
    OBVIOUS
  <1>2. V \in [R \X R -> S]
    BY <1>1
  <1>3. \A c \in R \X R : V[c] = IF c = <<p, r>> THEN q ELSE T[c]
    BY <1>1
  <1>4. \A s, d \in R : <<s, d>> \in R \X R /\ (<<s, d>> = <<p, r>> <=> s = p /\ d = r)
    OBVIOUS
  <1>5. \A s, d \in R : V[<<s, d>>] = IF s = p /\ d = r THEN q ELSE T[<<s, d>>]
    BY <1>3, <1>4
  <1> QED BY <1>2, <1>5

\* The queue of one of R is replaced.
LEMMA ElementReplaced ==
  ASSUME NEW S, NEW R, NEW U \in [R -> S], NEW d \in R, NEW q \in S,
         NEW W, W = [U EXCEPT ![d] = q]
  PROVE  /\ W \in [R -> S] /\ W[d] = q
         /\ \A e \in R : e # d => W[e] = U[e]
  OBVIOUS

================================================================================
