---------------------------- MODULE SequenceFacts ----------------------------
(***************************************************************************)
(* Facts about natural numbers, about what is computed along them, about   *)
(* sequences and about chains of checks that the proofs share.  Induction  *)
(* is stated of a set of numbers and a fold of functions: neither has an   *)
(* operator for a parameter.                                               *)
(***************************************************************************)
EXTENDS Checks, Integers, SequencesExt, NaturalsInduction, WellFoundedInduction,
        SequenceTheorems, TLAPS

\* A nonempty set of naturals has a least element.  The collector of failed
\* systems has one to report, and the search for an unused id one to take.
LEMMA LeastNatural ==
  ASSUME NEW T, T \subseteq Nat, T # {}
  PROVE  \E x \in T : \A y \in T : x <= y
  <1> DEFINE Less == {p \in Nat \X Nat : p[1] < p[2]}
  <1>1. IsWellFoundedOn(Less, Nat)
    BY NatLessThanWellFounded DEF OpToRel
  <1>2. PICK x \in T : \A y \in T : ~ (<<y, x>> \in Less)
    <2> HIDE DEF Less
    <2> QED BY <1>1, WFMin
  <1>3. ASSUME NEW y \in T PROVE x <= y
    <2>1. ~(y < x)
      BY <1>2
    <2> QED BY <2>1
  <1> QED BY <1>3

\* Induction up to n.
LEMMA CountUp ==
  ASSUME NEW n \in Nat, NEW A, 0 \in A, \A k \in 1..n : k - 1 \in A => k \in A
  PROVE  \A k \in 0..n : k \in A
  <1> DEFINE Missing == {k \in 0..n : k \notin A}
  <1> SUFFICES ASSUME Missing # {} PROVE FALSE
    OBVIOUS
  <1>1. PICK k \in Missing : \A j \in Missing : k <= j
    <2>1. Missing \subseteq Nat
      OBVIOUS
    <2> HIDE DEF Missing
    <2> QED BY <2>1, LeastNatural
  <1>2. k \in 1..n
    BY <1>1
  <1>3. k - 1 \in 0..n /\ ~(k <= k - 1)
    BY <1>2
  <1>4. k - 1 \in A
    BY <1>1, <1>3
  <1> QED BY <1>1, <1>2, <1>4

\* max takes the greatest number out of a set of numbers up to n.
TakesGreatest(max, n) ==
  /\ max \in [(SUBSET (1..n)) \ {{}} -> 1..n]
  /\ \A S \in (SUBSET (1..n)) \ {{}} : max[S] \in S /\ \A y \in S : y <= max[S]

\* g is the fold of the numbers of a set, the greatest last.
IsFold(g, n, T, base, step, max) ==
  /\ g \in [SUBSET (1..n) -> T]
  /\ g[{}] = base
  /\ \A S \in (SUBSET (1..n)) \ {{}} : g[S] = step[<<g[S \ {max[S]}], max[S]>>]

\* There is such a fold.
LEMMA FoldSolution ==
  ASSUME NEW n \in Nat, NEW T, NEW base \in T, NEW step \in [T \X (1..n) -> T],
         NEW max, TakesGreatest(max, n)
  PROVE  \E g : IsFold(g, n, T, base, step, max)
  <1> DEFINE Solves(g, k) ==
               \A S \in SUBSET (1..k) :
                 g[S] = IF S = {} THEN base ELSE step[<<g[S \ {max[S]}], max[S]>>]
             A == {k \in 0..n : \E g \in [SUBSET (1..k) -> T] : Solves(g, k)}
  <1>1. 0 \in A
    <2> DEFINE g == [S \in SUBSET (1..0) |-> base]
    <2>1. 1..0 = {}
      OBVIOUS
    <2>2. g \in [SUBSET (1..0) -> T]
      OBVIOUS
    <2>3. Solves(g, 0)
      <3>1. ASSUME NEW S \in SUBSET (1..0) PROVE S = {} /\ g[S] = base
        BY <2>1
      <3> HIDE DEF g
      <3> QED BY <3>1
    <2>4. 0 \in 0..n
      OBVIOUS
    <2> HIDE DEF g, Solves
    <2> QED BY <2>2, <2>3, <2>4
  <1>2. ASSUME NEW k \in 1..n, k - 1 \in A PROVE k \in A
    <2>1. PICK g \in [SUBSET (1..k - 1) -> T] : Solves(g, k - 1)
      BY <1>2
    <2> DEFINE h == [S \in SUBSET (1..k) |-> IF k \in S THEN step[<<g[S \ {k}], k>>] ELSE g[S]]
    <2>2. /\ 1..k \subseteq 1..n
          /\ \A S \in SUBSET (1..k) : S \ {k} \in SUBSET (1..k - 1)
          /\ \A S \in SUBSET (1..k) : k \notin S => S \in SUBSET (1..k - 1)
      <3>1. 1..k \subseteq 1..n /\ \A i \in 1..k : i # k => i \in 1..k - 1
        OBVIOUS
      <3> QED BY <3>1
    <2>3. h \in [SUBSET (1..k) -> T]
      <3> SUFFICES ASSUME NEW S \in SUBSET (1..k)
                   PROVE  (IF k \in S THEN step[<<g[S \ {k}], k>>] ELSE g[S]) \in T
        OBVIOUS
      <3>1. CASE k \in S
        <4>1. g[S \ {k}] \in T
          BY <2>2
        <4> QED BY <3>1, <4>1
      <3>2. CASE k \notin S
        BY <2>2, <3>2
      <3> QED BY <3>1, <3>2
    <2>4. ASSUME NEW S \in SUBSET (1..k), k \in S
          PROVE  h[S] = IF S = {} THEN base ELSE step[<<h[S \ {max[S]}], max[S]>>]
      <3>1. max[S] \in S /\ k <= max[S]
        BY <2>2, <2>4 DEF TakesGreatest
      <3>2. max[S] = k
        <4>1. max[S] \in 1..k
          BY <3>1
        <4> HIDE DEF h
        <4> QED BY <3>1, <4>1
      <3>3. S \ {k} \in SUBSET (1..k) /\ k \notin S \ {k}
        BY <2>2
      <3>4. h[S \ {k}] = g[S \ {k}]
        BY <3>3
      <3>5. h[S] = step[<<g[S \ {k}], k>>]
        BY <2>4
      <3> QED BY <2>4, <3>2, <3>4, <3>5
    <2>5. ASSUME NEW S \in SUBSET (1..k), k \notin S
          PROVE  h[S] = IF S = {} THEN base ELSE step[<<h[S \ {max[S]}], max[S]>>]
      <3>1. S \in SUBSET (1..k - 1) /\ h[S] = g[S]
        BY <2>2, <2>5
      <3>2. S \ {max[S]} \in SUBSET (1..k) /\ k \notin S \ {max[S]}
        BY <2>5
      <3>3. h[S \ {max[S]}] = g[S \ {max[S]}]
        BY <3>2
      <3> QED BY <2>1, <3>1, <3>3
    <2>6. Solves(h, k)
      BY <2>4, <2>5
    <2> HIDE DEF h, Solves
    <2> QED BY <2>3, <2>6
  <1>3. n \in 0..n
    OBVIOUS
  <1> HIDE DEF Solves
  <1>4. n \in A
    <2> HIDE DEF A
    <2> QED BY <1>1, <1>2, <1>3, CountUp
  <1>5. PICK g \in [SUBSET (1..n) -> T] : Solves(g, n)
    BY <1>4
  <1>6. g[{}] = base /\ \A S \in (SUBSET (1..n)) \ {{}} : g[S] = step[<<g[S \ {max[S]}], max[S]>>]
    BY <1>5 DEF Solves
  <1> QED BY <1>5, <1>6 DEF IsFold

\* The greatest of some numbers up to n.
LEMMA MaxFacts ==
  ASSUME NEW n \in Nat, NEW S \in SUBSET (1..n), S # {}
  PROVE  Max(S) \in S /\ \A y \in S : y <= Max(S)
<1> DEFINE T == {k \in 0..n : n - k \in S}
<1>1. T \subseteq Nat /\ \A y \in S : y \in 1..n /\ n - y \in 0..n /\ n - (n - y) = y
  OBVIOUS
<1>2. T # {}
  <2>1. PICK y \in S : TRUE
    OBVIOUS
  <2>2. n - y \in T
    BY <1>1, <2>1
  <2> QED BY <2>2
<1>3. PICK t \in T : \A u \in T : t <= u
  <2> HIDE DEF T
  <2> QED BY <1>1, <1>2, LeastNatural
<1>4. \A y \in S : n - t >= y
  <2> SUFFICES ASSUME NEW y \in S PROVE n - t >= y
    OBVIOUS
  <2>1. n - y \in T
    BY <1>1
  <2>2. t <= n - y /\ t \in Nat /\ y \in 1..n
    BY <1>1, <1>3, <2>1
  <2> QED BY <2>2
<1>5. n - t \in S
  OBVIOUS
<1>6. Max(S) \in S /\ \A y \in S : Max(S) >= y
  <2> DEFINE Greatest(x) == \A y \in S : x >= y
  <2>1. Max(S) = CHOOSE x \in S : Greatest(x)
    BY DEF Max
  <2>2. n - t \in S /\ Greatest(n - t)
    BY <1>4, <1>5
  <2> HIDE DEF Greatest
  <2>3. Max(S) \in S /\ Greatest(Max(S))
    BY <2>1, <2>2
  <2> QED BY <2>3 DEF Greatest
<1>7. ASSUME NEW y \in S PROVE y <= Max(S)
  <2>1. Max(S) \in 1..n /\ y \in 1..n /\ Max(S) >= y
    BY <1>6
  <2> QED BY <2>1
<1> QED BY <1>6, <1>7

\* The sets of the first k numbers, by their greatest.
LEMMA SubsetsByMax ==
  ASSUME NEW k \in Nat, NEW S \in SUBSET (1..k)
  PROVE  /\ S # {} => Max(S) \in S /\ Max(S) \in 1..k
         /\ k \in S => Max(S) = k /\ S \ {k} \in SUBSET (1..k - 1)
         /\ k \notin S => S \in SUBSET (1..k - 1)
         /\ S # {} => S \ {Max(S)} \in SUBSET (1..k)
<1>1. ASSUME S # {} PROVE Max(S) \in S /\ Max(S) \in 1..k /\ \A y \in S : y <= Max(S)
  BY <1>1, MaxFacts
<1> DEFINE m == Max(S)
<1> HIDE DEF m
<1>2. ASSUME k \in S PROVE m = k /\ S \ {k} \in SUBSET (1..k - 1)
  <2>1. m \in 1..k /\ k <= m
    BY <1>1, <1>2 DEF m
  <2>2. \A y \in S : y # k => y \in 1..k - 1
    OBVIOUS
  <2> QED BY <2>1, <2>2
<1>3. k \notin S => S \in SUBSET (1..k - 1)
  OBVIOUS
<1> QED BY <1>1, <1>2, <1>3 DEF m

\* Of the first k numbers, it is k.
LEMMA IntervalFacts ==
  ASSUME NEW n \in Nat, NEW k \in 1..n
  PROVE  /\ 1..k \in SUBSET (1..n) /\ 1..k # {}
         /\ Max(1..k) = k /\ (1..k) \ {k} = 1..k - 1
<1>1. 1..k \in SUBSET (1..n) /\ k \in 1..k /\ (1..k) \ {k} = 1..k - 1
  OBVIOUS
<1>2. Max(1..k) \in 1..k /\ k <= Max(1..k)
  BY <1>1, MaxFacts
<1>3. Max(1..k) = k
  BY <1>2
<1> QED BY <1>1, <1>3

\* Taking out the greatest, as a function.
TakeMax(n) == [S \in (SUBSET (1..n)) \ {{}} |-> Max(S)]

LEMMA TakeMaxTakesGreatest ==
  ASSUME NEW n \in Nat
  PROVE  TakesGreatest(TakeMax(n), n)
<1> SUFFICES ASSUME NEW S \in (SUBSET (1..n)) \ {{}}
             PROVE  Max(S) \in S /\ Max(S) \in 1..n /\ \A y \in S : y <= Max(S)
  BY DEF TakesGreatest, TakeMax
<1> QED BY MaxFacts

-----------------------------------------------------------------------------
(* Sequences.  Messages, parts and locations are sequences of whatever a   *)
(* session says, so these facts ask for no type: a sequence is one of its  *)
(* own elements.                                                           *)

\* A sequence, of whatever.
IsSeq(s) == s \in Seq(Range(s))

LEMMA SeqIs ==
  ASSUME NEW s, IsSeq(s)
  PROVE  /\ Len(s) \in Nat /\ DOMAIN s = 1..Len(s) /\ s = [k \in 1..Len(s) |-> s[k]]
         /\ \A T : Range(s) \subseteq T => s \in Seq(T)
  BY DEF IsSeq, Range

LEMMA TypedIsSeq ==
  ASSUME NEW T, NEW s \in Seq(T)
  PROVE  IsSeq(s) /\ Range(s) \subseteq T
  BY DEF IsSeq, Range

LEMMA FunctionIsSeq ==
  ASSUME NEW n \in Nat, NEW s, s = [k \in 1..n |-> s[k]]
  PROVE  IsSeq(s) /\ Len(s) = n
<1>1. \A k \in 1..n : s[k] \in Range(s)
  BY DEF Range
<1>2. s \in [1..n -> Range(s)]
  BY <1>1
<1> QED BY <1>2 DEF IsSeq

LEMMA EmptyIsSeq == IsSeq(<<>>) /\ Len(<<>>) = 0 /\ Range(<<>>) = {}
  BY DEF IsSeq, Range

LEMMA OneIsSeq ==
  ASSUME NEW x
  PROVE  IsSeq(<<x>>) /\ Len(<<x>>) = 1 /\ Range(<<x>>) = {x}
  BY DEF IsSeq, Range

\* s \o t, kept folded so that it is reasoned about by the facts below.
Joined(s, t) == s \o t

LEMMA ConcatFacts ==
  ASSUME NEW s, NEW t, IsSeq(s), IsSeq(t)
  PROVE  /\ IsSeq(Joined(s, t)) /\ Len(Joined(s, t)) = Len(s) + Len(t)
         /\ \A k \in 1..Len(s) : Joined(s, t)[k] = s[k]
         /\ \A k \in 1..Len(t) : Joined(s, t)[Len(s) + k] = t[k]
         /\ Range(Joined(s, t)) = Range(s) \cup Range(t)
<1> DEFINE T == Range(s) \cup Range(t)
           c == s \o t
<1>1. s \in Seq(T) /\ t \in Seq(T) /\ DOMAIN s = 1..Len(s) /\ DOMAIN t = 1..Len(t)
      /\ Len(s) \in Nat /\ Len(t) \in Nat
  BY SeqIs
<1>2. /\ c \in Seq(T) /\ Len(c) = Len(s) + Len(t) /\ DOMAIN c = 1..Len(s) + Len(t)
      /\ \A k \in 1..Len(s) : c[k] = s[k]
      /\ \A k \in 1..Len(t) : c[Len(s) + k] = t[k]
      /\ \A k \in 1..Len(s) + Len(t) : k \in 1..Len(s) \/ k - Len(s) \in 1..Len(t)
  <2> HIDE DEF T
  <2> QED BY <1>1
<1>3. IsSeq(c)
  BY <1>2, TypedIsSeq
<1>4. Range(c) = T
  <2>1. Range(c) \subseteq T
    BY <1>2, TypedIsSeq
  <2>2. ASSUME NEW x \in Range(s) PROVE x \in Range(c)
    <3>1. PICK k \in 1..Len(s) : x = s[k]
      BY <1>1 DEF Range
    <3>2. k \in DOMAIN c /\ c[k] = x
      BY <1>1, <1>2, <3>1
    <3> HIDE DEF c
    <3> QED BY <3>2 DEF Range
  <2>3. ASSUME NEW x \in Range(t) PROVE x \in Range(c)
    <3>1. PICK k \in 1..Len(t) : x = t[k]
      BY <1>1 DEF Range
    <3>2. Len(s) + k \in DOMAIN c /\ c[Len(s) + k] = x
      BY <1>1, <1>2, <3>1
    <3> HIDE DEF c
    <3> QED BY <3>2 DEF Range
  <2> QED BY <2>1, <2>2, <2>3
<1> QED BY <1>2, <1>3, <1>4 DEF Joined

\* Two sequences are equal that are so position by position.
LEMMA SameSeq ==
  ASSUME NEW s, NEW t, IsSeq(s), IsSeq(t), Len(s) = Len(t), \A k \in 1..Len(s) : s[k] = t[k]
  PROVE  s = t
  BY SeqIs

LEMMA ConcatAssociates ==
  ASSUME NEW s, NEW t, NEW u, IsSeq(s), IsSeq(t), IsSeq(u)
  PROVE  Joined(Joined(s, t), u) = Joined(s, Joined(t, u))
<1> DEFINE T == Range(s) \cup Range(t) \cup Range(u)
<1>1. s \in Seq(T) /\ t \in Seq(T) /\ u \in Seq(T)
  BY SeqIs
<1> HIDE DEF T
<1>2. (s \o t) \o u = s \o (t \o u)
  BY <1>1
<1> QED BY <1>2 DEF Joined

LEMMA ConcatEmpty ==
  ASSUME NEW s, IsSeq(s)
  PROVE  Joined(s, <<>>) = s /\ Joined(<<>>, s) = s
<1>1. s \in Seq(Range(s))
  BY SeqIs
<1>2. s \o <<>> = s /\ <<>> \o s = s
  BY <1>1
<1> QED BY <1>2 DEF Joined

\* One element more.
LEMMA AppendFacts ==
  ASSUME NEW s, NEW x, IsSeq(s)
  PROVE  /\ Append(s, x) = Joined(s, <<x>>) /\ IsSeq(Append(s, x)) /\ Len(Append(s, x)) = Len(s) + 1
         /\ \A k \in 1..Len(s) : Append(s, x)[k] = s[k]
         /\ Append(s, x)[Len(s) + 1] = x
         /\ Range(Append(s, x)) = Range(s) \cup {x}
<1> DEFINE T == Range(s) \cup {x}
<1>1. s \in Seq(T) /\ x \in T
  BY SeqIs
<1>2. Append(s, x) = Joined(s, <<x>>)
  <2> HIDE DEF T
  <2>1. Append(s, x) = s \o <<x>>
    BY <1>1
  <2> QED BY <2>1 DEF Joined
<1>3. <<x>>[1] = x
  OBVIOUS
<1> QED BY <1>2, <1>3, ConcatFacts, OneIsSeq

LEMMA LongerFacts ==
  ASSUME NEW s, NEW x, IsSeq(s)
  PROVE  /\ IsSeq(Joined(s, <<x>>)) /\ Len(Joined(s, <<x>>)) = Len(s) + 1
         /\ \A k \in 1..Len(s) : Joined(s, <<x>>)[k] = s[k]
         /\ Joined(s, <<x>>)[Len(s) + 1] = x
         /\ Range(Joined(s, <<x>>)) = Range(s) \cup {x}
<1> DEFINE one == <<x>>
<1>1. IsSeq(one) /\ Len(one) = 1 /\ one[1] = x /\ Range(one) = {x} /\ 1 \in 1..1
  BY OneIsSeq
<1> HIDE DEF one
<1>2. /\ IsSeq(Joined(s, one)) /\ Len(Joined(s, one)) = Len(s) + Len(one)
      /\ \A k \in 1..Len(s) : Joined(s, one)[k] = s[k]
      /\ \A k \in 1..Len(one) : Joined(s, one)[Len(s) + k] = one[k]
      /\ Range(Joined(s, one)) = Range(s) \cup Range(one)
  BY <1>1, ConcatFacts
<1> QED BY <1>1, <1>2 DEF one

\* The first k elements, one by one.
LEMMA PrefixFacts ==
  ASSUME NEW T, NEW s \in Seq(T), NEW k \in 0..Len(s)
  PROVE  /\ SubSeq(s, 1, k) \in Seq(T) /\ Len(SubSeq(s, 1, k)) = k
         /\ \A j \in 1..k : SubSeq(s, 1, k)[j] = s[j]
         /\ k > 0 => SubSeq(s, 1, k) = Joined(SubSeq(s, 1, k - 1), <<s[k]>>)
         /\ SubSeq(s, 1, 0) = <<>> /\ SubSeq(s, 1, Len(s)) = s
<1>1. Len(s) \in Nat /\ k \in Nat /\ k <= Len(s)
  OBVIOUS
<1>2. ASSUME NEW i \in 0..Len(s)
      PROVE  /\ SubSeq(s, 1, i) \in Seq(T) /\ Len(SubSeq(s, 1, i)) = i
             /\ \A j \in 1..i : SubSeq(s, 1, i)[j] = s[j]
  OBVIOUS
<1>3. ASSUME k > 0 PROVE SubSeq(s, 1, k) = Joined(SubSeq(s, 1, k - 1), <<s[k]>>)
  <2> DEFINE p == SubSeq(s, 1, k)
             q == SubSeq(s, 1, k - 1)
             d == Joined(q, <<s[k]>>)
  <2>1. k - 1 \in 0..Len(s) /\ k - 1 + 1 = k /\ k \in 1..Len(s) /\ k - 1 \in Nat
    BY <1>1, <1>3
  <2>2. q \in Seq(T) /\ Len(q) = k - 1 /\ \A j \in 1..k - 1 : q[j] = s[j]
    BY <1>2, <2>1
  <2>3. p \in Seq(T) /\ Len(p) = k /\ \A j \in 1..k : p[j] = s[j]
    BY <1>2
  <2> HIDE DEF p, q
  <2>4. IsSeq(p) /\ IsSeq(q) /\ IsSeq(<<s[k]>>) /\ Len(<<s[k]>>) = 1 /\ <<s[k]>>[1] = s[k]
    BY <2>2, <2>3, TypedIsSeq, OneIsSeq
  <2>5. IsSeq(d) /\ Len(d) = k - 1 + 1 /\ (\A j \in 1..k - 1 : d[j] = q[j]) /\ d[k - 1 + 1] = s[k]
    BY <2>2, <2>4, LongerFacts
  <2> HIDE DEF d
  <2>6. \A j \in 1..k : p[j] = d[j]
    <3> SUFFICES ASSUME NEW j \in 1..k PROVE p[j] = d[j]
      OBVIOUS
    <3>1. j \in 1..k - 1 \/ j = k
      BY <2>1
    <3>2. CASE j = k
      BY <2>1, <2>3, <2>5, <3>2
    <3>3. CASE j \in 1..k - 1
      BY <2>2, <2>3, <2>5, <3>3
    <3> QED BY <3>1, <3>2, <3>3
  <2>7. Len(p) = Len(d)
    BY <2>1, <2>3, <2>5
  <2> QED BY <2>3, <2>4, <2>5, <2>6, <2>7, SameSeq DEF p, q, d
<1>4. SubSeq(s, 1, 0) = <<>> /\ SubSeq(s, 1, Len(s)) = s
  OBVIOUS
<1> QED BY <1>2, <1>3, <1>4

LEMMA PairIs ==
  ASSUME NEW x, NEW y
  PROVE  Joined(<<x>>, <<y>>) = <<x, y>> /\ IsSeq(<<x, y>>) /\ Range(<<x, y>>) = {x, y}
<1> DEFINE one == <<x>>
           two == <<x, y>>
           more == Joined(one, <<y>>)
<1>1. IsSeq(one) /\ Len(one) = 1 /\ one[1] = x
  BY OneIsSeq
<1>2. IsSeq(two) /\ Len(two) = 2 /\ two[1] = x /\ two[2] = y /\ Range(two) = {x, y}
  BY DEF IsSeq, Range
<1> HIDE DEF one, two
<1>3. /\ IsSeq(more) /\ Len(more) = Len(one) + 1 /\ more[Len(one) + 1] = y
      /\ \A k \in 1..Len(one) : more[k] = one[k]
  BY <1>1, LongerFacts
<1> HIDE DEF more
<1>4. Len(more) = 2 /\ more[2] = y /\ more[1] = x
  BY <1>1, <1>3
<1>5. \A k \in 1..Len(more) : k = 1 \/ k = 2
  BY <1>4
<1>6. more = two
  <2>1. \A k \in 1..Len(more) : more[k] = two[k]
    BY <1>2, <1>4, <1>5
  <2> QED BY <1>2, <1>3, <1>4, <2>1, SameSeq
<1> QED BY <1>2, <1>6 DEF one, two, more

-----------------------------------------------------------------------------
(* Flattening.                                                             *)

\* A sequence of sequences.
IsSeqs(s) == IsSeq(s) /\ \A k \in 1..Len(s) : IsSeq(s[k])

\* FlattenSeq, sequence by sequence.
FlatSteps(f, seqs) ==
  /\ f[0] = <<>>
  /\ \A k \in 1..Len(seqs) : f[k] = Joined(f[k - 1], seqs[k])
  /\ \A k \in 0..Len(seqs) : IsSeq(f[k])
  /\ FlattenSeq(seqs) = f[Len(seqs)]

LEMMA FlattenIs ==
  ASSUME NEW seqs, IsSeqs(seqs)
  PROVE  \E f : FlatSteps(f, seqs)
<1> DEFINE n == Len(seqs)
           Body(f, i) == IF i = 1 THEN seqs[i] ELSE Joined(f[i - 1], seqs[i])
           Solves(f, k) == f = [i \in 1..k |-> Body(f, i)]
           A == {k \in 0..n : \E f : Solves(f, k)}
           flat == CHOOSE f : Solves(f, n)
           acc == [k \in 0..n |-> IF k = 0 THEN <<>> ELSE flat[k]]
<1>1. n \in Nat
  BY SeqIs DEF IsSeqs
<1>2. 0 \in A
  <2> DEFINE f == [i \in 1..0 |-> 0]
  <2>1. f = [i \in 1..0 |-> Body(f, i)]
    BY \A i \in 1..0 : FALSE
  <2>2. 0 \in 0..n
    BY <1>1
  <2> HIDE DEF Body, f
  <2> QED BY <2>1, <2>2
<1>3. ASSUME NEW k \in 1..n, k - 1 \in A PROVE k \in A
  <2>1. PICK f : f = [i \in 1..k - 1 |-> Body(f, i)]
    BY <1>3
  <2> DEFINE g == [i \in 1..k |-> IF i = k THEN Body(f, k) ELSE f[i]]
  <2>2. k \in Nat /\ k \in 0..n /\ DOMAIN f = 1..k - 1
    BY <1>1, <2>1
  <2>3. ASSUME NEW i \in 1..k PROVE g[i] = Body(g, i)
    <3>1. i # 1 => i - 1 \in 1..k /\ i - 1 # k /\ g[i - 1] = f[i - 1]
      BY <2>2
    <3>2. CASE i = k
      BY <3>1, <3>2
    <3>3. CASE i # k
      <4>1. i \in 1..k - 1
        BY <2>2, <3>3
      <4>2. f[i] = Body(f, i)
        <5> HIDE DEF Body
        <5> QED BY <2>1, <4>1
      <4> QED BY <3>1, <3>3, <4>2
    <3> QED BY <3>2, <3>3
  <2>4. Solves(g, k)
    <3>1. g = [i \in 1..k |-> g[i]]
      OBVIOUS
    <3> HIDE DEF g, Body
    <3> QED BY <2>3, <3>1
  <2> HIDE DEF Solves, g
  <2> QED BY <2>2, <2>4
<1>4. n \in A
  <2>1. n \in 0..n
    BY <1>1
  <2> HIDE DEF A, n
  <2> QED BY <1>1, <1>2, <1>3, <2>1, CountUp
<1>5. Solves(flat, n)
  <2> HIDE DEF Solves
  <2> QED BY <1>4
<1> HIDE DEF flat
<1>6. FlattenSeq(seqs) = IF n = 0 THEN seqs ELSE flat[n]
  BY DEF FlattenSeq, flat, Joined
<1>7. acc[0] = <<>> /\ FlattenSeq(seqs) = acc[n]
  <2>1. n = 0 => seqs = <<>>
    BY SeqIs DEF IsSeqs
  <2> QED BY <1>1, <1>6, <2>1
<1>8. ASSUME NEW k \in 1..n PROVE flat[k] = Body(flat, k)
  <2> HIDE DEF Body
  <2> QED BY <1>5
<1>9. ASSUME NEW k \in 1..n PROVE acc[k] = Joined(acc[k - 1], seqs[k])
  <2>1. k \in 0..n /\ k - 1 \in 0..n /\ acc[k] = flat[k]
    BY <1>1
  <2>2. CASE k = 1
    <3>1. acc[k - 1] = <<>> /\ acc[k] = seqs[k]
      BY <1>1, <1>8, <2>1, <2>2
    <3>2. Joined(<<>>, seqs[k]) = seqs[k]
      BY ConcatEmpty DEF IsSeqs
    <3> HIDE DEF acc
    <3> QED BY <3>1, <3>2
  <2>3. CASE k # 1
    <3>1. k - 1 # 0 /\ acc[k - 1] = flat[k - 1]
      BY <1>1, <2>1, <2>3
    <3> QED BY <1>8, <2>1, <2>3, <3>1
  <2> QED BY <2>2, <2>3
<1> DEFINE S == {k \in 0..n : IsSeq(acc[k])}
<1>10. 0 \in S
  BY <1>1, <1>7, EmptyIsSeq
<1> HIDE DEF acc
<1>11. ASSUME NEW k \in 1..n, k - 1 \in S PROVE k \in S
  <2>1. k \in 0..n /\ IsSeq(acc[k - 1])
    BY <1>1, <1>11
  <2>2. IsSeq(Joined(acc[k - 1], seqs[k]))
    <3> DEFINE s == acc[k - 1]
               t == seqs[k]
    <3>1. IsSeq(s) /\ IsSeq(t)
      BY <2>1 DEF IsSeqs
    <3> HIDE DEF s, t
    <3>2. IsSeq(Joined(s, t))
      BY <3>1, ConcatFacts
    <3> QED BY <3>2 DEF s, t
  <2> QED BY <1>9, <2>1, <2>2
<1>12. \A k \in 0..n : k \in S
  <2> HIDE DEF S, n
  <2> QED BY <1>1, <1>10, <1>11, CountUp
<1>13. FlatSteps(acc, seqs)
  BY <1>7, <1>9, <1>12 DEF FlatSteps
<1> QED BY <1>13

\* The elements of a flattening are those of what it flattens.
LEMMA FlattenFacts ==
  ASSUME NEW seqs, IsSeqs(seqs)
  PROVE  /\ IsSeq(FlattenSeq(seqs))
         /\ Range(FlattenSeq(seqs)) = UNION {Range(seqs[k]) : k \in 1..Len(seqs)}
<1> DEFINE n == Len(seqs)
<1>1. PICK f : FlatSteps(f, seqs)
  BY FlattenIs
<1>2. n \in Nat /\ n \in 0..n
  BY SeqIs DEF IsSeqs
<1> DEFINE A == {k \in 0..n : Range(f[k]) = UNION {Range(seqs[j]) : j \in 1..k}}
<1>3. 0 \in A
  BY <1>1, <1>2, EmptyIsSeq DEF FlatSteps
<1>4. ASSUME NEW k \in 1..n, k - 1 \in A PROVE k \in A
  <2>1. k - 1 \in 0..n /\ k \in 0..n /\ \A j : j \in 1..k <=> j \in 1..k - 1 \/ j = k
    BY <1>2
  <2>2. Range(f[k]) = Range(f[k - 1]) \cup Range(seqs[k])
    <3>1. f[k] = Joined(f[k - 1], seqs[k]) /\ IsSeq(f[k - 1]) /\ IsSeq(seqs[k])
      BY <1>1, <2>1 DEF FlatSteps, IsSeqs
    <3> QED BY <3>1, ConcatFacts
  <2> QED BY <1>4, <2>1, <2>2
<1>5. \A k \in 0..n : k \in A
  <2> HIDE DEF A, n
  <2> QED BY <1>2, <1>3, <1>4, CountUp
<1> QED BY <1>1, <1>2, <1>5 DEF FlatSteps

LEMMA FlattenNone == FlattenSeq(<<>>) = <<>>
  BY EmptyIsSeq DEF FlattenSeq

LEMMA FlattenOne ==
  ASSUME NEW s, IsSeq(s)
  PROVE  FlattenSeq(<<s>>) = s
<1> DEFINE one == <<s>>
<1>1. IsSeq(one) /\ Len(one) = 1 /\ one[1] = s
  BY OneIsSeq
<1> HIDE DEF one
<1>2. IsSeqs(one)
  BY <1>1 DEF IsSeqs
<1>3. PICK f : FlatSteps(f, one)
  BY <1>2, FlattenIs
<1>4. f[1] = Joined(f[0], one[1]) /\ f[0] = <<>> /\ FlattenSeq(one) = f[1]
  BY <1>1, <1>3 DEF FlatSteps
<1>5. FlattenSeq(one) = Joined(<<>>, s)
  BY <1>1, <1>4
<1> QED BY <1>5, ConcatEmpty DEF one

LEMMA FlattenConcat ==
  ASSUME NEW s, NEW t, IsSeqs(s), IsSeqs(t)
  PROVE  FlattenSeq(Joined(s, t)) = Joined(FlattenSeq(s), FlattenSeq(t))
<1> DEFINE n == Len(s)
           m == Len(t)
           c == Joined(s, t)
<1>1. /\ n \in Nat /\ m \in Nat /\ IsSeq(c) /\ Len(c) = n + m
      /\ \A k \in 1..n : c[k] = s[k]
      /\ \A k \in 1..m : c[n + k] = t[k]
  BY SeqIs, ConcatFacts DEF IsSeqs
<1> HIDE DEF c
<1>2. IsSeqs(c)
  <2>1. ASSUME NEW k \in 1..n + m PROVE IsSeq(c[k])
    <3>1. k \in 1..n \/ (k - n \in 1..m /\ k = n + (k - n))
      BY <1>1
    <3> QED BY <1>1, <3>1 DEF IsSeqs
  <2> QED BY <1>1, <2>1 DEF IsSeqs
<1>3. PICK f : FlatSteps(f, s)
  BY FlattenIs
<1>4. PICK g : FlatSteps(g, t)
  BY FlattenIs
<1>5. PICK h : FlatSteps(h, c)
  BY <1>1, <1>2, FlattenIs
<1> DEFINE A == {k \in 0..n : h[k] = f[k]}
           B == {k \in 0..m : h[n + k] = Joined(f[n], g[k])}
<1>6. \A k \in 0..n : k \in A
  <2>1. 0 \in A
    BY <1>1, <1>3, <1>5 DEF FlatSteps
  <2>2. ASSUME NEW k \in 1..n, k - 1 \in A PROVE k \in A
    <3>1. k \in 1..n + m /\ k \in 0..n
      BY <1>1
    <3> QED BY <1>1, <1>3, <1>5, <2>2, <3>1 DEF FlatSteps
  <2> HIDE DEF A, n
  <2> QED BY <1>1, <2>1, <2>2, CountUp
<1>7. \A k \in 0..m : k \in B
  <2>1. 0 \in B
    <3>1. n + 0 = n /\ n \in 0..n /\ 0 \in 0..m
      BY <1>1
    <3>2. h[n] = f[n] /\ g[0] = <<>> /\ IsSeq(f[n])
      BY <1>3, <1>4, <1>6, <3>1 DEF FlatSteps
    <3> QED BY <3>1, <3>2, ConcatEmpty
  <2>2. ASSUME NEW k \in 1..m, k - 1 \in B PROVE k \in B
    <3>1. k \in 0..m /\ k - 1 \in 0..m /\ n + k \in 1..n + m /\ n + k - 1 = n + (k - 1) /\ n \in 0..n
      BY <1>1
    <3>2. h[n + k] = Joined(h[n + (k - 1)], t[k]) /\ g[k] = Joined(g[k - 1], t[k])
      <4>1. h[n + k] = Joined(h[n + k - 1], c[n + k]) /\ c[n + k] = t[k] /\ g[k] = Joined(g[k - 1], t[k])
        <5>1. \A j \in 1..Len(c) : h[j] = Joined(h[j - 1], c[j])
          BY <1>5 DEF FlatSteps
        <5>2. \A j \in 1..m : g[j] = Joined(g[j - 1], t[j])
          BY <1>4 DEF FlatSteps
        <5> HIDE DEF n, m
        <5>3. h[n + k] = Joined(h[n + k - 1], c[n + k])
          <6>1. n + k \in 1..Len(c)
            BY <1>1, <3>1
          <6>2. n \in Nat /\ k \in Nat
            BY <1>1
          <6> QED BY <5>1, <6>1, <6>2
        <5> QED BY <1>1, <5>2, <5>3
      <4> QED BY <3>1, <4>1
    <3>3. h[n + (k - 1)] = Joined(f[n], g[k - 1])
      BY <2>2
    <3>4. IsSeq(f[n]) /\ IsSeq(g[k - 1]) /\ IsSeq(t[k])
      BY <1>3, <1>4, <3>1 DEF FlatSteps, IsSeqs
    <3>5. Joined(Joined(f[n], g[k - 1]), t[k]) = Joined(f[n], Joined(g[k - 1], t[k]))
      BY <3>4, ConcatAssociates
    <3> QED BY <3>1, <3>2, <3>3, <3>5
  <2> HIDE DEF B, m
  <2> QED BY <1>1, <2>1, <2>2, CountUp
<1>8. m \in 0..m
  BY <1>1
<1> QED BY <1>1, <1>3, <1>4, <1>5, <1>7, <1>8 DEF FlatSteps, c

-----------------------------------------------------------------------------
(* Element by element.                                                     *)

\* A sequence through a function.
Through(F, s) == [k \in DOMAIN s |-> F[s[k]]]

LEMMA ThroughFacts ==
  ASSUME NEW F, NEW s, IsSeq(s)
  PROVE  /\ IsSeq(Through(F, s)) /\ Len(Through(F, s)) = Len(s)
         /\ \A k \in 1..Len(s) : Through(F, s)[k] = F[s[k]]
         /\ Range(Through(F, s)) = {F[x] : x \in Range(s)}
<1> DEFINE t == Through(F, s)
<1>1. Len(s) \in Nat /\ DOMAIN s = 1..Len(s)
  BY SeqIs
<1>2. t = [k \in 1..Len(s) |-> t[k]] /\ \A k \in 1..Len(s) : t[k] = F[s[k]]
  BY <1>1 DEF Through
<1>3. DOMAIN t = 1..Len(s)
  BY <1>1 DEF Through
<1>4. Range(t) = {F[x] : x \in Range(s)}
  BY <1>1, <1>2, <1>3 DEF Range
<1> HIDE DEF t
<1>5. IsSeq(t) /\ Len(t) = Len(s)
  BY <1>1, <1>2, FunctionIsSeq
<1> QED BY <1>2, <1>4, <1>5 DEF t

LEMMA ThroughNone ==
  ASSUME NEW F
  PROVE  Through(F, <<>>) = <<>>
<1>1. IsSeq(Through(F, <<>>)) /\ Len(Through(F, <<>>)) = 0
  BY ThroughFacts, EmptyIsSeq
<1> QED BY <1>1, EmptyIsSeq, SameSeq

LEMMA ThroughOne ==
  ASSUME NEW F, NEW x
  PROVE  Through(F, <<x>>) = <<F[x]>>
<1> DEFINE t == Through(F, <<x>>)
           y == <<F[x]>>
<1>1. IsSeq(t) /\ Len(t) = 1 /\ t[1] = F[x]
  BY ThroughFacts, OneIsSeq
<1>2. IsSeq(y) /\ Len(y) = 1 /\ y[1] = F[x]
  BY OneIsSeq
<1> HIDE DEF t, y
<1>3. t = y
  BY <1>1, <1>2, SameSeq
<1> QED BY <1>3 DEF t, y

LEMMA ThroughConcat ==
  ASSUME NEW F, NEW s, NEW t, IsSeq(s), IsSeq(t)
  PROVE  Through(F, Joined(s, t)) = Joined(Through(F, s), Through(F, t))
<1> DEFINE c == Joined(s, t)
           fs == Through(F, s)
           ft == Through(F, t)
           fc == Through(F, c)
           d == Joined(fs, ft)
<1>1. Len(s) \in Nat /\ Len(t) \in Nat
  BY SeqIs
<1>2. /\ IsSeq(c) /\ Len(c) = Len(s) + Len(t)
      /\ \A k \in 1..Len(s) : c[k] = s[k]
      /\ \A k \in 1..Len(t) : c[Len(s) + k] = t[k]
  BY ConcatFacts
<1>3. /\ IsSeq(fs) /\ Len(fs) = Len(s) /\ \A k \in 1..Len(s) : fs[k] = F[s[k]]
      /\ IsSeq(ft) /\ Len(ft) = Len(t) /\ \A k \in 1..Len(t) : ft[k] = F[t[k]]
  BY ThroughFacts
<1>4. IsSeq(fc) /\ Len(fc) = Len(c) /\ \A k \in 1..Len(c) : fc[k] = F[c[k]]
  BY <1>2, ThroughFacts
<1> HIDE DEF c, fs, ft, fc
<1>5. /\ IsSeq(d) /\ Len(d) = Len(fs) + Len(ft)
      /\ \A k \in 1..Len(fs) : d[k] = fs[k]
      /\ \A k \in 1..Len(ft) : d[Len(fs) + k] = ft[k]
  BY <1>3, ConcatFacts
<1> HIDE DEF d
<1>6. ASSUME NEW k \in 1..Len(c) PROVE fc[k] = d[k]
  <2>1. CASE k \in 1..Len(s)
    BY <1>2, <1>3, <1>4, <1>5, <2>1
  <2>2. CASE k \notin 1..Len(s)
    <3> DEFINE j == k - Len(s)
    <3>1. j \in 1..Len(t) /\ k = Len(s) + j
      BY <1>1, <1>2, <2>2
    <3> HIDE DEF j
    <3> QED BY <1>2, <1>3, <1>4, <1>5, <3>1
  <2> QED BY <2>1, <2>2
<1>7. fc = d
  <2>1. Len(fc) = Len(d) /\ \A k \in 1..Len(fc) : fc[k] = d[k]
    BY <1>2, <1>3, <1>4, <1>5, <1>6
  <2> QED BY <1>4, <1>5, <2>1, SameSeq
<1> QED BY <1>7 DEF c, fs, ft, fc, d

LEMMA ThroughTwice ==
  ASSUME NEW F, NEW G, NEW H, NEW s, IsSeq(s), \A x \in Range(s) : H[x] = G[F[x]]
  PROVE  Through(G, Through(F, s)) = Through(H, s)
<1> DEFINE fs == Through(F, s)
           gs == Through(G, fs)
           hs == Through(H, s)
<1>1. IsSeq(fs) /\ Len(fs) = Len(s) /\ \A k \in 1..Len(s) : fs[k] = F[s[k]]
  BY ThroughFacts
<1>2. IsSeq(hs) /\ Len(hs) = Len(s) /\ \A k \in 1..Len(s) : hs[k] = H[s[k]]
  BY ThroughFacts
<1> HIDE DEF fs, hs
<1>3. IsSeq(gs) /\ Len(gs) = Len(fs) /\ \A k \in 1..Len(fs) : gs[k] = G[fs[k]]
  BY <1>1, ThroughFacts
<1> HIDE DEF gs
<1>4. \A k \in 1..Len(s) : s[k] \in Range(s)
  BY SeqIs DEF Range
<1>5. Len(gs) = Len(hs) /\ \A k \in 1..Len(gs) : gs[k] = hs[k]
  BY <1>1, <1>2, <1>3, <1>4
<1>6. gs = hs
  BY <1>2, <1>3, <1>5, SameSeq
<1> QED BY <1>6 DEF fs, gs, hs

LEMMA ThroughSame ==
  ASSUME NEW F, NEW G, NEW s, IsSeq(s), \A x \in Range(s) : F[x] = G[x]
  PROVE  Through(F, s) = Through(G, s)
<1>1. DOMAIN s = 1..Len(s)
  BY SeqIs
<1>2. \A k \in DOMAIN s : F[s[k]] = G[s[k]]
  BY DEF Range
<1> QED BY <1>2 DEF Through

\* A flattening through a function, and that flattened in turn.
LEMMA ThroughFlat ==
  ASSUME NEW F, NEW seqs, IsSeqs(seqs)
  PROVE  LET through == [k \in DOMAIN seqs |-> Through(F, seqs[k])]
         IN  /\ IsSeqs(through) /\ Len(through) = Len(seqs)
             /\ Through(F, FlattenSeq(seqs)) = FlattenSeq(through)
<1> DEFINE n == Len(seqs)
           through == [k \in DOMAIN seqs |-> Through(F, seqs[k])]
<1>1. n \in Nat /\ DOMAIN seqs = 1..n
  BY SeqIs DEF IsSeqs
<1>2. /\ through = [k \in 1..n |-> through[k]]
      /\ \A k \in 1..n : through[k] = Through(F, seqs[k])
  BY <1>1
<1> HIDE DEF through
<1>3. \A k \in 1..n : IsSeq(through[k])
  BY <1>2, ThroughFacts DEF IsSeqs
<1>4. IsSeq(through) /\ Len(through) = n
  <2> HIDE DEF n
  <2> QED BY <1>1, <1>2, FunctionIsSeq
<1>5. IsSeqs(through)
  BY <1>3, <1>4 DEF IsSeqs
<1>6. PICK f : FlatSteps(f, seqs)
  BY FlattenIs
<1>7. PICK g : FlatSteps(g, through)
  BY <1>5, FlattenIs
<1> DEFINE A == {k \in 0..n : Through(F, f[k]) = g[k]}
<1>8. 0 \in A
  <2>1. f[0] = <<>> /\ g[0] = <<>> /\ 0 \in 0..n
    BY <1>1, <1>6, <1>7 DEF FlatSteps
  <2> QED BY <2>1, ThroughNone
<1>9. ASSUME NEW k \in 1..n, k - 1 \in A PROVE k \in A
  <2>1. k \in 0..n /\ k - 1 \in 0..n
    BY <1>1
  <2>2. f[k] = Joined(f[k - 1], seqs[k]) /\ IsSeq(f[k - 1]) /\ IsSeq(seqs[k])
    BY <1>6, <2>1 DEF FlatSteps, IsSeqs
  <2>3. g[k] = Joined(g[k - 1], Through(F, seqs[k]))
    BY <1>2, <1>4, <1>7 DEF FlatSteps
  <2>4. Through(F, f[k - 1]) = g[k - 1]
    BY <1>9
  <2>5. Through(F, f[k]) = g[k]
    BY <2>2, <2>3, <2>4, ThroughConcat
  <2> QED BY <2>1, <2>5
<1>10. n \in A
  <2>1. n \in 0..n
    BY <1>1
  <2> HIDE DEF A, n
  <2> QED BY <1>1, <1>8, <1>9, <2>1, CountUp
<1>11. Through(F, FlattenSeq(seqs)) = FlattenSeq(through)
  BY <1>4, <1>6, <1>7, <1>10 DEF FlatSteps
<1> QED BY <1>4, <1>5, <1>11 DEF through

LEMMA FlatThroughFlat ==
  ASSUME NEW F, NEW seqs, IsSeqs(seqs),
         \A k \in 1..Len(seqs) : \A x \in Range(seqs[k]) : IsSeq(F[x])
  PROVE  LET flat == [k \in DOMAIN seqs |-> FlattenSeq(Through(F, seqs[k]))]
         IN  /\ IsSeqs(flat) /\ Len(flat) = Len(seqs)
             /\ FlattenSeq(Through(F, FlattenSeq(seqs))) = FlattenSeq(flat)
<1> DEFINE n == Len(seqs)
           flat == [k \in DOMAIN seqs |-> FlattenSeq(Through(F, seqs[k]))]
<1>1. n \in Nat /\ DOMAIN seqs = 1..n
  BY SeqIs DEF IsSeqs
<1>2. /\ flat = [k \in 1..n |-> flat[k]]
      /\ \A k \in 1..n : flat[k] = FlattenSeq(Through(F, seqs[k]))
  BY <1>1
<1> HIDE DEF flat
<1>3. ASSUME NEW s, IsSeq(s), \A x \in Range(s) : IsSeq(F[x])
      PROVE  IsSeqs(Through(F, s)) /\ IsSeq(FlattenSeq(Through(F, s)))
  <2> DEFINE t == Through(F, s)
  <2>1. IsSeq(t) /\ Len(t) = Len(s) /\ \A k \in 1..Len(s) : t[k] = F[s[k]]
    BY <1>3, ThroughFacts
  <2>2. \A k \in 1..Len(s) : s[k] \in Range(s)
    BY <1>3, SeqIs DEF Range
  <2> HIDE DEF t
  <2>3. IsSeqs(t)
    BY <1>3, <2>1, <2>2 DEF IsSeqs
  <2> QED BY <2>3, FlattenFacts DEF t
<1>4. \A k \in 1..n : IsSeq(flat[k])
  BY <1>2, <1>3 DEF IsSeqs
<1>5. IsSeq(flat) /\ Len(flat) = n
  <2> HIDE DEF n
  <2> QED BY <1>1, <1>2, FunctionIsSeq
<1>6. IsSeqs(flat)
  BY <1>4, <1>5 DEF IsSeqs
<1>7. PICK f : FlatSteps(f, seqs)
  BY FlattenIs
<1>8. PICK g : FlatSteps(g, flat)
  BY <1>6, FlattenIs
<1> DEFINE A == {k \in 0..n : /\ \A x \in Range(f[k]) : IsSeq(F[x])
                              /\ FlattenSeq(Through(F, f[k])) = g[k]}
<1>9. 0 \in A
  <2>1. f[0] = <<>> /\ g[0] = <<>> /\ 0 \in 0..n
    BY <1>1, <1>7, <1>8 DEF FlatSteps
  <2>2. Range(f[0]) = {}
    BY <2>1, EmptyIsSeq
  <2> QED BY <2>1, <2>2, ThroughNone, FlattenNone
<1>10. ASSUME NEW k \in 1..n, k - 1 \in A PROVE k \in A
  <2>1. k \in 0..n /\ k - 1 \in 0..n
    BY <1>1
  <2> DEFINE p == f[k - 1]
             s == seqs[k]
             c == Joined(p, s)
  <2>2. f[k] = c /\ IsSeq(p) /\ IsSeq(s)
    BY <1>7, <2>1 DEF FlatSteps, IsSeqs
  <2>3. g[k] = Joined(g[k - 1], FlattenSeq(Through(F, s)))
    BY <1>2, <1>5, <1>8 DEF FlatSteps
  <2>4. FlattenSeq(Through(F, p)) = g[k - 1] /\ \A x \in Range(p) : IsSeq(F[x])
    BY <1>10
  <2>5. \A x \in Range(s) : IsSeq(F[x])
    OBVIOUS
  <2> HIDE DEF p, s
  <2>6. IsSeq(c) /\ Range(c) = Range(p) \cup Range(s)
    BY <2>2, ConcatFacts
  <2>7. Through(F, c) = Joined(Through(F, p), Through(F, s))
    BY <2>2, ThroughConcat
  <2>8. IsSeqs(Through(F, p)) /\ IsSeqs(Through(F, s))
    BY <1>3, <2>2, <2>4, <2>5
  <2>9. FlattenSeq(Through(F, c)) = Joined(FlattenSeq(Through(F, p)), FlattenSeq(Through(F, s)))
    BY <2>7, <2>8, FlattenConcat
  <2>10. FlattenSeq(Through(F, f[k])) = g[k] /\ \A x \in Range(f[k]) : IsSeq(F[x])
    BY <2>2, <2>3, <2>4, <2>5, <2>6, <2>9
  <2> QED BY <2>1, <2>10
<1>11. n \in A
  <2>1. n \in 0..n
    BY <1>1
  <2> HIDE DEF A, n
  <2> QED BY <1>1, <1>9, <1>10, <2>1, CountUp
<1>12. FlattenSeq(Through(F, FlattenSeq(seqs))) = FlattenSeq(flat)
  BY <1>5, <1>7, <1>8, <1>11 DEF FlatSteps
<1> QED BY <1>5, <1>6, <1>12 DEF flat

\* One element each.
LEMMA FlattenSingles ==
  ASSUME NEW F, NEW G, NEW s, IsSeq(s), \A x \in Range(s) : F[x] = <<G[x]>>
  PROVE  /\ IsSeqs(Through(F, s))
         /\ FlattenSeq(Through(F, s)) = Through(G, s)
<1> DEFINE n == Len(s)
           t == Through(F, s)
           u == Through(G, s)
<1>1. n \in Nat /\ \A k \in 1..n : s[k] \in Range(s)
  BY SeqIs DEF Range
<1>2. IsSeq(t) /\ Len(t) = n /\ \A k \in 1..n : t[k] = F[s[k]]
  BY ThroughFacts
<1>3. IsSeq(u) /\ Len(u) = n /\ \A k \in 1..n : u[k] = G[s[k]]
  BY ThroughFacts
<1> HIDE DEF n, t, u
<1>4. \A k \in 1..n : t[k] = <<u[k]>>
  BY <1>1, <1>2, <1>3
<1>5. IsSeqs(t)
  BY <1>2, <1>4, OneIsSeq DEF IsSeqs
<1>6. PICK f : FlatSteps(f, t)
  BY <1>5, FlattenIs
<1> DEFINE A == {k \in 0..n : /\ Len(f[k]) = k
                              /\ \A j \in 1..k : f[k][j] = u[j]}
<1>7. 0 \in A
  <2>1. f[0] = <<>>
    BY <1>6 DEF FlatSteps
  <2> QED BY <1>1, <2>1, EmptyIsSeq
<1>8. ASSUME NEW k \in 1..n, k - 1 \in A PROVE k \in A
  <2>1. k \in 0..n /\ k - 1 \in 0..n /\ k \in Nat
    BY <1>1
  <2> DEFINE p == f[k - 1]
             c == Joined(p, <<u[k]>>)
  <2>2. f[k] = c /\ IsSeq(p)
    BY <1>2, <1>4, <1>6, <2>1 DEF FlatSteps
  <2>3. Len(p) = k - 1 /\ \A j \in 1..k - 1 : p[j] = u[j]
    BY <1>8
  <2> HIDE DEF p
  <2>4. Len(c) = Len(p) + 1 /\ (\A j \in 1..Len(p) : c[j] = p[j]) /\ c[Len(p) + 1] = u[k]
    BY <2>2, LongerFacts
  <2> HIDE DEF c
  <2>5. Len(c) = k /\ \A j \in 1..k : c[j] = u[j]
    BY <2>1, <2>3, <2>4
  <2> QED BY <2>1, <2>2, <2>5
<1>9. n \in A
  <2>1. n \in 0..n
    BY <1>1
  <2> HIDE DEF A
  <2> QED BY <1>1, <1>7, <1>8, <2>1, CountUp
<1>10. f[n] = u
  <2>1. IsSeq(f[n])
    BY <1>1, <1>2, <1>6 DEF FlatSteps
  <2> QED BY <1>3, <1>9, <2>1, SameSeq
<1>11. FlattenSeq(t) = u
  BY <1>2, <1>6, <1>10 DEF FlatSteps
<1> QED BY <1>5, <1>11 DEF t, u

-----------------------------------------------------------------------------
(* Chains of checks.                                                       *)

\* A chain of checks passes exactly if every check does, and fails with the
\* verdict of one of them.
LEMMA FirstErrorFacts ==
  ASSUME NEW V, NEW vs \in Seq(V)
  PROVE  /\ FirstError(vs) = "Ok" <=> Passed(vs)
         /\ FirstError(vs) \in V \cup {"Ok"}
  <1>1. CASE Passed(vs)
    BY <1>1 DEF FirstError
  <1>2. CASE ~Passed(vs)
    <2> DEFINE T == {i \in DOMAIN vs : vs[i] # "Ok"}
               first == CHOOSE i \in DOMAIN vs : FailsFirst(vs, i)
    <2>1. T \subseteq Nat /\ T # {}
      BY <1>2 DEF Passed
    <2>2. PICK x \in T : \A y \in T : x <= y
      BY <2>1, LeastNatural
    <2>3. x \in DOMAIN vs /\ FailsFirst(vs, x)
      BY <2>1, <2>2 DEF FailsFirst
    <2>4. first \in DOMAIN vs /\ FailsFirst(vs, first)
      BY <2>3
    <2>5. vs[first] # "Ok" /\ vs[first] \in V
      BY <2>4, ElementOfSeq DEF FailsFirst
    <2> QED BY <1>2, <2>5 DEF FirstError
  <1> QED BY <1>1, <1>2

\* Every check of a chain that passes does.
LEMMA EveryCheckPasses ==
  ASSUME NEW V, NEW vs \in Seq(V), FirstError(vs) = "Ok"
  PROVE  \A i \in DOMAIN vs : vs[i] = "Ok"
  BY FirstErrorFacts DEF Passed

LEMMA ChainFacts ==
  ASSUME NEW V, NEW s \in Seq(V), NEW t \in Seq(V)
  PROVE  s \o t \in Seq(V) /\ (Passed(s \o t) <=> Passed(s) /\ Passed(t))
  <1>1. s \o t \in Seq(V) /\ Len(s \o t) = Len(s) + Len(t)
    OBVIOUS
  <1>2. ASSUME Passed(s \o t) PROVE Passed(s) /\ Passed(t)
    <2>1. ASSUME NEW i \in DOMAIN s PROVE s[i] = "Ok"
      BY <1>1, <1>2 DEF Passed
    <2>2. ASSUME NEW i \in DOMAIN t PROVE t[i] = "Ok"
      <3>1. Len(s) + i \in DOMAIN (s \o t) /\ (s \o t)[Len(s) + i] = t[i]
        BY <1>1
      <3> QED BY <1>2, <3>1 DEF Passed
    <2> QED BY <2>1, <2>2 DEF Passed
  <1>3. ASSUME Passed(s), Passed(t) PROVE Passed(s \o t)
    <2>1. ASSUME NEW i \in DOMAIN (s \o t) PROVE (s \o t)[i] = "Ok"
      <3>1. CASE i <= Len(s)
        BY <1>1, <1>3, <3>1 DEF Passed
      <3>2. CASE i > Len(s)
        <4>1. i - Len(s) \in DOMAIN t /\ (s \o t)[i] = t[i - Len(s)]
          BY <1>1, <3>2
        <4> QED BY <1>3, <4>1 DEF Passed
      <3> QED BY <1>1, <3>1, <3>2
    <2> QED BY <2>1 DEF Passed
  <1> QED BY <1>1, <1>2, <1>3
=============================================================================
