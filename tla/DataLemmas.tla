------------------------------ MODULE DataLemmas ------------------------------
(* Facts about numbers and sequences that the proofs of several components   *)
(* use: the step from a number to the next, and sequences whose elements are *)
(* of no type that could be named.                                           *)
EXTENDS Integers, Functions, FiniteSetsExt, SequenceTheorems, WellFoundedInduction, TLAPS

\* The least number of a set is one of it.
LEMMA LeastNumber ==
    ASSUME NEW S, S \subseteq Nat, S # {}
    PROVE  Min(S) \in S /\ \A n \in S : Min(S) <= n
  <1>1. PICK m \in S : \A n \in S : ~(<<n, m>> \in OpToRel(<, Nat))
    BY NatLessThanWellFounded, WFMin, Zenon
  <1>2. \A n \in S : ~(n < m)
    <2> TAKE n \in S
    <2>1. <<n, m>> \in Nat \X Nat /\ <<n, m>>[1] = n /\ <<n, m>>[2] = m
      OBVIOUS
    <2> QED
      BY <1>1, <2>1, Zenon DEF OpToRel
  <1>3. \A n \in S : m <= n
    BY <1>2
  <1> QED
    BY <1>3, Zenon DEF Min

\* A set of numbers up to a bound that has 0, and with a number the next, has them all.
LEMMA AllNumbers ==
    ASSUME NEW top \in Nat, NEW T, 0 \in T, \A n \in 0 .. top : n \in T /\ n < top => n + 1 \in T
    PROVE  0 .. top \subseteq T
  <1> DEFINE rest == (0 .. top) \ T
  <1> SUFFICES ASSUME rest # {} PROVE FALSE
    OBVIOUS
  <1>1. rest \subseteq Nat
    OBVIOUS
  <1>2. PICK m \in rest : \A n \in rest : m <= n
    BY <1>1, LeastNumber
  <1>3. m # 0 /\ m - 1 \in 0 .. top /\ m - 1 < top /\ m - 1 + 1 = m
    BY <1>2
  <1>4. m - 1 \in T
    BY <1>2, <1>3
  <1> QED
    BY <1>2, <1>3, <1>4

------------------------------------------------------------------------------
\* A sequence of whatever it holds.
IsSequence(q) == q \in Seq(Range(q))

LEMMA EmptyIsSequence == IsSequence(<<>>) /\ DOMAIN <<>> = {}
  BY DEF IsSequence

\* A sequence of a type is one.
LEMMA SequenceOf == ASSUME NEW S, NEW q \in Seq(S) PROVE IsSequence(q)
  <1>1. PICK n \in Nat : q \in [1 .. n -> S]
    <2>1. Seq(S) = UNION {[1 .. n -> S] : n \in Nat}
      BY SeqDef
    <2> QED
      BY <2>1
  <1>2. q \in [1 .. n -> Range(q)]
    BY <1>1 DEF Range
  <1>3. q \in Seq(Range(q))
    BY <1>1, <1>2, SeqDef
  <1> QED
    BY <1>3 DEF IsSequence

\* What is appended is the only new element.
LEMMA AppendedTo ==
    ASSUME NEW q, IsSequence(q), NEW x
    PROVE  /\ IsSequence(Append(q, x))
           /\ \A k \in DOMAIN Append(q, x) : (k \in DOMAIN q /\ Append(q, x)[k] = q[k]) \/ Append(q, x)[k] = x
  <1> DEFINE S == Range(q) \union {x}
  <1>1. q \in Seq(S) /\ x \in S
    <2> HIDE DEF S
    <2>1. Range(q) \subseteq S
      BY DEF S
    <2> QED
      BY <2>1 DEF IsSequence, S
  <1> HIDE DEF S
  <1>2. /\ Append(q, x) \in Seq(S) /\ DOMAIN Append(q, x) = 1 .. Len(q) + 1 /\ DOMAIN q = 1 .. Len(q) /\ Len(q) \in Nat
        /\ \A k \in 1 .. Len(q) : Append(q, x)[k] = q[k]
        /\ Append(q, x)[Len(q) + 1] = x
    BY <1>1
  <1>3. \A k \in DOMAIN Append(q, x) : (k \in DOMAIN q /\ Append(q, x)[k] = q[k]) \/ Append(q, x)[k] = x
    BY <1>2
  <1>4. IsSequence(Append(q, x))
    BY <1>2, SequenceOf
  <1> QED
    BY <1>3, <1>4

\* One element more makes a prefix one longer.
LEMMA PrefixGrows ==
    ASSUME NEW m \in Seq(Nat), NEW n \in 1 .. Len(m)
    PROVE  SubSeq(m, 1, n - 1) \o <<m[n]>> = SubSeq(m, 1, n)
  <1>1. Len(m) \in Nat /\ n \in Nat \ {0} /\ n <= Len(m)
    OBVIOUS
  <1> DEFINE a == SubSeq(m, 1, n - 1)
             b == SubSeq(m, 1, n)
             c == a \o <<m[n]>>
  <1>2. /\ a \in Seq(Nat) /\ Len(a) = n - 1 /\ \A i \in 1 .. n - 1 : a[i] = m[i]
        /\ b \in Seq(Nat) /\ Len(b) = n /\ \A i \in 1 .. n : b[i] = m[i]
    BY <1>1
  <1>3. m[n] \in Nat
    BY <1>1
  <1> HIDE DEF a, b
  <1>4. c \in Seq(Nat) /\ Len(c) = n /\ \A i \in 1 .. n : c[i] = m[i]
    BY <1>1, <1>2, <1>3
  <1> HIDE DEF c
  <1>5. b = c
    BY <1>2, <1>4, SeqEqual
  <1> QED
    BY <1>5 DEF a, b, c

\* An end of a sequence grows as the sequence does, and so does its empty end.
LEMMA EndGrows ==
    ASSUME NEW m \in Seq(Nat), NEW x \in Nat
    PROVE  /\ Append(<<>>, x) = SubSeq(Append(m, x), Len(m) + 1, Len(m) + 1)
           /\ \A l \in 1 .. Len(m) : Append(SubSeq(m, l, Len(m)), x) = SubSeq(Append(m, x), l, Len(m) + 1)
  <1> DEFINE t == Append(m, x)
  <1>1. Len(m) \in Nat /\ t \in Seq(Nat) /\ Len(t) = Len(m) + 1 /\ t[Len(m) + 1] = x
        /\ \A i \in 1 .. Len(m) : t[i] = m[i]
    OBVIOUS
  <1> HIDE DEF t
  <1>2. ASSUME NEW l \in 1 .. Len(m) PROVE Append(SubSeq(m, l, Len(m)), x) = SubSeq(t, l, Len(m) + 1)
    <2> DEFINE p == SubSeq(m, l, Len(m))
               a == Append(p, x)
               b == SubSeq(t, l, Len(m) + 1)
    <2>1. p \in Seq(Nat) /\ Len(p) = Len(m) - l + 1 /\ \A i \in 1 .. Len(p) : p[i] = m[i + l - 1]
      BY <1>1
    <2>2. b \in Seq(Nat) /\ Len(b) = Len(m) - l + 2 /\ \A i \in 1 .. Len(b) : b[i] = t[i + l - 1]
      BY <1>1
    <2> HIDE DEF p, b
    <2>p. p \in Seq(Nat) /\ Len(p) \in Nat /\ l \in Nat
      BY <1>1, <2>1
    <2>3. a \in Seq(Nat) /\ Len(a) = Len(p) + 1 /\ a[Len(p) + 1] = x /\ \A i \in 1 .. Len(p) : a[i] = p[i]
      BY <2>p
    <2> HIDE DEF a
    <2>4. Len(a) = Len(b) /\ Len(a) = Len(p) + 1 /\ Len(p) \in Nat
      BY <1>1, <2>1, <2>2, <2>3
    <2>5. ASSUME NEW i \in 1 .. Len(a) PROVE a[i] = b[i]
      <3>1. b[i] = t[i + l - 1]
        BY <2>2, <2>4
      <3>2. CASE i \in 1 .. Len(p)
        <4>1. i + l - 1 \in 1 .. Len(m)
          BY <1>1, <2>1, <3>2
        <4> QED
          BY <1>1, <2>1, <2>3, <3>1, <3>2, <4>1
      <3>3. CASE i \notin 1 .. Len(p)
        <4>1. i \in Nat /\ i >= 1 /\ i <= Len(p) + 1
          BY <2>4
        <4>2. i = Len(p) + 1
          BY <2>p, <3>3, <4>1
        <4>3. i + l - 1 = Len(m) + 1
          BY <1>1, <2>1, <2>p, <4>2
        <4> QED
          BY <1>1, <2>3, <3>1, <4>2, <4>3
      <3> QED
        BY <3>2, <3>3
    <2>6. a = b
      BY <2>2, <2>3, <2>4, <2>5, SeqEqual
    <2> QED
      BY <2>6 DEF a, b, p
  <1>3. <<x>> = SubSeq(t, Len(m) + 1, Len(m) + 1) /\ Append(<<>>, x) = <<x>>
    BY <1>1
  <1> QED
    BY <1>2, <1>3 DEF t
==============================================================================
