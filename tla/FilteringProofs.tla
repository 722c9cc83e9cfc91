---------------------------- MODULE FilteringProofs ----------------------------
EXTENDS Filtering, WellFoundedInduction, TLAPS

-----------------------------------------------------------------------------
(* Induction *)

Before == {pair \in Nat \X Nat : pair[1] < pair[2]}

\* A set of numbers that is not empty has a least one.
LEMMA LeastNumber ==
  ASSUME NEW S, S \subseteq Nat, S # {}
  PROVE  \E n \in S : \A m \in S : n <= m
<1>1. IsWellFoundedOn(Before, Nat)
  BY NatLessThanWellFounded DEF OpToRel, Before
<1>2. PICK n \in S : \A m \in S : <<m, n>> \notin Before
  BY <1>1, WFMin
<1>3. ASSUME NEW m \in S PROVE n <= m
  <2>1. <<m, n>> \in Nat \X Nat /\ <<m, n>>[1] = m /\ <<m, n>>[2] = n
    BY <1>3
  <2>2. ~(m < n)
    BY <1>2, <2>1 DEF Before
  <2> QED BY <2>2, <1>3
<1> QED BY <1>3

\* Induction over numbers, of a set that holds the ones of which something is true.
LEMMA Induction ==
  ASSUME NEW S, 0 \in S, \A n \in Nat : n \in S => n + 1 \in S
  PROVE  Nat \subseteq S
<1> SUFFICES ASSUME Nat \ S # {} PROVE FALSE
  OBVIOUS
<1>1. PICK n \in Nat \ S : \A m \in Nat \ S : n <= m
  <2> Nat \ S \subseteq Nat
    OBVIOUS
  <2> QED BY LeastNumber
<1>2. n # 0 /\ n - 1 \in Nat
  OBVIOUS
<1>3. n - 1 \in S
  BY <1>1, <1>2
<1> QED BY <1>2, <1>3

-----------------------------------------------------------------------------
(* Filter *)

Step(s, S, f, i) ==
  IF i = 0 THEN << >> ELSE IF s[i] \in S THEN Append(f[i - 1], s[i]) ELSE f[i - 1]

KeptUpTo(s, S) == CHOOSE f : f = [i \in 0 .. Len(s) |-> Step(s, S, f, i)]

LEMMA FilterIsKept == ASSUME NEW s, NEW S PROVE Filter(s, S) = KeptUpTo(s, S)[Len(s)]
BY DEF Filter, KeptUpTo, Step

LEMMA KeptExists ==
  ASSUME NEW s, NEW S, NEW n \in Nat
  PROVE  \E f : f = [i \in 0 .. n |-> Step(s, S, f, i)]
<1> DEFINE Has == {k \in Nat : \E f : f = [i \in 0 .. k |-> Step(s, S, f, i)]}
<1>1. 0 \in Has
  <2> DEFINE f == [i \in 0 .. 0 |-> << >>]
  <2>1. f = [i \in 0 .. 0 |-> Step(s, S, f, i)]
    BY DEF Step
  <2> QED BY <2>1
<1>2. ASSUME NEW k \in Nat, k \in Has PROVE k + 1 \in Has
  <2>1. PICK f : f = [i \in 0 .. k |-> Step(s, S, f, i)]
    BY <1>2
  <2> DEFINE g == [i \in 0 .. k + 1 |-> IF i = k + 1 THEN Step(s, S, f, k + 1) ELSE f[i]]
  <2>2. ASSUME NEW i \in 0 .. k + 1 PROVE g[i] = Step(s, S, g, i)
    <3>1. CASE i = 0
      BY <3>1, <2>1 DEF Step
    <3>2. CASE i \in 1 .. k + 1
      <4>1. g[i - 1] = f[i - 1]
        BY <3>2
      <4>2. g[i] = Step(s, S, f, i)
        BY <3>2, <2>1
      <4> QED BY <3>2, <4>1, <4>2 DEF Step
    <3> QED BY <3>1, <3>2
  <2>3. g = [i \in 0 .. k + 1 |-> Step(s, S, g, i)]
    BY <2>2, Zenon
  <2>4. k + 1 \in Nat
    OBVIOUS
  <2> QED BY <2>3, <2>4, Zenon
<1> HIDE DEF Has
<1>3. Nat \subseteq Has
  BY <1>1, <1>2, Induction
<1> QED BY <1>3 DEF Has

LEMMA KeptIs ==
  ASSUME NEW s, NEW S, Len(s) \in Nat
  PROVE  KeptUpTo(s, S) = [i \in 0 .. Len(s) |-> Step(s, S, KeptUpTo(s, S), i)]
<1>1. \E f : f = [i \in 0 .. Len(s) |-> Step(s, S, f, i)]
  BY KeptExists
<1> QED BY <1>1, Zenon DEF KeptUpTo

LEMMA KeptStep ==
  ASSUME NEW s, NEW S, Len(s) \in Nat, NEW n \in 0 .. Len(s)
  PROVE  KeptUpTo(s, S)[n] = Step(s, S, KeptUpTo(s, S), n)
BY KeptIs

\* What is kept of the first n members depends on them alone, and of them only on those kept.
LEMMA KeptSame ==
  ASSUME NEW s, NEW S, NEW t, NEW T, Len(s) \in Nat, Len(t) \in Nat,
         NEW n \in Nat, n <= Len(s), n <= Len(t),
         \A i \in 1 .. n : (s[i] \in S <=> t[i] \in T) /\ (s[i] \in S => s[i] = t[i])
  PROVE  KeptUpTo(s, S)[n] = KeptUpTo(t, T)[n]
<1> DEFINE Agree == {k \in Nat : k <= n => KeptUpTo(s, S)[k] = KeptUpTo(t, T)[k]}
<1>1. 0 \in Agree
  BY KeptStep DEF Step
<1>2. ASSUME NEW k \in Nat, k \in Agree PROVE k + 1 \in Agree
  <2> SUFFICES ASSUME k + 1 <= n PROVE KeptUpTo(s, S)[k + 1] = KeptUpTo(t, T)[k + 1]
    OBVIOUS
  <2>1. k + 1 \in 0 .. Len(s) /\ k + 1 \in 0 .. Len(t) /\ k + 1 \in 1 .. n /\ k + 1 # 0 /\ (k + 1) - 1 = k
    OBVIOUS
  <2>2. KeptUpTo(s, S)[k] = KeptUpTo(t, T)[k]
    BY <1>2
  <2>3. KeptUpTo(s, S)[k + 1] = Step(s, S, KeptUpTo(s, S), k + 1)
    BY <2>1, KeptStep
  <2>4. KeptUpTo(t, T)[k + 1] = Step(t, T, KeptUpTo(t, T), k + 1)
    BY <2>1, KeptStep
  <2> QED BY <2>1, <2>2, <2>3, <2>4 DEF Step
<1> HIDE DEF Agree
<1>3. n \in Agree
  BY <1>1, <1>2, Induction
<1> QED BY <1>3 DEF Agree

LEMMA FilterSame ==
  ASSUME NEW s, NEW S, NEW t, NEW T, Len(s) \in Nat, Len(t) = Len(s),
         \A i \in 1 .. Len(s) : (s[i] \in S <=> t[i] \in T) /\ (s[i] \in S => s[i] = t[i])
  PROVE  Filter(s, S) = Filter(t, T)
BY FilterIsKept, KeptSame

LEMMA FilterEmpty == ASSUME NEW S PROVE Filter(<< >>, S) = << >>
BY FilterIsKept, KeptStep DEF Step

LEMMA FilterAppend ==
  ASSUME NEW A, NEW s \in Seq(A), NEW x \in A, NEW S
  PROVE  Filter(Append(s, x), S) = IF x \in S THEN Append(Filter(s, S), x) ELSE Filter(s, S)
<1> DEFINE t == Append(s, x)
           n == Len(s)
<1>1. n \in Nat /\ Len(t) = n + 1 /\ t[n + 1] = x /\ \A i \in 1 .. n : t[i] = s[i]
  OBVIOUS
<1> HIDE DEF t, n
<1>2. KeptUpTo(t, S)[n] = KeptUpTo(s, S)[n]
  BY <1>1, KeptSame DEF n
<1>3. KeptUpTo(t, S)[n + 1] = Step(t, S, KeptUpTo(t, S), n + 1)
  BY <1>1, KeptStep
<1>4. Filter(t, S) = KeptUpTo(t, S)[n + 1] /\ Filter(s, S) = KeptUpTo(s, S)[n]
  BY <1>1, FilterIsKept DEF n
<1>5. n + 1 # 0 /\ (n + 1) - 1 = n
  BY <1>1
<1> QED BY <1>1, <1>2, <1>3, <1>4, <1>5 DEF Step, t

LEMMA KeptType ==
  ASSUME NEW A, NEW s \in Seq(A), NEW S, NEW n \in 0 .. Len(s)
  PROVE  KeptUpTo(s, S)[n] \in Seq(A \cap S)
<1> DEFINE Typed == {k \in Nat : k <= Len(s) => KeptUpTo(s, S)[k] \in Seq(A \cap S)}
<1>0. Len(s) \in Nat /\ \A i \in 1 .. Len(s) : s[i] \in A
  OBVIOUS
<1>1. 0 \in Typed
  <2>1. KeptUpTo(s, S)[0] = << >>
    BY <1>0, 0 \in 0 .. Len(s), KeptStep DEF Step
  <2>2. << >> \in Seq(A \cap S)
    OBVIOUS
  <2> QED BY <2>1, <2>2
<1>2. ASSUME NEW k \in Nat, k \in Typed PROVE k + 1 \in Typed
  <2> SUFFICES ASSUME k + 1 <= Len(s) PROVE KeptUpTo(s, S)[k + 1] \in Seq(A \cap S)
    OBVIOUS
  <2>1. k + 1 \in 0 .. Len(s) /\ k + 1 \in 1 .. Len(s) /\ k + 1 # 0 /\ (k + 1) - 1 = k
    BY <1>0
  <2>2. KeptUpTo(s, S)[k] \in Seq(A \cap S)
    BY <1>0, <1>2
  <2>3. KeptUpTo(s, S)[k + 1] = Step(s, S, KeptUpTo(s, S), k + 1)
    BY <1>0, <2>1, KeptStep
  <2>4. s[k + 1] \in A
    BY <1>0, <2>1
  <2> QED BY <2>1, <2>2, <2>3, <2>4 DEF Step
<1> HIDE DEF Typed
<1>3. Nat \subseteq Typed
  BY <1>1, <1>2, Induction
<1>4. n \in Typed
  BY <1>0, <1>3
<1> QED BY <1>0, <1>4 DEF Typed

LEMMA FilterType ==
  ASSUME NEW A, NEW s \in Seq(A), NEW S
  PROVE  Filter(s, S) \in Seq(A \cap S)
<1>1. Len(s) \in 0 .. Len(s)
  OBVIOUS
<1> QED BY <1>1, KeptType, FilterIsKept

\* What is kept up to the next member.
LEMMA KeptNext ==
  ASSUME NEW s, NEW S, Len(s) \in Nat, NEW k \in Nat, k + 1 <= Len(s)
  PROVE  KeptUpTo(s, S)[k + 1] =
           IF s[k + 1] \in S THEN Append(KeptUpTo(s, S)[k], s[k + 1]) ELSE KeptUpTo(s, S)[k]
<1>1. k + 1 \in 0 .. Len(s) /\ k + 1 # 0 /\ (k + 1) - 1 = k
  OBVIOUS
<1> QED BY <1>1, KeptStep DEF Step

LEMMA KeptNone == ASSUME NEW s, NEW S, Len(s) \in Nat PROVE KeptUpTo(s, S)[0] = << >>
BY 0 \in 0 .. Len(s), KeptStep DEF Step

\* The members of a stretch are kept, and no others: what remains is the stretch.
LEMMA FilterRange ==
  ASSUME NEW A, NEW s \in Seq(A), NEW S, NEW lo \in 1 .. Len(s) + 1, NEW hi \in lo - 1 .. Len(s),
         \A i \in 1 .. Len(s) : s[i] \in S <=> lo <= i /\ i <= hi
  PROVE  Filter(s, S) = SubSeq(s, lo, hi)
<1> DEFINE Stretch(n) == SubSeq(s, lo, IF n <= hi THEN n ELSE hi)
           Holds == {n \in Nat : lo - 1 <= n /\ n <= Len(s) => KeptUpTo(s, S)[n] = Stretch(n)}
           Nothing == {n \in Nat : n <= lo - 1 => KeptUpTo(s, S)[n] = << >>}
<1>0. Len(s) \in Nat /\ lo \in Nat /\ hi \in Nat /\ lo - 1 \in Nat
  OBVIOUS
<1>1. Nat \subseteq Nothing
  <2>1. 0 \in Nothing
    BY <1>0, KeptNone
  <2>2. ASSUME NEW k \in Nat, k \in Nothing PROVE k + 1 \in Nothing
    <3> SUFFICES ASSUME k + 1 <= lo - 1 PROVE KeptUpTo(s, S)[k + 1] = << >>
      OBVIOUS
    <3>1. KeptUpTo(s, S)[k] = << >>
      BY <2>2, <1>0
    <3>2. k + 1 <= Len(s) /\ s[k + 1] \notin S
      BY <1>0
    <3> QED BY <1>0, <3>1, <3>2, KeptNext
  <2> HIDE DEF Nothing
  <2> QED BY <2>1, <2>2, Induction
<1>2. KeptUpTo(s, S)[lo - 1] = << >>
  <2> lo - 1 \in Nothing
    BY <1>0, <1>1
  <2> QED BY <1>0
<1>3. Nat \subseteq Holds
  <2>1. 0 \in Holds
    <3> SUFFICES ASSUME lo - 1 <= 0 PROVE KeptUpTo(s, S)[0] = Stretch(0)
      OBVIOUS
    <3>1. lo = 1 /\ KeptUpTo(s, S)[0] = << >>
      BY <1>0, <1>2
    <3>2. SubSeq(s, 1, 0) = << >>
      OBVIOUS
    <3> QED BY <1>0, <3>1, <3>2
  <2>2. ASSUME NEW k \in Nat, k \in Holds PROVE k + 1 \in Holds
    <3> SUFFICES ASSUME lo - 1 <= k + 1, k + 1 <= Len(s) PROVE KeptUpTo(s, S)[k + 1] = Stretch(k + 1)
      OBVIOUS
    <3>1. CASE k + 1 = lo - 1
      <4>1. Stretch(k + 1) = << >>
        <5>1. k + 1 <= hi
          BY <1>0, <3>1
        <5>2. SubSeq(s, lo, k + 1) = << >>
          BY <1>0, <3>1
        <5> QED BY <5>1, <5>2
      <4> QED BY <4>1, <3>1, <1>2
    <3>2. CASE k >= lo - 1
      <4>1. KeptUpTo(s, S)[k] = Stretch(k)
        BY <2>2, <3>2, <1>0
      <4>2. KeptUpTo(s, S)[k + 1] = IF s[k + 1] \in S THEN Append(Stretch(k), s[k + 1]) ELSE Stretch(k)
        BY <4>1, <1>0, KeptNext
      <4>3. CASE k + 1 <= hi
        <5>1. s[k + 1] \in S
          BY <4>3, <3>2, <1>0
        <5>2. Append(SubSeq(s, lo, k), s[k + 1]) = SubSeq(s, lo, k + 1)
          BY <4>3, <3>2, <1>0
        <5>3. k <= hi
          BY <4>3, <1>0
        <5> QED BY <4>2, <4>3, <5>1, <5>2, <5>3
      <4>4. CASE ~(k + 1 <= hi)
        <5>1. s[k + 1] \notin S
          BY <4>4, <3>2, <1>0
        <5>2. k <= hi => k = hi
          BY <4>4, <1>0
        <5> QED BY <4>2, <4>4, <5>1, <5>2
      <4> QED BY <4>3, <4>4
    <3> QED BY <3>1, <3>2, <1>0
  <2> HIDE DEF Holds
  <2> QED BY <2>1, <2>2, Induction
<1>4. KeptUpTo(s, S)[Len(s)] = Stretch(Len(s))
  <2> Len(s) \in Holds
    BY <1>0, <1>3
  <2> lo - 1 <= Len(s)
    BY <1>0
  <2> QED BY <1>0
<1>5. Stretch(Len(s)) = SubSeq(s, lo, hi)
  BY <1>0
<1> QED BY <1>4, <1>5, FilterIsKept

\* A sequence whose members are all kept.
LEMMA FilterAll ==
  ASSUME NEW S, NEW A, A \subseteq S, NEW s \in Seq(A)
  PROVE  Filter(s, S) = s
<1>1. Len(s) \in Nat /\ 1 \in 1 .. Len(s) + 1 /\ Len(s) \in 1 - 1 .. Len(s)
  OBVIOUS
<1>2. \A i \in 1 .. Len(s) : s[i] \in S <=> 1 <= i /\ i <= Len(s)
  OBVIOUS
<1>3. Filter(s, S) = SubSeq(s, 1, Len(s))
  BY <1>1, <1>2, FilterRange
<1>4. SubSeq(s, 1, Len(s)) = s
  OBVIOUS
<1> QED BY <1>3, <1>4

\* One sequence after another.
LEMMA FilterConcat ==
  ASSUME NEW A, NEW s \in Seq(A), NEW t \in Seq(A), NEW S
  PROVE  Filter(s \o t, S) = Filter(s, S) \o Filter(t, S)
<1> DEFINE st == s \o t
           Holds == {k \in Nat : k <= Len(t) =>
                       KeptUpTo(st, S)[Len(s) + k] = Filter(s, S) \o KeptUpTo(t, S)[k]}
<1>0. /\ Len(s) \in Nat /\ Len(t) \in Nat /\ st \in Seq(A) /\ Len(st) = Len(s) + Len(t)
      /\ \A i \in 1 .. Len(s) : st[i] = s[i]
      /\ \A i \in 1 .. Len(t) : st[Len(s) + i] = t[i]
  OBVIOUS
<1> HIDE DEF st
<1>1. 0 \in Holds
  <2>1. KeptUpTo(st, S)[Len(s)] = KeptUpTo(s, S)[Len(s)]
    <3> DEFINE n == Len(s)
    <3>1. n \in Nat /\ Len(s) \in Nat /\ Len(st) \in Nat /\ n <= Len(s) /\ n <= Len(st)
      BY <1>0
    <3>2. \A i \in 1 .. n : (st[i] \in S <=> s[i] \in S) /\ (st[i] \in S => st[i] = s[i])
      BY <1>0
    <3> HIDE DEF n
    <3>3. KeptUpTo(st, S)[n] = KeptUpTo(s, S)[n]
      BY <3>1, <3>2, KeptSame
    <3> QED BY <3>3 DEF n
  <2>2. KeptUpTo(t, S)[0] = << >>
    BY <1>0, KeptNone
  <2>3. Filter(s, S) \in Seq(A \cap S)
    BY FilterType
  <2>4. Filter(s, S) \o << >> = Filter(s, S)
    BY <2>3
  <2>5. Len(s) + 0 = Len(s)
    BY <1>0
  <2> QED BY <2>1, <2>2, <2>4, <2>5, FilterIsKept
<1>2. ASSUME NEW k \in Nat, k \in Holds PROVE k + 1 \in Holds
  <2> DEFINE f == Filter(s, S)
             g == KeptUpTo(t, S)[k]
             x == t[k + 1]
  <2> SUFFICES ASSUME k + 1 <= Len(t)
               PROVE  KeptUpTo(st, S)[Len(s) + (k + 1)] = f \o KeptUpTo(t, S)[k + 1]
    OBVIOUS
  <2>1. KeptUpTo(st, S)[Len(s) + k] = f \o g
    BY <1>2, <1>0
  <2>2. Len(s) + k \in Nat /\ Len(s) + (k + 1) = (Len(s) + k) + 1 /\ (Len(s) + k) + 1 <= Len(st)
    BY <1>0
  <2>3. st[(Len(s) + k) + 1] = x
    <3>1. k + 1 \in 1 .. Len(t)
      BY <1>0
    <3> QED BY <1>0, <2>2, <3>1
  <2>4. KeptUpTo(st, S)[(Len(s) + k) + 1] = IF x \in S THEN Append(f \o g, x) ELSE f \o g
    <3> DEFINE p == Len(s) + k
    <3>1. p \in Nat /\ p + 1 <= Len(st) /\ Len(st) \in Nat
      BY <1>0, <2>2
    <3> HIDE DEF p
    <3>2. KeptUpTo(st, S)[p + 1] =
            IF st[p + 1] \in S THEN Append(KeptUpTo(st, S)[p], st[p + 1]) ELSE KeptUpTo(st, S)[p]
      BY <3>1, KeptNext
    <3> HIDE DEF f, g, x
    <3>3. st[p + 1] = x /\ KeptUpTo(st, S)[p] = f \o g
      BY <2>1, <2>3 DEF p
    <3>4. KeptUpTo(st, S)[p + 1] = IF x \in S THEN Append(f \o g, x) ELSE f \o g
      BY <3>2, <3>3
    <3> QED BY <3>4 DEF p
  <2>5. KeptUpTo(t, S)[k + 1] = IF x \in S THEN Append(g, x) ELSE g
    BY <1>0, KeptNext
  <2>6. f \in Seq(A) /\ g \in Seq(A) /\ x \in A
    <3>1. f \in Seq(A \cap S)
      BY FilterType
    <3>2. k \in 0 .. Len(t) /\ k + 1 \in 1 .. Len(t)
      BY <1>0
    <3>3. KeptUpTo(t, S)[k] \in Seq(A \cap S)
      BY <3>2, KeptType
    <3>4. x \in A
      BY <3>2
    <3> QED BY <3>1, <3>3, <3>4
  <2> HIDE DEF f, g, x
  <2>7. f \o Append(g, x) = Append(f \o g, x)
    BY <2>6
  <2> QED BY <2>2, <2>4, <2>5, <2>7
<1> HIDE DEF Holds
<1>3. Nat \subseteq Holds
  BY <1>1, <1>2, Induction
<1>4. Len(t) \in Holds
  BY <1>0, <1>3
<1>5. KeptUpTo(st, S)[Len(s) + Len(t)] = Filter(s, S) \o KeptUpTo(t, S)[Len(t)]
  BY <1>0, <1>4 DEF Holds
<1>6. Filter(st, S) = Filter(s, S) \o Filter(t, S)
  BY <1>0, <1>5, FilterIsKept
<1> QED BY <1>6 DEF st

\* Of what is kept, some is kept.
LEMMA FilterTwice ==
  ASSUME NEW A, NEW s \in Seq(A), NEW S, NEW T
  PROVE  Filter(Filter(s, S), T) = Filter(s, S \cap T)
<1> DEFINE Holds == {k \in Nat : k <= Len(s) =>
                       Filter(KeptUpTo(s, S)[k], T) = KeptUpTo(s, S \cap T)[k]}
<1>0. Len(s) \in Nat /\ \A i \in 1 .. Len(s) : s[i] \in A
  OBVIOUS
<1>1. 0 \in Holds
  BY <1>0, KeptNone, FilterEmpty
<1>2. ASSUME NEW k \in Nat, k \in Holds PROVE k + 1 \in Holds
  <2> DEFINE g == KeptUpTo(s, S)[k]
             h == KeptUpTo(s, S \cap T)[k]
             x == s[k + 1]
  <2> SUFFICES ASSUME k + 1 <= Len(s)
               PROVE  Filter(KeptUpTo(s, S)[k + 1], T) = KeptUpTo(s, S \cap T)[k + 1]
    OBVIOUS
  <2>1. Filter(g, T) = h
    BY <1>2, <1>0
  <2>2. KeptUpTo(s, S)[k + 1] = IF x \in S THEN Append(g, x) ELSE g
    BY <1>0, KeptNext
  <2>3. KeptUpTo(s, S \cap T)[k + 1] = IF x \in S \cap T THEN Append(h, x) ELSE h
    BY <1>0, KeptNext
  <2>4. g \in Seq(A) /\ x \in A
    <3>1. g \in Seq(A \cap S)
      BY <1>0, KeptType
    <3> QED BY <3>1, <1>0
  <2> HIDE DEF g, h, x
  <2>5. Filter(Append(g, x), T) = IF x \in T THEN Append(Filter(g, T), x) ELSE Filter(g, T)
    BY <2>4, FilterAppend
  <2> QED BY <2>1, <2>2, <2>3, <2>5
<1> HIDE DEF Holds
<1>3. Nat \subseteq Holds
  BY <1>1, <1>2, Induction
<1>4. Len(s) \in Holds
  BY <1>0, <1>3
<1> QED BY <1>0, <1>4, FilterIsKept DEF Holds

\* What is kept has the members that are in the set, and no others.
LEMMA FilterMembers ==
  ASSUME NEW A, NEW s \in Seq(A), NEW S
  PROVE  /\ \A i \in 1 .. Len(s) : s[i] \in S =>
              \E j \in 1 .. Len(Filter(s, S)) : Filter(s, S)[j] = s[i]
         /\ \A j \in 1 .. Len(Filter(s, S)) :
              \E i \in 1 .. Len(s) : s[i] \in S /\ Filter(s, S)[j] = s[i]
<1> DEFINE Has(f, k) == /\ \A i \in 1 .. k : s[i] \in S => \E j \in 1 .. Len(f) : f[j] = s[i]
                        /\ \A j \in 1 .. Len(f) : \E i \in 1 .. k : s[i] \in S /\ f[j] = s[i]
           Holds == {k \in Nat : k <= Len(s) => Has(KeptUpTo(s, S)[k], k)}
<1>0. Len(s) \in Nat /\ \A i \in 1 .. Len(s) : s[i] \in A
  OBVIOUS
<1>1. 0 \in Holds
  <2>1. Has(<< >>, 0)
    OBVIOUS
  <2> HIDE DEF Has
  <2> QED BY <1>0, <2>1, KeptNone
<1>2. ASSUME NEW k \in Nat, k \in Holds PROVE k + 1 \in Holds
  <2> DEFINE g == KeptUpTo(s, S)[k]
             x == s[k + 1]
             h == KeptUpTo(s, S)[k + 1]
  <2> SUFFICES ASSUME k + 1 <= Len(s) PROVE Has(h, k + 1)
    OBVIOUS
  <2>1. Has(g, k)
    BY <1>2, <1>0
  <2>2. h = IF x \in S THEN Append(g, x) ELSE g
    BY <1>0, KeptNext
  <2>4. g \in Seq(A) /\ x \in A
    <3>1. g \in Seq(A \cap S)
      BY <1>0, KeptType
    <3> QED BY <3>1, <1>0
  <2> HIDE DEF g, h
  <2>5. CASE x \notin S
    <3>1. h = g
      BY <2>2, <2>5
    <3>2. ASSUME NEW i \in 1 .. k + 1, s[i] \in S PROVE i \in 1 .. k
      BY <3>2, <2>5
    <3>3. 1 .. k \subseteq 1 .. k + 1
      OBVIOUS
    <3> QED BY <3>1, <3>2, <3>3, <2>1
  <2>6. CASE x \in S
    <3>1. h = Append(g, x)
      BY <2>2, <2>6
    <3>2. /\ Len(g) \in Nat /\ Len(h) = Len(g) + 1 /\ h[Len(g) + 1] = x
          /\ \A j \in 1 .. Len(g) : h[j] = g[j]
      BY <3>1, <2>4
    <3>3. ASSUME NEW i \in 1 .. k + 1, s[i] \in S PROVE \E j \in 1 .. Len(h) : h[j] = s[i]
      <4>1. CASE i = k + 1
        BY <4>1, <3>2
      <4>2. CASE i \in 1 .. k
        <5>1. PICK j \in 1 .. Len(g) : g[j] = s[i]
          BY <2>1, <4>2, <3>3
        <5> QED BY <5>1, <3>2
      <4> QED BY <4>1, <4>2
    <3>4. ASSUME NEW j \in 1 .. Len(h) PROVE \E i \in 1 .. k + 1 : s[i] \in S /\ h[j] = s[i]
      <4>1. CASE j = Len(g) + 1
        BY <4>1, <3>2, <2>6
      <4>2. CASE j \in 1 .. Len(g)
        <5>1. PICK i \in 1 .. k : s[i] \in S /\ g[j] = s[i]
          BY <2>1, <4>2
        <5> QED BY <5>1, <4>2, <3>2
      <4> QED BY <4>1, <4>2, <3>2
    <3> QED BY <3>3, <3>4
  <2> QED BY <2>5, <2>6
<1> HIDE DEF Holds
<1>3. Nat \subseteq Holds
  BY <1>1, <1>2, Induction
<1>4. Len(s) \in Holds
  BY <1>0, <1>3
<1>5. Has(KeptUpTo(s, S)[Len(s)], Len(s))
  BY <1>0, <1>4 DEF Holds
<1>6. Filter(s, S) = KeptUpTo(s, S)[Len(s)]
  BY FilterIsKept
<1> QED BY <1>5, <1>6
=============================================================================
