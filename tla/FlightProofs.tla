---------------------------- MODULE FlightProofs ----------------------------
(***************************************************************************)
(* Theorems about the feature extractor on the simulated world, for every  *)
(* scenario, number of peers, threshold and sequence of calls: the gate    *)
(* opens for a collapse of delivery and for a dead neighbour, and does not *)
(* open before something has happened; the fade counters agree; and what   *)
(* scans remember moves only if a jammer sweeps.                           *)
(***************************************************************************)
EXTENDS Flight, FiniteSetTheorems, SequenceTheorems, WellFoundedInduction, TLAPS

\* The arithmetic part of the assumptions on the constants.
LEMMA Naturals ==
    /\ MaxTicks \in Nat /\ IsFiniteSet(Peers) /\ Peers # {}
    /\ Window \in Nat \ {0} /\ WarmTicks \in Nat \ {0}
    /\ ZeroRxTicks \in Nat /\ GateMin \in Nat /\ CusumH \in Nat
  BY RefSimAssumption, PerceptAssumption

-----------------------------------------------------------------------------
(* The ring of percept/ring.py is the list of the last values, for every   *)
(* capacity, also on the push that fills it and on those that wrap.        *)

\* What a ring returns as its window is a sequence, of one value per slot in use.
LEMMA ValuesShape ==
    ASSUME NEW S, NEW cap \in Nat \ {0}, NEW r \in Rings(cap, S), RingOK(r)
    PROVE  /\ Values(r) \in Seq(S)
           /\ Len(Values(r)) = r.n
           /\ r.n < cap => \A i \in 1 .. r.n : Values(r)[i] = r.buf[i - 1]
           /\ r.n = cap => \A i \in 1 .. cap : Values(r)[i] = r.buf[SlotOf(r, i)]
<1>1. /\ r.cap = cap /\ r.n \in 0 .. cap /\ r.head \in 0 .. cap - 1
      /\ r.buf \in [0 .. cap - 1 -> S]
      BY DEF Rings
<1>2. CASE r.n < cap
  <2>1. Values(r) = [i \in 1 .. r.n |-> r.buf[i - 1]] BY <1>1, <1>2 DEF Values
  <2>2. Values(r) \in [1 .. r.n -> S] BY <2>1, <1>1, <1>2
  <2>3. Values(r) \in Seq(S) BY <2>2, <1>1, SeqDef
  <2>4. Len(Values(r)) = r.n BY <2>2, <2>3, <1>1, LenProperties
  <2>5. QED BY <2>1, <2>3, <2>4, <1>1, <1>2
<1>3. CASE r.n = cap
  <2>1. Values(r) = [i \in 1 .. cap |-> r.buf[SlotOf(r, i)]] BY <1>1, <1>3 DEF Values
  <2>2. \A i \in 1 .. cap : SlotOf(r, i) \in 0 .. cap - 1 BY <1>1 DEF SlotOf
  <2>3. Values(r) \in [1 .. cap -> S] BY <2>1, <2>2, <1>1
  <2>4. Values(r) \in Seq(S) BY <2>3, SeqDef
  <2>5. Len(Values(r)) = cap BY <2>3, <2>4, LenProperties
  <2>6. QED BY <2>1, <2>4, <2>5, <1>3
<1>4. QED BY <1>1, <1>2, <1>3

\* A push keeps a ring a ring.
LEMMA PushTyped ==
    ASSUME NEW S, NEW cap \in Nat \ {0}, NEW r \in Rings(cap, S), RingOK(r), NEW v \in S
    PROVE  Push(r, v) \in Rings(cap, S) /\ RingOK(Push(r, v))
<1>1. /\ r.cap = cap /\ r.n \in 0 .. cap /\ r.head \in 0 .. cap - 1
      /\ r.buf \in [0 .. cap - 1 -> S]
      /\ r = [cap |-> r.cap, buf |-> r.buf, n |-> r.n, head |-> r.head]
      BY DEF Rings
<1> DEFINE b == [r.buf EXCEPT ![r.head] = v]
           h == After(r, r.head)
           m == IF r.n < r.cap THEN r.n + 1 ELSE r.n
<1>2. Push(r, v) = [cap |-> cap, buf |-> b, n |-> m, head |-> h] BY <1>1 DEF Push
<1>3. b \in [0 .. cap - 1 -> S] BY <1>1
<1>4. h \in 0 .. cap - 1 BY <1>1 DEF After
<1>5. m \in 0 .. cap BY <1>1
<1>6. m < cap => h = m BY <1>1 DEF RingOK, After
<1> HIDE DEF b, h, m
<1>7. QED BY <1>2, <1>3, <1>4, <1>5, <1>6 DEF Rings, RingOK

\* Where a push leaves each slot, and how the next window is read.
LEMMA PushSlots ==
    ASSUME NEW S, NEW cap \in Nat \ {0}, NEW r \in Rings(cap, S), NEW v \in S
    PROVE  LET q == Push(r, v) IN
           /\ q.head = IF r.head + 1 = cap THEN 0 ELSE r.head + 1
           /\ q.n = IF r.n < cap THEN r.n + 1 ELSE r.n
           /\ q.cap = cap
           /\ \A k \in 0 .. cap - 1 : q.buf[k] = IF k = r.head THEN v ELSE r.buf[k]
BY DEF Push, After, Rings

\* The window of a ring slides: a push appends the value and, once the ring is
\* full, drops the oldest one (percept/ring.py, Ring.push and Ring.values).
THEOREM PushSlides ==
    ASSUME NEW S, NEW cap \in Nat \ {0}, NEW r \in Rings(cap, S), RingOK(r), NEW v \in S
    PROVE  Values(Push(r, v)) = Slide(Values(r), cap, v)
<1> DEFINE q == Push(r, v)
           w == Values(r)
           x == Values(q)
<1>1. q \in Rings(cap, S) /\ RingOK(q) BY PushTyped
<1>2. /\ r.cap = cap /\ r.n \in 0 .. cap /\ r.head \in 0 .. cap - 1
      BY DEF Rings
<1>3. /\ w \in Seq(S) /\ Len(w) = r.n
      /\ r.n < cap => \A i \in 1 .. r.n : w[i] = r.buf[i - 1]
      /\ r.n = cap => \A i \in 1 .. cap : w[i] = r.buf[SlotOf(r, i)]
      BY ValuesShape
<1>4. /\ x \in Seq(S) /\ Len(x) = q.n
      /\ q.n < cap => \A i \in 1 .. q.n : x[i] = q.buf[i - 1]
      /\ q.n = cap => \A i \in 1 .. cap : x[i] = q.buf[SlotOf(q, i)]
      BY <1>1, ValuesShape
<1>5. /\ q.head = IF r.head + 1 = cap THEN 0 ELSE r.head + 1
      /\ q.n = IF r.n < cap THEN r.n + 1 ELSE r.n
      /\ q.cap = cap
      /\ \A k \in 0 .. cap - 1 : q.buf[k] = IF k = r.head THEN v ELSE r.buf[k]
      BY PushSlots
<1> HIDE DEF q, w, x
<1>6. CASE r.n < cap
  <2>1. r.head = r.n BY <1>2, <1>6 DEF RingOK
  <2>2. Slide(w, cap, v) = Append(w, v) BY <1>3, <1>6 DEF Slide
  <2>3. /\ Append(w, v) \in Seq(S) /\ Len(Append(w, v)) = r.n + 1
        /\ \A i \in 1 .. r.n : Append(w, v)[i] = w[i]
        /\ Append(w, v)[r.n + 1] = v
        BY <1>3, AppendProperties
  <2>4. q.n = r.n + 1 BY <1>5, <1>6
  <2>5. ASSUME NEW i \in 1 .. r.n + 1 PROVE x[i] = q.buf[i - 1]
    <3>1. CASE q.n < cap BY <3>1, <1>4, <2>4, <2>5
    <3>2. CASE q.n = cap
      <4>1. q.head = 0 BY <3>2, <1>2, <1>5, <2>1, <2>4
      <4>2. SlotOf(q, i) = i - 1 BY <4>1, <3>2, <1>2, <1>5, <2>4, <2>5 DEF SlotOf
      <4>3. QED BY <4>2, <3>2, <1>4, <2>4, <2>5
    <3>3. QED BY <3>1, <3>2, <1>2, <1>6, <2>4
  <2>6. ASSUME NEW i \in 1 .. r.n + 1 PROVE x[i] = Append(w, v)[i]
    <3>1. i - 1 \in 0 .. cap - 1 BY <2>6, <1>2, <1>6
    <3>2. CASE i = r.n + 1
      <4>1. q.buf[i - 1] = v BY <3>1, <3>2, <1>2, <1>5, <2>1
      <4>2. QED BY <4>1, <3>2, <2>3, <2>5, <2>6
    <3>3. CASE i \in 1 .. r.n
      <4>1. q.buf[i - 1] = r.buf[i - 1] BY <3>1, <3>3, <1>2, <1>5, <2>1
      <4>2. w[i] = r.buf[i - 1] BY <3>3, <1>3, <1>6
      <4>3. QED BY <4>1, <4>2, <3>3, <2>3, <2>5, <2>6
    <3>4. i = r.n + 1 \/ i \in 1 .. r.n BY <2>6, <1>2
    <3>5. QED BY <3>2, <3>3, <3>4
  <2>7. Len(x) = Len(Append(w, v)) BY <2>3, <2>4, <1>4
  <2>8. \A i \in 1 .. Len(x) : x[i] = Append(w, v)[i] BY <2>6, <2>4, <1>4
  <2>9. x = Append(w, v) BY <1>4, <2>3, <2>7, <2>8, SeqEqual
  <2>10. QED BY <2>9, <2>2 DEF x, w, q
<1>7. CASE r.n = cap
  <2> DEFINE rest == Tail(w)
  <2>1. w # <<>> BY <1>3, <1>7
  <2>2. /\ rest \in Seq(S) /\ Len(rest) = cap - 1
        /\ \A i \in 1 .. cap - 1 : rest[i] = w[i + 1]
        BY <1>3, <1>7, <2>1, HeadTailProperties
  <2> HIDE DEF rest
  <2>3. /\ Append(rest, v) \in Seq(S) /\ Len(Append(rest, v)) = cap
        /\ \A i \in 1 .. cap - 1 : Append(rest, v)[i] = rest[i]
        /\ Append(rest, v)[cap] = v
        BY <2>2, AppendProperties
  <2>4. Slide(w, cap, v) = Append(rest, v) BY <1>3, <1>7 DEF Slide, rest
  <2>5. q.n = cap BY <1>5, <1>7
  <2>6. ASSUME NEW i \in 1 .. cap PROVE x[i] = Append(rest, v)[i]
    <3>1. x[i] = q.buf[SlotOf(q, i)] BY <2>5, <2>6, <1>4
    <3>2. CASE i = cap
      <4>1. SlotOf(q, i) = r.head BY <3>2, <1>2, <1>5 DEF SlotOf
      <4>2. q.buf[r.head] = v BY <1>2, <1>5
      <4>3. QED BY <3>1, <3>2, <4>1, <4>2, <2>3
    <3>3. CASE i \in 1 .. cap - 1
      <4>1. /\ SlotOf(q, i) = SlotOf(r, i + 1)
            /\ SlotOf(q, i) # r.head
            /\ SlotOf(q, i) \in 0 .. cap - 1
            BY <3>3, <1>2, <1>5 DEF SlotOf
      <4>2. q.buf[SlotOf(q, i)] = r.buf[SlotOf(r, i + 1)] BY <4>1, <1>5
      <4>3. i + 1 \in 1 .. cap BY <3>3
      <4>4. w[i + 1] = r.buf[SlotOf(r, i + 1)] BY <4>3, <1>3, <1>7
      <4>5. QED BY <3>1, <3>3, <4>2, <4>4, <2>2, <2>3
    <3>4. i = cap \/ i \in 1 .. cap - 1 BY <2>6
    <3>5. QED BY <3>2, <3>3, <3>4
  <2>7. Len(x) = Len(Append(rest, v)) BY <2>3, <2>5, <1>4
  <2>8. \A i \in 1 .. Len(x) : x[i] = Append(rest, v)[i] BY <2>6, <2>5, <1>4
  <2>9. x = Append(rest, v) BY <1>4, <2>3, <2>7, <2>8, SeqEqual
  <2>10. QED BY <2>9, <2>4 DEF x, w, q
<1>8. QED BY <1>6, <1>7, <1>2

-----------------------------------------------------------------------------
(* Means.  The community modules define a sum as a fold, a function that   *)
(* refers to itself: that there is one is shown by the least number of     *)
(* elements for which there would be none.                                 *)

\* The least element of a set of natural numbers, and the greatest of a set of
\* integers with a bound.
LEMMA LeastNatural ==
    ASSUME NEW T \in SUBSET Nat, T # {}
    PROVE  \E n \in T : \A m \in T : n <= m
<1>1. PICK n \in T : \A m \in T : ~ (<<m, n>> \in OpToRel(<, Nat))
      BY WFMin, NatLessThanWellFounded
<1>2. \A m \in T : m < n => <<m, n>> \in OpToRel(<, Nat) BY DEF OpToRel
<1>3. ASSUME NEW m \in T PROVE n <= m
  <2>1. ~ (m < n) BY <1>1, <1>2
  <2>2. QED BY <2>1
<1>4. QED BY <1>3

LEMMA GreatestBounded ==
    ASSUME NEW S \in SUBSET Int, S # {}, NEW b \in Int, \A x \in S : x <= b
    PROVE  \E x \in S : \A y \in S : y <= x
<1> DEFINE T == {n \in Nat : \E x \in S : n = b - x}
<1>1. \A x \in S : b - x \in T OBVIOUS
<1>2. T \in SUBSET Nat /\ T # {} BY <1>1
<1> HIDE DEF T
<1>3. PICK n \in T : \A m \in T : n <= m BY <1>2, LeastNatural
<1>4. PICK x \in S : n = b - x BY DEF T
<1>5. ASSUME NEW y \in S PROVE y <= x
  <2>1. n <= b - y BY <1>1, <1>3
  <2>2. QED BY <1>4, <2>1
<1>6. QED BY <1>5

Pick(s) == CHOOSE x \in s : TRUE

\* One step of the sum of f over s, g being the sums over smaller sets.
SumStep(f, g, s) == IF s = {} THEN 0 ELSE f[Pick(s)] + g[s \ {Pick(s)}]

\* The sum is the value, at the whole domain, of the function that the fold chooses.
LEMMA SumIsFold ==
    ASSUME NEW f, NEW g, g = CHOOSE h : h = [s \in SUBSET DOMAIN f |-> SumStep(f, h, s)]
    PROVE  SumFunction(f) = g[DOMAIN f]
  BY DEF SumFunction, SumFunctionOnSet, FoldFunctionOnSet, MapThenFoldSet, SumStep, Pick

LEMMA PickSmaller ==
    ASSUME NEW D, IsFiniteSet(D), NEW s \in SUBSET D, s # {}
    PROVE  /\ Pick(s) \in s /\ s \ {Pick(s)} \in SUBSET D
           /\ Cardinality(s) \in Nat /\ Cardinality(s) > 0
           /\ Cardinality(s \ {Pick(s)}) = Cardinality(s) - 1
<1>1. Pick(s) \in s BY DEF Pick
<1>2. IsFiniteSet(s) BY FS_Subset
<1>3. Cardinality(s) \in Nat /\ Cardinality(s) # 0 BY <1>2, FS_CardinalityType, FS_EmptySet
<1>4. Cardinality(s \ {Pick(s)}) = Cardinality(s) - 1 BY <1>1, <1>2, FS_RemoveElement
<1>5. QED BY <1>1, <1>3, <1>4

\* There is such a function: the sums over all sets of up to n elements are those of
\* up to n - 1 and one step.
LEMMA SumExists ==
    ASSUME NEW D, IsFiniteSet(D), NEW f \in [D -> Int]
    PROVE  \E g \in [SUBSET D -> Int] : g = [s \in SUBSET D |-> SumStep(f, g, s)]
<1> DEFINE Upto(n) == \E g \in [SUBSET D -> Int] : \A s \in SUBSET D :
                          Cardinality(s) <= n => g[s] = SumStep(f, g, s)
           Bad == {n \in Nat : ~ Upto(n)}
<1>1. ASSUME NEW g \in [SUBSET D -> Int], NEW s \in SUBSET D
      PROVE  SumStep(f, g, s) \in Int
  <2>1. CASE s = {} BY <2>1 DEF SumStep
  <2>2. CASE s # {}
    <3>1. Pick(s) \in D /\ s \ {Pick(s)} \in SUBSET D BY <2>2, PickSmaller
    <3>2. f[Pick(s)] \in Int /\ g[s \ {Pick(s)}] \in Int BY <3>1
    <3>3. QED BY <2>2, <3>2 DEF SumStep
  <2>3. QED BY <2>1, <2>2
<1>2. Upto(0)
  <2> DEFINE g == [s \in SUBSET D |-> 0]
  <2>1. g \in [SUBSET D -> Int] OBVIOUS
  <2>2. ASSUME NEW s \in SUBSET D, Cardinality(s) <= 0 PROVE g[s] = SumStep(f, g, s)
    <3>1. s # {} => Cardinality(s) \in Nat /\ Cardinality(s) > 0 BY PickSmaller
    <3>2. s = {} BY <2>2, <3>1
    <3>3. QED BY <3>2 DEF SumStep
  <2>3. QED BY <2>1, <2>2
<1>3. ASSUME NEW n \in Nat, Upto(n) PROVE Upto(n + 1)
  <2>1. PICK g \in [SUBSET D -> Int] : \A s \in SUBSET D :
            Cardinality(s) <= n => g[s] = SumStep(f, g, s)
        BY <1>3
  <2> DEFINE h == [s \in SUBSET D |-> SumStep(f, g, s)]
  <2>2. h \in [SUBSET D -> Int] BY <1>1
  <2>3. ASSUME NEW s \in SUBSET D, Cardinality(s) <= n + 1 PROVE h[s] = SumStep(f, h, s)
    <3>1. h[s] = SumStep(f, g, s) OBVIOUS
    <3>2. CASE s = {} BY <3>1, <3>2 DEF SumStep
    <3>3. CASE s # {}
      <4> DEFINE r == s \ {Pick(s)}
      <4>1. r \in SUBSET D /\ Cardinality(r) <= n BY <2>3, <3>3, PickSmaller
      <4>2. g[r] = h[r] BY <2>1, <4>1
      <4>3. QED BY <3>1, <3>3, <4>2 DEF SumStep
    <3>4. QED BY <3>2, <3>3
  <2> HIDE DEF h
  <2>4. QED BY <2>2, <2>3
<1> HIDE DEF Upto
<1>4. Bad = {}
  <2> SUFFICES ASSUME Bad # {} PROVE FALSE
      OBVIOUS
  <2>1. PICK n \in Bad : \A m \in Bad : n <= m BY LeastNatural
  <2>2. n \in Nat /\ n # 0 /\ ~ Upto(n) BY <1>2
  <2>3. n - 1 \in Nat /\ ~ (n <= n - 1) BY <2>2
  <2>4. Upto(n - 1) BY <2>1, <2>3
  <2>5. Upto((n - 1) + 1) BY <1>3, <2>3, <2>4
  <2>6. (n - 1) + 1 = n BY <2>2
  <2>7. QED BY <2>2, <2>5, <2>6
<1>5. Cardinality(D) \in Nat BY FS_CardinalityType
<1>6. PICK g \in [SUBSET D -> Int] : \A s \in SUBSET D :
          Cardinality(s) <= Cardinality(D) => g[s] = SumStep(f, g, s)
  <2>1. Upto(Cardinality(D)) BY <1>4, <1>5
  <2>2. QED BY <2>1 DEF Upto
<1>7. \A s \in SUBSET D : g[s] = SumStep(f, g, s) BY <1>6, FS_Subset
<1>8. g = [s \in SUBSET D |-> SumStep(f, g, s)] BY <1>7
<1>9. QED BY <1>8

LEMMA Distributes == \A a, n \in Int : a * (n - 1) = a * n - a /\ a * n \in Int
OBVIOUS

\* A sum of numbers between two bounds is between as many times each.
LEMMA SumBounded ==
    ASSUME NEW D, IsFiniteSet(D), NEW f \in [D -> Int],
           NEW lo \in Int, NEW hi \in Int, \A x \in D : lo <= f[x] /\ f[x] <= hi
    PROVE  /\ SumFunction(f) \in Int
           /\ lo * Cardinality(D) <= SumFunction(f)
           /\ SumFunction(f) <= hi * Cardinality(D)
<1> DEFINE g == CHOOSE h : h = [s \in SUBSET D |-> SumStep(f, h, s)]
           Between(s) == /\ g[s] \in Int
                         /\ lo * Cardinality(s) <= g[s] /\ g[s] <= hi * Cardinality(s)
           Sizes == {n \in Nat : \E s \in SUBSET D : Cardinality(s) = n /\ ~ Between(s)}
<1>1. DOMAIN f = D OBVIOUS
<1>2. SumFunction(f) = g[D] BY <1>1, SumIsFold
<1>3. g = [s \in SUBSET D |-> SumStep(f, g, s)] BY SumExists
<1> HIDE DEF g
<1>4. \A s \in SUBSET D : g[s] = SumStep(f, g, s) BY <1>3
<1>5. ASSUME NEW s \in SUBSET D, s # {} => Between(s \ {Pick(s)}) PROVE Between(s)
  <2>1. CASE s = {}
    <3>1. g[s] = 0 /\ Cardinality(s) = 0 BY <1>4, <2>1, FS_EmptySet DEF SumStep
    <3>2. QED BY <3>1
  <2>2. CASE s # {}
    <3> DEFINE r == s \ {Pick(s)}
    <3>1. /\ Pick(s) \in D /\ Cardinality(s) \in Nat
          /\ Cardinality(r) = Cardinality(s) - 1
          BY <2>2, PickSmaller
    <3>2. g[s] = f[Pick(s)] + g[r] BY <1>4, <2>2 DEF SumStep
    <3>3. /\ g[r] \in Int /\ lo * Cardinality(r) <= g[r] /\ g[r] <= hi * Cardinality(r)
          BY <1>5, <2>2
    <3> HIDE DEF r
    <3>4. lo <= f[Pick(s)] /\ f[Pick(s)] <= hi /\ f[Pick(s)] \in Int BY <3>1
    <3>5. /\ lo * (Cardinality(s) - 1) = lo * Cardinality(s) - lo
          /\ hi * (Cardinality(s) - 1) = hi * Cardinality(s) - hi
          /\ lo * Cardinality(s) \in Int /\ hi * Cardinality(s) \in Int
      <4>1. Cardinality(s) \in Int BY <3>1
      <4>2. QED BY <4>1, Distributes, Zenon
    <3>6. QED BY <3>1, <3>2, <3>3, <3>4, <3>5
  <2>3. QED BY <2>1, <2>2
<1> HIDE DEF Between
<1>6. Sizes = {}
  <2> SUFFICES ASSUME Sizes # {} PROVE FALSE
      OBVIOUS
  <2>1. PICK n \in Sizes : \A m \in Sizes : n <= m BY LeastNatural
  <2>2. PICK s \in SUBSET D : Cardinality(s) = n /\ ~ Between(s) BY <2>1
  <2>3. s # {} /\ ~ Between(s \ {Pick(s)}) BY <1>5, <2>2
  <2>4. /\ n \in Nat /\ n > 0 /\ s \ {Pick(s)} \in SUBSET D
        /\ Cardinality(s \ {Pick(s)}) = n - 1
        BY <2>2, <2>3, PickSmaller
  <2>5. n - 1 \in Nat /\ ~ (n <= n - 1) BY <2>4
  <2>6. n - 1 \in Sizes BY <2>3, <2>4, <2>5
  <2>7. QED BY <2>1, <2>5, <2>6
<1>7. Cardinality(D) \in Nat BY FS_CardinalityType
<1>8. Between(D) BY <1>6, <1>7
<1>9. QED BY <1>2, <1>8 DEF Between

\* In whatever order: the sum over a set is any element's and the sum over the others.
Additive(f, g, D) ==
    /\ g[{}] = 0
    /\ \A s \in SUBSET D : g[s] \in Int /\ \A x \in s : g[s] = f[x] + g[s \ {x}]

LEMMA SumAdditive ==
    ASSUME NEW D, IsFiniteSet(D), NEW f \in [D -> Int]
    PROVE  \E g : Additive(f, g, D) /\ SumFunction(f) = g[D]
<1> DEFINE g == CHOOSE h : h = [s \in SUBSET D |-> SumStep(f, h, s)]
           Both(s) == g[s] \in Int /\ \A x \in s : g[s] = f[x] + g[s \ {x}]
           Sizes == {n \in Nat : \E s \in SUBSET D : Cardinality(s) = n /\ ~ Both(s)}
<1>1. SumFunction(f) = g[D]
  <2>1. DOMAIN f = D OBVIOUS
  <2>2. QED BY <2>1, SumIsFold
<1>2. g = [s \in SUBSET D |-> SumStep(f, g, s)] /\ g \in [SUBSET D -> Int]
  <2>2. g = [s \in SUBSET D |-> SumStep(f, g, s)] BY SumExists
  <2> HIDE DEF g
  <2>3. ASSUME NEW s \in SUBSET D PROVE g[s] \in Int
    <3> DEFINE Bad == {n \in Nat : \E r \in SUBSET D : Cardinality(r) = n /\ g[r] \notin Int}
    <3>1. ASSUME NEW r \in SUBSET D, r # {} => g[r \ {Pick(r)}] \in Int PROVE g[r] \in Int
      <4>1. g[r] = SumStep(f, g, r) BY <2>2
      <4>2. CASE r = {} BY <4>1, <4>2 DEF SumStep
      <4>3. CASE r # {}
        <5>1. Pick(r) \in D BY <4>3, PickSmaller
        <5>2. QED BY <3>1, <4>1, <4>3, <5>1 DEF SumStep
      <4>4. QED BY <4>2, <4>3
    <3>2. Bad = {}
      <4> SUFFICES ASSUME Bad # {} PROVE FALSE
          OBVIOUS
      <4>1. PICK n \in Bad : \A m \in Bad : n <= m BY LeastNatural
      <4>2. PICK r \in SUBSET D : Cardinality(r) = n /\ g[r] \notin Int BY <4>1
      <4>3. r # {} /\ g[r \ {Pick(r)}] \notin Int BY <3>1, <4>2
      <4>4. /\ n \in Nat /\ n > 0 /\ r \ {Pick(r)} \in SUBSET D
            /\ Cardinality(r \ {Pick(r)}) = n - 1
            BY <4>2, <4>3, PickSmaller
      <4>5. n - 1 \in Nat /\ ~ (n <= n - 1) BY <4>4
      <4>6. n - 1 \in Bad BY <4>3, <4>4, <4>5
      <4>7. QED BY <4>1, <4>5, <4>6
    <3>3. IsFiniteSet(s) BY FS_Subset
    <3>4. Cardinality(s) \in Nat BY <3>3, FS_CardinalityType
    <3>5. QED BY <3>2, <3>4
  <2>4. QED BY <2>2, <2>3
<1> HIDE DEF g
<1>3. \A s \in SUBSET D : g[s] = SumStep(f, g, s) /\ g[s] \in Int BY <1>2
<1>4. ASSUME NEW s \in SUBSET D,
             \A r \in SUBSET D : Cardinality(r) + 1 = Cardinality(s) => Both(r)
      PROVE  Both(s)
  <2>1. ASSUME NEW x \in s PROVE g[s] = f[x] + g[s \ {x}]
    <3> DEFINE p == Pick(s)
    <3>1. /\ s # {} /\ p \in s /\ IsFiniteSet(s) /\ Cardinality(s) \in Nat
          /\ x \in D /\ p \in D /\ s \ {p} \in SUBSET D /\ s \ {x} \in SUBSET D
          BY <2>1, PickSmaller, FS_Subset
    <3> HIDE DEF p
    <3>2. g[s] = f[p] + g[s \ {p}] BY <1>3, <3>1 DEF SumStep, p
    <3>3. CASE x = p BY <3>2, <3>3
    <3>4. CASE x # p
      <4>1. Cardinality(s \ {p}) = Cardinality(s) - 1 /\ Cardinality(s \ {x}) = Cardinality(s) - 1
            BY <3>1, <2>1, FS_RemoveElement
      <4>2. /\ Cardinality(s \ {p}) + 1 = Cardinality(s)
            /\ Cardinality(s \ {x}) + 1 = Cardinality(s)
            BY <3>1, <4>1
      <4>3. Both(s \ {p}) /\ Both(s \ {x}) BY <1>4, <3>1, <4>2
      <4>4. x \in s \ {p} /\ p \in s \ {x} BY <2>1, <3>1, <3>4
      <4>5. g[s \ {p}] = f[x] + g[(s \ {p}) \ {x}] /\ g[s \ {x}] = f[p] + g[(s \ {x}) \ {p}]
            BY <4>3, <4>4
      <4>6. (s \ {p}) \ {x} = (s \ {x}) \ {p} OBVIOUS
      <4>7. f[x] \in Int /\ f[p] \in Int /\ g[(s \ {x}) \ {p}] \in Int BY <1>3, <3>1
      <4>8. \A a, b, c \in Int : a + (b + c) = b + (a + c) OBVIOUS
      <4>9. g[s] = f[p] + (f[x] + g[(s \ {x}) \ {p}]) BY <3>2, <4>5, <4>6, Zenon
      <4>10. g[s] = f[x] + (f[p] + g[(s \ {x}) \ {p}]) BY <4>7, <4>8, <4>9, Zenon
      <4>11. QED BY <4>5, <4>10, Zenon
    <3>5. QED BY <3>3, <3>4
  <2>2. QED BY <1>3, <2>1
<1>5. Sizes = {}
  <2> SUFFICES ASSUME Sizes # {} PROVE FALSE
      OBVIOUS
  <2>1. PICK n \in Sizes : \A m \in Sizes : n <= m BY LeastNatural
  <2>2. PICK s \in SUBSET D : Cardinality(s) = n /\ ~ Both(s) BY <2>1
  <2> HIDE DEF Both
  <2>3. PICK r \in SUBSET D : Cardinality(r) + 1 = Cardinality(s) /\ ~ Both(r) BY <1>4, <2>2
  <2>4. Cardinality(r) \in Nat
    <3>1. IsFiniteSet(r) BY FS_Subset
    <3>2. QED BY <3>1, FS_CardinalityType
  <2>5. Cardinality(r) \in Sizes BY <2>3, <2>4
  <2>6. n <= Cardinality(r) /\ n = Cardinality(r) + 1 BY <2>1, <2>2, <2>3, <2>5
  <2>7. QED BY <2>4, <2>6
<1>6. \A s \in SUBSET D : Both(s)
  <2>1. ASSUME NEW s \in SUBSET D PROVE Cardinality(s) \in Nat
    <3>1. IsFiniteSet(s) BY FS_Subset
    <3>2. QED BY <3>1, FS_CardinalityType
  <2> HIDE DEF Both
  <2>2. QED BY <1>5, <2>1
<1>7. g[{}] = 0 BY <1>3 DEF SumStep
<1>8. QED BY <1>1, <1>6, <1>7 DEF Additive

TakesOut(f, g, D, s, x) == Additive(f, g, D) /\ s \subseteq D /\ x \in s
Parted(f, g, s, x, r) == r = s \ {x} /\ g[s] = f[x] + g[r]

LEMMA AdditiveStep ==
    ASSUME NEW f, NEW g, NEW D, NEW s, NEW x, TakesOut(f, g, D, s, x)
    PROVE  Parted(f, g, s, x, s \ {x})
BY DEF Additive, TakesOut, Parted

LEMMA IntervalEnd ==
    ASSUME NEW a \in Int, NEW b \in Int, a <= b
    PROVE  b \in a .. b /\ a .. b - 1 = (a .. b) \ {b}
OBVIOUS

\* Sums over two stretches that hold the same numbers, one of them shifted.
Shifted(f, n, e, m, c) ==
    /\ n \in Nat /\ m \in Nat /\ c \in Nat /\ c + m <= n
    /\ f \in [1 .. n -> Int] /\ e \in [1 .. m -> Int]
    /\ \A i \in 1 .. m : e[i] = f[i + c]

LEMMA SumShift ==
    ASSUME NEW n, NEW m, NEW c, NEW f, NEW e, NEW g, NEW h,
           Shifted(f, n, e, m, c), Additive(f, g, 1 .. n), Additive(e, h, 1 .. m),
           NEW first, first = 1 + c, NEW last, last = m + c
    PROVE  h[1 .. m] = g[first .. last]
<1>0. Shifted(f, n, e, m, c) OBVIOUS
<1> n \in Nat /\ m \in Nat /\ c \in Nat /\ c + m <= n BY <1>0 DEF Shifted
<1> DEFINE Same(k) == h[1 .. k] = g[1 + c .. k + c]
           Bad == {k \in Nat : k <= m /\ ~ Same(k)}
<1>1. Same(0)
  <2>1. 1 .. 0 = {} /\ 1 + c .. 0 + c = {} OBVIOUS
  <2>2. QED BY <2>1 DEF Additive
<1>2. ASSUME NEW k \in Nat, k + 1 <= m, Same(k) PROVE Same(k + 1)
  <2>1. /\ 1 .. k + 1 \in SUBSET (1 .. m) /\ k + 1 \in 1 .. k + 1
        /\ 1 .. k = (1 .. k + 1) \ {k + 1}
        BY <1>2
  <2>2. /\ 1 + c .. (k + 1) + c \in SUBSET (1 .. n)
        /\ (k + 1) + c \in 1 + c .. (k + 1) + c
        /\ 1 + c .. k + c = (1 + c .. (k + 1) + c) \ {(k + 1) + c}
    <3> DEFINE b == (k + 1) + c
               a == 1 + c
    <3>1. a \in Int /\ b \in Int /\ a <= b /\ 1 <= a /\ b <= n /\ k + c = b - 1 BY <1>2
    <3> HIDE DEF a, b
    <3>2. b \in a .. b /\ a .. b - 1 = (a .. b) \ {b} BY <3>1, IntervalEnd
    <3>3. a .. b \in SUBSET (1 .. n) BY <3>1
    <3>4. QED BY <3>1, <3>2, <3>3 DEF a, b
  <2>3. h[1 .. k + 1] = e[k + 1] + h[1 .. k]
    <3>0. TakesOut(e, h, 1 .. m, 1 .. k + 1, k + 1) BY <2>1 DEF TakesOut
    <3>1. Parted(e, h, 1 .. k + 1, k + 1, (1 .. k + 1) \ {k + 1}) BY <3>0, AdditiveStep, Zenon
    <3>2. QED BY <2>1, <3>1 DEF Parted
  <2>4. g[1 + c .. (k + 1) + c] = f[(k + 1) + c] + g[1 + c .. k + c]
    <3> DEFINE a == 1 + c .. (k + 1) + c
               b == (k + 1) + c
    <3>1. a \subseteq 1 .. n /\ b \in a /\ 1 + c .. k + c = a \ {b} BY <2>2
    <3> HIDE DEF a, b
    <3>0. TakesOut(f, g, 1 .. n, a, b) BY <3>1 DEF TakesOut
    <3>2. Parted(f, g, a, b, a \ {b}) BY <3>0, AdditiveStep, Zenon
    <3>3. g[a] = f[b] + g[1 + c .. k + c] BY <3>1, <3>2 DEF Parted
    <3>4. QED BY <3>3 DEF a, b
  <2>5. e[k + 1] = f[(k + 1) + c]
    <3>1. k + 1 \in 1 .. m BY <1>2
    <3>2. QED BY <1>0, <3>1 DEF Shifted
  <2>6. QED BY <1>2, <2>3, <2>4, <2>5
<1> HIDE DEF Same
<1>3. Bad = {}
  <2> SUFFICES ASSUME Bad # {} PROVE FALSE
      OBVIOUS
  <2>1. PICK k \in Bad : \A j \in Bad : k <= j BY LeastNatural
  <2>2. k \in Nat /\ k # 0 /\ k <= m /\ ~ Same(k) BY <1>1, <2>1
  <2>3. k - 1 \in Nat /\ ~ (k <= k - 1) /\ k - 1 <= m /\ (k - 1) + 1 = k BY <2>2
  <2>4. Same(k - 1) BY <2>1, <2>3
  <2>5. Same((k - 1) + 1) BY <1>2, <2>2, <2>3, <2>4
  <2>6. QED BY <2>2, <2>3, <2>5
<1>4. QED BY <1>3 DEF Same

\* A sum of a sequence grows by what is appended, and shrinks by its head.
LEMMA SumOfSequence ==
    ASSUME NEW s \in Seq(Nat), NEW v \in Nat
    PROVE  /\ SumFunction(s) \in Int
           /\ SumFunction(Append(s, v)) = SumFunction(s) + v
           /\ s # <<>> => SumFunction(s) = s[1] + SumFunction(Tail(s))
<1> DEFINE n == Len(s)
<1>1. n \in Nat /\ s \in [1 .. n -> Nat] BY LenProperties
<1>2. /\ Append(s, v) \in [1 .. n + 1 -> Nat]
      /\ Append(s, v)[n + 1] = v /\ \A i \in 1 .. n : Append(s, v)[i] = s[i]
  <2>1. /\ Append(s, v) \in Seq(Nat) /\ Len(Append(s, v)) = n + 1
        /\ Append(s, v)[n + 1] = v /\ \A i \in 1 .. n : Append(s, v)[i] = s[i]
        BY AppendProperties
  <2>2. QED BY <2>1, LenProperties
<1> HIDE DEF n
<1>3. PICK g : Additive(s, g, 1 .. n) /\ SumFunction(s) = g[1 .. n]
  <2>1. IsFiniteSet(1 .. n) BY <1>1, FS_Interval
  <2>2. s \in [1 .. n -> Int] BY <1>1
  <2>3. QED BY <2>1, <2>2, SumAdditive, Zenon
<1>4. SumFunction(s) \in Int BY <1>3 DEF Additive
<1>5. SumFunction(Append(s, v)) = SumFunction(s) + v
  <2> DEFINE a == Append(s, v)
  <2>0. a \in [1 .. n + 1 -> Nat] /\ a[n + 1] = v /\ \A i \in 1 .. n : a[i] = s[i] BY <1>2
  <2> HIDE DEF a
  <2>1. PICK h : Additive(a, h, 1 .. n + 1) /\ SumFunction(a) = h[1 .. n + 1]
    <3>1. IsFiniteSet(1 .. n + 1) BY <1>1, FS_Interval
    <3>2. a \in [1 .. n + 1 -> Int] BY <2>0
    <3>3. QED BY <3>1, <3>2, SumAdditive, Zenon
  <2>2. /\ n + 1 \in 1 .. n + 1 /\ 1 .. n = (1 .. n + 1) \ {n + 1}
        /\ 1 .. n + 1 \in SUBSET (1 .. n + 1)
        BY <1>1
  <2>3. h[1 .. n + 1] = a[n + 1] + h[1 .. n]
    <3>0. TakesOut(a, h, 1 .. n + 1, 1 .. n + 1, n + 1) BY <2>1, <2>2 DEF TakesOut
    <3>1. Parted(a, h, 1 .. n + 1, n + 1, (1 .. n + 1) \ {n + 1})
          BY <3>0, AdditiveStep, Zenon
    <3>2. QED BY <2>2, <3>1 DEF Parted
  <2>4. g[1 .. n] = h[1 .. n]
    <3>1. Shifted(a, n + 1, s, n, 0) BY <1>1, <2>0 DEF Shifted
    <3>2. 1 = 1 + 0 /\ n = n + 0 BY <1>1
    <3>3. QED BY <1>3, <2>1, <3>1, <3>2, SumShift
  <2>6. QED BY <1>3, <1>4, <2>0, <2>1, <2>3, <2>4 DEF a
<1>6. ASSUME s # <<>> PROVE SumFunction(s) = s[1] + SumFunction(Tail(s))
  <2> DEFINE x == Tail(s)
  <2>0. /\ n >= 1 /\ n - 1 \in Nat
        /\ x \in [1 .. n - 1 -> Nat] /\ \A i \in 1 .. n - 1 : x[i] = s[i + 1]
    <3>1. n # 0 BY <1>6, EmptySeq DEF n
    <3>2. x \in Seq(Nat) /\ Len(x) = n - 1 /\ \A i \in 1 .. n - 1 : x[i] = s[i + 1]
          BY <1>6, HeadTailProperties DEF n
    <3> HIDE DEF x
    <3>3. x \in [1 .. n - 1 -> Nat] BY <3>2, LenProperties
    <3>4. QED BY <1>1, <3>1, <3>2, <3>3
  <2> HIDE DEF x
  <2>1. PICK h : Additive(x, h, 1 .. n - 1) /\ SumFunction(x) = h[1 .. n - 1]
    <3>1. IsFiniteSet(1 .. n - 1) BY <1>1, FS_Interval
    <3>2. x \in [1 .. n - 1 -> Int] BY <2>0
    <3>3. QED BY <3>1, <3>2, SumAdditive, Zenon
  <2>2. /\ 1 \in 1 .. n /\ 2 .. n = (1 .. n) \ {1}
        /\ 1 .. n \in SUBSET (1 .. n)
        BY <1>1, <2>0
  <2>3. g[1 .. n] = s[1] + g[2 .. n]
    <3>0. TakesOut(s, g, 1 .. n, 1 .. n, 1) BY <1>3, <2>2 DEF TakesOut
    <3>1. Parted(s, g, 1 .. n, 1, (1 .. n) \ {1}) BY <3>0, AdditiveStep, Zenon
    <3>2. QED BY <2>2, <3>1 DEF Parted
  <2>4. h[1 .. n - 1] = g[2 .. n]
    <3>1. Shifted(s, n, x, n - 1, 1) BY <1>1, <2>0 DEF Shifted
    <3>2. 2 = 1 + 1 /\ n = (n - 1) + 1 BY <1>1
    <3>3. QED BY <1>3, <2>1, <3>1, <3>2, SumShift
  <2>5. QED BY <1>3, <2>1, <2>3, <2>4 DEF x
<1>7. QED BY <1>4, <1>5, <1>6

LEMMA QuotientBetween ==
    ASSUME NEW a \in Int, NEW n \in Nat \ {0}, NEW lo \in Int, NEW hi \in Int,
           lo * n <= a, a <= hi * n
    PROVE  a \div n \in lo .. hi
<1> DEFINE q == a \div n
<1>1. q \in Int /\ a % n \in 0 .. n - 1 /\ a = n * q + (a % n)
      OBVIOUS
<1> HIDE DEF q
<1>2. ASSUME q < lo PROVE FALSE
  <2>1. PICK k \in Nat : lo = q + 1 + k BY <1>1, <1>2, lo = q + 1 + (lo - q - 1), lo - q - 1 \in Nat
  <2>2. lo * n = n * q + n + n * k BY <1>1, <2>1
  <2>3. n * k \in Nat /\ n * q \in Int BY <1>1
  <2>4. QED BY <1>1, <2>2, <2>3
<1>3. ASSUME q > hi PROVE FALSE
  <2>1. PICK k \in Nat : q = hi + 1 + k BY <1>1, <1>3, q = hi + 1 + (q - hi - 1), q - hi - 1 \in Nat
  <2>2. n * q = hi * n + n + n * k BY <1>1, <2>1
  <2>3. n * k \in Nat /\ hi * n \in Int OBVIOUS
  <2>4. QED BY <1>1, <2>2, <2>3
<1>4. QED BY <1>1, <1>2, <1>3 DEF q

\* A mean of numbers between two bounds is between them.
LEMMA MeanBetween ==
    ASSUME NEW D, IsFiniteSet(D), D # {}, NEW f \in [D -> Int],
           NEW lo \in Int, NEW hi \in Int, \A x \in D : lo <= f[x] /\ f[x] <= hi
    PROVE  Mean(f) \in lo .. hi
<1>1. Cardinality(D) \in Nat \ {0} BY FS_CardinalityType, FS_EmptySet
<1>2. /\ SumFunction(f) \in Int
      /\ lo * Cardinality(D) <= SumFunction(f)
      /\ SumFunction(f) <= hi * Cardinality(D)
      BY SumBounded
<1>3. DOMAIN f = D OBVIOUS
<1>4. QED BY <1>1, <1>2, <1>3, QuotientBetween DEF Mean

-----------------------------------------------------------------------------
(* The events of a scenario are applied in order, each at its time.        *)

Events == sc.events

WorldInv ==
    /\ sc \in Scenarios /\ t \in Nat /\ ticks = t
    /\ neighbors \subseteq Peers /\ neighbors # {}
    /\ alive \in [Peers -> BOOLEAN] /\ hbAge \in [Peers -> Nat]
    /\ load \in Nat
    /\ evI \in 1 .. Len(Events) + 1
    /\ \A i \in 1 .. evI - 1 : Events[i].t < t
    /\ \A i \in evI .. Len(Events) : t <= Events[i].t

LEMMA ScenarioFacts ==
    ASSUME sc \in Scenarios
    PROVE  /\ Len(Events) \in Nat /\ DOMAIN Events = 1 .. Len(Events)
           /\ \A i \in 1 .. Len(Events) : Events[i].t \in Nat
           /\ \A i \in 1 .. Len(Events) :
                 Events[i].kind = "load_spike" => Events[i].factor \in Nat
           /\ \A i, j \in 1 .. Len(Events) : i <= j => Events[i].t <= Events[j].t
           /\ sc.fadesTo \subseteq 0 .. 100 /\ sc.mission \in Nat
BY RefSimAssumption DEF ScenarioOK, Events

\* The events that are due are the next ones, up to one of them.
LEMMA DueIsNext ==
    ASSUME WorldInv
    PROVE  \E k \in evI - 1 .. Len(Events) :
              Due = evI .. k /\ evI + Cardinality(Due) = k + 1
<1>1. /\ sc \in Scenarios /\ t \in Nat /\ evI \in 1 .. Len(Events) + 1
      /\ Len(Events) \in Nat
      BY ScenarioFacts DEF WorldInv
<1>2. Due = {i \in evI .. Len(Events) : Events[i].t <= t} BY DEF Due, Events
<1>3. \E k \in evI - 1 .. Len(Events) : Due = evI .. k
  <2>1. CASE Due = {}
    <3>1. Due = evI .. (evI - 1) /\ evI - 1 \in evI - 1 .. Len(Events) BY <1>1, <2>1
    <3>2. QED BY <3>1
  <2>2. CASE Due # {}
    <3>1. Due \in SUBSET Int /\ \A i \in Due : i <= Len(Events) BY <1>1, <1>2
    <3> Len(Events) \in Int BY <1>1
    <3>2. PICK k \in Due : \A i \in Due : i <= k BY <2>2, <3>1, GreatestBounded, Zenon
    <3>3. k \in evI .. Len(Events) /\ Events[k].t <= t BY <1>2
    <3>4. ASSUME NEW i \in evI .. k PROVE i \in Due
      <4>1. i \in evI .. Len(Events) /\ i \in 1 .. Len(Events) /\ k \in 1 .. Len(Events)
            BY <1>1, <3>3
      <4>2. /\ Events[i].t <= Events[k].t /\ Events[i].t \in Nat /\ Events[k].t \in Nat
            BY <1>1, <4>1, ScenarioFacts
      <4>3. Events[i].t <= t BY <1>1, <3>3, <4>2
      <4>4. QED BY <1>2, <4>1, <4>3
    <3>5. Due = evI .. k BY <1>1, <1>2, <3>2, <3>3, <3>4
    <3>6. QED BY <1>1, <3>3, <3>5
  <2>3. QED BY <2>1, <2>2
<1>4. PICK k \in evI - 1 .. Len(Events) : Due = evI .. k BY <1>3
<1>5. Cardinality(evI .. k) = IF evI > k THEN 0 ELSE k - evI + 1
      BY <1>1, <1>4, FS_Interval
<1>6. evI + Cardinality(Due) = k + 1 BY <1>1, <1>4, <1>5
<1>7. QED BY <1>4, <1>6

\* The last due event of some kinds is the last one.
LEMMA LastDueIsLast ==
    ASSUME WorldInv, NEW kinds, NEW target, NEW i, i = LastDue(kinds, target)
    PROVE  /\ \/ i = NotYet
              \/ i \in Due /\ Events[i].kind \in kinds /\ Events[i].target = target
           /\ \A j \in Due : Events[j].kind \in kinds /\ Events[j].target = target
                               => i # NotYet /\ j <= i
<1> DEFINE S == {NotYet} \cup {j \in Due : sc.events[j].kind \in kinds
                                           /\ sc.events[j].target = target}
<1>1. PICK k \in evI - 1 .. Len(Events) : Due = evI .. k BY DueIsNext
<1>2. evI \in Nat /\ evI >= 1 /\ Len(Events) \in Nat BY ScenarioFacts DEF WorldInv
<1>3. S \in SUBSET Int /\ S # {} BY <1>1, <1>2 DEF NotYet
<1>4. \A x \in S : x <= Len(Events) BY <1>1, <1>2 DEF NotYet
<1> HIDE DEF S
<1> Len(Events) \in Int BY <1>2
<1>5. \E x \in S : \A y \in S : y <= x BY <1>3, <1>4, GreatestBounded, Zenon
<1>6. i \in S /\ \A y \in S : y <= i BY <1>5 DEF LastDue, Highest, S
<1>7. \A j \in Due : j >= 1 BY <1>1, <1>2
<1>8. QED BY <1>3, <1>6, <1>7 DEF NotYet, Events, S

\* What the events of a step do to the cursor, the peers and the load.
LEMMA EventsKeep ==
    ASSUME WorldInv, ApplyEvents
    PROVE  /\ evI' \in evI .. Len(Events) + 1 /\ Due = evI .. evI' - 1
           /\ alive' \in [Peers -> BOOLEAN] /\ load' \in Nat
<1>1. PICK k \in evI - 1 .. Len(Events) : Due = evI .. k /\ evI + Cardinality(Due) = k + 1
      BY DueIsNext
<1>2. evI \in 1 .. Len(Events) + 1 /\ Len(Events) \in Nat /\ sc \in Scenarios
      BY ScenarioFacts DEF WorldInv
<1>3. evI' = k + 1 BY <1>1 DEF ApplyEvents
<1>4. evI' \in evI .. Len(Events) + 1 /\ Due = evI .. evI' - 1 BY <1>1, <1>2, <1>3
<1>5. alive' \in [Peers -> BOOLEAN]
  <2>1. \A p \in Peers : alive[p] \in BOOLEAN BY DEF WorldInv
  <2>2. \A p \in Peers : Switched(alive[p], p, "node_up", "node_down") \in BOOLEAN
        BY <2>1 DEF Switched
  <2>3. QED BY <2>2 DEF ApplyEvents
<1>6. load' \in Nat
  <2> DEFINE spike == LastDue({"load_spike"}, "")
  <2>1. load' = IF spike = NotYet THEN load ELSE 2 * Events[spike].factor
        BY DEF ApplyEvents, Events
  <2>0. spike = LastDue({"load_spike"}, "") OBVIOUS
  <2> HIDE DEF spike
  <2>2. spike = NotYet \/ (spike \in Due /\ Events[spike].kind = "load_spike")
    <3>1. spike = NotYet \/ (spike \in Due /\ Events[spike].kind \in {"load_spike"}
                              /\ Events[spike].target = "")
          BY <2>0, LastDueIsLast, Zenon
    <3>2. QED BY <3>1
  <2>3. load \in Nat BY DEF WorldInv
  <2>4. CASE spike = NotYet BY <2>1, <2>3, <2>4
  <2>5. CASE spike # NotYet
    <3>1. spike \in 1 .. Len(Events) BY <1>1, <1>2, <2>2, <2>5
    <3>2. Events[spike].factor \in Nat BY <1>2, <2>2, <2>5, <3>1, ScenarioFacts
    <3>3. QED BY <2>1, <2>5, <3>2
  <2>6. QED BY <2>4, <2>5
<1>7. QED BY <1>4, <1>5, <1>6

\* Delivery is a percentage, also under collisions and over the second radio.
LEMMA DeliveredIsPercent ==
    ASSUME load' \in Nat, NEW s \in 0 .. 100
    PROVE  Delivered(s) \in 0 .. 100
<1>1. ASSUME NEW n \in Nat
      PROVE  /\ Smaller(95, 3 * n) \in 0 .. 95
             /\ Smaller(90, (Smaller(95, 3 * n) * 8) \div 5) \in 0 .. 95
  <2>1. Smaller(95, 3 * n) \in 0 .. 95 BY DEF Smaller
  <2>2. \A m \in 0 .. 95 : (m * 8) \div 5 \in 0 .. 152
    <3>1. ASSUME NEW m \in 0 .. 95 PROVE (m * 8) \div 5 \in 0 .. 152
      <4>1. m * 8 \in Int /\ 0 * 5 <= m * 8 /\ m * 8 <= 152 * 5 OBVIOUS
      <4>2. 5 \in Nat \ {0} /\ 0 \in Int /\ 152 \in Int OBVIOUS
      <4>3. QED BY <4>1, <4>2, QuotientBetween, Zenon
    <3>2. QED BY <3>1
  <2>3. (Smaller(95, 3 * n) * 8) \div 5 \in 0 .. 152 BY <2>1, <2>2
  <2>4. QED BY <2>1, <2>3 DEF Smaller
<1>2. Collisions \in 0 .. 95
  <2>1. Collisions \in {0, Smaller(95, 3 * load'), Smaller(90, (Smaller(95, 3 * load') * 8) \div 5)}
        BY DEF Collisions
  <2>2. QED BY <1>1, <2>1
<1>3. s * (100 - Collisions) \in 0 .. 10000
  <2>1. \A c \in 0 .. 95 : s * (100 - c) \in Int
                           /\ 0 <= s * (100 - c) /\ s * (100 - c) <= 100 * (100 - c)
        OBVIOUS
  <2>2. s * (100 - Collisions) \in Int /\ 0 <= s * (100 - Collisions)
        /\ s * (100 - Collisions) <= 100 * (100 - Collisions)
        BY <1>2, <2>1
  <2>3. QED BY <1>2, <2>2
<1>4. (s * (100 - Collisions)) \div 100 \in 0 .. 100
  <2> DEFINE m == s * (100 - Collisions)
  <2>0. m \in 0 .. 10000 BY <1>3
  <2> HIDE DEF m
  <2>1. m \in Int /\ 0 * 100 <= m /\ m <= 100 * 100 BY <2>0
  <2>2. 100 \in Nat \ {0} /\ 0 \in Int /\ 100 \in Int OBVIOUS
  <2>3. m \div 100 \in 0 .. 100 BY <2>1, <2>2, QuotientBetween, Zenon
  <2>4. QED BY <2>3 DEF m
<1>5. LoraFloor \in 0 .. 100 BY DEF LoraFloor
<1>6. QED BY <1>4, <1>5 DEF Delivered, Larger

\* What a step finds on the links: a percentage each way, and a heartbeat that is
\* one step older where nothing was heard, which is everywhere a peer is dead.
LEMMA LinksFound ==
    ASSUME WorldInv, ApplyEvents, NEW links \in Links
    PROVE  /\ DOMAIN links = neighbors
           /\ \A p \in neighbors :
                 /\ links[p].pdr \in 0 .. 100 /\ links[p].retry \in Int /\ links[p].hb \in Nat
                 /\ ~ alive'[p] => links[p].hb = hbAge[p] + 1
<1>0. load' \in Nat BY EventsKeep
<1>1. /\ sc \in Scenarios /\ neighbors \subseteq Peers /\ hbAge \in [Peers -> Nat]
      BY DEF WorldInv
<1>2. DOMAIN links = neighbors /\ \A p \in neighbors : links[p] \in LinkStates(p)
      BY DEF Links
<1>3. Sinr \subseteq 0 .. 100
  <2>1. Sinr \in {{0}, {60}, sc.fadesTo, {98, 100}, {100}} BY DEF Sinr
  <2>2. sc.fadesTo \subseteq 0 .. 100 BY <1>1, ScenarioFacts
  <2>3. {0} \subseteq 0 .. 100 /\ {60} \subseteq 0 .. 100 /\ {98, 100} \subseteq 0 .. 100
        OBVIOUS
  <2>4. {100} \subseteq 0 .. 100 OBVIOUS
  <2>5. QED BY <2>1, <2>2, <2>3, <2>4
<1>4. ASSUME NEW p \in neighbors
      PROVE  /\ links[p].pdr \in 0 .. 100 /\ links[p].retry \in Int /\ links[p].hb \in Nat
             /\ ~ alive'[p] => links[p].hb = hbAge[p] + 1
  <2>1. hbAge[p] \in Nat /\ hbAge[p] + 1 \in Nat BY <1>1
  <2>2. CASE ~ alive'[p]
    <3>1. links[p] = [pdr |-> 0, retry |-> 100, hb |-> hbAge[p] + 1]
          BY <1>2, <2>2 DEF LinkStates, DeadLink
    <3>2. QED BY <2>1, <3>1
  <2>3. CASE alive'[p]
    <3>1. PICK s \in Sinr, got \in BOOLEAN :
             links[p] = [pdr |-> Delivered(s),
                         retry |-> Smaller(100, IF Collisions > 0
                                                THEN ((100 - Delivered(s)) * 13) \div 10
                                                ELSE 100 - Delivered(s)),
                         hb |-> IF got THEN 0 ELSE hbAge[p] + 1]
      <4>1. links[p] \in LinkStates(p) BY <1>2
      <4>2. \A d : Hears(d) \subseteq BOOLEAN BY DEF Hears
      <4>3. QED BY <2>3, <4>1, <4>2 DEF LinkStates
    <3>2. Delivered(s) \in 0 .. 100 BY <1>0, <1>3, DeliveredIsPercent
    <3>3. ((100 - Delivered(s)) * 13) \div 10 \in Int BY <3>2
    <3>4. QED BY <2>1, <2>3, <3>1, <3>2, <3>3 DEF Smaller
  <2>4. QED BY <2>2, <2>3
<1>5. QED BY <1>2, <1>4

\* A call changes no clock, no cursor and no peer, and drops some neighbours at most.
LEMMA StillKeeps ==
    ASSUME NEW changed, Still(changed)
    PROVE  /\ neighbors' = IF "neighbors" \in DOMAIN changed THEN changed["neighbors"]
                                                            ELSE neighbors
           /\ load' = IF "load" \in DOMAIN changed THEN changed["load"] ELSE load
           /\ UNCHANGED <<sc, t, alive, jammerOn, reactiveUntil, faded, evI, hbAge>>
BY DEF Still

LEMMA CallKeeps ==
    ASSUME WorldInv, Call
    PROVE  /\ UNCHANGED <<sc, t, alive, jammerOn, reactiveUntil, faded, evI, hbAge>>
           /\ UNCHANGED <<ticks, base, noiseBase, cusum, onset, reason, pdrHist, lossHist,
                          shadow, fades, outage>>
           /\ neighbors' \subseteq neighbors /\ neighbors' # {} /\ load' \in Nat
<1>1. load \in Nat /\ neighbors # {} BY DEF WorldInv
<1>2. CASE UNCHANGED <<world, perceptVars, made>> BY <1>1, <1>2 DEF world, perceptVars
<1>3. CASE SpectrumScan BY <1>1, <1>3 DEF SpectrumScan, world
<1>4. CASE Actuate /\ UNCHANGED perceptVars
  <2>1. UNCHANGED <<ticks, base, noiseBase, cusum, onset, reason, pdrHist, lossHist,
                    shadow, fades, outage>>
        BY <1>4 DEF perceptVars
  <2>2. ASSUME NEW changed, Still(changed),
               "neighbors" \notin DOMAIN changed,
               "load" \in DOMAIN changed => changed["load"] \in Nat
        PROVE  /\ UNCHANGED <<sc, t, alive, jammerOn, reactiveUntil, faded, evI, hbAge>>
               /\ neighbors' \subseteq neighbors /\ neighbors' # {} /\ load' \in Nat
        BY <1>1, <2>2, StillKeeps
  <2>3. CASE HopChannel BY <2>2, <2>3, <2>1 DEF HopChannel
  <2>4. CASE SetTxPower BY <2>2, <2>4, <2>1 DEF SetTxPower
  <2>5. CASE ChangeTdmaSlot
    <3>1. Larger(NominalLoad, load \div 4) \in Nat BY <1>1 DEF Larger, NominalLoad
    <3>2. QED BY <2>2, <2>5, <2>1, <3>1 DEF ChangeTdmaSlot
  <2>6. CASE LoadTest
    <3>1. Larger(NominalLoad, load \div 2) \in Nat BY <1>1 DEF Larger, NominalLoad
    <3>2. QED BY <2>2, <2>6, <2>1, <3>1 DEF LoadTest
  <2>7. CASE NeighborProbe BY <2>2, <2>7, <2>1 DEF NeighborProbe
  <2>8. CASE FallbackToLora BY <2>2, <2>8, <2>1 DEF FallbackToLora
  <2>9. CASE Reroute
    <3> DEFINE live == {p \in neighbors : alive[p]}
    <3>1. Still([neighbors |-> IF live = {} THEN neighbors ELSE live]) BY <2>9 DEF Reroute
    <3>2. neighbors' = (IF live = {} THEN neighbors ELSE live) /\ load' = load
          /\ UNCHANGED <<sc, t, alive, jammerOn, reactiveUntil, faded, evI, hbAge>>
          BY <3>1, StillKeeps
    <3>3. QED BY <1>1, <3>2, <2>1
  <2>10. CASE MoveAway BY <2>2, <2>10, <2>1 DEF MoveAway
  <2>11. CASE DeclareLinkLost BY <2>2, <2>11, <2>1 DEF DeclareLinkLost
  <2>12. QED BY <1>4, <2>3, <2>4, <2>5, <2>6, <2>7, <2>8, <2>9, <2>10, <2>11 DEF Actuate
<1>5. QED BY <1>2, <1>3, <1>4 DEF Call

\* The links of a step, and what it does to the clocks and the peers.
LEMMA TickDoes ==
    ASSUME WorldInv, Tick
    PROVE  /\ ApplyEvents /\ t' = t + 1 /\ ticks' = ticks + 1
           /\ UNCHANGED <<sc, neighbors>>
           /\ evI' \in evI .. Len(Events) + 1 /\ Due = evI .. evI' - 1
           /\ alive' \in [Peers -> BOOLEAN] /\ hbAge' \in [Peers -> Nat] /\ load' \in Nat
           /\ \E links \in Links :
                 /\ Update(Observation(links))
                 /\ \A p \in neighbors : hbAge'[p] = links[p].hb
<1>1. ApplyEvents BY DEF Tick, Advance
<1>2. PICK links \in Links : Measure(links) /\ Update(Observation(links)) BY DEF Tick
<1>3. /\ evI' \in evI .. Len(Events) + 1 /\ Due = evI .. evI' - 1
      /\ alive' \in [Peers -> BOOLEAN] /\ load' \in Nat
      BY <1>1, EventsKeep
<1>4. \A p \in neighbors : links[p].hb \in Nat BY <1>1, LinksFound
<1>5. neighbors \subseteq Peers /\ hbAge \in [Peers -> Nat] BY DEF WorldInv
<1>6. hbAge' = [p \in Peers |-> IF p \in neighbors THEN links[p].hb ELSE hbAge[p]]
      BY <1>2 DEF Measure
<1>7. hbAge' \in [Peers -> Nat] BY <1>4, <1>5, <1>6
<1>8. \A p \in neighbors : hbAge'[p] = links[p].hb BY <1>5, <1>6
<1>9. t' = t + 1 /\ UNCHANGED <<sc, neighbors>> BY <1>2 DEF Measure
<1>10. ticks' = ticks + 1 BY <1>2 DEF Update
<1>11. QED BY <1>1, <1>2, <1>3, <1>7, <1>8, <1>9, <1>10

LEMMA WorldStart == Init => WorldInv
<1> SUFFICES ASSUME Init PROVE WorldInv
    OBVIOUS
<1>1. sc \in Scenarios /\ t = 0 /\ ticks = 0 /\ evI = 1 /\ load = NominalLoad
      /\ neighbors = Peers /\ alive = [p \in Peers |-> TRUE]
      /\ hbAge = [p \in Peers |-> 0]
      BY DEF Init, RefSimInit, PerceptInit
<1>2. Peers # {} BY Naturals
<1>3. Len(Events) \in Nat /\ \A i \in 1 .. Len(Events) : Events[i].t \in Nat
      BY <1>1, ScenarioFacts
<1>4. QED BY <1>1, <1>2, <1>3 DEF WorldInv, NominalLoad

\* Which events a step has behind it and which ahead, when its cursor goes from a to b.
LEMMA Indices ==
    ASSUME NEW a \in Nat, NEW b \in Nat, NEW n \in Nat, 1 <= a, a <= b, b <= n + 1
    PROVE  /\ \A i \in 1 .. b - 1 : i \in 1 .. n /\ (i \in 1 .. a - 1 \/ i \in a .. b - 1)
           /\ \A i \in b .. n : i \in a .. n /\ i \in 1 .. n /\ i \notin a .. b - 1
OBVIOUS

LEMMA WorldTick ==
    ASSUME WorldInv, Tick
    PROVE  WorldInv'
<1>1. /\ t' = t + 1 /\ ticks' = ticks + 1 /\ UNCHANGED <<sc, neighbors>>
      /\ evI' \in evI .. Len(Events) + 1 /\ Due = evI .. evI' - 1
      /\ alive' \in [Peers -> BOOLEAN] /\ hbAge' \in [Peers -> Nat] /\ load' \in Nat
      BY TickDoes
<1>2. /\ sc \in Scenarios /\ t \in Nat /\ ticks = t
      /\ neighbors \subseteq Peers /\ neighbors # {} /\ evI \in 1 .. Len(Events) + 1
      /\ \A i \in 1 .. evI - 1 : Events[i].t < t
      BY DEF WorldInv
<1>3. Len(Events) \in Nat /\ \A i \in 1 .. Len(Events) : Events[i].t \in Nat
      BY <1>2, ScenarioFacts
<1>4. Events' = Events BY <1>1 DEF Events
<1>5. Due = {i \in evI .. Len(Events) : Events[i].t <= t} BY DEF Due, Events
<1> DEFINE n == Len(Events)
<1>0. /\ n \in Nat /\ evI \in Nat /\ evI' \in Nat
      /\ 1 <= evI /\ evI <= evI' /\ evI' <= n + 1
      BY <1>1, <1>2, <1>3
<1> HIDE DEF n
<1>6. ASSUME NEW i \in 1 .. evI' - 1 PROVE Events[i].t < t + 1
  <2>1. i \in 1 .. n BY <1>0, <1>6, Indices, Zenon
  <2>2. i \in 1 .. evI - 1 \/ i \in evI .. evI' - 1 BY <1>0, <1>6, Indices, Zenon
  <2>3. Events[i].t \in Nat BY <1>3, <2>1 DEF n
  <2>4. CASE i \in 1 .. evI - 1 BY <2>4, <1>2, <2>3
  <2>5. CASE i \in evI .. evI' - 1
    <3>1. i \in Due BY <1>1, <2>5
    <3>2. QED BY <1>2, <1>5, <2>3, <3>1
  <2>6. QED BY <2>2, <2>4, <2>5
<1>7. ASSUME NEW i \in evI' .. n PROVE t + 1 <= Events[i].t
  <2>1. i \in evI .. n /\ i \in 1 .. n /\ i \notin evI .. evI' - 1
        BY <1>0, <1>7, Indices, Zenon
  <2>2. i \notin Due /\ Events[i].t \in Nat BY <1>1, <1>3, <2>1 DEF n
  <2>3. ~ (Events[i].t <= t) BY <1>5, <2>1, <2>2 DEF n
  <2>4. QED BY <1>2, <2>2, <2>3
<1>8. evI' \in 1 .. n + 1 BY <1>0
<1>9. /\ sc' \in Scenarios /\ t' \in Nat /\ ticks' = t'
      /\ neighbors' \subseteq Peers /\ neighbors' # {}
      BY <1>1, <1>2
<1>10. /\ \A i \in 1 .. evI' - 1 : Events'[i].t < t'
       /\ \A i \in evI' .. Len(Events') : t' <= Events'[i].t
       BY <1>1, <1>4, <1>6, <1>7 DEF n
<1>11. evI' \in 1 .. Len(Events') + 1 BY <1>4, <1>8 DEF n
<1>12. QED BY <1>1, <1>9, <1>10, <1>11 DEF WorldInv

LEMMA WorldCall ==
    ASSUME WorldInv, UNCHANGED <<sc, t, ticks, alive, evI, hbAge>>,
           neighbors' \subseteq neighbors, neighbors' # {}, load' \in Nat
    PROVE  WorldInv'
<1>1. Events' = Events BY DEF Events
<1>2. QED BY <1>1 DEF WorldInv

LEMMA WorldKeeps ==
    ASSUME WorldInv, [Next]_vars
    PROVE  WorldInv'
<1>1. CASE Tick BY <1>1, WorldTick
<1>2. CASE Call BY <1>2, CallKeeps, WorldCall
<1>3. CASE UNCHANGED vars
  <2>1. UNCHANGED <<sc, t, ticks, alive, evI, hbAge, neighbors, load>>
        BY <1>3 DEF vars, world, perceptVars
  <2>2. neighbors # {} /\ load \in Nat BY DEF WorldInv
  <2>3. QED BY <2>1, <2>2, WorldCall
<1>4. QED BY <1>1, <1>2, <1>3 DEF Next

-----------------------------------------------------------------------------
(* A dead neighbour opens the gate.  Inductive part: since the step that   *)
(* applied its node_down, a peer that stays down is dead and its heartbeat *)
(* has aged with the clock.                                                *)

StaysDown(i) == /\ Events[i].kind = "node_down" /\ Events[i].target \in neighbors
                /\ ~ \E j \in i + 1 .. Len(Events) : Events[j].kind = "node_up"

DownInv ==
    \A i \in 1 .. evI - 1 : StaysDown(i) =>
        ~ alive[Events[i].target] /\ hbAge[Events[i].target] >= t - Events[i].t

\* No event but a node_up revives a peer.
LEMMA DownStays ==
    ASSUME WorldInv, DownInv, Tick, NEW i \in Nat, i \in 1 .. evI' - 1, StaysDown(i)
    PROVE  ~ alive'[Events[i].target]
<1> DEFINE p == Events[i].target
           k == LastDue({"node_up", "node_down"}, p)
           n == Len(Events)
<1>1. /\ evI' \in evI .. n + 1 /\ Due = evI .. evI' - 1 /\ ApplyEvents
      BY TickDoes
<1>2. /\ sc \in Scenarios /\ evI \in 1 .. n + 1 /\ neighbors \subseteq Peers
      BY DEF WorldInv
<1>3. n \in Nat BY <1>2, ScenarioFacts
<1>4. p \in Peers BY <1>2 DEF StaysDown
<1>5. alive'[p] = (IF k = NotYet THEN alive[p] ELSE Events[k].kind = "node_up")
      BY <1>1, <1>4 DEF ApplyEvents, Switched, Events
<1>6. /\ k = NotYet \/ (k \in Due /\ Events[k].kind \in {"node_up", "node_down"})
      /\ \A j \in Due : Events[j].kind \in {"node_up", "node_down"} /\ Events[j].target = p
                          => k # NotYet /\ j <= k
  <2>1. k = LastDue({"node_up", "node_down"}, p) OBVIOUS
  <2> HIDE DEF k, p
  <2> DEFINE kinds == {"node_up", "node_down"}
  <2> HIDE DEF kinds
  <2>2. k = LastDue(kinds, p) BY <2>1 DEF kinds
  <2>3. /\ \/ k = NotYet
           \/ k \in Due /\ Events[k].kind \in kinds /\ Events[k].target = p
        /\ \A j \in Due : Events[j].kind \in kinds /\ Events[j].target = p
                            => k # NotYet /\ j <= k
        BY <2>2, LastDueIsLast, Zenon
  <2>4. QED BY <2>3 DEF kinds
<1> HIDE DEF k, n
<1>7. \A j \in i + 1 .. n : Events[j].kind # "node_up" BY DEF StaysDown, n
<1>8. Events[i].kind = "node_down" BY DEF StaysDown
<1>9. /\ evI \in Nat /\ evI' \in Nat /\ 1 <= evI /\ evI <= evI' /\ evI' <= n + 1
      BY <1>1, <1>2, <1>3
<1>10. i \in 1 .. n /\ (i \in 1 .. evI - 1 \/ i \in evI .. evI' - 1)
      BY <1>3, <1>9, Indices, Zenon
<1>11. k \in Due => k \in Int /\ evI <= k /\ k <= n
  <2>1. \A b \in Nat : b <= n + 1 => \A x \in evI .. b - 1 : x \in Int /\ evI <= x /\ x <= n
        BY <1>3, <1>9
  <2>2. QED BY <1>1, <1>9, <2>1, Zenon
<1>12. k \in Due /\ i < k => Events[k].kind # "node_up"
  <2>1. k \in Due /\ i < k => k \in i + 1 .. n BY <1>3, <1>10, <1>11
  <2>2. QED BY <1>7, <2>1
<1>13. CASE i \in 1 .. evI - 1
  <2>1. ~ alive[p] BY <1>13 DEF DownInv
  <2>2. k = NotYet \/ Events[k].kind # "node_up"
    <3>1. k \in Due => i < k BY <1>9, <1>11, <1>13
    <3>2. QED BY <1>6, <1>12, <3>1
  <2>3. QED BY <1>5, <2>1, <2>2
<1>14. CASE i \in evI .. evI' - 1
  <2>1. k # NotYet /\ i <= k BY <1>1, <1>6, <1>8, <1>14
  <2>2. k \in Due /\ (k = i \/ i < k) BY <1>6, <1>11, <2>1
  <2>3. Events[k].kind # "node_up" BY <1>8, <1>12, <2>2
  <2>4. QED BY <1>5, <2>1, <2>3
<1>15. QED BY <1>10, <1>13, <1>14

LEMMA DownTick ==
    ASSUME WorldInv, DownInv, Tick
    PROVE  DownInv'
<1>1. /\ ApplyEvents /\ t' = t + 1 /\ UNCHANGED <<sc, neighbors>>
      /\ evI' \in evI .. Len(Events) + 1 /\ Due = evI .. evI' - 1
      BY TickDoes
<1>2. PICK links \in Links : \A p \in neighbors : hbAge'[p] = links[p].hb BY TickDoes
<1>3. /\ sc \in Scenarios /\ t \in Nat /\ neighbors \subseteq Peers
      /\ hbAge \in [Peers -> Nat] /\ evI \in 1 .. Len(Events) + 1
      /\ \A i \in evI .. Len(Events) : t <= Events[i].t
      BY DEF WorldInv
<1>4. Len(Events) \in Nat /\ \A i \in 1 .. Len(Events) : Events[i].t \in Nat
      BY <1>3, ScenarioFacts
<1>5. Events' = Events BY <1>1 DEF Events
<1> DEFINE n == Len(Events)
<1>6. /\ n \in Nat /\ evI \in Nat /\ evI' \in Nat
      /\ 1 <= evI /\ evI <= evI' /\ evI' <= n + 1
      BY <1>1, <1>3, <1>4
<1> HIDE DEF n
<1>7. \A i \in 1 .. evI' - 1 : i \in Nat /\ i \in 1 .. n
                               /\ (i \in 1 .. evI - 1 \/ i \in evI .. evI' - 1)
  <2>1. \A i \in 1 .. n : i \in Nat BY <1>6
  <2>2. QED BY <1>6, <2>1, Indices, Zenon
<1>8. \A i \in evI .. evI' - 1 : i \in evI .. Len(Events)
  <2>1. \A b \in Nat : b <= n + 1 => \A i \in evI .. b - 1 : i \in evI .. n BY <1>6
  <2>2. QED BY <1>6, <2>1 DEF n
<1>9. ASSUME NEW i, i \in 1 .. evI' - 1, StaysDown(i)
      PROVE  /\ ~ alive'[Events[i].target]
             /\ hbAge'[Events[i].target] >= t + 1 - Events[i].t
  <2> DEFINE p == Events[i].target
  <2>1. ~ alive'[p] BY <1>7, <1>9, DownStays, Zenon
  <2>2. p \in neighbors BY <1>9 DEF StaysDown
  <2>3. hbAge'[p] = hbAge[p] + 1 BY <1>1, <1>2, <2>1, <2>2, LinksFound
  <2>4. hbAge[p] \in Nat /\ Events[i].t \in Nat BY <1>3, <1>4, <1>7, <1>9, <2>2 DEF n
  <2>5. CASE i \in 1 .. evI - 1
    <3>1. hbAge[p] >= t - Events[i].t BY <1>9, <2>5 DEF DownInv
    <3> HIDE DEF p
    <3>2. hbAge'[p] >= t + 1 - Events[i].t BY <1>3, <2>3, <2>4, <3>1
    <3>3. QED BY <2>1, <3>2 DEF p
  <2>6. CASE i \in evI .. evI' - 1
    <3>1. t <= Events[i].t BY <1>3, <1>8, <2>6
    <3> HIDE DEF p
    <3>2. hbAge'[p] >= t + 1 - Events[i].t BY <1>3, <2>3, <2>4, <3>1
    <3>3. QED BY <2>1, <3>2 DEF p
  <2>7. QED BY <1>7, <1>9, <2>5, <2>6
<1>10. \A i : StaysDown(i)' <=> StaysDown(i) BY <1>1, <1>5 DEF StaysDown
<1>11. ASSUME NEW i, i \in 1 .. evI' - 1, StaysDown(i)'
       PROVE  /\ ~ alive'[Events'[i].target]
              /\ hbAge'[Events'[i].target] >= t' - Events'[i].t
  <2>1. StaysDown(i) BY <1>10, <1>11
  <2>2. /\ ~ alive'[Events[i].target]
        /\ hbAge'[Events[i].target] >= t + 1 - Events[i].t
        BY <1>9, <1>11, <2>1
  <2>3. Events'[i].target = Events[i].target /\ Events'[i].t = Events[i].t BY <1>5
  <2>4. t' = t + 1 /\ t \in Nat /\ Events[i].t \in Nat
        BY <1>1, <1>3, <1>4, <1>7, <1>11 DEF n
  <2>5. QED BY <2>2, <2>3, <2>4
<1>12. QED BY <1>11 DEF DownInv

LEMMA DownCall ==
    ASSUME DownInv, UNCHANGED <<sc, t, alive, evI, hbAge>>, neighbors' \subseteq neighbors
    PROVE  DownInv'
<1>1. Events' = Events BY DEF Events
<1>2. \A i : StaysDown(i)' => StaysDown(i) BY <1>1 DEF StaysDown
<1>3. QED BY <1>1, <1>2 DEF DownInv

\* A heartbeat that is too old opens the gate of a warm extractor.
LEMMA SilenceLatches ==
    ASSUME NEW links, Update(Observation(links)), ticks + 1 >= WarmTicks, ZeroRx(links), t \in Nat
    PROVE  onset' # NoOnset
<1> DEFINE obs == Observation(links)
           o == Reduced(obs)
<1>1. obs.links = links /\ obs.t = t BY DEF Observation
<1>2. o.zeroRx = ZeroRx(obs.links) /\ o.t = obs.t BY DEF Reduced
<1>3. Latch(o) BY DEF Update
<1> HIDE DEF o, obs
<1>4. o.zeroRx /\ o.t = t BY <1>1, <1>2
<1>5. Trigger(o) # "none" BY <1>4 DEF Trigger
<1>6. Warm BY DEF Warm
<1>7. CASE onset = NoOnset BY <1>3, <1>4, <1>5, <1>6, <1>7 DEF Latch, NoOnset
<1>8. CASE onset # NoOnset BY <1>3, <1>8 DEF Latch
<1>9. QED BY <1>7, <1>8

LEMMA DeadTick ==
    ASSUME WorldInv, DownInv, Tick
    PROVE  DeadPeerNoticed'
<1>1. /\ t' = t + 1 /\ ticks' = ticks + 1 /\ UNCHANGED <<sc, neighbors>> BY TickDoes
<1>2. PICK links \in Links : /\ Update(Observation(links))
                             /\ \A p \in neighbors : hbAge'[p] = links[p].hb
      BY TickDoes
<1>3. WorldInv' /\ DownInv' BY WorldTick, DownTick
<1>4. Events' = Events /\ sc \in Scenarios BY <1>1 DEF Events, WorldInv
<1>5. /\ Len(Events) \in Nat /\ DOMAIN Events = 1 .. Len(Events)
      /\ \A i \in 1 .. Len(Events) : Events[i].t \in Nat
      BY <1>4, ScenarioFacts
<1> DEFINE n == Len(Events)
<1>6. n \in Nat /\ evI' \in Nat /\ 1 <= evI' /\ evI' <= n + 1
  <2>1. evI' \in 1 .. Len(Events') + 1 BY <1>3 DEF WorldInv
  <2>2. QED BY <1>4, <1>5, <2>1
<1>7. /\ t \in Nat /\ hbAge' \in [Peers -> Nat] /\ neighbors \subseteq Peers
      /\ \A i \in evI' .. Len(Events) : t + 1 <= Events[i].t
  <2>1. \A i \in evI' .. Len(Events') : t' <= Events'[i].t BY <1>3 DEF WorldInv
  <2>2. hbAge' \in [Peers -> Nat] BY <1>3 DEF WorldInv
  <2>3. t \in Nat /\ neighbors \subseteq Peers BY DEF WorldInv
  <2>4. QED BY <1>1, <1>4, <2>1, <2>2, <2>3
<1>8. ASSUME NEW i \in DOMAIN Events, StaysDown(i), ticks' >= WarmTicks,
             t + 1 - Events[i].t > ZeroRxTicks
      PROVE  onset' # NoOnset
  <2> DEFINE p == Events[i].target
  <2>1. i \in 1 .. n /\ Events[i].t \in Nat BY <1>5
  <2> HIDE DEF n
  <2>2. i \in 1 .. evI' - 1 \/ i \in evI' .. n
    <3>1. \A b \in Nat : i \in 1 .. b - 1 \/ i \in b .. n BY <1>6, <2>1
    <3>2. QED BY <1>6, <3>1
  <2>3. i \notin evI' .. n
    <3>1. i \in evI' .. n => t + 1 <= Events[i].t BY <1>7 DEF n
    <3>2. QED BY <1>7, <1>8, <2>1, <3>1, Naturals
  <2>4. StaysDown(i)' BY <1>1, <1>4, <1>8 DEF StaysDown
  <2>5. hbAge'[p] >= t + 1 - Events[i].t
    <3>1. hbAge'[Events'[i].target] >= t' - Events'[i].t
          BY <1>3, <2>2, <2>3, <2>4 DEF DownInv
    <3>2. Events'[i].target = p /\ Events'[i].t = Events[i].t BY <1>4
    <3>3. t' = t + 1 /\ t \in Nat /\ Events[i].t \in Nat BY <1>1, <1>7, <2>1
    <3>4. QED BY <3>1, <3>2, <3>3
  <2>6. p \in neighbors BY <1>8 DEF StaysDown
  <2>7. hbAge'[p] \in Nat BY <1>7, <2>6
  <2> HIDE DEF p
  <2>8. links[p].hb > ZeroRxTicks
    <3>1. hbAge'[p] > ZeroRxTicks BY <1>7, <1>8, <2>1, <2>5, <2>7, Naturals
    <3>2. QED BY <1>2, <2>6, <3>1
  <2>9. p \in DOMAIN links BY <2>6 DEF Links
  <2>10. ZeroRx(links) BY <2>8, <2>9 DEF ZeroRx
  <2>11. ticks + 1 >= WarmTicks BY <1>1, <1>8
  <2>12. QED BY <1>2, <1>7, <2>10, <2>11, SilenceLatches
<1>9. ASSUME NEW i \in DOMAIN sc'.events,
             /\ sc'.events[i].kind = "node_down" /\ sc'.events[i].target \in neighbors'
             /\ ~ \E j \in i + 1 .. Len(sc'.events) : sc'.events[j].kind = "node_up"
             /\ ticks' >= WarmTicks /\ t' - sc'.events[i].t > ZeroRxTicks
      PROVE  onset' # NoOnset
  <2>1. sc'.events = Events BY <1>1 DEF Events
  <2>2. i \in DOMAIN Events BY <2>1
  <2>3. StaysDown(i) BY <1>1, <1>9, <2>1 DEF StaysDown
  <2>4. t + 1 - Events[i].t > ZeroRxTicks
    <3>1. sc'.events[i].t = Events[i].t BY <2>1
    <3>2. t' = t + 1 /\ t \in Nat /\ Events[i].t \in Nat BY <1>1, <1>5, <1>7, <2>2
    <3>3. t' - sc'.events[i].t > ZeroRxTicks BY <1>9
    <3>4. QED BY <3>1, <3>2, <3>3
  <2>5. QED BY <1>8, <1>9, <2>2, <2>3, <2>4
<1>10. QED BY <1>9 DEF DeadPeerNoticed

\* A neighbour that has been dead for longer than the gate tolerates, and that no
\* reroute has dropped, has opened it, however many live links surround it, whatever
\* the scenario and the calls (percept/features.py, the age of the quietest heartbeat).
THEOREM DeadPeersNoticed == Spec => []DeadPeerNoticed
<1> DEFINE Inv == WorldInv /\ DownInv /\ DeadPeerNoticed
<1>1. Init => Inv
  <2> SUFFICES ASSUME Init PROVE Inv
      OBVIOUS
  <2>1. WorldInv BY WorldStart
  <2>2. evI = 1 /\ ticks = 0 BY DEF Init, RefSimInit, PerceptInit
  <2>3. DownInv BY <2>2 DEF DownInv
  <2>4. ~ (ticks >= WarmTicks) BY <2>2, Naturals
  <2>5. DeadPeerNoticed BY <2>4 DEF DeadPeerNoticed
  <2>6. QED BY <2>1, <2>3, <2>5
<1>2. Inv /\ [Next]_vars => Inv'
  <2> SUFFICES ASSUME Inv, [Next]_vars PROVE Inv'
      OBVIOUS
  <2>1. WorldInv' BY WorldKeeps
  <2>2. CASE Tick BY <2>1, <2>2, DownTick, DeadTick
  <2>3. ASSUME UNCHANGED <<sc, t, ticks, alive, evI, hbAge, onset>>,
               neighbors' \subseteq neighbors
        PROVE  Inv'
    <3>1. DownInv' BY <2>3, DownCall
    <3>2. DeadPeerNoticed' BY <2>3 DEF DeadPeerNoticed
    <3>3. QED BY <2>1, <3>1, <3>2
  <2>4. CASE Call
    <3>1. UNCHANGED <<sc, t, ticks, alive, evI, hbAge, onset>> /\ neighbors' \subseteq neighbors
          BY <2>4, CallKeeps
    <3>2. QED BY <2>3, <3>1
  <2>5. CASE UNCHANGED vars
    <3>1. UNCHANGED <<sc, t, ticks, alive, evI, hbAge, onset>> /\ neighbors' \subseteq neighbors
          BY <2>5 DEF vars, world, perceptVars
    <3>2. QED BY <2>3, <3>1
  <2>6. QED BY <2>2, <2>4, <2>5 DEF Next
<1>3. Inv => DeadPeerNoticed OBVIOUS
<1>4. QED BY <1>1, <1>2, <1>3, PTL DEF Spec

-----------------------------------------------------------------------------
(* A collapse of delivery opens the gate.  Inductive part: until the gate  *)
(* opens, the detector has summed at least what the last values are below  *)
(* the baseline, which can only have come down since.                      *)

\* What a slid window holds, counted from its end.
FromEnd(u, w, v) ==
    /\ Len(u) \in Nat /\ Len(u) >= 1 /\ Len(u) <= Len(w) + 1
    /\ u[Len(u)] = v
    /\ \A j \in 1 .. Len(u) - 1 : u[Len(u) - j] = w[Len(w) - j + 1]

LEMMA SlideFromEnd ==
    ASSUME NEW w \in Seq(Percent), Len(w) <= Window, NEW v \in Percent
    PROVE  FromEnd(Slide(w, Window, v), w, v)
<1> DEFINE u == Slide(w, Window, v)
<1> SUFFICES FromEnd(u, w, v)
    OBVIOUS
<1> Len(w) \in Nat /\ Window \in Nat \ {0} BY LenProperties, Naturals
<1>1. CASE Len(w) < Window
  <2>1. u = Append(w, v) BY <1>1 DEF Slide
  <2>2. /\ Len(u) = Len(w) + 1 /\ u[Len(w) + 1] = v
        /\ \A i \in 1 .. Len(w) : u[i] = w[i]
        BY <2>1, AppendProperties
  <2> HIDE DEF u
  <2>3. QED BY <2>2 DEF FromEnd
<1>2. CASE Len(w) = Window
  <2> DEFINE x == Tail(w)
  <2>1. w # <<>> BY <1>2
  <2>2. /\ x \in Seq(Percent) /\ Len(x) = Window - 1
        /\ \A i \in 1 .. Window - 1 : x[i] = w[i + 1]
        BY <1>2, <2>1, HeadTailProperties
  <2>3. u = Append(x, v) BY <1>2 DEF Slide
  <2> HIDE DEF x, u
  <2>4. /\ Len(u) = Window /\ u[Window] = v
        /\ \A i \in 1 .. Window - 1 : u[i] = x[i]
        BY <2>2, <2>3, AppendProperties
  <2>5. ASSUME NEW j \in 1 .. Window - 1 PROVE u[Window - j] = w[Window - j + 1]
    <3>1. Window - j \in 1 .. Window - 1 BY <2>5
    <3>2. u[Window - j] = x[Window - j] /\ x[Window - j] = w[Window - j + 1] BY <2>2, <2>4, <3>1
    <3>3. QED BY <3>2
  <2>6. QED BY <1>2, <2>4, <2>5 DEF FromEnd
<1>3. QED BY <1>1, <1>2

\* Delivery as the extractor averages it, and what it does to the detector.
LEMMA PdrMeasured ==
    ASSUME WorldInv, Tick
    PROVE  \E x \in Percent :
              /\ cusum' = CusumUpdate(cusum, x, IF base = -1 THEN x ELSE base)
              /\ IF onset = NoOnset THEN base' \in Drifts(base, x) ELSE base' = base
              /\ pdrHist' = Push(pdrHist, x)
              /\ IF onset = NoOnset THEN onset' \in {NoOnset, t} ELSE onset' = onset
              /\ onset' = NoOnset /\ ticks + 1 >= WarmTicks => ~ (cusum' > CusumH)
<1>1. PICK links \in Links : Update(Observation(links)) BY TickDoes
<1>2. ApplyEvents BY DEF Tick, Advance
<1>3. DOMAIN links = neighbors /\ \A p \in neighbors : links[p].pdr \in 0 .. 100
      BY <1>2, LinksFound
<1>4. neighbors # {} /\ neighbors \subseteq Peers BY DEF WorldInv
<1>5. IsFiniteSet(neighbors) BY <1>4, Naturals, FS_Subset
<1> DEFINE obs == Observation(links)
           o == Reduced(obs)
           f == [p \in neighbors |-> links[p].pdr]
<1>6. o.pdr \in Percent
  <2>1. obs.links = links BY DEF Observation
  <2>2. o.pdr = MeanOf(obs.links, "pdr") BY DEF Reduced
  <2>3. links # <<>> BY <1>3, <1>4
  <2>4. MeanOf(links, "pdr") = Mean(f) BY <1>3, <2>3 DEF MeanOf
  <2>5. f \in [neighbors -> Int] /\ \A p \in neighbors : 0 <= f[p] /\ f[p] <= 100 BY <1>3
  <2> HIDE DEF f, o, obs
  <2>6. 0 \in Int /\ 100 \in Int OBVIOUS
  <2>7. Mean(f) \in 0 .. 100 BY <1>4, <1>5, <2>5, <2>6, MeanBetween, Zenon
  <2>8. QED BY <2>1, <2>2, <2>4, <2>7 DEF Percent
<1>7. /\ cusum' = CusumUpdate(cusum, o.pdr, IF base = -1 THEN o.pdr ELSE base)
      /\ Learn(o) /\ Remember(o) /\ Latch(o)
      BY <1>1 DEF Update
<1>8. o.t = t
  <2>1. obs.t = t BY DEF Observation
  <2>2. o.t = obs.t BY DEF Reduced
  <2>3. QED BY <2>1, <2>2
<1> HIDE DEF o, obs
<1>9. IF onset = NoOnset THEN base' \in Drifts(base, o.pdr) ELSE base' = base
      BY <1>7 DEF Learn
<1>10. pdrHist' = Push(pdrHist, o.pdr) BY <1>7 DEF Remember
<1>11. IF onset = NoOnset THEN onset' \in {NoOnset, t} ELSE onset' = onset
       BY <1>7, <1>8 DEF Latch
<1>12. ASSUME onset' = NoOnset, ticks + 1 >= WarmTicks, cusum' > CusumH PROVE FALSE
  <2>1. onset = NoOnset BY <1>11, <1>12
  <2>2. Trigger(o) = "pdr" BY <1>12 DEF Trigger
  <2>3. onset' = t BY <1>7, <1>8, <1>12, <2>1, <2>2 DEF Latch, Warm
  <2>4. t \in Nat BY DEF WorldInv
  <2>5. QED BY <1>12, <2>3, <2>4 DEF NoOnset
<1>13. QED BY <1>6, <1>7, <1>9, <1>10, <1>11, <1>12

Fallen(w, b, d, k) == \A i \in Len(w) - k + 1 .. Len(w) : b - w[i] >= d

\* The detector, at s, has counted every fall at the end of a window.
Counted(w, b, s) ==
    \A d \in {5, 20, 60} : \A k \in 0 .. Len(w) : Fallen(w, b, d, k) => s >= k * (d - CusumK)

FallInv ==
    /\ base \in {-1} \cup Percent /\ cusum \in Nat
    /\ pdrHist \in Rings(Window, Percent) /\ RingOK(pdrHist)
    /\ onset \in Nat \cup {NoOnset}
    /\ onset = NoOnset =>
          /\ base = -1 => Len(Values(pdrHist)) = 0
          /\ ticks >= WarmTicks => cusum <= CusumH
          /\ Counted(Values(pdrHist), base, cusum)

\* A baseline that is above a value by the drop was not lower before it.
LEMMA DriftDown ==
    ASSUME NEW b \in {-1} \cup Percent, NEW x \in Percent, NEW c \in Drifts(b, x)
    PROVE  /\ c \in Percent
           /\ c - x >= 5 => b # -1 /\ c <= b
BY DEF Drifts, Percent

LEMMA CusumGrows ==
    ASSUME NEW c \in Nat, NEW x \in Percent, NEW b \in Percent
    PROVE  /\ CusumUpdate(c, x, b) \in Nat
           /\ CusumUpdate(c, x, b) >= c + (b - x - CusumK)
BY DEF CusumUpdate, Bigger, Percent, CusumK

\* One more value below the baseline is one more step of the detector.
LEMMA FallStep ==
    ASSUME NEW w \in Seq(Percent), Len(w) <= Window, NEW x \in Percent,
           NEW b \in {-1} \cup Percent, NEW c \in Drifts(b, x), NEW s \in Nat,
           Counted(w, b, s)
    PROVE  Counted(Slide(w, Window, x), c, CusumUpdate(s, x, IF b = -1 THEN x ELSE b))
<1> DEFINE u == Slide(w, Window, x)
<1> SUFFICES ASSUME NEW d \in {5, 20, 60}, NEW k \in 0 .. Len(u), Fallen(u, c, d, k)
             PROVE  CusumUpdate(s, x, IF b = -1 THEN x ELSE b) >= k * (d - CusumK)
    BY DEF Counted
<1> HIDE DEF u
<1> Window \in Nat \ {0} BY Naturals
<1> Len(w) \in Nat BY LenProperties
<1>0. FromEnd(u, w, x) BY SlideFromEnd DEF u
<1>1. /\ Len(u) \in Nat /\ Len(u) >= 1 /\ Len(u) <= Len(w) + 1
      /\ u[Len(u)] = x
      /\ \A j \in 1 .. Len(u) - 1 : u[Len(u) - j] = w[Len(w) - j + 1]
      BY <1>0 DEF FromEnd
<1>2. c \in Percent /\ (c - x >= 5 => b # -1 /\ c <= b) BY DriftDown
<1>3. x \in Int /\ c \in Int /\ b \in Int BY <1>2 DEF Percent
<1>4. CusumUpdate(s, x, IF b = -1 THEN x ELSE b) \in Nat
  <2>1. (IF b = -1 THEN x ELSE b) \in Percent BY DEF Percent
  <2> HIDE DEF CusumUpdate
  <2>2. QED BY <2>1, CusumGrows, Zenon
<1>5. CASE k = 0 BY <1>4, <1>5 DEF CusumK
<1>6. CASE k >= 1
  <2>1. c - x >= d
    <3>1. Len(u) \in Len(u) - k + 1 .. Len(u) BY <1>1, <1>6
    <3>2. c - u[Len(u)] >= d BY <3>1 DEF Fallen
    <3>3. QED BY <1>1, <3>2
  <2>2. c - x >= 5 BY <1>3, <2>1
  <2>3. b # -1 /\ b \in Percent /\ c <= b BY <1>2, <2>2
  <2>4. b - x >= d BY <1>3, <2>1, <2>3
  <2>5. k - 1 \in 0 .. Len(w) BY <1>1, <1>6
  <2>6. ASSUME NEW i \in Len(w) - (k - 1) + 1 .. Len(w) PROVE b - w[i] >= d
    <3> DEFINE j == Len(w) - i + 1
    <3>1. j \in 1 .. Len(u) - 1 /\ Len(w) - j + 1 = i BY <1>1, <1>6, <2>6
    <3>2. Len(u) - j \in Len(u) - k + 1 .. Len(u) /\ Len(u) - j \in 1 .. Len(u)
          BY <1>1, <1>6, <2>6
    <3>3. i \in 1 .. Len(w) BY <2>5, <2>6
    <3>4. w[i] \in Percent BY <3>3, ElementOfSeq
    <3> HIDE DEF j
    <3>5. u[Len(u) - j] = w[i] BY <1>1, <3>1
    <3>6. c - u[Len(u) - j] >= d BY <3>2 DEF Fallen
    <3>7. w[i] \in Int
      <4>1. \A n \in Percent : n \in Int BY DEF Percent
      <4>2. QED BY <3>4, <4>1, Zenon
    <3>8. QED BY <1>3, <2>3, <3>5, <3>6, <3>7
  <2>7. Fallen(w, b, d, k - 1) BY <2>6 DEF Fallen
  <2>8. s >= (k - 1) * (d - CusumK) BY <2>5, <2>7 DEF Counted
  <2>9. CusumUpdate(s, x, b) >= s + (b - x - CusumK) BY <2>3, CusumGrows
  <2>10. CusumUpdate(s, x, b) \in Nat BY <2>3, CusumGrows
  <2> DEFINE y == CusumUpdate(s, x, b)
  <2> HIDE DEF y
  <2>11. y \in Nat /\ y >= s + (b - x - 2) BY <2>9, <2>10 DEF y, CusumK
  <2>12. k \in Int /\ s >= (k - 1) * (d - 2) BY <1>1, <2>8 DEF CusumK
  <2>13. y >= k * (d - 2)
    <3>1. CASE d = 5 BY <1>3, <2>4, <2>11, <2>12, <3>1
    <3>2. CASE d = 20 BY <1>3, <2>4, <2>11, <2>12, <3>2
    <3>3. CASE d = 60 BY <1>3, <2>4, <2>11, <2>12, <3>3
    <3>4. QED BY <3>1, <3>2, <3>3
  <2>14. QED BY <2>3, <2>13 DEF y, CusumK
<1>7. QED BY <1>1, <1>5, <1>6

\* The window of a ring that holds percentages.
LEMMA WindowFacts ==
    ASSUME FallInv, NEW x \in Percent
    PROVE  /\ Values(pdrHist) \in Seq(Percent) /\ Len(Values(pdrHist)) <= Window
           /\ Push(pdrHist, x) \in Rings(Window, Percent) /\ RingOK(Push(pdrHist, x))
           /\ Values(Push(pdrHist, x)) = Slide(Values(pdrHist), Window, x)
<1>1. Window \in Nat \ {0} BY Naturals
<1>2. pdrHist \in Rings(Window, Percent) /\ RingOK(pdrHist) BY DEF FallInv
<1>3. Values(pdrHist) \in Seq(Percent) /\ Len(Values(pdrHist)) = pdrHist.n
      BY <1>1, <1>2, ValuesShape
<1>4. pdrHist.n \in 0 .. Window BY <1>2 DEF Rings
<1>5. Push(pdrHist, x) \in Rings(Window, Percent) /\ RingOK(Push(pdrHist, x))
      BY <1>1, <1>2, PushTyped
<1>6. Values(Push(pdrHist, x)) = Slide(Values(pdrHist), Window, x)
      BY <1>1, <1>2, PushSlides
<1>7. QED BY <1>1, <1>3, <1>4, <1>5, <1>6

LEMMA FallTick ==
    ASSUME WorldInv, FallInv, Tick
    PROVE  FallInv'
<1>1. PICK x \in Percent :
         /\ cusum' = CusumUpdate(cusum, x, IF base = -1 THEN x ELSE base)
         /\ IF onset = NoOnset THEN base' \in Drifts(base, x) ELSE base' = base
         /\ pdrHist' = Push(pdrHist, x)
         /\ IF onset = NoOnset THEN onset' \in {NoOnset, t} ELSE onset' = onset
         /\ onset' = NoOnset /\ ticks + 1 >= WarmTicks => ~ (cusum' > CusumH)
      BY PdrMeasured
<1>2. /\ base \in {-1} \cup Percent /\ cusum \in Nat /\ onset \in Nat \cup {NoOnset}
      BY DEF FallInv
<1> DEFINE w == Values(pdrHist)
           u == Values(pdrHist')
<1>3. /\ w \in Seq(Percent) /\ Len(w) <= Window
      /\ pdrHist' \in Rings(Window, Percent) /\ RingOK(pdrHist')
      /\ u = Slide(w, Window, x)
      BY <1>1, WindowFacts
<1>4. t \in Nat /\ ticks' = ticks + 1 BY TickDoes DEF WorldInv
<1>5. base' \in {-1} \cup Percent BY <1>1, <1>2, DriftDown
<1>6. cusum' \in Nat
  <2>1. (IF base = -1 THEN x ELSE base) \in Percent BY <1>2
  <2>2. QED BY <1>1, <1>2, <2>1, CusumGrows, Zenon
<1>7. onset' \in Nat \cup {NoOnset} BY <1>1, <1>2, <1>4
<1>8. ASSUME onset' = NoOnset
      PROVE  /\ base' = -1 => Len(u) = 0
             /\ ticks' >= WarmTicks => cusum' <= CusumH
             /\ Counted(u, base', cusum')
  <2>1. onset = NoOnset /\ base' \in Drifts(base, x) BY <1>1, <1>8
  <2>2. base' # -1
    <3>1. base' \in Percent BY <1>2, <2>1, DriftDown
    <3>2. QED BY <3>1 DEF Percent
  <2>3. ticks' >= WarmTicks => cusum' <= CusumH BY <1>1, <1>4, <1>6, <1>8, Naturals
  <2>4. Counted(w, base, cusum) BY <2>1 DEF FallInv
  <2> HIDE DEF w, u
  <2>5. Counted(u, base', cusum') BY <1>1, <1>2, <1>3, <2>1, <2>4, FallStep
  <2>6. QED BY <1>1, <2>2, <2>3, <2>5
<1>9. QED BY <1>3, <1>5, <1>6, <1>7, <1>8 DEF FallInv

LEMMA FallKept ==
    ASSUME FallInv, UNCHANGED <<ticks, base, cusum, onset, pdrHist>>
    PROVE  FallInv'
BY DEF FallInv

\* As many ticks of a drop as LongEnough says exceed the threshold.
LEMMA LongEnoughExceeds ==
    ASSUME NEW d \in {5, 20, 60}
    PROVE  LongEnough(d) \in Nat /\ LongEnough(d) * (d - CusumK) > CusumH
<1>1. CusumH \in Nat BY Naturals
<1>2. CASE d = 5 BY <1>1, <1>2 DEF LongEnough, CusumK
<1>3. CASE d = 20 BY <1>1, <1>3 DEF LongEnough, CusumK
<1>4. CASE d = 60 BY <1>1, <1>4 DEF LongEnough, CusumK
<1>5. QED BY <1>2, <1>3, <1>4

LEMMA FallDetects ==
    ASSUME FallInv
    PROVE  CollapseDetected
<1> DEFINE w == Values(pdrHist)
<1>1. ASSUME NEW d \in {5, 20, 60},
             /\ ticks >= WarmTicks /\ Len(w) >= LongEnough(d)
             /\ \A i \in Len(w) - LongEnough(d) + 1 .. Len(w) : base - w[i] >= d,
             onset = NoOnset
      PROVE  FALSE
  <2>1. LongEnough(d) \in Nat /\ LongEnough(d) * (d - CusumK) > CusumH BY LongEnoughExceeds
  <2>2. w \in Seq(Percent)
    <3>1. 0 \in Percent BY DEF Percent
    <3>2. QED BY <3>1, WindowFacts
  <2>3. Len(w) \in Nat BY <2>2, LenProperties
  <2> DEFINE m == LongEnough(d)
             n == Len(w)
  <2>4. m \in 0 .. n
    <3>1. m \in Nat /\ n \in Nat /\ n >= m BY <1>1, <2>1, <2>3
    <3> HIDE DEF m, n
    <3>2. QED BY <3>1
  <2>5. Fallen(w, base, d, LongEnough(d)) BY <1>1 DEF Fallen
  <2>6. cusum >= LongEnough(d) * (d - CusumK) BY <1>1, <2>4, <2>5 DEF FallInv, Counted
  <2>7. cusum <= CusumH /\ cusum \in Nat /\ CusumH \in Nat BY <1>1, Naturals DEF FallInv
  <2>8. \A a \in Int : a > CusumH /\ cusum >= a => FALSE BY <2>7
  <2>9. LongEnough(d) * (d - CusumK) \in Int BY <2>1 DEF CusumK
  <2>10. QED BY <2>1, <2>6, <2>8, <2>9, Zenon
<1>2. QED BY <1>1 DEF CollapseDetected

\* A collapse of delivery by 5, 20 or 60 percent below the baseline, held for as many
\* ticks as the threshold needs, has opened the gate, whatever the scenario, the
\* threshold and the window, although the baseline follows the link down
\* (percept/features.py, CUSUM on the averaged delivery ratio).
THEOREM CollapsesDetected == Spec => []CollapseDetected
<1> DEFINE Inv == WorldInv /\ FallInv
<1>1. Init => Inv
  <2> SUFFICES ASSUME Init PROVE Inv
      OBVIOUS
  <2>1. WorldInv BY WorldStart
  <2>2. /\ ticks = 0 /\ base = -1 /\ cusum = 0 /\ onset = NoOnset
        /\ pdrHist = NewRing(Window)
        BY DEF Init, PerceptInit
  <2>3. Window \in Nat \ {0} /\ CusumH \in Nat BY Naturals
  <2>4. pdrHist \in Rings(Window, Percent) /\ RingOK(pdrHist)
        BY <2>2, <2>3 DEF NewRing, Rings, RingOK, Percent
  <2>5. Len(Values(pdrHist)) = 0
    <3>1. pdrHist.n = 0 BY <2>2 DEF NewRing
    <3>2. QED BY <2>3, <2>4, <3>1, ValuesShape
  <2>6. \A d \in {5, 20, 60} : cusum >= 0 * (d - CusumK) BY <2>2 DEF CusumK
  <2>7. \A k \in 0 .. 0 : k = 0 OBVIOUS
  <2>8. Counted(Values(pdrHist), base, cusum) BY <2>5, <2>6, <2>7 DEF Counted
  <2>9. FallInv BY <2>2, <2>3, <2>4, <2>5, <2>8 DEF FallInv
  <2>10. QED BY <2>1, <2>9
<1>2. Inv /\ [Next]_vars => Inv'
  <2> SUFFICES ASSUME Inv, [Next]_vars PROVE Inv'
      OBVIOUS
  <2>0. WorldInv' BY WorldKeeps
  <2>1. CASE Tick BY <2>0, <2>1, FallTick
  <2>2. CASE Call
    <3>1. UNCHANGED <<ticks, base, cusum, onset, pdrHist>> BY <2>2, CallKeeps
    <3>2. QED BY <2>0, <3>1, FallKept
  <2>3. CASE UNCHANGED vars
    <3>1. UNCHANGED <<ticks, base, cusum, onset, pdrHist>> BY <2>3 DEF vars, perceptVars
    <3>2. QED BY <2>0, <3>1, FallKept
  <2>4. QED BY <2>1, <2>2, <2>3 DEF Next
<1>3. Inv => CollapseDetected BY FallDetects
<1>4. QED BY <1>1, <1>2, <1>3, PTL DEF Spec

-----------------------------------------------------------------------------
(* Two counters of the same ticks.                                         *)

Totals(f, n) ==
    /\ f.runs \in Seq(Nat) /\ f.cur \in Nat /\ n \in Nat
    /\ f = [cur |-> f.cur, runs |-> f.runs]
    /\ Len(f.runs) <= FadeCap
    /\ SumSeq(f.runs) + f.cur <= n
    /\ Len(f.runs) < FadeCap => SumSeq(f.runs) + f.cur = n

FadesInv == Totals(fades, outage)

\* A tick adds one to both counters, or moves the run that ended to the list and
\* forgets the oldest one when the list is full.
LEMMA TotalsKept ==
    ASSUME NEW f, NEW n, Totals(f, n), NEW below \in BOOLEAN
    PROVE  Totals(RunUpdate(f, below, FadeCap), IF below THEN n + 1 ELSE n)
<1> DEFINE s == f.runs
           c == f.cur
<1>1. /\ s \in Seq(Nat) /\ c \in Nat /\ n \in Nat /\ f = [cur |-> c, runs |-> s]
      /\ Len(s) <= FadeCap /\ SumSeq(s) + c <= n
      /\ Len(s) < FadeCap => SumSeq(s) + c = n
      BY DEF Totals
<1>2. FadeCap \in Nat \ {0} BY PerceptAssumption
<1>3. Len(s) \in Nat BY <1>1, LenProperties
<1> HIDE DEF s, c
<1>4. SumSeq(s) \in Int BY <1>1, SumOfSequence DEF SumSeq
<1>5. CASE below
  <2>1. RunUpdate(f, below, FadeCap) = [cur |-> c + 1, runs |-> s]
        BY <1>1, <1>5 DEF RunUpdate
  <2>2. Totals([cur |-> c + 1, runs |-> s], n + 1) BY <1>1, <1>3, <1>4 DEF Totals
  <2>3. QED BY <1>5, <2>1, <2>2
<1>6. CASE ~ below /\ ~ (c > 0)
  <2>1. RunUpdate(f, below, FadeCap) = f BY <1>1, <1>6 DEF RunUpdate
  <2>2. QED BY <1>6, <2>1
<1>7. CASE ~ below /\ c > 0 /\ Len(s) # FadeCap
  <2> DEFINE r == Append(s, c)
  <2>1. RunUpdate(f, below, FadeCap) = [cur |-> 0, runs |-> r]
        BY <1>1, <1>7 DEF RunUpdate
  <2>2. r \in Seq(Nat) /\ Len(r) = Len(s) + 1 BY <1>1, AppendProperties
  <2>3. SumSeq(r) = SumSeq(s) + c BY <1>1, SumOfSequence DEF SumSeq
  <2> HIDE DEF r
  <2>4. Totals([cur |-> 0, runs |-> r], n)
        BY <1>1, <1>2, <1>3, <1>4, <1>7, <2>2, <2>3 DEF Totals
  <2>5. QED BY <1>7, <2>1, <2>4
<1>8. CASE ~ below /\ c > 0 /\ Len(s) = FadeCap
  <2> DEFINE q == Tail(s)
             r == Append(q, c)
  <2>1. RunUpdate(f, below, FadeCap) = [cur |-> 0, runs |-> r]
        BY <1>1, <1>8 DEF RunUpdate
  <2>2. s # <<>> BY <1>2, <1>8, EmptySeq
  <2>3. q \in Seq(Nat) /\ Len(q) = Len(s) - 1 /\ s[1] \in Nat
    <3>1. Head(s) \in Nat /\ Head(s) = s[1] BY <1>1, <2>2, HeadTailProperties
    <3>2. q \in Seq(Nat) /\ Len(q) = Len(s) - 1 BY <1>1, <2>2, HeadTailProperties
    <3>3. QED BY <3>1, <3>2
  <2>4. SumSeq(s) = s[1] + SumSeq(q)
    <3>1. 0 \in Nat OBVIOUS
    <3>2. QED BY <1>1, <2>2, <3>1, SumOfSequence DEF SumSeq
  <2> HIDE DEF q
  <2>5. SumSeq(q) \in Int /\ SumSeq(r) = SumSeq(q) + c
        BY <1>1, <2>3, SumOfSequence DEF SumSeq
  <2>6. r \in Seq(Nat) /\ Len(r) = Len(q) + 1 BY <1>1, <2>3, AppendProperties
  <2> HIDE DEF r
  <2>7. Totals([cur |-> 0, runs |-> r], n)
        BY <1>1, <1>2, <1>3, <1>4, <1>8, <2>3, <2>4, <2>5, <2>6 DEF Totals
  <2>8. QED BY <1>8, <2>1, <2>7
<1>9. QED BY <1>5, <1>6, <1>7, <1>8

\* The run lengths of the fades and the outage counter, kept by different code, count
\* the same ticks until the oldest runs are forgotten, whatever the cap
\* (percept/ring.py, RunLength.update; percept/features.py, outage_ticks).
THEOREM FadesAddUp == Spec => []FadesAccounted
<1>1. Init => WorldInv /\ FadesInv
  <2> SUFFICES ASSUME Init PROVE FadesInv
      BY WorldStart
  <2>1. fades = [cur |-> 0, runs |-> <<>>] /\ outage = 0 BY DEF Init, PerceptInit, NewRuns
  <2>2. SumSeq(<<>>) = 0
    <3> DEFINE e == <<>>
    <3>1. e \in [{} -> Int] OBVIOUS
    <3>2. IsFiniteSet({}) BY FS_EmptySet
    <3> HIDE DEF e
    <3>3. PICK g : Additive(e, g, {}) /\ SumFunction(e) = g[{}] BY <3>1, <3>2, SumAdditive, Zenon
    <3>4. QED BY <3>3 DEF Additive, SumSeq, e
  <2>3. <<>> \in Seq(Nat) /\ Len(<<>>) = 0 /\ FadeCap \in Nat BY PerceptAssumption
  <2>4. Totals([cur |-> 0, runs |-> <<>>], 0) BY <2>2, <2>3 DEF Totals
  <2>5. QED BY <2>1, <2>4 DEF FadesInv
<1>2. (WorldInv /\ FadesInv) /\ [Next]_vars => (WorldInv /\ FadesInv)'
  <2> SUFFICES ASSUME WorldInv, FadesInv, [Next]_vars PROVE FadesInv'
      BY WorldKeeps
  <2>1. CASE Tick
    <3>1. PICK links \in Links : Update(Observation(links)) BY <2>1, TickDoes
    <3> DEFINE below == Reduced(Observation(links)).pdr < FadePdr
    <3>2. CountFades(Reduced(Observation(links))) BY <3>1 DEF Update
    <3>3. /\ fades' = RunUpdate(fades, below, FadeCap)
          /\ outage' = IF below THEN outage + 1 ELSE outage
          BY <3>2 DEF CountFades
    <3>4. below \in BOOLEAN OBVIOUS
    <3> HIDE DEF below
    <3>5. Totals(RunUpdate(fades, below, FadeCap), IF below THEN outage + 1 ELSE outage)
          BY <3>4, TotalsKept DEF FadesInv
    <3>6. QED BY <3>3, <3>5 DEF FadesInv
  <2>2. CASE Call
    <3>1. UNCHANGED <<fades, outage>> BY <2>2, CallKeeps
    <3>2. QED BY <3>1 DEF FadesInv
  <2>3. CASE UNCHANGED vars
    <3>1. UNCHANGED <<fades, outage>> BY <2>3 DEF vars, perceptVars
    <3>2. QED BY <3>1 DEF FadesInv
  <2>4. QED BY <2>1, <2>2, <2>3 DEF Next
<1>3. WorldInv /\ FadesInv => FadesAccounted BY DEF FadesInv, Totals, FadesAccounted
<1>4. QED BY <1>1, <1>2, <1>3, PTL DEF Spec

-----------------------------------------------------------------------------
(* Nothing opens the gate before the first event.  Inductive part: until   *)
(* then the world is as it was, delivery stays at 98 percent or more, the  *)
(* detector at zero, and what was missed in our own shadow at one beacon   *)
(* in twenty-five.                                                         *)

\* On its own, without an event, a mission does not fly to where delivery drops.
MissionsStayNear ==
    \A s \in Scenarios : s.mission <= FarAway \/ s.fadesTo \subseteq 98 .. 100

AsAtFirst ==
    /\ jammerOn = [j \in DOMAIN sc.jammers |-> FALSE] /\ alive = [p \in Peers |-> TRUE]
    /\ faded = FALSE /\ hidden = FALSE /\ lora = FALSE /\ load = NominalLoad
    /\ pos \in Nat /\ pos <= sc.mission

NothingSeen ==
    /\ onset = NoOnset
    /\ cusum = 0 /\ base \in {-1} \cup 98 .. 100 /\ noiseBase \in {-1, 0}
    /\ shadow.exp \in Nat /\ shadow.miss \in Nat
    /\ shadow.silentExp \in Nat /\ shadow.silentMiss \in Nat
    /\ 25 * shadow.miss <= shadow.exp

NominalInv ==
    /\ turn \in {"world", "agent"}
    /\ onset = NoOnset => turn = "world"
    /\ evI = 1 => AsAtFirst /\ NothingSeen

LEMMA NoneDue ==
    ASSUME WorldInv, NEW kinds, NEW target
    PROVE  Due = {} => LastDue(kinds, target) = NotYet
<1> DEFINE i == LastDue(kinds, target)
<1>1. i = LastDue(kinds, target) OBVIOUS
<1> HIDE DEF i
<1>2. \/ i = NotYet
      \/ i \in Due /\ Events[i].kind \in kinds /\ Events[i].target = target
      BY <1>1, LastDueIsLast, Zenon
<1>3. QED BY <1>1, <1>2

\* A step that applies no event finds the world as it was.
LEMMA NoEventNoChange ==
    ASSUME WorldInv, AsAtFirst, Tick, Due = {}
    PROVE  /\ jammerOn' = [j \in DOMAIN sc.jammers |-> FALSE]
           /\ alive' = [p \in Peers |-> TRUE]
           /\ faded' = FALSE /\ hidden' = FALSE /\ lora' = FALSE /\ load' = NominalLoad
           /\ pos' \in Nat /\ pos' <= sc.mission /\ sc' = sc
<1>1. ApplyEvents /\ Move BY DEF Tick, Advance
<1>2. \A kinds, target : LastDue(kinds, target) = NotYet BY NoneDue
<1>3. \A now, target, on, off : Switched(now, target, on, off) = now BY <1>2 DEF Switched
<1>4. jammerOn' = [j \in DOMAIN jammerOn |-> jammerOn[j]]
  <2>1. jammerOn' = [j \in DOMAIN jammerOn |->
                       Switched(jammerOn[j], j, "jammer_on", "jammer_off")]
        BY <1>1 DEF ApplyEvents
  <2>2. \A j : Switched(jammerOn[j], j, "jammer_on", "jammer_off") = jammerOn[j] BY <1>3
  <2>3. QED BY <2>1, <2>2
<1>5. jammerOn' = [j \in DOMAIN sc.jammers |-> FALSE] BY <1>4 DEF AsAtFirst
<1>6. alive' = [p \in Peers |-> alive[p]]
  <2>1. alive' = [p \in Peers |-> Switched(alive[p], p, "node_up", "node_down")]
        BY <1>1 DEF ApplyEvents
  <2>2. \A p : Switched(alive[p], p, "node_up", "node_down") = alive[p] BY <1>3
  <2>3. QED BY <2>1, <2>2
<1>7. alive' = [p \in Peers |-> TRUE] BY <1>6 DEF AsAtFirst
<1>8. faded' = faded BY <1>1, <1>3 DEF ApplyEvents
<1>9. hidden' = hidden /\ load' = load BY <1>1, <1>2 DEF ApplyEvents
<1>10. lora' = lora /\ sc' = sc BY DEF Tick, Measure
<1>11. sc.mission \in Nat BY ScenarioFacts DEF WorldInv
<1>12. pos' \in Nat /\ pos' <= sc.mission BY <1>1, <1>11 DEF Move, AsAtFirst
<1>13. QED BY <1>5, <1>7, <1>8, <1>9, <1>10, <1>12 DEF AsAtFirst

\* The band is quiet and every link delivers almost everything.
LEMMA NominalLinks ==
    ASSUME MissionsStayNear, WorldInv, AsAtFirst, Tick, Due = {}, NEW links \in Links
    PROVE  /\ NoiseNow = 0 /\ Duty = 35 /\ ~ ReactiveOn
           /\ DOMAIN links = neighbors
           /\ \A p \in neighbors :
                 links[p].pdr \in 98 .. 100 /\ links[p].retry \in 0 .. 2 /\ links[p].hb = 0
<1>1. /\ jammerOn' = [j \in DOMAIN sc.jammers |-> FALSE]
      /\ alive' = [p \in Peers |-> TRUE]
      /\ faded' = FALSE /\ hidden' = FALSE /\ lora' = FALSE /\ load' = NominalLoad
      /\ pos' \in Nat /\ pos' <= sc.mission /\ sc' = sc
      BY NoEventNoChange
<1>2. {k \in DOMAIN sc.jammers : jammerOn'[k]} = {} BY <1>1
<1>3. NoiseNow = Highest({0}) BY <1>2 DEF NoiseNow, NoiseAt
<1>4. Highest({0}) = 0 BY DEF Highest
<1>5. NoiseNow = 0 BY <1>3, <1>4
<1>6. Duty = 35
  <2>1. (35 * load') \div 2 = 35 BY <1>1 DEF NominalLoad
  <2>2. QED BY <1>1, <2>1 DEF Duty, Smaller
<1>7. ~ ReactiveOn BY <1>1 DEF ReactiveOn
<1>8. Sinr \subseteq 98 .. 100
  <2>1. sc.mission \in Nat /\ sc \in Scenarios BY ScenarioFacts DEF WorldInv
  <2>2. pos' > FarAway => sc.fadesTo \subseteq 98 .. 100
    <3>1. sc.mission <= FarAway \/ sc.fadesTo \subseteq 98 .. 100
          BY <2>1 DEF MissionsStayNear
    <3>2. sc.mission <= FarAway => ~ (pos' > FarAway) BY <1>1, <2>1 DEF FarAway
    <3>3. QED BY <3>1, <3>2
  <2>3. {98, 100} \subseteq 98 .. 100 /\ {100} \subseteq 98 .. 100 OBVIOUS
  <2>4. ~ (0 >= KillDb) /\ ~ (0 > 0) BY DEF KillDb
  <2>5. Sinr = IF pos' > FarAway THEN sc.fadesTo ELSE IF sc.fading THEN {98, 100} ELSE {100}
        BY <1>1, <1>5, <2>4 DEF Sinr
  <2>6. QED BY <2>2, <2>3, <2>5
<1>9. Collisions = 0 BY <1>1 DEF Collisions, NominalLoad
<1>10. ASSUME NEW s \in 98 .. 100 PROVE Delivered(s) = s
  <2>1. lora = FALSE BY DEF AsAtFirst
  <2>2. LoraFloor = 0 BY <2>1 DEF LoraFloor
  <2>3. (s * (100 - 0)) \div 100 = s OBVIOUS
  <2>4. QED BY <1>9, <2>2, <2>3 DEF Delivered, Larger
<1>11. DOMAIN links = neighbors /\ \A p \in neighbors : links[p] \in LinkStates(p)
       BY DEF Links
<1>12. neighbors \subseteq Peers BY DEF WorldInv
<1>13. ASSUME NEW p \in neighbors
       PROVE  links[p].pdr \in 98 .. 100 /\ links[p].retry \in 0 .. 2 /\ links[p].hb = 0
  <2>1. alive'[p] BY <1>1, <1>12
  <2>2. links[p] \in LinkStates(p) BY <1>11
  <2>3. PICK d \in {Delivered(x) : x \in Sinr} : \E got \in Hears(d) :
           links[p] = [pdr |-> d,
                       retry |-> Smaller(100, IF Collisions > 0 THEN ((100 - d) * 13) \div 10
                                                                ELSE 100 - d),
                       hb |-> IF got THEN 0 ELSE hbAge[p] + 1]
        BY <2>1, <2>2 DEF LinkStates
  <2>4. d \in 98 .. 100 BY <1>8, <1>10
  <2>5. \A got \in Hears(d) : got = TRUE
    <3>1. ~ (d <= 5) /\ d >= 95 BY <2>4
    <3>2. QED BY <3>1 DEF Hears
  <2>6. links[p] = [pdr |-> d, retry |-> Smaller(100, 100 - d), hb |-> 0]
    <3>1. ~ (Collisions > 0) BY <1>9
    <3>2. QED BY <2>3, <2>5, <3>1
  <2>7. Smaller(100, 100 - d) \in 0 .. 2 BY <2>4 DEF Smaller
  <2>8. QED BY <2>4, <2>6, <2>7
<1>14. QED BY <1>5, <1>6, <1>7, <1>11, <1>13

\* A mean over the links, of a field that is between two bounds on each.
LEMMA MeanOfLinks ==
    ASSUME WorldInv, NEW links, DOMAIN links = neighbors, NEW field,
           NEW lo \in Int, NEW hi \in Int, \A p \in neighbors : links[p][field] \in lo .. hi
    PROVE  MeanOf(links, field) \in lo .. hi
<1>1. neighbors # {} /\ neighbors \subseteq Peers BY DEF WorldInv
<1>2. IsFiniteSet(neighbors) BY <1>1, Naturals, FS_Subset
<1> DEFINE f == [p \in neighbors |-> links[p][field]]
<1>3. links # <<>> BY <1>1
<1>4. MeanOf(links, field) = Mean(f) BY <1>3 DEF MeanOf
<1>5. f \in [neighbors -> Int] /\ \A p \in neighbors : lo <= f[p] /\ f[p] <= hi OBVIOUS
<1> HIDE DEF f
<1>6. Mean(f) \in lo .. hi BY <1>1, <1>2, <1>5, MeanBetween, Zenon
<1>7. QED BY <1>4, <1>6

\* Of n beacons, 2 percent lost are fewer than one in twenty-five.
LEMMA FewMissed ==
    ASSUME NEW n \in Nat, NEW l \in 0 .. 2
    PROVE  Round(n * l) \in Nat /\ 25 * Round(n * l) <= n
<1>1. CASE l = 0 BY <1>1 DEF Round
<1>2. CASE l = 1 BY <1>2 DEF Round
<1>3. CASE l = 2 BY <1>3 DEF Round
<1>4. QED BY <1>1, <1>2, <1>3

\* Such a share of the beacons is no evidence of a reactive jammer.
LEMMA NoShadow ==
    ASSUME NEW k, k.exp \in Nat, k.miss \in Nat, k.silentExp \in Nat, k.silentMiss \in Nat,
           25 * k.miss <= k.exp
    PROVE  ~ ShadowGate(k)
<1>1. ASSUME NEW e \in Nat, NEW m \in Nat, NEW f \in Nat, NEW n \in Nat, 25 * m <= e
      PROVE  ~ ((m * f - n * e) * 100 > 20 * e * f)
  <2>1. n * e \in Nat OBVIOUS
  <2>2. PICK r \in Nat : e = 25 * m + r BY <1>1, e - 25 * m \in Nat, e = 25 * m + (e - 25 * m)
  <2>3. m * f \in Nat /\ r * f \in Nat OBVIOUS
  <2>4. 20 * e * f = 500 * (m * f) + 20 * (r * f) BY <2>2
  <2>5. \A x, y, z \in Nat : ~ ((x - y) * 100 > 500 * x + 20 * z) OBVIOUS
  <2>6. QED BY <2>1, <2>3, <2>4, <2>5
<1>2. QED BY <1>1, Zenon DEF ShadowGate, ShadowUp

\* What the extractor is shown in a step without an event.
LEMMA NominalObservation ==
    ASSUME MissionsStayNear, WorldInv, AsAtFirst, Tick, Due = {}, NEW links \in Links,
           NEW o, o = Reduced(Observation(links))
    PROVE  /\ o.pdr \in 98 .. 100 /\ o.retry \in 0 .. 2 /\ o.noise = 0 /\ o.zeroRx = FALSE
           /\ o.shadowExp \in Nat /\ o.shadowMiss \in Nat /\ 25 * o.shadowMiss <= o.shadowExp
           /\ o.silentExp \in Nat /\ o.silentMiss \in Nat
<1>1. /\ NoiseNow = 0 /\ Duty = 35 /\ ~ ReactiveOn
      /\ DOMAIN links = neighbors
      /\ \A p \in neighbors :
            links[p].pdr \in 98 .. 100 /\ links[p].retry \in 0 .. 2 /\ links[p].hb = 0
      BY NominalLinks
<1> DEFINE obs == Observation(links)
<1>2. /\ obs.links = links /\ obs.noise = 0
      /\ obs.shadowExp = InShadow /\ obs.shadowMiss = ShadowMiss(MeanPdr(links))
      /\ obs.silentExp = DueBeacons - InShadow /\ obs.silentMiss = SilentMiss(MeanPdr(links))
      BY <1>1 DEF Observation
<1>3. /\ o.pdr = MeanOf(obs.links, "pdr") /\ o.retry = MeanOf(obs.links, "retry")
      /\ o.noise = obs.noise /\ o.zeroRx = ZeroRx(obs.links)
      /\ o.shadowExp = obs.shadowExp /\ o.shadowMiss = obs.shadowMiss
      /\ o.silentExp = obs.silentExp /\ o.silentMiss = obs.silentMiss
      BY DEF Reduced
<1> HIDE DEF obs
<1>4. MeanOf(links, "pdr") \in 98 .. 100
  <2>1. \A p \in neighbors : links[p]["pdr"] \in 98 .. 100 BY <1>1
  <2>2. 98 \in Int /\ 100 \in Int OBVIOUS
  <2>3. QED BY <1>1, <2>1, <2>2, MeanOfLinks, Zenon
<1>5. MeanOf(links, "retry") \in 0 .. 2
  <2>1. \A p \in neighbors : links[p]["retry"] \in 0 .. 2 BY <1>1
  <2>2. 0 \in Int /\ 2 \in Int OBVIOUS
  <2>3. QED BY <1>1, <2>1, <2>2, MeanOfLinks, Zenon
<1>6. ZeroRx(links) = FALSE
  <2>1. \A p \in DOMAIN links : ~ (links[p].hb > ZeroRxTicks) BY <1>1, Naturals
  <2>2. QED BY <2>1 DEF ZeroRx
<1>7. MeanPdr(links) = MeanOf(links, "pdr")
  <2>1. links # <<>> BY <1>1 DEF WorldInv
  <2>2. QED BY <2>1 DEF MeanPdr, MeanOf, Mean
<1>8. DueBeacons \in Nat \ {0}
  <2>1. neighbors # {} /\ neighbors \subseteq Peers BY DEF WorldInv
  <2>2. IsFiniteSet(neighbors) BY <2>1, Naturals, FS_Subset
  <2>3. QED BY <2>1, <2>2, FS_CardinalityType, FS_EmptySet DEF DueBeacons
<1>9. InShadow \in Nat /\ InShadow <= DueBeacons
  <2>1. Smaller(85, Larger(5, Duty)) = 35 BY <1>1 DEF Smaller, Larger
  <2>2. InShadow = Round(DueBeacons * 35) BY <2>1 DEF InShadow
  <2>3. \A n \in Nat \ {0} : Round(n * 35) \in Nat /\ Round(n * 35) <= n BY DEF Round
  <2>4. QED BY <1>8, <2>2, <2>3
<1> DEFINE m == MeanPdr(links)
<1>10. m \in 98 .. 100 BY <1>4, <1>7
<1> HIDE DEF m
<1>11. ShadowMiss(m) \in Nat /\ 25 * ShadowMiss(m) <= InShadow
  <2>1. ReactExtra = 0 BY <1>1 DEF ReactExtra
  <2>2. \A x \in 98 .. 100 : Smaller(100, 100 - x + (0 * x) \div 100) \in 0 .. 2 BY DEF Smaller
  <2>3. Smaller(100, 100 - m + (ReactExtra * m) \div 100) \in 0 .. 2 BY <1>10, <2>1, <2>2
  <2>4. QED BY <1>9, <2>3, FewMissed DEF ShadowMiss
<1>12. SilentMiss(m) \in Nat
  <2>1. DueBeacons - InShadow \in Nat /\ 100 - m \in 0 .. 2 BY <1>8, <1>9, <1>10
  <2>2. QED BY <2>1, FewMissed DEF SilentMiss
<1>13. DueBeacons - InShadow \in Nat BY <1>8, <1>9
<1>14. QED BY <1>2, <1>3, <1>4, <1>5, <1>6, <1>9, <1>11, <1>12, <1>13 DEF m

\* Such an observation moves no detector.
LEMMA NothingMore ==
    ASSUME NothingSeen, NEW o,
           o.pdr \in 98 .. 100, o.retry \in 0 .. 2, o.noise = 0, o.zeroRx = FALSE,
           o.shadowExp \in Nat, o.shadowMiss \in Nat, 25 * o.shadowMiss <= o.shadowExp,
           o.silentExp \in Nat, o.silentMiss \in Nat,
           cusum' = CusumUpdate(cusum, o.pdr, IF base = -1 THEN o.pdr ELSE base),
           Learn(o), shadow' = CountShadow(o), Latch(o)
    PROVE  NothingSeen'
<1>1. /\ onset = NoOnset
      /\ cusum = 0 /\ base \in {-1} \cup 98 .. 100 /\ noiseBase \in {-1, 0}
      /\ shadow.exp \in Nat /\ shadow.miss \in Nat
      /\ shadow.silentExp \in Nat /\ shadow.silentMiss \in Nat
      /\ 25 * shadow.miss <= shadow.exp
      BY DEF NothingSeen
<1>2. cusum' = 0
  <2>1. \A x \in 98 .. 100, b \in 98 .. 100 : CusumUpdate(0, x, b) = 0
        BY DEF CusumUpdate, Bigger, CusumK
  <2>2. (IF base = -1 THEN o.pdr ELSE base) \in 98 .. 100 BY <1>1
  <2>3. cusum' = CusumUpdate(0, o.pdr, IF base = -1 THEN o.pdr ELSE base) BY <1>1
  <2> HIDE DEF CusumUpdate
  <2>4. QED BY <2>1, <2>2, <2>3
<1>3. base' \in 98 .. 100
  <2>1. base' \in Drifts(base, o.pdr) BY <1>1 DEF Learn
  <2>2. \A b \in {-1} \cup 98 .. 100, x \in 98 .. 100 : \A c \in Drifts(b, x) : c \in 98 .. 100
        BY DEF Drifts
  <2>3. QED BY <1>1, <2>1, <2>2
<1>4. noiseBase' = 0
  <2>1. noiseBase' \in Drifts(noiseBase, 0) BY <1>1 DEF Learn
  <2>2. \A b \in {-1, 0} : \A c \in Drifts(b, 0) : c = 0 BY DEF Drifts
  <2>3. QED BY <1>1, <2>1, <2>2
<1>5. /\ shadow'.exp \in Nat /\ shadow'.miss \in Nat
      /\ shadow'.silentExp \in Nat /\ shadow'.silentMiss \in Nat
      /\ 25 * shadow'.miss <= shadow'.exp
  <2>1. /\ shadow'.exp = shadow.exp + o.shadowExp /\ shadow'.miss = shadow.miss + o.shadowMiss
        /\ shadow'.silentExp = shadow.silentExp + o.silentExp
        /\ shadow'.silentMiss = shadow.silentMiss + o.silentMiss
        BY DEF CountShadow
  <2>2. QED BY <1>1, <2>1
<1>6. Trigger(o) = "none"
  <2>1. ~ (cusum' > CusumH) BY <1>2, Naturals
  <2>2. ~ (o.noise - noiseBase' > NoiseUpDb) BY <1>4 DEF NoiseUpDb
  <2>3. ~ (o.retry > RetryUp) BY DEF RetryUp
  <2>4. ~ ShadowGate(shadow') BY <1>5, NoShadow
  <2>5. QED BY <2>1, <2>2, <2>3, <2>4 DEF Trigger
<1>7. onset' = NoOnset BY <1>1, <1>6 DEF Latch
<1>8. QED BY <1>2, <1>3, <1>4, <1>5, <1>7 DEF NothingSeen

LEMMA NominalTick ==
    ASSUME MissionsStayNear, WorldInv, NominalInv, Tick
    PROVE  NominalInv'
<1>1. /\ evI \in 1 .. Len(Events) + 1 /\ evI' \in evI .. Len(Events) + 1
      /\ Due = evI .. evI' - 1
      BY TickDoes DEF WorldInv
<1>2. turn' \in {"world", "agent"} /\ (onset' = NoOnset => turn' = "world") BY DEF Tick
<1>3. ASSUME evI' = 1 PROVE AsAtFirst' /\ NothingSeen'
  <2>1. evI = 1 /\ Due = {} BY <1>1, <1>3
  <2>2. AsAtFirst /\ NothingSeen BY <2>1 DEF NominalInv
  <2>3. AsAtFirst' BY <2>1, <2>2, NoEventNoChange DEF AsAtFirst
  <2>4. PICK links \in Links : Update(Observation(links)) BY TickDoes
  <2> DEFINE o == Reduced(Observation(links))
  <2>5. /\ cusum' = CusumUpdate(cusum, o.pdr, IF base = -1 THEN o.pdr ELSE base)
        /\ Learn(o) /\ shadow' = CountShadow(o) /\ Latch(o)
        BY <2>4 DEF Update
  <2>6. /\ o.pdr \in 98 .. 100 /\ o.retry \in 0 .. 2 /\ o.noise = 0 /\ o.zeroRx = FALSE
        /\ o.shadowExp \in Nat /\ o.shadowMiss \in Nat /\ 25 * o.shadowMiss <= o.shadowExp
        /\ o.silentExp \in Nat /\ o.silentMiss \in Nat
        BY <2>1, <2>2, NominalObservation
  <2> HIDE DEF o
  <2>7. NothingSeen' BY <2>2, <2>5, <2>6, NothingMore
  <2>8. QED BY <2>3, <2>7
<1>4. QED BY <1>2, <1>3 DEF NominalInv

LEMMA NominalCall ==
    ASSUME WorldInv, NominalInv, Call
    PROVE  NominalInv'
<1>1. turn = "agent" /\ turn' = "world" BY DEF Call
<1>2. evI' = evI BY CallKeeps
<1>3. onset # NoOnset BY <1>1 DEF NominalInv
<1>4. evI # 1 BY <1>3 DEF NominalInv, NothingSeen
<1>5. QED BY <1>1, <1>2, <1>4 DEF NominalInv

\* Nothing opens the gate before something has happened: on a nominal link, with or
\* without mild fading, neither the wobble of delivery nor the start of the episode
\* does, for any number of peers and any thresholds (percept/features.py, the gate's
\* triggers).  A mission that flies to where delivery drops is something happening,
\* which the scenario does not list as an event: hence the premise.
THEOREM GateCausal ==
    ASSUME MissionsStayNear
    PROVE  Spec => []GateIsCausal
<1> DEFINE Inv == WorldInv /\ NominalInv
<1>1. Init => Inv
  <2> SUFFICES ASSUME Init PROVE Inv
      OBVIOUS
  <2>1. WorldInv BY WorldStart
  <2>2. sc.mission \in Nat BY <2>1, ScenarioFacts DEF WorldInv
  <2>3. AsAtFirst BY <2>2 DEF Init, RefSimInit, AsAtFirst
  <2>4. NothingSeen BY DEF Init, PerceptInit, NothingSeen
  <2>5. turn = "world" BY DEF Init
  <2>6. QED BY <2>1, <2>3, <2>4, <2>5 DEF NominalInv
<1>2. Inv /\ [Next]_vars => Inv'
  <2> SUFFICES ASSUME Inv, [Next]_vars PROVE Inv'
      OBVIOUS
  <2>1. WorldInv' BY WorldKeeps
  <2>2. CASE Tick BY <2>1, <2>2, NominalTick
  <2>3. CASE Call BY <2>1, <2>3, NominalCall
  <2>4. CASE UNCHANGED vars
    <3>1. NominalInv' BY <2>4 DEF vars, world, perceptVars, NominalInv, AsAtFirst, NothingSeen
    <3>2. QED BY <2>1, <3>1
  <2>5. QED BY <2>2, <2>3, <2>4 DEF Next
<1>3. Inv => GateIsCausal
  <2>1. WorldInv => evI \in Nat /\ evI >= 1 BY DEF WorldInv
  <2>2. NominalInv /\ onset # NoOnset => evI # 1 BY DEF NominalInv, NothingSeen
  <2>3. evI \in Nat /\ evI >= 1 /\ evI # 1 => evI > 1 OBVIOUS
  <2>4. QED BY <2>1, <2>2, <2>3 DEF GateIsCausal
<1>4. QED BY <1>1, <1>2, <1>3, PTL DEF Spec

-----------------------------------------------------------------------------
(* A hot channel moves only when a jammer sweeps.                          *)

\* A finite set has a greatest element by any measure.
LEMMA GreatestOf ==
    ASSUME NEW D, IsFiniteSet(D), D # {}, NEW f \in [D -> Int]
    PROVE  \E x \in D : \A y \in D : f[y] <= f[x]
<1> DEFINE n == Cardinality(D)
<1>1. n \in Nat /\ n # 0 /\ ExistsBijection(1 .. n, D) BY FS_CardinalityType, FS_EmptySet
<1>2. PICK e \in Bijection(1 .. n, D) : TRUE BY <1>1 DEF ExistsBijection
<1> HIDE DEF n
<1>3. /\ \A i \in 1 .. n : e[i] \in D
      /\ \A y \in D : \E i \in 1 .. n : e[i] = y
      BY <1>2 DEF Bijection, Injection, Surjection
<1>4. PICK v \in [1 .. n -> Int] : \A i \in 1 .. n : v[i] = f[e[i]]
  <2> DEFINE w == [i \in 1 .. n |-> f[e[i]]]
  <2>1. w \in [1 .. n -> Int] /\ \A i \in 1 .. n : w[i] = f[e[i]] BY <1>3
  <2>2. QED BY <2>1
<1> DEFINE Top(k) == \E i \in 1 .. k : \A j \in 1 .. k : v[j] <= v[i]
           Bad == {k \in 1 .. n : ~ Top(k)}
<1>5. Bad = {}
  <2> SUFFICES ASSUME Bad # {} PROVE FALSE
      OBVIOUS
  <2>1. Bad \in SUBSET Nat BY <1>1
  <2>2. PICK k \in Bad : \A m \in Bad : k <= m
    <3> HIDE DEF Bad
    <3> QED BY <2>1, LeastNatural
  <2>3. k \in 1 .. n /\ ~ Top(k) BY <2>2
  <2>4. CASE k = 1
    <3>1. 1 .. k = {1} BY <2>4
    <3>2. v[1] \in Int BY <1>1, <1>4
    <3>3. v[1] <= v[1] BY <1>1, <3>2
    <3>4. \A j \in 1 .. k : v[j] <= v[1] BY <3>1, <3>3
    <3>5. 1 \in 1 .. k BY <3>1
    <3>6. QED BY <2>3, <3>4, <3>5
  <2>5. CASE k # 1
    <3>1. k - 1 \in 1 .. n /\ ~ (k <= k - 1) BY <1>1, <2>3, <2>5
    <3>2. PICK i \in 1 .. k - 1 : \A j \in 1 .. k - 1 : v[j] <= v[i]
          BY <2>2, <3>1
    <3>3. \A j \in 1 .. k : j \in 1 .. n /\ (j = k \/ j \in 1 .. k - 1)
          BY <1>1, <2>3
    <3>4. i \in 1 .. k /\ k \in 1 .. k BY <2>3, <3>2
    <3>5. \A j \in 1 .. k : v[j] \in Int BY <1>4, <3>3
    <3>6. CASE v[k] <= v[i] BY <2>3, <3>2, <3>3, <3>4, <3>6
    <3>7. CASE ~ (v[k] <= v[i])
      <4>1. v[i] \in Int /\ v[k] \in Int BY <3>4, <3>5
      <4>2. ASSUME NEW j \in 1 .. k PROVE v[j] <= v[k]
        <5>1. j = k \/ v[j] <= v[i] BY <3>2, <3>3
        <5>2. v[j] \in Int BY <3>5
        <5>3. CASE j = k BY <4>1, <5>3
        <5>4. CASE v[j] <= v[i]
          <6> SUFFICES ASSUME NEW a, NEW b, NEW c, a \in Int, b \in Int, c \in Int,
                              a <= b, ~ (c <= b)
                       PROVE  a <= c
              BY <3>7, <4>1, <5>2, <5>4, Zenon
          <6> QED OBVIOUS
        <5>5. QED BY <5>1, <5>3, <5>4
      <4>3. QED BY <2>3, <3>4, <4>2
    <3>8. QED BY <3>6, <3>7
  <2>6. QED BY <2>4, <2>5
<1>6. n \in 1 .. n BY <1>1
<1>7. PICK i \in 1 .. n : \A j \in 1 .. n : v[j] <= v[i] BY <1>5, <1>6
<1>8. \A y \in D : f[y] <= f[e[i]] BY <1>3, <1>4, <1>7
<1>9. QED BY <1>3, <1>8

\* A leak in dB: none on the channel itself.
LEMMA LeakIs == \A c, d \in Nat : LeakDb(Dist(c, d)) \in Nat /\ LeakDb(Dist(c, c)) = 0
<1>1. ASSUME NEW o \in Nat PROVE LeakDb(o) \in Nat
  <2>1. CASE o > 5 BY <2>1 DEF LeakDb
  <2>2. CASE o \in 0 .. 5
    <3>1. o + 1 \in 1 .. 6 BY <2>2
    <3>2. <<0, 3, 8, 15, 28, 40>> \in Seq(Nat) OBVIOUS
    <3>3. <<0, 3, 8, 15, 28, 40>>[o + 1] \in Nat BY <3>1, <3>2
    <3>4. QED BY <2>2, <3>3 DEF LeakDb
  <2>3. QED BY <2>1, <2>2
<1>2. \A c, d \in Nat : Dist(c, d) \in Nat /\ Dist(c, c) = 0 BY DEF Dist
<1>3. LeakDb(0) = 0 BY DEF LeakDb
<1>4. QED BY <1>1, <1>2, <1>3

\* A radio has a channel.
LEMMA SomeChannel == Scenarios # {} => Channels # {}
BY RefSimAssumption DEF ScenarioOK

\* The greatest of a set of numbers.
LEMMA HighestIs ==
    ASSUME NEW S \in SUBSET Int, NEW x \in S, \A y \in S : y <= x
    PROVE  Highest(S) = x
<1> DEFINE h == Highest(S)
<1>1. h \in S /\ \A y \in S : y <= h BY DEF Highest
<1> HIDE DEF h
<1>2. h \in Int /\ x \in Int /\ x <= h /\ h <= x BY <1>1
<1>3. h = x BY <1>2
<1>4. QED BY <1>3 DEF h

\* A scenario with a sweeping jammer.
Sweeps(s) == \E j \in DOMAIN s.jammers : s.jammers[j].kind = "sweep"

\* A jammer that is as strong on every channel, and one that no scan sees.
Even(s, j) == s.jammers[j].kind = "barrage" /\ s.jammers[j].channels \in {{}, Channels}
Unseen(s, j) == s.jammers[j].kind = "reactive"

Uneven(s) == {j \in DOMAIN s.jammers : ~ Even(s, j) /\ ~ Unseen(s, j)}

\* No scenario has two jammers on parts of the band, as all of scenario/library.py and
\* of scenario/corpus.py (two alternating ones would look like a sweep).
OnePartial == \A s \in Scenarios : ~ Sweeps(s) => \A j, k \in Uneven(s) : j = k

\* Where a jammer that neither sweeps nor reacts radiates.
Band(j) == IF sc.jammers[j].kind = "spot" THEN sc.jammers[j].channels ELSE Targets(j)

\* What it loses on its way to channel c.
Loss(j, c) == CHOOSE k \in {LeakDb(Dist(c, d)) : d \in Band(j)} :
                  \A l \in {LeakDb(Dist(c, d)) : d \in Band(j)} : k <= l

\* The lowest of the channels it is strongest on.
Peak(h) == \E j \in Uneven(sc) : Band(j) # {} /\ \A c \in Channels :
               Loss(j, h) < Loss(j, c) \/ (Loss(j, h) = Loss(j, c) /\ h <= c)

\* The inductive part: what is remembered is a peak of the scenario, and a reactive
\* jammer has stopped by the time of a scan.
HotInv ==
    /\ pos \in Nat /\ reactiveUntil \in Int /\ reactiveUntil < t
    /\ ~ Sweeps(sc) => hot \in Seq(Channels) /\ \A i \in DOMAIN hot : Peak(hot[i])

\* What a scenario says of a jammer.
LEMMA BandFacts ==
    ASSUME sc \in Scenarios, NEW j \in DOMAIN sc.jammers
    PROVE  /\ Band(j) \subseteq Channels /\ sc.jammers[j].db \in Nat
           /\ sc.jammers[j].kind \in JammerKinds
           /\ IsFiniteSet(DOMAIN sc.jammers)
           /\ Channels \subseteq Nat /\ IsFiniteSet(Channels) /\ Channels # {}
<1>1. ScenarioOK(sc) BY RefSimAssumption
<1>2. QED BY <1>1, RefSimAssumption DEF ScenarioOK, Band, Targets

\* The least leak of those from the channels it is on.
LEMMA LossIs ==
    ASSUME sc \in Scenarios, NEW j \in DOMAIN sc.jammers, Band(j) # {}, NEW c \in Channels
    PROVE  /\ Loss(j, c) \in Nat
           /\ \E d \in Band(j) : Loss(j, c) = LeakDb(Dist(c, d))
           /\ \A d \in Band(j) : Loss(j, c) <= LeakDb(Dist(c, d))
<1> DEFINE L == {LeakDb(Dist(c, d)) : d \in Band(j)}
<1>1. L \in SUBSET Nat /\ L # {} BY BandFacts, LeakIs
<1>2. \E k \in L : \A l \in L : k <= l
  <2> HIDE DEF L
  <2> QED BY <1>1, LeastNatural
<1>3. Loss(j, c) \in L /\ \A l \in L : Loss(j, c) <= l BY <1>2 DEF Loss
<1>4. QED BY <1>1, <1>3

\* What a scan of channel c finds.
Level(c) == NoiseAt(c, jammerOn, t, reactiveUntil, channel, pos)

\* The floor that the even jammers raise is the same on every channel.
Raised(F) ==
    \/ \A c \in Channels : Level(c) = F
    \/ \E j \in Uneven(sc), X \in Int :
          /\ Band(j) # {}
          /\ \A c \in Channels : Level(c) = Larger(F, X - Loss(j, c))

\* The strength of a jammer here, and what of it a scan finds on a channel.
Power(j) == sc.jammers[j].db - StepDb * pos

Found(j, c) == {Power(j) - LeakDb(Dist(c, d)) : d \in Radiates(j, t, reactiveUntil, channel)}

\* Each kind of jammer, as a scan finds it.
LEMMA FoundIs ==
    ASSUME sc \in Scenarios, t \in Nat, HotInv, ~ Sweeps(sc), NEW j \in DOMAIN sc.jammers
    PROVE  /\ Power(j) \in Int
           /\ Even(sc, j) => \A c \in Channels :
                 /\ Power(j) \in Found(j, c)
                 /\ \A x \in Found(j, c) : x \in Int /\ x <= Power(j)
           /\ Unseen(sc, j) => \A c \in Channels : Found(j, c) = {}
           /\ j \in Uneven(sc) => \A c \in Channels :
                 Found(j, c) = {Power(j) - LeakDb(Dist(c, d)) : d \in Band(j)}
<1>1. /\ Band(j) \subseteq Channels /\ sc.jammers[j].db \in Nat
      /\ Channels \subseteq Nat /\ Channels # {}
      /\ sc.jammers[j].kind \in JammerKinds
      BY BandFacts
<1>2. Power(j) \in Int BY <1>1 DEF Power, StepDb, HotInv
<1>3. sc.jammers[j].kind # "sweep" BY DEF Sweeps
<1>4. CASE Even(sc, j)
  <2>1. sc.jammers[j].kind = "barrage" /\ Targets(j) = Channels
        BY <1>1, <1>4 DEF Even, Targets
  <2>2. \A c \in Channels : Found(j, c) = {Power(j) - LeakDb(Dist(c, d)) : d \in Channels}
        BY <2>1 DEF Found, Radiates
  <2>3. ASSUME NEW c \in Channels
        PROVE  /\ Power(j) \in Found(j, c)
               /\ \A x \in Found(j, c) : x \in Int /\ x <= Power(j)
    <3>1. \A d \in Channels : LeakDb(Dist(c, d)) \in Nat /\ LeakDb(Dist(c, c)) = 0
          BY <1>1, LeakIs
    <3>2. Power(j) - LeakDb(Dist(c, c)) = Power(j) BY <1>2, <3>1
    <3>3. \A d \in Channels : /\ Power(j) - LeakDb(Dist(c, d)) \in Int
                              /\ Power(j) - LeakDb(Dist(c, d)) <= Power(j)
          BY <1>2, <3>1
    <3>4. QED BY <2>2, <3>2, <3>3
  <2>4. QED BY <1>2, <1>4, <2>1, <2>3 DEF Unseen, Uneven
<1>5. CASE Unseen(sc, j)
  <2>1. t > reactiveUntil BY DEF HotInv
  <2>2. Radiates(j, t, reactiveUntil, channel) = {} BY <1>5, <2>1 DEF Unseen, Radiates
  <2>3. QED BY <1>2, <1>5, <2>2 DEF Found, Unseen, Even, Uneven
<1>6. CASE ~ Even(sc, j) /\ ~ Unseen(sc, j)
  <2>1. sc.jammers[j].kind \in {"barrage", "spot"} BY <1>1, <1>3, <1>6 DEF Unseen, JammerKinds
  <2>2. Radiates(j, t, reactiveUntil, channel) = Band(j) BY <2>1 DEF Radiates, Band
  <2>3. QED BY <1>2, <1>6, <2>2 DEF Found
<1>7. QED BY <1>4, <1>5, <1>6

\* The even jammers raise the floor, and the other one, if any, what is above it.
LEMMA ScanRaised ==
    ASSUME sc \in Scenarios, t \in Nat, HotInv, ~ Sweeps(sc), OnePartial
    PROVE  \E F \in Nat : Raised(F)
<1> DEFINE On == {k \in DOMAIN sc.jammers : jammerOn[k]}
           E == {k \in On : Even(sc, k)}
           S(c) == {0} \cup UNION {Found(k, c) : k \in On}
<1>1. \A c : Level(c) = Highest(S(c)) BY DEF Level, NoiseAt, Found, Power
<1>2. \A k \in On : k \in DOMAIN sc.jammers OBVIOUS
<1>3. PICK F \in Nat : /\ F = 0 \/ \E k \in E : F = Power(k)
                       /\ \A k \in E : Power(k) <= F
  <2>1. CASE E = {} BY <2>1
  <2>2. CASE E # {}
    <3> DEFINE f == [k \in E |-> Power(k)]
    <3>1. f \in [E -> Int] BY FoundIs
    <3>2. IsFiniteSet(E)
      <4>1. PICK k \in DOMAIN sc.jammers : TRUE BY <2>2
      <4>2. IsFiniteSet(DOMAIN sc.jammers) BY <4>1, BandFacts
      <4>3. E \in SUBSET DOMAIN sc.jammers OBVIOUS
      <4> HIDE DEF E
      <4>4. QED BY <4>2, <4>3, FS_Subset
    <3>3. PICK x \in E : \A y \in E : f[y] <= f[x]
      <4> HIDE DEF E, f
      <4> QED BY <2>2, <3>1, <3>2, GreatestOf
    <3>4. \A y \in E : Power(y) <= Power(x) /\ Power(y) \in Int BY <3>1, <3>3
    <3>5. CASE Power(x) >= 0
      <4>1. Power(x) \in Nat BY <3>4, <3>5
      <4>2. QED BY <3>4, <4>1
    <3>6. CASE ~ (Power(x) >= 0)
      <4>1. \A y \in E : Power(y) <= 0 BY <3>4, <3>6
      <4>2. QED BY <4>1
    <3>7. QED BY <3>5, <3>6
  <2>3. QED BY <2>1, <2>2
<1>4. \A c \in Channels, k \in E : \A x \in Found(k, c) : x \in Int /\ x <= F
  <2> SUFFICES ASSUME NEW c \in Channels, NEW k \in E, NEW x \in Found(k, c)
               PROVE  x \in Int /\ x <= F
      OBVIOUS
  <2>1. x \in Int /\ x <= Power(k) /\ Power(k) \in Int BY FoundIs
  <2>2. QED BY <1>3, <2>1
<1>5. \A c \in Channels : F \in S(c)
  <2>1. \A c \in Channels, k \in E : Power(k) \in Found(k, c) BY FoundIs
  <2>2. QED BY <1>3, <2>1
<1>6. \A c \in Channels, k \in On : Unseen(sc, k) => Found(k, c) = {} BY FoundIs
<1>7. \A k \in On : k \in E \/ Unseen(sc, k) \/ k \in Uneven(sc) BY DEF Uneven
<1>8. CASE \A k \in On \cap Uneven(sc) : Band(k) = {}
  <2>1. \A c \in Channels, k \in On \cap Uneven(sc) : Found(k, c) = {} BY <1>8, FoundIs
  <2>2. \A c \in Channels : \A x \in S(c) : x \in Int /\ x <= F
        BY <1>3, <1>4, <1>6, <1>7, <2>1
  <2> HIDE DEF S
  <2>3. \A c \in Channels : Level(c) = F BY <1>1, <1>5, <2>2, HighestIs
  <2>4. QED BY <2>3 DEF Raised
<1>9. CASE \E k \in On \cap Uneven(sc) : Band(k) # {}
  <2>1. PICK j \in On \cap Uneven(sc) : Band(j) # {} BY <1>9
  <2>2. \A k \in Uneven(sc) : k = j BY <2>1 DEF OnePartial
  <2> DEFINE X == Power(j)
  <2>3. X \in Int BY <2>1, FoundIs
  <2>4. ASSUME NEW c \in Channels PROVE Level(c) = Larger(F, X - Loss(j, c))
    <3> DEFINE top == X - Loss(j, c)
    <3>1. /\ Loss(j, c) \in Nat
          /\ \E d \in Band(j) : Loss(j, c) = LeakDb(Dist(c, d))
          /\ \A d \in Band(j) : Loss(j, c) <= LeakDb(Dist(c, d))
          BY <2>1, LossIs
    <3>2. Found(j, c) = {X - LeakDb(Dist(c, d)) : d \in Band(j)} BY <2>1, FoundIs
    <3>3. \A d \in Band(j) : LeakDb(Dist(c, d)) \in Nat
      <4>1. Band(j) \subseteq Channels /\ Channels \subseteq Nat BY <2>1, BandFacts
      <4>2. QED BY <4>1, LeakIs
    <3>4. top \in Found(j, c) BY <3>1, <3>2
    <3>5. \A x \in Found(j, c) : x \in Int /\ x <= top
      <4> SUFFICES ASSUME NEW d \in Band(j)
                   PROVE  X - LeakDb(Dist(c, d)) \in Int /\ X - LeakDb(Dist(c, d)) <= top
          BY <3>2
      <4>1. LeakDb(Dist(c, d)) \in Nat /\ Loss(j, c) <= LeakDb(Dist(c, d)) BY <3>1, <3>3
      <4> HIDE DEF X
      <4>2. QED BY <2>3, <3>1, <4>1
    <3>6. top \in Int BY <2>3, <3>1
    <3>7. \A x \in S(c) : x \in Int /\ (x <= F \/ x <= top)
          BY <1>3, <1>4, <1>6, <1>7, <2>2, <3>5
    <3>8. F \in S(c) /\ top \in S(c) BY <1>5, <2>1, <3>4
    <3> HIDE DEF top, S, X
    <3>9. \A x \in S(c) : x \in Int /\ x <= Larger(F, top)
          BY <1>3, <3>6, <3>7 DEF Larger
    <3>10. Larger(F, top) \in S(c) BY <3>8 DEF Larger
    <3>11. S(c) \in SUBSET Int BY <3>9
    <3>12. Highest(S(c)) = Larger(F, top) BY <3>9, <3>10, <3>11, HighestIs
    <3>13. QED BY <1>1, <3>12 DEF top
  <2>5. QED BY <2>1, <2>3, <2>4 DEF Raised
<1>10. QED BY <1>8, <1>9

\* One channel comes before all others among the loudest.
LEMMA HottestIs ==
    ASSUME Channels # {}, NEW scan, DOMAIN scan = Channels, \A c \in Channels : scan[c] \in Int
    PROVE  /\ Hottest(scan) \in Channels
           /\ \A d \in Channels : \/ scan[d] < scan[Hottest(scan)]
                                  \/ scan[d] = scan[Hottest(scan)] /\ Hottest(scan) <= d
<1>1. IsFiniteSet(Channels) /\ Channels \subseteq Nat BY RefSimAssumption
<1>2. CASE Channels # {}
  <2> DEFINE f == [c \in Channels |-> scan[c]]
  <2>1. f \in [Channels -> Int] OBVIOUS
  <2>2. PICK x \in Channels : \A y \in Channels : f[y] <= f[x]
    <3> HIDE DEF f
    <3> QED BY <1>1, <1>2, <2>1, GreatestOf
  <2>3. \A y \in Channels : scan[y] <= scan[x] BY <2>2
  <2> DEFINE T == {y \in Channels : scan[y] = scan[x]}
  <2>4. T \in SUBSET Nat /\ T # {} BY <1>1
  <2>5. PICK h \in T : \A m \in T : h <= m
    <3> HIDE DEF T
    <3> QED BY <2>4, LeastNatural
  <2>6. \A y \in Channels : scan[y] < scan[h] \/ (scan[h] = scan[y] /\ h <= y)
    <3> SUFFICES ASSUME NEW y \in Channels
                 PROVE  scan[y] < scan[h] \/ (scan[h] = scan[y] /\ h <= y)
        OBVIOUS
    <3>1. scan[y] <= scan[h] /\ scan[y] \in Int /\ scan[h] \in Int BY <2>3, <2>5
    <3>2. CASE scan[y] = scan[h] BY <2>5, <3>2
    <3>3. CASE scan[y] # scan[h] BY <3>1, <3>3
    <3>4. QED BY <3>2, <3>3
  <2>7. h \in DOMAIN scan /\ \A y \in DOMAIN scan :
           scan[y] < scan[h] \/ (scan[y] = scan[h] /\ h <= y) BY <2>5, <2>6
  <2>8. QED BY <2>7 DEF Hottest
<1>3. QED BY <1>2

\* A band on which nothing is louder than the rest has no channel that stands out.
LEMMA FlatIsQuiet ==
    ASSUME Channels # {}, NEW scan, DOMAIN scan = Channels, NEW F \in Int, \A c \in Channels : scan[c] = F
    PROVE  ~ StandsOut(scan)
<1>1. IsFiniteSet(Channels) /\ Channels # {} BY RefSimAssumption
<1>2. Cardinality(Channels) \in Nat /\ Cardinality(Channels) # 0
      BY <1>1, FS_CardinalityType, FS_EmptySet
<1>3. Range(scan) = {F} BY <1>1 DEF Range
<1>4. {c \in DOMAIN scan : scan[c] < F} = {} /\ {c \in DOMAIN scan : scan[c] <= F} = Channels
      OBVIOUS
<1>5. Cardinality({c \in DOMAIN scan : scan[c] < F}) = 0 BY <1>4, FS_EmptySet
<1>6. /\ 0 <= Cardinality(Channels) \div 2
      /\ Cardinality(Channels) > Cardinality(Channels) \div 2
      BY <1>2
<1>7. Median(scan) = F BY <1>3, <1>4, <1>5, <1>6 DEF Median
<1>8. scan[Hottest(scan)] = F BY HottestIs
<1>9. QED BY <1>7, <1>8 DEF StandsOut, PeakDb

\* So a channel that stands out is the first of those the one uneven jammer is
\* strongest on.
LEMMA StandsOutAtPeak ==
    ASSUME sc \in Scenarios, t \in Nat, HotInv, ~ Sweeps(sc), OnePartial,
           StandsOut(Scan(Channels))
    PROVE  Peak(Hottest(Scan(Channels)))
<1> DEFINE scan == Scan(Channels)
           h == Hottest(scan)
<1>1. DOMAIN scan = Channels /\ \A c \in Channels : scan[c] = Level(c) BY DEF Scan, Level
<1>2. PICK F \in Nat : Raised(F) BY ScanRaised
<1>0. Channels # {} BY SomeChannel
<1>3. ~ \A c \in Channels : Level(c) = F BY <1>0, <1>1, <1>2, FlatIsQuiet
<1>4. PICK j \in Uneven(sc), X \in Int :
          /\ Band(j) # {}
          /\ \A c \in Channels : Level(c) = Larger(F, X - Loss(j, c))
      BY <1>2, <1>3 DEF Raised
<1>5. \A c \in Channels : Loss(j, c) \in Nat BY <1>4, LossIs DEF Uneven
<1>6. \A c \in Channels : /\ scan[c] \in Int /\ scan[c] >= F
                          /\ scan[c] >= X - Loss(j, c)
                          /\ scan[c] = F \/ scan[c] = X - Loss(j, c)
  <2> SUFFICES ASSUME NEW c \in Channels
               PROVE  /\ scan[c] \in Int /\ scan[c] >= F
                      /\ scan[c] >= X - Loss(j, c)
                      /\ scan[c] = F \/ scan[c] = X - Loss(j, c)
      OBVIOUS
  <2>1. Loss(j, c) \in Nat /\ scan[c] = Larger(F, X - Loss(j, c)) BY <1>1, <1>4, <1>5
  <2>2. QED BY <2>1 DEF Larger
<1> HIDE DEF scan
<1>7. /\ h \in Channels
      /\ \A d \in Channels : scan[d] < scan[h] \/ (scan[d] = scan[h] /\ h <= d)
      BY <1>0, <1>1, <1>6, HottestIs
<1> HIDE DEF h
<1>8. scan[h] # F
  <2> SUFFICES ASSUME scan[h] = F PROVE FALSE
      OBVIOUS
  <2>1. \A c \in Channels : scan[c] = F
    <3> SUFFICES ASSUME NEW c \in Channels PROVE scan[c] = F
        OBVIOUS
    <3>1. scan[c] \in Int /\ scan[c] >= F /\ (scan[c] < scan[h] \/ scan[c] = scan[h])
          BY <1>6, <1>7
    <3>2. QED BY <3>1
  <2>2. QED BY <1>1, <1>3, <2>1
<1>9. \A c \in Channels : Loss(j, h) < Loss(j, c) \/ (Loss(j, h) = Loss(j, c) /\ h <= c)
  <2> SUFFICES ASSUME NEW c \in Channels
               PROVE  Loss(j, h) < Loss(j, c) \/ (Loss(j, h) = Loss(j, c) /\ h <= c)
      OBVIOUS
  <2>1. /\ Loss(j, c) \in Nat /\ Loss(j, h) \in Nat /\ scan[c] \in Int /\ scan[h] \in Int
        /\ scan[h] = X - Loss(j, h) /\ scan[h] >= F
        /\ scan[c] >= X - Loss(j, c)
        /\ scan[c] < scan[h] \/ (scan[c] = scan[h] /\ h <= c)
        /\ scan[c] = F \/ scan[c] = X - Loss(j, c)
        BY <1>5, <1>6, <1>7, <1>8
  <2>2. CASE Loss(j, c) = Loss(j, h)
    <3>1. ~ (scan[c] < scan[h]) BY <2>1, <2>2
    <3>2. QED BY <2>1, <2>2, <3>1
  <2>3. CASE Loss(j, c) # Loss(j, h) BY <2>1, <2>3
  <2>4. QED BY <2>2, <2>3
<1>10. QED BY <1>4, <1>9 DEF Peak, h, scan

\* There is one such channel.
LEMMA OnePeak ==
    ASSUME sc \in Scenarios, ~ Sweeps(sc), OnePartial,
           NEW h \in Channels, NEW k \in Channels, Peak(h), Peak(k)
    PROVE  h = k
<1>1. PICK j \in Uneven(sc) : Band(j) # {} /\ \A c \in Channels :
          Loss(j, h) < Loss(j, c) \/ (Loss(j, h) = Loss(j, c) /\ h <= c)
      BY DEF Peak
<1>2. PICK i \in Uneven(sc) : \A c \in Channels :
          Loss(i, k) < Loss(i, c) \/ (Loss(i, k) = Loss(i, c) /\ k <= c)
      BY DEF Peak
<1>3. i = j BY DEF OnePartial
<1>4. h \in Nat /\ k \in Nat BY RefSimAssumption
<1>5. Loss(j, h) < Loss(j, k) \/ (Loss(j, h) = Loss(j, k) /\ h <= k) BY <1>1
<1>6. Loss(j, k) < Loss(j, h) \/ (Loss(j, k) = Loss(j, h) /\ k <= h) BY <1>2, <1>3
<1>7. Band(j) # {} => Loss(j, h) \in Nat /\ Loss(j, k) \in Nat BY LossIs DEF Uneven
<1>8. QED BY <1>1, <1>4, <1>5, <1>6, <1>7

\* Nothing is remembered at first.
LEMMA HotStart == Init => HotInv
<1> SUFFICES ASSUME Init PROVE HotInv
    OBVIOUS
<1>1. pos = 0 /\ t = 0 /\ reactiveUntil = -1 /\ hot = << >>
      BY DEF Init, RefSimInit, PerceptInit, NotYet
<1>2. << >> \in Seq(Channels) /\ DOMAIN << >> = {} OBVIOUS
<1>3. QED BY <1>1, <1>2 DEF HotInv

\* The peaks are the scenario's.
LEMMA PeakStays == sc' = sc => (Sweeps(sc)' <=> Sweeps(sc)) /\ \A h : Peak(h)' <=> Peak(h)
BY DEF Peak, Uneven, Even, Unseen, Loss, Band, Targets, Sweeps

LEMMA HotSame ==
    ASSUME HotInv, t \in Nat, sc' = sc, hot' = hot, t' \in {t, t + 1},
           pos' \in Nat, reactiveUntil' \in {reactiveUntil, t}, reactiveUntil' < t'
    PROVE  HotInv'
<1>1. reactiveUntil' \in Int BY DEF HotInv
<1>2. (Sweeps(sc)' <=> Sweeps(sc)) /\ \A h : Peak(h)' <=> Peak(h) BY PeakStays
<1>3. QED BY <1>1, <1>2 DEF HotInv

LEMMA HotTick ==
    ASSUME WorldInv, HotInv, Tick
    PROVE  HotInv'
<1>1. t' = t + 1 /\ sc' = sc /\ t \in Nat BY TickDoes DEF WorldInv
<1>2. hot' = hot BY DEF Tick, Update
<1>3. pos' \in Nat BY DEF Tick, Advance, Move, HotInv
<1>4. reactiveUntil' \in {reactiveUntil, t}
      BY DEF Tick, Advance, UpdateReactive, Larger, HotInv
<1>5. reactiveUntil' < t' BY <1>1, <1>4 DEF HotInv
<1>6. QED BY <1>1, <1>2, <1>3, <1>4, <1>5, HotSame

\* Only moving away moves.
LEMMA CallPosition ==
    ASSUME pos \in Nat, Call
    PROVE  pos' \in Nat
<1>1. ASSUME NEW changed, Still(changed),
             "pos" \in DOMAIN changed => changed["pos"] \in Nat
      PROVE  pos' \in Nat
      BY <1>1 DEF Still
<1>2. CASE UNCHANGED <<world, perceptVars, made>> BY <1>2 DEF world
<1>3. CASE SpectrumScan BY <1>3 DEF SpectrumScan, world
<1>4. CASE Actuate
  <2>1. CASE HopChannel BY <1>1, <2>1 DEF HopChannel
  <2>2. CASE SetTxPower BY <1>1, <2>2 DEF SetTxPower
  <2>3. CASE ChangeTdmaSlot BY <1>1, <2>3 DEF ChangeTdmaSlot
  <2>4. CASE LoadTest BY <1>1, <2>4 DEF LoadTest
  <2>5. CASE NeighborProbe BY <1>1, <2>5 DEF NeighborProbe
  <2>6. CASE FallbackToLora BY <1>1, <2>6 DEF FallbackToLora
  <2>7. CASE Reroute BY <1>1, <2>7 DEF Reroute
  <2>8. CASE MoveAway BY <1>1, <2>8 DEF MoveAway
  <2>9. CASE DeclareLinkLost BY <1>1, <2>9 DEF DeclareLinkLost
  <2>10. QED BY <1>4, <2>1, <2>2, <2>3, <2>4, <2>5, <2>6, <2>7, <2>8, <2>9 DEF Actuate
<1>5. QED BY <1>2, <1>3, <1>4 DEF Call

\* The channel a scan may remember is one of the radio's.
LEMMA HottestInBand ==
    ASSUME sc \in Scenarios, t \in Nat, HotInv, ~ Sweeps(sc), OnePartial
    PROVE  Hottest(Scan(Channels)) \in Channels
<1>1. PICK F \in Nat : Raised(F) BY ScanRaised
<1>2. \A c \in Channels : Level(c) \in Int
  <2>1. CASE \A c \in Channels : Level(c) = F BY <2>1
  <2>2. CASE \E j \in Uneven(sc), X \in Int :
                /\ Band(j) # {}
                /\ \A c \in Channels : Level(c) = Larger(F, X - Loss(j, c))
    <3>1. PICK j \in Uneven(sc), X \in Int :
                /\ Band(j) # {}
                /\ \A c \in Channels : Level(c) = Larger(F, X - Loss(j, c))
          BY <2>2
    <3>2. \A c \in Channels : Loss(j, c) \in Nat BY <3>1, LossIs DEF Uneven
    <3>3. QED BY <3>1, <3>2 DEF Larger
  <2>3. QED BY <1>1, <2>1, <2>2 DEF Raised
<1>3. /\ DOMAIN Scan(Channels) = Channels
      /\ \A c \in Channels : Scan(Channels)[c] = Level(c)
      BY DEF Scan, Level
<1>4. Channels # {} BY SomeChannel
<1>5. QED BY <1>2, <1>3, <1>4, HottestIs

\* What a scan remembers is a peak.
LEMMA HotScanned ==
    ASSUME WorldInv, HotInv, OnePartial, NoteScan(Scan(Channels)), sc' = sc, ~ Sweeps(sc)
    PROVE  hot' \in Seq(Channels) /\ \A i \in DOMAIN hot' : Peak(hot'[i])
<1> DEFINE scan == Scan(Channels)
           h == Hottest(scan)
<1>1. /\ sc \in Scenarios /\ t \in Nat
      /\ hot \in Seq(Channels) /\ \A i \in DOMAIN hot : Peak(hot[i])
      BY DEF WorldInv, HotInv
<1>2. CASE hot' = hot BY <1>1, <1>2
<1>3. CASE hot' # hot
  <2>1. StandsOut(scan) BY <1>3 DEF NoteScan
  <2>2. \/ Len(hot) = HotCap /\ hot' = Append(Tail(hot), h)
        \/ hot' = Append(hot, h)
        BY <1>3 DEF NoteScan
  <2>3. h \in Channels /\ Peak(h) BY <1>1, <2>1, HottestInBand, StandsOutAtPeak
  <2>4. Len(hot) = HotCap => hot # << >> BY PerceptAssumption
  <2> HIDE DEF h
  <2>5. CASE hot' = Append(hot, h)
    <3>1. /\ hot' \in Seq(Channels)
          /\ \A i \in DOMAIN hot' : hot'[i] = h \/ (i \in DOMAIN hot /\ hot'[i] = hot[i])
          BY <1>1, <2>3, <2>5
    <3>2. QED BY <1>1, <2>3, <3>1
  <2>6. CASE Len(hot) = HotCap /\ hot' = Append(Tail(hot), h)
    <3>1. /\ Tail(hot) \in Seq(Channels) /\ Len(Tail(hot)) = Len(hot) - 1
          /\ \A i \in 1 .. Len(hot) - 1 : Tail(hot)[i] = hot[i + 1]
          BY <1>1, <2>4, <2>6
    <3>2. \A i \in DOMAIN Tail(hot) : Peak(Tail(hot)[i])
      <4>1. \A i \in DOMAIN Tail(hot) : i \in 1 .. Len(hot) - 1 /\ i + 1 \in DOMAIN hot
            BY <1>1, <3>1
      <4>2. QED BY <1>1, <3>1, <4>1
    <3> DEFINE tail == Tail(hot)
    <3> HIDE DEF tail
    <3>3. tail \in Seq(Channels) /\ hot' = Append(tail, h) BY <2>6, <3>1 DEF tail
    <3>4. /\ hot' \in Seq(Channels)
          /\ \A i \in DOMAIN hot' : hot'[i] = h \/ (i \in DOMAIN tail /\ hot'[i] = tail[i])
          BY <2>3, <3>3
    <3>5. QED BY <2>3, <3>2, <3>4 DEF tail
  <2>7. QED BY <2>2, <2>5, <2>6
<1>4. QED BY <1>2, <1>3

LEMMA HotCall ==
    ASSUME WorldInv, HotInv, OnePartial, Call
    PROVE  HotInv'
<1>1. UNCHANGED <<sc, t, reactiveUntil>> BY CallKeeps
<1>2. pos' \in Nat BY CallPosition DEF HotInv
<1>3. t \in Nat BY DEF WorldInv
<1>4. CASE hot' = hot BY <1>1, <1>2, <1>3, <1>4, HotSame DEF HotInv
<1>5. CASE NoteScan(Scan(Channels))
  <2>1. ~ Sweeps(sc) => hot' \in Seq(Channels) /\ \A i \in DOMAIN hot' : Peak(hot'[i])
        BY <1>1, <1>5, HotScanned
  <2>2. (Sweeps(sc)' <=> Sweeps(sc)) /\ \A h : Peak(h)' <=> Peak(h) BY <1>1, PeakStays
  <2>3. QED BY <1>1, <1>2, <2>1, <2>2 DEF HotInv
<1>6. QED BY <1>4, <1>5 DEF Call, SpectrumScan, perceptVars

\* When no scenario has two jammers on parts of the band, the hot channel moves between
\* scans only if a jammer sweeps: for any number of channels and jammers, and however the
\* agent hops, moves and scans (features.py 155-170, 318-326).
THEOREM StillJammersStay ==
    ASSUME OnePartial
    PROVE  Spec => []OnlySweepsMove
<1>1. Init => WorldInv /\ HotInv BY WorldStart, HotStart
<1>2. WorldInv /\ HotInv /\ [Next]_vars => (WorldInv /\ HotInv)'
  <2> SUFFICES ASSUME WorldInv, HotInv, [Next]_vars PROVE HotInv'
      BY WorldKeeps
  <2>1. CASE Tick BY <2>1, HotTick
  <2>2. CASE Call BY <2>2, HotCall
  <2>3. CASE UNCHANGED vars
    <3>1. UNCHANGED <<sc, t, hot, pos, reactiveUntil>> BY <2>3 DEF vars, world, perceptVars
    <3>2. QED BY <3>1, HotSame DEF HotInv, WorldInv
  <2>4. QED BY <2>1, <2>2, <2>3 DEF Next
<1>3. WorldInv /\ HotInv => OnlySweepsMove
  <2> SUFFICES ASSUME WorldInv, HotInv, ~ Sweeps(sc) PROVE ~ HotMoved
      BY DEF OnlySweepsMove, Sweeps
  <2>1. hot \in Seq(Channels) /\ sc \in Scenarios BY DEF HotInv, WorldInv
  <2>2. ASSUME NEW i \in 2 .. Len(hot) PROVE hot[i] = hot[i - 1]
    <3>1. i \in DOMAIN hot /\ i - 1 \in DOMAIN hot BY <2>1
    <3>2. hot[i] \in Channels /\ hot[i - 1] \in Channels BY <2>1, <3>1
    <3>3. Peak(hot[i]) /\ Peak(hot[i - 1]) BY <3>1 DEF HotInv
    <3>4. QED BY <2>1, <3>2, <3>3, OnePeak
  <2>3. QED BY <2>2 DEF HotMoved
<1>4. QED BY <1>1, <1>2, <1>3, PTL DEF Spec
=============================================================================
