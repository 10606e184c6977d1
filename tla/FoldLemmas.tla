---------------------------- MODULE FoldLemmas ----------------------------
(***************************************************************************)
(* Induction on the natural numbers in a form the provers can use: the     *)
(* induction theorems of the library take an operator as a parameter, a    *)
(* set that contains 0 and is closed under successor does not.  From it,   *)
(* that the recursive definition behind the folds of the community modules *)
(* has a value at every set of positions, and is computed step by step.    *)
(***************************************************************************)
EXTENDS Integers, SequencesExt, WellFoundedInduction, TLAPS

\* Every set of naturals with an element has a least one.
LEMMA LeastNatural ==
    ASSUME NEW T \in SUBSET Nat, T # {}
    PROVE  \E n \in T : \A m \in T : n <= m
<1> DEFINE R == OpToRel(<, Nat)
<1>1. IsWellFoundedOn(R, Nat)
  BY NatLessThanWellFounded
<1>2. \A x, y \in Nat : <<y, x>> \in R <=> y < x
  BY DEF OpToRel
<1> HIDE DEF R
<1>3. PICK n \in T : \A m \in T : ~(<<m, n>> \in R)
  BY <1>1, WFMin
<1>4. \A m \in T : ~(m < n) /\ m \in Nat /\ n \in Nat
  BY <1>2, <1>3
<1> QED
  BY <1>4

\* A set with 0 that is closed under successor holds every natural number.
LEMMA Induction ==
    ASSUME NEW T \in SUBSET Nat, 0 \in T, \A n \in T : n + 1 \in T
    PROVE  \A n \in Nat : n \in T
<1> SUFFICES ASSUME Nat \ T # {}
             PROVE  FALSE
  OBVIOUS
<1>1. PICK n \in Nat \ T : \A m \in Nat \ T : n <= m
  BY LeastNatural
<1>2. n # 0 /\ n - 1 \in Nat /\ n - 1 < n
  BY <1>1
<1>3. n - 1 \in T
  BY <1>1, <1>2
<1>4. n - 1 + 1 \in T
  BY <1>3
<1> QED
  BY <1>1, <1>2, <1>4

\* Sequences with the same elements in the same places are the same.
LEMMA SameSequence ==
    ASSUME NEW S, NEW s \in Seq(S), NEW t \in Seq(S), Len(s) = Len(t),
           \A k \in 1 .. Len(s) : s[k] = t[k]
    PROVE  s = t
<1>1. s = [k \in 1 .. Len(s) |-> s[k]] /\ t = [k \in 1 .. Len(s) |-> t[k]]
  OBVIOUS
<1> QED
  BY <1>1

----------------------------------------------------------------------------
\* Folds are defined: h has for every set of positions what the steps at them, from the
\* smallest to the largest, make of the base.
Folds(step, base, n, h) ==
    /\ h[{}] = base
    /\ \A t \in SUBSET (1 .. n) : \A m \in t :
          (\A y \in t : y <= m) => h[t] = step[m][h[t \ {m}]]

LEMMA FoldDefined ==
    ASSUME NEW V, NEW base \in V, NEW n \in Nat, NEW step \in [1 .. n -> [V -> V]]
    PROVE  \E h \in [SUBSET (1 .. n) -> V] : Folds(step, base, n, h)
<1> DEFINE T == {k \in Nat : k <= n => \E h \in [SUBSET (1 .. k) -> V] : Folds(step, base, k, h)}
<1>1. 0 \in T
  <2> DEFINE h == [t \in SUBSET (1 .. 0) |-> base]
  <2>1. \A t \in SUBSET (1 .. 0) : t = {}
    OBVIOUS
  <2>2. h \in [SUBSET (1 .. 0) -> V] /\ Folds(step, base, 0, h)
    BY <2>1 DEF Folds
  <2> HIDE DEF h
  <2> QED
    BY <2>2
<1>2. ASSUME NEW k \in T
      PROVE  k + 1 \in T
  <2>1. k \in Nat /\ (k <= n => \E h \in [SUBSET (1 .. k) -> V] : Folds(step, base, k, h))
    BY Zenon
  <2>2. k + 1 \in Nat
    BY <2>1
  <2> SUFFICES ASSUME k + 1 <= n
               PROVE  \E h \in [SUBSET (1 .. (k + 1)) -> V] : Folds(step, base, k + 1, h)
    BY <2>2, Zenon
  <2>3. k <= n /\ k + 1 \in 1 .. n /\ step[k + 1] \in [V -> V]
    BY <2>1
  <2>4. PICK g \in [SUBSET (1 .. k) -> V] : Folds(step, base, k, g)
    BY <2>3, <2>1
  <2> DEFINE h == [t \in SUBSET (1 .. (k + 1)) |->
                     IF k + 1 \in t THEN step[k + 1][g[t \ {k + 1}]] ELSE g[t]]
  <2>5. ASSUME NEW t \in SUBSET (1 .. (k + 1))
        PROVE  t \ {k + 1} \in SUBSET (1 .. k) /\ (k + 1 \notin t => t \in SUBSET (1 .. k))
    OBVIOUS
  <2>6. ASSUME NEW t \in SUBSET (1 .. (k + 1))
        PROVE  h[t] = (IF k + 1 \in t THEN step[k + 1][g[t \ {k + 1}]] ELSE g[t]) /\ h[t] \in V
    BY <2>3, <2>5
  <2>7. h \in [SUBSET (1 .. (k + 1)) -> V]
    BY <2>6
  <2> HIDE DEF h
  <2>8. h[{}] = base
    BY <2>4, <2>6 DEF Folds
  <2>9. ASSUME NEW t \in SUBSET (1 .. (k + 1)), NEW m \in t, \A y \in t : y <= m
        PROVE  h[t] = step[m][h[t \ {m}]]
    <3>1. CASE k + 1 \in t
      <4>1. m = k + 1
        BY <2>3, <2>9, <3>1
      <4>2. t \ {m} \in SUBSET (1 .. (k + 1)) /\ k + 1 \notin t \ {m}
        BY <4>1
      <4>3. h[t \ {m}] = g[t \ {m}]
        BY <2>6, <4>2
      <4>4. h[t] = step[k + 1][g[t \ {k + 1}]]
        BY <2>6, <3>1
      <4> QED
        BY <4>1, <4>3, <4>4
    <3>2. CASE k + 1 \notin t
      <4>1. t \in SUBSET (1 .. k) /\ t \ {m} \in SUBSET (1 .. (k + 1)) /\ k + 1 \notin t \ {m}
        BY <2>5, <3>2
      <4>2. g[t] = step[m][g[t \ {m}]]
        BY <2>4, <2>9, <4>1 DEF Folds
      <4>3. h[t \ {m}] = g[t \ {m}] /\ h[t] = g[t]
        BY <2>6, <3>2, <4>1
      <4> QED
        BY <4>2, <4>3
    <3> QED
      BY <3>1, <3>2
  <2>10. Folds(step, base, k + 1, h)
    BY <2>8, <2>9 DEF Folds
  <2> QED
    BY <2>7, <2>10
<1> HIDE DEF T
<1>3. n \in T
  <2>1. T \in SUBSET Nat
    BY DEF T
  <2> QED
    BY <1>1, <1>2, <2>1, Induction
<1> QED
  <2>1. n <= n
    OBVIOUS
  <2> QED
    BY <1>3, <2>1, Zenon DEF T

----------------------------------------------------------------------------
\* The largest of a set of naturals with a bound.
LEMMA MaxOfNaturals ==
    ASSUME NEW n \in Nat, NEW t \in SUBSET (0 .. n), t # {}
    PROVE  Max(t) \in t /\ \A y \in t : Max(t) >= y
<1> DEFINE B == {m \in Nat : \A y \in t : y <= m}
<1>1. B \in SUBSET Nat /\ n \in B
  OBVIOUS
<1>2. PICK b \in B : \A m \in B : b <= m
  BY <1>1, LeastNatural
<1>3. b \in t
  <2> SUFFICES ASSUME b \notin t
               PROVE  FALSE
    OBVIOUS
  <2>1. b # 0 /\ b - 1 \in Nat
    <3>1. PICK y \in t : y <= b /\ y \in 0 .. n /\ y # b
      BY <1>2
    <3> QED
      BY <1>2, <3>1
  <2>2. \A y \in t : y <= b - 1
    BY <1>2, <2>1
  <2> QED
    BY <1>2, <2>1, <2>2
<1>4. \E x \in t : \A y \in t : x >= y
  BY <1>2, <1>3
<1> QED
  BY <1>4 DEF Max

LEMMA MaxOf ==
    ASSUME NEW n \in Nat, NEW t \in SUBSET (1 .. n), t # {}
    PROVE  Max(t) \in t /\ \A y \in t : Max(t) >= y
<1>1. t \in SUBSET (0 .. n)
  OBVIOUS
<1> QED
  BY <1>1, MaxOfNaturals

\* The largest of an interval.
LEMMA MaxOfInterval ==
    ASSUME NEW k \in Nat \ {0}
    PROVE  Max(1 .. k) = k /\ (1 .. k) \ {k} = 1 .. (k - 1)
<1>1. Max(1 .. k) \in 1 .. k /\ \A y \in 1 .. k : Max(1 .. k) >= y
  <2>1. 1 .. k \in SUBSET (1 .. k) /\ 1 .. k # {} /\ k \in Nat
    OBVIOUS
  <2> QED
    BY <2>1, MaxOf
<1> QED
  BY <1>1

----------------------------------------------------------------------------
\* The elements of a sequence that are in a set, in their order.
Filtered(s, wanted) == FoldLeft(LAMBDA kept, x : IF x \in wanted THEN Append(kept, x) ELSE kept, <<>>, s)

\* What is kept of the first k elements, for every k.
Keeps(s, wanted, g) ==
    /\ g[0] = <<>>
    /\ \A k \in 1 .. Len(s) : g[k] = IF s[k] \in wanted THEN Append(g[k - 1], s[k]) ELSE g[k - 1]

LEMMA FilteredSteps ==
    ASSUME NEW S, NEW s \in Seq(S), NEW wanted
    PROVE  \E g \in [0 .. Len(s) -> Seq(S)] : Keeps(s, wanted, g) /\ g[Len(s)] = Filtered(s, wanted)
<1> DEFINE n == Len(s)
           step == [i \in 1 .. n |-> [c \in Seq(S) |-> IF s[i] \in wanted THEN Append(c, s[i]) ELSE c]]
           made(h) == [t \in SUBSET (1 .. n) |->
                         IF t = {} THEN <<>>
                         ELSE IF s[Max(t)] \in wanted THEN Append(h[t \ {Max(t)}], s[Max(t)])
                         ELSE h[t \ {Max(t)}]]
<1>1. n \in Nat /\ DOMAIN s = 1 .. n /\ \A i \in 1 .. n : s[i] \in S
  OBVIOUS
<1>2. step \in [1 .. n -> [Seq(S) -> Seq(S)]]
  BY <1>1
<1>3. \A i \in 1 .. n : \A c \in Seq(S) : step[i][c] = IF s[i] \in wanted THEN Append(c, s[i]) ELSE c
  OBVIOUS
<1>4. <<>> \in Seq(S)
  OBVIOUS
<1> HIDE DEF step, n
<1>5. PICK h0 \in [SUBSET (1 .. n) -> Seq(S)] : Folds(step, <<>>, n, h0)
  BY <1>1, <1>2, <1>4, FoldDefined
<1>6. h0 = made(h0)
  <2>1. ASSUME NEW t \in SUBSET (1 .. n), t # {}
        PROVE  h0[t] = IF s[Max(t)] \in wanted THEN Append(h0[t \ {Max(t)}], s[Max(t)]) ELSE h0[t \ {Max(t)}]
    <3>1. Max(t) \in t /\ \A y \in t : Max(t) >= y
      BY <1>1, <2>1, MaxOf
    <3>2. PICK m \in t : m = Max(t)
      BY <3>1
    <3>3. \A y \in t : y <= m
      BY <1>1, <3>1, <3>2
    <3>4. h0[t] = step[m][h0[t \ {m}]]
      BY <1>5, <3>3 DEF Folds
    <3>5. m \in 1 .. n /\ h0[t \ {m}] \in Seq(S)
      BY <1>5
    <3>6. h0[t] = IF s[m] \in wanted THEN Append(h0[t \ {m}], s[m]) ELSE h0[t \ {m}]
      BY <1>3, <3>4, <3>5
    <3> QED
      BY <3>2, <3>6
  <2>2. h0[{}] = <<>>
    BY <1>5 DEF Folds
  <2>3. h0 = [t \in SUBSET (1 .. n) |-> h0[t]]
    BY <1>5
  <2>4. ASSUME NEW t \in SUBSET (1 .. n)
        PROVE  h0[t] = IF t = {} THEN <<>>
                       ELSE IF s[Max(t)] \in wanted THEN Append(h0[t \ {Max(t)}], s[Max(t)])
                       ELSE h0[t \ {Max(t)}]
    <3>1. CASE t = {}
      BY <2>2, <3>1, Zenon
    <3>2. CASE t # {}
      BY <2>1, <3>2, Zenon
    <3> QED
      BY <3>1, <3>2
  <2> QED
    BY <2>3, <2>4, Zenon
<1> DEFINE h == CHOOSE h : h = made(h)
<1>7. h = made(h)
  BY <1>6
<1>8. Filtered(s, wanted) = h[1 .. n]
  BY <1>1 DEF Filtered, FoldLeft, MapThenFoldSet
<1> HIDE DEF h, made
<1>9. ASSUME NEW k \in 1 .. n
      PROVE  h[1 .. k] = IF s[k] \in wanted THEN Append(h[1 .. (k - 1)], s[k]) ELSE h[1 .. (k - 1)]
  <2>1. Max(1 .. k) = k /\ (1 .. k) \ {k} = 1 .. (k - 1)
    BY <1>1, MaxOfInterval
  <2>2. 1 .. k \in SUBSET (1 .. n) /\ 1 .. k # {}
    <3>1. n \in Nat /\ k \in Nat /\ 1 <= k /\ k <= n
      BY <1>1
    <3>2. \A i \in 1 .. k : i \in 1 .. n
      BY <3>1
    <3>3. 1 \in 1 .. k
      BY <3>1
    <3> QED
      BY <3>2, <3>3
  <2>3. h[1 .. k] = IF s[Max(1 .. k)] \in wanted THEN Append(h[(1 .. k) \ {Max(1 .. k)}], s[Max(1 .. k)])
                    ELSE h[(1 .. k) \ {Max(1 .. k)}]
    BY <1>7, <2>2, Zenon DEF made
  <2> QED
    BY <2>1, <2>3, Zenon
<1>10. h[{}] = <<>>
  BY <1>7, Zenon DEF made
<1> DEFINE T == {k \in Nat : k <= n => h[1 .. k] \in Seq(S)}
<1>11. 0 \in T
  <2>1. 1 .. 0 = {}
    OBVIOUS
  <2> QED
    BY <1>4, <1>10, <2>1
<1>12. ASSUME NEW k \in T
       PROVE  k + 1 \in T
  <2>1. k \in Nat /\ (k <= n => h[1 .. k] \in Seq(S))
    OBVIOUS
  <2>2. k + 1 \in Nat
    BY <2>1
  <2> SUFFICES ASSUME k + 1 <= n
               PROVE  h[1 .. (k + 1)] \in Seq(S)
    BY <2>2
  <2>3. h[1 .. k] \in Seq(S) /\ k + 1 \in 1 .. n /\ (k + 1) - 1 = k
    BY <1>1, <2>1
  <2>4. h[1 .. (k + 1)] = IF s[k + 1] \in wanted THEN Append(h[1 .. k], s[k + 1]) ELSE h[1 .. k]
    BY <1>9, <2>3
  <2>5. s[k + 1] \in S
    BY <1>1, <2>3
  <2> QED
    BY <2>3, <2>4, <2>5
<1>13. \A k \in Nat : k \in T
  <2>1. T \in SUBSET Nat
    OBVIOUS
  <2> HIDE DEF T
  <2> QED
    BY <1>11, <1>12, <2>1, Induction
<1> DEFINE g == [k \in 0 .. n |-> h[1 .. k]]
<1>14. g \in [0 .. n -> Seq(S)]
  BY <1>1, <1>13
<1>15. Keeps(s, wanted, g)
  <2>1. g[0] = <<>>
    <3>1. 1 .. 0 = {} /\ 0 \in 0 .. n
      BY <1>1
    <3> QED
      BY <1>10, <3>1
  <2>2. ASSUME NEW k \in 1 .. n
        PROVE  g[k] = IF s[k] \in wanted THEN Append(g[k - 1], s[k]) ELSE g[k - 1]
    <3>1. k \in 0 .. n /\ k - 1 \in 0 .. n
      BY <1>1
    <3>2. g[k] = h[1 .. k] /\ g[k - 1] = h[1 .. (k - 1)]
      BY <3>1
    <3> QED
      BY <1>9, <3>2
  <2> QED
    BY <2>1, <2>2 DEF Keeps, n
<1>16. g[n] = Filtered(s, wanted)
  BY <1>1, <1>8
<1> QED
  BY <1>14, <1>15, <1>16 DEF n

\* What is kept is what was wanted, and nothing else.
LEMMA FilteredRange ==
    ASSUME NEW S, NEW s \in Seq(S), NEW wanted
    PROVE  /\ Filtered(s, wanted) \in Seq(S)
           /\ \A i \in DOMAIN Filtered(s, wanted) :
                \E j \in DOMAIN s : Filtered(s, wanted)[i] = s[j] /\ s[j] \in wanted
           /\ \A j \in DOMAIN s : s[j] \in wanted =>
                \E i \in DOMAIN Filtered(s, wanted) : Filtered(s, wanted)[i] = s[j]
<1> DEFINE n == Len(s)
           from(c, k) == \A i \in 1 .. Len(c) : \E j \in 1 .. k : c[i] = s[j] /\ s[j] \in wanted
           all(c, k) == \A j \in 1 .. k : s[j] \in wanted => \E i \in 1 .. Len(c) : c[i] = s[j]
<1>1. n \in Nat /\ DOMAIN s = 1 .. n /\ \A i \in 1 .. n : s[i] \in S
  OBVIOUS
<1>2. PICK g \in [0 .. n -> Seq(S)] : Keeps(s, wanted, g) /\ g[n] = Filtered(s, wanted)
  BY FilteredSteps
<1>3. g[0] = <<>> /\ \A k \in 1 .. n : g[k] = IF s[k] \in wanted THEN Append(g[k - 1], s[k]) ELSE g[k - 1]
  BY <1>2 DEF Keeps
<1>4. \A k \in 0 .. n : g[k] \in Seq(S)
  BY <1>2
<1> DEFINE T == {k \in Nat : k <= n => from(g[k], k) /\ all(g[k], k)}
<1>5. 0 \in T
  <2>1. 1 .. 0 = {} /\ Len(<<>>) = 0
    OBVIOUS
  <2>2. from(g[0], 0)
    BY <1>3, <2>1
  <2>3. all(g[0], 0)
    BY <2>1
  <2> HIDE DEF from, all
  <2> QED
    BY <2>2, <2>3
<1>6. ASSUME NEW k \in T
      PROVE  k + 1 \in T
  <2>1. k \in Nat /\ (k <= n => from(g[k], k) /\ all(g[k], k))
    OBVIOUS
  <2>2. k + 1 \in Nat
    BY <2>1
  <2> SUFFICES ASSUME k + 1 <= n
               PROVE  from(g[k + 1], k + 1) /\ all(g[k + 1], k + 1)
    BY <2>2
  <2>3. k + 1 \in 1 .. n /\ (k + 1) - 1 = k /\ k \in 0 .. n /\ k <= n
    BY <1>1, <2>1
  <2>4. g[k + 1] = IF s[k + 1] \in wanted THEN Append(g[k], s[k + 1]) ELSE g[k]
    BY <1>3, <2>3
  <2>5. g[k] \in Seq(S) /\ s[k + 1] \in S
    BY <1>1, <1>4, <2>3
  <2>6. PICK c \in Seq(S) : c = g[k]
    BY <2>5
  <2>7. PICK x \in S : x = s[k + 1]
    BY <2>5
  <2>8. from(c, k) /\ all(c, k)
    BY <2>1, <2>3, <2>6
  <2>9. 1 .. (k + 1) = (1 .. k) \cup {k + 1}
    BY <2>1
  <2>10. CASE x \in wanted
    <3>1. g[k + 1] = Append(c, x)
      BY <2>4, <2>6, <2>7, <2>10
    <3>2. /\ Len(Append(c, x)) = Len(c) + 1 /\ Len(c) \in Nat
          /\ Append(c, x)[Len(c) + 1] = x /\ \A i \in 1 .. Len(c) : Append(c, x)[i] = c[i]
      BY <2>6, <2>7
    <3> DEFINE d == Append(c, x)
    <3>3. Len(d) = Len(c) + 1 /\ d[Len(c) + 1] = x /\ \A i \in 1 .. Len(c) : d[i] = c[i]
      BY <3>2
    <3> HIDE DEF d
    <3>4. from(d, k + 1)
      <4>1. ASSUME NEW i \in 1 .. Len(c)
            PROVE  \E j \in 1 .. (k + 1) : d[i] = s[j] /\ s[j] \in wanted
        BY <2>8, <2>9, <3>3
      <4>2. k + 1 \in 1 .. (k + 1) /\ d[Len(c) + 1] = s[k + 1] /\ s[k + 1] \in wanted
        BY <2>7, <2>9, <2>10, <3>3
      <4>3. 1 .. Len(d) = (1 .. Len(c)) \cup {Len(c) + 1}
        BY <3>2, <3>3
      <4> QED
        BY <4>1, <4>2, <4>3
    <3>5. all(d, k + 1)
      <4>1. ASSUME NEW j \in 1 .. k, s[j] \in wanted
            PROVE  \E i \in 1 .. Len(d) : d[i] = s[j]
        BY <2>8, <3>2, <3>3, <4>1
      <4>2. Len(c) + 1 \in 1 .. Len(d) /\ d[Len(c) + 1] = s[k + 1]
        BY <2>7, <3>2, <3>3
      <4> QED
        BY <2>9, <4>1, <4>2
    <3>6. g[k + 1] = d
      BY <3>1 DEF d
    <3> HIDE DEF from, all
    <3> QED
      BY <3>4, <3>5, <3>6
  <2>11. CASE x \notin wanted
    <3>1. g[k + 1] = c
      BY <2>4, <2>6, <2>7, <2>11
    <3>2. from(c, k + 1)
      BY <2>8, <2>9
    <3>3. all(c, k + 1)
      BY <2>7, <2>8, <2>9, <2>11
    <3> HIDE DEF from, all
    <3> QED
      BY <3>1, <3>2, <3>3
  <2> HIDE DEF from, all
  <2> QED
    BY <2>10, <2>11
<1>7. n \in T
  <2>1. T \in SUBSET Nat
    OBVIOUS
  <2> HIDE DEF T
  <2> QED
    BY <1>1, <1>5, <1>6, <2>1, Induction
<1>8. from(g[n], n) /\ all(g[n], n)
  <2> HIDE DEF from, all
  <2> QED
    BY <1>1, <1>7
<1>9. g[n] \in Seq(S)
  BY <1>1, <1>4
<1>10. DOMAIN g[n] = 1 .. Len(g[n])
  BY <1>9
<1> QED
  BY <1>1, <1>2, <1>8, <1>9, <1>10

\* What is kept of a longer sequence.
LEMMA FilteredAppend ==
    ASSUME NEW S, NEW s \in Seq(S), NEW x \in S, NEW wanted
    PROVE  Filtered(Append(s, x), wanted)
             = IF x \in wanted THEN Append(Filtered(s, wanted), x) ELSE Filtered(s, wanted)
<1> DEFINE n == Len(s)
           longer == Append(s, x)
<1>1. /\ n \in Nat /\ longer \in Seq(S) /\ Len(longer) = n + 1
      /\ longer[n + 1] = x /\ \A k \in 1 .. n : longer[k] = s[k]
  OBVIOUS
<1> HIDE DEF longer
<1>2. PICK g \in [0 .. n -> Seq(S)] : Keeps(s, wanted, g) /\ g[n] = Filtered(s, wanted)
  BY FilteredSteps
<1>3. PICK h \in [0 .. n + 1 -> Seq(S)] : Keeps(longer, wanted, h) /\ h[n + 1] = Filtered(longer, wanted)
  BY <1>1, FilteredSteps
<1>4. /\ g[0] = <<>> /\ h[0] = <<>>
      /\ \A k \in 1 .. n : g[k] = IF s[k] \in wanted THEN Append(g[k - 1], s[k]) ELSE g[k - 1]
      /\ \A k \in 1 .. n + 1 : h[k] = IF longer[k] \in wanted THEN Append(h[k - 1], longer[k]) ELSE h[k - 1]
  BY <1>1, <1>2, <1>3 DEF Keeps
<1> HIDE DEF n
<1> DEFINE T == {k \in Nat : k <= n => h[k] = g[k]}
<1>5. 0 \in T
  BY <1>4
<1>6. ASSUME NEW k \in T
      PROVE  k + 1 \in T
  <2>1. k \in Nat /\ (k <= n => h[k] = g[k])
    OBVIOUS
  <2>2. k + 1 \in Nat
    BY <2>1
  <2> SUFFICES ASSUME k + 1 <= n
               PROVE  h[k + 1] = g[k + 1]
    BY <2>2
  <2>3. k + 1 \in 1 .. n /\ k + 1 \in 1 .. n + 1 /\ (k + 1) - 1 = k /\ k <= n
    BY <1>1, <2>1
  <2>4. /\ g[k + 1] = IF s[k + 1] \in wanted THEN Append(g[k], s[k + 1]) ELSE g[k]
        /\ h[k + 1] = IF longer[k + 1] \in wanted THEN Append(h[k], longer[k + 1]) ELSE h[k]
        /\ longer[k + 1] = s[k + 1]
    BY <1>1, <1>4, <2>3
  <2>5. h[k] = g[k]
    BY <2>1, <2>3
  <2> QED
    BY <2>4, <2>5
<1>7. n \in T
  <2>1. T \in SUBSET Nat
    OBVIOUS
  <2> HIDE DEF T
  <2> QED
    BY <1>1, <1>5, <1>6, <2>1, Induction
<1>8. h[n] = g[n]
  BY <1>1, <1>7
<1>9. n + 1 \in 1 .. n + 1 /\ (n + 1) - 1 = n
  BY <1>1
<1>10. h[n + 1] = IF x \in wanted THEN Append(h[n], x) ELSE h[n]
  BY <1>1, <1>4, <1>9
<1> QED
  BY <1>2, <1>3, <1>8, <1>10 DEF longer

\* A sequence without its first element.
LEMMA TailFacts ==
    ASSUME NEW S, NEW q \in Seq(S), q # <<>>
    PROVE  /\ Head(q) = q[1] /\ Head(q) \in S /\ 1 \in DOMAIN q
           /\ Tail(q) \in Seq(S) /\ Len(q) \in Nat /\ DOMAIN q = 1 .. Len(q)
           /\ \A i \in DOMAIN Tail(q) : Tail(q)[i] = q[i + 1] /\ i \in Nat /\ i >= 1 /\ i + 1 \in DOMAIN q
           /\ \A i \in DOMAIN q : q[i] # Head(q) => \E j \in DOMAIN Tail(q) : Tail(q)[j] = q[i]
<1>1. /\ Head(q) = q[1] /\ Head(q) \in S /\ 1 \in DOMAIN q
      /\ Tail(q) \in Seq(S) /\ Len(q) \in Nat /\ DOMAIN q = 1 .. Len(q)
      /\ DOMAIN Tail(q) = 1 .. (Len(q) - 1)
      /\ \A i \in 1 .. (Len(q) - 1) : Tail(q)[i] = q[i + 1]
  OBVIOUS
<1>2. \A i \in DOMAIN Tail(q) : Tail(q)[i] = q[i + 1] /\ i \in Nat /\ i >= 1 /\ i + 1 \in DOMAIN q
  BY <1>1
<1>3. ASSUME NEW i \in DOMAIN q, q[i] # Head(q)
      PROVE  \E j \in DOMAIN Tail(q) : Tail(q)[j] = q[i]
  <2>1. i - 1 \in 1 .. (Len(q) - 1) /\ (i - 1) + 1 = i
    BY <1>1, <1>3
  <2> QED
    BY <1>1, <2>1
<1> QED
  BY <1>1, <1>2, <1>3

\* A set that with an element of s has all later ones keeps an end of s.
LEMMA FilteredSuffix ==
    ASSUME NEW S, NEW s \in Seq(S), NEW wanted,
           \A j, k \in 1 .. Len(s) : j <= k /\ s[j] \in wanted => s[k] \in wanted
    PROVE  /\ Filtered(s, wanted) \in Seq(S)
           /\ \E c \in 0 .. Len(s) :
                /\ Len(Filtered(s, wanted)) = Len(s) - c
                /\ \A i \in 1 .. Len(s) - c : Filtered(s, wanted)[i] = s[c + i]
                /\ \A j \in 1 .. Len(s) : s[j] \in wanted <=> j > c
<1> DEFINE n == Len(s)
           cut(f, k, c) == /\ Len(f) = k - c /\ \A i \in 1 .. k - c : f[i] = s[c + i]
                           /\ \A j \in 1 .. k : s[j] \in wanted <=> j > c
<1>1. n \in Nat /\ DOMAIN s = 1 .. n /\ \A i \in 1 .. n : s[i] \in S
  OBVIOUS
<1>2. PICK g \in [0 .. n -> Seq(S)] : Keeps(s, wanted, g) /\ g[n] = Filtered(s, wanted)
  BY FilteredSteps
<1>3. g[0] = <<>> /\ \A k \in 1 .. n : g[k] = IF s[k] \in wanted THEN Append(g[k - 1], s[k]) ELSE g[k - 1]
  BY <1>2 DEF Keeps
<1>4. \A j, k \in 1 .. n : j <= k /\ s[j] \in wanted => s[k] \in wanted
  OBVIOUS
<1> HIDE DEF n
<1> DEFINE T == {k \in Nat : k <= n => \E c \in 0 .. k : cut(g[k], k, c)}
<1>5. 0 \in T
  <2>1. cut(g[0], 0, 0)
    BY <1>3
  <2>2. 0 \in 0 .. 0
    OBVIOUS
  <2> QED
    BY <2>1, <2>2
<1>6. ASSUME NEW k \in T
      PROVE  k + 1 \in T
  <2>1. k \in Nat /\ (k <= n => \E c \in 0 .. k : cut(g[k], k, c))
    OBVIOUS
  <2>0. k + 1 \in Nat
    BY <2>1
  <2> SUFFICES ASSUME k + 1 <= n
               PROVE  \E c \in 0 .. k + 1 : cut(g[k + 1], k + 1, c)
    BY <2>0, Zenon
  <2>2. k + 1 \in 1 .. n /\ k \in 0 .. n /\ k <= n /\ (k + 1) - 1 = k
    BY <1>1, <2>1
  <2>3. PICK c \in 0 .. k : cut(g[k], k, c)
    BY <2>1, <2>2
  <2>4. PICK f \in Seq(S) : f = g[k]
    BY <1>2, <2>2
  <2>5. /\ Len(f) = k - c /\ \A i \in 1 .. k - c : f[i] = s[c + i]
        /\ \A j \in 1 .. k : s[j] \in wanted <=> j > c
    BY <2>3, <2>4
  <2>6. s[k + 1] \in S
    BY <1>1, <2>2
  <2>7. CASE s[k + 1] \in wanted
    <3>0. g[k + 1] = Append(f, s[k + 1])
      BY <1>3, <2>2, <2>4, <2>7
    <3>1. PICK h \in Seq(S) : h = g[k + 1] /\ h = Append(f, s[k + 1])
      <4>1. Append(f, s[k + 1]) \in Seq(S)
        BY <2>6
      <4> QED
        BY <3>0, <4>1, Zenon
    <3>2. /\ Len(h) = k - c + 1 /\ h[k - c + 1] = s[k + 1]
          /\ \A i \in 1 .. k - c : h[i] = f[i]
      BY <2>5, <2>6, <3>1
    <3>3. ASSUME NEW i \in 1 .. (k + 1) - c
          PROVE  h[i] = s[c + i]
      <4>1. CASE i = k - c + 1
        <5>1. c + i = k + 1
          BY <4>1
        <5> QED
          BY <3>2, <4>1, <5>1
      <4>2. CASE i # k - c + 1
        <5>1. i \in 1 .. k - c
          BY <4>2
        <5> QED
          BY <2>5, <3>2, <5>1
      <4> QED
        BY <4>1, <4>2
    <3>4. ASSUME NEW j \in 1 .. k + 1
          PROVE  s[j] \in wanted <=> j > c
      <4>1. CASE j = k + 1
        BY <2>7, <4>1
      <4>2. CASE j # k + 1
        <5>1. j \in 1 .. k
          BY <2>1, <4>2
        <5> QED
          BY <2>5, <5>1
      <4> QED
        BY <4>1, <4>2
    <3>5. c \in 0 .. k + 1 /\ Len(h) = (k + 1) - c
      BY <2>1, <3>2
    <3>6. cut(h, k + 1, c)
      BY <3>3, <3>4, <3>5
    <3> QED
      BY <3>1, <3>5, <3>6
  <2>8. CASE s[k + 1] \notin wanted
    <3>1. g[k + 1] = f
      BY <1>3, <2>2, <2>4, <2>8
    <3>2. \A j \in 1 .. k + 1 : s[j] \notin wanted
      <4> SUFFICES ASSUME NEW j \in 1 .. k + 1, s[j] \in wanted
                   PROVE  FALSE
        OBVIOUS
      <4>1. j \in 1 .. n /\ j <= k + 1
        BY <1>1, <2>1, <2>2
      <4> QED
        BY <1>4, <2>2, <2>8, <4>1
    <3>3. c = k
      <4> SUFFICES ASSUME c # k
                   PROVE  FALSE
        OBVIOUS
      <4>1. k \in 1 .. k /\ k > c /\ k \in 1 .. k + 1
        BY <2>1
      <4> QED
        BY <2>5, <3>2, <4>1
    <3>4. Len(f) = 0 /\ k + 1 \in 0 .. k + 1 /\ (k + 1) - (k + 1) = 0
      BY <2>1, <2>5, <3>3
    <3>5. \A j \in 1 .. k + 1 : ~(j > k + 1)
      BY <2>1
    <3>6. \A i \in 1 .. 0 : f[i] = s[(k + 1) + i]
      OBVIOUS
    <3>7. cut(f, k + 1, k + 1)
      BY <3>2, <3>4, <3>5, <3>6
    <3> QED
      BY <3>1, <3>4, <3>7
  <2> QED
    BY <2>7, <2>8
<1>7. n \in T
  <2>1. T \in SUBSET Nat
    OBVIOUS
  <2> HIDE DEF T
  <2> QED
    BY <1>1, <1>5, <1>6, <2>1, Induction
<1>8. PICK c \in 0 .. n : cut(g[n], n, c)
  BY <1>1, <1>7
<1>9. g[n] \in Seq(S)
  BY <1>1, <1>2
<1> QED
  BY <1>2, <1>8, <1>9 DEF n

\* What is kept of rising numbers rises.
LEMMA FilteredRises ==
    ASSUME NEW s \in Seq(Int), NEW wanted, \A i, j \in 1 .. Len(s) : i < j => s[i] < s[j]
    PROVE  LET f == Filtered(s, wanted) IN \A i, j \in 1 .. Len(f) : i < j => f[i] < f[j]
<1> DEFINE n == Len(s)
           rises(f, k) == /\ \A i, j \in 1 .. Len(f) : i < j => f[i] < f[j]
                          /\ \A i \in 1 .. Len(f), j \in k + 1 .. n : f[i] < s[j]
<1>1. n \in Nat /\ DOMAIN s = 1 .. n /\ \A i \in 1 .. n : s[i] \in Int
  OBVIOUS
<1>2. PICK g \in [0 .. n -> Seq(Int)] : Keeps(s, wanted, g) /\ g[n] = Filtered(s, wanted)
  BY FilteredSteps
<1>3. g[0] = <<>> /\ \A k \in 1 .. n : g[k] = IF s[k] \in wanted THEN Append(g[k - 1], s[k]) ELSE g[k - 1]
  BY <1>2 DEF Keeps
<1>4. \A i, j \in 1 .. n : i < j => s[i] < s[j]
  OBVIOUS
<1> HIDE DEF n
<1> DEFINE T == {k \in Nat : k <= n => rises(g[k], k)}
<1>5. 0 \in T
  BY <1>3
<1>6. ASSUME NEW k \in T
      PROVE  k + 1 \in T
  <2>1. k \in Nat /\ (k <= n => rises(g[k], k))
    OBVIOUS
  <2> SUFFICES ASSUME k + 1 <= n
               PROVE  rises(g[k + 1], k + 1)
    BY <2>1
  <2>2. k + 1 \in 1 .. n /\ k \in 0 .. n /\ (k + 1) - 1 = k /\ k + 1 \in k + 1 .. n
    BY <1>1, <2>1
  <2>3. PICK f \in Seq(Int) : f = g[k]
    BY <1>2, <2>2
  <2>4. /\ \A i, j \in 1 .. Len(f) : i < j => f[i] < f[j]
        /\ \A i \in 1 .. Len(f), j \in k + 1 .. n : f[i] < s[j]
    BY <2>1, <2>2, <2>3
  <2>5. \A j \in (k + 1) + 1 .. n : j \in k + 1 .. n /\ j \in 1 .. n /\ k + 1 < j
    BY <1>1, <2>1
  <2>6. CASE s[k + 1] \in wanted
    <3>0. g[k + 1] = Append(f, s[k + 1]) /\ s[k + 1] \in Int
      BY <1>1, <1>3, <2>2, <2>3, <2>6
    <3>1. PICK h \in Seq(Int) : h = g[k + 1] /\ h = Append(f, s[k + 1])
      <4>1. Append(f, s[k + 1]) \in Seq(Int)
        BY <3>0
      <4> QED
        BY <3>0, <4>1, Zenon
    <3>2. /\ Len(f) \in Nat /\ Len(h) = Len(f) + 1 /\ h[Len(f) + 1] = s[k + 1]
          /\ \A i \in 1 .. Len(f) : h[i] = f[i]
      BY <1>1, <2>2, <3>1
    <3>3. \A i \in 1 .. Len(h) : i \in 1 .. Len(f) \/ i = Len(f) + 1
      BY <3>2
    <3>4. ASSUME NEW i \in 1 .. Len(h), NEW j \in 1 .. Len(h), i < j
          PROVE  h[i] < h[j]
      <4>1. i \in 1 .. Len(f)
        BY <3>2, <3>4
      <4>2. CASE j \in 1 .. Len(f)
        BY <2>4, <3>2, <3>4, <4>1, <4>2
      <4>3. CASE j = Len(f) + 1
        BY <2>2, <2>4, <3>2, <4>1, <4>3
      <4> QED
        BY <3>3, <4>2, <4>3
    <3>5. ASSUME NEW i \in 1 .. Len(h), NEW j \in (k + 1) + 1 .. n
          PROVE  h[i] < s[j]
      <4>1. CASE i \in 1 .. Len(f)
        BY <2>4, <2>5, <3>2, <4>1
      <4>2. CASE i = Len(f) + 1
        BY <1>4, <2>2, <2>5, <3>2, <4>2
      <4> QED
        BY <3>3, <4>1, <4>2
    <3> QED
      BY <3>1, <3>4, <3>5
  <2>7. CASE s[k + 1] \notin wanted
    <3>1. g[k + 1] = f
      BY <1>3, <2>2, <2>3, <2>7
    <3> QED
      BY <2>4, <2>5, <3>1
  <2> QED
    BY <2>6, <2>7
<1>7. n \in T
  <2>1. T \in SUBSET Nat
    OBVIOUS
  <2> HIDE DEF T
  <2> QED
    BY <1>1, <1>5, <1>6, <2>1, Induction
<1>8. rises(g[n], n)
  BY <1>1, <1>7
<1> QED
  BY <1>2, <1>8
=============================================================================
