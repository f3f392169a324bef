-------------------------- MODULE ReleaseGateProofs ---------------------------
(***************************************************************************)
(* Proofs for the planner and the release gate, for every catalogue of     *)
(* distinct classes, every set of trees, cards and class files, and every  *)
(* order the external planner may answer in.                               *)
(***************************************************************************)
EXTENDS ReleaseGate, FiniteSetTheorems, WellFoundedInduction, TLAPS

-----------------------------------------------------------------------------
(***************************************************************************)
(* Numbers and recursion.                                                  *)
(***************************************************************************)
\* A nonempty set of natural numbers has a least element.
LEMMA Least ==
  ASSUME NEW S \in SUBSET Nat, S # {}
  PROVE  \E m \in S : \A n \in S : m <= n
<1> DEFINE R == OpToRel(<, Nat)
<1>1. IsWellFoundedOn(R, Nat)
  BY Zenon, NatLessThanWellFounded
<1>2. \A x, y \in Nat : y < x => <<y, x>> \in R
  BY DEF OpToRel
<1> HIDE DEF R
<1>3. PICK x \in S : \A y \in S : ~ (<<y, x>> \in R)
  BY Zenon, <1>1, WFMin
<1>4. ASSUME NEW y \in S PROVE x <= y
  <2>1. ~ (y < x)
    BY Zenon, <1>2, <1>3
  <2> QED BY <2>1
<1> QED BY <1>4

\* Induction up to a bound, on a set of numbers.
LEMMA IndUpTo ==
  ASSUME NEW L \in Nat, NEW S, 0 \in S, \A n \in Nat : n < L /\ n \in S => n + 1 \in S
  PROVE  L \in S
<1> SUFFICES ASSUME L \notin S PROVE FALSE
  OBVIOUS
<1> DEFINE B == {n \in 0 .. L : n \notin S}
<1>1. B \in SUBSET Nat /\ B # {}
  OBVIOUS
<1>2. PICK m \in B : \A n \in B : m <= n
  <2> HIDE DEF B
  <2> QED BY Zenon, <1>1, Least
<1>3. m \in Nat /\ m # 0 /\ m <= L /\ m \notin S
  BY <1>2
<1>4. m - 1 \in 0 .. L /\ m - 1 \in Nat /\ m - 1 < L /\ ~ (m <= m - 1) /\ m - 1 + 1 = m
  BY <1>3
<1>5. m - 1 \in S
  BY <1>2, <1>4
<1> QED BY <1>3, <1>4, <1>5

\* g is what a loop of L turns computes from x0, turn by turn.
Loops(g, S, x0, L, next) ==
  /\ g \in [0 .. L -> S] /\ g[0] = x0
  /\ \A n \in 1 .. L : g[n] = next[n][g[n - 1]]

\* A loop computes something, whatever its turns do.
LEMMA Iterates ==
  ASSUME NEW S, NEW x0 \in S, NEW L \in Nat, NEW next \in [1 .. L -> [S -> S]]
  PROVE  \E g : Loops(g, S, x0, L, next)
<1> DEFINE Good(m, g) == /\ g[0] = x0
                         /\ \A n \in 1 .. m : g[n] = next[n][g[n - 1]]
           T == {m \in 0 .. L : \E g \in [0 .. m -> S] : Good(m, g)}
<1>1. 0 \in T
  <2> DEFINE g == [n \in 0 .. 0 |-> x0]
  <2>1. g \in [0 .. 0 -> S] /\ Good(0, g)
    OBVIOUS
  <2>2. 0 \in 0 .. L
    OBVIOUS
  <2> HIDE DEF g, Good
  <2> QED BY <2>1, <2>2
<1>2. ASSUME NEW m \in Nat, m < L, m \in T PROVE m + 1 \in T
  <2>1. PICK g \in [0 .. m -> S] : Good(m, g)
    BY <1>2
  <2> DEFINE h == [n \in 0 .. (m + 1) |-> IF n = m + 1 THEN next[m + 1][g[m]] ELSE g[n]]
  <2>2. m + 1 \in 1 .. L /\ m \in 0 .. m /\ m + 1 \in 0 .. L
    BY <1>2
  <2>3. next[m + 1][g[m]] \in S
    BY <2>1, <2>2
  <2>4. h \in [0 .. (m + 1) -> S]
    <3>1. ASSUME NEW n \in 0 .. (m + 1), n # m + 1 PROVE n \in 0 .. m
      BY <3>1
    <3> QED BY <2>1, <2>3, <3>1
  <2>5. h[0] = x0
    <3>1. 0 \in 0 .. (m + 1) /\ 0 # m + 1
      OBVIOUS
    <3> QED BY <2>1, <3>1
  <2>6. ASSUME NEW n \in 1 .. (m + 1) PROVE h[n] = next[n][h[n - 1]]
    <3>1. n \in 0 .. (m + 1) /\ n - 1 \in 0 .. (m + 1) /\ n - 1 # m + 1
      OBVIOUS
    <3>2. h[n - 1] = g[n - 1]
      BY <3>1
    <3>3. CASE n = m + 1
      <4>1. n - 1 = m
        BY <3>3
      <4> QED BY <3>1, <3>2, <3>3, <4>1
    <3>4. CASE n # m + 1
      <4>1. n \in 1 .. m
        BY <3>4
      <4> QED BY <2>1, <3>1, <3>2, <3>4, <4>1
    <3> QED BY <3>3, <3>4
  <2> HIDE DEF h
  <2>7. Good(m + 1, h)
    BY <2>5, <2>6
  <2> QED BY Zenon, <2>2, <2>4, <2>7
<1>3. L \in T
  <2> HIDE DEF T
  <2> QED BY <1>1, <1>2, IndUpTo
<1> QED BY <1>3 DEF Loops

-----------------------------------------------------------------------------
(***************************************************************************)
(* Sequences.                                                              *)
(***************************************************************************)
\* What Filter computes, turn by turn.
Filters(g, A, s, F) ==
  /\ g \in [0 .. Len(s) -> Seq(A)] /\ g[0] = << >> /\ Filter(s, F) = g[Len(s)]
  /\ \A n \in 1 .. Len(s) :
       g[n] = IF s[n] \in F THEN Append(g[n - 1], s[n]) ELSE g[n - 1]

\* The loop of Filter has these turns.
LEMMA FilterTurns ==
  ASSUME NEW A, NEW s \in Seq(A), NEW F
  PROVE  \E g : Filters(g, A, s, F)
<1> DEFINE L == Len(s)
           Step(f, n) == IF n = 0 THEN << >>
                         ELSE IF s[n] \in F THEN Append(f[n - 1], s[n]) ELSE f[n - 1]
           kept[n \in 0 .. Len(s)] ==
             IF n = 0 THEN << >>
             ELSE IF s[n] \in F THEN Append(kept[n - 1], s[n]) ELSE kept[n - 1]
           next == [n \in 1 .. L |->
                      [x \in Seq(A) |-> IF s[n] \in F THEN Append(x, s[n]) ELSE x]]
<1> HIDE DEF Step, kept, next
<1>1. L \in Nat /\ << >> \in Seq(A) /\ \A n \in 1 .. L : s[n] \in A
  OBVIOUS
<1> HIDE DEF L
<1>2. next \in [1 .. L -> [Seq(A) -> Seq(A)]]
  <2>1. ASSUME NEW n \in 1 .. L, NEW x \in Seq(A) PROVE Append(x, s[n]) \in Seq(A)
    BY <1>1
  <2> QED BY <2>1 DEF next
<1>0. PICK g : Loops(g, Seq(A), << >>, L, next)
  BY Zenon, <1>1, <1>2, Iterates
<1>3. /\ g \in [0 .. L -> Seq(A)] /\ g[0] = << >>
      /\ \A n \in 1 .. L : g[n] = next[n][g[n - 1]]
  BY <1>0 DEF Loops
<1>4. ASSUME NEW n \in 1 .. L
      PROVE  g[n] = IF s[n] \in F THEN Append(g[n - 1], s[n]) ELSE g[n - 1]
  <2>1. n - 1 \in 0 .. L
    BY <1>1
  <2>2. g[n - 1] \in Seq(A)
    BY <1>3, <2>1
  <2> HIDE DEF L
  <2> QED BY Zenon, <1>3, <2>2 DEF next
<1>5. g = [n \in 0 .. L |-> Step(g, n)]
  <2>1. ASSUME NEW n \in 0 .. L PROVE g[n] = Step(g, n)
    <3>1. CASE n = 0
      BY <1>3, <3>1 DEF Step
    <3>2. CASE n # 0
      <4>1. n \in 1 .. L
        BY <1>1, <3>2
      <4> QED BY <1>4, <3>2, <4>1 DEF Step
    <3> QED BY <3>1, <3>2
  <2> QED BY <1>3, <2>1
<1>6. kept = [n \in 0 .. L |-> Step(kept, n)]
  BY Zenon, <1>5 DEF kept, Step, L
<1>7. kept[L] = g[L]
  <2> DEFINE S == {n \in 0 .. L : kept[n] = g[n]}
  <2>1. 0 \in S
    <3>1. 0 \in 0 .. L
      BY <1>1
    <3>2. kept[0] = << >>
      BY <1>6, <3>1 DEF Step
    <3> QED BY <1>3, <3>1, <3>2
  <2>2. ASSUME NEW n \in Nat, n < L, n \in S PROVE n + 1 \in S
    <3>1. n + 1 \in 0 .. L /\ (n + 1) - 1 = n /\ kept[n] = g[n] /\ n + 1 # 0
      BY <1>1, <2>2
    <3>2. kept[n + 1] = Step(kept, n + 1)
      BY Zenon, <1>6, <3>1
    <3>3. g[n + 1] = Step(g, n + 1)
      BY Zenon, <1>5, <3>1
    <3>4. Step(kept, n + 1) = Step(g, n + 1)
      BY <3>1 DEF Step
    <3> QED BY <3>1, <3>2, <3>3, <3>4
  <2> HIDE DEF S
  <2>3. L \in S
    BY <1>1, <2>1, <2>2, IndUpTo
  <2> QED BY <2>3 DEF S
<1>8. Filter(s, F) = kept[L]
  BY DEF Filter, kept, L
<1> QED BY <1>3, <1>4, <1>7, <1>8 DEF L, Filters

\* t is s at the increasing positions e, which are those of the members of F.
Picks(t, s, n, F, e) ==
  /\ e \in [1 .. Len(t) -> 1 .. n]
  /\ \A k \in 1 .. Len(t) : t[k] = s[e[k]] /\ s[e[k]] \in F
  /\ \A k, l \in 1 .. Len(t) : k < l => e[k] < e[l]
  /\ \A i \in 1 .. n : s[i] \in F => \E k \in 1 .. Len(t) : e[k] = i

\* Filter keeps the members of F and their order.
LEMMA FilterPicks ==
  ASSUME NEW A, NEW s \in Seq(A), NEW F
  PROVE  /\ Filter(s, F) \in Seq(A)
         /\ \E e : Picks(Filter(s, F), s, Len(s), F, e)
<1> DEFINE L == Len(s)
<1>0. PICK g : Filters(g, A, s, F)
  BY Zenon, FilterTurns
<1>1. /\ g \in [0 .. L -> Seq(A)] /\ g[0] = << >> /\ Filter(s, F) = g[L]
      /\ \A n \in 1 .. L : g[n] = IF s[n] \in F THEN Append(g[n - 1], s[n]) ELSE g[n - 1]
  BY <1>0 DEF Filters
<1>2. L \in Nat /\ L \in 0 .. L /\ 0 \in 0 .. L /\ \A n \in 1 .. L : s[n] \in A
  OBVIOUS
<1> HIDE DEF L
<1> DEFINE T == {n \in 0 .. L : \E e : Picks(g[n], s, n, F, e)}
<1>3. 0 \in T
  <2> DEFINE e == [k \in 1 .. 0 |-> 0]
  <2>1. g[0] = << >> /\ Len(g[0]) = 0
    BY <1>1
  <2>2. e \in [1 .. 0 -> 1 .. 0]
    OBVIOUS
  <2> HIDE DEF e
  <2>3. Picks(g[0], s, 0, F, e)
    BY <2>1, <2>2 DEF Picks
  <2> QED BY <1>2, <2>3
<1>4. ASSUME NEW n \in Nat, n < L, n \in T PROVE n + 1 \in T
  <2>1. PICK e : Picks(g[n], s, n, F, e)
    BY <1>4
  <2>2. n + 1 \in 1 .. L /\ n + 1 \in 0 .. L /\ n \in 0 .. L /\ (n + 1) - 1 = n
    BY <1>2, <1>4
  <2>3. g[n] \in Seq(A) /\ s[n + 1] \in A
    BY <1>1, <1>2, <2>2
  <2> DEFINE m == Len(g[n])
  <2>4. m \in Nat
    BY <2>3
  <2>5. CASE s[n + 1] \notin F
    <3>1. g[n + 1] = g[n]
      BY <1>1, <2>2, <2>5
    <3>2. \A i \in 1 .. (n + 1) : i = n + 1 \/ i \in 1 .. n
      OBVIOUS
    <3>3. e \in [1 .. m -> 1 .. (n + 1)]
      BY <2>1 DEF Picks
    <3>4. \A i \in 1 .. (n + 1) : s[i] \in F => i \in 1 .. n
      BY <2>5, <3>2
    <3>5. Picks(g[n], s, n + 1, F, e)
      BY <2>1, <3>3, <3>4 DEF Picks
    <3> QED BY <2>2, <3>1, <3>5
  <2>6. CASE s[n + 1] \in F
    <3> DEFINE t == g[n + 1]
               d == [k \in 1 .. (m + 1) |-> IF k = m + 1 THEN n + 1 ELSE e[k]]
    <3>1. t = Append(g[n], s[n + 1])
      BY Zenon, <1>1, <2>2, <2>6
    <3>2. /\ Len(t) = m + 1 /\ t[m + 1] = s[n + 1]
          /\ \A k \in 1 .. m : t[k] = g[n][k]
      BY <2>3, <3>1
    <3> HIDE DEF m, t
    <3>3. /\ e \in [1 .. m -> 1 .. n]
          /\ \A k \in 1 .. m : g[n][k] = s[e[k]] /\ s[e[k]] \in F
          /\ \A k, l \in 1 .. m : k < l => e[k] < e[l]
          /\ \A i \in 1 .. n : s[i] \in F => \E k \in 1 .. m : e[k] = i
      BY <2>1 DEF Picks, m
    <3>4. \A k \in 1 .. (m + 1) : k = m + 1 \/ (k # m + 1 /\ k \in 1 .. m)
      BY <2>4
    <3>5. /\ d[m + 1] = n + 1 /\ m + 1 \in 1 .. (m + 1)
          /\ \A k \in 1 .. m : k \in 1 .. (m + 1) /\ k < m + 1 /\ d[k] = e[k]
      BY <2>4
    <3>6. d \in [1 .. (m + 1) -> 1 .. (n + 1)]
      BY <3>3, <3>4
    <3> HIDE DEF d
    <3>7. \A k \in 1 .. (m + 1) : t[k] = s[d[k]] /\ s[d[k]] \in F
      BY <2>6, <3>2, <3>3, <3>4, <3>5
    <3>8. ASSUME NEW k \in 1 .. (m + 1), NEW l \in 1 .. (m + 1), k < l PROVE d[k] < d[l]
      <4>1. k \in 1 .. m
        BY <2>4, <3>8
      <4>2. CASE l = m + 1
        <5>1. d[k] \in 1 .. n /\ d[l] = n + 1
          BY <3>3, <3>5, <4>1, <4>2
        <5> QED BY <5>1
      <4>3. CASE l \in 1 .. m
        BY <3>3, <3>5, <3>8, <4>1, <4>3
      <4> QED BY <3>4, <4>2, <4>3
    <3>9. ASSUME NEW i \in 1 .. (n + 1), s[i] \in F PROVE \E k \in 1 .. (m + 1) : d[k] = i
      <4>1. CASE i = n + 1
        BY <3>5, <4>1
      <4>2. CASE i # n + 1
        <5>1. i \in 1 .. n
          BY <4>2
        <5>2. PICK k \in 1 .. m : e[k] = i
          BY <3>3, <3>9, <5>1
        <5> QED BY <3>5, <5>2
      <4> QED BY <4>1, <4>2
    <3>10. Picks(t, s, n + 1, F, d)
      BY Zenon, <3>2, <3>6, <3>7, <3>8, <3>9 DEF Picks
    <3> QED BY <2>2, <3>10 DEF t
  <2> QED BY <2>5, <2>6
<1>5. L \in T
  <2> HIDE DEF T
  <2> QED BY <1>2, <1>3, <1>4, IndUpTo
<1> QED BY <1>1, <1>2, <1>5 DEF L

\* What Filter returns: a sequence of the same type, with the members of F.
LEMMA FilterFacts ==
  ASSUME NEW A, NEW s \in Seq(A), NEW F
  PROVE  /\ Filter(s, F) \in Seq(A)
         /\ Range(Filter(s, F)) = Range(s) \cap F
         /\ IsInjective(s) => IsInjective(Filter(s, F))
<1> DEFINE t == Filter(s, F)
<1>1. t \in Seq(A)
  BY Zenon, FilterPicks
<1>2. PICK e : Picks(t, s, Len(s), F, e)
  BY Zenon, FilterPicks
<1> HIDE DEF t
<1>3. DOMAIN t = 1 .. Len(t) /\ DOMAIN s = 1 .. Len(s) /\ Len(t) \in Nat /\ Len(s) \in Nat
  BY <1>1
<1>4. Range(t) \subseteq Range(s) \cap F
  BY <1>2, <1>3 DEF Picks, Range
<1>5. ASSUME NEW x \in Range(s), x \in F PROVE x \in Range(t)
  <2>1. PICK i \in 1 .. Len(s) : x = s[i]
    BY <1>3 DEF Range
  <2>2. PICK k \in 1 .. Len(t) : e[k] = i
    BY <1>2, <1>5, <2>1 DEF Picks
  <2>3. t[k] = x
    BY <1>2, <2>1, <2>2 DEF Picks
  <2> QED BY <1>3, <2>3 DEF Range
<1>6. ASSUME IsInjective(s), NEW k \in DOMAIN t, NEW l \in DOMAIN t, t[k] = t[l] PROVE k = l
  <2>1. k \in 1 .. Len(t) /\ l \in 1 .. Len(t)
    BY <1>3
  <2>2. e[k] \in 1 .. Len(s) /\ e[l] \in 1 .. Len(s) /\ s[e[k]] = s[e[l]]
    BY <1>2, <1>6, <2>1 DEF Picks
  <2>3. e[k] = e[l]
    BY <1>3, <1>6, <2>2 DEF IsInjective
  <2>4. ~ (k < l) /\ ~ (l < k)
    BY <1>2, <2>1, <2>2, <2>3 DEF Picks
  <2> QED BY <2>1, <2>4
<1>7. Range(t) = Range(s) \cap F
  BY <1>4, <1>5
<1>8. IsInjective(s) => IsInjective(t)
  BY <1>6 DEF IsInjective
<1> QED BY <1>1, <1>7, <1>8 DEF t

\* Filter keeps the order.
LEMMA FilterOrder ==
  ASSUME NEW A, NEW s \in Seq(A), NEW F,
         NEW i \in DOMAIN Filter(s, F), NEW j \in DOMAIN Filter(s, F), i < j
  PROVE  \E k, l \in DOMAIN s : k < l /\ s[k] = Filter(s, F)[i] /\ s[l] = Filter(s, F)[j]
<1> DEFINE t == Filter(s, F)
<1>1. t \in Seq(A)
  BY Zenon, FilterPicks
<1>2. PICK e : Picks(t, s, Len(s), F, e)
  BY Zenon, FilterPicks
<1>3. i \in DOMAIN t /\ j \in DOMAIN t
  OBVIOUS
<1> HIDE DEF t
<1>4. i \in 1 .. Len(t) /\ j \in 1 .. Len(t) /\ DOMAIN s = 1 .. Len(s)
  BY <1>1, <1>3
<1>5. /\ e[i] \in DOMAIN s /\ e[j] \in DOMAIN s /\ e[i] < e[j]
      /\ s[e[i]] = t[i] /\ s[e[j]] = t[j]
  BY <1>2, <1>4 DEF Picks
<1> QED BY <1>5 DEF t

\* Concatenation.
LEMMA ConcatFacts ==
  ASSUME NEW A, NEW s \in Seq(A), NEW t \in Seq(A)
  PROVE  /\ s \o t \in Seq(A) /\ Len(s \o t) = Len(s) + Len(t)
         /\ Range(s \o t) = Range(s) \cup Range(t)
         /\ IsInjective(s \o t) <=> /\ IsInjective(s) /\ IsInjective(t)
                                    /\ Range(s) \cap Range(t) = {}
<1> DEFINE c == s \o t
<1>1. /\ Len(s) \in Nat /\ Len(t) \in Nat /\ c \in Seq(A) /\ Len(c) = Len(s) + Len(t)
      /\ DOMAIN s = 1 .. Len(s) /\ DOMAIN t = 1 .. Len(t) /\ DOMAIN c = 1 .. Len(c)
  OBVIOUS
<1>2. \A i \in 1 .. Len(s) : c[i] = s[i]
  OBVIOUS
<1>3. \A i \in 1 .. Len(t) : c[Len(s) + i] = t[i]
  OBVIOUS
<1> HIDE DEF c
<1>4. \A i \in DOMAIN c : i \in DOMAIN s \/ \E k \in DOMAIN t : i = Len(s) + k
  <2>1. ASSUME NEW i \in DOMAIN c, i \notin DOMAIN s PROVE \E k \in DOMAIN t : i = Len(s) + k
    <3>1. i - Len(s) \in DOMAIN t /\ i = Len(s) + (i - Len(s))
      BY <1>1, <2>1
    <3> QED BY <3>1
  <2> QED BY <2>1
<1>5. /\ \A i \in DOMAIN s : i \in DOMAIN c /\ c[i] = s[i]
      /\ \A k \in DOMAIN t : Len(s) + k \in DOMAIN c /\ c[Len(s) + k] = t[k]
  BY <1>1, <1>2, <1>3
<1>6. Range(c) = Range(s) \cup Range(t)
  <2>1. Range(c) \subseteq Range(s) \cup Range(t)
    BY <1>4, <1>5 DEF Range
  <2>2. Range(s) \subseteq Range(c) /\ Range(t) \subseteq Range(c)
    BY <1>5 DEF Range
  <2> QED BY <2>1, <2>2
<1>7. ASSUME IsInjective(c)
      PROVE  IsInjective(s) /\ IsInjective(t) /\ Range(s) \cap Range(t) = {}
  <2>1. IsInjective(s)
    BY <1>5, <1>7 DEF IsInjective
  <2>2. ASSUME NEW k \in DOMAIN t, NEW l \in DOMAIN t, t[k] = t[l] PROVE k = l
    <3>1. Len(s) + k = Len(s) + l
      BY <1>5, <1>7, <2>2 DEF IsInjective
    <3> QED BY <1>1, <3>1
  <2>3. ASSUME NEW i \in DOMAIN s, NEW k \in DOMAIN t, s[i] = t[k] PROVE FALSE
    <3>1. i = Len(s) + k
      BY <1>5, <1>7, <2>3 DEF IsInjective
    <3> QED BY <1>1, <3>1
  <2>4. IsInjective(t)
    BY <2>2 DEF IsInjective
  <2>5. Range(s) \cap Range(t) = {}
    BY <2>3 DEF Range
  <2> QED BY <2>1, <2>4, <2>5
<1>8. ASSUME IsInjective(s), IsInjective(t), Range(s) \cap Range(t) = {},
             NEW i \in DOMAIN c, NEW j \in DOMAIN c, c[i] = c[j]
      PROVE  i = j
  <2>0. \A k \in DOMAIN s, l \in DOMAIN t : s[k] # t[l]
    BY Zenon, <1>8 DEF Range
  <2>1. CASE i \in DOMAIN s /\ j \in DOMAIN s
    BY <1>5, <1>8, <2>1 DEF IsInjective
  <2>2. CASE i \in DOMAIN s /\ j \notin DOMAIN s
    BY <1>4, <1>5, <1>8, <2>0, <2>2
  <2>3. CASE i \notin DOMAIN s /\ j \in DOMAIN s
    BY <1>4, <1>5, <1>8, <2>0, <2>3
  <2>4. CASE i \notin DOMAIN s /\ j \notin DOMAIN s
    <3>1. PICK k \in DOMAIN t : i = Len(s) + k
      BY <1>4, <2>4
    <3>2. PICK l \in DOMAIN t : j = Len(s) + l
      BY <1>4, <2>4
    <3>3. k = l
      BY <1>5, <1>8, <3>1, <3>2 DEF IsInjective
    <3> QED BY <3>1, <3>2, <3>3
  <2> QED BY <2>1, <2>2, <2>3, <2>4
<1>9. IsInjective(s) /\ IsInjective(t) /\ Range(s) \cap Range(t) = {} => IsInjective(c)
  BY <1>8 DEF IsInjective
<1> QED BY <1>1, <1>6, <1>7, <1>9 DEF c

\* A sequence is one of any type that its elements have.
LEMMA SeqOfRange ==
  ASSUME NEW A, NEW B, NEW s \in Seq(A), Range(s) \subseteq B
  PROVE  s \in Seq(B)
BY DEF Range

\* Appending one element.
LEMMA AppendFacts ==
  ASSUME NEW A, NEW s \in Seq(A), NEW x \in A
  PROVE  /\ Append(s, x) \in Seq(A)
         /\ Range(Append(s, x)) = Range(s) \cup {x}
         /\ IsInjective(s) /\ x \notin Range(s) => IsInjective(Append(s, x))
<1> DEFINE t == <<x>>
<1>1. Append(s, x) = s \o t /\ t \in Seq(A)
  OBVIOUS
<1>2. Range(t) = {x} /\ IsInjective(t)
  BY DEF Range, IsInjective
<1> HIDE DEF t
<1>3. /\ s \o t \in Seq(A) /\ Range(s \o t) = Range(s) \cup Range(t)
      /\ IsInjective(s) /\ Range(s) \cap Range(t) = {} => IsInjective(s \o t)
  BY <1>1, <1>2, ConcatFacts
<1> QED BY <1>1, <1>2, <1>3

-----------------------------------------------------------------------------
(***************************************************************************)
(* The catalogue.                                                          *)
(***************************************************************************)
U == HTTP_USER_CAMPAIGNS
F == HTTP_FILE_CAMPAIGNS
P == CLI_PARSE_CAMPAIGNS
O == CLI_ONCE_CAMPAIGNS

\* The families of classes are disjoint, and none has a class twice.
LEMMA Families ==
  /\ <<MapId>> \in Seq(Ids) /\ U \in Seq(Ids) /\ F \in Seq(Ids) /\ P \in Seq(Ids)
  /\ O \in Seq(Ids)
  /\ IsInjective(<<MapId>>) /\ IsInjective(U) /\ IsInjective(F) /\ IsInjective(P)
  /\ IsInjective(O) /\ Range(<<MapId>>) = {MapId}
  /\ MapId \notin Range(U) \cup Range(F) \cup Range(P) \cup Range(O)
  /\ Range(U) \cap (Range(F) \cup Range(P) \cup Range(O)) = {}
  /\ Range(F) \cap (Range(P) \cup Range(O)) = {} /\ Range(P) \cap Range(O) = {}
<1>1. U \in Seq(STRING) /\ F \in Seq(STRING) /\ P \in Seq(STRING) /\ O \in Seq(STRING)
  BY CatalogAssumption DEF U, F, P, O
<1>2. /\ Range(U) \subseteq Ids /\ Range(F) \subseteq Ids /\ Range(P) \subseteq Ids
      /\ Range(O) \subseteq Ids /\ MapId \in Ids
  BY DEF Ids, HttpIds, CliIds, U, F, P, O
<1>3. U \in Seq(Ids) /\ F \in Seq(Ids) /\ P \in Seq(Ids) /\ O \in Seq(Ids)
  BY <1>1, <1>2, SeqOfRange
<1>4. <<MapId>> \in Seq(Ids) /\ IsInjective(<<MapId>>) /\ Range(<<MapId>>) = {MapId}
  BY <1>2 DEF IsInjective, Range
<1> DEFINE c2 == <<MapId>> \o U
           c3 == c2 \o F
           c4 == c3 \o P
<1>5. c2 \in Seq(Ids) /\ c3 \in Seq(Ids) /\ c4 \in Seq(Ids)
  BY <1>3, <1>4
<1>6. IsInjective(c4 \o O)
  BY CatalogAssumption DEF U, F, P, O
<1>7. Range(c2) = {MapId} \cup Range(U)
  BY ZenonT(30), <1>3, <1>4, ConcatFacts
<1>8. Range(c3) = Range(c2) \cup Range(F)
  <2> HIDE DEF c2
  <2> QED BY <1>3, <1>5, ConcatFacts
<1>9. Range(c4) = Range(c3) \cup Range(P)
  <2> HIDE DEF c2, c3
  <2> QED BY <1>3, <1>5, ConcatFacts
<1>10. IsInjective(c4) /\ IsInjective(O) /\ Range(c4) \cap Range(O) = {}
  <2> HIDE DEF c4
  <2> QED BY <1>3, <1>5, <1>6, ConcatFacts
<1>11. IsInjective(c3) /\ IsInjective(P) /\ Range(c3) \cap Range(P) = {}
  <2> HIDE DEF c3
  <2> QED BY <1>3, <1>5, <1>10, ConcatFacts
<1>12. IsInjective(c2) /\ IsInjective(F) /\ Range(c2) \cap Range(F) = {}
  <2> HIDE DEF c2
  <2> QED BY <1>3, <1>5, <1>11, ConcatFacts
<1>13. IsInjective(U) /\ {MapId} \cap Range(U) = {}
  BY Zenon, <1>3, <1>4, <1>12, ConcatFacts
<1> HIDE DEF c2, c3, c4
<1> QED BY Zenon, <1>3, <1>4, <1>7, <1>8, <1>9, <1>10, <1>11, <1>12, <1>13

\* An entry of the catalogue.
Entry(id, mapped, need) == [id |-> id, needs_mapped |-> mapped, need |-> need]
Needs   == {"none", "users", "files", "parse", "once"}
Actions == [id : Ids, needs_mapped : BOOLEAN, need : Needs]

\* The entries of a family.
LEMMA ClassEntries ==
  ASSUME NEW ids \in Seq(Ids), NEW mapped \in BOOLEAN, NEW need \in Needs
  PROVE  /\ Class(ids, mapped, need) \in Seq(Actions)
         /\ IdsOf(Class(ids, mapped, need)) = ids
         /\ Range(Class(ids, mapped, need)) = {Entry(x, mapped, need) : x \in Range(ids)}
<1> DEFINE c == Class(ids, mapped, need)
<1>1. /\ DOMAIN ids = 1 .. Len(ids) /\ Len(ids) \in Nat /\ DOMAIN c = DOMAIN ids
      /\ \A i \in DOMAIN ids : ids[i] \in Ids /\ c[i] = Entry(ids[i], mapped, need)
  BY DEF Class, Entry
<1>2. c \in Seq(Actions)
  <2>1. \A i \in DOMAIN ids : c[i] \in Actions
    BY <1>1 DEF Entry, Actions
  <2>2. c = [i \in 1 .. Len(ids) |-> c[i]]
    BY <1>1 DEF Class
  <2> HIDE DEF c
  <2> QED BY <1>1, <2>1, <2>2
<1>3. IdsOf(c) = ids
  <2>1. \A i \in DOMAIN ids : c[i].id = ids[i]
    BY <1>1 DEF Entry
  <2> HIDE DEF c
  <2> QED BY <1>1, <2>1 DEF IdsOf
<1>4. Range(c) = {Entry(x, mapped, need) : x \in Range(ids)}
  <2> HIDE DEF c
  <2> QED BY <1>1 DEF Range
<1> QED BY <1>2, <1>3, <1>4

\* The ids of a concatenation.
LEMMA IdsOfConcat ==
  ASSUME NEW s \in Seq(Actions), NEW t \in Seq(Actions)
  PROVE  IdsOf(s \o t) = IdsOf(s) \o IdsOf(t)
<1>1. /\ Len(s) \in Nat /\ Len(t) \in Nat /\ s \o t \in Seq(Actions)
      /\ Len(s \o t) = Len(s) + Len(t)
      /\ DOMAIN s = 1 .. Len(s) /\ DOMAIN t = 1 .. Len(t)
      /\ DOMAIN (s \o t) = 1 .. (Len(s) + Len(t))
  OBVIOUS
<1>2. \A i \in 1 .. Len(s) : s[i].id \in Ids
  <2>1. \A i \in 1 .. Len(s) : s[i] \in Actions
    OBVIOUS
  <2> QED BY <2>1 DEF Actions
<1>3. \A i \in 1 .. Len(t) : t[i].id \in Ids
  <2>1. \A i \in 1 .. Len(t) : t[i] \in Actions
    OBVIOUS
  <2> QED BY <2>1 DEF Actions
<1>4. IdsOf(s) \in Seq(Ids) /\ IdsOf(t) \in Seq(Ids)
  BY <1>1, <1>2, <1>3 DEF IdsOf
<1>5. Len(IdsOf(s)) = Len(s) /\ Len(IdsOf(t)) = Len(t)
  BY <1>1, <1>4 DEF IdsOf
<1>6. DOMAIN (IdsOf(s) \o IdsOf(t)) = 1 .. (Len(s) + Len(t))
  BY <1>4, <1>5
<1>7. ASSUME NEW i \in 1 .. (Len(s) + Len(t))
      PROVE  (IdsOf(s) \o IdsOf(t))[i] = (s \o t)[i].id
  <2>1. CASE i <= Len(s)
    <3>1. i \in 1 .. Len(s)
      BY <1>1, <2>1
    <3>2. (s \o t)[i] = s[i] /\ (IdsOf(s) \o IdsOf(t))[i] = IdsOf(s)[i]
      BY <1>4, <1>5, <3>1
    <3> QED BY <1>1, <3>1, <3>2 DEF IdsOf
  <2>2. CASE ~ (i <= Len(s))
    <3>1. i - Len(s) \in 1 .. Len(t)
      BY <1>1, <2>2
    <3>2. (s \o t)[i] = t[i - Len(s)] /\ (IdsOf(s) \o IdsOf(t))[i] = IdsOf(t)[i - Len(s)]
      BY <1>1, <1>4, <1>5, <2>2
    <3> QED BY <1>1, <3>1, <3>2 DEF IdsOf
  <2> QED BY Zenon, <2>1, <2>2
<1>8. IdsOf(s) \o IdsOf(t) = [i \in 1 .. (Len(s) + Len(t)) |-> (IdsOf(s) \o IdsOf(t))[i]]
  <2> DEFINE c == IdsOf(s) \o IdsOf(t)
  <2>1. c \in Seq(Ids) /\ Len(c) = Len(s) + Len(t)
    <3>1. c \in Seq(Ids) /\ Len(c) = Len(IdsOf(s)) + Len(IdsOf(t))
      BY ZenonT(30), <1>4, ConcatFacts
    <3> QED BY <1>5, <3>1
  <2> HIDE DEF c
  <2>2. c = [i \in 1 .. Len(c) |-> c[i]]
    BY <2>1
  <2> QED BY <2>1, <2>2 DEF c
<1>9. IdsOf(s \o t) = [i \in 1 .. (Len(s) + Len(t)) |-> (s \o t)[i].id]
  BY <1>1 DEF IdsOf
<1> QED BY <1>7, <1>8, <1>9

\* The ids of a sequence of entries.
LEMMA IdsOfFacts ==
  ASSUME NEW s \in Seq(Actions)
  PROVE  /\ IdsOf(s) \in Seq(Ids) /\ DOMAIN IdsOf(s) = DOMAIN s
         /\ Range(IdsOf(s)) = {a.id : a \in Range(s)}
         /\ \A i \in DOMAIN s : s[i] \in Range(s) /\ IdsOf(s)[i] = s[i].id
         /\ IsInjective(IdsOf(s)) => IsInjective(s)
<1>1. \A i \in 1 .. Len(s) : s[i].id \in Ids
  <2>1. \A i \in 1 .. Len(s) : s[i] \in Actions
    OBVIOUS
  <2> QED BY <2>1 DEF Actions
<1>2. DOMAIN s = 1 .. Len(s) /\ Len(s) \in Nat
  OBVIOUS
<1>3. IdsOf(s) \in Seq(Ids) /\ DOMAIN IdsOf(s) = DOMAIN s
  BY <1>1, <1>2 DEF IdsOf
<1>4. \A i \in DOMAIN s : IdsOf(s)[i] = s[i].id
  BY DEF IdsOf
<1>5. Range(IdsOf(s)) = {a.id : a \in Range(s)}
  BY <1>3, <1>4 DEF Range
<1>6. \A i \in DOMAIN s : s[i] \in Range(s)
  BY DEF Range
<1>7. IsInjective(IdsOf(s)) => IsInjective(s)
  BY <1>3, <1>4 DEF IsInjective
<1> QED BY <1>3, <1>4, <1>5, <1>6, <1>7

\* The catalogue has one entry for each id.
LEMMA CatalogFacts ==
  /\ catalog \in Seq(Actions)
  /\ IsInjective(IdsOf(catalog)) /\ Range(IdsOf(catalog)) = Ids
  /\ Range(catalog) = {Entry(MapId, FALSE, "none")}
                        \cup {Entry(x, TRUE, "users") : x \in Range(U)}
                        \cup {Entry(x, TRUE, "files") : x \in Range(F)}
                        \cup {Entry(x, FALSE, "parse") : x \in Range(P)}
                        \cup {Entry(x, FALSE, "once") : x \in Range(O)}
<1> DEFINE k1 == Class(<<MapId>>, FALSE, "none")
           k2 == Class(U, TRUE, "users")
           k3 == Class(F, TRUE, "files")
           k4 == Class(P, FALSE, "parse")
           k5 == Class(O, FALSE, "once")
<1>1. /\ k1 \in Seq(Actions) /\ IdsOf(k1) = <<MapId>>
      /\ Range(k1) = {Entry(x, FALSE, "none") : x \in Range(<<MapId>>)}
  BY Zenon, ClassEntries, Families DEF Needs
<1>2. /\ k2 \in Seq(Actions) /\ IdsOf(k2) = U
      /\ Range(k2) = {Entry(x, TRUE, "users") : x \in Range(U)}
  BY Zenon, ClassEntries, Families DEF Needs
<1>3. /\ k3 \in Seq(Actions) /\ IdsOf(k3) = F
      /\ Range(k3) = {Entry(x, TRUE, "files") : x \in Range(F)}
  BY Zenon, ClassEntries, Families DEF Needs
<1>4. /\ k4 \in Seq(Actions) /\ IdsOf(k4) = P
      /\ Range(k4) = {Entry(x, FALSE, "parse") : x \in Range(P)}
  BY Zenon, ClassEntries, Families DEF Needs
<1>5. /\ k5 \in Seq(Actions) /\ IdsOf(k5) = O
      /\ Range(k5) = {Entry(x, FALSE, "once") : x \in Range(O)}
  BY Zenon, ClassEntries, Families DEF Needs
<1>6. catalog = k1 \o k2 \o k3 \o k4 \o k5
  BY Zenon DEF catalog, U, F, P, O
<1> HIDE DEF k1, k2, k3, k4, k5
<1> DEFINE c2 == k1 \o k2
           c3 == c2 \o k3
           c4 == c3 \o k4
<1>7. /\ c2 \in Seq(Actions) /\ Range(c2) = Range(k1) \cup Range(k2)
      /\ IdsOf(c2) = <<MapId>> \o U
  <2>1. IdsOf(c2) = IdsOf(k1) \o IdsOf(k2)
    BY Zenon, <1>1, <1>2, IdsOfConcat
  <2>2. c2 \in Seq(Actions) /\ Range(c2) = Range(k1) \cup Range(k2)
    BY Zenon, <1>1, <1>2, ConcatFacts
  <2> QED BY <1>1, <1>2, <2>1, <2>2
<1>8. /\ c3 \in Seq(Actions) /\ Range(c3) = Range(c2) \cup Range(k3)
      /\ IdsOf(c3) = <<MapId>> \o U \o F
  <2> HIDE DEF c2
  <2> QED BY Zenon, <1>3, <1>7, ConcatFacts, IdsOfConcat
<1>9. /\ c4 \in Seq(Actions) /\ Range(c4) = Range(c3) \cup Range(k4)
      /\ IdsOf(c4) = <<MapId>> \o U \o F \o P
  <2> HIDE DEF c3
  <2> QED BY Zenon, <1>4, <1>8, ConcatFacts, IdsOfConcat
<1>10. /\ catalog \in Seq(Actions) /\ Range(catalog) = Range(c4) \cup Range(k5)
       /\ IdsOf(catalog) = <<MapId>> \o U \o F \o P \o O
  <2>1. catalog = c4 \o k5
    BY <1>6
  <2> HIDE DEF c4
  <2> QED BY Zenon, <1>5, <1>9, <2>1, ConcatFacts, IdsOfConcat
<1> HIDE DEF c2, c3, c4
<1>11. {Entry(x, FALSE, "none") : x \in Range(<<MapId>>)} = {Entry(MapId, FALSE, "none")}
  BY Zenon, Families
<1>12. Range(catalog) = Range(k1) \cup Range(k2) \cup Range(k3) \cup Range(k4) \cup Range(k5)
  BY <1>7, <1>8, <1>9, <1>10
<1>13. IsInjective(IdsOf(catalog))
  BY <1>10, CatalogAssumption DEF U, F, P, O
<1>14. Range(IdsOf(catalog)) = Ids
  <2>1. Range(IdsOf(catalog)) = {a.id : a \in Range(catalog)}
    BY Zenon, <1>10, IdsOfFacts
  <2>2. \A x, m, n : Entry(x, m, n).id = x
    BY DEF Entry
  <2>3. Ids = {MapId} \cup Range(U) \cup Range(F) \cup Range(P) \cup Range(O)
    BY DEF Ids, HttpIds, CliIds, U, F, P, O
  <2>4. /\ {a.id : a \in Range(k2)} = Range(U) /\ {a.id : a \in Range(k3)} = Range(F)
        /\ {a.id : a \in Range(k4)} = Range(P) /\ {a.id : a \in Range(k5)} = Range(O)
        /\ {a.id : a \in Range(k1)} = {MapId}
    <3>2. {a.id : a \in {Entry(MapId, FALSE, "none")}} = {MapId}
      BY Zenon, <2>2
    <3>3. {a.id : a \in Range(k1)} = {MapId}
      BY Zenon, <1>1, <1>11, <3>2
    <3>4. {a.id : a \in Range(k2)} = Range(U) /\ {a.id : a \in Range(k3)} = Range(F)
      BY Zenon, <1>2, <1>3, IdsOfFacts
    <3>5. {a.id : a \in Range(k4)} = Range(P) /\ {a.id : a \in Range(k5)} = Range(O)
      BY Zenon, <1>4, <1>5, IdsOfFacts
    <3> QED BY <3>3, <3>4, <3>5
  <2>5. \A S, T : {a.id : a \in S \cup T} = {a.id : a \in S} \cup {a.id : a \in T}
    OBVIOUS
  <2> QED BY <1>12, <2>1, <2>3, <2>4, <2>5
<1> QED BY Zenon, <1>1, <1>2, <1>3, <1>4, <1>5, <1>10, <1>11, <1>12, <1>13, <1>14

\* Two entries with one id are the same entry.
LEMMA SameId ==
  ASSUME NEW a \in Range(catalog), NEW b \in Range(catalog), a.id = b.id
  PROVE  a = b
<1>1. PICK i \in DOMAIN catalog : a = catalog[i]
  BY DEF Range
<1>2. PICK j \in DOMAIN catalog : b = catalog[j]
  BY DEF Range
<1>3. IdsOf(catalog)[i] = IdsOf(catalog)[j] /\ DOMAIN IdsOf(catalog) = DOMAIN catalog
  BY <1>1, <1>2, CatalogFacts, IdsOfFacts
<1>4. i = j
  BY <1>3, CatalogFacts DEF IsInjective
<1> QED BY <1>1, <1>2, <1>4

-----------------------------------------------------------------------------
(***************************************************************************)
(* Planning from the facts.                                                *)
(***************************************************************************)
\* The classes that a tree justifies.
Planned(T, pack) ==
  {x \in Ids : \/ x = MapId /\ Http(pack)
               \/ x \in Range(U) /\ Http(pack) /\ "users" \in T
               \/ x \in Range(F) /\ Http(pack) /\ "files" \in T
               \/ x \in Range(P) /\ Cli(pack) /\ "parse" \in T
               \/ x \in Range(O) /\ Cli(pack) /\ "once" \in T}

\* The facts of a tree, by their names.
LEMMA FactsFacts ==
  ASSUME NEW T, NEW pack
  PROVE  LET facts == facts_from(T) IN
         /\ facts["users"] = ("users" \in T) /\ facts["files"] = ("files" \in T)
         /\ facts["parse"] = ("parse" \in T) /\ facts["once"] = ("once" \in T)
         /\ NeedsMap(facts, pack) = Http(pack)
<1> DEFINE facts == facts_from(T)
<1>1. /\ facts.users = ("users" \in T) /\ facts.files = ("files" \in T)
      /\ facts.parse = ("parse" \in T) /\ facts.once = ("once" \in T)
      /\ facts.http_paths = (suggest_bind(T) # {})
  BY DEF facts_from
<1>2. facts.http_paths
  BY Zenon, <1>1 DEF suggest_bind
<1>3. NeedsMap(facts, pack) = Http(pack)
  BY <1>2 DEF NeedsMap, Http
<1> QED BY <1>1, <1>3

\* The entries of the catalogue, family by family.
LEMMA EntryCases ==
  ASSUME NEW a \in Range(catalog)
  PROVE  \/ a.id = MapId /\ a.need = "none" /\ a.needs_mapped = FALSE
         \/ a.id \in Range(U) /\ a.need = "users" /\ a.needs_mapped = TRUE
         \/ a.id \in Range(F) /\ a.need = "files" /\ a.needs_mapped = TRUE
         \/ a.id \in Range(P) /\ a.need = "parse" /\ a.needs_mapped = FALSE
         \/ a.id \in Range(O) /\ a.need = "once" /\ a.needs_mapped = FALSE
<1>2. \/ a = Entry(MapId, FALSE, "none")
      \/ \E x \in Range(U) : a = Entry(x, TRUE, "users")
      \/ \E x \in Range(F) : a = Entry(x, TRUE, "files")
      \/ \E x \in Range(P) : a = Entry(x, FALSE, "parse")
      \/ \E x \in Range(O) : a = Entry(x, FALSE, "once")
  BY Zenon, CatalogFacts
<1>3. CASE a = Entry(MapId, FALSE, "none")
  BY <1>3 DEF Entry
<1>4. CASE \E x \in Range(U) : a = Entry(x, TRUE, "users")
  BY <1>4 DEF Entry
<1>5. CASE \E x \in Range(F) : a = Entry(x, TRUE, "files")
  BY <1>5 DEF Entry
<1>6. CASE \E x \in Range(P) : a = Entry(x, FALSE, "parse")
  BY <1>6 DEF Entry
<1>7. CASE \E x \in Range(O) : a = Entry(x, FALSE, "once")
  BY <1>7 DEF Entry
<1> QED BY Zenon, <1>2, <1>3, <1>4, <1>5, <1>6, <1>7

\* The http classes and the others.
LEMMA HttpCases ==
  /\ HttpIds = {MapId} \cup Range(U) \cup Range(F) /\ CliIds = Range(P) \cup Range(O)
  /\ Ids = HttpIds \cup CliIds /\ HttpIds \cap CliIds = {}
BY Families DEF HttpIds, CliIds, Ids, U, F, P, O

\* The applicable entries are those of the justified classes, each once.
LEMMA ApplicableFacts ==
  ASSUME NEW T, NEW pack
  PROVE  LET act == applicable(facts_from(T), pack) IN
         /\ act \in Seq(Actions) /\ Range(act) \subseteq Range(catalog)
         /\ IsInjective(IdsOf(act)) /\ IdsOf(act) \in Seq(Ids)
         /\ Range(IdsOf(act)) = Planned(T, pack)
<1> DEFINE facts == facts_from(T)
           act == applicable(facts, pack)
           Test(a) == /\ a.id \in HttpIds => Http(pack)
                      /\ a.need \in {"parse", "once"} => Cli(pack)
                      /\ IF a.id = MapId THEN NeedsMap(facts, pack) ELSE facts[a.need]
           S == {a \in Range(catalog) : Test(a)}
<1>1. act = Filter(catalog, S)
  BY DEF applicable
<1> HIDE DEF act
<1>2. act \in Seq(Actions) /\ Range(act) = S /\ IsInjective(act)
  <2>1. catalog \in Seq(Actions) /\ IsInjective(catalog)
    BY CatalogFacts, IdsOfFacts
  <2>2. Range(catalog) \cap S = S
    OBVIOUS
  <2> HIDE DEF S
  <2>3. /\ Filter(catalog, S) \in Seq(Actions) /\ IsInjective(Filter(catalog, S))
        /\ Range(Filter(catalog, S)) = Range(catalog) \cap S
    BY Zenon, <2>1, FilterFacts
  <2> QED BY <1>1, <2>2, <2>3
<1>3. IsInjective(IdsOf(act)) /\ IdsOf(act) \in Seq(Ids)
  <2>1. ASSUME NEW i \in DOMAIN act, NEW j \in DOMAIN act, act[i].id = act[j].id PROVE i = j
    <3>1. act[i] \in Range(catalog) /\ act[j] \in Range(catalog)
      <4>1. act[i] \in Range(act) /\ act[j] \in Range(act)
        BY Zenon DEF Range
      <4> QED BY <1>2, <4>1
    <3>2. act[i] = act[j]
      BY <2>1, <3>1, SameId
    <3> QED BY <1>2, <3>2 DEF IsInjective
  <2>2. /\ DOMAIN IdsOf(act) = DOMAIN act /\ IdsOf(act) \in Seq(Ids)
        /\ \A i \in DOMAIN act : IdsOf(act)[i] = act[i].id
    BY <1>2, IdsOfFacts
  <2> QED BY <2>1, <2>2 DEF IsInjective
<1>4. Range(IdsOf(act)) = {a.id : a \in S}
  <2>1. Range(IdsOf(act)) = {a.id : a \in Range(act)}
    BY <1>2, IdsOfFacts
  <2> QED BY Zenon, <1>2, <2>1
<1>5. ASSUME NEW a \in Range(catalog) PROVE a.id \in Planned(T, pack) <=> Test(a)
  <2> DEFINE fact == facts[a.need]
  <2>0. a.id \in Ids
    BY Zenon, EntryCases, HttpCases
  <2>1. CASE a.id = MapId /\ a.need = "none"
    BY <2>0, <2>1, FactsFacts, Families, HttpCases DEF Planned
  <2>2. CASE a.id \in Range(U) /\ a.need = "users"
    <3>1. fact = ("users" \in T) /\ a.id \in HttpIds /\ a.id # MapId
      BY ZenonT(30), <2>2, FactsFacts, Families, HttpCases
    <3> QED BY Zenon, <2>0, <2>2, <3>1, Families DEF Planned
  <2>3. CASE a.id \in Range(F) /\ a.need = "files"
    <3>1. fact = ("files" \in T) /\ a.id \in HttpIds /\ a.id # MapId
      BY ZenonT(30), <2>3, FactsFacts, Families, HttpCases
    <3> QED BY Zenon, <2>0, <2>3, <3>1, Families DEF Planned
  <2>4. CASE a.id \in Range(P) /\ a.need = "parse"
    <3>1. fact = ("parse" \in T) /\ a.id \notin HttpIds /\ a.id # MapId
      BY ZenonT(30), <2>4, FactsFacts, Families, HttpCases
    <3> QED BY Zenon, <2>0, <2>4, <3>1, Families DEF Planned
  <2>5. CASE a.id \in Range(O) /\ a.need = "once"
    <3>1. fact = ("once" \in T) /\ a.id \notin HttpIds /\ a.id # MapId
      BY Zenon, <2>5, FactsFacts, Families, HttpCases
    <3> QED BY Zenon, <2>0, <2>5, <3>1, Families DEF Planned
  <2> QED BY Zenon, <2>1, <2>2, <2>3, <2>4, <2>5, EntryCases
<1>6. ASSUME NEW x \in Planned(T, pack) PROVE \E a \in Range(catalog) : a.id = x
  <2>1. x \in Ids /\ Ids = {a.id : a \in Range(catalog)}
    BY Zenon, CatalogFacts, IdsOfFacts DEF Planned
  <2> QED BY <2>1
<1>7. {a.id : a \in S} = Planned(T, pack)
  <2> HIDE DEF Test
  <2> QED BY <1>5, <1>6
<1> QED BY <1>2, <1>3, <1>4, <1>7 DEF act

\* No other http class comes before the surface map.
MapFirst(s) == \A i, j \in DOMAIN s : s[i] \in HttpIds /\ s[j] = MapId => j <= i

\* What the planner may start from or answer: classes, each once, the map first.
Orderly(s) == s \in Seq(Ids) /\ IsInjective(s) /\ MapFirst(s)

\* Taking classes out keeps the order.
LEMMA FilterOrderly ==
  ASSUME NEW s, Orderly(s), NEW S
  PROVE  Orderly(Filter(s, S)) /\ Range(Filter(s, S)) = Range(s) \cap S
<1> DEFINE t == Filter(s, S)
<1>1. s \in Seq(Ids) /\ IsInjective(s) /\ MapFirst(s)
  BY DEF Orderly
<1>2. t \in Seq(Ids) /\ IsInjective(t) /\ Range(t) = Range(s) \cap S
  BY <1>1, FilterFacts
<1>3. ASSUME NEW i \in DOMAIN t, NEW j \in DOMAIN t, t[i] \in HttpIds, t[j] = MapId, ~ (j <= i)
      PROVE  FALSE
  <2>1. i \in Nat /\ j \in Nat
    BY <1>2
  <2>2. i < j
    BY <1>3, <2>1
  <2>3. PICK k, l \in DOMAIN s : k < l /\ s[k] = t[i] /\ s[l] = t[j]
    BY <1>1, <2>2, FilterOrder
  <2>4. l <= k /\ k \in Nat /\ l \in Nat
    BY <1>1, <1>3, <2>3 DEF MapFirst
  <2> QED BY <2>3, <2>4
<1> HIDE DEF t
<1>4. MapFirst(t)
  BY <1>3 DEF MapFirst
<1> QED BY <1>2, <1>4 DEF Orderly, t

\* When keeps a sequence or gives none.
LEMMA WhenFacts ==
  ASSUME NEW c \in BOOLEAN, NEW s \in Seq(Ids), IsInjective(s)
  PROVE  /\ When(c, s) \in Seq(Ids) /\ IsInjective(When(c, s))
         /\ Range(When(c, s)) = IF c THEN Range(s) ELSE {}
<1>1. << >> \in Seq(Ids) /\ IsInjective(<< >>) /\ Range(<< >>) = {}
  BY DEF IsInjective, Range
<1>2. CASE c
  BY <1>2 DEF When
<1>3. CASE ~c
  BY <1>1, <1>3 DEF When
<1> QED BY <1>2, <1>3

\* htn_plan has each justified class once, the surface map first.
LEMMA HtnPlan ==
  ASSUME NEW T, NEW pack
  PROVE  LET plan == htn_plan(facts_from(T), pack) IN
         Orderly(plan) /\ Range(plan) = Planned(T, pack)
<1> DEFINE facts == facts_from(T)
           w1 == When(NeedsMap(facts, pack), <<MapId>>)
           w2 == When(Http(pack) /\ facts.users, U)
           w3 == When(Http(pack) /\ facts.files, F)
           w4 == When(Cli(pack) /\ facts.parse, P)
           w5 == When(Cli(pack) /\ facts.once, O)
           h == Http(pack)
           c == Cli(pack)
<1>1. /\ facts.users = ("users" \in T) /\ facts.files = ("files" \in T)
      /\ facts.parse = ("parse" \in T) /\ facts.once = ("once" \in T)
      /\ NeedsMap(facts, pack) = Http(pack)
      /\ h \in BOOLEAN /\ c \in BOOLEAN
  BY FactsFacts DEF Http, Cli
<1>2. /\ w1 \in Seq(Ids) /\ IsInjective(w1)
      /\ Range(w1) = IF h THEN {MapId} ELSE {}
  BY Zenon, <1>1, WhenFacts, Families
<1>3. /\ w2 \in Seq(Ids) /\ IsInjective(w2)
      /\ Range(w2) = IF h /\ "users" \in T THEN Range(U) ELSE {}
  BY Zenon, <1>1, WhenFacts, Families
<1>4. /\ w3 \in Seq(Ids) /\ IsInjective(w3)
      /\ Range(w3) = IF h /\ "files" \in T THEN Range(F) ELSE {}
  BY Zenon, <1>1, WhenFacts, Families
<1>5. /\ w4 \in Seq(Ids) /\ IsInjective(w4)
      /\ Range(w4) = IF c /\ "parse" \in T THEN Range(P) ELSE {}
  BY Zenon, <1>1, WhenFacts, Families
<1>6. /\ w5 \in Seq(Ids) /\ IsInjective(w5)
      /\ Range(w5) = IF c /\ "once" \in T THEN Range(O) ELSE {}
  BY Zenon, <1>1, WhenFacts, Families
<1>7. htn_plan(facts, pack) = w1 \o w2 \o w3 \o w4 \o w5
  BY Zenon DEF htn_plan, U, F, P, O
<1>0. w1 = IF h THEN <<MapId>> ELSE << >>
  BY <1>1 DEF When
<1> HIDE DEF w1, w2, w3, w4, w5, facts
<1> DEFINE c2 == w1 \o w2
           c3 == c2 \o w3
           c4 == c3 \o w4
           c5 == c4 \o w5
<1>8. /\ c2 \in Seq(Ids) /\ Range(c2) = Range(w1) \cup Range(w2)
      /\ IsInjective(c2)
  <2>1. Range(w1) \cap Range(w2) = {}
    BY <1>2, <1>3, Families
  <2> QED BY <1>2, <1>3, <2>1, ConcatFacts
<1>9. /\ c3 \in Seq(Ids) /\ Range(c3) = Range(c2) \cup Range(w3)
      /\ IsInjective(c3)
  <2>1. Range(c2) \cap Range(w3) = {}
    BY <1>2, <1>3, <1>4, <1>8, Families
  <2> HIDE DEF c2
  <2> QED BY <1>4, <1>8, <2>1, ConcatFacts
<1>10. /\ c4 \in Seq(Ids) /\ Range(c4) = Range(c3) \cup Range(w4)
       /\ IsInjective(c4)
  <2>1. Range(c3) \cap Range(w4) = {}
    BY <1>2, <1>3, <1>4, <1>5, <1>8, <1>9, Families
  <2> HIDE DEF c3
  <2> QED BY <1>5, <1>9, <2>1, ConcatFacts
<1>11. /\ c5 \in Seq(Ids) /\ Range(c5) = Range(c4) \cup Range(w5)
       /\ IsInjective(c5)
  <2>1. Range(c4) \cap Range(w5) = {}
    BY <1>2, <1>3, <1>4, <1>5, <1>6, <1>8, <1>9, <1>10, Families
  <2> HIDE DEF c4
  <2> QED BY <1>6, <1>10, <2>1, ConcatFacts
<1>12. Range(c5) = Planned(T, pack)
  <2> HIDE DEF c2, c3, c4, c5, h, c
  <2>1. Range(c5) = Range(w1) \cup Range(w2) \cup Range(w3) \cup Range(w4) \cup Range(w5)
    BY <1>8, <1>9, <1>10, <1>11
  <2>2. Planned(T, pack) = {x \in Ids : \/ x = MapId /\ h
                                        \/ x \in Range(U) /\ h /\ "users" \in T
                                        \/ x \in Range(F) /\ h /\ "files" \in T
                                        \/ x \in Range(P) /\ c /\ "parse" \in T
                                        \/ x \in Range(O) /\ c /\ "once" \in T}
    BY Zenon DEF Planned, h, c
  <2> QED BY <1>2, <1>3, <1>4, <1>5, <1>6, <2>1, <2>2, HttpCases
<1>13. MapFirst(c5)
  <2> HIDE DEF c5, h
  <2>1. CASE h
    <3>1. w1 = <<MapId>> /\ Len(w1) = 1 /\ w1[1] = MapId
      BY <1>0, <2>1
    <3>2. /\ Len(c2) \in Nat /\ Len(c2) >= 1 /\ c2[1] = MapId
      BY <1>3, <3>1
    <3>3. /\ Len(c3) \in Nat /\ Len(c3) >= 1 /\ c3[1] = MapId
      <4> HIDE DEF c2
      <4> QED BY <1>4, <1>8, <3>2
    <3>4. /\ Len(c4) \in Nat /\ Len(c4) >= 1 /\ c4[1] = MapId
      <4> HIDE DEF c3
      <4> QED BY <1>5, <1>9, <3>3
    <3>5. 1 \in DOMAIN c5 /\ c5[1] = MapId
      <4> HIDE DEF c4
      <4> QED BY <1>6, <1>10, <3>4 DEF c5
    <3>6. \A i \in DOMAIN c5 : 1 <= i
      BY <1>11
    <3>7. \A j \in DOMAIN c5 : c5[j] = MapId => j = 1
      BY <1>11, <3>5 DEF IsInjective
    <3> QED BY <3>6, <3>7 DEF MapFirst
  <2>2. CASE ~h
    <3>1. MapId \notin Planned(T, pack)
      BY <2>2, Families DEF Planned, h
    <3>2. \A j \in DOMAIN c5 : c5[j] # MapId
      BY <1>12, <3>1 DEF Range
    <3> QED BY <3>2 DEF MapFirst
  <2> QED BY <2>1, <2>2
<1>14. htn_plan(facts, pack) = c5
  BY <1>7
<1> HIDE DEF c5
<1> QED BY <1>11, <1>12, <1>13, <1>14 DEF Orderly, facts

-----------------------------------------------------------------------------
(***************************************************************************)
(* The search.                                                             *)
(***************************************************************************)
\* What strips_plan knows of a node: its path is orderly, and it holds no http
\* class before the surface map, if that is to run.
Nodes(ids) ==
  {node \in [mapped : BOOLEAN, path : Seq(Ids)] :
     /\ Orderly(node.path) /\ Range(node.path) \subseteq ids
     /\ MapId \in ids => /\ node.mapped => MapId \in Range(node.path)
                         /\ MapId \in Range(node.path) \/ Range(node.path) \cap HttpIds = {}}

\* What it knows between two turns of its loop.
Searches(ids) ==
  [queue : Seq(Nodes(ids)), seen : SUBSET (BOOLEAN \X SUBSET Ids),
   plan : {plan \in Seq(Ids) : Orderly(plan) /\ Range(plan) = ids}]

\* The entries that a search is given.
Entries(act) == act \in Seq(Actions) /\ Range(act) \subseteq Range(catalog)

\* One class more on a path.
LEMMA NextNode ==
  ASSUME NEW ids \in SUBSET Ids, NEW node \in Nodes(ids), NEW a \in Range(catalog),
         a.id \in ids, a.id \notin Range(node.path), a.needs_mapped => node.mapped
  PROVE  [mapped |-> node.mapped \/ a.id = MapId, path |-> Append(node.path, a.id)]
            \in Nodes(ids)
<1> DEFINE path == node.path
           new == Append(path, a.id)
           mapped == node.mapped \/ a.id = MapId
<1>1. /\ path \in Seq(Ids) /\ IsInjective(path) /\ MapFirst(path) /\ Range(path) \subseteq ids
      /\ node.mapped \in BOOLEAN /\ mapped \in BOOLEAN
      /\ MapId \in ids => /\ node.mapped => MapId \in Range(path)
                          /\ MapId \in Range(path) \/ Range(path) \cap HttpIds = {}
  BY DEF Nodes, Orderly
<1>2. a.id \in Ids /\ a.id \notin Range(path)
  OBVIOUS
<1> HIDE DEF path
<1>3. new \in Seq(Ids) /\ IsInjective(new) /\ Range(new) = Range(path) \cup {a.id}
  BY <1>1, <1>2, AppendFacts
<1>4. ASSUME NEW i \in DOMAIN new, NEW j \in DOMAIN new, new[i] \in HttpIds, new[j] = MapId
      PROVE  j <= i
  <2>1. /\ Len(path) \in Nat /\ DOMAIN path = 1 .. Len(path)
        /\ i \in 1 .. (Len(path) + 1) /\ j \in 1 .. (Len(path) + 1)
        /\ i \in DOMAIN path => new[i] = path[i]
        /\ j \in DOMAIN path => new[j] = path[j]
        /\ new[Len(path) + 1] = a.id
    BY <1>1, <1>2
  <2> HIDE DEF new
  <2>2. CASE i = Len(path) + 1
    BY <2>1, <2>2
  <2>3. CASE i \in DOMAIN path /\ j \in DOMAIN path
    BY <1>1, <1>4, <2>1, <2>3 DEF MapFirst
  <2>4. CASE i \in DOMAIN path /\ j = Len(path) + 1
    <3>1. a.id = MapId /\ path[i] \in HttpIds
      BY <1>4, <2>1, <2>4
    <3>2. path[i] \in Range(path)
      BY <2>4 DEF Range
    <3> QED BY <1>1, <1>2, <3>1, <3>2
  <2> QED BY <2>1, <2>2, <2>3, <2>4
<1>5. MapFirst(new)
  <2> HIDE DEF new
  <2> QED BY <1>4 DEF MapFirst
<1>6. a.id \in HttpIds => a.id = MapId \/ node.mapped
  BY Zenon, EntryCases, HttpCases
<1> HIDE DEF new
<1>7. MapId \in ids => /\ mapped => MapId \in Range(new)
                       /\ MapId \in Range(new) \/ Range(new) \cap HttpIds = {}
  BY <1>1, <1>3, <1>6
<1> HIDE DEF mapped
<1> DEFINE r == [mapped |-> mapped, path |-> new]
<1>8. r.mapped = mapped /\ r.path = new /\ r \in [mapped : BOOLEAN, path : Seq(Ids)]
  BY <1>1, <1>3
<1> HIDE DEF r
<1>9. r \in Nodes(ids)
  BY <1>1, <1>3, <1>5, <1>7, <1>8 DEF Nodes, Orderly
<1> QED BY <1>9 DEF r, new, mapped, path

\* Expanding a node.
LEMMA ExpandNode ==
  ASSUME NEW act, Entries(act), NEW node \in Nodes(Range(IdsOf(act)))
  PROVE  Expand(node, act) \in Seq(Nodes(Range(IdsOf(act))))
<1> DEFINE ids == Range(IdsOf(act))
           S == {a \in Range(act) : /\ a.id \notin Range(node.path)
                                    /\ a.needs_mapped => node.mapped}
           open == Filter(act, S)
           After(i) == [mapped |-> node.mapped \/ open[i].id = MapId,
                        path   |-> Append(node.path, open[i].id)]
<1>1. Expand(node, act) = [i \in DOMAIN open |-> After(i)]
  BY DEF Expand
<1>2. /\ act \in Seq(Actions) /\ Range(act) \subseteq Range(catalog)
      /\ ids = {a.id : a \in Range(act)} /\ ids \subseteq Ids
  <2>1. /\ act \in Seq(Actions) /\ Range(act) \subseteq Range(catalog)
    BY DEF Entries
  <2>2. ids = {a.id : a \in Range(act)}
    BY <2>1, IdsOfFacts
  <2>3. Range(act) \subseteq Actions
    BY <2>1 DEF Range
  <2> QED BY <2>1, <2>2, <2>3 DEF Actions
<1>3. open \in Seq(Actions) /\ Range(open) \subseteq S
  BY <1>2, FilterFacts
<1> HIDE DEF open, ids
<1>4. ASSUME NEW i \in DOMAIN open PROVE After(i) \in Nodes(ids)
  <2>1. open[i] \in S
    BY <1>3 DEF Range
  <2>2. PICK a \in Range(catalog) :
          /\ a = open[i] /\ a.id \in ids /\ a.id \notin Range(node.path)
          /\ a.needs_mapped => node.mapped
    BY <1>2, <2>1
  <2>3. ids \in SUBSET Ids /\ node \in Nodes(ids)
    BY <1>2 DEF ids
  <2>4. [mapped |-> node.mapped \/ a.id = MapId, path |-> Append(node.path, a.id)]
          \in Nodes(ids)
    BY Zenon, <2>2, <2>3, NextNode
  <2> QED BY <2>2, <2>4
<1>5. DOMAIN open = 1 .. Len(open) /\ Len(open) \in Nat
  BY <1>3
<1> HIDE DEF After
<1>6. [i \in DOMAIN open |-> After(i)] \in Seq(Nodes(ids))
  BY <1>4, <1>5
<1> QED BY <1>1, <1>6 DEF ids

\* One turn of the loop.
LEMMA TurnKeeps ==
  ASSUME NEW act, Entries(act), NEW search \in Searches(Range(IdsOf(act))),
         search.queue # << >>
  PROVE  Turn(search, act) \in Searches(Range(IdsOf(act)))
<1> DEFINE ids == Range(IdsOf(act))
           node == Head(search.queue)
           key == <<node.mapped, Range(node.path)>>
           more == Expand(node, act)
<1>1. /\ search.queue \in Seq(Nodes(ids)) /\ search.seen \in SUBSET (BOOLEAN \X SUBSET Ids)
      /\ search.plan \in {plan \in Seq(Ids) : Orderly(plan) /\ Range(plan) = ids}
      /\ search = [queue |-> search.queue, seen |-> search.seen, plan |-> search.plan]
  BY DEF Searches
<1>2. more \in Seq(Nodes(ids))
  <2>1. node \in Nodes(ids)
    BY <1>1
  <2> HIDE DEF node
  <2> QED BY <2>1, ExpandNode
<1> HIDE DEF ids, more
<1>3. node \in Nodes(ids) /\ Tail(search.queue) \in Seq(Nodes(ids))
  BY <1>1
<1>4. Tail(search.queue) \o more \in Seq(Nodes(ids))
  BY <1>2, <1>3
<1> HIDE DEF node
<1>5. /\ node.mapped \in BOOLEAN /\ node.path \in Seq(Ids) /\ Orderly(node.path)
      /\ Range(node.path) \subseteq ids
  BY <1>3 DEF Nodes
<1>6. Range(node.path) \in SUBSET Ids
  BY <1>5 DEF Range
<1>7. key \in BOOLEAN \X SUBSET Ids
  BY <1>5, <1>6
<1> HIDE DEF key
<1>8. Turn(search, act) =
        IF key \in search.seen
        THEN [search EXCEPT !.queue = Tail(search.queue)]
        ELSE IF ids \subseteq Range(node.path)
        THEN [search EXCEPT !.queue = << >>, !.plan = node.path]
        ELSE [search EXCEPT !.queue = Tail(search.queue) \o more,
                            !.seen = search.seen \cup {key}]
  BY DEF Turn, key, node, ids, more
<1>9. CASE key \in search.seen
  BY Zenon, <1>1, <1>3, <1>8, <1>9 DEF Searches, ids
<1>10. CASE key \notin search.seen /\ ids \subseteq Range(node.path)
  <2>1. node.path \in {plan \in Seq(Ids) : Orderly(plan) /\ Range(plan) = ids}
    BY Zenon, <1>5, <1>10
  <2>2. Turn(search, act) = [queue |-> << >>, seen |-> search.seen, plan |-> node.path]
    BY Zenon, <1>1, <1>8, <1>10
  <2>3. << >> \in Seq(Nodes(ids))
    OBVIOUS
  <2> QED BY <1>1, <2>1, <2>2, <2>3 DEF Searches, ids
<1>11. CASE key \notin search.seen /\ ~ (ids \subseteq Range(node.path))
  <2>1. Turn(search, act) = [queue |-> Tail(search.queue) \o more,
                             seen |-> search.seen \cup {key}, plan |-> search.plan]
    BY Zenon, <1>1, <1>8, <1>11
  <2>2. search.seen \cup {key} \in SUBSET (BOOLEAN \X SUBSET Ids)
    BY <1>1, <1>7
  <2> QED BY <1>1, <1>4, <2>1, <2>2 DEF Searches, ids
<1> QED BY <1>9, <1>10, <1>11

\* The search ends with an orderly plan of all the classes it was given, if it
\* finds one, if it finds none, and if it runs out of turns.
LEMMA SearchFinds ==
  ASSUME NEW act, Entries(act), NEW fallback \in Seq(Ids), Orderly(fallback),
         Range(fallback) = Range(IdsOf(act))
  PROVE  Orderly(Search(act, fallback).plan)
         /\ Range(Search(act, fallback).plan) = Range(IdsOf(act))
<1> DEFINE ids == Range(IdsOf(act))
           S == Searches(ids)
           L == MaxTurns
           start == [mapped |-> MapId \notin Range(IdsOf(act)), path |-> << >>]
           s0 == [queue |-> <<start>>, seen |-> {}, plan |-> fallback]
           Step(f, n) == IF n = 0 THEN s0
                         ELSE IF f[n - 1].queue = << >> THEN f[n - 1] ELSE Turn(f[n - 1], act)
           after[n \in 0 .. MaxTurns] ==
             IF n = 0 THEN [queue |-> <<start>>, seen |-> {}, plan |-> fallback]
             ELSE LET search == after[n - 1] IN
                  IF search.queue = << >> THEN search ELSE Turn(search, act)
           turn == [x \in S |-> IF x.queue = << >> THEN x ELSE Turn(x, act)]
           next == [n \in 1 .. L |-> turn]
<1>1. L \in Nat
  BY CatalogAssumption
<1>2. s0 \in S
  <2>1. << >> \in Seq(Ids) /\ Orderly(<< >>) /\ Range(<< >>) = {}
    BY DEF Orderly, IsInjective, MapFirst, Range
  <2>2. start \in Nodes(ids)
    <3>1. start.path = << >> /\ start.mapped = (MapId \notin ids)
      OBVIOUS
    <3>2. start \in [mapped : BOOLEAN, path : Seq(Ids)]
      BY <2>1
    <3> HIDE DEF start
    <3> QED BY <2>1, <3>1, <3>2 DEF Nodes
  <2> HIDE DEF start, ids
  <2>3. <<start>> \in Seq(Nodes(ids))
    BY <2>2
  <2>4. fallback \in {plan \in Seq(Ids) : Orderly(plan) /\ Range(plan) = ids}
    BY DEF ids
  <2> QED BY <2>3, <2>4 DEF Searches
<1>3. next \in [1 .. L -> [S -> S]]
  <2>1. ASSUME NEW x \in S, x.queue # << >> PROVE Turn(x, act) \in S
    BY <2>1, TurnKeeps
  <2> HIDE DEF S
  <2> QED BY <2>1
<1> HIDE DEF S, L, Step, after, next, s0
<1>4. PICK g : Loops(g, S, s0, L, next)
  BY Zenon, <1>1, <1>2, <1>3, Iterates
<1>5. g \in [0 .. L -> S] /\ g[0] = s0 /\ \A n \in 1 .. L : g[n] = next[n][g[n - 1]]
  BY <1>4 DEF Loops
<1>6. g = [n \in 0 .. L |-> Step(g, n)]
  <2>1. ASSUME NEW n \in 0 .. L PROVE g[n] = Step(g, n)
    <3>1. CASE n = 0
      BY <1>5, <3>1 DEF Step
    <3>2. CASE n # 0
      <4>1. n \in 1 .. L /\ n - 1 \in 0 .. L
        BY <1>1, <3>2
      <4>2. g[n - 1] \in S /\ g[n] = next[n][g[n - 1]]
        BY <1>5, <4>1
      <4>3. g[n] = IF g[n - 1].queue = << >> THEN g[n - 1] ELSE Turn(g[n - 1], act)
        BY <4>1, <4>2 DEF next
      <4> QED BY <3>2, <4>3 DEF Step
    <3> QED BY <3>1, <3>2
  <2> QED BY <1>5, <2>1
<1>7. after = [n \in 0 .. L |-> Step(after, n)]
  BY Zenon, <1>6 DEF after, Step, L, s0
<1>8. after[L] = g[L]
  <2> DEFINE Q == {n \in 0 .. L : after[n] = g[n]}
  <2>1. 0 \in Q
    <3>1. 0 \in 0 .. L
      BY <1>1
    <3>2. after[0] = s0
      BY <1>7, <3>1 DEF Step
    <3> QED BY <1>5, <3>1, <3>2
  <2>2. ASSUME NEW n \in Nat, n < L, n \in Q PROVE n + 1 \in Q
    <3>1. n + 1 \in 0 .. L /\ (n + 1) - 1 = n /\ after[n] = g[n] /\ n + 1 # 0
      BY <1>1, <2>2
    <3>2. after[n + 1] = Step(after, n + 1)
      BY Zenon, <1>7, <3>1
    <3>3. g[n + 1] = Step(g, n + 1)
      BY Zenon, <1>6, <3>1
    <3>4. Step(after, n + 1) = Step(g, n + 1)
      BY <3>1 DEF Step
    <3> QED BY <3>1, <3>2, <3>3, <3>4
  <2> HIDE DEF Q
  <2>3. L \in Q
    BY <1>1, <2>1, <2>2, IndUpTo
  <2> QED BY <2>3 DEF Q
<1>9. Search(act, fallback) = after[L]
  BY DEF Search, after, L
<1>10. g[L] \in Searches(ids)
  <2>1. L \in 0 .. L
    BY <1>1
  <2> QED BY <1>5, <2>1 DEF S
<1>11. g[L].plan \in {plan \in Seq(Ids) : Orderly(plan) /\ Range(plan) = ids}
  <2> HIDE DEF ids
  <2> QED BY <1>10 DEF Searches
<1> QED BY <1>8, <1>9, <1>11

\* strips_plan has each justified class once, the surface map first.
LEMMA StripsPlan ==
  ASSUME NEW T, NEW pack
  PROVE  LET plan == strips_plan(facts_from(T), pack) IN
         Orderly(plan) /\ Range(plan) = Planned(T, pack)
<1> DEFINE act == applicable(facts_from(T), pack)
           htn == htn_plan(facts_from(T), pack)
<1>1. Entries(act) /\ Range(IdsOf(act)) = Planned(T, pack)
  BY ApplicableFacts DEF Entries
<1>2. htn \in Seq(Ids) /\ Orderly(htn) /\ Range(htn) = Range(IdsOf(act))
  BY <1>1, HtnPlan DEF Orderly
<1>3. strips_plan(facts_from(T), pack) = Search(act, htn).plan
  BY DEF strips_plan
<1> HIDE DEF act, htn
<1> QED BY <1>1, <1>2, <1>3, SearchFinds

\* try_fast_downward and its fallback: whatever orderly plan was read, for
\* whatever tree and pack, the plan that is used has each justified class once.
LEMMA BasePlan ==
  ASSUME NEW T, NEW pack, NEW raw, Orderly(raw)
  PROVE  LET plan == base_plan(raw, facts_from(T), pack) IN
         Orderly(plan) /\ Range(plan) = Planned(T, pack)
<1> DEFINE allowed == Range(IdsOf(applicable(facts_from(T), pack)))
           plan == Filter(raw, allowed)
<1>1. allowed = Planned(T, pack)
  BY ApplicableFacts
<1>2. base_plan(raw, facts_from(T), pack) =
        IF Complete(plan, allowed) THEN plan ELSE strips_plan(facts_from(T), pack)
  BY DEF base_plan, parse_sas_plan
<1> HIDE DEF allowed
<1>3. Orderly(plan) /\ Range(plan) \subseteq allowed
  BY FilterOrderly
<1> HIDE DEF plan
<1>4. CASE Complete(plan, allowed)
  BY Zenon, <1>1, <1>2, <1>3, <1>4 DEF Complete
<1>5. CASE ~Complete(plan, allowed)
  BY <1>2, <1>5, StripsPlan
<1> QED BY <1>4, <1>5

-----------------------------------------------------------------------------
(***************************************************************************)
(* Failure memory.                                                         *)
(***************************************************************************)
\* The ids that the cards of a category name.
NamedBy(mem, category) ==
  {card.spec_id : card \in {c \in Range(mem) : c.category = category}}

\* Named lists these ids, each once.
LEMMA NamedFacts ==
  ASSUME NEW mem \in Seq(Card), NEW category
  PROVE  /\ Named(mem, category) \in Seq(STRING) /\ IsInjective(Named(mem, category))
         /\ Range(Named(mem, category)) = NamedBy(mem, category)
<1> DEFINE first == {i \in DOMAIN mem :
                       /\ mem[i].category = category
                       /\ \A j \in 1 .. (i - 1) : mem[j].category = category
                                                    => mem[j].spec_id # mem[i].spec_id}
           all == [i \in DOMAIN mem |-> i]
           index == Filter(all, first)
           ids == [k \in DOMAIN index |-> mem[index[k]].spec_id]
<1>1. Named(mem, category) = ids
  BY DEF Named
<1>2. DOMAIN mem = 1 .. Len(mem) /\ Len(mem) \in Nat /\ \A i \in DOMAIN mem : mem[i] \in Card
  OBVIOUS
<1>3. \A i \in DOMAIN mem : mem[i].spec_id \in STRING /\ mem[i] \in Range(mem)
  BY <1>2 DEF Card, Range
<1>4. all \in Seq(Nat) /\ IsInjective(all) /\ Range(all) = DOMAIN mem
  <2>1. all \in Seq(Nat)
    BY <1>2
  <2> QED BY Zenon, <2>1 DEF IsInjective, Range
<1>5. first \subseteq DOMAIN mem
  OBVIOUS
<1>6. index \in Seq(Nat) /\ IsInjective(index) /\ Range(index) = first
  <2> HIDE DEF first, all
  <2>1. index \in Seq(Nat) /\ IsInjective(index) /\ Range(index) = Range(all) \cap first
    BY <1>4, FilterFacts
  <2> QED BY <1>4, <1>5, <2>1
<1> HIDE DEF index
<1>7. \A k \in DOMAIN index : index[k] \in first /\ index[k] \in DOMAIN mem
  <2> HIDE DEF first
  <2> QED BY <1>5, <1>6 DEF Range
<1>8. ids \in Seq(STRING)
  <2>1. DOMAIN index = 1 .. Len(index) /\ Len(index) \in Nat
    BY <1>6
  <2> HIDE DEF first
  <2> QED BY <1>3, <1>7, <2>1
<1>9. ASSUME NEW k \in DOMAIN index, NEW l \in DOMAIN index,
             mem[index[k]].spec_id = mem[index[l]].spec_id
      PROVE  k = l
  <2> DEFINE i == index[k]
             j == index[l]
  <2>1. i \in first /\ j \in first /\ i \in Nat /\ j \in Nat /\ i >= 1 /\ j >= 1
    BY <1>2, <1>7
  <2> HIDE DEF i, j
  <2>2. mem[i].spec_id = mem[j].spec_id
    BY <1>9 DEF i, j
  <2>3. ~ (i < j)
    BY <2>1, <2>2
  <2>4. ~ (j < i)
    BY <2>1, <2>2
  <2>5. index[k] = index[l]
    BY <2>1, <2>3, <2>4 DEF i, j
  <2> QED BY <1>6, <2>5 DEF IsInjective
<1>10. IsInjective(ids)
  <2>1. DOMAIN ids = DOMAIN index /\ \A k \in DOMAIN index : ids[k] = mem[index[k]].spec_id
    OBVIOUS
  <2> HIDE DEF ids
  <2> QED BY <1>9, <2>1 DEF IsInjective
<1>11. ASSUME NEW x \in Range(ids) PROVE x \in NamedBy(mem, category)
  <2>1. PICK k \in DOMAIN index : x = mem[index[k]].spec_id
    BY DEF Range
  <2>2. mem[index[k]] \in Range(mem) /\ mem[index[k]].category = category
    BY <1>3, <1>7
  <2> QED BY <2>1, <2>2 DEF NamedBy
<1>12. ASSUME NEW x \in NamedBy(mem, category) PROVE x \in Range(ids)
  <2>1. PICK card \in Range(mem) : card.category = category /\ x = card.spec_id
    BY DEF NamedBy
  <2>2. PICK i \in DOMAIN mem : card = mem[i]
    BY DEF Range
  <2> DEFINE J == {j \in DOMAIN mem : mem[j].category = category /\ mem[j].spec_id = x}
  <2>3. J \in SUBSET Nat /\ J # {}
    BY <1>2, <2>1, <2>2
  <2>4. PICK m \in J : \A j \in J : m <= j
    <3> HIDE DEF J
    <3> QED BY Zenon, <2>3, Least
  <2>5. m \in DOMAIN mem /\ mem[m].category = category /\ mem[m].spec_id = x
    BY <2>4
  <2>6. ASSUME NEW j \in 1 .. (m - 1), mem[j].category = category,
               mem[j].spec_id = mem[m].spec_id
        PROVE  FALSE
    <3>1. j \in DOMAIN mem /\ ~ (m <= j)
      BY <1>2, <2>5
    <3> QED BY <2>4, <2>5, <2>6, <3>1
  <2>7. m \in first
    BY <2>5, <2>6
  <2> HIDE DEF first
  <2>8. PICK k \in DOMAIN index : index[k] = m
    BY <1>6, <2>7 DEF Range
  <2>9. k \in DOMAIN ids /\ ids[k] = x
    BY <2>5, <2>8
  <2> HIDE DEF ids
  <2> QED BY <2>9 DEF Range
<1> HIDE DEF ids
<1> QED BY Zenon, <1>1, <1>8, <1>10, <1>11, <1>12

\* The place of an element tells which part of a concatenation it is from.
LEMMA ConcatPlace ==
  ASSUME NEW A, NEW s \in Seq(A), NEW t \in Seq(A), NEW i \in DOMAIN (s \o t)
  PROVE  /\ i \in Nat /\ i >= 1 /\ Len(s) \in Nat
         /\ i <= Len(s) => i \in DOMAIN s /\ (s \o t)[i] = s[i] /\ s[i] \in Range(s)
         /\ i > Len(s) => /\ i - Len(s) \in DOMAIN t /\ (s \o t)[i] = t[i - Len(s)]
                          /\ t[i - Len(s)] \in Range(t)
<1>1. /\ Len(s) \in Nat /\ Len(t) \in Nat /\ DOMAIN s = 1 .. Len(s)
      /\ DOMAIN t = 1 .. Len(t) /\ i \in 1 .. (Len(s) + Len(t))
  OBVIOUS
<1>2. CASE i <= Len(s)
  BY <1>1, <1>2 DEF Range
<1>3. CASE i > Len(s)
  <2>1. i - Len(s) \in DOMAIN t
    BY <1>1, <1>3
  <2>2. (s \o t)[i] = t[i - Len(s)]
    BY <1>1, <1>3
  <2> QED BY <1>1, <1>3, <2>1, <2>2 DEF Range
<1> QED BY <1>1, <1>2, <1>3

\* What apply_failure_memory may answer for a plan.
Replanned(r, plan, mem) ==
  /\ r.skipped \in Seq(Ids) /\ r.promoted \in Seq(Ids) /\ r.campaigns \in Seq(Ids)
  /\ r = [skipped |-> r.skipped, promoted |-> r.promoted, campaigns |-> r.campaigns]
  /\ Range(r.skipped) = Range(plan) \cap NamedBy(mem, "TOOL_GAP")
  /\ Range(r.campaigns) = Range(plan) \ NamedBy(mem, "TOOL_GAP")
  /\ IsInjective(r.campaigns) /\ IsInjective(r.skipped \o r.campaigns)
  /\ LET late == NamedBy(mem, "EXPERIMENT_INADEQUATE") IN
     \A i, j \in DOMAIN r.campaigns : r.campaigns[j] \notin late =>
       /\ r.campaigns[i] \in late => i < j
       /\ r.campaigns[i] = MapId /\ r.campaigns[j] \in HttpIds => i <= j

\* TOOL_GAP takes classes out of a plan, EXPERIMENT_INADEQUATE moves them to the
\* front, and nothing else changes.
LEMMA Replan ==
  ASSUME NEW plan, Orderly(plan), NEW mem \in Seq(Card)
  PROVE  Replanned(apply_failure_memory(plan, mem), plan, mem)
<1> DEFINE gaps == NamedBy(mem, "TOOL_GAP")
           late == NamedBy(mem, "EXPERIMENT_INADEQUATE")
           n1 == Named(mem, "TOOL_GAP")
           n2 == Named(mem, "EXPERIMENT_INADEQUATE")
           skipped == Filter(n1, Range(plan))
           remaining == Filter(plan, Range(plan) \ Range(skipped))
           promoted == Filter(n2, Range(remaining))
           rest == Filter(remaining, Range(remaining) \ Range(promoted))
           r == apply_failure_memory(plan, mem)
<1>1. r = [skipped |-> skipped, promoted |-> promoted, campaigns |-> promoted \o rest]
  BY DEF apply_failure_memory
<1>2. n1 \in Seq(STRING) /\ IsInjective(n1) /\ Range(n1) = gaps
  BY NamedFacts
<1>3. n2 \in Seq(STRING) /\ IsInjective(n2) /\ Range(n2) = late
  BY NamedFacts
<1> HIDE DEF n1, n2, gaps, late, r
<1>4. /\ skipped \in Seq(STRING) /\ IsInjective(skipped)
      /\ Range(skipped) = gaps \cap Range(plan)
  BY <1>2, FilterFacts
<1>5. Range(plan) \subseteq Ids
  BY DEF Orderly, Range
<1>6. skipped \in Seq(Ids)
  BY <1>4, <1>5, SeqOfRange
<1> HIDE DEF skipped
<1>7. Orderly(remaining) /\ Range(remaining) = Range(plan) \ gaps
  BY <1>4, FilterOrderly
<1> HIDE DEF remaining
<1>8. /\ promoted \in Seq(STRING) /\ IsInjective(promoted)
      /\ Range(promoted) = late \cap Range(remaining)
  BY <1>3, FilterFacts
<1>9. promoted \in Seq(Ids)
  BY Zenon, <1>5, <1>7, <1>8, SeqOfRange
<1> HIDE DEF promoted
<1>10. Orderly(rest) /\ Range(rest) = Range(remaining) \ late
  BY <1>7, <1>8, FilterOrderly
<1> HIDE DEF rest
<1> DEFINE c == promoted \o rest
<1>11. rest \in Seq(Ids) /\ IsInjective(rest) /\ MapFirst(rest)
  BY <1>10 DEF Orderly
<1>12. /\ c \in Seq(Ids) /\ Range(c) = Range(plan) \ gaps /\ IsInjective(c)
  <2>1. Range(promoted) \cap Range(rest) = {}
    BY <1>8, <1>10
  <2>2. /\ c \in Seq(Ids) /\ Range(c) = Range(promoted) \cup Range(rest) /\ IsInjective(c)
    BY <1>8, <1>9, <1>11, <2>1, ConcatFacts
  <2> QED BY <1>7, <1>8, <1>10, <2>2
<1>13. IsInjective(skipped \o c)
  <2>1. Range(skipped) \cap Range(c) = {}
    BY <1>4, <1>12
  <2> HIDE DEF c
  <2> QED BY <1>4, <1>6, <1>12, <2>1, ConcatFacts
<1>14. ASSUME NEW i \in DOMAIN c, NEW j \in DOMAIN c, c[j] \notin late
       PROVE  /\ c[i] \in late => i < j
              /\ c[i] = MapId /\ c[j] \in HttpIds => i <= j
  <2>1. /\ i \in Nat /\ Len(promoted) \in Nat
        /\ i <= Len(promoted) => c[i] \in Range(promoted)
        /\ i > Len(promoted) => /\ i - Len(promoted) \in DOMAIN rest
                                /\ c[i] = rest[i - Len(promoted)] /\ c[i] \in Range(rest)
    BY <1>9, <1>11, ConcatPlace
  <2>2. /\ j \in Nat
        /\ j <= Len(promoted) => c[j] \in Range(promoted)
        /\ j > Len(promoted) => /\ j - Len(promoted) \in DOMAIN rest
                                /\ c[j] = rest[j - Len(promoted)]
    BY <1>9, <1>11, ConcatPlace
  <2> HIDE DEF c
  <2>3. j > Len(promoted)
    BY <1>8, <1>14, <2>1, <2>2
  <2>4. c[i] \in late => i <= Len(promoted)
    BY <1>10, <2>1
  <2>5. CASE i <= Len(promoted)
    BY <2>1, <2>2, <2>3, <2>5
  <2>6. CASE i > Len(promoted)
    <3>1. ASSUME c[i] = MapId, c[j] \in HttpIds PROVE i <= j
      <4>1. i - Len(promoted) <= j - Len(promoted)
        BY <1>11, <2>1, <2>2, <2>3, <2>6, <3>1 DEF MapFirst
      <4> QED BY <2>1, <2>2, <4>1
    <3> QED BY <2>1, <2>4, <2>6, <3>1
  <2> QED BY <2>1, <2>5, <2>6
<1> HIDE DEF c
<1>15. r.skipped = skipped /\ r.promoted = promoted /\ r.campaigns = c
  BY <1>1 DEF c
<1>16. r = [skipped |-> r.skipped, promoted |-> r.promoted, campaigns |-> r.campaigns]
  BY <1>1, <1>15 DEF c
<1>17. /\ Range(r.skipped) = Range(plan) \cap gaps /\ Range(r.campaigns) = Range(plan) \ gaps
       /\ IsInjective(r.campaigns) /\ IsInjective(r.skipped \o r.campaigns)
  BY <1>4, <1>12, <1>13, <1>15
<1>18. r.skipped \in Seq(Ids) /\ r.promoted \in Seq(Ids) /\ r.campaigns \in Seq(Ids)
  BY <1>6, <1>9, <1>12, <1>15
<1>19. \A i, j \in DOMAIN r.campaigns : r.campaigns[j] \notin late =>
         /\ r.campaigns[i] \in late => i < j
         /\ r.campaigns[i] = MapId /\ r.campaigns[j] \in HttpIds => i <= j
  BY <1>14, <1>15
<1>20. Replanned(r, plan, mem)
  BY <1>16, <1>17, <1>18, <1>19 DEF Replanned, gaps, late
<1> QED BY <1>20 DEF r

-----------------------------------------------------------------------------
(***************************************************************************)
(* The answers of the engine.                                              *)
(***************************************************************************)
\* Every class is the class of an entry of the catalogue.
LEMMA IdHasEntry ==
  ASSUME NEW id \in Ids
  PROVE  \E x \in Range(catalog) : x.id = id
<1>1. catalog \in Seq(Actions) /\ id \in Range(IdsOf(catalog))
  BY CatalogFacts
<1>2. Range(IdsOf(catalog)) = {a.id : a \in Range(catalog)}
  BY <1>1, IdsOfFacts
<1> QED BY <1>1, <1>2

\* The domain: a class of an http family requires the map, and only the class
\* that makes the map adds it.
LEMMA DomainFacts ==
  ASSUME NEW id \in Ids
  PROVE  /\ id \in Range(U) \cup Range(F) => "mapped" \in emit_domain(id).pre
         /\ "mapped" \in emit_domain(id).effect => id = MapId
<1> DEFINE a == CHOOSE x \in Range(catalog) : x.id = id
<1>1. \E x \in Range(catalog) : x.id = id
  BY IdHasEntry
<1>2. a \in Range(catalog) /\ a.id = id
  BY <1>1
<1>3. emit_domain(id) =
        [pre    |-> (IF a.needs_mapped THEN {"mapped"} ELSE {}) \cup ({a.need} \ {"none"}),
         effect |-> {id} \cup (IF id = MapId THEN {"mapped"} ELSE {})]
  BY DEF emit_domain
<1> HIDE DEF a
<1>4. "mapped" \in emit_domain(id).effect => id = MapId
  BY <1>3, CatalogAssumption
<1>5. ASSUME id \in Range(U) \cup Range(F) PROVE "mapped" \in emit_domain(id).pre
  <2>1. a.needs_mapped = TRUE
    BY Zenon, <1>2, <1>5, EntryCases, Families
  <2> QED BY <1>3, <2>1
<1> QED BY <1>4, <1>5

\* A plan the engine answers has the map before the classes that require it.
LEMMA AnswerOrderly ==
  ASSUME NEW T, NEW pack, NEW plan \in EngineAnswers(emit_problem(facts_from(T), pack))
  PROVE  Orderly(plan)
<1> DEFINE problem == emit_problem(facts_from(T), pack)
           Before(i) == problem.init \cup
                          UNION {emit_domain(plan[j]).effect : j \in 1 .. (i - 1)}
<1>1. problem.goal = Planned(T, pack)
  BY ApplicableFacts DEF emit_problem
<1>2. "mapped" \in problem.init => ~ Http(pack)
  <2>1. NeedsMap(facts_from(T), pack) = Http(pack)
    BY FactsFacts
  <2>2. problem.init = {n \in {"users", "files", "parse", "once"} : facts_from(T)[n]}
              \cup (IF NeedsMap(facts_from(T), pack) THEN {} ELSE {"mapped"})
    BY DEF emit_problem
  <2> QED BY <2>1, <2>2
<1> HIDE DEF problem
<1>3. PICK order \in EngineOrders : plan = Filter(order, problem.goal)
  BY DEF EngineAnswers, problem
<1>4. order \in Seq(Ids) /\ IsInjective(order)
  BY GateAssumption
<1>5. plan \in Seq(Ids) /\ IsInjective(plan) /\ Range(plan) \subseteq Planned(T, pack)
  <2>1. /\ Filter(order, problem.goal) \in Seq(Ids)
        /\ Range(Filter(order, problem.goal)) = Range(order) \cap problem.goal
        /\ IsInjective(Filter(order, problem.goal))
    BY <1>4, FilterFacts
  <2> QED BY <1>1, <1>3, <2>1
<1>6. Answers(plan, problem)
  BY DEF EngineAnswers, problem
<1>7. \A i \in DOMAIN plan : emit_domain(plan[i]).pre \subseteq Before(i)
  BY <1>6 DEF Answers
<1>8. ASSUME NEW i \in DOMAIN plan, NEW j \in DOMAIN plan, plan[i] \in HttpIds,
             plan[j] = MapId, i < j
      PROVE  FALSE
  <2>1. Len(plan) \in Nat /\ DOMAIN plan = 1 .. Len(plan)
    BY <1>5
  <2>2. plan[i] # MapId
    BY <1>5, <1>8, <2>1 DEF IsInjective
  <2>3. plan[i] \in Ids /\ plan[j] \in Planned(T, pack)
    BY <1>5 DEF Range
  <2>4. Http(pack)
    BY <1>8, <2>3, Families DEF Planned
  <2>5. plan[i] \in Range(U) \cup Range(F)
    BY <1>8, <2>2, HttpCases
  <2>6. "mapped" \in emit_domain(plan[i]).pre
    BY Zenon, <2>3, <2>5, DomainFacts
  <2>7. "mapped" \in Before(i)
    <3> HIDE DEF Before
    <3> QED BY <1>7, <2>6
  <2>8. PICK k \in 1 .. (i - 1) : "mapped" \in emit_domain(plan[k]).effect
    BY <1>2, <2>4, <2>7
  <2>9. k \in DOMAIN plan /\ k # j
    BY <1>8, <2>1
  <2>10. plan[k] = MapId
    BY <1>5, <2>8, <2>9, DomainFacts
  <2> QED BY <1>5, <1>8, <2>9, <2>10 DEF IsInjective
<1>9. MapFirst(plan)
  <2>1. Len(plan) \in Nat /\ DOMAIN plan = 1 .. Len(plan)
    BY <1>5
  <2> QED BY <1>8, <2>1 DEF MapFirst
<1> QED BY <1>5, <1>9 DEF Orderly

LEMMA EmptyOrderly == Orderly(<< >>)
BY DEF Orderly, IsInjective, MapFirst

\* plan_campaigns: whatever the engine did and whatever plan the file holds, the
\* plan has the justified classes, less those of the cards, and the file is an
\* orderly plan again.
LEMMA PlanFacts ==
  ASSUME NEW T, NEW pack, sas = NoFile \/ Orderly(sas), memory \in Seq(Card),
         NEW p \in plan_campaigns(facts_from(T), pack)
  PROVE  /\ p.sas = NoFile \/ Orderly(p.sas)
         /\ \E plan : /\ Orderly(plan) /\ Range(plan) = Planned(T, pack)
                      /\ Replanned(p.plan, plan, memory)
<1> DEFINE facts == facts_from(T)
           answers == EngineAnswers(emit_problem(facts, pack))
           Old(answer) == IF sas = NoFile THEN answer ELSE sas
           read == {[raw |-> << >>, sas |-> sas], [raw |-> Old(<< >>), sas |-> sas]}
                     \cup {[raw |-> answer, sas |-> answer] : answer \in answers}
                     \cup {[raw |-> Old(answer), sas |-> sas] : answer \in answers}
<1>1. PICK r \in read :
        p = [plan |-> apply_failure_memory(base_plan(r.raw, facts, pack), memory),
             sas |-> r.sas]
  BY DEF plan_campaigns
<1>2. \A answer \in answers : Orderly(answer)
  BY AnswerOrderly
<1> HIDE DEF facts, answers
<1>3. Orderly(r.raw) /\ (r.sas = NoFile \/ Orderly(r.sas))
  BY SMTT(30), <1>1, <1>2, EmptyOrderly
<1> DEFINE plan == base_plan(r.raw, facts, pack)
<1>4. Orderly(plan) /\ Range(plan) = Planned(T, pack)
  BY <1>3, BasePlan DEF facts
<1> HIDE DEF plan, read
<1>5. p.sas = r.sas /\ p.plan = apply_failure_memory(plan, memory)
  BY <1>1 DEF plan
<1>6. Replanned(p.plan, plan, memory)
  BY <1>4, <1>5, Replan
<1> QED BY <1>3, <1>4, <1>5, <1>6

\* What the property calls justified is what the planner plans.
LEMMA JustifiedPlanned ==
  ASSUME NEW pack
  PROVE  Justified(pack) = Planned(tree, pack)
<1> DEFINE Q(x) == /\ IF x.id \in HttpIds THEN Http(pack) ELSE Cli(pack)
                   /\ x.need = "none" \/ x.need \in tree
<1>1. ASSUME NEW a \in Range(catalog) PROVE Q(a) <=> a.id \in Planned(tree, pack)
  <2>1. a.id \in Ids
    BY Zenon, EntryCases, HttpCases
  <2>2. CASE a.id = MapId /\ a.need = "none"
    BY <2>1, <2>2, HttpCases, Families DEF Planned
  <2>3. CASE a.id \in Range(U) /\ a.need = "users"
    BY <2>1, <2>3, HttpCases, Families DEF Planned
  <2>4. CASE a.id \in Range(F) /\ a.need = "files"
    BY <2>1, <2>4, HttpCases, Families DEF Planned
  <2>5. CASE a.id \in Range(P) /\ a.need = "parse"
    BY <2>1, <2>5, HttpCases, Families DEF Planned
  <2>6. CASE a.id \in Range(O) /\ a.need = "once"
    BY <2>1, <2>6, HttpCases, Families DEF Planned
  <2> QED BY Zenon, <2>2, <2>3, <2>4, <2>5, <2>6, EntryCases
<1>2. Justified(pack) = {a.id : a \in {x \in Range(catalog) : Q(x)}}
  BY DEF Justified
<1> HIDE DEF Q
<1>3. Justified(pack) = {a.id : a \in {x \in Range(catalog) : x.id \in Planned(tree, pack)}}
  BY <1>1, <1>2
<1>4. \A id \in Planned(tree, pack) : \E a \in Range(catalog) : a.id = id
  BY IdHasEntry DEF Planned
<1> QED BY <1>3, <1>4

-----------------------------------------------------------------------------
(***************************************************************************)
(* The inductive invariant.                                                *)
(***************************************************************************)
Plans == [skipped : Seq(Ids), promoted : Seq(Ids), campaigns : Seq(Ids)]

GateType == [pc : {"idle", "map", "probe", "plan", "run"}, n : 0 .. MaxGates,
             kind : {"plan", "crew", "gate"}, pack : Packs, waived : BOOLEAN,
             shown : BOOLEAN, crew : Seq(Ids), moved : BOOLEAN, plan : Plans,
             todo : Seq(Ids), verified : SUBSET Ids, held : SUBSET Ids,
             errors : SUBSET Ids, exit : Exits]

\* The cards are cards and the file of the engine is an orderly plan.
FileInv == /\ tree \in Trees /\ db \in Seq(Card) /\ jsonl \in Seq(Card)
           /\ sas = NoFile \/ Orderly(sas)

\* The classes a gate runs for a plan.
ToRun(pack, planned) ==
  (IF planned = << >> THEN PackFiles(pack) ELSE Range(planned)) \cap ClassFiles

\* No class of a plan has both run and still to run, or ended in two ways.
RunInv(g) ==
  /\ g.verified \cup g.held \cup g.errors \cup Range(g.todo)
       = ToRun(g.pack, g.plan.campaigns)
  /\ g.verified \cap g.held = {} /\ g.verified \cap g.errors = {} /\ g.held \cap g.errors = {}
  /\ Range(g.todo) \cap (g.verified \cup g.held \cup g.errors) = {} /\ IsInjective(g.todo)
  /\ Range(g.plan.skipped) \cap Range(g.plan.campaigns) = {}
  /\ IsInjective(g.plan.skipped \o g.plan.campaigns)

\* Before a gate runs classes it has no plan and no result; while it runs, the
\* exit status is open and containment was shown or waived.
GateInv(g) ==
  /\ g \in GateType
  /\ g.pc # "idle" => g.exit = "none"
  /\ g.pc \in {"plan", "run"} => g.shown = TRUE
  /\ g.pc # "run" => /\ g.plan = NoPlan /\ g.todo = << >>
                     /\ g.verified = {} /\ g.held = {} /\ g.errors = {}
  /\ g.pc = "run" => RunInv(g)

\* As long as nothing moved, the crew's plan and the gate's are what the tree
\* and the cards say now.
CrewInv(g, now) ==
  g.kind = "crew" /\ g.moved = FALSE =>
    /\ g.pc \in {"probe", "plan", "run"} => Range(g.crew) = now
    /\ g.pc = "run" => Range(g.plan.campaigns) = now

\* The plan for what a gate is of, at this moment.
PlanNow == Planned(tree, gate.pack) \ NamedBy(memory, "TOOL_GAP")

ReportInv ==
  /\ report \in [by : 0 .. MaxGates, says : {"nothing", "blocked", "verified", "clean"}]
  /\ report.by <= gate.n /\ (gate.pc # "idle" => report.by < gate.n)

\* The cases so far that ended as expected, and the known ones that did not.
HitCases(seen) == {i \in 1 .. Len(seen) : seen[i] # "error" /\ seen[i] = Cases[i].expect}
Missed(seen)   == {i \in 1 .. Len(seen) : Cases[i].expect = "verified"
                                          /\ seen[i] # "verified"}

EvalInv ==
  /\ eval \in [pc : {"idle", "case", "ended"}, shown : BOOLEAN, hits : Nat,
               seen : Seq(Results), exit : Exits]
  /\ Len(eval.seen) <= Len(Cases)
  /\ eval.hits = Cardinality(HitCases(eval.seen))
  /\ eval.pc = "idle" => eval = NoEval /\ jsonl = << >>
  /\ eval.pc = "case" => /\ eval.shown = TRUE
                         /\ {card.spec_id : card \in Range(jsonl)} =
                              {Cases[i].campaign : i \in Missed(eval.seen)}

IInv == FileInv /\ GateInv(gate) /\ CrewInv(gate, PlanNow) /\ ReportInv /\ EvalInv

-----------------------------------------------------------------------------
(***************************************************************************)
(* The steps of a command.                                                 *)
(***************************************************************************)
\* The files of the planned classes, or of the pack when nothing is planned.
LEMMA ClassFilesFacts ==
  ASSUME NEW pack \in Packs, NEW planned \in Seq(Ids), IsInjective(planned)
  PROVE  /\ class_files(pack, planned) \in Seq(Ids) /\ IsInjective(class_files(pack, planned))
         /\ Range(class_files(pack, planned)) = ToRun(pack, planned)
<1> DEFINE all == Filter(IdsOf(catalog), PackFiles(pack))
           list == IF planned # << >> THEN planned ELSE all
<1>1. IdsOf(catalog) \in Seq(Ids) /\ IsInjective(IdsOf(catalog)) /\ Range(IdsOf(catalog)) = Ids
  BY CatalogFacts, IdsOfFacts
<1>2. PackFiles(pack) \subseteq Ids
  BY HttpCases DEF PackFiles, Packs, O
<1>3. all \in Seq(Ids) /\ IsInjective(all) /\ Range(all) = PackFiles(pack)
  <2> DEFINE ids == IdsOf(catalog)
             S == PackFiles(pack)
  <2>1. ids \in Seq(Ids) /\ IsInjective(ids) /\ Range(ids) = Ids /\ S \subseteq Ids
    BY <1>1, <1>2
  <2> HIDE DEF ids, S
  <2>2. /\ Filter(ids, S) \in Seq(Ids) /\ IsInjective(Filter(ids, S))
        /\ Range(Filter(ids, S)) = Range(ids) \cap S
    BY <2>1, FilterFacts
  <2>3. Range(Filter(ids, S)) = S
    BY <2>1, <2>2
  <2> QED BY <2>2, <2>3 DEF ids, S
<1> HIDE DEF all
<1>4. /\ list \in Seq(Ids) /\ IsInjective(list)
      /\ Range(list) = IF planned = << >> THEN PackFiles(pack) ELSE Range(planned)
  BY <1>3
<1>5. class_files(pack, planned) = Filter(list, ClassFiles)
  BY DEF class_files, all
<1> HIDE DEF list
<1>6. /\ Filter(list, ClassFiles) \in Seq(Ids) /\ IsInjective(Filter(list, ClassFiles))
      /\ Range(Filter(list, ClassFiles)) = Range(list) \cap ClassFiles
  BY <1>4, FilterFacts
<1> QED BY <1>4, <1>5, <1>6 DEF ToRun

\* A command that ends leaves the state of no command.
LEMMA ExitKeeps ==
  ASSUME GateInv(gate), NEW status \in Exits, Exit(status)
  PROVE  /\ GateInv(gate') /\ gate'.pc = "idle" /\ gate'.n = gate.n /\ gate'.kind = "gate"
         /\ gate'.exit = status
<1>1. gate.n \in 0 .. MaxGates
  BY DEF GateInv, GateType
<1>2. gate' = [NoGate EXCEPT !.n = gate.n, !.exit = status]
  BY DEF Exit
<1>3. << >> \in Seq(Ids) /\ NoPlan \in Plans
  BY SMTT(30) DEF NoPlan, Plans
<1>4. gate' \in GateType
  BY Zenon, <1>1, <1>2, <1>3 DEF NoGate, GateType, Packs
<1>5. /\ gate'.pc = "idle" /\ gate'.n = gate.n /\ gate'.kind = "gate" /\ gate'.exit = status
      /\ gate'.plan = NoPlan /\ gate'.todo = << >> /\ gate'.verified = {}
      /\ gate'.held = {} /\ gate'.errors = {}
  BY <1>2 DEF NoGate
<1> QED BY <1>4, <1>5 DEF GateInv

\* A card or an edit only marks the crew's plan as moved.
LEMMA MovedKeeps ==
  ASSUME GateInv(gate), Moved, NEW now
  PROVE  /\ GateInv(gate') /\ CrewInv(gate', now)
         /\ gate'.pc = gate.pc /\ gate'.n = gate.n
<1>1. gate' = [gate EXCEPT !.moved = (gate.kind = "crew")]
  BY DEF Moved
<1>2. gate \in GateType
  BY DEF GateInv
<1>3. gate' \in GateType
  BY Zenon, <1>1, <1>2 DEF GateType
<1>4. /\ gate'.pc = gate.pc /\ gate'.n = gate.n /\ gate'.kind = gate.kind
      /\ gate'.pack = gate.pack /\ gate'.shown = gate.shown /\ gate'.plan = gate.plan
      /\ gate'.todo = gate.todo /\ gate'.verified = gate.verified
      /\ gate'.held = gate.held /\ gate'.errors = gate.errors /\ gate'.exit = gate.exit
  BY <1>1, <1>2 DEF GateType
<1>5. gate.kind = "crew" => gate'.moved = TRUE
  BY Zenon, <1>1, <1>2 DEF GateType
<1>6. RunInv(gate) => RunInv(gate')
  BY <1>4 DEF RunInv
<1>7. GateInv(gate')
  BY <1>3, <1>4, <1>6 DEF GateInv
<1>8. CrewInv(gate', now)
  BY <1>4, <1>5 DEF CrewInv
<1> QED BY <1>4, <1>7, <1>8

\* What a step of a command that changes no tree and no card keeps.
LEMMA CommandKeeps ==
  ASSUME IInv, UNCHANGED others, GateInv(gate'),
         sas' = NoFile \/ Orderly(sas'),
         CrewInv(gate', Planned(tree, gate'.pack) \ NamedBy(memory, "TOOL_GAP")),
         ReportInv'
  PROVE  IInv'
<1>1. tree' = tree /\ db' = db /\ jsonl' = jsonl /\ eval' = eval /\ memory' = memory
  BY DEF others, memory
<1>2. FileInv'
  BY <1>1 DEF IInv, FileInv
<1>3. EvalInv'
  BY Zenon, <1>1 DEF IInv, EvalInv
<1>4. PlanNow' = Planned(tree, gate'.pack) \ NamedBy(memory, "TOOL_GAP")
  BY <1>1 DEF PlanNow
<1> QED BY <1>2, <1>3, <1>4 DEF IInv

\* The end of a command that writes no report.
LEMMA ExitStep ==
  ASSUME IInv, UNCHANGED <<others, report>>, sas' = NoFile \/ Orderly(sas'),
         NEW status \in Exits, Exit(status)
  PROVE  IInv'
<1>1. /\ GateInv(gate') /\ gate'.pc = "idle" /\ gate'.n = gate.n /\ gate'.kind = "gate"
  BY ExitKeeps DEF IInv
<1>2. ReportInv'
  BY <1>1 DEF IInv, ReportInv
<1>3. CrewInv(gate', Planned(tree, gate'.pack) \ NamedBy(memory, "TOOL_GAP"))
  BY <1>1 DEF CrewInv
<1> QED BY <1>1, <1>2, <1>3, CommandKeeps DEF IInv

\* The end of a command that writes its report.
LEMMA ReportStep ==
  ASSUME IInv, gate.pc # "idle", UNCHANGED <<others, sas>>,
         NEW status \in Exits, Exit(status),
         NEW word \in {"nothing", "blocked", "verified", "clean"},
         report' = [by |-> gate.n, says |-> word]
  PROVE  IInv'
<1>1. /\ GateInv(gate') /\ gate'.pc = "idle" /\ gate'.n = gate.n /\ gate'.kind = "gate"
  BY ExitKeeps DEF IInv
<1>2. gate.n \in 0 .. MaxGates
  BY DEF IInv, GateInv, GateType
<1>3. ReportInv'
  BY <1>1, <1>2, GateAssumption DEF ReportInv
<1>4. CrewInv(gate', Planned(tree, gate'.pack) \ NamedBy(memory, "TOOL_GAP"))
  BY <1>1 DEF CrewInv
<1> QED BY <1>1, <1>3, <1>4, CommandKeeps DEF IInv, FileInv

LEMMA StartStep == ASSUME IInv, StartCommand PROVE IInv'
<1>1. PICK kind \in {"plan", "crew", "gate"}, pack \in Packs, waived \in BOOLEAN :
        gate' = [NoGate EXCEPT !.n = gate.n + 1, !.kind = kind, !.pack = pack,
                               !.waived = waived,
                               !.pc = IF kind = "gate" THEN "probe" ELSE "map"]
  BY Zenon DEF StartCommand
<1>2. /\ gate.pc = "idle" /\ gate.n \in 0 .. MaxGates /\ gate.n < MaxGates
      /\ gate.n + 1 \in 0 .. MaxGates
  BY GateAssumption DEF StartCommand, IInv, GateInv, GateType
<1>3. << >> \in Seq(Ids) /\ NoPlan \in Plans
  BY DEF NoPlan, Plans
<1>4. gate' \in GateType
  BY Zenon, <1>1, <1>2, <1>3 DEF NoGate, GateType, Exits
<1>5. /\ gate'.pc = IF kind = "gate" THEN "probe" ELSE "map"
      /\ gate'.n = gate.n + 1 /\ gate'.exit = "none" /\ gate'.kind = kind
      /\ gate'.plan = NoPlan /\ gate'.todo = << >> /\ gate'.verified = {}
      /\ gate'.held = {} /\ gate'.errors = {}
  BY <1>1 DEF NoGate
<1>6. GateInv(gate')
  BY <1>4, <1>5 DEF GateInv
<1>7. CrewInv(gate', Planned(tree, gate'.pack) \ NamedBy(memory, "TOOL_GAP"))
  BY <1>5 DEF CrewInv
<1>8. ReportInv'
  BY <1>2, <1>5 DEF IInv, ReportInv, StartCommand
<1> QED BY <1>6, <1>7, <1>8, CommandKeeps DEF StartCommand, IInv, FileInv


\* `campaign plan` ends here; the crew keeps the plan.
LEMMA MapStep == ASSUME IInv, MapAndPlan PROVE IInv'
<1>1. PICK p \in plan_campaigns(facts_from(tree), gate.pack) :
        /\ sas' = p.sas
        /\ IF gate.kind = "plan" THEN Exit("SUCCESS") ELSE CrewPlans(p.plan)
  BY DEF MapAndPlan
<1>2. gate.pc = "map" /\ UNCHANGED <<others, report>>
  BY DEF MapAndPlan
<1>3. memory \in Seq(Card) /\ (sas = NoFile \/ Orderly(sas))
  BY DEF IInv, FileInv, memory
<1>4. p.sas = NoFile \/ Orderly(p.sas)
  BY <1>3, PlanFacts
<1>5. PICK plan : /\ Orderly(plan) /\ Range(plan) = Planned(tree, gate.pack)
                  /\ Replanned(p.plan, plan, memory)
  BY <1>3, PlanFacts
<1>6. CASE gate.kind = "plan"
  <2>1. Exit("SUCCESS")
    BY <1>1, <1>6
  <2> QED BY <1>1, <1>2, <1>4, <2>1, ExitStep DEF Exits
<1>7. CASE gate.kind # "plan"
  <2>1. gate' = [gate EXCEPT !.pc = "probe", !.crew = p.plan.campaigns, !.moved = FALSE]
    BY <1>1, <1>7 DEF CrewPlans
  <2>2. gate \in GateType
    BY DEF IInv, GateInv
  <2>3. /\ p.plan.campaigns \in Seq(Ids)
        /\ Range(p.plan.campaigns) = Planned(tree, gate.pack) \ NamedBy(memory, "TOOL_GAP")
    BY Zenon, <1>5 DEF Replanned
  <2>4. gate' \in GateType
    BY Zenon, <2>1, <2>2, <2>3 DEF GateType
  <2>5. /\ gate'.pc = "probe" /\ gate'.crew = p.plan.campaigns /\ gate'.pack = gate.pack
        /\ gate'.n = gate.n /\ gate'.plan = gate.plan
        /\ gate'.todo = gate.todo /\ gate'.verified = gate.verified
        /\ gate'.held = gate.held /\ gate'.errors = gate.errors /\ gate'.exit = gate.exit
    BY <2>1, <2>2 DEF GateType
  <2>6. GateInv(gate')
    BY Zenon, <1>2, <2>4, <2>5 DEF IInv, GateInv
  <2>7. CrewInv(gate', Planned(tree, gate'.pack) \ NamedBy(memory, "TOOL_GAP"))
    BY <2>3, <2>5 DEF CrewInv
  <2>8. ReportInv'
    BY <1>2, <2>5 DEF IInv, ReportInv
  <2> QED BY <1>1, <1>2, <1>4, <2>6, <2>7, <2>8, CommandKeeps
<1> QED BY <1>6, <1>7

LEMMA ProbeStep == ASSUME IInv, ProbeContainment PROVE IInv'
<1>1. gate.pc = "probe" /\ UNCHANGED <<others, sas>>
  BY DEF ProbeContainment
<1>2. CASE /\ UNCHANGED report
           /\ gate' = [gate EXCEPT !.pc = "plan", !.shown = TRUE, !.waived = FALSE]
  <2>1. gate \in GateType
    BY DEF IInv, GateInv
  <2>2. gate' \in GateType
    BY Zenon, <1>2, <2>1 DEF GateType
  <2>3. /\ gate'.pc = "plan" /\ gate'.shown = TRUE /\ gate'.pack = gate.pack
        /\ gate'.kind = gate.kind /\ gate'.moved = gate.moved /\ gate'.crew = gate.crew
        /\ gate'.n = gate.n /\ gate'.plan = gate.plan
        /\ gate'.todo = gate.todo /\ gate'.verified = gate.verified
        /\ gate'.held = gate.held /\ gate'.errors = gate.errors /\ gate'.exit = gate.exit
    BY <1>2, <2>1 DEF GateType
  <2>4. GateInv(gate')
    BY <1>1, <2>2, <2>3 DEF IInv, GateInv
  <2>5. CrewInv(gate', Planned(tree, gate'.pack) \ NamedBy(memory, "TOOL_GAP"))
    BY <1>1, <2>3 DEF IInv, CrewInv, PlanNow
  <2>6. ReportInv'
    BY <1>1, <1>2, <2>3 DEF IInv, ReportInv
  <2> QED BY <1>1, <2>4, <2>5, <2>6, CommandKeeps DEF IInv, FileInv
<1>3. CASE Exit("FAILURE") /\ report' = [by |-> gate.n, says |-> "blocked"]
  BY <1>1, <1>3, ReportStep DEF Exits
<1> QED BY <1>2, <1>3 DEF ProbeContainment

LEMMA PlanStep == ASSUME IInv, PlanClasses PROVE IInv'
<1>1. PICK p \in plan_campaigns(facts_from(tree), gate.pack) :
        /\ sas' = p.sas
        /\ gate' = [gate EXCEPT !.pc = "run", !.plan = p.plan,
                                !.todo = class_files(gate.pack, p.plan.campaigns)]
  BY Zenon DEF PlanClasses
<1>2. gate.pc = "plan" /\ UNCHANGED <<others, report>>
  BY DEF PlanClasses
<1>3. memory \in Seq(Card) /\ (sas = NoFile \/ Orderly(sas))
  BY DEF IInv, FileInv, memory
<1>4. p.sas = NoFile \/ Orderly(p.sas)
  BY <1>3, PlanFacts
<1>5. PICK plan : /\ Orderly(plan) /\ Range(plan) = Planned(tree, gate.pack)
                  /\ Replanned(p.plan, plan, memory)
  BY <1>3, PlanFacts
<1>6. /\ p.plan.skipped \in Seq(Ids) /\ p.plan.promoted \in Seq(Ids)
      /\ p.plan.campaigns \in Seq(Ids)
      /\ p.plan = [skipped |-> p.plan.skipped, promoted |-> p.plan.promoted,
                   campaigns |-> p.plan.campaigns]
      /\ Range(p.plan.skipped) = Range(plan) \cap NamedBy(memory, "TOOL_GAP")
      /\ Range(p.plan.campaigns) = Range(plan) \ NamedBy(memory, "TOOL_GAP")
      /\ IsInjective(p.plan.campaigns) /\ IsInjective(p.plan.skipped \o p.plan.campaigns)
  BY Zenon, <1>5 DEF Replanned
<1>7. p.plan \in Plans
  BY Zenon, <1>6 DEF Plans
<1>8. gate \in GateType /\ gate.pack \in Packs
  BY DEF IInv, GateInv, GateType
<1> DEFINE todo == class_files(gate.pack, p.plan.campaigns)
<1>9. /\ todo \in Seq(Ids) /\ IsInjective(todo)
      /\ Range(todo) = ToRun(gate.pack, p.plan.campaigns)
  BY Zenon, <1>6, <1>8, ClassFilesFacts
<1> HIDE DEF todo
<1>10. gate' = [gate EXCEPT !.pc = "run", !.plan = p.plan, !.todo = todo]
  BY <1>1 DEF todo
<1>11. gate' \in GateType
  BY Zenon, <1>7, <1>8, <1>9, <1>10 DEF GateType
<1>12. /\ gate'.pc = "run" /\ gate'.plan = p.plan /\ gate'.todo = todo
       /\ gate'.shown = gate.shown /\ gate'.pack = gate.pack /\ gate'.n = gate.n
       /\ gate'.kind = gate.kind /\ gate'.moved = gate.moved /\ gate'.crew = gate.crew
       /\ gate'.verified = gate.verified /\ gate'.held = gate.held
       /\ gate'.errors = gate.errors /\ gate'.exit = gate.exit
  BY <1>8, <1>10 DEF GateType
<1>13. /\ gate.verified = {} /\ gate.held = {} /\ gate.errors = {} /\ gate.exit = "none"
       /\ gate.shown = TRUE
  BY Zenon, <1>2 DEF IInv, GateInv
<1>14. RunInv(gate')
  BY Zenon, <1>6, <1>9, <1>12, <1>13 DEF RunInv
<1>15. GateInv(gate')
  BY Zenon, <1>11, <1>12, <1>13, <1>14 DEF GateInv
<1>16. CrewInv(gate', Planned(tree, gate'.pack) \ NamedBy(memory, "TOOL_GAP"))
  BY Zenon, <1>2, <1>5, <1>6, <1>12 DEF IInv, CrewInv, PlanNow
<1>17. ReportInv'
  BY <1>2, <1>12 DEF IInv, ReportInv
<1> QED BY <1>1, <1>2, <1>4, <1>15, <1>16, <1>17, CommandKeeps

\* The rest of an injective sequence.
LEMMA TailFacts ==
  ASSUME NEW A, NEW s \in Seq(A), s # << >>, IsInjective(s)
  PROVE  /\ Head(s) \in A /\ Tail(s) \in Seq(A) /\ IsInjective(Tail(s))
         /\ Range(s) = {Head(s)} \cup Range(Tail(s)) /\ Head(s) \notin Range(Tail(s))
<1> DEFINE t == Tail(s)
<1>1. /\ Len(s) \in Nat /\ Len(s) >= 1 /\ DOMAIN s = 1 .. Len(s) /\ Head(s) = s[1]
      /\ t \in Seq(A) /\ Len(t) = Len(s) - 1 /\ Head(s) \in A
  OBVIOUS
<1>2. DOMAIN t = 1 .. (Len(s) - 1) /\ \A i \in DOMAIN t : t[i] = s[i + 1]
  BY <1>1
<1> HIDE DEF t
<1>3. IsInjective(t)
  <2> SUFFICES ASSUME NEW i \in DOMAIN t, NEW j \in DOMAIN t, t[i] = t[j] PROVE i = j
    BY DEF IsInjective
  <2>1. i + 1 \in DOMAIN s /\ j + 1 \in DOMAIN s /\ s[i + 1] = s[j + 1]
    BY <1>1, <1>2
  <2>2. i + 1 = j + 1
    BY <2>1 DEF IsInjective
  <2> QED BY <1>1, <1>2, <2>2
<1>4. ASSUME NEW x \in Range(s), x # s[1] PROVE x \in Range(t)
  <2>1. PICK i \in DOMAIN s : s[i] = x
    BY DEF Range
  <2>2. i - 1 \in DOMAIN t /\ t[i - 1] = x
    BY <1>1, <1>2, <1>4, <2>1
  <2> QED BY <2>2 DEF Range
<1>5. ASSUME NEW x \in Range(t) PROVE x \in Range(s) /\ x # s[1]
  <2>1. PICK i \in DOMAIN t : t[i] = x
    BY DEF Range
  <2>2. i + 1 \in DOMAIN s /\ s[i + 1] = x /\ i + 1 # 1 /\ 1 \in DOMAIN s
    BY <1>1, <1>2, <2>1
  <2> QED BY <2>2 DEF Range, IsInjective
<1>6. s[1] \in Range(s)
  BY <1>1 DEF Range
<1> QED BY <1>1, <1>3, <1>4, <1>5, <1>6 DEF t

LEMMA RunStep == ASSUME IInv, RunClass PROVE IInv'
<1> DEFINE id == Head(gate.todo)
           rest == Tail(gate.todo)
<1>1. gate.pc = "run" /\ gate.todo # << >> /\ UNCHANGED <<others, sas, report>>
  BY DEF RunClass
<1>2. gate \in GateType /\ RunInv(gate) /\ gate.todo \in Seq(Ids) /\ IsInjective(gate.todo)
  BY Zenon, <1>1 DEF IInv, GateInv, GateType, RunInv
<1>3. /\ id \in Ids /\ rest \in Seq(Ids) /\ IsInjective(rest)
      /\ Range(gate.todo) = {id} \cup Range(rest) /\ id \notin Range(rest)
  BY <1>1, <1>2, TailFacts
<1>4. \/ gate' = [gate EXCEPT !.todo = rest, !.verified = gate.verified \cup {id}]
      \/ gate' = [gate EXCEPT !.todo = rest, !.held = gate.held \cup {id}]
      \/ gate' = [gate EXCEPT !.todo = rest, !.errors = gate.errors \cup {id}]
  BY DEF RunClass
<1> HIDE DEF id, rest
<1>5. gate' \in GateType
  <2> DEFINE v == gate.verified \cup {id}
             h == gate.held \cup {id}
             e == gate.errors \cup {id}
  <2>1. v \in SUBSET Ids /\ h \in SUBSET Ids /\ e \in SUBSET Ids
    BY <1>2, <1>3 DEF GateType
  <2>2. \/ gate' = [gate EXCEPT !.todo = rest, !.verified = v]
        \/ gate' = [gate EXCEPT !.todo = rest, !.held = h]
        \/ gate' = [gate EXCEPT !.todo = rest, !.errors = e]
    BY <1>4
  <2> HIDE DEF v, h, e
  <2>3. CASE gate' = [gate EXCEPT !.todo = rest, !.verified = v]
    BY Zenon, <1>2, <1>3, <2>1, <2>3 DEF GateType
  <2>4. CASE gate' = [gate EXCEPT !.todo = rest, !.held = h]
    BY Zenon, <1>2, <1>3, <2>1, <2>4 DEF GateType
  <2>5. CASE gate' = [gate EXCEPT !.todo = rest, !.errors = e]
    BY Zenon, <1>2, <1>3, <2>1, <2>5 DEF GateType
  <2> QED BY <2>2, <2>3, <2>4, <2>5
<1>6. /\ gate'.pc = gate.pc /\ gate'.plan = gate.plan /\ gate'.todo = rest
      /\ gate'.shown = gate.shown /\ gate'.pack = gate.pack /\ gate'.n = gate.n
      /\ gate'.kind = gate.kind /\ gate'.moved = gate.moved /\ gate'.crew = gate.crew
      /\ gate'.exit = gate.exit
  BY Zenon, <1>2, <1>4 DEF GateType
<1>7. \/ /\ gate'.verified = gate.verified \cup {id} /\ gate'.held = gate.held
         /\ gate'.errors = gate.errors
      \/ /\ gate'.verified = gate.verified /\ gate'.held = gate.held \cup {id}
         /\ gate'.errors = gate.errors
      \/ /\ gate'.verified = gate.verified /\ gate'.held = gate.held
         /\ gate'.errors = gate.errors \cup {id}
  BY Zenon, <1>2, <1>4 DEF GateType
<1>8. RunInv(gate')
  BY <1>2, <1>3, <1>6, <1>7 DEF RunInv
<1>9. GateInv(gate')
  BY <1>1, <1>5, <1>6, <1>8 DEF IInv, GateInv
<1>10. CrewInv(gate', Planned(tree, gate'.pack) \ NamedBy(memory, "TOOL_GAP"))
  BY <1>1, <1>6 DEF IInv, CrewInv, PlanNow
<1>11. ReportInv'
  BY <1>1, <1>6 DEF IInv, ReportInv
<1> QED BY <1>1, <1>9, <1>10, <1>11, CommandKeeps DEF IInv, FileInv


-----------------------------------------------------------------------------
(***************************************************************************)
(* The steps of the evaluation and of everyone else.                       *)
(***************************************************************************)
\* The report does not see cards and edits.
LEMMA ReportStays ==
  ASSUME ReportInv, UNCHANGED report, gate'.pc = gate.pc, gate'.n = gate.n
  PROVE  ReportInv'
BY DEF ReportInv

\* Steps that leave the tree, the cards and the command alone.
LEMMA EvalKeeps ==
  ASSUME IInv, UNCHANGED <<tree, db, jsonl, sas, report, gate>>, EvalInv'
  PROVE  IInv'
<1>1. memory' = memory /\ PlanNow' = PlanNow
  BY DEF memory, PlanNow
<1>2. FileInv' /\ ReportInv'
  BY DEF IInv, FileInv, ReportInv
<1> QED BY <1>1, <1>2 DEF IInv

LEMMA StartEvalStep == ASSUME IInv, StartEval PROVE IInv'
<1>1. eval.pc = "idle" /\ UNCHANGED <<tree, db, jsonl, sas, report, gate>>
  BY DEF StartEval, gating
<1>2. eval = NoEval /\ jsonl = << >> /\ EvalInv
  BY <1>1 DEF IInv, EvalInv
<1>3. \/ eval' = [eval EXCEPT !.pc = "case", !.shown = TRUE]
      \/ eval' = [eval EXCEPT !.pc = "ended", !.exit = "FAILURE"]
  BY DEF StartEval
<1>4. /\ eval'.pc \in {"case", "ended"} /\ eval'.seen = eval.seen /\ eval'.hits = eval.hits
      /\ eval'.pc = "case" => eval'.shown = TRUE
      /\ eval.seen = << >>
  BY Zenon, <1>2, <1>3 DEF NoEval
<1>5. eval' \in [pc : {"idle", "case", "ended"}, shown : BOOLEAN, hits : Nat,
                 seen : Seq(Results), exit : Exits]
  BY Zenon, <1>2, <1>3 DEF EvalInv, Exits
<1>6. {card.spec_id : card \in Range(jsonl)} = {} /\ Missed(eval.seen) = {}
  BY <1>2, <1>4 DEF Range, Missed
<1>7. {Cases[i].campaign : i \in Missed(eval.seen)} = {}
  BY <1>6
<1>8. EvalInv'
  BY <1>1, <1>2, <1>4, <1>5, <1>6, <1>7 DEF EvalInv
<1> QED BY <1>1, <1>8, EvalKeeps

LEMMA EndEvalStep == ASSUME IInv, EndEval PROVE IInv'
<1>1. eval.pc = "case" /\ UNCHANGED <<tree, db, jsonl, sas, report, gate>>
  BY DEF EndEval, gating
<1>2. /\ eval'.pc = "ended" /\ eval'.seen = << >> /\ eval'.hits = 0
      /\ eval' \in [pc : {"idle", "case", "ended"}, shown : BOOLEAN, hits : Nat,
                    seen : Seq(Results), exit : Exits]
  <2>1. PICK e \in Exits : eval' = [NoEval EXCEPT !.pc = "ended", !.exit = e]
    BY Zenon DEF EndEval, Exits
  <2>2. << >> \in Seq(Results)
    OBVIOUS
  <2> QED BY Zenon, <2>1, <2>2 DEF NoEval
<1>3. HitCases(<< >>) = {}
  BY DEF HitCases
<1>4. Len(Cases) \in Nat /\ Len(<< >>) = 0
  BY GateAssumption
<1>5. Cardinality(HitCases(<< >>)) = 0
  BY <1>3, FS_EmptySet
<1>6. EvalInv'
  BY SMTT(30), <1>2, <1>4, <1>5 DEF EvalInv
<1> QED BY <1>1, <1>6, EvalKeeps

\* One more case: the hits and the missed cases follow what was seen.
LEMMA SeenFacts ==
  ASSUME NEW seen \in Seq(Results), NEW o \in Results
  PROVE  LET n == Len(seen) + 1
             t == Append(seen, o) IN
         /\ n \in Nat /\ t \in Seq(Results) /\ Len(t) = n
         /\ HitCases(t) = HitCases(seen) \cup (IF o # "error" /\ o = Cases[n].expect
                                               THEN {n} ELSE {})
         /\ Missed(t) = Missed(seen) \cup (IF Cases[n].expect = "verified" /\ o # "verified"
                                           THEN {n} ELSE {})
         /\ n \notin HitCases(seen) /\ IsFiniteSet(HitCases(seen))
<1> DEFINE n == Len(seen) + 1
           t == Append(seen, o)
<1>1. /\ Len(seen) \in Nat /\ n \in Nat /\ t \in Seq(Results) /\ Len(t) = n
      /\ \A i \in 1 .. Len(seen) : t[i] = seen[i]
      /\ t[n] = o
  OBVIOUS
<1>2. 1 .. n = (1 .. Len(seen)) \cup {n} /\ n \notin 1 .. Len(seen)
  BY <1>1
<1> HIDE DEF n, t
<1>3. HitCases(t) = HitCases(seen) \cup (IF o # "error" /\ o = Cases[n].expect
                                         THEN {n} ELSE {})
  BY <1>1, <1>2 DEF HitCases
<1>4. Missed(t) = Missed(seen) \cup (IF Cases[n].expect = "verified" /\ o # "verified"
                                     THEN {n} ELSE {})
  BY <1>1, <1>2 DEF Missed
<1>5. n \notin HitCases(seen) /\ HitCases(seen) \subseteq 1 .. Len(seen)
  BY <1>2 DEF HitCases
<1>6. IsFiniteSet(1 .. Len(seen))
  BY <1>1, FS_Interval
<1>7. IsFiniteSet(HitCases(seen))
  BY <1>5, <1>6, FS_Subset
<1> QED BY <1>1, <1>3, <1>4, <1>5, <1>7 DEF n, t


LEMMA ScoreStep == ASSUME IInv, ScoreCase PROVE IInv'
<1> DEFINE n == Len(eval.seen) + 1
           case == Cases[n]
<1>1. PICK o \in Results :
        /\ eval' = [eval EXCEPT !.seen = Append(@, o),
                                !.hits = IF Hit(case.expect, o) THEN @ + 1 ELSE @]
        /\ IF ~ Hit(case.expect, o) /\ case.expect = "verified"
           THEN /\ jsonl' = Append(jsonl, [spec_id  |-> case.campaign,
                                           category |-> "EXPERIMENT_INADEQUATE"])
                /\ Moved
           ELSE UNCHANGED <<jsonl, gate>>
  BY Zenon DEF ScoreCase
<1>2. /\ eval.pc = "case" /\ Len(eval.seen) < Len(Cases)
      /\ UNCHANGED <<tree, db, sas, report>>
  BY DEF ScoreCase, gating
<1>3. /\ eval.seen \in Seq(Results) /\ eval.hits \in Nat
      /\ eval \in [pc : {"idle", "case", "ended"}, shown : BOOLEAN, hits : Nat,
                   seen : Seq(Results), exit : Exits]
      /\ eval.hits = Cardinality(HitCases(eval.seen)) /\ eval.shown = TRUE
      /\ {card.spec_id : card \in Range(jsonl)} = {Cases[i].campaign : i \in Missed(eval.seen)}
  BY Zenon, <1>2 DEF IInv, EvalInv
<1>4. case.campaign \in STRING /\ case.expect \in STRING /\ n \in Nat /\ n <= Len(Cases)
  <2>1. n \in 1 .. Len(Cases)
    BY <1>2, <1>3, GateAssumption
  <2> DEFINE kinds == [campaign : STRING, expect : STRING]
  <2>2. Cases \in Seq(kinds)
    BY GateAssumption
  <2> HIDE DEF n, kinds
  <2>3. Cases[n] \in kinds /\ n \in Nat /\ n <= Len(Cases)
    BY <2>1, <2>2
  <2> QED BY <2>3 DEF kinds
<1> DEFINE t == Append(eval.seen, o)
           hits == IF Hit(case.expect, o) THEN eval.hits + 1 ELSE eval.hits
           new == HitCases(eval.seen) \cup (IF o # "error" /\ o = case.expect
                                            THEN {n} ELSE {})
<1>5. /\ t \in Seq(Results) /\ Len(t) = n /\ HitCases(t) = new
      /\ Missed(t) = Missed(eval.seen) \cup (IF case.expect = "verified" /\ o # "verified"
                                             THEN {n} ELSE {})
      /\ n \notin HitCases(eval.seen) /\ IsFiniteSet(HitCases(eval.seen))
  BY <1>3, SeenFacts
<1>6. eval' = [eval EXCEPT !.seen = t, !.hits = hits]
  BY <1>1
<1>7. hits = Cardinality(new) /\ hits \in Nat
  <2>1. Hit(case.expect, o) <=> o # "error" /\ o = case.expect
    BY DEF Hit
  <2> HIDE DEF n, case
  <2>2. CASE Hit(case.expect, o)
    <3>1. new = HitCases(eval.seen) \cup {n}
      BY <2>1, <2>2
    <3>2. Cardinality(HitCases(eval.seen) \cup {n}) = Cardinality(HitCases(eval.seen)) + 1
      BY Zenon, <1>5, FS_AddElement
    <3>3. hits = eval.hits + 1
      BY <2>2
    <3> HIDE DEF hits, new
    <3> QED BY <1>3, <3>1, <3>2, <3>3
  <2>3. CASE ~ Hit(case.expect, o)
    <3>1. new = HitCases(eval.seen)
      BY <2>1, <2>3
    <3> QED BY Zenon, <1>3, <2>3, <3>1
  <2> QED BY <2>2, <2>3
<1>8. ~ Hit(case.expect, o) /\ case.expect = "verified"
        <=> case.expect = "verified" /\ o # "verified"
  BY DEF Hit
<1> DEFINE card == [spec_id |-> case.campaign, category |-> "EXPERIMENT_INADEQUATE"]
<1> HIDE DEF t, hits, new
<1>9. /\ eval'.pc = "case" /\ eval'.shown = TRUE /\ eval'.seen = t /\ eval'.hits = hits
      /\ eval' \in [pc : {"idle", "case", "ended"}, shown : BOOLEAN, hits : Nat,
                    seen : Seq(Results), exit : Exits]
  BY Zenon, <1>2, <1>3, <1>5, <1>6, <1>7
<1>10. card \in Card /\ card.spec_id = case.campaign /\ jsonl \in Seq(Card)
  BY <1>4 DEF Card, Categories, IInv, FileInv
<1>11. CASE case.expect = "verified" /\ o # "verified"
  <2>1. jsonl' = Append(jsonl, card) /\ Moved
    BY <1>1, <1>8, <1>11
  <2>2. Missed(t) = Missed(eval.seen) \cup {n}
    BY <1>5, <1>11
  <2> HIDE DEF card, n
  <2>3. jsonl' \in Seq(Card) /\ Range(jsonl') = Range(jsonl) \cup {card}
    BY SMTT(30), <1>10, <2>1, AppendFacts
  <2>4. {c.spec_id : c \in Range(jsonl')} = {c.spec_id : c \in Range(jsonl)} \cup {case.campaign}
    BY <1>10, <2>3
  <2>5. {Cases[i].campaign : i \in Missed(t)}
          = {Cases[i].campaign : i \in Missed(eval.seen)} \cup {case.campaign}
    BY <2>2
  <2>6. EvalInv'
    BY Zenon, <1>3, <1>4, <1>5, <1>7, <1>9, <2>4, <2>5 DEF EvalInv
  <2>7. GateInv(gate') /\ CrewInv(gate', PlanNow') /\ gate'.pc = gate.pc /\ gate'.n = gate.n
    BY <2>1, MovedKeeps DEF IInv
  <2>8. ReportInv'
    BY <1>2, <2>7, ReportStays DEF IInv
  <2>9. FileInv'
    BY <1>2, <2>3 DEF IInv, FileInv
  <2> QED BY <2>6, <2>7, <2>8, <2>9 DEF IInv
<1>12. CASE ~ (case.expect = "verified" /\ o # "verified")
  <2>1. UNCHANGED <<jsonl, gate>>
    BY <1>1, <1>8, <1>12
  <2>2. Missed(t) = Missed(eval.seen)
    BY <1>5, <1>12
  <2> HIDE DEF n, case
  <2>3. EvalInv'
    BY Zenon, <1>3, <1>4, <1>5, <1>7, <1>9, <2>1, <2>2 DEF EvalInv
  <2> QED BY <1>2, <2>1, <2>3, EvalKeeps
<1> QED BY <1>11, <1>12

\* A sequence cut at a place.
LEMMA PartFacts ==
  ASSUME NEW A, NEW s \in Seq(A), NEW i \in 1 .. (Len(s) + 1)
  PROVE  SubSeq(s, 1, i - 1) \in Seq(A) /\ SubSeq(s, i, Len(s)) \in Seq(A)
<1>1. Len(s) \in Nat /\ i \in Nat /\ i >= 1 /\ i - 1 \in 0 .. Len(s)
  OBVIOUS
<1>2. SubSeq(s, 1, i - 1) \in Seq(A)
  BY <1>1
<1>3. SubSeq(s, i, Len(s)) \in Seq(A)
  BY <1>1
<1> QED BY <1>2, <1>3

LEMMA InsertFacts ==
  ASSUME NEW A, NEW s \in Seq(A), NEW t \in Seq(A), NEW x \in A
  PROVE  s \o <<x>> \o t \in Seq(A)
<1>1. <<x>> \in Seq(A)
  OBVIOUS
<1>2. s \o <<x>> \in Seq(A)
  BY <1>1
<1> QED BY <1>2

LEMMA RefusedStep == ASSUME IInv, CampaignRefused PROVE IInv'
<1>1. Moved /\ UNCHANGED <<tree, jsonl, sas, report, eval>>
  BY Zenon DEF CampaignRefused
<1>2. PICK id \in RunIds, i \in 1 .. (Len(db) + 1),
           reason \in {"missing generator", "control arm", "indeterminate"} :
        db' = SubSeq(db, 1, i - 1) \o <<[spec_id |-> id, category |-> CategoryOf(reason)]>>
                \o SubSeq(db, i, Len(db))
  BY Zenon DEF CampaignRefused
<1> DEFINE card == [spec_id |-> id, category |-> CategoryOf(reason)]
           left == SubSeq(db, 1, i - 1)
           right == SubSeq(db, i, Len(db))
<1>3. card \in Card
  BY Zenon, GateAssumption DEF Card, Categories, CategoryOf
<1>4. db \in Seq(Card)
  BY Zenon DEF IInv, FileInv
<1>5. left \in Seq(Card) /\ right \in Seq(Card)
  BY Zenon, <1>4, PartFacts
<1> HIDE DEF card, left, right
<1>7. db' \in Seq(Card)
  <2>1. left \o <<card>> \o right \in Seq(Card)
    BY Zenon, <1>3, <1>5, InsertFacts
  <2> QED BY Zenon, <1>2, <2>1 DEF card, left, right
<1>8. FileInv'
  BY Zenon, <1>1, <1>7 DEF IInv, FileInv
<1>9. GateInv(gate') /\ CrewInv(gate', PlanNow') /\ gate'.pc = gate.pc /\ gate'.n = gate.n
  BY Zenon, <1>1, MovedKeeps DEF IInv
<1>10. ReportInv'
  BY Zenon, <1>1, <1>9, ReportStays DEF IInv
<1>11. EvalInv'
  BY Zenon, <1>1 DEF IInv, EvalInv
<1> QED BY Zenon, <1>8, <1>9, <1>10, <1>11 DEF IInv

LEMMA EditStep == ASSUME IInv, EditTree PROVE IInv'
<1>1. tree' \in Trees /\ Moved /\ UNCHANGED <<db, jsonl, sas, report, eval>>
  BY DEF EditTree
<1>2. FileInv'
  BY <1>1 DEF IInv, FileInv
<1>3. GateInv(gate') /\ CrewInv(gate', PlanNow') /\ gate'.pc = gate.pc /\ gate'.n = gate.n
  BY <1>1, MovedKeeps DEF IInv
<1>4. ReportInv'
  BY <1>1, <1>3, ReportStays DEF IInv
<1>5. EvalInv'
  BY Zenon, <1>1 DEF IInv, EvalInv
<1> QED BY <1>2, <1>3, <1>4, <1>5 DEF IInv


-----------------------------------------------------------------------------
(***************************************************************************)
(* The theorems.                                                           *)
(***************************************************************************)
LEMMA InitInv == Init => IInv
<1> SUFFICES ASSUME Init PROVE IInv
  OBVIOUS
<1>1. FileInv
  BY DEF Init, FileInv
<1>2. << >> \in Seq(Ids) /\ NoPlan \in Plans /\ 0 \in 0 .. MaxGates
  BY GateAssumption DEF NoPlan, Plans
<1>3. gate \in GateType
  BY Zenon, <1>2 DEF Init, NoGate, GateType, Packs, Exits
<1>4. GateInv(gate)
  BY <1>3 DEF Init, NoGate, GateInv
<1>5. CrewInv(gate, PlanNow)
  BY Zenon DEF Init, NoGate, CrewInv
<1>6. ReportInv
  BY SMTT(30), GateAssumption DEF Init, NoGate, ReportInv
<1>7. EvalInv
  <2>1. << >> \in Seq(Results) /\ Len(<< >>) = 0 /\ Len(Cases) \in Nat
    BY GateAssumption
  <2>2. HitCases(<< >>) = {}
    BY DEF HitCases
  <2>3. Cardinality(HitCases(<< >>)) = 0
    BY <2>2, FS_EmptySet
  <2>4. /\ eval = NoEval /\ jsonl = << >> /\ eval.pc = "idle" /\ eval.seen = << >>
        /\ eval.hits = 0
    BY DEF Init, NoEval
  <2>5. eval \in [pc : {"idle", "case", "ended"}, shown : BOOLEAN, hits : Nat,
                  seen : Seq(Results), exit : Exits]
    BY <2>1, <2>4 DEF NoEval, Exits
  <2> QED BY <2>1, <2>3, <2>4, <2>5 DEF EvalInv
<1> QED BY <1>1, <1>4, <1>5, <1>6, <1>7 DEF IInv

LEMMA NextInv == IInv /\ [Next]_vars => IInv'
<1> SUFFICES ASSUME IInv, [Next]_vars PROVE IInv'
  OBVIOUS
<1>1. CASE StartCommand
  BY <1>1, StartStep
<1>2. CASE MapAndPlan
  BY <1>2, MapStep
<1>3. CASE ProbeContainment
  BY <1>3, ProbeStep
<1>4. CASE PlanClasses
  BY <1>4, PlanStep
<1>5. CASE SurfaceFails
  BY <1>5, ExitStep DEF SurfaceFails, Exits, IInv, FileInv
<1>6. CASE RunClass
  BY <1>6, RunStep
<1>7. CASE LoadFails
  BY <1>7, ExitStep DEF LoadFails, Exits, IInv, FileInv
<1>8. CASE WriteReport
  <2> DEFINE word == IF gate.verified = {} THEN "clean" ELSE "verified"
             status == Verdict(gate.verified, gate.held)
  <2>1. /\ status \in Exits /\ word \in {"nothing", "blocked", "verified", "clean"}
        /\ Exit(status) /\ report' = [by |-> gate.n, says |-> word]
        /\ gate.pc # "idle" /\ UNCHANGED <<others, sas>>
    BY <1>8 DEF WriteReport, Verdict, Exits
  <2> HIDE DEF word, status
  <2> QED BY <2>1, ReportStep
<1>9. CASE GateCrashes
  BY <1>9, ExitStep DEF GateCrashes, Exits, IInv, FileInv
<1>10. CASE StartEval
  BY <1>10, StartEvalStep
<1>11. CASE ScoreCase
  BY <1>11, ScoreStep
<1>12. CASE EndEval
  BY <1>12, EndEvalStep
<1>13. CASE CampaignRefused
  BY <1>13, RefusedStep
<1>14. CASE EditTree
  BY <1>14, EditStep
<1>15. CASE UNCHANGED vars
  <2>1. UNCHANGED <<tree, db, jsonl, sas, report, gate, eval>>
    BY <1>15 DEF vars
  <2>2. EvalInv'
    BY Zenon, <2>1 DEF IInv, EvalInv
  <2> QED BY <2>1, <2>2, EvalKeeps
<1> QED BY <1>1, <1>2, <1>3, <1>4, <1>5, <1>6, <1>7, <1>8, <1>9, <1>10, <1>11, <1>12,
           <1>13, <1>14, <1>15 DEF Next

\* The inductive invariant holds in every reachable state: a command that runs
\* has its plan, its results and its classes to run in step, a file of the
\* external planner is orderly, and the cards are those of the missed cases.
THEOREM Invariance == Spec => []IInv
BY InitInv, NextInv, PTL DEF Spec

LEMMA InvTypes == IInv => TypeOK
<1> SUFFICES ASSUME IInv PROVE TypeOK
  OBVIOUS
<1>1. \A card \in Range(memory) : card \in Card
  <2>1. memory \in Seq(Card)
    BY DEF IInv, FileInv, memory
  <2> QED BY <2>1 DEF Range
<1>2. sas = NoFile \/ Range(sas) \subseteq Ids
  BY DEF IInv, FileInv, Orderly, Range
<1>3. /\ gate.pc \in {"idle", "map", "probe", "plan", "run"}
      /\ gate.n \in 0 .. MaxGates /\ gate.pack \in Packs /\ gate.exit \in Exits
      /\ gate.kind \in {"plan", "crew", "gate"} /\ gate.shown \in BOOLEAN
      /\ gate.verified \cup gate.held \cup gate.errors \subseteq Ids
      /\ gate.todo \in Seq(Ids)
  BY DEF IInv, GateInv, GateType
<1>4. Range(gate.todo) \subseteq Ids
  BY <1>3 DEF Range
<1>5. IsInjective(gate.plan.skipped \o gate.plan.campaigns) /\ IsInjective(gate.todo)
  <2>1. CASE gate.pc = "run"
    BY <2>1 DEF IInv, GateInv, RunInv
  <2>2. CASE gate.pc # "run"
    <3>1. gate.plan = NoPlan /\ gate.todo = << >>
      BY <2>2 DEF IInv, GateInv
    <3>2. gate.plan.skipped \o gate.plan.campaigns = << >>
      BY <3>1 DEF NoPlan
    <3>3. IsInjective(<< >>)
      BY DEF IsInjective
    <3> QED BY <3>1, <3>2, <3>3
  <2> QED BY <2>1, <2>2
<1>6. eval.pc \in {"idle", "case", "ended"} /\ eval.exit \in Exits
  BY DEF IInv, EvalInv
<1>7. eval.seen \in Seq(Results) /\ Len(eval.seen) <= Len(Cases) /\ eval.hits \in Nat
  BY DEF IInv, EvalInv
<1>8. Range(eval.seen) \subseteq Results
  BY <1>7 DEF Range
<1>9. eval.hits \in 0 .. Len(Cases)
  <2> DEFINE n == Len(eval.seen)
  <2>1. n \in Nat /\ n <= Len(Cases) /\ Len(Cases) \in Nat
    BY <1>7, GateAssumption
  <2> HIDE DEF n
  <2>2. IsFiniteSet(1 .. n) /\ Cardinality(1 .. n) = n
    BY <2>1, FS_Interval
  <2>3. HitCases(eval.seen) \subseteq 1 .. n
    BY DEF HitCases, n
  <2>4. Cardinality(HitCases(eval.seen)) <= Cardinality(1 .. n)
    BY Zenon, <2>2, <2>3, FS_Subset
  <2>5. eval.hits = Cardinality(HitCases(eval.seen))
    BY DEF IInv, EvalInv
  <2> QED BY <1>7, <2>1, <2>2, <2>4, <2>5
<1>10. tree \in Trees
  BY DEF IInv, FileInv
<1>11. report \in [by : 0 .. MaxGates, says : {"nothing", "blocked", "verified", "clean"}]
  BY DEF IInv, ReportInv
<1> QED BY <1>1, <1>2, <1>3, <1>4, <1>5, <1>6, <1>8, <1>9, <1>10, <1>11 DEF TypeOK

\* Type correctness: in particular a plan never names a class twice, a class
\* waits to run only once, and the evaluation never has more hits than cases.
THEOREM TypeCorrect == Spec => []TypeOK
BY Invariance, InvTypes, PTL

\* run_deterministic_crew: unless a card was written or the tree edited in
\* between, the plan of the crew's report and the plan the gate runs have the
\* same classes, for every catalogue, tree and engine.
THEOREM CrewPlanRuns == Spec => []CrewPlanIsRun
<1>1. IInv => CrewPlanIsRun
  <2> SUFFICES ASSUME IInv, gate.kind = "crew", gate.pc = "run", ~ gate.moved
               PROVE  Range(gate.crew) = Range(gate.plan.campaigns)
    BY DEF CrewPlanIsRun
  <2>1. gate.moved \in BOOLEAN
    BY DEF IInv, GateInv, GateType
  <2>2. gate.moved = FALSE
    BY <2>1
  <2> QED BY <2>2 DEF IInv, CrewInv
<1> QED BY <1>1, Invariance, PTL

\* class_files: a class that the plan skipped does not run, unless the cards
\* left no class in the plan.
THEOREM SkippedDoNotRun == Spec => []SkippedIsNotRun
<1>1. IInv => SkippedIsNotRun
  <2> SUFFICES ASSUME IInv, gate.plan.campaigns # << >>
               PROVE  Range(gate.plan.skipped)
                        \cap (gate.verified \cup gate.held \cup gate.errors) = {}
    BY DEF SkippedIsNotRun
  <2>1. gate.pc = "run"
    BY SMTT(30) DEF IInv, GateInv, NoPlan
  <2>2. /\ gate.verified \cup gate.held \cup gate.errors \subseteq Range(gate.plan.campaigns)
        /\ Range(gate.plan.skipped) \cap Range(gate.plan.campaigns) = {}
    BY <2>1 DEF IInv, GateInv, RunInv, ToRun
  <2> QED BY <2>2
<1> QED BY <1>1, Invariance, PTL


-----------------------------------------------------------------------------
(***************************************************************************)
(* The action properties.                                                  *)
(***************************************************************************)
\* An exit changes neither a running plan nor, short of success, the verdict.
LEMMA ExitFields ==
  ASSUME NEW status, Exit(status)
  PROVE  gate'.pc = "idle" /\ gate'.exit = status
BY DEF Exit, NoGate

LEMMA MovedFields ==
  ASSUME gate \in GateType, Moved
  PROVE  gate'.pc = gate.pc /\ gate'.exit = gate.exit
BY DEF Moved, GateType

\* Which action each of the four properties is about.
LEMMA WhichStep ==
  ASSUME IInv, [Next]_vars
  PROVE  /\ gate.pc = "plan" /\ gate'.pc = "run" => PlanClasses
         /\ gate.pc # "idle" /\ gate.kind # "plan" /\ gate'.exit = "SUCCESS" => WriteReport
         /\ report' # report => ProbeContainment \/ WriteReport
         /\ eval.pc = "case" /\ eval'.pc = "ended" => EndEval
<1>1. gate \in GateType /\ (gate.pc # "idle" => gate.exit = "none")
  BY DEF IInv, GateInv
<1>2. eval.pc = "case" =>
        eval \in [pc : {"idle", "case", "ended"}, shown : BOOLEAN, hits : Nat,
                  seen : Seq(Results), exit : Exits]
  BY DEF IInv, EvalInv
<1>3. CASE StartCommand
  BY <1>3 DEF StartCommand, others
<1>4. CASE MapAndPlan
  <2>1. gate.pc = "map" /\ UNCHANGED <<eval, report>>
    BY <1>4 DEF MapAndPlan, others
  <2>2. gate.kind # "plan" => \E p : CrewPlans(p)
    BY <1>4 DEF MapAndPlan
  <2>3. gate.kind # "plan" => gate'.exit = gate.exit
    BY Zenon, <1>1, <2>2 DEF CrewPlans, GateType
  <2> QED BY <1>1, <2>1, <2>3
<1>5. CASE ProbeContainment
  <2>1. gate.pc = "probe" /\ UNCHANGED eval
    BY <1>5 DEF ProbeContainment, others
  <2>2. \/ gate' = [gate EXCEPT !.pc = "plan", !.shown = TRUE, !.waived = FALSE]
        \/ Exit("FAILURE")
    BY <1>5 DEF ProbeContainment
  <2>3. gate'.exit # "SUCCESS"
    <3>1. CASE gate' = [gate EXCEPT !.pc = "plan", !.shown = TRUE, !.waived = FALSE]
      <4>1. gate'.exit = gate.exit
        BY <1>1, <3>1 DEF GateType
      <4> QED BY <1>1, <2>1, <4>1
    <3>2. CASE Exit("FAILURE")
      BY <3>2, ExitFields
    <3> QED BY <2>2, <3>1, <3>2
  <2> QED BY <1>5, <2>1, <2>3
<1>6. CASE PlanClasses
  <2>1. gate.pc = "plan" /\ UNCHANGED <<eval, report>> /\ gate'.exit = gate.exit
    BY <1>1, <1>6 DEF PlanClasses, others, GateType
  <2> QED BY <1>1, <1>6, <2>1
<1>7. CASE SurfaceFails \/ LoadFails \/ GateCrashes
  <2>1. UNCHANGED <<eval, report>> /\ (Exit("FAILURE") \/ Exit("none"))
    BY <1>7 DEF SurfaceFails, LoadFails, GateCrashes, others
  <2>2. gate'.pc = "idle" /\ gate'.exit # "SUCCESS"
    BY <2>1, ExitFields
  <2> QED BY <2>1, <2>2
<1>8. CASE RunClass
  <2>1. /\ gate.pc = "run" /\ UNCHANGED <<eval, report>> /\ gate'.exit = gate.exit
    BY Zenon, <1>1, <1>8 DEF RunClass, others, GateType
  <2> QED BY <1>1, <2>1
<1>9. CASE WriteReport
  <2>1. gate.pc = "run" /\ UNCHANGED eval
    BY <1>9 DEF WriteReport, others
  <2> QED BY <1>9, <2>1
<1>10. CASE StartEval
  BY <1>1, <1>10 DEF StartEval, gating
<1>11. CASE ScoreCase
  <2>1. eval.pc = "case" /\ UNCHANGED report /\ (UNCHANGED gate \/ Moved)
    BY <1>11 DEF ScoreCase, gating
  <2>2. \E t, h : eval' = [eval EXCEPT !.seen = t, !.hits = h]
    BY Zenon, <1>11 DEF ScoreCase
  <2>3. eval'.pc = "case"
    BY <1>2, <2>1, <2>2
  <2>4. gate'.pc = gate.pc /\ gate'.exit = gate.exit
    BY <1>1, <2>1, MovedFields
  <2> QED BY <1>1, <2>1, <2>3, <2>4
<1>12. CASE EndEval
  BY <1>1, <1>12 DEF EndEval, gating
<1>13. CASE CampaignRefused \/ EditTree
  <2>1. UNCHANGED <<report, eval>> /\ Moved
    BY Zenon, <1>13 DEF CampaignRefused, EditTree
  <2>2. gate'.pc = gate.pc /\ gate'.exit = gate.exit
    BY <1>1, <2>1, MovedFields
  <2> QED BY <1>1, <2>1, <2>2
<1>14. CASE UNCHANGED vars
  BY <1>1, <1>14 DEF vars
<1> QED BY <1>3, <1>4, <1>5, <1>6, <1>7, <1>8, <1>9, <1>10, <1>11, <1>12, <1>13, <1>14
        DEF Next

\* plan_campaigns: for every catalogue, tree, answer of the external planner and
\* leftover sas_plan, the plan a gate runs has each justified class once, but for
\* those with a TOOL_GAP card; late classes come first and the map before the
\* other http classes.
THEOREM PlansFollowFacts == Spec => PlanFollowsFacts
<1>1. ASSUME IInv, [Next]_vars, gate.pc = "plan" /\ gate'.pc = "run"
      PROVE  LET plan == gate'.plan.campaigns
                 Pos(id) == CHOOSE i \in DOMAIN plan : plan[i] = id IN
             /\ IsInjective(plan) /\ Range(plan) = Justified(gate.pack) \ Gaps
             /\ Range(gate'.plan.skipped) = Justified(gate.pack) \cap Gaps
             /\ \A id \in Range(plan), x \in Range(plan) \ Inadequate :
                  /\ id \in Inadequate => Pos(id) < Pos(x)
                  /\ id = MapId /\ x \in HttpIds => Pos(id) <= Pos(x)
  <2> DEFINE plan == gate'.plan.campaigns
             Pos(id) == CHOOSE i \in DOMAIN plan : plan[i] = id
  <2>1. PlanClasses
    BY <1>1, WhichStep
  <2>2. PICK p \in plan_campaigns(facts_from(tree), gate.pack) :
          gate' = [gate EXCEPT !.pc = "run", !.plan = p.plan,
                               !.todo = class_files(gate.pack, p.plan.campaigns)]
    BY Zenon, <2>1 DEF PlanClasses
  <2>3. gate'.plan = p.plan
    BY <1>1, <2>2 DEF IInv, GateInv, GateType
  <2>4. memory \in Seq(Card) /\ (sas = NoFile \/ Orderly(sas))
    BY <1>1 DEF IInv, FileInv, memory
  <2>5. PICK base : /\ Orderly(base) /\ Range(base) = Planned(tree, gate.pack)
                    /\ Replanned(p.plan, base, memory)
    BY <2>4, PlanFacts
  <2>6. Gaps = NamedBy(memory, "TOOL_GAP")
        /\ Inadequate = NamedBy(memory, "EXPERIMENT_INADEQUATE")
    BY DEF Gaps, Inadequate, NamedBy
  <2>7. Justified(gate.pack) = Planned(tree, gate.pack)
    BY JustifiedPlanned
  <2>8. /\ IsInjective(plan) /\ Range(plan) = Justified(gate.pack) \ Gaps
        /\ Range(gate'.plan.skipped) = Justified(gate.pack) \cap Gaps
    BY Zenon, <2>3, <2>5, <2>6, <2>7 DEF Replanned
  <2>9. \A i, j \in DOMAIN plan : plan[j] \notin Inadequate =>
          /\ plan[i] \in Inadequate => i < j
          /\ plan[i] = MapId /\ plan[j] \in HttpIds => i <= j
    BY Zenon, <2>3, <2>5, <2>6 DEF Replanned
  <2> HIDE DEF plan
  <2>10. ASSUME NEW id \in Range(plan) PROVE Pos(id) \in DOMAIN plan /\ plan[Pos(id)] = id
    <3>1. \E i \in DOMAIN plan : plan[i] = id
      BY DEF Range
    <3> QED BY <3>1
  <2>11. ASSUME NEW id \in Range(plan), NEW x \in Range(plan) \ Inadequate
         PROVE  /\ id \in Inadequate => Pos(id) < Pos(x)
                /\ id = MapId /\ x \in HttpIds => Pos(id) <= Pos(x)
    <3>1. /\ Pos(id) \in DOMAIN plan /\ plan[Pos(id)] = id
          /\ Pos(x) \in DOMAIN plan /\ plan[Pos(x)] = x
      BY <2>10
    <3> HIDE DEF Pos
    <3> QED BY <2>9, <3>1
  <2> QED BY <2>8, <2>11 DEF plan
<1>2. IInv /\ [Next]_vars =>
        (gate.pc = "plan" /\ gate'.pc = "run" =>
           LET plan == gate'.plan.campaigns
               Pos(id) == CHOOSE i \in DOMAIN plan : plan[i] = id IN
           /\ IsInjective(plan) /\ Range(plan) = Justified(gate.pack) \ Gaps
           /\ Range(gate'.plan.skipped) = Justified(gate.pack) \cap Gaps
           /\ \A id \in Range(plan), x \in Range(plan) \ Inadequate :
                /\ id \in Inadequate => Pos(id) < Pos(x)
                /\ id = MapId /\ x \in HttpIds => Pos(id) <= Pos(x))
  BY <1>1
<1> QED BY <1>2, Invariance, PTL DEF Spec, PlanFollowsFacts

\* run_gate and run_crew: success means that containment was shown or waived,
\* that this command wrote the report and found nothing verified, and that every
\* planned class with a file was held or an error, not both.
THEOREM SuccessMeansClean == Spec => SuccessIsClean
<1>1. ASSUME IInv, [Next]_vars,
             gate.pc # "idle" /\ gate.kind # "plan" /\ gate'.exit = "SUCCESS"
      PROVE  /\ gate.shown /\ report' = [by |-> gate.n, says |-> "clean"]
             /\ gate.verified = {} /\ gate.held \cap gate.errors = {}
             /\ LET run == IF gate.plan.campaigns = << >> THEN PackFiles(gate.pack)
                                                          ELSE Range(gate.plan.campaigns) IN
                gate.held \cup gate.errors = run \cap ClassFiles
  <2>1. WriteReport
    BY <1>1, WhichStep
  <2>2. gate.pc = "run" /\ gate.todo = << >> /\ Exit(Verdict(gate.verified, gate.held))
    BY <2>1 DEF WriteReport
  <2>3. gate'.exit = Verdict(gate.verified, gate.held)
    BY <2>2, ExitFields
  <2>4. gate.verified = {}
    BY <1>1, <2>3 DEF Verdict
  <2>5. report' = [by |-> gate.n, says |-> "clean"]
    BY <2>1, <2>4 DEF WriteReport
  <2>6. gate.shown = TRUE /\ RunInv(gate)
    BY <1>1, <2>2 DEF IInv, GateInv
  <2>7. Range(gate.todo) = {}
    BY <2>2 DEF Range
  <2>8. /\ gate.held \cap gate.errors = {}
        /\ gate.held \cup gate.errors = ToRun(gate.pack, gate.plan.campaigns)
    BY <2>4, <2>6, <2>7 DEF RunInv
  <2> QED BY <2>4, <2>5, <2>6, <2>8 DEF ToRun
<1>2. IInv /\ [Next]_vars =>
        (gate.pc # "idle" /\ gate.kind # "plan" /\ gate'.exit = "SUCCESS" =>
           /\ gate.shown /\ report' = [by |-> gate.n, says |-> "clean"]
           /\ gate.verified = {} /\ gate.held \cap gate.errors = {}
           /\ LET run == IF gate.plan.campaigns = << >> THEN PackFiles(gate.pack)
                                                        ELSE Range(gate.plan.campaigns) IN
              gate.held \cup gate.errors = run \cap ClassFiles)
  BY <1>1
<1> QED BY <1>2, Invariance, PTL DEF Spec, SuccessIsClean

\* gate-report.html only ever moves on to a later gate, is written by a command
\* that runs, and says clean exactly when that command succeeds.
THEOREM ReportsAreLast == Spec => ReportIsLast
<1>1. ASSUME IInv, [Next]_vars, report' # report
      PROVE  /\ gate.pc # "idle" /\ report'.by = gate.n /\ report'.by > report.by
             /\ (gate'.exit = "SUCCESS" <=> report'.says = "clean")
  <2>1. ProbeContainment \/ WriteReport
    BY <1>1, WhichStep
  <2>2. gate.pc # "idle"
    BY <2>1 DEF ProbeContainment, WriteReport
  <2>3. report.by < gate.n /\ report.by \in Nat /\ gate.n \in Nat
    BY <1>1, <2>2 DEF IInv, ReportInv, GateInv, GateType
  <2>4. CASE ProbeContainment
    <3>1. Exit("FAILURE") /\ report' = [by |-> gate.n, says |-> "blocked"]
      BY <1>1, <2>4 DEF ProbeContainment
    <3>2. gate'.exit = "FAILURE" /\ report'.by = gate.n /\ report'.says = "blocked"
      BY <3>1, ExitFields
    <3> QED BY <2>2, <2>3, <3>2
  <2>5. CASE WriteReport
    <3>1. /\ report'.by = gate.n
          /\ report'.says = IF gate.verified = {} THEN "clean" ELSE "verified"
          /\ gate'.exit = Verdict(gate.verified, gate.held)
      BY <2>5, ExitFields DEF WriteReport
    <3>2. gate'.exit = "SUCCESS" <=> report'.says = "clean"
      BY <3>1 DEF Verdict
    <3> QED BY <2>2, <2>3, <3>1, <3>2
  <2> QED BY <2>1, <2>4, <2>5
<1>2. IInv /\ [Next]_vars =>
        (report' # report => gate.pc # "idle" /\ report'.by = gate.n /\ report'.by > report.by
           /\ (gate'.exit = "SUCCESS" <=> report'.says = "clean"))
  BY <1>1
<1> QED BY <1>2, Invariance, PTL DEF Spec, ReportIsLast

\* run_poc_eval_pack: it succeeds exactly when every case ended as expected and
\* none with an error, and the cards it leaves are those of the missed cases.
THEOREM ScoresAreOracles == Spec => ScoreIsOracle
<1>1. ASSUME IInv, [Next]_vars, eval.pc = "case" /\ eval'.pc = "ended"
      PROVE  /\ eval.shown
             /\ eval'.exit = "SUCCESS" <=>
                  \A i \in DOMAIN Cases :
                    eval.seen[i] # "error" /\ eval.seen[i] = Cases[i].expect
             /\ {card.spec_id : card \in Range(jsonl)} =
                  {Cases[i].campaign : i \in {j \in DOMAIN Cases :
                     Cases[j].expect = "verified" /\ eval.seen[j] # "verified"}}
  <2> DEFINE n == Len(Cases)
  <2>1. EndEval
    BY <1>1, WhichStep
  <2>2. Len(eval.seen) = n /\ n \in Nat /\ DOMAIN Cases = 1 .. n
    BY <2>1, GateAssumption DEF EndEval
  <2>3. eval'.exit = "SUCCESS" <=> eval.hits = n
    BY <2>1 DEF EndEval, NoEval
  <2>4. /\ eval.shown = TRUE /\ eval.hits = Cardinality(HitCases(eval.seen))
        /\ {card.spec_id : card \in Range(jsonl)} =
             {Cases[i].campaign : i \in Missed(eval.seen)}
    BY Zenon, <1>1 DEF IInv, EvalInv
  <2>5. Missed(eval.seen) = {j \in DOMAIN Cases : Cases[j].expect = "verified"
                                                  /\ eval.seen[j] # "verified"}
    BY <2>2 DEF Missed
  <2> HIDE DEF n
  <2>6. HitCases(eval.seen) \subseteq 1 .. n
    BY <2>2 DEF HitCases
  <2>7. IsFiniteSet(1 .. n) /\ Cardinality(1 .. n) = n
    BY <2>2, FS_Interval
  <2>8. eval.hits = n <=> HitCases(eval.seen) = 1 .. n
    <3>1. HitCases(eval.seen) # 1 .. n => Cardinality(HitCases(eval.seen)) # Cardinality(1 .. n)
      BY Zenon, <2>6, <2>7, FS_Subset
    <3> QED BY <2>4, <2>7, <3>1
  <2>9. HitCases(eval.seen) = 1 .. n <=>
          \A i \in DOMAIN Cases : eval.seen[i] # "error" /\ eval.seen[i] = Cases[i].expect
    BY <2>2 DEF HitCases
  <2> QED BY <2>3, <2>4, <2>5, <2>8, <2>9
<1>2. IInv /\ [Next]_vars =>
        (eval.pc = "case" /\ eval'.pc = "ended" =>
           /\ eval.shown
           /\ eval'.exit = "SUCCESS" <=>
                \A i \in DOMAIN Cases :
                  eval.seen[i] # "error" /\ eval.seen[i] = Cases[i].expect
           /\ {card.spec_id : card \in Range(jsonl)} =
                {Cases[i].campaign : i \in {j \in DOMAIN Cases :
                   Cases[j].expect = "verified" /\ eval.seen[j] # "verified"}})
  BY <1>1
<1> QED BY <1>2, Invariance, PTL DEF Spec, ScoreIsOracle
=============================================================================
