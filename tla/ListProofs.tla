------------------------------- MODULE ListProofs -------------------------------
(***************************************************************************)
(* Lemmas that the proofs of several components rest on: induction over    *)
(* the naturals, what a filter of a list keeps, and what the three updates *)
(* of a pointer file preserve (entries stay distinct and bounded in        *)
(* number, and none appears from nowhere).                                 *)
(***************************************************************************)
EXTENDS PointerFile, Lists, SequenceTheorems, FiniteSetTheorems, TLAPS

--------------------------------------------------------------------------------
(* Induction: the finite subsets of the naturals are well-founded, so are the naturals *)

\* A set of naturals that is not empty has a least element.
LEMMA LeastNatural ==
    ASSUME NEW T, T \subseteq Nat, T # {}
    PROVE  \E x \in T : \A y \in T : x <= y
<1> DEFINE R == StrictSubsetOrdering(Nat)
           F == FiniteSubsetsOf(Nat)
           I == {0..n : n \in T}
<1>1. IsWellFoundedOn(R, F)
  BY FS_StrictSubsetOrderingWellFounded
<1>2. I \subseteq F
  <2>1. \A n \in T : 0..n \subseteq Nat /\ IsFiniteSet(0..n)
    BY FS_Interval
  <2> QED
    BY <2>1 DEF FiniteSubsetsOf
<1>3. I # {}
  OBVIOUS
<1>4. \A a, b \in SUBSET Nat : <<a, b>> \in R <=> a \subseteq b /\ a # b
  BY DEF StrictSubsetOrdering
<1>5. I \subseteq SUBSET Nat
  OBVIOUS
<1> HIDE DEF R, F
<1>6. PICK s \in I : \A t \in I : ~(<<t, s>> \in R)
  <2> HIDE DEF I
  <2> QED
  BY <1>1, <1>2, <1>3, WFMin, Zenon
<1>7. PICK x \in T : s = 0..x
  OBVIOUS
<1>8. \A y \in T : x <= y
  <2> SUFFICES ASSUME NEW y \in T, ~(x <= y) PROVE FALSE
    OBVIOUS
  <2>1. 0..y \subseteq 0..x /\ x \in 0..x /\ x \notin 0..y
    OBVIOUS
  <2>2. 0..y \in I
    OBVIOUS
  <2>3. 0..y # 0..x
    BY <2>1
  <2>4. <<0..y, 0..x>> \in R
    <3> HIDE DEF I
    <3> QED
    BY <2>1, <2>2, <2>3, <1>4, <1>5, <1>7, Zenon
  <2> QED
    BY <2>2, <2>4, <1>6, <1>7, Zenon
<1> QED
  BY <1>8

\* A set of naturals that has an upper bound has a greatest element.
LEMMA GreatestNatural ==
    ASSUME NEW T, T \subseteq Nat, T # {}, NEW n \in Nat, \A x \in T : x <= n
    PROVE  \E x \in T : \A y \in T : y <= x
<1> DEFINE U == {n - x : x \in T}
<1>1. U \subseteq Nat /\ U # {}
  <2>1. \A x \in T : x \in Nat /\ x <= n /\ n - x \in Nat
    OBVIOUS
  <2> QED
    BY <2>1
<1>2. PICK u \in U : \A v \in U : u <= v
  <2> HIDE DEF U
  <2> QED
    BY <1>1, LeastNatural
<1>3. PICK x \in T : u = n - x
  OBVIOUS
<1>4. ASSUME NEW y \in T PROVE y <= x
  <2>1. n - y \in U /\ x \in Nat /\ y \in Nat
    BY <1>4
  <2>2. n - x <= n - y
    BY <1>2, <1>3, <2>1
  <2> QED
    BY <2>1, <2>2
<1> QED
  BY <1>4

\* What holds of 0, and of n + 1 whenever of n, holds of every natural.
LEMMA EveryNatural ==
    ASSUME NEW T, 0 \in T, \A n \in Nat : n \in T => n + 1 \in T
    PROVE  Nat \subseteq T
<1> SUFFICES ASSUME Nat \ T # {} PROVE FALSE
  OBVIOUS
<1>1. PICK x \in Nat \ T : \A y \in Nat \ T : x <= y
  BY LeastNatural
<1>2. x # 0 /\ x - 1 \in Nat
  BY <1>1
<1>3. x - 1 \in T
  BY <1>1, <1>2
<1> QED
  BY <1>1, <1>2, <1>3

\* A function that is defined by recursion over 0..n exists.
LEMMA Iterated ==
    ASSUME NEW S, NEW a \in S, NEW n \in Nat, NEW g \in [1..n -> [S -> S]]
    PROVE  \E f \in [0..n -> S] : f[0] = a /\ \A i \in 1..n : f[i] = g[i][f[i - 1]]
<1> DEFINE P(m) == \E f \in [0..m -> S] : f[0] = a /\ \A i \in 1..m : f[i] = g[i][f[i - 1]]
           T == {m \in Nat : m <= n => P(m)}
<1>1. 0 \in T
  <2> DEFINE f == [i \in 0..0 |-> a]
  <2>1. f \in [0..0 -> S] /\ f[0] = a /\ 1..0 = {}
    OBVIOUS
  <2> HIDE DEF f
  <2>2. P(0)
    BY <2>1
  <2> QED
    BY <2>2
<1>2. ASSUME NEW m \in Nat, m \in T
      PROVE  m + 1 \in T
  <2> SUFFICES ASSUME m + 1 <= n PROVE P(m + 1)
    OBVIOUS
  <2>1. PICK f \in [0..m -> S] : f[0] = a /\ \A i \in 1..m : f[i] = g[i][f[i - 1]]
    BY <1>2
  <2> DEFINE h == [i \in 0..(m + 1) |-> IF i = m + 1 THEN g[m + 1][f[m]] ELSE f[i]]
  <2>2. g[m + 1][f[m]] \in S
    BY <2>1
  <2>3. h \in [0..(m + 1) -> S] /\ h[0] = a
    BY <2>1, <2>2
  <2>4. \A i \in 1..(m + 1) : h[i] = g[i][h[i - 1]]
    <3> SUFFICES ASSUME NEW i \in 1..(m + 1) PROVE h[i] = g[i][h[i - 1]]
      OBVIOUS
    <3>1. i - 1 \in 0..m /\ h[i - 1] = f[i - 1]
      OBVIOUS
    <3>2. CASE i = m + 1
      BY <3>1, <3>2
    <3>3. CASE i # m + 1
      BY <2>1, <3>1, <3>3
    <3> QED
      BY <3>2, <3>3
  <2> HIDE DEF h
  <2> QED
    BY <2>3, <2>4
<1> HIDE DEF P
<1>3. \A m \in Nat : m \in T => m + 1 \in T
  BY <1>2
<1> HIDE DEF T
<1>4. n \in T
  BY <1>1, <1>3, EveryNatural
<1> QED
  BY <1>4 DEF T, P

\* The same, of what a recursion is made of.
Steps(g, n, S, a) == n \in Nat /\ a \in S /\ g \in [1..n -> [S -> S]]

LEMMA StepsIterate ==
    ASSUME NEW g, NEW n, NEW S, NEW a, Steps(g, n, S, a)
    PROVE  \E f \in [0..n -> S] : f[0] = a /\ \A i \in 1..n : f[i] = g[i][f[i - 1]]
BY Iterated DEF Steps

\* What a filter goes through: a list that grows with every element it takes.
Filters(f, V, s, some) ==
    /\ f \in [0..Len(s) -> Seq(V)]
    /\ f[0] = <<>> /\ Among(s, some) = f[Len(s)]
    /\ \A n \in 1..Len(s) :
          f[n] = IF s[n] \in some THEN Append(f[n - 1], s[n]) ELSE f[n - 1]

LEMMA AmongIterates ==
    ASSUME NEW V, NEW s \in Seq(V), NEW some
    PROVE  \E f : Filters(f, V, s, some)
<1> DEFINE N == Len(s)
           After(n, x) == IF s[n] \in some THEN Append(x, s[n]) ELSE x
           Q == Seq(V)
           none == <<>>
           g == [n \in 1..N |-> [x \in Q |-> After(n, x)]]
<1>1. N \in Nat /\ none \in Q /\ \A n \in 1..N : s[n] \in V
  OBVIOUS
<1>2. \A n \in 1..N, x \in Q : After(n, x) \in Q
  BY <1>1
<1> HIDE DEF N, After, Q, none
<1>3. g \in [1..N -> [Q -> Q]]
  BY <1>2
<1>4. PICK f \in [0..N -> Q] : f[0] = none /\ \A n \in 1..N : f[n] = g[n][f[n - 1]]
  <2> HIDE DEF g
  <2>1. Steps(g, N, Q, none)
    BY <1>1, <1>3 DEF Steps
  <2> QED
    BY <2>1, StepsIterate
<1>5. \A n \in 1..N : f[n] = After(n, f[n - 1])
  <2>1. \A n \in 1..N : n - 1 \in 0..N
    BY <1>1
  <2> QED
    BY <1>4, <2>1
<1>6. f = [n \in 0..N |-> IF n = 0 THEN none ELSE After(n, f[n - 1])]
  <2>1. \A n \in 0..N : f[n] = IF n = 0 THEN none ELSE After(n, f[n - 1])
    BY <1>1, <1>4, <1>5
  <2> QED
    BY <2>1
<1> DEFINE kept[n \in 0..N] == IF n = 0 THEN none ELSE After(n, kept[n - 1])
<1>7. Among(s, some) = kept[N]
  BY Zenon DEF Among, N, After, none
<1>8. kept = [n \in 0..N |-> IF n = 0 THEN none ELSE After(n, kept[n - 1])]
  BY <1>6, Zenon
<1> HIDE DEF kept
<1>9. kept \in [0..N -> Q] /\ kept[0] = none /\ \A n \in 1..N : kept[n] = After(n, kept[n - 1])
  <2>1. \A n \in 0..N : kept[n] = IF n = 0 THEN none ELSE After(n, kept[n - 1])
    BY <1>8, Zenon
  <2>2. kept[0] = none /\ \A n \in 1..N : kept[n] = After(n, kept[n - 1])
    BY <1>1, <2>1
  <2> DEFINE U == {n \in Nat : n <= N => kept[n] \in Q}
  <2>3. 0 \in U
    BY <1>1, <2>2
  <2>4. ASSUME NEW n \in Nat, n \in U, n + 1 <= N PROVE kept[n + 1] \in Q
    <3>1. n + 1 \in 1..N /\ (n + 1) - 1 = n /\ kept[n] \in Q
      BY <1>1, <2>4
    <3>2. kept[n + 1] = After(n + 1, kept[n])
      BY <2>2, <3>1
    <3> QED
      BY <1>2, <3>1, <3>2
  <2>5. \A n \in Nat : n \in U => n + 1 \in U
    BY <2>4
  <2>6. Nat \subseteq U
    <3> HIDE DEF U
    <3> QED
      BY <2>3, <2>5, EveryNatural
  <2>7. \A n \in 0..N : kept[n] \in Q
    BY <1>1, <2>6
  <2> QED
    BY <1>8, <2>2, <2>7
<1>10. Filters(kept, V, s, some)
  BY <1>7, <1>9 DEF Filters, N, After, Q, none
<1> QED
  BY <1>10

\* Where the elements of a filtered list stood: in their order, at a later place or the same,
\* and all that it takes.
LEMMA AmongKeeps ==
    ASSUME NEW S, NEW s \in Seq(S), NEW some
    PROVE  LET kept == Among(s, some) IN
           /\ kept \in Seq(S) /\ Len(kept) <= Len(s)
           /\ \A i \in 1..Len(kept) : \E j \in i..Len(s) : s[j] \in some /\ kept[i] = s[j]
           /\ \A j \in 1..Len(s) : s[j] \in some =>
                \E i \in 1..Len(kept) : i <= j /\ kept[i] = s[j]
           /\ \A n \in 0..Len(s) : (\A i \in 1..n : s[i] \in some) =>
                n <= Len(kept) /\ \A i \in 1..n : kept[i] = s[i]
<1> DEFINE N == Len(s)
           From(m, x) == \A i \in 1..Len(x) : \E j \in i..m : s[j] \in some /\ x[i] = s[j]
           Takes(m, x) == \A j \in 1..m : s[j] \in some => \E i \in 1..Len(x) : i <= j /\ x[i] = s[j]
           First(m, x) == \A n \in 0..m : (\A i \in 1..n : s[i] \in some) =>
                              n <= Len(x) /\ \A i \in 1..n : x[i] = s[i]
           P(m, x) == Len(x) <= m /\ From(m, x) /\ Takes(m, x) /\ First(m, x)
<1>0. PICK f : Filters(f, S, s, some)
  BY AmongIterates
<1>1. /\ f \in [0..N -> Seq(S)]
      /\ f[0] = <<>> /\ Among(s, some) = f[N]
      /\ \A n \in 1..N : f[n] = IF s[n] \in some THEN Append(f[n - 1], s[n]) ELSE f[n - 1]
  BY <1>0 DEF Filters
<1>2. N \in Nat /\ \A n \in 1..N : s[n] \in S
  OBVIOUS
<1>3. P(0, <<>>)
  OBVIOUS
<1>4. ASSUME NEW m \in Nat, m + 1 <= N, NEW x \in Seq(S), NEW y \in Seq(S), P(m, x),
             y = IF s[m + 1] \in some THEN Append(x, s[m + 1]) ELSE x
      PROVE  P(m + 1, y)
  <2> DEFINE e == s[m + 1]
  <2>1. P(m, x) /\ e \in S /\ Len(x) \in Nat
    BY <1>2, <1>4
  <2>2. y = IF e \in some THEN Append(x, e) ELSE x
    BY <1>4
  <2>3. CASE e \in some
    <3>1. /\ Len(y) = Len(x) + 1 /\ Len(x) \in Nat /\ y[Len(x) + 1] = e
          /\ \A i \in 1..Len(x) : y[i] = x[i]
      BY <2>1, <2>2, <2>3
    <3>2. Len(x) <= m
      BY <2>1
    <3>3. From(m + 1, y)
      <4> SUFFICES ASSUME NEW i \in 1..Len(y)
                   PROVE  \E j \in i..(m + 1) : s[j] \in some /\ y[i] = s[j]
        OBVIOUS
      <4>1. CASE i \in 1..Len(x)
        <5>1. PICK j \in i..m : s[j] \in some /\ x[i] = s[j]
          BY <2>1, <4>1
        <5> QED
          BY <3>1, <4>1, <5>1
      <4>2. CASE i = Len(x) + 1
        BY <2>3, <3>1, <3>2, <4>2
      <4> QED
        BY <3>1, <4>1, <4>2
    <3>4. Takes(m + 1, y)
      <4> SUFFICES ASSUME NEW j \in 1..(m + 1), s[j] \in some
                   PROVE  \E i \in 1..Len(y) : i <= j /\ y[i] = s[j]
        OBVIOUS
      <4>1. CASE j \in 1..m
        <5>1. PICK i \in 1..Len(x) : i <= j /\ x[i] = s[j]
          BY <2>1, <4>1
        <5> QED
          BY <3>1, <5>1
      <4>2. CASE j = m + 1
        BY <3>1, <3>2, <4>2
      <4> QED
        BY <4>1, <4>2
    <3>5. First(m + 1, y)
      <4> SUFFICES ASSUME NEW n \in 0..(m + 1), \A i \in 1..n : s[i] \in some
                   PROVE  n <= Len(y) /\ \A i \in 1..n : y[i] = s[i]
        OBVIOUS
      <4>1. CASE n \in 0..m
        <5>1. n <= Len(x) /\ \A i \in 1..n : x[i] = s[i]
          BY <2>1, <4>1
        <5> QED
          BY <3>1, <5>1
      <4>2. CASE n = m + 1
        <5>1. \A i \in 1..m : s[i] \in some
          BY <4>2
        <5>2. m <= Len(x) /\ \A i \in 1..m : x[i] = s[i]
          <6>1. m \in 0..m /\ First(m, x)
            BY <2>1
          <6> QED
            BY <5>1, <6>1
        <5>3. Len(x) = m /\ Len(y) = m + 1 /\ y[m + 1] = e
          BY <3>1, <3>2, <5>2
        <5>4. \A i \in 1..n : y[i] = s[i]
          <6> SUFFICES ASSUME NEW i \in 1..n PROVE y[i] = s[i]
            OBVIOUS
          <6>1. CASE i = m + 1
            BY <5>3, <6>1
          <6>2. CASE i # m + 1
            BY <3>1, <4>2, <5>2, <5>3, <6>2
          <6> QED
            BY <6>1, <6>2
        <5> QED
          BY <4>2, <5>3, <5>4
      <4> QED
        BY <4>1, <4>2
    <3> QED
      BY <3>1, <3>2, <3>3, <3>4, <3>5
  <2>4. CASE e \notin some
    <3>1. y = x /\ Len(x) <= m /\ Len(x) \in Nat
      BY <2>1, <2>2, <2>4
    <3>2. From(m + 1, y)
      <4> SUFFICES ASSUME NEW i \in 1..Len(x)
                   PROVE  \E j \in i..(m + 1) : s[j] \in some /\ x[i] = s[j]
        BY <3>1
      <4>1. PICK j \in i..m : s[j] \in some /\ x[i] = s[j]
        BY <2>1
      <4> QED
        BY <4>1
    <3>3. Takes(m + 1, y)
      <4> SUFFICES ASSUME NEW j \in 1..(m + 1), s[j] \in some
                   PROVE  \E i \in 1..Len(x) : i <= j /\ x[i] = s[j]
        BY <3>1
      <4>1. j \in 1..m
        BY <2>4
      <4> QED
        BY <2>1, <4>1
    <3>4. First(m + 1, y)
      <4> SUFFICES ASSUME NEW n \in 0..(m + 1), \A i \in 1..n : s[i] \in some
                   PROVE  n <= Len(x) /\ \A i \in 1..n : x[i] = s[i]
        BY <3>1
      <4>1. n \in 0..m
        BY <2>4
      <4> QED
        BY <2>1, <4>1
    <3> QED
      BY <3>1, <3>2, <3>3, <3>4
  <2> QED
    BY <2>3, <2>4
<1> HIDE DEF P
<1> DEFINE T == {m \in Nat : m <= N => P(m, f[m])}
<1>5. 0 \in T
  BY <1>1, <1>3
<1>6. ASSUME NEW m \in Nat, m \in T
      PROVE  m + 1 \in T
  <2> SUFFICES ASSUME m + 1 <= N PROVE P(m + 1, f[m + 1])
    OBVIOUS
  <2>1. m \in 0..N /\ m + 1 \in 0..N /\ m + 1 \in 1..N /\ (m + 1) - 1 = m /\ P(m, f[m])
    BY <1>2, <1>6
  <2>2. f[m] \in Seq(S) /\ f[m + 1] \in Seq(S)
    BY <1>1, <2>1
  <2>3. f[m + 1] = IF s[m + 1] \in some THEN Append(f[m], s[m + 1]) ELSE f[m]
    BY <1>1, <2>1
  <2> QED
    BY <1>4, <2>1, <2>2, <2>3
<1>7. P(N, f[N])
  <2>1. \A m \in Nat : m \in T => m + 1 \in T
    BY <1>6
  <2> HIDE DEF T
  <2>2. Nat \subseteq T
    BY <1>5, <2>1, EveryNatural
  <2> QED
    BY <1>2, <2>2 DEF T
<1>8. f[N] \in Seq(S)
  BY <1>1, <1>2
<1> QED
  BY <1>1, <1>7, <1>8 DEF P

\* A longer list is filtered like the shorter one, and then its last element.
LEMMA AmongAppend ==
    ASSUME NEW V, NEW s \in Seq(V), NEW e \in V, NEW some
    PROVE  Among(Append(s, e), some) =
             IF e \in some THEN Append(Among(s, some), e) ELSE Among(s, some)
<1> DEFINE N == Len(s)
           t == Append(s, e)
<1>1. t \in Seq(V) /\ Len(t) = N + 1 /\ N \in Nat /\ t[N + 1] = e /\ \A n \in 1..N : t[n] = s[n]
  OBVIOUS
<1> HIDE DEF t
<1>2. PICK f : Filters(f, V, s, some)
  BY AmongIterates
<1>3. PICK g : Filters(g, V, t, some)
  BY <1>1, AmongIterates
<1>4. /\ f[0] = <<>> /\ Among(s, some) = f[N]
      /\ \A n \in 1..N : f[n] = IF s[n] \in some THEN Append(f[n - 1], s[n]) ELSE f[n - 1]
  BY <1>2 DEF Filters
<1>5. /\ g[0] = <<>> /\ Among(t, some) = g[N + 1]
      /\ \A n \in 1..(N + 1) : g[n] = IF t[n] \in some THEN Append(g[n - 1], t[n]) ELSE g[n - 1]
  BY <1>1, <1>3 DEF Filters
<1> HIDE DEF N
<1> DEFINE T == {n \in Nat : n <= N => g[n] = f[n]}
<1>6. 0 \in T
  BY <1>4, <1>5
<1>7. ASSUME NEW n \in Nat, n \in T, n + 1 <= N PROVE g[n + 1] = f[n + 1]
  <2>1. n + 1 \in 1..N /\ n + 1 \in 1..(N + 1) /\ (n + 1) - 1 = n /\ g[n] = f[n]
    BY <1>1, <1>7
  <2>2. f[n + 1] = IF s[n + 1] \in some THEN Append(f[n], s[n + 1]) ELSE f[n]
    BY <1>4, <2>1
  <2>3. g[n + 1] = IF t[n + 1] \in some THEN Append(g[n], t[n + 1]) ELSE g[n]
    BY <1>5, <2>1
  <2> QED
    BY <1>1, <2>1, <2>2, <2>3
<1>8. Nat \subseteq T
  <2>1. \A n \in Nat : n \in T => n + 1 \in T
    BY <1>7
  <2> HIDE DEF T
  <2> QED
    BY <1>6, <2>1, EveryNatural
<1>9. g[N] = f[N]
  BY <1>1, <1>8
<1>10. N + 1 \in 1..(N + 1) /\ (N + 1) - 1 = N
  BY <1>1
<1>11. g[N + 1] = IF e \in some THEN Append(g[N], e) ELSE g[N]
  BY <1>1, <1>5, <1>10
<1> QED
  BY <1>4, <1>5, <1>9, <1>11 DEF t

\* Where the elements of a filtered list stood: each in its place, none in two, none left out.
Picks(at, kept, s, some) ==
    /\ at \in [1..Len(kept) -> 1..Len(s)]
    /\ \A i \in 1..Len(kept) : kept[i] = s[at[i]] /\ s[at[i]] \in some
    /\ \A i, j \in 1..Len(kept) : i < j => at[i] < at[j]
    /\ \A n \in 1..Len(s) : s[n] \in some => \E i \in 1..Len(kept) : at[i] = n

LEMMA AmongPicks ==
    ASSUME NEW V, NEW s \in Seq(V), NEW some
    PROVE  /\ Among(s, some) \in Seq(V)
           /\ \E at : Picks(at, Among(s, some), s, some)
<1> DEFINE N == Len(s)
           Up(at, m, x) ==
             /\ at \in [1..Len(x) -> 1..m]
             /\ \A i \in 1..Len(x) : x[i] = s[at[i]] /\ s[at[i]] \in some
             /\ \A i, j \in 1..Len(x) : i < j => at[i] < at[j]
             /\ \A n \in 1..m : s[n] \in some => \E i \in 1..Len(x) : at[i] = n
           P(m, x) == \E at : Up(at, m, x)
<1>0. PICK f : Filters(f, V, s, some)
  BY AmongIterates
<1>1. /\ f \in [0..N -> Seq(V)]
      /\ f[0] = <<>> /\ Among(s, some) = f[N]
      /\ \A n \in 1..N : f[n] = IF s[n] \in some THEN Append(f[n - 1], s[n]) ELSE f[n - 1]
  BY <1>0 DEF Filters
<1>2. N \in Nat /\ \A n \in 1..N : s[n] \in V
  OBVIOUS
<1>3. P(0, <<>>)
  <2>1. Up(<<>>, 0, <<>>)
    OBVIOUS
  <2> QED
    BY <2>1
<1>4. ASSUME NEW m \in Nat, m + 1 <= N, NEW x \in Seq(V), NEW y \in Seq(V), P(m, x),
             y = IF s[m + 1] \in some THEN Append(x, s[m + 1]) ELSE x
      PROVE  P(m + 1, y)
  <2>1. PICK at : Up(at, m, x)
    BY <1>4
  <2>2. CASE s[m + 1] \notin some
    <3>1. y = x
      BY <1>4, <2>2
    <3>2. Up(at, m + 1, y)
      BY <2>1, <2>2, <3>1
    <3> QED
      BY <3>2
  <2>3. CASE s[m + 1] \in some
    <3> DEFINE k == Len(x) + 1
               to == [i \in 1..k |-> IF i = k THEN m + 1 ELSE at[i]]
    <3>1. /\ Len(y) = k /\ k \in Nat /\ y[k] = s[m + 1] /\ \A i \in 1..(k - 1) : y[i] = x[i]
          /\ s[m + 1] \in V
      BY <1>2, <1>4, <2>3
    <3>2. k \in 1..k /\ to[k] = m + 1
      BY <3>1
    <3>3. \A i \in 1..(k - 1) : to[i] = at[i] /\ at[i] \in 1..m /\ x[i] = s[at[i]] /\ s[at[i]] \in some
      BY <2>1, <3>1
    <3>4. to \in [1..k -> 1..(m + 1)]
      <4> SUFFICES ASSUME NEW i \in 1..k PROVE to[i] \in 1..(m + 1)
        OBVIOUS
      <4>1. CASE i = k
        BY <3>2, <4>1
      <4>2. CASE i # k
        <5>1. i \in 1..(k - 1)
          BY <3>1, <4>2
        <5>2. to[i] = at[i] /\ at[i] \in 1..m
          BY <3>3, <5>1
        <5> HIDE DEF to
        <5> QED
          BY <5>2
      <4> QED
        BY <4>1, <4>2
    <3> HIDE DEF to
    <3>5. \A i \in 1..k : y[i] = s[to[i]] /\ s[to[i]] \in some
      <4> SUFFICES ASSUME NEW i \in 1..k PROVE y[i] = s[to[i]] /\ s[to[i]] \in some
        OBVIOUS
      <4>1. CASE i = k
        BY <2>3, <3>1, <3>2, <4>1
      <4>2. CASE i # k
        <5>1. i \in 1..(k - 1)
          BY <3>1, <4>2
        <5> QED
          BY <3>1, <3>3, <5>1
      <4> QED
        BY <4>1, <4>2
    <3>6. \A i, j \in 1..k : i < j => to[i] < to[j]
      <4> SUFFICES ASSUME NEW i \in 1..k, NEW j \in 1..k, i < j PROVE to[i] < to[j]
        OBVIOUS
      <4>1. i \in 1..(k - 1)
        BY <3>1
      <4>2. to[i] = at[i] /\ at[i] \in 1..m
        BY <3>3, <4>1
      <4>3. CASE j = k
        BY <3>2, <4>2, <4>3
      <4>4. CASE j # k
        <5>1. j \in 1..(k - 1) /\ i \in 1..Len(x) /\ j \in 1..Len(x)
          BY <3>1, <4>4
        <5>2. at[i] < at[j]
          BY <2>1, <5>1
        <5> QED
          BY <3>3, <4>2, <5>1, <5>2
      <4> QED
        BY <4>3, <4>4
    <3>7. \A n \in 1..(m + 1) : s[n] \in some => \E i \in 1..k : to[i] = n
      <4> SUFFICES ASSUME NEW n \in 1..(m + 1), s[n] \in some PROVE \E i \in 1..k : to[i] = n
        OBVIOUS
      <4>1. CASE n = m + 1
        BY <3>2, <4>1
      <4>2. CASE n # m + 1
        <5>1. n \in 1..m
          BY <4>2
        <5>2. PICK i \in 1..Len(x) : at[i] = n
          BY <2>1, <5>1
        <5>3. i \in 1..(k - 1) /\ i \in 1..k
          BY <3>1
        <5> QED
          BY <3>3, <5>2, <5>3
      <4> QED
        BY <4>1, <4>2
    <3>8. Up(to, m + 1, y)
      BY <3>1, <3>4, <3>5, <3>6, <3>7
    <3> QED
      BY <3>8
  <2> QED
    BY <2>2, <2>3
<1> HIDE DEF P
<1> DEFINE T == {m \in Nat : m <= N => P(m, f[m])}
<1>5. 0 \in T
  BY <1>1, <1>3
<1>6. ASSUME NEW m \in Nat, m \in T
      PROVE  m + 1 \in T
  <2> SUFFICES ASSUME m + 1 <= N PROVE P(m + 1, f[m + 1])
    OBVIOUS
  <2>1. m \in 0..N /\ m + 1 \in 0..N /\ m + 1 \in 1..N /\ (m + 1) - 1 = m /\ P(m, f[m])
    BY <1>2, <1>6
  <2>2. f[m] \in Seq(V) /\ f[m + 1] \in Seq(V)
    BY <1>1, <2>1
  <2>3. f[m + 1] = IF s[m + 1] \in some THEN Append(f[m], s[m + 1]) ELSE f[m]
    BY <1>1, <2>1
  <2> QED
    BY <1>4, <2>1, <2>2, <2>3
<1>7. P(N, f[N])
  <2>1. \A m \in Nat : m \in T => m + 1 \in T
    BY <1>6
  <2> HIDE DEF T
  <2>2. Nat \subseteq T
    BY <1>5, <2>1, EveryNatural
  <2> QED
    BY <1>2, <2>2 DEF T
<1>8. f[N] \in Seq(V)
  BY <1>1, <1>2
<1>9. PICK at : Up(at, N, f[N])
  BY <1>7 DEF P
<1>10. Picks(at, Among(s, some), s, some)
  BY <1>1, <1>9 DEF Picks
<1> QED
  BY <1>1, <1>8, <1>10

\* A list without its repetitions has the same elements, each once.
LEMMA OnceIs ==
    ASSUME NEW V, NEW s \in Seq(V)
    PROVE  /\ Once(s) \in Seq(V)
           /\ \A i, j \in 1..Len(Once(s)) : Once(s)[i] = Once(s)[j] => i = j
           /\ \A i \in 1..Len(Once(s)) : \E n \in 1..Len(s) : Once(s)[i] = s[n]
           /\ \A n \in 1..Len(s) : \E i \in 1..Len(Once(s)) : Once(s)[i] = s[n]
<1> DEFINE N == Len(s)
           places == [i \in 1..N |-> i]
           heads == {i \in 1..N : \A j \in 1..(i - 1) : s[j] # s[i]}
           first == Among(places, heads)
           K == Len(first)
<1>1. N \in Nat /\ \A n \in 1..N : s[n] \in V
  OBVIOUS
<1>2. places \in Seq(1..N) /\ Len(places) = N /\ \A i \in 1..N : places[i] = i
  BY <1>1
<1>3. Once(s) = [k \in 1..K |-> s[first[k]]]
  BY DEF Once
<1>4. heads \subseteq 1..N
  OBVIOUS
<1>5. \A i \in heads : \A j \in 1..(i - 1) : s[j] # s[i]
  OBVIOUS
<1>6. ASSUME NEW n \in 1..N PROVE \E i \in heads : s[i] = s[n]
  <2> DEFINE T == {i \in 1..N : s[i] = s[n]}
  <2>1. T \subseteq Nat /\ T # {}
    OBVIOUS
  <2>2. PICK i \in T : \A y \in T : i <= y
    <3> HIDE DEF T
    <3> QED
      BY <2>1, LeastNatural
  <2>3. \A j \in 1..(i - 1) : s[j] # s[i]
    <3> SUFFICES ASSUME NEW j \in 1..(i - 1), s[j] = s[i] PROVE FALSE
      OBVIOUS
    <3>1. i \in 1..N /\ s[i] = s[n]
      OBVIOUS
    <3>2. j \in T /\ j < i
      BY <1>1, <3>1
    <3>3. i <= j
      BY <2>2, <3>2
    <3> QED
      BY <3>1, <3>2, <3>3
  <2> QED
    BY <2>3
<1> HIDE DEF places, heads
<1>7. first \in Seq(1..N) /\ \E at : Picks(at, first, places, heads)
  BY <1>2, AmongPicks
<1>8. PICK at : Picks(at, first, places, heads)
  BY <1>7
<1> HIDE DEF first
<1>9. K \in Nat
  BY <1>7
<1>10. /\ \A i \in 1..K : first[i] \in heads /\ first[i] \in 1..N
       /\ \A i, j \in 1..K : i < j => first[i] < first[j]
       /\ \A n \in heads : \E i \in 1..K : first[i] = n
  <2>1. \A i \in 1..K : at[i] \in 1..N /\ first[i] = at[i] /\ at[i] \in heads
    BY <1>2, <1>8 DEF Picks
  <2>2. \A i, j \in 1..K : i < j => at[i] < at[j]
    BY <1>8 DEF Picks
  <2>3. \A n \in heads : \E i \in 1..K : at[i] = n
    BY <1>2, <1>4, <1>8 DEF Picks
  <2> QED
    BY <2>1, <2>2, <2>3
<1> HIDE DEF K, N
<1>11. \A k \in 1..K : s[first[k]] \in V
  BY <1>1, <1>10
<1>12. /\ Once(s) \in Seq(V) /\ Len(Once(s)) = K
       /\ \A k \in 1..K : Once(s)[k] = s[first[k]]
  BY <1>3, <1>9, <1>11
<1>13. \A i, j \in 1..K : s[first[i]] = s[first[j]] => i = j
  <2> SUFFICES ASSUME NEW i \in 1..K, NEW j \in 1..K, s[first[i]] = s[first[j]], i < j
               PROVE  FALSE
    BY <1>9
  <2>1. first[i] \in 1..(first[j] - 1)
    BY <1>1, <1>10
  <2> QED
    BY <1>5, <1>10, <2>1
<1>14. \A n \in 1..N : \E i \in 1..K : s[first[i]] = s[n]
  BY <1>6, <1>10
<1>15. \A i, j \in 1..Len(Once(s)) : Once(s)[i] = Once(s)[j] => i = j
  BY <1>12, <1>13
<1>16. \A i \in 1..Len(Once(s)) : \E n \in 1..N : Once(s)[i] = s[n]
  BY <1>10, <1>12
<1>17. \A n \in 1..N : \E i \in 1..Len(Once(s)) : Once(s)[i] = s[n]
  BY <1>12, <1>14
<1> QED
  BY <1>12, <1>15, <1>16, <1>17 DEF N

\* Lists behind one another have the elements of each.
LEMMA JoinedIs ==
    ASSUME NEW V, NEW lists \in Seq(Seq(V))
    PROVE  /\ Joined(lists) \in Seq(V)
           /\ \A n \in 1..Len(lists) : \A i \in 1..Len(lists[n]) :
                \E k \in 1..Len(Joined(lists)) : Joined(lists)[k] = lists[n][i]
<1> DEFINE N == Len(lists)
           Q == Seq(V)
           none == <<>>
           After(n, x) == x \o lists[n]
           g == [n \in 1..N |-> [x \in Q |-> After(n, x)]]
<1>1. N \in Nat /\ none \in Q /\ \A n \in 1..N : lists[n] \in Q
  OBVIOUS
<1>2. \A n \in 1..N, x \in Q : After(n, x) \in Q
  BY <1>1
<1> HIDE DEF N, After, Q, none
<1>3. g \in [1..N -> [Q -> Q]]
  BY <1>2
<1>4. PICK f \in [0..N -> Q] : f[0] = none /\ \A n \in 1..N : f[n] = g[n][f[n - 1]]
  <2> HIDE DEF g
  <2>1. Steps(g, N, Q, none)
    BY <1>1, <1>3 DEF Steps
  <2> QED
    BY <2>1, StepsIterate
<1>5. \A n \in 1..N : f[n] = After(n, f[n - 1])
  <2>1. \A n \in 1..N : n - 1 \in 0..N
    BY <1>1
  <2> QED
    BY <1>4, <2>1
<1>6. f = [n \in 0..N |-> IF n = 0 THEN none ELSE After(n, f[n - 1])]
  <2>1. \A n \in 0..N : f[n] = IF n = 0 THEN none ELSE After(n, f[n - 1])
    BY <1>1, <1>4, <1>5
  <2> QED
    BY <2>1
<1> DEFINE upTo[n \in 0..N] == IF n = 0 THEN none ELSE After(n, upTo[n - 1])
<1>7. Joined(lists) = upTo[N]
  BY Zenon DEF Joined, N, After, none
<1>8. upTo = [n \in 0..N |-> IF n = 0 THEN none ELSE After(n, upTo[n - 1])]
  BY <1>6, Zenon
<1> HIDE DEF upTo
<1>9. upTo[0] = none /\ \A n \in 1..N : upTo[n] = After(n, upTo[n - 1])
  <2>1. \A n \in 0..N : upTo[n] = IF n = 0 THEN none ELSE After(n, upTo[n - 1])
    BY <1>8, Zenon
  <2> QED
    BY <1>1, <2>1
<1> DEFINE Has(m, x) == \A n \in 1..m : \A i \in 1..Len(lists[n]) :
                          \E k \in 1..Len(x) : x[k] = lists[n][i]
           T == {m \in Nat : m <= N => upTo[m] \in Q /\ Has(m, upTo[m])}
<1>10. 0 \in T
  BY <1>1, <1>9
<1>11. ASSUME NEW m \in Nat, m + 1 <= N, NEW x \in Q, Has(m, x)
       PROVE  Has(m + 1, After(m + 1, x))
  <2> DEFINE y == lists[m + 1]
  <2>1. x \in Seq(V) /\ y \in Seq(V) /\ After(m + 1, x) = x \o y
    BY <1>1, <1>11 DEF After, Q
  <2> HIDE DEF y
  <2>2. /\ Len(x \o y) = Len(x) + Len(y) /\ Len(x) \in Nat /\ Len(y) \in Nat
        /\ \A k \in 1..Len(x) : (x \o y)[k] = x[k]
        /\ \A i \in 1..Len(y) : (x \o y)[Len(x) + i] = y[i]
    BY <2>1
  <2> DEFINE z == x \o y
  <2> HIDE DEF z
  <2>3. ASSUME NEW n \in 1..(m + 1), NEW i \in 1..Len(lists[n])
        PROVE  \E k \in 1..Len(z) : z[k] = lists[n][i]
    <3>1. CASE n = m + 1
      <4>1. i \in 1..Len(y) /\ y[i] = lists[n][i]
        BY <3>1 DEF y
      <4>2. Len(x) + i \in 1..Len(z) /\ z[Len(x) + i] = y[i]
        BY <2>2, <4>1 DEF z
      <4> QED
        BY <4>1, <4>2
    <3>2. CASE n # m + 1
      <4>1. n \in 1..m
        BY <3>2
      <4>2. PICK k \in 1..Len(x) : x[k] = lists[n][i]
        BY <1>11, <4>1
      <4>3. k \in 1..Len(z) /\ z[k] = x[k]
        BY <2>2 DEF z
      <4> QED
        BY <4>2, <4>3
    <3> QED
      BY <3>1, <3>2
  <2>4. Has(m + 1, z)
    BY <2>3
  <2> HIDE DEF Has
  <2> QED
    BY <2>1, <2>4 DEF z
<1>12. ASSUME NEW m \in Nat, m \in T
       PROVE  m + 1 \in T
  <2> SUFFICES ASSUME m + 1 <= N PROVE upTo[m + 1] \in Q /\ Has(m + 1, upTo[m + 1])
    OBVIOUS
  <2>1. m + 1 \in 1..N /\ (m + 1) - 1 = m /\ upTo[m] \in Q /\ Has(m, upTo[m])
    BY <1>1, <1>12
  <2>2. upTo[m + 1] = After(m + 1, upTo[m])
    BY <1>9, <2>1
  <2> HIDE DEF Has
  <2> QED
    BY <1>2, <1>11, <2>1, <2>2
<1>13. upTo[N] \in Q /\ Has(N, upTo[N])
  <2>1. \A m \in Nat : m \in T => m + 1 \in T
    BY <1>12
  <2> HIDE DEF T
  <2>2. Nat \subseteq T
    BY <1>10, <2>1, EveryNatural
  <2> QED
    BY <1>1, <2>2 DEF T
<1> QED
  BY <1>7, <1>13 DEF N, Q

\* sorted() moves each element to a place of its own, the smaller key first, and two of the
\* same key in their order.
Sorts(at, sorted, s, key) ==
    /\ at \in [1..Len(s) -> 1..Len(s)]
    /\ \A k \in 1..Len(s) : sorted[k] = s[at[k]]
    /\ \A i \in 1..Len(s) : \E k \in 1..Len(s) : at[k] = i
    /\ \A k, l \in 1..Len(s) : k < l =>
         key[at[k]] < key[at[l]] \/ (key[at[k]] = key[at[l]] /\ at[k] < at[l])

LEMMA SortedIs ==
    ASSUME NEW V, NEW s \in Seq(V), NEW key \in [1..Len(s) -> Int]
    PROVE  /\ SortedBy(s, key) \in Seq(V) /\ Len(SortedBy(s, key)) = Len(s)
           /\ \E at : Sorts(at, SortedBy(s, key), s, key)
<1> DEFINE N == Len(s)
           D == 1..N
           Below(i) == {j \in D : key[j] < key[i] \/ (key[j] = key[i] /\ j < i)}
           place == [i \in D |-> Place(key, i)]
           at == [k \in D |-> CHOOSE i \in D : place[i] = k]
<1>1. N \in Nat /\ (\A n \in D : s[n] \in V) /\ \A i \in D : key[i] \in Int /\ i \in Nat
  <2>1. N \in Nat /\ \A n \in 1..N : s[n] \in V
    OBVIOUS
  <2>2. \A i \in 1..N : key[i] \in Int /\ i \in Nat
    OBVIOUS
  <2> QED
    BY <2>1, <2>2
<1>2. IsFiniteSet(D) /\ Cardinality(D) = N
  <2>1. 1 \in Int /\ N \in Int /\ N \in Nat
    BY <1>1
  <2>2. Cardinality(1..N) = (IF 1 > N THEN 0 ELSE N - 1 + 1) /\ IsFiniteSet(1..N)
    BY <2>1, FS_Interval
  <2> QED
    BY <2>1, <2>2
<1>3. \A i \in D : Place(key, i) = 1 + Cardinality(Below(i))
  BY DEF Place
<1>4. ASSUME NEW i \in D
      PROVE  IsFiniteSet(Below(i)) /\ Cardinality(Below(i)) \in Nat /\ Cardinality(Below(i)) < N
  <2>1. Below(i) \in SUBSET D /\ i \notin Below(i)
    BY <1>1
  <2>2. IsFiniteSet(Below(i)) /\ Cardinality(Below(i)) <= Cardinality(D)
        /\ (Cardinality(D) = Cardinality(Below(i)) => D = Below(i))
    <3> HIDE DEF Below
    <3> QED
      BY <1>2, <2>1, FS_Subset
  <2>3. Cardinality(Below(i)) \in Nat
    BY <2>2, FS_CardinalityType
  <2>4. D # Below(i)
    BY <2>1
  <2> HIDE DEF Below, D, N
  <2> QED
    BY <1>1, <1>2, <2>2, <2>3, <2>4
<1>5. ASSUME NEW i \in D, NEW j \in Below(i)
      PROVE  Cardinality(Below(j)) < Cardinality(Below(i))
  <2>1. j \in D
    OBVIOUS
  <2>2. Below(j) \in SUBSET Below(i)
    BY <1>1, <2>1
  <2>3. j \notin Below(j)
    BY <1>1, <2>1
  <2>4. Below(j) # Below(i)
    BY <2>3
  <2>5. IsFiniteSet(Below(i))
    BY <1>4
  <2> DEFINE A == Below(i)
             B == Below(j)
  <2>6. B \in SUBSET A /\ B # A /\ IsFiniteSet(A)
    BY <2>2, <2>4, <2>5
  <2>7. Cardinality(A) \in Nat /\ Cardinality(B) \in Nat
    BY <1>4, <2>1
  <2> HIDE DEF A, B
  <2>8. Cardinality(B) <= Cardinality(A) /\ (Cardinality(A) = Cardinality(B) => A = B)
    BY <2>6, FS_Subset
  <2>9. Cardinality(B) < Cardinality(A)
    BY <2>6, <2>7, <2>8
  <2> QED
    BY <2>9 DEF A, B
<1>6. \A i, j \in D : i # j => j \in Below(i) \/ i \in Below(j)
  BY <1>1
<1>7. \A i \in D : \A j \in Below(i) : key[j] < key[i] \/ (key[j] = key[i] /\ j < i)
  OBVIOUS
<1> HIDE DEF Below
<1>8. \A i \in D : Place(key, i) \in D
  BY <1>1, <1>3, <1>4
<1>9. \A i \in D : \A j \in Below(i) : Place(key, j) < Place(key, i)
  <2> SUFFICES ASSUME NEW i \in D, NEW j \in Below(i) PROVE Place(key, j) < Place(key, i)
    OBVIOUS
  <2>1. j \in D
    BY DEF Below
  <2>2. Cardinality(Below(j)) < Cardinality(Below(i))
    BY <1>5
  <2> QED
    BY <1>3, <1>4, <2>1, <2>2
<1>10. \A i, j \in D : Place(key, i) = Place(key, j) => i = j
  <2> SUFFICES ASSUME NEW i \in D, NEW j \in D, Place(key, i) = Place(key, j), i # j PROVE FALSE
    OBVIOUS
  <2>1. Place(key, i) \in Nat
    BY <1>1, <1>8
  <2>2. Place(key, i) < Place(key, j) \/ Place(key, j) < Place(key, i)
    BY <1>6, <1>9
  <2> QED
    BY <2>1, <2>2
<1>11. place \in Injection(D, D)
  <2>1. place \in [D -> D] /\ \A i \in D : place[i] = Place(key, i)
    BY <1>8
  <2> HIDE DEF place, D
  <2> QED
    BY <1>10, <2>1 DEF Injection, IsInjective
<1>12. place \in Surjection(D, D)
  <2> HIDE DEF place, D
  <2> QED
    BY <1>2, <1>11, FS_Injection
<1>13. \A k \in D : \E i \in D : Place(key, i) = k
  BY <1>12 DEF Surjection
<1>14. \A k \in D : at[k] \in D /\ Place(key, at[k]) = k
  BY <1>13
<1>15. SortedBy(s, key) = [k \in D |-> s[at[k]]]
  BY DEF SortedBy
<1> HIDE DEF at
<1>16. \A k \in D : s[at[k]] \in V
  BY <1>1, <1>14
<1>17. /\ SortedBy(s, key) \in Seq(V) /\ Len(SortedBy(s, key)) = N
       /\ \A k \in D : SortedBy(s, key)[k] = s[at[k]]
  BY <1>1, <1>15, <1>16
<1>18. \A i \in D : \E k \in D : at[k] = i
  <2> SUFFICES ASSUME NEW i \in D PROVE at[Place(key, i)] = i
    BY <1>8
  <2>1. Place(key, i) \in D
    BY <1>8
  <2>2. at[Place(key, i)] \in D /\ Place(key, at[Place(key, i)]) = Place(key, i)
    BY <1>14, <2>1
  <2> QED
    BY <1>10, <2>2
<1>19. \A k, l \in D : k < l =>
         key[at[k]] < key[at[l]] \/ (key[at[k]] = key[at[l]] /\ at[k] < at[l])
  <2> SUFFICES ASSUME NEW k \in D, NEW l \in D, k < l PROVE at[k] \in Below(at[l])
    BY <1>7, <1>14
  <2>1. at[k] \in D /\ at[l] \in D /\ Place(key, at[k]) = k /\ Place(key, at[l]) = l
    BY <1>14
  <2>2. at[k] # at[l]
    BY <2>1
  <2>3. CASE at[l] \in Below(at[k])
    <3>1. l < k
      BY <1>9, <2>1, <2>3
    <3> QED
      BY <1>1, <3>1
  <2> QED
    BY <1>6, <2>1, <2>2, <2>3
<1>20. at \in [D -> D]
  BY <1>14 DEF at
<1>21. Sorts(at, SortedBy(s, key), s, key)
  BY <1>17, <1>18, <1>19, <1>20 DEF Sorts
<1> QED
  BY <1>17, <1>21

\* A filtered list has the elements of the list that are to be kept.
LEMMA AmongHas ==
    ASSUME NEW V, NEW s \in Seq(V), NEW some, NEW x
    PROVE  (\E i \in 1..Len(Among(s, some)) : Among(s, some)[i] = x)
             <=> x \in some /\ \E j \in 1..Len(s) : s[j] = x
<1>1. PICK at : Picks(at, Among(s, some), s, some)
  BY AmongPicks
<1> DEFINE kept == Among(s, some)
<1> HIDE DEF kept
<1>2. /\ at \in [1..Len(kept) -> 1..Len(s)]
      /\ \A i \in 1..Len(kept) : kept[i] = s[at[i]] /\ s[at[i]] \in some
      /\ \A n \in 1..Len(s) : s[n] \in some => \E i \in 1..Len(kept) : at[i] = n
  BY <1>1 DEF Picks, kept
<1>3. ASSUME NEW i \in 1..Len(kept), kept[i] = x PROVE x \in some /\ \E j \in 1..Len(s) : s[j] = x
  BY <1>2, <1>3
<1>4. ASSUME NEW j \in 1..Len(s), s[j] = x, x \in some PROVE \E i \in 1..Len(kept) : kept[i] = x
  BY <1>2, <1>4
<1> QED
  BY <1>3, <1>4 DEF kept
\* There is one way to pick what is to be kept: a list filtered is the list of the picks.
LEMMA PicksAgree ==
    ASSUME NEW V, NEW s \in Seq(V), NEW some, NEW x \in Seq(V), NEW y \in Seq(V),
           NEW at, NEW bt, Picks(at, x, s, some), Picks(bt, y, s, some)
    PROVE  Len(x) <= Len(y) /\ \A i \in 1..Len(x) : x[i] = y[i]
<1> DEFINE m == Len(x)
           n == Len(y)
           N == Len(s)
<1>1. /\ m \in Nat /\ n \in Nat /\ N \in Nat
      /\ at \in [1..m -> 1..N] /\ bt \in [1..n -> 1..N]
      /\ \A i \in 1..m : x[i] = s[at[i]] /\ s[at[i]] \in some
      /\ \A i \in 1..n : y[i] = s[bt[i]] /\ s[bt[i]] \in some
      /\ \A i, j \in 1..m : i < j => at[i] < at[j]
      /\ \A i, j \in 1..n : i < j => bt[i] < bt[j]
      /\ \A k \in 1..N : s[k] \in some => \E i \in 1..m : at[i] = k
      /\ \A k \in 1..N : s[k] \in some => \E i \in 1..n : bt[i] = k
  BY DEF Picks
<1> HIDE DEF m, n, N
<1>2. /\ \A i \in 1..m : at[i] \in 1..N /\ at[i] \in Int
      /\ \A i \in 1..n : bt[i] \in 1..N /\ bt[i] \in Int
  BY <1>1
<1> DEFINE Off == {i \in 1..m : i > n \/ at[i] # bt[i]}
<1>3. Off = {}
  <2> SUFFICES ASSUME Off # {} PROVE FALSE
    OBVIOUS
  <2>1. PICK i \in Off : \A j \in Off : i <= j
    <3>1. Off \subseteq Nat
      BY <1>1
    <3> HIDE DEF Off
    <3> QED
      BY <3>1, LeastNatural
  <2>2. i \in 1..m /\ i \in Nat
    BY <1>1
  <2>3. \A j \in 1..(i - 1) : j \in 1..m /\ j \in 1..n /\ at[j] = bt[j]
    <3> SUFFICES ASSUME NEW j \in 1..(i - 1) PROVE j \in 1..m /\ j \in 1..n /\ at[j] = bt[j]
      OBVIOUS
    <3>1. j \in 1..m /\ j < i /\ j \in Nat
      BY <1>1, <2>2
    <3>2. j \notin Off
      BY <2>1, <2>2, <3>1
    <3> QED
      BY <1>1, <3>1, <3>2
  <2>4. PICK j \in 1..n : bt[j] = at[i]
    BY <1>1, <1>2, <2>2
  <2>5. j \in Nat /\ ~(j < i)
    <3> SUFFICES ASSUME j < i PROVE FALSE
      BY <1>1
    <3>1. j \in 1..(i - 1)
      BY <2>2
    <3>2. at[j] = at[i] /\ j \in 1..m
      BY <2>3, <2>4, <3>1
    <3>3. at[j] < at[i]
      BY <1>1, <2>2, <3>2
    <3> QED
      BY <1>2, <2>2, <3>2, <3>3
  <2>6. i \in 1..n
    BY <1>1, <2>2, <2>5
  <2>7. at[i] # bt[i]
    BY <1>1, <2>1, <2>6
  <2>8. i < j
    BY <2>2, <2>4, <2>5, <2>7
  <2>9. bt[i] < at[i]
    BY <1>1, <2>4, <2>6, <2>8
  <2>10. PICK k \in 1..m : at[k] = bt[i]
    BY <1>1, <1>2, <2>6
  <2>11. k < i
    <3> SUFFICES ASSUME ~(k < i) PROVE FALSE
      OBVIOUS
    <3>1. k = i \/ i < k
      BY <1>1, <2>2
    <3>2. k # i
      BY <2>7, <2>10
    <3>3. at[i] < at[k]
      BY <1>1, <2>2, <3>1, <3>2
    <3> QED
      BY <1>2, <2>2, <2>6, <2>9, <2>10, <3>3
  <2>12. k \in 1..(i - 1)
    BY <1>1, <2>2, <2>11
  <2>13. bt[k] = bt[i] /\ k \in 1..n
    BY <2>3, <2>10, <2>12
  <2>14. bt[k] < bt[i]
    BY <1>1, <2>6, <2>11, <2>13
  <2> QED
    BY <1>2, <2>6, <2>13, <2>14
<1>4. \A i \in 1..m : i \in 1..n /\ at[i] = bt[i]
  <2> SUFFICES ASSUME NEW i \in 1..m PROVE i \in 1..n /\ at[i] = bt[i]
    OBVIOUS
  <2>1. i \notin Off
    BY <1>3
  <2>2. ~(i > n) /\ at[i] = bt[i]
    BY <2>1
  <2> QED
    BY <1>1, <2>2
<1>5. m <= n
  BY <1>1, <1>4
<1>6. \A i \in 1..m : x[i] = y[i]
  BY <1>1, <1>4
<1> QED
  BY <1>5, <1>6 DEF m, n

LEMMA PicksSame ==
    ASSUME NEW V, NEW s \in Seq(V), NEW some, NEW x \in Seq(V), NEW y \in Seq(V),
           NEW at, NEW bt, Picks(at, x, s, some), Picks(bt, y, s, some)
    PROVE  x = y
<1>1. Len(x) <= Len(y) /\ \A i \in 1..Len(x) : x[i] = y[i]
  BY PicksAgree
<1>2. Len(y) <= Len(x)
  BY PicksAgree
<1> QED
  BY <1>1, <1>2

\* A strict order of a set, as the set of its pairs.
Orders(R, S) ==
    /\ \A p \in S : <<p, p>> \notin R
    /\ \A p, q \in S : p # q => <<p, q>> \in R \/ <<q, p>> \in R
    /\ \A p, q, r \in S : <<p, q>> \in R /\ <<q, r>> \in R => <<p, r>> \in R

\* The place of an element: how many come before it, and one.
PlaceIn(R, S, p) == 1 + Cardinality({q \in S : <<q, p>> \in R})

\* Every place of a finite set in order is someone's.
LEMMA PlacesTaken ==
    ASSUME NEW S, IsFiniteSet(S), NEW R, Orders(R, S)
    PROVE  \A k \in 1..Cardinality(S) : \E p \in S : PlaceIn(R, S, p) = k
<1> DEFINE N == Cardinality(S)
           Below(p) == {q \in S : <<q, p>> \in R}
           place == [p \in S |-> 1 + Cardinality(Below(p))]
<1>1. N \in Nat
  BY FS_CardinalityType
<1>2. ASSUME NEW p \in S
      PROVE  IsFiniteSet(Below(p)) /\ Cardinality(Below(p)) \in Nat /\ Cardinality(Below(p)) < N
  <2>1. Below(p) \in SUBSET S /\ p \notin Below(p)
    BY DEF Orders
  <2>2. IsFiniteSet(Below(p)) /\ Cardinality(Below(p)) <= Cardinality(S)
        /\ (Cardinality(S) = Cardinality(Below(p)) => S = Below(p))
    <3> HIDE DEF Below
    <3> QED
      BY <2>1, FS_Subset
  <2>3. Cardinality(Below(p)) \in Nat
    BY <2>2, FS_CardinalityType
  <2>4. S # Below(p)
    BY <2>1
  <2> HIDE DEF Below
  <2> QED
    BY <1>1, <2>2, <2>3, <2>4
<1>3. ASSUME NEW p \in S, NEW q \in Below(p)
      PROVE  Cardinality(Below(q)) < Cardinality(Below(p))
  <2> DEFINE A == Below(p)
             B == Below(q)
  <2>1. q \in S /\ <<q, p>> \in R
    OBVIOUS
  <2>2. \A r \in S : <<r, q>> \in R => <<r, p>> \in R
    BY <2>1 DEF Orders
  <2>3. B \in SUBSET A /\ q \in A /\ q \notin B
    BY <2>1, <2>2 DEF Orders
  <2>4. IsFiniteSet(A) /\ Cardinality(A) \in Nat /\ Cardinality(B) \in Nat
    BY <1>2, <2>1
  <2> HIDE DEF A, B
  <2>5. Cardinality(B) <= Cardinality(A) /\ (Cardinality(A) = Cardinality(B) => A = B)
    BY <2>3, <2>4, FS_Subset
  <2>6. Cardinality(B) < Cardinality(A)
    BY <2>3, <2>4, <2>5
  <2> QED
    BY <2>6 DEF A, B
<1>4. \A p, q \in S : p # q => q \in Below(p) \/ p \in Below(q)
  BY DEF Orders
<1> HIDE DEF Below
<1>5. ASSUME NEW p \in S, NEW q \in S, p # q PROVE place[p] # place[q]
  <2>1. Cardinality(Below(p)) \in Nat /\ Cardinality(Below(q)) \in Nat
    BY <1>2
  <2>2. Cardinality(Below(p)) < Cardinality(Below(q)) \/ Cardinality(Below(q)) < Cardinality(Below(p))
    BY <1>3, <1>4, <1>5
  <2> QED
    BY <2>1, <2>2
<1>6. place \in [S -> 1..N]
  BY <1>1, <1>2
<1>7. place \in Injection(S, 1..N)
  <2> HIDE DEF place
  <2> QED
    BY <1>5, <1>6 DEF Injection, IsInjective
<1>8. IsFiniteSet(1..N) /\ Cardinality(1..N) = N
  <2>1. 1 \in Int /\ N \in Int
    BY <1>1
  <2>2. IsFiniteSet(1..N) /\ Cardinality(1..N) = (IF 1 > N THEN 0 ELSE N - 1 + 1)
    BY <2>1, FS_Interval
  <2> QED
    BY <1>1, <2>2
<1>9. place \in Surjection(S, 1..N)
  <2> DEFINE T == 1..N
  <2>1. IsFiniteSet(T) /\ Cardinality(S) = Cardinality(T) /\ place \in Injection(S, T)
    BY <1>7, <1>8
  <2> HIDE DEF T, place
  <2>2. place \in Surjection(S, T)
    BY <2>1, FS_Injection
  <2> QED
    BY <2>2 DEF T
<1>10. \A k \in 1..N : \E p \in S : place[p] = k
  <2> HIDE DEF place
  <2> QED
    BY <1>9 DEF Surjection
<1> QED
  BY <1>10 DEF Below, PlaceIn

--------------------------------------------------------------------------------
(* Pointer files *)

\* A slice s[:n] is a prefix of s, no longer than n.
LEMMA FirstOfPrefix ==
    ASSUME NEW S, NEW s \in Seq(S), NEW n \in Nat
    PROVE  /\ FirstOf(s, n) \in Seq(S)
           /\ Len(FirstOf(s, n)) <= n
           /\ Len(FirstOf(s, n)) <= Len(s)
           /\ n < Len(s) => Len(FirstOf(s, n)) = n
           /\ n >= Len(s) => Len(FirstOf(s, n)) = Len(s)
           /\ \A i \in 1..Len(FirstOf(s, n)) : FirstOf(s, n)[i] = s[i]
<1> DEFINE m == IF n < Len(s) THEN n ELSE Len(s)
<1>1. m \in Nat /\ m <= Len(s) /\ m <= n
  OBVIOUS
<1>2. SubSeq(s, 1, m) \in Seq(S) /\ Len(SubSeq(s, 1, m)) = m
  BY <1>1
<1>3. \A i \in 1..m : SubSeq(s, 1, m)[i] = s[i]
  BY <1>1
<1>4. QED
  BY <1>1, <1>2, <1>3 DEF FirstOf

\* A slice of a distinct sequence is distinct and has no new entries.
LEMMA FirstOfDistinct ==
    ASSUME NEW S, NEW s \in Seq(S), NEW n \in Nat, Distinct(s)
    PROVE  /\ Distinct(FirstOf(s, n))
           /\ Entries(FirstOf(s, n)) \subseteq Entries(s)
<1>1. DOMAIN FirstOf(s, n) = 1..Len(FirstOf(s, n)) /\ DOMAIN s = 1..Len(s)
  BY FirstOfPrefix
<1>2. \A i \in DOMAIN FirstOf(s, n) : i \in DOMAIN s /\ FirstOf(s, n)[i] = s[i]
  BY <1>1, FirstOfPrefix
<1>3. QED
  BY <1>2 DEF Distinct, Entries

\* Filtering out the kth entry of a distinct sequence: those behind it move up.
LEMMA WithoutEntryAt ==
    ASSUME NEW S, NEW s \in Seq(S), Distinct(s), NEW k \in 1..Len(s)
    PROVE  /\ WithoutEntry(s, s[k]) \in Seq(S)
           /\ Len(WithoutEntry(s, s[k])) = Len(s) - 1
           /\ \A i \in 1..(Len(s) - 1) :
                  WithoutEntry(s, s[k])[i] = IF i < k THEN s[i] ELSE s[i + 1]
<1> DEFINE a == SubSeq(s, 1, k - 1)
           b == SubSeq(s, k + 1, Len(s))
           w == a \o b
<1>1. DOMAIN s = 1..Len(s) /\ Len(s) \in Nat
  BY LenProperties
<1>2. s[k] \in Entries(s)
  BY <1>1 DEF Entries
<1>3. k = CHOOSE j \in DOMAIN s : s[j] = s[k]
  BY <1>1 DEF Distinct
<1>4. WithoutEntry(s, s[k]) = w
  BY <1>2, <1>3 DEF WithoutEntry
<1>5. a \in Seq(S) /\ Len(a) = k - 1 /\ \A i \in 1..(k - 1) : a[i] = s[i]
  BY <1>1
<1>6. b \in Seq(S) /\ Len(b) = Len(s) - k /\ \A i \in 1..(Len(s) - k) : b[i] = s[k + i]
  <2>1. b \in Seq(S) /\ Len(b) = Len(s) - k
    OBVIOUS
  <2>2. \A i \in 1..(Len(s) - k) : b[i] = s[k + i]
    BY <1>1
  <2>3. QED
    BY <2>1, <2>2
<1> HIDE DEF a, b
<1>7. w \in Seq(S) /\ Len(w) = Len(s) - 1
  <2>1. w \in Seq(S) /\ Len(w) = Len(a) + Len(b)
    BY <1>5, <1>6, ConcatProperties
  <2>2. QED
    BY <2>1, <1>1, <1>5, <1>6
<1>8. ASSUME NEW i \in 1..(Len(s) - 1)
      PROVE  w[i] = IF i < k THEN s[i] ELSE s[i + 1]
  <2>1. CASE i < k
    BY <2>1, <1>1, <1>5, <1>6
  <2>2. CASE ~(i < k)
    <3>1. w[i] = b[i - (k - 1)] /\ i - (k - 1) \in 1..(Len(s) - k)
      BY <2>2, <1>1, <1>5, <1>6
    <3>2. b[i - (k - 1)] = s[k + (i - (k - 1))]
      BY <3>1, <1>6
    <3>3. QED
      BY <3>1, <3>2, <2>2, <1>1
  <2>3. QED
    BY <2>1, <2>2
<1>9. QED
  BY <1>4, <1>7, <1>8

\* Filtering one entry out of a distinct sequence.
LEMMA WithoutEntryHas ==
    ASSUME NEW S, NEW s \in Seq(S), NEW e, Distinct(s)
    PROVE  /\ WithoutEntry(s, e) \in Seq(S)
           /\ Distinct(WithoutEntry(s, e))
           /\ Entries(WithoutEntry(s, e)) = Entries(s) \ {e}
           /\ s # << >> /\ s[1] # e =>
                 WithoutEntry(s, e) # << >> /\ WithoutEntry(s, e)[1] = s[1]
<1>1. CASE e \notin Entries(s)
  <2>1. WithoutEntry(s, e) = s
    BY <1>1 DEF WithoutEntry
  <2>2. QED
    BY <1>1, <2>1
<1>2. CASE e \in Entries(s)
  <2>1. PICK k \in 1..Len(s) : s[k] = e
    BY <1>2, LenProperties DEF Entries
  <2>2. PICK w : w = WithoutEntry(s, e)
    OBVIOUS
  <2>3. /\ w \in Seq(S)
        /\ Len(w) = Len(s) - 1
        /\ \A i \in 1..(Len(s) - 1) : w[i] = IF i < k THEN s[i] ELSE s[i + 1]
    BY <2>1, <2>2, WithoutEntryAt
  <2>4. DOMAIN w = 1..(Len(s) - 1) /\ DOMAIN s = 1..Len(s)
    BY <2>3
  <2>5. Distinct(w)
    BY <2>1, <2>3, <2>4 DEF Distinct
  <2>6. Entries(w) = Entries(s) \ {e}
    <3>1. ASSUME NEW x \in Entries(w) PROVE x \in Entries(s) \ {e}
      BY <3>1, <2>1, <2>3, <2>4 DEF Entries, Distinct
    <3>2. ASSUME NEW x \in Entries(s), x # e PROVE x \in Entries(w)
      <4>1. PICK i \in 1..Len(s) : x = s[i]
        BY <2>4 DEF Entries
      <4>2. CASE i < k
        BY <4>1, <4>2, <2>1, <2>3, <2>4 DEF Entries
      <4>3. CASE i > k
        <5>1. i - 1 \in 1..(Len(s) - 1) /\ ~(i - 1 < k) /\ (i - 1) + 1 = i
          BY <4>1, <4>3, <2>1
        <5>2. w[i - 1] = s[i]
          BY <5>1, <2>3
        <5>3. QED
          BY <5>1, <5>2, <4>1, <2>4 DEF Entries
      <4>4. i # k
        BY <4>1, <3>2, <2>1
      <4>5. QED
        BY <4>2, <4>3, <4>4, <2>1
    <3>3. QED
      BY <3>1, <3>2
  <2>7. s # << >> /\ s[1] # e => w # << >> /\ w[1] = s[1]
    <3> SUFFICES ASSUME s[1] # e
                 PROVE  w # << >> /\ w[1] = s[1]
      OBVIOUS
    <3>1. k > 1
      BY <2>1
    <3>2. 1 \in 1..(Len(s) - 1)
      BY <3>1, <2>1
    <3>3. w[1] = s[1]
      BY <3>1, <3>2, <2>1, <2>3
    <3>4. QED
      BY <3>2, <3>3, <2>4
  <2>8. QED
    BY <2>2, <2>3, <2>5, <2>6, <2>7
<1>3. QED
  BY <1>1, <1>2

\* An entry put in front of a distinct sequence that lacks it.
LEMMA ConsEntries ==
    ASSUME NEW S, NEW f \in Seq(S), Distinct(f), NEW e \in S, e \notin Entries(f)
    PROVE  /\ <<e>> \o f \in Seq(S)
           /\ Len(<<e>> \o f) = Len(f) + 1
           /\ (<<e>> \o f)[1] = e
           /\ \A i \in 2..(Len(f) + 1) : (<<e>> \o f)[i] = f[i - 1]
           /\ Distinct(<<e>> \o f)
           /\ Entries(<<e>> \o f) = Entries(f) \union {e}
<1>1. <<e>> \in Seq(S) /\ Len(<<e>>) = 1 /\ <<e>>[1] = e /\ Len(f) \in Nat
  BY LenProperties
<1>2. PICK r \in Seq(S) : r = <<e>> \o f
  BY <1>1, ConcatProperties
<1>3. /\ Len(r) = Len(f) + 1
      /\ r[1] = e
      /\ \A i \in 2..(Len(f) + 1) : r[i] = f[i - 1]
  <2>1. Len(r) = 1 + Len(f)
    BY <1>1, <1>2, ConcatProperties
  <2>2. \A i \in 1..(1 + Len(f)) : r[i] = IF i <= 1 THEN <<e>>[i] ELSE f[i - 1]
    BY <1>1, <1>2, ConcatProperties
  <2>3. QED
    BY <2>1, <2>2, <1>1
<1>4. DOMAIN r = 1..(Len(f) + 1) /\ DOMAIN f = 1..Len(f)
  BY <1>3, LenProperties
<1>5. \A i \in DOMAIN r : i = 1 \/ (i \in 2..(Len(f) + 1) /\ i - 1 \in DOMAIN f)
  BY <1>1, <1>4
<1>6. Distinct(r)
  <2> SUFFICES ASSUME NEW i \in DOMAIN r, NEW j \in DOMAIN r, r[i] = r[j]
               PROVE  i = j
    BY DEF Distinct
  <2>1. \A m \in DOMAIN r : m # 1 => r[m] \in Entries(f) /\ r[m] # e
    BY <1>3, <1>5 DEF Entries
  <2>2. CASE i = 1 \/ j = 1
    BY <2>1, <2>2, <1>3
  <2>3. CASE i # 1 /\ j # 1
    <3>1. f[i - 1] = f[j - 1] /\ i - 1 \in DOMAIN f /\ j - 1 \in DOMAIN f
      BY <2>3, <1>3, <1>5
    <3>2. i - 1 = j - 1
      BY <3>1 DEF Distinct
    <3>3. i \in Int /\ j \in Int
      BY <1>4
    <3>4. QED
      BY <3>2, <3>3
  <2>4. QED
    BY <2>2, <2>3
<1>7. Entries(r) = Entries(f) \union {e}
  <2>1. \A i \in DOMAIN r : r[i] \in Entries(f) \union {e}
    BY <1>3, <1>5 DEF Entries
  <2>2. \A i \in DOMAIN f : f[i] \in Entries(r)
    <3> SUFFICES ASSUME NEW i \in DOMAIN f PROVE f[i] \in Entries(r)
      OBVIOUS
    <3>1. i + 1 \in 2..(Len(f) + 1) /\ (i + 1) - 1 = i
      BY <1>1, <1>4
    <3>2. r[i + 1] = f[i] /\ i + 1 \in DOMAIN r
      BY <3>1, <1>1, <1>3, <1>4
    <3>3. QED
      BY <3>2 DEF Entries
  <2>3. e \in Entries(r)
    BY <1>1, <1>3, <1>4 DEF Entries
  <2>4. QED
    BY <2>1, <2>2, <2>3 DEF Entries
<1>8. QED
  BY <1>2, <1>3, <1>6, <1>7

\* What a promotion writes: the candidate first, then entries of what it read,
\* each once, no more than retain of them, the newest of them always included.
LEMMA PromotedEntries ==
    ASSUME NEW S, NEW s \in Seq(S), Distinct(s), NEW e \in S, NEW n \in Nat \ {0}
    PROVE  /\ Promoted(s, e, n) \in Seq(S)
           /\ Len(Promoted(s, e, n)) <= n + 1
           /\ Promoted(s, e, n) # NoPointer
           /\ Promoted(s, e, n)[1] = e
           /\ Distinct(Promoted(s, e, n))
           /\ Entries(Promoted(s, e, n)) \subseteq Entries(s) \union {e}
           /\ e \in Entries(Promoted(s, e, n))
           /\ s # << >> => s[1] \in Entries(Promoted(s, e, n))
<1>1. PICK w \in Seq(S) : /\ w = WithoutEntry(s, e)
                          /\ Distinct(w)
                          /\ Entries(w) = Entries(s) \ {e}
                          /\ s # << >> /\ s[1] # e => w # << >> /\ w[1] = s[1]
  BY WithoutEntryHas
<1>2. n \in Nat /\ n >= 1
  OBVIOUS
<1>3. PICK f \in Seq(S) : /\ f = FirstOf(w, n)
                          /\ Len(f) <= n
                          /\ n < Len(w) => Len(f) = n
                          /\ n >= Len(w) => Len(f) = Len(w)
                          /\ \A i \in 1..Len(f) : f[i] = w[i]
  BY <1>2, FirstOfPrefix
<1>4. Distinct(f) /\ Entries(f) \subseteq Entries(w)
  BY <1>1, <1>2, <1>3, FirstOfDistinct
<1>5. e \notin Entries(f)
  BY <1>1, <1>4
<1>6. PICK r \in Seq(S) : /\ r = <<e>> \o f
                          /\ Len(r) = Len(f) + 1
                          /\ r[1] = e
                          /\ Distinct(r)
                          /\ Entries(r) = Entries(f) \union {e}
  <2>1. /\ <<e>> \o f \in Seq(S)
        /\ Len(<<e>> \o f) = Len(f) + 1
        /\ (<<e>> \o f)[1] = e
        /\ Distinct(<<e>> \o f)
        /\ Entries(<<e>> \o f) = Entries(f) \union {e}
    BY <1>4, <1>5, ConsEntries
  <2>2. QED
    BY <2>1, Zenon
<1>7. r = Promoted(s, e, n)
  BY <1>1, <1>3, <1>6 DEF Promoted
<1>8. Len(r) <= n + 1 /\ r # NoPointer
  BY <1>2, <1>3, <1>6, LenProperties, EmptySeq DEF NoPointer
<1>9. s # << >> => s[1] \in Entries(r)
  <2>1. CASE s[1] = e
    BY <2>1, <1>6
  <2>2. CASE s # << >> /\ s[1] # e
    <3>1. w # << >> /\ w[1] = s[1]
      BY <2>2, <1>1
    <3>2. Len(w) \in Nat \ {0} /\ Len(f) \in Nat
      BY <3>1, EmptySeq, LenProperties
    <3>3. 1 \in 1..Len(f)
      BY <3>2, <1>2, <1>3
    <3>4. f[1] = w[1] /\ 1 \in DOMAIN f
      BY <3>3, <1>3, LenProperties
    <3>5. QED
      BY <3>1, <3>4, <1>6 DEF Entries
  <2>3. QED
    BY <2>1, <2>2
<1>10. QED
  BY <1>1, <1>4, <1>6, <1>7, <1>8, <1>9

\* A rollback permutes the entries of the pointer.
LEMMA RolledBackEntries ==
    ASSUME NEW S, NEW s \in Seq(S), Distinct(s), Len(s) >= 2
    PROVE  /\ RolledBack(s) \in Seq(S)
           /\ Len(RolledBack(s)) = Len(s)
           /\ RolledBack(s)[1] = s[2]
           /\ Distinct(RolledBack(s))
           /\ Entries(RolledBack(s)) = Entries(s)
<1>1. Len(s) \in Nat /\ DOMAIN s = 1..Len(s) /\ \A i \in 1..Len(s) : s[i] \in S
  BY LenProperties, ElementOfSeq
<1>2. PICK t \in Seq(S) : /\ t = SubSeq(s, 3, Len(s))
                          /\ Len(t) = Len(s) - 2
                          /\ \A i \in 3..Len(s) : t[i - 2] = s[i]
  <2>1. SubSeq(s, 3, Len(s)) \in Seq(S) /\ Len(SubSeq(s, 3, Len(s))) = Len(s) - 2
    BY <1>1
  <2>2. \A i \in 1..(Len(s) - 2) : SubSeq(s, 3, Len(s))[i] = s[i + 2]
    BY <1>1
  <2>3. ASSUME NEW i \in 3..Len(s) PROVE SubSeq(s, 3, Len(s))[i - 2] = s[i]
    <3>1. i - 2 \in 1..(Len(s) - 2) /\ (i - 2) + 2 = i
      BY <1>1
    <3>2. QED
      BY <3>1, <2>2
  <2>4. QED
    BY <2>1, <2>3
<1>3. PICK h \in Seq(S) : h = <<s[2], s[1]>> /\ Len(h) = 2 /\ h[1] = s[2] /\ h[2] = s[1]
  <2>1. s[1] \in S /\ s[2] \in S
    BY <1>1
  <2>2. /\ <<s[2], s[1]>> \in Seq(S)
        /\ Len(<<s[2], s[1]>>) = 2
        /\ <<s[2], s[1]>>[1] = s[2]
        /\ <<s[2], s[1]>>[2] = s[1]
    BY <2>1
  <2>3. QED
    BY <2>2, Zenon
<1>4. PICK r \in Seq(S) :
          /\ r = h \o t
          /\ Len(r) = Len(h) + Len(t)
          /\ \A i \in 1..(Len(h) + Len(t)) :
                r[i] = IF i <= Len(h) THEN h[i] ELSE t[i - Len(h)]
  <2>1. /\ h \o t \in Seq(S)
        /\ Len(h \o t) = Len(h) + Len(t)
        /\ \A i \in 1..(Len(h) + Len(t)) :
              (h \o t)[i] = IF i <= Len(h) THEN h[i] ELSE t[i - Len(h)]
    BY ConcatProperties
  <2>2. QED
    BY <2>1, Zenon
<1>5. r = RolledBack(s)
  BY <1>2, <1>3, <1>4 DEF RolledBack
<1>6. Len(r) = Len(s) /\ DOMAIN r = 1..Len(s)
  BY <1>1, <1>2, <1>3, <1>4, LenProperties
<1>7. r[1] = s[2] /\ r[2] = s[1] /\ \A i \in 3..Len(s) : r[i] = s[i]
  <2>1. 1 \in 1..(Len(h) + Len(t)) /\ 2 \in 1..(Len(h) + Len(t))
    BY <1>1, <1>2, <1>3
  <2>2. r[1] = s[2] /\ r[2] = s[1]
    <3>1. r[1] = h[1] /\ r[2] = h[2]
      BY <2>1, <1>3, <1>4
    <3>2. QED
      BY <3>1, <1>3
  <2>3. ASSUME NEW i \in 3..Len(s) PROVE r[i] = s[i]
    <3>1. i \in 1..(Len(h) + Len(t)) /\ ~(i <= Len(h))
      BY <1>1, <1>2, <1>3
    <3>2. r[i] = t[i - 2] /\ t[i - 2] = s[i]
      BY <3>1, <1>2, <1>3, <1>4
    <3>3. QED
      BY <3>2
  <2>4. QED
    BY <2>2, <2>3
<1>8. Distinct(r)
  <2> SUFFICES ASSUME NEW i \in 1..Len(s), NEW j \in 1..Len(s), r[i] = r[j]
               PROVE  i = j
    BY <1>6 DEF Distinct
  <2> DEFINE from(k) == IF k = 1 THEN 2 ELSE IF k = 2 THEN 1 ELSE k
  <2>1. \A k \in 1..Len(s) : r[k] = s[from(k)] /\ from(k) \in DOMAIN s
    BY <1>1, <1>7
  <2>2. from(i) = from(j)
    BY <2>1 DEF Distinct
  <2>3. QED
    BY <2>2
<1>9. Entries(r) = Entries(s)
  <2>1. \A i \in DOMAIN r : r[i] \in Entries(s)
    BY <1>1, <1>6, <1>7 DEF Entries
  <2>2. \A i \in DOMAIN s : s[i] \in Entries(r)
    BY <1>1, <1>6, <1>7 DEF Entries
  <2>3. QED
    BY <2>1, <2>2 DEF Entries
<1>10. QED
  BY <1>5, <1>6, <1>7, <1>8, <1>9

\* What a promotion retains: everything among the first n entries it read.
LEMMA PromotedKeeps ==
    ASSUME NEW S, NEW s \in Seq(S), Distinct(s), NEW e \in S, NEW n \in Nat \ {0}
    PROVE  Entries(FirstOf(s, n)) \subseteq Entries(Promoted(s, e, n))
<1> SUFFICES ASSUME NEW x \in Entries(FirstOf(s, n)), x # e
             PROVE  x \in Entries(Promoted(s, e, n))
  BY PromotedEntries
<1>1. PICK i \in 1..Len(s) : i <= n /\ x = s[i]
  <2>1. /\ DOMAIN FirstOf(s, n) = 1..Len(FirstOf(s, n))
        /\ Len(FirstOf(s, n)) <= n /\ Len(FirstOf(s, n)) <= Len(s)
        /\ Len(FirstOf(s, n)) \in Nat /\ Len(s) \in Nat
        /\ \A i \in 1..Len(FirstOf(s, n)) : FirstOf(s, n)[i] = s[i]
    BY FirstOfPrefix, LenProperties
  <2>2. PICK i \in 1..Len(FirstOf(s, n)) : x = FirstOf(s, n)[i]
    BY <2>1 DEF Entries
  <2>3. QED
    BY <2>1, <2>2
<1>2. PICK w \in Seq(S) : /\ w = WithoutEntry(s, e) /\ Distinct(w)
                          /\ Entries(w) = Entries(s) \ {e}
  BY WithoutEntryHas
<1>3. PICK m \in 1..Len(w) : m <= n /\ x = w[m]
  <2>1. CASE e \notin Entries(s)
    <3>1. w = s
      BY <2>1, <1>2 DEF WithoutEntry
    <3>2. QED
      BY <3>1, <1>1
  <2>2. CASE e \in Entries(s)
    <3>1. PICK k \in 1..Len(s) : s[k] = e
      BY <2>2, LenProperties DEF Entries
    <3>2. /\ Len(w) = Len(s) - 1
          /\ \A j \in 1..(Len(s) - 1) : w[j] = IF j < k THEN s[j] ELSE s[j + 1]
      BY <3>1, <1>2, WithoutEntryAt
    <3>3. Len(s) \in Nat /\ i # k
      BY <1>1, <3>1, LenProperties
    <3>4. CASE i < k
      <4>1. i \in 1..(Len(s) - 1)
        BY <3>3, <3>4, <1>1
      <4>2. QED
        BY <4>1, <3>2, <3>4, <1>1
    <3>5. CASE i > k
      <4>1. i - 1 \in 1..(Len(s) - 1) /\ ~(i - 1 < k) /\ (i - 1) + 1 = i /\ i - 1 <= n
        BY <3>3, <3>5, <1>1
      <4>2. w[i - 1] = s[i]
        BY <4>1, <3>2
      <4>3. QED
        BY <4>1, <4>2, <3>2, <1>1
    <3>6. QED
      BY <3>3, <3>4, <3>5
  <2>3. QED
    BY <2>1, <2>2
<1>4. PICK f \in Seq(S) : /\ f = FirstOf(w, n)
                          /\ n < Len(w) => Len(f) = n
                          /\ n >= Len(w) => Len(f) = Len(w)
                          /\ \A j \in 1..Len(f) : f[j] = w[j]
  BY FirstOfPrefix
<1>5. x \in Entries(f)
  <2>1. m \in 1..Len(f) /\ DOMAIN f = 1..Len(f)
    BY <1>3, <1>4, LenProperties
  <2>2. QED
    BY <2>1, <1>3, <1>4 DEF Entries
<1>6. Distinct(f) /\ e \notin Entries(f)
  BY <1>2, <1>4, FirstOfDistinct
<1>7. Entries(<<e>> \o f) = Entries(f) \union {e}
  BY <1>6, ConsEntries
<1>8. QED
  BY <1>2, <1>4, <1>5, <1>7 DEF Promoted
================================================================================
