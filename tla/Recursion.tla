------------------------------- MODULE Recursion -------------------------------
(***************************************************************************)
(* Induction over the natural numbers, and the functions defined by        *)
(* recursion over them, stated about sets and functions instead of         *)
(* operators, so that a proof can use them at a set or a function of its   *)
(* own.                                                                    *)
(***************************************************************************)
EXTENDS Integers, SequencesExt, WellFoundedInduction, TLAPS

\* A set of natural numbers has a least element.
LEMMA LeastElement ==
  ASSUME NEW T \in SUBSET Nat, T # {}
  PROVE  \E x \in T : \A y \in T : x <= y
<1>1. PICK x \in T : \A y \in T : ~ (<<y, x>> \in OpToRel(<, Nat))
  BY NatLessThanWellFounded, WFMin
<1>2. \A y \in T : ~ (y < x)
  BY <1>1 DEF OpToRel
<1> QED  BY <1>2

\* A set that holds 0 and, with a number, the next one, holds them all.
LEMMA InductionSet ==
  ASSUME NEW G \in SUBSET Nat, 0 \in G, \A n \in G : n + 1 \in G
  PROVE  G = Nat
<1>1. ASSUME Nat \ G # {} PROVE FALSE
  <2>1. PICK x \in Nat \ G : \A y \in Nat \ G : x <= y
    BY <1>1, LeastElement
  <2>2. x - 1 \in Nat /\ x - 1 \notin Nat \ G
    BY <2>1
  <2> QED  BY <2>1, <2>2
<1> QED  BY <1>1

\* Function h starts at a and goes on by step F.
Iterates(h, S, a, F) ==
  h \in [Nat -> S] /\ h[0] = a /\ \A n \in Nat : h[n + 1] = F[<<n, h[n]>>]

\* A value for 0 and a step from n to n + 1 make a function.
LEMMA RecursionExists ==
  ASSUME NEW S, NEW a \in S, NEW F \in [Nat \X S -> S]
  PROVE  \E h : Iterates(h, S, a, F)
<1> DEFINE Upto(n, f) == /\ f \in [0 .. n -> S] /\ f[0] = a
                         /\ \A k \in 0 .. n - 1 : f[k + 1] = F[<<k, f[k]>>]
<1>1. \A n \in Nat : \E f : Upto(n, f)
  <2> DEFINE G == {n \in Nat : \E f : Upto(n, f)}
  <2>1. 0 \in G
    <3>1. Upto(0, [k \in 0 .. 0 |-> a])
      OBVIOUS
    <3> QED  BY <3>1
  <2>2. ASSUME NEW n \in G PROVE n + 1 \in G
    <3>1. PICK f : Upto(n, f)
      BY <2>2
    <3>2. n \in Nat /\ f[n] \in S /\ F[<<n, f[n]>>] \in S
      BY <3>1
    <3> DEFINE g == [k \in 0 .. n + 1 |-> IF k = n + 1 THEN F[<<n, f[n]>>] ELSE f[k]]
    <3>3. g \in [0 .. n + 1 -> S] /\ g[0] = a
      BY <3>1, <3>2
    <3>4. ASSUME NEW k \in 0 .. n + 1 - 1 PROVE g[k + 1] = F[<<k, g[k]>>]
      <4>1. CASE k = n
        <5>1. g[k + 1] = F[<<n, f[n]>>] /\ g[k] = f[n]
          BY <3>2, <4>1
        <5> QED  BY <4>1, <5>1
      <4>2. CASE k # n
        <5>1. k \in 0 .. n - 1 /\ k + 1 # n + 1 /\ k # n + 1
          BY <3>2, <4>2
        <5> QED  BY <3>1, <3>2, <5>1
      <4> QED  BY <4>1, <4>2
    <3> HIDE DEF g
    <3>5. Upto(n + 1, g)
      BY <3>3, <3>4
    <3> HIDE DEF Upto
    <3> QED  BY <3>2, <3>5
  <2> HIDE DEF G
  <2>3. G = Nat
    BY <2>1, <2>2, InductionSet DEF G
  <2> QED  BY <2>3 DEF G
<1>2. ASSUME NEW n \in Nat, NEW f, Upto(n, f), NEW m \in Nat, NEW g, Upto(m, g), n <= m
      PROVE  f[n] = g[n]
  <2> DEFINE G == {k \in Nat : k <= n => f[k] = g[k]}
  <2>1. 0 \in G
    BY <1>2
  <2>2. ASSUME NEW k \in G PROVE k + 1 \in G
    <3> SUFFICES ASSUME k + 1 <= n PROVE f[k + 1] = g[k + 1]
      OBVIOUS
    <3>1. k \in 0 .. n - 1 /\ k \in 0 .. m - 1 /\ f[k] = g[k]
      BY <1>2
    <3> QED  BY <1>2, <3>1
  <2> HIDE DEF G
  <2>3. G = Nat
    BY <2>1, <2>2, InductionSet DEF G
  <2> QED  BY <2>3 DEF G
<1> DEFINE u == [n \in Nat |-> CHOOSE f : Upto(n, f)]
           h == [n \in Nat |-> u[n][n]]
<1>3. \A n \in Nat : Upto(n, u[n])
  BY <1>1
<1> HIDE DEF u
<1>4. \A n \in Nat : u[n][n] \in S
  BY <1>3
<1>5. \A n \in Nat : u[n][n] = u[n + 1][n]
  <2> HIDE DEF Upto
  <2> QED  BY <1>2, <1>3
<1>6. \A n \in Nat : u[n + 1][n + 1] = F[<<n, u[n + 1][n]>>]
  BY <1>3
<1>7. u[0][0] = a
  BY <1>3
<1>8. h \in [Nat -> S] /\ h[0] = a
  BY <1>4, <1>7
<1>9. \A n \in Nat : h[n + 1] = F[<<n, h[n]>>]
  BY <1>5, <1>6
<1> HIDE DEF h
<1>10. Iterates(h, S, a, F)
  BY <1>8, <1>9 DEF Iterates
<1> QED  BY <1>10

\* Function h satisfies the recursive definition with right-hand side a at 0 and
\* step F from there on.
Satisfies(h, a, F) == h = [n \in Nat |-> IF n = 0 THEN a ELSE F[<<n - 1, h[n - 1]>>]]

\* Some function does, so that the one TLA+ chooses does.
LEMMA RecursionDefines ==
  ASSUME NEW S, NEW a \in S, NEW F \in [Nat \X S -> S]
  PROVE  \E h : Satisfies(h, a, F)
<1>1. PICK h : Iterates(h, S, a, F)
  BY RecursionExists
<1>2. h \in [Nat -> S] /\ h[0] = a /\ \A n \in Nat : h[n + 1] = F[<<n, h[n]>>]
  BY <1>1 DEF Iterates
<1>3. ASSUME NEW n \in Nat PROVE h[n] = IF n = 0 THEN a ELSE F[<<n - 1, h[n - 1]>>]
  <2>1. n # 0 => n - 1 \in Nat /\ n = n - 1 + 1
    OBVIOUS
  <2>2. n # 0 => h[n - 1 + 1] = F[<<n - 1, h[n - 1]>>]
    BY <1>2, <2>1
  <2> QED  BY <1>2, <2>1, <2>2
<1>4. h = [n \in Nat |-> IF n = 0 THEN a ELSE F[<<n - 1, h[n - 1]>>]]
  BY <1>2, <1>3
<1> QED  BY <1>4 DEF Satisfies

\* What a function that satisfies it is like.
LEMMA RecursionUnfolds ==
  ASSUME NEW S, NEW a \in S, NEW F \in [Nat \X S -> S],
         NEW f, Satisfies(f, a, F)
  PROVE  Iterates(f, S, a, F)
<1>1. \A n \in Nat : f[n] = IF n = 0 THEN a ELSE F[<<n - 1, f[n - 1]>>]
  BY DEF Satisfies
<1>2. f[0] = a
  BY <1>1
<1>3. ASSUME NEW n \in Nat PROVE f[n + 1] = F[<<n, f[n]>>]
  <2>1. n + 1 \in Nat /\ n + 1 # 0 /\ n + 1 - 1 = n
    OBVIOUS
  <2> QED  BY <1>1, <2>1
<1> DEFINE G == {n \in Nat : f[n] \in S}
<1>4. 0 \in G
  BY <1>2
<1>5. ASSUME NEW n \in G PROVE n + 1 \in G
  <2>1. n \in Nat /\ f[n] \in S /\ F[<<n, f[n]>>] \in S
    OBVIOUS
  <2> QED  BY <1>3, <2>1
<1> HIDE DEF G
<1>6. G = Nat
  BY <1>4, <1>5, InductionSet DEF G
<1>7. \A n \in Nat : f[n] \in S
  BY <1>6 DEF G
<1>8. f = [n \in Nat |-> f[n]]
  BY DEF Satisfies
<1> QED  BY <1>2, <1>3, <1>7, <1>8 DEF Iterates

-----------------------------------------------------------------------------
(***************************************************************************)
(* FlattenSeq, which the community modules define by recursion.            *)
(***************************************************************************)

\* A function that puts one sequence after the other ends with all of them.
LEMMA FlattenIs ==
  ASSUME NEW S, NEW s \in Seq(Seq(S)), NEW h, h[0] = <<>>,
         \A n \in 0 .. Len(s) - 1 : h[n] \in Seq(S) /\ h[n + 1] = h[n] \o s[n + 1]
  PROVE  FlattenSeq(s) = h[Len(s)]
<1>1. CASE Len(s) = 0
  <2>1. s = <<>>
    BY <1>1
  <2> QED  BY <1>1, <2>1 DEF FlattenSeq
<1>2. CASE Len(s) # 0
  <2> DEFINE N == Len(s)
             Flat(f) == f = [i \in 1 .. N |-> IF i = 1 THEN s[i] ELSE f[i - 1] \o s[i]]
             g == [i \in 1 .. N |-> h[i]]
             flatten == CHOOSE f : Flat(f)
  <2>1. N \in Nat \ {0} /\ \A i \in 1 .. N : s[i] \in Seq(S)
    BY <1>2
  <2>2. \A i \in 1 .. N : h[i] = IF i = 1 THEN s[i] ELSE h[i - 1] \o s[i]
    <3> TAKE i \in 1 .. N
    <3>1. i - 1 \in 0 .. N - 1 /\ i - 1 + 1 = i
      BY <2>1
    <3>2. h[i] = h[i - 1] \o s[i]
      BY <3>1
    <3>3. <<>> \o s[i] = s[i]
      BY <2>1
    <3>4. i = 1 => h[i - 1] = <<>>
      BY <2>1
    <3> HIDE DEF N, Flat, g, flatten
    <3>5. CASE i = 1
      BY <3>2, <3>3, <3>4, <3>5
    <3>6. CASE i # 1
      BY <3>2, <3>6
    <3> QED  BY <3>5, <3>6
  <2>3. Flat(g)
    <3>1. \A i \in 1 .. N : g[i] = IF i = 1 THEN s[i] ELSE g[i - 1] \o s[i]
      <4> TAKE i \in 1 .. N
      <4>1. i # 1 => i - 1 \in 1 .. N
        BY <2>1
      <4> QED  BY <2>2, <4>1
    <3> QED  BY <3>1
  <2>4. Flat(flatten)
    BY <2>3
  <2> HIDE DEF flatten
  <2> DEFINE G == {k \in Nat : k \in 1 .. N => flatten[k] = h[k]}
  <2>5. 0 \in G
    BY <2>1
  <2>6. ASSUME NEW k \in G PROVE k + 1 \in G
    <3>1. \A i : i = k + 1 /\ i \in 1 .. N => flatten[i] = h[i]
      <4> SUFFICES ASSUME NEW i \in 1 .. N, i = k + 1 PROVE flatten[i] = h[i]
        OBVIOUS
      <4>1. h[i] = IF i = 1 THEN s[i] ELSE h[i - 1] \o s[i]
        BY <2>2
      <4>2. flatten[i] = IF i = 1 THEN s[i] ELSE flatten[i - 1] \o s[i]
        BY <2>4
      <4>3. i # 1 => flatten[i - 1] = h[i - 1]
        BY <2>1
      <4> HIDE DEF Flat, g, N, G
      <4> QED  BY <4>1, <4>2, <4>3
    <3> QED  BY <3>1
  <2> HIDE DEF G
  <2>7. G = Nat
    BY <2>5, <2>6, InductionSet DEF G
  <2>8. N \in G
    BY <2>1, <2>7
  <2>9. flatten[N] = h[N]
    BY <2>1, <2>8 DEF G
  <2>10. FlattenSeq(s) = flatten[N]
    BY <1>2 DEF FlattenSeq, flatten
  <2> QED  BY <2>9, <2>10
<1> QED  BY <1>1, <1>2

\* One more sequence comes behind those before it.
LEMMA FlattenNext ==
  ASSUME NEW S, NEW s \in Seq(Seq(S)), NEW x \in Seq(S)
  PROVE  /\ FlattenSeq(s) \in Seq(S)
         /\ FlattenSeq(Append(s, x)) = FlattenSeq(s) \o x
<1> DEFINE t == Append(s, x)
           F == [w \in Nat \X Seq(S) |->
                   IF w[1] < Len(t) THEN w[2] \o t[w[1] + 1] ELSE w[2]]
<1>1. /\ Len(s) \in Nat /\ t \in Seq(Seq(S)) /\ Len(t) = Len(s) + 1 /\ t[Len(s) + 1] = x
      /\ \A i \in 1 .. Len(s) : t[i] = s[i]
  OBVIOUS
<1>2. \A i \in 1 .. Len(t) : t[i] \in Seq(S)
  BY <1>1
<1> HIDE DEF t
<1>3. F \in [Nat \X Seq(S) -> Seq(S)]
  <2>1. ASSUME NEW n \in Nat, NEW q \in Seq(S)
        PROVE  (IF n < Len(t) THEN q \o t[n + 1] ELSE q) \in Seq(S)
    BY <1>1, <1>2
  <2> QED  BY <2>1
<1>4. \A n \in Nat, q \in Seq(S) : n < Len(t) => F[<<n, q>>] = q \o t[n + 1]
  OBVIOUS
<1> HIDE DEF F
<1>5. <<>> \in Seq(S)
  OBVIOUS
<1>6. PICK h : Iterates(h, Seq(S), <<>>, F)
  BY <1>3, <1>5, RecursionExists
<1>7. /\ h[0] = <<>> /\ \A n \in Nat : h[n] \in Seq(S)
      /\ \A n \in Nat : h[n + 1] = F[<<n, h[n]>>]
  BY <1>6 DEF Iterates
<1>8. \A n \in 0 .. Len(t) - 1 : h[n] \in Seq(S) /\ h[n + 1] = h[n] \o t[n + 1]
  <2> TAKE n \in 0 .. Len(t) - 1
  <2>1. n \in Nat /\ n < Len(t)
    BY <1>1
  <2>2. h[n] \in Seq(S) /\ h[n + 1] = F[<<n, h[n]>>]
    BY <1>7, <2>1
  <2>3. F[<<n, h[n]>>] = h[n] \o t[n + 1]
    BY <1>4, <2>1, <2>2
  <2> QED  BY <2>2, <2>3
<1>9. FlattenSeq(t) = h[Len(t)]
  <2> HIDE DEF F
  <2> QED  BY <1>1, <1>7, <1>8, FlattenIs
<1>10. \A n \in 0 .. Len(s) - 1 : h[n] \in Seq(S) /\ h[n + 1] = h[n] \o s[n + 1]
  <2> TAKE n \in 0 .. Len(s) - 1
  <2>1. n \in 0 .. Len(t) - 1 /\ t[n + 1] = s[n + 1]
    BY <1>1
  <2> QED  BY <1>8, <2>1
<1>11. FlattenSeq(s) = h[Len(s)]
  BY <1>7, <1>10, FlattenIs
<1>12. h[Len(t)] = h[Len(s)] \o x
  <2>1. Len(s) \in 0 .. Len(t) - 1
    BY <1>1
  <2>2. h[Len(s) + 1] = h[Len(s)] \o t[Len(s) + 1]
    BY <1>8, <2>1
  <2> QED  BY <1>1, <2>2
<1>13. h[Len(s)] \in Seq(S)
  BY <1>1, <1>7
<1> QED  BY <1>9, <1>11, <1>12, <1>13 DEF t

\* Nothing is put together from nothing.
LEMMA FlattenNone == FlattenSeq(<<>>) = <<>>
BY DEF FlattenSeq
================================================================================
