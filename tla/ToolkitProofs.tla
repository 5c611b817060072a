--------------------------- MODULE ToolkitProofs ---------------------------
(***************************************************************************)
(* What the parts of the generators promise, whatever program calls them:  *)
(* a string buffer never overflows, the children of a build share its rows *)
(* out, the seed of a stream is the number at its position, whoever reads  *)
(* a list is given each of its members, the command line has the last word *)
(* on an option, wherever it names the files, and the amounts of sales and *)
(* returns add up.                                                         *)
(***************************************************************************)
EXTENDS Scaling, RandomNumbers, StringBuffers, Lists, Parameters, Pricing,
        SplitWorkProofs, Recursion, FiniteSetTheorems

-----------------------------------------------------------------------------
(***************************************************************************)
(* String buffers.                                                         *)
(***************************************************************************)
\* A buffer is created within its bounds.
LEMMA BufferInitLemma == InitBuffer => BufferInv
BY BufferAssumption DEF InitBuffer, BufferInv, BufferTypeOK, TextFits, CountIsText

\* Whole increments are added.
LEMMA RoomIsNat ==
  ASSUME NEW times \in Nat PROVE times * Increment \in Nat
BY BufferAssumption

\* Adding a string and emptying the buffer keep it within its bounds.
LEMMA BufferStepLemma == BufferInv /\ [BufferNext]_bufferVars => BufferInv'
<1> SUFFICES ASSUME BufferInv, [BufferNext]_bufferVars PROVE BufferInv'
  OBVIOUS
<1> USE DEF BufferInv, BufferTypeOK, TextFits, CountIsText
<1>1. CASE ResetBuffer
  BY <1>1 DEF ResetBuffer
<1>2. ASSUME NEW n \in Lengths, AddBuffer(n) PROVE BufferInv'
  <2>1. n \in Nat /\ n # 0
    BY <1>2, BufferAssumption DEF AddBuffer
  <2>2. PICK times \in 0 .. n + 1 :
          /\ n < allocated - used + times * Increment
          /\ allocated' = allocated + times * Increment
    BY <1>2 DEF AddBuffer
  <2>3. times * Increment \in Nat
    BY <2>1, RoomIsNat
  <2>4. /\ text' = text + n
        /\ used' = (IF used = 0 THEN 1 ELSE used) + n
    BY <1>2 DEF AddBuffer
  <2>5. PICK room \in Nat : room = times * Increment
    BY <2>3
  <2>6. n < allocated - used + room /\ allocated' = allocated + room
    BY <2>2, <2>5
  <2> QED
    BY <2>1, <2>4, <2>6
<1>3. CASE UNCHANGED bufferVars
  BY <1>3 DEF bufferVars
<1> QED
  BY <1>1, <1>2, <1>3 DEF BufferNext

\* The text of a buffer and its terminator are always within what is allocated.
THEOREM BufferSafe == BufferSpec => []TextFits
<1>1. BufferInv => TextFits
  BY DEF BufferInv
<1> QED
  BY BufferInitLemma, BufferStepLemma, <1>1, PTL DEF BufferSpec

-----------------------------------------------------------------------------
(***************************************************************************)
(* The rows of a build and its children.                                   *)
(***************************************************************************)
\* What is split has rows, and somebody to build them.
SplitInv == split \in (Nat \ {0}) \X (Nat \ {0})

LEMMA SplitInitLemma == ScalingInit => SplitInv
BY DEF ScalingInit, SplitInv

LEMMA SplitStepLemma == SplitInv /\ [ScalingNext]_scalingVars => SplitInv'
<1> SUFFICES ASSUME SplitInv, [ScalingNext]_scalingVars PROVE SplitInv'
  OBVIOUS
<1>1. CASE Split
  BY <1>1, ScalingAssumption DEF Split, SplitInv
<1>2. CASE GetRowcount
  BY <1>2 DEF GetRowcount, SplitInv
<1>3. CASE ScaleRefresh
  BY <1>3 DEF ScaleRefresh, SplitInv
<1>4. CASE UNCHANGED scalingVars
  BY <1>4 DEF scalingVars, SplitInv
<1> QED
  BY <1>1, <1>2, <1>3, <1>4 DEF ScalingNext

\* The children of a build build every row of a table once, for every number of
\* rows and of children, and the chunks that tests/chunked_data.sh compares are
\* aligned when HalvedBuildsAlign says so (parallel.c: split_work).
THEOREM RowsBuiltOnce == ScalingSpec => []EveryRowOnce
<1>1. SplitInv => EveryRowOnce
  BY Cover, Disjoint, HalvesAlign DEF SplitInv, EveryRowOnce
<1> QED
  BY SplitInitLemma, SplitStepLemma, <1>1, PTL DEF ScalingSpec

-----------------------------------------------------------------------------
(***************************************************************************)
(* Remainders.                                                             *)
(***************************************************************************)
\* A remainder is what is left of a multiple.
LEMMA ModIs ==
  ASSUME NEW n \in Nat \ {0}, NEW q \in Int, NEW r \in 0 .. n - 1
  PROVE  (n * q + r) % n = r
BY Z3

LEMMA ModOf ==
  ASSUME NEW n \in Nat \ {0}, NEW x \in Int
  PROVE  x % n \in 0 .. n - 1 /\ \E q \in Int : x = n * q + (x % n)
<1>1. x = n * (x \div n) + (x % n) /\ x \div n \in Int
  BY Z3
<1>2. x % n \in 0 .. n - 1
  BY Z3
<1> QED  BY <1>1, <1>2

LEMMA ModShift ==
  ASSUME NEW n \in Nat \ {0}, NEW x \in Int, NEW k \in Int
  PROVE  (n * k + x) % n = x % n
<1>1. PICK q \in Int : x = n * q + (x % n)
  BY ModOf
<1>2. x % n \in 0 .. n - 1
  BY ModOf
<1>3. PICK r \in 0 .. n - 1 : r = x % n
  BY <1>2
<1>4. n * k + (n * q + r) = n * (k + q) + r
  BY Z3
<1>5. k + q \in Int
  OBVIOUS
<1>6. (n * (k + q) + r) % n = r
  BY <1>5, ModIs
<1> QED  BY <1>1, <1>3, <1>4, <1>6

\* Factors may be reduced.
LEMMA ModTimes ==
  ASSUME NEW n \in Nat \ {0}, NEW a \in Int, NEW b \in Int
  PROVE  (a * (b % n)) % n = (a * b) % n
<1>1. PICK q \in Int : b = n * q + (b % n)
  BY ModOf
<1>2. b % n \in Int
  BY ModOf
<1>3. PICK r \in Int : r = b % n
  BY <1>2
<1>4. a * (n * q + r) = n * (a * q) + a * r /\ a * q \in Int /\ a * r \in Int
  BY Z3
<1>5. (n * (a * q) + a * r) % n = (a * r) % n
  BY <1>4, ModShift
<1> QED  BY <1>1, <1>3, <1>4, <1>5

-----------------------------------------------------------------------------
(***************************************************************************)
(* One number after another.                                               *)
(***************************************************************************)
\* Division in C is towards zero.
LEMMA Truncates ==
  ASSUME NEW a \in Int, NEW b \in Nat \ {0}
  PROVE  /\ CQuo(a, b) \in Int /\ CRem(a, b) \in Int
         /\ a = b * CQuo(a, b) + CRem(a, b)
         /\ a >= 0 => CQuo(a, b) >= 0 /\ CRem(a, b) \in 0 .. b - 1
         /\ a < 0 => CQuo(a, b) <= 0 /\ -CRem(a, b) \in 0 .. b - 1
<1>1. CASE a >= 0
  <2>1. a = b * (a \div b) + (a % b) /\ a \div b \in Int /\ a \div b >= 0 /\ a % b \in 0 .. b - 1
    BY <1>1, Z3
  <2>2. PICK q \in Int : q = a \div b
    BY <2>1
  <2>3. CQuo(a, b) = q /\ CRem(a, b) = a - b * q /\ b * q \in Int
    BY <1>1, <2>2, Z3 DEF CQuo, CRem
  <2> QED  BY <1>1, <2>1, <2>2, <2>3
<1>2. CASE a < 0
  <2> DEFINE m == -a
  <2>1. m \in Nat /\ ~ (a >= 0)
    BY <1>2
  <2>2. m = b * (m \div b) + (m % b) /\ m \div b \in Int /\ m \div b >= 0 /\ m % b \in 0 .. b - 1
    <3> HIDE DEF m
    <3> QED  BY <2>1, Z3
  <2>3. PICK q \in Int : q = m \div b
    BY <2>2
  <2>4. CQuo(a, b) = -q /\ CRem(a, b) = a - b * (-q)
    BY <2>1, <2>3 DEF CQuo, CRem
  <2>5. b * (-q) = - (b * q) /\ b * q \in Int
    BY Z3
  <2> QED  BY <1>2, <2>2, <2>3, <2>4, <2>5
<1> QED  BY <1>1, <1>2

\* The constants of the generator: the modulus in multiples of the multiplier.
LEMMA Quotients ==
  /\ MaxInt \in Nat /\ Mult \in Nat /\ 1 < Mult /\ Mult < MaxInt
  /\ NQ \in Nat \ {0} /\ NR \in Nat /\ NR < NQ /\ MaxInt = Mult * NQ + NR
<1>1. MaxInt \in Nat /\ Mult \in Nat \ {0} /\ 1 < Mult /\ Mult < MaxInt /\ NR < NQ
  BY RngAssumption DEF NQ, NR
<1>2. MaxInt = Mult * (MaxInt \div Mult) + (MaxInt % Mult)
      /\ MaxInt \div Mult \in Nat /\ MaxInt % Mult \in Nat
  BY <1>1, Z3
<1> QED  BY <1>1, <1>2 DEF NQ, NR

\* The number before MaxInt is added to it, in the quantities of the code: c is
\* the quotient of a seed by NQ, d the remainder.
LEMMA Schrage ==
  ASSUME NEW M \in Nat, NEW a \in Nat, NEW q \in Nat \ {0}, NEW r \in Nat, r < q,
         1 < a, a < M, M = a * q + r,
         NEW c \in Int, NEW d \in Int,
         \/ c >= 0 /\ d \in 0 .. q - 1 /\ q * c + d <= M
         \/ c <= 0 /\ -d \in 0 .. q - 1 /\ q * c + d >= -(M + 1)
  PROVE  /\ a * d - c * r \in -(M - 1) .. M - 1
         /\ a * (q * c + d) = M * c + (a * d - c * r)
<1>1. a * (q * c + d) = M * c + (a * d - c * r)
  BY Z3
<1>2. CASE c >= 0 /\ d \in 0 .. q - 1 /\ q * c + d <= M
  <2>1. c <= a
    <3>1. c >= a + 1 => q * c >= q * (a + 1)
      BY Z3
    <3>2. q * (a + 1) = a * q + q
      BY Z3
    <3> QED  BY <1>2, <3>1, <3>2, Z3
  <2>2. a * d <= a * (q - 1) /\ a * (q - 1) = a * q - a /\ a * d >= 0
    BY <1>2, Z3
  <2>3. c * r <= a * r /\ c * r >= 0
    BY <1>2, <2>1, Z3
  <2>4. a * r <= a * (q - 1)
    BY Z3
  <2> QED  BY <2>2, <2>3, <2>4, Z3
<1>3. CASE c <= 0 /\ -d \in 0 .. q - 1 /\ q * c + d >= -(M + 1)
  <2> DEFINE e == -c
             f == -d
  <2>1. e \in Nat /\ f \in 0 .. q - 1 /\ c = -e /\ d = -f
    BY <1>3
  <2> HIDE DEF e, f
  <2>2. q * c = - (q * e) /\ c * r = - (e * r) /\ a * d = - (a * f)
    BY <2>1, Z3
  <2>3. q * e + f <= M + 1
    BY <1>3, <2>1, <2>2, Z3
  <2>4. e <= a + 1
    <3>1. e >= a + 2 => q * e >= q * (a + 2)
      BY <2>1, Z3
    <3>2. q * (a + 2) = a * q + 2 * q
      BY Z3
    <3> QED  BY <2>1, <2>3, <3>1, <3>2, Z3
  <2>5. a * f <= a * (q - 1) /\ a * (q - 1) = a * q - a /\ a * f >= 0 /\ e * r >= 0
    BY <2>1, Z3
  <2>6. CASE e <= a
    <3>1. e * r <= a * r /\ a * r <= a * (q - 1)
      BY <2>1, <2>6, Z3
    <3> QED  BY <2>1, <2>2, <2>5, <3>1, Z3
  <2>7. CASE e = a + 1
    <3>1. q * (a + 1) = a * q + q
      BY Z3
    <3>2. q * e = a * q + q
      BY <2>7, <3>1
    <3>3. f = 0 /\ r = q - 1
      BY <2>1, <2>3, <3>2, Z3
    <3>4. (a + 1) * (q - 1) = a * q + q - a - 1
      BY Z3
    <3>5. e * r = a * q + q - a - 1
      BY <2>7, <3>3, <3>4
    <3>6. a * f = 0
      BY <3>3, Z3
    <3> QED  BY <2>2, <3>3, <3>5, <3>6, Z3
  <2> QED  BY <2>1, <2>4, <2>6, <2>7
<1> QED  BY <1>1, <1>2, <1>3

\* next_random: from any int it answers the next number of the congruence.
LEMMA NextIs ==
  ASSUME NEW s \in Ints
  PROVE  /\ NextRandom(s) \in 0 .. MaxInt - 1
         /\ NextRandom(s) = (Mult * s) % MaxInt
<1> DEFINE c == CQuo(s, NQ)
           d == CRem(s, NQ)
           r == Mult * d - c * NR
<1>1. s \in Int /\ s <= MaxInt /\ s >= -(MaxInt + 1)
  BY Quotients DEF Ints
<1>2. c \in Int /\ d \in Int /\ s = NQ * c + d
  BY <1>1, Truncates, Quotients
<1>3. \/ c >= 0 /\ d \in 0 .. NQ - 1 /\ NQ * c + d <= MaxInt
      \/ c <= 0 /\ -d \in 0 .. NQ - 1 /\ NQ * c + d >= -(MaxInt + 1)
  <2>1. s >= 0 => c >= 0 /\ d \in 0 .. NQ - 1
    BY <1>1, Truncates, Quotients
  <2>2. s < 0 => c <= 0 /\ -d \in 0 .. NQ - 1
    BY <1>1, Truncates, Quotients
  <2> HIDE DEF c, d
  <2> QED  BY <1>1, <1>2, <2>1, <2>2
<1> HIDE DEF c, d
<1>4. r \in -(MaxInt - 1) .. MaxInt - 1 /\ Mult * (NQ * c + d) = MaxInt * c + r
  BY <1>2, <1>3, Quotients, Schrage
<1>5. NextRandom(s) = IF r < 0 THEN r + MaxInt ELSE r
  BY DEF NextRandom, c, d
<1> HIDE DEF r
<1>6. NextRandom(s) \in 0 .. MaxInt - 1
  BY <1>4, <1>5, Quotients
<1>7. Mult * s = MaxInt * c + r
  BY <1>2, <1>4
<1>8. MaxInt \in Nat \ {0} /\ r \in Int
  BY <1>4, Quotients
<1>9. \E k \in Int : Mult * s = MaxInt * k + NextRandom(s)
  <2>1. CASE r < 0
    <3>1. MaxInt * (c - 1) + (r + MaxInt) = MaxInt * c + r
      BY <1>2, <1>8, Z3
    <3>2. c - 1 \in Int
      BY <1>2
    <3> QED  BY <1>5, <1>7, <2>1, <3>1, <3>2
  <2>2. CASE ~ (r < 0)
    BY <1>2, <1>5, <1>7, <2>2
  <2> QED  BY <2>1, <2>2
<1> QED  BY <1>6, <1>8, <1>9, ModIs

\* The nth number after z by a multiplier m.
NthOf(m, z, n) ==
  LET Iterate[k \in Nat] == IF k = 0 THEN z % MaxInt ELSE (m * Iterate[k - 1]) % MaxInt
  IN  Iterate[n]

\* Its recursive definition, unfolded.
LEMMA NthOfFacts ==
  ASSUME NEW m \in Int, NEW z \in Int
  PROVE  /\ NthOf(m, z, 0) = z % MaxInt
         /\ \A n \in Nat : NthOf(m, z, n) \in 0 .. MaxInt - 1
         /\ \A n \in Nat : NthOf(m, z, n + 1) = (m * NthOf(m, z, n)) % MaxInt
<1> DEFINE S == 0 .. MaxInt - 1
           a == z % MaxInt
           F == [w \in Nat \X S |-> (m * w[2]) % MaxInt]
           Iterate(f) == f = [k \in Nat |-> IF k = 0 THEN a ELSE (m * f[k - 1]) % MaxInt]
           t == CHOOSE f : Iterate(f)
<1>1. MaxInt \in Nat \ {0} /\ a \in S
  BY Quotients, ModOf
<1>2. \A x \in Int : (m * x) % MaxInt \in S
  <2> TAKE x \in Int
  <2>1. m * x \in Int
    OBVIOUS
  <2> QED  BY <1>1, <2>1, ModOf
<1>3. F \in [Nat \X S -> S]
  BY <1>2
<1> HIDE DEF a
<1>4. PICK h : Iterates(h, S, a, F)
  BY <1>1, <1>3, RecursionExists
<1>5. Iterate(h)
  <2>1. h \in [Nat -> S] /\ h[0] = a /\ \A n \in Nat : h[n + 1] = F[<<n, h[n]>>]
    BY <1>4 DEF Iterates
  <2>2. ASSUME NEW n \in Nat PROVE h[n] = IF n = 0 THEN a ELSE (m * h[n - 1]) % MaxInt
    <3>1. CASE n # 0
      <4>1. n - 1 \in Nat /\ (n - 1) + 1 = n
        BY <3>1
      <4>2. h[n] = F[<<n - 1, h[n - 1]>>] /\ h[n - 1] \in S
        BY <2>1, <4>1
      <4>3. F[<<n - 1, h[n - 1]>>] = (m * h[n - 1]) % MaxInt
        BY <4>1, <4>2
      <4> HIDE DEF F, S
      <4> QED  BY <3>1, <4>2, <4>3
    <3> QED  BY <2>1, <3>1
  <2> HIDE DEF F, S
  <2> QED  BY <2>1, <2>2
<1>6. Iterate(t)
  BY <1>5
<1>7. \A n \in Nat : t[n] = NthOf(m, z, n)
  BY DEF NthOf, a
<1> HIDE DEF t
<1>8. \A n \in Nat : t[n] = IF n = 0 THEN a ELSE (m * t[n - 1]) % MaxInt
  BY <1>6
<1>9. ASSUME NEW n \in Nat PROVE t[n + 1] = (m * t[n]) % MaxInt
  <2>1. n + 1 \in Nat /\ n + 1 # 0 /\ (n + 1) - 1 = n
    OBVIOUS
  <2> QED  BY <1>8, <2>1
<1> DEFINE G == {n \in Nat : t[n] \in S}
<1>10. 0 \in G
  BY <1>1, <1>8
<1>11. ASSUME NEW n \in G PROVE n + 1 \in G
  <2>1. n \in Nat /\ t[n] \in Int
    OBVIOUS
  <2> QED  BY <1>2, <1>9, <2>1
<1> HIDE DEF G
<1>12. G = Nat
  BY <1>10, <1>11, InductionSet DEF G
<1>13. \A n \in Nat : t[n] \in S
  BY <1>12 DEF G
<1>14. t[0] = a
  BY <1>8
<1> HIDE DEF S
<1>15. \A n \in Nat : NthOf(m, z, n) \in S
  BY <1>7, <1>13
<1>16. \A n \in Nat : NthOf(m, z, n + 1) = (m * NthOf(m, z, n)) % MaxInt
  BY <1>7, <1>9
<1> QED  BY <1>7, <1>14, <1>15, <1>16 DEF S, a

\* The seed after n calls of next_random, unfolded.
LEMMA AfterFacts ==
  ASSUME NEW s \in Ints
  PROVE  /\ After(s, 0) = s
         /\ \A n \in Nat : After(s, n) \in Ints
         /\ \A n \in Nat : After(s, n + 1) = NextRandom(After(s, n))
<1> DEFINE F == [w \in Nat \X Ints |-> NextRandom(w[2])]
           Draw(f) == f = [k \in Nat |-> IF k = 0 THEN s ELSE NextRandom(f[k - 1])]
           t == CHOOSE f : Draw(f)
<1>1. \A x \in Ints : NextRandom(x) \in Ints
  BY NextIs, Quotients DEF Ints
<1>2. F \in [Nat \X Ints -> Ints]
  BY <1>1
<1>3. PICK h : Iterates(h, Ints, s, F)
  BY <1>2, RecursionExists
<1>4. Draw(h)
  <2>1. h \in [Nat -> Ints] /\ h[0] = s /\ \A n \in Nat : h[n + 1] = F[<<n, h[n]>>]
    BY <1>3 DEF Iterates
  <2>2. ASSUME NEW n \in Nat PROVE h[n] = IF n = 0 THEN s ELSE NextRandom(h[n - 1])
    <3>1. CASE n # 0
      <4>1. n - 1 \in Nat /\ (n - 1) + 1 = n
        BY <3>1
      <4>2. h[n] = F[<<n - 1, h[n - 1]>>] /\ h[n - 1] \in Ints
        BY <2>1, <4>1
      <4>3. F[<<n - 1, h[n - 1]>>] = NextRandom(h[n - 1])
        BY <4>1, <4>2
      <4> HIDE DEF F
      <4> QED  BY <3>1, <4>2, <4>3
    <3> QED  BY <2>1, <3>1
  <2> HIDE DEF F
  <2> QED  BY <2>1, <2>2
<1>5. Draw(t)
  BY <1>4
<1>6. \A n \in Nat : t[n] = After(s, n)
  BY DEF After
<1> HIDE DEF t
<1>7. \A n \in Nat : t[n] = IF n = 0 THEN s ELSE NextRandom(t[n - 1])
  BY <1>5
<1>8. ASSUME NEW n \in Nat PROVE t[n + 1] = NextRandom(t[n])
  <2>1. n + 1 \in Nat /\ n + 1 # 0 /\ (n + 1) - 1 = n
    OBVIOUS
  <2> QED  BY <1>7, <2>1
<1>9. t[0] = s
  BY <1>7
<1> DEFINE G == {n \in Nat : t[n] \in Ints}
<1>10. 0 \in G
  BY <1>9
<1>11. ASSUME NEW n \in G PROVE n + 1 \in G
  BY <1>1, <1>8
<1> HIDE DEF G
<1>12. G = Nat
  BY <1>10, <1>11, InductionSet DEF G
<1>13. \A n \in Nat : t[n] \in Ints
  BY <1>12 DEF G
<1>14. \A n \in Nat : After(s, n) \in Ints
  BY <1>6, <1>13
<1>15. \A n \in Nat : After(s, n + 1) = NextRandom(After(s, n))
  BY <1>6, <1>8
<1> QED  BY <1>6, <1>9, <1>14, <1>15

\* Calls of next_random are numbers of the congruence.
LEMMA AfterIs ==
  ASSUME NEW s \in Ints, NEW n \in Nat
  PROVE  After(s, n) % MaxInt = NthOf(Mult, s, n)
<1> DEFINE G == {k \in Nat : After(s, k) % MaxInt = NthOf(Mult, s, k)}
<1>1. s \in Int /\ Mult \in Int /\ MaxInt \in Nat \ {0}
  BY Quotients DEF Ints
<1>2. 0 \in G
  BY <1>1, AfterFacts, NthOfFacts
<1>3. ASSUME NEW k \in G PROVE k + 1 \in G
  <2>1. PICK x \in Ints : x = After(s, k)
    BY AfterFacts
  <2>2. After(s, k + 1) = (Mult * x) % MaxInt /\ After(s, k + 1) \in 0 .. MaxInt - 1
    BY <2>1, AfterFacts, NextIs
  <2>3. After(s, k + 1) % MaxInt = After(s, k + 1)
    BY <1>1, <2>2
  <2>4. NthOf(Mult, s, k + 1) = (Mult * (x % MaxInt)) % MaxInt
    BY <1>1, <2>1, NthOfFacts
  <2>5. x \in Int
    BY <1>1 DEF Ints
  <2>6. NthOf(Mult, s, k + 1) = (Mult * x) % MaxInt
    BY <1>1, <2>4, <2>5, ModTimes
  <2> QED  BY <2>2, <2>3, <2>6
<1> HIDE DEF G
<1>4. G = Nat
  BY <1>2, <1>3, InductionSet DEF G
<1> QED  BY <1>4 DEF G

\* A stream goes on from where it is.
LEMMA NthMore ==
  ASSUME NEW m \in Int, NEW x \in Int, NEW z \in Int, NEW p \in Nat, NEW n \in Nat,
         x % MaxInt = NthOf(m, z, p)
  PROVE  NthOf(m, x, n) = NthOf(m, z, p + n)
<1> DEFINE G == {k \in Nat : NthOf(m, x, k) = NthOf(m, z, p + k)}
<1>1. 0 \in G
  <2>1. NthOf(m, x, 0) = x % MaxInt /\ p + 0 = p
    BY NthOfFacts
  <2> QED  BY <2>1
<1>2. ASSUME NEW k \in G PROVE k + 1 \in G
  <2>1. k \in Nat /\ p + k \in Nat /\ p + (k + 1) = (p + k) + 1
    OBVIOUS
  <2>2. NthOf(m, x, k + 1) = (m * NthOf(m, x, k)) % MaxInt
    BY <2>1, NthOfFacts
  <2>3. NthOf(m, z, (p + k) + 1) = (m * NthOf(m, z, p + k)) % MaxInt
    BY <2>1, NthOfFacts
  <2> QED  BY <2>1, <2>2, <2>3
<1> HIDE DEF G
<1>3. G = Nat
  BY <1>1, <1>2, InductionSet DEF G
<1> QED  BY <1>3 DEF G

\* Twice as many numbers are as many by the square of the multiplier.
LEMMA NthSquare ==
  ASSUME NEW m \in Int, NEW z \in Int, NEW n \in Nat
  PROVE  NthOf(m, z, 2 * n) = NthOf((m * m) % MaxInt, z, n)
<1> DEFINE w == (m * m) % MaxInt
           G == {k \in Nat : NthOf(m, z, 2 * k) = NthOf(w, z, k)}
<1>1. MaxInt \in Nat \ {0} /\ m * m \in Int
  BY Quotients
<1>2. w \in Int
  BY <1>1, ModOf
<1>3. 0 \in G
  <2>1. 2 * 0 = 0
    OBVIOUS
  <2> HIDE DEF w
  <2> QED  BY <1>2, <2>1, NthOfFacts
<1>4. ASSUME NEW k \in G PROVE k + 1 \in G
  <2>1. k \in Nat /\ 2 * k \in Nat /\ 2 * k + 1 \in Nat /\ 2 * (k + 1) = (2 * k + 1) + 1
    OBVIOUS
  <2>2. PICK x \in Int : x = NthOf(m, z, 2 * k)
    <3>1. \A p \in Nat : NthOf(m, z, p) \in 0 .. MaxInt - 1
      BY NthOfFacts
    <3>2. \A p \in Nat : NthOf(m, z, p) \in Int
      BY <3>1, Quotients
    <3> QED  BY <2>1, <3>2
  <2>3. NthOf(m, z, 2 * k + 1) = (m * x) % MaxInt
    BY <2>1, <2>2, NthOfFacts
  <2>4. NthOf(m, z, (2 * k + 1) + 1) = (m * ((m * x) % MaxInt)) % MaxInt
    BY <2>1, <2>3, NthOfFacts
  <2>5. m * x \in Int /\ m * (m * x) = x * (m * m)
    BY Z3
  <2>6. NthOf(m, z, (2 * k + 1) + 1) = (x * (m * m)) % MaxInt
    <3>1. PICK y \in Int : y = m * x
      BY <2>5
    <3>2. (m * (y % MaxInt)) % MaxInt = (m * y) % MaxInt
      BY <1>1, ModTimes
    <3>3. NthOf(m, z, (2 * k + 1) + 1) = (m * (y % MaxInt)) % MaxInt
      BY <2>4, <3>1
    <3>4. m * y = x * (m * m)
      BY <2>5, <3>1
    <3> HIDE DEF w, G
    <3> QED  BY <3>2, <3>3, <3>4
  <2>7. (x * (m * m)) % MaxInt = (x * w) % MaxInt
    BY <1>1, ModTimes
  <2> HIDE DEF w
  <2>8. NthOf(w, z, k + 1) = (w * x) % MaxInt
    BY <1>2, <2>1, <2>2, NthOfFacts DEF G
  <2>9. w * x = x * w
    BY <1>2, Z3
  <2> QED  BY <2>1, <2>6, <2>7, <2>8, <2>9
<1> HIDE DEF G, w
<1>5. G = Nat
  BY <1>3, <1>4, InductionSet DEF G
<1> QED  BY <1>5 DEF G, w

\* One number may be taken first.
LEMMA NthOnce ==
  ASSUME NEW m \in Int, NEW z \in Int, NEW n \in Nat, NEW x \in Int,
         x % MaxInt = (m * z) % MaxInt
  PROVE  NthOf(m, z, n + 1) = NthOf(m, x, n)
<1>1. MaxInt \in Nat \ {0}
  BY Quotients
<1>2. NthOf(m, z, 1) = (m * (z % MaxInt)) % MaxInt
  <2>1. NthOf(m, z, 0) = z % MaxInt
        /\ \A k \in Nat : NthOf(m, z, k + 1) = (m * NthOf(m, z, k)) % MaxInt
    BY NthOfFacts
  <2>2. \A k, l : k = 0 /\ l = k + 1 => NthOf(m, z, l) = (m * NthOf(m, z, k)) % MaxInt
    BY <2>1
  <2> QED  BY <2>1, <2>2
<1>3. x % MaxInt = NthOf(m, z, 1)
  <2>1. (m * (z % MaxInt)) % MaxInt = (m * z) % MaxInt
    BY <1>1, ModTimes
  <2> QED  BY <1>2, <2>1
<1>4. NthOf(m, x, n) = NthOf(m, z, 1 + n) /\ 1 + n = n + 1
  BY <1>3, NthMore
<1> QED  BY <1>4

-----------------------------------------------------------------------------
(***************************************************************************)
(* skip_random.                                                            *)
(***************************************************************************)
\* The variables of the loop: Z, M and what is left of N.
Loop == [z : Ints, mult : Nat, left : Nat]

\* A turn leaves the number that the loop is to answer.
LEMMA TurnKeeps ==
  ASSUME NEW p \in Loop
  PROVE  /\ SkipTurn(p) \in Loop
         /\ NthOf(SkipTurn(p).mult, SkipTurn(p).z, SkipTurn(p).left) = NthOf(p.mult, p.z, p.left)
         /\ IF p.left = 0 THEN SkipTurn(p).left = 0 ELSE SkipTurn(p).left < p.left
<1> DEFINE z == p.z
           m == p.mult
           n == p.left
           h == n \div 2
           w == (m * m) % MaxInt
<1>1. z \in Ints /\ m \in Nat /\ n \in Nat
  BY DEF Loop
<1>2. z \in Int /\ MaxInt \in Nat \ {0}
  BY <1>1, Quotients DEF Ints
<1>3. CASE n = 0
  BY <1>3 DEF SkipTurn
<1>4. CASE n # 0
  <2> DEFINE y == IF n % 2 # 0 THEN CRem(m * z, MaxInt) ELSE z
  <2>1. SkipTurn(p) = [z |-> y, mult |-> w, left |-> h]
    BY <1>4 DEF SkipTurn
  <2>2. h \in Nat /\ h < n /\ (n % 2 = 0 => n = 2 * h) /\ (n % 2 # 0 => n = 2 * h + 1)
    <3> HIDE DEF n
    <3> QED  BY <1>1, <1>4, Z3
  <2>3. w \in Nat
    <3>1. m * m \in Int
      BY <1>1
    <3> QED  BY <1>2, <3>1, ModOf
  <2> HIDE DEF z, m, n, h
  <2>4. y \in Ints /\ y \in Int /\ NthOf(m, y, 2 * h) = NthOf(m, z, n)
    <3>1. CASE n % 2 = 0
      BY <1>1, <1>2, <2>2, <3>1
    <3>2. CASE n % 2 # 0
      <4>1. m * z \in Int
        BY <1>1, <1>2
      <4>2. PICK x \in Int : x = m * z
        BY <4>1
      <4>3. PICK q \in Int : q = CQuo(x, MaxInt)
        BY <1>2, Truncates
      <4>4. PICK r \in Int : r = CRem(x, MaxInt)
        BY <1>2, Truncates
      <4>5. /\ x = MaxInt * q + r
            /\ x >= 0 => r \in 0 .. MaxInt - 1
            /\ x < 0 => -r \in 0 .. MaxInt - 1
        BY <1>2, <4>3, <4>4, Truncates
      <4>6. r \in Ints
        BY <1>2, <4>5 DEF Ints
      <4>7. r % MaxInt = x % MaxInt
        BY <1>2, <4>5, ModShift
      <4>8. NthOf(m, z, 2 * h + 1) = NthOf(m, r, 2 * h)
        <5>1. 2 * h \in Nat /\ m \in Int
          BY <1>1, <2>2
        <5> QED  BY <1>2, <4>2, <4>7, <5>1, NthOnce
      <4>9. y = r
        BY <3>2, <4>2, <4>4
      <4> HIDE DEF y
      <4> QED  BY <2>2, <3>2, <4>6, <4>8, <4>9
    <3> QED  BY <3>1, <3>2
  <2> HIDE DEF y
  <2>5. NthOf(m, y, 2 * h) = NthOf(w, y, h)
    BY <1>1, <2>2, <2>4, NthSquare
  <2> HIDE DEF w
  <2>6. SkipTurn(p) \in Loop
    BY <2>1, <2>2, <2>3, <2>4 DEF Loop
  <2>7. SkipTurn(p).mult = w /\ SkipTurn(p).z = y /\ SkipTurn(p).left = h
    BY <2>1
  <2>8. NthOf(w, y, h) = NthOf(m, z, n)
    BY <2>4, <2>5
  <2> QED  BY <1>4, <2>2, <2>6, <2>7, <2>8 DEF z, m, n
<1> QED  BY <1>3, <1>4

\* skip_random answers the number n places after the initial one.
LEMMA SkipIs ==
  ASSUME NEW s \in Ints, NEW n \in Nat
  PROVE  SkipRandom(s, n) \in Ints /\ SkipRandom(s, n) % MaxInt = NthOf(Mult, s, n)
<1> DEFINE a == [z |-> s, mult |-> Mult, left |-> n]
           F == [w \in Nat \X Loop |-> SkipTurn(w[2])]
           Turns(f) == f = [k \in Nat |-> IF k = 0 THEN a ELSE SkipTurn(f[k - 1])]
           t == CHOOSE f : Turns(f)
<1>1. a \in Loop
  BY Quotients DEF Loop
<1>2. F \in [Nat \X Loop -> Loop]
  BY TurnKeeps
<1> HIDE DEF a
<1>3. PICK g : Iterates(g, Loop, a, F)
  BY <1>1, <1>2, RecursionExists
<1>4. Turns(g)
  <2>1. g \in [Nat -> Loop] /\ g[0] = a /\ \A k \in Nat : g[k + 1] = F[<<k, g[k]>>]
    BY <1>3 DEF Iterates
  <2>2. ASSUME NEW k \in Nat PROVE g[k] = IF k = 0 THEN a ELSE SkipTurn(g[k - 1])
    <3>1. CASE k # 0
      <4>1. k - 1 \in Nat /\ (k - 1) + 1 = k
        BY <3>1
      <4>2. g[k] = F[<<k - 1, g[k - 1]>>] /\ g[k - 1] \in Loop
        BY <2>1, <4>1
      <4>3. F[<<k - 1, g[k - 1]>>] = SkipTurn(g[k - 1])
        BY <4>1, <4>2
      <4> HIDE DEF F
      <4> QED  BY <3>1, <4>2, <4>3
    <3> QED  BY <2>1, <3>1
  <2> HIDE DEF F
  <2> QED  BY <2>1, <2>2
<1>5. Turns(t)
  BY <1>4
<1>6. SkipRandom(s, n) = t[n].z
  BY DEF SkipRandom, a
<1> HIDE DEF t
<1>7. \A k \in Nat : t[k] = IF k = 0 THEN a ELSE SkipTurn(t[k - 1])
  BY <1>5
<1> DEFINE Good(k) == /\ t[k] \in Loop
                      /\ NthOf(t[k].mult, t[k].z, t[k].left) = NthOf(Mult, s, n)
                      /\ t[k].left = 0 \/ t[k].left + k <= n
           G == {k \in Nat : Good(k)}
<1>8. 0 \in G
  <2>1. t[0] = a
    BY <1>7
  <2>2. a.mult = Mult /\ a.z = s /\ a.left = n
    BY DEF a
  <2> QED  BY <1>1, <2>1, <2>2
<1>9. ASSUME NEW k \in G PROVE k + 1 \in G
  <2>1. k + 1 \in Nat /\ k + 1 # 0 /\ (k + 1) - 1 = k
    OBVIOUS
  <2>2. PICK p \in Loop : p = t[k]
    OBVIOUS
  <2>3. t[k + 1] = SkipTurn(p)
    BY <1>7, <2>1, <2>2
  <2>4. PICK q \in Loop : q = SkipTurn(p)
    BY TurnKeeps
  <2>5. NthOf(q.mult, q.z, q.left) = NthOf(Mult, s, n)
    BY <2>2, <2>4, TurnKeeps
  <2>6. IF p.left = 0 THEN q.left = 0 ELSE q.left < p.left
    BY <2>4, TurnKeeps
  <2>7. p.left = 0 \/ p.left + k <= n
    BY <2>2
  <2>8. q.left = 0 \/ q.left + (k + 1) <= n
    <3>1. p.left \in Nat /\ q.left \in Nat /\ k \in Nat
      BY DEF Loop
    <3> QED  BY <2>6, <2>7, <3>1
  <2> HIDE DEF t
  <2>9. Good(k + 1)
    BY <2>3, <2>4, <2>5, <2>8
  <2> QED  BY <2>1, <2>9
<1> HIDE DEF G
<1>10. G = Nat
  BY <1>8, <1>9, InductionSet DEF G
<1>11. Good(n)
  BY <1>10 DEF G
<1>12. PICK p \in Loop : p = t[n]
  BY <1>11
<1>13. p.left = 0 /\ p.mult \in Nat /\ p.z \in Ints
  BY <1>11, <1>12 DEF Loop
<1>14. NthOf(p.mult, p.z, 0) = NthOf(Mult, s, n)
  BY <1>11, <1>12, <1>13
<1>15. NthOf(p.mult, p.z, 0) = p.z % MaxInt
  <2>1. p.mult \in Int /\ p.z \in Int
    BY <1>13, Quotients DEF Ints
  <2> QED  BY <2>1, NthOfFacts
<1> QED  BY <1>6, <1>12, <1>13, <1>14, <1>15

-----------------------------------------------------------------------------
(***************************************************************************)
(* The streams.                                                            *)
(***************************************************************************)
\* A seed stands for the number at its position.
RngInv ==
  /\ initialSeed \in [AllStreams -> Ints] /\ seed \in [AllStreams -> Ints]
  /\ base \in [AllStreams -> Ints] /\ position \in [AllStreams -> Nat]
  /\ \A s \in AllStreams : seed[s] % MaxInt = Nth(base[s], position[s])
  /\ ~ Seeded => position = [s \in AllStreams |-> 0] /\ drawn.kind = "nothing"
  /\ drawn.kind = "integer" =>
       /\ drawn.value \in drawn.range[1] .. drawn.range[2]
       /\ drawn.value = drawn.range[1]
            + (Nth(base[drawn.stream], position[drawn.stream])
                 % (drawn.range[2] - drawn.range[1] + 1))

\* What Nth is.
LEMMA NthIs == ASSUME NEW z, NEW n PROVE Nth(z, n) = NthOf(Mult, z, n)
BY Zenon DEF Nth, NthOf

\* A stream set to a seed is at its first place.
LEMMA NthNone == ASSUME NEW z \in Ints PROVE z % MaxInt = Nth(z, 0)
<1>1. z \in Int /\ Mult \in Int
  BY Quotients DEF Ints
<1> QED  BY <1>1, NthIs, NthOfFacts

\* n calls of next_random are n places further.
LEMMA NthDraws ==
  ASSUME NEW x \in Ints, NEW z \in Ints, NEW p \in Nat, NEW n \in Nat,
         x % MaxInt = Nth(z, p)
  PROVE  After(x, n) \in Ints /\ After(x, n) % MaxInt = Nth(z, p + n)
<1>1. z \in Int /\ x \in Int /\ Mult \in Int
  BY Quotients DEF Ints
<1>2. NthOf(Mult, x, n) = NthOf(Mult, z, p + n)
  BY <1>1, NthIs, NthMore
<1> QED  BY <1>2, AfterFacts, AfterIs, NthIs

\* Seeds, positions and what they count from, but for the number last drawn.
StreamsInv ==
  /\ initialSeed \in [AllStreams -> Ints] /\ seed \in [AllStreams -> Ints]
  /\ base \in [AllStreams -> Ints] /\ position \in [AllStreams -> Nat]
  /\ \A s \in AllStreams : seed[s] % MaxInt = Nth(base[s], position[s])

\* next_random, called n times.
LEMMA DrawsStep ==
  ASSUME RngInv, NEW s \in AllStreams, NEW n \in Nat, Draws(s, n)
  PROVE  StreamsInv' /\ Seeded' /\ seed'[s] = After(seed[s], n)
<1>1. /\ Seeded /\ UNCHANGED <<initialSeed, base>>
      /\ seed' = [seed EXCEPT ![s] = After(@, n)]
      /\ position' = [position EXCEPT ![s] = @ + n]
  BY DEF Draws
<1>2. /\ initialSeed \in [AllStreams -> Ints] /\ seed \in [AllStreams -> Ints]
      /\ base \in [AllStreams -> Ints] /\ position \in [AllStreams -> Nat]
      /\ \A d \in AllStreams : seed[d] % MaxInt = Nth(base[d], position[d])
  BY DEF RngInv
<1>3. After(seed[s], n) \in Ints /\ After(seed[s], n) % MaxInt = Nth(base[s], position[s] + n)
  BY <1>2, NthDraws
<1>4. seed' \in [AllStreams -> Ints] /\ position' \in [AllStreams -> Nat]
  BY <1>1, <1>2, <1>3
<1>5. \A d \in AllStreams : seed'[d] % MaxInt = Nth(base[d], position'[d])
  <2> TAKE d \in AllStreams
  <2>1. CASE d = s
    BY <1>1, <1>2, <1>3, <2>1
  <2>2. CASE d # s
    BY <1>1, <1>2, <2>2
  <2> QED  BY <2>1, <2>2
<1>6. \A z, p : Nth(z, p)' = Nth(z, p)
  BY DEF Nth
<1>7. StreamsInv'
  BY <1>1, <1>2, <1>4, <1>5 DEF StreamsInv
<1> QED  BY <1>1, <1>2, <1>7 DEF Seeded

\* A seed is put in some streams' place.
LEMMA SetStep ==
  ASSUME RngInv, NEW streams \in SUBSET AllStreams, NEW f \in [AllStreams -> Ints],
         seed' = [s \in AllStreams |-> IF s \in streams THEN f[s] ELSE seed[s]],
         base' = [s \in AllStreams |-> IF s \in streams THEN f[s] ELSE base[s]],
         position' = [s \in AllStreams |-> IF s \in streams THEN 0 ELSE position[s]],
         UNCHANGED initialSeed, Seeded, drawn' = [kind |-> "nothing"]
  PROVE  RngInv'
<1>1. /\ initialSeed \in [AllStreams -> Ints] /\ seed \in [AllStreams -> Ints]
      /\ base \in [AllStreams -> Ints] /\ position \in [AllStreams -> Nat]
      /\ \A d \in AllStreams : seed[d] % MaxInt = Nth(base[d], position[d])
  BY DEF RngInv
<1>2. /\ seed' \in [AllStreams -> Ints] /\ base' \in [AllStreams -> Ints]
      /\ position' \in [AllStreams -> Nat] /\ initialSeed' \in [AllStreams -> Ints]
  BY <1>1
<1>3. \A d \in AllStreams : seed'[d] % MaxInt = Nth(base'[d], position'[d])
  BY <1>1, NthNone
<1>4. Seeded'
  BY DEF Seeded
<1>5. drawn'.kind = "nothing" /\ drawn'.kind # "integer"
  OBVIOUS
<1> QED  BY <1>2, <1>3, <1>4, <1>5 DEF RngInv

\* A number asked for.
LEMMA IntegerStep ==
  ASSUME RngInv, NEW s \in AllStreams, GenrandInteger(s)
  PROVE  RngInv'
<1>1. PICK range \in Ranges :
        /\ Draws(s, 1)
        /\ drawn' = [kind |-> "integer", stream |-> s, range |-> range,
                     value |-> Uniform(seed'[s], range[1], range[2])]
  BY DEF GenrandInteger
<1>2. StreamsInv' /\ Seeded' /\ seed'[s] = After(seed[s], 1)
  BY <1>1, DrawsStep
<1>3. range[1] \in Int /\ range[2] \in Int /\ range[1] <= range[2]
  BY RngAssumption
<1> DEFINE w == range[2] - range[1] + 1
<1>4. w \in Nat \ {0} /\ range[1] + (w - 1) = range[2]
  BY <1>3
<1>5. PICK x \in 0 .. MaxInt - 1 : x = seed'[s]
  <2>1. seed[s] \in Ints
    BY DEF RngInv
  <2>2. \A k, l : k = 0 /\ l = k + 1 => After(seed[s], l) = NextRandom(After(seed[s], k))
    BY <2>1, AfterFacts
  <2>3. After(seed[s], 1) = NextRandom(seed[s])
    BY <2>1, <2>2, AfterFacts
  <2> QED  BY <1>2, <2>1, <2>3, NextIs
<1>6. x = Nth(base'[s], position'[s])
  <2>1. x % MaxInt = x
    BY Quotients
  <2> QED  BY <1>2, <1>5, <2>1 DEF StreamsInv
<1>7. x \in Int /\ x >= 0 /\ Uniform(x, range[1], range[2]) = range[1] + (x % w)
  <2>1. x \in Nat
    OBVIOUS
  <2>2. x = w * (x \div w) + (x % w)
    <3> HIDE DEF w
    <3> QED  BY <1>4, <2>1, Z3
  <2>3. CRem(x, w) = x - w * (x \div w)
    BY <2>1 DEF CRem, CQuo
  <2>4. x % w \in Int /\ w * (x \div w) \in Int
    <3> HIDE DEF w
    <3> QED  BY <1>4, <2>1, Z3
  <2>5. CRem(x, w) = x % w
    <3> HIDE DEF w
    <3> QED  BY <2>1, <2>2, <2>3, <2>4
  <2> QED  BY <2>1, <2>5 DEF Uniform
<1>8. x % w \in 0 .. w - 1
  BY <1>4, <1>7, ModOf
<1>9. range[1] + (x % w) \in range[1] .. range[2]
  <2> HIDE DEF w
  <2> QED  BY <1>3, <1>4, <1>8
<1>10. /\ drawn'.kind = "integer" /\ drawn'.stream = s /\ drawn'.range = range
       /\ drawn'.value = range[1] + (x % w)
  BY <1>1, <1>5, <1>7
<1>11. /\ drawn'.value \in drawn'.range[1] .. drawn'.range[2]
       /\ drawn'.value = drawn'.range[1]
            + (Nth(base'[drawn'.stream], position'[drawn'.stream])
                 % (drawn'.range[2] - drawn'.range[1] + 1))
  BY <1>6, <1>9, <1>10
<1> HIDE DEF w
<1> QED  BY <1>2, <1>11 DEF RngInv, StreamsInv

\* An int that overflowed is an int.
LEMMA ToIntIs == ASSUME NEW x \in Int PROVE ToInt(x) \in Ints
<1> DEFINE n == 2 * (MaxInt + 1)
<1>1. n \in Nat \ {0} /\ MaxInt \in Nat
  BY Quotients
<1>2. x + MaxInt + 1 \in Int
  BY <1>1
<1>3. (x + MaxInt + 1) % n \in 0 .. n - 1
  <2> HIDE DEF n
  <2> QED  BY <1>1, <1>2, ModOf
<1>4. PICK r \in 0 .. n - 1 : r = (x + MaxInt + 1) % n
  BY <1>3
<1>5. ToInt(x) = r - (MaxInt + 1)
  BY <1>4 DEF ToInt
<1> QED  BY <1>1, <1>4, <1>5 DEF Ints

\* No program has drawn anything before it starts.
LEMMA RngInitInv == RngInit => RngInv
<1> SUFFICES ASSUME RngInit PROVE RngInv
  OBVIOUS
<1>1. 0 \in Ints
  BY Quotients DEF Ints
<1>2. /\ initialSeed = [s \in AllStreams |-> 0] /\ seed = [s \in AllStreams |-> 0]
      /\ base = [s \in AllStreams |-> 0] /\ position = [s \in AllStreams |-> 0]
      /\ drawn = [kind |-> "nothing"]
  BY DEF RngInit
<1>3. \A s \in AllStreams : seed[s] % MaxInt = Nth(base[s], position[s])
  BY <1>1, <1>2, NthNone
<1>4. drawn.kind = "nothing" /\ drawn.kind # "integer"
  BY <1>2
<1> QED  BY <1>1, <1>2, <1>3, <1>4 DEF RngInv

\* Every call keeps it so.
LEMMA RngNextInv == RngInv /\ [RngNext]_rngVars => RngInv'
<1> SUFFICES ASSUME RngInv, [RngNext]_rngVars PROVE RngInv'
  OBVIOUS
<1>1. /\ initialSeed \in [AllStreams -> Ints] /\ seed \in [AllStreams -> Ints]
      /\ base \in [AllStreams -> Ints] /\ position \in [AllStreams -> Nat]
      /\ \A d \in AllStreams : seed[d] % MaxInt = Nth(base[d], position[d])
      /\ ~ Seeded => position = [s \in AllStreams |-> 0] /\ drawn.kind = "nothing"
  BY DEF RngInv
<1>2. CASE InitRand
  <2>1. PICK nSeed \in Seeds :
          initialSeed' = [s \in AllStreams |->
            IF s < MaxColumn THEN ToInt(nSeed + (MaxInt \div MaxColumn) * s) ELSE 0]
    BY <1>2 DEF InitRand
  <2>2. /\ seed' = initialSeed' /\ base' = initialSeed' /\ UNCHANGED <<position, drawn>>
        /\ ~ Seeded
    BY <1>2 DEF InitRand, Seeded
  <2>3. nSeed \in Int /\ 0 \in Ints
    BY RngAssumption, Quotients DEF Ints
  <2>4. ASSUME NEW s \in AllStreams
        PROVE  ToInt(nSeed + (MaxInt \div MaxColumn) * s) \in Ints
    <3>1. MaxInt \div MaxColumn \in Int /\ s \in Int
      BY RngAssumption, Quotients DEF AllStreams
    <3>2. nSeed + (MaxInt \div MaxColumn) * s \in Int
      BY <2>3, <3>1
    <3> QED  BY <3>2, ToIntIs
  <2>5. initialSeed' \in [AllStreams -> Ints]
    BY <2>1, <2>3, <2>4
  <2>6. \A s \in AllStreams : position'[s] = 0 /\ seed'[s] % MaxInt = Nth(base'[s], position'[s])
    BY <1>1, <2>2, <2>5, NthNone
  <2>7. drawn' = drawn /\ drawn.kind = "nothing" /\ position' = [s \in AllStreams |-> 0]
    BY <1>1, <2>2
  <2> QED  BY <1>1, <2>2, <2>5, <2>6, <2>7 DEF RngInv
<1>3. ASSUME NEW s \in AllStreams, GenrandInteger(s) PROVE RngInv'
  BY <1>3, IntegerStep
<1>4. ASSUME NEW s \in AllStreams, GenrandExponential(s) PROVE RngInv'
  <2>1. Draws(s, 12) /\ drawn'.kind = "exponential"
    BY <1>4 DEF GenrandExponential
  <2>2. StreamsInv' /\ Seeded'
    BY <2>1, DrawsStep
  <2> QED  BY <2>1, <2>2 DEF RngInv, StreamsInv
<1>5. ASSUME NEW s \in AllStreams, GenrandText(s) PROVE RngInv'
  <2>1. PICK n \in {CharsetDraws(5), EmailDraws, IpaddrDraws} :
          Draws(s, n) /\ drawn' = [kind |-> "text", stream |-> s]
    BY <1>5 DEF GenrandText
  <2>2. n \in Nat /\ drawn'.kind = "text"
    BY <2>1 DEF CharsetDraws, EmailDraws, IpaddrDraws
  <2>3. StreamsInv' /\ Seeded'
    BY <2>1, <2>2, DrawsStep
  <2> QED  BY <2>2, <2>3 DEF RngInv, StreamsInv
<1>6. ASSUME NEW s \in AllStreams, SkipTo(s) PROVE RngInv'
  <2>1. PICK n \in Skips :
          /\ Seeded
          /\ seed' = [seed EXCEPT ![s] = SkipRandom(initialSeed[s], n)]
          /\ position' = [position EXCEPT ![s] = n]
          /\ base' = [base EXCEPT ![s] = initialSeed[s]]
          /\ drawn' = [kind |-> "nothing"] /\ UNCHANGED initialSeed
    BY <1>6 DEF SkipTo
  <2>2. n \in Nat /\ initialSeed[s] \in Ints
    BY <1>1, RngAssumption
  <2>3. /\ SkipRandom(initialSeed[s], n) \in Ints
        /\ SkipRandom(initialSeed[s], n) % MaxInt = Nth(initialSeed[s], n)
    BY <2>2, SkipIs, NthIs
  <2>4. /\ seed' \in [AllStreams -> Ints] /\ base' \in [AllStreams -> Ints]
        /\ position' \in [AllStreams -> Nat] /\ initialSeed' \in [AllStreams -> Ints]
    BY <1>1, <2>1, <2>2, <2>3
  <2>5. \A d \in AllStreams : seed'[d] % MaxInt = Nth(base'[d], position'[d])
    <3> TAKE d \in AllStreams
    <3>1. CASE d = s
      BY <1>1, <2>1, <2>2, <2>3, <3>1
    <3>2. CASE d # s
      BY <1>1, <2>1, <3>2
    <3> QED  BY <3>1, <3>2
  <2>6. Seeded' /\ drawn'.kind = "nothing"
    BY <2>1 DEF Seeded
  <2> QED  BY <2>4, <2>5, <2>6 DEF RngInv
<1>7. ASSUME NEW streams \in SUBSET AllStreams, Restart(streams) PROVE RngInv'
  <2>1. /\ seed' = [s \in AllStreams |-> IF s \in streams THEN initialSeed[s] ELSE seed[s]]
        /\ base' = [s \in AllStreams |-> IF s \in streams THEN initialSeed[s] ELSE base[s]]
        /\ position' = [s \in AllStreams |-> IF s \in streams THEN 0 ELSE position[s]]
        /\ UNCHANGED initialSeed /\ Seeded /\ drawn' = [kind |-> "nothing"]
    BY <1>7 DEF Restart
  <2> QED  BY <1>1, <2>1, SetStep
<1>8. CASE SetSeed(ValidateStream)
  <2> DEFINE V == ValidateStream
  <2>1. PICK value \in Seeds :
          /\ Seeded /\ seed' = [seed EXCEPT ![V] = value] /\ base' = [base EXCEPT ![V] = value]
          /\ position' = [position EXCEPT ![V] = 0]
          /\ drawn' = [kind |-> "nothing"] /\ UNCHANGED initialSeed
    BY <1>8 DEF SetSeed
  <2>2. value \in Ints /\ V \in AllStreams
    BY RngAssumption
  <2> DEFINE f == [s \in AllStreams |-> value]
  <2>3. f \in [AllStreams -> Ints] /\ {V} \in SUBSET AllStreams
    BY <2>2
  <2>4. /\ seed' = [s \in AllStreams |-> IF s \in {V} THEN f[s] ELSE seed[s]]
        /\ base' = [s \in AllStreams |-> IF s \in {V} THEN f[s] ELSE base[s]]
        /\ position' = [s \in AllStreams |-> IF s \in {V} THEN 0 ELSE position[s]]
    BY <1>1, <2>1, <2>2
  <2>5. Seeded /\ UNCHANGED initialSeed /\ drawn' = [kind |-> "nothing"]
    BY <2>1
  <2> DEFINE streams == {V}
  <2>6. streams \in SUBSET AllStreams
    BY <2>3
  <2>7. /\ seed' = [s \in AllStreams |-> IF s \in streams THEN f[s] ELSE seed[s]]
        /\ base' = [s \in AllStreams |-> IF s \in streams THEN f[s] ELSE base[s]]
        /\ position' = [s \in AllStreams |-> IF s \in streams THEN 0 ELSE position[s]]
    BY <2>4
  <2> HIDE DEF f, V, streams
  <2> QED  BY <2>3, <2>5, <2>6, <2>7, SetStep
<1>9. ASSUME NEW t, RNGReset(t) \/ ResetSeeds(t) PROVE RngInv'
  BY <1>7, <1>9 DEF RNGReset, ResetSeeds
<1>10. CASE UNCHANGED rngVars
  BY <1>10 DEF rngVars, RngInv, Seeded, Nth
<1> QED  BY <1>2, <1>3, <1>4, <1>5, <1>6, <1>8, <1>9, <1>10 DEF RngNext

\* Wherever a stream is skipped to, put back or drawn from (genrand.c), its seed
\* is that of the number at its position, for every modulus and multiplier that
\* next_random can compute with and every -RNGSEED.
THEOREM SkipsAreDraws == RngSpec => []SkipIsDraws
<1>1. RngInv => SkipIsDraws
  BY DEF RngInv, SkipIsDraws
<1> QED  BY <1>1, RngInitInv, RngNextInv, PTL DEF RngSpec

-----------------------------------------------------------------------------
(***************************************************************************)
(* Lists. The invariant says that the links are those of some order of the *)
(* members, and where in that order the reader is.                         *)
(***************************************************************************)
\* The members of a list in order, as its links give them.
Order(q, n, nexts, first) ==
  /\ q \in Seq(Nat \ {0}) /\ Len(q) = n
  /\ \A i \in 1 .. n : q[i] \in 1 .. n
  /\ \A m \in 1 .. n : \E i \in 1 .. n : q[i] = m
  /\ \A i, j \in 1 .. n : q[i] = q[j] => i = j
  /\ first = IF n = 0 THEN NULL ELSE q[1]
  /\ \A i \in 1 .. n : nexts[q[i]] = IF i = n THEN NULL ELSE q[i + 1]

LEMMA ConsIs ==
  ASSUME NEW x \in Nat, NEW s \in Seq(Nat), NEW t \in Seq(Nat), Len(t) = Len(s) + 1,
         t[1] = x, \A k \in 1 .. Len(s) : t[k + 1] = s[k]
  PROVE  t = <<x>> \o s
<1>1. <<x>> \o s \in Seq(Nat) /\ Len(<<x>> \o s) = Len(t)
  OBVIOUS
<1>2. ASSUME NEW k \in 1 .. Len(t) PROVE t[k] = (<<x>> \o s)[k]
  <2>1. CASE k = 1
    BY <2>1
  <2>2. CASE k # 1
    <3>1. k - 1 \in 1 .. Len(s) /\ (k - 1) + 1 = k
      BY <2>2
    <3>2. t[k] = s[k - 1]
      BY <3>1
    <3> QED  BY <2>2, <3>1, <3>2
  <2> QED  BY <2>1, <2>2
<1> QED  BY <1>1, <1>2

\* Where pNext leads from the head on is that order.
LEMMA ChainIs ==
  ASSUME NEW q, Order(q, Len(ranks), pNext, head), ranks \in Seq(Int)
  PROVE  Chain = q
<1> DEFINE N == Len(ranks)
           D == 1 .. N \cup {NULL}
           From(f) == f = [n \in D |-> IF n = NULL THEN <<>> ELSE <<n>> \o f[pNext[n]]]
           from == CHOOSE f : From(f)
           Rest(i) == [k \in 1 .. (N - i) + 1 |-> q[(i + k) - 1]]
           at == [m \in 1 .. N |-> CHOOSE i \in 1 .. N : q[i] = m]
           g == [n \in D |-> IF n = NULL THEN <<>> ELSE Rest(at[n])]
<1>1. N \in Nat /\ Nodes = 1 .. N /\ q \in Seq(Nat) /\ Len(q) = N
  BY DEF Order, Nodes
<1>2. \A i \in 1 .. N : q[i] \in 1 .. N /\ pNext[q[i]] = IF i = N THEN NULL ELSE q[i + 1]
  BY DEF Order
<1>3. \A m \in 1 .. N : at[m] \in 1 .. N /\ q[at[m]] = m
  BY DEF Order
<1>4. \A i \in 1 .. N : at[q[i]] = i
  BY <1>2, <1>3 DEF Order
<1>5. Chain = from[head]
  BY <1>1 DEF Chain
<1> HIDE DEF at
<1>6. ASSUME NEW i \in 1 .. N
      PROVE  Rest(i) = <<q[i]>> \o (IF i = N THEN <<>> ELSE Rest(i + 1))
  <2> DEFINE s == IF i = N THEN <<>> ELSE Rest(i + 1)
  <2>1. /\ Rest(i) \in Seq(Nat) /\ Len(Rest(i)) = (N - i) + 1
        /\ \A k \in 1 .. (N - i) + 1 : Rest(i)[k] = q[(i + k) - 1]
    BY <1>1, <1>2
  <2>2. s \in Seq(Nat) /\ Len(s) = N - i /\ \A k \in 1 .. N - i : s[k] = q[i + k]
    <3>1. CASE i = N
      BY <3>1
    <3>2. CASE i # N
      <4>1. i + 1 \in 1 .. N
        BY <1>1, <3>2
      <4>2. /\ Rest(i + 1) \in Seq(Nat) /\ Len(Rest(i + 1)) = (N - (i + 1)) + 1
            /\ \A k \in 1 .. (N - (i + 1)) + 1 : Rest(i + 1)[k] = q[((i + 1) + k) - 1]
        BY <1>1, <1>2, <4>1
      <4> HIDE DEF Rest, N
      <4>3. \A k \in 1 .. N - i : k \in 1 .. (N - (i + 1)) + 1 /\ ((i + 1) + k) - 1 = i + k
        BY <1>1
      <4> QED  BY <1>1, <3>2, <4>1, <4>2, <4>3
    <3> QED  BY <3>1, <3>2
  <2> HIDE DEF Rest, s, N
  <2>3. Rest(i)[1] = q[i]
    <3>1. 1 \in 1 .. (N - i) + 1 /\ (i + 1) - 1 = i
      BY <1>1
    <3> QED  BY <2>1, <3>1
  <2>4. \A k \in 1 .. Len(s) : Rest(i)[k + 1] = s[k]
    <3> TAKE k \in 1 .. Len(s)
    <3>1. k \in 1 .. N - i /\ k + 1 \in 1 .. (N - i) + 1 /\ (i + (k + 1)) - 1 = i + k
      BY <1>1, <2>2
    <3> QED  BY <2>1, <2>2, <3>1
  <2>5. q[i] \in Nat /\ Len(Rest(i)) = Len(s) + 1
    BY <1>1, <1>2, <2>1, <2>2
  <2>6. Rest(i) = <<q[i]>> \o s
    BY <2>1, <2>2, <2>3, <2>4, <2>5, ConsIs
  <2> QED  BY <2>6 DEF s
<1>7. From(g)
  <2>1. ASSUME NEW n \in D
        PROVE  g[n] = IF n = NULL THEN <<>> ELSE <<n>> \o g[pNext[n]]
    <3>1. CASE n # NULL
      <4>1. PICK i \in 1 .. N : i = at[n] /\ q[i] = n /\ n \in 1 .. N
        BY <1>3, <3>1
      <4>2. g[n] = Rest(i)
        BY <3>1, <4>1
      <4>3. pNext[n] \in D /\ g[pNext[n]] = IF i = N THEN <<>> ELSE Rest(i + 1)
        <5>1. CASE i = N
          BY <1>2, <4>1, <5>1
        <5>2. CASE i # N
          <6>0. i + 1 \in 1 .. N
            BY <1>1, <4>1, <5>2
          <6>1. pNext[n] = q[i + 1] /\ q[i + 1] \in 1 .. N
            BY <1>2, <4>1, <5>2, <6>0
          <6>2. at[q[i + 1]] = i + 1 /\ q[i + 1] # NULL
            BY <1>4, <6>0, <6>1 DEF NULL
          <6> HIDE DEF Rest
          <6> QED  BY <5>2, <6>1, <6>2
        <5> QED  BY <5>1, <5>2
      <4> HIDE DEF Rest, g
      <4> QED  BY <1>6, <3>1, <4>1, <4>2, <4>3
    <3> QED  BY <3>1
  <2>2. g = [n \in D |-> g[n]]
    OBVIOUS
  <2> HIDE DEF g
  <2> QED  BY <2>1, <2>2
<1>8. From(from)
  BY <1>7
<1> HIDE DEF from, g
<1>9. \A n \in D : from[n] = IF n = NULL THEN <<>> ELSE <<n>> \o from[pNext[n]]
  BY <1>8
<1> HIDE DEF From
<1> DEFINE G == {k \in Nat : k < N => from[q[N - k]] = Rest(N - k)}
<1>10. ASSUME NEW i \in 1 .. N, i # N => from[q[i + 1]] = Rest(i + 1)
       PROVE  from[q[i]] = Rest(i)
  <2>1. q[i] \in D /\ q[i] # NULL
    BY <1>2 DEF NULL
  <2>2. from[q[i]] = <<q[i]>> \o from[pNext[q[i]]]
    BY <1>9, <2>1
  <2>3. from[pNext[q[i]]] = IF i = N THEN <<>> ELSE Rest(i + 1)
    <3>1. from[NULL] = <<>>
      BY <1>9
    <3> HIDE DEF Rest
    <3> QED  BY <1>2, <1>10, <3>1
  <2> HIDE DEF Rest
  <2> QED  BY <1>6, <2>2, <2>3
<1>11. 0 \in G
  <2>1. N > 0 => N - 0 \in 1 .. N /\ N - 0 = N
    BY <1>1
  <2> HIDE DEF Rest
  <2> QED  BY <1>10, <2>1
<1>12. ASSUME NEW k \in G PROVE k + 1 \in G
  <2>0. k \in Nat /\ (k < N => from[q[N - k]] = Rest(N - k))
    BY DEF G
  <2> HIDE DEF Rest, N
  <2>4. k + 1 \in Nat
    BY <2>0
  <2> SUFFICES ASSUME k + 1 < N PROVE from[q[N - (k + 1)]] = Rest(N - (k + 1))
    BY <2>4 DEF G
  <2> HIDE DEF G
  <2>1. PICK i \in 1 .. N : i = N - (k + 1) /\ i + 1 = N - k /\ i # N
    <3>1. N \in Nat /\ k \in Nat /\ k + 1 < N
      BY <1>1, <2>0
    <3> QED  BY <3>1
  <2>2. from[q[i + 1]] = Rest(i + 1)
    <3>1. k < N
      BY <1>1, <2>0
    <3> QED  BY <2>0, <2>1, <3>1
  <2> HIDE DEF Rest
  <2> QED  BY <1>10, <2>1, <2>2
<1> HIDE DEF G
<1>17. G = Nat
  BY <1>11, <1>12, InductionSet DEF G
<1>14. CASE N = 0
  <2>1. head = NULL
    BY <1>14 DEF Order
  <2>2. from[head] = <<>>
    BY <1>9, <2>1
  <2> QED  BY <1>1, <1>5, <1>14, <2>2
<1>15. CASE N # 0
  <2>1. N - 1 \in Nat /\ N - 1 < N /\ N - (N - 1) = 1 /\ 1 \in 1 .. N
    BY <1>1, <1>15
  <2>2. from[q[1]] = Rest(1)
    BY <1>17, <2>1 DEF G
  <2>3. head = q[1]
    BY <1>15 DEF Order
  <2>4. Rest(1) = q
    <3>1. (N - 1) + 1 = N /\ \A k \in 1 .. N : (1 + k) - 1 = k
      BY <1>1
    <3>2. Rest(1) = [k \in 1 .. (N - 1) + 1 |-> q[(1 + k) - 1]]
      OBVIOUS
    <3>3. q = [k \in 1 .. N |-> q[k]]
      BY <1>1
    <3> HIDE DEF Rest, N
    <3> QED  BY <3>1, <3>2, <3>3
  <2> QED  BY <1>5, <2>2, <2>3, <2>4
<1> QED  BY <1>14, <1>15

\* Member n put into the order at place p.
Insert(q, p, n) ==
  [k \in 1 .. Len(q) + 1 |-> IF k < p THEN q[k] ELSE IF k = p THEN n ELSE q[k - 1]]

\* Where it takes the one at place i.
Moved(p, i) == IF i < p THEN i ELSE i + 1

\* Sequence t is q, which has n members, with x put in.
WithMember(t, q, n, p, x) ==
  /\ \A k \in 1 .. n + 1 :
       /\ k < p => k \in 1 .. n /\ t[k] = q[k]
       /\ k > p => k - 1 \in 1 .. n /\ t[k] = q[k - 1]
  /\ t[p] = x
  /\ \A i \in 1 .. n : Moved(p, i) \in 1 .. n + 1 /\ t[Moved(p, i)] = q[i]
  /\ \A k \in 1 .. n + 1 : k # p => \E i \in 1 .. n : k = Moved(p, i)

LEMMA Inserted ==
  ASSUME NEW n \in Nat, NEW q \in Seq(Nat), Len(q) = n, NEW p \in 1 .. n + 1, NEW x
  PROVE  WithMember(Insert(q, p, x), q, n, p, x)
<1> DEFINE t == Insert(q, p, x)
<1>1. p \in Nat /\ 1 <= p /\ p <= n + 1
  OBVIOUS
<1>2. \A k \in 1 .. n + 1 :
        t[k] = IF k < p THEN q[k] ELSE IF k = p THEN x ELSE q[k - 1]
  BY DEF Insert
<1> HIDE DEF t
<1>3. ASSUME NEW k \in 1 .. n + 1
      PROVE  /\ k < p => k \in 1 .. n /\ t[k] = q[k]
             /\ k > p => k - 1 \in 1 .. n /\ t[k] = q[k - 1]
  <2>1. k < p => k \in 1 .. n
    BY <1>1
  <2>2. k > p => k - 1 \in 1 .. n /\ ~(k < p) /\ k # p
    BY <1>1
  <2> QED  BY <1>2, <2>1, <2>2
<1>4. ASSUME NEW i \in 1 .. n
      PROVE  Moved(p, i) \in 1 .. n + 1 /\ t[Moved(p, i)] = q[i]
  <2>1. CASE i < p
    <3>1. i \in 1 .. n + 1
      OBVIOUS
    <3> QED  BY <1>3, <2>1, <3>1 DEF Moved
  <2>2. CASE ~(i < p)
    <3>1. i + 1 \in 1 .. n + 1 /\ i + 1 > p /\ (i + 1) - 1 = i
      BY <1>1, <2>2
    <3>2. t[i + 1] = q[(i + 1) - 1]
      BY <1>3, <3>1
    <3> QED  BY <2>2, <3>1, <3>2 DEF Moved
  <2> QED  BY <2>1, <2>2
<1>5. ASSUME NEW k \in 1 .. n + 1, k # p PROVE \E i \in 1 .. n : k = Moved(p, i)
  <2>1. CASE k < p
    BY <1>3, <2>1 DEF Moved
  <2>2. CASE ~(k < p)
    <3>1. k > p /\ (k - 1) + 1 = k /\ ~(k - 1 < p)
      BY <1>1, <1>5, <2>2
    <3> QED  BY <1>3, <3>1 DEF Moved
  <2> QED  BY <2>1, <2>2
<1>6. t[p] = x
  BY <1>1, <1>2
<1> QED  BY <1>3, <1>4, <1>5, <1>6 DEF WithMember, t

\* The links by which addList puts a new member in, wherever it does, are those
\* of the order with that member put in.
LEMMA InsertIs ==
  ASSUME NEW n \in Nat, NEW q, NEW nexts, NEW first, Order(q, n, nexts, first),
         NEW p \in 1 .. n + 1, NEW nexts2, NEW first2,
         first2 = (IF p = 1 THEN n + 1 ELSE first),
         nexts2[n + 1] = (IF p = 1 THEN first ELSE nexts[q[p - 1]]),
         \A m \in 1 .. n :
           nexts2[m] = IF p # 1 /\ m = q[p - 1] THEN n + 1 ELSE nexts[m]
  PROVE  Order(Insert(q, p, n + 1), n + 1, nexts2, first2)
<1> DEFINE t == Insert(q, p, n + 1)
<1>1. /\ q \in Seq(Nat \ {0}) /\ Len(q) = n
      /\ \A i \in 1 .. n : q[i] \in 1 .. n
      /\ \A m \in 1 .. n : \E i \in 1 .. n : q[i] = m
      /\ \A i, j \in 1 .. n : q[i] = q[j] => i = j
      /\ first = IF n = 0 THEN NULL ELSE q[1]
      /\ \A i \in 1 .. n : nexts[q[i]] = IF i = n THEN NULL ELSE q[i + 1]
  BY DEF Order
<1>2. p \in Nat /\ 1 <= p /\ p <= n + 1
  OBVIOUS
<1>3. /\ \A k \in 1 .. n + 1 :
           /\ k < p => k \in 1 .. n /\ t[k] = q[k]
           /\ k > p => k - 1 \in 1 .. n /\ t[k] = q[k - 1]
      /\ t[p] = n + 1
      /\ \A i \in 1 .. n : Moved(p, i) \in 1 .. n + 1 /\ t[Moved(p, i)] = q[i]
      /\ \A k \in 1 .. n + 1 : k # p => \E i \in 1 .. n : k = Moved(p, i)
  <2>1. q \in Seq(Nat)
    BY <1>1
  <2> HIDE DEF t
  <2>2. WithMember(t, q, n, p, n + 1)
    BY <1>1, <2>1, Inserted DEF t
  <2> QED  BY <2>2 DEF WithMember
<1>4. t \in Seq(Nat \ {0}) /\ Len(t) = n + 1 /\ \A k \in 1 .. n + 1 : t[k] \in 1 .. n + 1
  <2>1. \A k \in 1 .. n + 1 : t[k] \in 1 .. n + 1
    <3> TAKE k \in 1 .. n + 1
    <3> HIDE DEF t
    <3>1. \A i \in 1 .. n : q[i] \in 1 .. n + 1
      <4>1. \A m \in 1 .. n : m \in 1 .. n + 1
        OBVIOUS
      <4> QED  BY <1>1, <4>1
    <3>2. n + 1 \in 1 .. n + 1
      OBVIOUS
    <3>3. k < p \/ k = p \/ k > p
      BY <1>2
    <3> QED  BY <1>2, <1>3, <3>1, <3>2, <3>3
  <2>2. t = [k \in 1 .. n + 1 |-> t[k]]
    BY <1>1 DEF Insert
  <2> HIDE DEF t
  <2>3. n + 1 \in Nat /\ \A k \in 1 .. n + 1 : t[k] \in Nat \ {0}
    BY <2>1
  <2>4. t \in Seq(Nat \ {0})
    BY <2>2, <2>3
  <2> QED  BY <2>1, <2>2, <2>3, <2>4
<1> HIDE DEF t
<1>5. p \in 1 .. n + 1 /\ t[p] = n + 1
  BY <1>3
<1>6. ASSUME NEW k \in 1 .. n, k >= p PROVE t[k + 1] = q[k]
  <2>1. Moved(p, k) = k + 1
    BY <1>2, <1>6 DEF Moved
  <2> QED  BY <1>3, <2>1
<1>7. \A m \in 1 .. n + 1 : \E k \in 1 .. n + 1 : t[k] = m
  <2> TAKE m \in 1 .. n + 1
  <2>1. CASE m = n + 1
    BY <1>5, <2>1
  <2>2. CASE m # n + 1
    <3>1. m \in 1 .. n
      BY <2>2
    <3>2. PICK i \in 1 .. n : q[i] = m
      BY <1>1, <3>1
    <3> QED  BY <1>3, <3>2
  <2> QED  BY <2>1, <2>2
<1>8. \A k, l \in 1 .. n + 1 : t[k] = t[l] => k = l
  <2>1. \A i \in 1 .. n : q[i] # n + 1
    <3>1. \A m \in 1 .. n : m # n + 1
      OBVIOUS
    <3> QED  BY <1>1, <3>1
  <2>2. \A k \in 1 .. n + 1 : k # p => t[k] # n + 1
    BY <1>3, <2>1
  <2> TAKE k, l \in 1 .. n + 1
  <2> HAVE t[k] = t[l]
  <2>3. CASE k = p \/ l = p
    BY <1>5, <2>2, <2>3
  <2>4. CASE k # p /\ l # p
    <3>1. PICK i \in 1 .. n : k = Moved(p, i)
      BY <1>3, <2>4
    <3>2. PICK j \in 1 .. n : l = Moved(p, j)
      BY <1>3, <2>4
    <3>3. q[i] = q[j]
      BY <1>3, <3>1, <3>2
    <3>4. \A a, b \in 1 .. n : q[a] = q[b] => a = b
      BY <1>1
    <3>5. i = j
      BY <3>3, <3>4
    <3> QED  BY <3>1, <3>2, <3>5
  <2> QED  BY <2>3, <2>4
<1>9. first2 = t[1]
  <2>1. 1 \in 1 .. n + 1
    OBVIOUS
  <2>2. CASE p = 1
    BY <1>5, <2>2
  <2>3. CASE p # 1
    <3>1. 1 < p /\ n # 0
      BY <1>2, <2>3
    <3> QED  BY <1>1, <1>3, <2>1, <2>3, <3>1
  <2> QED  BY <2>2, <2>3
<1>10. ASSUME NEW k \in 1 .. n + 1
       PROVE  nexts2[t[k]] = IF k = n + 1 THEN NULL ELSE t[k + 1]
  <2>1. CASE k = p
    <3>1. t[k] = n + 1
      BY <1>5, <2>1
    <3>2. CASE p = 1
      <4>1. nexts2[t[k]] = IF n = 0 THEN NULL ELSE q[1]
        BY <1>1, <3>1, <3>2
      <4>2. n # 0 => 1 \in 1 .. n /\ 1 >= p /\ 1 + 1 = k + 1 /\ k # n + 1
        BY <2>1, <3>2
      <4>3. n # 0 => t[k + 1] = q[1]
        BY <1>6, <4>2
      <4>4. n = 0 => k = n + 1
        OBVIOUS
      <4> QED  BY <4>1, <4>2, <4>3, <4>4
    <3>3. CASE p # 1
      <4>1. p - 1 \in 1 .. n /\ (p - 1) + 1 = p
        BY <1>2, <3>3
      <4>2. nexts2[t[k]] = IF p - 1 = n THEN NULL ELSE q[p]
        BY <1>1, <3>1, <3>3, <4>1
      <4>3. p - 1 = n <=> k = n + 1
        BY <1>2, <2>1
      <4>4. p - 1 # n => p \in 1 .. n /\ p >= p
        BY <1>2
      <4>5. p - 1 # n => t[k + 1] = q[p]
        BY <1>6, <2>1, <4>4
      <4> QED  BY <4>2, <4>3, <4>5
    <3> QED  BY <3>2, <3>3
  <2>2. CASE k < p
    <3>0. k \in 1 .. n /\ k # n + 1 /\ k + 1 \in 1 .. n + 1
      BY <1>2, <2>2
    <3>1. /\ k \in 1 .. n /\ t[k] = q[k] /\ q[k] \in 1 .. n
          /\ k # n + 1 /\ k + 1 \in 1 .. n + 1
      BY <1>1, <1>3, <2>2, <3>0
    <3>2. CASE k = p - 1
      <4>1. p # 1 /\ k + 1 = p
        BY <1>2, <3>1, <3>2
      <4>2. nexts2[q[k]] = n + 1
        BY <3>1, <3>2, <4>1
      <4> QED  BY <1>5, <3>1, <4>1, <4>2
    <3>3. CASE k # p - 1
      <4>1. p # 1 => p - 1 \in 1 .. n
        BY <1>2
      <4>2. ~(p # 1 /\ q[k] = q[p - 1])
        BY <1>1, <3>1, <3>3, <4>1
      <4>3. nexts2[q[k]] = nexts[q[k]]
        BY <3>1, <4>2
      <4>4. k # n /\ k + 1 < p
        BY <1>2, <2>2, <3>3
      <4>5. t[k + 1] = q[k + 1]
        BY <1>3, <3>1, <4>4
      <4> QED  BY <1>1, <3>1, <4>3, <4>4, <4>5
    <3> QED  BY <3>2, <3>3
  <2>3. CASE k > p
    <3>1. k - 1 \in 1 .. n /\ (k - 1) + 1 = k
      BY <1>2, <2>3
    <3>2. t[k] = q[k - 1] /\ q[k - 1] \in 1 .. n
      BY <1>1, <1>3, <2>3, <3>1
    <3>3. ~(p # 1 /\ q[k - 1] = q[p - 1])
      <4>1. p # 1 => p - 1 \in 1 .. n
        BY <1>2
      <4>2. k - 1 # p - 1
        BY <1>2, <2>3
      <4> QED  BY <1>1, <3>1, <4>1, <4>2
    <3>4. nexts2[t[k]] = IF k - 1 = n THEN NULL ELSE q[k]
      <4>1. nexts2[q[k - 1]] = nexts[q[k - 1]]
        BY <3>2, <3>3
      <4>2. nexts[q[k - 1]] = IF k - 1 = n THEN NULL ELSE q[(k - 1) + 1]
        BY <1>1, <3>1
      <4> QED  BY <3>1, <3>2, <4>1, <4>2
    <3>5. k - 1 = n <=> k = n + 1
      OBVIOUS
    <3>6. k - 1 # n => t[k + 1] = q[k]
      <4>1. k - 1 # n => k \in 1 .. n /\ k >= p
        BY <1>2, <2>3
      <4> QED  BY <1>6, <4>1
    <3> QED  BY <3>4, <3>5, <3>6
  <2>4. k < p \/ k = p \/ k > p
    BY <1>2
  <2> QED  BY <2>1, <2>2, <2>3, <2>4
<1>11. n + 1 # 0
  OBVIOUS
<1> QED  BY <1>4, <1>7, <1>8, <1>9, <1>10, <1>11 DEF Order, t

-----------------------------------------------------------------------------
\* What the variables of a list range over.
ListTypes ==
  /\ ranks \in Seq(Int) /\ pNext \in Seq(Nat) /\ pPrev \in Seq(Nat)
  /\ Len(pNext) = Len(ranks) /\ Len(pPrev) = Len(ranks)
  /\ head \in 0 .. Len(ranks) /\ tail \in 0 .. Len(ranks)
  /\ pCurrent \in 0 .. Len(ranks) /\ found \in 0 .. Len(ranks)
  /\ sorted \in BOOLEAN /\ atHead \in BOOLEAN /\ front \subseteq 1 .. Len(ranks)
  /\ reader \in [on : BOOLEAN, given : Seq(Nat), from : SUBSET Nat]

\* The reader, which is at place c of the order, has been given no member behind
\* it and all those before it that were in the list when it began.
ReadUpTo(q, c) ==
  \A a \in 1 .. Len(ranks) :
    /\ q[a] \in Range(reader.given) => a <= c
    /\ q[a] \in reader.from \ Range(reader.given) => c < a

GivenUpTo(q) ==
  /\ IsInjective(reader.given)
  /\ Range(reader.given) \subseteq 1 .. Len(ranks) /\ reader.from \subseteq 1 .. Len(ranks)
  /\ ~reader.on /\ reader.given # <<>> => reader.from \subseteq Range(reader.given)
  /\ reader.on => \E c \in 1 .. Len(ranks) : q[c] = pCurrent /\ ReadUpTo(q, c)

\* A list that is not sorted: its order, its links backwards and its tail.
InPlace(q) ==
  ~sorted =>
    /\ \A i, j \in 1 .. Len(ranks) : i < j => Before(q[i], q[j])
    /\ \A i \in 1 .. Len(ranks) : pPrev[q[i]] = IF i = 1 THEN NULL ELSE q[i - 1]
    /\ tail = IF Len(ranks) = 0 THEN NULL ELSE q[Len(ranks)]

ListInv ==
  /\ ListTypes
  /\ \E q : Order(q, Len(ranks), pNext, head) /\ GivenUpTo(q) /\ InPlace(q)

LEMMA ListInitInv == ListsInit => ListInv
<1> SUFFICES ASSUME ListsInit PROVE ListInv
  OBVIOUS
<1>2. Len(ranks) = 0 /\ 1 .. Len(ranks) = {}
  BY DEF ListsInit
<1>1. ListTypes
  <2>1. reader \in [on : BOOLEAN, given : Seq(Nat), from : SUBSET Nat]
    <3>1. <<>> \in Seq(Nat) /\ {} \in SUBSET Nat /\ FALSE \in BOOLEAN
      OBVIOUS
    <3> QED  BY <3>1 DEF ListsInit, IdleReader
  <2>2. /\ ranks \in Seq(Int) /\ pNext \in Seq(Nat) /\ pPrev \in Seq(Nat)
        /\ Len(pNext) = Len(ranks) /\ Len(pPrev) = Len(ranks)
    BY DEF ListsInit
  <2>3. 0 \in 0 .. Len(ranks)
    BY <1>2
  <2> QED  BY <2>1, <2>2, <2>3 DEF ListsInit, ListTypes, NULL
<1>3. Order(<<>>, Len(ranks), pNext, head)
  BY <1>2 DEF Order, ListsInit
<1>4. GivenUpTo(<<>>)
  BY <1>2 DEF GivenUpTo, ListsInit, IdleReader, IsInjective, Range
<1>5. InPlace(<<>>)
  BY <1>2 DEF InPlace, ListsInit, NULL
<1> QED  BY <1>1, <1>3, <1>4, <1>5 DEF ListInv

\* A sequence with one more element.
LEMMA Appended ==
  ASSUME NEW s \in Seq(Nat), NEW x \in Nat
  PROVE  /\ Append(s, x) \in Seq(Nat) /\ Append(s, x) # <<>>
         /\ Range(Append(s, x)) = Range(s) \cup {x}
         /\ IsInjective(s) /\ x \notin Range(s) => IsInjective(Append(s, x))
<1> DEFINE t == Append(s, x)
<1>1. /\ t \in Seq(Nat) /\ Len(t) = Len(s) + 1 /\ t[Len(s) + 1] = x
      /\ \A i \in 1 .. Len(s) : t[i] = s[i]
      /\ Len(s) \in Nat /\ DOMAIN s = 1 .. Len(s) /\ DOMAIN t = 1 .. Len(s) + 1
  OBVIOUS
<1> HIDE DEF t
<1>2. \A i : i \in 1 .. Len(s) + 1 <=> i \in 1 .. Len(s) \/ i = Len(s) + 1
  BY <1>1
<1>3. Range(t) = Range(s) \cup {x}
  BY <1>1, <1>2 DEF Range
<1>4. ASSUME IsInjective(s), x \notin Range(s) PROVE IsInjective(t)
  <2> SUFFICES ASSUME NEW i \in DOMAIN t, NEW j \in DOMAIN t, t[i] = t[j] PROVE i = j
    BY DEF IsInjective
  <2>1. \A k \in 1 .. Len(s) : t[k] # x
    BY <1>1, <1>4 DEF Range
  <2> QED  BY <1>1, <1>2, <1>4, <2>1 DEF IsInjective
<1>5. t # <<>>
  BY <1>1
<1> QED  BY <1>1, <1>3, <1>4, <1>5 DEF t

\* A loop over the list begins with its first member.
LEMMA HeadStep == ASSUME ListInv, getHead PROVE ListInv'
<1>1. PICK q : Order(q, Len(ranks), pNext, head) /\ GivenUpTo(q) /\ InPlace(q)
  BY DEF ListInv
<1>2. /\ ListTypes /\ head # NULL /\ UNCHANGED <<sorted, atHead, front>>
      /\ UNCHANGED <<ranks, pNext, pPrev, head, tail, found>> /\ pCurrent' = head
      /\ reader' = [on |-> TRUE, given |-> <<head>>, from |-> 1 .. Len(ranks)]
  <2>1. ListTypes
    BY DEF ListInv
  <2>2. DOMAIN ranks = 1 .. Len(ranks)
    BY <2>1 DEF ListTypes
  <2> QED  BY <2>1, <2>2 DEF getHead, Nodes
<1>3. /\ Len(ranks) \in Nat /\ 1 \in 1 .. Len(ranks) /\ head = q[1] /\ head \in 1 .. Len(ranks)
      /\ \A i, j \in 1 .. Len(ranks) : q[i] = q[j] => i = j
  <2>1. Len(ranks) \in Nat
    BY <1>2 DEF ListTypes
  <2>2. Len(ranks) # 0 /\ head = q[1]
    BY <1>1, <1>2 DEF Order
  <2>3. 1 \in 1 .. Len(ranks)
    BY <2>1, <2>2
  <2> QED  BY <1>1, <2>1, <2>2, <2>3 DEF Order
<1>4. ListTypes'
  BY <1>2, <1>3 DEF ListTypes
<1>5. /\ reader'.given = <<head>> /\ reader'.from = 1 .. Len(ranks) /\ reader'.on
      /\ Range(reader'.given) = {head} /\ IsInjective(reader'.given) /\ reader'.given # <<>>
  BY <1>2 DEF Range, IsInjective
<1>6. ReadUpTo(q, 1)'
  <2>1. \A a \in 1 .. Len(ranks) : 1 <= a /\ (a # 1 => 1 < a)
    BY <1>3
  <2> QED  BY <1>2, <1>3, <1>5, <2>1 DEF ReadUpTo
<1>7. GivenUpTo(q)'
  BY <1>2, <1>3, <1>5, <1>6 DEF GivenUpTo
<1>8. InPlace(q)' /\ Order(q, Len(ranks), pNext, head)'
  BY <1>1, <1>2 DEF InPlace, Before
<1> QED  BY <1>4, <1>7, <1>8 DEF ListInv

\* It goes on with the one behind the one it was given last.
LEMMA NextStep == ASSUME ListInv, getNext PROVE ListInv'
<1>1. PICK q : Order(q, Len(ranks), pNext, head) /\ GivenUpTo(q) /\ InPlace(q)
  BY DEF ListInv
<1>2. /\ ListTypes /\ reader.on
      /\ UNCHANGED <<sorted, atHead, front, ranks, pNext, pPrev, head, tail, found>>
  BY DEF ListInv, getNext
<1>3. PICK c \in 1 .. Len(ranks) : q[c] = pCurrent /\ ReadUpTo(q, c)
  BY <1>1, <1>2 DEF GivenUpTo
<1>4. /\ Len(ranks) \in Nat
      /\ \A i \in 1 .. Len(ranks) : q[i] \in 1 .. Len(ranks)
      /\ \A m \in 1 .. Len(ranks) : \E i \in 1 .. Len(ranks) : q[i] = m
      /\ \A i, j \in 1 .. Len(ranks) : q[i] = q[j] => i = j
      /\ pNext[pCurrent] = IF c = Len(ranks) THEN NULL ELSE q[c + 1]
  <2>1. Len(ranks) \in Nat
    BY <1>2 DEF ListTypes
  <2>2. \A i \in 1 .. Len(ranks) :
          pNext[q[i]] = IF i = Len(ranks) THEN NULL ELSE q[i + 1]
    BY <1>1 DEF Order
  <2>3. pNext[q[c]] = IF c = Len(ranks) THEN NULL ELSE q[c + 1]
    BY <2>2
  <2> QED  BY <1>1, <1>3, <2>1, <2>3 DEF Order
<1>5. InPlace(q)' /\ Order(q, Len(ranks), pNext, head)'
  BY <1>1, <1>2 DEF InPlace, Before
<1>6. CASE c = Len(ranks)
  <2>1. pNext[pCurrent] = NULL /\ pCurrent' = pCurrent /\ reader' = [reader EXCEPT !.on = FALSE]
    BY <1>4, <1>6 DEF getNext
  <2>2. reader'.given = reader.given /\ reader'.from = reader.from /\ ~reader'.on
    BY <1>2, <2>1 DEF ListTypes
  <2>3. reader.from \subseteq Range(reader.given)
    <3>1. \A a \in 1 .. Len(ranks) : ~(c < a)
      BY <1>4, <1>6
    <3>2. \A a \in 1 .. Len(ranks) : q[a] \notin reader.from \ Range(reader.given)
      BY <1>3, <3>1 DEF ReadUpTo
    <3>3. reader.from \subseteq 1 .. Len(ranks)
      BY <1>1 DEF GivenUpTo
    <3>4. \A m \in 1 .. Len(ranks) : \E i \in 1 .. Len(ranks) : q[i] = m
      BY <1>4
    <3> QED  BY <3>2, <3>3, <3>4
  <2>4. GivenUpTo(q)'
    BY <1>1, <1>2, <2>2, <2>3 DEF GivenUpTo
  <2>5. ListTypes'
    BY <1>2, <2>1 DEF ListTypes
  <2> QED  BY <1>5, <2>4, <2>5 DEF ListInv
<1>7. CASE c # Len(ranks)
  <2>1. c + 1 \in 1 .. Len(ranks)
    BY <1>4, <1>7
  <2>2. q[c + 1] \in 1 .. Len(ranks) /\ q[c + 1] # NULL /\ q[c + 1] \in Nat
    <3>1. q[c + 1] \in 1 .. Len(ranks)
      BY <1>4, <2>1
    <3>2. \A m \in 1 .. Len(ranks) : m # NULL /\ m \in Nat
      BY DEF NULL
    <3> QED  BY <3>1, <3>2
  <2>3. pCurrent' = q[c + 1] /\ reader' = [reader EXCEPT !.given = Append(@, q[c + 1])]
    BY <1>4, <1>7, <2>2 DEF getNext
  <2>4. /\ reader'.given = Append(reader.given, q[c + 1]) /\ reader'.from = reader.from
        /\ reader'.on /\ reader.given \in Seq(Nat) /\ reader.from \in SUBSET Nat
    BY <1>2, <2>3 DEF ListTypes
  <2>5. q[c + 1] \notin Range(reader.given)
    <3>1. ~(c + 1 <= c)
      BY <1>4
    <3> QED  BY <1>3, <2>1, <3>1 DEF ReadUpTo
  <2>6. /\ Range(reader'.given) = Range(reader.given) \cup {q[c + 1]}
        /\ IsInjective(reader'.given) /\ reader'.given \in Seq(Nat)
    BY <1>1, <2>2, <2>4, <2>5, Appended DEF GivenUpTo
  <2>7. ReadUpTo(q, c + 1)'
    <3>1. \A a \in 1 .. Len(ranks) : a <= c => a <= c + 1
      BY <1>4
    <3>2. \A a \in 1 .. Len(ranks) : c < a /\ a # c + 1 => c + 1 < a
      BY <1>4
    <3>3. \A a \in 1 .. Len(ranks) : q[a] = q[c + 1] => a = c + 1 /\ a <= c + 1
      BY <1>4, <2>1
    <3> QED  BY <1>2, <1>3, <2>4, <2>6, <3>1, <3>2, <3>3 DEF ReadUpTo
  <2>8. GivenUpTo(q)'
    BY <1>1, <1>2, <2>1, <2>2, <2>3, <2>4, <2>6, <2>7 DEF GivenUpTo
  <2>9. ListTypes'
    <3>1. reader' \in [on : BOOLEAN, given : Seq(Nat), from : SUBSET Nat]
      BY <1>2, <2>3, <2>4, <2>6 DEF ListTypes
    <3>2. pCurrent' \in 0 .. Len(ranks)
      BY <1>4, <2>2, <2>3
    <3> QED  BY <1>2, <3>1, <3>2 DEF ListTypes
  <2> QED  BY <1>5, <2>8, <2>9 DEF ListInv
<1> QED  BY <1>6, <1>7

\* The reader of a list does not notice a member that is put in anywhere.
LEMMA ReadingKept ==
  ASSUME NEW q, ListTypes, Order(q, Len(ranks), pNext, head), GivenUpTo(q),
         NEW n, n = Len(ranks), NEW p \in 1 .. n + 1, NEW t, t = Insert(q, p, n + 1),
         Len(ranks') = n + 1, UNCHANGED <<pCurrent, reader>>
  PROVE  GivenUpTo(t)'
<1>1. n \in Nat /\ n = Len(ranks) /\ Len(ranks') = n + 1 /\ p \in 1 .. n + 1
  BY DEF ListTypes
<1>3. q \in Seq(Nat) /\ Len(q) = n
  BY <1>1 DEF Order
<1>4. WithMember(t, q, n, p, n + 1)
  BY <1>1, <1>3, Inserted
<1>5. /\ Range(reader.given) \subseteq 1 .. n /\ reader.from \subseteq 1 .. n
      /\ reader'.given = reader.given /\ reader'.from = reader.from /\ reader'.on = reader.on
  BY <1>1 DEF GivenUpTo
<1>6. \A m \in 1 .. n : m \in 1 .. n + 1 /\ m # n + 1
  OBVIOUS
<1>7. ASSUME reader.on PROVE \E c \in 1 .. n + 1 : t[c] = pCurrent /\ ReadUpTo(t, c)'
  <2>1. PICK c \in 1 .. n : q[c] = pCurrent /\ ReadUpTo(q, c)
    BY <1>1, <1>7 DEF GivenUpTo
  <2>2. Moved(p, c) \in 1 .. n + 1 /\ t[Moved(p, c)] = q[c]
    BY <1>4 DEF WithMember
  <2>3. ASSUME NEW i \in 1 .. n
        PROVE  (i <= c => Moved(p, i) <= Moved(p, c)) /\ (c < i => Moved(p, c) < Moved(p, i))
    <3>1. p \in Nat /\ i \in Nat /\ c \in Nat
      BY <1>1
    <3> QED  BY <3>1 DEF Moved
  <2>4. \A i \in 1 .. n : /\ q[i] \in Range(reader.given) => i <= c
                          /\ q[i] \in reader.from \ Range(reader.given) => c < i
    BY <1>1, <2>1 DEF ReadUpTo
  <2>5. ASSUME NEW a \in 1 .. n + 1
        PROVE  /\ t[a] \in Range(reader.given) => a <= Moved(p, c)
               /\ t[a] \in reader.from \ Range(reader.given) => Moved(p, c) < a
    <3>1. CASE a = p
      <4>1. t[a] = n + 1
        BY <1>4, <3>1 DEF WithMember
      <4> QED  BY <1>5, <1>6, <4>1
    <3>2. CASE a # p
      <4>1. PICK i \in 1 .. n : a = Moved(p, i)
        BY <1>4, <3>2 DEF WithMember
      <4>2. t[a] = q[i]
        BY <1>4, <4>1 DEF WithMember
      <4> QED  BY <2>3, <2>4, <4>1, <4>2
    <3> QED  BY <3>1, <3>2
  <2>6. ReadUpTo(t, Moved(p, c))'
    BY <1>1, <1>5, <2>5 DEF ReadUpTo
  <2> QED  BY <2>1, <2>2, <2>6
<1>8. IsInjective(reader'.given)
  BY <1>5 DEF GivenUpTo
<1>9. Range(reader'.given) \subseteq 1 .. n + 1 /\ reader'.from \subseteq 1 .. n + 1
  BY <1>5, <1>6
<1>10. ~reader'.on /\ reader'.given # <<>> => reader'.from \subseteq Range(reader'.given)
  BY <1>5 DEF GivenUpTo
<1> QED  BY <1>1, <1>5, <1>7, <1>8, <1>9, <1>10 DEF GivenUpTo

\* The other links of a list that is not sorted, when the member is put in.
LinksBack(q, n, p) ==
  /\ (p = 1 /\ front' = front \cup {n + 1}) \/ (p = n + 1 /\ front' = front)
  /\ tail' = IF p = n + 1 THEN n + 1 ELSE tail
  /\ pPrev'[n + 1] = IF p = 1 THEN NULL ELSE q[p - 1]
  /\ \A i \in 1 .. n : pPrev'[q[i]] = IF i = p THEN n + 1 ELSE pPrev[q[i]]

\* Put in before all others or behind them, it is where it belongs.
LEMMA PlaceKept ==
  ASSUME NEW n \in Nat, n = Len(ranks), Len(ranks') = n + 1, ~sorted, ~sorted',
         NEW q, Order(q, n, pNext, head), InPlace(q), front \subseteq 1 .. n,
         NEW p \in 1 .. n + 1, LinksBack(q, n, p), NEW t, t = Insert(q, p, n + 1)
  PROVE  InPlace(t)'
<1>1. q \in Seq(Nat) /\ Len(q) = n /\ \A i \in 1 .. n : q[i] \in 1 .. n
  BY DEF Order
<1>2. WithMember(t, q, n, p, n + 1)
  BY <1>1, Inserted
<1>3. /\ \A i, j \in 1 .. n : i < j => Before(q[i], q[j])
      /\ \A i \in 1 .. n : pPrev[q[i]] = IF i = 1 THEN NULL ELSE q[i - 1]
      /\ tail = IF n = 0 THEN NULL ELSE q[n]
  BY DEF InPlace
<1>4. /\ \A k \in 1 .. n + 1 :
           /\ k < p => k \in 1 .. n /\ t[k] = q[k]
           /\ k > p => k - 1 \in 1 .. n /\ t[k] = q[k - 1]
      /\ t[p] = n + 1
  BY <1>2 DEF WithMember
<1>5. p \in Nat /\ 1 <= p /\ p <= n + 1
  OBVIOUS
<1>6. ASSUME NEW i \in 1 .. n + 1, NEW j \in 1 .. n + 1, i < j PROVE Before(t[i], t[j])'
  <2>1. \A m \in 1 .. n : m < n + 1 /\ ~(n + 1 < m) /\ m # n + 1
    OBVIOUS
  <2>2. CASE p = 1 /\ front' = front \cup {n + 1}
    <3>1. j > p /\ t[j] = q[j - 1] /\ j - 1 \in 1 .. n
      BY <1>4, <1>6, <2>2
    <3>2. CASE i = 1
      BY <1>1, <1>4, <2>1, <2>2, <3>1, <3>2 DEF Before
    <3>3. CASE i # 1
      <4>1. i > p /\ i - 1 < j - 1
        BY <1>6, <2>2, <3>3
      <4>2. t[i] = q[i - 1] /\ i - 1 \in 1 .. n /\ Before(q[i - 1], q[j - 1])
        BY <1>3, <1>4, <3>1, <4>1
      <4>3. q[i - 1] \in 1 .. n /\ q[j - 1] \in 1 .. n
        BY <1>1, <3>1, <4>2
      <4> QED  BY <2>1, <2>2, <3>1, <4>2, <4>3 DEF Before
    <3> QED  BY <3>2, <3>3
  <2>3. CASE p = n + 1 /\ front' = front
    <3>1. i < p /\ t[i] = q[i] /\ i \in 1 .. n
      BY <1>4, <1>6, <2>3
    <3>2. CASE j = n + 1
      BY <1>1, <1>4, <2>1, <2>3, <3>1, <3>2 DEF Before
    <3>3. CASE j # n + 1
      <4>1. j < p /\ t[j] = q[j] /\ j \in 1 .. n
        BY <1>4, <2>3, <3>3
      <4>2. Before(q[i], q[j])
        BY <1>3, <1>6, <3>1, <4>1
      <4> QED  BY <2>3, <3>1, <4>1, <4>2 DEF Before
    <3> QED  BY <3>2, <3>3
  <2> QED  BY <2>2, <2>3 DEF LinksBack
<1>7. ASSUME NEW i \in 1 .. n + 1 PROVE pPrev'[t[i]] = IF i = 1 THEN NULL ELSE t[i - 1]
  <2>0. \A k \in 1 .. n : pPrev'[q[k]] = IF k = p THEN n + 1 ELSE pPrev[q[k]]
    BY DEF LinksBack
  <2>1. CASE i = p
    <3>1. pPrev'[t[i]] = IF i = 1 THEN NULL ELSE q[i - 1]
      BY <1>4, <2>1 DEF LinksBack
    <3>2. i # 1 => i - 1 \in 1 .. n + 1 /\ i - 1 < p
      BY <2>1
    <3> QED  BY <1>4, <3>1, <3>2
  <2>2. CASE i < p
    <3>1. i \in 1 .. n /\ t[i] = q[i] /\ i # p
      BY <1>4, <2>2
    <3>2. pPrev'[q[i]] = IF i = 1 THEN NULL ELSE q[i - 1]
      BY <1>3, <2>0, <3>1
    <3>3. i # 1 => i - 1 \in 1 .. n + 1 /\ i - 1 < p
      BY <1>5, <2>2
    <3> QED  BY <1>4, <3>1, <3>2, <3>3
  <2>3. CASE i > p
    <3>1. i - 1 \in 1 .. n /\ t[i] = q[i - 1] /\ i # 1 /\ i - 1 \in 1 .. n + 1
      BY <1>4, <1>5, <2>3
    <3>2. CASE i - 1 = p
      BY <1>4, <2>0, <3>1, <3>2
    <3>3. CASE i - 1 # p
      <4>1. i - 1 > p /\ i - 1 # 1
        BY <1>5, <2>3, <3>3
      <4>2. pPrev'[q[i - 1]] = q[(i - 1) - 1]
        BY <1>3, <2>0, <3>1, <3>3, <4>1
      <4>3. t[i - 1] = q[(i - 1) - 1]
        BY <1>4, <3>1, <4>1
      <4> QED  BY <3>1, <4>2, <4>3
    <3> QED  BY <3>2, <3>3
  <2>4. i < p \/ i = p \/ i > p
    BY <1>5
  <2> QED  BY <2>1, <2>2, <2>3, <2>4
<1>8. tail' = t[n + 1]
  <2>1. n + 1 \in 1 .. n + 1 /\ (n + 1) - 1 = n
    OBVIOUS
  <2>2. CASE p = n + 1
    BY <1>4, <2>2 DEF LinksBack
  <2>3. CASE p # n + 1
    <3>1. n + 1 > p /\ n # 0
      BY <1>5, <2>3
    <3>2. t[n + 1] = q[n]
      BY <1>4, <2>1, <3>1
    <3> QED  BY <1>3, <2>3, <3>1, <3>2 DEF LinksBack
  <2> QED  BY <2>2, <2>3
<1> QED  BY <1>6, <1>7, <1>8 DEF InPlace

\* A step that puts a member in at place p of the order q of n members.
PutsIn(q, n, p) ==
  /\ pNext' \in Seq(Nat) /\ Len(pNext') = n + 1
  /\ pPrev' \in Seq(Nat) /\ Len(pPrev') = n + 1
  /\ tail' \in 0 .. n + 1 /\ head' = (IF p = 1 THEN n + 1 ELSE head)
  /\ pNext'[n + 1] = (IF p = 1 THEN head ELSE pNext[q[p - 1]])
  /\ \A m \in 1 .. n : pNext'[m] = IF p # 1 /\ m = q[p - 1] THEN n + 1 ELSE pNext[m]
  /\ front' \subseteq 1 .. n + 1
  /\ ~sorted => LinksBack(q, n, p)

\* A member added is put in at the head, behind it, or at the end.
LEMMA AddStep == ASSUME ListsAssumption, ListInv, addList PROVE ListInv'
<1>1. PICK q : Order(q, Len(ranks), pNext, head) /\ GivenUpTo(q) /\ InPlace(q)
  BY DEF ListInv
<1>2. ListTypes /\ UNCHANGED <<sorted, atHead, pCurrent, reader, found>>
  BY DEF ListInv, addList
<1>3. PICK n \in Nat : n = Len(ranks)
  BY <1>2 DEF ListTypes
<1>4. PICK r \in Ranks :
        /\ ranks' = Append(ranks, IF sorted THEN r ELSE NoRank)
        /\ \/ head = NULL /\ PutFirst(n + 1)
           \/ head # NULL /\ sorted /\ r <= ranks[head] /\ PutFirst(n + 1)
           \/ head # NULL /\ sorted /\ r > ranks[head] /\ PutAfterHead(n + 1)
           \/ head # NULL /\ ~sorted /\ atHead /\ PutFirst(n + 1)
           \/ head # NULL /\ ~sorted /\ ~atHead /\ PutLast(n + 1)
        /\ front' = IF atHead THEN front \cup {n + 1} ELSE front
  BY <1>3 DEF addList
<1>5. /\ ranks' \in Seq(Int) /\ Len(ranks') = n + 1
      /\ pNext \in Seq(Nat) /\ pPrev \in Seq(Nat) /\ Len(pNext) = n /\ Len(pPrev) = n
      /\ head \in 0 .. n /\ tail \in 0 .. n
  <2>1. (IF sorted THEN r ELSE NoRank) \in Int
    BY ListsAssumption DEF NoRank
  <2> QED  BY <1>2, <1>3, <1>4, <2>1 DEF ListTypes
<1>6. /\ q \in Seq(Nat) /\ Len(q) = n /\ head = (IF n = 0 THEN NULL ELSE q[1])
      /\ \A i \in 1 .. n : q[i] \in 1 .. n
      /\ \A i \in 1 .. n : pNext[q[i]] = IF i = n THEN NULL ELSE q[i + 1]
  BY <1>1, <1>3 DEF Order
<1>7. /\ n = 0 <=> head = NULL
      /\ n # 0 => head \in 1 .. n /\ 1 \in 1 .. n
  <2>1. n # 0 => 1 \in 1 .. n
    OBVIOUS
  <2>2. \A m \in 1 .. n : m # NULL
    BY DEF NULL
  <2> QED  BY <1>6, <2>1, <2>2
<1>8. /\ front \subseteq 1 .. n /\ front \cup {n + 1} \subseteq 1 .. n + 1
      /\ front \subseteq 1 .. n + 1
  <2>1. front \subseteq 1 .. n
    BY <1>2, <1>3 DEF ListTypes
  <2>2. \A m \in 1 .. n : m \in 1 .. n + 1
    OBVIOUS
  <2>3. n + 1 \in 1 .. n + 1
    OBVIOUS
  <2> QED  BY <2>1, <2>2, <2>3
<1>9. \A f \in Seq(Nat), x \in Nat :
        Len(f) = n => /\ Append(f, x) \in Seq(Nat) /\ Len(Append(f, x)) = n + 1
                      /\ Append(f, x)[n + 1] = x
                      /\ \A i \in 1 .. n : Append(f, x)[i] = f[i]
  OBVIOUS
<1>10. \A f \in Seq(Nat), m, x \in Nat :
         Len(f) = n => /\ [f EXCEPT ![m] = x] \in Seq(Nat) /\ Len([f EXCEPT ![m] = x]) = n
                       /\ \A i \in 1 .. n : [f EXCEPT ![m] = x][i] = IF i = m THEN x ELSE f[i]
  <2> TAKE f \in Seq(Nat), m, x \in Nat
  <2> HAVE Len(f) = n
  <2>1. f \in [1 .. n -> Nat]
    OBVIOUS
  <2>2. /\ [f EXCEPT ![m] = x] \in [1 .. n -> Nat]
        /\ \A i \in 1 .. n : [f EXCEPT ![m] = x][i] = IF i = m THEN x ELSE f[i]
    BY <2>1
  <2>3. \A g \in [1 .. n -> Nat] : g \in Seq(Nat) /\ Len(g) = n
    OBVIOUS
  <2> QED  BY <2>2, <2>3
<1>11. ASSUME NEW p \in 1 .. n + 1, PutsIn(q, n, p)
       PROVE  ListInv'
  <2>1. PICK t : t = Insert(q, p, n + 1)
    OBVIOUS
  <2>2. Order(t, n + 1, pNext', head')
    <3>1. Order(q, n, pNext, head)
      BY <1>1, <1>3
    <3>2. /\ head' = (IF p = 1 THEN n + 1 ELSE head)
          /\ pNext'[n + 1] = (IF p = 1 THEN head ELSE pNext[q[p - 1]])
          /\ \A m \in 1 .. n :
               pNext'[m] = IF p # 1 /\ m = q[p - 1] THEN n + 1 ELSE pNext[m]
      BY <1>11 DEF PutsIn
    <3> QED  BY <1>11, <2>1, <3>1, <3>2, InsertIs
  <2>3. GivenUpTo(t)'
    BY <1>1, <1>2, <1>3, <1>5, <2>1, ReadingKept
  <2>5. InPlace(t)'
    <3>1. CASE sorted
      BY <1>2, <3>1 DEF InPlace
    <3>2. CASE ~sorted
      <4>1. Order(q, n, pNext, head) /\ InPlace(q) /\ LinksBack(q, n, p) /\ ~sorted'
        BY <1>1, <1>2, <1>3, <1>11, <3>2 DEF PutsIn
      <4> QED  BY <1>3, <1>5, <1>8, <2>1, <3>2, <4>1, PlaceKept
    <3> QED  BY <3>1, <3>2
  <2>6. ListTypes'
    <3>1. \A m \in 0 .. n : m \in 0 .. n + 1
      OBVIOUS
    <3>2. n + 1 \in 0 .. n + 1
      OBVIOUS
    <3> QED  BY <1>2, <1>3, <1>5, <1>11, <3>1, <3>2 DEF ListTypes, PutsIn
  <2> QED  BY <1>5, <2>2, <2>3, <2>5, <2>6 DEF ListInv
<1>12. CASE PutFirst(n + 1) /\ (head = NULL \/ sorted \/ atHead)
  <2>1. 1 \in 1 .. n + 1 /\ n + 1 \in Nat /\ head \in Nat /\ NULL \in Nat
    BY <1>5 DEF NULL
  <2>2. pNext' = Append(pNext, head) /\ head' = n + 1
    BY <1>12 DEF PutFirst
  <2>3. /\ pNext' \in Seq(Nat) /\ Len(pNext') = n + 1 /\ pNext'[n + 1] = head
        /\ \A m \in 1 .. n : pNext'[m] = pNext[m]
    BY <1>5, <1>9, <2>1, <2>2
  <2>4. PICK f \in Seq(Nat) :
          /\ Len(f) = n /\ pPrev' = Append(f, NULL)
          /\ \A i \in 1 .. n : f[i] = IF i = head THEN n + 1 ELSE pPrev[i]
    <3>1. /\ [pPrev EXCEPT ![head] = n + 1] \in Seq(Nat)
          /\ Len([pPrev EXCEPT ![head] = n + 1]) = n
          /\ \A i \in 1 .. n :
               [pPrev EXCEPT ![head] = n + 1][i] = IF i = head THEN n + 1 ELSE pPrev[i]
      BY <1>5, <1>10, <2>1
    <3>2. CASE head = NULL
      <4>1. pPrev' = Append(pPrev, NULL) /\ n = 0 /\ 1 .. n = {}
        BY <1>7, <1>12, <3>2 DEF PutFirst
      <4> QED  BY <1>5, <4>1
    <3>3. CASE head # NULL
      BY <1>5, <1>12, <3>1, <3>3 DEF PutFirst
    <3> QED  BY <3>2, <3>3
  <2>5. /\ pPrev' \in Seq(Nat) /\ Len(pPrev') = n + 1 /\ pPrev'[n + 1] = NULL
        /\ \A i \in 1 .. n : pPrev'[i] = IF i = head THEN n + 1 ELSE pPrev[i]
    BY <1>9, <2>1, <2>4
  <2>6. tail' \in 0 .. n + 1 /\ tail' = IF n = 0 THEN n + 1 ELSE tail
    <3>1. \A m \in 0 .. n : m \in 0 .. n + 1
      OBVIOUS
    <3>2. n + 1 \in 0 .. n + 1
      OBVIOUS
    <3> QED  BY <1>5, <1>7, <1>12, <3>1, <3>2 DEF PutFirst
  <2>7. ~sorted => LinksBack(q, n, 1)
    <3> SUFFICES ASSUME ~sorted PROVE LinksBack(q, n, 1)
      OBVIOUS
    <3>1. front' = front \cup {n + 1} \/ (1 = n + 1 /\ front' = front)
      <4>1. front' = IF atHead THEN front \cup {n + 1} ELSE front
        BY <1>4
      <4>2. CASE atHead
        BY <4>1, <4>2
      <4>3. CASE ~atHead
        <5>1. head = NULL
          BY <1>12, <4>3
        <5>2. 1 = n + 1
          BY <1>7, <5>1
        <5> QED  BY <4>1, <4>3, <5>2
      <4> QED  BY <4>2, <4>3
    <3>2. tail' = IF 1 = n + 1 THEN n + 1 ELSE tail
      BY <2>6
    <3>3. ASSUME NEW i \in 1 .. n
          PROVE  pPrev'[q[i]] = IF i = 1 THEN n + 1 ELSE pPrev[q[i]]
      <4>1. n # 0 /\ head = q[1] /\ 1 \in 1 .. n
        BY <1>6, <1>7
      <4>2. q[i] = head <=> i = 1
        BY <1>1, <1>3, <4>1 DEF Order
      <4>3. q[i] \in 1 .. n
        BY <1>6
      <4>4. pPrev'[q[i]] = IF q[i] = head THEN n + 1 ELSE pPrev[q[i]]
        BY <2>5, <4>3
      <4> QED  BY <4>2, <4>4
    <3>4. pPrev'[n + 1] = IF 1 = 1 THEN NULL ELSE q[1 - 1]
      BY <2>5
    <3>5. (1 = 1 /\ front' = front \cup {n + 1}) \/ (1 = n + 1 /\ front' = front)
      BY <3>1
    <3> QED  BY <3>2, <3>3, <3>4, <3>5 DEF LinksBack
  <2>8. PutsIn(q, n, 1)
    <3>1. front' \subseteq 1 .. n + 1
      BY <1>4, <1>8
    <3> QED  BY <2>1, <2>2, <2>3, <2>5, <2>6, <2>7, <3>1 DEF PutsIn
  <2> QED  BY <1>11, <2>1, <2>8
<1>13. CASE PutAfterHead(n + 1) /\ head # NULL /\ sorted
  <2>1. 2 \in 1 .. n + 1 /\ 2 - 1 = 1 /\ n + 1 \in Nat /\ head = q[1]
    BY <1>6, <1>7, <1>13
  <2>2. /\ pNext' = Append([pNext EXCEPT ![head] = n + 1], pNext[head])
        /\ pPrev' = Append(pPrev, head) /\ UNCHANGED <<head, tail>>
    BY <1>13 DEF PutAfterHead
  <2>3. head \in 1 .. n /\ head \in Nat /\ pNext[head] \in Nat
    <3>1. n # 0 /\ head # NULL
      BY <1>7, <1>13
    <3>2. head \in 1 .. n /\ head \in Nat
      BY <1>7, <3>1
    <3> QED  BY <1>5, <3>2
  <2>4. /\ [pNext EXCEPT ![head] = n + 1] \in Seq(Nat)
        /\ Len([pNext EXCEPT ![head] = n + 1]) = n
        /\ \A i \in 1 .. n :
             [pNext EXCEPT ![head] = n + 1][i] = IF i = head THEN n + 1 ELSE pNext[i]
    BY <1>5, <1>10, <2>1, <2>3
  <2>5. /\ pNext' \in Seq(Nat) /\ Len(pNext') = n + 1 /\ pNext'[n + 1] = pNext[head]
        /\ \A m \in 1 .. n : pNext'[m] = IF m = head THEN n + 1 ELSE pNext[m]
    BY <1>9, <2>2, <2>3, <2>4
  <2>6. pPrev' \in Seq(Nat) /\ Len(pPrev') = n + 1
    BY <1>5, <1>9, <2>2, <2>3
  <2>7. tail' \in 0 .. n + 1
    BY <1>5, <2>2
  <2>8. PutsIn(q, n, 2)
    <3>1. front' \subseteq 1 .. n + 1
      BY <1>4, <1>8
    <3> QED  BY <1>13, <2>1, <2>2, <2>5, <2>6, <2>7, <3>1 DEF PutsIn
  <2> QED  BY <1>11, <2>1, <2>8
<1>14. CASE PutLast(n + 1) /\ head # NULL /\ ~sorted /\ ~atHead
  <2>1. /\ n + 1 \in 1 .. n + 1 /\ (n + 1) - 1 = n /\ n + 1 \in Nat /\ n + 1 # 1 /\ NULL \in Nat
        /\ n \in 1 .. n
    BY <1>7, <1>14 DEF NULL
  <2>2. tail = q[n] /\ tail \in 1 .. n /\ tail \in Nat /\ pNext[q[n]] = NULL
    <3>1. tail = q[n]
      BY <1>1, <1>3, <1>14, <2>1 DEF InPlace
    <3> QED  BY <1>5, <1>6, <2>1, <3>1
  <2>3. /\ pNext' = Append([pNext EXCEPT ![tail] = n + 1], NULL)
        /\ pPrev' = Append(pPrev, tail) /\ tail' = n + 1 /\ UNCHANGED head
    BY <1>14 DEF PutLast
  <2>4. /\ [pNext EXCEPT ![tail] = n + 1] \in Seq(Nat) /\ Len([pNext EXCEPT ![tail] = n + 1]) = n
        /\ \A i \in 1 .. n :
             [pNext EXCEPT ![tail] = n + 1][i] = IF i = tail THEN n + 1 ELSE pNext[i]
    BY <1>5, <1>10, <2>1, <2>2
  <2>5. /\ pNext' \in Seq(Nat) /\ Len(pNext') = n + 1 /\ pNext'[n + 1] = NULL
        /\ \A m \in 1 .. n : pNext'[m] = IF m = tail THEN n + 1 ELSE pNext[m]
    BY <1>9, <2>1, <2>3, <2>4
  <2>6. /\ pPrev' \in Seq(Nat) /\ Len(pPrev') = n + 1 /\ pPrev'[n + 1] = tail
        /\ \A i \in 1 .. n : pPrev'[i] = pPrev[i]
    BY <1>5, <1>9, <2>2, <2>3
  <2>7. tail' \in 0 .. n + 1
    BY <2>3
  <2>9. front' = front /\ front' \subseteq 1 .. n + 1
    BY <1>4, <1>8, <1>14
  <2>10. LinksBack(q, n, n + 1)
    <3>1. \A i \in 1 .. n : i # n + 1 /\ pPrev'[q[i]] = pPrev[q[i]]
      BY <1>6, <2>6
    <3> QED  BY <2>1, <2>2, <2>3, <2>6, <2>9, <3>1 DEF LinksBack
  <2>8. PutsIn(q, n, n + 1)
    BY <2>1, <2>2, <2>3, <2>5, <2>6, <2>7, <2>9, <2>10 DEF PutsIn
  <2> QED  BY <1>11, <2>1, <2>8
<1> QED  BY <1>4, <1>12, <1>13, <1>14

\* A list is made while it is empty.
LEMMA MakeStep == ASSUME ListInv, makeList PROVE ListInv'
<1>1. PICK q : Order(q, Len(ranks), pNext, head) /\ GivenUpTo(q) /\ InPlace(q)
  BY DEF ListInv
<1>2. /\ ListTypes /\ sorted' \in BOOLEAN /\ atHead' = FALSE /\ ranks = <<>>
      /\ UNCHANGED <<ranks, pNext, pPrev, head, tail, pCurrent, reader, found, front>>
  BY DEF ListInv, makeList
<1>3. Len(ranks) = 0 /\ 1 .. Len(ranks) = {} /\ tail = NULL
  BY <1>2 DEF ListTypes, NULL
<1>4. ListTypes' /\ Order(q, Len(ranks), pNext, head)'
  BY <1>1, <1>2 DEF ListTypes
<1>5. GivenUpTo(q)'
  BY <1>1, <1>2 DEF GivenUpTo, ReadUpTo
<1>6. InPlace(q)'
  BY <1>2, <1>3 DEF InPlace
<1> QED  BY <1>4, <1>5, <1>6 DEF ListInv

\* Where the next members are put changes none that are there.
LEMMA FlagsStep == ASSUME ListInv, setFlags PROVE ListInv'
<1>1. PICK q : Order(q, Len(ranks), pNext, head) /\ GivenUpTo(q) /\ InPlace(q)
  BY DEF ListInv
<1>2. /\ ListTypes /\ atHead' = ~atHead
      /\ UNCHANGED <<sorted, ranks, pNext, pPrev, head, tail, pCurrent, reader, found, front>>
  BY DEF ListInv, setFlags
<1>3. ListTypes'
  <2>1. atHead' \in BOOLEAN
    BY <1>2
  <2> QED  BY <1>2, <2>1 DEF ListTypes
<1>4. Order(q, Len(ranks), pNext, head)' /\ InPlace(q)'
  BY <1>1, <1>2 DEF InPlace, Before
<1>5. GivenUpTo(q)'
  BY <1>1, <1>2 DEF GivenUpTo, ReadUpTo
<1> QED  BY <1>3, <1>4, <1>5 DEF ListInv

\* A lookup changes neither the list nor the place of its reader.
LEMMA LookupStep ==
  ASSUME ListInv, UNCHANGED <<sorted, atHead, ranks, pNext, pPrev, head, tail, reader, front>>,
         found' \in 0 .. Len(ranks), pCurrent' \in 0 .. Len(ranks),
         reader.on => UNCHANGED pCurrent
  PROVE  ListInv'
<1>1. PICK q : Order(q, Len(ranks), pNext, head) /\ GivenUpTo(q) /\ InPlace(q)
  BY DEF ListInv
<1>2. ListTypes'
  BY DEF ListInv, ListTypes
<1>3. Order(q, Len(ranks), pNext, head)' /\ InPlace(q)'
  BY <1>1 DEF InPlace, Before
<1>4. GivenUpTo(q)'
  <2>1. \A c \in 1 .. Len(ranks) : ReadUpTo(q, c) => ReadUpTo(q, c)'
    BY DEF ReadUpTo
  <2> QED  BY <1>1, <2>1 DEF GivenUpTo
<1> QED  BY <1>2, <1>3, <1>4 DEF ListInv

\* The members the links lead to are all there are, each once.
LEMMA ChainMembers ==
  ASSUME ListInv
  PROVE  \E q : /\ Chain = q /\ Order(q, Len(ranks), pNext, head)
                /\ GivenUpTo(q) /\ InPlace(q) /\ DOMAIN q = 1 .. Len(ranks)
<1>1. PICK q : Order(q, Len(ranks), pNext, head) /\ GivenUpTo(q) /\ InPlace(q)
  BY DEF ListInv
<1>2. ranks \in Seq(Int)
  BY DEF ListInv, ListTypes
<1>3. Chain = q
  BY <1>1, <1>2, ChainIs
<1>4. DOMAIN q = 1 .. Len(ranks)
  BY <1>1 DEF Order
<1> QED  BY <1>1, <1>3, <1>4

LEMMA FindStep == ASSUME ListInv, findList PROVE ListInv'
<1>1. PICK q : Chain = q /\ Order(q, Len(ranks), pNext, head) /\ DOMAIN q = 1 .. Len(ranks)
  BY ChainMembers
<1>2. PICK r \in Ranks :
        LET matching == {i \in DOMAIN Chain : ranks[Chain[i]] = r}
            first == CHOOSE i \in matching : \A j \in matching : i <= j
        IN  IF matching = {}
            THEN found' = NULL /\ pCurrent' = AfterLookup(Exhausted)
            ELSE found' = Chain[first] /\ pCurrent' = AfterLookup(Chain[first])
  BY DEF findList
<1> DEFINE matching == {i \in 1 .. Len(ranks) : ranks[q[i]] = r}
<1>3. UNCHANGED <<sorted, atHead, ranks, pNext, pPrev, head, tail, reader, front>>
  BY DEF findList
<1>4. UNCHANGED pCurrent
  BY <1>2 DEF AfterLookup
<1>5. Len(ranks) \in Nat /\ pCurrent \in 0 .. Len(ranks)
  BY DEF ListInv, ListTypes
<1>6. found' \in 0 .. Len(ranks)
  <2>1. CASE matching = {}
    <3>1. found' = NULL
      BY <1>1, <1>2, <2>1
    <3> QED  BY <1>5, <3>1 DEF NULL
  <2>2. CASE matching # {}
    <3>1. matching \in SUBSET Nat
      BY <1>5
    <3>2. \E i \in matching : \A j \in matching : i <= j
      BY <2>2, <3>1, LeastElement
    <3>3. found' = q[CHOOSE i \in matching : \A j \in matching : i <= j]
      BY <1>1, <1>2, <2>2
    <3>4. PICK i \in 1 .. Len(ranks) : found' = q[i]
      BY <3>2, <3>3
    <3>5. q[i] \in 1 .. Len(ranks)
      BY <1>1 DEF Order
    <3> QED  BY <1>5, <3>4, <3>5
  <2> QED  BY <2>1, <2>2
<1> QED  BY <1>3, <1>4, <1>5, <1>6, LookupStep

LEMMA ItemStep == ASSUME ListInv, ListsAssumption, getItem PROVE ListInv'
<1>1. PICK q : Chain = q /\ Order(q, Len(ranks), pNext, head) /\ DOMAIN q = 1 .. Len(ranks)
  BY ChainMembers
<1>2. PICK nIndex \in 1 .. MaxMembers + 1 :
        IF nIndex > Len(ranks) THEN found' = NULL /\ UNCHANGED pCurrent
        ELSE found' = Chain[nIndex] /\ pCurrent' = AfterLookup(Chain[nIndex])
  BY DEF getItem
<1>3. UNCHANGED <<sorted, atHead, ranks, pNext, pPrev, head, tail, reader, front>>
  BY DEF getItem
<1>4. UNCHANGED pCurrent
  BY <1>2 DEF AfterLookup
<1>5. Len(ranks) \in Nat /\ pCurrent \in 0 .. Len(ranks) /\ nIndex \in Nat \ {0}
  BY DEF ListInv, ListTypes, ListsAssumption
<1>6. CASE nIndex > Len(ranks)
  <2>1. found' \in 0 .. Len(ranks)
    BY <1>2, <1>5, <1>6 DEF NULL
  <2> QED  BY <1>3, <1>4, <1>5, <2>1, LookupStep
<1>7. CASE ~(nIndex > Len(ranks))
  <2>1. nIndex \in 1 .. Len(ranks) /\ found' = q[nIndex]
    BY <1>1, <1>2, <1>5, <1>7
  <2>2. q[nIndex] \in 1 .. Len(ranks)
    BY <1>1, <2>1 DEF Order
  <2>3. found' \in 0 .. Len(ranks)
    BY <1>5, <2>1, <2>2
  <2> QED  BY <1>3, <1>4, <1>5, <2>3, LookupStep
<1> QED  BY <1>6, <1>7

LEMMA TailStep == ASSUME ListInv, getTail PROVE ListInv'
<1>1. tail \in 0 .. Len(ranks)
  BY DEF ListInv, ListTypes
<1> QED  BY <1>1, LookupStep DEF getTail

LEMMA ListStepInv == ASSUME ListsAssumption, ListInv, [ListsNext]_listVars PROVE ListInv'
<1>1. CASE UNCHANGED listVars
  <2>1. UNCHANGED <<sorted, atHead, ranks, pNext, pPrev, head, tail, reader, found,
                    pCurrent, front>>
    BY <1>1 DEF listVars
  <2>2. found \in 0 .. Len(ranks) /\ pCurrent \in 0 .. Len(ranks)
    BY DEF ListInv, ListTypes
  <2> QED  BY <2>1, <2>2, LookupStep
<1> QED
  BY <1>1, MakeStep, FlagsStep, AddStep, HeadStep, NextStep, TailStep, FindStep, ItemStep
     DEF ListsNext

\* Types of a list and its links (list.c).
THEOREM ListsTypes == ListsSpec => []ListsTypeOK
<1>1. ListInv => ListsTypeOK
  <2> SUFFICES ASSUME ListInv PROVE ListsTypeOK
    OBVIOUS
  <2>1. ListTypes
    BY DEF ListInv
  <2>2. \A m \in 0 .. Len(ranks) : m \in 1 .. Len(ranks) \cup {0}
    BY <2>1 DEF ListTypes
  <2>3. Nodes = 1 .. Len(ranks)
    BY <2>1 DEF ListTypes, Nodes
  <2> QED  BY <2>1, <2>2, <2>3 DEF ListTypes, ListsTypeOK, NULL
<1> QED  BY ListInitInv, ListStepInv, ListsAssumption, <1>1, PTL DEF ListsSpec

\* For any members, added before or while the list is read, and any lookups on
\* the way, a reader is given every member that was there when it began, none
\* twice; and in a list not sorted, whenever its members are set to be added at
\* the head or at the tail, the first ones are those added at the head, the last
\* of them foremost, and the rest follow as added (list.c: addList, getHead,
\* getNext, findList, getItem; QgenMain.c: parseTemplate).
THEOREM ReadersServed == ListsSpec => []ReadersSeeEveryMember
<1>1. ListInv => ReadersSeeEveryMember
  <2> SUFFICES ASSUME ListInv PROVE ReadersSeeEveryMember
    OBVIOUS
  <2>1. PICK q : /\ Chain = q /\ Order(q, Len(ranks), pNext, head)
                 /\ GivenUpTo(q) /\ InPlace(q) /\ DOMAIN q = 1 .. Len(ranks)
    BY ChainMembers
  <2>2. Nodes = 1 .. Len(ranks)
    BY DEF ListInv, ListTypes, Nodes
  <2>3. Range(q) = Nodes /\ IsInjective(q)
    <3>1. /\ \A i \in DOMAIN q : q[i] \in Nodes
          /\ \A m \in Nodes : \E i \in DOMAIN q : q[i] = m
      BY <2>1, <2>2 DEF Order
    <3>2. \A i, j \in DOMAIN q : q[i] = q[j] => i = j
      BY <2>1 DEF Order
    <3> QED  BY <3>1, <3>2 DEF Range, IsInjective
  <2>4. IsInjective(reader.given)
    BY <2>1 DEF GivenUpTo
  <2>5. ~reader.on /\ reader.given # <<>> => reader.from \subseteq Range(reader.given)
    BY <2>1 DEF GivenUpTo
  <2>6. ~sorted =>
          /\ \A i, j \in DOMAIN q : i < j => Before(q[i], q[j])
          /\ \A i \in DOMAIN q : pPrev[q[i]] = IF i = 1 THEN NULL ELSE q[i - 1]
          /\ tail = IF head = NULL THEN NULL ELSE q[Len(q)]
    <3>1. Len(q) = Len(ranks) /\ head = IF Len(ranks) = 0 THEN NULL ELSE q[1]
      BY <2>1 DEF Order
    <3>2. Len(ranks) # 0 => head # NULL
      <4>1. Len(ranks) # 0 => 1 \in 1 .. Len(ranks)
        BY DEF ListInv, ListTypes
      <4>2. \A m \in 1 .. Len(ranks) : m # NULL
        BY DEF NULL
      <4> QED  BY <2>1, <3>1, <4>1, <4>2 DEF Order
    <3> QED  BY <2>1, <3>1, <3>2 DEF InPlace
  <2> QED  BY <2>1, <2>3, <2>4, <2>5, <2>6 DEF ReadersSeeEveryMember
<1> QED  BY ListInitInv, ListStepInv, ListsAssumption, <1>1, PTL DEF ListsSpec

-----------------------------------------------------------------------------
(***************************************************************************)
(* The command line.                                                       *)
(***************************************************************************)
Table == [DOMAIN Options -> [value : Values, set : BOOLEAN]]
Line == Dashed \X DOMAIN ScaleIndexOf
Named == DOMAIN Options \ {ScaleIndex}
IndexFits(p) == p[ScaleIndex].value = ScaleIndexOf[p["SCALE"].value]

\* A word that is known names one option, which it is a prefix of.
LEMMA KnownNames ==
  ASSUME NEW word \in Dashed
  PROVE  /\ Known(word) => OptionNamed(word) \in Named /\ Means[word] = {OptionNamed(word)}
         /\ ~Known(word) => \A o : Means[word] # {o}
<1>1. IsFiniteSet(Means[word]) /\ Means[word] \subseteq Named
  BY ParametersAssumption DEF Named
<1>2. CASE Known(word)
  <2>1. \E o : Means[word] = {o}
    BY <1>1, <1>2, FS_Singleton DEF Known
  <2>2. Means[word] = {OptionNamed(word)}
    BY <2>1 DEF OptionNamed
  <2> QED  BY <1>1, <1>2, <2>2
<1>3. CASE ~Known(word)
  BY <1>3, FS_Singleton DEF Known
<1> QED  BY <1>2, <1>3

\* What an option takes from a word.
LEMMA TakenIs ==
  ASSUME NEW o \in DOMAIN Options, NEW word \in Values PROVE Taken(o, word) \in Values
<1>1. "Y" \in Values /\ "N" \in Values
  BY DEF Values
<1> QED  BY <1>1 DEF Taken

\* Storing changes one option.
LEMMA StoresOption ==
  ASSUME NEW p \in Table, NEW o \in DOMAIN Options, NEW word, Taken(o, word) \in Values
  PROVE  /\ Store(p, o, word) \in Table
         /\ Store(p, o, word)[o] = [value |-> Taken(o, word), set |-> TRUE]
         /\ \A y \in DOMAIN Options \ {o} : Store(p, o, word)[y] = p[y]
<1>1. [value |-> Taken(o, word), set |-> TRUE] \in [value : Values, set : BOOLEAN]
  OBVIOUS
<1> QED  BY <1>1 DEF Store, Table

\* Setting an option changes it alone, but for the scale and its index.
LEMMA SetsOption ==
  ASSUME NEW p \in Table, NEW o \in Named, NEW word \in DOMAIN ScaleIndexOf
  PROVE  /\ SetOption(p, o, word) \in Table
         /\ SetOption(p, o, word)[o] = [value |-> Taken(o, word), set |-> TRUE]
         /\ \A other \in Named \ {o} : SetOption(p, o, word)[other] = p[other]
         /\ IndexFits(p) => IndexFits(SetOption(p, o, word))
<1>1. /\ word \in Values /\ ScaleIndexOf[word] \in Values /\ o \in DOMAIN Options
      /\ ScaleIndex \in DOMAIN Options /\ "SCALE" \in Named /\ o # ScaleIndex
  <2>1. word \in Values /\ ScaleIndexOf[word] \in Values
    BY DEF Values
  <2>2. "SCALE" # ScaleIndex
    BY DEF ScaleIndex
  <2> QED  BY <2>1, <2>2, ParametersAssumption DEF Named
<1>2. Taken(o, word) \in Values
  BY <1>1, TakenIs
<1>3. Taken(ScaleIndex, ScaleIndexOf[word]) \in Values
  BY <1>1, TakenIs
<1>4. CASE o # "SCALE"
  <2>1. SetOption(p, o, word) = Store(p, o, word)
    BY <1>4 DEF SetOption
  <2>2. ScaleIndex \in DOMAIN Options \ {o} /\ "SCALE" \in DOMAIN Options \ {o}
    BY <1>1, <1>4 DEF Named
  <2>3. /\ Store(p, o, word) \in Table
        /\ Store(p, o, word)[o] = [value |-> Taken(o, word), set |-> TRUE]
        /\ \A y \in DOMAIN Options \ {o} : Store(p, o, word)[y] = p[y]
    BY <1>1, <1>2, StoresOption
  <2>4. IndexFits(p) => IndexFits(SetOption(p, o, word))
    BY <2>1, <2>2, <2>3 DEF IndexFits
  <2> QED  BY <2>1, <2>3, <2>4 DEF Named
<1>5. CASE o = "SCALE"
  <2>1. PICK q \in Table :
          /\ q = Store(p, ScaleIndex, ScaleIndexOf[word])
          /\ q[ScaleIndex] = [value |-> Taken(ScaleIndex, ScaleIndexOf[word]), set |-> TRUE]
          /\ \A y \in DOMAIN Options \ {ScaleIndex} : q[y] = p[y]
    BY <1>1, <1>3, StoresOption
  <2>2. SetOption(p, o, word) = Store(q, o, word)
    BY <1>5, <2>1 DEF SetOption
  <2>3. Taken(ScaleIndex, ScaleIndexOf[word]) = ScaleIndexOf[word] /\ Taken(o, word) = word
    BY <1>5, ParametersAssumption DEF Taken
  <2>4. /\ Store(q, o, word) \in Table
        /\ Store(q, o, word)[o] = [value |-> Taken(o, word), set |-> TRUE]
        /\ \A y \in DOMAIN Options \ {o} : Store(q, o, word)[y] = q[y]
    BY <1>1, <1>2, <2>1, StoresOption
  <2>5. Store(q, o, word)["SCALE"] = [value |-> word, set |-> TRUE]
    BY <1>5, <2>3, <2>4
  <2>6. Store(q, o, word)[ScaleIndex].value = ScaleIndexOf[word]
    <3>1. ScaleIndex \in DOMAIN Options \ {o}
      BY <1>1
    <3> QED  BY <2>1, <2>3, <2>4, <3>1
  <2>7. \A other \in Named \ {o} : Store(q, o, word)[other] = p[other]
    BY <2>1, <2>4 DEF Named
  <2>9. IndexFits(SetOption(p, o, word))
    BY <2>2, <2>5, <2>6 DEF IndexFits
  <2> QED  BY <2>2, <2>4, <2>7, <2>9
<1> QED  BY <1>4, <1>5

\* A file is read line by line.
LEMMA FileReads ==
  ASSUME NEW p \in Table, NEW lines \in Seq(Line)
  PROVE  \E a : /\ ReadFile(p, lines) = a[Len(lines)] /\ a[0] = p
                /\ \A k \in 0 .. Len(lines) - 1 : a[k + 1] = ReadLine(a[k], lines[k + 1])
<1>1. PICK n \in Nat : n = Len(lines)
  OBVIOUS
<1>2. \A q \in Table : \A k \in 1 .. n : ReadLine(q, lines[k]) \in Table
  <2> SUFFICES ASSUME NEW q \in Table, NEW k \in 1 .. n PROVE ReadLine(q, lines[k]) \in Table
    OBVIOUS
  <2>1. lines[k] \in Line
    BY <1>1
  <2>2. lines[k][1] \in Dashed /\ lines[k][2] \in DOMAIN ScaleIndexOf
    BY <2>1 DEF Line
  <2> QED  BY <2>2, KnownNames, SetsOption DEF ReadLine
<1> DEFINE F == [x \in Nat \X Table |->
                   IF x[1] < n THEN ReadLine(x[2], lines[x[1] + 1]) ELSE x[2]]
<1>3. F \in [Nat \X Table -> Table]
  <2>1. \A k \in Nat : k < n => k + 1 \in 1 .. n
    BY <1>1
  <2> QED  BY <1>2, <2>1
<1>4. PICK h : Iterates(h, Table, p, F)
  BY <1>3, RecursionExists
<1>5. /\ h[0] = p
      /\ \A k \in 0 .. n - 1 : h[k + 1] = ReadLine(h[k], lines[k + 1])
  <2>1. h \in [Nat -> Table] /\ h[0] = p /\ \A k \in Nat : h[k + 1] = F[<<k, h[k]>>]
    BY <1>4 DEF Iterates
  <2>2. ASSUME NEW k \in 0 .. n - 1 PROVE h[k + 1] = ReadLine(h[k], lines[k + 1])
    <3>1. k \in Nat /\ k < n
      BY <1>1
    <3>2. <<k, h[k]>> \in Nat \X Table
      BY <2>1, <3>1
    <3>3. F[<<k, h[k]>>] = ReadLine(h[k], lines[k + 1])
      BY <3>1, <3>2
    <3> QED  BY <2>1, <3>1, <3>3
  <2> QED  BY <2>1, <2>2
<1> HIDE DEF F
<1> DEFINE Body(g) == [k \in 0 .. n |-> IF k = 0 THEN p ELSE ReadLine(g[k - 1], lines[k])]
<1>6. PICK g : g = [k \in 0 .. n |-> h[k]]
  OBVIOUS
<1>7. g = Body(g)
  <2>1. \A k \in 0 .. n : g[k] = IF k = 0 THEN p ELSE ReadLine(g[k - 1], lines[k])
    <3> SUFFICES ASSUME NEW k \in 0 .. n, k # 0 PROVE g[k] = ReadLine(g[k - 1], lines[k])
      BY <1>5, <1>6
    <3>1. k - 1 \in 0 .. n - 1 /\ k - 1 \in 0 .. n /\ k - 1 + 1 = k
      BY <1>1
    <3>2. h[k - 1 + 1] = ReadLine(h[k - 1], lines[k - 1 + 1])
      BY <1>5, <3>1
    <3> QED  BY <1>6, <3>1, <3>2
  <2> QED  BY <1>6, <2>1
<1>8. PICK a : a = (CHOOSE b : b = Body(b))
  OBVIOUS
<1>9. a = Body(a)
  BY <1>7, <1>8
<1>10. ReadFile(p, lines) = a[n]
  BY <1>1, <1>8 DEF ReadFile
<1>11. a[0] = p
  BY <1>1, <1>9
<1>12. ASSUME NEW k \in 0 .. n - 1 PROVE a[k + 1] = ReadLine(a[k], lines[k + 1])
  <2>1. k + 1 \in 0 .. n /\ k + 1 # 0 /\ k + 1 - 1 = k
    BY <1>1
  <2>2. a[k + 1] = Body(a)[k + 1]
    BY <1>9
  <2> QED  BY <2>1, <2>2
<1> QED  BY <1>1, <1>10, <1>11, <1>12

\* The first k lines that are about option o, and the first of them.
Heard(o, lines, k) == {i \in 1 .. k : Means[lines[i][1]] = {o}}
FirstOf(i, A) == i \in A /\ \A j \in A : i <= j

\* What the first k lines make of p: what is set stays, and what is not is set
\* by the first line about it.
Settles(q, p, lines, k) ==
  \A o \in Named :
    /\ p[o].set \/ Heard(o, lines, k) = {} => q[o] = p[o]
    /\ ~p[o].set => \A i : FirstOf(i, Heard(o, lines, k)) =>
         q[o] = [value |-> Taken(o, lines[i][2]), set |-> TRUE]

LEMMA FirstExists ==
  ASSUME NEW A, A \subseteq Nat, A # {} PROVE \E i : FirstOf(i, A)
BY LeastElement DEF FirstOf

LEMMA FirstIs ==
  ASSUME NEW A, A \subseteq Nat, NEW m, FirstOf(m, A)
  PROVE  (CHOOSE i \in A : \A j \in A : i <= j) = m
<1>1. \A i, j \in Nat : i <= j /\ j <= i => i = j
  OBVIOUS
<1>2. ASSUME NEW i \in A, \A j \in A : i <= j PROVE i = m
  BY <1>1, <1>2 DEF FirstOf
<1> QED  BY <1>2 DEF FirstOf

LEMMA LineSettles ==
  ASSUME NEW lines \in Seq(Line), NEW k \in Nat, k < Len(lines), NEW p \in Table,
         NEW q \in Table, Settles(q, p, lines, k), IndexFits(q),
         NEW r, r = ReadLine(q, lines[k + 1])
  PROVE  r \in Table /\ IndexFits(r) /\ Settles(r, p, lines, k + 1)
<1>1. PICK line \in Line : line = lines[k + 1]
  OBVIOUS
<1>2. line[1] \in Dashed /\ line[2] \in DOMAIN ScaleIndexOf
  BY DEF Line
<1>3. \A i : i \in 1 .. k + 1 <=> i \in 1 .. k \/ i = k + 1
  OBVIOUS
<1>4. ASSUME NEW o, Means[line[1]] # {o} PROVE Heard(o, lines, k + 1) = Heard(o, lines, k)
  BY <1>1, <1>3, <1>4 DEF Heard
<1>5. ASSUME NEW o, Means[line[1]] = {o}
      PROVE  Heard(o, lines, k + 1) = Heard(o, lines, k) \cup {k + 1}
  BY <1>1, <1>3, <1>5 DEF Heard
<1>6. \A o : Heard(o, lines, k) \subseteq 1 .. k
  BY DEF Heard
<1>7. CASE ~Known(line[1])
  <2>1. r = q
    BY <1>1, <1>7 DEF ReadLine
  <2>2. \A o : Heard(o, lines, k + 1) = Heard(o, lines, k)
    BY <1>2, <1>4, <1>7, KnownNames
  <2> QED  BY <2>1, <2>2 DEF Settles
<1>8. CASE Known(line[1])
  <2>1. PICK n \in Named : n = OptionNamed(line[1]) /\ Means[line[1]] = {n}
    BY <1>2, <1>8, KnownNames
  <2>2. \A o : o # n => Heard(o, lines, k + 1) = Heard(o, lines, k)
    BY <1>4, <2>1
  <2>3. Heard(n, lines, k + 1) = Heard(n, lines, k) \cup {k + 1}
    BY <1>5, <2>1
  <2>4. ASSUME NEW i, FirstOf(i, Heard(n, lines, k))
        PROVE  FirstOf(i, Heard(n, lines, k + 1))
    <3>1. i \in 1 .. k /\ i <= k + 1
      BY <1>6, <2>4 DEF FirstOf
    <3> QED  BY <2>3, <2>4, <3>1 DEF FirstOf
  <2>5. CASE q[n].set
    <3>1. r = q
      BY <1>1, <2>1, <2>5 DEF ReadLine
    <3>2. p[n].set \/ Heard(n, lines, k + 1) = {} => r[n] = p[n]
      BY <2>3, <3>1 DEF Settles
    <3>3. ASSUME ~p[n].set, NEW i, FirstOf(i, Heard(n, lines, k + 1))
          PROVE  r[n] = [value |-> Taken(n, lines[i][2]), set |-> TRUE]
      <4>1. Heard(n, lines, k) # {}
        BY <2>5, <3>3 DEF Settles
      <4>2. Heard(n, lines, k) \subseteq Nat
        BY <1>6
      <4>3. PICK m : FirstOf(m, Heard(n, lines, k))
        BY <4>1, <4>2, FirstExists
      <4>4. m = i
        <5>1. Heard(n, lines, k + 1) \subseteq Nat
          BY DEF Heard
        <5>2. FirstOf(m, Heard(n, lines, k + 1))
          BY <2>4, <4>3
        <5> QED  BY <3>3, <5>1, <5>2, FirstIs
      <4> QED  BY <3>1, <3>3, <4>3, <4>4 DEF Settles
    <3>4. Settles(r, p, lines, k + 1)
      <4> SUFFICES ASSUME NEW o \in Named
                   PROVE  /\ p[o].set \/ Heard(o, lines, k + 1) = {} => r[o] = p[o]
                          /\ ~p[o].set => \A i : FirstOf(i, Heard(o, lines, k + 1)) =>
                               r[o] = [value |-> Taken(o, lines[i][2]), set |-> TRUE]
        BY DEF Settles
      <4>1. CASE o = n
        BY <3>2, <3>3, <4>1
      <4>2. CASE o # n
        BY <2>2, <3>1, <4>2 DEF Settles
      <4> QED  BY <4>1, <4>2
    <3> QED  BY <3>1, <3>4
  <2>6. CASE ~q[n].set
    <3>1. r = SetOption(q, n, line[2])
      BY <1>1, <1>8, <2>1, <2>6 DEF ReadLine
    <3>2. /\ r \in Table /\ r[n] = [value |-> Taken(n, line[2]), set |-> TRUE]
          /\ \A o \in Named \ {n} : r[o] = q[o]
      BY <1>2, <2>1, <3>1, SetsOption
    <3>3. IndexFits(r)
      <4>1. IndexFits(SetOption(q, n, line[2]))
        BY <1>2, SetsOption
      <4> QED  BY <3>1, <4>1
    <3>4. Heard(n, lines, k) = {} /\ ~p[n].set
      <4>1. CASE p[n].set
        BY <2>6, <4>1 DEF Settles
      <4>2. CASE ~p[n].set /\ Heard(n, lines, k) # {}
        <5>1. Heard(n, lines, k) \subseteq Nat
          BY <1>6
        <5>2. PICK m : FirstOf(m, Heard(n, lines, k))
          BY <4>2, <5>1, FirstExists
        <5>3. q[n] = [value |-> Taken(n, lines[m][2]), set |-> TRUE]
          BY <4>2, <5>2 DEF Settles
        <5> QED  BY <2>6, <5>3
      <4> QED  BY <4>1, <4>2
    <3>5. \A i : FirstOf(i, Heard(n, lines, k + 1)) => i = k + 1
      BY <2>3, <3>4 DEF FirstOf
    <3>6. Heard(n, lines, k + 1) # {}
      BY <2>3
    <3>7. Settles(r, p, lines, k + 1)
      <4> SUFFICES ASSUME NEW o \in Named
                   PROVE  /\ p[o].set \/ Heard(o, lines, k + 1) = {} => r[o] = p[o]
                          /\ ~p[o].set => \A i : FirstOf(i, Heard(o, lines, k + 1)) =>
                               r[o] = [value |-> Taken(o, lines[i][2]), set |-> TRUE]
        BY DEF Settles
      <4>1. CASE o = n
        BY <1>1, <3>2, <3>4, <3>5, <3>6, <4>1
      <4>2. CASE o # n
        BY <2>2, <3>2, <4>2 DEF Settles
      <4> QED  BY <4>1, <4>2
    <3> QED  BY <3>2, <3>3, <3>7
  <2> QED  BY <2>5, <2>6
<1> QED  BY <1>7, <1>8

LEMMA FileSettles ==
  ASSUME NEW lines \in Seq(Line), NEW p \in Table, IndexFits(p)
  PROVE  LET q == ReadFile(p, lines) IN
         q \in Table /\ IndexFits(q) /\ Settles(q, p, lines, Len(lines))
<1>1. PICK a : /\ ReadFile(p, lines) = a[Len(lines)] /\ a[0] = p
               /\ \A k \in 0 .. Len(lines) - 1 : a[k + 1] = ReadLine(a[k], lines[k + 1])
  BY FileReads
<1>2. PICK n \in Nat : n = Len(lines)
  OBVIOUS
<1> DEFINE Good(k) == a[k] \in Table /\ IndexFits(a[k]) /\ Settles(a[k], p, lines, k)
           G == {k \in Nat : k <= n => Good(k)}
<1>3. 0 \in G
  <2>1. \A o : Heard(o, lines, 0) = {}
    BY DEF Heard
  <2>2. \A i, A : A = {} => ~FirstOf(i, A)
    BY DEF FirstOf
  <2>3. Settles(p, p, lines, 0)
    BY <2>1, <2>2 DEF Settles
  <2> QED  BY <1>1, <2>3
<1>4. ASSUME NEW k \in G PROVE k + 1 \in G
  <2>1. CASE k + 1 <= n
    <3>1. k \in Nat /\ k < Len(lines) /\ k \in 0 .. Len(lines) - 1 /\ k <= n
      BY <1>2, <2>1
    <3>2. Good(k) /\ a[k + 1] = ReadLine(a[k], lines[k + 1])
      BY <1>1, <3>1
    <3>3. Good(k + 1)
      BY <3>1, <3>2, LineSettles
    <3> QED  BY <3>1, <3>3
  <2>2. CASE ~(k + 1 <= n)
    BY <2>2
  <2> QED  BY <2>1, <2>2
<1> HIDE DEF G
<1>5. G = Nat
  BY <1>3, <1>4, InductionSet DEF G
<1>6. Good(n)
  BY <1>2, <1>5 DEF G
<1> QED  BY <1>1, <1>2, <1>6

\* What option o is after g was given on the command line and these lines read.
Says(p, g, lines, o) ==
  LET about == Heard(o, lines, Len(lines)) IN
  /\ p[o].value = IF g[o] # NotGiven THEN g[o]
                  ELSE IF about # {}
                  THEN Taken(o, lines[CHOOSE i \in about : \A j \in about : i <= j][2])
                  ELSE Options[o].default
  /\ p[o].set <=> g[o] # NotGiven \/ about # {}

\* Another file sets what is not set yet.
LEMMA FileSays ==
  ASSUME NEW before \in Seq(Line), NEW lines \in Seq(Line), NEW p \in Table,
         NEW g, NEW o \in Named, Says(p, g, before, o),
         NEW q, Settles(q, p, lines, Len(lines))
  PROVE  Says(q, g, before \o lines, o)
<1>1. PICK n \in Nat, m \in Nat : n = Len(before) /\ m = Len(lines)
  OBVIOUS
<1>2. PICK all \in Seq(Line) :
        /\ all = before \o lines /\ Len(all) = n + m
        /\ \A i \in 1 .. n : all[i] = before[i]
        /\ \A i \in 1 .. m : all[n + i] = lines[i]
  <2>1. before \o lines \in Seq(Line) /\ Len(before \o lines) = n + m
    BY <1>1
  <2>2. \A i \in 1 .. n : (before \o lines)[i] = before[i]
    BY <1>1
  <2>3. \A i \in 1 .. m : (before \o lines)[n + i] = lines[i]
    BY <1>1
  <2> QED  BY <2>1, <2>2, <2>3
<1> DEFINE A == Heard(o, before, n)
           B == Heard(o, lines, m)
           C == Heard(o, all, n + m)
<1>3. A \subseteq 1 .. n /\ B \subseteq 1 .. m /\ C \subseteq Nat
  BY DEF Heard
<1>4. \A i \in 1 .. n : i \in A <=> i \in C
  <2>1. \A i \in 1 .. n : i \in 1 .. n + m
    OBVIOUS
  <2> QED  BY <1>2, <2>1 DEF Heard
<1>5. \A i \in 1 .. m : i \in B <=> n + i \in C
  <2>1. \A i \in 1 .. m : n + i \in 1 .. n + m
    OBVIOUS
  <2> QED  BY <1>2, <2>1 DEF Heard
<1>6. \A c \in C : c \in 1 .. n \/ \E i \in 1 .. m : c = n + i
  <2> SUFFICES ASSUME NEW c \in C, c \notin 1 .. n PROVE \E i \in 1 .. m : c = n + i
    OBVIOUS
  <2>1. c \in 1 .. n + m
    BY DEF Heard
  <2>2. c - n \in 1 .. m /\ c = n + (c - n)
    BY <2>1
  <2> QED  BY <2>2
<1> HIDE DEF A, B, C
<1>7. /\ p[o].value = IF g[o] # NotGiven THEN g[o]
                      ELSE IF A # {}
                      THEN Taken(o, before[CHOOSE i \in A : \A j \in A : i <= j][2])
                      ELSE Options[o].default
      /\ p[o].set <=> g[o] # NotGiven \/ A # {}
  BY <1>1 DEF Says, A
<1>8. SUFFICES /\ q[o].value = IF g[o] # NotGiven THEN g[o]
                               ELSE IF C # {}
                               THEN Taken(o, all[CHOOSE i \in C : \A j \in C : i <= j][2])
                               ELSE Options[o].default
               /\ q[o].set <=> g[o] # NotGiven \/ C # {}
  BY <1>2 DEF Says, C
<1>9. CASE g[o] # NotGiven
  <2>1. p[o].set
    BY <1>7, <1>9
  <2>2. q[o] = p[o]
    BY <2>1 DEF Settles
  <2> QED  BY <1>7, <1>9, <2>2
<1>10. CASE g[o] = NotGiven /\ A # {}
  <2>1. p[o].set
    BY <1>7, <1>10
  <2>2. q[o] = p[o]
    BY <2>1 DEF Settles
  <2>3. A \subseteq Nat
    BY <1>3
  <2>4. PICK i : FirstOf(i, A)
    BY <1>10, <2>3, FirstExists
  <2>5. i \in 1 .. n /\ i \in C
    BY <1>3, <1>4, <2>4 DEF FirstOf
  <2>6. \A c \in C : i <= c
    <3> SUFFICES ASSUME NEW c \in C PROVE i <= c
      OBVIOUS
    <3>1. CASE c \in 1 .. n
      BY <1>4, <2>4, <3>1 DEF FirstOf
    <3>2. CASE c \notin 1 .. n
      <4>1. PICK k \in 1 .. m : c = n + k
        BY <1>6, <3>2
      <4> QED  BY <2>5, <4>1
    <3> QED  BY <3>1, <3>2
  <2>7. (CHOOSE x \in A : \A j \in A : x <= j) = i
    BY <2>3, <2>4, FirstIs
  <2>8. (CHOOSE x \in C : \A j \in C : x <= j) = i
    BY <1>3, <2>5, <2>6, FirstIs DEF FirstOf
  <2>9. all[i] = before[i] /\ C # {}
    BY <1>2, <2>5
  <2> QED  BY <1>7, <1>10, <2>2, <2>7, <2>8, <2>9
<1>11. CASE g[o] = NotGiven /\ A = {} /\ B = {}
  <2>1. q[o] = p[o]
    BY <1>1, <1>11 DEF Settles, B
  <2>2. C = {}
    BY <1>4, <1>5, <1>6, <1>11
  <2> QED  BY <1>7, <1>11, <2>1, <2>2
<1>12. CASE g[o] = NotGiven /\ A = {} /\ B # {}
  <2>1. ~p[o].set
    BY <1>7, <1>12
  <2>2. B \subseteq Nat
    BY <1>3
  <2>3. PICK i : FirstOf(i, B)
    BY <1>12, <2>2, FirstExists
  <2>4. q[o] = [value |-> Taken(o, lines[i][2]), set |-> TRUE]
    BY <1>1, <2>1, <2>3 DEF Settles, B
  <2>5. i \in 1 .. m /\ n + i \in C
    BY <1>3, <1>5, <2>3 DEF FirstOf
  <2>6. \A c \in C : n + i <= c
    <3> SUFFICES ASSUME NEW c \in C PROVE n + i <= c
      OBVIOUS
    <3>1. c \notin 1 .. n
      BY <1>4, <1>12
    <3>2. PICK k \in 1 .. m : c = n + k
      BY <1>6, <3>1
    <3>3. i <= k
      BY <1>5, <2>3, <3>2 DEF FirstOf
    <3> QED  BY <2>5, <3>2, <3>3
  <2>7. (CHOOSE x \in C : \A j \in C : x <= j) = n + i
    BY <1>3, <2>5, <2>6, FirstIs DEF FirstOf
  <2>8. all[n + i] = lines[i] /\ C # {}
    BY <1>2, <2>5
  <2>9. q[o].value = Taken(o, lines[i][2]) /\ q[o].set
    BY <2>4
  <2> QED  BY <1>12, <2>7, <2>8, <2>9
<1> QED  BY <1>9, <1>10, <1>11, <1>12

ParametersInv ==
  /\ words \in Seq(Dashed \cup PlainWords) /\ Len(words) <= MaxWords
  /\ next \in Nat \ {0} /\ next <= Len(words) + 2 /\ step \in 1 .. 2
  /\ outcome \in {"running", "usage", "crash", "done"}
  /\ params \in Table /\ IndexFits(params)
  /\ linesRead \in Seq(Line)
  /\ given \in [DOMAIN Options -> Values \cup {NotGiven}]
  /\ \A o \in Named : Says(params, given, linesRead, o)

LEMMA ParametersInitInv == ParametersInit => ParametersInv
<1> SUFFICES ASSUME ParametersInit PROVE ParametersInv
  OBVIOUS
<1>1. words = <<>> /\ Len(words) = 0 /\ next = 1 /\ step = 1 /\ outcome = "running"
  BY DEF ParametersInit
<1>2. params \in Table
  <2>1. \A o \in DOMAIN Options : Options[o].default \in Values
    BY DEF Values
  <2> QED  BY <2>1 DEF ParametersInit, Defaults, Table
<1>3. IndexFits(params)
  BY ParametersAssumption DEF ParametersInit, Defaults, IndexFits
<1>4. given \in [DOMAIN Options -> Values \cup {NotGiven}] /\ linesRead = <<>>
  BY DEF ParametersInit
<1>5. ASSUME NEW o \in Named PROVE Says(params, given, linesRead, o)
  <2>1. Heard(o, linesRead, Len(linesRead)) = {}
    BY <1>4 DEF Heard
  <2>2. params[o].value = Options[o].default /\ ~params[o].set /\ given[o] = NotGiven
    BY DEF ParametersInit, Defaults, Named
  <2> QED  BY <2>1, <2>2 DEF Says
<1>6. <<>> \in Seq(Line) /\ words \in Seq(Dashed \cup PlainWords) /\ 0 <= MaxWords
  BY <1>1, ParametersAssumption
<1> QED  BY <1>1, <1>2, <1>3, <1>4, <1>5, <1>6 DEF ParametersInv

\* An option given on the command line is what was given, the others stay.
LEMMA GivenSays ==
  ASSUME NEW p, NEW q, NEW lines, NEW o \in Named, NEW word,
         NEW g \in [DOMAIN Options -> Values \cup {NotGiven}],
         NEW h, h = [g EXCEPT ![o] = Taken(o, word)], Taken(o, word) # NotGiven,
         \A x \in Named : Says(p, g, lines, x),
         q[o] = [value |-> Taken(o, word), set |-> TRUE],
         \A x \in Named \ {o} : q[x] = p[x]
  PROVE  \A x \in Named : Says(q, h, lines, x)
<1> SUFFICES ASSUME NEW x \in Named PROVE Says(q, h, lines, x)
  OBVIOUS
<1>1. CASE x = o
  <2>1. h[x] = Taken(o, word)
    BY <1>1 DEF Named
  <2>2. q[x].value = Taken(o, word) /\ q[x].set
    BY <1>1
  <2> QED  BY <2>1, <2>2 DEF Says
<1>2. CASE x # o
  <2>1. h[x] = g[x] /\ q[x] = p[x] /\ Says(p, g, lines, x)
    BY <1>2 DEF Named
  <2> QED  BY <2>1 DEF Says
<1> QED  BY <1>1, <1>2

\* The word at hand, and the next.
LEMMA WordsAre ==
  ASSUME ParametersInv, Reading
  PROVE  /\ Word \in Dashed \cup PlainWords
         /\ NextWord # NoWord => NextWord \in Dashed \cup PlainWords
         /\ next + 2 <= Len(words) + 2
<1>1. PICK n \in Nat : n = Len(words) /\ next \in 1 .. n
  BY DEF ParametersInv, Reading
<1>2. next # n => next + 1 \in 1 .. n
  BY <1>1
<1> QED  BY <1>1, <1>2 DEF ParametersInv, Word, NextWord

LEMMA SetFlagStep == ASSUME ParametersInv, SetFlag PROVE ParametersInv'
<1>1. Reading /\ Word \in Dashed /\ Known(Word)
  BY DEF SetFlag
<1>2. PICK o \in Named : o = OptionNamed(Word)
  BY <1>1, KnownNames
<1>3. /\ Options[o].type = "flag" /\ params' = Store(params, o, NextWord)
      /\ given' = [given EXCEPT ![o] = Taken(o, NextWord)]
      /\ step' = 1 /\ next' = next + 1 /\ UNCHANGED <<words, outcome, linesRead>>
  BY <1>2 DEF SetFlag, Advance
<1>4. Taken(o, NextWord) \in Values /\ Taken(o, NextWord) # NotGiven
  <2>1. "Y" \in Values /\ "N" \in Values
    BY DEF Values
  <2>2. "Y" # NotGiven /\ "N" # NotGiven
    BY DEF NotGiven
  <2>3. Taken(o, NextWord) \in {"Y", "N"}
    BY <1>3 DEF Taken
  <2> QED  BY <2>1, <2>2, <2>3
<1>5. /\ params' \in Table
      /\ params'[o] = [value |-> Taken(o, NextWord), set |-> TRUE]
      /\ \A y \in DOMAIN Options \ {o} : params'[y] = params[y]
  BY <1>3, <1>4, StoresOption DEF Named, ParametersInv
<1>6. o # "SCALE" /\ o # ScaleIndex /\ "SCALE" \in DOMAIN Options /\ ScaleIndex \in DOMAIN Options
  BY <1>3, ParametersAssumption DEF Named
<1>7. IndexFits(params)'
  BY <1>5, <1>6 DEF IndexFits, ParametersInv
<1>8. given' \in [DOMAIN Options -> Values \cup {NotGiven}]
  BY <1>3, <1>4 DEF ParametersInv
<1>9. \A x \in Named : Says(params', given', linesRead, x)
  <2>1. \A x \in Named : Says(params, given, linesRead, x)
    BY DEF ParametersInv
  <2>2. \A x \in Named \ {o} : params'[x] = params[x]
    BY <1>5 DEF Named
  <2>3. given \in [DOMAIN Options -> Values \cup {NotGiven}]
    BY DEF ParametersInv
  <2> QED  BY <1>3, <1>4, <1>5, <2>1, <2>2, <2>3, GivenSays
<1>10. next' \in Nat \ {0} /\ next' <= Len(words) + 2
  BY <1>1, <1>3, WordsAre DEF ParametersInv
<1>11. (\A x \in Named : Says(params, given, linesRead, x))'
  BY <1>3, <1>9 DEF Says
<1>12. Len(words)' = Len(words)
  BY <1>3
<1>13. /\ words' \in Seq(Dashed \cup PlainWords) /\ Len(words)' <= MaxWords
       /\ linesRead' \in Seq(Line) /\ step' \in 1 .. 2
       /\ outcome' \in {"running", "usage", "crash", "done"}
  BY <1>3, <1>12 DEF ParametersInv
<1> QED  BY <1>5, <1>7, <1>8, <1>10, <1>11, <1>12, <1>13 DEF ParametersInv

LEMMA SetValueStep == ASSUME ParametersInv, SetValue PROVE ParametersInv'
<1>1. Reading /\ Word \in Dashed /\ Known(Word)
  BY DEF SetValue
<1>2. PICK o \in Named : o = OptionNamed(Word)
  BY <1>1, KnownNames
<1> DEFINE isFile == Options[o].type = "file"
           loaded == IF isFile THEN ReadFile(params, Files[NextWord]) ELSE params
<1>3. /\ Options[o].type \in {"value", "file"} /\ NextWord # NoWord
      /\ isFile => NextWord \in DOMAIN Files
      /\ params' = SetOption(loaded, o, NextWord)
      /\ given' = [given EXCEPT ![o] = NextWord]
      /\ linesRead' = IF isFile THEN linesRead \o Files[NextWord] ELSE linesRead
      /\ step' = 2 /\ next' = next + 2 /\ UNCHANGED <<words, outcome>>
  BY <1>2 DEF SetValue, Advance
<1>4. NextWord \in DOMAIN ScaleIndexOf /\ NextWord # NotGiven
  BY <1>1, <1>3, WordsAre, ParametersAssumption
<1>5. Taken(o, NextWord) = NextWord
  BY <1>3 DEF Taken
<1>6. /\ loaded \in Table /\ IndexFits(loaded) /\ linesRead' \in Seq(Line)
      /\ \A x \in Named : Says(loaded, given, linesRead', x)
  <2>1. params \in Table /\ IndexFits(params) /\ linesRead \in Seq(Line)
    BY DEF ParametersInv
  <2>2. \A x \in Named : Says(params, given, linesRead, x)
    BY DEF ParametersInv
  <2>3. CASE isFile
    <3>1. PICK lines \in Seq(Line) : lines = Files[NextWord]
      BY <1>3, <2>3, ParametersAssumption DEF Line
    <3>2. loaded = ReadFile(params, lines) /\ linesRead' = linesRead \o lines
      BY <1>3, <2>3, <3>1
    <3>3. loaded \in Table /\ IndexFits(loaded) /\ Settles(loaded, params, lines, Len(lines))
      BY <2>1, <3>2, FileSettles
    <3>4. \A x \in Named : Says(loaded, given, linesRead \o lines, x)
      <4> HIDE DEF loaded
      <4> QED  BY <2>1, <2>2, <3>3, FileSays
    <3>5. linesRead \o lines \in Seq(Line)
      BY <2>1
    <3> QED  BY <3>2, <3>3, <3>4, <3>5
  <2>4. CASE ~isFile
    BY <1>3, <2>1, <2>2, <2>4
  <2> QED  BY <2>3, <2>4
<1> HIDE DEF loaded
<1>7. /\ params' \in Table /\ IndexFits(params')
      /\ params'[o] = [value |-> NextWord, set |-> TRUE]
      /\ \A x \in Named \ {o} : params'[x] = loaded[x]
  <2>1. /\ SetOption(loaded, o, NextWord) \in Table
        /\ SetOption(loaded, o, NextWord)[o] = [value |-> Taken(o, NextWord), set |-> TRUE]
        /\ \A x \in Named \ {o} : SetOption(loaded, o, NextWord)[x] = loaded[x]
        /\ IndexFits(SetOption(loaded, o, NextWord))
    BY <1>4, <1>6, SetsOption
  <2> QED  BY <1>3, <1>5, <2>1
<1>8. NextWord \in Values
  BY <1>4 DEF Values
<1>9. given' \in [DOMAIN Options -> Values \cup {NotGiven}]
  BY <1>3, <1>8 DEF ParametersInv
<1>10. \A x \in Named : Says(params', given', linesRead', x)
  <2>1. given \in [DOMAIN Options -> Values \cup {NotGiven}]
    BY DEF ParametersInv
  <2>2. /\ given' = [given EXCEPT ![o] = Taken(o, NextWord)] /\ Taken(o, NextWord) # NotGiven
        /\ params'[o] = [value |-> Taken(o, NextWord), set |-> TRUE]
    BY <1>3, <1>4, <1>5, <1>7
  <2>3. \A x \in Named : Says(loaded, given, linesRead', x)
    BY <1>6
  <2>4. \A x \in Named \ {o} : params'[x] = loaded[x]
    BY <1>7
  <2> QED  BY <2>1, <2>2, <2>3, <2>4, GivenSays
<1>11. next' \in Nat \ {0} /\ next' <= Len(words) + 2
  BY <1>1, <1>3, WordsAre DEF ParametersInv
<1>12. IndexFits(params)'
  BY <1>7 DEF IndexFits
<1>13. (\A x \in Named : Says(params, given, linesRead, x))'
  BY <1>10 DEF Says
<1>14. Len(words)' = Len(words)
  BY <1>3
<1>15. /\ words' \in Seq(Dashed \cup PlainWords) /\ Len(words)' <= MaxWords /\ step' \in 1 .. 2
       /\ outcome' \in {"running", "usage", "crash", "done"}
  BY <1>3, <1>14 DEF ParametersInv
<1> QED  BY <1>6, <1>7, <1>9, <1>11, <1>12, <1>13, <1>14, <1>15 DEF ParametersInv

\* The rest reads a word that sets nothing, or ends.
LEMMA OtherStep ==
  ASSUME ParametersInv, Write \/ PassOver \/ Refuse \/ Exit \/ Finish PROVE ParametersInv'
<1>1. UNCHANGED <<params, given, linesRead>>
  BY DEF Write, PassOver, Refuse, Exit, Finish, Ends
<1>2. /\ params' \in Table /\ IndexFits(params)' /\ linesRead' \in Seq(Line)
      /\ given' \in [DOMAIN Options -> Values \cup {NotGiven}]
      /\ \A o \in Named : Says(params, given, linesRead, o)'
  BY <1>1 DEF ParametersInv, IndexFits, Says
<1>3. CASE Write
  <2>1. PICK w \in Dashed \cup PlainWords : words' = Append(words, w)
    BY <1>3 DEF Write
  <2>2. Len(words) < MaxWords /\ UNCHANGED <<next, step, outcome>>
    BY <1>3 DEF Write
  <2>3. PICK W : W = Dashed \cup PlainWords
    OBVIOUS
  <2>4. words \in Seq(W) /\ w \in W /\ Len(words) \in Nat /\ MaxWords \in Nat
    BY <2>3, ParametersAssumption DEF ParametersInv
  <2>5. words' \in Seq(W) /\ Len(words') = Len(words) + 1
    BY <2>1, <2>4
  <2>6. Len(words') <= MaxWords /\ next' <= Len(words') + 2
    BY <2>2, <2>4, <2>5 DEF ParametersInv
  <2> QED  BY <1>2, <2>2, <2>3, <2>5, <2>6 DEF ParametersInv
<1>4. CASE PassOver
  <2>1. Reading /\ step' = step /\ next' = next + step /\ UNCHANGED <<words, outcome>>
    BY <1>4 DEF PassOver, Advance
  <2>2. next + 2 <= Len(words) + 2
    BY <2>1, WordsAre
  <2>3. next' \in Nat \ {0} /\ next' <= Len(words) + 2
    BY <2>1, <2>2 DEF ParametersInv
  <2> QED  BY <1>2, <2>1, <2>3 DEF ParametersInv
<1>5. CASE Refuse \/ Exit \/ Finish
  <2>1. /\ UNCHANGED <<words, next, step>>
        /\ outcome' \in {"usage", "crash", "done"}
    BY <1>5 DEF Refuse, Exit, Finish, Ends
  <2> QED  BY <1>2, <2>1 DEF ParametersInv
<1> QED  BY <1>3, <1>4, <1>5

LEMMA ParametersStep == ParametersInv /\ [ParametersNext]_parameterVars => ParametersInv'
<1>1. ASSUME ParametersInv, UNCHANGED parameterVars PROVE ParametersInv'
  BY <1>1 DEF parameterVars, ParametersInv, IndexFits, Says
<1> QED  BY <1>1, SetFlagStep, SetValueStep, OtherStep DEF ParametersNext

\* Types of the command line's program (r_params.c).
THEOREM ParametersTypes == ParametersSpec => []ParametersTypeOK
<1>1. ParametersInv => ParametersTypeOK
  <2> SUFFICES ASSUME ParametersInv PROVE ParametersTypeOK
    OBVIOUS
  <2>1. next \in 1 .. MaxWords + 2
    BY ParametersAssumption DEF ParametersInv
  <2> QED  BY <2>1 DEF ParametersInv, ParametersTypeOK, Table
<1> QED  BY ParametersInitInv, ParametersStep, <1>1, PTL DEF ParametersSpec

\* For any option table, command line and parameter files: an option has the last
\* value the command line gives it, else the first that the files do, else its
\* default, wherever the files are named (r_params.c: process_options, set_option,
\* read_file).
THEOREM CommandLineWins == ParametersSpec => []CommandLineOverFile
<1>1. ParametersInv => CommandLineOverFile
  <2> SUFFICES ASSUME ParametersInv PROVE CommandLineOverFile
    OBVIOUS
  <2>1. IndexFits(params)
    BY DEF ParametersInv
  <2>2. ASSUME NEW o \in Named
        PROVE  /\ params[o].value =
                    IF given[o] # NotGiven THEN given[o]
                    ELSE IF LinesAbout(o) # {} THEN Taken(o, FirstWord(o))
                    ELSE Options[o].default
               /\ Options[o].type # "flag" =>
                    (IsSet(params, o) <=>
                       \/ given[o] # NotGiven \/ LinesAbout(o) # {}
                       \/ Options[o].default # "")
    <3>1. Says(params, given, linesRead, o) /\ linesRead \in Seq(Line)
      BY DEF ParametersInv
    <3>2. LinesAbout(o) = Heard(o, linesRead, Len(linesRead))
      BY <3>1 DEF LinesAbout, Heard
    <3>3. params[o].set <=> given[o] # NotGiven \/ LinesAbout(o) # {}
      BY <3>1, <3>2 DEF Says
    <3>4. Options[o].type # "flag" =>
            (IsSet(params, o) <=> params[o].set \/ Options[o].default # "")
      BY DEF IsSet
    <3>5. params[o].value =
                    IF given[o] # NotGiven THEN given[o]
                    ELSE IF LinesAbout(o) # {} THEN Taken(o, FirstWord(o))
                    ELSE Options[o].default
      BY <3>1, <3>2 DEF Says, FirstWord
    <3> QED  BY <3>3, <3>4, <3>5
  <2> QED  BY <2>1, <2>2 DEF CommandLineOverFile, IndexFits, Named
<1> QED  BY ParametersInitInv, ParametersStep, <1>1, PTL DEF ParametersSpec

-----------------------------------------------------------------------------
(***************************************************************************)
(* Prices.                                                                 *)
(***************************************************************************)
\* Products of amounts in cents drop the digits beyond the cent, multiples keep all.
LEMMA CentsTimes ==
  ASSUME NEW a \in Nat, NEW b \in Nat
  PROVE  /\ Times(Hundredths(a), Hundredths(b)) = Hundredths((a * b) \div 100)
         /\ (a * b) \div 100 \in Nat
<1>1. 10 ^ (2 + 2 - 2) = 100
  OBVIOUS
<1>2. (a * b) \div 100 \in Nat
  OBVIOUS
<1> QED  BY <1>1, <1>2 DEF Times, Hundredths, Dec, Wider

LEMMA ManyTimes ==
  ASSUME NEW a \in Nat, NEW n \in Nat
  PROVE  /\ Times(Hundredths(a), IToDec(n)) = Hundredths(a * n)
         /\ Times(IToDec(n), Hundredths(a)) = Hundredths(n * a)
         /\ a * n \in Nat
<1>1. 10 ^ (2 + 0 - 2) = 1 /\ 10 ^ (0 + 2 - 2) = 1
  OBVIOUS
<1>2. (a * n) \div 1 = a * n /\ (n * a) \div 1 = n * a /\ a * n \in Nat
  OBVIOUS
<1> QED  BY <1>1, <1>2 DEF Times, Hundredths, IToDec, Dec, Wider

LEMMA CentsSum ==
  ASSUME NEW a \in Int, NEW b \in Int
  PROVE  /\ Plus(Hundredths(a), Hundredths(b)) = Hundredths(a + b)
         /\ Minus(Hundredths(a), Hundredths(b)) = Hundredths(a - b)
BY DEF Plus, Minus, Hundredths, Dec, Wider

\* A percentage as a decimal.
LEMMA PercentOver ==
  ASSUME NEW p \in 0 .. 100 PROVE Over(IToDec(p), Hundred) = Hundredths(p)
<1>1. 10 ^ (2 - 0) = 100 /\ 10 ^ 2 = 100 /\ 10 ^ (2 - 2) = 1
  OBVIOUS
<1>2. (p * 100 * 100) \div (10000 * 1) = p
  OBVIOUS
<1> QED  BY <1>1, <1>2 DEF Over, Hundred, Hundredths, IToDec, Dec, Wider

\* A part of an amount is no more than all of it.
LEMMA PartOf ==
  ASSUME NEW a \in Nat, NEW p \in 0 .. 100 PROVE (a * p) \div 100 \in 0 .. a
<1>1. a * p <= a * 100 /\ a * p >= 0
  OBVIOUS
<1> QED  BY <1>1

LEMMA CentsIs == ASSUME NEW a PROVE Cents(Hundredths(a)) = a
BY DEF Cents, Hundredths, Dec

\* The totals of a sale or return of net cents.
TotalsOf(net, ship, tax) ==
  [ext_ship_cost |-> Hundredths(ship), ext_tax |-> Hundredths(tax),
   net_paid |-> Hundredths(net),
   net_paid_inc_ship |-> Hundredths(net + ship),
   net_paid_inc_tax |-> Hundredths(net + tax),
   net_paid_inc_ship_tax |-> Hundredths(net + ship + tax)]

LEMMA TotalsAre ==
  ASSUME NEW net \in Nat, NEW n \in Nat, NEW list \in Nat, NEW s \in Nat, NEW t \in Nat
  PROVE  /\ Totals(Hundredths(net), n, Hundredths(list), Hundredths(s), Hundredths(t))
              = TotalsOf(net, ((list * s) \div 100) * n, (net * t) \div 100)
         /\ ((list * s) \div 100) * n \in Nat /\ (net * t) \div 100 \in Nat
<1>1. PICK one \in Nat :
        one = (list * s) \div 100 /\ Times(Hundredths(list), Hundredths(s)) = Hundredths(one)
  BY CentsTimes
<1>2. PICK ship \in Nat :
        ship = one * n /\ Times(Hundredths(one), IToDec(n)) = Hundredths(ship)
  BY ManyTimes
<1>3. PICK tax \in Nat :
        tax = (net * t) \div 100 /\ Times(Hundredths(net), Hundredths(t)) = Hundredths(tax)
  BY CentsTimes
<1>4. /\ Plus(Hundredths(net), Hundredths(ship)) = Hundredths(net + ship)
      /\ Plus(Hundredths(net), Hundredths(tax)) = Hundredths(net + tax)
      /\ Plus(Hundredths(net + ship), Hundredths(tax)) = Hundredths(net + ship + tax)
  <2>1. net + ship \in Int
    OBVIOUS
  <2> QED  BY <2>1, CentsSum
<1>5. Totals(Hundredths(net), n, Hundredths(list), Hundredths(s), Hundredths(t))
        = TotalsOf(net, ship, tax)
  BY <1>1, <1>2, <1>3, <1>4 DEF Totals, TotalsOf
<1> QED  BY <1>1, <1>2, <1>3, <1>5

\* A sale in cents: what it costs, is offered for, sold for, and the coupon.
SaleIs(p, list, price, coupon, net) ==
  /\ p.quantity \in Nat \ {0} /\ list \in Nat /\ price \in 0 .. list
  /\ coupon \in Nat /\ net \in Nat /\ net + coupon = price * p.quantity
  /\ p.list_price = Hundredths(list) /\ p.sales_price = Hundredths(price)
  /\ p.ext_sales_price = Hundredths(price * p.quantity)
  /\ p.ext_discount_amt = Hundredths(list * p.quantity - price * p.quantity)
  /\ p.coupon_amt = Hundredths(coupon)
  /\ \E w \in Nat : p.wholesale_cost = Hundredths(w)
  /\ \E t \in Nat : p.tax_pct = Hundredths(t)
  /\ \E s \in Nat, t \in Nat :
       p.totals = Totals(Hundredths(net), p.quantity, Hundredths(list),
                         Hundredths(s), Hundredths(t))

\* What set_pricing writes of a return.
PaidFields == {"ext_wholesale_cost", "ext_list_price", "ext_sales_price", "totals",
            "net_profit", "refunded_cash", "reversed_charge", "store_credit", "fee",
            "net_loss"}

LEMMA SaleInCents ==
  ASSUME NEW n \in Nat \ {0}, NEW w \in Nat, NEW m \in Nat, NEW d \in 0 .. 100,
         NEW c \in 0 .. 100, NEW s \in Nat, NEW t \in Nat, NEW p,
         p = PriceSale(n, Hundredths(w), Hundredths(m), Hundredths(d), Hundredths(c),
                       Hundredths(s), Hundredths(t))
  PROVE  /\ PaidFields \cup {"quantity"} \subseteq DOMAIN p
         /\ \E list, price, coupon, net : SaleIs(p, list, price, coupon, net)
<1>1. Plus(Hundredths(m), One) = Hundredths(m + 100) /\ m + 100 \in Nat
  BY CentsSum DEF One
<1>2. PICK list \in Nat : Times(Hundredths(w), Hundredths(m + 100)) = Hundredths(list)
  BY <1>1, CentsTimes
<1>3. Minus(One, Hundredths(d)) = Hundredths(100 - d) /\ 100 - d \in 0 .. 100
  <2>1. 100 \in Int /\ d \in Int /\ 100 - d \in 0 .. 100
    OBVIOUS
  <2> QED  BY <2>1, CentsSum DEF One
<1>4. PICK price \in 0 .. list :
        Times(Hundredths(list), Hundredths(100 - d)) = Hundredths(price)
  <2>1. Times(Hundredths(list), Hundredths(100 - d)) = Hundredths((list * (100 - d)) \div 100)
    BY <1>3, CentsTimes
  <2>2. (list * (100 - d)) \div 100 \in 0 .. list
    BY <1>3, PartOf
  <2> QED  BY <2>1, <2>2
<1>5. /\ Times(Hundredths(price), IToDec(n)) = Hundredths(price * n) /\ price * n \in Nat
      /\ Times(Hundredths(list), IToDec(n)) = Hundredths(list * n) /\ list * n \in Nat
  BY <1>4, ManyTimes
<1>6. PICK coupon \in 0 .. price * n :
        Times(Hundredths(price * n), Hundredths(c)) = Hundredths(coupon)
  <2>1. Times(Hundredths(price * n), Hundredths(c)) = Hundredths(((price * n) * c) \div 100)
    BY <1>5, CentsTimes
  <2>2. ((price * n) * c) \div 100 \in 0 .. price * n
    BY <1>5, PartOf
  <2> QED  BY <2>1, <2>2
<1>7. PICK net \in Nat : net + coupon = price * n /\ net = price * n - coupon
  BY <1>5, <1>6
<1>8. /\ Minus(Hundredths(price * n), Hundredths(coupon)) = Hundredths(net)
      /\ Minus(Hundredths(list * n), Hundredths(price * n)) = Hundredths(list * n - price * n)
  BY <1>5, <1>6, <1>7, CentsSum
<1>9. /\ p.quantity = n /\ p.list_price = Hundredths(list) /\ p.sales_price = Hundredths(price)
      /\ p.ext_sales_price = Hundredths(price * n)
      /\ p.ext_discount_amt = Hundredths(list * n - price * n)
      /\ p.coupon_amt = Hundredths(coupon) /\ p.wholesale_cost = Hundredths(w)
      /\ p.tax_pct = Hundredths(t)
      /\ p.totals = Totals(Hundredths(net), n, Hundredths(list), Hundredths(s), Hundredths(t))
      /\ PaidFields \cup {"quantity"} \subseteq DOMAIN p
  BY <1>1, <1>2, <1>3, <1>4, <1>5, <1>6, <1>8 DEF PriceSale, PaidFields
<1>10. SaleIs(p, list, price, coupon, net)
  BY <1>4, <1>6, <1>7, <1>9 DEF SaleIs
<1> QED  BY <1>9, <1>10

\* What a sale is priced at adds up.
SaleAdds(p) ==
  /\ 0 <= Cents(p.ext_discount_amt)
  /\ Cents(p.ext_discount_amt) + Cents(p.ext_sales_price)
       = Cents(p.list_price) * p.quantity
  /\ Cents(p.coupon_amt) + Cents(p.totals.net_paid)
       = Cents(p.sales_price) * p.quantity
  /\ 0 <= Cents(p.totals.net_paid)
  /\ Cents(p.totals.net_paid_inc_ship_tax) - Cents(p.totals.net_paid_inc_ship)
       = Cents(p.totals.net_paid_inc_tax) - Cents(p.totals.net_paid)

LEMMA SaleAddsUp ==
  ASSUME NEW p, NEW list, NEW price, NEW coupon, NEW net, SaleIs(p, list, price, coupon, net)
  PROVE  SaleAdds(p)
<1>1. PICK n : n = p.quantity
  OBVIOUS
<1>2. /\ n \in Nat \ {0} /\ list \in Nat /\ price \in 0 .. list
      /\ coupon \in Nat /\ net \in Nat /\ net + coupon = price * n
  BY <1>1 DEF SaleIs
<1>3. list * n \in Nat /\ price * n \in Nat /\ price * n <= list * n
  BY <1>2
<1>4. PICK ship \in Nat, tax \in Nat :
        /\ p.totals.net_paid = Hundredths(net)
        /\ p.totals.net_paid_inc_ship = Hundredths(net + ship)
        /\ p.totals.net_paid_inc_tax = Hundredths(net + tax)
        /\ p.totals.net_paid_inc_ship_tax = Hundredths(net + ship + tax)
  <2>1. PICK s \in Nat, t \in Nat :
          p.totals = Totals(Hundredths(net), n, Hundredths(list), Hundredths(s), Hundredths(t))
    BY <1>1 DEF SaleIs
  <2>2. net \in Nat /\ n \in Nat /\ list \in Nat /\ s \in Nat /\ t \in Nat
    BY <1>2, <2>1
  <2>3. PICK ship, tax : ship = ((list * s) \div 100) * n /\ tax = (net * t) \div 100
    OBVIOUS
  <2> PICK totals :
        totals = Totals(Hundredths(net), n, Hundredths(list), Hundredths(s), Hundredths(t))
    OBVIOUS
  <2>4. totals = TotalsOf(net, ship, tax) /\ ship \in Nat /\ tax \in Nat
    BY <2>2, <2>3, TotalsAre
  <2> QED  BY <2>1, <2>4 DEF TotalsOf
<1>5. /\ Cents(p.ext_discount_amt) = list * n - price * n
      /\ Cents(p.ext_sales_price) = price * n /\ Cents(p.list_price) = list
      /\ Cents(p.coupon_amt) = coupon /\ Cents(p.sales_price) = price
  BY <1>1, CentsIs DEF SaleIs
<1>6. /\ Cents(p.totals.net_paid) = net /\ Cents(p.totals.net_paid_inc_ship) = net + ship
      /\ Cents(p.totals.net_paid_inc_tax) = net + tax
      /\ Cents(p.totals.net_paid_inc_ship_tax) = net + ship + tax
  BY <1>4, CentsIs
<1>7. (list * n - price * n) + price * n = list * n
  BY <1>3
<1>8. (net + ship + tax) - (net + ship) = (net + tax) - net
  BY <1>2
<1> QED  BY <1>1, <1>2, <1>3, <1>5, <1>6, <1>7, <1>8 DEF SaleAdds

\* What a return of a sale pays back adds up.
PaidBack(p, r) ==
  /\ \A part \in {r.refunded_cash, r.reversed_charge, r.store_credit} : Cents(part) >= 0
  /\ Cents(r.refunded_cash) + Cents(r.reversed_charge) + Cents(r.store_credit)
       = Cents(r.sales_price) * r.quantity
  /\ Cents(r.totals.net_paid) <= Cents(p.totals.net_paid) + Cents(p.coupon_amt)
  /\ Cents(r.net_loss) = Cents(r.totals.ext_tax) + Cents(r.totals.ext_ship_cost)
                           + Cents(r.fee)

\* It does for any number of the goods sold.
LEMMA ReturnAddsUp ==
  ASSUME NEW p, NEW list, NEW price, NEW coupon, NEW net, SaleIs(p, list, price, coupon, net),
         PaidFields \cup {"quantity"} \subseteq DOMAIN p,
         NEW n \in 1 .. p.quantity, NEW s \in Nat, NEW cashPct \in 0 .. 100,
         NEW creditPct \in 0 .. 100, NEW fee \in Nat, NEW r,
         r = PriceReturn([p EXCEPT !.quantity = n], Hundredths(s), cashPct, creditPct,
                         Hundredths(fee))
  PROVE  PaidBack(p, r)
<1>1. PICK m : m = p.quantity
  OBVIOUS
<1>2. /\ m \in Nat \ {0} /\ n \in Nat /\ n <= m /\ list \in Nat /\ price \in Nat
      /\ coupon \in Nat /\ net \in Nat /\ net + coupon = price * m
  BY <1>1 DEF SaleIs
<1>3. PICK g : g = [p EXCEPT !.quantity = n]
  OBVIOUS
<1>4. /\ DOMAIN g = DOMAIN p /\ g.quantity = n /\ g.list_price = Hundredths(list)
      /\ g.sales_price = Hundredths(price)
      /\ g.wholesale_cost = p.wholesale_cost /\ g.tax_pct = p.tax_pct
  BY <1>3 DEF SaleIs
<1>5. PICK ext \in Nat : ext = price * n /\ ext <= price * m
  BY <1>2
<1>6. Times(Hundredths(price), IToDec(n)) = Hundredths(ext)
  BY <1>2, <1>5, ManyTimes
<1>7. PICK t \in Nat : p.tax_pct = Hundredths(t)
  BY DEF SaleIs
<1> PICK totals :
      totals = Totals(Hundredths(ext), n, Hundredths(list), Hundredths(s), Hundredths(t))
  OBVIOUS
<1>8. PICK ship \in Nat, tax \in Nat :
        /\ totals.ext_ship_cost = Hundredths(ship) /\ totals.ext_tax = Hundredths(tax)
        /\ totals.net_paid = Hundredths(ext)
        /\ totals.net_paid_inc_ship_tax = Hundredths(ext + ship + tax)
  <2>1. ext \in Nat /\ n \in Nat /\ list \in Nat /\ s \in Nat /\ t \in Nat
    BY <1>2, <1>7
  <2>2. PICK ship, tax : ship = ((list * s) \div 100) * n /\ tax = (ext * t) \div 100
    OBVIOUS
  <2>3. totals = TotalsOf(ext, ship, tax) /\ ship \in Nat /\ tax \in Nat
    BY <2>1, <2>2, TotalsAre
  <2> QED  BY <2>3 DEF TotalsOf
<1>9. PICK cash \in 0 .. ext :
        Times(Over(IToDec(cashPct), Hundred), Hundredths(ext)) = Hundredths(cash)
  <2>1. /\ Times(Hundredths(cashPct), Hundredths(ext)) = Hundredths((cashPct * ext) \div 100)
        /\ cashPct * ext = ext * cashPct
    BY CentsTimes
  <2>2. (ext * cashPct) \div 100 \in 0 .. ext
    BY PartOf
  <2> QED  BY <2>1, <2>2, PercentOver
<1>10. PICK left \in Nat : left = ext - cash /\ Minus(Hundredths(ext), Hundredths(cash)) = Hundredths(left)
  BY CentsSum
<1>11. PICK charge \in 0 .. left :
         Times(Hundredths(left), Over(IToDec(creditPct), Hundred)) = Hundredths(charge)
  <2>1. Times(Hundredths(left), Hundredths(creditPct)) = Hundredths((left * creditPct) \div 100)
    BY CentsTimes
  <2>2. (left * creditPct) \div 100 \in 0 .. left
    BY PartOf
  <2> QED  BY <2>1, <2>2, PercentOver
<1>12. PICK credit \in Nat :
         /\ credit = ext - charge - cash
         /\ Minus(Minus(Hundredths(ext), Hundredths(charge)), Hundredths(cash)) = Hundredths(credit)
  <2>1. /\ ext \in Int /\ charge \in Int /\ cash \in Int /\ ext - charge \in Int
        /\ ext - charge - cash \in Nat
    BY <1>9, <1>10, <1>11
  <2>2. Minus(Hundredths(ext), Hundredths(charge)) = Hundredths(ext - charge)
    BY <2>1, CentsSum
  <2>3. Minus(Hundredths(ext - charge), Hundredths(cash)) = Hundredths(ext - charge - cash)
    BY <2>1, CentsSum
  <2> QED  BY <2>1, <2>2, <2>3
<1>13. Plus(Minus(Minus(Minus(Hundredths(ext + ship + tax), Hundredths(credit)),
                        Hundredths(cash)), Hundredths(charge)), Hundredths(fee))
         = Hundredths(tax + ship + fee)
  <2>1. PICK a \in Int : a = ext + ship + tax
    OBVIOUS
  <2>2. /\ credit \in Int /\ cash \in Int /\ charge \in Int /\ fee \in Int
        /\ a - credit \in Int /\ a - credit - cash \in Int
        /\ a - credit - cash - charge = tax + ship /\ tax + ship \in Int
    BY <1>8, <1>9, <1>11, <1>12, <2>1
  <2>3. Minus(Hundredths(a), Hundredths(credit)) = Hundredths(a - credit)
    BY <2>2, CentsSum
  <2>4. Minus(Hundredths(a - credit), Hundredths(cash)) = Hundredths(a - credit - cash)
    BY <2>2, CentsSum
  <2>5. Minus(Hundredths(a - credit - cash), Hundredths(charge)) = Hundredths(tax + ship)
    BY <2>2, CentsSum
  <2>6. Plus(Hundredths(tax + ship), Hundredths(fee)) = Hundredths(tax + ship + fee)
    BY <2>2, CentsSum
  <2> QED  BY <2>1, <2>3, <2>4, <2>5, <2>6
<1>14. /\ r.quantity = n /\ r.sales_price = Hundredths(price) /\ r.totals = totals
       /\ r.refunded_cash = Hundredths(cash) /\ r.reversed_charge = Hundredths(charge)
       /\ r.store_credit = Hundredths(credit) /\ r.fee = Hundredths(fee)
       /\ r.net_loss = Hundredths(tax + ship + fee)
  BY <1>3, <1>4, <1>6, <1>7, <1>8, <1>9, <1>10, <1>11, <1>12, <1>13 DEF PriceReturn, PaidFields
<1>15. /\ Cents(r.refunded_cash) = cash /\ Cents(r.reversed_charge) = charge
       /\ Cents(r.store_credit) = credit /\ Cents(r.sales_price) = price
       /\ Cents(r.fee) = fee /\ Cents(r.net_loss) = tax + ship + fee
       /\ Cents(r.totals.ext_tax) = tax /\ Cents(r.totals.ext_ship_cost) = ship
       /\ Cents(r.totals.net_paid) = ext
  BY <1>8, <1>14, CentsIs
<1>16. Cents(p.totals.net_paid) = net /\ Cents(p.coupon_amt) = coupon
  <2>1. Cents(p.coupon_amt) = coupon
    BY CentsIs DEF SaleIs
  <2>2. PICK x \in Nat, y \in Nat :
          p.totals = Totals(Hundredths(net), m, Hundredths(list), Hundredths(x), Hundredths(y))
    BY <1>1 DEF SaleIs
  <2>3. p.totals.net_paid = Hundredths(net)
    BY <2>2 DEF Totals
  <2> QED  BY <2>1, <2>3, CentsIs
<1>17. cash + charge + credit = price * n
  BY <1>5, <1>9, <1>11, <1>12
<1> QED  BY <1>2, <1>5, <1>9, <1>11, <1>12, <1>14, <1>15, <1>16, <1>17 DEF PaidBack

-----------------------------------------------------------------------------
\* Of every sale the amounts are known, and what was paid back for it adds up.
PricingInv ==
  /\ sale = NoPricing => refund.kind = "none"
  /\ sale # NoPricing =>
       /\ PaidFields \cup {"quantity"} \subseteq DOMAIN sale
       /\ \E list, price, coupon, net : SaleIs(sale, list, price, coupon, net)
  /\ refund.kind = "return" => PaidBack(sale, refund.of)

LEMMA PricingStep == PricingInv /\ [PricingNext]_pricingVars => PricingInv'
<1> SUFFICES ASSUME PricingInv, [PricingNext]_pricingVars PROVE PricingInv'
  OBVIOUS
<1>1. CASE sale = NoPricing /\ Sell
  <2>1. PICK n \in Nat \ {0}, m \in Nat, w \in Nat, d \in 0 .. 100, c \in 0 .. 100,
             s \in Nat, t \in Nat :
          sale' = PriceSale(n, Hundredths(w), Hundredths(m), Hundredths(d), Hundredths(c),
                            Hundredths(s), Hundredths(t))
    <3>1. PICK channel \in DOMAIN Channels :
            \E quantity \in Quantities \cap (1 .. Channels[channel].quantity),
               markup \in Markups \cap (0 .. Channels[channel].markup),
               wholesale \in Wholesales, discount \in Discounts,
               coupon \in Coupons \cup {0}, shipping \in Shippings, tax \in Taxes :
              sale' = PriceSale(quantity, Hundredths(wholesale), Hundredths(markup),
                                Hundredths(discount), Hundredths(coupon),
                                Hundredths(shipping), Hundredths(tax))
      BY <1>1 DEF Sell
    <3>2. PICK quantity \in Quantities, markup \in Markups,
               wholesale \in Wholesales, discount \in Discounts,
               coupon \in Coupons \cup {0}, shipping \in Shippings, tax \in Taxes :
              sale' = PriceSale(quantity, Hundredths(wholesale), Hundredths(markup),
                                Hundredths(discount), Hundredths(coupon),
                                Hundredths(shipping), Hundredths(tax))
      BY <3>1
    <3>3. /\ quantity \in Nat \ {0} /\ markup \in Nat /\ wholesale \in Nat
          /\ discount \in 0 .. 100 /\ coupon \in 0 .. 100 /\ shipping \in Nat /\ tax \in Nat
      BY PricingAssumption
    <3> QED  BY <3>2, <3>3
  <2>2. /\ PaidFields \cup {"quantity"} \subseteq DOMAIN sale'
        /\ \E list, price, coupon, net : SaleIs(sale', list, price, coupon, net)
    BY <2>1, SaleInCents
  <2>3. refund'.kind = "none"
    BY <1>1 DEF Sell
  <2> QED  BY <2>2, <2>3 DEF PricingInv
<1>2. CASE ReturnSale
  <2>1. PICK list, price, coupon, net : SaleIs(sale, list, price, coupon, net)
    BY <1>2 DEF ReturnSale, PricingInv
  <2>2. PICK n \in 1 .. sale.quantity, s \in Nat, cashPct \in 0 .. 100, creditPct \in 0 .. 100,
             fee \in Nat :
          refund' = [kind |-> "return", of |->
                      PriceReturn([sale EXCEPT !.quantity = n], Hundredths(s),
                                  cashPct, creditPct, Hundredths(fee))]
    BY <1>2, PricingAssumption DEF ReturnSale
  <2>3. PICK r : /\ r = PriceReturn([sale EXCEPT !.quantity = n], Hundredths(s),
                                    cashPct, creditPct, Hundredths(fee))
                 /\ refund'.of = r /\ refund'.kind = "return"
    BY <2>2
  <2>4. PaidFields \cup {"quantity"} \subseteq DOMAIN sale /\ sale' = sale /\ sale # NoPricing
    BY <1>2 DEF ReturnSale, PricingInv
  <2>5. PaidBack(sale, r)
    BY <2>1, <2>3, <2>4, ReturnAddsUp
  <2>6. PaidBack(sale, refund.of)'
    BY <2>3, <2>4, <2>5 DEF PaidBack
  <2> QED  BY <2>3, <2>4, <2>6 DEF PricingInv
<1>3. CASE RefreshReturn
  <2>1. /\ sale' = sale /\ sale # NoPricing
        /\ \E n \in Quantities \cap (1 .. sale.quantity) :
             refund' = [kind |-> "refresh return", of |-> [sale EXCEPT !.quantity = n]]
    BY <1>3 DEF RefreshReturn
  <2>2. refund'.kind # "return"
    <3> PICK x : refund' = [kind |-> "refresh return", of |-> x]
      BY <2>1, Zenon
    <3>1. refund'.kind = "refresh return"
      OBVIOUS
    <3>2. "refresh return" # "return"
      OBVIOUS
    <3> QED  BY <3>1, <3>2, Zenon
  <2> QED  BY <2>1, <2>2 DEF PricingInv
<1>4. CASE NextSale
  <2>1. sale' = NoPricing /\ refund'.kind = "none"
    BY <1>4 DEF NextSale
  <2> QED  BY <2>1 DEF PricingInv
<1>5. CASE UNCHANGED pricingVars
  <2>1. sale' = sale /\ refund' = refund
    BY <1>5 DEF pricingVars
  <2> QED  BY <2>1 DEF PricingInv, PaidBack
<1> QED  BY <1>1, <1>2, <1>3, <1>4, <1>5 DEF PricingNext

\* For any amounts that can be drawn (pricing.c: set_pricing, decimal.c:
\* decimal_t_op): the parts of a sale add up to what it is sold for, and those of a
\* return to what its goods were sold for, to the cent, although every product
\* drops what is beyond the cent.
THEOREM PricesAddUp == PricingSpec => []PaymentsAddUp
<1>1. PricingInit => PricingInv
  BY DEF PricingInit, PricingInv
<1>2. PricingInv => PaymentsAddUp
  <2> SUFFICES ASSUME PricingInv PROVE PaymentsAddUp
    OBVIOUS
  <2>1. sale # NoPricing => SaleAdds(sale)
    BY SaleAddsUp DEF PricingInv
  <2>2. refund.kind = "return" => PaidBack(sale, refund.of)
    BY DEF PricingInv
  <2> QED  BY <2>1, <2>2 DEF PaymentsAddUp, SaleAdds, PaidBack
<1> QED  BY <1>1, <1>2, PricingStep, PTL DEF PricingSpec
================================================================================
