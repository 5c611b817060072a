--------------------------- MODULE RandomNumbers ---------------------------
(***************************************************************************)
(* The random number generator (genrand.c): one multiplicative congruence  *)
(* modulo MAXINT, with a seed for every stream.  Seeds are spread over the *)
(* period in int arithmetic; a stream is moved by drawing from it, by      *)
(* skip_random, which computes a seed from the initial one, and by the     *)
(* functions that put seeds back.                                          *)
(***************************************************************************)
EXTENDS Integers, FiniteSetsExt

CONSTANTS
  MaxInt,       \* the modulus, and the greatest int
  Mult,         \* the multiplier
  MaxColumn,    \* MAX_COLUMN, the number of the last stream
  TableOf,      \* the table of a stream
  ValidateStream,
  Seeds,        \* values of -RNGSEED
  Skips,        \* how far skip_random is asked to go
  Ranges,       \* <<min, max>> asked for
  MaxPosition   \* bound on the positions of all streams together

VARIABLES
  initialSeed, seed,    \* nInitialSeed and nSeed of each stream
  base, position,       \* what the seed stands for: position draws after base
  drawn                 \* the last number asked for

rngVars == <<initialSeed, seed, base, position, drawn>>

AllStreams == 0 .. MaxColumn

\* The values of an int.
Ints == -(MaxInt + 1) .. MaxInt

ASSUME RngAssumption ==
  /\ MaxInt \in Nat /\ Mult \in Nat /\ 1 < Mult /\ Mult < MaxInt
  /\ MaxInt % Mult < MaxInt \div Mult
  /\ MaxColumn \in Nat \ {0} /\ ValidateStream \in AllStreams
  /\ Seeds \subseteq Ints /\ Skips \subseteq Nat /\ MaxPosition \in Nat
  /\ \A range \in Ranges : range \in Int \X Int /\ range[1] <= range[2]

-----------------------------------------------------------------------------
\* Integer division of C, which truncates.
CQuo(a, b) == IF a >= 0 THEN a \div b ELSE -((-a) \div b)
CRem(a, b) == a - b * CQuo(a, b)

\* An int that overflowed.
ToInt(x) == ((x + MaxInt + 1) % (2 * (MaxInt + 1))) - (MaxInt + 1)

NQ == MaxInt \div Mult
NR == MaxInt % Mult

\* next_random: Mult * s modulo MaxInt without leaving the width of a long.
NextRandom(s) ==
  LET r == Mult * CRem(s, NQ) - CQuo(s, NQ) * NR IN
  IF r < 0 THEN r + MaxInt ELSE r

\* Mutant: the multiplier is squared only where its power is used.
SkipTurnUsed(p) ==
  IF p.left = 0 THEN p
  ELSE [z |-> IF p.left % 2 # 0 THEN CRem(p.mult * p.z, MaxInt) ELSE p.z,
        mult |-> IF p.left % 2 # 0 THEN (p.mult * p.mult) % MaxInt ELSE p.mult,
        left |-> p.left \div 2]

\* One turn of the loop of skip_random, nothing when the loop has ended.
SkipTurn(p) ==
  IF p.left = 0 THEN p
  ELSE [z |-> IF p.left % 2 # 0 THEN CRem(p.mult * p.z, MaxInt) ELSE p.z,
        mult |-> (p.mult * p.mult) % MaxInt,
        left |-> p.left \div 2]

\* skip_random and NthElement: by squares of the multiplier. n turns are enough.
SkipRandom(initial, n) ==
  LET Turns[i \in Nat] ==
        IF i = 0 THEN [z |-> initial, mult |-> Mult, left |-> n]
        ELSE SkipTurn(Turns[i - 1])
  IN  Turns[n].z

\* genrand_integer and genrand_key, DIST_UNIFORM, of the number r.
Uniform(r, min, max) == min + CRem(r, max - min + 1)

\* DIST_EXPONENTIAL divides two integers: every term of its sum is - 1/2.
Exponential(min, max) == min - 6 * (max - min + 1)

\* The numbers that gen_charset, genrand_email and genrand_ipaddr draw.
CharsetDraws(max) == 1 + max
EmailDraws == 1 + 1 + CharsetDraws(20)
IpaddrDraws == 4

-----------------------------------------------------------------------------
RngInit ==
  /\ initialSeed = [s \in AllStreams |-> 0] /\ seed = initialSeed
  /\ base = initialSeed /\ position = [s \in AllStreams |-> 0]
  /\ drawn = [kind |-> "nothing"]

\* init_rand stops before the stream number MAX_COLUMN.
InitRand ==
  /\ \A s \in AllStreams : initialSeed[s] = 0
  /\ \E nSeed \in Seeds :
       initialSeed' = [s \in AllStreams |->
         IF s < MaxColumn THEN ToInt(nSeed + (MaxInt \div MaxColumn) * s) ELSE 0]
  /\ seed' = initialSeed' /\ base' = initialSeed'
  /\ UNCHANGED <<position, drawn>>

\* The seed after n numbers.
After(s, n) == LET Draw[k \in Nat] == IF k = 0 THEN s ELSE NextRandom(Draw[k - 1])
               IN  Draw[n]

Seeded == \E s \in AllStreams : initialSeed[s] # 0

Room(s, n) ==
  MapThenSumSet(LAMBDA t : IF t = s THEN n ELSE position[t], AllStreams)
    <= MaxPosition

Draws(s, n) ==
  /\ Seeded /\ Room(s, position[s] + n)
  /\ seed' = [seed EXCEPT ![s] = After(@, n)]
  /\ position' = [position EXCEPT ![s] = @ + n]
  /\ UNCHANGED <<initialSeed, base>>

GenrandInteger(s) ==
  \E range \in Ranges :
    /\ Draws(s, 1)
    /\ drawn' = [kind |-> "integer", stream |-> s, range |-> range,
                 value |-> Uniform(seed'[s], range[1], range[2])]

\* Twelve numbers, none of which matters.
GenrandExponential(s) ==
  \E range \in Ranges :
    /\ Draws(s, 12)
    /\ drawn' = [kind |-> "exponential", stream |-> s, range |-> range,
                 value |-> Exponential(range[1], range[2])]

GenrandText(s) ==
  \E n \in {CharsetDraws(5), EmailDraws, IpaddrDraws} :
    Draws(s, n) /\ drawn' = [kind |-> "text", stream |-> s]

\* What row_skip does with each stream of a table.
SkipTo(s) ==
  \E n \in Skips :
    /\ Seeded /\ Room(s, n)
    /\ seed' = [seed EXCEPT ![s] = SkipRandom(initialSeed[s], n)]
    /\ position' = [position EXCEPT ![s] = n]
    /\ base' = [base EXCEPT ![s] = initialSeed[s]]
    /\ drawn' = [kind |-> "nothing"] /\ UNCHANGED initialSeed

Restart(streams) ==
  LET Back(f, g) == [s \in AllStreams |-> IF s \in streams THEN g[s] ELSE f[s]] IN
  /\ Seeded
  /\ seed' = Back(seed, initialSeed) /\ base' = Back(base, initialSeed)
  /\ position' = Back(position, [s \in AllStreams |-> 0])
  /\ drawn' = [kind |-> "nothing"] /\ UNCHANGED initialSeed

\* RNGReset goes to the last stream, resetSeeds stops one before it.
RNGReset(t) == Restart({s \in AllStreams : TableOf[s] = t})
ResetSeeds(t) == Restart({s \in AllStreams : s < MaxColumn /\ TableOf[s] = t})

\* setSeed: -VALIDATE seeds the stream it picks rows with.
SetSeed(s) ==
  \E value \in Seeds :
    /\ Seeded /\ seed' = [seed EXCEPT ![s] = value] /\ base' = [base EXCEPT ![s] = value]
    /\ position' = [position EXCEPT ![s] = 0]
    /\ drawn' = [kind |-> "nothing"] /\ UNCHANGED initialSeed

RngNext ==
  \/ InitRand
  \/ \E s \in AllStreams :
       \/ GenrandInteger(s) \/ GenrandExponential(s) \/ GenrandText(s)
       \/ SkipTo(s)
  \/ SetSeed(ValidateStream)
  \/ \E t \in {TableOf[s] : s \in AllStreams} : RNGReset(t) \/ ResetSeeds(t)

RngSpec == RngInit /\ [][RngNext]_rngVars

-----------------------------------------------------------------------------
\* The nth number after z, by its definition.
Nth(z, n) ==
  LET Times[k \in Nat] == IF k = 0 THEN z % MaxInt ELSE (Mult * Times[k - 1]) % MaxInt
  IN  Times[n]

RngTypeOK ==
  /\ seed \in [AllStreams -> Ints]
  /\ position \in [AllStreams -> 0 .. MaxPosition]

\* Wherever a stream was skipped to, put back or drawn from (genrand.c:
\* next_random, skip_random, RNGReset, resetSeeds, setSeed), its seed stands for
\* the number at its position, also when the seed it began with overflowed an
\* int, and a number drawn is the one at that position, within its range.
SkipIsDraws ==
  /\ \A s \in AllStreams : seed[s] % MaxInt = Nth(base[s], position[s])
  /\ drawn.kind = "integer" =>
       /\ drawn.value \in drawn.range[1] .. drawn.range[2]
       /\ drawn.value = drawn.range[1]
            + (Nth(base[drawn.stream], position[drawn.stream])
                 % (drawn.range[2] - drawn.range[1] + 1))
=============================================================================
