---------------------------- MODULE SplitWorkProofs ----------------------------
(***************************************************************************)
(* The chunks of split_work partition the table, for every size of the     *)
(* table, every number of children and every threshold for small tables.   *)
(***************************************************************************)
EXTENDS SplitWork, TLAPS

\* Division with remainder, as the provers need to be told it.
LEMMA DivMod ==
  ASSUME NEW a \in Nat, NEW b \in Nat \ {0}
  PROVE  a \div b \in Nat /\ a % b \in 0 .. b - 1 /\ a = b * (a \div b) + (a % b)
BY Z3

\* What dividing means: total = n * size + extra, with extra below n.
LEMMA Division ==
  ASSUME NEW total \in Nat, NEW n \in Nat \ {0}
  PROVE  /\ ExtraRows(total, n) \in 0 .. n - 1
         /\ RowsetSize(total, n) \in Nat
         /\ total = n * RowsetSize(total, n) + ExtraRows(total, n)
<1> DEFINE q == total \div n
           e == total % n
<1>1. q \in Nat /\ e \in 0 .. n - 1 /\ total = n * q + e
  BY DivMod
<1>2. (n * q) \div n = q
  BY <1>1, Z3
<1>3. total - e = n * q
  BY <1>1, Z3
<1> QED  BY <1>1, <1>2, <1>3 DEF ExtraRows, RowsetSize

\* In a split table the chunks follow one another without gap or overlap, and
\* the last one ends with the table.
LEMMA ChunkBounds ==
  ASSUME NEW total \in Nat \ {0}, NEW n \in Nat \ {0}, NEW c \in 1 .. n
  PROVE  /\ FirstRow(total, n, c) \in Nat \ {0}
         /\ RowCount(total, n, c) \in Nat
         /\ FirstRow(total, n, c) + RowCount(total, n, c) - 1 <= total
<1> DEFINE q == RowsetSize(total, n)
           e == ExtraRows(total, n)
           b == ExtraBefore(total, n, c)
<1>1. q \in Nat /\ e \in 0 .. n - 1 /\ total = n * q + e
  BY Division
<1>2. b \in Nat /\ b <= c - 1 /\ b <= e
  BY <1>1 DEF ExtraBefore
<1>3. CASE IsSmall(total)
  BY <1>3 DEF FirstRow, RowCount
<1>4. CASE ~ IsSmall(total)
  <2> DEFINE m == IF c <= e THEN 1 ELSE 0
  <2>1. FirstRow(total, n, c) = 1 + (c - 1) * q + b /\ RowCount(total, n, c) = q + m
    BY <1>4 DEF FirstRow, RowCount
  <2>2. (c - 1) * q \in Nat /\ (c - 1) * q + q = c * q
    BY <1>1, Z3
  <2>3. c * q <= n * q
    BY <1>1, Z3
  <2>4. b + m <= e
    BY <1>1 DEF ExtraBefore
  <2> HIDE DEF q, e, b, m
  <2>5. m \in 0 .. 1
    BY DEF m
  <2> QED  BY <1>1, <1>2, <2>1, <2>2, <2>3, <2>4, <2>5
<1> QED  BY <1>3, <1>4

\* A later chunk starts where an earlier one has ended, or after it.
LEMMA ChunkOrder ==
  ASSUME NEW total \in Nat \ {0}, NEW n \in Nat \ {0},
         NEW c \in 1 .. n, NEW d \in 1 .. n, c < d, ~ IsSmall(total)
  PROVE  FirstRow(total, n, c) + RowCount(total, n, c) <= FirstRow(total, n, d)
<1> DEFINE q == RowsetSize(total, n)
           e == ExtraRows(total, n)
           m == IF c <= e THEN 1 ELSE 0
<1>1. q \in Nat /\ e \in 0 .. n - 1
  BY Division
<1>2. (c - 1) * q + q <= (d - 1) * q
  <2>1. (c - 1) * q + q = c * q
    BY <1>1, Z3
  <2>2. c * q <= (d - 1) * q
    BY <1>1, Z3
  <2> QED  BY <2>1, <2>2
<1>3. ExtraBefore(total, n, c) + m <= ExtraBefore(total, n, d)
  BY <1>1 DEF ExtraBefore
<1>4. /\ FirstRow(total, n, c) = 1 + (c - 1) * q + ExtraBefore(total, n, c)
      /\ FirstRow(total, n, d) = 1 + (d - 1) * q + ExtraBefore(total, n, d)
      /\ RowCount(total, n, c) = q + m
  BY DEF FirstRow, RowCount
<1>5. /\ ExtraBefore(total, n, c) \in Int /\ ExtraBefore(total, n, d) \in Int
      /\ m \in Int /\ (c - 1) * q \in Int /\ (d - 1) * q \in Int
  BY <1>1 DEF ExtraBefore
<1> HIDE DEF q, e, m
<1> QED  BY <1>1, <1>2, <1>3, <1>4, <1>5

\* A child that starts at row 1 and has rows to build is the first child
\* (driver.c calls row_skip for every other).
LEMMA OnlyFirstStartsAtOne ==
  ASSUME NEW total \in Nat \ {0}, NEW n \in Nat \ {0}, NEW c \in 1 .. n
  PROVE  /\ FirstRow(total, n, 1) = 1
         /\ FirstRow(total, n, c) = 1 /\ RowCount(total, n, c) > 0 => c = 1
<1>1. FirstRow(total, n, 1) = 1
  <2>1. RowsetSize(total, n) \in Nat /\ ExtraRows(total, n) \in Nat
    BY Division
  <2> QED  BY <2>1, Z3 DEF FirstRow, ExtraBefore
<1>2. ASSUME FirstRow(total, n, c) = 1, RowCount(total, n, c) > 0, c # 1
      PROVE  FALSE
  <2>1. CASE IsSmall(total)
    BY <1>2, <2>1 DEF RowCount
  <2>2. CASE ~ IsSmall(total)
    <3>1. 1 \in 1 .. n /\ 1 < c
      BY <1>2
    <3>2. FirstRow(total, n, 1) + RowCount(total, n, 1) <= FirstRow(total, n, c)
      BY <2>2, <3>1, ChunkOrder
    <3>3. RowCount(total, n, 1) = 0
      BY <1>1, <1>2, <3>1, <3>2, ChunkBounds
    <3>4. RowsetSize(total, n) = 0 /\ ExtraRows(total, n) = 0
      BY <2>2, <3>3, Division DEF RowCount
    <3> QED  BY <3>4, Division
  <2> QED  BY <2>1, <2>2
<1> QED  BY <1>1, <1>2

\* No row is built by two children.
THEOREM Disjoint ==
  ASSUME NEW total \in Nat \ {0}, NEW n \in Nat \ {0}
  PROVE  ChunksDisjoint(total, n)
<1> SUFFICES ASSUME NEW c \in 1 .. n, NEW d \in 1 .. n, c < d
             PROVE  Chunk(total, n, c) \cap Chunk(total, n, d) = {}
  BY DEF ChunksDisjoint
<1>1. CASE IsSmall(total)
  <2>1. RowCount(total, n, d) = 0 /\ FirstRow(total, n, d) = 1
    BY <1>1 DEF RowCount, FirstRow
  <2> QED  BY <2>1 DEF Chunk
<1>2. CASE ~ IsSmall(total)
  BY <1>2, ChunkOrder, ChunkBounds DEF Chunk
<1> QED  BY <1>1, <1>2

\* The child of row r of a split table: while the left-over rows last the
\* chunks are of q + 1 rows, then of q.
LEMMA OwnerOfRow ==
  ASSUME NEW total \in Nat \ {0}, NEW n \in Nat \ {0}, ~ IsSmall(total),
         NEW r \in 1 .. total
  PROVE  \E c \in 1 .. n : r \in Chunk(total, n, c)
<1> DEFINE q == RowsetSize(total, n)
           e == ExtraRows(total, n)
<1>1. q \in Nat /\ e \in 0 .. n - 1 /\ total = n * q + e
  BY Division
<1>2. \A c \in 1 .. n :
        /\ FirstRow(total, n, c) = 1 + (c - 1) * q + ExtraBefore(total, n, c)
        /\ RowCount(total, n, c) = q + (IF c <= e THEN 1 ELSE 0)
        /\ ExtraBefore(total, n, c) = IF c - 1 < e THEN c - 1 ELSE e
  BY DEF FirstRow, RowCount, ExtraBefore
<1> HIDE DEF q, e
<1>3. e * (q + 1) \in Nat /\ e * (q + 1) = e * q + e /\ e * q \in Nat
  BY <1>1, Z3
<1>4. CASE r <= e * (q + 1)
  <2> DEFINE k == (r - 1) \div (q + 1)
             m == (r - 1) % (q + 1)
  <2>1. k \in Nat /\ m \in 0 .. q /\ r - 1 = (q + 1) * k + m
    <3>1. r - 1 \in Nat /\ q + 1 \in Nat \ {0} /\ (q + 1) - 1 = q
      BY <1>1
    <3> QED  BY <3>1, DivMod
  <2> HIDE DEF k, m
  <2>2. (q + 1) * k = k * q + k /\ k * q \in Nat
    BY <1>1, <2>1, Z3
  <2>3. k < e
    <3>1. SUFFICES ASSUME k >= e PROVE FALSE
      BY <1>1, <2>1
    <3>2. e * (q + 1) <= (q + 1) * k
      BY <1>1, <2>1, <3>1, Z3
    <3> QED  BY <1>3, <1>4, <2>1, <2>2, <3>2
  <2>4. k + 1 \in 1 .. n
    BY <1>1, <2>1, <2>3
  <2>5. FirstRow(total, n, k + 1) = 1 + k * q + k /\ RowCount(total, n, k + 1) = q + 1
    BY <1>1, <1>2, <2>1, <2>3, <2>4
  <2>6. r \in Chunk(total, n, k + 1)
    BY <1>1, <2>1, <2>2, <2>5 DEF Chunk
  <2> QED  BY <2>4, <2>6
<1>5. CASE r > e * (q + 1)
  <2> DEFINE x == r - 1 - e * (q + 1)
             k == x \div q
             m == x % q
  <2>1. q # 0
    <3>1. q = 0 => n * q = 0
      BY <1>1, Z3
    <3> QED  BY <1>1, <1>3, <1>5, <3>1
  <2>2. x \in Nat
    BY <1>3, <1>5
  <2>3. k \in Nat /\ m \in 0 .. q - 1 /\ x = q * k + m
    BY <1>1, <2>1, <2>2, DivMod
  <2>4. r = 1 + e * q + e + x
    BY <1>1, <1>3
  <2> HIDE DEF x, k, m
  <2>5. e + k < n
    <3>1. SUFFICES ASSUME e + k >= n PROVE FALSE
      BY <1>1, <2>3
    <3>2. n * q <= (e + k) * q
      BY <1>1, <2>3, <3>1, Z3
    <3>3. (e + k) * q = e * q + q * k
      BY <1>1, <2>3, Z3
    <3>4. n * q \in Nat /\ q * k \in Nat
      BY <1>1, <2>3, Z3
    <3> QED  BY <1>1, <1>3, <2>2, <2>3, <2>4, <3>2, <3>3, <3>4
  <2>6. e + k + 1 \in 1 .. n
    BY <1>1, <2>3, <2>5
  <2>7. (e + k) * q = e * q + q * k /\ q * k \in Nat
    BY <1>1, <2>3, Z3
  <2>8. /\ FirstRow(total, n, e + k + 1) = 1 + (e + k) * q + e
        /\ RowCount(total, n, e + k + 1) = q
    <3>1. e + k + 1 - 1 = e + k
      BY <1>1, <2>3
    <3> QED  BY <1>1, <1>2, <2>3, <2>6, <3>1
  <2>9. r \in Chunk(total, n, e + k + 1)
    BY <1>1, <1>3, <2>2, <2>3, <2>4, <2>7, <2>8 DEF Chunk
  <2> QED  BY <2>6, <2>9
<1> QED  BY <1>1, <1>3, <1>4, <1>5

\* The children build exactly the rows of the table.
THEOREM Cover ==
  ASSUME NEW total \in Nat \ {0}, NEW n \in Nat \ {0}
  PROVE  ChunksCover(total, n)
<1>1. ASSUME NEW r \in 1 .. total PROVE \E c \in 1 .. n : r \in Chunk(total, n, c)
  <2>1. CASE IsSmall(total)
    <3>1. 1 \in 1 .. n /\ FirstRow(total, n, 1) = 1 /\ RowCount(total, n, 1) = total
      BY <2>1 DEF FirstRow, RowCount
    <3>2. r \in Chunk(total, n, 1)
      BY <3>1 DEF Chunk
    <3> QED  BY <3>1, <3>2
  <2>2. CASE ~ IsSmall(total)
    BY <2>2, OwnerOfRow
  <2> QED  BY <2>1, <2>2
<1>2. ASSUME NEW c \in 1 .. n PROVE Chunk(total, n, c) \subseteq 1 .. total
  BY ChunkBounds DEF Chunk
<1> QED  BY <1>1, <1>2 DEF ChunksCover

\* No child of a split table has two rows more than another.
THEOREM Balance ==
  ASSUME NEW total \in Nat \ {0}, NEW n \in Nat \ {0}
  PROVE  ChunksBalanced(total, n)
<1>1. RowsetSize(total, n) \in Nat
  BY Division
<1> QED  BY <1>1 DEF ChunksBalanced, RowCount

\* tests/chunked_data.sh compares a chunk of a build of 4 q children with one of
\* 2 q children: they start at the same row exactly when HalvedBuildsAlign says.
THEOREM HalvesAlign ==
  ASSUME NEW total \in Nat \ {0}, NEW q \in Nat \ {0}
  PROVE  HalvedBuildsAlign(total, q)
<1> DEFINE fine == RowsetSize(total, 4 * q)
           coarse == RowsetSize(total, 2 * q)
           e == ExtraRows(total, 4 * q)
           f == ExtraRows(total, 2 * q)
           x == q * fine
           y == q * coarse
<1>1. 4 * q \in Nat \ {0} /\ 2 * q \in Nat \ {0}
  OBVIOUS
<1>2. fine \in Nat /\ e \in 0 .. 4 * q - 1 /\ total = (4 * q) * fine + e
  BY <1>1, Division
<1>3. coarse \in Nat /\ f \in 0 .. 2 * q - 1 /\ total = (2 * q) * coarse + f
  BY <1>1, Division
<1>4. SUFFICES ASSUME ~ IsSmall(total)
               PROVE  FirstRow(total, 4 * q, 2 * q + 1) = FirstRow(total, 2 * q, q + 1)
                        <=> e \notin q + 1 .. 3 * q - 1
  BY DEF HalvedBuildsAlign, ExtraRows
<1>5. /\ FirstRow(total, 4 * q, 2 * q + 1) = 1 + (2 * q) * fine + (IF 2 * q < e THEN 2 * q ELSE e)
      /\ FirstRow(total, 2 * q, q + 1) = 1 + q * coarse + (IF q < f THEN q ELSE f)
  <2>1. (2 * q + 1) - 1 = 2 * q /\ (q + 1) - 1 = q
    OBVIOUS
  <2>2. /\ FirstRow(total, 4 * q, 2 * q + 1)
              = 1 + ((2 * q + 1) - 1) * fine + ExtraBefore(total, 4 * q, 2 * q + 1)
        /\ FirstRow(total, 2 * q, q + 1)
              = 1 + ((q + 1) - 1) * coarse + ExtraBefore(total, 2 * q, q + 1)
    BY <1>4 DEF FirstRow
  <2>3. /\ ExtraBefore(total, 4 * q, 2 * q + 1) = IF 2 * q < e THEN 2 * q ELSE e
        /\ ExtraBefore(total, 2 * q, q + 1) = IF q < f THEN q ELSE f
    BY <2>1 DEF ExtraBefore
  <2> HIDE DEF fine, coarse, e, f
  <2> QED  BY <2>1, <2>2, <2>3
<1> HIDE DEF fine, coarse, e, f
<1>6. x \in Nat /\ y \in Nat /\ (4 * q) * fine = 4 * x /\ (2 * q) * fine = 2 * x
      /\ (2 * q) * coarse = 2 * y
  BY <1>2, <1>3, Z3
<1>7. \* The coarse children have twice the rows, and one more when more are left over.
      coarse = IF e < 2 * q THEN 2 * fine ELSE 2 * fine + 1
  <2>1. coarse <= 2 * fine - 1 => q * coarse <= q * (2 * fine - 1)
    BY <1>2, <1>3, Z3
  <2>2. coarse >= 2 * fine + 1 => q * coarse >= q * (2 * fine + 1)
    BY <1>2, <1>3, Z3
  <2>3. coarse >= 2 * fine + 2 => q * coarse >= q * (2 * fine + 2)
    BY <1>2, <1>3, Z3
  <2>4. coarse <= 2 * fine => q * coarse <= q * (2 * fine)
    BY <1>2, <1>3, Z3
  <2>5. q * (2 * fine - 1) = 2 * x - q /\ q * (2 * fine + 1) = 2 * x + q
        /\ q * (2 * fine + 2) = 2 * x + 2 * q /\ q * (2 * fine) = 2 * x
    BY <1>2, Z3
  <2>6. 4 * x + e = 2 * y + f
    BY <1>2, <1>3, <1>6
  <2> HIDE DEF x
  <2> QED  BY <1>2, <1>3, <1>6, <2>1, <2>2, <2>3, <2>4, <2>5, <2>6 DEF y
<1>8. CASE e < 2 * q
  <2>1. y = 2 * x
    <3>1. q * (2 * fine) = 2 * x
      BY <1>2, Z3
    <3> QED  BY <1>7, <1>8, <3>1
  <2> HIDE DEF x, y
  <2>2. f = e
    BY <1>2, <1>3, <1>6, <2>1
  <2> QED  BY <1>2, <1>3, <1>5, <1>6, <1>8, <2>1, <2>2 DEF y
<1>9. CASE ~ (e < 2 * q)
  <2>1. y = 2 * x + q
    <3>1. q * (2 * fine + 1) = 2 * x + q
      BY <1>2, Z3
    <3> QED  BY <1>7, <1>9, <3>1
  <2> HIDE DEF x, y
  <2>2. f = e - 2 * q
    BY <1>2, <1>3, <1>6, <2>1
  <2> QED  BY <1>2, <1>3, <1>5, <1>6, <1>9, <2>1, <2>2 DEF y
<1> QED  BY <1>8, <1>9
================================================================================
