------------------------------ MODULE SplitWork ------------------------------
(***************************************************************************)
(* split_work() of tools/parallel.c: how the rows 1 .. total of one table  *)
(* are divided among the children of a parallel build                      *)
(* (dsdgen -PARALLEL n -CHILD c).  Every child calls it on its own, with   *)
(* nothing shared, so the division has to come out consistent from         *)
(* arithmetic alone.  A build without PARALLEL is n = 1, c = 1: get_int    *)
(* then returns 1 for CHILD, and a table is handed over whole.             *)
(*                                                                         *)
(* Integers are ds_key_t, 64 bits wide; row counts are below 2^33 at the   *)
(* largest scale, so no operation here wraps.                              *)
(***************************************************************************)
EXTENDS Integers

CONSTANT
  SmallTable  \* 1,000,000 in the code: a table with fewer rows is not split

ASSUME SmallTableAssumption == SmallTable \in Nat

\* The rows left over when the table is divided evenly.
ExtraRows(total, n) == total % n

\* The rows every child gets at least.
RowsetSize(total, n) == (total - ExtraRows(total, n)) \div n

\* Mutant: the left-over rows are counted, but not in the first row.
ExtraBeforeIgnored(total, n, c) == 0

\* How many of the children before c take one of the left-over rows.
ExtraBefore(total, n, c) ==
  IF c - 1 < ExtraRows(total, n) THEN c - 1 ELSE ExtraRows(total, n)

IsSmall(total) == total < SmallTable

\* *pkFirstRow.  A small table is child 1's alone.
FirstRow(total, n, c) ==
  IF IsSmall(total)
  THEN 1
  ELSE 1 + (c - 1) * RowsetSize(total, n) + ExtraBefore(total, n, c)

\* Mutant: the last child that takes a left-over row is forgotten.
RowCountOneShort(total, n, c) ==
  IF IsSmall(total)
  THEN IF c > 1 THEN 0 ELSE total
  ELSE RowsetSize(total, n) + (IF c < ExtraRows(total, n) THEN 1 ELSE 0)

\* *pkRowCount.
RowCount(total, n, c) ==
  IF IsSmall(total)
  THEN IF c > 1 THEN 0 ELSE total
  ELSE RowsetSize(total, n) + (IF c <= ExtraRows(total, n) THEN 1 ELSE 0)

\* The rows child c builds.
Chunk(total, n, c) ==
  FirstRow(total, n, c) .. (FirstRow(total, n, c) + RowCount(total, n, c) - 1)

-----------------------------------------------------------------------------
(***************************************************************************)
(* What a parallel build relies on.                                        *)
(***************************************************************************)

\* No row is built by two children.
ChunksDisjoint(total, n) ==
  \A c, d \in 1 .. n : c # d => Chunk(total, n, c) \cap Chunk(total, n, d) = {}

\* Every row is built by some child, and nothing beyond the table is.
ChunksCover(total, n) ==
  UNION {Chunk(total, n, c) : c \in 1 .. n} = 1 .. total

\* The load is balanced: two children of a split table differ by one row.
ChunksBalanced(total, n) ==
  \A c, d \in 1 .. n :
    ~ IsSmall(total) => RowCount(total, n, c) - RowCount(total, n, d) \in -1 .. 1

\* tests/chunked_data.sh compares child p/2 + 1 of p with the head of child
\* p/4 + 1 of p/2: the two chunks start at the same row exactly when the
\* left-over rows of the finer split fill at most the first quarter of its
\* children, or at least the first three.
HalvedBuildsAlign(total, q) ==
  ~ IsSmall(total) =>
    ( FirstRow(total, 4 * q, 2 * q + 1) = FirstRow(total, 2 * q, q + 1)
      <=> total % (4 * q) \notin q + 1 .. 3 * q - 1 )
=============================================================================
