--------------------------- MODULE SurrogateKeys ---------------------------
(***************************************************************************)
(* The keys of tables that keep history (scd.c).  Of every six rows one is *)
(* the only version of its key, two are the versions of the next and three *)
(* those of the third.  setSCDKeys says so while a row is built; the       *)
(* builders of facts and of refresh data go the other way, from the number *)
(* of a key (and a day) to a row, without having seen the rows.            *)
(***************************************************************************)
EXTENDS Integers

CONSTANTS
  DataStart, DataEnd   \* DATA_START_DATE and DATA_END_DATE, as julian days

ASSUME DataAssumption ==
  DataStart \in Nat /\ DataEnd \in Nat /\ DataStart <= DataEnd

Open == -1             \* the end of a version that has no successor

-----------------------------------------------------------------------------
H1DataDate == DataStart + (DataEnd - DataStart) \div 2
Third      == (DataEnd - DataStart) \div 3
T1DataDate == DataStart + Third
T2DataDate == T1DataDate + Third

\* The row of a key's first version, which gives the key its name.
KeyRow(row) ==
  CASE row % 6 \in {1, 2, 4} -> row
    [] row % 6 \in {3, 5}    -> row - 1
    [] row % 6 = 0           -> row - 2

\* setSCDKeys: the versions of table number n change 6 * n days early.
VersionBegin(row, n) ==
  CASE row % 6 \in {1, 2, 4} -> DataStart - 6 * n
    [] row % 6 = 3           -> H1DataDate - 6 * n + 1
    [] row % 6 = 5           -> T1DataDate - 6 * n + 1
    [] row % 6 = 0           -> T2DataDate - 6 * n + 1

VersionEnd(row, n) ==
  LET end == CASE row % 6 \in {1, 3, 0} -> Open
               [] row % 6 = 2           -> H1DataDate - 6 * n
               [] row % 6 = 4           -> T1DataDate - 6 * n
               [] row % 6 = 5           -> T2DataDate - 6 * n
  IN  IF end > DataEnd THEN Open ELSE end

SCDKeys(row, n) ==
  [key |-> KeyRow(row), begin |-> VersionBegin(row, n), end |-> VersionEnd(row, n),
   new |-> row % 6 \in {1, 2, 4}]

-----------------------------------------------------------------------------
\* getIDCount: the keys of a table of that many rows.
IDCount(rows) ==
  (rows \div 6) * 3
    + (CASE rows % 6 = 0 -> 0 [] rows % 6 = 1 -> 1 [] rows % 6 \in {2, 3} -> 2
         [] rows % 6 \in {4, 5} -> 3)

FirstSK(id) ==
  CASE id % 3 = 1 -> (id \div 3) * 6 + 1
    [] id % 3 = 2 -> (id \div 3) * 6 + 2
    [] id % 3 = 0 -> (id \div 3 - 1) * 6 + 4

\* getSKFromID: any version of the key, pick being the number drawn.
SKFromID(id, pick) ==
  CASE id % 3 = 1 -> (id \div 3) * 6 + 1
    [] id % 3 = 2 -> (id \div 3) * 6 + pick
    [] id % 3 = 0 -> (id \div 3 - 1) * 6 + pick

SKPicks(id) ==
  CASE id % 3 = 1 -> {0} [] id % 3 = 2 -> 2 .. 3 [] id % 3 = 0 -> 4 .. 6

\* Mutant: a new version counts from the last day of the one before.
VersionOnLastDay(id, day) ==
  CASE id % 3 = 1 -> (id \div 3) * 6 + 1
    [] id % 3 = 2 -> (id \div 3) * 6 + 2 + (IF day >= H1DataDate THEN 1 ELSE 0)
    [] id % 3 = 0 -> (id \div 3) * 6 - 2 + (IF day >= T1DataDate THEN 1 ELSE 0)
                       + (IF day >= T2DataDate THEN 1 ELSE 0)

\* matchSCDSK before it is cut to the rows the table has.
VersionOn(id, day) ==
  CASE id % 3 = 1 -> (id \div 3) * 6 + 1
    [] id % 3 = 2 -> (id \div 3) * 6 + 2 + (IF day > H1DataDate THEN 1 ELSE 0)
    [] id % 3 = 0 -> (id \div 3) * 6 - 2 + (IF day > T1DataDate THEN 1 ELSE 0)
                       + (IF day > T2DataDate THEN 1 ELSE 0)

MatchSCDSK(id, day, rows) ==
  IF VersionOn(id, day) > rows THEN rows ELSE VersionOn(id, day)

\* scd_join, id being the key drawn.
SCDJoin(id, day, rows) == IF day > DataEnd THEN -1 ELSE MatchSCDSK(id, day, rows)
=============================================================================
