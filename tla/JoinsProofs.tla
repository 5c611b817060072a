---------------------------- MODULE JoinsProofs ----------------------------
(***************************************************************************)
(* Dates and keys. The arithmetic of date.c is that of the Gregorian       *)
(* calendar; the rows that matchSCDSK and getSKFromID compute without      *)
(* seeing a table (scd.c) are rows setSCDKeys gives the key meant and, for *)
(* a day, the version it makes current; what a join computes (join.c) is a *)
(* row of the table it joins to; and an update set (scaling.c) follows the *)
(* calendar and the sales of the warehouse.                                *)
(***************************************************************************)
EXTENDS Joins, UpdateSet, Recursion, FiniteSetTheorems

-----------------------------------------------------------------------------
(***************************************************************************)
(* Versions of keys: rows by their place in a group of six, keys by theirs *)
(* in a group of three.                                                    *)
(***************************************************************************)
Keys == Nat \ {0}

(* A key by its group of six rows, and a row by its place in the group.     *)
LEMMA KeyInGroup ==
  ASSUME NEW id \in Keys
  PROVE  \/ \E g \in Nat : id = 3 * g + 1
         \/ \E g \in Nat : id = 3 * g + 2
         \/ \E g \in Nat : id = 3 * g + 3
<1>1. id \in Nat /\ id >= 1
  BY DEF Keys
<1>2. CASE id % 3 = 1
  <2>1. id \div 3 \in Nat /\ id = 3 * (id \div 3) + 1
    BY <1>1, <1>2
  <2> QED BY <2>1
<1>3. CASE id % 3 = 2
  <2>1. id \div 3 \in Nat /\ id = 3 * (id \div 3) + 2
    BY <1>1, <1>3
  <2> QED BY <2>1
<1>4. CASE id % 3 = 0
  <2>1. id \div 3 - 1 \in Nat /\ id = 3 * (id \div 3 - 1) + 3
    BY <1>1, <1>4
  <2> QED BY <2>1
<1> QED BY <1>1, <1>2, <1>3, <1>4

LEMMA RowInGroup ==
  ASSUME NEW g \in Nat, NEW place \in 1 .. 6
  PROVE  /\ place < 6 => (6 * g + place) % 6 = place
         /\ (6 * g + 6) % 6 = 0
OBVIOUS

LEMMA KeyOfGroup ==
  ASSUME NEW g \in Nat
  PROVE  /\ (3 * g + 1) % 3 = 1 /\ (3 * g + 1) \div 3 = g
         /\ (3 * g + 2) % 3 = 2 /\ (3 * g + 2) \div 3 = g
         /\ (3 * g + 3) % 3 = 0 /\ (3 * g + 3) \div 3 = g + 1
OBVIOUS

(* The three changes of version fall in order within the data's years.     *)
LEMMA ChangesInOrder ==
  /\ H1DataDate \in Int /\ T1DataDate \in Int /\ T2DataDate \in Int
  /\ DataStart <= H1DataDate /\ H1DataDate <= DataEnd
  /\ DataStart <= T1DataDate /\ T1DataDate <= T2DataDate /\ T2DataDate <= DataEnd
BY DataAssumption DEF H1DataDate, T1DataDate, T2DataDate, Third

(* FirstSK, key by key of a group.                                          *)
LEMMA FirstOfGroup ==
  ASSUME NEW g \in Nat
  PROVE  /\ FirstSK(3 * g + 1) = 6 * g + 1
         /\ FirstSK(3 * g + 2) = 6 * g + 2
         /\ FirstSK(3 * g + 3) = 6 * g + 4
<1>1. FirstSK(3 * g + 1) = 6 * g + 1
  BY KeyOfGroup DEF FirstSK
<1>2. FirstSK(3 * g + 2) = 6 * g + 2
  BY KeyOfGroup DEF FirstSK
<1>3. FirstSK(3 * g + 3) = 6 * g + 4
  BY KeyOfGroup DEF FirstSK
<1> QED BY <1>1, <1>2, <1>3

(* KeyRow, row by row of a group.                                           *)
LEMMA KeyRowInGroup ==
  ASSUME NEW g \in Nat
  PROVE  /\ KeyRow(6 * g + 1) = 6 * g + 1
         /\ KeyRow(6 * g + 2) = 6 * g + 2 /\ KeyRow(6 * g + 3) = 6 * g + 2
         /\ KeyRow(6 * g + 4) = 6 * g + 4 /\ KeyRow(6 * g + 5) = 6 * g + 4
         /\ KeyRow(6 * g + 6) = 6 * g + 4
<1>1. \A place \in 1 .. 6 : (6 * g + place) % 6 = IF place < 6 THEN place ELSE 0
  BY RowInGroup
<1>2. KeyRow(6 * g + 1) = 6 * g + 1 /\ KeyRow(6 * g + 2) = 6 * g + 2
  BY <1>1 DEF KeyRow
<1>3. KeyRow(6 * g + 3) = 6 * g + 2 /\ KeyRow(6 * g + 4) = 6 * g + 4
  BY <1>1 DEF KeyRow
<1>4. KeyRow(6 * g + 5) = 6 * g + 4 /\ KeyRow(6 * g + 6) = 6 * g + 4
  BY <1>1 DEF KeyRow
<1> QED BY <1>2, <1>3, <1>4

(* The row matchSCDSK answers, key by key of a group.                       *)
LEMMA VersionInGroup ==
  ASSUME NEW g \in Nat, NEW day \in Int
  PROVE  /\ VersionOn(3 * g + 1, day) = 6 * g + 1
         /\ VersionOn(3 * g + 2, day) = 6 * g + (IF day > H1DataDate THEN 3 ELSE 2)
         /\ VersionOn(3 * g + 3, day) =
              6 * g + (CASE day <= T1DataDate -> 4
                         [] day > T1DataDate /\ day <= T2DataDate -> 5
                         [] day > T2DataDate -> 6)
<1>1. VersionOn(3 * g + 1, day) = 6 * g + 1
  BY KeyOfGroup DEF VersionOn
<1>2. VersionOn(3 * g + 2, day) = 6 * g + (IF day > H1DataDate THEN 3 ELSE 2)
  BY KeyOfGroup, ChangesInOrder DEF VersionOn
<1>3. VersionOn(3 * g + 3, day) =
        6 * g + (CASE day <= T1DataDate -> 4
                   [] day > T1DataDate /\ day <= T2DataDate -> 5
                   [] day > T2DataDate -> 6)
  <2>1. VersionOn(3 * g + 3, day) =
          (g + 1) * 6 - 2 + (IF day > T1DataDate THEN 1 ELSE 0)
            + (IF day > T2DataDate THEN 1 ELSE 0)
    BY KeyOfGroup DEF VersionOn
  <2> QED BY <2>1, ChangesInOrder
<1> QED BY <1>1, <1>2, <1>3
-----------------------------------------------------------------------------
(* A fact that refers to a key on a day refers to a row of that key        *)
(* (matchSCDSK, against setSCDKeys): never to a version of a neighbour.    *)
THEOREM ReferenceKeepsKey ==
  ASSUME NEW id \in Keys, NEW day \in Int
  PROVE  KeyRow(VersionOn(id, day)) = FirstSK(id)
<1>1. ASSUME NEW g \in Nat, id = 3 * g + 1
      PROVE  KeyRow(VersionOn(id, day)) = FirstSK(id)
  BY <1>1, VersionInGroup, KeyRowInGroup, FirstOfGroup
<1>2. ASSUME NEW g \in Nat, id = 3 * g + 2
      PROVE  KeyRow(VersionOn(id, day)) = FirstSK(id)
  <2>1. VersionOn(id, day) \in {6 * g + 2, 6 * g + 3}
    BY <1>2, VersionInGroup, ChangesInOrder
  <2> QED BY <1>2, <2>1, KeyRowInGroup, FirstOfGroup
<1>3. ASSUME NEW g \in Nat, id = 3 * g + 3
      PROVE  KeyRow(VersionOn(id, day)) = FirstSK(id)
  <2>1. VersionOn(id, day) \in {6 * g + 4, 6 * g + 5, 6 * g + 6}
    BY <1>3, VersionInGroup, ChangesInOrder
  <2> QED BY <1>3, <2>1, KeyRowInGroup, FirstOfGroup
<1> QED BY <1>1, <1>2, <1>3, KeyInGroup

(* When each row of a group begins and ends (setSCDKeys), before the dates  *)
(* move 6 * n days: the ends fall within the data, so none of them is open. *)
LEMMA BeginInGroup ==
  ASSUME NEW g \in Nat, NEW n \in Nat
  PROVE  /\ \A place \in {1, 2, 4} :
              VersionBegin(6 * g + place, n) = DataStart - 6 * n
         /\ VersionBegin(6 * g + 3, n) = H1DataDate - 6 * n + 1
         /\ VersionBegin(6 * g + 5, n) = T1DataDate - 6 * n + 1
         /\ VersionBegin(6 * g + 6, n) = T2DataDate - 6 * n + 1
<1>1. \A place \in 1 .. 6 : (6 * g + place) % 6 = IF place < 6 THEN place ELSE 0
  BY RowInGroup
<1>2. ASSUME NEW place \in {1, 2, 4}
      PROVE  VersionBegin(6 * g + place, n) = DataStart - 6 * n
  BY <1>1 DEF VersionBegin
<1>3. VersionBegin(6 * g + 3, n) = H1DataDate - 6 * n + 1
  BY <1>1 DEF VersionBegin
<1>4. VersionBegin(6 * g + 5, n) = T1DataDate - 6 * n + 1
  BY <1>1 DEF VersionBegin
<1>5. VersionBegin(6 * g + 6, n) = T2DataDate - 6 * n + 1
  BY <1>1 DEF VersionBegin
<1> QED BY <1>2, <1>3, <1>4, <1>5

LEMMA EndInGroup ==
  ASSUME NEW g \in Nat, NEW n \in Nat
  PROVE  /\ VersionEnd(6 * g + 1, n) = Open /\ VersionEnd(6 * g + 3, n) = Open
         /\ VersionEnd(6 * g + 6, n) = Open
         /\ VersionEnd(6 * g + 2, n) = H1DataDate - 6 * n
         /\ VersionEnd(6 * g + 4, n) = T1DataDate - 6 * n
         /\ VersionEnd(6 * g + 5, n) = T2DataDate - 6 * n
<1>1. \A place \in 1 .. 6 : (6 * g + place) % 6 = IF place < 6 THEN place ELSE 0
  BY RowInGroup
<1>2. DataEnd \in Nat
  BY DataAssumption
<1>3. VersionEnd(6 * g + 1, n) = Open /\ VersionEnd(6 * g + 3, n) = Open
  BY <1>1, <1>2 DEF VersionEnd, Open
<1>4. VersionEnd(6 * g + 6, n) = Open
  BY <1>1, <1>2 DEF VersionEnd, Open
<1>5. VersionEnd(6 * g + 2, n) = H1DataDate - 6 * n
  BY <1>1, <1>2, ChangesInOrder DEF VersionEnd
<1>6. VersionEnd(6 * g + 4, n) = T1DataDate - 6 * n
  BY <1>1, <1>2, ChangesInOrder DEF VersionEnd
<1>7. VersionEnd(6 * g + 5, n) = T2DataDate - 6 * n
  BY <1>1, <1>2, ChangesInOrder DEF VersionEnd
<1> QED BY <1>3, <1>4, <1>5, <1>6, <1>7

(* Of that key it is the version current on the day, in the dates that     *)
(* table number n gives its versions 6 * n days early (matchSCDSK,         *)
(* setSCDKeys): the two split the data's years at the same days.           *)
THEOREM ReferenceIsCurrent ==
  ASSUME NEW id \in Keys, NEW n \in Nat, NEW day \in Int, DataStart <= day
  PROVE  /\ VersionBegin(VersionOn(id, day), n) <= day - 6 * n
         /\ \/ VersionEnd(VersionOn(id, day), n) = Open
            \/ day - 6 * n <= VersionEnd(VersionOn(id, day), n)
<1> DEFINE Current(row) == /\ VersionBegin(row, n) <= day - 6 * n
                           /\ \/ VersionEnd(row, n) = Open
                              \/ day - 6 * n <= VersionEnd(row, n)
<1>1. DataStart \in Nat
  BY DataAssumption
<1>2. ASSUME NEW g \in Nat, id = 3 * g + 1
      PROVE  Current(VersionOn(id, day))
  BY <1>1, <1>2, VersionInGroup, BeginInGroup, EndInGroup
<1>3. ASSUME NEW g \in Nat, id = 3 * g + 2
      PROVE  Current(VersionOn(id, day))
  <2>1. CASE day > H1DataDate
    <3>1. VersionOn(id, day) = 6 * g + 3
      BY <1>3, <2>1, VersionInGroup
    <3> QED BY <2>1, <3>1, BeginInGroup, EndInGroup, ChangesInOrder
  <2>2. CASE day <= H1DataDate
    <3>1. VersionOn(id, day) = 6 * g + 2
      BY <1>3, <2>2, VersionInGroup, ChangesInOrder
    <3> QED BY <1>1, <2>2, <3>1, BeginInGroup, EndInGroup, ChangesInOrder
  <2> QED BY <2>1, <2>2, ChangesInOrder
<1>4. ASSUME NEW g \in Nat, id = 3 * g + 3
      PROVE  Current(VersionOn(id, day))
  <2>1. CASE day <= T1DataDate
    <3>1. VersionOn(id, day) = 6 * g + 4
      BY <1>4, <2>1, VersionInGroup, ChangesInOrder
    <3> QED BY <1>1, <2>1, <3>1, BeginInGroup, EndInGroup, ChangesInOrder
  <2>2. CASE day > T1DataDate /\ day <= T2DataDate
    <3>1. VersionOn(id, day) = 6 * g + 5
      BY <1>4, <2>2, VersionInGroup, ChangesInOrder
    <3> QED BY <2>2, <3>1, BeginInGroup, EndInGroup, ChangesInOrder
  <2>3. CASE day > T2DataDate
    <3>1. VersionOn(id, day) = 6 * g + 6
      BY <1>4, <2>3, VersionInGroup, ChangesInOrder
    <3> QED BY <2>3, <3>1, BeginInGroup, EndInGroup, ChangesInOrder
  <2> QED BY <2>1, <2>2, <2>3, ChangesInOrder
<1> QED BY <1>2, <1>3, <1>4, KeyInGroup

(* The versions of a key follow one another without a gap or a shared day   *)
(* (setSCDKeys), so no day has two current versions.                        *)
THEOREM VersionsFollow ==
  ASSUME NEW g \in Nat, NEW n \in Nat, NEW place \in 1 .. 5,
         KeyRow(6 * g + place + 1) = KeyRow(6 * g + place)
  PROVE  VersionBegin(6 * g + place + 1, n) = VersionEnd(6 * g + place, n) + 1
<1>1. place \in {2, 4, 5}
  <2>1. /\ KeyRow(6 * g + 2) # KeyRow(6 * g + 1)
        /\ KeyRow(6 * g + 4) # KeyRow(6 * g + 3)
    BY KeyRowInGroup
  <2> QED BY <2>1
<1>2. CASE place = 2
  BY <1>2, BeginInGroup, EndInGroup, ChangesInOrder
<1>3. CASE place = 4
  BY <1>3, BeginInGroup, EndInGroup, ChangesInOrder
<1>4. CASE place = 5
  BY <1>4, BeginInGroup, EndInGroup, ChangesInOrder
<1> QED BY <1>1, <1>2, <1>3, <1>4

(* A refresh row that picks a version of a key at random picks one of that  *)
(* key's rows, whatever number is drawn (getSKFromID, getFirstSK).          *)
THEOREM PickKeepsKey ==
  ASSUME NEW id \in Keys, NEW pick \in SKPicks(id)
  PROVE  KeyRow(SKFromID(id, pick)) = FirstSK(id)
<1>1. ASSUME NEW g \in Nat, id = 3 * g + 1
      PROVE  KeyRow(SKFromID(id, pick)) = FirstSK(id)
  <2>1. SKFromID(id, pick) = 6 * g + 1
    BY <1>1, KeyOfGroup DEF SKFromID
  <2> QED BY <1>1, <2>1, KeyRowInGroup, FirstOfGroup
<1>2. ASSUME NEW g \in Nat, id = 3 * g + 2
      PROVE  KeyRow(SKFromID(id, pick)) = FirstSK(id)
  <2>1. pick \in 2 .. 3
    BY <1>2, KeyOfGroup DEF SKPicks
  <2>2. SKFromID(id, pick) = 6 * g + pick
    BY <1>2, <2>1, KeyOfGroup DEF SKFromID
  <2>3. SKFromID(id, pick) \in {6 * g + 2, 6 * g + 3}
    BY <2>1, <2>2
  <2> QED BY <1>2, <2>3, KeyRowInGroup, FirstOfGroup
<1>3. ASSUME NEW g \in Nat, id = 3 * g + 3
      PROVE  KeyRow(SKFromID(id, pick)) = FirstSK(id)
  <2>1. pick \in 4 .. 6
    BY <1>3, KeyOfGroup DEF SKPicks
  <2>2. SKFromID(id, pick) = 6 * g + pick
    BY <1>3, <2>1, KeyOfGroup DEF SKFromID
  <2>3. SKFromID(id, pick) \in {6 * g + 4, 6 * g + 5, 6 * g + 6}
    BY <2>1, <2>2
  <2> QED BY <1>3, <2>3, KeyRowInGroup, FirstOfGroup
<1> QED BY <1>1, <1>2, <1>3, KeyInGroup
-----------------------------------------------------------------------------
(* A table of any size is some whole groups and a part of one.              *)
LEMMA TableInGroups ==
  ASSUME NEW rows \in Nat
  PROVE  \E g \in Nat, part \in 0 .. 5 : rows = 6 * g + part
<1>1. /\ rows \div 6 \in Nat /\ rows % 6 \in 0 .. 5
      /\ rows = 6 * (rows \div 6) + (rows % 6)
  OBVIOUS
<1> QED BY <1>1

LEMMA CountInGroups ==
  ASSUME NEW g \in Nat
  PROVE  /\ IDCount(6 * g) = 3 * g /\ IDCount(6 * g + 1) = 3 * g + 1
         /\ IDCount(6 * g + 2) = 3 * g + 2 /\ IDCount(6 * g + 3) = 3 * g + 2
         /\ IDCount(6 * g + 4) = 3 * g + 3 /\ IDCount(6 * g + 5) = 3 * g + 3
<1>1. \A part \in 0 .. 5 : (6 * g + part) % 6 = part /\ (6 * g + part) \div 6 = g
  OBVIOUS
<1>2. (6 * g) % 6 = 0 /\ (6 * g) \div 6 = g
  OBVIOUS
<1>3. IDCount(6 * g) = 3 * g
  BY <1>2 DEF IDCount
<1>4. IDCount(6 * g + 1) = 3 * g + 1
  BY <1>1 DEF IDCount
<1>5. IDCount(6 * g + 2) = 3 * g + 2
  BY <1>1 DEF IDCount
<1>6. IDCount(6 * g + 3) = 3 * g + 2
  BY <1>1 DEF IDCount
<1>7. IDCount(6 * g + 4) = 3 * g + 3
  BY <1>1 DEF IDCount
<1>8. IDCount(6 * g + 5) = 3 * g + 3
  BY <1>1 DEF IDCount
<1> QED BY <1>3, <1>4, <1>5, <1>6, <1>7, <1>8

(* getIDCount counts the keys: none in an empty table, and one more for     *)
(* every row that setSCDKeys says is the first of its key.                  *)
THEOREM KeysCounted ==
  /\ IDCount(0) = 0
  /\ \A rows \in Nat, n \in Nat :
       IDCount(rows + 1) =
         IDCount(rows) + (IF SCDKeys(rows + 1, n).new THEN 1 ELSE 0)
<1>1. IDCount(0) = 0
  BY CountInGroups
<1>2. ASSUME NEW rows \in Nat, NEW n \in Nat
      PROVE  IDCount(rows + 1) =
               IDCount(rows) + (IF SCDKeys(rows + 1, n).new THEN 1 ELSE 0)
  <2>1. SCDKeys(rows + 1, n).new <=> (rows + 1) % 6 \in {1, 2, 4}
    BY DEF SCDKeys
  <2>2. PICK g \in Nat, part \in 0 .. 5 : rows = 6 * g + part
    BY TableInGroups
  <2>3. (rows + 1) % 6 = IF part < 5 THEN part + 1 ELSE 0
    BY <2>2
  <2>4. CASE part \in {0, 1, 3}
    <3>1. IDCount(rows + 1) = IDCount(rows) + 1
      BY <2>2, <2>4, CountInGroups
    <3> QED BY <2>1, <2>3, <2>4, <3>1
  <2>5. CASE part \in {2, 4, 5}
    <3>1. IDCount(rows + 1) = IDCount(rows)
      <4>1. CASE part \in {2, 4}
        BY <2>2, <4>1, CountInGroups
      <4>2. CASE part = 5
        <5>1. rows + 1 = 6 * (g + 1) /\ g + 1 \in Nat
          BY <2>2, <4>2
        <5>2. IDCount(6 * (g + 1)) = 3 * (g + 1)
          BY <5>1, CountInGroups
        <5> QED BY <2>2, <4>2, <5>1, <5>2, CountInGroups
      <4> QED BY <2>5, <4>1, <4>2
    <3>2. IDCount(rows) \in Int
      BY <2>2, CountInGroups
    <3> QED BY <2>1, <2>3, <2>5, <3>1, <3>2
  <2> QED BY <2>4, <2>5
<1> QED BY <1>1, <1>2

(* A reference to any of the keys counted is to a row the table has, of     *)
(* that key, also where the table ends within a key (matchSCDSK's cut).     *)
THEOREM ReferenceInTable ==
  ASSUME NEW rows \in Nat, NEW id \in 1 .. IDCount(rows), NEW day \in Int
  PROVE  /\ MatchSCDSK(id, day, rows) \in 1 .. rows
         /\ KeyRow(MatchSCDSK(id, day, rows)) = FirstSK(id)
<1>1. PICK g \in Nat, part \in 0 .. 5 : rows = 6 * g + part
  BY TableInGroups
<1>2. id \in Keys /\ id <= IDCount(rows)
  <2>1. IDCount(rows) \in Int
    BY <1>1, CountInGroups
  <2> QED BY <2>1 DEF Keys
<1>3. ASSUME NEW h \in Nat, id = 3 * h + 1
      PROVE  /\ MatchSCDSK(id, day, rows) \in 1 .. rows
             /\ KeyRow(MatchSCDSK(id, day, rows)) = FirstSK(id)
  <2>1. VersionOn(id, day) = 6 * h + 1
    BY <1>3, VersionInGroup
  <2>2. 6 * h + 1 <= rows
    BY <1>1, <1>2, <1>3, CountInGroups
  <2>3. MatchSCDSK(id, day, rows) = 6 * h + 1
    BY <2>1, <2>2 DEF MatchSCDSK
  <2> QED BY <1>3, <2>2, <2>3, KeyRowInGroup, FirstOfGroup
<1>4. ASSUME NEW h \in Nat, id = 3 * h + 2
      PROVE  /\ MatchSCDSK(id, day, rows) \in 1 .. rows
             /\ KeyRow(MatchSCDSK(id, day, rows)) = FirstSK(id)
  <2>1. VersionOn(id, day) \in {6 * h + 2, 6 * h + 3}
    BY <1>4, VersionInGroup, ChangesInOrder
  <2>2. 6 * h + 2 <= rows
    BY <1>1, <1>2, <1>4, CountInGroups
  <2>3. /\ MatchSCDSK(id, day, rows) \in {6 * h + 2, 6 * h + 3}
        /\ MatchSCDSK(id, day, rows) <= rows
    BY <2>1, <2>2 DEF MatchSCDSK
  <2> QED BY <1>4, <2>3, KeyRowInGroup, FirstOfGroup
<1>5. ASSUME NEW h \in Nat, id = 3 * h + 3
      PROVE  /\ MatchSCDSK(id, day, rows) \in 1 .. rows
             /\ KeyRow(MatchSCDSK(id, day, rows)) = FirstSK(id)
  <2>1. VersionOn(id, day) \in {6 * h + 4, 6 * h + 5, 6 * h + 6}
    BY <1>5, VersionInGroup, ChangesInOrder
  <2>2. 6 * h + 4 <= rows
    BY <1>1, <1>2, <1>5, CountInGroups
  <2>3. /\ MatchSCDSK(id, day, rows) \in {6 * h + 4, 6 * h + 5, 6 * h + 6}
        /\ MatchSCDSK(id, day, rows) <= rows
    BY <2>1, <2>2 DEF MatchSCDSK
  <2> QED BY <1>5, <2>3, KeyRowInGroup, FirstOfGroup
<1> QED BY <1>2, <1>3, <1>4, <1>5, KeyInGroup

-----------------------------------------------------------------------------
(***************************************************************************)
(* The calendar.                                                           *)
(***************************************************************************)
\* Leap years up to y.
Leaps(y) == {c \in 1 .. y : GregorianLeap(c)}

\* One year out of four, but for the centuries.
LEMMA LeapsCounted ==
  ASSUME NEW y \in Nat
  PROVE  IsFiniteSet(Leaps(y)) /\ Cardinality(Leaps(y)) = (y \div 4 - y \div 100) + y \div 400
<1> DEFINE N(k) == (k \div 4 - k \div 100) + k \div 400
           G == {k \in Nat : IsFiniteSet(Leaps(k)) /\ Cardinality(Leaps(k)) = N(k)}
<1>1. 0 \in G
  <2>1. Leaps(0) = {}
    BY DEF Leaps
  <2>2. N(0) = 0
    BY Z3
  <2> QED  BY <2>1, <2>2, FS_EmptySet
<1>2. ASSUME NEW k \in G PROVE k + 1 \in G
  <2>1. k \in Nat /\ k + 1 \in Nat /\ IsFiniteSet(Leaps(k)) /\ Cardinality(Leaps(k)) = N(k)
    OBVIOUS
  <2>2. CASE GregorianLeap(k + 1)
    <3>1. Leaps(k + 1) = Leaps(k) \cup {k + 1} /\ k + 1 \notin Leaps(k)
      BY <2>1, <2>2 DEF Leaps
    <3>2. IsFiniteSet(Leaps(k + 1)) /\ Cardinality(Leaps(k + 1)) = Cardinality(Leaps(k)) + 1
      BY <2>1, <3>1, FS_AddElement
    <3>3. N(k + 1) = N(k) + 1
      BY <2>1, <2>2, Z3 DEF GregorianLeap
    <3> HIDE DEF N
    <3> QED  BY <2>1, <3>2, <3>3
  <2>3. CASE ~ GregorianLeap(k + 1)
    <3>1. Leaps(k + 1) = Leaps(k)
      BY <2>1, <2>3 DEF Leaps
    <3>2. N(k + 1) = N(k)
      BY <2>1, <2>3, Z3 DEF GregorianLeap
    <3> HIDE DEF N
    <3> QED  BY <2>1, <3>1, <3>2
  <2> QED  BY <2>2, <2>3
<1> HIDE DEF G
<1>3. G = Nat
  BY <1>1, <1>2, InductionSet DEF G
<1> QED  BY <1>3 DEF G

\* Years counted by the cycles of the calendar.
LEMMA YearsInCycles ==
  ASSUME NEW y \in Nat
  PROVE  \E q \in Nat, r \in 0 .. 399 :
           y = 400 * q + r /\ q = y \div 400 /\ r = y % 400
<1>1. /\ y \div 400 \in Nat /\ y % 400 \in 0 .. 399
      /\ y = 400 * (y \div 400) + (y % 400)
  OBVIOUS
<1> QED BY <1>1

\* The two definitions of a date in numbers, without the calendar's months.
GregorianLeapDays(y) == (y \div 4 - y \div 100) + y \div 400
BeforeMonth(m) == <<0, 31, 59, 90, 120, 151, 181, 212, 243, 273, 304, 334>>[m]
LeapDay(y, m) == IF GregorianLeap(y) /\ m > 2 THEN 1 ELSE 0
BeforeYear(y) == 365 * (y - 1) + GregorianLeapDays(y - 1)
ByMonths(y, m, d) == (BeforeYear(y) + (BeforeMonth(m) + LeapDay(y, m))) + d

\* The days of a year before a month: the sum of the months.
LEMMA MonthsSummed ==
  ASSUME NEW y \in Nat \ {0}, NEW m \in 1 .. 12, NEW d \in Int
  PROVE  GregorianDay(y, m, d) = ByMonths(y, m, d)
<1> DEFINE F == [w \in Nat \X Nat |-> w[2] + GregorianMonth(y, w[1] + 1)]
           Sums(f) == f = [k \in Nat |-> IF k = 0 THEN 0 ELSE f[k - 1] + GregorianMonth(y, k)]
           t == CHOOSE f : Sums(f)
<1>1. F \in [Nat \X Nat -> Nat]
  BY DEF GregorianMonth
<1>2. PICK h : Iterates(h, Nat, 0, F)
  BY <1>1, RecursionExists
<1>3. Sums(h)
  <2>1. h \in [Nat -> Nat] /\ h[0] = 0 /\ \A n \in Nat : h[n + 1] = F[<<n, h[n]>>]
    BY <1>2 DEF Iterates
  <2>2. ASSUME NEW n \in Nat PROVE h[n] = IF n = 0 THEN 0 ELSE h[n - 1] + GregorianMonth(y, n)
    <3>1. CASE n # 0
      <4>1. n - 1 \in Nat /\ (n - 1) + 1 = n
        BY <3>1
      <4>2. h[n] = F[<<n - 1, h[n - 1]>>] /\ h[n - 1] \in Nat
        BY <2>1, <4>1
      <4>3. F[<<n - 1, h[n - 1]>>] = h[n - 1] + GregorianMonth(y, n)
        BY <4>1, <4>2
      <4> HIDE DEF F
      <4> QED  BY <3>1, <4>2, <4>3
    <3> QED  BY <2>1, <3>1
  <2> HIDE DEF F
  <2> QED  BY <2>1, <2>2
<1>4. Sums(t)
  BY <1>3
<1>5. GregorianDay(y, m, d)
        = 365 * (y - 1) + 97 * ((y - 1) \div 400) + Cardinality(Leaps((y - 1) % 400))
            + t[m - 1] + d
  BY DEF GregorianDay, Leaps
<1>6. 97 * ((y - 1) \div 400) + Cardinality(Leaps((y - 1) % 400)) = GregorianLeapDays(y - 1)
  <2>1. PICK q \in Nat, r \in 0 .. 399 :
          y - 1 = 400 * q + r /\ q = (y - 1) \div 400 /\ r = (y - 1) % 400
    <3>1. y - 1 \in Nat
      OBVIOUS
    <3> QED  BY <3>1, YearsInCycles
  <2>2. Cardinality(Leaps(r)) = (r \div 4 - r \div 100) + r \div 400
    BY LeapsCounted
  <2>3. /\ (400 * q + r) \div 4 = 100 * q + r \div 4
        /\ (400 * q + r) \div 100 = 4 * q + r \div 100
        /\ (400 * q + r) \div 400 = q + r \div 400
    BY Z3
  <2> QED  BY <2>1, <2>2, <2>3, Z3 DEF GregorianLeapDays
<1> HIDE DEF t
<1>7. \A k \in Nat : t[k] = IF k = 0 THEN 0 ELSE t[k - 1] + GregorianMonth(y, k)
  BY <1>4
<1> HIDE DEF Sums, F
<1>8. t[0] = 0 /\ t[1] = t[0] + GregorianMonth(y, 1) /\ t[2] = t[1] + GregorianMonth(y, 2)
      /\ t[3] = t[2] + GregorianMonth(y, 3) /\ t[4] = t[3] + GregorianMonth(y, 4)
      /\ t[5] = t[4] + GregorianMonth(y, 5) /\ t[6] = t[5] + GregorianMonth(y, 6)
      /\ t[7] = t[6] + GregorianMonth(y, 7) /\ t[8] = t[7] + GregorianMonth(y, 8)
      /\ t[9] = t[8] + GregorianMonth(y, 9) /\ t[10] = t[9] + GregorianMonth(y, 10)
      /\ t[11] = t[10] + GregorianMonth(y, 11)
  BY <1>7
<1>9. /\ GregorianMonth(y, 1) = 31 /\ GregorianMonth(y, 2) = (IF GregorianLeap(y) THEN 29 ELSE 28)
      /\ GregorianMonth(y, 3) = 31 /\ GregorianMonth(y, 4) = 30 /\ GregorianMonth(y, 5) = 31
      /\ GregorianMonth(y, 6) = 30 /\ GregorianMonth(y, 7) = 31 /\ GregorianMonth(y, 8) = 31
      /\ GregorianMonth(y, 9) = 30 /\ GregorianMonth(y, 10) = 31 /\ GregorianMonth(y, 11) = 30
  BY DEF GregorianMonth
<1>10. t[m - 1] = BeforeMonth(m) + LeapDay(y, m)
  <2>1. m = 1 \/ m = 2 \/ m = 3 \/ m = 4 \/ m = 5 \/ m = 6 \/ m = 7 \/ m = 8 \/ m = 9
        \/ m = 10 \/ m = 11 \/ m = 12
    OBVIOUS
  <2> QED  BY <1>8, <1>9, <2>1 DEF BeforeMonth, LeapDay
<1>11. BeforeMonth(m) + LeapDay(y, m) \in Int /\ GregorianLeapDays(y - 1) \in Int
  BY DEF BeforeMonth, LeapDay, GregorianLeapDays
<1>12. (y - 1) \div 400 \in Int /\ Cardinality(Leaps((y - 1) % 400)) \in Int
  <2>1. (y - 1) % 400 \in Nat /\ (y - 1) \div 400 \in Int
    BY Z3
  <2> QED  BY <2>1, LeapsCounted, FS_CardinalityType
<1> HIDE DEF t
<1> QED
  <2>1. \A c, e, k, g, b \in Int :
          97 * c + e = g => 365 * (y - 1) + 97 * c + e + b + d = 365 * (y - 1) + g + b + d
    OBVIOUS
  <2> QED  BY <1>5, <1>6, <1>10, <1>11, <1>12, <2>1 DEF ByMonths, BeforeYear

\* dttoj counts the days from March on.
MarchDay(a, k, d) ==
  ((d + (153 * k - 457) \div 5) + (365 * a + GregorianLeapDays(a))) + 1721119

LEMMA FromMarch ==
  ASSUME NEW y \in Int, NEW m \in 1 .. 12, NEW d \in Int
  PROVE  DateToJulian(y, m, d) = IF m <= 2 THEN MarchDay(y - 1, m + 12, d) ELSE MarchDay(y, m, d)
BY SMT DEF DateToJulian, MarchDay, GregorianLeapDays

\* A year has one leap day more than those before it when it is a leap year.
LEMMA LeapDaysNext ==
  ASSUME NEW y \in Nat \ {0}
  PROVE  GregorianLeapDays(y) = GregorianLeapDays(y - 1) + (IF GregorianLeap(y) THEN 1 ELSE 0)
<1>1. y \div 4 = (y - 1) \div 4 + (IF y % 4 = 0 THEN 1 ELSE 0)
  BY Z3
<1>2. y \div 100 = (y - 1) \div 100 + (IF y % 100 = 0 THEN 1 ELSE 0)
  BY Z3
<1>3. y \div 400 = (y - 1) \div 400 + (IF y % 400 = 0 THEN 1 ELSE 0)
  BY Z3
<1>4. (y % 400 = 0 => y % 100 = 0) /\ (y % 100 = 0 => y % 4 = 0)
  BY Z3
<1> QED  BY <1>1, <1>2, <1>3, <1>4 DEF GregorianLeapDays, GregorianLeap

\* dttoj counts the days of the Gregorian calendar.
LEMMA DaysAreGregorian ==
  ASSUME NEW y \in Nat \ {0}, NEW m \in 1 .. 12, NEW d \in Int
  PROVE  DateToJulian(y, m, d) = GregorianDay(y, m, d) + Epoch
<1> DEFINE g == GregorianLeapDays(y - 1)
           leap == IF GregorianLeap(y) THEN 1 ELSE 0
<1>1. g \in Int /\ GregorianLeapDays(y) = g + leap
  BY LeapDaysNext DEF GregorianLeapDays
<1> HIDE DEF g
<1>2. GregorianDay(y, m, d) = ((365 * (y - 1) + g) + (BeforeMonth(m) + LeapDay(y, m))) + d
  <2>1. GregorianDay(y, m, d) = ByMonths(y, m, d)
    BY MonthsSummed
  <2> QED  BY <2>1 DEF ByMonths, BeforeYear, g
<1>3. m = 1 \/ m = 2 \/ m = 3 \/ m = 4 \/ m = 5 \/ m = 6 \/ m = 7 \/ m = 8 \/ m = 9
      \/ m = 10 \/ m = 11 \/ m = 12
  OBVIOUS
<1>4. CASE m <= 2
  <2>1. DateToJulian(y, m, d)
          = ((d + (153 * (m + 12) - 457) \div 5) + (365 * (y - 1) + g)) + 1721119
    <3>1. y \in Int
      OBVIOUS
    <3>2. DateToJulian(y, m, d) = MarchDay(y - 1, m + 12, d)
      BY <1>4, <3>1, FromMarch
    <3> QED  BY <3>2, SMT DEF MarchDay, g
  <2>2. LeapDay(y, m) = 0 /\ (153 * (m + 12) - 457) \div 5 = BeforeMonth(m) + 306
    BY <1>3, <1>4 DEF LeapDay, BeforeMonth
  <2> QED  BY <1>1, <1>2, <1>3, <2>1, <2>2, SMT DEF Epoch, BeforeMonth
<1>5. CASE ~ (m <= 2)
  <2>1. DateToJulian(y, m, d)
          = ((d + (153 * m - 457) \div 5) + (365 * y + (g + leap))) + 1721119
    <3>1. y \in Int
      OBVIOUS
    <3>2. DateToJulian(y, m, d) = MarchDay(y, m, d)
      BY <1>5, <3>1, FromMarch
    <3> QED  BY <1>1, <3>2, SMT DEF MarchDay
  <2>2. LeapDay(y, m) = leap /\ (153 * m - 457) \div 5 = BeforeMonth(m) - 59
    BY <1>3, <1>5 DEF LeapDay, BeforeMonth
  <2> QED  BY <1>1, <1>2, <1>3, <2>1, <2>2, SMT DEF Epoch, BeforeMonth
<1> QED  BY <1>4, <1>5

\* jtodt takes out the centuries, then the years, then the months; what is left
\* at each turn is less than the next one's unit, but for the last day of 400
\* years, the last day of four and the last of February.
LEMMA CenturyLeft ==
  ASSUME NEW l0 \in Int, NEW n \in Int, NEW e \in Int, 4 * e <= n + 3, n + 3 < 4 * e + 4,
         146097 * n <= 4 * l0, 4 * l0 < 146097 * n + 146097
  PROVE  LET l1 == l0 - (36524 * n + e) IN
         0 <= l1 /\ l1 <= 36524 /\ (l1 = 36524 => n = 4 * e)
BY Z3

LEMMA CenturyOf ==
  ASSUME NEW l0 \in Int, NEW n \in Int, n = (4 * l0) \div 146097
  PROVE  \E e \in Int :
           /\ e = (n + 3) \div 4 /\ (146097 * n + 3) \div 4 = 36524 * n + e
           /\ 0 <= l0 - (36524 * n + e) /\ l0 - (36524 * n + e) <= 36524
           /\ l0 - (36524 * n + e) = 36524 => n = 4 * e
<1>1. 146097 * n <= 4 * l0 /\ 4 * l0 < 146097 * n + 146097
  BY Z3
<1>2. PICK e \in Int : e = (n + 3) \div 4
  BY Z3
<1>3. 4 * e <= n + 3 /\ n + 3 < 4 * e + 4
  BY <1>2, Z3
<1>4. (146097 * n + 3) \div 4 = 36524 * n + e
  BY <1>3, Z3
<1>5. LET l1 == l0 - (36524 * n + e) IN 0 <= l1 /\ l1 <= 36524 /\ (l1 = 36524 => n = 4 * e)
  BY <1>1, <1>3, CenturyLeft, SMT
<1> QED  BY <1>2, <1>4, <1>5, SMT

LEMMA YearLeft ==
  ASSUME NEW l1 \in Int, 0 <= l1, l1 <= 36524, NEW i \in Int,
         NEW u \in Int, 4 * u <= i, i < 4 * u + 4,
         1461001 * i <= 4000 * (l1 + 1), 4000 * (l1 + 1) < 1461001 * i + 1461001
  PROVE  LET r == l1 - (365 * i + u) IN
         0 <= i /\ i <= 99 /\ 0 <= r /\ r <= 365 /\ (r = 365 => i = 4 * u + 3)
<1>1. 0 <= i /\ i <= 99
  BY Z3
<1>2. 0 <= u /\ u <= 24
  BY <1>1, Z3
<1> QED  BY <1>1, <1>2, Z3

LEMMA YearOf ==
  ASSUME NEW l1 \in Int, 0 <= l1, l1 <= 36524,
         NEW i \in Int, i = (4000 * (l1 + 1)) \div 1461001
  PROVE  \E u \in Int :
           /\ u = i \div 4 /\ 4 * u <= i /\ i < 4 * u + 4 /\ (1461 * i) \div 4 = 365 * i + u
           /\ 0 <= i /\ i <= 99 /\ 0 <= l1 - (365 * i + u) /\ l1 - (365 * i + u) <= 365
           /\ l1 - (365 * i + u) = 365 => i = 4 * u + 3
<1>1. 1461001 * i <= 4000 * (l1 + 1) /\ 4000 * (l1 + 1) < 1461001 * i + 1461001
  BY Z3
<1>2. PICK u \in Int : u = i \div 4
  BY Z3
<1>3. 4 * u <= i /\ i < 4 * u + 4
  BY <1>2, Z3
<1>4. (1461 * i) \div 4 = 365 * i + u
  BY <1>3, Z3
<1>5. LET r == l1 - (365 * i + u) IN
      0 <= i /\ i <= 99 /\ 0 <= r /\ r <= 365 /\ (r = 365 => i = 4 * u + 3)
  BY <1>1, <1>3, YearLeft, SMT
<1> QED  BY <1>2, <1>3, <1>4, <1>5, SMT

MonthLength(j) == <<31, 30, 31, 30, 31, 31, 30, 31, 30, 31, 31, 29>>[j]

LEMMA MonthOf ==
  ASSUME NEW r \in 0 .. 365, NEW j \in Int, j = (80 * (r + 31)) \div 2447
  PROVE  LET d == (r + 31) - (2447 * j) \div 80 IN
         /\ j \in 1 .. 12
         /\ d \in 1 .. MonthLength(j)
         /\ j = 12 /\ d = 29 => r = 365
         /\ d + (153 * (j + 2) - 457) \div 5 = r + 1
         /\ r >= 306 => j >= 11
<1>1. 2447 * j <= 80 * (r + 31) /\ 80 * (r + 31) < 2447 * j + 2447
  BY Z3
<1>2. j = 1 \/ j = 2 \/ j = 3 \/ j = 4 \/ j = 5 \/ j = 6 \/ j = 7 \/ j = 8 \/ j = 9
      \/ j = 10 \/ j = 11 \/ j = 12
  BY <1>1, SMT
<1>3. /\ (2447 * 1) \div 80 = 30 /\ (2447 * 2) \div 80 = 61 /\ (2447 * 3) \div 80 = 91
      /\ (2447 * 4) \div 80 = 122 /\ (2447 * 5) \div 80 = 152 /\ (2447 * 6) \div 80 = 183
      /\ (2447 * 7) \div 80 = 214 /\ (2447 * 8) \div 80 = 244 /\ (2447 * 9) \div 80 = 275
      /\ (2447 * 10) \div 80 = 305 /\ (2447 * 11) \div 80 = 336 /\ (2447 * 12) \div 80 = 367
  BY Z3
<1> QED  BY <1>1, <1>2, <1>3, SMT DEF MonthLength

\* A day of the calendar: its two forms agree and there is such a day.
IsDay(d) ==
  /\ d \in [year : Nat \ {0}, month : 1 .. 12, day : 1 .. 31, julian : Nat]
  /\ d.day \in 1 .. GregorianMonth(d.year, d.month)
  /\ d.julian = GregorianDay(d.year, d.month, d.day) + Epoch

LEMMA DayIs ==
  ASSUME NEW y \in Nat \ {0}, NEW m \in 1 .. 12, NEW d \in 1 .. GregorianMonth(y, m),
         NEW julian \in Nat, julian = GregorianDay(y, m, d) + Epoch
  PROVE  IsDay([year |-> y, month |-> m, day |-> d, julian |-> julian])
<1>1. d \in 1 .. 31
  BY DEF GregorianMonth
<1> QED  BY <1>1 DEF IsDay

LEMMA LeapDaysFrom ==
  ASSUME NEW c \in Int, NEW i \in Int, 0 <= i, i <= 99, NEW u \in Int, u = i \div 4,
         NEW g \in Int, g = c \div 4
  PROVE  GregorianLeapDays(100 * c + i) = ((25 * c + u) - c) + g
<1>1. (100 * c + i) \div 4 = 25 * c + u
  BY Z3
<1>2. (100 * c + i) \div 100 = c
  BY Z3
<1>3. (100 * c + i) \div 400 = g
  BY Z3
<1> QED  BY <1>1, <1>2, <1>3 DEF GregorianLeapDays

\* jtodt answers the day of the calendar that has the number it is called with.
LEMMA NumberIsDay ==
  ASSUME NEW julian \in Nat, julian > Epoch
  PROVE  IsDay(JulianToDate(julian)) /\ JulianToDate(julian).julian = julian
<1>1. PICK l0 \in Int : l0 = julian + 68569
  OBVIOUS
<1>2. PICK n \in Int : n = (4 * l0) \div 146097
  BY Z3
<1>3. PICK e \in Int :
        /\ e = (n + 3) \div 4 /\ (146097 * n + 3) \div 4 = 36524 * n + e
        /\ 0 <= l0 - (36524 * n + e) /\ l0 - (36524 * n + e) <= 36524
        /\ l0 - (36524 * n + e) = 36524 => n = 4 * e
  BY <1>2, CenturyOf
<1>4. PICK l1 \in Int : l1 = l0 - (36524 * n + e)
  OBVIOUS
<1>5. PICK i \in Int : i = (4000 * (l1 + 1)) \div 1461001
  BY Z3
<1>6. 0 <= l1 /\ l1 <= 36524
  BY <1>3, <1>4, SMT
<1>7. PICK u \in Int :
        /\ u = i \div 4 /\ 4 * u <= i /\ i < 4 * u + 4 /\ (1461 * i) \div 4 = 365 * i + u
        /\ 0 <= i /\ i <= 99 /\ 0 <= l1 - (365 * i + u) /\ l1 - (365 * i + u) <= 365
        /\ l1 - (365 * i + u) = 365 => i = 4 * u + 3
  BY <1>5, <1>6, YearOf
<1>8. PICK r \in 0 .. 365 : r = l1 - (365 * i + u)
  BY <1>6, <1>7, SMT
<1>9. PICK j \in Int : j = (80 * (r + 31)) \div 2447
  BY Z3
<1>10. PICK b \in Int : b = (2447 * j) \div 80
  BY Z3
<1>11. PICK d \in Int : d = (r + 31) - b
  OBVIOUS
<1>12. /\ j \in 1 .. 12 /\ d \in 1 .. MonthLength(j) /\ (j = 12 /\ d = 29 => r = 365)
       /\ d + (153 * (j + 2) - 457) \div 5 = r + 1 /\ (r >= 306 => j >= 11)
  BY <1>9, <1>10, <1>11, MonthOf
<1>13. PICK c \in Int : c = n - 49
  OBVIOUS
<1>14. PICK y \in Int : y = 100 * c + i
  OBVIOUS
<1>15. JulianToDate(julian)
         = [year |-> y + (j \div 11), month |-> j + 2 - 12 * (j \div 11), day |-> d, julian |-> julian]
  <2>1. l0 - (146097 * n + 3) \div 4 = l1
    BY <1>3, <1>4, SMT
  <2>2. l1 - (1461 * i) \div 4 + 31 = r + 31
    BY <1>7, <1>8, SMT
  <2>3. 100 * (n - 49) + i = y
    BY <1>13, <1>14
  <2>4. JulianToDate(julian)
          = [year |-> 100 * (n - 49) + i + (j \div 11), month |-> j + 2 - 12 * (j \div 11),
             day |-> r + 31 - b, julian |-> julian]
    BY <1>1, <1>2, <2>1, <1>5, <2>2, <1>9, <1>10 DEF JulianToDate
  <2> QED  BY <2>3, <2>4, <1>11
<1>16. PICK g \in Int : g = c \div 4 /\ e = g + 13
  <2>1. c \div 4 \in Int /\ (n + 3) \div 4 = (c \div 4) + 13
    BY <1>13, Z3
  <2> QED  BY <1>3, <2>1
<1>17. julian = MarchDay(y, j + 2, d)
  <2>1. GregorianLeapDays(y) = ((25 * c + u) - c) + g
    BY <1>7, <1>14, <1>16, LeapDaysFrom
  <2>2. MarchDay(y, j + 2, d) = ((r + 1) + (365 * y + (((25 * c + u) - c) + g))) + 1721119
    BY <1>12, <2>1, SMT DEF MarchDay
  <2>3. julian = ((r + 1) + (365 * y + (((25 * c + u) - c) + g))) + 1721119
    BY <1>1, <1>4, <1>8, <1>13, <1>14, <1>16, Z3
  <2> QED  BY <2>2, <2>3
<1>18. y \in Nat /\ (y = 0 => r >= 306)
  <2>1. julian = ((r + 1) + (365 * y + (((25 * c + u) - c) + g))) + 1721119
    BY <1>1, <1>4, <1>8, <1>13, <1>14, <1>16, Z3
  <2>2. 4 * g <= c /\ 0 <= r /\ r <= 365 /\ julian > 1721425
    BY <1>16, Z3 DEF Epoch
  <2>3. c >= 0
    BY <2>1, <2>2, <1>7, <1>14, Z3
  <2>4. y >= 0
    BY <2>3, <1>7, <1>14, Z3
  <2>5. y = 0 => c = 0 /\ i = 0
    BY <2>3, <1>7, <1>14, Z3
  <2>6. c = 0 /\ i = 0 => g = 0 /\ u = 0
    BY <1>7, <1>16, SMT
  <2>7. y = 0 => r >= 306
    BY <2>1, <2>2, <2>5, <2>6, SMT
  <2> QED  BY <2>4, <2>7
<1>19. d <= 28 \/ j # 12 \/ GregorianLeap(y + 1)
  <2>1. CASE j = 12 /\ d = 29
    <3>1. l1 - (365 * i + u) = 365
      BY <1>8, <1>12, <2>1
    <3>2. i = 4 * u + 3
      BY <1>7, <3>1
    <3>3. i = 99 => n = 4 * e
      <4>1. i = 99 => u = 24
        BY <3>2
      <4>2. i = 99 => l1 = 36524
        BY <3>1, <4>1, SMT
      <4> QED  BY <1>3, <1>4, <4>2
    <3>4. i = 99 => c + 49 = 4 * e
      BY <3>3, <1>13
    <3>5. PICK z \in Int : z = y + 1 /\ z = 100 * c + i + 1
      BY <1>14
    <3>6. 0 <= i /\ i <= 99
      BY <1>7
    <3>7. z % 4 = 0 /\ (i = 99 => z % 400 = 0) /\ (i # 99 => z % 100 # 0)
      BY <3>2, <3>4, <3>5, <3>6, Z3
    <3>8. GregorianLeap(z)
      BY <3>7 DEF GregorianLeap
    <3>9. z = y + 1
      BY <3>5
    <3> QED  BY <3>8, <3>9, Zenon
  <2>2. j = 12 => MonthLength(j) = 29
    BY DEF MonthLength
  <2> QED  BY <1>12, <2>1, <2>2
<1> DEFINE D == JulianToDate(julian)
<1> SUFFICES IsDay(D) /\ D.julian = julian
  OBVIOUS
<1> HIDE DEF D
<1>20. CASE j <= 10
  <2>1. D = [year |-> y, month |-> j + 2, day |-> d, julian |-> julian]
    <3>1. j \div 11 = 0
      BY <1>12, <1>20, Z3
    <3> QED  BY <1>15, <3>1 DEF D
  <2>2. y \in Nat \ {0} /\ j + 2 \in 1 .. 12 /\ j + 2 > 2
    BY <1>12, <1>18, <1>20
  <2>3. d \in 1 .. GregorianMonth(y, j + 2)
    BY <1>12, <1>20 DEF MonthLength, GregorianMonth
  <2>4. DateToJulian(y, j + 2, d) = julian
    BY <1>17, <2>2, FromMarch
  <2>5. julian = GregorianDay(y, j + 2, d) + Epoch
    BY <2>2, <2>4, DaysAreGregorian
  <2>6. IsDay(D) /\ D.julian = julian
    BY <2>1, <2>2, <2>3, <2>5, DayIs
  <2> QED  BY <2>6
<1>21. CASE ~ (j <= 10)
  <2>1. D = [year |-> y + 1, month |-> j - 10, day |-> d, julian |-> julian]
    <3>1. j \div 11 = 1
      BY <1>12, <1>21, Z3
    <3> QED  BY <1>15, <3>1 DEF D
  <2>2. y + 1 \in Nat \ {0} /\ j - 10 \in 1 .. 12 /\ j - 10 <= 2
    BY <1>12, <1>18, <1>21
  <2>3. d \in 1 .. GregorianMonth(y + 1, j - 10)
    BY <1>12, <1>19, <1>21 DEF MonthLength, GregorianMonth
  <2>4. DateToJulian(y + 1, j - 10, d) = julian
    <3>1. (y + 1) - 1 = y /\ (j - 10) + 12 = j + 2
      BY <1>12
    <3> QED  BY <1>17, <2>2, <3>1, FromMarch
  <2>5. julian = GregorianDay(y + 1, j - 10, d) + Epoch
    BY <2>2, <2>4, DaysAreGregorian
  <2>6. IsDay(D) /\ D.julian = julian
    BY <2>1, <2>2, <2>3, <2>5, DayIs
  <2> QED  BY <2>6
<1> QED  BY <1>12, <1>20, <1>21

\* The doomsday of a year, before it is reduced to a day of the week.
Doom(y) ==
  LET q == y % 100
      r == q % 12
  IN  <<3, 2, 0, 5>>[((y \div 100 - 15) % 4) + 1] + q \div 12 + r + r \div 4

\* The days of the years up to y, and of y: a weekday less two.
LEMMA WeekdayOfYear ==
  ASSUME NEW y \in Nat
  PROVE  /\ Doom(y) \in Nat /\ Doomsday(y) = Doom(y) % 7
         /\ \E k \in Int : 365 * y + GregorianLeapDays(y) = (7 * k + Doom(y)) - 2
<1>1. PICK c \in Int, q \in Int : c = y \div 100 /\ q = y % 100
  BY Z3
<1>2. y = 100 * c + q /\ 0 <= q /\ q <= 99 /\ c >= 0
  BY <1>1, Z3
<1>3. PICK a \in Int, r \in Int : a = q \div 12 /\ r = q % 12
  BY Z3
<1>4. q = 12 * a + r /\ 0 <= r /\ r <= 11 /\ 0 <= a
  BY <1>2, <1>3, Z3
<1>5. PICK s \in Int : s = r \div 4
  BY Z3
<1>6. 4 * s <= r /\ r < 4 * s + 4 /\ 0 <= s
  BY <1>4, <1>5, Z3
<1>7. PICK e \in Int, f \in Int : e = c \div 4 /\ f = (c - 15) % 4
  BY Z3
<1>8. 4 * e <= c /\ c < 4 * e + 4 /\ 0 <= f /\ f <= 3 /\ c = 4 * e + ((f + 3) % 4)
  BY <1>7, Z3
<1>9. PICK t \in Int : t = <<3, 2, 0, 5>>[f + 1]
  <2>1. f = 0 \/ f = 1 \/ f = 2 \/ f = 3
    BY <1>8
  <2> QED  BY <2>1
<1>10. /\ f = 0 => t = 3 /\ c = 4 * e + 3
       /\ f = 1 => t = 2 /\ c = 4 * e
       /\ f = 2 => t = 0 /\ c = 4 * e + 1
       /\ f = 3 => t = 5 /\ c = 4 * e + 2
       /\ (f = 0 \/ f = 1 \/ f = 2 \/ f = 3)
  <2>1. <<3, 2, 0, 5>>[1] = 3 /\ <<3, 2, 0, 5>>[2] = 2 /\ <<3, 2, 0, 5>>[3] = 0 /\ <<3, 2, 0, 5>>[4] = 5
    OBVIOUS
  <2>2. f = 0 \/ f = 1 \/ f = 2 \/ f = 3
    BY <1>8
  <2>3. (0 + 3) % 4 = 3 /\ (1 + 3) % 4 = 0 /\ (2 + 3) % 4 = 1 /\ (3 + 3) % 4 = 2
    BY Z3
  <2> QED  BY <1>8, <1>9, <2>1, <2>2, <2>3
<1>11. Doom(y) = ((t + a) + r) + s
  BY <1>1, <1>3, <1>5, <1>7, <1>9, SMT DEF Doom
<1>12. Doom(y) \in Nat
  BY <1>4, <1>6, <1>10, <1>11, SMT
<1>13. Doomsday(y) = Doom(y) % 7
  BY SMT DEF Doomsday, Doom
<1>14. PICK v \in Int : v = q \div 4 /\ v = 3 * a + s
  BY <1>4, <1>6, Z3
<1>15. GregorianLeapDays(y) = ((25 * c + v) - c) + e
  <2>1. GregorianLeapDays(100 * c + q) = ((25 * c + v) - c) + e
    BY <1>2, <1>7, <1>14, LeapDaysFrom
  <2> QED  BY <1>2, <2>1
<1>16. \E k \in Int : 365 * y + (((25 * c + v) - c) + e) = (7 * k + (((t + a) + r) + s)) - 2
  <2>0. PICK x \in Int, w \in Int : /\ x = 365 * y + (((25 * c + v) - c) + e)
                                     /\ w = ((t + a) + r) + s
    OBVIOUS
  <2> SUFFICES \E k \in Int : x = (7 * k + w) - 2
    BY <2>0
  <2>1. CASE f = 0
    <3>1. PICK k \in Int : k = (((20871 * e + 15653) + 52 * q) + (2 * a))
      OBVIOUS
    <3>2. x = (7 * k + w) - 2
      BY <1>2, <1>4, <1>10, <1>14, <2>1, <2>0, <3>1, Z3
    <3> QED  BY <3>2
  <2>2. CASE f = 1
    <3>1. PICK k \in Int : k = ((20871 * e + 52 * q) + (2 * a))
      OBVIOUS
    <3>2. x = (7 * k + w) - 2
      BY <1>2, <1>4, <1>10, <1>14, <2>2, <2>0, <3>1, Z3
    <3> QED  BY <3>2
  <2>3. CASE f = 2
    <3>1. PICK k \in Int : k = (((20871 * e + 5218) + 52 * q) + (2 * a))
      OBVIOUS
    <3>2. x = (7 * k + w) - 2
      BY <1>2, <1>4, <1>10, <1>14, <2>3, <2>0, <3>1, Z3
    <3> QED  BY <3>2
  <2>4. CASE f = 3
    <3>1. PICK k \in Int : k = (((20871 * e + 10435) + 52 * q) + (2 * a))
      OBVIOUS
    <3>2. x = (7 * k + w) - 2
      BY <1>2, <1>4, <1>10, <1>14, <2>4, <2>0, <3>1, Z3
    <3> QED  BY <3>2
  <2> QED  BY <1>10, <2>1, <2>2, <2>3, <2>4
<1> QED  BY <1>11, <1>12, <1>13, <1>15, <1>16

\* The day of a month that falls on the doomsday of its year.
KnownDay(leap, m) ==
  IF leap THEN <<4, 1, 0, 4, 9, 6, 11, 8, 5, 10, 7, 12>>[m]
  ELSE <<3, 0, 0, 4, 9, 6, 11, 8, 5, 10, 7, 12>>[m]

LEMMA ConcatAt ==
  ASSUME NEW s \in Seq(Int), NEW t \in Seq(Int), NEW i \in 1 .. Len(s) + Len(t)
  PROVE  (s \o t)[i] = IF i <= Len(s) THEN s[i] ELSE t[i - Len(s)]
OBVIOUS

LEMMA SevenAdds ==
  ASSUME NEW a \in Int, NEW b \in Int, NEW k \in Int, NEW j \in Int, j = (7 * k + a) + b
  PROVE  ((a % 7) + (b % 7)) % 7 = j % 7
BY Z3

\* set_dow names the weekday of a date, when what it keeps is of the date's year.
LEMMA WeekdayIs ==
  ASSUME NEW d, IsDay(d), NEW cache, cache.dday = Doomsday(d.year),
         cache.known = IF IsLeap(d.year) THEN <<4, 1>> ELSE <<3, 0>>
  PROVE  /\ SetDow(d, cache) \in 0 .. 6
         /\ SetDow(d, cache) = (d.julian + 1) % 7 \/ (Misjudged(d.year) /\ d.month <= 2)
<1>1. PICK y \in Nat \ {0}, m \in 1 .. 12, a \in Int, julian \in Nat :
        d.year = y /\ d.month = m /\ d.day = a /\ d.julian = julian
  BY DEF IsDay
<1> DEFINE later == <<0, 4, 9, 6, 11, 8, 5, 10, 7, 12>>
           known == cache.known \o later
<1>2. known[m] = KnownDay(IsLeap(y), m)
  <2>1. cache.known \in Seq(Int) /\ Len(cache.known) = 2 /\ later \in Seq(Int) /\ Len(later) = 10
    <3>1. <<4, 1>> \in Seq(Int) /\ <<3, 0>> \in Seq(Int) /\ Len(<<4, 1>>) = 2 /\ Len(<<3, 0>>) = 2
      OBVIOUS
    <3> QED  BY <3>1
  <2>2. m <= 2 => known[m] = cache.known[m]
    <3> HIDE DEF later
    <3> QED  BY <2>1
  <2>3. m > 2 => known[m] = later[m - 2]
    <3> HIDE DEF later
    <3>1. m \in 1 .. Len(cache.known) + Len(later)
      BY <2>1
    <3>2. PICK s \in Seq(Int), t \in Seq(Int) : s = cache.known /\ t = later
      BY <2>1
    <3>3. (s \o t)[m] = IF m <= Len(s) THEN s[m] ELSE t[m - Len(s)]
      BY <3>1, <3>2, ConcatAt
    <3>4. Len(s) = 2 /\ s \o t = known
      BY <2>1, <3>2
    <3>5. m > 2 => (s \o t)[m] = t[m - 2]
      BY <3>3, <3>4
    <3> HIDE DEF known
    <3> QED  BY <3>2, <3>4, <3>5
  <2>4. m = 1 \/ m = 2 \/ m = 3 \/ m = 4 \/ m = 5 \/ m = 6 \/ m = 7 \/ m = 8 \/ m = 9
        \/ m = 10 \/ m = 11 \/ m = 12
    OBVIOUS
  <2> HIDE DEF known
  <2>5. CASE m <= 2
    BY <1>1, <2>2, <2>4, <2>5 DEF KnownDay
  <2>6. CASE m > 2
    <3>1. later[m - 2] = KnownDay(IsLeap(y), m)
      BY <2>4, <2>6 DEF KnownDay
    <3> HIDE DEF later
    <3> QED  BY <2>3, <2>6, <3>1
  <2> QED  BY <2>5, <2>6
<1>3. SetDow(d, cache) = (((a - KnownDay(IsLeap(y), m)) % 7) + Doomsday(y)) % 7
  <2>1. SetDow(d, cache) = (((d.day - known[d.month]) % 7) + cache.dday) % 7
    BY DEF SetDow
  <2> HIDE DEF known
  <2> QED  BY <1>1, <1>2, <2>1
<1> HIDE DEF known, later
<1>4. PICK t \in Nat, k \in Int :
        Doomsday(y) = t % 7 /\ 365 * y + GregorianLeapDays(y) = (7 * k + t) - 2
  BY WeekdayOfYear
<1>5. PICK n \in Int : n = KnownDay(IsLeap(y), m)
  BY DEF KnownDay
<1>6. SetDow(d, cache) = (((a - n) % 7) + (t % 7)) % 7
  BY <1>3, <1>4, <1>5
<1>7. SetDow(d, cache) \in 0 .. 6
  BY <1>6, Z3
<1>8. GregorianLeapDays(y) = GregorianLeapDays(y - 1) + (IF GregorianLeap(y) THEN 1 ELSE 0)
  BY LeapDaysNext
<1>9. PICK g \in Int : g = GregorianLeapDays(y)
  BY DEF GregorianLeapDays
<1>10. julian = ((((365 * y + g) - 365) - (IF GregorianLeap(y) THEN 1 ELSE 0))
                  + (BeforeMonth(m) + LeapDay(y, m))) + a + 1721425
  <2>1. julian = GregorianDay(y, m, a) + 1721425
    BY <1>1, SMT DEF IsDay, Epoch
  <2>2. GregorianLeapDays(y - 1) = g - (IF GregorianLeap(y) THEN 1 ELSE 0)
    <3>1. GregorianLeapDays(y - 1) \in Int
      BY DEF GregorianLeapDays
    <3> QED  BY <1>8, <1>9, <3>1
  <2>3. GregorianDay(y, m, a)
          = ((365 * (y - 1) + GregorianLeapDays(y - 1)) + (BeforeMonth(m) + LeapDay(y, m))) + a
    <3>1. GregorianDay(y, m, a) = ByMonths(y, m, a)
      BY MonthsSummed
    <3> QED  BY <3>1 DEF ByMonths, BeforeYear
  <2>4. BeforeMonth(m) + LeapDay(y, m) \in Int
    BY DEF BeforeMonth, LeapDay
  <2> QED  BY <2>1, <2>2, <2>3, <2>4, SMT
<1>11. 365 * y + g = (7 * k + t) - 2
  BY <1>4, <1>9
<1>12. m = 1 \/ m = 2 \/ m = 3 \/ m = 4 \/ m = 5 \/ m = 6 \/ m = 7 \/ m = 8 \/ m = 9
       \/ m = 10 \/ m = 11 \/ m = 12
  OBVIOUS
<1>13. CASE Misjudged(y) /\ m <= 2
  BY <1>1, <1>7, <1>13
<1>14. CASE ~ (Misjudged(y) /\ m <= 2)
  <2>1. \E h \in Int : julian + 1 = (7 * h + (a - n)) + t
    <3>1. PICK x \in Int : x = 365 * y + g
      OBVIOUS
    <3>2. m <= 2 => (IsLeap(y) <=> GregorianLeap(y))
      BY <1>14 DEF Misjudged, IsLeap, GregorianLeap
    <3>3. PICK q \in Int :
            (BeforeMonth(m) + LeapDay(y, m)) - (IF GregorianLeap(y) THEN 1 ELSE 0) = (7 * q - n) + 3
      <4>1. PICK q \in Int : q = <<0, 4, 8, 13, 18, 22, 27, 31, 35, 40, 44, 49>>[m]
        BY <1>12
      <4>2. m <= 2 => (BeforeMonth(m) + LeapDay(y, m)) - (IF GregorianLeap(y) THEN 1 ELSE 0) = (7 * q - n) + 3
        <5> DEFINE Off == (BeforeMonth(m) + LeapDay(y, m)) - (IF GregorianLeap(y) THEN 1 ELSE 0)
        <5>1. m = 1 => Off = (7 * 0 - n) + 3
          BY <1>5, <3>2 DEF BeforeMonth, LeapDay, KnownDay
        <5>2. m = 2 => Off = (7 * 4 - n) + 3
          BY <1>5, <3>2 DEF BeforeMonth, LeapDay, KnownDay
        <5>3. (m = 1 => q = 0) /\ (m = 2 => q = 4) /\ (m <= 2 => m = 1 \/ m = 2)
          BY <4>1, <1>12
        <5> HIDE DEF Off
        <5>4. m <= 2 => Off = (7 * q - n) + 3
          BY <5>1, <5>2, <5>3
        <5> QED  BY <5>4 DEF Off
      <4>3. m > 2 => (BeforeMonth(m) + LeapDay(y, m)) - (IF GregorianLeap(y) THEN 1 ELSE 0) = (7 * q - n) + 3
        BY <1>5, <1>12, <4>1 DEF BeforeMonth, LeapDay, KnownDay
      <4> QED  BY <4>2, <4>3
    <3>4. PICK h \in Int : h = (k + q) + 245866
      OBVIOUS
    <3>5. PICK w \in Int, z \in Int :
            w = (IF GregorianLeap(y) THEN 1 ELSE 0) /\ z = BeforeMonth(m) + LeapDay(y, m)
      BY DEF BeforeMonth, LeapDay
    <3>6. z - w = (7 * q - n) + 3 /\ julian = ((((x - 365) - w) + z) + a) + 1721425
      BY <1>10, <3>1, <3>3, <3>5
    <3>7. julian + 1 = (7 * h + (a - n)) + t
      BY <1>11, <3>1, <3>4, <3>6, Z3
    <3> QED  BY <3>7
  <2>2. PICK h \in Int : julian + 1 = (7 * h + (a - n)) + t
    BY <2>1
  <2>3. (((a - n) % 7) + (t % 7)) % 7 = (julian + 1) % 7
    BY <2>2, SevenAdds
  <2> QED  BY <1>1, <1>6, <1>7, <2>3
<1> QED  BY <1>13, <1>14

\* A valid day written down is that day.
LEMMA WrittenIsDay ==
  ASSUME NEW y \in Nat \ {0}, NEW m \in 1 .. 12, NEW d \in 1 .. GregorianMonth(y, m)
  PROVE  IsDay(MkDate(y, m, d)) /\ MkDate(y, m, d).julian > Epoch + 365 * (y - 1)
<1>1. d \in Int /\ d >= 1
  BY DEF GregorianMonth
<1>2. DateToJulian(y, m, d) = GregorianDay(y, m, d) + Epoch
  BY <1>1, DaysAreGregorian
<1>3. GregorianDay(y, m, d)
        = ((365 * (y - 1) + GregorianLeapDays(y - 1)) + (BeforeMonth(m) + LeapDay(y, m))) + d
  <2>1. GregorianDay(y, m, d) = ByMonths(y, m, d)
    BY <1>1, MonthsSummed
  <2> QED  BY <2>1 DEF ByMonths, BeforeYear
<1>4. GregorianLeapDays(y - 1) \in Nat
  <2>1. PICK z \in Nat : z = y - 1
    OBVIOUS
  <2>2. z \div 4 \in Nat /\ z \div 100 \in Nat /\ z \div 400 \in Nat /\ z \div 4 >= z \div 100
    BY Z3
  <2>3. GregorianLeapDays(z) \in Nat
    BY <2>2 DEF GregorianLeapDays
  <2> QED  BY <2>1, <2>3
<1>5. BeforeMonth(m) + LeapDay(y, m) \in Nat
  BY DEF BeforeMonth, LeapDay
<1>6. GregorianDay(y, m, d) \in Int /\ GregorianDay(y, m, d) > 365 * (y - 1)
  BY <1>1, <1>3, <1>4, <1>5
<1>7. PICK julian \in Nat : julian = DateToJulian(y, m, d) /\ julian > Epoch + 365 * (y - 1)
  BY <1>2, <1>6, SMT DEF Epoch
<1>8. IsDay([year |-> y, month |-> m, day |-> d, julian |-> julian])
  BY <1>2, <1>7, DayIs
<1> QED  BY <1>7, <1>8 DEF MkDate

\* The first year ends with day 365.
LEMMA AfterFirstYear ==
  ASSUME NEW d, IsDay(d), d.julian > Epoch + 365
  PROVE  d.year - 1 \in Nat \ {0}
<1> SUFFICES ASSUME d.year = 1 PROVE FALSE
  BY DEF IsDay
<1>1. PICK m \in 1 .. 12, a \in 1 .. 31 :
        d.month = m /\ d.day = a /\ a <= GregorianMonth(1, m) /\ d.julian = GregorianDay(1, m, a) + Epoch
  BY DEF IsDay
<1>2. GregorianDay(1, m, a)
        = ((365 * (1 - 1) + GregorianLeapDays(1 - 1)) + (BeforeMonth(m) + LeapDay(1, m))) + a
  <2>1. 1 \in Nat \ {0} /\ a \in Int
    OBVIOUS
  <2>2. GregorianDay(1, m, a) = ByMonths(1, m, a)
    BY <2>1, MonthsSummed
  <2> QED  BY <2>2 DEF ByMonths, BeforeYear
<1>3. GregorianLeapDays(1 - 1) = 0 /\ ~ GregorianLeap(1)
  BY Z3 DEF GregorianLeapDays, GregorianLeap
<1>4. LeapDay(1, m) = 0
  BY <1>3 DEF LeapDay
<1>5. BeforeMonth(m) + a <= 365
  <2>1. m = 1 \/ m = 2 \/ m = 3 \/ m = 4 \/ m = 5 \/ m = 6 \/ m = 7 \/ m = 8 \/ m = 9
        \/ m = 10 \/ m = 11 \/ m = 12
    OBVIOUS
  <2> QED  BY <1>1, <1>3, <2>1 DEF BeforeMonth, GregorianMonth
<1>6. BeforeMonth(m) \in Nat
  BY DEF BeforeMonth
<1>7. GregorianDay(1, m, a) = BeforeMonth(m) + a
  BY <1>2, <1>3, <1>4, <1>6
<1> QED  BY <1>1, <1>5, <1>6, <1>7, SMT DEF Epoch

LEMMA OperatedDays ==
  ASSUME NEW d, IsDay(d), d.julian > Epoch + 365
  PROVE  IsDay(FirstOfMonth(d)) /\ IsDay(LastOfMonth(d)) /\ IsDay(SameDayLastYear(d))
         /\ IsDay(SameDayLastQuarter(d))
<1>1. PICK y \in Nat \ {0}, m \in 1 .. 12, a \in 1 .. 31, julian \in Nat :
        /\ d.year = y /\ d.month = m /\ d.day = a /\ d.julian = julian
        /\ a <= GregorianMonth(y, m) /\ julian = GregorianDay(y, m, a) + Epoch
  <2>1. d.year \in Nat \ {0} /\ d.month \in 1 .. 12 /\ d.day \in 1 .. 31 /\ d.julian \in Nat
    BY DEF IsDay
  <2>2. d.day \in 1 .. GregorianMonth(d.year, d.month)
        /\ d.julian = GregorianDay(d.year, d.month, d.day) + Epoch
    BY DEF IsDay
  <2>3. d.day <= GregorianMonth(d.year, d.month)
    BY <2>1, <2>2 DEF GregorianMonth
  <2> QED  BY <2>1, <2>2, <2>3
<1>2. y - 1 \in Nat \ {0}
  BY <1>1, AfterFirstYear
<1>3. PICK e \in Nat : e = Epoch
  BY DEF Epoch
<1>4. julian > e + 365
  BY <1>1, <1>3
<1>5. IsDay(FirstOfMonth(d))
  <2>1. (julian - a) + 1 \in Nat /\ (julian - a) + 1 > Epoch
    BY <1>3, <1>4
  <2>2. FirstOfMonth(d) = JulianToDate((julian - a) + 1)
    BY <1>1 DEF FirstOfMonth
  <2> QED  BY <2>1, <2>2, NumberIsDay
<1>6. IsDay(LastOfMonth(d))
  <2>1. DaysBeforeMonth(y, m) \in Nat
    BY DEF DaysBeforeMonth
  <2>2. (julian - a) + DaysBeforeMonth(y, m) \in Nat /\ (julian - a) + DaysBeforeMonth(y, m) > Epoch
    BY <1>3, <1>4, <2>1
  <2>3. LastOfMonth(d) = JulianToDate((julian - a) + DaysBeforeMonth(y, m))
    BY <1>1 DEF LastOfMonth
  <2> QED  BY <2>2, <2>3, NumberIsDay
<1>7. IsDay(SameDayLastYear(d))
  <2>1. CASE IsLeap(y) /\ m = 2 /\ a = 29
    <3>1. 28 \in 1 .. GregorianMonth(y - 1, 2)
      BY DEF GregorianMonth
    <3>2. IsDay(MkDate(y - 1, 2, 28))
      BY <1>2, <3>1, WrittenIsDay
    <3> QED  BY <1>1, <2>1, <3>2 DEF SameDayLastYear
  <2>2. CASE ~ (IsLeap(y) /\ m = 2 /\ a = 29)
    <3>1. GregorianLeap(y) => IsLeap(y)
      <4>1. y % 400 = 0 => (y % 400) % 2 = 0
        BY Z3
      <4> QED  BY <4>1 DEF GregorianLeap, IsLeap
    <3>2. a \in 1 .. GregorianMonth(y - 1, m)
      BY <1>1, <2>2, <3>1 DEF GregorianMonth
    <3>3. IsDay(MkDate(y - 1, m, a))
      BY <1>2, <3>2, WrittenIsDay
    <3> QED  BY <1>1, <2>2, <3>3 DEF SameDayLastYear
  <2> QED  BY <2>1, <2>2
<1>8. IsDay(SameDayLastQuarter(d))
  <2>1. PICK q \in 0 .. 3 : q = (m - 1) \div 3 /\ 3 * q + 1 <= m
    <3>1. (m - 1) \div 3 \in 0 .. 3 /\ 3 * ((m - 1) \div 3) + 1 <= m
      BY Z3
    <3> QED  BY <3>1
  <2>2. PICK start \in Int : start = DateToJulian(y, 3 * q + 1, 1) /\ start <= julian
    <3>1. 3 * q + 1 \in 1 .. 12
      BY <2>1
    <3>2. DateToJulian(y, 3 * q + 1, 1) = GregorianDay(y, 3 * q + 1, 1) + Epoch
      BY <3>1, DaysAreGregorian
    <3>3. PICK c \in Int : c = 365 * (y - 1) + GregorianLeapDays(y - 1)
      BY DEF GregorianLeapDays
    <3>4. GregorianDay(y, 3 * q + 1, 1) = (c + (BeforeMonth(3 * q + 1) + LeapDay(y, 3 * q + 1))) + 1
      <4>1. 1 \in Int
        OBVIOUS
      <4>2. GregorianDay(y, 3 * q + 1, 1) = ByMonths(y, 3 * q + 1, 1)
        BY <3>1, <4>1, MonthsSummed
      <4> QED  BY <3>3, <4>2 DEF ByMonths, BeforeYear
    <3>5. GregorianDay(y, m, a) = (c + (BeforeMonth(m) + LeapDay(y, m))) + a
      <4>1. a \in Int
        OBVIOUS
      <4>2. GregorianDay(y, m, a) = ByMonths(y, m, a)
        BY <4>1, MonthsSummed
      <4> QED  BY <3>3, <4>2 DEF ByMonths, BeforeYear
    <3>6. BeforeMonth(3 * q + 1) + LeapDay(y, 3 * q + 1) <= BeforeMonth(m) + LeapDay(y, m)
      <4>1. m = 1 \/ m = 2 \/ m = 3 \/ m = 4 \/ m = 5 \/ m = 6 \/ m = 7 \/ m = 8 \/ m = 9
            \/ m = 10 \/ m = 11 \/ m = 12
        OBVIOUS
      <4>2. (q = 0 \/ q = 1 \/ q = 2 \/ q = 3) /\ (3 * q + 1 = 1 \/ 3 * q + 1 = 4 \/ 3 * q + 1 = 7 \/ 3 * q + 1 = 10)
        BY <2>1
      <4>3. PICK f \in 1 .. 12 : f = 3 * q + 1 /\ f <= m /\ (f = 1 \/ f = 4 \/ f = 7 \/ f = 10)
        BY <2>1, <3>1, <4>2
      <4>4. BeforeMonth(f) + LeapDay(y, f) <= BeforeMonth(m) + LeapDay(y, m)
        BY <4>1, <4>3 DEF BeforeMonth, LeapDay
      <4> QED  BY <4>3, <4>4
    <3>7. BeforeMonth(3 * q + 1) + LeapDay(y, 3 * q + 1) \in Int /\ BeforeMonth(m) + LeapDay(y, m) \in Int
      BY <3>1 DEF BeforeMonth, LeapDay
    <3> QED  BY <1>1, <1>3, <3>2, <3>4, <3>5, <3>6, <3>7
  <2>3. \A k \in 1 .. 12, z \in Nat \ {0} : DateToJulian(z, k, 1) \in Nat /\ DateToJulian(z, k, 1) > e
    <3> TAKE k \in 1 .. 12, z \in Nat \ {0}
    <3>1. 1 \in 1 .. GregorianMonth(z, k)
      BY DEF GregorianMonth
    <3>2. IsDay(MkDate(z, k, 1)) /\ MkDate(z, k, 1).julian > Epoch + 365 * (z - 1)
      BY <3>1, WrittenIsDay
    <3>3. PICK j \in Nat : j = DateToJulian(z, k, 1) /\ j > e + 365 * (z - 1)
      BY <1>3, <3>2 DEF MkDate, IsDay
    <3> QED  BY <3>3
  <2>4. PICK before \in Nat :
          /\ before = IF q = 0 THEN DateToJulian(y - 1, 10, 1) ELSE DateToJulian(y, 3 * q - 2, 1)
          /\ before > e
    <3>1. q # 0 => 3 * q - 2 \in 1 .. 12
      BY <2>1
    <3> QED  BY <1>2, <2>3, <3>1
  <2>5. (julian - start) + before \in Nat /\ (julian - start) + before > Epoch
    BY <1>3, <2>2, <2>4
  <2>6. SameDayLastQuarter(d) = JulianToDate((julian - start) + before)
    BY <1>1, <2>1, <2>2, <2>4 DEF SameDayLastQuarter
  <2> QED  BY <2>5, <2>6, NumberIsDay
<1> QED  BY <1>5, <1>6, <1>7, <1>8

\* What set_dow keeps is of the year it says, or of none.
CacheOfYear ==
  /\ dowCache \in [lastYear : Int, dday : 0 .. 6, known : {<<3, 0>>, <<4, 1>>}]
  /\ dowCache.lastYear \in Nat \ {0} =>
       /\ dowCache.dday = Doomsday(dowCache.lastYear)
       /\ dowCache.known = IF IsLeap(dowCache.lastYear) THEN <<4, 1>> ELSE <<3, 0>>

WeekdayOfDate ==
  \/ weekday = NoAnswer
  \/ weekday \in 0 .. 6 /\ (weekday = (date.julian + 1) % 7 \/ (Misjudged(date.year) /\ date.month <= 2))

CalendarInv == IsDay(date) /\ CacheOfYear /\ WeekdayOfDate

LEMMA CalendarInitLemma == CalendarInit => CalendarInv
<1> SUFFICES ASSUME CalendarInit PROVE CalendarInv
  OBVIOUS
<1>1. 1 \in 1 .. GregorianMonth(1998, 1)
  BY DEF GregorianMonth
<1>2. IsDay(date)
  BY <1>1, WrittenIsDay, SMT DEF CalendarInit
<1> QED  BY <1>2 DEF CalendarInit, CalendarInv, CacheOfYear, WeekdayOfDate

LEMMA CalendarStepLemma == CalendarInv /\ [CalendarNext]_calendarVars => CalendarInv'
<1> SUFFICES ASSUME CalendarInv, [CalendarNext]_calendarVars PROVE CalendarInv'
  OBVIOUS
<1>1. ASSUME NEW d, IsDay(d), DateBecomes(d) PROVE CalendarInv'
  BY <1>1 DEF CalendarInv, DateBecomes, CacheOfYear, WeekdayOfDate
<1>2. CASE JToDT
  <2>1. PICK julian \in Julians : DateBecomes(JulianToDate(julian))
    BY <1>2 DEF JToDT
  <2>2. julian \in Nat /\ julian > Epoch
    <3>1. julian \in Nat /\ julian > Epoch + 365
      BY CalendarAssumption
    <3> QED  BY <3>1, SMT DEF Epoch
  <2> QED  BY <1>1, <2>1, <2>2, NumberIsDay
<1>3. CASE StrToDT
  <2>1. PICK day \in Days : DateBecomes(MkDate(day[1], day[2], day[3]))
    BY <1>3 DEF StrToDT
  <2>2. /\ day[1] \in Nat \ {0} /\ day[2] \in 1 .. 12 /\ day[3] \in 1 .. 31
        /\ day[3] <= GregorianMonth(day[1], day[2])
    BY CalendarAssumption
  <2>3. day[3] \in 1 .. GregorianMonth(day[1], day[2])
    BY <2>2 DEF GregorianMonth
  <2> QED  BY <1>1, <2>1, <2>2, <2>3, WrittenIsDay
<1>4. CASE DateTOp
  <2>1. PICK d \in {FirstOfMonth(date), LastOfMonth(date), SameDayLastYear(date),
                    SameDayLastQuarter(date)} : DateBecomes(d)
    BY <1>4 DEF DateTOp
  <2>2. IsDay(date) /\ date.julian > Epoch + 365
    BY <1>4, CalendarAssumption DEF CalendarInv, DateTOp
  <2> QED  BY <1>1, <2>1, <2>2, OperatedDays
<1>5. CASE AskDow
  <2>1. IsDay(date) /\ date.year \in Nat \ {0} /\ UNCHANGED date
    BY <1>5 DEF CalendarInv, IsDay, AskDow
  <2>2. /\ dowCache' \in [lastYear : Int, dday : 0 .. 6, known : {<<3, 0>>, <<4, 1>>}]
        /\ dowCache'.lastYear = date.year /\ dowCache'.dday = Doomsday(date.year)
        /\ dowCache'.known = IF IsLeap(date.year) THEN <<4, 1>> ELSE <<3, 0>>
    <3>1. CASE date.year = dowCache.lastYear
      BY <1>5, <2>1, <3>1 DEF CalendarInv, CacheOfYear, AskDow, DowCache
    <3>2. CASE date.year # dowCache.lastYear
      <4>1. Doomsday(date.year) \in 0 .. 6
        <5>1. PICK t \in Nat : Doomsday(date.year) = t % 7
          BY <2>1, WeekdayOfYear
        <5> QED  BY <5>1, Z3
      <4> QED  BY <1>5, <2>1, <3>2, <4>1 DEF AskDow, DowCache
    <3> QED  BY <3>1, <3>2
  <2>3. weekday' = SetDow(date, dowCache')
    BY <1>5 DEF AskDow
  <2>4. /\ weekday' \in 0 .. 6
        /\ weekday' = (date.julian + 1) % 7 \/ (Misjudged(date.year) /\ date.month <= 2)
    BY <2>1, <2>2, <2>3, WeekdayIs
  <2> QED  BY <2>1, <2>2, <2>4 DEF CalendarInv, CacheOfYear, WeekdayOfDate
<1>6. CASE UNCHANGED calendarVars
  BY <1>6 DEF calendarVars, CalendarInv, CacheOfYear, WeekdayOfDate
<1> QED  BY <1>2, <1>3, <1>4, <1>5, <1>6 DEF CalendarNext

\* Types of the calendar's program, whatever days it is called with (date.c).
THEOREM CalendarTypes == CalendarSpec => []CalendarTypeOK
<1>1. CalendarInv => CalendarTypeOK
  BY DEF CalendarInv, CalendarTypeOK, IsDay, CacheOfYear, WeekdayOfDate, NoAnswer
<1> QED  BY CalendarInitLemma, CalendarStepLemma, <1>1, PTL DEF CalendarSpec

\* For every day after the first year, not only those of the runs, jtodt, dttoj
\* and date_t_op agree with the Gregorian calendar, and set_dow names the weekday
\* whatever year it was asked about before, but in the first two months of a
\* century that is no leap year (date.c: jtodt, dttoj, is_leap, set_dow).
THEOREM DatesAreGregorian == CalendarSpec => []CalendarIsGregorian
<1>1. CalendarInv => CalendarIsGregorian
  BY DEF CalendarInv, CalendarIsGregorian, IsDay, WeekdayOfDate
<1> QED  BY CalendarInitLemma, CalendarStepLemma, <1>1, PTL DEF CalendarSpec

-----------------------------------------------------------------------------
(***************************************************************************)
(* Joins.                                                                  *)
(***************************************************************************)
\* The first row of a key that a table counts is in it, and begins the key.
LEMMA FirstInTable ==
  ASSUME NEW rows \in Nat, NEW id \in 1 .. IDCount(rows), NEW n \in Nat
  PROVE  FirstSK(id) \in 1 .. rows /\ SCDKeys(FirstSK(id), n).new
<1>1. PICK g \in Nat, part \in 0 .. 5 : rows = 6 * g + part
  BY TableInGroups
<1>2. id \in Keys /\ id <= IDCount(rows)
  <2>1. IDCount(rows) \in Int
    BY <1>1, CountInGroups
  <2> QED BY <2>1 DEF Keys
<1>3. ASSUME NEW h \in Nat, NEW place \in {1, 2, 4}, 6 * h + place <= rows,
             FirstSK(id) = 6 * h + place
      PROVE  FirstSK(id) \in 1 .. rows /\ SCDKeys(FirstSK(id), n).new
  <2>1. (6 * h + place) % 6 = place /\ 6 * h + place \in 1 .. rows
    BY <1>3
  <2>2. SCDKeys(6 * h + place, n).new <=> (6 * h + place) % 6 \in {1, 2, 4}
    BY DEF SCDKeys
  <2> QED  BY <1>3, <2>1, <2>2
<1>4. ASSUME NEW h \in Nat, id = 3 * h + 1
      PROVE  FirstSK(id) \in 1 .. rows /\ SCDKeys(FirstSK(id), n).new
  <2>1. 6 * h + 1 <= rows
    BY <1>1, <1>2, <1>4, CountInGroups
  <2> QED  BY <1>3, <1>4, <2>1, FirstOfGroup
<1>5. ASSUME NEW h \in Nat, id = 3 * h + 2
      PROVE  FirstSK(id) \in 1 .. rows /\ SCDKeys(FirstSK(id), n).new
  <2>1. 6 * h + 2 <= rows
    BY <1>1, <1>2, <1>5, CountInGroups
  <2> QED  BY <1>3, <1>5, <2>1, FirstOfGroup
<1>6. ASSUME NEW h \in Nat, id = 3 * h + 3
      PROVE  FirstSK(id) \in 1 .. rows /\ SCDKeys(FirstSK(id), n).new
  <2>1. 6 * h + 4 <= rows
    BY <1>1, <1>2, <1>6, CountInGroups
  <2> QED  BY <1>3, <1>6, <2>1, FirstOfGroup
<1> QED  BY <1>2, <1>4, <1>5, <1>6, KeyInGroup

LEMMA CountIsNat == ASSUME NEW rows \in Nat PROVE IDCount(rows) \in Nat
<1>1. PICK g \in Nat, part \in 0 .. 5 : rows = 6 * g + part
  BY TableInGroups
<1> QED  BY <1>1, CountInGroups

\* The days constants.h names.
LEMMA NamedDays ==
  /\ DateMinimum = 2450815 /\ DateMaximum = 2452640 /\ Today = 2452648
  /\ \A year \in YearMinimum .. YearMaximum :
       DateToJulian(year, 1, 1) \in
         {2450815, 2451180, 2451545, 2451911, 2452276}
<1>1. DateMinimum = 2450815
  BY SMT DEF DateMinimum, DateToJulian
<1>2. DateMaximum = 2452640
  BY SMT DEF DateMaximum, DateToJulian
<1>3. Today = 2452648
  BY SMT DEF Today, DateToJulian
<1>4. ASSUME NEW year \in YearMinimum .. YearMaximum
      PROVE  DateToJulian(year, 1, 1) \in {2450815, 2451180, 2451545, 2451911, 2452276}
  <2>1. year \in {1998, 1999, 2000, 2001, 2002}
    BY SMT DEF YearMinimum, YearMaximum
  <2>2. DateToJulian(1998, 1, 1) = 2450815 /\ DateToJulian(1999, 1, 1) = 2451180
    BY SMT DEF DateToJulian
  <2>3. DateToJulian(2000, 1, 1) = 2451545 /\ DateToJulian(2001, 1, 1) = 2451911
    BY SMT DEF DateToJulian
  <2>4. DateToJulian(2002, 1, 1) = 2452276
    BY SMT DEF DateToJulian
  <2> QED  BY <2>1, <2>2, <2>3, <2>4, SMT
<1> QED  BY <1>1, <1>2, <1>3, <1>4

\* A sale is dated within the years of the data, or the two days after them.
LEMMA SalesLand ==
  ASSUME NEW year \in SaleYears, NEW pick \in PickedDays
  PROVE  LET day == DateToJulian(year, 1, 1) + pick IN
         ~(day > Today) /\ day \in DateMinimum + 1 .. DateMaximum + 2
<1>1. pick \in 1 .. 366 /\ year \in YearMinimum .. YearMaximum
  BY JoinsAssumption
<1>2. PICK start \in {2450815, 2451180, 2451545, 2451911, 2452276} :
        DateToJulian(year, 1, 1) = start
  BY <1>1, NamedDays
<1>3. ~(start + pick > 2452648) /\ start + pick \in 2450815 + 1 .. 2452640 + 2
  BY <1>1, SMT
<1> QED  BY <1>2, <1>3, NamedDays, SMT

\* A quotient and a rest make a number.
LEMMA QuotientIs ==
  ASSUME NEW n \in Nat \ {0}, NEW q \in Int, NEW r \in 0 .. n - 1
  PROVE  (n * q + r) \div n = q
BY Z3

\* The page cp_join computes is one of the catalog_page table, in a catalog that
\* starts in the year of the data that the day falls in.
LEMMA PagesLand ==
  ASSUME NEW day \in DataStart .. DateMaximum + 1, NEW type \in 1 .. 3,
         NEW page \in InRange(1, PagesPerCatalog)
  PROVE  LET sk == CatalogPageOn(day, type, page) IN
         /\ sk \in 1 .. CatalogRows
         /\ (CatalogStart(CatalogOfPage(sk)) - DataStart) \div 365
              = Quo(day - DataStart - 1, 365)
<1> DEFINE P == PagesPerCatalog
           offset == day - DataStart - 1
           year == Quo(offset, 365)
           inYear == Rem(offset, 365)
           nth == CASE type = 1 -> IF inYear > 183 THEN 1 ELSE 0
                    [] type = 2 -> Quo(inYear, 91)
                    [] type = 3 -> Quo(inYear, 31)
           sk == CatalogPageOn(day, type, page)
<1>1. P \in Nat /\ P >= 1 /\ 108 * P <= CatalogRows /\ CatalogRows \in Nat
  <2>1. CatalogRows \in Nat /\ CatalogRows >= 108
    BY JoinsAssumption DEF CatalogsPerYear
  <2>2. P = (CatalogRows \div 18) \div 6
    BY DEF PagesPerCatalog, CatalogsPerYear, YearMaximum, YearMinimum
  <2> HIDE DEF P
  <2>3. PICK a \in Int : a = CatalogRows \div 18
    BY <2>1
  <2>4. 18 * a <= CatalogRows /\ a >= 6
    BY <2>1, <2>3
  <2>5. P = a \div 6 /\ 6 * P <= a /\ P >= 1 /\ P \in Int
    BY <2>2, <2>3, <2>4
  <2> QED  BY <2>1, <2>4, <2>5
<1>2. page \in 1 .. P
  BY <1>1 DEF InRange
<1>3. offset \in -1 .. 1825 /\ DataStart = 2450815
  <2>1. DataStart = 2450815 /\ DateMaximum = 2452640
    BY JoinsAssumption, NamedDays
  <2> QED  BY <2>1, SMT
<1> HIDE DEF P, offset
<1>4. year \in 0 .. 5 /\ inYear \in -1 .. 364 /\ (year = 5 => inYear = 0)
  <2>1. CASE offset = -1
    BY <2>1 DEF Quo, Rem
  <2>2. CASE offset # -1
    <3>1. offset \in 0 .. 1825
      BY <1>3, <2>2
    <3>2. PICK y \in Int : y = offset \div 365
      BY <3>1
    <3>3. 365 * y <= offset /\ offset < 365 * y + 365
      BY <3>1, <3>2
    <3>4. year = y /\ inYear = offset - 365 * y
      BY <3>1, <3>2 DEF Quo, Rem
    <3>5. y \in 0 .. 5 /\ offset - 365 * y \in 0 .. 364 /\ (y = 5 => offset - 365 * y = 0)
      BY <3>1, <3>3
    <3> QED  BY <3>4, <3>5
  <2> QED  BY <2>1, <2>2
<1> HIDE DEF year, inYear
<1>5. nth \in 0 .. 11 /\ (year = 5 => nth = 0)
  <2>1. CASE type = 1
    BY <1>4, <2>1
  <2>2. CASE type = 2
    BY <1>4, <2>2 DEF Quo
  <2>3. CASE type = 3
    BY <1>4, <2>3 DEF Quo
  <2> QED  BY <2>1, <2>2, <2>3
<1>6. sk = (year * 18 + nth) * P + page
  BY DEF CatalogPageOn, CatalogsPerYear, year, inYear, offset, P
<1> HIDE DEF nth, sk
<1>7. PICK before \in Int : before = year * 18 + nth /\ before \in 0 .. 90
  BY <1>4, <1>5
<1>8. sk \in 1 .. CatalogRows
  <2>1. PICK m \in Int : m = before * P /\ 0 <= m /\ m <= 90 * P
    <3>1. P \in Int /\ 0 <= before /\ before <= 90 /\ 0 <= P
      BY <1>1, <1>7
    <3>2. before * P \in Int /\ 0 <= before * P /\ before * P <= 90 * P
      BY <3>1, Z3
    <3> QED  BY <3>2
  <2>2. sk = m + page
    BY <1>6, <1>7, <2>1
  <2> QED  BY <1>1, <1>2, <2>1, <2>2
<1>9. CatalogOfPage(sk) = before + 1
  <2>1. PICK m \in Int : m = before * P
    BY <1>1, <1>7
  <2>2. PICK k \in Int : k = page - 1 /\ 0 <= k /\ k < P
    BY <1>1, <1>2
  <2>3. sk - 1 = P * before + k
    BY <1>1, <1>2, <1>6, <1>7, <2>1, <2>2
  <2>4. (P * before + k) \div P = before
    <3>1. P \in Nat \ {0} /\ k \in 0 .. P - 1
      BY <1>1, <2>2
    <3> QED  BY <1>7, <3>1, QuotientIs
  <2> QED  BY <2>3, <2>4 DEF CatalogOfPage, P
<1>10. (CatalogStart(before + 1) - DataStart) \div 365 = year
  <2>1. (before + 1) - 1 = before /\ before % 18 = nth /\ before \div 18 = year
    BY <1>4, <1>5, <1>7
  <2>2. PICK days \in 0 .. 364 :
          CatalogStart(before + 1) = DataStart + days + year * 365
    <3>1. (nth \in 0 .. 1 => nth * 182 \in 0 .. 364) /\ (nth \in 2 .. 5 => (nth - 2) * 91 \in 0 .. 364)
      BY <1>5
    <3>2. ~(nth \in 0 .. 1) /\ ~(nth \in 2 .. 5) => (nth - 6) * 30 \in 0 .. 364
      BY <1>5
    <3>3. CatalogStart(before + 1) =
            DataStart + (CASE nth \in 0 .. 1 -> nth * 182
                           [] nth \in 2 .. 5 -> (nth - 2) * 91
                           [] OTHER -> (nth - 6) * 30) + year * 365
      BY <2>1 DEF CatalogStart, CatalogsPerYear
    <3>4. CASE nth \in 0 .. 1
      BY <3>1, <3>3, <3>4
    <3>5. CASE nth \in 2 .. 5
      <4>1. ~(nth \in 0 .. 1)
        BY <3>5
      <4> QED  BY <3>1, <3>3, <3>5, <4>1
    <3>6. CASE ~(nth \in 0 .. 1) /\ ~(nth \in 2 .. 5)
      BY <3>2, <3>3, <3>6
    <3> QED  BY <3>4, <3>5, <3>6
  <2>3. (DataStart + days + year * 365) - DataStart = days + 365 * year
    BY <1>3, <1>4
  <2>4. (days + 365 * year) \div 365 = year
    BY <1>4
  <2> QED  BY <2>2, <2>3, <2>4
<1> QED  BY <1>8, <1>9, <1>10 DEF sk, year, offset

\* The rows that begin a key are as many as getIDCount says.
LEMMA RowsOfKeys ==
  ASSUME NEW n \in Nat, NEW rows \in Nat
  PROVE  IDCount(rows) = Cardinality({r \in 1 .. rows : SCDKeys(r, n).new})
<1> DEFINE New(k) == {r \in 1 .. k : SCDKeys(r, n).new}
           G == {k \in Nat : IsFiniteSet(New(k)) /\ Cardinality(New(k)) = IDCount(k)}
<1>1. 0 \in G
  <2>1. New(0) = {}
    OBVIOUS
  <2> QED  BY <2>1, FS_EmptySet, KeysCounted
<1>2. ASSUME NEW k \in G PROVE k + 1 \in G
  <2>1. k \in Nat /\ IsFiniteSet(New(k)) /\ Cardinality(New(k)) = IDCount(k) /\ k + 1 \in Nat
    OBVIOUS
  <2>2. IDCount(k + 1) = IDCount(k) + (IF SCDKeys(k + 1, n).new THEN 1 ELSE 0)
    BY <2>1, KeysCounted
  <2>3. \A r : r \in 1 .. k + 1 <=> r \in 1 .. k \/ r = k + 1
    BY <2>1
  <2>4. k + 1 \notin New(k) /\ Cardinality(New(k)) \in Nat
    BY <2>1, FS_CardinalityType
  <2>5. CASE SCDKeys(k + 1, n).new
    <3>1. New(k + 1) = New(k) \cup {k + 1}
      BY <2>3, <2>5
    <3> HIDE DEF New
    <3>2. IsFiniteSet(New(k + 1)) /\ Cardinality(New(k + 1)) = Cardinality(New(k)) + 1
      BY <2>1, <2>4, <3>1, FS_AddElement
    <3> QED  BY <2>1, <2>2, <2>5, <3>2
  <2>6. CASE ~SCDKeys(k + 1, n).new
    <3>1. New(k + 1) = New(k)
      BY <2>3, <2>6
    <3> HIDE DEF New
    <3> QED  BY <2>1, <2>2, <2>4, <2>6, <3>1
  <2> QED  BY <2>5, <2>6
<1> HIDE DEF G
<1>3. G = Nat
  BY <1>1, <1>2, InductionSet DEF G
<1> QED  BY <1>3 DEF G

\* The rows of table t as setSCDKeys makes the first of them.
RowsMade(t, size) == [r \in 1 .. size |-> SCDKeys(r, HistoryTables[t].number)]

HistoryInv ==
  \/ history = [table |-> "none", rows |-> <<>>]
  \/ \E t \in DOMAIN HistoryTables : \E size \in 0 .. HistoryTables[t].rows :
       history = [table |-> t, rows |-> RowsMade(t, size)]

\* What the last join answers, by its kind.
VersionRefers ==
  /\ TableBuilt /\ joined.id \in 1 .. IDCount(TableSize) /\ joined.day \in SaleDays
  /\ joined.row = SCDJoin(joined.id, joined.day, TableSize)
RefreshRefers ==
  /\ TableBuilt /\ joined.id \in 1 .. IDCount(TableSize)
  /\ joined.first = FirstSK(joined.id)
  /\ \E pick \in SKPicks(joined.id) : joined.row = SKFromID(joined.id, pick)
SaleLands == joined.day \in DateMinimum + 1 .. DateMaximum + 2
ReturnLands == joined.day >= joined.of + 2
TimeLands == joined.second \in 0 .. SecondsInDay - 1
PageLands ==
  /\ joined.page \in 1 .. CatalogRows
  /\ (CatalogStart(CatalogOfPage(joined.page)) - DataStart) \div 365
       = Quo(joined.day - DataStart - 1, 365)
CreationLands == joined.day <= DateMinimum

\* A reference is computed for a table that is built.
JoinedInv ==
  /\ joined.kind = "version" => VersionRefers
  /\ joined.kind = "refresh" => RefreshRefers
  /\ joined.kind = "sale" => SaleLands
  /\ joined.kind = "return" => ReturnLands
  /\ joined.kind = "time" => TimeLands
  /\ joined.kind = "page" => PageLands
  /\ joined.kind = "creation" => CreationLands

JoinsInv == HistoryInv /\ JoinedInv

LEMMA RowsAre ==
  ASSUME NEW t \in DOMAIN HistoryTables, NEW size \in Nat
  PROVE  /\ Len(RowsMade(t, size)) = size /\ DOMAIN RowsMade(t, size) = 1 .. size
         /\ Append(RowsMade(t, size), SCDKeys(size + 1, HistoryTables[t].number))
              = RowsMade(t, size + 1)
<1> DEFINE n == HistoryTables[t].number
           S == {SCDKeys(r, n) : r \in Nat}
           s == RowsMade(t, size)
           u == RowsMade(t, size + 1)
<1>1. s \in Seq(S) /\ Len(s) = size /\ \A r \in 1 .. size : s[r] = SCDKeys(r, n)
  BY DEF RowsMade
<1>2. u \in Seq(S) /\ Len(u) = size + 1 /\ \A r \in 1 .. size + 1 : u[r] = SCDKeys(r, n)
  BY DEF RowsMade
<1>3. DOMAIN s = 1 .. size
  BY DEF RowsMade
<1>4. SCDKeys(size + 1, n) \in S
  OBVIOUS
<1> HIDE DEF s, u, S, n
<1>5. /\ Append(s, SCDKeys(size + 1, n)) \in Seq(S)
      /\ Len(Append(s, SCDKeys(size + 1, n))) = size + 1
  BY <1>1, <1>4
<1>6. \A r \in 1 .. size + 1 : Append(s, SCDKeys(size + 1, n))[r] = u[r]
  BY <1>1, <1>2, <1>4
<1>7. Append(s, SCDKeys(size + 1, n)) = u
  BY <1>2, <1>5, <1>6
<1> QED  BY <1>1, <1>3, <1>7 DEF s, u, n

LEMMA JoinsInitInv == JoinsInit => JoinsInv
<1> SUFFICES ASSUME JoinsInit PROVE JoinsInv
  OBVIOUS
<1>1. joined.kind = "nothing"
  BY DEF JoinsInit, Nothing
<1>2. JoinedInv
  BY <1>1 DEF JoinedInv
<1> QED  BY <1>2 DEF JoinsInv, HistoryInv, JoinsInit

\* The parts of the invariant, for a table that gains no row.
LEMMA JoinedKept ==
  ASSUME UNCHANGED joined
  PROVE  /\ SaleLands' = SaleLands /\ ReturnLands' = ReturnLands
         /\ TimeLands' = TimeLands /\ PageLands' = PageLands
         /\ CreationLands' = CreationLands
<1>1. SaleLands' = SaleLands
  BY SMT DEF SaleLands
<1>2. ReturnLands' = ReturnLands
  BY SMT DEF ReturnLands
<1>3. TimeLands' = TimeLands
  BY SMT DEF TimeLands
<1>4. PageLands' = PageLands
  BY SMT DEF PageLands
<1>5. CreationLands' = CreationLands
  BY SMT DEF CreationLands
<1> QED  BY <1>1, <1>2, <1>3, <1>4, <1>5

\* Nothing is added to a table that is built, and a table is built before any of
\* its rows is referred to.
LEMMA TableStep ==
  ASSUME JoinsInv, OpenTable \/ MkVersion PROVE JoinsInv'
<1>1. UNCHANGED joined
  BY DEF OpenTable, MkVersion
<1>2. HistoryInv' /\ ~TableBuilt
  <2>1. CASE OpenTable
    <3>1. PICK t \in DOMAIN HistoryTables : history' = [table |-> t, rows |-> <<>>]
      BY <2>1 DEF OpenTable
    <3>2. RowsMade(t, 0) = <<>> /\ 0 \in 0 .. HistoryTables[t].rows
      BY JoinsAssumption DEF RowsMade
    <3> QED  BY <2>1, <3>1, <3>2 DEF OpenTable, HistoryInv, TableBuilt
  <2>2. CASE MkVersion
    <3>1. PICK t \in DOMAIN HistoryTables : \E size \in 0 .. HistoryTables[t].rows :
            history = [table |-> t, rows |-> RowsMade(t, size)]
      BY <2>2 DEF MkVersion, JoinsInv, HistoryInv
    <3>2. PICK size \in 0 .. HistoryTables[t].rows :
            history = [table |-> t, rows |-> RowsMade(t, size)]
      BY <3>1
    <3>3. size \in Nat /\ HistoryTables[t].rows \in Nat
      BY JoinsAssumption
    <3>4. history.table = t /\ history.rows = RowsMade(t, size) /\ Len(history.rows) = size
      BY <3>2, <3>3, RowsAre
    <3>5. size < HistoryTables[t].rows
      BY <2>2, <3>4 DEF MkVersion, TableSize
    <3>6. history' = [history EXCEPT !.rows = RowsMade(t, size + 1)]
      BY <2>2, <3>3, <3>4, RowsAre DEF MkVersion
    <3>7. history' = [table |-> t, rows |-> RowsMade(t, size + 1)]
      BY <3>2, <3>6
    <3>8. size + 1 \in 0 .. HistoryTables[t].rows
      BY <3>3, <3>5
    <3>9. ~TableBuilt
      BY <3>3, <3>4, <3>5 DEF TableBuilt, TableSize
    <3> QED  BY <3>7, <3>8, <3>9 DEF HistoryInv
  <2> QED  BY <2>1, <2>2
<1>3. JoinedInv'
  <2>1. joined.kind # "version" /\ joined.kind # "refresh"
    BY <1>2 DEF JoinsInv, JoinedInv, VersionRefers, RefreshRefers
  <2> QED  BY <1>1, <2>1, JoinedKept DEF JoinsInv, JoinedInv
<1> QED  BY <1>2, <1>3 DEF JoinsInv

LEMMA SecondOfDay ==
  ASSUME NEW hour \in {0, 8, 23}, NEW secs \in {0, 3599}
  PROVE  hour * 3600 + secs \in 0 .. SecondsInDay - 1
<1>1. PICK h \in Int : h = hour
  BY SMT
<1>2. PICK s \in Int : s = secs
  BY SMT
<1>3. 0 <= h /\ h <= 23
  BY <1>1, SMT
<1>4. 0 <= s /\ s <= 3599
  BY <1>2, SMT
<1>5. PICK x \in Int : x = h * 3600 + s
  BY SMT
<1>6. 0 <= x /\ x <= 86399
  BY <1>3, <1>4, <1>5, Z3
<1>7. x \in 0 .. SecondsInDay - 1
  <2>1. SecondsInDay \in Int /\ x <= SecondsInDay - 1
    BY <1>6, SMT DEF SecondsInDay
  <2> QED  BY <1>6, <2>1
<1> QED  BY <1>1, <1>2, <1>5, <1>7

\* Each join answers a row of its table.
LEMMA JoinStep ==
  ASSUME JoinsInv, FirstJoin \/ JoinReturnDay PROVE JoinsInv'
<1>1. UNCHANGED history
  BY DEF FirstJoin, JoinReturnDay, JoinVersion, JoinRefresh, JoinSaleDay, JoinTime,
         JoinCatalogPage, JoinPageCreation
<1>2. HistoryInv' /\ TableBuilt' = TableBuilt /\ TableSize' = TableSize
  BY <1>1 DEF JoinsInv, HistoryInv, TableBuilt, TableSize
<1>3. CASE JoinVersion
  <2>1. PICK id \in 1 .. IDCount(TableSize), day \in SaleDays :
          joined' = [kind |-> "version", id |-> id, day |-> day,
                     row |-> SCDJoin(id, day, TableSize)]
    BY <1>3 DEF JoinVersion
  <2>2. joined'.kind = "version" /\ VersionRefers'
    <3>1. TableBuilt' /\ TableSize' = TableSize
      BY <1>2, <1>3 DEF JoinVersion
    <3> QED  BY <2>1, <3>1 DEF VersionRefers
  <2> QED  BY <1>2, <2>2 DEF JoinsInv, JoinedInv
<1>4. CASE JoinRefresh
  <2>1. PICK id \in 1 .. IDCount(TableSize) : \E pick \in SKPicks(id) :
          joined' = [kind |-> "refresh", id |-> id, first |-> FirstSK(id),
                     row |-> SKFromID(id, pick)]
    BY <1>4 DEF JoinRefresh
  <2>2. joined'.kind = "refresh" /\ RefreshRefers'
    <3>1. TableBuilt' /\ TableSize' = TableSize
      BY <1>2, <1>4 DEF JoinRefresh
    <3> QED  BY <2>1, <3>1 DEF RefreshRefers
  <2> QED  BY <1>2, <2>2 DEF JoinsInv, JoinedInv
<1>5. CASE JoinSaleDay
  <2>1. PICK year \in SaleYears, pick \in PickedDays :
          LET day == DateToJulian(year, 1, 1) + pick IN
          joined' = [kind |-> "sale", day |-> IF day > Today THEN -1 ELSE day]
    BY <1>5 DEF JoinSaleDay
  <2>2. PICK day : day = DateToJulian(year, 1, 1) + pick
    OBVIOUS
  <2>3. ~(day > Today) /\ day \in DateMinimum + 1 .. DateMaximum + 2
    BY <2>2, SalesLand
  <2>4. joined' = [kind |-> "sale", day |-> day]
    BY <2>1, <2>2, <2>3, SMT
  <2>5. joined'.kind = "sale" /\ SaleLands'
    <3>1. joined'.day \in DateMinimum + 1 .. DateMaximum + 2
      BY <2>3, <2>4
    <3> QED  BY <2>4, <3>1 DEF SaleLands, DateMinimum, DateMaximum
  <2> QED  BY <1>2, <2>5 DEF JoinsInv, JoinedInv
<1>6. CASE JoinReturnDay
  <2>1. PICK t \in DOMAIN ShipDelay :
          \E delay \in InRange(2 * ShipDelay[t][1], 2 * ShipDelay[t][2]) :
            joined' = [kind |-> "return", of |-> joined.day, day |-> joined.day + delay]
    BY <1>6 DEF JoinReturnDay
  <2>2. PICK delay \in InRange(2 * ShipDelay[t][1], 2 * ShipDelay[t][2]) :
          joined' = [kind |-> "return", of |-> joined.day, day |-> joined.day + delay]
    BY <2>1
  <2>3. delay \in Int /\ delay >= 2
    BY DEF InRange, ShipDelay
  <2>4. joined.day \in Int
    <3>1. joined.day \in DateMinimum + 1 .. DateMaximum + 2
      BY <1>6 DEF JoinReturnDay, JoinsInv, JoinedInv, SaleLands
    <3>2. DateMinimum \in Int /\ DateMaximum \in Int
      BY NamedDays, SMT
    <3> QED  BY <3>1, <3>2, SMT
  <2>5. joined'.kind = "return" /\ joined'.day >= joined'.of + 2
    BY <2>2, <2>3, <2>4
  <2> QED  BY <1>2, <2>5 DEF JoinsInv, JoinedInv, ReturnLands
<1>7. CASE JoinTime
  <2>1. PICK hour \in {0, 8, 23}, secs \in {0, 3599} :
          joined' = [kind |-> "time", second |-> hour * 3600 + secs]
    BY <1>7 DEF JoinTime
  <2>2. hour * 3600 + secs \in 0 .. SecondsInDay - 1
    BY SecondOfDay
  <2>3. joined'.kind = "time" /\ TimeLands'
    BY <2>1, <2>2 DEF TimeLands
  <2> QED  BY <1>2, <2>3 DEF JoinsInv, JoinedInv
<1>8. CASE JoinCatalogPage
  <2>1. PICK day \in SaleDays \cap (DataStart .. DateMaximum + 1), type \in 1 .. 3 :
          \E page \in InRange(1, PagesPerCatalog) :
            LET sk == CatalogPageOn(day, type, page) IN
            joined' = [kind |-> "page", day |-> day, page |-> sk,
                       catalog |-> CatalogNumberFromPage(sk)]
    BY <1>8 DEF JoinCatalogPage
  <2>2. PICK page \in InRange(1, PagesPerCatalog) :
          LET sk == CatalogPageOn(day, type, page) IN
          joined' = [kind |-> "page", day |-> day, page |-> sk,
                     catalog |-> CatalogNumberFromPage(sk)]
    BY <2>1
  <2> DEFINE sk == CatalogPageOn(day, type, page)
  <2>3. /\ sk \in 1 .. CatalogRows
        /\ (CatalogStart(CatalogOfPage(sk)) - DataStart) \div 365
             = Quo(day - DataStart - 1, 365)
    BY PagesLand
  <2>4. joined'.kind = "page" /\ joined'.page = sk /\ joined'.day = day
    BY <2>2
  <2> HIDE DEF sk
  <2>5. PageLands'
    BY <2>3, <2>4, SMT DEF PageLands, CatalogStart, CatalogOfPage
  <2> QED  BY <1>2, <2>4, <2>5 DEF JoinsInv, JoinedInv
<1>9. CASE JoinPageCreation
  <2>1. PICK page \in {1, 122, 123, 2000} : \E day \in PageCreated(page) :
          joined' = [kind |-> "creation", day |-> day]
    BY <1>9 DEF JoinPageCreation
  <2>2. PICK day \in PageCreated(page) : joined' = [kind |-> "creation", day |-> day]
    BY <2>1
  <2>3. PICK first : first = Staggered(page \div WebPagesPerSite + 1)
    OBVIOUS
  <2>4. first \in Int /\ first <= DateMinimum
    <3>1. DateMinimum \in Int /\ SiteDuration \in Nat \ {0}
      BY NamedDays, JoinsAssumption, SMT DEF SiteDuration
    <3>2. PICK x \in Int : x = (page \div WebPagesPerSite + 1) * WebDateStagger
      BY DEF WebPagesPerSite, WebDateStagger
    <3>3. PICK rest \in 0 .. SiteDuration - 1 : rest = x % SiteDuration
      BY <3>1, Z3
    <3>4. first = DateMinimum - rest \div 2
      BY <2>3, <3>2, <3>3 DEF Staggered
    <3>5. rest \div 2 \in Nat
      BY <3>1
    <3> QED  BY <3>1, <3>4, <3>5
  <2>5. day <= DateMinimum
    <3>1. DateMinimum \in Int
      BY NamedDays
    <3> QED  BY <2>3, <2>4, <3>1 DEF PageCreated, InRange
  <2>6. joined'.kind = "creation" /\ CreationLands'
    BY <2>2, <2>5 DEF CreationLands
  <2> QED  BY <1>2, <2>6 DEF JoinsInv, JoinedInv
<1> QED
  BY <1>3, <1>4, <1>5, <1>6, <1>7, <1>8, <1>9 DEF FirstJoin

LEMMA VersionIsNat ==
  ASSUME NEW id \in Keys, NEW day \in Int
  PROVE  VersionOn(id, day) \in Nat
<1>1. ASSUME NEW g \in Nat, id = 3 * g + 1 PROVE VersionOn(id, day) \in Nat
  BY <1>1, VersionInGroup
<1>2. ASSUME NEW g \in Nat, id = 3 * g + 2 PROVE VersionOn(id, day) \in Nat
  BY <1>2, VersionInGroup, ChangesInOrder
<1>3. ASSUME NEW g \in Nat, id = 3 * g + 3 PROVE VersionOn(id, day) \in Nat
  <2>1. VersionOn(id, day) \in {6 * g + 4, 6 * g + 5, 6 * g + 6}
    BY <1>3, VersionInGroup, ChangesInOrder
  <2> QED  BY <2>1
<1> QED  BY <1>1, <1>2, <1>3, KeyInGroup

LEMMA PickIsRow ==
  ASSUME NEW id \in Keys, NEW pick \in SKPicks(id)
  PROVE  SKFromID(id, pick) \in Keys
<1>1. ASSUME NEW g \in Nat, id = 3 * g + 1 PROVE SKFromID(id, pick) \in Keys
  <2>1. SKFromID(id, pick) = 6 * g + 1
    BY <1>1, KeyOfGroup DEF SKFromID
  <2> QED  BY <2>1 DEF Keys
<1>2. ASSUME NEW g \in Nat, id = 3 * g + 2 PROVE SKFromID(id, pick) \in Keys
  <2>1. pick \in 2 .. 3
    BY <1>2, KeyOfGroup DEF SKPicks
  <2>2. SKFromID(id, pick) = 6 * g + pick
    BY <1>2, <2>1, KeyOfGroup DEF SKFromID
  <2> QED  BY <2>1, <2>2 DEF Keys
<1>3. ASSUME NEW g \in Nat, id = 3 * g + 3 PROVE SKFromID(id, pick) \in Keys
  <2>1. pick \in 4 .. 6
    BY <1>3, KeyOfGroup DEF SKPicks
  <2>2. SKFromID(id, pick) = 6 * g + pick
    BY <1>3, <2>1, KeyOfGroup DEF SKFromID
  <2> QED  BY <2>1, <2>2 DEF Keys
<1> QED  BY <1>1, <1>2, <1>3, KeyInGroup

\* The first rows of keys grow with the rows.
LEMMA KeyRowGrows ==
  ASSUME NEW a \in Keys, NEW b \in Keys, a <= b
  PROVE  KeyRow(a) <= KeyRow(b)
<1>1. \A c \in Keys : \E g \in Nat, place \in 1 .. 6 : c = 6 * g + place
  <2> SUFFICES ASSUME NEW c \in Keys PROVE \E g \in Nat, place \in 1 .. 6 : c = 6 * g + place
    OBVIOUS
  <2>1. c - 1 \in Nat
    BY DEF Keys
  <2>2. PICK g \in Nat, part \in 0 .. 5 : c - 1 = 6 * g + part
    BY <2>1, TableInGroups
  <2>3. part + 1 \in 1 .. 6 /\ c = 6 * g + (part + 1)
    BY <2>2 DEF Keys
  <2> QED  BY <2>3
<1>2. PICK g \in Nat, p \in 1 .. 6 : a = 6 * g + p
  BY <1>1
<1>3. PICK h \in Nat, q \in 1 .. 6 : b = 6 * h + q
  BY <1>1
<1>4. ASSUME NEW k \in Nat
      PROVE  /\ KeyRow(6 * k + 1) = 6 * k + 1
             /\ KeyRow(6 * k + 2) = 6 * k + 2 /\ KeyRow(6 * k + 3) = 6 * k + 2
             /\ KeyRow(6 * k + 4) = 6 * k + 4 /\ KeyRow(6 * k + 5) = 6 * k + 4
             /\ KeyRow(6 * k + 6) = 6 * k + 4
  BY KeyRowInGroup
<1>5. g < h \/ (g = h /\ p <= q)
  BY <1>2, <1>3
<1>6. /\ p = 1 \/ p = 2 \/ p = 3 \/ p = 4 \/ p = 5 \/ p = 6
      /\ q = 1 \/ q = 2 \/ q = 3 \/ q = 4 \/ q = 5 \/ q = 6
  OBVIOUS
<1>7. KeyRow(a) \in {6 * g + 1, 6 * g + 2, 6 * g + 4} /\ KeyRow(a) <= a
  BY <1>2, <1>4, <1>6
<1>8. KeyRow(b) \in {6 * h + 1, 6 * h + 2, 6 * h + 4}
  BY <1>3, <1>4, <1>6
<1>9. CASE g < h
  BY <1>7, <1>8, <1>9
<1>10. CASE g = h /\ p <= q
  BY <1>2, <1>3, <1>4, <1>6, <1>10
<1> QED  BY <1>5, <1>9, <1>10

\* A version beyond the end of the table is of the key the end cuts.
LEMMA BeyondIsCut ==
  ASSUME NEW rows \in Nat, NEW id \in 1 .. IDCount(rows), NEW row \in Nat,
         row > rows, KeyRow(row) = FirstSK(id)
  PROVE  KeyRow(rows + 1) = FirstSK(id)
<1>1. FirstSK(id) \in 1 .. rows /\ SCDKeys(FirstSK(id), 0).new
  BY FirstInTable
<1>2. KeyRow(FirstSK(id)) = FirstSK(id)
  BY <1>1 DEF SCDKeys, KeyRow
<1>3. FirstSK(id) \in Keys /\ rows + 1 \in Keys /\ row \in Keys
  BY <1>1 DEF Keys
<1>4. FirstSK(id) <= KeyRow(rows + 1) /\ KeyRow(rows + 1) <= FirstSK(id)
  <2>1. FirstSK(id) <= rows + 1 /\ rows + 1 <= row
    BY <1>1
  <2>2. KeyRow(FirstSK(id)) <= KeyRow(rows + 1) /\ KeyRow(rows + 1) <= KeyRow(row)
    BY <1>3, <2>1, KeyRowGrows
  <2> QED  BY <1>2, <2>2
<1>5. KeyRow(rows + 1) \in Int
  BY DEF KeyRow
<1> QED  BY <1>1, <1>4, <1>5

\* A reference to a table that is built is to the version meant.
LEMMA JoinedIsCurrent == JoinsInv => JoinedVersionIsCurrent
<1> SUFFICES ASSUME JoinsInv, TableBuilt PROVE JoinedVersionIsCurrent
  BY DEF JoinedVersionIsCurrent
<1>1. PICK t \in DOMAIN HistoryTables : \E size \in 0 .. HistoryTables[t].rows :
        history = [table |-> t, rows |-> RowsMade(t, size)]
  BY DEF TableBuilt, JoinsInv, HistoryInv
<1>2. PICK n \in Nat, rows \in Nat : n = HistoryTables[t].number /\ rows = HistoryTables[t].rows
  BY JoinsAssumption
<1>3. /\ history.table = t /\ TableSize = rows /\ Shift = 6 * n
      /\ history.rows = RowsMade(t, rows)
  <2>1. PICK size \in 0 .. rows : history = [table |-> t, rows |-> RowsMade(t, size)]
    BY <1>1, <1>2
  <2>2. Len(RowsMade(t, size)) = size
    BY <2>1, RowsAre
  <2>3. size = rows
    BY <1>2, <2>1, <2>2 DEF TableBuilt, TableSize
  <2> QED  BY <1>2, <2>1, <2>3 DEF TableSize, Shift
<1>4. DOMAIN history.rows = 1 .. rows /\ \A r \in 1 .. rows : history.rows[r] = SCDKeys(r, n)
  BY <1>2, <1>3, RowsAre DEF RowsMade
<1>5. IDCount(rows) = Cardinality({r \in DOMAIN history.rows : history.rows[r].new})
  <2>1. {r \in DOMAIN history.rows : history.rows[r].new} = {r \in 1 .. rows : SCDKeys(r, n).new}
    BY <1>4
  <2> QED  BY <2>1, RowsOfKeys
<1>6. ASSUME joined.kind = "version"
      PROVE  IF joined.day > DataEnd THEN joined.row = -1
             ELSE /\ joined.row \in DOMAIN history.rows
                  /\ history.rows[joined.row].key = FirstSK(joined.id)
                  /\ \/ CurrentOn(history.rows[joined.row], joined.day - Shift)
                     \/ joined.row = TableSize /\ CutsKey(FirstSK(joined.id))
  <2>1. PICK id \in 1 .. IDCount(rows), day \in SaleDays :
          id = joined.id /\ day = joined.day /\ joined.row = SCDJoin(id, day, rows)
    BY <1>3, <1>6 DEF JoinsInv, JoinedInv, VersionRefers
  <2>2. CASE day > DataEnd
    BY <2>1, <2>2 DEF SCDJoin
  <2>3. CASE ~(day > DataEnd)
    <3>1. joined.row = MatchSCDSK(id, day, rows) /\ day \in Int /\ DataStart <= day
      BY <2>1, <2>3, JoinsAssumption DEF SCDJoin
    <3>2. joined.row \in 1 .. rows /\ KeyRow(joined.row) = FirstSK(id)
      BY <3>1, ReferenceInTable
    <3>3. history.rows[joined.row] = SCDKeys(joined.row, n)
      BY <1>4, <3>2
    <3>4. CASE VersionOn(id, day) > rows
      <4>1. joined.row = TableSize
        BY <1>3, <3>1, <3>4 DEF MatchSCDSK
      <4>2. VersionOn(id, day) \in Nat /\ KeyRow(VersionOn(id, day)) = FirstSK(id)
        <5>1. id \in Keys
          BY <1>3, CountIsNat DEF Keys
        <5> QED  BY <3>1, <5>1, ReferenceKeepsKey, VersionIsNat
      <4>3. CutsKey(FirstSK(joined.id))
        BY <1>3, <2>1, <3>4, <4>2, BeyondIsCut DEF CutsKey
      <4> QED  BY <1>4, <2>1, <2>3, <3>2, <3>3, <4>1, <4>3 DEF SCDKeys
    <3>5. CASE ~(VersionOn(id, day) > rows)
      <4>1. joined.row = VersionOn(id, day)
        BY <3>1, <3>5 DEF MatchSCDSK
      <4>2. id \in Keys
        BY <1>3, CountIsNat DEF Keys
      <4>3. CurrentOn(history.rows[joined.row], day - Shift)
        BY <1>3, <3>1, <3>3, <4>1, <4>2, ReferenceIsCurrent DEF CurrentOn, SCDKeys
      <4> QED  BY <1>4, <2>1, <2>3, <3>2, <3>3, <4>3 DEF SCDKeys
    <3> QED  BY <3>4, <3>5
  <2> QED  BY <2>2, <2>3
<1>7. ASSUME joined.kind = "refresh"
      PROVE  /\ history.rows[joined.first].new
             /\ KeyRow(joined.row) = joined.first
             /\ joined.row \in DOMAIN history.rows \/ CutsKey(joined.first)
  <2>1. PICK id \in 1 .. IDCount(rows) :
          /\ joined.first = FirstSK(id)
          /\ \E pick \in SKPicks(id) : joined.row = SKFromID(id, pick)
    BY <1>3, <1>7 DEF JoinsInv, JoinedInv, RefreshRefers
  <2>2. FirstSK(id) \in 1 .. rows /\ SCDKeys(FirstSK(id), n).new
    BY FirstInTable
  <2>3. id \in Keys
    BY <1>3, CountIsNat DEF Keys
  <2>4. joined.row \in Keys /\ KeyRow(joined.row) = FirstSK(id)
    BY <2>1, <2>3, PickKeepsKey, PickIsRow
  <2>5. joined.row > rows => CutsKey(FirstSK(id))
    BY <1>3, <2>4, BeyondIsCut DEF CutsKey, Keys
  <2>6. joined.row \in 1 .. rows \/ joined.row > rows
    BY <2>4 DEF Keys
  <2> QED  BY <1>4, <2>1, <2>2, <2>4, <2>5, <2>6
<1> QED  BY <1>3, <1>5, <1>6, <1>7 DEF JoinedVersionIsCurrent

\* For every table that keeps history, every day asked about and every number
\* drawn: a fact refers to a row of its table, of the key meant, and current on the
\* day but for the days by which the table's dates are moved, or to the last row
\* where the table cuts the key; a refresh row refers to a version of the key
\* meant, which the table has unless it cuts that key (scd.c); and what join.c
\* computes is in the years, the catalog and the days it should be in.
THEOREM JoinsMatch == JoinsSpec => []JoinsMatchTables
<1>1. JoinsInv /\ [JoinsNext]_joinVars => JoinsInv'
  <2>1. JoinsInv /\ UNCHANGED joinVars => JoinsInv'
    <3> SUFFICES ASSUME JoinsInv, UNCHANGED joinVars PROVE JoinsInv'
      OBVIOUS
    <3>1. UNCHANGED joined /\ UNCHANGED history
      BY DEF joinVars
    <3>2. VersionRefers' = VersionRefers /\ RefreshRefers' = RefreshRefers
      BY <3>1 DEF VersionRefers, RefreshRefers, TableBuilt, TableSize
    <3> QED  BY <3>1, <3>2, JoinedKept DEF JoinsInv, HistoryInv, JoinedInv
  <2> QED  BY <2>1, TableStep, JoinStep DEF JoinsNext
<1>2. JoinsInv => JoinsMatchTables
  <2>1. JoinsInv => JoinsLandInTables
    <3> SUFFICES ASSUME JoinsInv PROVE JoinsLandInTables
      OBVIOUS
    <3>1. joined.kind = "sale" => joined.day \in DateMinimum + 1 .. DateMaximum + 2
      BY SMT DEF JoinsInv, JoinedInv, SaleLands
    <3>2. joined.kind = "return" => joined.day >= joined.of + 2
      BY SMT DEF JoinsInv, JoinedInv, ReturnLands
    <3>3. joined.kind = "time" => joined.second \in 0 .. SecondsInDay - 1
      BY SMT DEF JoinsInv, JoinedInv, TimeLands
    <3>4. joined.kind = "page" =>
            /\ joined.page \in 1 .. CatalogRows
            /\ (CatalogStart(CatalogOfPage(joined.page)) - DataStart) \div 365
                 = Quo(joined.day - DataStart - 1, 365)
      BY SMT DEF JoinsInv, JoinedInv, PageLands
    <3>5. joined.kind = "creation" => joined.day <= DateMinimum
      BY SMT DEF JoinsInv, JoinedInv, CreationLands
    <3> QED  BY <3>1, <3>2, <3>3, <3>4, <3>5, SMT DEF JoinsLandInTables
  <2> QED  BY <2>1, JoinedIsCurrent DEF JoinsMatchTables
<1> QED  BY JoinsInitInv, <1>1, <1>2, PTL DEF JoinsSpec
-----------------------------------------------------------------------------
(***************************************************************************)
(* Update sets: a year by the days before it, a day by its number in it,   *)
(* then the days and Thursdays of a season by their numbers, and last the  *)
(* rows of a refresh table by its running totals.                          *)
(***************************************************************************)
\* A year by the days before it and its length.
YearBegin(y) == BeforeYear(y) + Epoch
LeapOf(y) == IF GregorianLeap(y) THEN 1 ELSE 0
YearLength(y) == 365 + LeapOf(y)

\* Years are apart by at least their length.
LEMMA LeapDaysGrow ==
  ASSUME NEW a \in Nat, NEW b \in Nat, a <= b
  PROVE  GregorianLeapDays(a) <= GregorianLeapDays(b) /\ GregorianLeapDays(a) \in Nat
<1>1. PICK c \in Nat, i \in 0 .. 99 : a = 100 * c + i
  <2>1. a \div 100 \in Nat /\ a % 100 \in 0 .. 99 /\ a = (100 * (a \div 100)) + (a % 100)
    BY Z3
  <2> QED  BY <2>1
<1>2. PICK e \in Nat, j \in 0 .. 99 : b = 100 * e + j
  <2>1. b \div 100 \in Nat /\ b % 100 \in 0 .. 99 /\ b = (100 * (b \div 100)) + (b % 100)
    BY Z3
  <2> QED  BY <2>1
<1>3. PICK u \in Nat, v \in Nat : u = i \div 4 /\ v = j \div 4 /\ u <= 24 /\ v <= 24
  <2>1. i \div 4 \in Nat /\ j \div 4 \in Nat /\ i \div 4 <= 24 /\ j \div 4 <= 24
    BY Z3
  <2> QED  BY <2>1
<1>4. PICK g \in Nat, h \in Nat : g = c \div 4 /\ h = e \div 4
  <2>1. c \div 4 \in Nat /\ e \div 4 \in Nat
    BY Z3
  <2> QED  BY <2>1
<1>5. /\ GregorianLeapDays(a) = ((25 * c + u) - c) + g
      /\ GregorianLeapDays(b) = ((25 * e + v) - e) + h
  <2>1. c \in Int /\ e \in Int /\ i \in Int /\ j \in Int /\ u \in Int /\ v \in Int /\ g \in Int
        /\ h \in Int /\ 0 <= i /\ i <= 99 /\ 0 <= j /\ j <= 99
    OBVIOUS
  <2> QED  BY <1>1, <1>2, <1>3, <1>4, <2>1, LeapDaysFrom
<1>6. c <= e /\ g <= h /\ (c = e => u <= v /\ g = h)
  <2>1. c <= e /\ (c = e => i <= j)
    BY <1>1, <1>2
  <2>2. g <= h
    BY <1>4, <2>1, Z3
  <2>3. c = e => u <= v /\ g = h
    BY <1>3, <1>4, <2>1, Z3
  <2> QED  BY <2>1, <2>2, <2>3
<1> QED  BY <1>3, <1>5, <1>6

LEMMA YearsFollow ==
  ASSUME NEW y \in Nat \ {0}
  PROVE  YearBegin(y + 1) = YearBegin(y) + YearLength(y) /\ YearBegin(y) \in Nat /\ YearBegin(y) >= Epoch
<1>1. GregorianLeapDays(y) = GregorianLeapDays(y - 1) + LeapOf(y)
  BY LeapDaysNext DEF LeapOf
<1>2. GregorianLeapDays(y - 1) \in Nat
  BY LeapDaysGrow
<1>3. LeapOf(y) \in {0, 1} /\ (y + 1) - 1 = y
  BY DEF LeapOf
<1>4. Epoch \in Nat
  BY SMT DEF Epoch
<1> QED  BY <1>1, <1>2, <1>3, <1>4 DEF YearBegin, BeforeYear, YearLength

LEMMA YearsApart ==
  ASSUME NEW y \in Nat \ {0}, NEW z \in Nat \ {0}, y < z
  PROVE  YearBegin(y) + YearLength(y) <= YearBegin(z)
<1>1. y + 1 \in Nat \ {0} /\ y + 1 <= z
  OBVIOUS
<1>2. GregorianLeapDays(y) <= GregorianLeapDays(z - 1) /\ GregorianLeapDays(y) \in Nat
      /\ GregorianLeapDays(z - 1) \in Nat
  <2>1. y \in Nat /\ z - 1 \in Nat /\ y <= z - 1
    OBVIOUS
  <2> QED  BY <2>1, LeapDaysGrow
<1>3. YearBegin(y + 1) <= YearBegin(z)
  <2>1. (y + 1) - 1 = y /\ Epoch \in Nat /\ 365 * y <= 365 * (z - 1)
    BY SMT DEF Epoch
  <2> QED  BY <1>2, <2>1 DEF YearBegin, BeforeYear
<1> QED  BY <1>3, YearsFollow

\* A day by its year and its number n there.
DayOfYear(d, y, n) ==
  /\ d.year = y
  /\ n = (BeforeMonth(d.month) + LeapDay(y, d.month)) + d.day
  /\ n \in 1 .. YearLength(y)

LEMMA DayHasNumber ==
  ASSUME NEW d, IsDay(d)
  PROVE  \E y \in Nat \ {0} : \E n \in Nat : DayOfYear(d, y, n) /\ d.julian = YearBegin(y) + n
<1>1. PICK y \in Nat \ {0}, m \in 1 .. 12, a \in 1 .. 31 :
        /\ d.year = y /\ d.month = m /\ d.day = a /\ a <= GregorianMonth(y, m)
        /\ d.julian = GregorianDay(y, m, a) + Epoch
  <2>1. d.year \in Nat \ {0} /\ d.month \in 1 .. 12 /\ d.day \in 1 .. 31
    BY DEF IsDay
  <2>2. d.day \in 1 .. GregorianMonth(d.year, d.month)
        /\ d.julian = GregorianDay(d.year, d.month, d.day) + Epoch
    BY DEF IsDay
  <2>3. d.day <= GregorianMonth(d.year, d.month)
    BY <2>1, <2>2 DEF GregorianMonth
  <2> QED  BY <2>1, <2>2, <2>3
<1>2. GregorianDay(y, m, a) = (BeforeYear(y) + (BeforeMonth(m) + LeapDay(y, m))) + a
  <2>1. a \in Int
    OBVIOUS
  <2> QED  BY <2>1, MonthsSummed DEF ByMonths
<1>3. PICK n \in 1 .. YearLength(y) : n = (BeforeMonth(m) + LeapDay(y, m)) + a
  <2>1. m = 1 \/ m = 2 \/ m = 3 \/ m = 4 \/ m = 5 \/ m = 6 \/ m = 7 \/ m = 8 \/ m = 9
        \/ m = 10 \/ m = 11 \/ m = 12
    OBVIOUS
  <2>2. (BeforeMonth(m) + LeapDay(y, m)) + a \in 1 .. YearLength(y)
    BY <1>1, <2>1 DEF BeforeMonth, LeapDay, GregorianMonth, YearLength, LeapOf
  <2> QED  BY <2>2
<1>4. BeforeYear(y) \in Int /\ BeforeMonth(m) + LeapDay(y, m) \in Int /\ Epoch \in Int
  <2>1. BeforeYear(y) \in Int
    <3>1. GregorianLeapDays(y - 1) \in Nat
      BY LeapDaysGrow
    <3> QED  BY <3>1 DEF BeforeYear
  <2>2. BeforeMonth(m) + LeapDay(y, m) \in Int
    BY DEF BeforeMonth, LeapDay
  <2> QED  BY <2>1, <2>2, SMT DEF Epoch
<1>5. d.julian = YearBegin(y) + n
  BY <1>1, <1>2, <1>3, <1>4 DEF YearBegin
<1> QED  BY <1>1, <1>3, <1>5 DEF DayOfYear

\* jtodt finds the year and the number.
LEMMA DayInYear ==
  ASSUME NEW y \in Nat \ {0}, NEW n \in 1 .. YearLength(y), NEW julian, julian = YearBegin(y) + n
  PROVE  /\ julian \in Nat /\ IsDay(JulianToDate(julian))
         /\ JulianToDate(julian).julian = julian /\ DayOfYear(JulianToDate(julian), y, n)
<1>1. YearLength(y) \in Nat /\ n \in Nat /\ n >= 1
  BY DEF YearLength, LeapOf
<1>2. julian \in Nat /\ julian > Epoch
  <2>1. Epoch \in Nat
    BY SMT DEF Epoch
  <2> QED  BY <1>1, <2>1, YearsFollow
<1>3. PICK d : d = JulianToDate(julian) /\ IsDay(d) /\ d.julian = julian
  BY <1>2, NumberIsDay
<1>4. PICK z \in Nat \ {0}, k \in Nat : DayOfYear(d, z, k) /\ julian = YearBegin(z) + k
  BY <1>3, DayHasNumber
<1>5. k \in 1 .. YearLength(z) /\ YearLength(z) \in Nat
  BY <1>4 DEF DayOfYear, YearLength, LeapOf
<1>6. YearBegin(y) \in Nat /\ YearBegin(z) \in Nat
  BY YearsFollow
<1>7. z = y
  <2>1. ~ (z < y)
    BY <1>1, <1>4, <1>5, <1>6, YearsApart
  <2>2. ~ (y < z)
    BY <1>1, <1>4, <1>5, <1>6, YearsApart
  <2> QED  BY <2>1, <2>2
<1>8. k = n
  BY <1>1, <1>4, <1>6, <1>7
<1> QED  BY <1>2, <1>3, <1>4, <1>7, <1>8

\* A day's place in the calendar of the season, by its number n in year y.
SeasonOfNumber(y, n) ==
  IF n <= 212 + LeapOf(y) THEN 1 ELSE IF n <= 304 + LeapOf(y) THEN 2 ELSE 3

LEMMA JudgedLeap ==
  ASSUME NEW y \in Nat
  PROVE  GregorianLeap(y) => IsLeap(y)
<1>1. y % 400 = 0 => (y % 400) % 2 = 0
  BY Z3
<1> QED  BY <1>1 DEF GregorianLeap, IsLeap

LEMMA MisjudgedIs ==
  ASSUME NEW y \in Nat
  PROVE  Misjudged(y) <=> IsLeap(y) /\ ~ GregorianLeap(y)
<1>1. IsLeap(y) \in BOOLEAN /\ GregorianLeap(y) \in BOOLEAN
  BY DEF IsLeap, GregorianLeap
<1> QED  BY <1>1, JudgedLeap, Zenon DEF Misjudged

\* A month by the first and the last number of its days.
LEMMA NumberInMonth ==
  ASSUME NEW y \in Nat \ {0}, NEW m \in 1 .. 12, NEW a \in 1 .. GregorianMonth(y, m),
         NEW n \in Int, n = (BeforeMonth(m) + LeapDay(y, m)) + a
  PROVE  /\ a \in 1 .. 31
         /\ (m <= 7 <=> n <= 212 + LeapOf(y)) /\ (m <= 10 <=> n <= 304 + LeapOf(y))
         /\ (m <= 2 <=> n <= 59 + LeapOf(y)) /\ (m > 2 => n > 59)
<1>1. m = 1 \/ m = 2 \/ m = 3 \/ m = 4 \/ m = 5 \/ m = 6 \/ m = 7 \/ m = 8 \/ m = 9
      \/ m = 10 \/ m = 11 \/ m = 12
  OBVIOUS
<1> QED  BY <1>1 DEF BeforeMonth, LeapDay, GregorianMonth, LeapOf

LEMMA DayByNumber ==
  ASSUME NEW y \in Nat \ {0}, NEW n \in 1 .. YearLength(y), NEW julian, julian = YearBegin(y) + n
  PROVE  /\ SeasonOf(julian) = SeasonOfNumber(y, n)
         /\ DayRow(julian) = IF Misjudged(y) /\ n > 59 THEN n + 1 ELSE n
         /\ JulianToDate(julian).year = y
<1>1. PICK d : d = JulianToDate(julian) /\ IsDay(d) /\ DayOfYear(d, y, n)
  BY DayInYear
<1>2. PICK m \in 1 .. 12, a \in 1 .. 31 :
        a \in 1 .. GregorianMonth(y, m) /\ d.year = y /\ d.month = m /\ d.day = a /\ n = (BeforeMonth(m) + LeapDay(y, m)) + a
  BY <1>1 DEF IsDay, DayOfYear
<1>3. n \in Int
  BY DEF YearLength, LeapOf
<1>4. /\ a \in 1 .. 31
      /\ (m <= 7 <=> n <= 212 + LeapOf(y)) /\ (m <= 10 <=> n <= 304 + LeapOf(y))
      /\ (m <= 2 <=> n <= 59 + LeapOf(y)) /\ (m > 2 => n > 59)
  BY <1>2, <1>3, NumberInMonth
<1>5. SeasonOf(julian) = SeasonOfNumber(y, n)
  BY <1>1, <1>2, <1>4 DEF SeasonOf, SeasonOfNumber
<1>6. DayRow(julian) = DaysBeforeMonth(y, m) + a
  BY <1>1, <1>2 DEF DayRow, DayNumber
<1>7. DaysBeforeMonth(y, m) = BeforeMonth(m) + (IF IsLeap(y) /\ m > 2 THEN 1 ELSE 0)
  BY DEF DaysBeforeMonth, BeforeMonth
<1>8. BeforeMonth(m) \in Int
  BY DEF BeforeMonth
<1>9. Misjudged(y) <=> IsLeap(y) /\ ~ GregorianLeap(y)
  BY MisjudgedIs
<1>10. Misjudged(y) => LeapOf(y) = 0
  BY <1>9 DEF LeapOf
<1>11. DayRow(julian) = IF Misjudged(y) /\ n > 59 THEN n + 1 ELSE n
  <2>1. CASE IsLeap(y) /\ ~ GregorianLeap(y)
    BY <1>2, <1>3, <1>4, <1>6, <1>7, <1>8, <1>9, <1>10, <2>1 DEF LeapDay
  <2>2. CASE IsLeap(y) /\ GregorianLeap(y)
    BY <1>2, <1>3, <1>4, <1>6, <1>7, <1>8, <1>9, <2>2 DEF LeapDay
  <2>3. CASE ~ IsLeap(y) /\ ~ GregorianLeap(y)
    BY <1>2, <1>3, <1>4, <1>6, <1>7, <1>8, <1>9, <2>3 DEF LeapDay
  <2> QED  BY <2>1, <2>2, <2>3, JudgedLeap
<1> QED  BY <1>1, <1>2, <1>5, <1>11

\* The days of a year and those around it, by their distance from its begin.
SeasonNear(y, x) == IF x < 1 THEN 3 ELSE IF x > YearLength(y) THEN 1 ELSE SeasonOfNumber(y, x)

RowNear(y, x, row) ==
  /\ row \in 1 .. 366
  /\ x < 1 => row > 330
  /\ x \in 1 .. YearLength(y) => row = x
  /\ x > YearLength(y) => row = x - YearLength(y)

LEMMA DayNear ==
  ASSUME NEW y \in Nat \ {0}, y # 1, ~ Misjudged(y), NEW x \in Int, -30 <= x, x <= YearLength(y) + 30,
         NEW julian, julian = YearBegin(y) + x
  PROVE  /\ SeasonOf(julian) = SeasonNear(y, x) /\ RowNear(y, x, DayRow(julian))
         /\ x \in 1 .. YearLength(y) => JulianToDate(julian).year = y
<1>1. YearLength(y) \in {365, 366} /\ YearLength(y - 1) \in {365, 366} /\ YearLength(y + 1) \in {365, 366}
  BY DEF YearLength, LeapOf
<1>2. y - 1 \in Nat \ {0} /\ y + 1 \in Nat \ {0} /\ (y - 1) + 1 = y
  OBVIOUS
<1>3. YearBegin(y) \in Nat /\ YearBegin(y - 1) \in Nat
      /\ YearBegin(y) = YearBegin(y - 1) + YearLength(y - 1)
      /\ YearBegin(y + 1) = YearBegin(y) + YearLength(y)
  BY <1>2, YearsFollow
<1>4. CASE x < 1
  <2>1. PICK n \in 1 .. YearLength(y - 1) : n = YearLength(y - 1) + x
    BY <1>1, <1>4
  <2>2. julian = YearBegin(y - 1) + n
    BY <1>1, <1>3, <2>1
  <2>3. /\ SeasonOf(julian) = SeasonOfNumber(y - 1, n)
        /\ DayRow(julian) = IF Misjudged(y - 1) /\ n > 59 THEN n + 1 ELSE n
    BY <1>2, <2>2, DayByNumber
  <2>4. Misjudged(y - 1) => YearLength(y - 1) = 365
    BY <1>2, MisjudgedIs DEF YearLength, LeapOf
  <2>5. n > 334 /\ n \in Int /\ n <= YearLength(y - 1)
    BY <1>1, <2>1
  <2>6. SeasonOfNumber(y - 1, n) = 3
    BY <2>5 DEF SeasonOfNumber, LeapOf
  <2>7. DayRow(julian) \in 331 .. 366
    BY <1>1, <2>3, <2>4, <2>5
  <2>8. ~ x \in 1 .. YearLength(y) /\ ~ (x > YearLength(y))
    BY <1>1, <1>4
  <2> QED  BY <1>4, <2>3, <2>6, <2>7, <2>8 DEF SeasonNear, RowNear
<1>5. CASE x > YearLength(y)
  <2>1. PICK n \in 1 .. 30 : n = x - YearLength(y)
    BY <1>1, <1>5
  <2>2. n \in 1 .. YearLength(y + 1)
    BY <1>1
  <2>3. julian = YearBegin(y + 1) + n
    BY <1>1, <1>3, <2>1
  <2>4. /\ SeasonOf(julian) = SeasonOfNumber(y + 1, n)
        /\ DayRow(julian) = IF Misjudged(y + 1) /\ n > 59 THEN n + 1 ELSE n
    BY <1>2, <2>2, <2>3, DayByNumber
  <2>5. SeasonOfNumber(y + 1, n) = 1
    BY DEF SeasonOfNumber, LeapOf
  <2>6. DayRow(julian) = n /\ n \in 1 .. 366
    BY <2>4
  <2>7. ~ x \in 1 .. YearLength(y) /\ ~ (x < 1)
    BY <1>1, <1>5
  <2> QED  BY <1>5, <2>1, <2>4, <2>5, <2>6, <2>7 DEF SeasonNear, RowNear
<1>6. CASE x >= 1 /\ x <= YearLength(y)
  <2>1. x \in 1 .. YearLength(y) /\ x \in 1 .. 366 /\ ~ (x < 1) /\ ~ (x > YearLength(y))
    BY <1>1, <1>6
  <2>2. SeasonOf(julian) = SeasonOfNumber(y, x) /\ DayRow(julian) = x /\ JulianToDate(julian).year = y
    BY <2>1, DayByNumber
  <2> QED  BY <2>1, <2>2 DEF SeasonNear, RowNear
<1> QED  BY <1>1, <1>4, <1>5, <1>6

\* The day of a row of the calendar in a year: one number less from March on
\* when the year is not a leap year.
SkewedNumber(y, row) == IF row > 60 THEN (row - 1) + LeapOf(y) ELSE row

LEMMA SkewedIs ==
  ASSUME NEW row \in 1 .. 366, row # 60, NEW y \in Nat \ {0}
  PROVE  SkewedJulianDate(row, y) = YearBegin(y) + SkewedNumber(y, row)
<1>1. PICK c \in Nat \ {0} : c = 2000 /\ GregorianLeap(c)
  <2>1. GregorianLeap(2000)
    BY SMT DEF GregorianLeap
  <2> QED  BY <2>1
<1>2. LeapOf(c) = 1 /\ YearLength(c) = 366
  BY <1>1 DEF LeapOf, YearLength
<1>3. \A z \in Nat \ {0}, m \in 1 .. 12, a \in Int :
        DateToJulian(z, m, a) = YearBegin(z) + ((BeforeMonth(m) + LeapDay(z, m)) + a)
  <2> TAKE z \in Nat \ {0}, m \in 1 .. 12, a \in Int
  <2>1. DateToJulian(z, m, a) = ((BeforeYear(z) + (BeforeMonth(m) + LeapDay(z, m))) + a) + Epoch
    BY DaysAreGregorian, MonthsSummed DEF ByMonths
  <2>2. BeforeYear(z) \in Int
    <3>1. GregorianLeapDays(z - 1) \in Nat
      BY LeapDaysGrow
    <3> QED  BY <3>1 DEF BeforeYear
  <2>3. BeforeMonth(m) + LeapDay(z, m) \in Int
    BY DEF BeforeMonth, LeapDay
  <2>4. Epoch \in Int
    BY SMT DEF Epoch
  <2> QED  BY <2>1, <2>2, <2>3, <2>4 DEF YearBegin
<1>4. YearBegin(c) \in Nat /\ YearBegin(y) \in Nat
  BY YearsFollow
<1>5. PICK julian \in Nat : julian = DateToJulian(c, 1, 1) + row - 1 /\ julian = YearBegin(c) + row
  <2>1. DateToJulian(c, 1, 1) = YearBegin(c) + ((BeforeMonth(1) + LeapDay(c, 1)) + 1)
    BY <1>3
  <2>2. BeforeMonth(1) = 0 /\ LeapDay(c, 1) = 0
    BY DEF BeforeMonth, LeapDay
  <2> QED  BY <1>4, <2>1, <2>2
<1>6. row \in 1 .. YearLength(c)
  BY <1>2
<1>7. PICK d : d = JulianToDate(julian) /\ IsDay(d) /\ DayOfYear(d, c, row)
  BY <1>5, <1>6, DayInYear
<1>8. PICK m \in 1 .. 12, a \in 1 .. 31 :
        a \in 1 .. GregorianMonth(c, m) /\ d.month = m /\ d.day = a /\ row = (BeforeMonth(m) + LeapDay(c, m)) + a
  BY <1>7 DEF IsDay, DayOfYear
<1>9. a \in 1 .. 31 /\ (m <= 2 <=> row <= 60)
  <2>1. row \in Int /\ row <= 59 + LeapOf(c) <=> row <= 60
    BY <1>2
  <2> QED  BY <1>2, <1>8, <2>1, NumberInMonth
<1>10. SkewedJulianDate(row, y) = DateToJulian(y, m, a)
  BY <1>1, <1>5, <1>7, <1>8 DEF SkewedJulianDate
<1>11. BeforeMonth(m) \in Int /\ a \in Int
  BY <1>9 DEF BeforeMonth
<1>12. (BeforeMonth(m) + LeapDay(y, m)) + a = SkewedNumber(y, row)
  BY <1>1, <1>8, <1>9, <1>11 DEF LeapDay, LeapOf, SkewedNumber
<1> QED  BY <1>3, <1>9, <1>10, <1>11, <1>12

\* The rows of a season, and the numbers of its days, or of the one after its
\* last in a year that is not a leap year.
InRows(k, row) ==
  \/ k = 1 /\ 1 <= row /\ row <= 213 /\ row # 60
  \/ k = 2 /\ 214 <= row /\ row <= 305
  \/ k = 3 /\ 306 <= row /\ row <= 366

InNumbers(y, k, x) ==
  SeasonNear(y, x) = k \/ (SeasonNear(y, x - 1) = k /\ LeapOf(y) = 0 /\ x - 1 \in 1 .. YearLength(y))

LEMMA RowsOfSeason ==
  ASSUME NEW k \in 1 .. 3, NEW row \in Int
  PROVE  row \in Seasons[k] <=> InRows(k, row)
BY DEF Seasons, InRows

CalendarRows == 1 .. 366

LEMMA WeightOfRow ==
  ASSUME NEW k \in 1 .. 3, NEW row \in CalendarRows, NEW weight \in HasWeight(k, row)
  PROVE  weight \in BOOLEAN /\ (weight <=> InRows(k, row))
<1>1. (row \in Seasons[k] => weight = TRUE) /\ (row \notin Seasons[k] => weight = FALSE)
  BY DEF HasWeight, CalendarRows
<1>2. row \in Seasons[k] <=> InRows(k, row)
  BY RowsOfSeason DEF CalendarRows
<1> QED  BY <1>1, <1>2, Zenon

LEMMA LeapIs ==
  ASSUME NEW y
  PROVE  LeapOf(y) \in {0, 1} /\ YearLength(y) = 365 + LeapOf(y)
BY DEF LeapOf, YearLength

\* A row of the season is the day of its number.
LEMMA FirstInSeason ==
  ASSUME NEW y \in Nat, NEW k \in 1 .. 3, NEW row \in Int, InRows(k, row),
         NEW x, x = SkewedNumber(y, row)
  PROVE  /\ x \in 1 .. YearLength(y) /\ SeasonNear(y, x) = k
         /\ row <= 60 => x = row
         /\ row > 60 => x = (row - 1) + LeapOf(y)
BY LeapIs DEF InRows, SkewedNumber, SeasonNear, SeasonOfNumber

\* The second day is the next, or the one before when the next is out of season.
LEMMA SecondInSeason ==
  ASSUME NEW y \in Nat, NEW k \in 1 .. 3, NEW row \in Int, InRows(k, row), row # 60,
         NEW x, x = SkewedNumber(y, row), x # 366,
         NEW tomorrow \in BOOLEAN, tomorrow <=> InRows(k, x + 1)
  PROVE  InNumbers(y, k, IF tomorrow THEN x + 1 ELSE x - 1)
<1>1. /\ x \in 1 .. YearLength(y)
      /\ row <= 60 => x = row
      /\ row > 60 => x = (row - 1) + LeapOf(y)
  BY FirstInSeason
<1>2. LeapOf(y) \in {0, 1} /\ YearLength(y) = 365 + LeapOf(y) /\ x \in Int
  BY <1>1, LeapIs
<1>3. CASE tomorrow
  BY <1>1, <1>2, <1>3 DEF InRows, InNumbers, SeasonNear, SeasonOfNumber
<1>4. CASE ~ tomorrow
  BY <1>1, <1>2, <1>4 DEF InRows, InNumbers, SeasonNear, SeasonOfNumber
<1> QED  BY <1>3, <1>4

\* The Thursday of the week, or else a week before, or else a week after.
LEMMA ThursdayInSeason ==
  ASSUME NEW y \in Nat, NEW k \in 1 .. 3, NEW row \in Int, InRows(k, row), row # 60,
         NEW x, x = SkewedNumber(y, row),
         NEW near \in Int, x - 2 <= near, near <= x + 4,
         NEW r \in Int, RowNear(y, near, r), NEW s \in Int, RowNear(y, near - 7, s),
         NEW this \in BOOLEAN, this <=> InRows(k, r), NEW last \in BOOLEAN, last <=> InRows(k, s),
         NEW v, v = IF this THEN near ELSE IF last THEN near - 7 ELSE near + 7
  PROVE  v \in 1 .. YearLength(y) /\ InRows(k, v)
<1>1. /\ x \in 1 .. YearLength(y)
      /\ row <= 60 => x = row
      /\ row > 60 => x = (row - 1) + LeapOf(y)
  BY FirstInSeason
<1>2. LeapOf(y) \in {0, 1} /\ YearLength(y) = 365 + LeapOf(y) /\ x \in Int
  BY <1>1, LeapIs
<1>3. CASE k = 1
  BY <1>1, <1>2, <1>3 DEF InRows, RowNear
<1>4. CASE k = 2
  BY <1>1, <1>2, <1>4 DEF InRows, RowNear
<1>5. CASE k = 3
  BY <1>1, <1>2, <1>5 DEF InRows, RowNear
<1> QED  BY <1>3, <1>4, <1>5

\* The Thursday after it, or else the one before.
LEMMA OtherInSeason ==
  ASSUME NEW y \in Nat, NEW k \in 1 .. 3, NEW v \in 1 .. YearLength(y), InRows(k, v),
         NEW r \in Int, RowNear(y, v + 7, r), NEW after \in Int, after = IF k = 1 THEN 1 ELSE 0,
         NEW next \in BOOLEAN, r + after <= 366 => (next <=> InRows(k, r + after))
  PROVE  /\ InNumbers(y, k, v) /\ InNumbers(y, k, IF next THEN v + 7 ELSE v - 7)
<1>1. LeapOf(y) \in {0, 1} /\ YearLength(y) = 365 + LeapOf(y) /\ v \in Int
  BY LeapIs
<1>2. InNumbers(y, k, v)
  BY <1>1 DEF InRows, InNumbers, SeasonNear, SeasonOfNumber
<1>3. CASE k = 1
  <2>1. r = v + 7 /\ r + after <= 366 /\ (next <=> InRows(1, v + 8))
    BY <1>1, <1>3 DEF InRows, RowNear
  <2>2. CASE next
    BY <1>1, <1>3, <2>1, <2>2 DEF InRows, InNumbers, SeasonNear, SeasonOfNumber
  <2>3. CASE ~ next
    BY <1>1, <1>3, <2>1, <2>3 DEF InRows, InNumbers, SeasonNear, SeasonOfNumber
  <2> QED  BY <2>2, <2>3
<1>4. CASE k = 2
  <2>1. r = v + 7 /\ r + after <= 366 /\ (next <=> InRows(2, v + 7))
    BY <1>1, <1>4 DEF InRows, RowNear
  <2>2. CASE next
    BY <1>1, <1>4, <2>1, <2>2 DEF InRows, InNumbers, SeasonNear, SeasonOfNumber
  <2>3. CASE ~ next
    BY <1>1, <1>4, <2>1, <2>3 DEF InRows, InNumbers, SeasonNear, SeasonOfNumber
  <2> QED  BY <2>2, <2>3
<1>5. CASE k = 3
  <2>1. r \in 1 .. 366 /\ r + after = r /\ (next <=> InRows(3, r))
    BY <1>1, <1>5 DEF RowNear
  <2>2. next <=> v + 7 <= YearLength(y)
    BY <1>1, <1>5, <2>1 DEF InRows, RowNear
  <2>3. CASE next
    BY <1>1, <1>5, <2>2, <2>3 DEF InRows, InNumbers, SeasonNear, SeasonOfNumber
  <2>4. CASE ~ next
    BY <1>1, <1>5, <2>2, <2>4 DEF InRows, InNumbers, SeasonNear, SeasonOfNumber
  <2> QED  BY <2>3, <2>4
<1> QED  BY <1>2, <1>3, <1>4, <1>5

\* What UpdateDaysInSeason says of a day, and of the two days and Thursdays of season k.
DayInSeason(k, day) ==
  \/ SeasonOf(day) = k
  \/ SeasonOf(day - 1) = k /\ ~ GregorianLeap(JulianToDate(day - 1).year)

DaysOfSeason(k, first, second, thursday, other) ==
  /\ SeasonOf(first) = k /\ Apart(first, second, 1)
  /\ (thursday + 1) % 7 = 4 /\ Apart(thursday, other, 7)
  /\ DayInSeason(k, thursday) /\ DayInSeason(k, other)
  /\ DayInSeason(k, second) \/ DayRow(first) = 366

LEMMA NumbersInSeason ==
  ASSUME NEW y \in Nat \ {0}, y # 1, ~ Misjudged(y), NEW k \in 1 .. 3,
         NEW x \in Int, -29 <= x, x <= YearLength(y) + 30, InNumbers(y, k, x),
         NEW day, day = YearBegin(y) + x
  PROVE  DayInSeason(k, day)
<1>1. YearBegin(y) \in Nat /\ YearLength(y) \in Nat
  BY YearsFollow, LeapIs
<1>2. CASE SeasonNear(y, x) = k
  <2>1. SeasonOf(day) = SeasonNear(y, x)
    BY <1>1, DayNear
  <2> QED  BY <1>2, <2>1 DEF DayInSeason
<1>3. CASE SeasonNear(y, x - 1) = k /\ LeapOf(y) = 0 /\ x - 1 \in 1 .. YearLength(y)
  <2>1. PICK z \in Int, before \in Int : /\ z = x - 1 /\ before = day - 1 /\ before = YearBegin(y) + z
                                          /\ -30 <= z /\ z <= YearLength(y) + 30
    BY <1>1
  <2>2. SeasonOf(before) = SeasonNear(y, z) /\ JulianToDate(before).year = y
    BY <1>3, <2>1, DayNear
  <2>3. ~ GregorianLeap(y)
    BY <1>3 DEF LeapOf
  <2> QED  BY <1>3, <2>1, <2>2, <2>3 DEF DayInSeason
<1> QED  BY <1>2, <1>3 DEF InNumbers

LEMMA ThursdayIs ==
  ASSUME NEW f \in Int, NEW w \in Int, w = (f + 1) % 7, NEW j \in Int, NEW v \in Int,
         v = ((f + 4) - w) + 7 * j
  PROVE  (v + 1) % 7 = 4
<1>1. PICK q \in Int : f + 1 = 7 * q + w
  <2>1. (f + 1) \div 7 \in Int /\ f + 1 = (7 * ((f + 1) \div 7)) + ((f + 1) % 7)
    BY Z3
  <2> QED  BY <2>1
<1>2. v + 1 = 7 * (q + j) + 4
  BY <1>1
<1> QED  BY <1>2, Z3

\* set_dow answers the weekday of a day of a year that is_leap is right of.
LEMMA CacheAnswers ==
  ASSUME CacheOfYear, NEW y \in Nat \ {0}
  PROVE  /\ DowCache(y, dowCache).lastYear = y /\ DowCache(y, dowCache).dday = Doomsday(y)
         /\ DowCache(y, dowCache).known = IF IsLeap(y) THEN <<4, 1>> ELSE <<3, 0>>
         /\ DowCache(y, dowCache) \in [lastYear : Int, dday : 0 .. 6, known : {<<3, 0>>, <<4, 1>>}]
<1>1. Doomsday(y) \in 0 .. 6
  <2>1. PICK t \in Nat : Doomsday(y) = t % 7
    BY WeekdayOfYear
  <2> QED  BY <2>1, Z3
<1>2. CASE y = dowCache.lastYear
  BY <1>2 DEF CacheOfYear, DowCache
<1>3. CASE y # dowCache.lastYear
  BY <1>1, <1>3 DEF DowCache
<1> QED  BY <1>2, <1>3

LEMMA WeekdayOfDay ==
  ASSUME CacheOfYear, NEW y \in Nat \ {0}, ~ Misjudged(y), NEW n \in 1 .. YearLength(y),
         NEW julian, julian = YearBegin(y) + n
  PROVE  WeekdayOf(julian) \in 0 .. 6 /\ WeekdayOf(julian) = (julian + 1) % 7
<1>1. PICK d : d = JulianToDate(julian) /\ IsDay(d) /\ d.julian = julian /\ d.year = y
  BY DayInYear DEF DayOfYear
<1>2. PICK c : c = DowCache(y, dowCache)
  OBVIOUS
<1>3. c.dday = Doomsday(d.year) /\ c.known = IF IsLeap(d.year) THEN <<4, 1>> ELSE <<3, 0>>
  BY <1>1, <1>2, CacheAnswers
<1>4. SetDow(d, c) \in 0 .. 6
      /\ (SetDow(d, c) = (d.julian + 1) % 7 \/ (Misjudged(d.year) /\ d.month <= 2))
  BY <1>1, <1>3, WeekdayIs
<1>5. WeekdayOf(julian) = SetDow(d, c)
  BY <1>1, <1>2 DEF WeekdayOf
<1> QED  BY <1>1, <1>4, <1>5

\* The Thursday taken, by the weights of the row of the week's and of the one before.
Taken(weight, a, b) == IF weight THEN a ELSE b

\* One season of setUpdateDates.
LEMMA SeasonPicked ==
  ASSUME CacheOfYear, NEW k \in 1 .. 3, NEW row \in Seasons[k], NEW y \in UpdateYears,
         NEW first, first = SkewedJulianDate(row, y),
         NEW thursday, thursday = first + 4 - WeekdayOf(first),
         NEW tomorrow \in HasWeight(k, DayRow(first) + 1),
         NEW this \in HasWeight(k, DayRow(thursday)),
         NEW last \in HasWeight(k, DayRow(thursday - 7)),
         NEW inventory, inventory = Taken(this, thursday, Taken(last, thursday - 7, thursday + 7)),
         NEW after, after = IF k = 1 THEN 1 ELSE 0,
         NEW next \in HasWeight(k, DayRow(inventory + 7) + after)
  PROVE  /\ first \in Int /\ inventory \in Int /\ JulianToDate(first).year \in Nat \ {0}
         /\ DaysOfSeason(k, first, Taken(tomorrow, first + 1, first - 1),
                         inventory, Taken(next, inventory + 7, inventory - 7))
<1>1. y \in Nat \ {0} /\ y # 1 /\ ~ Misjudged(y)
  BY UpdateAssumption
<1>2. row \in Int /\ row \in 1 .. 366 /\ row # 60 /\ InRows(k, row)
  <2>1. row \in Int
    BY DEF Seasons
  <2>2. InRows(k, row)
    BY <2>1, RowsOfSeason
  <2>3. row # 60
    BY <2>2 DEF InRows
  <2> QED  BY <2>1, <2>2, <2>3 DEF InRows
<1>3. PICK b \in Nat : b = YearBegin(y)
  BY <1>1, YearsFollow
<1>4. PICK len \in Nat : len = YearLength(y) /\ len \in {365, 366}
  BY LeapIs
<1>5. PICK x \in 1 .. len : x = SkewedNumber(y, row) /\ SeasonNear(y, x) = k
  BY <1>1, <1>2, <1>4, FirstInSeason
<1>6. first = b + x /\ first \in Int /\ x \in Int
  <2>1. first = YearBegin(y) + SkewedNumber(y, row)
    BY <1>1, <1>2, SkewedIs
  <2> QED  BY <1>3, <1>4, <1>5, <2>1
<1>7. \A z \in Int : -30 <= z /\ z <= len + 30 =>
        SeasonOf(b + z) = SeasonNear(y, z) /\ RowNear(y, z, DayRow(b + z))
  <2> TAKE z \in Int
  <2> HAVE -30 <= z /\ z <= len + 30
  <2>1. PICK julian : julian = b + z /\ julian = YearBegin(y) + z
    BY <1>3
  <2>2. SeasonOf(julian) = SeasonNear(y, z) /\ RowNear(y, z, DayRow(julian))
    BY <1>1, <1>4, <2>1, DayNear
  <2> QED  BY <2>1, <2>2
<1>8. SeasonOf(first) = k /\ DayRow(first) = x /\ JulianToDate(first).year = y
  BY <1>1, <1>3, <1>4, <1>5, <1>6, DayNear DEF RowNear
<1>9. PICK w \in 0 .. 6 : w = WeekdayOf(first) /\ w = (first + 1) % 7
  BY <1>1, <1>3, <1>4, <1>5, <1>6, WeekdayOfDay
<1>10. PICK near \in Int : thursday = b + near /\ near = (x + 4) - w
  BY <1>6, <1>9
<1>11. RowNear(y, near, DayRow(thursday)) /\ DayRow(thursday) \in CalendarRows
  BY <1>4, <1>5, <1>7, <1>9, <1>10 DEF RowNear, CalendarRows
<1>12. RowNear(y, near - 7, DayRow(thursday - 7)) /\ DayRow(thursday - 7) \in CalendarRows
  <2>1. near - 7 \in Int /\ -30 <= near - 7 /\ near - 7 <= len + 30 /\ thursday - 7 = b + (near - 7)
    BY <1>4, <1>5, <1>9, <1>10
  <2> QED  BY <1>7, <2>1 DEF RowNear, CalendarRows
<1>13. this \in BOOLEAN /\ (this <=> InRows(k, DayRow(thursday)))
  BY <1>11, WeightOfRow, Zenon
<1>14. last \in BOOLEAN /\ (last <=> InRows(k, DayRow(thursday - 7)))
  BY <1>12, WeightOfRow, Zenon
<1>15. PICK v \in Int : /\ v = IF this THEN near ELSE IF last THEN near - 7 ELSE near + 7
                        /\ inventory = b + v
  BY <1>10, <1>13, <1>14 DEF Taken
<1>16. v \in 1 .. len /\ InRows(k, v)
  <2>1. x - 2 <= near /\ near <= x + 4
    BY <1>6, <1>9, <1>10
  <2>2. PICK r \in Int : r = DayRow(thursday)
    BY <1>11 DEF CalendarRows
  <2>3. PICK s \in Int : s = DayRow(thursday - 7)
    BY <1>12 DEF CalendarRows
  <2>4. RowNear(y, near, r) /\ RowNear(y, near - 7, s)
    BY <1>11, <1>12, <2>2, <2>3
  <2>5. (this <=> InRows(k, r)) /\ (last <=> InRows(k, s))
    BY <1>13, <1>14, <2>2, <2>3, Zenon
  <2> QED  BY <1>1, <1>2, <1>4, <1>5, <1>13, <1>14, <1>15, <2>1, <2>4, <2>5, ThursdayInSeason
<1>17. RowNear(y, v + 7, DayRow(inventory + 7)) /\ DayRow(inventory + 7) \in CalendarRows
  <2>1. v + 7 \in Int /\ -30 <= v + 7 /\ v + 7 <= len + 30 /\ inventory + 7 = b + (v + 7)
    BY <1>4, <1>15, <1>16
  <2> QED  BY <1>7, <2>1 DEF RowNear, CalendarRows
<1>18. PICK q \in CalendarRows : q = DayRow(inventory + 7) /\ RowNear(y, v + 7, q)
  BY <1>17
<1>19. after \in {0, 1} /\ next \in BOOLEAN /\ (q + after <= 366 => (next <=> InRows(k, q + after)))
  <2>1. after \in {0, 1} /\ next \in HasWeight(k, q + after)
    BY <1>18
  <2>2. next \in BOOLEAN
    <3>1. \A row2 : HasWeight(k, row2) \subseteq BOOLEAN
      BY Zenon DEF HasWeight
    <3> QED  BY <2>1, <3>1, Zenon
  <2>3. ASSUME q + after <= 366 PROVE next <=> InRows(k, q + after)
    <3>1. q + after \in CalendarRows
      BY <2>1, <2>3 DEF CalendarRows
    <3> QED  BY <2>1, <3>1, WeightOfRow, Zenon
  <2> QED  BY <2>1, <2>2, <2>3
<1>6a. PICK o \in Int : o = IF next THEN v + 7 ELSE v - 7
  OBVIOUS
<1>21. InNumbers(y, k, v) /\ InNumbers(y, k, o)
  BY <1>1, <1>4, <1>16, <1>18, <1>19, <1>6a, OtherInSeason DEF CalendarRows
<1>22. PICK other \in Int : /\ other = Taken(next, inventory + 7, inventory - 7)
                            /\ other = b + o
  <2>1. CASE next
    BY <1>15, <1>6a, <2>1 DEF Taken
  <2>2. CASE ~ next
    BY <1>15, <1>6a, <2>2 DEF Taken
  <2> QED  BY <2>1, <2>2
<1>23. DayInSeason(k, inventory) /\ DayInSeason(k, other)
  <2>1. /\ -29 <= v /\ v <= len + 30 /\ -29 <= o /\ o <= len + 30
    BY <1>4, <1>16, <1>6a
  <2> QED  BY <1>1, <1>3, <1>4, <1>15, <1>21, <1>22, <2>1, NumbersInSeason
<1>24. PICK second \in Int : second = Taken(tomorrow, first + 1, first - 1)
  BY <1>6 DEF Taken
<1>25. DayInSeason(k, second) \/ DayRow(first) = 366
  <2> SUFFICES ASSUME x # 366 PROVE DayInSeason(k, second)
    BY <1>8
  <2>1. x + 1 \in CalendarRows
    BY <1>4, <1>5 DEF CalendarRows
  <2>2. tomorrow \in BOOLEAN /\ (tomorrow <=> InRows(k, x + 1))
    BY <1>8, <2>1, WeightOfRow, Zenon
  <2>3. PICK z \in Int : z = IF tomorrow THEN x + 1 ELSE x - 1
    BY <1>6
  <2>4. InNumbers(y, k, z)
    BY <1>1, <1>2, <1>5, <2>2, <2>3, SecondInSeason
  <2>5. second = b + z /\ -29 <= z /\ z <= len + 30
    BY <1>4, <1>5, <1>6, <1>24, <2>2, <2>3 DEF Taken
  <2> QED  BY <1>1, <1>3, <1>4, <2>4, <2>5, NumbersInSeason
<1>26. (inventory + 1) % 7 = 4
  <2>1. PICK j \in Int : j = IF this THEN 0 ELSE IF last THEN -1 ELSE 1
    OBVIOUS
  <2>2. inventory = ((first + 4) - w) + 7 * j
    BY <1>6, <1>10, <1>13, <1>14, <1>15, <2>1
  <2>3. w \in Int /\ inventory \in Int
    BY <1>15
  <2> QED  BY <1>6, <1>9, <2>2, <2>3, ThursdayIs
<1>27. Apart(first, second, 1) /\ Apart(inventory, other, 7)
  BY <1>6, <1>15, <1>22, <1>24 DEF Apart, Taken
<1>28. inventory \in Int
  BY <1>15
<1>29. DaysOfSeason(k, first, second, inventory, other)
  BY <1>8, <1>23, <1>25, <1>26, <1>27, SMT DEF DaysOfSeason
<1> QED  BY <1>1, <1>6, <1>8, <1>22, <1>24, <1>28, <1>29

\* The sums of six numbers, as the running totals of a refresh table are made.
Totals(r) == CHOOSE f : f = [k \in 0 .. 6 |-> IF k = 0 THEN 0 ELSE f[k - 1] + r[k]]

SumOfSix(r) == ((((r[1] + r[2]) + r[3]) + r[4]) + r[5]) + r[6]

LEMMA TotalsAre ==
  ASSUME NEW r \in [1 .. 6 -> Nat]
  PROVE  /\ Totals(r)[1] = r[1] /\ Totals(r)[2] = Totals(r)[1] + r[2]
         /\ Totals(r)[3] = Totals(r)[2] + r[3] /\ Totals(r)[4] = Totals(r)[3] + r[4]
         /\ Totals(r)[5] = Totals(r)[4] + r[5] /\ Totals(r)[6] = Totals(r)[5] + r[6]
         /\ \A k \in 1 .. 6 : Totals(r)[k] \in Nat
<1> DEFINE Sums(f) == f = [k \in 0 .. 6 |-> IF k = 0 THEN 0 ELSE f[k - 1] + r[k]]
<1>1. PICK a \in Nat, b \in Nat, c \in Nat, d \in Nat, e \in Nat, g \in Nat :
        a = r[1] /\ b = r[2] /\ c = r[3] /\ d = r[4] /\ e = r[5] /\ g = r[6]
  <2>1. r[1] \in Nat /\ r[2] \in Nat /\ r[3] \in Nat /\ r[4] \in Nat /\ r[5] \in Nat /\ r[6] \in Nat
    OBVIOUS
  <2> QED  BY <2>1, Zenon
<1>2. \E f : Sums(f)
  <2> DEFINE h == [k \in 0 .. 6 |-> IF k = 0 THEN 0 ELSE IF k = 1 THEN a ELSE IF k = 2 THEN a + b
                    ELSE IF k = 3 THEN (a + b) + c ELSE IF k = 4 THEN ((a + b) + c) + d
                    ELSE IF k = 5 THEN (((a + b) + c) + d) + e
                    ELSE ((((a + b) + c) + d) + e) + g]
  <2>1. ASSUME NEW k \in 0 .. 6 PROVE h[k] = IF k = 0 THEN 0 ELSE h[k - 1] + r[k]
    <3>1. k = 0 \/ k = 1 \/ k = 2 \/ k = 3 \/ k = 4 \/ k = 5 \/ k = 6
      OBVIOUS
    <3> QED  BY <1>1, <3>1
  <2>2. h = [k \in 0 .. 6 |-> h[k]]
    OBVIOUS
  <2> HIDE DEF h
  <2>3. Sums(h)
    BY <2>1, <2>2
  <2> QED  BY <2>3
<1>3. PICK t : t = Totals(r) /\ Sums(t)
  BY <1>2 DEF Totals
<1>4. \A k \in 0 .. 6 : t[k] = IF k = 0 THEN 0 ELSE t[k - 1] + r[k]
  BY <1>3
<1> HIDE DEF Sums
<1>5. t[0] = 0 /\ t[1] = t[0] + r[1] /\ t[2] = t[1] + r[2] /\ t[3] = t[2] + r[3]
      /\ t[4] = t[3] + r[4] /\ t[5] = t[4] + r[5] /\ t[6] = t[5] + r[6]
  BY <1>4
<1>6. t[1] \in Nat /\ t[2] \in Nat /\ t[3] \in Nat /\ t[4] \in Nat /\ t[5] \in Nat /\ t[6] \in Nat
      /\ t[1] = r[1]
  BY <1>1, <1>5
<1> QED  BY <1>3, <1>5, <1>6

LEMMA SumsTotal ==
  ASSUME NEW r \in [1 .. 6 -> Nat]
  PROVE  Totals(r)[6] = SumOfSix(r)
BY TotalsAre DEF SumOfSix

LEMMA BuiltIs == RowsBuilt = Totals(refreshed)[6]
BY DEF RowsBuilt, Totals

\* dateScaling answers a number of rows.
LEMMA ScalingIsNat ==
  ASSUME NEW table, NEW julian
  PROVE  DateScaling(table, julian) \in Nat
<1>1. CASE table = "inventory"
  BY <1>1, UpdateAssumption DEF DateScaling
<1>2. CASE table # "inventory"
  <2> DEFINE d == JulianToDate(julian)
  <2>1. PICK total \in Nat : total = 5 * SalesWeightOfYear(IsLeap(d.year)) /\ total > 0
    BY SMT DEF SalesWeightOfYear
  <2>2. PICK weight \in Nat : weight = SalesWeight(DayNumber(d), IsLeap(d.year))
    BY DEF SalesWeight
  <2>3. PICK half \in Nat : half = total \div 2
    <3>1. total \div 2 \in Nat
      BY Z3
    <3> QED  BY <3>1
  <2>4. PICK rows \in Nat : rows = SalesRows * weight + half
    <3>1. SalesRows * weight + half \in Nat
      BY UpdateAssumption
    <3> QED  BY <3>1
  <2>5. rows \div total \in Nat
    BY <2>1, Z3
  <2> QED  BY <1>2, <2>1, <2>2, <2>3, <2>4, <2>5 DEF DateScaling
<1> QED  BY <1>1, <1>2

\* The part of the rows from lo to hi that the first n rows hold.
PartOf(n, lo, hi) == IF n <= lo THEN 0 ELSE IF n >= hi THEN hi - lo ELSE n - lo

\* Parts of a row of totals, when n rows are built of them.
Before(upto, k) == IF k = 1 THEN 0 ELSE upto[k - 1]

PartsBuilt(n, upto, built) == \A k \in 1 .. 6 : built[k] = PartOf(n, Before(upto, k), upto[k])

Rising(upto) == \A j, k \in 1 .. 6 : j <= k => upto[j] <= upto[k]

LEMMA PartGrows ==
  ASSUME NEW n \in Nat, NEW lo \in Nat, NEW hi \in Nat, lo <= hi
  PROVE  /\ lo <= n /\ n < hi => PartOf(n + 1, lo, hi) = PartOf(n, lo, hi) + 1
         /\ n + 1 <= lo \/ hi <= n => PartOf(n + 1, lo, hi) = PartOf(n, lo, hi)
BY DEF PartOf

LEMMA SixGrow ==
  ASSUME NEW built \in [1 .. 6 -> Nat], NEW i \in 1 .. 6, NEW next, next = [built EXCEPT ![i] = @ + 1]
  PROVE  SumOfSix(next) = SumOfSix(built) + 1
<1>1. i = 1 \/ i = 2 \/ i = 3 \/ i = 4 \/ i = 5 \/ i = 6
  OBVIOUS
<1>2. built[1] \in Nat /\ built[2] \in Nat /\ built[3] \in Nat /\ built[4] \in Nat
      /\ built[5] \in Nat /\ built[6] \in Nat
  OBVIOUS
<1>3. \A k \in 1 .. 6 : next[k] = IF k = i THEN built[k] + 1 ELSE built[k]
  OBVIOUS
<1>4. /\ next[1] = IF 1 = i THEN built[1] + 1 ELSE built[1]
      /\ next[2] = IF 2 = i THEN built[2] + 1 ELSE built[2]
      /\ next[3] = IF 3 = i THEN built[3] + 1 ELSE built[3]
      /\ next[4] = IF 4 = i THEN built[4] + 1 ELSE built[4]
      /\ next[5] = IF 5 = i THEN built[5] + 1 ELSE built[5]
      /\ next[6] = IF 6 = i THEN built[6] + 1 ELSE built[6]
  BY <1>3
<1> QED  BY <1>1, <1>2, <1>4 DEF SumOfSix

\* One more row falls on the day whose total it is the first not to exceed.
LEMMA OneMoreRow ==
  ASSUME NEW n \in Nat, NEW upto \in [1 .. 6 -> Nat], Rising(upto),
         NEW built \in [1 .. 6 -> Nat], PartsBuilt(n, upto, built),
         NEW i \in 1 .. 6, n + 1 <= upto[i], \A earlier \in 1 .. i - 1 : n + 1 > upto[earlier],
         NEW next, next = [built EXCEPT ![i] = @ + 1]
  PROVE  PartsBuilt(n + 1, upto, next)
<1> SUFFICES ASSUME NEW k \in 1 .. 6 PROVE next[k] = PartOf(n + 1, Before(upto, k), upto[k])
  BY DEF PartsBuilt
<1>1. PICK lo \in Nat, hi \in Nat : lo = Before(upto, k) /\ hi = upto[k] /\ lo <= hi
  <2>1. Before(upto, k) \in Nat /\ upto[k] \in Nat /\ Before(upto, k) <= upto[k]
    BY DEF Before, Rising
  <2> QED  BY <2>1
<1>2. built[k] = PartOf(n, lo, hi) /\ built[k] \in Nat
  BY <1>1 DEF PartsBuilt
<1>3. CASE k = i
  <2>1. next[k] = built[k] + 1
    BY <1>3
  <2>2. lo <= n
    <3>1. CASE i = 1
      BY <1>1, <1>3, <3>1 DEF Before
    <3>2. CASE i # 1
      <4>1. i - 1 \in 1 .. i - 1 /\ i - 1 \in 1 .. 6
        BY <3>2
      <4>2. n + 1 > upto[i - 1] /\ upto[i - 1] \in Nat
        BY <4>1
      <4> QED  BY <1>1, <1>3, <3>2, <4>2 DEF Before
    <3> QED  BY <3>1, <3>2
  <2>3. n < hi
    BY <1>1, <1>3
  <2> QED  BY <1>1, <1>2, <2>1, <2>2, <2>3, PartGrows
<1>4. CASE k # i
  <2>1. next[k] = built[k]
    BY <1>4
  <2>2. n + 1 <= lo \/ hi <= n
    <3>1. CASE k < i
      <4>1. k \in 1 .. i - 1
        BY <3>1
      <4>2. n + 1 > upto[k]
        BY <4>1
      <4> QED  BY <1>1, <4>2
    <3>2. CASE k > i
      <4>1. k - 1 \in 1 .. 6 /\ i <= k - 1 /\ k # 1
        BY <3>2
      <4>2. upto[i] <= upto[k - 1] /\ upto[i] \in Nat /\ upto[k - 1] \in Nat
        BY <4>1 DEF Rising
      <4>3. lo = upto[k - 1]
        BY <1>1, <4>1 DEF Before
      <4> QED  BY <4>2, <4>3
    <3> QED  BY <1>4, <3>1, <3>2
  <2>3. PartOf(n + 1, lo, hi) = PartOf(n, lo, hi)
    BY <1>1, <2>2 DEF PartOf
  <2> QED  BY <1>1, <1>2, <2>1, <2>3
<1> QED  BY <1>3, <1>4

\* The seasons picked so far, each with its two days and its two Thursdays.
DaysPicked ==
  /\ updateDays \in Seq(Int) /\ thursdays \in Seq(Int)
  /\ Len(updateDays) \in {0, 2, 4, 6} /\ Len(thursdays) = Len(updateDays)
  /\ \A k \in 1 .. 3 : 2 * k <= Len(updateDays) =>
       DaysOfSeason(k, updateDays[2 * k - 1], updateDays[2 * k], thursdays[2 * k - 1], thursdays[2 * k])
  /\ deletes.days # <<>> => Len(updateDays) = 6

\* The running totals of the days' rows, and the rows built of each.
RowsDated ==
  /\ Len(updateDays) = 6
  /\ dayRows.upto \in [1 .. 6 -> Nat] /\ Rising(dayRows.upto) /\ refreshed \in [1 .. 6 -> Nat]
  /\ \A k \in 1 .. 6 :
       dayRows.upto[k] = Before(dayRows.upto, k) + DateScaling(dayRows.table, updateDays[k])
  /\ PartsBuilt(SumOfSix(refreshed), dayRows.upto, refreshed)

UpdateInv == CalendarInv /\ DaysPicked /\ (dayRows = <<>> \/ RowsDated)

LEMMA UpdateInitInv == CalendarInit /\ UpdateInit => UpdateInv
BY CalendarInitLemma DEF UpdateInit, UpdateInv, DaysPicked

\* A season of setUpdateDates from its first day and the Thursday of its week.
ThursdaysTaken(k, first, second, inventory) ==
  \E next \in HasWeight(k, DayRow(inventory + 7) + (IF k = 1 THEN 1 ELSE 0)) :
    /\ updateDays' = updateDays \o <<first, second>>
    /\ thursdays' = thursdays \o <<inventory, Taken(next, inventory + 7, inventory - 7)>>
    /\ dowCache' = DowCache(JulianToDate(first).year, dowCache)

SeasonTaken(k, first, thursday) ==
  \E tomorrow \in HasWeight(k, DayRow(first) + 1), this \in HasWeight(k, DayRow(thursday)),
     last \in HasWeight(k, DayRow(thursday - 7)) :
    ThursdaysTaken(k, first, Taken(tomorrow, first + 1, first - 1),
                   Taken(this, thursday, Taken(last, thursday - 7, thursday + 7)))

SeasonDrawn(k) ==
  \E row \in Seasons[k], year \in UpdateYears :
    SeasonTaken(k, SkewedJulianDate(row, year),
                SkewedJulianDate(row, year) + 4 - WeekdayOf(SkewedJulianDate(row, year)))

LEMMA PickDraws == PickSeason => SeasonDrawn(Len(updateDays) \div 2 + 1)
BY Zenon DEF PickSeason, SeasonDrawn, SeasonTaken, ThursdaysTaken, Taken

LEMMA PairAppended ==
  ASSUME NEW s \in Seq(Int), NEW k \in 1 .. 3, Len(s) = 2 * k - 2, NEW a \in Int, NEW b \in Int,
         NEW t, t = s \o <<a, b>>
  PROVE  /\ t \in Seq(Int) /\ Len(t) = 2 * k /\ t[2 * k - 1] = a /\ t[2 * k] = b
         /\ \A j \in 1 .. Len(s) : t[j] = s[j]
<1>1. PICK n \in Nat : n = Len(s) /\ 2 * k - 1 = n + 1 /\ 2 * k = n + 2
  OBVIOUS
<1>2. <<a, b>> \in Seq(Int) /\ Len(<<a, b>>) = 2 /\ <<a, b>>[1] = a /\ <<a, b>>[2] = b
  OBVIOUS
<1>3. t \in Seq(Int) /\ Len(t) = n + 2
  BY <1>1, <1>2
<1>4. \A j \in 1 .. n : t[j] = s[j]
  BY <1>1, <1>2
<1>5. t[n + 1] = a /\ t[n + 2] = b
  <2>1. (n + 1) - n = 1 /\ (n + 2) - n = 2 /\ n + 1 \in 1 .. n + 2 /\ n + 2 \in 1 .. n + 2
    OBVIOUS
  <2>2. t[n + 1] = <<a, b>>[1] /\ t[n + 2] = <<a, b>>[2]
    BY <1>1, <1>2, <2>1
  <2> QED  BY <1>2, <2>2
<1> QED  BY <1>1, <1>3, <1>4, <1>5

LEMMA PickFinds ==
  ASSUME UpdateInv, PickSeason
  PROVE  /\ UNCHANGED <<deletes, dayRows, refreshed>> /\ CacheOfYear' /\ ~ RowsDated
         /\ deletes.days = <<>>
         /\ \E k \in 1 .. 3, first, second, inventory, other \in Int :
              /\ Len(updateDays) = 2 * k - 2 /\ Len(thursdays) = Len(updateDays)
              /\ updateDays' = updateDays \o <<first, second>>
              /\ thursdays' = thursdays \o <<inventory, other>>
              /\ DaysOfSeason(k, first, second, inventory, other)
<1>1. /\ updateDays \in Seq(Int) /\ thursdays \in Seq(Int) /\ Len(thursdays) = Len(updateDays)
      /\ Len(updateDays) \in {0, 2, 4} /\ UNCHANGED <<deletes, dayRows, refreshed>>
      /\ ~ RowsDated /\ CacheOfYear /\ deletes.days = <<>>
  <2>1. UpdateInv /\ Len(updateDays) < 6 /\ UNCHANGED <<deletes, dayRows, refreshed>>
    BY DEF PickSeason
  <2>2. /\ updateDays \in Seq(Int) /\ thursdays \in Seq(Int) /\ Len(thursdays) = Len(updateDays)
        /\ Len(updateDays) \in {0, 2, 4, 6} /\ CacheOfYear
    BY DEF UpdateInv, CalendarInv, DaysPicked
  <2>3. ~ RowsDated
    BY <2>1, <2>2 DEF RowsDated
  <2>4. deletes.days = <<>>
    BY <2>1 DEF UpdateInv, DaysPicked
  <2>5. Len(updateDays) \in {0, 2, 4}
    <3>1. Len(updateDays) = 0 \/ Len(updateDays) = 2 \/ Len(updateDays) = 4 \/ Len(updateDays) = 6
      BY <2>2
    <3>2. ~ (6 < 6)
      OBVIOUS
    <3>3. Len(updateDays) # 6
      BY <2>1, <3>2
    <3> QED  BY <3>1, <3>3
  <2> QED  BY <2>1, <2>2, <2>3, <2>4, <2>5
<1>2. PICK k \in 1 .. 3 : k = Len(updateDays) \div 2 + 1 /\ Len(updateDays) = 2 * k - 2
  <2>1. 0 \div 2 = 0 /\ 2 \div 2 = 1 /\ 4 \div 2 = 2
    BY Z3
  <2>2. CASE Len(updateDays) = 0
    BY <2>1, <2>2
  <2>3. CASE Len(updateDays) = 2
    BY <2>1, <2>3
  <2>4. CASE Len(updateDays) = 4
    BY <2>1, <2>4
  <2> QED  BY <1>1, <2>2, <2>3, <2>4
<1>3. SeasonDrawn(k)
  BY <1>2, PickDraws
<1>4. PICK row \in Seasons[k], year \in UpdateYears :
        SeasonTaken(k, SkewedJulianDate(row, year),
                    SkewedJulianDate(row, year) + 4 - WeekdayOf(SkewedJulianDate(row, year)))
  BY <1>3, Zenon DEF SeasonDrawn
<1>5. PICK first, thursday :
        /\ first = SkewedJulianDate(row, year) /\ thursday = first + 4 - WeekdayOf(first)
        /\ SeasonTaken(k, first, thursday)
  BY <1>4, Zenon
<1>6. PICK tomorrow \in HasWeight(k, DayRow(first) + 1), this \in HasWeight(k, DayRow(thursday)),
           last \in HasWeight(k, DayRow(thursday - 7)) :
        ThursdaysTaken(k, first, Taken(tomorrow, first + 1, first - 1),
                       Taken(this, thursday, Taken(last, thursday - 7, thursday + 7)))
  BY <1>5, Zenon DEF SeasonTaken
<1>6a. PICK inventory, after :
        /\ inventory = Taken(this, thursday, Taken(last, thursday - 7, thursday + 7))
        /\ after = IF k = 1 THEN 1 ELSE 0
        /\ ThursdaysTaken(k, first, Taken(tomorrow, first + 1, first - 1), inventory)
  BY <1>6, Zenon
<1>7. PICK next \in HasWeight(k, DayRow(inventory + 7) + after) :
        /\ updateDays' = updateDays \o <<first, Taken(tomorrow, first + 1, first - 1)>>
        /\ thursdays' = thursdays \o <<inventory, Taken(next, inventory + 7, inventory - 7)>>
        /\ dowCache' = DowCache(JulianToDate(first).year, dowCache)
  BY <1>6a, Zenon DEF ThursdaysTaken
<1>8. PICK second, other : /\ second = Taken(tomorrow, first + 1, first - 1)
                           /\ other = Taken(next, inventory + 7, inventory - 7)
  OBVIOUS
<1>9. /\ first \in Int /\ inventory \in Int /\ JulianToDate(first).year \in Nat \ {0}
      /\ DaysOfSeason(k, first, second, inventory, other)
  <2>1. /\ first \in Int /\ inventory \in Int /\ JulianToDate(first).year \in Nat \ {0}
        /\ DaysOfSeason(k, first, Taken(tomorrow, first + 1, first - 1),
                        inventory, Taken(next, inventory + 7, inventory - 7))
    BY <1>1, <1>5, <1>6a, SeasonPicked
  <2> QED  BY <1>8, <2>1
<1>10. second \in Int /\ other \in Int
  <2>1. first + 1 \in Int /\ first - 1 \in Int /\ inventory + 7 \in Int /\ inventory - 7 \in Int
    BY <1>9
  <2> QED  BY <1>8, <2>1, Zenon DEF Taken
<1>11. updateDays' = updateDays \o <<first, second>> /\ thursdays' = thursdays \o <<inventory, other>>
  BY <1>7, <1>8
<1>12. CacheOfYear'
  <2>1. PICK y \in Nat \ {0} : y = JulianToDate(first).year /\ dowCache' = DowCache(y, dowCache)
    BY <1>7, <1>9
  <2> QED  BY <1>1, <2>1, CacheAnswers DEF CacheOfYear
<1> QED  BY <1>1, <1>2, <1>9, <1>10, <1>11, <1>12

LEMMA PickStep == UpdateInv /\ PickSeason /\ UNCHANGED <<date, weekday>> => UpdateInv'
<1> SUFFICES ASSUME UpdateInv, PickSeason, UNCHANGED <<date, weekday>> PROVE UpdateInv'
  OBVIOUS
<1>1. UNCHANGED <<deletes, dayRows, refreshed>> /\ CacheOfYear' /\ ~ RowsDated /\ deletes.days = <<>>
  BY PickFinds
<1>2. PICK k \in 1 .. 3, first, second, inventory, other \in Int :
        /\ Len(updateDays) = 2 * k - 2 /\ Len(thursdays) = Len(updateDays)
        /\ updateDays' = updateDays \o <<first, second>>
        /\ thursdays' = thursdays \o <<inventory, other>>
        /\ DaysOfSeason(k, first, second, inventory, other)
  BY PickFinds
<1>3. updateDays \in Seq(Int) /\ thursdays \in Seq(Int)
  BY DEF UpdateInv, DaysPicked
<1>4. /\ updateDays' \in Seq(Int) /\ Len(updateDays') = 2 * k
      /\ updateDays'[2 * k - 1] = first /\ updateDays'[2 * k] = second
      /\ \A j \in 1 .. Len(updateDays) : updateDays'[j] = updateDays[j]
  <2>1. PICK t : t = updateDays' /\ t = updateDays \o <<first, second>>
    BY <1>2
  <2>2. /\ t \in Seq(Int) /\ Len(t) = 2 * k /\ t[2 * k - 1] = first /\ t[2 * k] = second
        /\ \A j \in 1 .. Len(updateDays) : t[j] = updateDays[j]
    <3>1. Len(updateDays) = 2 * k - 2 /\ first \in Int /\ second \in Int
      BY <1>2
    <3> QED  BY <1>3, <2>1, <3>1, PairAppended
  <2> QED  BY <2>1, <2>2
<1>5. /\ thursdays' \in Seq(Int) /\ Len(thursdays') = 2 * k
      /\ thursdays'[2 * k - 1] = inventory /\ thursdays'[2 * k] = other
      /\ \A j \in 1 .. Len(updateDays) : thursdays'[j] = thursdays[j]
  <2>1. PICK t : t = thursdays' /\ t = thursdays \o <<inventory, other>>
    BY <1>2
  <2>2. /\ t \in Seq(Int) /\ Len(t) = 2 * k /\ t[2 * k - 1] = inventory /\ t[2 * k] = other
        /\ \A j \in 1 .. Len(thursdays) : t[j] = thursdays[j]
    <3>1. Len(thursdays) = 2 * k - 2 /\ inventory \in Int /\ other \in Int
      BY <1>2
    <3> QED  BY <1>3, <2>1, <3>1, PairAppended
  <2> QED  BY <1>2, <2>1, <2>2
<1>6. ASSUME NEW j \in 1 .. 3, 2 * j <= Len(updateDays')
      PROVE  DaysOfSeason(j, updateDays'[2 * j - 1], updateDays'[2 * j],
                          thursdays'[2 * j - 1], thursdays'[2 * j])
  <2>1. CASE j = k
    BY <1>2, <1>4, <1>5, <2>1
  <2>2. CASE j # k
    <3>1. 2 * j <= Len(updateDays) /\ 2 * j - 1 \in 1 .. Len(updateDays) /\ 2 * j \in 1 .. Len(updateDays)
      BY <1>2, <1>4, <1>6, <2>2
    <3>2. DaysOfSeason(j, updateDays[2 * j - 1], updateDays[2 * j],
                       thursdays[2 * j - 1], thursdays[2 * j])
      BY <3>1 DEF UpdateInv, DaysPicked
    <3> QED  BY <1>4, <1>5, <3>1, <3>2
  <2> QED  BY <2>1, <2>2
<1>7. Len(updateDays') \in {0, 2, 4, 6} /\ Len(thursdays') = Len(updateDays') /\ deletes'.days = <<>>
  <2>1. k = 1 \/ k = 2 \/ k = 3
    BY <1>2
  <2> QED  BY <1>1, <1>4, <1>5, <2>1
<1>8. DaysPicked'
  BY <1>4, <1>5, <1>6, <1>7 DEF DaysPicked, DaysOfSeason, DayInSeason, Apart, SeasonOf
<1>9. dayRows' = <<>>
  BY <1>1 DEF UpdateInv
<1>10. CalendarInv'
  BY <1>1 DEF UpdateInv, CalendarInv, WeekdayOfDate
<1> QED  BY <1>8, <1>9, <1>10 DEF UpdateInv

LEMMA ScalingStep == UpdateInv /\ SetUpdateScaling => (dayRows = <<>> \/ RowsDated)'
<1> SUFFICES ASSUME UpdateInv, SetUpdateScaling PROVE RowsDated'
  OBVIOUS
<1>1. Len(updateDays) = 6 /\ updateDays' = updateDays
  BY DEF UpdateInv, DaysPicked, SetUpdateScaling
<1>2. PICK table, rows : /\ rows = [k \in 1 .. 6 |-> DateScaling(table, updateDays[k])]
                         /\ dayRows' = [table |-> table, upto |-> [k \in 1 .. 6 |-> Totals(rows)[k]]]
  <2>1. PICK table :
          dayRows' = [table |-> table,
                      upto |-> [k \in 1 .. 6 |->
                        Totals([j \in 1 .. 6 |-> DateScaling(table, updateDays[j])])[k]]]
    BY Zenon DEF SetUpdateScaling, Totals
  <2> QED  BY <2>1, Zenon
<1>3. rows \in [1 .. 6 -> Nat]
  BY <1>2, ScalingIsNat
<1>4. PICK totals : totals = Totals(rows)
  OBVIOUS
<1>5. /\ totals[1] = rows[1] /\ totals[2] = totals[1] + rows[2]
      /\ totals[3] = totals[2] + rows[3] /\ totals[4] = totals[3] + rows[4]
      /\ totals[5] = totals[4] + rows[5] /\ totals[6] = totals[5] + rows[6]
      /\ \A k \in 1 .. 6 : totals[k] \in Nat
  BY <1>3, <1>4, TotalsAre
<1>6. PICK upto \in [1 .. 6 -> Nat] : upto = [k \in 1 .. 6 |-> totals[k]]
  BY <1>5
<1>7. dayRows'.upto = upto /\ dayRows'.table = table
  BY <1>2, <1>4, <1>6
<1>8. \A k \in 1 .. 6 : upto[k] = Before(upto, k) + rows[k]
  <2> TAKE k \in 1 .. 6
  <2>1. k = 1 \/ k = 2 \/ k = 3 \/ k = 4 \/ k = 5 \/ k = 6
    OBVIOUS
  <2> QED  BY <1>3, <1>5, <1>6, <2>1 DEF Before
<1>9. Rising(upto)
  <2>1. upto[1] <= upto[2] /\ upto[2] <= upto[3] /\ upto[3] <= upto[4] /\ upto[4] <= upto[5]
        /\ upto[5] <= upto[6]
    <3>1. \A k \in 1 .. 6 : upto[k] = totals[k] /\ rows[k] \in Nat /\ totals[k] \in Nat
      BY <1>3, <1>5, <1>6
    <3> QED  BY <1>5, <3>1
  <2>2. \A k \in 1 .. 6 : upto[k] \in Nat
    OBVIOUS
  <2>3. ASSUME NEW j \in 1 .. 6, NEW k \in 1 .. 6, j <= k PROVE upto[j] <= upto[k]
    <3>1. j = 1 \/ j = 2 \/ j = 3 \/ j = 4 \/ j = 5 \/ j = 6
      OBVIOUS
    <3>2. k = 1 \/ k = 2 \/ k = 3 \/ k = 4 \/ k = 5 \/ k = 6
      OBVIOUS
    <3> QED  BY <2>1, <2>2, <2>3, <3>1, <3>2
  <2> QED  BY <2>3 DEF Rising
<1>10. PICK none \in [1 .. 6 -> Nat] : none = refreshed' /\ none = [k \in 1 .. 6 |-> 0]
  BY DEF SetUpdateScaling
<1>11. SumOfSix(none) = 0
  BY <1>10 DEF SumOfSix
<1>12. PartsBuilt(0, upto, none)
  <2>1. ASSUME NEW k \in 1 .. 6 PROVE none[k] = PartOf(0, Before(upto, k), upto[k])
    <3>1. Before(upto, k) \in Nat /\ none[k] = 0
      BY <1>10 DEF Before
    <3> QED  BY <3>1 DEF PartOf
  <2> QED  BY <2>1 DEF PartsBuilt
<1>13. \A k \in 1 .. 6 : rows[k] = DateScaling(table, updateDays[k])
  BY <1>2
<1> QED  BY <1>1, <1>7, <1>8, <1>9, <1>10, <1>11, <1>12, <1>13 DEF RowsDated, PartsBuilt

LEMMA RefreshStep == UpdateInv /\ MkRefreshRow => (dayRows = <<>> \/ RowsDated)'
<1> SUFFICES ASSUME UpdateInv, MkRefreshRow PROVE RowsDated'
  OBVIOUS
<1>1. RowsDated /\ UNCHANGED <<updateDays, dayRows>> /\ RowsBuilt < dayRows.upto[6]
  BY DEF UpdateInv, MkRefreshRow
<1>2. PICK upto \in [1 .. 6 -> Nat], built \in [1 .. 6 -> Nat] : /\ upto = dayRows.upto
                                                               /\ built = refreshed
  BY <1>1 DEF RowsDated
<1>3. PICK n \in Nat : n = SumOfSix(built) /\ n = RowsBuilt
  <2>1. SumOfSix(built) \in Nat
    BY DEF SumOfSix
  <2>2. Totals(built)[6] = SumOfSix(built)
    BY SumsTotal
  <2> QED  BY <1>2, <2>1, <2>2, BuiltIs
<1>4. Rising(upto) /\ PartsBuilt(n, upto, built) /\ n < upto[6]
  BY <1>1, <1>2, <1>3 DEF RowsDated
<1>5. PICK i \in 1 .. 6 : i = DayIndex(n + 1) /\ n + 1 <= upto[i]
                          /\ \A earlier \in 1 .. i - 1 : n + 1 > upto[earlier]
  <2> DEFINE Fits(k) == (k = 6 \/ n + 1 <= upto[k]) /\ \A earlier \in 1 .. k - 1 : n + 1 > upto[earlier]
  <2>1. \E k \in 1 .. 6 : Fits(k)
    <3>1. PICK T \in SUBSET Nat : T = {k \in 1 .. 6 : n + 1 <= upto[k]}
      <4>1. {k \in 1 .. 6 : n + 1 <= upto[k]} \in SUBSET Nat
        OBVIOUS
      <4> QED  BY <4>1, Zenon
    <3>2. 6 \in T
      BY <1>4, <3>1
    <3>3. PICK k \in T : \A j \in T : k <= j
      BY <3>2, LeastElement
    <3>4. k \in 1 .. 6 /\ n + 1 <= upto[k]
      BY <3>1
    <3>5. ASSUME NEW j \in 1 .. k - 1 PROVE n + 1 > upto[j]
      <4>1. j \in 1 .. 6 /\ ~ (k <= j)
        BY <3>4
      <4>2. j \notin T
        BY <3>3, <4>1
      <4> QED  BY <3>1, <4>1, <4>2
    <3> QED  BY <3>4, <3>5
  <2>2. DayIndex(n + 1) = CHOOSE k \in 1 .. 6 : Fits(k)
    BY <1>2 DEF DayIndex
  <2>3. DayIndex(n + 1) \in 1 .. 6 /\ Fits(DayIndex(n + 1))
    BY <2>1, <2>2
  <2> QED  BY <1>4, <2>3
<1>6. PICK next : next = refreshed' /\ next = [built EXCEPT ![i] = @ + 1]
  BY <1>2, <1>3, <1>5 DEF MkRefreshRow
<1>7. next \in [1 .. 6 -> Nat]
  BY <1>6
<1>8. PartsBuilt(n + 1, upto, next)
  BY <1>4, <1>5, <1>6, OneMoreRow
<1>9. SumOfSix(next) = n + 1
  BY <1>3, <1>6, SixGrow
<1> QED  BY <1>1, <1>2, <1>6, <1>7, <1>8, <1>9 DEF RowsDated

LEMMA UpdateStepInv ==
  /\ UpdateInv
  /\ [\/ UpdateNext /\ UNCHANGED <<date, weekday>>
      \/ CalendarNext /\ UNCHANGED updateVars]_<<calendarVars, updateVars>>
  => UpdateInv'
<1> SUFFICES ASSUME UpdateInv, [\/ UpdateNext /\ UNCHANGED <<date, weekday>>
                                \/ CalendarNext /\ UNCHANGED updateVars]_<<calendarVars, updateVars>>
             PROVE  UpdateInv'
  OBVIOUS
<1>1. CASE UNCHANGED updateVars /\ [CalendarNext]_calendarVars
  <2>1. CalendarInv'
    BY <1>1, CalendarStepLemma DEF UpdateInv
  <2>2. (DaysPicked /\ (dayRows = <<>> \/ RowsDated))'
    BY <1>1 DEF UpdateInv, updateVars, DaysPicked, RowsDated
  <2> QED  BY <2>1, <2>2 DEF UpdateInv
<1>2. CASE PickSeason /\ UNCHANGED <<date, weekday>>
  BY <1>2, PickStep
<1>3. CASE WriteDeletes /\ UNCHANGED <<date, weekday>>
  <2>1. UNCHANGED <<calendarVars, updateDays, thursdays, dayRows, refreshed>> /\ Len(updateDays) = 6
    BY <1>3 DEF WriteDeletes, calendarVars
  <2>2. DaysPicked' /\ CalendarInv'
    BY <2>1 DEF UpdateInv, CalendarInv, DaysPicked, calendarVars, CacheOfYear, WeekdayOfDate
  <2>3. (dayRows = <<>> \/ RowsDated)'
    BY <2>1 DEF UpdateInv, RowsDated
  <2> QED  BY <2>2, <2>3 DEF UpdateInv
<1>4. CASE (SetUpdateScaling \/ MkRefreshRow) /\ UNCHANGED <<date, weekday>>
  <2>1. UNCHANGED <<calendarVars, updateDays, thursdays, deletes>>
    BY <1>4 DEF SetUpdateScaling, MkRefreshRow, calendarVars
  <2>2. DaysPicked' /\ CalendarInv'
    BY <2>1 DEF UpdateInv, CalendarInv, DaysPicked, calendarVars, CacheOfYear, WeekdayOfDate
  <2>3. (dayRows = <<>> \/ RowsDated)'
    BY <1>4, ScalingStep, RefreshStep
  <2> QED  BY <2>2, <2>3 DEF UpdateInv
<1> QED  BY <1>1, <1>2, <1>3, <1>4 DEF UpdateNext, updateVars

\* Types of an update set, whatever years and rows are drawn (scaling.c).
THEOREM UpdateTypes == UpdateSpec => []UpdateTypeOK
<1>1. UpdateInv => UpdateTypeOK
  BY DEF UpdateInv, UpdateTypeOK, DaysPicked, RowsDated
<1> QED  BY UpdateInitInv, UpdateStepInv, <1>1, PTL DEF UpdateSpec

\* Whatever rows of the calendar are drawn, in whatever years that is_leap is
\* right of, and whatever days the program asks about in between: the days and
\* the Thursdays of an update set lie in their seasons as UpdateDaysInSeason
\* says, and its running totals date the rows so that each day gets what it has
\* in the warehouse (scaling.c: setUpdateDates, setUpdateScaling, getUpdateDate).
THEOREM UpdateSetFollows == UpdateSpec => []UpdateSetFollowsSales
<1>1. UpdateInv => UpdateDaysInSeason
  <2> SUFFICES ASSUME UpdateInv, NEW k \in 1 .. Len(updateDays) \div 2
               PROVE  DaysOfSeason(k, updateDays[2 * k - 1], updateDays[2 * k],
                                   thursdays[2 * k - 1], thursdays[2 * k])
    BY DEF UpdateDaysInSeason, DaysOfSeason, DayInSeason
  <2>1. k \in 1 .. 3 /\ 2 * k <= Len(updateDays)
    <3>1. 0 \div 2 = 0 /\ 2 \div 2 = 1 /\ 4 \div 2 = 2 /\ 6 \div 2 = 3
      BY Z3
    <3>2. PICK n \in {0, 2, 4, 6} : n = Len(updateDays) /\ k \in 1 .. n \div 2
      BY DEF UpdateInv, DaysPicked
    <3> QED  BY <3>1, <3>2
  <2> QED  BY <2>1 DEF UpdateInv, DaysPicked
<1>2. UpdateInv => RefreshRowsFollowSales
  <2> SUFFICES ASSUME RowsDated, RowsBuilt = dayRows.upto[6], NEW k \in 1 .. 6
               PROVE  refreshed[k] = DateScaling(dayRows.table, updateDays[k])
    BY DEF UpdateInv, RefreshRowsFollowSales
  <2>1. PICK upto \in [1 .. 6 -> Nat], built \in [1 .. 6 -> Nat] : /\ upto = dayRows.upto
                                                                 /\ built = refreshed
    BY DEF RowsDated
  <2>2. SumOfSix(built) = upto[6]
    BY <2>1, SumsTotal, BuiltIs
  <2>3. PICK rows \in Nat : rows = DateScaling(dayRows.table, updateDays[k])
    BY ScalingIsNat
  <2>4. /\ upto[k] = Before(upto, k) + rows /\ built[k] = PartOf(upto[6], Before(upto, k), upto[k])
        /\ upto[k] <= upto[6]
    BY <2>1, <2>2, <2>3 DEF RowsDated, PartsBuilt, Rising
  <2>5. Before(upto, k) \in Nat /\ upto[k] \in Nat /\ upto[6] \in Nat
    BY DEF Before
  <2>6. built[k] = rows
    BY <2>4, <2>5 DEF PartOf
  <2> QED  BY <2>1, <2>3, <2>6
<1>3. UpdateInv => UpdateSetFollowsSales
  BY <1>1, <1>2 DEF UpdateSetFollowsSales
<1> QED  BY UpdateInitInv, UpdateStepInv, <1>3, PTL DEF UpdateSpec
================================================================================
