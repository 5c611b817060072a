--------------------------- MODULE Distributions ---------------------------
(***************************************************************************)
(* Distributions (dcgram.c, dcomp.c, dist.c).  distcomp reads the          *)
(* statements of the .dst files and writes one binary file; the generators *)
(* read its index on the first lookup and a distribution when it is first  *)
(* asked for.  A value and an integer are one cell of the file each, so    *)
(* offsets count cells.                                                    *)
(***************************************************************************)
EXTENDS Integers, SequencesExt

CONSTANTS
  DistNames, LowerCase,   \* names as written, and their letters' lower case
  TypeLists, WeightCounts,\* arguments of "set types" and "set weights"
  Labels,                 \* names for values and weights
  Rows,                   \* arguments of "add": values and weights, [v, w]
  MaxDistributions, MaxRows

VARIABLES
  entries,      \* pDistIndex->pEntries
  declared,     \* what the statements said: [name, types, rows], by their order
  compiler,     \* "reading", "failed" or "written"
  file,         \* the cells of tpcds.idx
  index,        \* the process's idx: lower-case name |-> entry, once it is read
  loaded        \* lower-case name |-> distribution, for those asked for

distVars == <<entries, declared, compiler, file, index, loaded>>

DistributionsInit ==
  /\ entries = <<>> /\ declared = <<>> /\ compiler = "reading"
  /\ file = <<>> /\ index = <<>> /\ loaded = <<>>

SumTo(s, n) == FoldLeft(LAMBDA total, x : total + x, 0, SubSeq(s, 1, n))
Total(s) == SumTo(s, Len(s))

-----------------------------------------------------------------------------
(***************************************************************************)
(* The compiler: a statement is about the last distribution created.       *)
(***************************************************************************)
Current == entries[Len(entries)]
ReadStatement(entry, said) ==
  /\ entries' = [entries EXCEPT ![Len(entries)] = entry]
  /\ declared' = [declared EXCEPT ![Len(entries)] = said]
  /\ UNCHANGED <<compiler, file, index, loaded>>
Refused ==
  /\ compiler' = "failed"
  /\ UNCHANGED <<entries, declared, file, index, loaded>>

AddDistribution(name) ==
  IF \E i \in DOMAIN entries : LowerCase[entries[i].name] = LowerCase[name]
  THEN Refused
  ELSE
    /\ Len(entries) < MaxDistributions
    /\ entries' = Append(entries, [name |-> name, types |-> <<>>, weightSets |-> <<>>,
         valueSets |-> <<>>, names |-> <<>>, strings |-> <<>>, length |-> 0])
    /\ declared' = Append(declared, [name |-> name, types |-> <<>>, weights |-> 0, rows |-> <<>>])
    /\ UNCHANGED <<compiler, file, index, loaded>>

ProcessNames ==
  IF Current.types = <<>> \/ Current.weightSets = <<>>
  THEN Refused
  ELSE LET wanted == Len(Current.types) + Len(Current.weightSets) IN
    /\ Current.names = <<>>
    /\ ReadStatement([Current EXCEPT !.names = SubSeq(Labels, 1, wanted)], Last(declared))

\* The .dst files set types and weights once, before the first row.
ProcessSet ==
  /\ entries # <<>> /\ Current.length = 0
  /\ \/ \E types \in TypeLists :
          /\ Current.types = <<>>
          /\ ReadStatement([Current EXCEPT !.types = types, !.valueSets = [i \in DOMAIN types |-> <<>>]],
                           [Last(declared) EXCEPT !.types = types])
     \/ \E n \in WeightCounts :
          /\ Current.weightSets = <<>>
          /\ ReadStatement([Current EXCEPT !.weightSets = [i \in 1 .. n |-> <<>>]],
                           [Last(declared) EXCEPT !.weights = n])
     \/ ProcessNames

\* A row takes as many values and weights as were declared.
ProcessAdd(row) ==
  /\ entries # <<>>
  /\ IF Current.types = <<>> \/ Current.weightSets = <<>>
     THEN Refused
     ELSE LET values == SubSeq(row.v, 1, Len(Current.types))
              weights == SubSeq(row.w, 1, Len(Current.weightSets)) IN
       /\ Current.length < MaxRows
       /\ ReadStatement(
            [Current EXCEPT
               !.valueSets = [i \in DOMAIN @ |-> Append(@[i], Len(Current.strings) + i - 1)],
               !.weightSets = [i \in DOMAIN @ |-> Append(@[i], weights[i])],
               !.strings = @ \o values,
               !.length = @ + 1],
            [Last(declared) EXCEPT !.rows = Append(@, [v |-> values, w |-> weights])])

ParseFile ==
  /\ compiler = "reading"
  /\ \/ \E name \in DistNames : AddDistribution(name)
     \/ ProcessSet
     \/ \E row \in Rows : ProcessAdd(row)

-----------------------------------------------------------------------------
(***************************************************************************)
(* The file: a count, the distributions one after the other, the index.    *)
(***************************************************************************)
Body(e) == e.types \o FlattenSeq(e.weightSets) \o FlattenSeq(e.valueSets) \o e.names \o e.strings

Offset(i) == 1 + Len(FlattenSeq([k \in 1 .. i - 1 |-> Body(entries[k])]))

IndexEntry(i) ==
  LET e == entries[i] IN
  [name |-> e.name, offset |-> Offset(i), str_space |-> Len(e.strings), length |-> e.length,
   w_width |-> Len(e.weightSets), v_width |-> Len(e.types), name_space |-> Len(e.names)]

WriteIndex ==
  /\ compiler = "reading" /\ entries # <<>>
  /\ compiler' = "written"
  /\ file' = <<Len(entries)>> \o FlattenSeq([i \in DOMAIN entries |-> Body(entries[i])])
                              \o [i \in DOMAIN entries |-> IndexEntry(i)]
  /\ UNCHANGED <<entries, declared, index, loaded>>

-----------------------------------------------------------------------------
(***************************************************************************)
(* The generators.  Weights are summed up while they are read.             *)
(***************************************************************************)
ReadIndex ==
  LET count == file[1]
      At(i) == file[Len(file) - count + i] IN
  [n \in {LowerCase[At(i).name] : i \in 1 .. count} |->
     At(CHOOSE i \in 1 .. count : LowerCase[At(i).name] = n)]

LoadDist(e) ==
  LET At(from, n) == SubSeq(file, e.offset + from + 1, e.offset + from + n)
      weights == e.v_width
      values == weights + e.w_width * e.length
      names == values + e.v_width * e.length
      Summed(s) == [j \in DOMAIN s |-> SumTo(s, j)] IN
  [types |-> At(0, e.v_width),
   length |-> e.length,
   weight_sets |-> [i \in 1 .. e.w_width |-> Summed(At(weights + (i - 1) * e.length, e.length))],
   maximums |-> [i \in 1 .. e.w_width |-> Total(At(weights + (i - 1) * e.length, e.length))],
   value_sets |-> [i \in 1 .. e.v_width |-> At(values + (i - 1) * e.length, e.length)],
   names |-> At(names, e.name_space),
   strings |-> At(names + e.name_space, e.str_space)]

\* A name that is not in the index loads nothing, and its callers stop.
FindDist(name) ==
  LET key == LowerCase[name]
      known == IF index = <<>> THEN ReadIndex ELSE index IN
  /\ compiler = "written"
  /\ key \in DOMAIN known \ DOMAIN loaded
  /\ index' = known
  /\ loaded' = [n \in DOMAIN loaded \cup {key} |->
                  IF n = key THEN LoadDist(known[key]) ELSE loaded[n]]
  /\ UNCHANGED <<entries, declared, compiler, file>>

DistributionsNext ==
  \/ ParseFile
  \/ WriteIndex
  \/ \E name \in DistNames : FindDist(name)

\* dist_op picks the first row whose summed weight reaches a level out of
\* 1 .. maximum; dist_op and dist_weight of a given row.
PickRow(d, wset, level) ==
  CHOOSE i \in 1 .. d.length :
    /\ level <= d.weight_sets[wset][i]
    /\ \A j \in 1 .. i - 1 : level > d.weight_sets[wset][j]

DistMember(d, row, vset) == d.strings[d.value_sets[vset][row] + 1]

\* Mutant: the running total is taken for the weight.
DistWeightTotal(d, row, wset) == d.weight_sets[wset][row]

DistWeight(d, row, wset) ==
  d.weight_sets[wset][row] - (IF row > 1 THEN d.weight_sets[wset][row - 1] ELSE 0)

\* The place of a name among those of the values, or of the weights. The name of
\* the first weight is never found, which gives -1; a name that is none of all
\* gives -1 for a value and the place after the last one for a weight.
DistNameIndex(d, kind, name) ==
  LET v_width == Len(d.types)
      found == CHOOSE i \in 0 .. Len(d.names) :
                 /\ i < Len(d.names) => d.names[i + 1] = name
                 /\ \A j \in 0 .. i - 1 : d.names[j + 1] # name IN
  CASE d.names = <<>> -> -1
    [] kind = "value" /\ found < v_width -> found + 1
    [] kind = "weight" /\ found > v_width -> found - v_width + 1
    [] OTHER -> -1

\* bitmap_to_dist, one distribution after the other: a number becomes a
\* combination of rows.
BitmapToDist(number, sizes) ==
  [i \in DOMAIN sizes |->
     1 + ((number \div FoldLeft(LAMBDA p, x : p * x, 1, SubSeq(sizes, 1, i - 1))) % sizes[i])]

-----------------------------------------------------------------------------
Source(key) == CHOOSE i \in DOMAIN declared : LowerCase[declared[i].name] = key

\* Whatever the statements and the order of the lookups, a loaded distribution is
\* the one that was written under its name: its rows hold the values and weights
\* of the source, a row is picked by as many levels as it weighs, under every set
\* of weights, and a value's name finds its column (dcgram.c, dcomp.c: WriteIndex,
\* dist.c: find_dist, load_dist, dist_op, dist_weight, DistNameIndex).
LoadedIsSource ==
  \A key \in DOMAIN loaded :
    LET d == loaded[key]
        s == declared[Source(key)] IN
    /\ d.types = s.types /\ d.length = Len(s.rows)
    /\ \A r \in DOMAIN s.rows :
         /\ \A c \in DOMAIN s.types : DistMember(d, r, c) = s.rows[r].v[c]
         /\ \A w \in 1 .. s.weights :
              /\ DistWeight(d, r, w) = s.rows[r].w[w]
              /\ s.rows[r].w[w] = Len(SelectSeq([l \in 1 .. d.maximums[w] |-> PickRow(d, w, l)],
                                                LAMBDA row : row = r))
    /\ d.names # <<>> =>
         \A c \in DOMAIN s.types : DistNameIndex(d, "value", Labels[c]) = c

\* The keys of a table of demographics stand for every combination of the rows of
\* its distributions, once (build_support.c: bitmap_to_dist, its callers).
EveryCombinationOnce ==
  \A a, b \in DOMAIN loaded :
    LET sizes == <<loaded[a].length, loaded[b].length>>
        keys == 0 .. sizes[1] * sizes[2] - 1 IN
    {BitmapToDist(k, sizes) : k \in keys} = (1 .. sizes[1]) \X (1 .. sizes[2])
\* What the builders of tables take for granted of the distributions they load
\* (dist.c, build_support.c).
DistributionsUsable == LoadedIsSource /\ EveryCombinationOnce
=============================================================================
