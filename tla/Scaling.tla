------------------------------ MODULE Scaling ------------------------------
(***************************************************************************)
(* The row counts of the tables (scaling.c, scaling.dst) and their         *)
(* division among the children of a build (parallel.c).  The first call of *)
(* get_rowcount fills a table in with the counts at the scale asked for;   *)
(* setUpdateScaling then gives the refresh tables that have days the       *)
(* counts of their days.  scaling.dst lists a count for nine scales; what  *)
(* lies between is scaled by the model of the table: static, linear in the *)
(* listed scales, or "logarithmic".                                        *)
(*                                                                         *)
(* A count is kept in units of its table: the multiplier of scaling.dst,   *)
(* twice that for a table that keeps history.  kNextInsertValue is left    *)
(* out: setUpdateScaling writes it for the refresh tables, getUpdateBase   *)
(* reads it S_BRAND entries lower, at warehouse tables, where it is 0.     *)
(***************************************************************************)
EXTENDS SplitWork, SurrogateKeys, SequencesExt

CONSTANTS
  GBs,           \* the scales asked for
  ScaledTables,  \* per table: the listed counts, the model and the unit
  RefreshRows,   \* rows of a refresh table on the days of an update set
  MaxTotal,      \* rows of a table that is split ...
  MaxParallel    \* ... among as many children

VARIABLES
  scale,      \* nScale, 0 until bScaleSet
  rowcounts,  \* kBaseRowcount of each table
  refreshes,  \* the refresh tables scaled, in the order of main
  split       \* the rows and the children of a call of split_work

scalingVars == <<scale, rowcounts, refreshes, split>>

ASSUME ScalingAssumption == MaxTotal \in Nat /\ MaxParallel \in Nat

-----------------------------------------------------------------------------
\* arScaleVolume.
Volume == <<1, 10, 100, 300, 1000, 3000, 10000, 30000, 100000>>

ScaleSlot(gb) == Min({i \in DOMAIN Volume : gb <= Volume[i]})

\* What is left of gb when all volumes from the i-th on are taken out.
LeftBelow(gb) ==
  LET Left[i \in 1 .. 10] == IF i = 10 THEN gb ELSE Left[i + 1] % Volume[i] IN Left

LinearScale(listed, gb) ==
  MapThenSumSet(LAMBDA i : listed[i] * (LeftBelow(gb)[i + 1] \div Volume[i]), 1 .. 9)

\* The part of the way from slot to slot is added to the count at 1 GB.  It is
\* a float: where it would come out whole, one row may be lost.
LogScale(listed, gb, lost) ==
  LET i == ScaleSlot(gb)
      way == (gb - Volume[i - 1]) * (IF listed[i] >= listed[i - 1]
                                     THEN listed[i] - listed[i - 1]
                                     ELSE listed[i - 1] - listed[i])
      between == Volume[i] - Volume[i - 1]
      rows == way \div between - (IF way > 0 /\ way % between = 0 THEN lost ELSE 0)
  IN  listed[1] + (IF listed[i] >= listed[i - 1] THEN rows ELSE -rows)

StaticScale(listed) == listed[1]

CountAt(table, gb, lost) ==
  IF \E i \in DOMAIN Volume : Volume[i] = gb
  THEN table.listed[ScaleSlot(gb)]
  ELSE CASE table.model = "linear" -> LinearScale(table.listed, gb)
         [] table.model = "log"    -> LogScale(table.listed, gb, lost)
         [] table.model = "static" -> StaticScale(table.listed)

Filled(gb, lost) == [t \in DOMAIN ScaledTables |->
                       [count |-> CountAt(ScaledTables[t], gb, lost),
                        unit |-> ScaledTables[t].unit]]

\* get_rowcount of a table that has a count of its own.
Rowcount(t) == rowcounts[t].count * rowcounts[t].unit

\* sc_w_inventory: an item in a warehouse has a row for each week of the 1826
\* days from DATE_MINIMUM to DATE_MAXIMUM.
Weeks == (1826 + 6) \div 7
InventoryPerWarehouse == IDCount(Rowcount("item")) * Weeks

-----------------------------------------------------------------------------
ScalingInit == scale = 0 /\ rowcounts = <<>> /\ refreshes = <<>> /\ split = <<1, 1>>

\* get_rowcount before bScaleSet.
GetRowcount ==
  /\ scale = 0
  /\ \E gb \in GBs, lost \in {0, 1} : scale' = gb /\ rowcounts' = Filled(gb, lost)
  /\ UNCHANGED <<refreshes, split>>

\* main -update, driver.c.
RefreshOrder == <<"s_purchase", "s_web_order", "s_catalog_order", "s_inventory">>

\* Mutant: the counts are filled in after the first refresh table's is set.
RefreshedLosing(counts, t) ==
  IF scale = 0 THEN counts ELSE [counts EXCEPT ![t] = [count |-> RefreshRows, unit |-> 1]]

Refreshed(counts, t) == [counts EXCEPT ![t] = [count |-> RefreshRows, unit |-> 1]]

\* setUpdateScaling; dateScaling asks for the rows of the sales table, which
\* fills the counts in if nothing did before.
ScaleRefresh ==
  /\ Len(refreshes) < Len(RefreshOrder)
  /\ LET t == RefreshOrder[Len(refreshes) + 1] IN
       /\ \/ scale # 0 /\ rowcounts' = Refreshed(rowcounts, t) /\ UNCHANGED scale
          \/ scale = 0 /\ \E gb \in GBs, lost \in {0, 1} :
               scale' = gb /\ rowcounts' = Refreshed(Filled(gb, lost), t)
       /\ refreshes' = Append(refreshes, t)
  /\ UNCHANGED split

\* split_work, a table of total rows.
Split ==
  /\ split = <<1, 1>>
  /\ \E total \in 1 .. MaxTotal, n \in 1 .. MaxParallel : split' = <<total, n>>
  /\ UNCHANGED <<scale, rowcounts, refreshes>>

ScalingNext == GetRowcount \/ ScaleRefresh \/ Split

ScalingSpec == ScalingInit /\ [][ScalingNext]_scalingVars

-----------------------------------------------------------------------------
ScalingTypeOK ==
  /\ scale \in GBs \cup {0}
  /\ scale # 0 => \A t \in DOMAIN ScaledTables :
                    rowcounts[t].count \in Int /\ rowcounts[t].unit \in Nat

\* The row counts are those of scaling.dst whoever asks first and whatever the
\* update set changes (scaling.c: get_rowcount, LinearScale, setUpdateScaling):
\* listed scales have the listed counts, the sales tables the multiple of their
\* count at 1 GB at every scale, refresh tables once scaled the rows of their
\* days, and the row numbers of inventory fit the int mk_w_inventory divides.
RowcountsHold ==
  scale # 0 =>
    \A t \in DOMAIN ScaledTables :
      LET table == ScaledTables[t]
          count == rowcounts[t].count
      IN  /\ t \in Range(refreshes) => Rowcount(t) = RefreshRows
          /\ t \notin Range(refreshes) =>
               /\ \A i \in DOMAIN Volume : Volume[i] = scale => count = table.listed[i]
               /\ table.model = "linear" => count = scale * table.listed[1]
          /\ InventoryPerWarehouse <= 2147483647 \div Rowcount("warehouse")

\* "Other values ... are generated using the interpolation method defined for
\* each table" (scaling.dst:43): between two listed scales a table that is
\* scaled logarithmically has no fewer rows than at one of them and no more
\* than at the other (scaling.c: LogScale).
ScaledBetween ==
  scale \in GBs \ Range(Volume) =>
    \A t \in DOMAIN ScaledTables :
      ScaledTables[t].model = "log" =>
        LET i == ScaleSlot(scale)
            ends == {ScaledTables[t].listed[i - 1], ScaledTables[t].listed[i]}
        IN  rowcounts[t].count \in Min(ends) .. Max(ends)

\* The children of a build build every row and none twice, and the chunks that
\* tests/chunked_data.sh compares start at the same row when it says so
\* (parallel.c: split_work).
EveryRowOnce ==
  LET total == split[1] n == split[2] IN
  /\ ChunksCover(total, n) /\ ChunksDisjoint(total, n)
  /\ HalvedBuildsAlign(total, n)
=============================================================================
