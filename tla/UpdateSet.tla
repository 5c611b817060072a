----------------------------- MODULE UpdateSet -----------------------------
(***************************************************************************)
(* The days of an update set and the rows of its orders (scaling.c, with   *)
(* print_delete of print.c).  setUpdateDates picks two days of each season *)
(* of the calendar and two Thursdays near them for inventory, and writes   *)
(* them to the delete files; setUpdateScaling gives every day the orders   *)
(* it would have in the warehouse; getUpdateDate dates the rows.           *)
(***************************************************************************)
EXTENDS Calendar

CONSTANTS
  UpdateYears,    \* years drawn, out of YEAR_MINIMUM .. YEAR_MAXIMUM
  UpdateRows,     \* rows of the calendar drawn
  SalesRows,      \* get_rowcount of the sales table of a refresh table
  InventoryRows   \* warehouses times items

VARIABLES
  updateDays,     \* arUpdateDates
  thursdays,      \* arInventoryUpdateDates
  deletes,        \* the ranges in the two delete files
  dayRows,        \* kDayRowcount of the refresh table being built
  refreshed       \* the rows built of it, by day

updateVars == <<updateDays, thursdays, deletes, dayRows, refreshed>>

\* is_leap is right of the years drawn.
ASSUME UpdateAssumption ==
  /\ UpdateYears \subseteq {y \in Nat : y > 1 /\ ~Misjudged(y)}
  /\ SalesRows \in Nat /\ InventoryRows \in Nat

-----------------------------------------------------------------------------
(***************************************************************************)
(* The calendar distribution: a row for each day of a leap year, with a    *)
(* column of weights for each season.  dist_weight does not check its row: *)
(* what it answers beyond the last one is whatever the memory holds.       *)
(***************************************************************************)
Seasons == << (1 .. 213) \ {60}, 214 .. 305, 306 .. 366 >>   \* low, medium, high

HasWeight(season, row) ==
  IF row \in 1 .. 366 THEN {row \in Seasons[season]} ELSE BOOLEAN

SalesWeight(row, leap) ==
  CASE row \in Seasons[1] -> 29 [] row \in Seasons[2] -> 66
    [] row \in Seasons[3] -> 100 [] OTHER -> IF leap THEN 29 ELSE 0

SalesWeightOfYear(leap) ==
  29 * 212 + 66 * 92 + 100 * 61 + (IF leap THEN 29 ELSE 0)

\* The month and the day of a row, in a year drawn after it.
SkewedJulianDate(row, year) ==
  LET d == JulianToDate(DateToJulian(2000, 1, 1) + row - 1) IN
  DateToJulian(year, d.month, d.day)

DayRow(julian) == DayNumber(JulianToDate(julian))

WeekdayOf(julian) ==
  LET d == JulianToDate(julian) IN SetDow(d, DowCache(d.year, dowCache))

-----------------------------------------------------------------------------
UpdateInit ==
  /\ updateDays = <<>> /\ thursdays = <<>>
  /\ deletes = [days |-> <<>>, inventory |-> <<>>]
  /\ dayRows = <<>> /\ refreshed = <<>>

\* One season of setUpdateDates.  The second day is the next one if the row
\* after the day's has weight; the first Thursday is that of the week, a week
\* before, or a week after; the second the next, or the one before.
PickSeason ==
  /\ Len(updateDays) < 6
  /\ LET season == Len(updateDays) \div 2 + 1
         rowAfter == IF season = 1 THEN 1 ELSE 0 IN
     \E row \in Seasons[season] \cap UpdateRows, year \in UpdateYears :
       LET first == SkewedJulianDate(row, year)
           thursday == first + 4 - WeekdayOf(first) IN
       \E tomorrow \in HasWeight(season, DayRow(first) + 1),
          this \in HasWeight(season, DayRow(thursday)),
          last \in HasWeight(season, DayRow(thursday - 7)) :
         LET inventory == IF this THEN thursday
                          ELSE IF last THEN thursday - 7 ELSE thursday + 7 IN
         \E next \in HasWeight(season, DayRow(inventory + 7) + rowAfter) :
           /\ updateDays' = updateDays \o
                <<first, IF tomorrow THEN first + 1 ELSE first - 1>>
           /\ thursdays' = thursdays \o
                <<inventory, IF next THEN inventory + 7 ELSE inventory - 7>>
           /\ dowCache' = DowCache(JulianToDate(first).year, dowCache)
  /\ UNCHANGED <<deletes, dayRows, refreshed>>

SeasonRanges(days) == [k \in 1 .. 3 |-> <<days[2 * k - 1], days[2 * k]>>]

WriteDeletes ==
  /\ Len(updateDays) = 6 /\ deletes.days = <<>>
  /\ deletes' = [days |-> SeasonRanges(updateDays), inventory |-> SeasonRanges(thursdays)]
  /\ UNCHANGED <<dowCache, updateDays, thursdays, dayRows, refreshed>>

-----------------------------------------------------------------------------
\* dateScaling of a sales table and of inventory.
DateScaling(table, julian) ==
  IF table = "inventory" THEN InventoryRows
  ELSE LET d == JulianToDate(julian)
           total == 5 * SalesWeightOfYear(IsLeap(d.year))
       IN  (SalesRows * SalesWeight(DayNumber(d), IsLeap(d.year)) + total \div 2)
             \div total

\* setUpdateScaling of one of the four tables.  The scaling of inventory too
\* goes by the days of the orders.
SetUpdateScaling ==
  /\ deletes.days # <<>> /\ dayRows = <<>>
  /\ \E table \in {"inventory", "sales"} :
       LET rows == [k \in 1 .. 6 |-> DateScaling(table, updateDays[k])]
           Upto[k \in 0 .. 6] == IF k = 0 THEN 0 ELSE Upto[k - 1] + rows[k]
       IN  dayRows' = [table |-> table, upto |-> [k \in 1 .. 6 |-> Upto[k]]]
  /\ refreshed' = [k \in 1 .. 6 |-> 0]
  /\ UNCHANGED <<dowCache, updateDays, thursdays, deletes>>

RowsBuilt ==
  LET Sum[k \in 0 .. 6] == IF k = 0 THEN 0 ELSE Sum[k - 1] + refreshed[k] IN Sum[6]

\* Mutant: the last order of a day is dated on the next.
DayIndexBelow(row) ==
  CHOOSE k \in 1 .. 6 :
    /\ k = 6 \/ row < dayRows.upto[k]
    /\ \A earlier \in 1 .. k - 1 : row >= dayRows.upto[earlier]

\* getUpdateDate: the index of the day of a row, the sixth at the latest.
DayIndex(row) ==
  CHOOSE k \in 1 .. 6 :
    /\ k = 6 \/ row <= dayRows.upto[k]
    /\ \A earlier \in 1 .. k - 1 : row > dayRows.upto[earlier]

MkRefreshRow ==
  /\ dayRows # <<>> /\ RowsBuilt < dayRows.upto[6]
  /\ refreshed' = [refreshed EXCEPT ![DayIndex(RowsBuilt + 1)] = @ + 1]
  /\ UNCHANGED <<dowCache, updateDays, thursdays, deletes, dayRows>>

UpdateNext == PickSeason \/ WriteDeletes \/ SetUpdateScaling \/ MkRefreshRow

\* The program asks the calendar of other days in between.
UpdateSpec ==
  /\ CalendarInit /\ UpdateInit
  /\ [][\/ UpdateNext /\ UNCHANGED <<date, weekday>>
        \/ CalendarNext /\ UNCHANGED updateVars]_<<calendarVars, updateVars>>

-----------------------------------------------------------------------------
UpdateTypeOK ==
  /\ Len(updateDays) \in {0, 2, 4, 6} /\ Len(thursdays) = Len(updateDays)
  /\ dayRows = <<>> \/ \A k \in 1 .. 6 : dayRows.upto[k] \in Nat /\ refreshed[k] \in Nat

\* The season of a day, counted from the true calendar.
SeasonOf(julian) ==
  LET d == JulianToDate(julian) IN
  IF d.month <= 7 THEN 1 ELSE IF d.month <= 10 THEN 2 ELSE 3

Apart(a, b, n) == b - a \in {n, -n}

\* The days of an update set (scaling.c: setUpdateDates, which looks days up by
\* their number in the year in a calendar of leap years, one row too early from
\* March on in other years): two adjacent days and two Thursdays a week apart,
\* in the season, but for a day just after the season's last one in a year that
\* is not a leap year, and for what memory beyond the calendar holds.
UpdateDaysInSeason ==
  \A k \in 1 .. Len(updateDays) \div 2 :
    LET first == updateDays[2 * k - 1]
        second == updateDays[2 * k]
        thursday == thursdays[2 * k - 1]
        other == thursdays[2 * k]
        InSeason(day) ==
          \/ SeasonOf(day) = k
          \/ SeasonOf(day - 1) = k /\ ~GregorianLeap(JulianToDate(day - 1).year)
    IN  /\ SeasonOf(first) = k /\ Apart(first, second, 1)
        /\ (thursday + 1) % 7 = 4 /\ Apart(thursday, other, 7)
        /\ InSeason(thursday) /\ InSeason(other)
        /\ InSeason(second) \/ DayRow(first) = 366

\* Every day of the update set gets the orders the warehouse has on such a day,
\* and every week of inventory its items, dated through running totals
\* (scaling.c: dateScaling, setUpdateScaling, getUpdateDate).
RefreshRowsFollowSales ==
  dayRows # <<>> /\ RowsBuilt = dayRows.upto[6] =>
    \A k \in 1 .. 6 : refreshed[k] = DateScaling(dayRows.table, updateDays[k])
\* The update set as the refresh run takes it (scaling.c): its days and, once
\* they are dated, its rows follow the calendar and the sales of the warehouse.
UpdateSetFollowsSales == UpdateDaysInSeason /\ RefreshRowsFollowSales
=============================================================================
