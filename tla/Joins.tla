------------------------------- MODULE Joins -------------------------------
(***************************************************************************)
(* Joins between tables (join.c, scd.c).  One table that keeps history is  *)
(* built row by row; facts and refresh rows refer to its rows, to the days *)
(* of date_dim and to the pages of the catalogs, by arithmetic alone.      *)
(***************************************************************************)
EXTENDS SurrogateKeys, Calendar

CONSTANTS
  HistoryTables,   \* table |-> its number and its rows
  SaleDays,        \* the days facts ask about
  CatalogRows,     \* rows of catalog_page
  ConcurrentSites, \* get_rowcount(CONCURRENT_WEB_SITES)
  SaleYears,       \* years of facts, out of YEAR_MINIMUM .. YEAR_MAXIMUM
  PickedDays,      \* picks of the calendar distribution
  PickedNumbers    \* picks within a range, beside its ends

VARIABLES
  history,         \* [table, rows] of the table built so far
  joined           \* what the last join refers to

joinVars == <<history, joined>>

CatalogsPerYear == 18
YearMinimum == 1998
YearMaximum == 2002
WebDateStagger == 17
WebPagesPerSite == 123
Today == DateToJulian(2003, 1, 8)
DateMinimum == DateToJulian(1998, 1, 1)
DateMaximum == DateToJulian(2002, 12, 31)

Nothing == [kind |-> "nothing"]

\* The data begin with the first year of the facts; a catalog has a page or more.
ASSUME JoinsAssumption ==
  /\ DataStart = DateMinimum
  /\ \A t \in DOMAIN HistoryTables :
       HistoryTables[t].number \in Nat /\ HistoryTables[t].rows \in Nat
  /\ SaleDays \subseteq {day \in Nat : DataStart <= day}
  /\ CatalogRows \in Nat /\ CatalogRows >= 6 * CatalogsPerYear
  /\ ConcurrentSites \in Nat \ {0}
  /\ SaleYears \subseteq YearMinimum .. YearMaximum /\ PickedDays \subseteq 1 .. 366
  /\ PickedNumbers \subseteq Int

\* Integer division of C, which truncates.
Quo(a, b) == IF a >= 0 THEN a \div b ELSE -((-a) \div b)
Rem(a, b) == a - b * Quo(a, b)

InRange(low, high) == {low, high} \cup (PickedNumbers \cap (low .. high))

-----------------------------------------------------------------------------
(***************************************************************************)
(* The table with history, and references to it.                           *)
(***************************************************************************)
OpenTable ==
  /\ history.table = "none"
  /\ \E t \in DOMAIN HistoryTables : history' = [table |-> t, rows |-> <<>>]
  /\ UNCHANGED joined

TableSize == HistoryTables[history.table].rows

MkVersion ==
  /\ history.table # "none" /\ Len(history.rows) < TableSize
  /\ history' = [history EXCEPT !.rows =
       Append(@, SCDKeys(Len(@) + 1, HistoryTables[history.table].number))]
  /\ UNCHANGED joined

TableBuilt == history.table # "none" /\ Len(history.rows) = TableSize

JoinVersion ==
  /\ TableBuilt
  /\ \E id \in 1 .. IDCount(TableSize), day \in SaleDays :
       joined' = [kind |-> "version", id |-> id, day |-> day,
                  row |-> SCDJoin(id, day, TableSize)]
  /\ UNCHANGED history

\* The refresh builders: getSKFromID, and getFirstSK of a key.
JoinRefresh ==
  /\ TableBuilt
  /\ \E id \in 1 .. IDCount(TableSize) :
       \E pick \in SKPicks(id) :
         joined' = [kind |-> "refresh", id |-> id, first |-> FirstSK(id),
                    row |-> SKFromID(id, pick)]
  /\ UNCHANGED history

-----------------------------------------------------------------------------
(***************************************************************************)
(* Days and times.                                                         *)
(***************************************************************************)
\* date_join of a sale: a weighted day, out of the 366 of the calendar, of a
\* year drawn before.  February 29 has no weight in other than leap years.
JoinSaleDay ==
  \E year \in SaleYears, pick \in PickedDays :
    /\ pick = 60 => IsLeap(year)
    /\ LET day == DateToJulian(year, 1, 1) + pick IN
       joined' = [kind |-> "sale", day |-> IF day > Today THEN -1 ELSE day]
    /\ UNCHANGED history

\* Least and greatest delays of the three tables of returns.
ShipDelay ==
  [store_returns |-> <<2, 90>>, catalog_returns |-> <<2, 90>>,
   web_returns |-> <<1, 120>>]

\* date_join of a return, and of a row without that special case.
JoinReturnDay ==
  /\ joined.kind = "sale" /\ joined.day # -1
  /\ \E t \in DOMAIN ShipDelay :
       \E delay \in InRange(2 * ShipDelay[t][1], 2 * ShipDelay[t][2]) :
         joined' = [kind |-> "return", of |-> joined.day, day |-> joined.day + delay]
  /\ UNCHANGED history

JoinTime ==
  \E hour \in {0, 8, 23}, secs \in {0, 3599} :
    /\ joined' = [kind |-> "time", second |-> hour * 3600 + secs]
    /\ UNCHANGED history

-----------------------------------------------------------------------------
(***************************************************************************)
(* Catalog pages: mk_w_catalog_page numbers the pages of 18 catalogs a     *)
(* year; cp_join looks for one of them.                                    *)
(***************************************************************************)
PagesPerCatalog ==
  (CatalogRows \div CatalogsPerYear) \div (YearMaximum - YearMinimum + 2)

CatalogOfPage(page) == (page - 1) \div PagesPerCatalog + 1

CatalogStart(catalog) ==
  LET interval == (catalog - 1) % CatalogsPerYear
      offset == CASE interval \in 0 .. 1 -> interval * 182
                  [] interval \in 2 .. 5 -> (interval - 2) * 91
                  [] OTHER               -> (interval - 6) * 30
  IN  DataStart + offset + ((catalog - 1) \div CatalogsPerYear) * 365

\* Mutant: the year of a day is taken to end after 364 days.
CatalogPageOnShortYears(day, type, page) ==
  LET offset == day - DataStart - 1
      inYear == Rem(offset, 364)
      catalogs == Quo(offset, 364) * CatalogsPerYear
        + (CASE type = 1 -> IF inYear > 183 THEN 1 ELSE 0
             [] type = 2 -> Quo(inYear, 91)
             [] type = 3 -> Quo(inYear, 31))
  IN  catalogs * PagesPerCatalog + page

\* cp_join: type is 1 bi-annual, 2 quarterly, 3 monthly.
CatalogPageOn(day, type, page) ==
  LET offset == day - DataStart - 1
      inYear == Rem(offset, 365)
      catalogs == Quo(offset, 365) * CatalogsPerYear
        + (CASE type = 1 -> IF inYear > 183 THEN 1 ELSE 0
             [] type = 2 -> Quo(inYear, 91)
             [] type = 3 -> Quo(inYear, 31))
  IN  catalogs * PagesPerCatalog + page

\* getCatalogNumberFromPage, for the refresh orders.
CatalogNumberFromPage(page) == page \div PagesPerCatalog

JoinCatalogPage ==
  \E day \in SaleDays \cap (DataStart .. DateMaximum + 1), type \in 1 .. 3 :
    \E page \in InRange(1, PagesPerCatalog) :
      LET sk == CatalogPageOn(day, type, page) IN
      /\ joined' = [kind |-> "page", day |-> day, page |-> sk,
                    catalog |-> CatalogNumberFromPage(sk)]
      /\ UNCHANGED history

-----------------------------------------------------------------------------
(***************************************************************************)
(* Web sites.  nParam is the revision count web_join multiplies by; the    *)
(* table of tables has -1 for web_site and web_page.  The first call reads *)
(* two dates it has freed: their difference, divided by more than twice    *)
(* itself, is 0 as long as the memory still holds a date.                  *)
(***************************************************************************)
SiteParam == -1
SiteDuration == (DateMaximum - DateMinimum) * ConcurrentSites
SiteOffset == 0

Staggered(site) ==
  DateMinimum - ((site * WebDateStagger) % SiteDuration) \div 2

IsReplaced(site) == site % 2 = 0
IsReplacement(site) == (site \div 2) % 2 # 0

SiteOpens(site) ==
  Staggered(site)
    + (IF IsReplaced(site) /\ IsReplacement(site)
       THEN SiteOffset * SiteDuration ELSE 0)

SiteCloses(site) ==
  Staggered(site) + SiteParam * SiteDuration
    - (IF IsReplaced(site) /\ ~IsReplacement(site)
       THEN Quo(SiteParam * SiteDuration, 2) ELSE 0)

\* mk_w_web_site: a site outlives none of its versions but the last.
SiteOfRow(row) ==
  LET first == row.key
      close == SiteCloses(first)
  IN  [opens |-> SiteOpens(first),
       closes |-> IF close > VersionEnd(first, HistoryTables["web_site"].number)
                  THEN Open ELSE close]

\* The creation of a page, before the sites of the data set are open.
PageCreated(page) ==
  LET first == Staggered(page \div WebPagesPerSite + 1) IN
  InRange(first, DateMinimum)

JoinPageCreation ==
  \E page \in {1, 122, 123, 2000} : \E day \in PageCreated(page) :
    /\ joined' = [kind |-> "creation", day |-> day]
    /\ UNCHANGED history

-----------------------------------------------------------------------------
JoinsInit ==
  /\ history = [table |-> "none", rows |-> <<>>]
  /\ joined = Nothing

\* A join keeps nothing for the next one, but for the sale a return is of.
FirstJoin ==
  /\ joined = Nothing
  /\ \/ JoinVersion \/ JoinRefresh \/ JoinSaleDay \/ JoinTime
     \/ JoinCatalogPage \/ JoinPageCreation

JoinsNext == OpenTable \/ MkVersion \/ FirstJoin \/ JoinReturnDay

JoinsSpec == JoinsInit /\ [][JoinsNext]_joinVars

-----------------------------------------------------------------------------
JoinsTypeOK ==
  /\ history.table \in DOMAIN HistoryTables \cup {"none"}
  /\ \A r \in DOMAIN history.rows :
       history.rows[r] \in [key : 1 .. r, begin : Int, end : Int, new : BOOLEAN]
  /\ joined.kind \in
       {"nothing", "version", "refresh", "sale", "return", "time", "page", "creation"}

\* The day a version of this table begins is a multiple of 6 days early.
Shift == 6 * HistoryTables[history.table].number

CurrentOn(version, day) ==
  version.begin <= day /\ (version.end = Open \/ day <= version.end)

\* The seconds of a day, which time_dim has a row for.
SecondsInDay == 86400

\* The table ends within the versions of the key whose first is in that row.
CutsKey(first) == KeyRow(TableSize + 1) = first

\* A reference by number and day (scd.c: matchSCDSK, scd_join, getFirstSK,
\* getSKFromID, getIDCount) is to a version of the key meant, as setSCDKeys
\* numbers them.  That of a fact is a row of the table, in which it is current
\* Shift days before the day asked about, for setSCDKeys moves its dates and
\* matchSCDSK does not; of a key that the end of the table cuts it may be the
\* last row instead.  That of a refresh row is a row of the table unless its key
\* is cut: getSKFromID draws from all the versions the key would have.
JoinedVersionIsCurrent ==
  TableBuilt =>
    /\ IDCount(TableSize) = Cardinality({r \in DOMAIN history.rows : history.rows[r].new})
    /\ joined.kind = "version" =>
         IF joined.day > DataEnd THEN joined.row = -1
         ELSE /\ joined.row \in DOMAIN history.rows
              /\ history.rows[joined.row].key = FirstSK(joined.id)
              /\ \/ CurrentOn(history.rows[joined.row], joined.day - Shift)
                 \/ joined.row = TableSize /\ CutsKey(FirstSK(joined.id))
    /\ joined.kind = "refresh" =>
         /\ history.rows[joined.first].new
         /\ KeyRow(joined.row) = joined.first
         /\ joined.row \in DOMAIN history.rows \/ CutsKey(joined.first)

\* Keys made by arithmetic (join.c: date_join, time_join, cp_join, web_join) are
\* rows of their tables: a sale falls in the years of the data or the two days
\* after them, a return two days or more after what it returns, a catalog page in
\* a catalog of the sale's year, and a page exists before its site's transactions
\* begin.
JoinsLandInTables ==
  /\ joined.kind = "sale" => joined.day \in DateMinimum + 1 .. DateMaximum + 2
  /\ joined.kind = "return" => joined.day >= joined.of + 2
  /\ joined.kind = "time" => joined.second \in 0 .. SecondsInDay - 1
  /\ joined.kind = "page" =>
       /\ joined.page \in 1 .. CatalogRows
       /\ (CatalogStart(CatalogOfPage(joined.page)) - DataStart) \div 365
            = Quo(joined.day - DataStart - 1, 365)
  /\ joined.kind = "creation" => joined.day <= DateMinimum

\* Facts refer to versions that are current and to rows that the tables have, and
\* refresh rows to those but for a key that the table cuts.
JoinsMatchTables == JoinedVersionIsCurrent /\ JoinsLandInTables

\* What the comment above web_join promises (join.c): the date of a transaction
\* lies within the lifetime of the site it is joined to.
TransactionsInSiteLifetime ==
  history.table = "web_site" /\ joined.kind = "version" /\ joined.row # -1 =>
    LET site == SiteOfRow(history.rows[joined.row]) IN
    /\ site.opens <= joined.day
    /\ site.closes = Open \/ joined.day <= site.closes
=============================================================================
