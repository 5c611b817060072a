------------------------------ MODULE Calendar ------------------------------
(***************************************************************************)
(* Dates (date.c).  A date is kept both as a day of the calendar and as a  *)
(* number of days, julian; set_dow keeps the last year it was asked about  *)
(* between calls.  The machine is a program that owns one date and calls   *)
(* the functions on it in any order.                                       *)
(***************************************************************************)
EXTENDS Integers, Sequences, FiniteSets

CONSTANTS
  Julians,   \* the day numbers jtodt is called with
  Days       \* the <<year, month, day>> strtodt is called with

VARIABLES
  date,      \* the program's date_t
  weekday,   \* what set_dow answered for it, NoAnswer before it is asked
  dowCache   \* last_year, dday and known[1], known[2] of set_dow

calendarVars == <<date, weekday, dowCache>>

NoAnswer == -1

-----------------------------------------------------------------------------
(***************************************************************************)
(* Conversions.                                                            *)
(***************************************************************************)
IsLeap(y) == IF y % 100 = 0 THEN (y % 400) % 2 = 0 ELSE y % 4 = 0

\* m_days: the days of a year before its month m.
DaysBeforeMonth(y, m) ==
  <<0, 31, 59, 90, 120, 151, 181, 212, 243, 273, 304, 334>>[m]
    + (IF IsLeap(y) /\ m > 2 THEN 1 ELSE 0)

DayNumber(d) == DaysBeforeMonth(d.year, d.month) + d.day

DateToJulian(year, month, day) ==
  LET early == month <= 2
      y == IF early THEN year - 1 ELSE year
      m == IF early THEN month + 12 ELSE month
  IN  day + (153 * m - 457) \div 5 + 365 * y + y \div 4 - y \div 100
        + y \div 400 + 1721119

JulianToDate(julian) ==
  LET l0 == julian + 68569
      n == (4 * l0) \div 146097
      l1 == l0 - (146097 * n + 3) \div 4
      i == (4000 * (l1 + 1)) \div 1461001
      l2 == l1 - (1461 * i) \div 4 + 31
      j == (80 * l2) \div 2447
      l3 == j \div 11
  IN  [year |-> 100 * (n - 49) + i + l3, month |-> j + 2 - 12 * l3,
       day |-> l2 - (2447 * j) \div 80, julian |-> julian]

MkDate(year, month, day) ==
  [year |-> year, month |-> month, day |-> day,
   julian |-> DateToJulian(year, month, day)]

FirstOfMonth(d) == JulianToDate(d.julian - d.day + 1)

\* m_days counts the days before the month, so this is not its last day.
LastOfMonth(d) ==
  JulianToDate(d.julian - d.day + DaysBeforeMonth(d.year, d.month))

SameDayLastYear(d) ==
  IF IsLeap(d.year) /\ d.month = 2 /\ d.day = 29
  THEN MkDate(d.year - 1, 2, 28)
  ELSE MkDate(d.year - 1, d.month, d.day)

SameDayLastQuarter(d) ==
  LET quarter == (d.month - 1) \div 3
      start == DateToJulian(d.year, 3 * quarter + 1, 1)
      before == IF quarter = 0 THEN DateToJulian(d.year - 1, 10, 1)
                ELSE DateToJulian(d.year, 3 * quarter - 2, 1)
  IN  JulianToDate(d.julian - start + before)

-----------------------------------------------------------------------------
(***************************************************************************)
(* set_dow: the doomsday of the year, and known days of the months that    *)
(* fall on it.                                                             *)
(***************************************************************************)
\* Mutant: the doomsday is not reduced to a day of the week.
DoomsdayUnreduced(y) ==
  LET q == y % 100
      r == q % 12
  IN  <<3, 2, 0, 5>>[((y \div 100 - 15) % 4) + 1] + q \div 12 + r + r \div 4

Doomsday(y) ==
  LET q == y % 100
      r == q % 12
  IN  (<<3, 2, 0, 5>>[((y \div 100 - 15) % 4) + 1] + q \div 12 + r + r \div 4) % 7

\* Mutant: the known days of a leap year stay for the years after it.
DowCacheKept(y, cache) ==
  IF y = cache.lastYear THEN cache
  ELSE [lastYear |-> y, dday |-> Doomsday(y),
        known |-> IF IsLeap(y) THEN <<4, 1>> ELSE cache.known]

DowCache(y, cache) ==
  IF y = cache.lastYear THEN cache
  ELSE [lastYear |-> y, dday |-> Doomsday(y),
        known |-> IF IsLeap(y) THEN <<4, 1>> ELSE <<3, 0>>]

SetDow(d, cache) ==
  LET known == cache.known \o <<0, 4, 9, 6, 11, 8, 5, 10, 7, 12>>
  IN  (((d.day - known[d.month]) % 7) + cache.dday) % 7

-----------------------------------------------------------------------------
CalendarInit ==
  /\ date = MkDate(1998, 1, 1)
  /\ weekday = NoAnswer
  /\ dowCache = [lastYear |-> -1, dday |-> 0, known |-> <<3, 0>>]

DateBecomes(d) == date' = d /\ weekday' = NoAnswer /\ UNCHANGED dowCache

JToDT == \E julian \in Julians : DateBecomes(JulianToDate(julian))

StrToDT ==
  \E day \in Days : DateBecomes(MkDate(day[1], day[2], day[3]))

\* Asked of the days of date_dim, never of its own answers.
DateTOp ==
  /\ date.julian \in Julians
  /\ \E d \in {FirstOfMonth(date), LastOfMonth(date), SameDayLastYear(date),
               SameDayLastQuarter(date)} : DateBecomes(d)

AskDow ==
  /\ dowCache' = DowCache(date.year, dowCache)
  /\ weekday' = SetDow(date, dowCache')
  /\ UNCHANGED date

CalendarNext == JToDT \/ StrToDT \/ DateTOp \/ AskDow

CalendarSpec == CalendarInit /\ [][CalendarNext]_calendarVars

-----------------------------------------------------------------------------
(***************************************************************************)
(* The Gregorian calendar, counted from its rules.                         *)
(***************************************************************************)
GregorianLeap(y) == y % 4 = 0 /\ (y % 100 # 0 \/ y % 400 = 0)

GregorianMonth(y, m) ==
  CASE m \in {4, 6, 9, 11} -> 30
    [] m = 2 -> IF GregorianLeap(y) THEN 29 ELSE 28
    [] OTHER -> 31

\* The days since the last day of year 0: 400 years have 97 leap days.
GregorianDay(y, m, d) ==
  LET years == y - 1
      Month[k \in Nat] == IF k = 0 THEN 0 ELSE Month[k - 1] + GregorianMonth(y, k)
  IN  365 * years + 97 * (years \div 400)
        + Cardinality({c \in 1 .. years % 400 : GregorianLeap(c)}) + Month[m - 1] + d

Epoch == 1721425   \* the julian day number of the last day of year 0

\* Days are days of the calendar, and those taken back a year are after year 1.
ASSUME CalendarAssumption ==
  /\ Julians \subseteq {julian \in Nat : julian > Epoch + 365}
  /\ Days \subseteq {day \in (Nat \ {0}) \X (1 .. 12) \X (1 .. 31) :
                       day[3] <= GregorianMonth(day[1], day[2])}

CalendarTypeOK ==
  /\ date \in [year : Int, month : 1 .. 12, day : 1 .. 31, julian : Int]
  /\ weekday \in NoAnswer .. 6
  /\ dowCache.dday \in 0 .. 6 /\ dowCache.known \in {<<3, 0>>, <<4, 1>>}

\* is_leap takes every year divisible by 100 for a leap year; until the end
\* of February, and over the whole year for day_number, such a year is off.
Misjudged(y) == IsLeap(y) # GregorianLeap(y)

\* Whatever calls came before, the two forms of the program's date (date.c:
\* jtodt, dttoj, date_t_op) are the same day of the Gregorian calendar, and
\* set_dow, whose table and doomsday are left from the year of an earlier call,
\* names its weekday, except in January and February of a misjudged century.
CalendarIsGregorian ==
  /\ date.day \in 1 .. GregorianMonth(date.year, date.month)
  /\ date.julian = GregorianDay(date.year, date.month, date.day) + Epoch
  /\ \/ weekday \in {NoAnswer, (date.julian + 1) % 7}
     \/ Misjudged(date.year) /\ date.month <= 2
=============================================================================
