----------------------------- MODULE MCToolkit -----------------------------
(***************************************************************************)
(* Values for the parts of the toolkit: days around every boundary of the  *)
(* calendar and of the data's years, the tables of the kit that keep       *)
(* history with as many rows as make every case of the surrogate keys      *)
(* occur, a small generator of random numbers, and two query templates.    *)
(***************************************************************************)
EXTENDS Toolkit

\* Calendar: century years, leap days, the ends of the years of the data.
MCJulians ==
  {2415021, 2450814, 2450815, 2452122, 2452123} \cup (2415079 .. 2415081)
    \cup (2451601 .. 2451606) \cup (2451908 .. 2451912) \cup (2488128 .. 2488130)
MCDays ==
  {<<1900, 1, 2>>, <<1996, 2, 29>>, <<1999, 12, 31>>, <<2000, 2, 29>>,
   <<2000, 3, 31>>, <<2001, 7, 31>>, <<2100, 3, 1>>}

\* Joins: numbers of the tables of tdefs.h; days at the ends of versions.
MCHistoryTables ==
  [item |-> [number |-> 11, rows |-> 12], web_site |-> [number |-> 23, rows |-> 9],
   web_page |-> [number |-> 20, rows |-> 8], store |-> [number |-> 15, rows |-> 11],
   call_center |-> [number |-> 0, rows |-> 7]]
MCSaleDays ==
  {2450816, 2451180, 2451181, 2452640, 2453005, 2453006}
    \cup (2451544 .. 2451546) \cup (2451909 .. 2451911) \cup (2452274 .. 2452276)

\* Scaling: tables of each model; the listed counts are those of scaling.dst.
Listed(model, unit, counts) == [model |-> model, unit |-> unit, listed |-> counts]
MCScaledTables ==
  [catalog_sales |-> Listed("linear", 10000,
     <<16, 160, 1600, 4800, 16000, 48000, 160000, 480000, 1600000>>),
   web_sales |-> Listed("linear", 1000,
     <<60, 600, 6000, 18000, 60000, 180000, 600000, 1800000, 6000000>>),
   customer |-> Listed("log", 1000,
     <<100, 500, 2000, 5000, 12000, 30000, 65000, 80000, 100000>>),
   item |-> Listed("log", 2000, <<9, 51, 102, 132, 150, 180, 201, 231, 251>>),
   warehouse |-> Listed("log", 1, <<5, 10, 15, 17, 20, 22, 25, 27, 30>>),
   web_site |-> Listed("log", 2, <<15, 21, 12, 21, 27, 33, 39, 42, 48>>),
   catalog_page |-> Listed("static", 1,
     <<11718, 12000, 20400, 26000, 30000, 36000, 40000, 46000, 50000>>),
   s_purchase |-> Listed("static", 1000, <<8, 8, 80, 240, 800, 2400, 8000, 24000, 180000>>),
   s_web_order |-> Listed("static", 1000, <<4, 20, 40, 120, 400, 1200, 4000, 12000, 40000>>),
   s_catalog_order |-> Listed("static", 100, [i \in 1 .. 9 |-> -1]),
   s_inventory |-> Listed("static", 100, <<1, 10, 100, 300, 1000, 3000, 10000, 30000, 100000>>)]
MCGBs == {1, 2, 7, 10, 20, 100, 150, 205, 300, 999, 1000, 3000, 4500, 10000, 30000, 60000, 100000}

\* Printed rows: all columns null, every other one, the first and the last.
MCNullDraws == {0 .. 30, {b \in 0 .. 30 : b % 2 = 0}, {b \in 0 .. 30 : b % 2 = 1}, {0}, {30}}

\* Random numbers: 3 generates all residues of the prime 31.
MCTableOf == [s \in 0 .. 2 |-> IF s = 0 THEN "a" ELSE "b"]
MCRanges == {<<1, 5>>, <<0, 40>>}

\* Pricing: the limits of the sales tables, in hundredths.
MCChannels == [catalog |-> [quantity |-> 100, markup |-> 200],
               store |-> [quantity |-> 100, markup |-> 100]]

\* Parameters: one option of each kind, an abbreviation of two, an unknown one,
\* and a file that sets what the command line may have set.
MCOptions ==
  [SCALE |-> [type |-> "value", default |-> "1"],
   _SCALE_INDEX |-> [type |-> "value", default |-> "1"],
   QUIET |-> [type |-> "flag", default |-> "N"],
   PARAMS |-> [type |-> "file", default |-> ""],
   PARALLEL |-> [type |-> "value", default |-> ""],
   HELP |-> [type |-> "exit", default |-> "0"]]
MCMeans ==
  ("-scale" :> {"SCALE"}) @@ ("-s" :> {"SCALE"}) @@ ("-quiet" :> {"QUIET"})
    @@ ("-par" :> {"PARAMS", "PARALLEL"}) @@ ("-params" :> {"PARAMS"})
    @@ ("-parallel" :> {"PARALLEL"}) @@ ("-help" :> {"HELP"}) @@ ("-zzz" :> {})
MCPlainWords == {"1", "10", "f", "g", "Y"}
MCFiles ==
  ("f" :> << <<"-s", "100">>, <<"-zzz", "1">>, <<"-parallel", "10">>, <<"-scale", "10">> >>)
    @@ ("g" :> << <<"-quiet", "Y">>, <<"-scale", "10">> >>)
MCScaleIndexOf ==
  [w \in MCPlainWords \cup DOMAIN MCMeans \cup {"100"} |->
     CASE w = "10" -> "2" [] w = "100" -> "3" [] OTHER -> "1"]

\* Distributions: a name in two spellings, rows that weigh nothing.
MCLowerCase == [n \in {"syllables", "Syllables", "colors"} |->
                  IF n = "colors" THEN n ELSE "syllables"]
MCTypeLists == {<<"int", "varchar">>}
MCRows == {[v |-> <<"1", "x">>, w |-> <<2, 0>>], [v |-> <<"7", "y">>, w |-> <<0, 1>>]}
MCLabels == <<"name", "size", "uniform", "skewed">>

\* Queries: a template that dates by a year, one that picks members of a list.
Constant(name, t) == [name |-> name, kind |-> "constant", parts |-> 1, text |-> t]
At(name, element) == [name |-> name, element |-> element]
MCDialect == <<Constant("__LIMITC", 7), Constant("_BEGIN", 8), Constant("_END", 9)>>
MCTemplates ==
  << [defines |->
        << [name |-> "YEAR", kind |-> "random", parts |-> 1, min |-> 1999, max |-> 2000],
           [name |-> "SDATE", kind |-> "date", parts |-> 1, ref |-> "YEAR", element |-> 1,
            from |-> <<1, 31>>, to |-> <<3, 1>>] >>,
      text |-> <<At("SDATE", 1), At("YEAR", 1), At("SDATE", 1)>>],
     [defines |->
        << [name |-> "IDX", kind |-> "ulist", parts |-> 2, size |-> 3],
           [name |-> "CLASS", kind |-> "text", parts |-> 1,
            choices |-> <<[weight |-> 1, text |-> 21], [weight |-> 2, text |-> 22]>>],
           [name |-> "CATEGORY", kind |-> "member", parts |-> 1, ref |-> "IDX",
            element |-> 2] >>,
      text |-> <<At("IDX", 2), At("CATEGORY", 1), At("IDX", 1), At("CLASS", 1),
                 At("_QUERY", 1)>>] >>
MCNameRank ==
  LET names == <<"__LIMITC", "_BEGIN", "_END", "_QUERY", "CATEGORY", "CLASS", "IDX",
                 "SDATE", "YEAR">> IN
  [n \in Range(names) |-> CHOOSE i \in DOMAIN names : names[i] = n]
MCMembers == <<31, 32, 33>>

\* Values: ranges of one number and of four, rows that repeat a text, days with
\* the ends of seasons and of a leap February.
MCSpans == {<<1, 1>>, <<5, 7>>, <<0, 3>>}
MCStrayNumbers == {-4, 0, 7}
MCColumns == {<<"a">>, <<"a", "b", "a">>, <<"a", "b", "c">>}
MCPeriods == {<<2451601, 2451604>>, <<2451174, 2451180>>, <<2451390, 2451394>>,
              <<2451544, 2451549>>}

\* Fields: values at the bounds of their kinds, with keys of three letters for
\* half; the syllables of english.dst; a category of four classes and one of 16.
MCFieldValues ==
  [integer |-> {-1, 0, 7}, char |-> {"N"}, boolean |-> {0, 1},
   varchar |-> {"NULL", "", "bar"},
   decimal |-> {[number |-> n, precision |-> 2] : n \in {-12345, -100, -5, 0, 5, 99, 1000}},
   key |-> {-1, 0, 1, 2450815}, id |-> {-1, 0, 1, 15, 16, 4095, 4096, 4097, 16777215},
   date |-> {-1, 0, 2415022, 2450815, 2451604, 2488069},
   time |-> {-1, 0, 59, 60, 3599, 3600, 86399}, word |-> {0, 1, 9, 10, 101, 999, 1010},
   company |-> 1 .. 6]
MCSyllableLengths == <<3, 5, 4, 3, 3, 4, 5, 5, 4, 4>>
MCBrandCounts == <<<<2, 1, 4, 3>>, [class \in 1 .. 16 |-> 8]>>
=============================================================================
