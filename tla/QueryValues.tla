----------------------------- MODULE QueryValues -----------------------------
(***************************************************************************)
(* What the functions of a template answer (eval.c, permute.c, and         *)
(* genrand_date of genrand.c): a value, or with LIST, ULIST or RANGE       *)
(* several values, values that differ, or the ends of a range. The program *)
(* is an expression that one query after another evaluates; it keeps its   *)
(* permutation, which every ULIST permutes further. A permutation has no   *)
(* bound: what is asked of it beyond its end is what the memory holds.     *)
(***************************************************************************)
EXTENDS UpdateSet, SequencesExt

CONSTANTS
  Spans,         \* <<min, max>> of RANDOM
  Counts,        \* how many values LIST and ULIST are to answer; weights of a text
  Shares,        \* percentages RANGE is given
  StrayNumbers,  \* what the memory after a permutation may hold
  Columns,       \* the texts of a distribution's rows, or of TEXT's choices
  Periods        \* the first and the last day DATE is given

VARIABLES
  expression,    \* the expression: its function, its suffix, its arguments
  valueOrder,    \* pPermute, pPermuteKey of the expression
  answer         \* pBuf: the values; picked: the value a range was drawn around

valueVars == <<expression, valueOrder, answer>>

NoExpression == [function |-> "none"]
NoText == ""
Unevaluated == [values |-> <<>>, picked |-> 0, stray |-> FALSE]
Answer(values) == [Unevaluated EXCEPT !.values = values]

-----------------------------------------------------------------------------
(***************************************************************************)
(* Permutations: entry i changes places with one that is drawn.            *)
(***************************************************************************)
\* Mutant: the other entry does not get entry i.
MakePermutationOneWay(numbers, drawn) ==
  FoldLeft(LAMBDA s, i : [s EXCEPT ![i] = s[drawn[i]]],
           IF numbers = <<>> THEN [i \in DOMAIN drawn |-> i] ELSE numbers,
           [i \in DOMAIN drawn |-> i])

MakePermutation(numbers, drawn) ==
  FoldLeft(LAMBDA s, i : [s EXCEPT ![i] = s[drawn[i]], ![drawn[i]] = s[i]],
           IF numbers = <<>> THEN [i \in DOMAIN drawn |-> i] ELSE numbers,
           [i \in DOMAIN drawn |-> i])

\* The first n entries of a permutation, those beyond its end included.
EntriesOf(order, n) ==
  {[i \in 1 .. n |-> IF i <= Len(order) THEN order[i] ELSE beyond[i]] :
     beyond \in [Len(order) + 1 .. n -> StrayNumbers]}

-----------------------------------------------------------------------------
(***************************************************************************)
(* Ranges. The end moves up until it is the maximum, then the beginning    *)
(* moves down; an end drawn at the maximum never is it again.              *)
(***************************************************************************)
\* Mutant: the end does not stop at the maximum.
RangeAroundUnturned(min, max, picked, percent) ==
  <<picked, picked + ((max - min) * percent) \div 100>>

RangeAround(min, max, picked, percent) ==
  LET total == ((max - min) * percent) \div 100
      high == IF picked < max /\ picked + total > max THEN max ELSE picked + total
  IN  <<picked - (total - (high - picked)), high>>

\* genrand_date, for a range within a year: the weights are those of the days
\* that follow the day of the month, and the first walk leaves the last day out.
Walked(begin, days) ==
  FoldLeft(LAMBDA sums, k :
             Append(sums, Last(sums) + SalesWeight(begin.day + k - 1, IsLeap(begin.year))),
           <<0>>, [k \in 1 .. days |-> k])
GenrandDate(begin, end, pick) ==
  LET range == end.julian - begin.julian
      sums == Walked(begin, range + 1)
      level == 1 + (pick * (sums[range] - 1)) \div 2 IN
  begin.julian + (CHOOSE days \in 1 .. range + 1 : sums[days] <= level /\ level < sums[days + 1])

getDateWeightFromJulian(julian) ==
  LET d == JulianToDate(julian) IN SalesWeight(DayNumber(d), IsLeap(d.year))

\* The same with days, which take their weights off what is left of the total.
Widened(range, last) ==
  IF range.left <= 0 THEN range
  ELSE IF range.up
       THEN [range EXCEPT !.high = @ + 1, !.up = range.high + 1 # last,
                          !.left = @ - getDateWeightFromJulian(range.high + 1)]
       ELSE [range EXCEPT !.low = @ - 1,
                          !.left = @ - getDateWeightFromJulian(range.low - 1)]

DaysAround(first, last, picked, percent) ==
  LET weights == FoldLeft(LAMBDA sum, day : sum + getDateWeightFromJulian(day), 0,
                          [k \in 1 .. last - first |-> first + k - 1])
      wide == FoldLeft(LAMBDA range, step : Widened(range, last),
                [low |-> picked, high |-> picked, up |-> TRUE,
                 left |-> (weights * percent) \div 100],
                [k \in 1 .. 4 * (last - first) + 2 |-> k])
  IN  <<wide.low, wide.high>>

-----------------------------------------------------------------------------
(***************************************************************************)
(* Values that differ.                                                     *)
(***************************************************************************)
\* Mutant: a text is compared with the one before it only.
DifferentTextsMutant(texts, order, n) ==
  FoldLeft(LAMBDA taken, row :
             IF Len(taken) = n \/ (taken # <<>> /\ texts[row] = Last(taken)) THEN taken
             ELSE Append(taken, texts[row]), <<>>, order)

\* EvalDistExpr: rows are taken in the order of the permutation until n texts
\* differ from those before them.
DifferentTexts(texts, order, n) ==
  FoldLeft(LAMBDA taken, row :
             IF Len(taken) = n \/ texts[row] \in ToSet(taken) THEN taken
             ELSE Append(taken, texts[row]), <<>>, order)

\* The remainder of C has the sign of the number it divides.
Remainder(a, n) == IF a >= 0 THEN a % n ELSE -((-a) % n)

ShiftIntoSpan(span, number) == Remainder(number, span[2] - span[1] + 1) + span[1]

-----------------------------------------------------------------------------
ValuesInit == expression = NoExpression /\ valueOrder = <<>> /\ answer = Unevaluated

\* A template defines a substitution.
DefineExpression ==
  /\ expression = NoExpression
  /\ expression' \in
       [function : {"RANDOM"}, suffix : {""}, span : Spans]
       \cup [function : {"RANDOM"}, suffix : {"LIST", "ULIST"}, span : Spans, count : Counts]
       \cup [function : {"RANDOM"}, suffix : {"RANGE"}, span : Spans, share : Shares]
       \cup [function : {"TEXT"}, suffix : {"LIST", "ULIST"}, texts : Columns, count : Counts,
             secondWeight : Counts]
       \cup [function : {"DIST"}, suffix : {"LIST", "ULIST"}, texts : Columns, count : Counts,
             integers : BOOLEAN]
       \cup [function : {"DATE"}, suffix : {"", "ULIST"}, period : Periods]
       \cup [function : {"DATE"}, suffix : {"LIST"}, period : Periods, count : Counts]
       \cup [function : {"DATE"}, suffix : {"RANGE"}, period : Periods, share : Shares]
  /\ UNCHANGED <<valueOrder, answer>>

\* genrand_key, or LIST with its needless shift into the range.
EvalRandomExpr ==
  /\ expression.function = "RANDOM"
  /\ \E picked \in expression.span[1] .. expression.span[2] :
       \/ /\ expression.suffix = ""
          /\ answer' = Answer(<<picked>>)
       \/ /\ expression.suffix = "LIST"
          /\ \E more \in [1 .. expression.count - 1
                            -> expression.span[1] .. expression.span[2]] :
               answer' = Answer([i \in 1 .. expression.count |->
                           ShiftIntoSpan(expression.span, (<<picked>> \o more)[i])])
       \/ /\ expression.suffix = "RANGE"
          /\ answer' = [Answer(RangeAround(expression.span[1], expression.span[2], picked,
                                           expression.share))
                          EXCEPT !.picked = picked]
  /\ UNCHANGED <<expression, valueOrder>>

\* The expression's permutation of size numbers, permuted.
Permute(size) ==
  IF size <= 0 THEN valueOrder' = <<>>
  ELSE \E drawn \in [1 .. size -> 1 .. size] :
         valueOrder' = MakePermutation(valueOrder, drawn)

EvalUniqueRandom ==
  /\ expression.function = "RANDOM" /\ expression.suffix = "ULIST"
  /\ Permute(expression.span[2] - expression.span[1] + 1)
  /\ \E numbers \in EntriesOf(valueOrder', expression.count) :
       answer' = [values |-> [i \in DOMAIN numbers |->
                                ShiftIntoSpan(expression.span, numbers[i])],
                  picked |-> 0, stray |-> expression.count > Len(valueOrder')]
  /\ UNCHANGED expression

\* The arguments of TEXT are its choices and, after them, the count, which has no
\* text. The second of them is taken for the count: a weight, if there are two
\* choices.
Arguments == Append(expression.texts, NoText)
TextCount == IF Len(expression.texts) = 1 THEN expression.count ELSE expression.secondWeight

\* Any argument, again and again; values there is no room for go astray.
EvalTextList ==
  /\ expression.function = "TEXT" /\ expression.suffix = "LIST"
  /\ \E rows \in [1 .. TextCount -> DOMAIN Arguments] :
       answer' = [Answer([i \in DOMAIN rows |-> Arguments[rows[i]]])
                    EXCEPT !.stray = TextCount > expression.count]
  /\ UNCHANGED <<expression, valueOrder>>

\* Whether there are as many choices, or there is room for them, is not checked.
EvalTextUniqueList ==
  /\ expression.function = "TEXT" /\ expression.suffix = "ULIST"
  /\ Permute(Len(Arguments) - 1)
  /\ answer' = IF TextCount > Len(valueOrder') THEN [Unevaluated EXCEPT !.stray = TRUE]
               ELSE [Answer([i \in 1 .. TextCount |-> Arguments[valueOrder'[i]]])
                       EXCEPT !.stray = TextCount > expression.count]
  /\ UNCHANGED expression

\* Any row, again and again. RANGE, which no template asks of DIST, is left out:
\* pick_distribution has no place to answer in and gives a value for the row, and
\* IntegrateDist reads weights that are none.
EvalDistList ==
  /\ expression.function = "DIST" /\ expression.suffix = "LIST"
  /\ \E rows \in [1 .. expression.count -> DOMAIN expression.texts] :
       answer' = Answer([i \in DOMAIN rows |-> expression.texts[rows[i]]])
  /\ UNCHANGED <<expression, valueOrder>>

\* More values than rows is an error. Integers are those of different rows; more
\* texts than differ runs off the permutation.
EvalDistUniqueList ==
  /\ expression.function = "DIST" /\ expression.suffix = "ULIST"
  /\ expression.count <= Len(expression.texts)
  /\ Permute(Len(expression.texts))
  /\ LET taken == IF expression.integers
                  THEN [i \in 1 .. expression.count |-> expression.texts[valueOrder'[i]]]
                  ELSE DifferentTexts(expression.texts, valueOrder', expression.count)
     IN  answer' = IF Len(taken) < expression.count THEN [Unevaluated EXCEPT !.stray = TRUE]
                   ELSE Answer(taken)
  /\ UNCHANGED expression

\* LIST draws no more days than the period has and never its last one; ULIST
\* takes the period to be empty.
EvalDateExpr ==
  /\ expression.function = "DATE"
  /\ LET first == expression.period[1]
         last == expression.period[2]
     IN  \/ /\ expression.suffix = ""
            /\ \E pick \in 0 .. 2 :
                 answer' = Answer(<<GenrandDate(JulianToDate(first), JulianToDate(last), pick)>>)
         \/ /\ expression.suffix = "LIST"
            /\ \E days \in [1 .. (IF expression.count > last - first THEN last - first
                                  ELSE expression.count) -> 1 .. last - first] :
                 answer' = Answer([i \in DOMAIN days |-> first + days[i] - 1])
         \/ /\ expression.suffix = "ULIST"
            /\ answer' = Answer(<<>>)
         \/ /\ expression.suffix = "RANGE"
            /\ \E pick \in 0 .. 2 :
                 LET picked == GenrandDate(JulianToDate(first), JulianToDate(last), pick)
                 IN  answer' = [Answer(DaysAround(first, last, picked, expression.share))
                                  EXCEPT !.picked = picked]
  /\ UNCHANGED <<expression, valueOrder>>

ValuesNext ==
  \/ DefineExpression
  \/ EvalRandomExpr \/ EvalUniqueRandom
  \/ EvalTextList \/ EvalTextUniqueList
  \/ EvalDistList \/ EvalDistUniqueList
  \/ EvalDateExpr

-----------------------------------------------------------------------------
\* TEXT and DIST of integers choose rows that differ, whatever the rows hold.
DrawsRows ==
  \/ expression.function = "TEXT"
  \/ expression.function = "DIST" /\ expression.integers

\* A range drawn at its maximum, or at a day that weighs more than the last one,
\* which stands for a day of the total that the range does not count.
RunsOver(picked, last) ==
  \/ picked >= last
  \/ /\ expression.function = "DATE"
     /\ getDateWeightFromJulian(last) < getDateWeightFromJulian(picked)

\* Answers are what was asked for (eval.c: EvalRandomExpr, EvalTextExpr,
\* EvalDistExpr, EvalDateExpr), in every query that evaluates the expression:
\* numbers and days are within their bounds, a range is around the value drawn
\* and within the bounds too unless RunsOver; a ULIST has no value twice unless the
\* permutation was too short for it; and there are as many values as were asked
\* for, except of TEXT and DATE.
AnswersAsAsked ==
  answer # Unevaluated /\ ~answer.stray =>
    LET values == answer.values
        within == CASE expression.function = "RANDOM" -> expression.span
                    [] expression.function = "DATE" -> expression.period
                    [] OTHER -> <<0, 0>>
    IN  /\ expression.function \in {"RANDOM", "DATE"}
             /\ ~(expression.suffix = "RANGE" /\ RunsOver(answer.picked, within[2]))
           => \A i \in DOMAIN values : values[i] \in within[1] .. within[2]
        /\ expression.suffix = "RANGE" => answer.picked \in values[1] .. values[2]
        /\ expression.suffix = "ULIST" /\ (DrawsRows => IsInjective(expression.texts))
           => IsInjective(values)
        /\ expression.suffix \in {"LIST", "ULIST"} /\ expression.function \notin {"DATE", "TEXT"}
           => Len(values) = expression.count
=============================================================================
