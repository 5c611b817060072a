------------------------------ MODULE Toolkit ------------------------------
(***************************************************************************)
(* The parts the generators are made of, each in a program of its own: a   *)
(* program calls the functions of one part in every order the part allows. *)
(* The parts rest on each other's definitions: joins and update sets count *)
(* days with the calendar, joins find versions with the surrogate keys,    *)
(* queries draw dates with the weights of the update set's calendar, the   *)
(* row counts divide among children as split_work divides them.            *)
(***************************************************************************)
EXTENDS Scaling, Joins, RandomNumbers, Pricing, Parameters, StringBuffers,
        Distributions, QueryStreams, Lists, PrintedRows, PrintedFields

VARIABLE part   \* the part this program exercises

Parts == {"calendar", "joins", "updates", "numbers", "pricing", "parameters",
          "buffers", "distributions", "values", "lists", "queries", "rows", "print",
          "fields"}

toolkitVars == <<part, calendarVars, joinVars, updateVars, rngVars, pricingVars,
                 parameterVars, bufferVars, distVars, queryVars, scalingVars,
                 printVars, valueVars, listVars, fieldVars>>

Init ==
  /\ part \in Parts
  /\ CalendarInit /\ JoinsInit /\ UpdateInit /\ RngInit /\ PricingInit
  /\ ParametersInit /\ InitBuffer /\ DistributionsInit /\ QueriesInit
  /\ ScalingInit /\ PrintInit /\ ValuesInit /\ ListsInit /\ FieldsInit

CalendarProgram ==
  /\ part = "calendar" /\ CalendarNext
  /\ UNCHANGED <<part, joinVars, updateVars, rngVars, pricingVars,
                 parameterVars, bufferVars, distVars, queryVars, scalingVars,
                 printVars, valueVars, listVars, fieldVars>>

JoinsProgram ==
  /\ part = "joins" /\ JoinsNext
  /\ UNCHANGED <<part, calendarVars, updateVars, rngVars, pricingVars,
                 parameterVars, bufferVars, distVars, queryVars, scalingVars,
                 printVars, valueVars, listVars, fieldVars>>

UpdatesProgram ==
  /\ part = "updates" /\ UpdateNext
  /\ UNCHANGED <<part, date, weekday, joinVars, rngVars, pricingVars,
                 parameterVars, bufferVars, distVars, queryVars, scalingVars,
                 printVars, valueVars, listVars, fieldVars>>

NumbersProgram ==
  /\ part = "numbers" /\ RngNext
  /\ UNCHANGED <<part, calendarVars, joinVars, updateVars, pricingVars,
                 parameterVars, bufferVars, distVars, queryVars, scalingVars,
                 printVars, valueVars, listVars, fieldVars>>

PricingProgram ==
  /\ part = "pricing" /\ PricingNext
  /\ UNCHANGED <<part, calendarVars, joinVars, updateVars, rngVars,
                 parameterVars, bufferVars, distVars, queryVars, scalingVars,
                 printVars, valueVars, listVars, fieldVars>>

ParametersProgram ==
  /\ part = "parameters" /\ ParametersNext
  /\ UNCHANGED <<part, calendarVars, joinVars, updateVars, rngVars, pricingVars,
                 bufferVars, distVars, queryVars, scalingVars, printVars,
                 valueVars, listVars, fieldVars>>

BuffersProgram ==
  /\ part = "buffers" /\ BufferNext
  /\ UNCHANGED <<part, calendarVars, joinVars, updateVars, rngVars, pricingVars,
                 parameterVars, distVars, queryVars, scalingVars, printVars,
                 valueVars, listVars, fieldVars>>

DistributionsProgram ==
  /\ part = "distributions" /\ DistributionsNext
  /\ UNCHANGED <<part, calendarVars, joinVars, updateVars, rngVars, pricingVars,
                 parameterVars, bufferVars, queryVars, scalingVars, printVars,
                 valueVars, listVars, fieldVars>>

QueriesProgram ==
  /\ part = "queries" /\ QueriesNext
  /\ UNCHANGED <<part, calendarVars, joinVars, updateVars, rngVars, pricingVars,
                 parameterVars, bufferVars, distVars, scalingVars, printVars,
                 valueVars, listVars, fieldVars>>

RowsProgram ==
  /\ part = "rows" /\ ScalingNext
  /\ UNCHANGED <<part, calendarVars, joinVars, updateVars, rngVars, pricingVars,
                 parameterVars, bufferVars, distVars, queryVars, printVars,
                 valueVars, listVars, fieldVars>>

PrintProgram ==
  /\ part = "print" /\ PrintNext
  /\ UNCHANGED <<part, calendarVars, joinVars, updateVars, rngVars, pricingVars,
                 parameterVars, bufferVars, distVars, queryVars, scalingVars,
                 valueVars, listVars, fieldVars>>

ValuesProgram ==
  /\ part = "values" /\ ValuesNext
  /\ UNCHANGED <<part, calendarVars, joinVars, updateVars, rngVars, pricingVars,
                 parameterVars, bufferVars, distVars, queryVars, scalingVars,
                 printVars, listVars, fieldVars>>

ListsProgram ==
  /\ part = "lists" /\ ListsNext
  /\ UNCHANGED <<part, calendarVars, joinVars, updateVars, rngVars, pricingVars,
                 parameterVars, bufferVars, distVars, queryVars, scalingVars,
                 printVars, valueVars, fieldVars>>

FieldsProgram ==
  /\ part = "fields" /\ FieldsNext
  /\ UNCHANGED <<part, calendarVars, joinVars, updateVars, rngVars, pricingVars,
                 parameterVars, bufferVars, distVars, queryVars, scalingVars,
                 printVars, valueVars, listVars>>

Next ==
  \/ CalendarProgram \/ JoinsProgram \/ UpdatesProgram \/ NumbersProgram
  \/ PricingProgram \/ ParametersProgram \/ BuffersProgram
  \/ DistributionsProgram \/ QueriesProgram \/ RowsProgram \/ PrintProgram
  \/ ValuesProgram \/ ListsProgram \/ FieldsProgram

Spec == Init /\ [][Next]_toolkitVars
-----------------------------------------------------------------------------
TypeOK ==
  /\ part \in Parts
  /\ CalendarTypeOK /\ JoinsTypeOK /\ UpdateTypeOK /\ RngTypeOK /\ PricingTypeOK
  /\ ParametersTypeOK /\ BufferTypeOK /\ ScalingTypeOK /\ PrintTypeOK
  /\ ListsTypeOK

\* A query says what its template asks for: its values agree, each is what its
\* function may answer, and no list hides a member from the one who reads it.
QueriesHold == QueryAgrees /\ AnswersAsAsked /\ ReadersSeeEveryMember

\* Lines are rows of their tables, and their fields tell the values of the row.
LinesHold == LineFitsTable /\ FieldTellsValue

\* Tables have the rows of their scale and the children build each of them once.
TableRowsHold == RowcountsHold /\ EveryRowOnce
=============================================================================
