---------------------------- MODULE RunTpcdsProofs ----------------------------
(***************************************************************************)
(* The script of RunTpcds, for any scales, queries, queues and runs, any   *)
(* number of failing commands and timeouts, killed and started again.      *)
(***************************************************************************)
EXTENDS RunTpcds, FiniteSetTheorems, TLAPS

\* A scale is being worked on.
Working == pc \notin {"generate", "done"}

\* The script is at a scale and a query it has been given, it waits at once for
\* what it started to make the data, and it cleans up what its mode calls for.
InBounds ==
  /\ Working => scale <= Len(Scales)
  /\ pc = "join" => query <= Len(Queries)
  /\ wait # {} => pc = "wait_generate"
  /\ pc \in {"remove_csv", "clean_parquet"} => mode = "parquet"
  /\ pc = "clean_csv" => mode = "csv"

LEMMA ConstantTypes ==
  /\ Modes \subseteq {"csv", "parquet"}
  /\ RunCount \in Nat /\ MaxScripts \in Nat \ {0} /\ MaxFaults \in Nat /\ MaxTimeouts \in Nat
  /\ Len(Scales) \in Nat /\ Len(Queries) \in Nat
  /\ \A i \in 1 .. Len(Scales) : Scales[i] \in ScaleSet
  /\ \A i \in 1 .. Len(Queries) : Queries[i] \in QuerySet
<1>1. /\ Len(Scales) \in Nat /\ Len(Queries) \in Nat
  BY RunTpcdsAssumption
<1>2. \A i \in 1 .. Len(Scales) : Scales[i] \in ScaleSet
  BY DEF ScaleSet
<1>3. \A i \in 1 .. Len(Queries) : Queries[i] \in QuerySet
  BY DEF QuerySet
<1> QED
  BY <1>1, <1>2, <1>3, RunTpcdsAssumption

LEMMA InitTypes == Init => TypeOK /\ InBounds
<1> SUFFICES ASSUME Init PROVE TypeOK /\ InBounds
  OBVIOUS
<1>1. /\ scripts \in 1 .. MaxScripts /\ faults \in [ScaleSet -> 0 .. MaxFaults]
      /\ scale \in 1 .. Len(Scales) + 1 /\ query \in 1 .. Len(Queries) + 1
      /\ thread \in [Queues -> 0 .. RunCount]
  BY ConstantTypes DEF Init
<1>2. catalog \in [{"csv", "parquet"} -> [ScaleSet -> Contents]]
  BY DEF Init, Contents
<1>3. /\ local \in [ScaleSet -> Contents] /\ hdfs \in [ScaleSet -> Contents]
      /\ parquet \in [ScaleSet -> Contents]
  BY DEF Init, Contents
<1>4. InBounds
  BY DEF Init, InBounds, Working
<1> QED
  BY <1>1, <1>2, <1>3, <1>4 DEF Init, TypeOK, Labels

USE DEF Goto, scriptVars, dataVars, runVars

LEMMA StepTypes ==
  ASSUME TypeOK, InBounds, [Next]_vars
  PROVE  TypeOK' /\ InBounds'
<1>a. Working => S \in ScaleSet
  BY ConstantTypes DEF TypeOK, InBounds, Working, S
<1>b. Succeeds \/ (Working /\ Fails) => faults' \in [ScaleSet -> 0 .. MaxFaults]
  BY <1>a, ConstantTypes DEF Succeeds, Fails, TypeOK
<1>c. mode \in {"csv", "parquet"}
  BY ConstantTypes DEF TypeOK
<1>d. /\ scripts \in 1 .. MaxScripts /\ scale \in Nat /\ query \in Nat
      /\ Len(Scales) \in Nat /\ Len(Queries) \in Nat
  BY ConstantTypes DEF TypeOK
<1>1. CASE Generate
  <2>1. TypeOK'
    BY <1>a, <1>b, <1>c, <1>d, <1>1
    DEF Generate, TypeOK, InBounds, Working, Labels, Contents
  <2>2. InBounds'
    BY <1>a, <1>c, <1>d, <1>1 DEF Generate, TypeOK, InBounds, Working
  <2> QED
    BY <2>1, <2>2
<1>2. CASE Generated
  <2>1. TypeOK'
    BY <1>a, <1>b, <1>c, <1>d, <1>2
    DEF Generated, TypeOK, InBounds, Working, Labels, Contents
  <2>2. InBounds'
    BY <1>a, <1>c, <1>d, <1>2 DEF Generated, TypeOK, InBounds, Working
  <2> QED
    BY <2>1, <2>2
<1>3. CASE CopyData
  <2>1. TypeOK'
    BY <1>a, <1>b, <1>c, <1>d, <1>3
    DEF CopyData, TypeOK, InBounds, Working, Labels, Contents
  <2>2. InBounds'
    BY <1>a, <1>c, <1>d, <1>3 DEF CopyData, TypeOK, InBounds, Working
  <2> QED
    BY <2>1, <2>2
<1>4. CASE CopyQueries
  <2>1. TypeOK'
    BY <1>a, <1>b, <1>c, <1>d, <1>4
    DEF CopyQueries, TypeOK, InBounds, Working, Labels, Contents
  <2>2. InBounds'
    BY <1>a, <1>c, <1>d, <1>4 DEF CopyQueries, TypeOK, InBounds, Working
  <2> QED
    BY <2>1, <2>2
<1>5. CASE RemoveLocal
  <2>1. TypeOK'
    BY <1>a, <1>b, <1>c, <1>d, <1>5
    DEF RemoveLocal, TypeOK, InBounds, Working, Labels, Contents
  <2>2. InBounds'
    BY <1>a, <1>c, <1>d, <1>5 DEF RemoveLocal, TypeOK, InBounds, Working
  <2> QED
    BY <2>1, <2>2
<1>6. CASE SetupHistory
  <2>1. TypeOK'
    BY <1>a, <1>b, <1>c, <1>d, <1>6
    DEF SetupHistory, TypeOK, InBounds, Working, Labels, Contents
  <2>2. InBounds'
    BY <1>a, <1>c, <1>d, <1>6 DEF SetupHistory, TypeOK, InBounds, Working
  <2> QED
    BY <2>1, <2>2
<1>7. CASE SkipTables
  <2>1. TypeOK'
    BY <1>a, <1>b, <1>c, <1>d, <1>7
    DEF SkipTables, AfterTables, TypeOK, InBounds, Working, Labels, Contents
  <2>2. InBounds'
    BY <1>a, <1>c, <1>d, <1>7 DEF SkipTables, AfterTables, TypeOK, InBounds, Working
  <2> QED
    BY <2>1, <2>2
<1>8. CASE MarkTables
  <2>1. TypeOK'
    BY <1>a, <1>b, <1>c, <1>d, <1>8
    DEF MarkTables, TypeOK, InBounds, Working, Labels, Contents
  <2>2. InBounds'
    BY <1>a, <1>c, <1>d, <1>8 DEF MarkTables, TypeOK, InBounds, Working
  <2> QED
    BY <2>1, <2>2
<1>9. CASE CreateTables
  <2>3. S \in ScaleSet /\ Created \in Contents /\ "part" \in Contents
    BY <1>a, <1>9 DEF CreateTables, Created, TypeOK, Working, Contents
  <2>4. \A c \in Contents :
          [catalog EXCEPT ![mode][S] = c] \in [{"csv", "parquet"} -> [ScaleSet -> Contents]]
    BY <1>c, <2>3 DEF TypeOK
  <2>5. catalog' \in [{"csv", "parquet"} -> [ScaleSet -> Contents]]
    <3>1. catalog \in [{"csv", "parquet"} -> [ScaleSet -> Contents]]
      BY DEF TypeOK
    <3> QED
      BY <1>9, <2>3, <2>4, <3>1 DEF CreateTables
  <2>6. parquet' \in [ScaleSet -> Contents]
    BY <1>9, <2>3 DEF CreateTables, TypeOK
  <2>7. faults' \in [ScaleSet -> 0 .. MaxFaults]
    BY <1>b, <1>9 DEF CreateTables, Working
  <2>1. TypeOK'
    BY <1>9, <2>5, <2>6, <2>7 DEF CreateTables, AfterTables, TypeOK, Labels
  <2>2. InBounds'
    BY <1>a, <1>c, <1>d, <1>9, SMTT(40)
    DEF CreateTables, AfterTables, Created, TypeOK, InBounds, Working
  <2> QED
    BY <2>1, <2>2
<1>10. CASE RemoveCsv
  <2>3. faults' \in [ScaleSet -> 0 .. MaxFaults]
    BY <1>b, <1>10 DEF RemoveCsv, Working
  <2>4. hdfs' \in [ScaleSet -> Contents]
    BY <1>a, <1>10 DEF RemoveCsv, TypeOK, Contents
  <2>5. scale' \in 1 .. Len(Scales) + 1 /\ query' \in 1 .. Len(Queries) + 1
    BY <1>d, <1>10 DEF RemoveCsv, TypeOK, InBounds, Working
  <2>1. TypeOK'
    BY <1>10, <2>3, <2>4, <2>5 DEF RemoveCsv, TypeOK, Labels
  <2>2. InBounds'
    BY <1>a, <1>c, <1>d, <1>10 DEF RemoveCsv, TypeOK, InBounds, Working
  <2> QED
    BY <2>1, <2>2
<1>11. CASE StartThreads
  <2>1. TypeOK'
    BY <1>d, <1>11, ConstantTypes
    DEF StartThreads, TypeOK, InBounds, Working, Labels, Contents
  <2>2. InBounds'
    BY <1>a, <1>c, <1>d, <1>11 DEF StartThreads, TypeOK, InBounds, Working
  <2> QED
    BY <2>1, <2>2
<1>12. ASSUME NEW q \in Queues, StartRun(q) PROVE TypeOK' /\ InBounds'
  <2>3. App(q, thread[q]) \in AppSet
    <3>1. S \in ScaleSet /\ Queries[query] \in QuerySet
      BY <1>a, <1>12, ConstantTypes DEF StartRun, TypeOK, InBounds, Working
    <3>2. thread[q] \in 1 .. RunCount
      BY <1>12, ConstantTypes DEF StartRun, TypeOK
    <3> QED
      BY <1>d, <3>1, <3>2 DEF App, AppSet
  <2>4. thread' \in [Queues -> 0 .. RunCount]
    BY <1>12, ConstantTypes DEF StartRun, TypeOK
  <2>1. TypeOK'
    BY <1>12, <2>3, <2>4 DEF StartRun, TypeOK
  <2>2. InBounds'
    BY <1>a, <1>c, <1>d, <1>12 DEF StartRun, App, AppSet, TypeOK, InBounds, Working
  <2> QED
    BY <2>1, <2>2
<1>13. CASE JoinThreads
  <2>1. TypeOK'
    BY <1>a, <1>b, <1>c, <1>d, <1>13
    DEF JoinThreads, TypeOK, InBounds, Working, Labels, Contents
  <2>2. InBounds'
    BY <1>a, <1>c, <1>d, <1>13 DEF JoinThreads, TypeOK, InBounds, Working
  <2> QED
    BY <2>1, <2>2
<1>14. CASE CopyHistory
  <2>1. TypeOK'
    BY <1>a, <1>b, <1>c, <1>d, <1>14
    DEF CopyHistory, CleanUp, TypeOK, InBounds, Working, Labels, Contents
  <2>2. InBounds'
    BY <1>a, <1>c, <1>d, <1>14 DEF CopyHistory, CleanUp, TypeOK, InBounds, Working
  <2> QED
    BY <2>1, <2>2
<1>15. CASE RemoveParquet
  <2>3. faults' \in [ScaleSet -> 0 .. MaxFaults]
    BY <1>b, <1>15 DEF RemoveParquet, Working
  <2>4. parquet' \in [ScaleSet -> Contents] /\ marker' \subseteq ScaleSet
    BY <1>a, <1>15 DEF RemoveParquet, TypeOK, Contents
  <2>5. scale' \in 1 .. Len(Scales) + 1
    BY <1>d, <1>15 DEF RemoveParquet, TypeOK, InBounds, Working
  <2>1. TypeOK'
    BY <1>15, <2>3, <2>4, <2>5 DEF RemoveParquet, TypeOK, Labels
  <2>2. InBounds'
    BY <1>a, <1>c, <1>d, <1>15 DEF RemoveParquet, TypeOK, InBounds, Working
  <2> QED
    BY <2>1, <2>2
<1>16. CASE Done
  <2>1. TypeOK'
    BY <1>a, <1>b, <1>c, <1>d, <1>16
    DEF Done, TypeOK, InBounds, Working, Labels, Contents
  <2>2. InBounds'
    BY <1>a, <1>c, <1>d, <1>16 DEF Done, TypeOK, InBounds, Working
  <2> QED
    BY <2>1, <2>2
<1>17. CASE GenData
  <2>1. TypeOK'
    BY <1>a, <1>b, <1>c, <1>d, <1>17
    DEF GenData, TypeOK, InBounds, Working, Labels, Contents
  <2>2. InBounds'
    BY <1>a, <1>c, <1>d, <1>17 DEF GenData, TypeOK, InBounds, Working
  <2> QED
    BY <2>1, <2>2
<1>18. CASE GenDdl
  <2>1. TypeOK'
    BY <1>a, <1>b, <1>c, <1>d, <1>18
    DEF GenDdl, TypeOK, InBounds, Working, Labels, Contents
  <2>2. InBounds'
    BY <1>a, <1>c, <1>d, <1>18 DEF GenDdl, TypeOK, InBounds, Working
  <2> QED
    BY <2>1, <2>2
<1>19. CASE CopyQueriesLocally
  <2>1. TypeOK'
    BY <1>a, <1>b, <1>c, <1>d, <1>19
    DEF CopyQueriesLocally, TypeOK, InBounds, Working, Labels, Contents
  <2>2. InBounds'
    BY <1>a, <1>c, <1>d, <1>19 DEF CopyQueriesLocally, TypeOK, InBounds, Working
  <2> QED
    BY <2>1, <2>2
<1>20. ASSUME NEW a \in apps, EndRun(a) PROVE TypeOK' /\ InBounds'
  <2>1. TypeOK'
    BY <1>a, <1>b, <1>c, <1>d, <1>20
    DEF EndRun, TypeOK, InBounds, Working, Labels, Contents
  <2>2. InBounds'
    BY <1>a, <1>c, <1>d, <1>20 DEF EndRun, TypeOK, InBounds, Working
  <2> QED
    BY <2>1, <2>2
<1>21. ASSUME NEW a \in apps, Timeout(a) PROVE TypeOK' /\ InBounds'
  <2>1. TypeOK'
    BY <1>a, <1>b, <1>c, <1>d, <1>21
    DEF Timeout, TypeOK, InBounds, Working, Labels, Contents
  <2>2. InBounds'
    BY <1>a, <1>c, <1>d, <1>21 DEF Timeout, TypeOK, InBounds, Working
  <2> QED
    BY <2>1, <2>2
<1>22. CASE StartAgain
  <2>1. TypeOK'
    BY <1>d, <1>22, ConstantTypes
    DEF StartAgain, TypeOK, InBounds, Working, Labels, Contents
  <2>2. InBounds'
    BY <1>a, <1>c, <1>d, <1>22 DEF StartAgain, TypeOK, InBounds, Working
  <2> QED
    BY <2>1, <2>2
<1>23. CASE UNCHANGED vars
  BY <1>23 DEF vars, TypeOK, InBounds, Working
<1> QED
  BY <1>1, <1>2, <1>3, <1>4, <1>5, <1>6, <1>7, <1>8, <1>9, <1>10, <1>11, <1>12, <1>13,
     <1>14, <1>15, <1>16, <1>17, <1>18, <1>19, <1>20, <1>21, <1>22, <1>23
  DEF Next, ScriptStep, ProcessEnds

\* TypeOK holds of every run of the script.
THEOREM TypeCorrect == Spec => []TypeOK
<1>1. TypeOK /\ InBounds /\ [Next]_vars => (TypeOK /\ InBounds)'
  BY StepTypes
<1> QED
  BY InitTypes, <1>1, PTL DEF Spec
-----------------------------------------------------------------------------
(***************************************************************************)
(* What the script waits for.                                              *)
(***************************************************************************)
Awaited == apps \ timedOut

\* The script is in run_benchmark whenever it waits for an application, which
\* is of the current scale and query and the only one in its queue.
LiveInv ==
  \A a \in Awaited :
    /\ pc = "join" /\ a.scale = S /\ a.query = Queries[query]
    /\ \A b \in Awaited : a.queue = b.queue => a = b

\* The steps that are not taken in run_benchmark, but for a new start.
Elsewhere ==
  \/ Generate \/ Generated \/ CopyData \/ CopyQueries \/ RemoveLocal \/ SetupHistory
  \/ SkipTables \/ MarkTables \/ CreateTables \/ RemoveCsv \/ StartThreads
  \/ CopyHistory \/ RemoveParquet \/ Done \/ ProcessEnds

LEMMA ElsewhereNotInJoin ==
  ASSUME InBounds, Elsewhere
  PROVE  pc # "join" /\ UNCHANGED <<apps, timedOut>>
  BY DEF InBounds, Elsewhere, ProcessEnds, Generate, Generated, CopyData, CopyQueries,
     RemoveLocal, SetupHistory, SkipTables, MarkTables, CreateTables, RemoveCsv,
     StartThreads, CopyHistory, CleanUp, RemoveParquet, Done, GenData, GenDdl,
     CopyQueriesLocally

LEMMA StepLive ==
  ASSUME TypeOK, InBounds, LiveInv, [Next]_vars
  PROVE  LiveInv'
<1>1. CASE Elsewhere
  BY <1>1, ElsewhereNotInJoin DEF LiveInv, Awaited
<1>2. ASSUME NEW q \in Queues, StartRun(q) PROVE LiveInv'
  <2>1. Awaited' \subseteq Awaited \cup {App(q, thread[q])}
    BY <1>2 DEF StartRun, Awaited
  <2>2. App(q, thread[q]).scale = S /\ App(q, thread[q]).query = Queries[query]
        /\ App(q, thread[q]).queue = q
    BY DEF App
  <2>3. \A a \in Awaited : a.queue # q
    BY <1>2 DEF StartRun, Live, Awaited
  <2>4. pc = "join" /\ pc' = "join" /\ UNCHANGED <<scale, query>>
    BY <1>2 DEF StartRun
  <2> QED
    BY <2>1, <2>2, <2>3, <2>4 DEF LiveInv, S
<1>3. CASE JoinThreads
  <2>1. \A a \in Awaited : a.queue \in Queues
    BY DEF Awaited, TypeOK, AppSet
  <2>2. Awaited = {}
    BY <1>3, <2>1 DEF JoinThreads, Live, Awaited
  <2> QED
    BY <1>3, <2>2 DEF JoinThreads, LiveInv, Awaited
<1>4. ASSUME NEW a \in apps, EndRun(a) \/ Timeout(a) PROVE LiveInv'
  <2>1. Awaited' \subseteq Awaited /\ UNCHANGED scriptVars
    BY <1>4 DEF EndRun, Timeout, Awaited
  <2> QED
    BY <2>1 DEF LiveInv, S
<1>5. CASE StartAgain
  BY <1>5 DEF StartAgain, LiveInv, Awaited
<1>6. CASE UNCHANGED vars
  BY <1>6 DEF vars, LiveInv, Awaited, S
<1> QED
  BY <1>1, <1>2, <1>3, <1>4, <1>5, <1>6 DEF Next, ScriptStep, Elsewhere

RunInv == TypeOK /\ InBounds /\ LiveInv

\* RunInv holds of every run of the script.
THEOREM RunInvariance == Spec => []RunInv
<1>1. Init => RunInv
  BY InitTypes DEF RunInv, Init, LiveInv, Awaited
<1>2. RunInv /\ [Next]_vars => RunInv'
  BY StepTypes, StepLive DEF RunInv
<1> QED
  BY <1>1, <1>2, PTL DEF Spec

\* The runs the script waits for are of one query on one scale, one in each
\* queue: run_benchmark starts a run when it no longer waits for the last, and
\* the next query when all threads have been joined.
THEOREM OneQuery == Spec => []OneQueryAtATime
<1>1. RunInv => OneQueryAtATime
  BY DEF RunInv, LiveInv, Awaited, OneQueryAtATime
<1> QED
  BY <1>1, RunInvariance, PTL

\* What a run the script waits for reads does not change under it.
KeptForRuns ==
  \A a \in Awaited \cap Awaited' :
    /\ hdfs'[a.scale] = hdfs[a.scale] /\ parquet'[a.scale] = parquet[a.scale]
    /\ catalog'[mode][a.scale] = catalog[mode][a.scale]

\* Copies, tables and clean-up never touch the data of such a run.
THEOREM DataKept == Spec => DataUntilRunEnds
<1>1. RunInv /\ [Next]_vars => [KeptForRuns]_vars
  <2> SUFFICES ASSUME RunInv, Next PROVE KeptForRuns
    BY DEF vars
  <2>1. CASE Elsewhere
    BY <2>1, ElsewhereNotInJoin DEF RunInv, LiveInv, KeptForRuns
  <2>2. CASE ~Elsewhere
    <3>1. UNCHANGED <<hdfs, parquet, catalog>>
      BY <2>2
      DEF Next, ScriptStep, Elsewhere, StartRun, JoinThreads, EndRun, Timeout,
         StartAgain
    <3> QED
      BY <3>1 DEF KeptForRuns
  <2> QED
    BY <2>1, <2>2
<1>2. [][KeptForRuns]_vars => DataUntilRunEnds
  <2>1. [KeptForRuns]_vars =>
          [\A a \in (apps \ timedOut) \intersect (apps' \ timedOut') :
             /\ hdfs'[a.scale] = hdfs[a.scale] /\ parquet'[a.scale] = parquet[a.scale]
             /\ catalog'[mode][a.scale] = catalog[mode][a.scale]]_vars
    BY DEF KeptForRuns, Awaited
  <2> QED
    BY <2>1, PTL DEF DataUntilRunEnds
<1> QED
  BY <1>1, <1>2, RunInvariance, PTL DEF Spec

-----------------------------------------------------------------------------
(***************************************************************************)
(* The data, on the scales where no command has failed.                    *)
(***************************************************************************)
FirstScript == scripts = 1

\* A step either fails on the scale at work or changes no count of failures.
LEMMA StepFaults ==
  ASSUME TypeOK, InBounds, [Next]_vars
  PROVE  \/ Succeeds /\ ~(Working /\ Fails)
         \/ Working /\ Fails /\ ~Succeeds
<1>1. Succeeds \/ (Working /\ Fails)
  BY DEF Next, ScriptStep, ProcessEnds, vars, InBounds, Working, Generate, Generated,
     CopyData, CopyQueries, RemoveLocal, SetupHistory, SkipTables, MarkTables,
     CreateTables, RemoveCsv, StartThreads, StartRun, JoinThreads, CopyHistory,
     RemoveParquet, Done, GenData, GenDdl, CopyQueriesLocally, EndRun, Timeout,
     StartAgain, Succeeds
<1>2. ASSUME Working, Fails, Succeeds PROVE FALSE
  <2>1. S \in ScaleSet
    BY <1>2, ConstantTypes DEF TypeOK, InBounds, Working, S
  <2>2. faults \in [ScaleSet -> 0 .. MaxFaults] /\ MaxFaults \in Nat
    BY ConstantTypes DEF TypeOK
  <2> QED
    BY <1>2, <2>1, <2>2 DEF Fails, Succeeds
<1> QED
  BY <1>1, <1>2

BeforeTables ==
  {"generate", "wait_generate", "copy_data", "copy_queries", "remove_local",
   "setup_history", "create_tables"}

\* A step that fails counts it for the scale at work and leaves the others alone.
LEMMA StepFails ==
  ASSUME TypeOK, InBounds, [Next]_vars, ~Succeeds
  PROVE  /\ Working /\ S \in ScaleSet /\ faults'[S] # 0 /\ UNCHANGED <<mode, scripts, marker>>
         /\ \/ /\ UNCHANGED scale /\ pc' \notin {"generate", "done"}
               /\ pc' \in BeforeTables => pc \in BeforeTables
            \/ scale' = scale + 1 /\ pc' = "generate"
         /\ \A s \in ScaleSet \ {S} :
              /\ local'[s] = local[s] /\ hdfs'[s] = hdfs[s] /\ parquet'[s] = parquet[s]
              /\ faults'[s] = faults[s]
<1>1. Working /\ Fails
  BY StepFaults
<1>2. S \in ScaleSet
  BY <1>1, ConstantTypes DEF TypeOK, InBounds, Working, S
<1>3. /\ faults \in [ScaleSet -> 0 .. MaxFaults] /\ MaxFaults \in Nat
      /\ local \in [ScaleSet -> Contents] /\ hdfs \in [ScaleSet -> Contents]
      /\ parquet \in [ScaleSet -> Contents]
  BY ConstantTypes DEF TypeOK
<1>4. faults'[S] # 0 /\ \A s \in ScaleSet \ {S} : faults'[s] = faults[s]
  BY <1>1, <1>2, <1>3 DEF Fails
<1>5. \/ GenData \/ GenDdl \/ CopyQueriesLocally \/ CopyData \/ CopyQueries \/ RemoveLocal
      \/ SetupHistory \/ SkipTables \/ CreateTables \/ RemoveCsv \/ CopyHistory
      \/ RemoveParquet
  BY DEF Next, ScriptStep, ProcessEnds, vars, Generate, Generated, MarkTables, StartThreads,
     StartRun, JoinThreads, Done, EndRun, Timeout, StartAgain, Succeeds
<1>6. \A s \in ScaleSet \ {S} : local'[s] = local[s]
  BY <1>3, <1>5
  DEF GenData, GenDdl, CopyQueriesLocally, CopyData, CopyQueries, RemoveLocal,
     SetupHistory, SkipTables, CreateTables, RemoveCsv, CopyHistory, RemoveParquet
<1>7. \A s \in ScaleSet \ {S} : hdfs'[s] = hdfs[s]
  BY <1>3, <1>5
  DEF GenData, GenDdl, CopyQueriesLocally, CopyData, CopyQueries, RemoveLocal,
     SetupHistory, SkipTables, CreateTables, RemoveCsv, CopyHistory, RemoveParquet
<1>8. \A s \in ScaleSet \ {S} : parquet'[s] = parquet[s]
  BY <1>3, <1>5
  DEF GenData, GenDdl, CopyQueriesLocally, CopyData, CopyQueries, RemoveLocal,
     SetupHistory, SkipTables, CreateTables, RemoveCsv, CopyHistory, RemoveParquet
<1>9. UNCHANGED marker
  BY <1>5
  DEF Succeeds, GenData, GenDdl, CopyQueriesLocally, CopyData, CopyQueries, RemoveLocal,
     SetupHistory, SkipTables, CreateTables, RemoveCsv, CopyHistory, RemoveParquet
<1>10. /\ UNCHANGED <<mode, scripts>>
       /\ \/ /\ UNCHANGED scale /\ pc' \notin {"generate", "done"}
             /\ pc' \in BeforeTables => pc \in BeforeTables
          \/ scale' = scale + 1 /\ pc' = "generate"
  BY <1>1, <1>5
  DEF Working, BeforeTables, GenData, GenDdl, CopyQueriesLocally, CopyData, CopyQueries,
     RemoveLocal, SetupHistory, SkipTables, AfterTables, CreateTables, RemoveCsv,
     CopyHistory, CleanUp, RemoveParquet
<1> QED
  BY <1>1, <1>2, <1>4, <1>6, <1>7, <1>8, <1>9, <1>10

LEMMA ScalesDiffer ==
  ASSUME NEW i \in 1 .. Len(Scales), NEW j \in 1 .. Len(Scales), Scales[i] = Scales[j]
  PROVE  i = j
<1> DEFINE f == [k \in 1 .. Len(Scales) |-> Scales[k]]
<1>1. f \in Surjection(1 .. Len(Scales), ScaleSet)
  BY DEF ScaleSet, Surjection
<1>2. /\ IsFiniteSet(1 .. Len(Scales))
      /\ Cardinality(1 .. Len(Scales)) = Cardinality(ScaleSet)
  BY FS_Interval, RunTpcdsAssumption, ConstantTypes
<1>3. f \in Injection(1 .. Len(Scales), ScaleSet)
  BY <1>1, <1>2, FS_SurjSameCardinalityImpliesInj
<1> QED
  BY <1>3 DEF Injection, IsInjective

NothingStored(s) == local[s] = "none" /\ hdfs[s] = "none" /\ parquet[s] = "none"

\* Where the data of the current scale are, by how far the script has come.
LocalAt == {"wait_generate", "copy_data", "copy_queries", "remove_local"}

HdfsAt ==
  {"copy_queries", "remove_local", "setup_history", "create_tables", "spark_sql",
   "remove_csv"} \cup (IF mode = "csv" THEN {"query", "join", "clean_csv"} ELSE {})

ParquetAt == IF mode = "csv" THEN {} ELSE {"remove_csv", "query", "join", "clean_parquet"}

\* Only the scale the script works on has data, but for those where a command
\* has failed.
StoredInv ==
  FirstScript =>
    /\ \A i \in 1 .. Len(Scales) :
         \/ i > scale \/ (i = scale /\ ~Working)
         \/ (i < scale /\ faults[Scales[i]] = 0)
         => NothingStored(Scales[i])
    /\ Working /\ faults[S] = 0 =>
         /\ local[S] # "none" => pc \in LocalAt
         /\ hdfs[S] # "none" => pc \in HdfsAt
         /\ parquet[S] # "none" => pc \in ParquetAt

LEMMA StepStored ==
  ASSUME TypeOK, InBounds, InBounds', StoredInv, [Next]_vars
  PROVE  StoredInv'
<1> SUFFICES ASSUME FirstScript' PROVE StoredInv'
  BY DEF StoredInv
<1>b. ~StartAgain
  BY ConstantTypes DEF TypeOK, StartAgain, FirstScript
<1>a. FirstScript /\ (wait # {} => pc = "wait_generate")
  BY <1>b
  DEF InBounds, FirstScript, Next, ScriptStep, ProcessEnds, vars, Generate, Generated,
     CopyData, CopyQueries, RemoveLocal, SetupHistory, SkipTables, MarkTables,
     CreateTables, RemoveCsv, StartThreads, StartRun, JoinThreads, CopyHistory,
     RemoveParquet, Done, GenData, GenDdl, CopyQueriesLocally, EndRun, Timeout
<1>c. \A i \in 1 .. Len(Scales) : i # scale /\ scale <= Len(Scales) => Scales[i] # S
  BY ScalesDiffer, ConstantTypes DEF TypeOK, S
<1>d. /\ scale \in 1 .. Len(Scales) + 1 /\ Len(Scales) \in Nat
      /\ \A i \in 1 .. Len(Scales) : Scales[i] \in ScaleSet
      /\ scale <= Len(Scales) => S \in ScaleSet
  BY ConstantTypes DEF TypeOK, S
<1>e. /\ local \in [ScaleSet -> Contents] /\ hdfs \in [ScaleSet -> Contents]
      /\ parquet \in [ScaleSet -> Contents] /\ mode \in {"csv", "parquet"}
  BY ConstantTypes DEF TypeOK
<1>f. CASE ~Succeeds
  <2>1. \A i \in 1 .. Len(Scales) : i # scale =>
          /\ NothingStored(Scales[i])' <=> NothingStored(Scales[i])
          /\ faults'[Scales[i]] = faults[Scales[i]]
    <3>1. scale <= Len(Scales)
      BY <1>f, StepFails DEF InBounds
    <3> QED
      BY <1>c, <1>d, <1>f, <3>1, StepFails DEF NothingStored
  <2>2. Working' => scale' = scale /\ S' = S
    BY <1>f, StepFails DEF Working, S
  <2>3. faults'[Scales[scale]] # 0 /\ Working
    BY <1>f, StepFails DEF S
  <2>4. ASSUME NEW i \in 1 .. Len(Scales),
               \/ i > scale' \/ (i = scale' /\ ~Working')
               \/ (i < scale' /\ faults'[Scales[i]] = 0)
        PROVE  NothingStored(Scales[i])'
    <3>1. (scale' = scale /\ Working') \/ scale' = scale + 1
      BY <1>f, StepFails DEF Working
    <3>2. i # scale /\ (i > scale \/ (i < scale /\ faults[Scales[i]] = 0))
      <4>1. i # scale
        <5> SUFFICES ASSUME i = scale PROVE FALSE
          OBVIOUS
        <5>1. ~(i > scale')
          BY <1>d, <3>1
        <5>2. ~(i = scale' /\ ~Working')
          BY <1>d, <3>1
        <5> QED
          BY <2>3, <2>4, <5>1, <5>2
      <4>2. faults'[Scales[i]] = faults[Scales[i]]
        BY <2>1, <4>1
      <4>3. scale' = scale \/ scale' = scale + 1
        BY <3>1
      <4>4. i > scale' \/ (i = scale' /\ ~Working') => i > scale
        BY <1>d, <3>1, <4>1
      <4>5. i < scale' => i < scale
        BY <1>d, <4>1, <4>3
      <4> QED
        BY <2>4, <4>1, <4>2, <4>4, <4>5
    <3> QED
      BY <1>a, <2>1, <3>2 DEF StoredInv
  <2> QED
    BY <1>f, <2>2, <2>4, StepFails DEF StoredInv
<1>g. SUFFICES ASSUME Succeeds, ~(Working /\ Fails) PROVE StoredInv'
  BY <1>f, StepFaults
<1>1. CASE Generate
  BY <1>a, <1>c, <1>d, <1>e, <1>g, <1>1
  DEF Generate, Succeeds, StoredInv, FirstScript, NothingStored, LocalAt, HdfsAt,
     ParquetAt, Working, InBounds, S
<1>2. CASE Generated
  BY <1>a, <1>c, <1>d, <1>e, <1>g, <1>2
  DEF Generated, Succeeds, StoredInv, FirstScript, NothingStored, LocalAt, HdfsAt,
     ParquetAt, Working, InBounds, S
<1>3. CASE CopyData
  BY <1>a, <1>c, <1>d, <1>e, <1>g, <1>3
  DEF CopyData, Succeeds, StoredInv, FirstScript, NothingStored, LocalAt, HdfsAt,
     ParquetAt, Working, InBounds, S
<1>4. CASE CopyQueries
  BY <1>a, <1>c, <1>d, <1>e, <1>g, <1>4
  DEF CopyQueries, Succeeds, StoredInv, FirstScript, NothingStored, LocalAt, HdfsAt,
     ParquetAt, Working, InBounds, S
<1>5. CASE RemoveLocal
  BY <1>a, <1>c, <1>d, <1>e, <1>g, <1>5
  DEF RemoveLocal, Succeeds, StoredInv, FirstScript, NothingStored, LocalAt, HdfsAt,
     ParquetAt, Working, InBounds, S
<1>6. CASE SetupHistory
  BY <1>a, <1>c, <1>d, <1>e, <1>g, <1>6
  DEF SetupHistory, Succeeds, StoredInv, FirstScript, NothingStored, LocalAt, HdfsAt,
     ParquetAt, Working, InBounds, S
<1>7. CASE SkipTables
  BY <1>a, <1>c, <1>d, <1>e, <1>g, <1>7
  DEF SkipTables, AfterTables, Succeeds, StoredInv, FirstScript, NothingStored, LocalAt,
     HdfsAt, ParquetAt, Working, InBounds, S
<1>8. CASE MarkTables
  BY <1>a, <1>c, <1>d, <1>e, <1>g, <1>8
  DEF MarkTables, Succeeds, StoredInv, FirstScript, NothingStored, LocalAt, HdfsAt,
     ParquetAt, Working, InBounds, S
<1>9. CASE CreateTables
  BY <1>a, <1>c, <1>d, <1>e, <1>g, <1>9
  DEF CreateTables, AfterTables, Created, Succeeds, StoredInv, FirstScript, NothingStored,
     LocalAt, HdfsAt, ParquetAt, Working, InBounds, S
<1>10. CASE RemoveCsv
  BY <1>a, <1>c, <1>d, <1>e, <1>g, <1>10
  DEF RemoveCsv, Succeeds, StoredInv, FirstScript, NothingStored, LocalAt, HdfsAt,
     ParquetAt, Working, InBounds, S
<1>11. CASE StartThreads
  BY <1>a, <1>c, <1>d, <1>e, <1>g, <1>11
  DEF StartThreads, Succeeds, StoredInv, FirstScript, NothingStored, LocalAt, HdfsAt,
     ParquetAt, Working, InBounds, S
<1>12. CASE JoinThreads
  BY <1>a, <1>c, <1>d, <1>e, <1>g, <1>12
  DEF JoinThreads, Succeeds, StoredInv, FirstScript, NothingStored, LocalAt, HdfsAt,
     ParquetAt, Working, InBounds, S
<1>13. CASE CopyHistory
  BY <1>a, <1>c, <1>d, <1>e, <1>g, <1>13
  DEF CopyHistory, CleanUp, Succeeds, StoredInv, FirstScript, NothingStored, LocalAt, HdfsAt,
     ParquetAt, Working, InBounds, S
<1>14. CASE RemoveParquet
  BY <1>a, <1>c, <1>d, <1>e, <1>g, <1>14
  DEF RemoveParquet, Succeeds, StoredInv, FirstScript, NothingStored, LocalAt, HdfsAt,
     ParquetAt, Working, InBounds, S
<1>15. CASE Done
  BY <1>a, <1>c, <1>d, <1>e, <1>g, <1>15
  DEF Done, Succeeds, StoredInv, FirstScript, NothingStored, LocalAt, HdfsAt, ParquetAt,
     Working, InBounds, S
<1>16. CASE GenData
  BY <1>a, <1>c, <1>d, <1>e, <1>g, <1>16
  DEF GenData, Succeeds, StoredInv, FirstScript, NothingStored, LocalAt, HdfsAt,
     ParquetAt, Working, InBounds, S
<1>17. CASE GenDdl
  BY <1>a, <1>c, <1>d, <1>e, <1>g, <1>17
  DEF GenDdl, Succeeds, StoredInv, FirstScript, NothingStored, LocalAt, HdfsAt, ParquetAt,
     Working, InBounds, S
<1>18. CASE CopyQueriesLocally
  BY <1>a, <1>c, <1>d, <1>e, <1>g, <1>18
  DEF CopyQueriesLocally, Succeeds, StoredInv, FirstScript, NothingStored, LocalAt,
     HdfsAt, ParquetAt, Working, InBounds, S
<1>19. ASSUME NEW q \in Queues, StartRun(q) PROVE StoredInv'
  BY <1>19
  DEF StartRun, StoredInv, FirstScript, NothingStored, LocalAt, HdfsAt, ParquetAt,
     Working, S
<1>20. ASSUME NEW a \in apps, EndRun(a) \/ Timeout(a) PROVE StoredInv'
  BY <1>20
  DEF EndRun, Timeout, StoredInv, FirstScript, NothingStored, LocalAt, HdfsAt, ParquetAt,
     Working, S
<1>21. CASE UNCHANGED vars
  BY <1>21
  DEF vars, StoredInv, FirstScript, NothingStored, LocalAt, HdfsAt, ParquetAt, Working, S
<1> QED
  BY <1>b, <1>1, <1>2, <1>3, <1>4, <1>5, <1>6, <1>7, <1>8, <1>9, <1>10, <1>11, <1>12,
     <1>13, <1>14, <1>15, <1>16, <1>17, <1>18, <1>19, <1>20, <1>21
  DEF Next, ScriptStep, ProcessEnds

\* But for scales on which a command has failed, the data of one scale at a time
\* take up space: each copy is removed once the next has been made.
THEOREM OneScale == Spec => []OneScaleStored
<1>1. Init => StoredInv
  BY ConstantTypes DEF Init, StoredInv, NothingStored, Working
<1>2. RunInv /\ StoredInv /\ [Next]_vars => StoredInv'
  BY StepStored, StepTypes DEF RunInv
<1>3. RunInv /\ StoredInv => OneScaleStored
  <2> SUFFICES ASSUME RunInv, StoredInv, FirstScript PROVE OneScaleStored
    BY DEF OneScaleStored, FirstScript
  <2> DEFINE D == {s \in ScaleSet : faults[s] = 0 /\ {local[s], hdfs[s], parquet[s]} # {"none"}}
  <2>1. \A s \in D : s = S
    <3> SUFFICES ASSUME NEW s \in D PROVE s = S
      OBVIOUS
    <3>1. PICK i \in 1 .. Len(Scales) : s = Scales[i]
      BY DEF ScaleSet
    <3> QED
      BY <3>1, ConstantTypes DEF StoredInv, NothingStored, RunInv, TypeOK, S
  <2>2. D \subseteq {S}
    BY <2>1
  <2>3. IsFiniteSet({S}) /\ Cardinality({S}) = 1
    BY FS_Singleton
  <2>4. Cardinality(D) <= 1
    BY <2>2, <2>3, FS_Subset
  <2> QED
    BY <2>4 DEF OneScaleStored
<1> QED
  BY <1>1, <1>2, <1>3, RunInvariance, PTL DEF Spec

\* What each step finds done by those before it, where none has failed.
ReadableInv ==
  FirstScript =>
    /\ \A i \in 1 .. Len(Scales) :
         i > scale \/ (i = scale /\ pc \in BeforeTables) => Scales[i] \notin marker
    /\ Working /\ faults[S] = 0 =>
         /\ pc = "wait_generate" =>
              /\ local[S] = IF "gen_data" \in wait THEN "none" ELSE "full"
              /\ "gen_ddl" \notin wait => <<mode, S>> \in ddl
              /\ "copy_queries" \notin wait => "local" \in texts
         /\ pc = "copy_data" => local[S] = "full"
         /\ pc # "wait_generate" => <<mode, S>> \in ddl /\ "local" \in texts
         /\ pc \in {"copy_queries", "remove_local", "setup_history", "create_tables",
                     "spark_sql"} => hdfs[S] = "full"
         /\ pc \notin {"wait_generate", "copy_data", "copy_queries"} => "hdfs" \in texts
         /\ pc \in {"create_tables", "spark_sql"} => history
         /\ pc = "remove_csv" => catalog[mode][S] = "full" /\ parquet[S] = "full"
         /\ pc \in {"query", "join"} => Readable(S)

LEMMA StepReadable ==
  ASSUME TypeOK, InBounds, InBounds', StoredInv, ReadableInv, [Next]_vars
  PROVE  ReadableInv'
<1> SUFFICES ASSUME FirstScript' PROVE ReadableInv'
  BY DEF ReadableInv
<1>b. ~StartAgain
  BY ConstantTypes DEF TypeOK, StartAgain, FirstScript
<1>a. FirstScript /\ (wait # {} => pc = "wait_generate")
  BY <1>b
  DEF InBounds, FirstScript, Next, ScriptStep, ProcessEnds, vars, Generate, Generated,
     CopyData, CopyQueries, RemoveLocal, SetupHistory, SkipTables, MarkTables,
     CreateTables, RemoveCsv, StartThreads, StartRun, JoinThreads, CopyHistory,
     RemoveParquet, Done, GenData, GenDdl, CopyQueriesLocally, EndRun, Timeout
<1>c. \A i \in 1 .. Len(Scales) : i # scale /\ scale <= Len(Scales) => Scales[i] # S
  BY ScalesDiffer, ConstantTypes DEF TypeOK, S
<1>d. /\ scale \in 1 .. Len(Scales) + 1 /\ Len(Scales) \in Nat
      /\ \A i \in 1 .. Len(Scales) : Scales[i] \in ScaleSet
      /\ scale <= Len(Scales) => S \in ScaleSet
  BY ConstantTypes DEF TypeOK, S
<1>e. /\ local \in [ScaleSet -> Contents] /\ hdfs \in [ScaleSet -> Contents]
      /\ parquet \in [ScaleSet -> Contents] /\ mode \in {"csv", "parquet"}
      /\ catalog \in [{"csv", "parquet"} -> [ScaleSet -> Contents]]
  BY ConstantTypes DEF TypeOK
<1>f. CASE ~Succeeds
  <2>1. Working' => scale' = scale /\ S' = S
    BY <1>f, StepFails DEF Working, S
  <2>2. ASSUME NEW i \in 1 .. Len(Scales),
               i > scale' \/ (i = scale' /\ pc' \in BeforeTables)
        PROVE  Scales[i] \notin marker'
    <3>1. CASE i = scale
      BY <1>a, <1>d, <1>f, <2>2, <3>1, StepFails DEF ReadableInv
    <3>2. CASE i # scale
      <4>1. i > scale /\ scale <= Len(Scales)
        BY <1>d, <1>f, <2>2, <3>2, StepFails DEF InBounds
      <4> QED
        BY <1>a, <1>c, <1>d, <1>f, <4>1, StepFails DEF ReadableInv
    <3> QED
      BY <3>1, <3>2
  <2> QED
    BY <1>f, <2>1, <2>2, StepFails DEF ReadableInv
<1>g. SUFFICES ASSUME Succeeds, ~(Working /\ Fails) PROVE ReadableInv'
  BY <1>f, StepFaults
<1>1. CASE Generate
  BY <1>a, <1>c, <1>d, <1>e, <1>g, <1>1
  DEF Generate, Succeeds, ReadableInv, StoredInv, NothingStored, LocalAt, HdfsAt,
     ParquetAt, FirstScript, BeforeTables, Readable, Working, InBounds, S
<1>2. CASE Generated
  BY <1>a, <1>c, <1>d, <1>e, <1>g, <1>2
  DEF Generated, Succeeds, ReadableInv, StoredInv, FirstScript, BeforeTables, Readable,
     Working, InBounds, S
<1>3. CASE CopyData
  <2>1. faults[S] = 0 => hdfs[S] = "none" /\ local[S] = "full"
    BY <1>a, <1>g, <1>3
    DEF CopyData, Succeeds, StoredInv, ReadableInv, FirstScript, HdfsAt, Working
  <2> QED
    BY <1>a, <1>c, <1>d, <1>e, <1>g, <1>3, <2>1
    DEF CopyData, Succeeds, ReadableInv, FirstScript, BeforeTables, Readable, Working,
       InBounds, S
<1>4. CASE CopyQueries
  BY <1>a, <1>c, <1>d, <1>e, <1>g, <1>4
  DEF CopyQueries, Succeeds, ReadableInv, StoredInv, FirstScript, BeforeTables, Readable,
     Working, InBounds, S
<1>5. CASE RemoveLocal
  BY <1>a, <1>c, <1>d, <1>e, <1>g, <1>5
  DEF RemoveLocal, Succeeds, ReadableInv, StoredInv, FirstScript, BeforeTables, Readable,
     Working, InBounds, S
<1>6. CASE SetupHistory
  BY <1>a, <1>c, <1>d, <1>e, <1>g, <1>6
  DEF SetupHistory, Succeeds, ReadableInv, StoredInv, FirstScript, BeforeTables, Readable,
     Working, InBounds, S
<1>7. CASE SkipTables
  BY <1>a, <1>c, <1>d, <1>e, <1>g, <1>7
  DEF SkipTables, AfterTables, Succeeds, ReadableInv, StoredInv, FirstScript,
     BeforeTables, Readable, Working, InBounds, S
<1>8. CASE MarkTables
  BY <1>a, <1>c, <1>d, <1>e, <1>g, <1>8
  DEF MarkTables, Succeeds, ReadableInv, StoredInv, FirstScript, BeforeTables, Readable,
     Working, InBounds, S
<1>9. CASE CreateTables
  BY <1>a, <1>c, <1>d, <1>e, <1>g, <1>9
  DEF CreateTables, AfterTables, Created, Succeeds, ReadableInv, StoredInv, FirstScript,
     BeforeTables, Readable, Working, InBounds, S
<1>10. CASE RemoveCsv
  BY <1>a, <1>c, <1>d, <1>e, <1>g, <1>10
  DEF RemoveCsv, Succeeds, ReadableInv, StoredInv, FirstScript, BeforeTables, Readable,
     Working, InBounds, S
<1>11. CASE StartThreads
  BY <1>a, <1>c, <1>d, <1>e, <1>g, <1>11
  DEF StartThreads, Succeeds, ReadableInv, StoredInv, FirstScript, BeforeTables, Readable,
     Working, InBounds, S
<1>12. CASE JoinThreads
  BY <1>a, <1>c, <1>d, <1>e, <1>g, <1>12
  DEF JoinThreads, Succeeds, ReadableInv, StoredInv, FirstScript, BeforeTables, Readable,
     Working, InBounds, S
<1>13. CASE CopyHistory
  BY <1>a, <1>c, <1>d, <1>e, <1>g, <1>13
  DEF CopyHistory, CleanUp, Succeeds, ReadableInv, StoredInv, FirstScript, BeforeTables,
     Readable, Working, InBounds, S
<1>14. CASE RemoveParquet
  BY <1>a, <1>c, <1>d, <1>e, <1>g, <1>14
  DEF RemoveParquet, Succeeds, ReadableInv, StoredInv, FirstScript, BeforeTables,
     Readable, Working, InBounds, S
<1>15. CASE Done
  BY <1>a, <1>c, <1>d, <1>e, <1>g, <1>15
  DEF Done, Succeeds, ReadableInv, StoredInv, FirstScript, BeforeTables, Readable,
     Working, InBounds, S
<1>16. CASE GenData
  BY <1>a, <1>c, <1>d, <1>e, <1>g, <1>16
  DEF GenData, Succeeds, ReadableInv, StoredInv, FirstScript, BeforeTables, Readable,
     Working, InBounds, S
<1>17. CASE GenDdl
  BY <1>a, <1>c, <1>d, <1>e, <1>g, <1>17
  DEF GenDdl, Succeeds, ReadableInv, StoredInv, FirstScript, BeforeTables, Readable,
     Working, InBounds, S
<1>18. CASE CopyQueriesLocally
  BY <1>a, <1>c, <1>d, <1>e, <1>g, <1>18
  DEF CopyQueriesLocally, Succeeds, ReadableInv, StoredInv, FirstScript, BeforeTables,
     Readable, Working, InBounds, S
<1>19. ASSUME NEW q \in Queues, StartRun(q) PROVE ReadableInv'
  BY <1>19 DEF StartRun, ReadableInv, FirstScript, BeforeTables, Readable, Working, S
<1>20. ASSUME NEW a \in apps, EndRun(a) \/ Timeout(a) PROVE ReadableInv'
  BY <1>20
  DEF EndRun, Timeout, ReadableInv, FirstScript, BeforeTables, Readable, Working, S
<1>21. CASE UNCHANGED vars
  BY <1>21 DEF vars, ReadableInv, FirstScript, BeforeTables, Readable, Working, S
<1> QED
  BY <1>b, <1>1, <1>2, <1>3, <1>4, <1>5, <1>6, <1>7, <1>8, <1>9, <1>10, <1>11, <1>12,
     <1>13, <1>14, <1>15, <1>16, <1>17, <1>18, <1>19, <1>20, <1>21
  DEF Next, ScriptStep, ProcessEnds

\* The runs the script waits for find complete tables and their queries, unless a
\* command has failed on their scale: each step has been done before the next
\* relies on it, and none relies on what was left of another scale.
THEOREM CompleteData == Spec => []FaultsStayInScale
<1>1. Init => StoredInv /\ ReadableInv
  BY ConstantTypes DEF Init, StoredInv, NothingStored, ReadableInv, Working
<1>2. RunInv /\ StoredInv /\ ReadableInv /\ [Next]_vars => (StoredInv /\ ReadableInv)'
  BY StepStored, StepReadable, StepTypes DEF RunInv
<1>3. RunInv /\ ReadableInv => FaultsStayInScale
  BY DEF RunInv, LiveInv, Awaited, ReadableInv, FirstScript, Working, FaultsStayInScale
<1> QED
  BY <1>1, <1>2, <1>3, RunInvariance, PTL DEF Spec

-----------------------------------------------------------------------------
(***************************************************************************)
(* The event logs.                                                         *)
(***************************************************************************)
\* Run n of query j on scale i in queue q.
RunOf(i, j, q, n) ==
  [scale |-> Scales[i], query |-> Queries[j], queue |-> q, run |-> n, script |-> scripts]

\* The thread of queue q has started that run.
Started(i, j, q, n) ==
  \/ i < scale
  \/ i = scale /\ pc \in {"clean_csv", "clean_parquet"}
  \/ /\ i = scale /\ pc \in {"query", "join"}
     /\ j < query \/ (j = query /\ pc = "join" /\ n > thread[q])

\* copy_history has come to scale i.
Collected(i) == i < scale \/ (i = scale /\ pc \in {"clean_csv", "clean_parquet"})

\* The script ends when it has come to the end of its scales.
AtEnd == pc = "done" => scale > Len(Scales)

\* A run that was started runs, was given up or has left its event log, and those
\* of a scale that has ended are in the output.
SavedInv ==
  NoFaults =>
    /\ pc \in {"create_tables", "spark_sql", "remove_csv", "query", "join",
               "clean_csv", "clean_parquet"} => history
    /\ mode = "csv" /\ pc \notin {"query", "join", "clean_csv"} => query = 1
    /\ \A i \in 1 .. Len(Scales), j \in 1 .. Len(Queries), q \in Queues, n \in 1 .. RunCount :
         /\ Started(i, j, q, n) => RunOf(i, j, q, n) \in apps \cup timedOut \cup logged
         /\ Collected(i) => RunOf(i, j, q, n) \in timedOut \cup saved

LEMMA StepSaved ==
  ASSUME RunInv, RunInv', SavedInv, [Next]_vars
  PROVE  SavedInv'
<1> SUFFICES ASSUME NoFaults' PROVE SavedInv'
  BY DEF SavedInv
<1>a. NoFaults /\ Succeeds /\ ~(Working /\ Fails) /\ (wait # {} => Working)
  <2>1. Succeeds /\ ~(Working /\ Fails)
    BY StepFaults, StepFails DEF RunInv, NoFaults
  <2> QED
    BY <2>1 DEF RunInv, InBounds, Working, Succeeds, NoFaults
<1>b. /\ scale \in Nat /\ query \in Nat /\ Len(Scales) \in Nat /\ Len(Queries) \in Nat
      /\ RunCount \in Nat /\ thread \in [Queues -> 0 .. RunCount]
  BY ConstantTypes DEF RunInv, TypeOK
<1>c. pc # "join" => apps \subseteq timedOut
  BY DEF RunInv, LiveInv, Awaited
<1>1. CASE Generate
  BY <1>a, <1>b, <1>c, <1>1
  DEF Generate, Succeeds, Working, SavedInv, Started, Collected, RunOf
<1>2. CASE Generated
  BY <1>a, <1>b, <1>c, <1>2
  DEF Generated, Succeeds, Working, SavedInv, Started, Collected, RunOf
<1>3. CASE CopyData
  BY <1>a, <1>b, <1>c, <1>3
  DEF CopyData, Succeeds, Working, SavedInv, Started, Collected, RunOf
<1>4. CASE CopyQueries
  BY <1>a, <1>b, <1>c, <1>4
  DEF CopyQueries, Succeeds, Working, SavedInv, Started, Collected, RunOf
<1>5. CASE RemoveLocal
  BY <1>a, <1>b, <1>c, <1>5
  DEF RemoveLocal, Succeeds, Working, SavedInv, Started, Collected, RunOf
<1>6. CASE SetupHistory
  BY <1>a, <1>b, <1>c, <1>6
  DEF SetupHistory, Succeeds, Working, SavedInv, Started, Collected, RunOf
<1>7. CASE SkipTables
  BY <1>a, <1>b, <1>c, <1>7
  DEF SkipTables, AfterTables, Succeeds, Working, SavedInv, Started, Collected, RunOf
<1>8. CASE MarkTables
  BY <1>a, <1>b, <1>c, <1>8
  DEF MarkTables, Succeeds, Working, SavedInv, Started, Collected, RunOf
<1>9. CASE CreateTables
  BY <1>a, <1>b, <1>c, <1>9
  DEF CreateTables, AfterTables, Succeeds, Working, SavedInv, Started, Collected, RunOf
<1>10. CASE RemoveCsv
  BY <1>a, <1>b, <1>c, <1>10
  DEF RemoveCsv, RunInv, InBounds, Working, Succeeds, SavedInv, Started, Collected,
     RunOf
<1>11. CASE StartThreads
  BY <1>a, <1>b, <1>c, <1>11
  DEF StartThreads, Succeeds, Working, SavedInv, Started, Collected, RunOf
<1>12. CASE JoinThreads
  BY <1>a, <1>b, <1>c, <1>12
  DEF JoinThreads, Live, RunInv, InBounds, Working, Succeeds, SavedInv, Started,
     Collected, RunOf
<1>13. CASE CopyHistory
  BY <1>a, <1>b, <1>c, <1>13
  DEF CopyHistory, CleanUp, RunInv, InBounds, Working, Succeeds, SavedInv, Started, Collected,
     RunOf
<1>14. CASE RemoveParquet
  BY <1>a, <1>b, <1>c, <1>14
  DEF RemoveParquet, Succeeds, Working, SavedInv, Started, Collected, RunOf
<1>15. CASE Done
  BY <1>a, <1>b, <1>c, <1>15
  DEF Done, RunInv, InBounds, Working, Succeeds, SavedInv, Started, Collected, RunOf
<1>16. CASE GenData
  BY <1>a, <1>b, <1>c, <1>16
  DEF GenData, Succeeds, Working, SavedInv, Started, Collected, RunOf
<1>17. CASE GenDdl
  BY <1>a, <1>b, <1>c, <1>17
  DEF GenDdl, Succeeds, Working, SavedInv, Started, Collected, RunOf
<1>18. CASE CopyQueriesLocally
  BY <1>a, <1>b, <1>c, <1>18
  DEF CopyQueriesLocally, Succeeds, Working, SavedInv, Started, Collected, RunOf
<1>19. ASSUME NEW q \in Queues, StartRun(q) PROVE SavedInv'
  <2>1. /\ apps' = apps \cup {App(q, thread[q])} /\ thread' = [thread EXCEPT ![q] = thread[q] - 1]
        /\ pc = "join" /\ UNCHANGED <<scriptVars, history, timedOut, logged, saved>>
    BY <1>19 DEF StartRun
  <2>2. App(q, thread[q]) = RunOf(scale, query, q, thread[q])
    BY DEF App, RunOf, S
  <2>3. ASSUME NEW i \in 1 .. Len(Scales), NEW j \in 1 .. Len(Queries), NEW r \in Queues,
               NEW n \in 1 .. RunCount, Started(i, j, r, n)'
        PROVE  Started(i, j, r, n) \/ (i = scale /\ j = query /\ r = q /\ n = thread[q])
    BY <1>b, <2>1, <2>3 DEF Started
  <2> QED
    BY <1>a, <2>1, <2>2, <2>3 DEF SavedInv, Started, Collected, RunOf
<1>20. ASSUME NEW a \in apps, EndRun(a) \/ Timeout(a) PROVE SavedInv'
  <2>1. UNCHANGED <<scriptVars, history, thread, saved>> /\ timedOut \subseteq timedOut'
    BY <1>20 DEF EndRun, Timeout
  <2>2. apps \cup timedOut \cup logged \subseteq apps' \cup timedOut' \cup logged'
    <3>1. a \notin timedOut => history
      BY <1>a, <1>c DEF SavedInv
    <3> QED
      BY <1>20, <3>1 DEF EndRun, Timeout
  <2> QED
    BY <1>a, <2>1, <2>2 DEF SavedInv, Started, Collected, RunOf
<1>21. CASE StartAgain
  BY <1>a, <1>b, <1>21 DEF StartAgain, SavedInv, Started, Collected, RunOf
<1>22. CASE UNCHANGED vars
  BY <1>a, <1>22 DEF vars, SavedInv, Started, Collected, RunOf
<1> QED
  BY <1>1, <1>2, <1>3, <1>4, <1>5, <1>6, <1>7, <1>8, <1>9, <1>10, <1>11, <1>12, <1>13,
     <1>14, <1>15, <1>16, <1>17, <1>18, <1>19, <1>20, <1>21, <1>22
  DEF Next, ScriptStep, ProcessEnds

\* The output of a script that has ended holds the event log of each run of each
\* query in each queue, but for those it gave up, unless a command has failed.
THEOREM RunsSaved == Spec => []EveryRunSaved
<1>1. Init => SavedInv
  BY ConstantTypes DEF Init, SavedInv, Started, Collected
<1>2. RunInv /\ RunInv' /\ SavedInv /\ [Next]_vars => SavedInv'
  BY StepSaved
<1>3. RunInv /\ SavedInv /\ AtEnd => EveryRunSaved
  <2> SUFFICES ASSUME RunInv, SavedInv, AtEnd, pc = "done", NoFaults,
                      NEW a \in AppSet, a.script = scripts
               PROVE  a \in saved \cup timedOut
    BY DEF EveryRunSaved
  <2>1. PICK i \in 1 .. Len(Scales) : a.scale = Scales[i]
    BY DEF AppSet, ScaleSet
  <2>2. PICK j \in 1 .. Len(Queries) : a.query = Queries[j]
    BY DEF AppSet, QuerySet
  <2>3. a.queue \in Queues /\ a.run \in 1 .. RunCount
    BY DEF AppSet
  <2>4. a = RunOf(i, j, a.queue, a.run)
    BY <2>1, <2>2 DEF AppSet, RunOf
  <2>5. Collected(i)
    BY ConstantTypes DEF AtEnd, Collected, RunInv, TypeOK
  <2> QED
    BY <2>3, <2>4, <2>5 DEF SavedInv
<1>4. RunInv /\ AtEnd /\ [Next]_vars => AtEnd'
  BY ConstantTypes
  DEF AtEnd, RunInv, TypeOK, InBounds, Working, Next, ScriptStep, ProcessEnds, vars,
     Generate, Generated, CopyData, CopyQueries, RemoveLocal,
     SetupHistory, SkipTables, AfterTables, MarkTables, CreateTables, RemoveCsv, StartThreads,
     StartRun, JoinThreads, CopyHistory, CleanUp, RemoveParquet, Done, GenData, GenDdl,
     CopyQueriesLocally, EndRun, Timeout, StartAgain
<1>5. Init => AtEnd
  BY DEF Init, AtEnd
<1> QED
  BY <1>1, <1>2, <1>3, <1>4, <1>5, RunInvariance, PTL DEF Spec
===============================================================================
