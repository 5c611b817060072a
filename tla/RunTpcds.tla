------------------------------- MODULE RunTpcds -------------------------------
(***************************************************************************)
(* run_tpcds.py, run_all_scales_one_by_one: for one scale factor after the *)
(* other, generate the data, copy it to HDFS, create the tables, run every *)
(* query in every queue at once, save the history and clean up.            *)
(*                                                                         *)
(* Every step is a command in a container (docker-compose run ...), whose  *)
(* exit code is logged and otherwise ignored, but for one: copy_history    *)
(* asks docker-compose ps for a container with check_output, and when that *)
(* fails the script is over.  A command that fails leaves its effect       *)
(* undone or half done.  What a command does to the files is read off the  *)
(* command line; HDFS, Spark and Docker themselves are external.           *)
(***************************************************************************)
EXTENDS Naturals, Sequences, FiniteSets

CONSTANTS
  Scales,      \* sys.argv[1:], in order
  Queries,     \* the queries, in order
  Queues,      \* QUEUE_NAMES
  RunCount,    \* RUN_COUNT
  Modes,       \* the values USE_CSV may have: a subset of {"csv", "parquet"}
  MayBeKilled, \* bound: whether a script may be killed before it has ended
  MaxScripts,  \* bound: how often the script is started
  MaxFaults,   \* bound: how many commands fail on one scale
  MaxTimeouts  \* bound: how many runs exceed run_benchmark_timeout

ScaleSet == {Scales[i] : i \in 1 .. Len(Scales)}
QuerySet == {Queries[i] : i \in 1 .. Len(Queries)}

ASSUME RunTpcdsAssumption ==
  /\ Modes \subseteq {"csv", "parquet"}
  /\ MayBeKilled \in BOOLEAN /\ RunCount \in Nat
  /\ MaxScripts \in Nat \ {0} /\ MaxFaults \in Nat /\ MaxTimeouts \in Nat
  /\ Scales \in Seq(ScaleSet) /\ Len(Scales) = Cardinality(ScaleSet)
  /\ Queries \in Seq(QuerySet)

VARIABLES
  mode,      \* "csv" if use_csv_instead_of_parquet, else "parquet"
  scripts,   \* how often the script has been started
  faults,    \* faults[s]: how many commands have failed on scale s
  pc,        \* where the script is
  scale,     \* the index of the scale in Scales
  query,     \* the index of the query in Queries
  wait,      \* wait_list: the processes started and not yet ended
  local,     \* local[s]: /tpc-ds-files/data/csv_s, in the volume
  ddl,       \* the DDL files in the volume
  hdfs,      \* hdfs[s]: /tpc-ds-files/data/csv_s in HDFS
  marker,    \* the scales whose directory parquet_s is in HDFS
  parquet,   \* parquet[s]: what is in that directory
  catalog,   \* catalog[m][s]: the tables of database scale_s or scale_s_csv
  history,   \* the event log directory of Spark is in HDFS
  texts,     \* where the query texts are: subset of {"local", "hdfs"}
  skipped,   \* the <<mode, scale>> create_tables has logged as skipped
  thread,    \* thread[q]: the runs the thread of queue q has left to start
  apps,      \* the Spark applications that run
  timedOut,  \* those the script no longer waits for: timeout, terminate()
  logged,    \* the applications whose event log is complete in HDFS
  saved      \* the event logs in ./output

scriptVars == <<mode, scripts, pc, scale, query>>
dataVars == <<local, ddl, hdfs, marker, parquet, catalog, history, texts>>
runVars == <<thread, apps, timedOut, logged>>
vars == <<scriptVars, faults, wait, dataVars, skipped, runVars, saved>>

S == Scales[scale]

Init ==
  /\ mode \in Modes
  /\ scripts = 1 /\ faults = [s \in ScaleSet |-> 0]
  /\ pc = "generate" /\ scale = 1 /\ query = 1
  /\ wait = {}
  /\ local = [s \in ScaleSet |-> "none"]
  /\ ddl = {}
  /\ hdfs = [s \in ScaleSet |-> "none"]
  /\ marker = {}
  /\ parquet = [s \in ScaleSet |-> "none"]
  /\ catalog = [m \in {"csv", "parquet"} |-> [s \in ScaleSet |-> "none"]]
  /\ history = FALSE /\ texts = {} /\ skipped = {}
  /\ thread = [q \in Queues |-> 0]
  /\ apps = {} /\ timedOut = {} /\ logged = {} /\ saved = {}

Goto(l) == pc' = l

\* The command ends well, or it fails; in all but copy_history nobody looks.
Succeeds == UNCHANGED faults
Fails == faults[S] < MaxFaults /\ faults' = [faults EXCEPT ![S] = @ + 1]

-----------------------------------------------------------------------------
(***************************************************************************)
(* From the generator to the tables.                                       *)
(***************************************************************************)

\* generate_tpc_ds_for_scales: three processes at once.
Generate ==
  /\ pc = "generate" /\ scale <= Len(Scales)
  /\ wait' = {"copy_queries", "gen_data", "gen_ddl"}
  /\ Goto("wait_generate")
  /\ UNCHANGED <<mode, scripts, scale, query, faults, dataVars, skipped, runVars, saved>>

\* dsdgen without FORCE: it refuses files that are there.
GenData ==
  /\ "gen_data" \in wait
  /\ wait' = wait \ {"gen_data"}
  /\ \/ Succeeds /\ local' = [local EXCEPT ![S] = IF @ = "none" THEN "full" ELSE @]
     \/ Fails /\ local' = [local EXCEPT ![S] = IF @ = "none" THEN "part" ELSE @]
  /\ UNCHANGED <<scriptVars, ddl, hdfs, marker, parquet, catalog, history, texts,
                 skipped, runVars, saved>>

\* gen_ddl or gen_ddl_csv.
GenDdl ==
  /\ "gen_ddl" \in wait
  /\ wait' = wait \ {"gen_ddl"}
  /\ \/ Succeeds /\ ddl' = ddl \union {<<mode, S>>}
     \/ Fails /\ UNCHANGED ddl
  /\ UNCHANGED <<scriptVars, local, hdfs, marker, parquet, catalog, history, texts,
                 skipped, runVars, saved>>

CopyQueriesLocally ==
  /\ "copy_queries" \in wait
  /\ wait' = wait \ {"copy_queries"}
  /\ \/ Succeeds /\ texts' = texts \union {"local"}
     \/ Fails /\ UNCHANGED texts
  /\ UNCHANGED <<scriptVars, local, ddl, hdfs, marker, parquet, catalog,
                 history, skipped, runVars, saved>>

\* Mutant: the loop over the wait_list left out.
GeneratedUnwaited ==
  /\ pc = "wait_generate"
  /\ Goto("copy_data")
  /\ UNCHANGED <<mode, scripts, scale, query, faults, wait, dataVars, skipped, runVars, saved>>

\* process.wait() for each of the wait_list.
Generated ==
  /\ pc = "wait_generate" /\ wait = {}
  /\ Goto("copy_data")
  /\ UNCHANGED <<mode, scripts, scale, query, faults, wait, dataVars, skipped, runVars, saved>>

\* copy_to_hdfs: a target that is there is not replaced; the copy then goes
\* into it as a subdirectory.
CopyData ==
  /\ pc = "copy_data"
  /\ \/ Succeeds /\ hdfs' = [hdfs EXCEPT ![S] = IF @ = "none" THEN local[S] ELSE @]
     \/ Fails /\ hdfs' = [hdfs EXCEPT ![S] = IF @ = "none" /\ local[S] # "none" THEN "part" ELSE @]
  /\ Goto("copy_queries")
  /\ UNCHANGED <<mode, scripts, scale, query, wait, local, ddl, marker,
                 parquet, catalog, history, texts, skipped, runVars, saved>>

CopyQueries ==
  /\ pc = "copy_queries"
  /\ \/ Succeeds /\ texts' = IF "local" \in texts THEN texts \union {"hdfs"} ELSE texts
     \/ Fails /\ UNCHANGED texts
  /\ Goto("remove_local")
  /\ UNCHANGED <<mode, scripts, scale, query, wait, local, ddl, hdfs, marker,
                 parquet, catalog, history, skipped, runVars, saved>>

\* Mutant: rm without -r, which leaves a directory.
RemoveLocalFiles ==
  /\ pc = "remove_local"
  /\ Goto("setup_history")
  /\ UNCHANGED <<mode, scripts, scale, query, faults, wait, dataVars, skipped, runVars, saved>>

\* remove_csv_data_from_local, whether or not the copy succeeded.
RemoveLocal ==
  /\ pc = "remove_local"
  /\ \/ Succeeds /\ local' = [local EXCEPT ![S] = "none"]
     \/ Fails /\ UNCHANGED local
  /\ Goto("setup_history")
  /\ UNCHANGED <<mode, scripts, scale, query, wait, ddl, hdfs, marker,
                 parquet, catalog, history, texts, skipped, runVars, saved>>

\* setup_history_server: without the directory no Spark application starts.
SetupHistory ==
  /\ pc = "setup_history"
  /\ \/ Succeeds /\ history' = TRUE
     \/ Fails /\ UNCHANGED history
  /\ Goto("create_tables")
  /\ UNCHANGED <<mode, scripts, scale, query, wait, local, ddl, hdfs, marker, parquet,
                 catalog, texts, skipped, runVars, saved>>

AfterTables == IF mode = "csv" THEN "query" ELSE "remove_csv"

\* create_tables: mkdir parquet_s (without -p) is the test whether the tables
\* are there; both modes use the same directory.
SkipTables ==
  /\ pc = "create_tables"
  /\ \/ Succeeds /\ S \in marker
     \/ Fails
  /\ skipped' = skipped \union {<<mode, S>>}
  /\ Goto(AfterTables)
  /\ UNCHANGED <<mode, scripts, scale, query, wait, dataVars, runVars, saved>>

MarkTables ==
  /\ pc = "create_tables" /\ S \notin marker
  /\ marker' = marker \union {S}
  /\ Goto("spark_sql")
  /\ UNCHANGED <<mode, scripts, scale, query, faults, wait, local, ddl, hdfs,
                 parquet, catalog, history, texts, skipped, runVars, saved>>

\* What spark-sql makes of the DDL file: the CSV tables are views of the files,
\* the parquet tables copies of them.
Created == hdfs[S]

\* create_tables: spark-sql -f tpcds_s.sql, which first drops the database.
CreateTables ==
  /\ pc = "spark_sql"
  /\ \/ /\ Succeeds /\ history /\ <<mode, S>> \in ddl
        /\ catalog' = [catalog EXCEPT ![mode][S] = Created]
        /\ parquet' = IF mode = "csv" THEN parquet ELSE [parquet EXCEPT ![S] = Created]
     \/ /\ Succeeds /\ ~ (history /\ <<mode, S>> \in ddl)
        /\ UNCHANGED <<catalog, parquet>>
     \/ /\ Fails /\ history /\ <<mode, S>> \in ddl
        /\ catalog' = [catalog EXCEPT ![mode][S] = "part"]
        /\ parquet' = IF mode = "csv" THEN parquet ELSE [parquet EXCEPT ![S] = "part"]
  /\ Goto(AfterTables)
  /\ UNCHANGED <<mode, scripts, scale, query, wait, local, ddl, hdfs, marker,
                 history, texts, skipped, runVars, saved>>

\* remove_csv_data_from_hdfs: before the queries in parquet mode, after them
\* in csv mode.
RemoveCsv ==
  /\ pc \in {"remove_csv", "clean_csv"}
  /\ \/ Succeeds /\ hdfs' = [hdfs EXCEPT ![S] = "none"]
     \/ Fails /\ UNCHANGED hdfs
  /\ IF pc = "remove_csv" THEN Goto("query") /\ UNCHANGED scale
                          ELSE Goto("generate") /\ scale' = scale + 1
  /\ query' = 1
  /\ UNCHANGED <<mode, scripts, wait, local, ddl, marker, parquet, catalog,
                 history, texts, skipped, runVars, saved>>

-----------------------------------------------------------------------------
(***************************************************************************)
(* run_benchmark: one thread per queue, all on the same query.             *)
(***************************************************************************)
App(q, n) ==
  [scale |-> S, query |-> Queries[query], queue |-> q, run |-> n, script |-> scripts]

\* The application the thread of queue q waits for.
Live(q) == {a \in apps \ timedOut : a.queue = q}

StartThreads ==
  /\ pc = "query" /\ query <= Len(Queries)
  /\ thread' = [q \in Queues |-> RunCount]
  /\ Goto("join")
  /\ UNCHANGED <<mode, scripts, scale, query, faults, wait, dataVars, skipped,
                 apps, timedOut, logged, saved>>

\* Mutant: the next run is started without waiting for the last.
StartRunUnwaited(q) ==
  /\ pc = "join" /\ thread[q] > 0
  /\ apps' = apps \union {App(q, thread[q])}
  /\ thread' = [thread EXCEPT ![q] = @ - 1]
  /\ UNCHANGED <<scriptVars, faults, wait, dataVars, skipped, timedOut, logged, saved>>

\* Mutant: range(run_count + 1).
StartRunOnceMore(q) ==
  /\ pc = "join" /\ thread[q] >= 0 /\ Live(q) = {}
  /\ apps' = apps \union {App(q, thread[q])}
  /\ thread' = [thread EXCEPT ![q] = @ - 1]
  /\ UNCHANGED <<scriptVars, faults, wait, dataVars, skipped, timedOut, logged, saved>>

\* The thread starts its next run once it no longer waits for the last.
StartRun(q) ==
  /\ pc = "join" /\ thread[q] > 0 /\ Live(q) = {}
  /\ apps' = apps \union {App(q, thread[q])}
  /\ thread' = [thread EXCEPT ![q] = @ - 1]
  /\ UNCHANGED <<scriptVars, faults, wait, dataVars, skipped, timedOut, logged, saved>>

\* The application ends, and its event log with it; a driver that was stopped
\* may leave its log unfinished.
EndRun(a) ==
  /\ a \in apps
  /\ apps' = apps \ {a}
  /\ \/ history /\ logged' = logged \union {a}
     \/ (~ history \/ a \in timedOut) /\ UNCHANGED logged
  /\ UNCHANGED <<scriptVars, faults, wait, dataVars, skipped, thread, timedOut, saved>>

\* Mutant: run.wait() without a timeout.
TimeoutNever(a) == FALSE

\* run.wait(timeout) expires; terminate() asks docker-compose to stop the
\* container and does not wait until it has.
Timeout(a) ==
  /\ a \in apps \ timedOut
  /\ Cardinality(timedOut) < MaxTimeouts
  /\ timedOut' = timedOut \union {a}
  /\ UNCHANGED <<scriptVars, faults, wait, dataVars, skipped, thread, apps, logged, saved>>

\* Mutant: only the first of the threads is joined.
JoinFirstThread ==
  /\ pc = "join"
  /\ \E q \in Queues : thread[q] = 0 /\ Live(q) = {}
  /\ query' = query + 1
  /\ Goto("query")
  /\ UNCHANGED <<mode, scripts, scale, faults, wait, dataVars, skipped, runVars, saved>>

\* t.join() for each of the threads.
JoinThreads ==
  /\ pc = "join"
  /\ \A q \in Queues : thread[q] = 0 /\ Live(q) = {}
  /\ query' = query + 1
  /\ Goto("query")
  /\ UNCHANGED <<mode, scripts, scale, faults, wait, dataVars, skipped, runVars, saved>>

CleanUp == IF mode = "csv" THEN "clean_csv" ELSE "clean_parquet"

\* copy_history, and which of the two clean-ups follows.  A failing rm or copy
\* is logged; a failing docker-compose ps raises CalledProcessError, which
\* nothing catches: no clean-up follows, nor any other scale.
CopyHistory ==
  /\ pc = "query" /\ query > Len(Queries)
  /\ \/ Succeeds /\ saved' = saved \union logged /\ Goto(CleanUp)
     \/ Fails /\ UNCHANGED saved /\ pc' \in {CleanUp, "aborted"}
  /\ UNCHANGED <<mode, scripts, scale, query, wait, dataVars, skipped, runVars>>

\* remove_parquet_files: the directory that marks the tables goes with them.
RemoveParquet ==
  /\ pc = "clean_parquet"
  /\ \/ /\ Succeeds
        /\ marker' = marker \ {S} /\ parquet' = [parquet EXCEPT ![S] = "none"]
     \/ Fails /\ UNCHANGED <<marker, parquet>>
  /\ scale' = scale + 1
  /\ Goto("generate")
  /\ UNCHANGED <<mode, scripts, query, wait, local, ddl, hdfs, catalog, history, texts,
                 skipped, runVars, saved>>

Done ==
  /\ pc = "generate" /\ scale > Len(Scales)
  /\ Goto("done")
  /\ UNCHANGED <<mode, scripts, scale, query, faults, wait, dataVars, skipped, runVars, saved>>

-----------------------------------------------------------------------------
\* The script is started again, the cluster still up, maybe in the other mode.
\* What the last one started has ended; the operator has moved its output away.
StartAgain ==
  /\ pc \in {"done", "aborted"} \/ MayBeKilled
  /\ scripts < MaxScripts
  /\ apps = {} /\ wait = {}
  /\ scripts' = scripts + 1
  /\ mode' \in Modes
  /\ Goto("generate") /\ scale' = 1 /\ query' = 1
  /\ thread' = [q \in Queues |-> 0]
  /\ saved' = {} /\ skipped' = {} /\ timedOut' = {}
  /\ UNCHANGED <<faults, wait, dataVars, apps, logged>>

\* One step of the script or of its threads.
ScriptStep ==
  \/ Generate \/ Generated \/ CopyData \/ CopyQueries \/ RemoveLocal \/ SetupHistory
  \/ SkipTables \/ MarkTables \/ CreateTables \/ RemoveCsv
  \/ StartThreads \/ (\E q \in Queues : StartRun(q)) \/ JoinThreads
  \/ CopyHistory \/ RemoveParquet \/ Done

\* A process of the wait_list ends.
ProcessEnds == GenData \/ GenDdl \/ CopyQueriesLocally

Next ==
  \/ ScriptStep \/ ProcessEnds
  \/ \E a \in apps : EndRun(a) \/ Timeout(a)
  \/ StartAgain

Spec == Init /\ [][Next]_vars

\* The commands without a timeout are assumed to end.  A benchmark run is not:
\* it may hang, but its timeout expires.
FairSpec ==
  /\ Spec
  /\ WF_vars(ScriptStep) /\ WF_vars(ProcessEnds)
  /\ WF_vars(\E a \in apps : Timeout(a))

-----------------------------------------------------------------------------
Labels ==
  {"generate", "wait_generate", "copy_data", "copy_queries", "remove_local",
   "setup_history", "create_tables", "spark_sql", "remove_csv", "query", "join",
   "clean_csv", "clean_parquet", "done", "aborted"}

Contents == {"none", "part", "full"}

AppSet == [scale: ScaleSet, query: QuerySet,
           queue: Queues, run: 1 .. RunCount, script: 1 .. MaxScripts]

\* Every variable stays within the values the script gives it.
TypeOK ==
  /\ mode \in Modes /\ scripts \in 1 .. MaxScripts
  /\ faults \in [ScaleSet -> 0 .. MaxFaults]
  /\ pc \in Labels
  /\ scale \in 1 .. Len(Scales) + 1 /\ query \in 1 .. Len(Queries) + 1
  /\ wait \subseteq {"copy_queries", "gen_data", "gen_ddl"}
  /\ local \in [ScaleSet -> Contents] /\ hdfs \in [ScaleSet -> Contents]
  /\ ddl \subseteq Modes \X ScaleSet /\ marker \subseteq ScaleSet
  /\ parquet \in [ScaleSet -> Contents]
  /\ catalog \in [{"csv", "parquet"} -> [ScaleSet -> Contents]]
  /\ history \in BOOLEAN /\ texts \subseteq {"local", "hdfs"}
  /\ skipped \subseteq Modes \X ScaleSet
  /\ thread \in [Queues -> 0 .. RunCount]
  /\ apps \subseteq AppSet /\ timedOut \subseteq AppSet
  /\ logged \subseteq AppSet /\ saved \subseteq logged

\* The applications the script waits for are runs of one query on one scale,
\* one in each queue: the load a query is measured under is its own, in the
\* other queues, and nothing else.
OneQueryAtATime ==
  \A a, b \in apps \ timedOut :
    /\ a.scale = b.scale /\ a.query = b.query
    /\ a.queue = b.queue => a = b

\* Where the data of scale s are while the queries run.
Readable(s) ==
  /\ catalog[mode][s] = "full"
  /\ IF mode = "csv" THEN hdfs[s] = "full" ELSE parquet[s] = "full"
  /\ {"local", "hdfs"} \subseteq texts

\* A failing command costs the runs of its own scale only.  The script goes on
\* with what there is, for the exit codes that would tell are only logged; but
\* a run of the first script finds complete tables and its query unless a
\* command has failed on its scale, whatever has failed on those before.
FaultsStayInScale ==
  scripts = 1 =>
    \A a \in apps \ timedOut : faults[a.scale] = 0 => Readable(a.scale)

\* The data of a run do not change while the script waits for it.
DataUntilRunEnds ==
  [][\A a \in (apps \ timedOut) \intersect (apps' \ timedOut') :
       /\ hdfs'[a.scale] = hdfs[a.scale] /\ parquet'[a.scale] = parquet[a.scale]
       /\ catalog'[mode][a.scale] = catalog[mode][a.scale]]_vars

\* What "one by one" is for: but for scales on which a command has failed, the
\* data of at most one take up space, in the volume or in HDFS.
OneScaleStored ==
  scripts = 1 =>
    Cardinality({s \in ScaleSet :
      faults[s] = 0 /\ {local[s], hdfs[s], parquet[s]} # {"none"}}) <= 1

NoFaults == \A s \in ScaleSet : faults[s] = 0

\* When no command fails, the output of a script that has ended holds the event
\* log of each run of each query in each queue, but for those that timed out.
EveryRunSaved ==
  pc = "done" /\ NoFaults =>
    \A a \in AppSet : a.script = scripts => a \in saved \union timedOut

\* However many commands fail and applications hang, the script, whenever it is
\* started, comes to an end: after its last scale, or in copy_history once every
\* query has had its runs on the scale.
ScriptEnds ==
  []<>(pc = "done" \/ (pc = "aborted" /\ query = Len(Queries) + 1))

\* The test of create_tables is named check_exist and its failure logged as
\* "create_tables({}) skipped": the tables are there already.  Unless a
\* command failed, then, they are there when it says so.
SkipMeansTablesExist ==
  NoFaults => \A k \in skipped : catalog[k[1]][k[2]] = "full"
=============================================================================
