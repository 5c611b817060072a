# Spark on YARN with TPC-DS: a TLA+ model

This project models and checks the programs of the repository: the TPC-DS data
generator `dsdgen`, its relatives `dsqgen` and `distcomp` (C,
`src/tpc-ds/tpcds-kit/tools`), and the script that runs the benchmark
(`src/run_tpcds.py`). Models are TLA+ modules, checked with TLC; theorems are
checked with TLAPS.

## 1. The system and its parts

| Part | State | Operations | Hard behaviour |
|---|---|---|---|
| **split_work** (`parallel.c`) | none | the chunk of child c of n | remainder, small tables |
| **dsdgen process** (`driver.c`, `parallel.c`, `genrand.c`, `print.c`) | the table and row it is at; per stream `nSeed`, `nUsed`; open files | `main`'s table loop, `row_skip`, `gen_tbl`, `row_stop`, `skipDays`, `print_start/end/close` | n processes in one directory, killed and rerun; rows that must not depend on who builds them |
| **table builders** (`w_*.c`, `s_*.c`) | static record, old values, day, permutations | `mk_*`, `pr_*` | data-dependent numbers of draws; statics that carry over; tables built inside other tables' builders |
| **validation** (`validate.c`) | the same | `-VALIDATE`: rows at random | rows built out of order |
| **scaling** (`scaling.c`, `scaling.dst`) | lazily filled row counts | `get_rowcount`, `setUpdateScaling` | interpolation, lazy initialisation, overflow |
| **update sets** (`scaling.c`, `print.c`) | `arUpdateDates`, counts | `setUpdateDates`, `getUpdateDate`, delete files | ends of seasons, leap years |
| **history and joins** (`scd.c`, `join.c`) | none | `setSCDKeys`, `matchSCDSK`, `getSKFromID`, `mk_join` | both ends computed by arithmetic, without the other's rows |
| **dates, decimals, pricing** (`date.c`, `decimal.c`, `pricing.c`) | a year remembered by `set_dow`; the pricing records | conversions, `date_t_op`, `set_pricing` | calendar edges, rounding |
| **random numbers** (`genrand.c`) | `nSeed`, `nInitialSeed` | `next_random`, `skip_random`, reset | skip = n draws, int overflow |
| **printing** (`nulls.c`, `print.c`, `build_support.c`) | null maps, position in the line | `nullSet`, `print_*`, `mk_bkey`, `mk_word` | three numberings of the columns |
| **parameters** (`r_params.c`) | option table | `process_options`, `read_file` | order of file and command line |
| **distributions** (`dcgram.c`, `dcomp.c`, `dist.c`) | index, loaded distributions | compile, load on demand, look up | offsets, running totals |
| **containers** (`list.c`, `StringBuffer.c`) | links and one cursor; a buffer | add, find, read; append, reset | a shared cursor; the terminator |
| **dsqgen** (`QgenMain.c`, `query_handler.c`, `eval.c`, ...) | substitutions and their values, permutations | streams, `GenerateQuery`, `EvalExpr` | values that refer to each other, kept between queries |
| **run_tpcds.py** | scale and query it is at, its child processes and threads | one command after the other in containers; threads per queue | parallel commands, exit codes that are only logged, timeouts, reruns |
| **HDFS, the volume, the catalog** (external) | CSV and parquet data, DDL, tables, event logs | changed by the commands | left half done by a command that fails |
| **cluster start-up** (compose files) | services, ports | `SERVICE_PRECONDITION` | start order |

How they interact: `run_tpcds.py` starts `dsdgen` in a container
(`tpc-ds/run.sh`), copies its files into HDFS, has Spark make tables of them and
runs queries on the tables. The children of a parallel build of `dsdgen` share
the seed, the directory and nothing else: that their files fit together follows
from each one computing the same chunks and the same stream positions. Inside a
process the parts call one another: a builder draws from its streams, asks joins
for keys and pricing for amounts, and prints its row through the null map.

What makes each part correct:

- split_work and scaling: every row is built once; counts are those of
  `scaling.dst`.
- dsdgen: each chunk holds exactly what a serial build writes for its rows
  (`tests/chunked_data.sh` compares chunks for this reason); no row overruns its
  budget of random numbers; items are unique in an order; a return has a sale.
- builders: a row is the same however the process came to it; a new version of a
  business key keeps values of earlier versions of that key only.
- history and joins: the row a fact refers to exists, is of the key, and is the
  version current on the day (less the shift of its table's dates); a refresh row
  refers to a row of its key.
- dates, pricing, random numbers, printing: the two forms of a day agree; parts
  of an amount add up; a skip is as many draws; a line is a row of the DDL.
- dsqgen: a query's values agree with one another and are what was asked for;
  each stream has every template.
- run_tpcds.py: queries run on complete data, one query at a time in each
  queue, on one scale at a time; every run's history is saved; the script ends.

## 2. Modules

| Module | What it is |
|---|---|
| `SplitWork`, `SplitWorkProofs` | `split_work` as operators; chunks are disjoint, cover and balance, for all values |
| `Dsdgen` | the processes of a parallel build: one action per step of `main`, `skipDays`, `mk_master`, `mk_detail`, `print_start`, ... |
| `ChunkFiles` | abstract: each file grows along the slice of the serial build |
| `DsdgenProps` | the serial build as a reference, row by row; the properties against it; the refinement of `ChunkFiles` |
| `MCDsdgen` | instances for TLC |
| `DsdgenProofs` | inductive invariants of the streams and of the items in the files, and their consequences |
| `DsdgenSerialProofs` | a parallel build writes what a serial build writes: days, rows and files, and what follows for returns, for a finished build and for `ChunkFiles` |
| `Recursion` | induction over the natural numbers, functions defined by recursion and `FlattenSeq`, as facts about sets and functions |
| `WarehouseRows` | every builder of the warehouse schema: streams, budgets, draws, printed columns, statics, versions |
| `RefreshRows` | the builders of the refresh schema, many of which call a warehouse builder |
| `RowAccess`, `MCRowAccess` | the rows of any table built in order, from a later row, after other tables, or at random (`-VALIDATE`) |
| `RowAccessProofs` | budgets of all builders, histories, and that a row is the same however it is reached, proved for any number of rows and any choices |
| `RunTpcds`, `RunTpcdsProofs`, `MCRunTpcds` | the benchmark script, the commands it runs, its threads and applications; its safety, proved |
| `Calendar` | `date.c` |
| `SurrogateKeys` | `scd.c`: versions of keys and references to them |
| `Joins`, `JoinsProofs` | `join.c` on top of `SurrogateKeys` and `Calendar`; proofs about the three and `UpdateSet` |
| `UpdateSet` | days and orders of an update set |
| `RandomNumbers` | `genrand.c` over a small prime |
| `Pricing` | `decimal.c` and `pricing.c` |
| `Scaling` | row counts and their division among children |
| `PrintedRows`, `PrintedFields` | null maps, columns and lines; values as fields |
| `Parameters` | `r_params.c` |
| `Distributions` | `distcomp` and `dist.c` |
| `StringBuffers` | `StringBuffer.c` |
| `ToolkitProofs` | proofs about `StringBuffers`, `Scaling`, `RandomNumbers`, `Lists`, `Parameters` and `Pricing` |
| `Lists` | `list.c` as `dsqgen` uses it |
| `QueryValues` | what each function of a template answers |
| `QueryStreams` | `dsqgen`: templates, streams, the values of a query |
| `Toolkit`, `MCToolkit` | the parts from `Calendar` to `QueryStreams`, each in a program that calls it in every order it allows |

### Dsdgen

A child's `pc` names the function it is in; `tab`, `row`, `left`, `line` and
`lines` are the loop variables of `main`, `gen_tbl` and `mk_w_catalog_sales`.
`pos` and `used` are `Streams[].nSeed` and `nUsed`. **A draw is modelled by its
position in its stream**: the value is a function of seed, stream and position,
so two rows agree for every generator if and only if their positions do. Draws
that steer the control flow (number of lines, gift, returned, first item) also
have a value, looked up in a seed; TLC takes several seeds, the proofs any.
`jDate`, `newDate`, `started`, `perm`, `item` and the three records are the
statics of the builders, and keep their contents from row to row as in the code.

The tables are `catalog_sales` (an FL_PARENT whose rows are orders),
`catalog_returns` (its FL_CHILD) and `customer_address` (a plain table, one of
whose streams other streams duplicate, so that `row_skip` of any table moves it).
Of streams used alike one is kept: e.g. `CS_SHIP_DATE_SK` for the streams with one
draw per line. The other tables are in `WarehouseRows` and `RefreshRows`, the
values in the modules of the toolkit. `-CHKSEEDS` looks for what the invariant
`NoSeedOverrun` excludes.

Each `pr_*` call is an action that writes one row (`print_end` flushes each
row); opening the file is an action before it. A process may be killed between
any two actions and be started over, with or without `-FORCE`.

### WarehouseRows, RefreshRows and RowAccess

A table is what `mk_w_x` does to build row r when the choices that steer it come
out as `o` (texts of full length, a gift, lines and returns, the flags of a new
version): how many numbers it draws from which stream, which fields it sets only
once or only for a new key, which calls of `changeSCD` it makes. `RowAccess` runs
these descriptions the way the driver does: `gen` holds streams, statics, old
values and permutations of the process, and a value is the number of the row that
computed it. `SerialRows` is the reference, the table built alone. Tables of the
refresh schema pick a row of a warehouse table and have its builder build that
row, so that the key they pick (`sk`) is among the choices.

Assumed of the constants (TLC evaluates each assumption in the runs): a choice is
one the code can make (`OutcomeAssumption`: no more lines than an order has, a key
from 1 on, any flags); -VALIDATE shows no more rows than there are
(`MaxShownAssumption`); main stops at tables that are not children
(`DriverTables`, which `SessionsAssumption` and `ValidatedAssumption` name); a
column belongs to one table (`OneTablePerStream`, a fact of `column_list.txt` that
depends on no constant, so TLC's evaluation settles it). `SessionsAssumption` also
says that no table of a session draws from the streams of a later one, but from the
one that items borrow of call_center: s_customer and s_customer_address have the
streams of customer_address in common, and a process that builds both gets
addresses in the second that a process of its own would not.

Rows agree when they are within their budgets: `MayOverrun` lists the streams of
`column_list.txt` whose budget a row can exceed (text columns, versions), and
`NoUnknownOverrun` says that there are no others.
`AccessibleRowIsTheTables` leaves out what does not agree, by name: chunks of
`s_purchase`, `s_catalog_order` and `s_web_order` (`row_skip` moves neither the
streams of their returns nor past the numbers their lines overran), and under
`-VALIDATE` `s_store`, `s_warehouse`, `s_call_center`, `s_web_site`, `s_web_page`
and `web_site` (finding 5).

### RunTpcds

`pc` walks through `run_all_scales_one_by_one`; each command of a container is
an action, which succeeds, or fails and leaves its effect
undone or half done (`"part"`). `faults[s]` counts the failures on scale s, at most
`MaxFaults`. The exit code changes nothing, as in the code, but for two commands:
in `create_tables` it is the test whether tables exist, and in `copy_history` a
failing `docker-compose ps` (`run_tpcds.py:192`) raises an exception that nothing
catches, which ends the script (`"aborted"`) before the clean-up and the scales that
follow. `wait` is the wait_list of the three processes that
generate; `thread[q]` and `apps` are the threads of `run_benchmark` and the Spark
applications. `timedOut` holds the applications whose `wait` expired: they go on
until their container has stopped. What a command does to the volume, HDFS or the
catalog is read off its command line and the scripts it runs (`run.sh`,
`gen_ddl.py`): `dsdgen` without FORCE keeps files that are there, `copyFromLocal`
does not replace an existing target, `mkdir` fails on a directory that exists.
Assumed of the surroundings: a scale is named once; between two starts of the
script the operator lets what is running end and moves `./output` away (the
script refuses an existing one).

### The toolkit

Every part is a small state machine: its variables are the statics of the C file
(the year `set_dow` remembers, the seeds, the cursor of a list, the buffer's
counters), its actions the functions of the file, with arguments from bounded
sets. Pure functions are operators, checked against a reference definition: the
Gregorian calendar, the versions of a key listed one by one, n draws one after the
other, a decimal's exact value. `Toolkit` is their disjoint sum, so that one run
explores all of them; the parts share definitions, not state: `Joins` uses the
surrogate keys and the calendar, `QueryValues` the weights of the update set's
calendar, `Scaling` the chunks of `SplitWork`.

- `Calendar` remembers the year between calls, as `set_dow` does. `is_leap` takes
  all centuries for leap years; `CalendarIsGregorian` says exactly where that shows.
- `Joins` builds a history table row by row and compares what `matchSCDSK` and
  `getSKFromID` compute for each key and day with the rows; `-6 * table` days of shift
  between the tables' histories and tables that end within a key are part of it.
- `Lists` has the links of `list.c`, with insertion at the head, at the tail and
  sorted, and one cursor that a reader and the lookups share; the flags change between
  insertions, as they do on the list of segments.
- `UpdateSet` includes what the code does at the edges: the calendar distribution
  has 366 rows, so a day looked up by its number in another year is a row early,
  and row 367 is memory (any value). Picking the days asks `set_dow`, whose year it leaves
  behind.
- `RandomNumbers` has the int multiplication of the seeds and the last stream that
  is never seeded; its modulus is 31, of which 3 is a primitive root.
- `Distributions` has statements that are accepted or rejected, the file as cells,
  and the loading of a distribution when it is first asked for.
- `QueryStreams` and `QueryValues` have the memo of a substitution stamped with its
  query, the order of the list, the permutation of a ULIST that is permuted further
  by each query, and memory beyond it (any value).
- `PrintedRows` takes the numbering of columns from `column_list.txt`, of printed
  fields from the `pr_` functions and of DDL columns from `tpcds.sql`.

## 3. Runs

| Run | Module / cfg | Question and properties |
|---|---|---|
| `dsdgen` | `MCDsdgen` / `MCDsdgen.cfg` | do chunks agree with a serial build? `TypeOK`, `RowsStartAligned`, `NoSeedOverrun`, `SerialUnlessDayBoundary`, `ItemsUniqueInOrder` |
| `dsdgen_restart` | `MCDsdgenRestart.cfg` | what do crashes and reruns leave? `FinishedBuildIsTheTable`, `ReturnsHaveSales`, `UnforcedKeepsFiles`, `ProcessesStop`, `ImplementsChunkFiles` |
| `dsdgen_day_boundary` | `MCDsdgenBoundary.cfg` | violation of `MatchesSerial` (finding 1) |
| `dsdgen_big_skip` | `MCDsdgenBigSkip.cfg` | violation of `MatchesSerial` (finding 2) |
| `run_tpcds` | `MCRunTpcds` / `MCRunTpcds.cfg` | does every query run on the right data? `TypeOK`, `OneQueryAtATime`, `FaultsStayInScale`, `OneScaleStored`, `EveryRunSaved`, `DataUntilRunEnds` |
| `run_tpcds_ends` | `MCRunTpcdsEnds.cfg` | liveness: `ScriptEnds` |
| `run_tpcds_skip` | `MCRunTpcdsSkip.cfg` | violation of `SkipMeansTablesExist` (finding 3) |
| `table_rows` | `MCRowAccess` / `MCRowAccess.cfg` | is a row the same however it is reached? `TypeOK`, `AccessibleRowIsTheTables`, `HistoryStaysInKey`, `NoUnknownOverrun` |
| `validated_rows` | `MCRowAccessValidate.cfg` | violation of `RowIsTheTables` (finding 5) |
| `toolkit` | `MCToolkit` / `MCToolkit.cfg` | the parts: `TypeOK`, `CalendarIsGregorian`, `JoinsMatchTables`, `UpdateSetFollowsSales`, `SkipIsDraws`, `PaymentsAddUp`, `CommandLineOverFile`, `TextFits`, `DistributionsUsable`, `EveryTemplateInEveryStream`, `QueriesHold`, `TableRowsHold`, `LinesHold` |
| `site_lifetimes` | `MCToolkitSites.cfg` | violation of `TransactionsInSiteLifetime` (finding 4) |
| `scaled_between` | `MCToolkitScales.cfg` | violation of `ScaledBetween` (finding 6) |

**Bounds.**

- `dsdgen`: three children, five orders of one or two lines in days of two, one and
  two orders, so that chunks have unequal sizes and start within a day and, once,
  where one starts; four seeds. A property relates the rows of one chunk to the
  serial build, or two chunks, so three children show every pairing of first, middle
  and last. Four addresses are split, with `SmallTable` 4; in the restart run two
  addresses with `SmallTable` 3 are child 1's alone. `IntMax` stands for 2^31: 100
  is never reached, 3 is, in `dsdgen_big_skip`.
- `dsdgen_restart`: two children, one of which is killed or started over. Seed 1
  returns a line of the first order, seed 7 has its first return after the first
  sale, so that a forced process has the returns of its predecessor beside its own
  sales for a while.
- `run_tpcds`: two scales, two queries, two queues of two runs, one failing command
  on each scale and one timeout, so that faults in one scale meet the next. `run_tpcds_ends`: one
  scale, two starts in either mode, each run may hang. The bound in each is named:
  `MaxRestarts`, `MaxScripts`, `MaxFaults`, `MaxTimeouts`, `MayBeKilled`.
- `table_rows`: six rows, which are all the versions of three keys (one, two and
  three of them) and the period of `scd.c`; every table alone, and pairs and triples
  in which a table borrows from, wraps or duplicates what one before it has moved; every table validated
  but `dbgen_version`, whose row is the command line. Seeds 0, 1 and 2 give the
  smallest, the greatest and mixed choices. `-VALIDATE` shows two rows (`MaxShown`):
  what a row may find is left by the row before it.
- `toolkit`: days at every boundary (the data's first and last, 28 February to 1
  March, ends of years, 1900, 2000 and 2100); history tables of 12, 11, 9, 8 and 7
  rows, so that the last key is whole or cut; the seasons of leap and other years;
  a prime of 31 with every position up to 23 and seeds that overflow; prices at the
  ends of their ranges and amounts that do not divide; four words of command line
  with two parameter files; a buffer of 10 with increments of 7 and strings one
  below, at and above what is left; up to two distributions of two rows; two templates
  in two streams; 17 scales, the nine listed and some below, between and above;
  totals up to 40 with `SmallTable` 6 and up to 9 children; null maps of all
  columns, every other and single ones; lists of four members, added at the head, at the tail or sorted.

`CHECK_DEADLOCK FALSE` where the processes end by themselves.

**Fairness.** `Dsdgen!FairSpec`: weak fairness of the steps of each child, an
operating-system process; nobody has to kill or restart one. `RunTpcds!FairSpec`:
weak fairness of the script and its threads, of the commands without timeout
(they are assumed to end, the code waits for them without a limit), and of the
expiry of a timeout. It is **not** assumed that an application ends: the
timeout is what keeps the script going. `ScriptEnds` allows for both ends of the
script: after its last scale, and aborted in `copy_history`, when all queries of the
scale have had their runs. `RowAccess` and `Toolkit` are sequential
programs of safety properties and assume none.

## 4. Findings

1. **Chunks that start on a day boundary are dated wrongly** (`driver.c:128`).
   `skipDays` steps back a day only if it has gone beyond the first row. When a
   day starts exactly there, the chunk's first order gets the next day; in a serial
   build it is the last of the day before. `tools/ReleaseNotes.txt:49` lists
   "parallel data doesn' t match serial generation" as resolved.
   `SerialUnlessDayBoundary` states what remains true.
2. **Big skips are truncated** (`driver.c:555`): `(int)(kFirstRow - 1)`; the
   TODO at `parallel.c:203` asks for a ds_key_t, which the parameter now is.
3. **Csv mode disables a later parquet run** (`run_tpcds.py:117`): the directory
   that means "tables exist" is shared by the modes, and csv mode never removes
   it. The trace: a whole run in csv mode, then one in parquet mode logs
   "skipped", removes the CSV data and runs its queries without tables.
4. **Web sites close before they open** (`join.c:336`): the closing date adds
   `nParam * nSiteDuration` to the opening date, and `nParam` of web_site is -1
   (`w_tdefs.h:62`). `join.c:270` says that transactions fit within the lifetime of
   a page, which fits within that of its site.
5. **-VALIDATE shows rows that are not the table's** (`validate.c:63`):
   `tests/bug546.sh:72` compares the two. s_store, s_warehouse, s_call_center and
   s_web_site wrap the builder of a warehouse table, whose streams are neither skipped
   nor topped up, and s_store draws its permutation after the skip; s_web_page reuses
   values of the row before, and a web_site whose new version draws more than its budget is not
   where `row_skip` looks for it.
6. **Counts between listed scales jump down** (`scaling.c:128`): the logarithmic
   model adds the part of the way to the count at 1 GB instead of that of the
   listed scale below. Customer has 500000 rows at scale 10 and 266666 at 20.

Smaller deviations the models state as exceptions of a property or leave as a
free choice:

- Dates: every century is a leap year (`date.c:524`); the last day of a leap year
  looks beyond the calendar distribution, and the second Thursday of inventory may
  be after the season (`scaling.c:382`, `scaling.c:408`); the page a catalog sale
  joins is of the sale's year, not of the active catalog.
- Surrogate keys: a refresh row may refer to a version that a table which ends within
  its key does not have (`scd.c:277`); `matchSCDSK` looks for the version current on a
  day in dates that `setSCDKeys` has moved by 6 days per table.
- Queries: a ULIST of more values than its range reads beyond the permutation
  (`eval.c:256`; for instance query16 and query36 at scale 1); a DATE LIST never
  answers its last day and a DATE ULIST nothing (`eval.c:590`); RANDOM RANGE may go
  beyond its maximum (`eval.c:276`); a string that is referred to is blanked
  (`eval.c:803`), which is why shipped templates refer to numbers; a sorted list is
  not sorted beyond its head (`list.c:95`).
- Distributions: `DistNameIndex` does not find the first set of weights
  (`dist.c:566`); names that differ beyond 20 characters are taken for distinct and
  stored as one (`dcgram.c:133`).
- Rows: columns from number 31 on are never null (`nulls.c:108`); s_promotion prints
  17 of its 18 columns; a new version of an item keeps its old class and brand
  numbers beside new names (`w_item.c:155`); a brand's name is the same for two
  classes when their digits run together; `strtodec("-1.50")` is -0.50.
- Update sets: every one numbers its orders from 1, since `getUpdateBase` reads the
  wrong entry (`scaling.c:742`); children of `-UPDATE` write the same delete file.
- Counts: a scale such as 153 loses one row to the rounding of a float product.
- Generator: after a forced re-run has emptied the sales file, the old returns are
  there until the first new one is written.

## 5. Proofs

**`SplitWorkProofs`** (any total, any number of children). `Disjoint`, `Cover`: the
chunks partition `1 .. total`; `Balance`: their sizes differ by at most one. They
follow from `DivMod` (division with remainder), which gives the start of a chunk
as (c - 1) * size plus the extras before it, and the owner of a row by case on
whether it lies among the larger chunks.

**`DsdgenProofs`** (any number of children, tables, calendars, seeds, crashes and
restarts), assuming `FitsInt`, i.e. that an int can count the rows of a table:
`Invariance` (`Spec => []IInv`), and from it `TypeCorrect`, `RowsAligned` and
`NoOverrun`, the invariants `TypeOK`, `RowsStartAligned` and `NoSeedOverrun` of the run
`dsdgen`. `RowsStartAligned` speaks of the beginning of a row only, so it is not
inductive. `IInv` adds what holds inside a row: `Aligned`, the position is
(row - 1) * budget plus what the row has used; `DrawnBy`, an order with k lines
built has used at most k times the draws of a line (so never more than its
budget); `BeforeInv`, the streams of tables not yet started are untouched, except
that a stream others duplicate may have been moved by an earlier `row_skip`,
which never happens in child 1, the only one that does not skip; `CtlInv`, which
rows are left. There is one lemma per action, a frame lemma for the children that
do not move, and facts about `row_skip`, `row_stop` and the chunks, which cite
`ChunkBounds` and `OnlyFirstStartsAtOne` of `SplitWorkProofs`. `FitsInt` is
necessary: `dsdgen_big_skip` shows that it fails without.

The same module proves what the files hold, with the same generality and
assumption. `ItemsUnique`: `[]ItemsUniqueInOrder`. That two rows differ says nothing of the next one, so the
invariant `ItemsInv` says where an item is: two rows of an order are as far apart
in the permutation as their lines are (`Ahead`); while the file is open its rows are
of earlier orders or earlier lines, and the item at hand is ahead of each by the
distance of the lines (`WrittenInv`); a file that is opened is empty, one that is
closed is not added to. An order has at most `MaxLines` lines and there are at least
as many items, so the walk does not come around. `FilesKept`: `UnforcedKeepsFiles`,
an action property, from the guards of `print_start`.

**`RunTpcdsProofs`** (any scales, queries, queues, runs, faults, timeouts and
restarts): `TypeCorrect`, `OneQuery`, `DataKept` hold in every run; `OneScale` and
`CompleteData` say of the scales on which no command has failed what they need, whatever
has failed on the others; `RunsSaved` is of runs in which no command fails. `RunInvariance` is
the inductive invariant: the script is at a scale and a query it was given, waits at
once for what makes the data (`InBounds`), and every run it waits for is of that
scale and query and alone in its queue (`LiveInv`). `StoredInv`, `ReadableInv` and `SavedInv` add where the data
are at each label of the script; each is inductive relative to the one before it. A
step either leaves `faults` as it is or counts one failure on the scale at work
(`StepFaults`), and one that fails touches the data of no other scale (`StepFails`), so
that the clean scales' part of `StoredInv` survives it: that the script can stop in
`copy_history` only leaves more behind on a scale that has a failure.

**`JoinsProofs`** (any tables that keep history, any days, any number drawn). For keys
and rows by themselves: `ReferenceKeepsKey`, `ReferenceIsCurrent` (what `matchSCDSK`
answers is the version `setSCDKeys` makes current `6 * n` days before, for table n),
`VersionsFollow`, `PickKeepsKey`,
`KeysCounted`, `ReferenceInTable`, by cases on the remainder of a row by six. Of the
programs of `Calendar`, `Joins` and `UpdateSet`:

- `DatesAreGregorian` (any days after the first year, in any order of calls),
  `[]CalendarIsGregorian`. The reference counts the leap years of the 400-year
  cycle a year is in one by one, and 97 for each cycle before; that this is
  y div 4 - y div 100 + y div 400 is by induction and `YearsInCycles`. `jtodt`
  is then followed through centuries, years and months, `dttoj` through its table
  of months, and weekdays by congruence modulo 7. `set_dow` keeps the doomsday of
  the year it was last asked about; the invariant is that it is that year's
  (`CacheOfYear`). Years such as 1900, which `is_leap` takes for leap years, are
  excepted exactly where the property excepts them.
- `JoinsMatch`, `[]JoinsMatchTables`. The property speaks of a table as it was built and
  of the last join; the invariant `JoinsInv` adds that the table holds the rows
  `setSCDKeys` makes, in order, from the first (`HistoryInv`), and that a reference was
  computed when the table was complete and for a key it has (`JoinedInv`), so that the
  facts above apply to it. Where the table ends within a key (`CutsKey`), `matchSCDSK`
  answers its last row; `getSKFromID` draws from all the versions the key would have
  and may answer a row the table does not have: 8 web pages end after one of the two
  versions of page 5, and its other one is row 9. The property says both, and
  `BeyondIsCut` that a row beyond the table can be of no other key. That `getIDCount` is the number of rows that begin a key is by
  induction over the size (`RowsOfKeys`); that a page is in a
  catalog of the year of its sale follows from `cp_join`'s quotients and rests (`PagesLand`). `JoinsAssumption`: the data
  begin with the first year of facts, as `DATE_MINIMUM` does; facts ask about no day
  before that; a catalog has a page at least, i.e. there are 6 times 18 pages or more
  (the smallest scale has 11718).
- `UpdateSetFollows` (any rows of the calendar, any years that `is_leap` is right of,
  any count of orders and of inventory, whatever days are asked about in between),
  `[]UpdateSetFollowsSales`. A day is taken by its number in the year drawn, counted on
  into the years on both sides (`DayNear`), because a Thursday may fall there. Row r of
  the calendar is day r of a leap year and day r - 1 of another from March on
  (`SkewedIs`); which weights the code reads for the days it tries follows, and by
  season that the day it settles on is in the season or one past its end
  (`SecondInSeason`, `ThursdayInSeason`, `OtherInSeason`). The Thursday rests on
  `CacheOfYear` of the calendar. For the rows `RowsDated` says that of n rows built
  each day has the part of the first n that its running totals give it, which a further
  row keeps (`OneMoreRow`).

**`ToolkitProofs`** is about single parts of the toolkit, each with the
specification its own actions make (`BufferSpec`, `ScalingSpec`, `RngSpec`,
`ListsSpec`, `ParametersSpec`, `PricingSpec`) and the assumption its module states on its constants.

- `BufferSafe` (any size, increment and strings), `[]TextFits`: the counter is one
  more than the text once the first string has brought its terminator.
- `RowsBuiltOnce` (any table and number of children), `[]EveryRowOnce`: from
  `Disjoint` and `Cover`, and from `HalvesAlign` of `SplitWorkProofs`, which says for
  which numbers of left-over rows the chunks that `tests/chunked_data.sh` compares
  begin together.
- `SkipsAreDraws` (any streams, seeds, skips and every modulus and multiplier
  `next_random` can compute with, i.e. those for which Schrage's division is right:
  `MaxInt % Mult < MaxInt \div Mult`), `[]SkipIsDraws`. `next_random` is shown to be the product
  modulo `MaxInt` (`Schrage`), squaring the multiplier while halving the count
  to be the power (by induction over the count, with the recursive function of
  `skip_random` unfolded), and powers to add up; the invariant is then that a
  stream's seed is the one at its position after its base. A seed of `-RNGSEED` too
  large for an int is one of the seeds.
- `ReadersServed` (any members, added in any order, at the head or at the tail, and
  while the list is read, any lookups), `[]ReadersSeeEveryMember`, which is one part of
  `QueriesHold`. A list that is not sorted is set to be added to at its tail or, as
  `parseTemplate` does with the segments, at its head (`setFlags`); `front` is the
  history of what was added at the head, and `Before` the order that follows from it.
  The invariant `ListInv` says that the links are those of some order of the members,
  each once (`Order`), that a reader has been given the members up to its place in that
  order, those there when it began among them (`GivenUpTo`), and that a list not sorted
  is in the order of `Before`, its links backwards and its tail with it (`InPlace`). A
  member is put before the head, after the head or last; each is an insertion into the
  order (`Insert`), at a place the reader has passed or has not come to. In a list not
  sorted the links backwards follow (`LinksBack`) and the new member is where `Before`
  has it (`PlaceKept`). That the order is what following the links gives (`ChainIs`) is
  by induction from its end.
- `CommandLineWins` (any option table, any words, any number of files with any lines,
  named anywhere on the command line), `[]CommandLineOverFile`. `ParametersInv` says
  for each option (`Says`) what its value and its mark are, from what the command line
  and the lines of the files have said of it up to here, not only when the walk is
  done. A file is taken line by line (`FileSettles`, by induction over its lines): an
  option is settled by the first line about it unless it was set before. What a
  flag holds is what `Taken` makes of the word, which the invariant has to keep apart
  from the word. Assumed (`ParametersAssumption`): nobody names `_SCALE_INDEX`, which
  the help does not list (a value given to it would no longer be the digits of the
  scale), lines of files name options with a value or flags and not those whose action
  ends the program or reads a further file (HELP, RELEASE, PARAMS), and the table's default of `_SCALE_INDEX` is that of `SCALE`.
- `PricesAddUp` (any quantities, costs, markups, shipping, tax and fees that are not
  negative; discounts, coupons and what a return pays in one way up to the whole),
  `[]PaymentsAddUp`. Every decimal a price is made of is an amount of cents
  (`CentsTimes`, `ManyTimes`, `PercentOver`), and a part of an amount, cut to the cent,
  is between nothing and the amount (`PartOf`). The invariant `PricingInv` knows the
  amounts of the sale (`SaleIs`), from which those of a return start. Amounts are
  integers without a bound: `ds_key_t` has 64 bits, and the limits of `pricing.c` keep
  products far below that.

**`DsdgenSerialProofs`** (the generality and assumption of `DsdgenProofs`: any number of children,
tables that an int can count, any calendar with an order on each day, any seed, any
crashes and restarts with or without `-FORCE`). The reference is stateless:
`RowsOf(g, d, t, r)` is what row r of the driver table is made into on day d with seed
g, and `SerialSlice` puts these rows one after the other for the rows of a chunk.

| Theorem | Says |
|---|---|
| `SerialInvariance` | `Spec => [](IInv /\ SInv)`, the inductive invariant |
| `FilesHoldChunks` | a file is a prefix of the chunk's rows, dated from the day `skipDays` reaches |
| `ChunksAreSerial` | `[]SerialUnlessDayBoundary` |
| `RefinesChunkFiles` | `Spec => ImplementsChunkFiles`, if no chunk starts where a day starts |
| `ReturnsAreOfSales` | `[]ReturnsHaveSales` |
| `FinishedBuildComplete` | `[]FinishedBuildIsTheTable` |

`SerialUnlessDayBoundary` alone is not inductive: that a file is a prefix says
nothing of the row that comes next. `SInv` has, for each child,

- `DayInv`: `jDate`, `newDate` and `dayIndex` are those of the day that holds the
  order (`Dated`, by `OrdersBefore`), from the first step of `skipDays` on. The
  day a chunk gives an order (`ChunkDay`) is the serial one unless `skipDays` stops
  on an order that starts a day, where it is a day early (finding 1).
- `RowInv`: within an order, what each stream has used follows from the lines built
  (for the streams of the returns, from how many of them were returned); the item,
  the gift's customer and the records at hand are then the serial row's, because
  `Aligned` of `IInv` gives the position at which the row starts.
- `FileInv`: while a table is built its file, if open, is exactly `Own`, the rows of
  the driver rows before this one and the part of this one already written; once the
  table is past, the whole slice; a file no process works on stays a prefix of it.
  A forced process empties the file as it opens it, so restarts need no case of
  their own.

For the returns, a file of sales and one of returns that are both `Own` of the same
child are paired (`PairInv`); files of different processes are the exception the
property names. For the finished build every row has a key, its order and line; the
keys in a slice are those of its driver rows, each once (`Keyed`, `Holds`), and the
chunks are disjoint and cover (`Disjoint`, `Cover`), so that the set of `Places` of a
row over all files is a singleton.

The hypothesis of `RefinesChunkFiles` is a fact of the calendar and the chunks; a
chunk that starts with a day breaks the refinement in the code as well (finding 1), and
`FilesHoldChunks` says what its file is then.

**`RowAccessProofs`** (any number of rows and of rows shown, any sessions and tables
validated, any seeds, and any way the choices of each row come out, under the
assumptions of section 2). All four invariants of the run `table_rows` are theorems:
`TypesAlways`, `OverrunsAreKnown`, `HistoryStays` and `RowsAreTheTables`. The
argument has four layers, each inductive on top of the one before it.

| Invariant | Adds | Why it is needed |
|---|---|---|
| `Shape` | the queue holds tables whose streams the process has, the memory is one for its head | what `row_skip`, `row_stop` and the builders do is stated of such memories |
| `Known` | `Unused`: between two rows of `gen_tbl` nothing counts as taken; `Independent`: no table touches what a later one has to itself | a row is compared with its budget by what it alone has taken; from this `NoUnknownOverrun` |
| `Historical` | `FixedKnown`: what a builder never sets is unset; `HistoryKept`: unless a new key begins, all values, old and new, are of the key of the last row | `changeSCD` reads the old values, which `HistoryStaysInKey` does not mention |
| `Accessed` | `Ahead`, `Synced`: a whole table is built from the state that the reference has, as far as its builder can tell (`Alike`); `Placed`: a chunk has the streams that show at (row - 1) * budget, and its permutation is the reference's | that the row shown is right says nothing of the next one |

- Budgets. `RowFits`: whatever a row of either schema chooses, it draws only from
  streams that its table touches, and of each that is not in `MayOverrun` no more than
  the budget. One lemma per table does this for its builder (for orders: per master,
  line and return, added up). `UnstoppedDrawn`: of a stream that shows and that no
  `row_stop` brings to the end of the row, it draws exactly the budget.
- Positions. In the reference a stream that shows is at r * budget after r rows
  (`SerialInv`, `PaceKept`), because `row_stop` tops it up; `row_skip` computes the same
  (`SkipReaches`), and reaches all of them in the tables of `Paced` (`PositionedReaches`
  for chunks, one lemma for each form of `vld_` function). A stream may be moved a second
  time by the skip of another table only if it is a duplicate, to the same place.
- Permutations. The first row that is built draws it, at the beginning of its stream
  (`ShuffleReady`): the streams of permutations have a budget of 0, so `row_skip` leaves
  them there, but for that of s_promotion, whose vld function does not skip it.
  `vld_s_item` draws it before it skips.
- Values. A builder that keeps nothing computes all columns in its own row
  (`IsPlain`). Of the tables with versions `validateSCD` builds the rows of
  the key from its first on: by induction over these rows, its memory agrees with that of the reference
  (`Agree`) from the first row of the key, which reads no old value.

`FreelyAccessible` is what the property leaves out (section 2); the theorem shows that
the list is complete.

**`Recursion`** has lemmas only, which say nothing of the code. The induction theorems
of the library take an operator as a parameter, which the provers here cannot
instantiate. `InductionSet` states induction for a set, so that a proof takes the set
of the numbers for which its claim holds; `RecursionUnfolds` gives the equations of a
function defined by recursion (`OrdersBefore`), from the existence of such a function
(`RecursionExists`); `FlattenNext` and `FlattenNone` are the equations of `FlattenSeq`.

Only model-checked: the properties of the toolkit other than `TextFits`, `SkipIsDraws`,
`CalendarIsGregorian`, `JoinsMatchTables`, `UpdateSetFollowsSales`, `CommandLineOverFile`,
`PaymentsAddUp` and the parts of `TableRowsHold` and
`QueriesHold` that `ToolkitProofs` states; and liveness (`ProcessesStop`, `ScriptEnds`), which is out of the
prover's reach under fairness. `QueryStreams` declares a RECURSIVE operator and is
therefore not reached by any module with a theorem.

## 6. Not modelled

- **Cluster start-up**: the compose files only list host and port pairs; the waiting
  is done by the entry point of a base image that is not in the repository.
- `run_all_scales` of `run_tpcds.py` (no caller) and `run_the_cluster`, which brings
  the services up, one command after the other, before anything modelled happens.
- The rewriting of `tpcds.sql` by `gen_ddl.py`: regular expressions over text. That
  its files are written before they are run is in `RunTpcds`.
- `-FILTER`, with which rows go to standard output, `DBLOAD` (`load.c` is
  a stub), the report of `-CHKSEEDS`, `save_file` and parameters in shared memory.
- The words of sentences (`text.c`): how many numbers a text takes is in
  `WarehouseRows`, which words they choose is not. The geography of addresses and of
  the joins to customers is a uniform draw.
- The tokenizers and grammars of `distcomp` and `dsqgen`: statements and templates
  come parsed. RANGE of DIST, which no template uses, is left out: `pick_distribution`
  has no place to answer a row in (`eval.c:426`), `IntegrateDist` reads the totals and
  weights of sets there are not (`dist.c:635`), and texts are written through an
  uninitialised pointer (`eval.c:433`). Arithmetic of expressions and inclusion of files
  are left out.
- Code without callers: `MatchDistWeight`, `findDistValue`, `sparse.c`,
  `removeItem`, `EvalRownCountExpr`.
- Images, SQL texts, answer sets, the log viewer: no state of their own.
- The metastore that `spark-sql` opens in each queue is outside the repository: a run
  that fails is one that ends, one that blocks is one that times out.

What could follow: a refinement from `Dsdgen`'s streams to those of `RowAccess`, now
that every table's budgets are proved; what `cp_join`, `getIDCount` and the
row counts of `Scaling` give together at every scale between the listed ones.
