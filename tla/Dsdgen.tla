-------------------------------- MODULE Dsdgen --------------------------------
(***************************************************************************)
(* The data generator dsdgen as a parallel build runs it                   *)
(* (tests/gen_base_data.sh: one process per child, each with -PARALLEL n   *)
(* -CHILD c and the same seed and directory).                              *)
(*                                                                         *)
(* A child walks the tables in driver order; for each it asks split_work   *)
(* for its chunk, moves the random number streams of the table to the      *)
(* chunk's first row (row_skip) and builds the rows one after the other.   *)
(* After each row row_stop tops every stream up to its per-row budget, so  *)
(* that row r always starts at position (r - 1) * budget of each stream,   *)
(* whoever builds it.                                                      *)
(*                                                                         *)
(* Three tables stand for the rest: catalog_sales, whose rows are orders   *)
(* of several lines, some of them returned; catalog_returns, its FL_CHILD; *)
(* and customer_address, a plain table one of whose streams is the         *)
(* nDuplicateOf target of another table's stream.  Of the streams that are *)
(* used alike one is kept.                                                 *)
(*                                                                         *)
(* The value of a draw is a function of the seed, the stream and the       *)
(* position in the stream.  The model keeps the position: a row records    *)
(* the positions its values were drawn at, and two rows are the same row   *)
(* when these agree.  Only the draws that steer the control flow have a    *)
(* value, looked up in the seed.                                           *)
(***************************************************************************)
EXTENDS SplitWork, Sequences

CONSTANTS
  Parallel,     \* -PARALLEL, the number of children
  TotalRows,    \* get_rowcount() of catalog_sales and of customer_address
  IntMax,       \* 2^31 in the code: the first value an int cannot hold
  MinLines,     \* 4 in the code: the fewest lines of an order
  MaxLines,     \* 14 in the code: the most
  ItemCount,    \* getIDCount(ITEM)
  YearDays,     \* the days of a year
  Calendar,     \* dateScaling(CATALOG_SALES): the orders of each of them
  Seeds,        \* the values of -RNGSEED, as what they make the streams yield
  MaxRestarts   \* bound: how many processes are started over

Children == 1 .. Parallel
Orders == TotalRows["catalog_sales"]

ASSUME DsdgenAssumption ==
  /\ Parallel \in Nat \ {0}
  /\ TotalRows \in [{"catalog_sales", "customer_address"} -> Nat \ {0}]
  /\ IntMax \in Nat
  /\ MinLines \in Nat \ {0} /\ MaxLines \in Nat /\ MinLines <= MaxLines
  /\ ItemCount \in Nat /\ MaxLines <= ItemCount
  /\ YearDays \in Nat \ {0} /\ Calendar \in [0 .. YearDays - 1 -> Nat \ {0}]
  /\ MaxRestarts \in Nat

\* What the draws that decide something yield, by position in their stream.
ASSUME SeedsAssumption ==
  \A g \in Seeds :
    /\ \A p \in 0 .. Orders - 1 :
         g.lines[p] \in MinLines .. MaxLines /\ g.item[p] \in 1 .. ItemCount
    /\ \A p \in 0 .. 2 * Orders - 1 : g.gift[p] \in BOOLEAN
    /\ \A p \in 0 .. MaxLines * Orders - 1 : g.returned[p] \in BOOLEAN
    /\ \A p \in 0 .. 2 * MaxLines * Orders - 1 : g.regift[p] \in BOOLEAN

-----------------------------------------------------------------------------
(***************************************************************************)
(* Tables (w_tdefs.h) and streams (column_list.txt, made into streams.h).  *)
(***************************************************************************)
DriverOrder == <<"catalog_returns", "catalog_sales", "customer_address">>

Tables == {"catalog_returns", "catalog_sales", "customer_address"}

IsChildTable(t) == t = "catalog_returns"

\* The table and, for an FL_PARENT, the child that is built along with it.
Family(t) ==
  IF t = "catalog_sales" THEN {t, "catalog_returns"} ELSE {t}

StreamTable ==
  [CS_SHIP_CUSTOMER_SK |-> "catalog_sales",   CS_SOLD_ITEM_SK |-> "catalog_sales",
   CS_ORDER_NUMBER     |-> "catalog_sales",   CS_PERMUTE      |-> "catalog_sales",
   CS_SHIP_DATE_SK     |-> "catalog_sales",   CS_NULLS        |-> "catalog_sales",
   CR_IS_RETURNED      |-> "catalog_sales",
   CR_RETURNING_CUSTOMER_SK |-> "catalog_returns", CR_NULLS |-> "catalog_returns",
   CA_ADDRESS          |-> "customer_address", CA_NULLS   |-> "customer_address",
   S_BADDR_ADDRESS     |-> "s_customer_address"]

Streams == DOMAIN StreamTable

\* Mutant: a budget in column_list.txt that counts the lines, not their draws.
BudgetTooSmall ==
  [CS_SHIP_CUSTOMER_SK |-> 2,        CS_SOLD_ITEM_SK |-> 1,
   CS_ORDER_NUMBER     |-> 1,        CS_PERMUTE      |-> 0,
   CS_SHIP_DATE_SK     |-> MaxLines, CS_NULLS        |-> 2 * MaxLines,
   CR_IS_RETURNED      |-> MaxLines,
   CR_RETURNING_CUSTOMER_SK |-> 2 * MaxLines, CR_NULLS |-> MaxLines,
   CA_ADDRESS          |-> 7,        CA_NULLS        |-> 2,
   S_BADDR_ADDRESS     |-> 7]

\* nUsedPerRow: how many numbers a row takes from the stream.
Budget ==
  [CS_SHIP_CUSTOMER_SK |-> 2,        CS_SOLD_ITEM_SK |-> 1,
   CS_ORDER_NUMBER     |-> 1,        CS_PERMUTE      |-> 0,
   CS_SHIP_DATE_SK     |-> MaxLines, CS_NULLS        |-> 2 * MaxLines,
   CR_IS_RETURNED      |-> MaxLines,
   CR_RETURNING_CUSTOMER_SK |-> 2 * MaxLines, CR_NULLS |-> 2 * MaxLines,
   CA_ADDRESS          |-> 7,        CA_NULLS        |-> 2,
   S_BADDR_ADDRESS     |-> 7]

\* The streams some other stream is declared a duplicate of.
DuplicateTargets == {"CA_ADDRESS"}

-----------------------------------------------------------------------------
VARIABLES
  seed,      \* the seed all children are started with
  force,     \* force[c]: child c runs with -FORCE
  restarts,  \* how many processes have been started over
  pc,        \* pc[c]: where child c is in its program
  tab,       \* tab[c]: main's i, an index of DriverOrder
  row,       \* row[c]: gen_tbl's i, the row being built
  left,      \* left[c]: gen_tbl's kRowCount, the rows still to build
  line,      \* line[c]: the order line being built
  lines,     \* lines[c]: nLineitems of the order
  pos,       \* pos[c][s]: Streams[s].nSeed, as a position in the stream
  used,      \* used[c][s]: Streams[s].nUsed
  started,   \* started[c]: bInit of w_catalog_sales.c
  jDate,     \* jDate[c]: the day orders are dated, counted from the first
  newDate,   \* newDate[c]: kNewDateIndex, the last order of that day
  dayIndex,  \* dayIndex[c]: skipDays' index
  perm,      \* perm[c]: where the item permutation was drawn
  item,      \* item[c]: nTicketItemBase
  sale,      \* sale[c]: g_w_catalog_sales
  return,    \* return[c]: g_w_catalog_returns
  address,   \* address[c]: g_w_customer_address
  open,      \* open[c]: the tables whose outfile is open
  exists,    \* exists[c]: the tables whose file is there
  file       \* file[c][t]: the rows in the file of table t, chunk c

envVars == <<seed, force, restarts>>
ctlVars == <<tab, row, left, line, lines>>
rngVars == <<pos, used>>
dayVars == <<jDate, newDate, dayIndex>>
rowVars == <<started, perm, item, sale, return, address>>
outVars == <<open, exists, file>>
vars == <<envVars, pc, ctlVars, rngVars, dayVars, rowVars, outVars>>

\* The table child c is at.
Table(c) == DriverOrder[tab[c]]

First(c, t) == FirstRow(TotalRows[t], Parallel, c)
Count(c, t) == RowCount(TotalRows[t], Parallel, c)

-----------------------------------------------------------------------------
(***************************************************************************)
(* Streams.                                                                *)
(***************************************************************************)

\* (int)x: a 64-bit value passed through an int.
AsInt(x) ==
  IF x % (2 * IntMax) < IntMax THEN x % (2 * IntMax)
                               ELSE (x % (2 * IntMax)) - 2 * IntMax

\* skip_random: the position n numbers from the initial seed; a negative n
\* leaves the loop at once, at the initial seed.
SkipRandom(n) == IF n > 0 THEN n ELSE 0

\* Mutant: a stream that others are duplicates of is not skipped itself.
SkippedUnlessShared(s, t) == StreamTable[s] = t /\ s \notin DuplicateTargets

\* row_skip(t, n): the streams of t, and every stream that another stream is
\* a duplicate of, whatever its table.
Skipped(s, t) == StreamTable[s] = t \/ s \in DuplicateTargets

RowSkipPos(p, t, n) ==
  [s \in Streams |-> IF Skipped(s, t) THEN SkipRandom(n * Budget[s]) ELSE p[s]]

RowSkipUsed(u, t) ==
  [s \in Streams |-> IF Skipped(s, t) THEN 0 ELSE u[s]]

\* Mutant: nothing is burnt.
NoTopUp(s, u) == 0

\* checkSeeds of every table of the family: burn what the row did not use.
TopUp(s, u) == IF u[s] < Budget[s] THEN Budget[s] - u[s] ELSE 0

RowStopPos(p, u, t) ==
  [s \in Streams |-> IF StreamTable[s] \in Family(t) THEN p[s] + TopUp(s, u) ELSE p[s]]

RowStopUsed(u, t) ==
  [s \in Streams |-> IF StreamTable[s] \in Family(t) THEN 0 ELSE u[s]]

\* next_random, as often as draws says for each stream of its domain.
Draw(c, draws) ==
  /\ pos' = [pos EXCEPT ![c] =
       [s \in Streams |-> pos[c][s] + (IF s \in DOMAIN draws THEN draws[s] ELSE 0)]]
  /\ used' = [used EXCEPT ![c] =
       [s \in Streams |-> used[c][s] + (IF s \in DOMAIN draws THEN draws[s] ELSE 0)]]

\* dateScaling(CATALOG_SALES, base date + d).
DateScaling(d) == Calendar[d % YearDays]

-----------------------------------------------------------------------------
(***************************************************************************)
(* The process.                                                            *)
(***************************************************************************)
NoSale == [order |-> 0, line |-> 0, date |-> 0, ship |-> 0, perm |-> 0,
           item |-> 0, lag |-> 0, nulls |-> 0]
NoReturn == [order |-> 0, line |-> 0, perm |-> 0, item |-> 0,
             customer |-> 0, nulls |-> 0]
NoAddress == [row |-> 0, place |-> 0, nulls |-> 0]

\* init_rand and the zeroed statics of a fresh process.  The directory is
\* empty, so that -FORCE makes no difference before a process is started over.
Init ==
  /\ seed \in Seeds
  /\ force = [c \in Children |-> FALSE]
  /\ restarts = 0
  /\ pc = [c \in Children |-> "table"]
  /\ tab = [c \in Children |-> 1]
  /\ row = [c \in Children |-> 1]
  /\ left = [c \in Children |-> 0]
  /\ line = [c \in Children |-> 1]
  /\ lines = [c \in Children |-> 0]
  /\ pos = [c \in Children |-> [s \in Streams |-> 0]]
  /\ used = [c \in Children |-> [s \in Streams |-> 0]]
  /\ started = [c \in Children |-> FALSE]
  /\ jDate = [c \in Children |-> 0]
  /\ newDate = [c \in Children |-> 0]
  /\ dayIndex = [c \in Children |-> 1]
  /\ perm = [c \in Children |-> 0]
  /\ item = [c \in Children |-> 1]
  /\ sale = [c \in Children |-> NoSale]
  /\ return = [c \in Children |-> NoReturn]
  /\ address = [c \in Children |-> NoAddress]
  /\ open = [c \in Children |-> {}]
  /\ exists = [c \in Children |-> {}]
  /\ file = [c \in Children |-> [t \in Tables |-> <<>>]]

Goto(c, l) == pc' = [pc EXCEPT ![c] = l]

\* main: a child table is built along with its parent.
SkipChildTable(c) ==
  /\ pc[c] = "table" /\ tab[c] <= Len(DriverOrder)
  /\ IsChildTable(Table(c))
  /\ tab' = [tab EXCEPT ![c] = @ + 1]
  /\ UNCHANGED <<envVars, pc, row, left, line, lines, rngVars, dayVars, rowVars, outVars>>

\* main: split_work, then row_skip for the table and for its child.
StartTable(c) ==
  /\ pc[c] = "table" /\ tab[c] <= Len(DriverOrder)
  /\ ~ IsChildTable(Table(c))
  /\ Goto(c, "row")
  /\ row' = [row EXCEPT ![c] = First(c, Table(c))]
  /\ left' = [left EXCEPT ![c] = Count(c, Table(c))]
  /\ IF First(c, Table(c)) = 1
     THEN UNCHANGED rngVars
     ELSE LET n == AsInt(First(c, Table(c)) - 1)
              t == Table(c)
          IN IF t = "catalog_sales"
             THEN /\ pos' = [pos EXCEPT ![c] =
                       RowSkipPos(RowSkipPos(@, t, n), "catalog_returns", n)]
                  /\ used' = [used EXCEPT ![c] =
                       RowSkipUsed(RowSkipUsed(@, t), "catalog_returns")]
             ELSE /\ pos' = [pos EXCEPT ![c] = RowSkipPos(@, t, n)]
                  /\ used' = [used EXCEPT ![c] = RowSkipUsed(@, t)]
  /\ UNCHANGED <<envVars, tab, line, lines, dayVars, rowVars, outVars>>

\* main: no table is left.
Exit(c) ==
  /\ pc[c] = "table" /\ tab[c] > Len(DriverOrder)
  /\ Goto(c, "done")
  /\ UNCHANGED <<envVars, ctlVars, rngVars, dayVars, rowVars, outVars>>

\* gen_tbl: the chunk is complete; print_close.
EndTable(c) ==
  /\ pc[c] = "row" /\ left[c] = 0
  /\ Goto(c, "table")
  /\ tab' = [tab EXCEPT ![c] = @ + 1]
  /\ open' = [open EXCEPT ![c] = @ \ Family(Table(c))]
  /\ UNCHANGED <<envVars, row, left, line, lines, rngVars, dayVars, rowVars, exists, file>>

\* mk_w_customer_address: nullSet and mk_address.
BuildAddress(c) ==
  /\ pc[c] = "row" /\ left[c] > 0
  /\ Table(c) = "customer_address"
  /\ Draw(c, [CA_NULLS |-> 2, CA_ADDRESS |-> 7])
  /\ address' = [address EXCEPT ![c] =
       [row |-> row[c], place |-> pos[c]["CA_ADDRESS"], nulls |-> pos[c]["CA_NULLS"]]]
  /\ Goto(c, "print_address")
  /\ UNCHANGED <<envVars, ctlVars, dayVars, started, perm, item, sale, return, outVars>>

\* mk_master, first call in the process: skipDays starts at the first day.
BeginOrder(c) ==
  /\ pc[c] = "row" /\ left[c] > 0
  /\ Table(c) = "catalog_sales"
  /\ IF started[c]
     THEN Goto(c, "date") /\ UNCHANGED dayVars
     ELSE /\ Goto(c, "skip_days")
          /\ jDate' = [jDate EXCEPT ![c] = 0]
          /\ newDate' = [newDate EXCEPT ![c] = DateScaling(0) + 1]
          /\ dayIndex' = [dayIndex EXCEPT ![c] = 1]
  /\ UNCHANGED <<envVars, ctlVars, rngVars, rowVars, outVars>>

\* skipDays: one day forward.
SkipDay(c) ==
  /\ pc[c] = "skip_days" /\ dayIndex[c] < First(c, "catalog_sales")
  /\ dayIndex' = [dayIndex EXCEPT ![c] = @ + DateScaling(jDate[c])]
  /\ jDate' = [jDate EXCEPT ![c] = @ + 1]
  /\ newDate' = [newDate EXCEPT ![c] = dayIndex'[c]]
  /\ UNCHANGED <<envVars, pc, ctlVars, rngVars, rowVars, outVars>>

\* skipDays: step back unless a day starts right here; then mk_master draws
\* the item permutation.
EndSkipDays(c) ==
  /\ pc[c] = "skip_days" /\ ~ dayIndex[c] < First(c, "catalog_sales")
  /\ jDate' = [jDate EXCEPT ![c] =
       IF dayIndex[c] > First(c, "catalog_sales") THEN @ - 1 ELSE @]
  /\ perm' = [perm EXCEPT ![c] = pos[c]["CS_PERMUTE"]]
  /\ Draw(c, [CS_PERMUTE |-> ItemCount])
  /\ started' = [started EXCEPT ![c] = TRUE]
  /\ Goto(c, "date")
  /\ UNCHANGED <<envVars, ctlVars, newDate, dayIndex, item, sale, return, address, outVars>>

\* mk_master: need to move to a new date.
NewDate(c) ==
  /\ pc[c] = "date" /\ row[c] > newDate[c]
  /\ jDate' = [jDate EXCEPT ![c] = @ + 1]
  /\ newDate' = [newDate EXCEPT ![c] = @ + DateScaling(jDate[c] + 1)]
  /\ UNCHANGED <<envVars, pc, ctlVars, rngVars, dayIndex, rowVars, outVars>>

\* mk_master, the columns all lines of the order share, and the draw of the
\* number of lines.  A gift is shipped to a customer of its own, drawn from
\* the stream that decided it is one; else ship is the billed customer, 0.
MkMaster(c) ==
  /\ pc[c] = "date" /\ ~ row[c] > newDate[c]
  /\ LET gift == seed.gift[pos[c]["CS_SHIP_CUSTOMER_SK"]] IN
       /\ Draw(c, [CS_SHIP_CUSTOMER_SK |-> IF gift THEN 2 ELSE 1,
                   CS_SOLD_ITEM_SK |-> 1, CS_ORDER_NUMBER |-> 1])
       /\ sale' = [sale EXCEPT ![c].order = row[c], ![c].date = jDate[c],
            ![c].ship = IF gift THEN pos[c]["CS_SHIP_CUSTOMER_SK"] + 1 ELSE 0]
  /\ item' = [item EXCEPT ![c] = seed.item[pos[c]["CS_SOLD_ITEM_SK"]]]
  /\ lines' = [lines EXCEPT ![c] = seed.lines[pos[c]["CS_ORDER_NUMBER"]]]
  /\ line' = [line EXCEPT ![c] = 1]
  /\ Goto(c, "detail")
  /\ UNCHANGED <<envVars, tab, row, left, dayVars, started, perm, return, address, outVars>>

\* Mutant: the permutation does not wrap.
NextItemUnwrapped(i) == i + 1

\* Mutant: the last item of the permutation is taken again.
NextItemStuck(i) == IF i + 1 > ItemCount THEN i ELSE i + 1

\* The next item of the permutation, which is 1-based and wraps.
NextItem(i) == IF i + 1 > ItemCount THEN 1 ELSE i + 1

\* Mutant: the item is taken before the step to the next one.
SoldLinePreviousItem(c) ==
  [sale[c] EXCEPT !.line = line[c], !.perm = perm[c], !.item = item[c],
                  !.lag = pos[c]["CS_SHIP_DATE_SK"], !.nulls = pos[c]["CS_NULLS"]]

\* The columns mk_detail fills in; those of mk_master stay.
SoldLine(c) ==
  [sale[c] EXCEPT !.line = line[c], !.perm = perm[c], !.item = NextItem(item[c]),
                  !.lag = pos[c]["CS_SHIP_DATE_SK"], !.nulls = pos[c]["CS_NULLS"]]

\* mk_detail of a line that is not returned.
MkDetail(c) ==
  /\ pc[c] = "detail"
  /\ ~ seed.returned[pos[c]["CR_IS_RETURNED"]]
  /\ Draw(c, [CS_NULLS |-> 2, CS_SHIP_DATE_SK |-> 1, CR_IS_RETURNED |-> 1])
  /\ item' = [item EXCEPT ![c] = NextItem(@)]
  /\ sale' = [sale EXCEPT ![c] = SoldLine(c)]
  /\ Goto(c, "print_sale")
  /\ UNCHANGED <<envVars, ctlVars, dayVars, started, perm, return, address, outVars>>

\* mk_detail of a line that is, with mk_w_catalog_returns: the return takes
\* order and item from the sale, and its customer from a draw or, when the
\* draw after it says so, from the sale.
MkDetailReturned(c) ==
  /\ pc[c] = "detail"
  /\ seed.returned[pos[c]["CR_IS_RETURNED"]]
  /\ Draw(c, [CS_NULLS |-> 2, CS_SHIP_DATE_SK |-> 1, CR_IS_RETURNED |-> 1,
              CR_NULLS |-> 2, CR_RETURNING_CUSTOMER_SK |-> 2])
  /\ item' = [item EXCEPT ![c] = NextItem(@)]
  /\ sale' = [sale EXCEPT ![c] = SoldLine(c)]
  /\ LET customer == pos[c]["CR_RETURNING_CUSTOMER_SK"] IN
       return' = [return EXCEPT ![c] =
         [order |-> sale[c].order, line |-> line[c],
          perm |-> perm[c], item |-> NextItem(item[c]),
          customer |-> IF seed.regift[customer + 1] THEN sale[c].ship ELSE customer,
          nulls |-> pos[c]["CR_NULLS"]]]
  /\ Goto(c, "print_return")
  /\ UNCHANGED <<envVars, ctlVars, dayVars, started, perm, address, outVars>>

-----------------------------------------------------------------------------
(***************************************************************************)
(* Output: print_start opens the table's file at its first row, print_end  *)
(* flushes every row.                                                      *)
(***************************************************************************)
Printing == {"print_return", "print_sale", "print_address"}

Target(l) ==
  CASE l = "print_return" -> "catalog_returns"
    [] l = "print_sale" -> "catalog_sales"
    [] l = "print_address" -> "customer_address"

\* Mutant: the test of FORCE inverted.
RefusedIfForced(c) == Target(pc[c]) \in exists[c] /\ force[c]

\* print_start: a file that is there is only overwritten with -FORCE.
Refused(c) == Target(pc[c]) \in exists[c] /\ ~ force[c]

\* Mutant: fopen(path, "a").
OpenFileAppending(c) ==
  /\ pc[c] \in Printing
  /\ Target(pc[c]) \notin open[c] /\ ~ Refused(c)
  /\ open' = [open EXCEPT ![c] = @ \union {Target(pc[c])}]
  /\ exists' = [exists EXCEPT ![c] = @ \union {Target(pc[c])}]
  /\ UNCHANGED <<envVars, pc, ctlVars, rngVars, dayVars, rowVars, file>>

\* print_start: fopen(path, "w").
OpenFile(c) ==
  /\ pc[c] \in Printing
  /\ Target(pc[c]) \notin open[c] /\ ~ Refused(c)
  /\ open' = [open EXCEPT ![c] = @ \union {Target(pc[c])}]
  /\ exists' = [exists EXCEPT ![c] = @ \union {Target(pc[c])}]
  /\ file' = [file EXCEPT ![c][Target(pc[c])] = <<>>]
  /\ UNCHANGED <<envVars, pc, ctlVars, rngVars, dayVars, rowVars>>

\* Mutant: the message, but no exit.
RefuseFileForever(c) ==
  /\ pc[c] \in Printing
  /\ Target(pc[c]) \notin open[c] /\ Refused(c)
  /\ UNCHANGED vars

\* print_start: exit(-1).
RefuseFile(c) ==
  /\ pc[c] \in Printing
  /\ Target(pc[c]) \notin open[c] /\ Refused(c)
  /\ Goto(c, "failed")
  /\ UNCHANGED <<envVars, ctlVars, rngVars, dayVars, rowVars, outVars>>

WriteRow(c, t, r) ==
  /\ t \in open[c]
  /\ file' = [file EXCEPT ![c][t] = Append(@, r)]

\* Mutant: the row of the sale is not written after that of the return.
PrintReturnOnly(c) ==
  /\ pc[c] = "print_return"
  /\ WriteRow(c, "catalog_returns", return[c])
  /\ Goto(c, "stop")
  /\ UNCHANGED <<envVars, ctlVars, rngVars, dayVars, rowVars, open, exists>>

\* pr_w_catalog_returns.
PrintReturn(c) ==
  /\ pc[c] = "print_return"
  /\ WriteRow(c, "catalog_returns", return[c])
  /\ Goto(c, "print_sale")
  /\ UNCHANGED <<envVars, ctlVars, rngVars, dayVars, rowVars, open, exists>>

\* pr_w_catalog_sales, and the loop over the lines.
PrintSale(c) ==
  /\ pc[c] = "print_sale"
  /\ WriteRow(c, "catalog_sales", sale[c])
  /\ IF line[c] < lines[c]
     THEN /\ line' = [line EXCEPT ![c] = @ + 1]
          /\ Goto(c, "detail")
     ELSE UNCHANGED line /\ Goto(c, "stop")
  /\ UNCHANGED <<envVars, tab, row, left, lines, rngVars, dayVars, rowVars, open, exists>>

\* The loader of gen_tbl for a builder that returned 0.
PrintAddress(c) ==
  /\ pc[c] = "print_address"
  /\ WriteRow(c, "customer_address", address[c])
  /\ Goto(c, "stop")
  /\ UNCHANGED <<envVars, ctlVars, rngVars, dayVars, rowVars, open, exists>>

\* gen_tbl: row_stop, next row.
RowStop(c) ==
  /\ pc[c] = "stop"
  /\ pos' = [pos EXCEPT ![c] = RowStopPos(@, used[c], Table(c))]
  /\ used' = [used EXCEPT ![c] = RowStopUsed(@, Table(c))]
  /\ row' = [row EXCEPT ![c] = @ + 1]
  /\ left' = [left EXCEPT ![c] = @ - 1]
  /\ Goto(c, "row")
  /\ UNCHANGED <<envVars, tab, line, lines, dayVars, rowVars, outVars>>

-----------------------------------------------------------------------------
Stopped == {"done", "failed", "crashed"}

\* The process is killed: what was flushed stays.
Crash(c) ==
  /\ pc[c] \notin Stopped
  /\ restarts < MaxRestarts
  /\ Goto(c, "crashed")
  /\ open' = [open EXCEPT ![c] = {}]
  /\ UNCHANGED <<envVars, ctlVars, rngVars, dayVars, rowVars, exists, file>>

\* The same child is started over, with or without -FORCE.
Restart(c) ==
  /\ pc[c] \in Stopped
  /\ restarts < MaxRestarts
  /\ restarts' = restarts + 1
  /\ \E f \in BOOLEAN : force' = [force EXCEPT ![c] = f]
  /\ Goto(c, "table")
  /\ tab' = [tab EXCEPT ![c] = 1]
  /\ row' = [row EXCEPT ![c] = 1]
  /\ left' = [left EXCEPT ![c] = 0]
  /\ line' = [line EXCEPT ![c] = 1]
  /\ lines' = [lines EXCEPT ![c] = 0]
  /\ pos' = [pos EXCEPT ![c] = [s \in Streams |-> 0]]
  /\ used' = [used EXCEPT ![c] = [s \in Streams |-> 0]]
  /\ started' = [started EXCEPT ![c] = FALSE]
  /\ jDate' = [jDate EXCEPT ![c] = 0]
  /\ newDate' = [newDate EXCEPT ![c] = 0]
  /\ dayIndex' = [dayIndex EXCEPT ![c] = 1]
  /\ perm' = [perm EXCEPT ![c] = 0]
  /\ item' = [item EXCEPT ![c] = 1]
  /\ sale' = [sale EXCEPT ![c] = NoSale]
  /\ return' = [return EXCEPT ![c] = NoReturn]
  /\ address' = [address EXCEPT ![c] = NoAddress]
  /\ open' = [open EXCEPT ![c] = {}]
  /\ UNCHANGED <<seed, exists, file>>

\* One step of the program of child c.
Step(c) ==
  \/ SkipChildTable(c) \/ StartTable(c) \/ Exit(c) \/ EndTable(c)
  \/ BuildAddress(c) \/ BeginOrder(c) \/ SkipDay(c) \/ EndSkipDays(c)
  \/ NewDate(c) \/ MkMaster(c) \/ MkDetail(c) \/ MkDetailReturned(c)
  \/ OpenFile(c) \/ RefuseFile(c)
  \/ PrintReturn(c) \/ PrintSale(c) \/ PrintAddress(c) \/ RowStop(c)

Next == \E c \in Children : Step(c) \/ Crash(c) \/ Restart(c)

Spec == Init /\ [][Next]_vars

\* A process that is running is scheduled; nobody has to kill or rerun one.
FairSpec == Spec /\ \A c \in Children : WF_vars(Step(c))

-----------------------------------------------------------------------------
Labels == {"table", "row", "skip_days", "date", "detail", "stop"}
            \union Printing \union Stopped

SaleRows == [order: Nat, line: Nat, date: Nat, ship: Nat,
             perm: Nat, item: Nat, lag: Nat, nulls: Nat]
ReturnRows == [order: Nat, line: Nat, perm: Nat, item: Nat, customer: Nat, nulls: Nat]
AddressRows == [row: Nat, place: Nat, nulls: Nat]

\* Every variable stays within the values the program gives it.
TypeOK ==
  /\ seed \in Seeds
  /\ force \in [Children -> BOOLEAN]
  /\ restarts \in Nat
  /\ pc \in [Children -> Labels]
  /\ tab \in [Children -> 1 .. Len(DriverOrder) + 1]
  /\ row \in [Children -> Nat \ {0}]
  /\ left \in [Children -> Nat]
  /\ line \in [Children -> 1 .. MaxLines]
  /\ lines \in [Children -> 0 .. MaxLines]
  /\ pos \in [Children -> [Streams -> Nat]]
  /\ used \in [Children -> [Streams -> Nat]]
  /\ started \in [Children -> BOOLEAN]
  /\ jDate \in [Children -> Nat]
  /\ newDate \in [Children -> Nat]
  /\ dayIndex \in [Children -> Nat]
  /\ perm \in [Children -> Nat]
  /\ item \in [Children -> 1 .. ItemCount]
  /\ sale \in [Children -> SaleRows]
  /\ return \in [Children -> ReturnRows]
  /\ address \in [Children -> AddressRows]
  /\ open \in [Children -> SUBSET Tables]
  /\ exists \in [Children -> SUBSET Tables]
  /\ file \in [Children -> [Tables -> Seq(SaleRows \union ReturnRows \union AddressRows)]]

\* A row is always built from the position a serial build would have reached:
\* row_stop's topping up and row_skip's jump agree, and row_skip's reach into
\* the streams of other tables (nDuplicateOf) never shows in a row.
RowsStartAligned ==
  \A c \in Children :
    pc[c] = "row" /\ left[c] > 0 =>
      \A s \in Streams :
        StreamTable[s] \in Family(Table(c)) =>
          /\ used[c][s] = 0
          /\ s # "CS_PERMUTE" => pos[c][s] = (row[c] - 1) * Budget[s]

\* No row takes more numbers from a stream than the stream's budget, which
\* would shift every later row (what -CHKSEEDS looks for).  CS_PERMUTE, drawn
\* once per process, is the exception.
NoSeedOverrun ==
  \A c \in Children : \A s \in Streams \ {"CS_PERMUTE"} : used[c][s] <= Budget[s]
=============================================================================
