------------------------------ MODULE RowAccess ------------------------------
(***************************************************************************)
(* How dsdgen gets at a row.  gen_tbl builds the rows of a table in order, *)
(* from the first one or, in a chunk, from a later one; a process builds   *)
(* one table (-TABLE) or several; and -VALIDATE builds rows at random.     *)
(* The builders of WarehouseRows and RefreshRows share streams, rows and   *)
(* old values, which row_skip and row_stop have to bring to where they     *)
(* would be had all the earlier rows been built.                           *)
(*                                                                         *)
(* A value is the number of the row that computed it; a random number is   *)
(* its position in its stream.  A process is compared with the reference,  *)
(* SerialRows: the table built alone, from its first row to its last.      *)
(***************************************************************************)
EXTENDS RefreshRows

CONSTANTS
  Sessions,        \* the tables each process builds, in order
  Validated,       \* the tables -VALIDATE is run for
  MaxRow,          \* rows of a table
  MaxShown,        \* rows -VALIDATE shows
  Seeds,
  Outcome(_, _, _) \* how the choices of a row come out: of a seed, table, row

ASSUME MaxRowAssumption == MaxRow \in Nat \ {0}

\* main shows no more rows than the table has.
ASSUME MaxShownAssumption == MaxShown \in 0..MaxRow

-----------------------------------------------------------------------------
(***************************************************************************)
(* Tables and streams.                                                     *)
(***************************************************************************)
StreamsOf == BudgetsOf ++ RefreshBudgetsOf

PrintedColumns(t) == SetOf((ColumnsOf ++ RefreshColumnsOf)[t])

\* The tables that are built.
TablesBuilt == Validated \cup UNION {SetOf(q) : q \in Sessions}

Row(t, r, o) == IF t \in WarehouseTables THEN RowOf(t, r, o) ELSE RefreshRowOf(t, r, o)

\* nParam of a table with FL_PARENT: the table of its details.
ChildOf ==
  [catalog_sales |-> "catalog_returns",
   store_sales |-> "store_returns",
   web_sales |-> "web_returns"]

RefreshChildOf ==
  [s_catalog_order |-> "s_catalog_order_lineitem",
   s_catalog_order_lineitem |-> "s_catalog_returns",
   s_purchase |-> "s_purchase_lineitem",
   s_purchase_lineitem |-> "s_store_returns",
   s_web_order |-> "s_web_order_lineitem",
   s_web_order_lineitem |-> "s_web_returns"]

Children(t) ==
  LET child == ChildOf ++ RefreshChildOf IN
  IF t \in DOMAIN child THEN {child[t]} ELSE {}

\* The tables whose streams row_stop tops up.
Family(t) ==
  LET children == Children(t) IN
  {t} \cup children \cup UNION {Children(c) : c \in children}

\* The warehouse table a refresh table takes its rows from.
Wraps ==
  [s_call_center |-> "call_center",
   s_catalog_page |-> "catalog_page",
   s_customer |-> "customer_address",
   s_customer_address |-> "customer_address",
   s_item |-> "item",
   s_promotion |-> "promotion",
   s_store |-> "store",
   s_warehouse |-> "warehouse",
   s_web_page |-> "web_page",
   s_web_site |-> "web_site"]

WrappedBy(t) == IF t \in DOMAIN Wraps THEN {Wraps[t]} ELSE {}

\* pick_distribution(..., ITEM) of mk_w_item takes the table's number for a
\* stream's: the numbers come from a stream of call_center.
Borrowed(t) == IF "item" \in {t} \cup WrappedBy(t) THEN {"CC_HOURS"} ELSE {}

OwnStreams(t) == UNION {DOMAIN StreamsOf[u] : u \in Family(t)}

Touched(t) ==
  OwnStreams(t) \cup Borrowed(t)
    \cup UNION {DOMAIN StreamsOf[u] : u \in WrappedBy(t)}

AllStreams == UNION {DOMAIN budgets : budgets \in SetOf(StreamsOf)}

TableOfStream ==
  [s \in AllStreams |-> CHOOSE t \in DOMAIN StreamsOf : s \in DOMAIN StreamsOf[t]]

\* The budget of a stream, in that of its table.
PerRow ==
  [s \in AllStreams |-> (CHOOSE budgets \in SetOf(StreamsOf) : s \in DOMAIN budgets)[s]]

\* The streams that some stream of the other schema is a duplicate of.
DuplicateStreams ==
  {"CA_ADDRESS", "CP_DESCRIPTION", "I_ITEM_DESC", "I_CURRENT_PRICE",
   "I_WHOLESALE_COST", "I_MANAGER_ID", "I_SIZE", "I_FORMULATION", "I_COLOR",
   "I_UNITS", "I_SCD", "P_CHANNEL_DETAILS"}

\* The stream a table's permutation is drawn from.
ShuffleStream ==
  [catalog_sales |-> "CS_PERMUTE",
   store_sales |-> "SS_PERMUTATION",
   web_sales |-> "WS_PERMUTATION",
   s_call_center |-> "S_CALL_CENTER_ID",
   s_customer |-> "S_CUST_ID",
   s_item |-> "S_ITEM_PERMUTE",
   s_promotion |-> "S_PROMOTION_ID",
   s_store |-> "S_STORE_ID",
   s_warehouse |-> "S_WRHS_ID",
   s_web_page |-> "S_WPAG_PERMUTE",
   s_catalog_order |-> "S_CLIN_PERMUTE",
   s_purchase |-> "S_PLINE_PERMUTE",
   s_web_order |-> "S_WLIN_PERMUTE"]

\* The wrappers that end the row of the warehouse table themselves.
StopsWrapped == {"s_catalog_page", "s_item", "s_promotion"}

\* The most lines of an order.
MostLines(t) ==
  CASE t = "catalog_sales" -> 14
    [] t \in {"store_sales", "web_sales"} -> 16
    [] t = "s_catalog_order" -> CatalogOrderLines
    [] t = "s_purchase" -> PurchaseLines
    [] t = "s_web_order" -> WebOrderLines
    [] OTHER -> 0

\* How the choices of a row can come out.
Outcomes(t) ==
  [long : BOOLEAN, gift : BOOLEAN, lines : 0..MostLines(t),
   returned : 0..MostLines(t), flags : Nat, first : BOOLEAN, sk : Nat \ {0}]

\* The tables main's loop stops at: children come with their parents.
DriverTables ==
  (WarehouseTables \cup RefreshTables) \ UNION {Children(t) : t \in DOMAIN StreamsOf}

ASSUME OutcomeAssumption ==
  \A luck \in Seeds, t \in TablesBuilt, r \in 1..MaxRow : Outcome(luck, t, r) \in Outcomes(t)

\* A column has one table (column_list.txt).  No constant occurs in this, so that
\* TLC's evaluation settles it.
ASSUME OneTablePerStream ==
  \A t, u \in DOMAIN StreamsOf :
    t # u => DOMAIN StreamsOf[t] \cap DOMAIN StreamsOf[u] = {}

\* The tables of a session draw from streams of their own, but for the one that
\* items borrow: s_customer and s_customer_address, which have the streams of
\* customer_address in common, come in different sessions.
ASSUME SessionsAssumption ==
  \A q \in Sessions :
    /\ q \in Seq(DriverTables) /\ q # <<>>
    /\ \A i, j \in DOMAIN q :
         i < j => Touched(q[i]) \cap (Touched(q[j]) \ Borrowed(q[j])) = {}

ASSUME ValidatedAssumption == Validated \subseteq DriverTables

-----------------------------------------------------------------------------
(***************************************************************************)
(* The memory of the generator: where each stream is and how many numbers  *)
(* the row took, the row that computed each column (0 for none), the old   *)
(* values of changeSCD, whether the first row has been built and where the *)
(* permutation was drawn, and the streams of which the last row took more  *)
(* than their budget.                                                      *)
(***************************************************************************)
FreshMemory(S, t) ==
  [pos |-> [s \in S |-> 0], used |-> [s \in S |-> 0],
   cur |-> [c \in PrintedColumns(t) |-> 0], old |-> [c \in PrintedColumns(t) |-> 0],
   started |-> FALSE, shuffled |-> -1, over |-> {}]

\* The streams taken elsewhere.
WithStreams(g, pos, used, over) ==
  [pos |-> pos, used |-> used, cur |-> g.cur, old |-> g.old,
   started |-> g.started, shuffled |-> g.shuffled, over |-> over]

\* The same when the process goes on to table t: the streams stay where they are.
NextMemory(g, t) == WithStreams(FreshMemory(DOMAIN g.pos, t), g.pos, g.used, {})

\* The streams that row_skip moves: those of the table, and all that are copied
\* from another.
Skipped(g, t) == {s \in DOMAIN g.pos : s \in DuplicateStreams \/ TableOfStream[s] = t}

\* Mutant: one row too few is skipped.
RowSkipOneLess(g, t, n) ==
  WithStreams(g,
    [s \in DOMAIN g.pos |-> IF s \in Skipped(g, t) THEN (n - 1) * PerRow[s] ELSE g.pos[s]],
    [s \in DOMAIN g.pos |-> IF s \in Skipped(g, t) THEN 0 ELSE g.used[s]], g.over)

\* row_skip(t, n): they go to where n rows would have left them.
RowSkip(g, t, n) ==
  WithStreams(g,
    [s \in DOMAIN g.pos |-> IF s \in Skipped(g, t) THEN n * PerRow[s] ELSE g.pos[s]],
    [s \in DOMAIN g.pos |-> IF s \in Skipped(g, t) THEN 0 ELSE g.used[s]], g.over)

\* Mutant: a row stops where it is.
RowStopWithoutTopUp(g, t) ==
  WithStreams(g, g.pos,
    [s \in DOMAIN g.pos |-> IF s \in OwnStreams(t) THEN 0 ELSE g.used[s]], g.over)

\* row_stop(t): the streams of the table, its child and grandchild are moved
\* to the end of the row.
RowStop(g, t) ==
  LET own == OwnStreams(t)
      unused(s) == IF g.used[s] < PerRow[s] THEN PerRow[s] - g.used[s] ELSE 0 IN
  WithStreams(g,
    [s \in DOMAIN g.pos |-> g.pos[s] + IF s \in own THEN unused(s) ELSE 0],
    [s \in DOMAIN g.pos |-> IF s \in own THEN 0 ELSE g.used[s]],
    g.over \cup {s \in own : g.used[s] > PerRow[s]})

\* Mutant: the first row of a key, too, may keep an old value.
RetainedFromOtherKey(b, o, k, c) ==
  \E i \in DOMAIN b.changes :
    /\ b.changes[i][1] = c
    /\ (o.flags \div 2^(i - 1)) % 2 = 1
    /\ b.changes[i][2] \notin {"PTR", "INT OF DEC"}

\* changeSCD: whether the old value of column c replaces the new one.  A
\* pointer is replaced only in changeSCD's own parameter, and of a decimal
\* passed as an int only its flags are.
Retained(b, o, k, c) ==
  \E i \in DOMAIN b.changes :
    /\ b.changes[i][1] = c
    /\ (o.flags \div 2^(i - 1)) % 2 = 1 /\ ~FirstOfKey(k)
    /\ b.changes[i][2] \notin {"PTR", "INT OF DEC"}

\* changeSCD: whether the new value becomes the old one.
Remembered(b, o, k, c) ==
  /\ ~Retained(b, o, k, c)
  /\ \E i \in DOMAIN b.changes :
       b.changes[i][1] = c /\ b.changes[i][2] \notin {"PTR", "INT OF DEC"}

\* The key of the warehouse row that row r of t is built from.
KeyOf(t, r, o) == IF t \in DOMAIN Wraps /\ t # "s_web_site" THEN o.sk ELSE r

\* What building row r of t as b, with the choices o, does to the memory: the
\* numbers it takes, the columns it computes and the old values it keeps.
Built(g, t, r, o, b) ==
  LET k == KeyOf(t, r, o)
      row == IF b.fresh THEN [c \in DOMAIN g.cur |-> 0] ELSE g.cur
      new(c) == IF c \in b.fixed \/ (c \in b.once /\ ~FirstOfKey(k)) THEN row[c] ELSE r
      taken(s) == IF s \in DOMAIN b.draws THEN b.draws[s] ELSE 0
  IN [pos |-> [s \in DOMAIN g.pos |-> g.pos[s] + taken(s)],
      used |-> [s \in DOMAIN g.used |-> g.used[s] + taken(s)],
      cur |-> [c \in DOMAIN g.cur |->
                 IF Retained(b, o, k, c) THEN g.old[c] ELSE new(c)],
      old |-> [c \in DOMAIN g.old |->
                 IF Remembered(b, o, k, c) THEN new(c) ELSE g.old[c]],
      started |-> TRUE,
      shuffled |-> IF ~g.started /\ t \in DOMAIN ShuffleStream
                     THEN g.pos[ShuffleStream[t]] ELSE g.shuffled,
      over |-> {}]

\* A builder.
Build(g, t, r, luck) ==
  LET o == [Outcome(luck, t, r) EXCEPT !.first = ~g.started] IN
  Built(g, t, r, o, Row(t, r, o))

\* What a row is made of: where its streams were when it was begun, in the
\* state g, the permutation it is picked by and the columns it prints.
RowMadeOf(t, r, g, h) ==
  [table |-> t, row |-> r, starts |-> g.pos, shuffled |-> h.shuffled, values |-> h.cur]

\* gen_tbl's loop body, wrappers included.
BuildAndStop(g, t, r, luck) ==
  LET h == Build(g, t, r, luck)
      ended == IF t \in StopsWrapped THEN RowStop(h, Wraps[t]) ELSE h
  IN RowStop(ended, t)

-----------------------------------------------------------------------------
(***************************************************************************)
(* The reference.                                                          *)
(***************************************************************************)
\* The states after each row, and before the first one.
SerialStates(t, luck) ==
  LET after[r \in 0..MaxRow] ==
        IF r = 0 THEN FreshMemory(Touched(t), t)
        ELSE BuildAndStop(after[r - 1], t, r, luck)
  IN after

SerialRows ==
  [t \in TablesBuilt |-> [luck \in Seeds |->
    LET states == SerialStates(t, luck) IN
    [r \in 1..MaxRow |->
      RowMadeOf(t, r, states[r - 1], Build(states[r - 1], t, r, luck))]]]

-----------------------------------------------------------------------------
VARIABLES
  mode,    \* "generate", "chunk" (a chunk but the first) or "validate"
  seed,    \* -RNGSEED
  queue,   \* the tables main has still to build
  next,    \* gen_tbl's next row, or how many rows -VALIDATE has shown
  gen,     \* the memory of the generator
  shown    \* what the last row is made of, <<>> before the first

vars == <<mode, seed, queue, next, gen, shown>>

\* The tables of 1,000,000 rows or more at some scale, which are split.
Splittable ==
  {"catalog_sales", "store_sales", "web_sales", "inventory", "customer",
   "customer_address", "customer_demographics", "s_purchase", "s_catalog_order",
   "s_web_order", "s_inventory", "s_customer"}

\* main: row_skip of the table and its child, not of its grandchild.
Positioned(g, t, first) ==
  LET ownSkipped == RowSkip(g, t, first - 1) IN
  IF first = 1 THEN g
  ELSE IF Children(t) = {} THEN ownSkipped
  ELSE RowSkip(ownSkipped, CHOOSE c \in Children(t) : TRUE, first - 1)

SessionStreams(q) == UNION {Touched(t) : t \in SetOf(q)}

Init ==
  /\ seed \in Seeds
  /\ shown = <<>>
  /\ \/ /\ mode = "generate"
        /\ queue \in Sessions
        /\ next = 1
        /\ gen = FreshMemory(SessionStreams(queue), Head(queue))
     \/ /\ mode = "chunk"
        /\ queue \in {q \in Sessions : SetOf(q) \subseteq Splittable}
        /\ next \in 2..MaxRow
        /\ gen = Positioned(FreshMemory(SessionStreams(queue), Head(queue)),
                            Head(queue), next)
     \/ /\ mode = "validate"
        /\ queue \in {<<t>> : t \in Validated}
        /\ next = 0
        /\ gen = FreshMemory(SessionStreams(queue), Head(queue))

\* gen_tbl builds one row more.
GenerateRow ==
  /\ mode # "validate" /\ queue # <<>> /\ next <= MaxRow
  /\ shown' = RowMadeOf(Head(queue), next, gen, Build(gen, Head(queue), next, seed))
  /\ gen' = BuildAndStop(gen, Head(queue), next, seed)
  /\ next' = next + 1
  /\ UNCHANGED <<mode, seed, queue>>

\* main goes on to the next table, after the last row or that of the chunk.
NextTable ==
  /\ mode # "validate" /\ queue # <<>>
  /\ next > MaxRow \/ Head(queue) \in Splittable
  /\ queue' = Tail(queue)
  /\ IF Tail(queue) = <<>> THEN next' = 1 /\ gen' = gen
     ELSE /\ next' \in IF mode = "chunk" THEN 2..MaxRow ELSE {1}
          /\ gen' = Positioned(NextMemory(gen, Head(Tail(queue))), Head(Tail(queue)), next')
  /\ shown' = <<>>
  /\ UNCHANGED <<mode, seed>>

-----------------------------------------------------------------------------
(***************************************************************************)
(* Validation: one row, picked at random.                                  *)
(***************************************************************************)
ScdValidated ==
  {"call_center", "item", "store", "web_page", "web_site", "s_item", "s_web_page"}

\* validateGeneric, which takes s_customer_address and s_catalog_page for the
\* tables they wrap.
GenericPosition(g, t, k) ==
  LET u == IF t \in {"s_customer_address", "s_catalog_page"} THEN Wraps[t] ELSE t
      ownSkipped == RowSkip(g, u, k - 1)
  IN IF Children(u) = {} THEN ownSkipped
     ELSE RowSkip(ownSkipped, CHOOSE c \in Children(u) : TRUE, k - 1)

\* vld_w_catalog_sales, vld_w_store_sales, vld_web_sales.
SalesPosition(g, t, k) == RowSkip(RowSkip(g, t, k - 1), ChildOf[t], k - 1)

\* vld_s_catalog_order, vld_s_purchase, vld_s_web_order: the lines of catalog
\* orders are skipped one by one, those of the others order by order.
OrderPosition(g, t, k) ==
  LET lines == RefreshChildOf[t]
      perOrder == IF t = "s_catalog_order" THEN CatalogOrderLines ELSE 1
  IN RowSkip(RowSkip(RowSkip(g, t, k - 1), lines, (k - 1) * perOrder),
             RefreshChildOf[lines], k - 1)

\* What a vld function does to the streams before it calls the builder.
\* vld_w_date skips nothing, nor does vld_s_zip of what it draws.
ValidationPosition(g, t, k) ==
  CASE t \in {"date_dim", "s_zip_to_gmt"} -> g
    [] t \in DOMAIN ChildOf -> SalesPosition(g, t, k)
    [] t \in DOMAIN RefreshChildOf -> OrderPosition(g, t, k)
    [] t = "s_promotion" -> RowSkip(g, "promotion", k - 1)
    [] OTHER -> GenericPosition(g, t, k)

\* vld_s_item and vld_s_web_page draw the permutation before anything else, and
\* vld_s_item forgets the old values.
Prepared(g, t) ==
  LET first == t \in {"s_item", "s_web_page"} /\ ~g.started
      taken(s) == IF first /\ s = ShuffleStream[t] THEN 1 ELSE 0
  IN [pos |-> [s \in DOMAIN g.pos |-> g.pos[s] + taken(s)],
      used |-> [s \in DOMAIN g.used |-> g.used[s] + taken(s)],
      cur |-> g.cur,
      old |-> IF t = "s_item" THEN [c \in DOMAIN g.old |-> 0] ELSE g.old,
      started |-> g.started \/ first,
      shuffled |-> IF first THEN g.pos[ShuffleStream[t]] ELSE g.shuffled,
      over |-> g.over]

\* The table whose builder validateSCD calls.
ScdTable(t) == IF t \in DOMAIN Wraps THEN Wraps[t] ELSE t

\* validateSCD(t, k): the rows of the key from its first version on, each from
\* where its streams have to be.  The history is that of the rows before k.
ScdHistory(t, k) ==
  LET isFirst(j) == FirstOfKey(KeyOf(t, j, Outcome(seed, t, j))) IN
  {j \in 1..k : \A i \in (j + 1)..k : ~isFirst(i)}

\* Mutant: the version asked for, without those before it.
ScdBuiltAlone(g, t, k) ==
  LET one(h, j) == Build(RowSkip(RowSkip(h, t, j - 1), ScdTable(t), j - 1), t, j, seed)
  IN one(g, k)

ScdBuilt(g, t, k) ==
  LET one(h, j) == Build(RowSkip(RowSkip(h, t, j - 1), ScdTable(t), j - 1), t, j, seed)
      built[j \in 0..k] == IF j \in ScdHistory(t, k) THEN one(built[j - 1], j) ELSE g
  IN built[k]

\* Main's loop of -VALIDATE: the row, and no row_stop but those of
\* vld_s_promotion and vld_s_zip.
ValidateRow(k) ==
  /\ mode = "validate" /\ next < MaxShown
  /\ \E t \in {Head(queue)} : \E ready \in {Prepared(gen, t)} :
       LET begun == IF t \in ScdValidated
                      THEN RowSkip(RowSkip(ready, t, k - 1), ScdTable(t), k - 1)
                      ELSE ValidationPosition(gen, t, k) IN
       \E built \in {IF t \in ScdValidated THEN ScdBuilt(ready, t, k)
                                          ELSE Build(begun, t, k, seed)} :
         /\ shown' = RowMadeOf(t, k, begun, built)
         /\ gen' = CASE t = "s_promotion" -> RowStop(built, "promotion")
                     [] t = "s_zip_to_gmt" -> RowStop(built, t)
                     [] OTHER -> built
  /\ next' = next + 1
  /\ UNCHANGED <<mode, seed, queue>>

Next == GenerateRow \/ NextTable \/ \E k \in 1..MaxRow : ValidateRow(k)

Spec == Init /\ [][Next]_vars

-----------------------------------------------------------------------------
(***************************************************************************)
(* Properties.                                                             *)
(***************************************************************************)

\* The state is of the right shape: streams never go back before their seed,
\* and a column comes from no row beyond the table.
TypeOK ==
  /\ mode \in {"generate", "chunk", "validate"} /\ seed \in Seeds
  /\ next \in 0..(MaxRow + 1)
  /\ \A s \in DOMAIN gen.pos : gen.pos[s] \in Nat /\ gen.used[s] \in Nat
  /\ \A c \in DOMAIN gen.cur : gen.cur[c] \in 0..MaxRow /\ gen.old[c] \in 0..MaxRow
  /\ gen.over \subseteq AllStreams

SerialRow == SerialRows[shown.table][seed][shown.row]

\* Streams whose numbers show in no column: of tables without NULLs the one
\* that picks them, the one container there is, of an address what s_customer
\* does not print, and that of the permutation, which "shuffled" stands for.
Unseen(t) ==
  (CASE t = "date_dim" -> {"D_NULLS"}
     [] t = "s_customer" -> {"CA_NULLS", "CA_LOCATION_TYPE"}
     [] t \in {"item", "s_item"} -> {"CC_HOURS"}
     [] OTHER -> {})
  \cup (IF t \in DOMAIN ShuffleStream THEN {ShuffleStream[t]} ELSE {})

Drawn(t) == Touched(t) \ Unseen(t)

ShownIs(row) ==
  /\ shown.values = row.values /\ shown.shuffled = row.shuffled
  /\ \A s \in Drawn(shown.table) : shown.starts[s] = row.starts[s]

\* Every row a process shows, whichever way it got there, is the row with that
\* number of the table built alone and in order: the same numbers, picked by
\* the same permutation, and every column computed in the same row.
RowIsTheTables == shown # <<>> => ShownIs(SerialRow)

\* Streams of which a row may take more than column_list.txt allows.
MayOverrun ==
  {"WEB_MARKET_CLASS", "CS_PERMUTE", "SS_PERMUTATION", "WS_PERMUTATION",
   "S_CALL_CENTER_ID", "S_CUST_ID", "S_ITEM_PERMUTE", "S_PROMOTION_ID",
   "S_STORE_ID", "S_WRHS_ID", "S_WPAG_PERMUTE", "S_CLIN_PERMUTE",
   "S_PLINE_PERMUTE", "S_WLIN_PERMUTE", "S_CLIN_PROMOTION_ID",
   "S_CLIN_WAREHOUSE_ID", "S_CLIN_SHIP_DATE", "S_CLIN_IS_RETURNED",
   "S_CLIN_CATALOG_PAGE_ID", "S_CLIN_PRICING", "S_WRET_REASON_ID",
   "S_SRET_RETURN_TIME", "S_WRET_RETURN_TIME"}

\* No other stream is overrun: every budget of column_list.txt but these covers
\* the most a row takes, so that row_skip lands where gen_tbl would be.
NoUnknownOverrun == gen.over \subseteq MayOverrun

\* The tables whose rows are the same however a process gets at them.  A chunk
\* of orders skips neither their returns nor the numbers their lines overran.
\* -VALIDATE ends no row: the streams of the table that s_store, s_warehouse,
\* s_call_center and s_web_site wrap are neither topped up nor skipped; web_site
\* overruns its budget, and s_web_page keeps old values of the row shown before.
FreelyAccessible ==
  TablesBuilt \
    ((IF mode = "generate" THEN {} ELSE {"s_purchase", "s_catalog_order", "s_web_order"})
      \cup IF mode = "validate"
             THEN {"s_store", "s_warehouse", "s_call_center", "s_web_site",
                   "web_site", "s_web_page"}
             ELSE {})

\* Chunks, tables built alone or after others, and validation all give the rows
\* of the tables that stay within their budgets.
AccessibleRowIsTheTables ==
  shown # <<>> /\ shown.table \in FreelyAccessible => RowIsTheTables

\* A version of a business key keeps values only from the versions of the same
\* key before it, in a generated table as in a row that validation shows.
HistoryStaysInKey ==
  shown # <<>> /\ shown.table \in WarehouseTables =>
    \A c \in DOMAIN shown.values :
      shown.values[c] # 0 => shown.values[c] \in KeyStart(shown.row)..shown.row
=============================================================================
