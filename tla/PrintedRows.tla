---------------------------- MODULE PrintedRows ----------------------------
(***************************************************************************)
(* The text of a row (print.c, nulls.c and the pr_ function of every       *)
(* table). Before a warehouse table's row is built nullSet draws which of  *)
(* its columns are null: a map of bits of which it clears those that       *)
(* w_tdefs.h says may not be null. A pr_ function prints the columns in an *)
(* order of its own, each unless its bit is set in the map of its table,   *)
(* with a delimiter between them. What makes the line a row is that it has *)
(* a field for every column of the table's DDL and none empty that the DDL *)
(* declares not null: the bits are counted in w_tdefs.h from the table's   *)
(* first column, the fields in pr_, the columns in tpcds.sql.              *)
(* A key, an id or a date of -1 is printed as nothing too: which keys a    *)
(* join may leave at -1 is a matter of Joins.                              *)
(***************************************************************************)
EXTENDS Integers, Sequences

CONSTANT NullDraws   \* values of the 31 bits nullSet draws, as sets of bits

ASSUME NullDrawsAssumption == NullDraws \subseteq SUBSET (0 .. 30) \ {{}}

VARIABLES
  terminated,  \* TERMINATE: print_end writes a delimiter too
  generated,   \* the table this process builds, with its returns
  nullMaps,    \* kNullBitMap of every warehouse table, as a set of bits
  due,         \* tables with a row built and not yet printed, in printing order
  line         \* the last line: its table, and for every field whether it is empty

printVars == <<terminated, generated, nullMaps, due, line>>

-----------------------------------------------------------------------------
(* Columns in the order they are printed, as their table and their bit in  *)
(* its map: the offset from nFirstColumn, which nullCheck shifts by.       *)
Bits(first, last) == [i \in 1 .. last - first + 1 |-> first + i - 1]
Repeated(n, bit) == [i \in 1 .. n |-> bit]
ColumnsOf(table, bits) == [i \in DOMAIN bits |-> <<table, bits[i]>>]

pr_w_call_center == ColumnsOf("call_center", Bits(0, 19) \o Repeated(10, 30) \o <<31>>)
pr_w_catalog_page == ColumnsOf("catalog_page", Bits(0, 3) \o Bits(5, 9))
pr_w_catalog_returns == ColumnsOf("catalog_returns", Bits(0, 26))
pr_w_catalog_sales ==
  ColumnsOf("catalog_sales", Bits(0, 21) \o <<24, 23>> \o Bits(25, 27) \o <<22>>
    \o Bits(28, 33))
pr_w_customer == ColumnsOf("customer", Bits(0, 17))
pr_w_customer_address == ColumnsOf("customer_address", Bits(0, 12))
pr_w_customer_demographics == ColumnsOf("customer_demographics", Bits(0, 8))
pr_w_date == ColumnsOf("date_dim", <<0, 1, 0>> \o Bits(3, 27))
pr_w_household_demographics == ColumnsOf("household_demographics", Bits(0, 4))
pr_w_income_band == ColumnsOf("income_band", Bits(0, 2))
pr_w_inventory == ColumnsOf("inventory", Bits(0, 3))
pr_w_item == ColumnsOf("item", Bits(0, 21))
pr_w_promotion == ColumnsOf("promotion", Bits(0, 18))
pr_w_reason == ColumnsOf("reason", Bits(0, 2))
pr_w_ship_mode == ColumnsOf("ship_mode", Bits(0, 3) \o <<5, 4>>)
pr_w_store == ColumnsOf("store", Bits(0, 10) \o Bits(12, 28) \o <<11>>)
pr_w_store_returns == ColumnsOf("store_returns", Bits(0, 19))
pr_w_store_sales == ColumnsOf("store_sales", Bits(0, 18) \o <<14>> \o Bits(19, 21))
pr_w_time == ColumnsOf("time_dim", Bits(0, 9))
pr_w_warehouse == ColumnsOf("warehouse", Bits(0, 13))
pr_w_web_page == ColumnsOf("web_page", Bits(0, 13))
pr_w_web_returns == ColumnsOf("web_returns", Bits(0, 23))
pr_w_web_sales == ColumnsOf("web_sales", Bits(0, 33))
pr_w_web_site == ColumnsOf("web_site", Bits(0, 25))

\* Refresh tables; some are printed with the columns of the warehouse table.
pr_s_call_center == ColumnsOf("call_center", <<0, 5, 4>> \o Bits(6, 11) \o <<31>>)
pr_s_catalog_order == ColumnsOf("s_catalog_order", Bits(0, 6) \o <<8>>)
pr_s_catalog_order_lineitem ==
  ColumnsOf("s_catalog_order_lineitem", <<0, 1>>)
    \o ColumnsOf("s_catalog_order", <<7>>)
    \o ColumnsOf("s_catalog_order_lineitem", <<2, 3, 9>> \o Bits(4, 8) \o <<10>>)
pr_s_catalog_page == ColumnsOf("s_catalog_page", Bits(0, 7))
pr_s_catalog_returns == ColumnsOf("s_catalog_returns", Bits(0, 16) \o Bits(18, 20))
pr_s_customer ==
  ColumnsOf("s_customer", Bits(0, 5) \o Bits(8, 11) \o <<7, 6>> \o Bits(12, 14)
    \o <<16, 20>> \o Bits(17, 19) \o Bits(21, 37))
pr_s_customer_address == ColumnsOf("s_customer_address", Bits(0, 10))
pr_s_inventory == ColumnsOf("s_inventory", Bits(0, 3))
pr_s_item == ColumnsOf("s_item", <<0>> \o Bits(3, 5) \o Bits(7, 11) \o <<6>>)
pr_s_pline ==
  ColumnsOf("s_purchase_lineitem", <<0, 1>>) \o ColumnsOf("s_purchase", <<9>>)
    \o ColumnsOf("s_purchase_lineitem", <<2, 4, 3, 5, 6>>)
pr_s_promotion == ColumnsOf("promotion", <<1, 7, 2, 2, 5, 6>> \o Bits(8, 18))
pr_s_purchase == ColumnsOf("s_purchase", Bits(0, 7))
pr_s_store == ColumnsOf("store", <<1>> \o Bits(4, 10) \o <<12, 14, 11>>)
pr_s_store_returns == ColumnsOf("s_store_returns", Bits(0, 16))
pr_s_warehouse == ColumnsOf("warehouse", Bits(1, 3))
pr_s_web_order == ColumnsOf("s_web_order", Bits(0, 7))
pr_s_web_order_lineitem ==
  ColumnsOf("s_web_order_lineitem", <<0, 1>>) \o ColumnsOf("s_web_order", <<8>>)
    \o ColumnsOf("s_web_order_lineitem", <<2, 3, 8>> \o Bits(4, 6) \o <<9, 7>>)
pr_s_web_page == ColumnsOf("web_page", <<1>> \o Bits(4, 6) \o Bits(8, 13))
pr_s_web_return == ColumnsOf("s_web_returns", Bits(0, 7) \o Repeated(8, 9) \o <<8>>)
pr_s_web_site == ColumnsOf("web_site", <<1, 5, 6, 4, 7, 8, 25>>)
pr_s_zip == ColumnsOf("s_zip_to_gmt", <<0, 1>>)

PrintedColumns ==
  [s_call_center |-> pr_s_call_center, s_catalog_order |-> pr_s_catalog_order,
   s_catalog_order_lineitem |-> pr_s_catalog_order_lineitem,
   s_catalog_page |-> pr_s_catalog_page,
   s_catalog_returns |-> pr_s_catalog_returns, s_customer |-> pr_s_customer,
   s_customer_address |-> pr_s_customer_address, s_inventory |-> pr_s_inventory,
   s_item |-> pr_s_item, s_purchase_lineitem |-> pr_s_pline,
   s_promotion |-> pr_s_promotion, s_purchase |-> pr_s_purchase,
   s_store |-> pr_s_store, s_store_returns |-> pr_s_store_returns,
   s_warehouse |-> pr_s_warehouse, s_web_order |-> pr_s_web_order,
   s_web_order_lineitem |-> pr_s_web_order_lineitem,
   s_web_page |-> pr_s_web_page, s_web_returns |-> pr_s_web_return,
   s_web_site |-> pr_s_web_site, s_zip_to_gmt |-> pr_s_zip,
   call_center |-> pr_w_call_center, catalog_page |-> pr_w_catalog_page,
   catalog_returns |-> pr_w_catalog_returns,
   catalog_sales |-> pr_w_catalog_sales, customer |-> pr_w_customer,
   customer_address |-> pr_w_customer_address,
   customer_demographics |-> pr_w_customer_demographics, date_dim |-> pr_w_date,
   household_demographics |-> pr_w_household_demographics,
   income_band |-> pr_w_income_band, inventory |-> pr_w_inventory,
   item |-> pr_w_item, promotion |-> pr_w_promotion, reason |-> pr_w_reason,
   ship_mode |-> pr_w_ship_mode, store |-> pr_w_store,
   store_returns |-> pr_w_store_returns, store_sales |-> pr_w_store_sales,
   time_dim |-> pr_w_time, warehouse |-> pr_w_warehouse,
   web_page |-> pr_w_web_page, web_returns |-> pr_w_web_returns,
   web_sales |-> pr_w_web_sales, web_site |-> pr_w_web_site]

\* kNotNullBitMap of the warehouse tables: the bits that stay clear.
NotNullBits ==
  [call_center |-> {0, 1, 3}, catalog_page |-> {0, 1},
   catalog_returns |-> {0, 1, 2, 16}, catalog_sales |-> {15, 17},
   customer |-> {0, 1, 4}, customer_address |-> {0, 1},
   customer_demographics |-> {0}, date_dim |-> {0, 1},
   household_demographics |-> {0}, income_band |-> {0}, inventory |-> {0, 1, 2},
   item |-> {0, 1, 3}, promotion |-> {0, 1}, reason |-> {0, 1},
   ship_mode |-> {0, 1}, store |-> {0, 1, 3}, store_returns |-> {2, 9},
   store_sales |-> {2, 9}, time_dim |-> {0, 1}, warehouse |-> {0, 1},
   web_page |-> {0, 1, 3}, web_returns |-> {2, 13}, web_sales |-> {3, 17},
   web_site |-> {0, 1, 3}]

\* Tables with nNullPct 0.
NeverNull == {"customer_demographics", "date_dim", "household_demographics",
              "income_band", "reason", "ship_mode", "time_dim"}

\* The tables of tpcds.sql and tpcds_source.sql: how many columns, which not null.
Table(n, positions) == [columns |-> n, required |-> positions]
Ddl ==
  [s_call_center |-> Table(10, {1}), s_catalog_order |-> Table(8, {1}),
   s_catalog_order_lineitem |-> Table(12, {1, 2}),
   s_catalog_page |-> Table(8, {1, 2}),
   s_catalog_returns |-> Table(20, {2, 3, 4}), s_customer |-> Table(37, {1}),
   s_customer_address |-> Table(11, {1}), s_inventory |-> Table(4, {1, 2, 3}),
   s_item |-> Table(10, {1}), s_purchase_lineitem |-> Table(8, {1, 2}),
   s_promotion |-> Table(18, {1}), s_purchase |-> Table(8, {1}),
   s_store |-> Table(11, {1}), s_store_returns |-> Table(17, {2, 3, 4}),
   s_warehouse |-> Table(3, {1}), s_web_order |-> Table(8, {1}),
   s_web_order_lineitem |-> Table(11, {1, 2}), s_web_page |-> Table(10, {1}),
   s_web_returns |-> Table(17, {2, 3, 4}), s_web_site |-> Table(7, {1}),
   s_zip_to_gmt |-> Table(2, {1, 2}), call_center |-> Table(31, {1, 2}),
   catalog_page |-> Table(9, {1, 2}), catalog_returns |-> Table(27, {3, 17}),
   catalog_sales |-> Table(34, {16, 18}), customer |-> Table(18, {1, 2}),
   customer_address |-> Table(13, {1, 2}),
   customer_demographics |-> Table(9, {1}), date_dim |-> Table(28, {1, 2}),
   household_demographics |-> Table(5, {1}), income_band |-> Table(3, {1}),
   inventory |-> Table(4, {1, 2, 3}), item |-> Table(22, {1, 2}),
   promotion |-> Table(19, {1, 2}), reason |-> Table(3, {1, 2}),
   ship_mode |-> Table(6, {1, 2}), store |-> Table(29, {1, 2}),
   store_returns |-> Table(20, {3, 10}), store_sales |-> Table(23, {3, 10}),
   time_dim |-> Table(10, {1, 2}), warehouse |-> Table(14, {1, 2}),
   web_page |-> Table(14, {1, 2}), web_returns |-> Table(24, {3, 14}),
   web_sales |-> Table(34, {4, 18}), web_site |-> Table(26, {1, 2})]

Tables == DOMAIN PrintedColumns
WarehouseTables == DOMAIN NotNullBits

\* The returns a line of a sale may have (nParam).
Returns == [catalog_sales |-> "catalog_returns", store_sales |-> "store_returns",
            web_sales |-> "web_returns"]

-----------------------------------------------------------------------------
\* What nullSet draws for t, before its mask.
DrawnFor(t) == IF t \in NeverNull THEN {} ELSE NullDraws

\* Mutant: the mask is not applied.
NullSetUnprotected(t) == {{}} \cup DrawnFor(t)

\* The maps nullSet may leave a table: none of the columns is null unless the
\* threshold drawn is below nNullPct, of 10000.
NullSet(t) == {{}} \cup {bits \ NotNullBits[t] : bits \in DrawnFor(t)}

nullCheck(column) ==
  column[1] \in WarehouseTables /\ column[2] \in nullMaps[column[1]]

\* The fields a reader of the line finds: one more if the line is terminated.
Fields(t) ==
  LET printed == PrintedColumns[t]
  IN  [i \in DOMAIN printed |-> nullCheck(printed[i])]
        \o IF terminated THEN <<TRUE>> ELSE <<>>

\* w_tdefs.h gives web_sales a map to begin with, 1100, and the others none; a map
\* is drawn before any row of its table is printed.
PrintInit ==
  /\ terminated = TRUE
  /\ generated = ""
  /\ nullMaps = [t \in WarehouseTables |-> IF t = "web_sales" THEN {2, 3, 6, 10} ELSE {}]
  /\ due = <<>>
  /\ line = [table |-> "", fields |-> <<>>]

\* The command line: -table t, and whether TERMINATE keeps its default.
Generate ==
  /\ generated = ""
  /\ generated' \in Tables \ {Returns[s] : s \in DOMAIN Returns}
  /\ terminated' \in BOOLEAN
  /\ UNCHANGED <<nullMaps, due, line>>

\* mk_w_t, or mk_detail of a sale: nullSet for its row, then, if the sale is
\* returned, nullSet for the row of the return, which is printed first.
\* No mk_s_ calls nullSet.
BuildRow ==
  /\ generated # "" /\ due = <<>>
  /\ IF generated \in WarehouseTables
     THEN \E bits \in NullSet(generated) :
            \/ /\ nullMaps' = [nullMaps EXCEPT ![generated] = bits]
               /\ due' = <<generated>>
            \/ /\ generated \in DOMAIN Returns
               /\ \E returned \in NullSet(Returns[generated]) :
                    nullMaps' = [nullMaps EXCEPT ![generated] = bits,
                                                 ![Returns[generated]] = returned]
               /\ due' = <<Returns[generated], generated>>
     ELSE due' = <<generated>> /\ UNCHANGED nullMaps
  /\ UNCHANGED <<terminated, generated, line>>

\* print_start, the pr_ function, print_end.
PrintRow ==
  /\ due # <<>>
  /\ line' = [table |-> Head(due), fields |-> Fields(Head(due))]
  /\ due' = Tail(due)
  /\ UNCHANGED <<terminated, generated, nullMaps>>

PrintNext == Generate \/ BuildRow \/ PrintRow

-----------------------------------------------------------------------------
PrintTypeOK ==
  /\ generated \in Tables \cup {""}
  /\ \A t \in WarehouseTables : nullMaps[t] \subseteq 0 .. 30
  /\ \A i \in DOMAIN due : due[i] \in Tables

\* Every line is a row of its table's DDL (nulls.c: nullSet, nullCheck; the pr_
\* functions; w_tdefs.h; tpcds.sql): as many fields as columns, and a terminator
\* if lines are terminated; no column declared not null is empty, whichever
\* columns the row's map and the maps of earlier rows make null. s_promotion
\* is left out: its pr_ function does not print prom_discount_pct.
LineFitsTable ==
  line.table \in Tables \ {"s_promotion"} =>
    LET table == Ddl[line.table]
    IN  /\ Len(line.fields) = table.columns + (IF terminated THEN 1 ELSE 0)
        /\ \A i \in table.required : ~line.fields[i]
=============================================================================
