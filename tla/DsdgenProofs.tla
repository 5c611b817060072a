----------------------------- MODULE DsdgenProofs -----------------------------
(***************************************************************************)
(* Every row of a parallel build starts at its own position of every       *)
(* stream, for any number of children, any sizes of the tables that an int *)
(* can hold, any seed and any number of crashes and restarts; and what the *)
(* files of the build hold.                                                *)
(***************************************************************************)
EXTENDS DsdgenProps, SplitWorkProofs

\* What AsInt needs to be harmless: the rows of a table can be counted by an
\* int.  Without it RowsAligned is false (see MatchesSerial).
FitsInt == \A t \in DOMAIN TotalRows : TotalRows[t] < IntMax

-----------------------------------------------------------------------------
(***************************************************************************)
(* The inductive invariant.                                                *)
(***************************************************************************)

\* Where a row is under construction.
OrderLabels == {"skip_days", "date", "detail", "print_return", "print_sale"}
LineLabels == {"detail", "print_return", "print_sale"}
InRow == OrderLabels \union {"print_address", "stop"}

\* The streams of catalog_sales and of its child that row_stop keeps aligned.
SalesStreams == {s \in Streams : StreamTable[s] \in Family("catalog_sales")} \ {"CS_PERMUTE"}
AddressStreams == {"CA_ADDRESS", "CA_NULLS"}

RowStreams(t) == IF t = "catalog_sales" THEN SalesStreams ELSE AddressStreams

\* What an order draws from each stream at most, k of its lines built.
DrawnBy(k) ==
  [CS_SHIP_CUSTOMER_SK |-> 2, CS_SOLD_ITEM_SK |-> 1, CS_ORDER_NUMBER |-> 1,
   CS_SHIP_DATE_SK |-> k, CS_NULLS |-> 2 * k, CR_IS_RETURNED |-> k,
   CR_RETURNING_CUSTOMER_SK |-> 2 * k, CR_NULLS |-> 2 * k]

\* Where child c is: the rows it still has to build end with its chunk.
CtlInv(c) ==
  /\ pc[c] \in OrderLabels => tab[c] = 2
  /\ pc[c] = "print_address" => tab[c] = 3
  /\ pc[c] \in InRow => left[c] > 0
  /\ pc[c] \in InRow \union {"row"} =>
       /\ tab[c] \in {2, 3}
       /\ row[c] + left[c] = First(c, Table(c)) + Count(c, Table(c))
  /\ pc[c] = "skip_days" => jDate[c] > 0 \/ dayIndex[c] = 1
  /\ pc[c] \in LineLabels => line[c] <= lines[c]

Aligned(c, s) == pos[c][s] = (row[c] - 1) * Budget[s] + used[c][s]

\* Before a table: its streams are where the process started, but for those
\* that an earlier row_skip reached; that has not happened to child 1.
BeforeInv(c) ==
  /\ pc[c] = "table" /\ tab[c] <= 2 =>
       /\ \A s \in SalesStreams : pos[c][s] = 0 /\ used[c][s] = 0
       /\ used[c]["CS_PERMUTE"] = 0
  /\ tab[c] <= 2 \/ (tab[c] = 3 /\ pc[c] = "table") =>
       /\ \A s \in AddressStreams : used[c][s] = 0
       /\ pos[c]["CA_NULLS"] = 0
       /\ c = 1 => pos[c]["CA_ADDRESS"] = 0

\* Between two rows and within one.
WithinInv(c) ==
  /\ pc[c] = "row" =>
       \A s \in RowStreams(Table(c)) :
         used[c][s] = 0 /\ (left[c] > 0 => Aligned(c, s))
  /\ pc[c] = "row" /\ tab[c] = 2 => used[c]["CS_PERMUTE"] = 0
  /\ pc[c] \in InRow => \A s \in RowStreams(Table(c)) : Aligned(c, s)
  /\ pc[c] \in {"skip_days", "date"} => \A s \in SalesStreams : used[c][s] = 0
  /\ pc[c] \in LineLabels =>
       \A s \in SalesStreams :
         used[c][s] <= DrawnBy(IF pc[c] = "detail" THEN line[c] - 1 ELSE line[c])[s]

ChildInv(c) == CtlInv(c) /\ BeforeInv(c) /\ WithinInv(c)

IInv ==
  /\ TypeOK
  /\ NoSeedOverrun
  /\ \A c \in Children : ChildInv(c)

-----------------------------------------------------------------------------
(***************************************************************************)
(* The tables and the streams, as sets the provers can split on.           *)
(***************************************************************************)
LEMMA StreamFacts ==
  /\ Streams = {"CS_SHIP_CUSTOMER_SK", "CS_SOLD_ITEM_SK", "CS_ORDER_NUMBER",
                "CS_PERMUTE", "CS_SHIP_DATE_SK", "CS_NULLS", "CR_IS_RETURNED",
                "CR_RETURNING_CUSTOMER_SK", "CR_NULLS", "CA_ADDRESS", "CA_NULLS",
                "S_BADDR_ADDRESS"}
  /\ SalesStreams = {"CS_SHIP_CUSTOMER_SK", "CS_SOLD_ITEM_SK", "CS_ORDER_NUMBER",
                     "CS_SHIP_DATE_SK", "CS_NULLS", "CR_IS_RETURNED",
                     "CR_RETURNING_CUSTOMER_SK", "CR_NULLS"}
  /\ SalesStreams \subseteq Streams /\ AddressStreams \subseteq Streams
  /\ \A s \in Streams : StreamTable[s] \in Family("catalog_sales")
                          <=> s \in SalesStreams \union {"CS_PERMUTE"}
  /\ \A s \in Streams : StreamTable[s] \in Family("customer_address")
                          <=> s \in AddressStreams
<1>1. Streams = {"CS_SHIP_CUSTOMER_SK", "CS_SOLD_ITEM_SK", "CS_ORDER_NUMBER",
                "CS_PERMUTE", "CS_SHIP_DATE_SK", "CS_NULLS", "CR_IS_RETURNED",
                "CR_RETURNING_CUSTOMER_SK", "CR_NULLS", "CA_ADDRESS", "CA_NULLS",
                "S_BADDR_ADDRESS"}
  BY DEF Streams, StreamTable
<1>2. SalesStreams = {"CS_SHIP_CUSTOMER_SK", "CS_SOLD_ITEM_SK", "CS_ORDER_NUMBER",
                     "CS_SHIP_DATE_SK", "CS_NULLS", "CR_IS_RETURNED",
                     "CR_RETURNING_CUSTOMER_SK", "CR_NULLS"}
  BY <1>1 DEF SalesStreams, StreamTable, Family
<1>3. \A s \in Streams : StreamTable[s] \in Family("catalog_sales")
                          <=> s \in SalesStreams \union {"CS_PERMUTE"}
  BY <1>1, <1>2 DEF StreamTable, Family
<1>4. \A s \in Streams : StreamTable[s] \in Family("customer_address")
                          <=> s \in AddressStreams
  BY <1>1 DEF StreamTable, Family, AddressStreams
<1> QED  BY <1>1, <1>2, <1>3, <1>4 DEF AddressStreams

\* The budgets are natural numbers.
LEMMA BudgetFacts ==
  /\ \A s \in Streams : Budget[s] \in Nat
  /\ \A s \in SalesStreams : \A k \in 0 .. MaxLines :
       DrawnBy(k)[s] \in Nat /\ DrawnBy(k)[s] <= Budget[s]
BY StreamFacts, DsdgenAssumption DEF Budget, DrawnBy

\* The position of the next row is a budget further.
LEMMA NextRow ==
  ASSUME NEW r \in Nat \ {0}, NEW b \in Nat
  PROVE  /\ (r - 1) * b \in Nat /\ (r - 1) * b + b = (r + 1 - 1) * b
         /\ (1 - 1) * b = 0
BY Z3

\* The domain of main's index, and the table at each.
LEMMA DriverSize == Len(DriverOrder) = 3 /\ 1 .. Len(DriverOrder) + 1 = 1 .. 4
BY DEF DriverOrder

\* The table a child is at.
LEMMA TableFacts ==
  ASSUME TypeOK, NEW c \in Children
  PROVE  /\ tab[c] \in 1 .. 4
         /\ tab[c] = 1 => Table(c) = "catalog_returns"
         /\ tab[c] = 2 => Table(c) = "catalog_sales"
         /\ tab[c] = 3 => Table(c) = "customer_address"
BY DriverSize DEF TypeOK, Table, DriverOrder

\* Chunks start at row 1 or later and have a size.
LEMMA FirstRowPositive ==
  ASSUME NEW c \in Children, NEW t \in {"catalog_sales", "customer_address"}
  PROVE  First(c, t) \in Nat \ {0} /\ Count(c, t) \in Nat
<1>1. TotalRows[t] \in Nat \ {0} /\ Parallel \in Nat \ {0} /\ c \in 1 .. Parallel
  BY DsdgenAssumption DEF Children
<1> QED  BY <1>1, ChunkBounds DEF First, Count

\* The chunks, of tables whose rows an int can count.
LEMMA ChunkFacts ==
  ASSUME FitsInt, NEW c \in Children, NEW t \in {"catalog_sales", "customer_address"}
  PROVE  /\ First(c, t) \in Nat \ {0} /\ Count(c, t) \in Nat
         /\ First(c, t) + Count(c, t) - 1 <= TotalRows[t]
         /\ c = 1 => First(c, t) = 1
         /\ First(c, t) = 1 /\ Count(c, t) > 0 => c = 1
         /\ AsInt(First(c, t) - 1) = First(c, t) - 1
<1>1. TotalRows[t] \in Nat \ {0} /\ TotalRows[t] < IntMax /\ IntMax \in Nat
  BY DsdgenAssumption DEF FitsInt
<1>2. Parallel \in Nat \ {0} /\ c \in 1 .. Parallel
  BY DsdgenAssumption DEF Children
<1>3. /\ First(c, t) \in Nat \ {0} /\ Count(c, t) \in Nat
      /\ First(c, t) + Count(c, t) - 1 <= TotalRows[t]
  BY <1>1, <1>2, ChunkBounds DEF First, Count
<1>4. /\ c = 1 => First(c, t) = 1
      /\ First(c, t) = 1 /\ Count(c, t) > 0 => c = 1
  BY <1>1, <1>2, OnlyFirstStartsAtOne DEF First, Count
<1>5. AsInt(First(c, t) - 1) = First(c, t) - 1
  <2> DEFINE x == First(c, t) - 1
  <2>1. x \in Nat /\ x < IntMax
    BY <1>1, <1>3
  <2> HIDE DEF x
  <2>2. x % (2 * IntMax) = x
    BY <1>1, <2>1, Z3
  <2>3. AsInt(x) = x
    BY <2>1, <2>2 DEF AsInt
  <2> QED  BY <2>3 DEF x
<1> QED  BY <1>3, <1>4, <1>5

-----------------------------------------------------------------------------
(***************************************************************************)
(* The initial states, and the child a step is not of.                     *)
(***************************************************************************)
LEMMA InitInv == Init => IInv
<1> SUFFICES ASSUME Init PROVE IInv
  OBVIOUS
<1>1. TypeOK
  BY DsdgenAssumption DEF Init, TypeOK, Labels, Stopped, Printing, DriverOrder,
     SaleRows, ReturnRows, AddressRows, NoSale, NoReturn, NoAddress
<1>2. NoSeedOverrun
  BY BudgetFacts DEF Init, NoSeedOverrun
<1>3. ASSUME NEW c \in Children PROVE ChildInv(c)
  <2>1. CtlInv(c)
    BY DEF Init, CtlInv, OrderLabels, LineLabels, InRow
  <2>2. BeforeInv(c)
    BY StreamFacts DEF Init, BeforeInv
  <2>3. WithinInv(c)
    BY DEF Init, WithinInv, InRow, OrderLabels, LineLabels
  <2> QED  BY <2>1, <2>2, <2>3 DEF ChildInv
<1> QED  BY <1>1, <1>2, <1>3 DEF IInv

\* What the invariant says of a child is about its own variables.
Frame(d) ==
  /\ pc'[d] = pc[d] /\ tab'[d] = tab[d] /\ row'[d] = row[d] /\ left'[d] = left[d]
  /\ line'[d] = line[d] /\ lines'[d] = lines[d]
  /\ pos'[d] = pos[d] /\ used'[d] = used[d]
  /\ jDate'[d] = jDate[d] /\ dayIndex'[d] = dayIndex[d]

\* What holds of a child depends on its own variables only: a step of one
\* child keeps the invariant of the others.
LEMMA FrameInv ==
  ASSUME NEW d \in Children, Frame(d), ChildInv(d)
  PROVE  ChildInv(d)'
<1>1. Table(d)' = Table(d)
  BY DEF Frame, Table
<1>2. \A s : Aligned(d, s)' <=> Aligned(d, s)
  BY DEF Frame, Aligned
<1>3. CtlInv(d)'
  BY <1>1 DEF Frame, ChildInv, CtlInv, First, Count
<1>4. BeforeInv(d)'
  BY DEF Frame, ChildInv, BeforeInv
<1>5. WithinInv(d)'
  BY <1>1, <1>2 DEF Frame, ChildInv, WithinInv
<1> QED  BY <1>3, <1>4, <1>5 DEF ChildInv

\* To show that a step of c preserves the invariant it is enough to look at c.
LEMMA StepOfOne ==
  ASSUME IInv, NEW c \in Children, TypeOK',
         \A d \in Children \ {c} : Frame(d),
         \A s \in Streams \ {"CS_PERMUTE"} : used'[c][s] <= Budget[s],
         ChildInv(c)'
  PROVE  IInv'
<1>1. \A d \in Children \ {c} : ChildInv(d)'
  BY FrameInv DEF IInv
<1>2. NoSeedOverrun'
  BY DEF IInv, NoSeedOverrun, Frame
<1> QED  BY <1>1, <1>2 DEF IInv

-----------------------------------------------------------------------------
(***************************************************************************)
(* main: the walk over the tables.                                         *)
(***************************************************************************)
LEMMA SkipChildTableInv ==
  ASSUME IInv, NEW c \in Children, SkipChildTable(c)
  PROVE  IInv'
<1> USE DEF SkipChildTable, envVars, rngVars, dayVars, rowVars, outVars
<1>1. tab[c] = 1
  <2>1. TypeOK
    BY DEF IInv
  <2>2. Table(c) = "catalog_returns" /\ tab[c] <= 3
    BY DriverSize DEF IsChildTable
  <2> QED  BY <2>1, <2>2, TableFacts
<1>2. pc[c] = "table" /\ tab' = [tab EXCEPT ![c] = 2]
  BY <1>1
<1>3. TypeOK'
  <2>1. tab' \in [Children -> 1 .. Len(DriverOrder) + 1]
    BY <1>2, DriverSize DEF IInv, TypeOK
  <2> QED  BY <2>1 DEF IInv, TypeOK
<1>4. \A d \in Children \ {c} : Frame(d)
  BY <1>2 DEF Frame, IInv, TypeOK
<1>5. \A s \in Streams \ {"CS_PERMUTE"} : used'[c][s] <= Budget[s]
  BY DEF IInv, NoSeedOverrun
<1>6. ChildInv(c)'
  BY <1>1, <1>2 DEF IInv, TypeOK, ChildInv, CtlInv, BeforeInv, WithinInv, InRow, OrderLabels, LineLabels
<1> QED  BY <1>3, <1>4, <1>5, <1>6, StepOfOne

\* main returning keeps the invariant of the child.
LEMMA ExitInv ==
  ASSUME IInv, NEW c \in Children, Exit(c)
  PROVE  IInv'
<1>1. tab[c] = 4
  BY DriverSize, TableFacts DEF IInv, Exit
<1> USE DEF Exit, Goto, envVars, ctlVars, rngVars, dayVars, rowVars, outVars
<1>2. TypeOK'
  BY DEF IInv, TypeOK, Labels, Stopped
<1>3. \A d \in Children \ {c} : Frame(d)
  BY DEF Frame, IInv, TypeOK
<1>4. \A s \in Streams \ {"CS_PERMUTE"} : used'[c][s] <= Budget[s]
  BY DEF IInv, NoSeedOverrun
<1>5. ChildInv(c)'
  BY <1>1 DEF IInv, TypeOK, ChildInv, CtlInv, BeforeInv, WithinInv, InRow, OrderLabels, LineLabels
<1> QED  BY <1>2, <1>3, <1>4, <1>5, StepOfOne

\* The end of gen_tbl keeps it.
LEMMA EndTableInv ==
  ASSUME IInv, NEW c \in Children, EndTable(c)
  PROVE  IInv'
<1> USE DEF EndTable, Goto, envVars, rngVars, dayVars, rowVars
<1>1. /\ pc[c] = "row" /\ pc'[c] = "table"
      /\ tab[c] \in {2, 3} /\ tab' = [tab EXCEPT ![c] = tab[c] + 1]
  BY DEF IInv, TypeOK, ChildInv, CtlInv
<1>2. TypeOK'
  <2>1. tab' \in [Children -> 1 .. Len(DriverOrder) + 1]
    BY <1>1, DriverSize DEF IInv, TypeOK
  <2>2. pc' \in [Children -> Labels] /\ open' \in [Children -> SUBSET Tables]
    BY DEF IInv, TypeOK, Labels
  <2> QED  BY <2>1, <2>2 DEF IInv, TypeOK
<1>3. \A d \in Children \ {c} : Frame(d)
  BY DEF Frame, IInv, TypeOK
<1>4. \A s \in Streams \ {"CS_PERMUTE"} : used'[c][s] <= Budget[s]
  BY DEF IInv, NoSeedOverrun
<1>5. ChildInv(c)'
  BY <1>1, SMTT(30) DEF IInv, TypeOK, ChildInv, CtlInv, BeforeInv, WithinInv, InRow, OrderLabels, LineLabels
<1> QED  BY <1>2, <1>3, <1>4, <1>5, StepOfOne

-----------------------------------------------------------------------------
(***************************************************************************)
(* The days and the output: steps that leave the streams alone.            *)
(***************************************************************************)
LEMMA OpenFileInv ==
  ASSUME IInv, NEW c \in Children, OpenFile(c)
  PROVE  IInv'
<1> USE DEF OpenFile, envVars, ctlVars, rngVars, dayVars, rowVars
<1>1. Target(pc[c]) \in Tables
  BY DEF Printing, Target, Tables
<1>2. TypeOK'
  <2> DEFINE Rows == SaleRows \union ReturnRows \union AddressRows
  <2>1. <<>> \in Seq(Rows)
    OBVIOUS
  <2> HIDE DEF Rows
  <2>2. file' \in [Children -> [Tables -> Seq(Rows)]]
    BY <1>1, <2>1 DEF IInv, TypeOK, Rows
  <2>3. /\ open' \in [Children -> SUBSET Tables]
        /\ exists' \in [Children -> SUBSET Tables]
    BY <1>1 DEF IInv, TypeOK
  <2> QED  BY <2>2, <2>3 DEF IInv, TypeOK, Rows
<1>3. \A d \in Children : Frame(d)
  BY DEF Frame
<1>4. \A s \in Streams \ {"CS_PERMUTE"} : used'[c][s] <= Budget[s]
  BY DEF IInv, NoSeedOverrun
<1>5. ChildInv(c)'
  BY <1>3, FrameInv DEF IInv
<1> QED  BY <1>2, <1>3, <1>4, <1>5, StepOfOne

\* The exit of print_start keeps it.
LEMMA RefuseFileInv ==
  ASSUME IInv, NEW c \in Children, RefuseFile(c)
  PROVE  IInv'
<1> USE DEF RefuseFile, Goto, envVars, ctlVars, rngVars, dayVars, rowVars, outVars
<1>1. pc[c] \in InRow /\ pc'[c] = "failed"
  BY DEF IInv, TypeOK, Printing, InRow, OrderLabels
<1>2. TypeOK'
  <2>1. pc' \in [Children -> Labels]
    BY DEF IInv, TypeOK, Labels, Stopped
  <2> QED  BY <2>1 DEF IInv, TypeOK
<1>3. \A d \in Children \ {c} : Frame(d)
  BY DEF Frame, IInv, TypeOK
<1>4. \A s \in Streams \ {"CS_PERMUTE"} : used'[c][s] <= Budget[s]
  BY DEF IInv, NoSeedOverrun
<1>5. ChildInv(c)'
  BY <1>1, TableFacts DEF IInv, ChildInv, CtlInv, BeforeInv, WithinInv, InRow, OrderLabels, LineLabels
<1> QED  BY <1>2, <1>3, <1>4, <1>5, StepOfOne

\* Appending a row keeps the files well typed.
LEMMA WriteRowType ==
  ASSUME TypeOK, NEW c \in Children, NEW t \in Tables,
         NEW r \in SaleRows \union ReturnRows \union AddressRows, WriteRow(c, t, r)
  PROVE  file' \in [Children -> [Tables -> Seq(SaleRows \union ReturnRows \union AddressRows)]]
<1> DEFINE Rows == SaleRows \union ReturnRows \union AddressRows
<1>1. file \in [Children -> [Tables -> Seq(Rows)]] /\ r \in Rows
  BY DEF TypeOK
<1> HIDE DEF Rows
<1>2. Append(file[c][t], r) \in Seq(Rows)
  BY <1>1
<1>3. file' \in [Children -> [Tables -> Seq(Rows)]]
  BY <1>1, <1>2 DEF WriteRow
<1> QED  BY <1>3 DEF Rows

\* Printing a return keeps it.
LEMMA PrintReturnInv ==
  ASSUME IInv, NEW c \in Children, PrintReturn(c)
  PROVE  IInv'
<1> USE DEF PrintReturn, Goto, envVars, ctlVars, rngVars, dayVars, rowVars
<1>1. pc[c] = "print_return" /\ pc'[c] = "print_sale"
  BY DEF IInv, TypeOK
<1>2. TypeOK'
  <2>1. file' \in [Children -> [Tables -> Seq(SaleRows \union ReturnRows \union AddressRows)]]
    <3>1. TypeOK /\ "catalog_returns" \in Tables /\ return[c] \in ReturnRows
      BY DEF IInv, TypeOK, Tables
    <3> QED  BY <3>1, WriteRowType
  <2>2. pc' \in [Children -> Labels]
    BY DEF IInv, TypeOK, Labels, Printing
  <2> QED  BY <2>1, <2>2 DEF IInv, TypeOK
<1>3. \A d \in Children \ {c} : Frame(d)
  BY DEF Frame, IInv, TypeOK
<1>4. \A s \in Streams \ {"CS_PERMUTE"} : used'[c][s] <= Budget[s]
  BY DEF IInv, NoSeedOverrun
<1>5. ChildInv(c)'
  <2>1. Table(c)' = Table(c) /\ \A s : Aligned(c, s)' <=> Aligned(c, s)
    BY DEF Table, Aligned
  <2> QED  BY <1>1, <2>1 DEF IInv, ChildInv, CtlInv, BeforeInv, WithinInv, First, Count, InRow, OrderLabels, LineLabels
<1> QED  BY <1>2, <1>3, <1>4, <1>5, StepOfOne

\* Printing an address keeps it.
LEMMA PrintAddressInv ==
  ASSUME IInv, NEW c \in Children, PrintAddress(c)
  PROVE  IInv'
<1> USE DEF PrintAddress, Goto, envVars, ctlVars, rngVars, dayVars, rowVars
<1>1. pc[c] = "print_address" /\ pc'[c] = "stop"
  BY DEF IInv, TypeOK
<1>2. TypeOK'
  <2>1. file' \in [Children -> [Tables -> Seq(SaleRows \union ReturnRows \union AddressRows)]]
    <3>1. TypeOK /\ "customer_address" \in Tables /\ address[c] \in AddressRows
      BY DEF IInv, TypeOK, Tables
    <3> QED  BY <3>1, WriteRowType
  <2>2. pc' \in [Children -> Labels]
    BY DEF IInv, TypeOK, Labels
  <2> QED  BY <2>1, <2>2 DEF IInv, TypeOK
<1>3. \A d \in Children \ {c} : Frame(d)
  BY DEF Frame, IInv, TypeOK
<1>4. \A s \in Streams \ {"CS_PERMUTE"} : used'[c][s] <= Budget[s]
  BY DEF IInv, NoSeedOverrun
<1>5. ChildInv(c)'
  <2>1. Table(c)' = Table(c) /\ \A s : Aligned(c, s)' <=> Aligned(c, s)
    BY DEF Table, Aligned
  <2> QED  BY <1>1, <2>1 DEF IInv, ChildInv, CtlInv, BeforeInv, WithinInv, First, Count, InRow, OrderLabels, LineLabels
<1> QED  BY <1>2, <1>3, <1>4, <1>5, StepOfOne

\* Printing a sale keeps it, and so does going on to the next line.
LEMMA PrintSaleInv ==
  ASSUME IInv, NEW c \in Children, PrintSale(c)
  PROVE  IInv'
<1> USE DEF PrintSale, Goto, envVars, rngVars, dayVars, rowVars
<1>1. /\ pc[c] = "print_sale"
      /\ \/ pc'[c] = "detail" /\ line[c] < lines[c] /\ line'[c] = line[c] + 1
         \/ pc'[c] = "stop" /\ line'[c] = line[c]
  BY DEF IInv, TypeOK
<1>2. TypeOK'
  <2>1. file' \in [Children -> [Tables -> Seq(SaleRows \union ReturnRows \union AddressRows)]]
    <3>1. TypeOK /\ "catalog_sales" \in Tables /\ sale[c] \in SaleRows
      BY DEF IInv, TypeOK, Tables
    <3> QED  BY <3>1, WriteRowType
  <2>2. pc' \in [Children -> Labels]
    BY DEF IInv, TypeOK, Labels
  <2>3. line' \in [Children -> 1 .. MaxLines]
    <3>1. line[c] \in 1 .. MaxLines /\ lines[c] \in 0 .. MaxLines
      BY DEF IInv, TypeOK
    <3>2. line[c] < lines[c] => line[c] + 1 \in 1 .. MaxLines
      BY <3>1, DsdgenAssumption
    <3> QED  BY <3>2 DEF IInv, TypeOK
  <2> QED  BY <2>1, <2>2, <2>3 DEF IInv, TypeOK
<1>3. \A d \in Children \ {c} : Frame(d)
  BY DEF Frame, IInv, TypeOK
<1>4. \A s \in Streams \ {"CS_PERMUTE"} : used'[c][s] <= Budget[s]
  BY DEF IInv, NoSeedOverrun
<1>5. ChildInv(c)'
  <2>1. Table(c)' = Table(c) /\ \A s : Aligned(c, s)' <=> Aligned(c, s)
    BY DEF Table, Aligned
  <2>2. line[c] \in Nat /\ lines[c] \in Nat /\ line[c] + 1 - 1 = line[c]
    <3>1. line[c] \in 1 .. MaxLines /\ lines[c] \in 0 .. MaxLines
      BY DEF IInv, TypeOK
    <3> QED  BY <3>1, DsdgenAssumption
  <2> QED  BY <1>1, <2>1, <2>2 DEF IInv, ChildInv, CtlInv, BeforeInv, WithinInv, First, Count, InRow, OrderLabels, LineLabels
<1> QED  BY <1>2, <1>3, <1>4, <1>5, StepOfOne

\* A day has orders.
LEMMA DaysNotEmpty ==
  ASSUME NEW d \in Nat
  PROVE  DateScaling(d) \in Nat \ {0}
<1>1. d % YearDays \in 0 .. YearDays - 1
  BY DsdgenAssumption, DivMod
<1> QED  BY <1>1, DsdgenAssumption DEF DateScaling

\* The beginning of mk_master keeps it.
LEMMA BeginOrderInv ==
  ASSUME IInv, NEW c \in Children, BeginOrder(c)
  PROVE  IInv'
<1> USE DEF BeginOrder, Goto, envVars, ctlVars, rngVars, rowVars, outVars
<1>1. /\ pc[c] = "row" /\ left[c] > 0 /\ tab[c] = 2 /\ Table(c) = "catalog_sales"
      /\ \/ pc'[c] = "date"
         \/ pc'[c] = "skip_days" /\ dayIndex'[c] = 1
  <2>1. TypeOK /\ tab[c] \in {2, 3}
    BY DEF IInv, ChildInv, CtlInv
  <2>2. tab[c] = 2
    BY <2>1, TableFacts
  <2> QED  BY <2>2 DEF IInv, TypeOK, dayVars
<1>2. TypeOK'
  <2>1. pc' \in [Children -> Labels]
    BY ZenonT(40) DEF IInv, TypeOK, Labels
  <2>2. /\ jDate' \in [Children -> Nat] /\ newDate' \in [Children -> Nat]
        /\ dayIndex' \in [Children -> Nat]
    <3>1. CASE started[c]
      BY <3>1 DEF IInv, TypeOK, dayVars
    <3>2. CASE ~ started[c]
      <4>1. DateScaling(0) + 1 \in Nat
        BY DaysNotEmpty
      <4>2. /\ jDate' = [jDate EXCEPT ![c] = 0]
            /\ newDate' = [newDate EXCEPT ![c] = DateScaling(0) + 1]
            /\ dayIndex' = [dayIndex EXCEPT ![c] = 1]
        BY <3>2
      <4> QED  BY <4>1, <4>2 DEF IInv, TypeOK
    <3> QED  BY <3>1, <3>2
  <2> QED  BY <2>1, <2>2 DEF IInv, TypeOK
<1>3. \A d \in Children \ {c} : Frame(d)
  <2>1. CASE started[c]
    BY <2>1 DEF Frame, IInv, TypeOK, dayVars
  <2>2. CASE ~ started[c]
    BY <2>2 DEF Frame, IInv, TypeOK
  <2> QED  BY <2>1, <2>2
<1>4. \A s \in Streams \ {"CS_PERMUTE"} : used'[c][s] <= Budget[s]
  BY DEF IInv, NoSeedOverrun
<1>5. ChildInv(c)'
  <2>1. Table(c)' = Table(c) /\ \A s : Aligned(c, s)' <=> Aligned(c, s)
    BY DEF Table, Aligned
  <2> QED  BY <1>1, <2>1, TableFacts DEF IInv, ChildInv, CtlInv, BeforeInv, WithinInv, RowStreams, First, Count, InRow, OrderLabels, LineLabels
<1> QED  BY <1>2, <1>3, <1>4, <1>5, StepOfOne

\* A turn of skipDays' loop keeps it.
LEMMA SkipDayInv ==
  ASSUME IInv, NEW c \in Children, SkipDay(c)
  PROVE  IInv'
<1> USE DEF SkipDay, envVars, ctlVars, rngVars, rowVars, outVars
<1>1. pc'[c] = "skip_days" /\ pc[c] = "skip_days" /\ jDate'[c] > 0
  BY DEF IInv, TypeOK
<1>2. TypeOK'
  <2>1. DateScaling(jDate[c]) \in Nat /\ dayIndex[c] \in Nat /\ jDate[c] \in Nat
    BY DaysNotEmpty DEF IInv, TypeOK
  <2>2. jDate' \in [Children -> Nat] /\ dayIndex' \in [Children -> Nat]
    BY <2>1, SMTT(30) DEF IInv, TypeOK
  <2>3. newDate' \in [Children -> Nat]
    BY <2>2 DEF IInv, TypeOK
  <2> QED  BY <2>2, <2>3 DEF IInv, TypeOK
<1>3. \A d \in Children \ {c} : Frame(d)
  BY DEF Frame, IInv, TypeOK
<1>4. \A s \in Streams \ {"CS_PERMUTE"} : used'[c][s] <= Budget[s]
  BY DEF IInv, NoSeedOverrun
<1>5. ChildInv(c)'
  <2>1. Table(c)' = Table(c) /\ \A s : Aligned(c, s)' <=> Aligned(c, s)
    BY DEF Table, Aligned
  <2> QED  BY <1>1, <2>1, TableFacts DEF IInv, ChildInv, CtlInv, BeforeInv, WithinInv, RowStreams, First, Count, InRow, OrderLabels, LineLabels
<1> QED  BY <1>2, <1>3, <1>4, <1>5, StepOfOne

\* A turn of mk_master's loop over the days keeps it.
LEMMA NewDateInv ==
  ASSUME IInv, NEW c \in Children, NewDate(c)
  PROVE  IInv'
<1> USE DEF NewDate, envVars, ctlVars, rngVars, rowVars, outVars
<1>1. pc'[c] = "date" /\ pc[c] = "date"
  BY DEF IInv, TypeOK
<1>2. TypeOK'
  <2>1. DateScaling(jDate[c] + 1) \in Nat /\ newDate[c] \in Nat /\ jDate[c] \in Nat
    BY DaysNotEmpty DEF IInv, TypeOK
  <2>2. jDate' \in [Children -> Nat] /\ newDate' \in [Children -> Nat]
    BY <2>1, SMTT(30) DEF IInv, TypeOK
  <2> QED  BY <2>2 DEF IInv, TypeOK
<1>3. \A d \in Children \ {c} : Frame(d)
  BY DEF Frame, IInv, TypeOK
<1>4. \A s \in Streams \ {"CS_PERMUTE"} : used'[c][s] <= Budget[s]
  BY DEF IInv, NoSeedOverrun
<1>5. ChildInv(c)'
  <2>1. Table(c)' = Table(c) /\ \A s : Aligned(c, s)' <=> Aligned(c, s)
    BY DEF Table, Aligned
  <2> QED  BY <1>1, <2>1, TableFacts DEF IInv, ChildInv, CtlInv, BeforeInv, WithinInv, RowStreams, First, Count, InRow, OrderLabels, LineLabels
<1> QED  BY <1>2, <1>3, <1>4, <1>5, StepOfOne

-----------------------------------------------------------------------------
(***************************************************************************)
(* The builders: every draw advances a stream's position and its count     *)
(* alike, which is what keeps row_stop's correction exact.                 *)
(***************************************************************************)
Drawn(draws, s) == IF s \in DOMAIN draws THEN draws[s] ELSE 0

\* What Draw does to position and use of each stream of the child.
LEMMA DrawFacts ==
  ASSUME TypeOK, NEW c \in Children, NEW draws, Draw(c, draws),
         \A s \in Streams : Drawn(draws, s) \in Nat
  PROVE  /\ pos' \in [Children -> [Streams -> Nat]]
         /\ used' \in [Children -> [Streams -> Nat]]
         /\ \A d \in Children \ {c} : pos'[d] = pos[d] /\ used'[d] = used[d]
         /\ \A s \in Streams : /\ used'[c][s] = used[c][s] + Drawn(draws, s)
                               /\ pos'[c][s] = pos[c][s] + Drawn(draws, s)
         /\ \A s \in Streams : row'[c] = row[c] /\ Aligned(c, s) => Aligned(c, s)'
<1> DEFINE p == [s \in Streams |-> pos[c][s] + Drawn(draws, s)]
           u == [s \in Streams |-> used[c][s] + Drawn(draws, s)]
<1>1. /\ pos \in [Children -> [Streams -> Nat]] /\ used \in [Children -> [Streams -> Nat]]
      /\ row[c] \in Nat \ {0}
  BY DEF TypeOK
<1>2. pos' = [pos EXCEPT ![c] = p] /\ used' = [used EXCEPT ![c] = u]
  BY DEF Draw, Drawn
<1>3. p \in [Streams -> Nat] /\ u \in [Streams -> Nat]
  BY <1>1
<1>4. pos'[c] = p /\ used'[c] = u
  BY <1>1, <1>2
<1>5. ASSUME NEW s \in Streams, row'[c] = row[c], Aligned(c, s) PROVE Aligned(c, s)'
  <2>1. Budget[s] \in Nat /\ Budget[s]' = Budget[s]
    BY BudgetFacts DEF Budget
  <2>2. (row[c] - 1) * Budget[s] \in Nat
    BY <1>1, <2>1, NextRow
  <2>3. pos'[c][s] = pos[c][s] + Drawn(draws, s) /\ used'[c][s] = used[c][s] + Drawn(draws, s)
    BY <1>4
  <2>4. pos[c][s] = (row[c] - 1) * Budget[s] + used[c][s]
    BY <1>5 DEF Aligned
  <2>5. used[c][s] \in Nat /\ Drawn(draws, s) \in Nat
    BY <1>1
  <2>6. pos'[c][s] = (row[c] - 1) * Budget[s] + used'[c][s]
    BY <2>2, <2>3, <2>4, <2>5
  <2> QED  BY <1>5, <2>1, <2>6 DEF Aligned
<1> HIDE DEF p, u
<1>6. /\ pos' \in [Children -> [Streams -> Nat]] /\ used' \in [Children -> [Streams -> Nat]]
      /\ \A d \in Children \ {c} : pos'[d] = pos[d] /\ used'[d] = used[d]
  BY <1>1, <1>2, <1>3
<1> QED  BY <1>4, <1>5, <1>6 DEF p, u

\* The end of skipDays and the draw of the permutation keep it.
LEMMA EndSkipDaysInv ==
  ASSUME IInv, NEW c \in Children, EndSkipDays(c)
  PROVE  IInv'
<1> DEFINE draws == [CS_PERMUTE |-> ItemCount]
<1> USE DEF EndSkipDays, Goto, envVars, ctlVars, outVars
<1>1. /\ pc[c] = "skip_days" /\ pc'[c] = "date" /\ tab[c] = 2 /\ Table(c) = "catalog_sales"
  <2>1. TypeOK /\ tab[c] = 2
    BY DEF IInv, ChildInv, CtlInv, OrderLabels
  <2> QED  BY <2>1, TableFacts DEF TypeOK
<1>2. TypeOK /\ Draw(c, draws) /\ row' = row
  BY DEF IInv
<1>3. \A s \in Streams : Drawn(draws, s) \in Nat /\ (s # "CS_PERMUTE" => Drawn(draws, s) = 0)
  BY DsdgenAssumption DEF Drawn
<1> HIDE DEF draws
<1>4. /\ pos' \in [Children -> [Streams -> Nat]]
      /\ used' \in [Children -> [Streams -> Nat]]
      /\ \A d \in Children \ {c} : pos'[d] = pos[d] /\ used'[d] = used[d]
      /\ \A s \in Streams : used'[c][s] = used[c][s] + Drawn(draws, s)
      /\ \A s \in Streams : Aligned(c, s) => Aligned(c, s)'
      /\ \A s \in Streams \ {"CS_PERMUTE"} : used'[c][s] = used[c][s] /\ pos'[c][s] = pos[c][s]
  <2>1. \A s \in Streams : used[c][s] \in Nat /\ pos[c][s] \in Nat
    BY <1>2 DEF TypeOK
  <2> QED  BY <1>2, <1>3, <2>1, DrawFacts
<1>5. TypeOK'
  <2>1. jDate' \in [Children -> Nat]
    <3>1. jDate[c] \in Nat /\ First(c, "catalog_sales") \in Int /\ dayIndex[c] \in Nat
      BY <1>2, FirstRowPositive DEF TypeOK
    <3>2. dayIndex[c] > First(c, "catalog_sales") => jDate[c] - 1 \in Nat
      BY <1>1, <3>1, FirstRowPositive DEF IInv, ChildInv, CtlInv
    <3> QED  BY <1>2, <3>2 DEF TypeOK
  <2>2. pc' \in [Children -> Labels] /\ started' \in [Children -> BOOLEAN]
    BY <1>2 DEF TypeOK, Labels
  <2>3. perm' \in [Children -> Nat]
    <3>1. pos[c]["CS_PERMUTE"] \in Nat
      BY <1>2, StreamFacts DEF TypeOK
    <3> QED  BY <1>2, <3>1 DEF TypeOK
  <2> QED  BY <1>2, <1>4, <2>1, <2>2, <2>3 DEF TypeOK
<1>6. \A d \in Children \ {c} : Frame(d)
  BY <1>2, <1>4 DEF Frame, TypeOK
<1>7. \A s \in Streams \ {"CS_PERMUTE"} : used'[c][s] <= Budget[s]
  BY <1>4 DEF IInv, NoSeedOverrun
<1>8. ChildInv(c)'
  <2>1. Table(c)' = Table(c)
    BY DEF Table
  <2>2. CtlInv(c)'
    BY <1>1, <2>1 DEF IInv, ChildInv, CtlInv, InRow, OrderLabels, LineLabels, First, Count
  <2>3. BeforeInv(c)'
    BY <1>1, <1>4, StreamFacts DEF IInv, ChildInv, BeforeInv, AddressStreams
  <2>4. WithinInv(c)'
    BY <1>1, <1>4, <2>1, StreamFacts DEF IInv, ChildInv, WithinInv, RowStreams, InRow,
       OrderLabels, LineLabels
  <2> QED  BY <2>2, <2>3, <2>4 DEF ChildInv
<1> QED  BY <1>5, <1>6, <1>7, <1>8, StepOfOne

\* The row under construction is a row of its table.
LEMMA RowInTable ==
  ASSUME FitsInt, IInv, NEW c \in Children, left[c] > 0, pc[c] \in InRow \union {"row"}
  PROVE  row[c] \in 1 .. TotalRows[Table(c)]
<1>1. TypeOK /\ row[c] \in Nat \ {0} /\ left[c] \in Nat
  BY DEF IInv, TypeOK
<1>2. Table(c) \in {"catalog_sales", "customer_address"}
  BY <1>1, TableFacts DEF IInv, ChildInv, CtlInv
<1>3. row[c] + left[c] = First(c, Table(c)) + Count(c, Table(c))
  BY DEF IInv, ChildInv, CtlInv
<1>4. /\ First(c, Table(c)) \in Nat /\ Count(c, Table(c)) \in Nat
      /\ First(c, Table(c)) + Count(c, Table(c)) - 1 <= TotalRows[Table(c)]
      /\ TotalRows[Table(c)] \in Nat
  BY <1>2, ChunkFacts, DsdgenAssumption
<1> QED  BY <1>1, <1>3, <1>4

\* mk_w_customer_address keeps it: the row uses its budgets up.
LEMMA BuildAddressInv ==
  ASSUME IInv, NEW c \in Children, BuildAddress(c)
  PROVE  IInv'
<1> DEFINE draws == [CA_NULLS |-> 2, CA_ADDRESS |-> 7]
<1> USE DEF BuildAddress, Goto, envVars, ctlVars, dayVars, outVars
<1>1. /\ pc[c] = "row" /\ pc'[c] = "print_address" /\ tab[c] = 3 /\ left[c] > 0
      /\ Table(c) = "customer_address"
  <2>1. TypeOK /\ tab[c] \in {2, 3}
    BY DEF IInv, ChildInv, CtlInv
  <2> QED  BY <2>1, TableFacts DEF TypeOK
<1>2. TypeOK /\ Draw(c, draws) /\ row' = row
  BY DEF IInv
<1>3. /\ \A s \in Streams : Drawn(draws, s) \in Nat
      /\ \A s \in Streams \ AddressStreams : Drawn(draws, s) = 0
      /\ \A s \in AddressStreams : Drawn(draws, s) = Budget[s]
  BY DEF Drawn, AddressStreams, Budget
<1> HIDE DEF draws
<1>4. /\ pos' \in [Children -> [Streams -> Nat]]
      /\ used' \in [Children -> [Streams -> Nat]]
      /\ \A d \in Children \ {c} : pos'[d] = pos[d] /\ used'[d] = used[d]
      /\ \A s \in Streams : used'[c][s] = used[c][s] + Drawn(draws, s)
      /\ \A s \in Streams : Aligned(c, s) => Aligned(c, s)'
  BY <1>2, <1>3, DrawFacts
<1>5. TypeOK'
  <2>1. pc' \in [Children -> Labels]
    BY <1>2 DEF TypeOK, Labels, Printing
  <2>2. address' \in [Children -> AddressRows]
    <3>1. row[c] \in Nat /\ pos[c] \in [Streams -> Nat]
      BY <1>2 DEF TypeOK
    <3>2. "CA_ADDRESS" \in Streams /\ "CA_NULLS" \in Streams
      BY StreamFacts
    <3>3. [row |-> row[c], place |-> pos[c]["CA_ADDRESS"], nulls |-> pos[c]["CA_NULLS"]]
            \in AddressRows
      BY <3>1, <3>2 DEF AddressRows
    <3> QED  BY <1>2, <3>3 DEF TypeOK
  <2> QED  BY <1>2, <1>4, <2>1, <2>2 DEF TypeOK
<1>6. \A d \in Children \ {c} : Frame(d)
  BY <1>2, <1>4 DEF Frame, TypeOK
<1>7. /\ \A s \in AddressStreams : used[c][s] = 0 /\ Aligned(c, s)
      /\ \A s \in Streams \ {"CS_PERMUTE"} : used[c][s] \in Nat /\ used[c][s] <= Budget[s]
  BY <1>1, <1>2, SMTT(30) DEF IInv, ChildInv, WithinInv, RowStreams, NoSeedOverrun, TypeOK
<1>8. \A s \in Streams \ {"CS_PERMUTE"} : used'[c][s] <= Budget[s]
  BY <1>3, <1>4, <1>7, BudgetFacts
<1>9. ChildInv(c)'
  <2>1. Table(c)' = Table(c)
    BY DEF Table
  <2>2. CtlInv(c)'
    BY <1>1, <2>1 DEF IInv, ChildInv, CtlInv, InRow, OrderLabels, LineLabels, First, Count
  <2>3. BeforeInv(c)'
    BY <1>1 DEF BeforeInv
  <2>4. WithinInv(c)'
    BY <1>1, <1>4, <1>7, <2>1, StreamFacts DEF WithinInv, RowStreams, InRow, OrderLabels, LineLabels
  <2> QED  BY <2>2, <2>3, <2>4 DEF ChildInv
<1> QED  BY <1>5, <1>6, <1>8, <1>9, StepOfOne

\* The columns of the order, filled in.
LEMMA SaleHead ==
  ASSUME NEW f \in [Children -> SaleRows], NEW c \in Children,
         NEW o \in Nat, NEW d \in Nat, NEW s \in Nat
  PROVE  [f EXCEPT ![c].order = o, ![c].date = d, ![c].ship = s] \in [Children -> SaleRows]
<1>1. [f EXCEPT ![c].order = o, ![c].date = d] \in [Children -> SaleRows]
  BY DEF SaleRows
<1> QED  BY <1>1, ZenonT(40) DEF SaleRows

\* mk_master keeps it: the draws of the order's own columns.
LEMMA MkMasterInv ==
  ASSUME FitsInt, IInv, NEW c \in Children, MkMaster(c)
  PROVE  IInv'
<1> DEFINE gift == seed.gift[pos[c]["CS_SHIP_CUSTOMER_SK"]]
           draws == [CS_SHIP_CUSTOMER_SK |-> IF gift THEN 2 ELSE 1,
                     CS_SOLD_ITEM_SK |-> 1, CS_ORDER_NUMBER |-> 1]
<1> USE DEF MkMaster, Goto, envVars, dayVars, outVars
<1>1. /\ pc[c] = "date" /\ pc'[c] = "detail" /\ tab[c] = 2 /\ left[c] > 0
      /\ Table(c) = "catalog_sales"
  <2>1. TypeOK /\ tab[c] = 2 /\ left[c] > 0
    BY DEF IInv, ChildInv, CtlInv, OrderLabels, InRow
  <2> QED  BY <2>1, TableFacts DEF TypeOK
<1>2. TypeOK /\ Draw(c, draws) /\ row' = row
  BY DEF IInv
<1>3. \A s \in Streams : Drawn(draws, s) \in Nat
  BY DEF Drawn
<1>4. /\ \A s \in SalesStreams : Drawn(draws, s) <= DrawnBy(0)[s]
      /\ \A s \in Streams \ SalesStreams : Drawn(draws, s) = 0
  BY StreamFacts DEF Drawn, DrawnBy
<1> HIDE DEF draws
<1>5. /\ pos' \in [Children -> [Streams -> Nat]]
      /\ used' \in [Children -> [Streams -> Nat]]
      /\ \A d \in Children \ {c} : pos'[d] = pos[d] /\ used'[d] = used[d]
      /\ \A s \in Streams : used'[c][s] = used[c][s] + Drawn(draws, s)
      /\ \A s \in Streams : pos'[c][s] = pos[c][s] + Drawn(draws, s)
      /\ \A s \in Streams : Aligned(c, s) => Aligned(c, s)'
  BY <1>2, <1>3, DrawFacts
<1>6. \A s \in SalesStreams : used[c][s] = 0 /\ Aligned(c, s)
  BY <1>1 DEF IInv, ChildInv, WithinInv, RowStreams, InRow, OrderLabels
\* The order number's stream is at the row: the seed says how many lines.
<1>7. /\ seed.lines[pos[c]["CS_ORDER_NUMBER"]] \in MinLines .. MaxLines
      /\ seed.item[pos[c]["CS_SOLD_ITEM_SK"]] \in 1 .. ItemCount
  <2>1. row[c] \in 1 .. Orders
    BY <1>1, RowInTable DEF InRow, OrderLabels, Orders
  <2>2. pos[c]["CS_ORDER_NUMBER"] = row[c] - 1 /\ pos[c]["CS_SOLD_ITEM_SK"] = row[c] - 1
    BY <1>6, <2>1, StreamFacts, DsdgenAssumption, SMTT(30) DEF Aligned, Budget
  <2>3. row[c] - 1 \in 0 .. Orders - 1
    BY <2>1, DsdgenAssumption, SMTT(30) DEF Orders
  <2>4. seed \in Seeds
    BY <1>2 DEF TypeOK
  <2> QED  BY <2>2, <2>3, <2>4, SeedsAssumption
<1>8. lines[c]' \in 1 .. MaxLines /\ line[c]' = 1 /\ 1 \in 1 .. MaxLines
  <2>1. seed.lines[pos[c]["CS_ORDER_NUMBER"]] \in 1 .. MaxLines /\ 1 \in 1 .. MaxLines
    BY <1>7, DsdgenAssumption, SMTT(30)
  <2> QED  BY <1>2, <2>1 DEF TypeOK
<1>9. TypeOK'
  <2>1. pc' \in [Children -> Labels]
    BY <1>2 DEF TypeOK, Labels
  <2>2. item' \in [Children -> 1 .. ItemCount]
    BY <1>2, <1>7 DEF TypeOK
  <2>3. lines' \in [Children -> 0 .. MaxLines] /\ line' \in [Children -> 1 .. MaxLines]
    <3>1. seed.lines[pos[c]["CS_ORDER_NUMBER"]] \in 0 .. MaxLines /\ 1 \in 1 .. MaxLines
      BY <1>7, DsdgenAssumption, SMTT(30)
    <3> QED  BY <1>2, <3>1 DEF TypeOK
  <2>4. sale' \in [Children -> SaleRows]
    <3> DEFINE ship == IF gift THEN pos[c]["CS_SHIP_CUSTOMER_SK"] + 1 ELSE 0
    <3>1. row[c] \in Nat /\ jDate[c] \in Nat /\ pos[c] \in [Streams -> Nat]
          /\ sale \in [Children -> SaleRows]
      BY <1>2 DEF TypeOK
    <3>2. "CS_SHIP_CUSTOMER_SK" \in Streams
      BY StreamFacts
    <3>3. ship \in Nat
      BY <3>1, <3>2
    <3>4. sale' = [sale EXCEPT ![c].order = row[c], ![c].date = jDate[c], ![c].ship = ship]
      OBVIOUS
    <3> HIDE DEF ship, MkMaster
    <3>5. [sale EXCEPT ![c].order = row[c], ![c].date = jDate[c], ![c].ship = ship]
            \in [Children -> SaleRows]
      BY <3>1, <3>3, SaleHead
    <3> QED  BY <3>4, <3>5
  <2> QED  BY <1>2, <1>5, <2>1, <2>2, <2>3, <2>4 DEF TypeOK
<1>10. \A d \in Children \ {c} : Frame(d)
  BY <1>2, <1>5 DEF Frame, TypeOK
<1>11. \A s \in SalesStreams : used'[c][s] <= DrawnBy(0)[s]
  BY <1>3, <1>4, <1>5, <1>6, StreamFacts
<1>12. \A s \in Streams \ {"CS_PERMUTE"} : used'[c][s] <= Budget[s]
  <2>1. 0 \in 0 .. MaxLines
    BY DsdgenAssumption
  <2>2. \A s \in SalesStreams : used'[c][s] <= Budget[s]
    BY <1>3, <1>5, <1>6, <1>11, <2>1, BudgetFacts, StreamFacts
  <2>3. \A s \in Streams \ SalesStreams : used'[c][s] = used[c][s]
    BY <1>2, <1>4, <1>5 DEF TypeOK
  <2> QED  BY <2>2, <2>3 DEF IInv, NoSeedOverrun
<1>13. ChildInv(c)'
  <2>1. Table(c)' = Table(c)
    BY DEF Table
  <2>2. CtlInv(c)'
    BY <1>1, <1>8, <2>1 DEF IInv, ChildInv, CtlInv, InRow, OrderLabels, LineLabels, First, Count
  <2>3. BeforeInv(c)'
    <3>1. \A s \in AddressStreams : used'[c][s] = used[c][s] /\ pos'[c][s] = pos[c][s]
      <4>1. \A s \in AddressStreams : s \in Streams \ SalesStreams
        BY StreamFacts DEF AddressStreams
      <4>2. \A s \in Streams : used[c][s] \in Nat /\ pos[c][s] \in Nat
        BY <1>2 DEF TypeOK
      <4> QED  BY <1>4, <1>5, <4>1, <4>2
    <3> QED  BY <1>1, <3>1 DEF IInv, ChildInv, BeforeInv, AddressStreams
  <2>4. WithinInv(c)'
    <3>1. pc'[c] = "detail" /\ line[c]' - 1 = 0 /\ RowStreams(Table(c))' = SalesStreams
      BY <1>1, <1>8, <2>1 DEF RowStreams
    <3> QED  BY <1>5, <1>6, <1>11, <3>1, StreamFacts DEF WithinInv, InRow, OrderLabels, LineLabels
  <2> QED  BY <2>2, <2>3, <2>4 DEF ChildInv
<1> QED  BY <1>9, <1>10, <1>12, <1>13, StepOfOne

\* A line takes from each stream at most what one more line may.
LEMMA LineBuilt ==
  ASSUME IInv, NEW c \in Children, pc[c] = "detail",
         NEW draws, Draw(c, draws), UNCHANGED ctlVars,
         \A s \in Streams : Drawn(draws, s) \in Nat,
         \A s \in Streams \ SalesStreams : Drawn(draws, s) = 0,
         \A s \in SalesStreams : \A k \in Nat : DrawnBy(k)[s] + Drawn(draws, s) <= DrawnBy(k + 1)[s],
         pc'[c] \in {"print_sale", "print_return"}
  PROVE  /\ ChildInv(c)'
         /\ \A s \in Streams \ {"CS_PERMUTE"} : used'[c][s] <= Budget[s]
         /\ pos' \in [Children -> [Streams -> Nat]] /\ used' \in [Children -> [Streams -> Nat]]
         /\ \A d \in Children \ {c} : pos'[d] = pos[d] /\ used'[d] = used[d]
<1>1. TypeOK /\ tab[c] = 2 /\ line[c] <= lines[c] /\ UNCHANGED <<tab, row, left, line, lines>>
  BY DEF IInv, ChildInv, CtlInv, OrderLabels, LineLabels, ctlVars
<1>2. Table(c) = "catalog_sales" /\ Table(c)' = Table(c)
  BY <1>1, TableFacts DEF Table
<1>3. /\ pos' \in [Children -> [Streams -> Nat]] /\ used' \in [Children -> [Streams -> Nat]]
      /\ \A d \in Children \ {c} : pos'[d] = pos[d] /\ used'[d] = used[d]
      /\ \A s \in Streams : used'[c][s] = used[c][s] + Drawn(draws, s)
      /\ \A s \in Streams : pos'[c][s] = pos[c][s] + Drawn(draws, s)
      /\ \A s \in Streams : Aligned(c, s) => Aligned(c, s)'
  BY <1>1, DrawFacts
<1>4. \A s \in SalesStreams : Aligned(c, s) /\ used[c][s] <= DrawnBy(line[c] - 1)[s]
  BY <1>2 DEF IInv, ChildInv, WithinInv, InRow, OrderLabels, LineLabels, RowStreams
<1>5. line[c] - 1 \in Nat /\ line[c] - 1 + 1 = line[c] /\ line[c] - 1 \in 0 .. MaxLines
      /\ line[c] \in 0 .. MaxLines
  <2>1. line[c] \in 1 .. MaxLines
    BY <1>1 DEF TypeOK
  <2> QED  BY <2>1, DsdgenAssumption
<1>6. \A s \in Streams : used[c][s] \in Nat /\ pos[c][s] \in Nat
  BY <1>1 DEF TypeOK
<1>7. \A s \in SalesStreams : used'[c][s] <= DrawnBy(line[c])[s]
  <2> SUFFICES ASSUME NEW s \in SalesStreams PROVE used'[c][s] <= DrawnBy(line[c])[s]
    OBVIOUS
  <2>1. DrawnBy(line[c] - 1)[s] \in Nat /\ DrawnBy(line[c])[s] \in Nat
    BY <1>5, BudgetFacts
  <2>2. DrawnBy(line[c] - 1)[s] + Drawn(draws, s) <= DrawnBy(line[c])[s]
    BY <1>5
  <2>3. used'[c][s] = used[c][s] + Drawn(draws, s) /\ used[c][s] \in Nat
        /\ Drawn(draws, s) \in Nat /\ used[c][s] <= DrawnBy(line[c] - 1)[s]
    BY <1>3, <1>4, <1>6, StreamFacts
  <2> QED  BY <2>1, <2>2, <2>3
<1>8. \A s \in Streams \ {"CS_PERMUTE"} : used'[c][s] <= Budget[s]
  <2>1. ASSUME NEW s \in SalesStreams PROVE used'[c][s] <= Budget[s]
    <3>1. DrawnBy(line[c])[s] \in Nat /\ DrawnBy(line[c])[s] <= Budget[s] /\ Budget[s] \in Nat
      BY <1>5, BudgetFacts, StreamFacts
    <3>2. used'[c][s] \in Nat
      BY <1>3, StreamFacts, SMTT(30)
    <3> QED  BY <1>7, <3>1, <3>2
  <2>2. \A s \in Streams \ SalesStreams : used'[c][s] = used[c][s]
    BY <1>3, <1>6
  <2> QED  BY <2>1, <2>2 DEF IInv, NoSeedOverrun
<1>9. ChildInv(c)'
  <2>1. CtlInv(c)'
    <3>1. left[c] > 0 /\ row[c] + left[c] = First(c, Table(c)) + Count(c, Table(c))
      BY DEF IInv, ChildInv, CtlInv, InRow, OrderLabels
    <3> QED  BY <1>1, <1>2, <3>1 DEF CtlInv, InRow, OrderLabels, LineLabels, First, Count
  <2>2. BeforeInv(c)'
    <3>1. \A s \in AddressStreams : used'[c][s] = used[c][s] /\ pos'[c][s] = pos[c][s]
      <4>1. \A s \in AddressStreams : s \in Streams \ SalesStreams
        BY StreamFacts DEF AddressStreams
      <4> QED  BY <1>3, <1>6, <4>1
    <3> QED  BY <1>1, <3>1 DEF IInv, ChildInv, BeforeInv, AddressStreams
  <2>3. WithinInv(c)'
    <3>1. RowStreams(Table(c))' = SalesStreams
      BY <1>2 DEF RowStreams
    <3> QED  BY <1>1, <1>3, <1>4, <1>7, <3>1, StreamFacts DEF WithinInv, InRow, OrderLabels, LineLabels
  <2> QED  BY <2>1, <2>2, <2>3 DEF ChildInv
<1> QED  BY <1>3, <1>8, <1>9

\* The next item is one of the items.
LEMMA NextItemType ==
  ASSUME NEW i \in 1 .. ItemCount
  PROVE  NextItem(i) \in 1 .. ItemCount
BY DsdgenAssumption DEF NextItem

\* SoldLine is a row of catalog_sales.
LEMMA SoldLineType ==
  ASSUME TypeOK, NEW c \in Children
  PROVE  NextItem(item[c]) \in 1 .. ItemCount /\ SoldLine(c) \in SaleRows
<1> DEFINE i == NextItem(item[c])
           g == pos[c]["CS_SHIP_DATE_SK"]
           n == pos[c]["CS_NULLS"]
<1>1. /\ line[c] \in 1 .. MaxLines /\ perm[c] \in Nat /\ pos[c] \in [Streams -> Nat]
      /\ sale[c] \in SaleRows /\ item[c] \in 1 .. ItemCount
  BY DEF TypeOK
<1>2. i \in 1 .. ItemCount /\ i \in Nat
  BY <1>1, NextItemType, DsdgenAssumption, SMTT(30)
<1>3. line[c] \in Nat
  BY <1>1, DsdgenAssumption
<1>4. g \in Nat /\ n \in Nat
  BY <1>1, StreamFacts
<1>5. SoldLine(c) = [sale[c] EXCEPT !.line = line[c], !.perm = perm[c], !.item = i,
                                    !.lag = g, !.nulls = n]
  BY DEF SoldLine
<1> HIDE DEF i, g, n
<1>6. SoldLine(c) \in SaleRows
  BY <1>1, <1>2, <1>3, <1>4, <1>5 DEF SaleRows
<1> QED  BY <1>2, <1>6 DEF i

\* mk_detail of a line that stays keeps it.
LEMMA MkDetailInv ==
  ASSUME IInv, NEW c \in Children, MkDetail(c)
  PROVE  IInv'
<1> DEFINE draws == [CS_NULLS |-> 2, CS_SHIP_DATE_SK |-> 1, CR_IS_RETURNED |-> 1]
<1> USE DEF MkDetail, Goto, envVars, dayVars, outVars
<1>1. TypeOK /\ pc[c] = "detail" /\ pc' = [pc EXCEPT ![c] = "print_sale"]
      /\ Draw(c, draws) /\ UNCHANGED ctlVars
  BY DEF IInv
<1>2. /\ \A s \in Streams : Drawn(draws, s) \in Nat
      /\ \A s \in Streams \ SalesStreams : Drawn(draws, s) = 0
      /\ \A s \in SalesStreams : \A k \in Nat : DrawnBy(k)[s] + Drawn(draws, s) <= DrawnBy(k + 1)[s]
  BY StreamFacts DEF Drawn, DrawnBy
<1> HIDE DEF draws
<1>3. pc'[c] \in {"print_sale", "print_return"}
  BY <1>1 DEF TypeOK
<1>4. /\ ChildInv(c)'
      /\ \A s \in Streams \ {"CS_PERMUTE"} : used'[c][s] <= Budget[s]
      /\ pos' \in [Children -> [Streams -> Nat]] /\ used' \in [Children -> [Streams -> Nat]]
      /\ \A d \in Children \ {c} : pos'[d] = pos[d] /\ used'[d] = used[d]
  BY <1>1, <1>2, <1>3, LineBuilt
<1>5. TypeOK'
  <2>1. pc' \in [Children -> Labels]
    BY <1>1 DEF TypeOK, Labels, Printing
  <2>2. item' \in [Children -> 1 .. ItemCount]
    BY <1>1, SoldLineType DEF TypeOK
  <2>3. sale' \in [Children -> SaleRows]
    BY <1>1, SoldLineType DEF TypeOK
  <2> QED  BY <1>1, <1>4, <2>1, <2>2, <2>3 DEF TypeOK, ctlVars
<1>6. \A d \in Children \ {c} : Frame(d)
  BY <1>1, <1>4 DEF Frame, TypeOK, ctlVars
<1> QED  BY <1>4, <1>5, <1>6, StepOfOne

\* mk_detail of a line that is returned keeps it.
LEMMA MkDetailReturnedInv ==
  ASSUME IInv, NEW c \in Children, MkDetailReturned(c)
  PROVE  IInv'
<1> DEFINE draws == [CS_NULLS |-> 2, CS_SHIP_DATE_SK |-> 1, CR_IS_RETURNED |-> 1,
                     CR_NULLS |-> 2, CR_RETURNING_CUSTOMER_SK |-> 2]
           customer == pos[c]["CR_RETURNING_CUSTOMER_SK"]
<1> USE DEF MkDetailReturned, Goto, envVars, dayVars, outVars
<1>1. TypeOK /\ pc[c] = "detail" /\ pc' = [pc EXCEPT ![c] = "print_return"]
      /\ Draw(c, draws) /\ UNCHANGED ctlVars
  BY DEF IInv
<1>2. /\ \A s \in Streams : Drawn(draws, s) \in Nat
      /\ \A s \in Streams \ SalesStreams : Drawn(draws, s) = 0
      /\ \A s \in SalesStreams : \A k \in Nat : DrawnBy(k)[s] + Drawn(draws, s) <= DrawnBy(k + 1)[s]
  BY StreamFacts DEF Drawn, DrawnBy
<1> HIDE DEF draws
<1>3. pc'[c] \in {"print_sale", "print_return"}
  BY <1>1 DEF TypeOK
<1>4. /\ ChildInv(c)'
      /\ \A s \in Streams \ {"CS_PERMUTE"} : used'[c][s] <= Budget[s]
      /\ pos' \in [Children -> [Streams -> Nat]] /\ used' \in [Children -> [Streams -> Nat]]
      /\ \A d \in Children \ {c} : pos'[d] = pos[d] /\ used'[d] = used[d]
  BY <1>1, <1>2, <1>3, LineBuilt
<1>5. TypeOK'
  <2>1. pc' \in [Children -> Labels]
    BY <1>1 DEF TypeOK, Labels, Printing
  <2>2. item' \in [Children -> 1 .. ItemCount]
    BY <1>1, SoldLineType DEF TypeOK
  <2>3. sale' \in [Children -> SaleRows]
    BY <1>1, SoldLineType DEF TypeOK
  <2>4. return' \in [Children -> ReturnRows]
    <3> DEFINE buyer == IF seed.regift[customer + 1] THEN sale[c].ship ELSE customer
               ret == [order |-> sale[c].order, line |-> line[c], perm |-> perm[c],
                       item |-> NextItem(item[c]), customer |-> buyer,
                       nulls |-> pos[c]["CR_NULLS"]]
    <3>1. return' = [return EXCEPT ![c] = ret]
      OBVIOUS
    <3>2. customer \in Nat /\ pos[c]["CR_NULLS"] \in Nat
      <4>1. pos[c] \in [Streams -> Nat]
        BY <1>1 DEF TypeOK
      <4> QED  BY <4>1, StreamFacts
    <3>3. /\ sale[c].order \in Nat /\ sale[c].ship \in Nat /\ perm[c] \in Nat
          /\ line[c] \in 1 .. MaxLines /\ NextItem(item[c]) \in 1 .. ItemCount
      BY <1>1, SoldLineType DEF TypeOK, SaleRows
    <3>4. line[c] \in Nat /\ NextItem(item[c]) \in Nat
      BY <3>3, DsdgenAssumption
    <3>5. ret \in ReturnRows
      BY <3>2, <3>3, <3>4 DEF ReturnRows
    <3> QED  BY <1>1, <3>1, <3>5 DEF TypeOK
  <2> QED  BY <1>1, <1>4, <2>1, <2>2, <2>3, <2>4 DEF TypeOK, ctlVars
<1>6. \A d \in Children \ {c} : Frame(d)
  BY <1>1, <1>4 DEF Frame, TypeOK, ctlVars
<1> QED  BY <1>4, <1>5, <1>6, StepOfOne

-----------------------------------------------------------------------------
(***************************************************************************)
(* The jump to a chunk's first row and the correction after each row.      *)
(***************************************************************************)

\* n rows are skipped: the streams of t are where row n + 1 starts.
LEMMA SkipPosFacts ==
  ASSUME NEW p \in [Streams -> Nat], NEW t, NEW n \in Nat
  PROVE  /\ RowSkipPos(p, t, n) \in [Streams -> Nat]
         /\ \A s \in Streams :
              RowSkipPos(p, t, n)[s] = IF Skipped(s, t) THEN n * Budget[s] ELSE p[s]
<1>1. ASSUME NEW s \in Streams PROVE n * Budget[s] \in Nat /\ SkipRandom(n * Budget[s]) = n * Budget[s]
  <2>1. Budget[s] \in Nat
    BY BudgetFacts
  <2>2. n * Budget[s] \in Nat
    BY <2>1, Z3
  <2> QED  BY <2>2 DEF SkipRandom
<1> QED  BY <1>1 DEF RowSkipPos

\* row_skip clears the use of the streams it moves.
LEMMA SkipUsedFacts ==
  ASSUME NEW u \in [Streams -> Nat], NEW t
  PROVE  /\ RowSkipUsed(u, t) \in [Streams -> Nat]
         /\ \A s \in Streams : RowSkipUsed(u, t)[s] = IF Skipped(s, t) THEN 0 ELSE u[s]
BY DEF RowSkipUsed

\* The streams the calls of row_skip for the two tables reach.
LEMMA SkippedFacts ==
  /\ \A s \in Streams : Skipped(s, "catalog_sales") \/ Skipped(s, "catalog_returns")
                          <=> s \in SalesStreams \union {"CS_PERMUTE", "CA_ADDRESS"}
  /\ \A s \in Streams : Skipped(s, "customer_address") <=> s \in AddressStreams
BY StreamFacts DEF Skipped, StreamTable, DuplicateTargets, AddressStreams

\* The two calls of row_skip for a table and its child.
SkipFamilyPos(p, n) == RowSkipPos(RowSkipPos(p, "catalog_sales", n), "catalog_returns", n)
SkipFamilyUsed(u) == RowSkipUsed(RowSkipUsed(u, "catalog_sales"), "catalog_returns")

\* The two row_skips of a parent table move the streams of the whole family.
LEMMA SkipFamilyFacts ==
  ASSUME NEW p \in [Streams -> Nat], NEW u \in [Streams -> Nat], NEW n \in Nat
  PROVE  /\ SkipFamilyPos(p, n) \in [Streams -> Nat] /\ SkipFamilyUsed(u) \in [Streams -> Nat]
         /\ \A s \in SalesStreams \union {"CS_PERMUTE", "CA_ADDRESS"} :
              SkipFamilyPos(p, n)[s] = n * Budget[s] /\ SkipFamilyUsed(u)[s] = 0
         /\ \A s \in Streams \ (SalesStreams \union {"CS_PERMUTE", "CA_ADDRESS"}) :
              SkipFamilyPos(p, n)[s] = p[s] /\ SkipFamilyUsed(u)[s] = u[s]
<1> DEFINE p1 == RowSkipPos(p, "catalog_sales", n)
           u1 == RowSkipUsed(u, "catalog_sales")
           q == RowSkipPos(p1, "catalog_returns", n)
           v == RowSkipUsed(u1, "catalog_returns")
<1>1. /\ p1 \in [Streams -> Nat] /\ u1 \in [Streams -> Nat]
      /\ \A s \in Streams : p1[s] = IF Skipped(s, "catalog_sales") THEN n * Budget[s] ELSE p[s]
      /\ \A s \in Streams : u1[s] = IF Skipped(s, "catalog_sales") THEN 0 ELSE u[s]
  BY SkipPosFacts, SkipUsedFacts
<1> HIDE DEF p1, u1
<1>2. /\ q \in [Streams -> Nat] /\ v \in [Streams -> Nat]
      /\ \A s \in Streams : q[s] = IF Skipped(s, "catalog_returns") THEN n * Budget[s] ELSE p1[s]
      /\ \A s \in Streams : v[s] = IF Skipped(s, "catalog_returns") THEN 0 ELSE u1[s]
  BY <1>1, SkipPosFacts, SkipUsedFacts
<1> HIDE DEF q, v
<1>3. /\ \A s \in SalesStreams \union {"CS_PERMUTE", "CA_ADDRESS"} :
           s \in Streams /\ q[s] = n * Budget[s] /\ v[s] = 0
      /\ \A s \in Streams \ (SalesStreams \union {"CS_PERMUTE", "CA_ADDRESS"}) :
           q[s] = p[s] /\ v[s] = u[s]
  BY <1>1, <1>2, SkippedFacts, StreamFacts
<1>4. q = SkipFamilyPos(p, n) /\ v = SkipFamilyUsed(u)
  BY DEF q, v, p1, u1, SkipFamilyPos, SkipFamilyUsed
<1> QED  BY <1>2, <1>3, <1>4

\* The start of a table keeps it: split_work and row_skip agree with the
\* position the first row must have.
LEMMA StartTableInv ==
  ASSUME FitsInt, IInv, NEW c \in Children, StartTable(c)
  PROVE  IInv'
<1> DEFINE t == Table(c)
           m == First(c, t) - 1
           n == AsInt(m)
<1> USE DEF StartTable, Goto, envVars, dayVars, rowVars, outVars
<1>1. /\ TypeOK /\ pc[c] = "table" /\ pc'[c] = "row" /\ pc' = [pc EXCEPT ![c] = "row"]
      /\ row'[c] = First(c, t) /\ left'[c] = Count(c, t)
      /\ row' = [row EXCEPT ![c] = First(c, t)] /\ left' = [left EXCEPT ![c] = Count(c, t)]
  BY DEF IInv, TypeOK
<1>2. \/ tab[c] = 2 /\ t = "catalog_sales"
      \/ tab[c] = 3 /\ t = "customer_address"
  BY <1>1, DriverSize, TableFacts DEF IsChildTable
<1>3. /\ First(c, t) \in Nat \ {0} /\ Count(c, t) \in Nat
      /\ c = 1 => First(c, t) = 1
      /\ First(c, t) = 1 /\ Count(c, t) > 0 => c = 1
      /\ n = m /\ m \in Nat
  BY <1>2, ChunkFacts
<1>4. pos[c] \in [Streams -> Nat] /\ used[c] \in [Streams -> Nat]
  BY <1>1 DEF TypeOK
<1> HIDE DEF t, m, n
\* Where the streams of the table are, and what became of the others.
<1>5. /\ pos' = [pos EXCEPT ![c] = pos'[c]] /\ used' = [used EXCEPT ![c] = used'[c]]
      /\ pos'[c] \in [Streams -> Nat] /\ used'[c] \in [Streams -> Nat]
      /\ \A s \in Streams : used'[c][s] \in {0, used[c][s]}
      /\ tab[c] = 2 => /\ used'[c]["CS_PERMUTE"] = 0
                       /\ \A s \in AddressStreams : used'[c][s] = 0
                       /\ pos'[c]["CA_NULLS"] = 0
                       /\ c = 1 => pos'[c]["CA_ADDRESS"] = 0
      /\ \A s \in RowStreams(t) : /\ used'[c][s] = 0
                                  /\ Count(c, t) > 0 => pos'[c][s] = m * Budget[s]
  <2>1. CASE First(c, t) = 1
    <3>1. pos' = pos /\ used' = used
      BY <2>1 DEF rngVars, t
    <3>2. \A s \in RowStreams(t) : used[c][s] = 0 /\ (Count(c, t) > 0 => pos[c][s] = 0)
      <4>1. CASE tab[c] = 2
        BY <1>1, <1>2, <4>1 DEF IInv, ChildInv, BeforeInv, RowStreams
      <4>2. CASE tab[c] = 3
        BY <1>1, <1>2, <1>3, <2>1, <4>2 DEF IInv, ChildInv, BeforeInv, RowStreams, AddressStreams
      <4> QED  BY <1>2, <4>1, <4>2
    <3>3. \A s \in RowStreams(t) : m * Budget[s] = 0
      <4>1. \A s \in RowStreams(t) : Budget[s] \in Nat
        BY StreamFacts, BudgetFacts DEF RowStreams
      <4>2. m = 0
        BY <2>1 DEF m
      <4> QED  BY <4>1, <4>2
    <3>4. tab[c] = 2 => /\ used[c]["CS_PERMUTE"] = 0
                        /\ \A s \in AddressStreams : used[c][s] = 0
                        /\ pos[c]["CA_NULLS"] = 0
                        /\ c = 1 => pos[c]["CA_ADDRESS"] = 0
      BY <1>1 DEF IInv, ChildInv, BeforeInv
    <3> HIDE DEF StartTable
    <3>5. pos' = [pos EXCEPT ![c] = pos'[c]] /\ used' = [used EXCEPT ![c] = used'[c]]
      BY <1>1, <3>1 DEF TypeOK
    <3>6. \A s \in RowStreams(t) : used'[c][s] = 0 /\ (Count(c, t) > 0 => pos'[c][s] = m * Budget[s])
      BY <3>1, <3>2, <3>3
    <3>7. pos'[c] = pos[c] /\ used'[c] = used[c]
      BY <3>1
    <3> QED  BY <1>4, <3>4, <3>5, <3>6, <3>7
  <2>2. CASE First(c, t) # 1 /\ tab[c] = 2
    <3> DEFINE q == SkipFamilyPos(pos[c], m)
               v == SkipFamilyUsed(used[c])
    <3>1. pos' = [pos EXCEPT ![c] = q] /\ used' = [used EXCEPT ![c] = v]
      BY <1>2, <1>3, <2>2 DEF t, m, n, SkipFamilyPos, SkipFamilyUsed
    <3> HIDE DEF StartTable
    <3>2. /\ q \in [Streams -> Nat] /\ v \in [Streams -> Nat]
          /\ \A s \in SalesStreams \union {"CS_PERMUTE", "CA_ADDRESS"} :
               q[s] = m * Budget[s] /\ v[s] = 0
          /\ \A s \in Streams \ (SalesStreams \union {"CS_PERMUTE", "CA_ADDRESS"}) :
               q[s] = pos[c][s] /\ v[s] = used[c][s]
      <4>1. m \in Nat
        BY <1>3
      <4> HIDE DEF q, v
      <4>2. /\ SkipFamilyPos(pos[c], m) \in [Streams -> Nat]
            /\ SkipFamilyUsed(used[c]) \in [Streams -> Nat]
            /\ \A s \in SalesStreams \union {"CS_PERMUTE", "CA_ADDRESS"} :
                 SkipFamilyPos(pos[c], m)[s] = m * Budget[s] /\ SkipFamilyUsed(used[c])[s] = 0
            /\ \A s \in Streams \ (SalesStreams \union {"CS_PERMUTE", "CA_ADDRESS"}) :
                 /\ SkipFamilyPos(pos[c], m)[s] = pos[c][s]
                 /\ SkipFamilyUsed(used[c])[s] = used[c][s]
        BY <1>4, <4>1, SkipFamilyFacts
      <4> QED  BY <4>2 DEF q, v
    <3> HIDE DEF q, v
    <3>3. pos'[c] = q /\ used'[c] = v
      BY <1>1, <3>1 DEF TypeOK
    <3>4. used[c]["CA_NULLS"] = 0 /\ pos[c]["CA_NULLS"] = 0
      BY <2>2 DEF IInv, ChildInv, BeforeInv, AddressStreams
    <3>5. "CA_NULLS" \in Streams \ (SalesStreams \union {"CS_PERMUTE", "CA_ADDRESS"})
      BY StreamFacts
    <3>6. RowStreams(t) = SalesStreams /\ c # 1
      BY <1>2, <1>3, <2>2 DEF RowStreams
    <3>7. \A s \in Streams : v[s] \in {0, used[c][s]}
      BY <3>2
    <3> QED  BY <2>2, <3>1, <3>2, <3>3, <3>4, <3>5, <3>6, <3>7 DEF AddressStreams
  <2>3. CASE First(c, t) # 1 /\ tab[c] = 3
    <3> DEFINE q == RowSkipPos(pos[c], "customer_address", m)
               v == RowSkipUsed(used[c], "customer_address")
    <3>1. pos' = [pos EXCEPT ![c] = q] /\ used' = [used EXCEPT ![c] = v]
      BY <1>2, <1>3, <2>3 DEF t, m, n
    <3> HIDE DEF StartTable
    <3>2. /\ q \in [Streams -> Nat] /\ v \in [Streams -> Nat]
          /\ \A s \in Streams :
               /\ q[s] = IF Skipped(s, "customer_address") THEN m * Budget[s] ELSE pos[c][s]
               /\ v[s] = IF Skipped(s, "customer_address") THEN 0 ELSE used[c][s]
      BY <1>3, <1>4, SkipPosFacts, SkipUsedFacts
    <3> HIDE DEF q, v
    <3>3. pos'[c] = q /\ used'[c] = v
      BY <1>1, <3>1 DEF TypeOK
    <3>4. RowStreams(t) = AddressStreams
      BY <1>2, <2>3 DEF RowStreams
    <3>5. \A s \in AddressStreams : q[s] = m * Budget[s] /\ v[s] = 0
      BY <3>2, SkippedFacts, StreamFacts
    <3>6. \A s \in Streams : v[s] \in {0, used[c][s]}
      BY <3>2
    <3>7. \A s \in RowStreams(t) : used'[c][s] = 0 /\ pos'[c][s] = m * Budget[s]
      BY <3>3, <3>4, <3>5
    <3>8. tab[c] # 2
      BY <2>3
    <3> QED  BY <3>1, <3>2, <3>3, <3>6, <3>7, <3>8
  <2> QED  BY <1>2, <2>1, <2>2, <2>3
<1>6. TypeOK'
  <2>1. pc' \in [Children -> Labels]
    BY <1>1 DEF TypeOK, Labels
  <2>2. row' \in [Children -> Nat \ {0}] /\ left' \in [Children -> Nat]
    BY <1>1, <1>3 DEF TypeOK
  <2>3. pos' \in [Children -> [Streams -> Nat]] /\ used' \in [Children -> [Streams -> Nat]]
    BY <1>1, <1>5 DEF TypeOK
  <2> QED  BY <1>1, <2>1, <2>2, <2>3 DEF TypeOK
<1>7. \A d \in Children \ {c} : Frame(d)
  BY <1>1, <1>5 DEF Frame, TypeOK
<1>8. \A s \in Streams \ {"CS_PERMUTE"} : used'[c][s] <= Budget[s]
  BY <1>5, BudgetFacts, SMTT(30) DEF IInv, NoSeedOverrun
<1>9. ChildInv(c)'
  <2>1. Table(c)' = t
    BY DEF Table, t
  <2>2. CtlInv(c)'
    BY <1>1, <1>2, <2>1 DEF CtlInv, InRow, OrderLabels, LineLabels, First, Count
  <2>3. BeforeInv(c)'
    BY <1>1, <1>2, <1>5 DEF BeforeInv
  <2>4. WithinInv(c)'
    <3>1. ASSUME NEW s \in RowStreams(t), Count(c, t) > 0 PROVE Aligned(c, s)'
      <4>1. Budget[s] \in Nat /\ m \in Nat
        BY <1>3, StreamFacts, BudgetFacts DEF RowStreams
      <4>2. m * Budget[s] \in Nat
        BY <4>1, Z3
      <4>3. row'[c] - 1 = m
        BY <1>1 DEF m
      <4>4. pos'[c][s] = m * Budget[s] + used'[c][s]
        BY <1>5, <3>1, <4>2
      <4> QED  BY <4>3, <4>4 DEF Aligned, Budget
    <3>2. \A s \in RowStreams(t) : used'[c][s] = 0 /\ (left'[c] > 0 => Aligned(c, s)')
      BY <1>1, <1>5, <3>1
    <3> QED  BY <1>1, <1>2, <1>5, <2>1, <3>2 DEF WithinInv, InRow, OrderLabels, LineLabels, RowStreams
  <2> QED  BY <2>2, <2>3, <2>4 DEF ChildInv
<1> QED  BY <1>6, <1>7, <1>8, <1>9, StepOfOne

\* row_stop keeps it: after it each stream stands at the next row.
LEMMA RowStopInv ==
  ASSUME IInv, NEW c \in Children, RowStop(c)
  PROVE  IInv'
<1> DEFINE t == Table(c)
           p == RowStopPos(pos[c], used[c], t)
           u == RowStopUsed(used[c], t)
<1> USE DEF RowStop, Goto, envVars, dayVars, rowVars, outVars
<1>1. /\ TypeOK /\ pc[c] = "stop" /\ left[c] > 0 /\ pc' = [pc EXCEPT ![c] = "row"]
      /\ row' = [row EXCEPT ![c] = row[c] + 1] /\ left' = [left EXCEPT ![c] = left[c] - 1]
      /\ pos' = [pos EXCEPT ![c] = p] /\ used' = [used EXCEPT ![c] = u]
      /\ UNCHANGED <<tab, line, lines, jDate, dayIndex>>
  BY DEF IInv, ChildInv, CtlInv, InRow
<1>2. /\ \/ tab[c] = 2 /\ t = "catalog_sales"
         \/ tab[c] = 3 /\ t = "customer_address"
      /\ row[c] + left[c] = First(c, t) + Count(c, t)
  BY <1>1, TableFacts DEF IInv, ChildInv, CtlInv, InRow
<1>3. pos[c] \in [Streams -> Nat] /\ used[c] \in [Streams -> Nat]
  BY <1>1 DEF TypeOK
<1>4. /\ p \in [Streams -> Nat] /\ u \in [Streams -> Nat]
      /\ \A s \in Streams : u[s] \in {0, used[c][s]}
      /\ \A s \in RowStreams(t) : p[s] = pos[c][s] + TopUp(s, used[c]) /\ u[s] = 0
      /\ tab[c] = 2 => u["CS_PERMUTE"] = 0
      /\ tab[c] = 2 => \A s \in AddressStreams : p[s] = pos[c][s] /\ u[s] = used[c][s]
  <2>1. \A s \in Streams : TopUp(s, used[c]) \in Nat
    BY <1>3, BudgetFacts DEF TopUp
  <2>2. \A s \in Streams : IF StreamTable[s] \in Family(t)
                           THEN p[s] = pos[c][s] + TopUp(s, used[c]) /\ u[s] = 0
                           ELSE p[s] = pos[c][s] /\ u[s] = used[c][s]
    BY DEF RowStopPos, RowStopUsed
  <2>3. p \in [Streams -> Nat] /\ u \in [Streams -> Nat]
    BY <1>3, <2>1 DEF RowStopPos, RowStopUsed
  <2>4. CASE tab[c] = 2
    <3>1. t = "catalog_sales" /\ RowStreams(t) = SalesStreams
      BY <1>2, <2>4 DEF RowStreams
    <3>2. \A s \in Streams : StreamTable[s] \in Family(t) <=> s \in SalesStreams \union {"CS_PERMUTE"}
      BY <3>1, StreamFacts
    <3>3. \A s \in AddressStreams : s \in Streams /\ s \notin SalesStreams \union {"CS_PERMUTE"}
      BY StreamFacts DEF AddressStreams
    <3> HIDE DEF p, u, t, RowStop
    <3> QED  BY <2>2, <2>3, <3>1, <3>2, <3>3, StreamFacts
  <2>5. CASE tab[c] = 3
    <3>1. t = "customer_address" /\ RowStreams(t) = AddressStreams
      BY <1>2, <2>5 DEF RowStreams
    <3>2. \A s \in Streams : StreamTable[s] \in Family(t) <=> s \in AddressStreams
      BY <3>1, StreamFacts
    <3> HIDE DEF p, u, t, RowStop
    <3> QED  BY <2>2, <2>3, <2>5, <3>1, <3>2, StreamFacts
  <2> QED  BY <1>2, <2>4, <2>5
<1> HIDE DEF t, p, u, RowStop
<1>5. pos'[c] = p /\ used'[c] = u /\ pc'[c] = "row" /\ row'[c] = row[c] + 1 /\ left'[c] = left[c] - 1
  BY <1>1 DEF TypeOK
<1>6. row[c] \in Nat \ {0} /\ left[c] \in Nat /\ left[c] - 1 \in Nat
  BY <1>1 DEF TypeOK
<1>7. TypeOK'
  <2>1. pc' \in [Children -> Labels]
    BY <1>1 DEF TypeOK, Labels
  <2>2. row' \in [Children -> Nat \ {0}] /\ left' \in [Children -> Nat]
    BY <1>1, <1>6, SMTT(30) DEF TypeOK
  <2>3. pos' \in [Children -> [Streams -> Nat]] /\ used' \in [Children -> [Streams -> Nat]]
    BY <1>1, <1>4 DEF TypeOK
  <2> QED  BY <1>1, <2>1, <2>2, <2>3 DEF TypeOK, RowStop
<1>8. \A d \in Children \ {c} : Frame(d)
  BY <1>1 DEF Frame, TypeOK
<1>9. \A s \in Streams \ {"CS_PERMUTE"} : used'[c][s] <= Budget[s]
  BY <1>4, <1>5, BudgetFacts DEF IInv, NoSeedOverrun
<1>10. ChildInv(c)'
  <2>1. Table(c)' = t
    BY <1>1 DEF Table, t
  <2>2. CtlInv(c)'
    BY <1>1, <1>2, <1>5, <1>6, <2>1, FirstRowPositive DEF CtlInv, InRow, OrderLabels, LineLabels, First, Count
  <2>3. BeforeInv(c)'
    <3>1. pc'[c] = "row" /\ tab'[c] = tab[c] /\ tab[c] \in {2, 3}
      BY <1>1, <1>2, <1>5
    <3>2. tab[c] = 2 => \A s \in AddressStreams : pos'[c][s] = pos[c][s] /\ used'[c][s] = used[c][s]
      BY <1>4, <1>5
    <3> QED  BY <1>1, <3>1, <3>2 DEF IInv, ChildInv, BeforeInv, AddressStreams
  <2>4. WithinInv(c)'
    <3>1. ASSUME NEW s \in RowStreams(t) PROVE Aligned(c, s)'
      <4>1. s \in Streams \ {"CS_PERMUTE"} /\ Budget[s] \in Nat /\ pos[c][s] \in Nat /\ used[c][s] \in Nat
        BY <1>3, StreamFacts, BudgetFacts DEF RowStreams, AddressStreams
      <4>2. used[c][s] <= Budget[s]
        BY <4>1 DEF IInv, NoSeedOverrun
      <4>3. pos[c][s] = (row[c] - 1) * Budget[s] + used[c][s]
        BY <1>1, <3>1 DEF IInv, ChildInv, WithinInv, InRow, Aligned, t
      <4>4. (row[c] - 1) * Budget[s] \in Nat /\ (row[c] - 1) * Budget[s] + Budget[s] = (row[c] + 1 - 1) * Budget[s]
        BY <1>6, <4>1, NextRow
      <4>5. TopUp(s, used[c]) = Budget[s] - used[c][s]
        BY <4>1, <4>2 DEF TopUp
      <4>6. p[s] = (row[c] + 1 - 1) * Budget[s] /\ p[s] \in Nat /\ u[s] = 0
        BY <1>4, <4>1, <4>2, <4>3, <4>4, <4>5
      <4>7. pos'[c][s] = (row'[c] - 1) * Budget[s] + used'[c][s]
        <5>1. pos'[c][s] = p[s] /\ used'[c][s] = 0
          BY <1>5, <4>6
        <5>2. row'[c] = row[c] + 1
          BY <1>5
        <5>3. row'[c] - 1 = row[c] + 1 - 1
          BY <1>6, <5>2
        <5>4. (row'[c] - 1) * Budget[s] = p[s]
          BY <4>6, <5>3
        <5> QED  BY <4>6, <5>1, <5>4
      <4> QED  BY <4>7 DEF Aligned, Budget
    <3>2. \A s \in RowStreams(t) : used'[c][s] = 0
      BY <1>4, <1>5
    <3> QED  BY <1>1, <1>4, <1>5, <2>1, <3>1, <3>2 DEF WithinInv, InRow, OrderLabels, LineLabels, RowStreams
  <2> QED  BY <2>2, <2>3, <2>4 DEF ChildInv
<1> QED  BY <1>7, <1>8, <1>9, <1>10, StepOfOne

-----------------------------------------------------------------------------
(***************************************************************************)
(* A process is killed, or started over.                                   *)
(***************************************************************************)
LEMMA CrashInv ==
  ASSUME IInv, NEW c \in Children, Crash(c)
  PROVE  IInv'
<1> USE DEF Crash, Goto, envVars, ctlVars, rngVars, dayVars, rowVars
<1>1. pc'[c] = "crashed" /\ tab'[c] = tab[c] /\ (tab[c] = 3 => pc'[c] # "table")
  BY DEF IInv, TypeOK
<1>2. TypeOK'
  <2>1. pc' \in [Children -> Labels] /\ open' \in [Children -> SUBSET Tables]
    BY DEF IInv, TypeOK, Labels, Stopped
  <2> QED  BY <2>1 DEF IInv, TypeOK
<1>3. \A d \in Children \ {c} : Frame(d)
  BY DEF Frame, IInv, TypeOK
<1>4. \A s \in Streams \ {"CS_PERMUTE"} : used'[c][s] <= Budget[s]
  BY DEF IInv, NoSeedOverrun
<1>5. ChildInv(c)'
  BY <1>1 DEF IInv, ChildInv, CtlInv, BeforeInv, WithinInv, InRow, OrderLabels, LineLabels
<1> QED  BY <1>2, <1>3, <1>4, <1>5, StepOfOne

\* A process that is started over has the invariant, and the others keep it.
LEMMA RestartInv ==
  ASSUME IInv, NEW c \in Children, Restart(c)
  PROVE  IInv'
<1> DEFINE zero == [s \in Streams |-> 0]
<1>1. /\ TypeOK /\ pc' = [pc EXCEPT ![c] = "table"] /\ tab' = [tab EXCEPT ![c] = 1]
      /\ row' = [row EXCEPT ![c] = 1] /\ left' = [left EXCEPT ![c] = 0]
      /\ line' = [line EXCEPT ![c] = 1] /\ lines' = [lines EXCEPT ![c] = 0]
      /\ pos' = [pos EXCEPT ![c] = zero] /\ used' = [used EXCEPT ![c] = zero]
      /\ jDate' = [jDate EXCEPT ![c] = 0] /\ dayIndex' = [dayIndex EXCEPT ![c] = 1]
  BY DEF IInv, Restart, Goto
<1>2. zero \in [Streams -> Nat]
  OBVIOUS
<1>3. TypeOK'
  <2>1. /\ pc' \in [Children -> Labels] /\ tab' \in [Children -> 1 .. Len(DriverOrder) + 1]
        /\ row' \in [Children -> Nat \ {0}] /\ left' \in [Children -> Nat]
    BY <1>1, DriverSize DEF TypeOK, Labels
  <2>2. line' \in [Children -> 1 .. MaxLines] /\ lines' \in [Children -> 0 .. MaxLines]
    <3>1. 1 \in 1 .. MaxLines /\ 0 \in 0 .. MaxLines
      BY DsdgenAssumption
    <3> QED  BY <1>1, <3>1 DEF TypeOK
  <2>3. pos' \in [Children -> [Streams -> Nat]] /\ used' \in [Children -> [Streams -> Nat]]
    BY <1>1, <1>2 DEF TypeOK
  <2>4. /\ force' \in [Children -> BOOLEAN] /\ restarts' \in Nat /\ started' \in [Children -> BOOLEAN]
        /\ jDate' \in [Children -> Nat] /\ newDate' \in [Children -> Nat]
        /\ dayIndex' \in [Children -> Nat] /\ perm' \in [Children -> Nat]
    BY <1>1, SMTT(30) DEF TypeOK, Restart
  <2>5. item' \in [Children -> 1 .. ItemCount]
    <3>1. 1 \in 1 .. ItemCount
      BY DsdgenAssumption
    <3> QED  BY <1>1, <3>1 DEF TypeOK, Restart
  <2>6. /\ sale' \in [Children -> SaleRows] /\ return' \in [Children -> ReturnRows]
        /\ address' \in [Children -> AddressRows]
    <3>1. NoSale \in SaleRows /\ NoReturn \in ReturnRows /\ NoAddress \in AddressRows
      BY DEF NoSale, NoReturn, NoAddress, SaleRows, ReturnRows, AddressRows
    <3> QED  BY <1>1, <3>1 DEF TypeOK, Restart
  <2>7. open' \in [Children -> SUBSET Tables] /\ UNCHANGED <<seed, exists, file>>
    BY <1>1 DEF TypeOK, Restart
  <2> QED  BY <1>1, <2>1, <2>2, <2>3, <2>4, <2>5, <2>6, <2>7 DEF TypeOK
<1>4. \A d \in Children \ {c} : Frame(d)
  BY <1>1 DEF Frame, TypeOK
<1>5. /\ pc'[c] = "table" /\ tab'[c] = 1
      /\ \A s \in Streams : pos'[c][s] = 0 /\ used'[c][s] = 0
  BY <1>1 DEF TypeOK
<1>6. \A s \in Streams \ {"CS_PERMUTE"} : used'[c][s] <= Budget[s]
  BY <1>5, BudgetFacts
<1>7. ChildInv(c)'
  <2>1. CtlInv(c)'
    BY <1>5 DEF CtlInv, InRow, OrderLabels, LineLabels
  <2>2. BeforeInv(c)'
    BY <1>5, StreamFacts DEF BeforeInv
  <2>3. WithinInv(c)'
    BY <1>5 DEF WithinInv, InRow, OrderLabels, LineLabels
  <2> QED  BY <2>1, <2>2, <2>3 DEF ChildInv
<1> QED  BY <1>3, <1>4, <1>6, <1>7, StepOfOne

-----------------------------------------------------------------------------
(***************************************************************************)
(* The theorems.                                                           *)
(***************************************************************************)
LEMMA NextInv ==
  ASSUME FitsInt, IInv, [Next]_vars
  PROVE  IInv'
<1>1. ASSUME NEW c \in Children, Step(c) PROVE IInv'
  BY <1>1, SkipChildTableInv, StartTableInv, ExitInv, EndTableInv, BuildAddressInv,
     BeginOrderInv, SkipDayInv, EndSkipDaysInv, NewDateInv, MkMasterInv, MkDetailInv,
     MkDetailReturnedInv, OpenFileInv, RefuseFileInv, PrintReturnInv, PrintSaleInv,
     PrintAddressInv, RowStopInv DEF Step
<1>2. CASE UNCHANGED vars
  <2> USE <1>2 DEF vars, envVars, ctlVars, rngVars, dayVars, rowVars, outVars
  <2>1. TypeOK'
    BY DEF IInv, TypeOK
  <2>2. NoSeedOverrun'
    BY DEF IInv, NoSeedOverrun
  <2>3. \A d \in Children : Frame(d)
    BY DEF Frame
  <2> QED  BY <2>1, <2>2, <2>3, FrameInv DEF IInv
<1> QED  BY <1>1, <1>2, CrashInv, RestartInv DEF Next

\* The invariant holds for every build whose tables an int can count.
THEOREM Invariance == ASSUME FitsInt PROVE Spec => []IInv
<1>1. Init => IInv
  BY InitInv
<1>2. IInv /\ [Next]_vars => IInv'
  BY NextInv
<1> QED  BY <1>1, <1>2, PTL DEF Spec

\* Every variable keeps its type; in particular no order has more lines than
\* the budgets provide for (mk_w_catalog_sales).
THEOREM TypeCorrect == ASSUME FitsInt PROVE Spec => []TypeOK
<1>1. IInv => TypeOK
  BY DEF IInv
<1> QED  BY <1>1, Invariance, PTL

\* Every row starts where a serial build would have it start, whoever builds
\* it and whatever happened before (row_skip, row_stop).
THEOREM RowsAligned == ASSUME FitsInt PROVE Spec => []RowsStartAligned
<1>1. IInv => RowsStartAligned
  <2> SUFFICES ASSUME IInv, NEW c \in Children, pc[c] = "row", left[c] > 0,
                      NEW s \in Streams, StreamTable[s] \in Family(Table(c))
               PROVE  /\ used[c][s] = 0
                      /\ s # "CS_PERMUTE" => pos[c][s] = (row[c] - 1) * Budget[s]
    BY DEF RowsStartAligned
  <2>1. /\ TypeOK /\ tab[c] \in {2, 3}
        /\ \A r \in RowStreams(Table(c)) : used[c][r] = 0 /\ Aligned(c, r)
        /\ tab[c] = 2 => used[c]["CS_PERMUTE"] = 0
    BY DEF IInv, ChildInv, CtlInv, WithinInv
  <2>2. s \in RowStreams(Table(c)) \/ (tab[c] = 2 /\ s = "CS_PERMUTE")
    <3>1. CASE tab[c] = 2
      <4>1. Table(c) = "catalog_sales"
        BY <2>1, <3>1, TableFacts
      <4> QED  BY <3>1, <4>1, StreamFacts DEF RowStreams
    <3>2. CASE tab[c] = 3
      <4>1. Table(c) = "customer_address"
        BY <2>1, <3>2, TableFacts
      <4> QED  BY <4>1, StreamFacts DEF RowStreams
    <3> QED  BY <2>1, <3>1, <3>2
  <2>3. ASSUME s \in RowStreams(Table(c)) PROVE pos[c][s] = (row[c] - 1) * Budget[s]
    <3>1. Budget[s] \in Nat /\ row[c] \in Nat \ {0}
      BY <2>1, BudgetFacts DEF TypeOK
    <3>2. (row[c] - 1) * Budget[s] \in Nat
      BY <3>1, NextRow
    <3> QED  BY <2>1, <2>3, <3>2 DEF Aligned
  <2> QED  BY <2>1, <2>2, <2>3
<1> QED  BY <1>1, Invariance, PTL

\* No row of any build draws more from a stream than row_skip assumes.
THEOREM NoOverrun == ASSUME FitsInt PROVE Spec => []NoSeedOverrun
<1>1. IInv => NoSeedOverrun
  BY DEF IInv
<1> QED  BY <1>1, Invariance, PTL

-----------------------------------------------------------------------------
(***************************************************************************)
(* What the files of a build hold: no item twice in an order, and nothing  *)
(* of an earlier process overwritten without -FORCE.                       *)
(***************************************************************************)

\* The item d places after item a in the permutation, which wraps once.
Ahead(a, d) == IF a + d > ItemCount THEN a + d - ItemCount ELSE a + d

\* What the sales file of child c holds.
Sold(c) == file[c]["catalog_sales"]

\* A row as mk_detail leaves it.
LineRows == {r \in SaleRows : r.line \in 1 .. MaxLines /\ r.item \in 1 .. ItemCount}

\* How many lines of its order child c has taken an item for.
Taken(c) == IF pc[c] = "detail" THEN line[c] - 1 ELSE line[c]

\* The lines of an order are written in order, each with the item as many
\* places further in the permutation as it is lines further.
OrdersInv(c) ==
  /\ Sold(c) \in Seq(LineRows)
  /\ \A i, j \in 1 .. Len(Sold(c)) :
       i < j /\ Sold(c)[i].order = Sold(c)[j].order =>
         /\ Sold(c)[i].line < Sold(c)[j].line
         /\ Sold(c)[j].item = Ahead(Sold(c)[i].item, Sold(c)[j].line - Sold(c)[i].line)

\* Row r of the file is of an order before the one under construction, or of
\* a line before the one under construction.
WrittenInv(c, r) ==
  /\ r.order <= row[c]
  /\ pc[c] \in {"row", "skip_days", "date"} => r.order < row[c]
  /\ pc[c] \in LineLabels /\ r.order = row[c] =>
       /\ r.line < line[c]
       /\ item[c] = Ahead(r.item, Taken(c) - r.line)

\* While the file is open it is this process's: all rows are its own.
OpenInv(c) ==
  "catalog_sales" \in open[c] =>
    /\ tab[c] = 2 /\ pc[c] # "table"
    /\ \A i \in 1 .. Len(Sold(c)) : WrittenInv(c, Sold(c)[i])

\* The row about to be printed.
SaleInv(c) ==
  /\ pc[c] \in LineLabels => sale[c].order = row[c]
  /\ pc[c] \in {"print_return", "print_sale"} =>
       sale[c].line = line[c] /\ sale[c].item = item[c]

ItemsInv == \A c \in Children : OrdersInv(c) /\ OpenInv(c) /\ SaleInv(c)

-----------------------------------------------------------------------------
(***************************************************************************)
(* The permutation.                                                        *)
(***************************************************************************)

\* One line further is one item further, as long as the order has no more
\* lines than there are items.
LEMMA NextIsAhead ==
  ASSUME NEW a \in 1 .. ItemCount, NEW d \in Nat, d + 1 <= MaxLines
  PROVE  NextItem(Ahead(a, d)) = Ahead(a, d + 1)
BY DsdgenAssumption DEF NextItem, Ahead

\* No place ahead is none ahead, and a place ahead is another item.
LEMMA AheadDiffers ==
  ASSUME NEW a \in 1 .. ItemCount
  PROVE  /\ Ahead(a, 0) = a
         /\ \A d \in 1 .. MaxLines - 1 : Ahead(a, d) # a
BY DsdgenAssumption DEF Ahead

-----------------------------------------------------------------------------
(***************************************************************************)
(* The steps.                                                              *)
(***************************************************************************)
\* A fresh process has no file open.
LEMMA ItemsInit == ASSUME Init PROVE ItemsInv
<1> SUFFICES ASSUME NEW c \in Children PROVE OrdersInv(c) /\ OpenInv(c) /\ SaleInv(c)
  BY DEF ItemsInv
<1>1. pc[c] = "table" /\ open[c] = {} /\ Sold(c) = <<>>
  BY DEF Init, Sold, Tables
<1>2. OrdersInv(c)
  BY <1>1 DEF OrdersInv
<1>3. OpenInv(c) /\ SaleInv(c)
  BY <1>1 DEF OpenInv, SaleInv, LineLabels
<1> QED  BY <1>2, <1>3

\* What the invariant says of child d is about these variables.
Same(d) ==
  /\ pc'[d] = pc[d] /\ tab'[d] = tab[d] /\ row'[d] = row[d] /\ line'[d] = line[d]
  /\ item'[d] = item[d] /\ sale'[d] = sale[d]
  /\ open'[d] = open[d] /\ file'[d] = file[d]

\* A child whose variables a step leaves alone keeps its part of the invariant.
LEMMA SameInv ==
  ASSUME NEW d \in Children, Same(d), OrdersInv(d), OpenInv(d), SaleInv(d)
  PROVE  OrdersInv(d)' /\ OpenInv(d)' /\ SaleInv(d)'
<1>1. Sold(d)' = Sold(d) /\ Taken(d)' = Taken(d)
  BY DEF Same, Sold, Taken
<1>2. \A r : WrittenInv(d, r)' <=> WrittenInv(d, r)
  BY <1>1 DEF Same, WrittenInv
<1> QED  BY <1>1, <1>2 DEF Same, OrdersInv, OpenInv, SaleInv

\* It is enough to look at the child that takes the step.
LEMMA ItemsOfOne ==
  ASSUME ItemsInv, NEW c \in Children,
         \A d \in Children \ {c} : Same(d),
         OrdersInv(c)', OpenInv(c)', SaleInv(c)'
  PROVE  ItemsInv'
<1>1. \A d \in Children \ {c} : OrdersInv(d)' /\ OpenInv(d)' /\ SaleInv(d)'
  BY SameInv DEF ItemsInv
<1> QED  BY <1>1 DEF ItemsInv

\* A step of c that leaves its sales file as it is has only the rest to show.
LEMMA FileKept ==
  ASSUME NEW c \in Children, OrdersInv(c), Sold(c)' = Sold(c)
  PROVE  OrdersInv(c)'
BY DEF OrdersInv

\* With the file closed nothing is claimed of the rows in it.
LEMMA Closed ==
  ASSUME NEW c \in Children, "catalog_sales" \notin open'[c], pc'[c] \notin LineLabels
  PROVE  OpenInv(c)' /\ SaleInv(c)'
BY DEF OpenInv, SaleInv, LineLabels

\* The rows of the file have a number, and so has the row being built.
LEMMA RowOrders ==
  ASSUME IInv, NEW c \in Children, OrdersInv(c)
  PROVE  /\ row[c] \in Nat
         /\ \A i \in 1 .. Len(Sold(c)) :
              Sold(c)[i] \in LineRows /\ Sold(c)[i].order \in Nat
<1>1. row[c] \in Nat /\ Sold(c) \in Seq(LineRows)
  BY DEF IInv, TypeOK, OrdersInv
<1>2. \A i \in 1 .. Len(Sold(c)) : Sold(c)[i] \in LineRows
  BY <1>1
<1>3. \A r \in LineRows : r.order \in Nat
  BY DEF LineRows, SaleRows
<1> QED  BY <1>1, <1>2, <1>3

\* Between two tables, and while addresses are built, the file is closed.
LEMMA ClosedStep ==
  ASSUME IInv, ItemsInv, NEW c \in Children,
         SkipChildTable(c) \/ StartTable(c) \/ Exit(c) \/ EndTable(c)
           \/ BuildAddress(c) \/ Crash(c) \/ Restart(c)
  PROVE  ItemsInv'
<1>1. TypeOK /\ CtlInv(c) /\ OrdersInv(c) /\ OpenInv(c)
  BY DEF IInv, ChildInv, ItemsInv
<1>2. \A d \in Children \ {c} : Same(d)
  <2>1. CASE SkipChildTable(c) \/ StartTable(c) \/ Exit(c) \/ EndTable(c)
    BY <1>1, <2>1 DEF Same, TypeOK, SkipChildTable, StartTable, Exit, EndTable, Goto,
       ctlVars, rowVars, outVars
  <2>2. CASE BuildAddress(c)
    BY <1>1, <2>2 DEF Same, TypeOK, BuildAddress, Goto, ctlVars, outVars
  <2>3. CASE Crash(c)
    BY <1>1, <2>3 DEF Same, TypeOK, Crash, Goto, ctlVars, rowVars
  <2>4. CASE Restart(c)
    BY <1>1, <2>4 DEF Same, TypeOK, Restart, Goto
  <2> QED  BY <2>1, <2>2, <2>3, <2>4
<1>3. file' = file
  BY DEF SkipChildTable, StartTable, Exit, EndTable, BuildAddress, Crash, Restart, outVars
<1>4. OrdersInv(c)'
  BY <1>1, <1>3, FileKept DEF Sold
<1>5. "catalog_sales" \notin open'[c] /\ pc'[c] \notin LineLabels
  <2>1. CASE SkipChildTable(c) \/ StartTable(c) \/ Exit(c)
    BY <1>1, <2>1 DEF TypeOK, OpenInv, LineLabels, SkipChildTable, StartTable, Exit, Goto, outVars
  <2>2. CASE EndTable(c)
    <3>1. tab[c] \in {2, 3} /\ pc'[c] = "table" /\ open'[c] = open[c] \ Family(Table(c))
      BY <1>1, <2>2 DEF TypeOK, CtlInv, EndTable, Goto
    <3>2. tab[c] = 2 => "catalog_sales" \in Family(Table(c))
      BY <1>1, TableFacts DEF Family
    <3> QED  BY <1>1, <3>1, <3>2 DEF OpenInv, LineLabels
  <2>3. CASE BuildAddress(c)
    <3>1. tab[c] # 2 /\ pc'[c] = "print_address" /\ open' = open
      BY <1>1, <2>3, TableFacts DEF TypeOK, BuildAddress, Goto, outVars
    <3> QED  BY <1>1, <3>1 DEF OpenInv, LineLabels
  <2>4. CASE Crash(c) \/ Restart(c)
    BY <1>1, <2>4 DEF TypeOK, Crash, Restart, Goto, LineLabels
  <2> QED  BY <2>1, <2>2, <2>3, <2>4
<1> QED  BY <1>2, <1>4, <1>5, Closed, ItemsOfOne

\* The steps between the rows, which print nothing.
LEMMA HeadStep ==
  ASSUME IInv, ItemsInv, NEW c \in Children,
         BeginOrder(c) \/ SkipDay(c) \/ EndSkipDays(c) \/ NewDate(c)
           \/ RefuseFile(c) \/ RowStop(c)
  PROVE  ItemsInv'
<1>1. TypeOK /\ OrdersInv(c) /\ OpenInv(c)
  BY DEF IInv, ItemsInv
<1>2. /\ file' = file /\ open' = open /\ tab' = tab
      /\ \A d \in Children \ {c} : Same(d)
  <2>1. CASE BeginOrder(c)
    <3>1. \E l \in {"date", "skip_days"} : pc' = [pc EXCEPT ![c] = l]
      BY <2>1 DEF BeginOrder, Goto
    <3>2. UNCHANGED <<ctlVars, rowVars, outVars>>
      BY <2>1 DEF BeginOrder
    <3> QED  BY <1>1, <3>1, <3>2 DEF Same, TypeOK, ctlVars, rowVars, outVars
  <2>2. CASE SkipDay(c) \/ NewDate(c)
    BY <1>1, <2>2 DEF Same, TypeOK, SkipDay, NewDate, ctlVars, rowVars, outVars
  <2>3. CASE EndSkipDays(c)
    BY <1>1, <2>3 DEF Same, TypeOK, EndSkipDays, Goto, ctlVars, outVars
  <2>4. CASE RefuseFile(c) \/ RowStop(c)
    BY <1>1, <2>4 DEF Same, TypeOK, RefuseFile, RowStop, Goto, ctlVars, rowVars, outVars
  <2> QED  BY <2>1, <2>2, <2>3, <2>4
<1>3. /\ pc'[c] \notin LineLabels \union {"table"}
      /\ \/ /\ row'[c] = row[c]
            /\ pc'[c] \in {"row", "skip_days", "date"} =>
                 pc[c] \in {"row", "skip_days", "date"}
         \/ row'[c] = row[c] + 1
  <2>1. CASE BeginOrder(c)
    BY <1>1, <2>1 DEF TypeOK, BeginOrder, Goto, ctlVars, LineLabels
  <2>2. CASE SkipDay(c) \/ NewDate(c)
    BY <1>1, <2>2 DEF TypeOK, SkipDay, NewDate, ctlVars, LineLabels
  <2>3. CASE EndSkipDays(c)
    BY <1>1, <2>3 DEF TypeOK, EndSkipDays, Goto, ctlVars, LineLabels
  <2>4. CASE RefuseFile(c) \/ RowStop(c)
    BY <1>1, <2>4 DEF TypeOK, RefuseFile, RowStop, Goto, ctlVars, LineLabels
  <2> QED  BY <2>1, <2>2, <2>3, <2>4
<1>4. Sold(c)' = Sold(c) /\ OrdersInv(c)'
  BY <1>1, <1>2, FileKept DEF Sold
<1>5. OpenInv(c)'
  <2> SUFFICES ASSUME "catalog_sales" \in open[c], NEW i \in 1 .. Len(Sold(c))
               PROVE  WrittenInv(c, Sold(c)[i])'
    BY <1>1, <1>2, <1>3, <1>4 DEF OpenInv
  <2> DEFINE r == Sold(c)[i]
             n == r.order
             before == {"row", "skip_days", "date"}
  <2>1. WrittenInv(c, r) /\ n \in Nat /\ row[c] \in Nat
    BY <1>1, RowOrders DEF OpenInv
  <2>2. r' = r
    BY <1>4
  <2> HIDE DEF r
  <2>3. n <= row[c] /\ (pc[c] \in before => n < row[c])
    BY <2>1 DEF WrittenInv
  <2> HIDE DEF n, before
  <2>4. \/ row'[c] = row[c] /\ (pc'[c] \in before => pc[c] \in before)
        \/ row'[c] = row[c] + 1
    BY <1>3 DEF before
  <2> DEFINE now == row'[c]
  <2>5. n <= now /\ (pc'[c] \in before => n < now)
    <3>1. n \in Nat /\ row[c] \in Nat
      BY <2>1
    <3>2. CASE now = row[c] + 1
      BY <2>3, <3>1, <3>2
    <3>3. CASE now = row[c] /\ (pc'[c] \in before => pc[c] \in before)
      BY <2>3, <3>3
    <3> QED  BY <2>4, <3>2, <3>3
  <2>6. WrittenInv(c, r)'
    BY <1>3, <2>2, <2>5 DEF WrittenInv, n, before
  <2> QED  BY <2>6 DEF r
<1>6. SaleInv(c)'
  BY <1>3 DEF SaleInv, LineLabels
<1> QED  BY <1>2, <1>4, <1>5, <1>6, ItemsOfOne

\* A new order: all rows of the file are of orders before it.
LEMMA MasterStep ==
  ASSUME IInv, ItemsInv, NEW c \in Children, MkMaster(c)
  PROVE  ItemsInv'
<1>1. TypeOK /\ CtlInv(c) /\ OrdersInv(c) /\ OpenInv(c)
  BY DEF IInv, ChildInv, ItemsInv
<1>2. /\ file' = file /\ open' = open /\ tab' = tab /\ row' = row
      /\ pc[c] = "date" /\ pc'[c] = "detail" /\ sale'[c].order = row[c]
      /\ \A d \in Children \ {c} : Same(d)
  BY <1>1 DEF Same, TypeOK, SaleRows, MkMaster, Goto, outVars
<1>3. Sold(c)' = Sold(c) /\ OrdersInv(c)'
  BY <1>1, <1>2, FileKept DEF Sold
<1>4. OpenInv(c)'
  <2> SUFFICES ASSUME "catalog_sales" \in open[c], NEW i \in 1 .. Len(Sold(c))
               PROVE  WrittenInv(c, Sold(c)[i])'
    BY <1>1, <1>2, <1>3 DEF OpenInv
  <2>1. WrittenInv(c, Sold(c)[i]) /\ Sold(c)[i].order \in Nat /\ row[c] \in Nat
    BY <1>1, RowOrders DEF OpenInv
  <2> QED  BY <1>2, <1>3, <2>1 DEF WrittenInv
<1>5. SaleInv(c)'
  BY <1>2 DEF SaleInv, LineLabels
<1> QED  BY <1>2, <1>3, <1>4, <1>5, ItemsOfOne

\* A line takes the next item, one place further than those before it.
LEMMA DetailStep ==
  ASSUME IInv, ItemsInv, NEW c \in Children, MkDetail(c) \/ MkDetailReturned(c)
  PROVE  ItemsInv'
<1>1. TypeOK /\ CtlInv(c) /\ OrdersInv(c) /\ OpenInv(c) /\ SaleInv(c)
  BY DEF IInv, ChildInv, ItemsInv
<1>2. /\ file' = file /\ open' = open /\ tab' = tab /\ row' = row /\ line' = line
      /\ pc[c] = "detail" /\ pc'[c] \in {"print_return", "print_sale"}
      /\ item'[c] = NextItem(item[c]) /\ sale'[c] = SoldLine(c)
      /\ \A d \in Children \ {c} : Same(d)
  <2>1. CASE MkDetail(c)
    BY <1>1, <2>1 DEF Same, TypeOK, MkDetail, Goto, ctlVars, outVars
  <2>2. CASE MkDetailReturned(c)
    BY <1>1, <2>2 DEF Same, TypeOK, MkDetailReturned, Goto, ctlVars, outVars
  <2> QED  BY <2>1, <2>2
<1>3. Sold(c)' = Sold(c) /\ OrdersInv(c)'
  BY <1>1, <1>2, FileKept DEF Sold
<1>4. OpenInv(c)'
  <2> SUFFICES ASSUME "catalog_sales" \in open[c], NEW i \in 1 .. Len(Sold(c))
               PROVE  WrittenInv(c, Sold(c)[i])'
    BY <1>1, <1>2, <1>3 DEF OpenInv
  <2> DEFINE r == Sold(c)[i]
  <2>1. WrittenInv(c, r) /\ r \in LineRows
    BY <1>1, RowOrders DEF OpenInv
  <2>2. ASSUME r.order = row[c] PROVE r.line < line[c] /\ item'[c] = Ahead(r.item, line[c] - r.line)
    <3>1. r.line < line[c] /\ item[c] = Ahead(r.item, line[c] - 1 - r.line)
      BY <1>2, <2>1, <2>2 DEF WrittenInv, LineLabels, Taken
    <3>2. /\ r.item \in 1 .. ItemCount /\ r.line \in 1 .. MaxLines
          /\ line[c] \in 1 .. MaxLines /\ MaxLines \in Nat
      BY <1>1, <2>1, DsdgenAssumption DEF LineRows, TypeOK
    <3> DEFINE d == line[c] - 1 - r.line
    <3>3. d \in Nat /\ d + 1 <= MaxLines /\ d + 1 = line[c] - r.line
      BY <3>1, <3>2
    <3> HIDE DEF d, r
    <3>4. NextItem(Ahead(r.item, d)) = Ahead(r.item, d + 1)
      BY <3>2, <3>3, NextIsAhead
    <3> QED  BY <1>2, <3>1, <3>3, <3>4 DEF d
  <2> HIDE DEF r
  <2>3. r.order <= row[c]
    BY <2>1 DEF WrittenInv
  <2>4. WrittenInv(c, r)'
    <3>1. r' = r
      BY <1>3 DEF r
    <3> QED  BY <1>2, <2>2, <2>3, <3>1 DEF WrittenInv, Taken, LineLabels
  <2> QED  BY <2>4 DEF r
<1>5. SaleInv(c)'
  <2>1. /\ SoldLine(c).order = sale[c].order /\ SoldLine(c).line = line[c]
        /\ SoldLine(c).item = NextItem(item[c])
    BY <1>1 DEF TypeOK, SaleRows, SoldLine
  <2> QED  BY <1>1, <1>2, <2>1 DEF SaleInv, LineLabels
<1> QED  BY <1>2, <1>3, <1>4, <1>5, ItemsOfOne

-----------------------------------------------------------------------------
(***************************************************************************)
(* Output.                                                                 *)
(***************************************************************************)

\* The file of the sales is opened empty; another one's opening leaves it.
LEMMA OpenStep ==
  ASSUME IInv, ItemsInv, NEW c \in Children, OpenFile(c)
  PROVE  ItemsInv'
<1>1. TypeOK /\ CtlInv(c) /\ OrdersInv(c) /\ OpenInv(c) /\ SaleInv(c)
  BY DEF IInv, ChildInv, ItemsInv
<1> DEFINE t == Target(pc[c])
<1>2. /\ pc[c] \in {"print_return", "print_sale", "print_address"}
      /\ pc' = pc /\ tab' = tab /\ row' = row /\ line' = line /\ item' = item /\ sale' = sale
      /\ open' = [open EXCEPT ![c] = @ \union {t}]
      /\ file' = [file EXCEPT ![c][t] = <<>>]
  BY DEF OpenFile, Printing, ctlVars, rowVars
<1>3. /\ pc[c] = "print_return" => t = "catalog_returns"
      /\ pc[c] = "print_sale" => t = "catalog_sales"
      /\ pc[c] = "print_address" => t = "customer_address"
  BY DEF Target
<1> HIDE DEF t
<1>4. \A d \in Children \ {c} : Same(d)
  BY <1>1, <1>2 DEF Same, TypeOK
<1>5. "catalog_sales" \in Tables /\ file[c] \in [Tables -> Seq(SaleRows \union ReturnRows \union AddressRows)]
  BY <1>1 DEF TypeOK, Tables
<1>6. SaleInv(c)'
  BY <1>1, <1>2 DEF SaleInv
<1>7. CASE t = "catalog_sales"
  <2>1. Sold(c)' = <<>>
    BY <1>1, <1>2, <1>5, <1>7 DEF Sold, TypeOK
  <2>2. OrdersInv(c)'
    BY <2>1 DEF OrdersInv
  <2>3. tab[c] = 2 /\ pc'[c] # "table"
    BY <1>1, <1>2, <1>3, <1>7 DEF CtlInv, OrderLabels
  <2>4. OpenInv(c)'
    BY <1>2, <2>1, <2>3 DEF OpenInv
  <2> QED  BY <1>4, <1>6, <2>2, <2>4, ItemsOfOne
<1>8. CASE t # "catalog_sales"
  <2>1. Sold(c)' = Sold(c)
    BY <1>1, <1>2, <1>5, <1>8 DEF Sold, TypeOK
  <2>2. OrdersInv(c)'
    BY <1>1, <2>1, FileKept
  <2>3. "catalog_sales" \in open'[c] => "catalog_sales" \in open[c]
    BY <1>1, <1>2, <1>8 DEF TypeOK
  <2>4. Taken(c)' = Taken(c) /\ \A r : WrittenInv(c, r)' <=> WrittenInv(c, r)
    BY <1>2 DEF Taken, WrittenInv
  <2>5. OpenInv(c)'
    BY <1>1, <1>2, <2>1, <2>3, <2>4 DEF OpenInv
  <2> QED  BY <1>4, <1>6, <2>2, <2>5, ItemsOfOne
<1> QED  BY <1>7, <1>8

\* Rows of the other tables do not go to the file of the sales.
LEMMA OtherRow ==
  ASSUME IInv, ItemsInv, NEW c \in Children, PrintReturn(c) \/ PrintAddress(c)
  PROVE  ItemsInv'
<1>1. TypeOK /\ CtlInv(c) /\ OrdersInv(c) /\ OpenInv(c) /\ SaleInv(c)
  BY DEF IInv, ChildInv, ItemsInv
<1>2. /\ tab' = tab /\ row' = row /\ line' = line /\ item' = item /\ sale' = sale /\ open' = open
      /\ \/ pc[c] = "print_return" /\ pc' = [pc EXCEPT ![c] = "print_sale"]
         \/ pc[c] = "print_address" /\ pc' = [pc EXCEPT ![c] = "stop"]
  BY DEF PrintReturn, PrintAddress, Goto, ctlVars, rowVars
<1>3. \E t \in {"catalog_returns", "customer_address"} : \E r :
        file' = [file EXCEPT ![c][t] = Append(@, r)]
  BY DEF PrintReturn, PrintAddress, WriteRow
<1>4. /\ \A d \in Children \ {c} : Same(d)
      /\ Sold(c)' = Sold(c)
  <2>0. PICK t \in {"catalog_returns", "customer_address"} : \E r :
          file' = [file EXCEPT ![c] = [file[c] EXCEPT ![t] = Append(file[c][t], r)]]
    BY <1>3
  <2>1. PICK r : file' = [file EXCEPT ![c] = [file[c] EXCEPT ![t] = Append(file[c][t], r)]]
    BY <2>0
  <2>2. \A d \in Children \ {c} : file'[d] = file[d] /\ pc'[d] = pc[d]
    BY <1>1, <1>2, <2>1 DEF TypeOK
  <2>3. file'[c] = [file[c] EXCEPT ![t] = Append(file[c][t], r)]
    BY <1>1, <2>1 DEF TypeOK
  <2>4. "catalog_sales" \in DOMAIN file[c] /\ t # "catalog_sales"
    BY <1>1, <2>0 DEF TypeOK, Tables
  <2>5. file'[c]["catalog_sales"] = file[c]["catalog_sales"]
    BY <2>3, <2>4
  <2> QED  BY <1>2, <2>2, <2>5 DEF Same, Sold
<1>5. OrdersInv(c)'
  BY <1>1, <1>4, FileKept
<1>6. CASE pc[c] = "print_address"
  <2>1. "catalog_sales" \notin open'[c] /\ pc'[c] \notin LineLabels
    BY <1>1, <1>2, <1>6 DEF TypeOK, CtlInv, OpenInv, LineLabels
  <2> QED  BY <1>4, <1>5, <2>1, Closed, ItemsOfOne
<1>7. CASE pc[c] = "print_return"
  <2>1. pc'[c] = "print_sale"
    BY <1>1, <1>2, <1>7 DEF TypeOK
  <2>2. Taken(c)' = Taken(c) /\ \A r : WrittenInv(c, r)' <=> WrittenInv(c, r)
    BY <1>2, <1>7, <2>1 DEF Taken, WrittenInv, LineLabels
  <2>3. OpenInv(c)' /\ SaleInv(c)'
    BY <1>1, <1>2, <1>4, <1>7, <2>1, <2>2 DEF OpenInv, SaleInv, LineLabels
  <2> QED  BY <1>4, <1>5, <2>3, ItemsOfOne
<1> QED  BY <1>2, <1>6, <1>7

\* The row of a line follows those of the lines before it.
LEMMA SaleStep ==
  ASSUME IInv, ItemsInv, NEW c \in Children, PrintSale(c)
  PROVE  ItemsInv'
<1> DEFINE rows == Sold(c)
           new == sale[c]
           n == Len(rows)
<1>1. TypeOK /\ CtlInv(c) /\ OrdersInv(c) /\ OpenInv(c) /\ SaleInv(c)
  BY DEF IInv, ChildInv, ItemsInv
<1>2. /\ pc[c] = "print_sale" /\ "catalog_sales" \in open[c]
      /\ tab' = tab /\ row' = row /\ item' = item /\ sale' = sale /\ open' = open
      /\ \/ line' = [line EXCEPT ![c] = @ + 1] /\ pc' = [pc EXCEPT ![c] = "detail"]
         \/ line' = line /\ pc' = [pc EXCEPT ![c] = "stop"]
      /\ file' = [file EXCEPT ![c] = [file[c] EXCEPT !["catalog_sales"] = Append(rows, new)]]
  BY <1>1 DEF PrintSale, WriteRow, Goto, rowVars, Sold
<1>3. /\ \A d \in Children \ {c} : Same(d)
      /\ Sold(c)' = Append(rows, new)
  <2>1. file'[c] = [file[c] EXCEPT !["catalog_sales"] = Append(rows, new)]
    BY <1>1, <1>2 DEF TypeOK
  <2>2. "catalog_sales" \in DOMAIN file[c]
    BY <1>1 DEF TypeOK, Tables
  <2>3. file'[c]["catalog_sales"] = Append(rows, new)
    BY <2>1, <2>2
  <2>4. \A d \in Children \ {c} : Same(d)
    BY <1>1, <1>2 DEF Same, TypeOK
  <2> QED  BY <2>3, <2>4 DEF Sold
<1>4. /\ new.order = row[c] /\ new.line = line[c] /\ new.item = item[c]
      /\ row[c] \in Nat /\ line[c] \in 1 .. MaxLines /\ item[c] \in 1 .. ItemCount
      /\ MaxLines \in Nat /\ new \in SaleRows
  BY <1>1, <1>2, DsdgenAssumption DEF SaleInv, LineLabels, TypeOK
<1>5. new \in LineRows /\ Ahead(new.item, 0) = new.item
  BY <1>4, AheadDiffers DEF LineRows
<1>6. \A i \in 1 .. n : /\ rows[i] \in LineRows /\ rows[i].order <= row[c]
                        /\ rows[i].order = row[c] =>
                             /\ rows[i].line < line[c]
                             /\ item[c] = Ahead(rows[i].item, line[c] - rows[i].line)
  <2> SUFFICES ASSUME NEW i \in 1 .. n
               PROVE  /\ rows[i] \in LineRows /\ rows[i].order <= row[c]
                      /\ rows[i].order = row[c] =>
                           /\ rows[i].line < line[c]
                           /\ item[c] = Ahead(rows[i].item, line[c] - rows[i].line)
    OBVIOUS
  <2>1. rows[i] \in LineRows
    BY <1>1, RowOrders
  <2>2. WrittenInv(c, rows[i])
    BY <1>1, <1>2 DEF OpenInv
  <2>3. Taken(c) = line[c] /\ pc[c] \in LineLabels
    BY <1>2 DEF Taken, LineLabels
  <2> HIDE DEF rows
  <2> QED  BY <2>1, <2>2, <2>3 DEF WrittenInv
<1>7. /\ rows \in Seq(LineRows)
      /\ \A i, j \in 1 .. n : i < j /\ rows[i].order = rows[j].order =>
           /\ rows[i].line < rows[j].line
           /\ rows[j].item = Ahead(rows[i].item, rows[j].line - rows[i].line)
  BY <1>1 DEF OrdersInv
<1> DEFINE all == Append(rows, new)
<1> HIDE DEF rows, new
<1>8. /\ all \in Seq(LineRows) /\ n \in Nat /\ Len(all) = n + 1
      /\ \A i \in 1 .. n : all[i] = rows[i]
      /\ all[n + 1] = new
  BY <1>5, <1>7
<1> HIDE DEF all, n
<1>9. OrdersInv(c)'
  <2> SUFFICES ASSUME NEW i \in 1 .. n + 1, NEW j \in 1 .. n + 1,
                      i < j, all[i].order = all[j].order
               PROVE  /\ all[i].line < all[j].line
                      /\ all[j].item = Ahead(all[i].item, all[j].line - all[i].line)
    BY <1>3, <1>8 DEF OrdersInv, all
  <2>1. i \in 1 .. n /\ (j \in 1 .. n \/ j = n + 1)
    BY <1>8
  <2>2. CASE j \in 1 .. n
    BY <1>7, <1>8, <2>1, <2>2
  <2>3. CASE j = n + 1
    BY <1>4, <1>6, <1>8, <2>1, <2>3
  <2> QED  BY <2>1, <2>2, <2>3
<1>10. OpenInv(c)'
  <2>1. pc'[c] \in {"detail", "stop"} /\ row'[c] = row[c] /\ item'[c] = item[c] /\ tab' = tab
        /\ (pc'[c] = "detail" => line'[c] = line[c] + 1 /\ Taken(c)' = line[c])
    <3>1. CASE line' = [line EXCEPT ![c] = @ + 1] /\ pc' = [pc EXCEPT ![c] = "detail"]
      <4>1. pc'[c] = "detail" /\ line'[c] = line[c] + 1
        BY <1>1, <3>1 DEF TypeOK
      <4> QED  BY <1>2, <1>4, <4>1 DEF Taken
    <3>2. CASE line' = line /\ pc' = [pc EXCEPT ![c] = "stop"]
      BY <1>1, <1>2, <3>2 DEF TypeOK
    <3> QED  BY <1>2, <3>1, <3>2
  <2>2. tab[c] = 2
    BY <1>1, <1>2 DEF OpenInv
  <2>3. ASSUME NEW i \in 1 .. n + 1, NEW r, r = all[i] PROVE WrittenInv(c, r)'
    <3>1. /\ r.order <= row[c] /\ r.line \in Nat
          /\ r.order = row[c] => r.line <= line[c] /\ item[c] = Ahead(r.item, line[c] - r.line)
      <4>1. CASE i \in 1 .. n
        BY <1>4, <1>6, <1>8, <2>3, <4>1 DEF LineRows
      <4>2. CASE i = n + 1
        BY <1>4, <1>5, <1>8, <2>3, <4>2
      <4> QED  BY <1>8, <4>1, <4>2
    <3> QED  BY <1>4, <2>1, <3>1 DEF WrittenInv, LineLabels
  <2>4. \A i \in 1 .. Len(Sold(c)') : WrittenInv(c, Sold(c)[i])'
    <3> SUFFICES ASSUME NEW i \in 1 .. n + 1 PROVE WrittenInv(c, Sold(c)[i])'
      BY <1>3, <1>8 DEF all
    <3>1. Sold(c)'[i] = all[i]
      BY <1>3 DEF all
    <3> QED  BY <2>3, <3>1 DEF WrittenInv
  <2> QED  BY <2>1, <2>2, <2>4 DEF OpenInv
<1>11. SaleInv(c)'
  <2>1. pc'[c] \in {"detail", "stop"}
    BY <1>1, <1>2 DEF TypeOK
  <2> QED  BY <1>2, <1>4, <2>1 DEF SaleInv, LineLabels, new
<1> QED  BY <1>3, <1>9, <1>10, <1>11, ItemsOfOne

\* Every step keeps it.
LEMMA ItemsNext == ASSUME IInv, ItemsInv, [Next]_vars PROVE ItemsInv'
<1>1. CASE Next
  <2> SUFFICES ASSUME NEW c \in Children, Step(c) \/ Crash(c) \/ Restart(c)
               PROVE  ItemsInv'
    BY <1>1 DEF Next
  <2> QED
    BY ClosedStep, HeadStep, MasterStep, DetailStep, OpenStep, OtherRow, SaleStep DEF Step
<1>2. CASE UNCHANGED vars
  <2>1. \A d \in Children : Same(d)
    BY <1>2 DEF Same, vars, ctlVars, rowVars, outVars
  <2> QED  BY <2>1, SameInv DEF ItemsInv
<1> QED  BY <1>1, <1>2

-----------------------------------------------------------------------------
\* No order holds an item twice, however the order's lines are spread over the
\* draws: mk_detail's walk through the permutation does not come back to an
\* item before the order ends.
THEOREM ItemsUnique == ASSUME FitsInt PROVE Spec => []ItemsUniqueInOrder
<1>1. Init => ItemsInv
  BY ItemsInit
<1>2. IInv /\ ItemsInv /\ [Next]_vars => ItemsInv'
  BY ItemsNext
<1>3. IInv /\ ItemsInv => ItemsUniqueInOrder
  <2> SUFFICES ASSUME ItemsInv, NEW c \in Children,
                      NEW i \in 1 .. Len(Sold(c)), NEW j \in 1 .. Len(Sold(c)),
                      i < j, Sold(c)[i].order = Sold(c)[j].order
               PROVE  Sold(c)[i].item # Sold(c)[j].item
    <3>1. ASSUME NEW rows, NEW n \in Nat,
                 \A i, j \in 1 .. n : i < j /\ rows[i].order = rows[j].order
                                        => rows[i].item # rows[j].item
          PROVE  \A i, j \in 1 .. n : i # j /\ rows[i].order = rows[j].order
                                        => rows[i].item # rows[j].item
      <4> SUFFICES ASSUME NEW i \in 1 .. n, NEW j \in 1 .. n, i # j,
                          rows[i].order = rows[j].order
                   PROVE  rows[i].item # rows[j].item
        OBVIOUS
      <4>1. i < j \/ j < i
        OBVIOUS
      <4> QED  BY <3>1, <4>1
    <3>2. ASSUME ItemsInv, NEW c \in Children PROVE Len(Sold(c)) \in Nat
      BY <3>2 DEF ItemsInv, OrdersInv
    <3> QED  BY <3>1, <3>2 DEF ItemsUniqueInOrder, Sold
  <2> DEFINE a == Sold(c)[i]
             b == Sold(c)[j]
  <2>1. OrdersInv(c)
    BY DEF ItemsInv
  <2>2. a \in LineRows /\ b \in LineRows
    BY <2>1 DEF OrdersInv
  <2>3. a.line < b.line /\ b.item = Ahead(a.item, b.line - a.line)
    BY <2>1 DEF OrdersInv
  <2>4. a.item \in 1 .. ItemCount /\ a.line \in 1 .. MaxLines /\ b.line \in 1 .. MaxLines
    BY <2>2 DEF LineRows
  <2> HIDE DEF a, b
  <2>5. b.line - a.line \in 1 .. MaxLines - 1
    <3>1. MaxLines \in Nat
      BY DsdgenAssumption
    <3>2. a.line < b.line
      BY <2>3
    <3> QED  BY <2>4, <3>1, <3>2
  <2>6. a.item # b.item
    BY <2>3, <2>4, <2>5, AheadDiffers
  <2> QED  BY <2>6 DEF a, b
<1> QED  BY <1>1, <1>2, <1>3, Invariance, PTL DEF Spec

\* A process that runs without -FORCE changes no file it found in the
\* directory: print_start refuses to open it (print.c), and rows are only
\* written to open files.
THEOREM FilesKept == ASSUME FitsInt PROVE Spec => UnforcedKeepsFiles
<1> DEFINE Keeps(c, t) == ~ force[c] /\ t \notin open[c] => file'[c][t] = file[c][t]
<1>1. IInv /\ [Next]_vars => [\A c \in Children : \A t \in exists[c] : Keeps(c, t)]_vars
  <2> SUFFICES ASSUME TypeOK, Next, NEW d \in Children, NEW t \in exists[d],
                      ~ force[d], t \notin open[d]
               PROVE  file'[d][t] = file[d][t]
    BY DEF IInv
  <2>1. PICK c \in Children : Step(c) \/ Crash(c) \/ Restart(c)
    BY DEF Next
  <2>2. d \in DOMAIN file /\ t \in DOMAIN file[d]
    BY DEF TypeOK
  <2>3. CASE OpenFile(c)
    <3>1. c = d => t # Target(pc[c])
      BY <2>3 DEF OpenFile, Refused
    <3> QED  BY <2>2, <2>3, <3>1 DEF OpenFile
  <2>4. ASSUME NEW u, NEW r, WriteRow(c, u, r) PROVE file'[d][t] = file[d][t]
    <3>1. c = d => t # u
      BY <2>4 DEF WriteRow
    <3> QED  BY <2>2, <2>4, <3>1 DEF WriteRow
  <2>5. CASE PrintReturn(c) \/ PrintSale(c) \/ PrintAddress(c)
    BY <2>4, <2>5 DEF PrintReturn, PrintSale, PrintAddress
  <2>6. CASE SkipChildTable(c) \/ StartTable(c) \/ Exit(c) \/ EndTable(c)
               \/ BuildAddress(c) \/ BeginOrder(c) \/ SkipDay(c) \/ EndSkipDays(c)
               \/ NewDate(c) \/ MkMaster(c) \/ MkDetail(c) \/ MkDetailReturned(c)
               \/ RefuseFile(c) \/ RowStop(c) \/ Crash(c) \/ Restart(c)
    BY <2>6 DEF SkipChildTable, StartTable, Exit, EndTable, BuildAddress, BeginOrder,
       SkipDay, EndSkipDays, NewDate, MkMaster, MkDetail, MkDetailReturned,
       RefuseFile, RowStop, Crash, Restart, outVars
  <2> QED  BY <2>1, <2>3, <2>5, <2>6 DEF Step
<1> QED  BY <1>1, Invariance, PTL DEF Spec, UnforcedKeepsFiles

=============================================================================
