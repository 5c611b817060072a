----------------------------- MODULE DsdgenProps -----------------------------
(***************************************************************************)
(* What a parallel build of dsdgen must do: the serial build as reference, *)
(* and the properties stated against it.                                   *)
(***************************************************************************)
EXTENDS Dsdgen, FiniteSets, SequencesExt

(***************************************************************************)
(* The serial build, row by row and without state: with seed g, order o draws from      *)
(* position (o - 1) * budget of each stream on.                            *)
(***************************************************************************)

\* The orders dated on one of the days 0 .. d - 1, but for the one extra
\* order skipDays adds to day 0.
OrdersBefore[d \in Nat] ==
  IF d = 0 THEN 0 ELSE OrdersBefore[d - 1] + DateScaling(d - 1)

\* The day of order o in a serial build.
SerialDay(o) ==
  CHOOSE d \in 0 .. o : /\ o <= 1 + OrdersBefore[d + 1]
                        /\ d > 0 => o > 1 + OrdersBefore[d]

\* What the lines of order o share: when it is a gift, the customer it is
\* shipped to is drawn after the draw that decided so.
ShipOf(g, o) == IF g.gift[2 * (o - 1)] THEN 2 * (o - 1) + 1 ELSE 0

\* Line l takes the item l places after the one drawn for the order.
ItemOf(g, o, l) == ((g.item[o - 1] + l - 1) % ItemCount) + 1

\* Line l of order o, dated on day d.
SaleOf(g, d, o, l) ==
  LET nth == (o - 1) * MaxLines + (l - 1)
  IN [order |-> o, line |-> l, date |-> d, ship |-> ShipOf(g, o),
      perm |-> 0, item |-> ItemOf(g, o, l), lag |-> nth, nulls |-> 2 * nth]

IsReturned(g, o, l) == g.returned[(o - 1) * MaxLines + (l - 1)]

\* How many of the lines of order o before line l are returned.
ReturnsBefore(g, o, l) == Cardinality({m \in 1 .. l - 1 : IsReturned(g, o, m)})

\* The line of order o that its k-th return is of.
ReturnedLine(g, o, k) ==
  CHOOSE l \in 1 .. g.lines[o - 1] : IsReturned(g, o, l) /\ ReturnsBefore(g, o, l) = k - 1

ReturnOf(g, o, l) ==
  LET drawn == 2 * ((o - 1) * MaxLines + ReturnsBefore(g, o, l))
  IN [order |-> o, line |-> l, perm |-> 0, item |-> ItemOf(g, o, l),
      customer |-> IF g.regift[drawn + 1] THEN ShipOf(g, o) ELSE drawn,
      nulls |-> drawn]

AddressOf(r) == [row |-> r, place |-> 7 * (r - 1), nulls |-> 2 * (r - 1)]

\* The rows of table t that row r of its driver table is made into.
RowsOf(g, d, t, r) ==
  CASE t = "catalog_sales" -> [l \in 1 .. g.lines[r - 1] |-> SaleOf(g, d, r, l)]
    [] t = "catalog_returns" ->
         [k \in 1 .. ReturnsBefore(g, r, g.lines[r - 1] + 1) |->
            ReturnOf(g, r, ReturnedLine(g, r, k))]
    [] t = "customer_address" -> <<AddressOf(r)>>

\* The table whose rows, counted by split_work, the rows of t are made from.
Driver(t) == IF t = "catalog_returns" THEN "catalog_sales" ELSE t

\* What a serial build writes to table t for the rows of chunk c.
SerialSlice(g, c, t) ==
  LET nth(i) == First(c, Driver(t)) + i - 1
  IN FlattenSeq([i \in 1 .. Count(c, Driver(t)) |->
                   RowsOf(g, SerialDay(nth(i)), t, nth(i))])

\* skipDays reaches the chunk's first order with a day that starts on it.
StartsOnDayBoundary(c) ==
  \E d \in 1 .. Orders : First(c, "catalog_sales") = 1 + OrdersBefore[d]

-----------------------------------------------------------------------------
\* A chunk's file holds a prefix of what a serial build writes for its rows,
\* after any crashes and restarts, unless the chunk starts where a day starts
\* (see MatchesSerial).
SerialUnlessDayBoundary ==
  \A c \in Children : ~ StartsOnDayBoundary(c) =>
    \A t \in Tables : IsPrefix(file[c][t], SerialSlice(seed, c, t))

\* Once every child has ended well, the files together hold each line of each
\* order and each address exactly once.
FinishedBuildIsTheTable ==
  (\A c \in Children : pc[c] = "done") =>
    /\ \A o \in 1 .. Orders : \A l \in 1 .. seed.lines[o - 1] :
         Cardinality({w \in Children \X (1 .. Orders * MaxLines) :
           LET rows == file[w[1]]["catalog_sales"] IN
             w[2] <= Len(rows) /\ rows[w[2]].order = o /\ rows[w[2]].line = l}) = 1
    /\ \A r \in 1 .. TotalRows["customer_address"] :
         Cardinality({w \in Children \X (1 .. TotalRows["customer_address"]) :
           LET rows == file[w[1]]["customer_address"] IN
             w[2] <= Len(rows) /\ rows[w[2]].row = r}) = 1

\* "items need to be unique within an order" (mk_detail).
ItemsUniqueInOrder ==
  \A c \in Children : LET rows == file[c]["catalog_sales"] IN
    \A i, j \in 1 .. Len(rows) :
      i # j /\ rows[i].order = rows[j].order => rows[i].item # rows[j].item

\* A return is of a sale: its line is in the sales file, with its item; but
\* the return is written first, so a process that stops between the two leaves
\* one return, the last, without a sale.  A forced process empties the two files
\* one after the other, so that until it has opened that of the returns they may
\* be of two processes.
ReturnsHaveSales ==
  \A c \in Children :
    LET rets == file[c]["catalog_returns"]
        sold == file[c]["catalog_sales"]
        Sold(r) == \E i \in 1 .. Len(sold) :
          /\ sold[i].order = r.order /\ sold[i].line = r.line
          /\ sold[i].item = r.item /\ sold[i].perm = r.perm
    IN restarts = 0 \/ pc[c] = "done" \/ "catalog_returns" \in open[c] =>
         \A i \in 1 .. Len(rets) :
           Sold(rets[i]) \/ (i = Len(rets) /\ pc[c] # "done")

\* Without -FORCE a process leaves the files it finds as they are.
UnforcedKeepsFiles ==
  [][\A c \in Children : \A t \in exists[c] :
       ~ force[c] /\ t \notin open[c] => file'[c][t] = file[c][t]]_vars

\* A process that is not killed comes to its end.
ProcessesStop == \A c \in Children : <>[](pc[c] \in Stopped)

\* The files of a parallel build behave as ChunkFiles promises.
ChunkSpec == INSTANCE ChunkFiles WITH
  Kids <- Children, Names <- Tables, Slice <- SerialSlice

ImplementsChunkFiles == ChunkSpec!Spec

\* ReleaseNotes.txt:49 records "parallel data doesn't match serial
\* generation" as resolved: every chunk's file is a prefix of what a serial
\* build writes for its rows.
MatchesSerial ==
  \A c \in Children : \A t \in Tables : IsPrefix(file[c][t], SerialSlice(seed, c, t))
=============================================================================
