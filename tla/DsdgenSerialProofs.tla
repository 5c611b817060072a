-------------------------- MODULE DsdgenSerialProofs --------------------------
(***************************************************************************)
(* A parallel build writes what a serial build writes: the rows of every   *)
(* file, for any number of children, any sizes of the tables that an int   *)
(* can hold, any calendar, any seed and any number of crashes and          *)
(* restarts.                                                               *)
(***************************************************************************)
EXTENDS DsdgenProofs, Recursion, FiniteSetTheorems

-----------------------------------------------------------------------------
(***************************************************************************)
(* Days.                                                                   *)
(***************************************************************************)

\* The recursive definition of OrdersBefore, unfolded.
LEMMA OrdersBeforeFacts ==
  /\ \A d \in Nat : OrdersBefore[d] \in Nat
  /\ OrdersBefore[0] = 0
  /\ \A d \in Nat : OrdersBefore[d + 1] = OrdersBefore[d] + DateScaling(d)
<1> DEFINE F == [w \in Nat \X Nat |-> w[2] + DateScaling(w[1])]
<1>1. F \in [Nat \X Nat -> Nat]
  BY DaysNotEmpty
<1>2. \A d \in Nat, n \in Nat : F[<<d, n>>] = n + DateScaling(d)
  OBVIOUS
<1> HIDE DEF F
<1>3. PICK h : Satisfies(h, 0, F)
  BY <1>1, RecursionDefines
<1>4. Iterates(h, Nat, 0, F)
  BY <1>1, <1>3, RecursionUnfolds
<1>5. h = [d \in Nat |-> IF d = 0 THEN 0 ELSE h[d - 1] + DateScaling(d - 1)]
  <2>1. ASSUME NEW d \in Nat, d # 0
        PROVE  F[<<d - 1, h[d - 1]>>] = h[d - 1] + DateScaling(d - 1)
    <3>1. d - 1 \in Nat
      BY <2>1
    <3>2. h[d - 1] \in Nat
      BY <1>4, <3>1 DEF Iterates
    <3> QED  BY <1>2, <3>1, <3>2
  <2>2. \A d \in Nat : h[d] = IF d = 0 THEN 0 ELSE F[<<d - 1, h[d - 1]>>]
    BY <1>3 DEF Satisfies
  <2>3. \A d \in Nat : h[d] = IF d = 0 THEN 0 ELSE h[d - 1] + DateScaling(d - 1)
    BY <2>1, <2>2
  <2>4. h = [d \in Nat |-> h[d]]
    BY <1>4 DEF Iterates
  <2> QED  BY <2>3, <2>4
<1>6. OrdersBefore = [d \in Nat |->
        IF d = 0 THEN 0 ELSE OrdersBefore[d - 1] + DateScaling(d - 1)]
  BY <1>5 DEF OrdersBefore
<1>7. \A d \in Nat :
        OrdersBefore[d] = IF d = 0 THEN 0 ELSE OrdersBefore[d - 1] + DateScaling(d - 1)
  BY <1>6
<1>8. OrdersBefore[0] = 0
  BY <1>7
<1>9. ASSUME NEW d \in Nat PROVE OrdersBefore[d + 1] = OrdersBefore[d] + DateScaling(d)
  <2>1. d + 1 \in Nat /\ d + 1 # 0 /\ d + 1 - 1 = d
    OBVIOUS
  <2> QED  BY <1>7, <2>1
<1> DEFINE G == {d \in Nat : OrdersBefore[d] \in Nat}
<1>10. 0 \in G
  BY <1>8
<1>11. ASSUME NEW d \in G PROVE d + 1 \in G
  BY <1>9, DaysNotEmpty
<1> HIDE DEF G
<1>12. G = Nat
  BY <1>10, <1>11, InductionSet DEF G
<1>13. \A d \in Nat : OrdersBefore[d] \in Nat
  BY <1>12 DEF G
<1> QED  BY <1>8, <1>9, <1>13

\* Every day has an order at least.
LEMMA OrdersBeforeGrows ==
  ASSUME NEW d \in Nat, NEW n \in Nat
  PROVE  OrdersBefore[d + n] >= OrdersBefore[d] + n
<1> DEFINE G == {k \in Nat : OrdersBefore[d + k] >= OrdersBefore[d] + k}
<1>1. 0 \in G
  BY OrdersBeforeFacts
<1>2. ASSUME NEW k \in G PROVE k + 1 \in G
  <2> DEFINE e == d + k
  <2>1. e \in Nat /\ e + 1 = d + (k + 1) /\ k \in Nat
    OBVIOUS
  <2>2. OrdersBefore[e] >= OrdersBefore[d] + k
    OBVIOUS
  <2> HIDE DEF e, G
  <2>3. /\ OrdersBefore[e + 1] = OrdersBefore[e] + DateScaling(e)
        /\ OrdersBefore[e] \in Nat /\ OrdersBefore[d] \in Nat
        /\ DateScaling(e) \in Nat \ {0}
    BY <2>1, OrdersBeforeFacts, DaysNotEmpty
  <2>4. OrdersBefore[e + 1] >= OrdersBefore[d] + (k + 1)
    BY <2>1, <2>2, <2>3
  <2> QED  BY <2>1, <2>4 DEF G
<1> HIDE DEF G
<1>3. G = Nat
  BY <1>1, <1>2, InductionSet DEF G
<1> QED  BY <1>3 DEF G

\* The orders by which a chunk that starts where a day starts is late: skipDays
\* stops at that day and counts its first order as its only one.
Shift(c) ==
  IF StartsOnDayBoundary(c)
  THEN DateScaling(CHOOSE d \in 1 .. Orders : First(c, "catalog_sales") = 1 + OrdersBefore[d])
  ELSE 0

\* The last order child c dates day d.
LastOrder(c, d) == 1 + OrdersBefore[d + 1] - Shift(c)

IsDay(c, o, d) == o <= LastOrder(c, d) /\ (d > 0 => o > LastOrder(c, d - 1))

\* The day child c dates order o.
ChunkDay(c, o) == CHOOSE d \in Nat : IsDay(c, o, d)

\* A shift is a number, 0 unless the chunk starts where a day starts.
LEMMA ShiftFacts ==
  ASSUME NEW c \in Children
  PROVE  /\ Shift(c) \in Nat
         /\ ~ StartsOnDayBoundary(c) => Shift(c) = 0
<1>1. CASE StartsOnDayBoundary(c)
  <2> DEFINE d == CHOOSE d \in 1 .. Orders : First(c, "catalog_sales") = 1 + OrdersBefore[d]
  <2>1. \E e \in 1 .. Orders : First(c, "catalog_sales") = 1 + OrdersBefore[e]
    BY <1>1 DEF StartsOnDayBoundary
  <2>2. d \in 1 .. Orders
    BY <2>1
  <2>3. d \in Nat
    BY <2>2
  <2> HIDE DEF d
  <2>4. DateScaling(d) \in Nat
    BY <2>3, DaysNotEmpty
  <2> QED  BY <1>1, <2>4 DEF Shift, d
<1>2. CASE ~ StartsOnDayBoundary(c)
  BY <1>2 DEF Shift
<1> QED  BY <1>1, <1>2

\* The last order of a day is that of the day before and as many more as the
\* day has.
LEMMA LastOrderFacts ==
  ASSUME NEW c \in Children, NEW d \in Nat
  PROVE  /\ LastOrder(c, d) \in Int
         /\ LastOrder(c, d + 1) = LastOrder(c, d) + DateScaling(d + 1)
         /\ \A e \in Nat : e > d => LastOrder(c, e) > LastOrder(c, d)
         /\ LastOrder(c, d) >= d + 2 - Shift(c)
<1>1. /\ Shift(c) \in Nat /\ OrdersBefore[d + 1] \in Nat /\ OrdersBefore[d + 1 + 1] \in Nat
      /\ OrdersBefore[d + 1 + 1] = OrdersBefore[d + 1] + DateScaling(d + 1)
      /\ DateScaling(d + 1) \in Nat
  BY ShiftFacts, OrdersBeforeFacts, DaysNotEmpty
<1>2. ASSUME NEW e \in Nat, e > d PROVE LastOrder(c, e) > LastOrder(c, d)
  <2> DEFINE n == e - d
  <2>1. n \in Nat \ {0} /\ e + 1 = (d + 1) + n /\ d + 1 \in Nat
    BY <1>2
  <2> HIDE DEF n
  <2>2. OrdersBefore[(d + 1) + n] >= OrdersBefore[d + 1] + n /\ OrdersBefore[(d + 1) + n] \in Nat
    <3>1. d + 1 \in Nat /\ n \in Nat /\ (d + 1) + n \in Nat
      BY <2>1
    <3> QED  BY <3>1, OrdersBeforeGrows, OrdersBeforeFacts
  <2>3. OrdersBefore[e + 1] > OrdersBefore[d + 1] /\ OrdersBefore[e + 1] \in Nat
    BY <1>1, <2>1, <2>2
  <2> QED  BY <1>1, <2>3 DEF LastOrder
<1>3. OrdersBefore[d + 1] >= d + 1
  <2>1. OrdersBefore[0 + (d + 1)] >= OrdersBefore[0] + (d + 1)
    BY OrdersBeforeGrows
  <2> QED  BY <2>1, OrdersBeforeFacts
<1> QED  BY <1>1, <1>2, <1>3 DEF LastOrder

\* Every order has one day.
LEMMA OneDay ==
  ASSUME NEW c \in Children, NEW o \in Nat
  PROVE  /\ ChunkDay(c, o) \in Nat /\ IsDay(c, o, ChunkDay(c, o))
         /\ \A d \in Nat : IsDay(c, o, d) => d = ChunkDay(c, o)
<1> DEFINE T == {d \in Nat : o <= LastOrder(c, d)}
<1>1. T # {}
  <2>1. Shift(c) \in Nat
    BY ShiftFacts
  <2> DEFINE d == o + Shift(c)
  <2>2. d \in Nat /\ d + 2 - Shift(c) = o + 2
    BY <2>1
  <2> HIDE DEF d
  <2>3. LastOrder(c, d) >= d + 2 - Shift(c) /\ LastOrder(c, d) \in Int
    BY <2>2, LastOrderFacts
  <2>4. o <= LastOrder(c, d)
    BY <2>2, <2>3
  <2> QED  BY <2>2, <2>4
<1>2. PICK d \in T : \A e \in T : d <= e
  BY <1>1, LeastElement
<1>3. IsDay(c, o, d)
  <2>1. ASSUME d > 0 PROVE o > LastOrder(c, d - 1)
    <3>1. d - 1 \in Nat /\ d - 1 \notin T
      BY <1>2, <2>1
    <3>2. LastOrder(c, d - 1) \in Int
      BY <3>1, LastOrderFacts
    <3> QED  BY <3>1, <3>2
  <2> QED  BY <2>1 DEF IsDay
<1>4. ASSUME NEW a \in Nat, NEW b \in Nat, IsDay(c, o, a), IsDay(c, o, b), a < b PROVE FALSE
  <2>1. o <= LastOrder(c, a) /\ o > LastOrder(c, b - 1) /\ b - 1 \in Nat /\ b - 1 >= a
    BY <1>4 DEF IsDay
  <2>2. LastOrder(c, a) \in Int /\ LastOrder(c, b - 1) \in Int
    BY <2>1, LastOrderFacts
  <2>3. b - 1 = a \/ LastOrder(c, b - 1) > LastOrder(c, a)
    <3>1. b - 1 > a => LastOrder(c, b - 1) > LastOrder(c, a)
      BY <2>1, LastOrderFacts
    <3> QED  BY <2>1, <3>1
  <2> QED  BY <2>1, <2>2, <2>3
<1>5. \A a \in Nat, b \in Nat : IsDay(c, o, a) /\ IsDay(c, o, b) => a = b
  BY <1>4
<1>6. d \in Nat
  OBVIOUS
<1> HIDE DEF T
<1>7. ChunkDay(c, o) \in Nat /\ IsDay(c, o, ChunkDay(c, o))
  BY <1>3, <1>6 DEF ChunkDay
<1> QED  BY <1>5, <1>7

\* Where no day starts with the chunk the days are those of a serial build.
LEMMA SerialDays ==
  ASSUME NEW c \in Children, ~ StartsOnDayBoundary(c), NEW o \in Nat
  PROVE  ChunkDay(c, o) = SerialDay(o)
<1> DEFINE d == ChunkDay(c, o)
           P(e) == /\ o <= 1 + OrdersBefore[e + 1]
                   /\ e > 0 => o > 1 + OrdersBefore[e]
<1>1. Shift(c) = 0
  BY ShiftFacts
<1>2. ASSUME NEW e \in Nat PROVE P(e) <=> IsDay(c, o, e)
  <2>1. LastOrder(c, e) = 1 + OrdersBefore[e + 1]
    BY <1>1, OrdersBeforeFacts DEF LastOrder
  <2>2. e > 0 => LastOrder(c, e - 1) = 1 + OrdersBefore[e]
    <3> SUFFICES ASSUME e > 0 PROVE LastOrder(c, e - 1) = 1 + OrdersBefore[e]
      OBVIOUS
    <3>1. e - 1 + 1 = e /\ OrdersBefore[e] \in Nat
      BY OrdersBeforeFacts
    <3> QED  BY <1>1, <3>1 DEF LastOrder
  <2> QED  BY <2>1, <2>2 DEF IsDay
<1>3. d \in Nat /\ P(d) /\ \A e \in Nat : P(e) => e = d
  BY <1>2, OneDay
<1> HIDE DEF d
<1>4. d \in 0 .. o
  <2>1. OrdersBefore[0 + d] >= OrdersBefore[0] + d
    BY <1>3, OrdersBeforeGrows
  <2>2. OrdersBefore[d] >= d /\ OrdersBefore[d] \in Nat
    BY <1>3, <2>1, OrdersBeforeFacts
  <2> QED  BY <1>3, <2>2
<1>5. \A e \in 0 .. o : P(e) => e = d
  BY <1>3
<1> DEFINE x == CHOOSE e \in 0 .. o : P(e)
<1>6. x \in 0 .. o /\ P(x)
  BY <1>3, <1>4
<1>7. x = d
  BY <1>5, <1>6
<1>8. SerialDay(o) = x
  BY DEF SerialDay
<1> QED  BY <1>7, <1>8 DEF d

-----------------------------------------------------------------------------
(***************************************************************************)
(* The rows of an order.                                                   *)
(***************************************************************************)

\* The lines of order o.
LinesIn(g, o) == g.lines[o - 1]

\* The draws of an order of the table are of these kinds.
LEMMA SeedFacts ==
  ASSUME NEW g \in Seeds, NEW o \in 1 .. Orders
  PROVE  /\ LinesIn(g, o) \in MinLines .. MaxLines /\ LinesIn(g, o) \in Nat \ {0}
         /\ g.item[o - 1] \in 1 .. ItemCount
<1>1. o - 1 \in 0 .. Orders - 1
  BY DsdgenAssumption DEF Orders
<1> QED  BY <1>1, SeedsAssumption, DsdgenAssumption DEF LinesIn

\* The count of returned lines: one more for every line that is returned.
LEMMA ReturnsCounted ==
  ASSUME NEW g, NEW o
  PROVE  /\ ReturnsBefore(g, o, 1) = 0
         /\ \A l \in Nat \ {0} :
              /\ ReturnsBefore(g, o, l) \in Nat
              /\ ReturnsBefore(g, o, l + 1) =
                   ReturnsBefore(g, o, l) + (IF IsReturned(g, o, l) THEN 1 ELSE 0)
<1> DEFINE R(l) == {m \in 1 .. l - 1 : IsReturned(g, o, m)}
<1>1. R(1) = {}
  OBVIOUS
<1>2. ASSUME NEW l \in Nat \ {0} PROVE IsFiniteSet(R(l))
  <2>1. IsFiniteSet(1 .. l - 1)
    BY FS_Interval
  <2> QED  BY <2>1, FS_Subset
<1>3. ASSUME NEW l \in Nat \ {0}
      PROVE  /\ Cardinality(R(l)) \in Nat
             /\ Cardinality(R(l + 1)) = Cardinality(R(l)) + (IF IsReturned(g, o, l) THEN 1 ELSE 0)
  <2>1. IsFiniteSet(R(l)) /\ l \notin R(l)
    BY <1>2
  <2>2. Cardinality(R(l)) \in Nat
    BY <2>1, FS_CardinalityType
  <2>3. CASE IsReturned(g, o, l)
    <3>1. R(l + 1) = R(l) \cup {l}
      BY <2>3
    <3> HIDE DEF R
    <3>2. Cardinality(R(l) \cup {l}) = Cardinality(R(l)) + 1
      BY <2>1, FS_AddElement
    <3> QED  BY <2>2, <2>3, <3>1, <3>2
  <2>4. CASE ~ IsReturned(g, o, l)
    <3>1. R(l + 1) = R(l)
      BY <2>4
    <3> HIDE DEF R
    <3> QED  BY <2>2, <2>4, <3>1
  <2> HIDE DEF R
  <2> QED  BY <2>2, <2>3, <2>4
<1>4. Cardinality(R(1)) = 0
  BY <1>1, FS_EmptySet
<1> QED  BY <1>3, <1>4 DEF ReturnsBefore

\* A count is a number.
LEMMA ReturnsAreCounted ==
  ASSUME NEW g, NEW o, NEW l \in Nat \ {0}
  PROVE  ReturnsBefore(g, o, l) \in Nat
BY ReturnsCounted

\* More lines have no fewer returns.
LEMMA ReturnsGrow ==
  ASSUME NEW g, NEW o, NEW l \in Nat \ {0}, NEW m \in Nat, l <= m
  PROVE  /\ ReturnsBefore(g, o, l) <= ReturnsBefore(g, o, m)
         /\ ReturnsBefore(g, o, m) - ReturnsBefore(g, o, l) <= m - l
<1> DEFINE b(k) == ReturnsBefore(g, o, k)
           G == {n \in Nat : b(l) <= b(l + n) /\ b(l + n) - b(l) <= n}
<1>1. 0 \in G
  <2>1. b(l) \in Nat /\ l + 0 = l
    BY ReturnsAreCounted
  <2> HIDE DEF b
  <2> QED  BY <2>1
<1>2. ASSUME NEW n \in G PROVE n + 1 \in G
  <2> DEFINE e == l + n
  <2>1. e \in Nat \ {0} /\ e + 1 = l + (n + 1) /\ n \in Nat
    OBVIOUS
  <2>2. b(l) <= b(e) /\ b(e) - b(l) <= n
    OBVIOUS
  <2> HIDE DEF e, G
  <2>3. b(l) \in Nat /\ b(e) \in Nat /\ b(e + 1) = b(e) + (IF IsReturned(g, o, e) THEN 1 ELSE 0)
    BY <2>1, ReturnsCounted
  <2> HIDE DEF b
  <2>4. b(l) <= b(e + 1) /\ b(e + 1) - b(l) <= n + 1
    BY <2>1, <2>2, <2>3
  <2> QED  BY <2>1, <2>4 DEF G
<1> HIDE DEF G
<1>3. G = Nat
  BY <1>1, <1>2, InductionSet DEF G
<1>4. m - l \in G
  BY <1>3
<1>5. l + (m - l) = m
  OBVIOUS
<1> QED  BY <1>4, <1>5 DEF G

\* A returned line is the one its place among the returned lines says.
LEMMA ReturnedLineIs ==
  ASSUME NEW g, NEW o, LinesIn(g, o) \in Nat, NEW l \in 1 .. LinesIn(g, o), IsReturned(g, o, l)
  PROVE  ReturnedLine(g, o, ReturnsBefore(g, o, l) + 1) = l
<1> DEFINE b(m) == ReturnsBefore(g, o, m)
           k == b(l) + 1
           x == ReturnedLine(g, o, k)
<1>1. ASSUME NEW m \in Nat \ {0}, NEW n \in Nat \ {0}, IsReturned(g, o, m), m < n
      PROVE  b(m) < b(n)
  <2>1. b(m) \in Nat /\ b(m + 1) = b(m) + 1 /\ b(n) \in Nat
    BY <1>1, ReturnsCounted
  <2>2. b(m + 1) <= b(n)
    <3>1. m + 1 \in Nat \ {0} /\ m + 1 <= n
      BY <1>1
    <3> QED  BY <3>1, ReturnsGrow
  <2> QED  BY <2>1, <2>2
<1>2. b(l) \in Nat /\ l \in Nat \ {0}
  <2>1. l \in Nat \ {0}
    OBVIOUS
  <2> QED  BY <2>1, ReturnsCounted
<1>3. b(l) = k - 1
  BY <1>2
<1> HIDE DEF k
<1>4. \E m \in 1 .. LinesIn(g, o) : IsReturned(g, o, m) /\ ReturnsBefore(g, o, m) = k - 1
  BY <1>3, Zenon
<1>5. x \in 1 .. LinesIn(g, o) /\ IsReturned(g, o, x) /\ b(x) = k - 1
  BY <1>4, Zenon DEF ReturnedLine, LinesIn
<1> HIDE DEF x
<1>6. x \in Nat \ {0} /\ b(x) = b(l) /\ IsReturned(g, o, x)
  BY <1>3, <1>5
<1>7. ~ (x < l) /\ ~ (l < x)
  BY <1>1, <1>2, <1>6
<1>8. x = l
  BY <1>2, <1>6, <1>7
<1> QED  BY <1>8 DEF x, k

\* As many lines are returned as the count says: it passes every number below.
LEMMA CountHasLine ==
  ASSUME NEW g, NEW o, NEW n \in Nat, NEW k \in Nat, k < ReturnsBefore(g, o, n + 1)
  PROVE  \E l \in 1 .. n : IsReturned(g, o, l) /\ ReturnsBefore(g, o, l) = k
<1> DEFINE b(m) == ReturnsBefore(g, o, m)
           T == {m \in Nat : k < b(m + 1)}
<1>1. \A m \in Nat : b(m + 1) \in Nat
  <2> TAKE m \in Nat
  <2>1. m + 1 \in Nat \ {0}
    OBVIOUS
  <2> QED  BY <2>1, ReturnsAreCounted
<1>2. n \in T
  OBVIOUS
<1>3. PICK l \in T : \A m \in T : l <= m
  <2>1. T # {}
    BY <1>2
  <2> HIDE DEF T
  <2>2. T \subseteq Nat
    BY DEF T
  <2> QED  BY <2>1, <2>2, LeastElement
<1>4. l \in Nat /\ k < b(l + 1) /\ l <= n
  BY <1>2, <1>3
<1>5. l # 0
  <2>1. b(0 + 1) = 0
    BY ReturnsCounted
  <2> HIDE DEF b, T
  <2> QED  BY <1>4, <2>1
<1>6. l \in Nat \ {0} /\ l - 1 \in Nat /\ l - 1 + 1 = l
  BY <1>4, <1>5
<1>7. ~ (k < b(l))
  <2>1. l - 1 \notin T
    <3> HIDE DEF T, b
    <3> QED  BY <1>3, <1>4, <1>6
  <2> QED  BY <1>6, <2>1
<1>8. b(l) \in Nat /\ b(l + 1) = b(l) + (IF IsReturned(g, o, l) THEN 1 ELSE 0)
  BY <1>6, ReturnsCounted
<1>9. IsReturned(g, o, l) /\ b(l) = k
  <2> HIDE DEF b, T
  <2> QED  BY <1>4, <1>7, <1>8
<1>10. l \in 1 .. n
  BY <1>4, <1>6
<1> QED  BY <1>9, <1>10

\* The k-th return of an order is of a returned line with k - 1 before it.
LEMMA ReturnedLineFacts ==
  ASSUME NEW g, NEW o, LinesIn(g, o) \in Nat,
         NEW k \in 1 .. ReturnsBefore(g, o, LinesIn(g, o) + 1)
  PROVE  /\ ReturnedLine(g, o, k) \in 1 .. LinesIn(g, o)
         /\ IsReturned(g, o, ReturnedLine(g, o, k))
         /\ ReturnsBefore(g, o, ReturnedLine(g, o, k)) = k - 1
<1> DEFINE N == LinesIn(g, o)
<1>1. k - 1 \in Nat /\ k - 1 < ReturnsBefore(g, o, N + 1)
  <2>1. N + 1 \in Nat \ {0}
    OBVIOUS
  <2>2. ReturnsBefore(g, o, N + 1) \in Nat
    BY <2>1, ReturnsAreCounted
  <2> QED  BY <2>2
<1>2. \E l \in 1 .. N : IsReturned(g, o, l) /\ ReturnsBefore(g, o, l) = k - 1
  <2> HIDE DEF N
  <2>1. N \in Nat
    BY DEF N
  <2> QED  BY <1>1, <2>1, CountHasLine
<1> QED  BY <1>2, Zenon DEF ReturnedLine, LinesIn

-----------------------------------------------------------------------------
(***************************************************************************)
(* The rows of a chunk.                                                    *)
(***************************************************************************)

AllRows == SaleRows \union ReturnRows \union AddressRows

\* The rows of a driver table.
DriverRows(t) == 1 .. TotalRows[Driver(t)]

\* The rows of table t that row r of its driver table is made into, dated as
\* child c dates them.
DayRows(g, c, t, r) == RowsOf(g, ChunkDay(c, r), t, r)

\* The rows of table t that the first n rows of the chunk are made into.
Built(g, c, t, n) ==
  FlattenSeq([i \in 1 .. n |-> DayRows(g, c, t, First(c, Driver(t)) + i - 1)])

\* The rows of table t that child c has to write.
ChunkSlice(g, c, t) == Built(g, c, t, Count(c, Driver(t)))

\* The first k elements of s.
Part(s, k) == [i \in 1 .. k |-> s[i]]

\* Those of the first n rows of the chunk, and k of those of the row after.
Written(g, c, t, n, k) ==
  Built(g, c, t, n) \o Part(DayRows(g, c, t, First(c, Driver(t)) + n), k)

\* What each table's rows are.
LEMMA RowsAre ==
  ASSUME NEW g, NEW c, NEW r
  PROVE  /\ DayRows(g, c, "catalog_sales", r) =
              [l \in 1 .. LinesIn(g, r) |-> SaleOf(g, ChunkDay(c, r), r, l)]
         /\ DayRows(g, c, "catalog_returns", r) =
              [k \in 1 .. ReturnsBefore(g, r, LinesIn(g, r) + 1) |->
                 ReturnOf(g, r, ReturnedLine(g, r, k))]
         /\ DayRows(g, c, "customer_address", r) = <<AddressOf(r)>>
<1>1. \A d :
         /\ RowsOf(g, d, "catalog_sales", r) =
              [l \in 1 .. g.lines[r - 1] |-> SaleOf(g, d, r, l)]
         /\ RowsOf(g, d, "catalog_returns", r) =
              [k \in 1 .. ReturnsBefore(g, r, g.lines[r - 1] + 1) |->
                 ReturnOf(g, r, ReturnedLine(g, r, k))]
         /\ RowsOf(g, d, "customer_address", r) = <<AddressOf(r)>>
  BY ZenonT(40) DEF RowsOf
<1> QED  BY <1>1, Zenon DEF DayRows, LinesIn

\* The rows have the columns of their table.
LEMMA SaleTyped ==
  ASSUME NEW g \in Seeds, NEW o \in 1 .. Orders, NEW l \in Nat \ {0}, NEW d \in Nat
  PROVE  SaleOf(g, d, o, l) \in SaleRows /\ ReturnOf(g, o, l) \in ReturnRows
<1>1. o \in Nat \ {0} /\ MaxLines \in Nat /\ g.item[o - 1] \in Nat \ {0} /\ ItemCount \in Nat \ {0}
  BY SeedFacts, DsdgenAssumption DEF Orders
<1> DEFINE nth == (o - 1) * MaxLines + (l - 1)
           drawn == 2 * ((o - 1) * MaxLines + ReturnsBefore(g, o, l))
<1>2. (o - 1) * MaxLines \in Nat
  BY <1>1, NextRow
<1>3. nth \in Nat
  BY <1>2
<1>4. drawn \in Nat
  <2>1. ReturnsBefore(g, o, l) \in Nat
    BY ReturnsAreCounted
  <2> QED  BY <1>2, <2>1
<1>5. ItemOf(g, o, l) \in Nat
  <2>1. g.item[o - 1] + l - 1 \in Nat
    BY <1>1
  <2> QED  BY <1>1, <2>1 DEF ItemOf
<1>6. ShipOf(g, o) \in Nat
  BY <1>1 DEF ShipOf
<1>7. SaleOf(g, d, o, l) =
        [order |-> o, line |-> l, date |-> d, ship |-> ShipOf(g, o),
         perm |-> 0, item |-> ItemOf(g, o, l), lag |-> nth, nulls |-> 2 * nth]
  BY DEF SaleOf
<1>8. ReturnOf(g, o, l) =
        [order |-> o, line |-> l, perm |-> 0, item |-> ItemOf(g, o, l),
         customer |-> IF g.regift[drawn + 1] THEN ShipOf(g, o) ELSE drawn,
         nulls |-> drawn]
  BY DEF ReturnOf
<1> HIDE DEF nth, drawn
<1>9. SaleOf(g, d, o, l) \in SaleRows
  BY <1>1, <1>3, <1>5, <1>6, <1>7 DEF SaleRows
<1>10. ReturnOf(g, o, l) \in ReturnRows
  BY <1>1, <1>4, <1>5, <1>6, <1>8 DEF ReturnRows
<1> QED  BY <1>9, <1>10

\* The rows of a driver row are a sequence of rows.
LEMMA RowsTyped ==
  ASSUME NEW g \in Seeds, NEW c \in Children, NEW t \in Tables, NEW r \in DriverRows(t)
  PROVE  DayRows(g, c, t, r) \in Seq(AllRows)
<1>1. r \in Nat
  BY DsdgenAssumption DEF DriverRows, Driver, Tables
<1>2. CASE t = "catalog_sales"
  <2>1. r \in 1 .. Orders /\ ChunkDay(c, r) \in Nat
    BY <1>1, <1>2, OneDay DEF DriverRows, Driver, Orders
  <2>2. LinesIn(g, r) \in Nat
    BY <2>1, SeedFacts
  <2> DEFINE N == LinesIn(g, r)
             e(l) == SaleOf(g, ChunkDay(c, r), r, l)
  <2>3. \A l \in 1 .. N : e(l) \in AllRows
    <3> TAKE l \in 1 .. N
    <3>1. l \in Nat \ {0}
      BY <2>2
    <3> QED  BY <2>1, <3>1, SaleTyped DEF AllRows
  <2>4. DayRows(g, c, t, r) = [l \in 1 .. N |-> e(l)]
    BY <1>2, RowsAre
  <2> HIDE DEF N, e
  <2>5. N \in Nat
    BY <2>2 DEF N
  <2>6. [l \in 1 .. N |-> e(l)] \in Seq(AllRows)
    BY <2>3, <2>5
  <2> QED  BY <2>4, <2>6
<1>3. CASE t = "catalog_returns"
  <2>1. r \in 1 .. Orders
    BY <1>3 DEF DriverRows, Driver, Orders
  <2>2. LinesIn(g, r) \in Nat
    BY <2>1, SeedFacts
  <2> DEFINE N == ReturnsBefore(g, r, LinesIn(g, r) + 1)
             e(k) == ReturnOf(g, r, ReturnedLine(g, r, k))
  <2>3. \A k \in 1 .. N : e(k) \in AllRows
    <3> TAKE k \in 1 .. N
    <3>1. ReturnedLine(g, r, k) \in 1 .. LinesIn(g, r)
      BY <2>2, ReturnedLineFacts
    <3>2. ReturnedLine(g, r, k) \in Nat \ {0}
      BY <2>2, <3>1
    <3>3. 0 \in Nat
      OBVIOUS
    <3> QED  BY <2>1, <3>2, <3>3, SaleTyped DEF AllRows
  <2>4. DayRows(g, c, t, r) = [k \in 1 .. N |-> e(k)]
    BY <1>3, RowsAre
  <2>5. N \in Nat
    <3>1. LinesIn(g, r) + 1 \in Nat \ {0}
      BY <2>2
    <3> QED  BY <3>1, ReturnsAreCounted
  <2> HIDE DEF N, e
  <2>6. [k \in 1 .. N |-> e(k)] \in Seq(AllRows)
    BY <2>3, <2>5
  <2> QED  BY <2>4, <2>6
<1>4. CASE t = "customer_address"
  <2>1. r \in Nat \ {0}
    BY <1>1 DEF DriverRows
  <2>2. AddressOf(r) \in AllRows
    BY <2>1 DEF AddressOf, AddressRows, AllRows
  <2>3. DayRows(g, c, t, r) = <<AddressOf(r)>>
    BY <1>4, RowsAre
  <2> QED  BY <2>2, <2>3
<1> QED  BY <1>2, <1>3, <1>4 DEF Tables

\* The first elements of a sequence.
LEMMA PartFacts ==
  ASSUME NEW S, NEW s \in Seq(S), NEW k \in 0 .. Len(s)
  PROVE  /\ Part(s, k) \in Seq(S) /\ Len(Part(s, k)) = k
         /\ \A i \in 1 .. k : Part(s, k)[i] = s[i]
         /\ Part(s, 0) = <<>> /\ Part(s, Len(s)) = s
         /\ k < Len(s) => Part(s, k + 1) = Append(Part(s, k), s[k + 1])
<1>1. k \in Nat /\ Len(s) \in Nat /\ \A i \in 1 .. Len(s) : s[i] \in S
  OBVIOUS
<1>2. Part(s, k) \in Seq(S) /\ Len(Part(s, k)) = k /\ \A i \in 1 .. k : Part(s, k)[i] = s[i]
  BY <1>1 DEF Part
<1>3. Part(s, 0) = <<>> /\ Part(s, Len(s)) = s
  BY DEF Part
<1>4. ASSUME k < Len(s) PROVE Part(s, k + 1) = Append(Part(s, k), s[k + 1])
  <2> DEFINE a == Append(Part(s, k), s[k + 1])
             p == Part(s, k + 1)
  <2>1. p \in Seq(S) /\ Len(p) = k + 1 /\ \A i \in 1 .. k + 1 : p[i] = s[i]
    BY <1>1, <1>4 DEF Part
  <2>2. a \in Seq(S) /\ Len(a) = k + 1 /\ a[k + 1] = s[k + 1] /\ \A i \in 1 .. k : a[i] = s[i]
    BY <1>1, <1>2, <1>4
  <2> HIDE DEF a, p
  <2>3. \A i \in 1 .. k + 1 : a[i] = p[i]
    BY <1>1, <2>1, <2>2
  <2>4. a = p
    BY <2>1, <2>2, <2>3
  <2> QED  BY <2>4 DEF a, p
<1> QED  BY <1>2, <1>3, <1>4

\* A prefix, element by element.
LEMMA PrefixIs ==
  ASSUME NEW S, NEW a \in Seq(S), NEW b \in Seq(S)
  PROVE  IsPrefix(a, b) <=> Len(a) <= Len(b) /\ \A i \in 1 .. Len(a) : a[i] = b[i]
<1> DEFINE n == Len(a)
           p == SubSeq(a, 1, n)
           q == SubSeq(b, 1, n)
<1>1. n \in Nat /\ Len(b) \in Nat
  OBVIOUS
<1>2. p \in Seq(S) /\ Len(p) = n /\ \A i \in 1 .. n : p[i] = a[i]
  OBVIOUS
<1>3. ASSUME n <= Len(b) PROVE q \in Seq(S) /\ Len(q) = n /\ \A i \in 1 .. n : q[i] = b[i]
  BY <1>3
<1>4. IsPrefix(a, b) <=> n <= Len(b) /\ p = q
  BY DEF IsPrefix
<1> HIDE DEF n, p, q
<1>5. n <= Len(b) => (p = q <=> \A i \in 1 .. n : a[i] = b[i])
  <2> SUFFICES ASSUME n <= Len(b) PROVE p = q <=> \A i \in 1 .. n : a[i] = b[i]
    OBVIOUS
  <2>1. q \in Seq(S) /\ Len(q) = n /\ \A i \in 1 .. n : q[i] = b[i]
    BY <1>3
  <2>2. p = q <=> \A i \in 1 .. n : p[i] = q[i]
    BY <1>1, <1>2, <2>1
  <2> QED  BY <1>2, <2>1, <2>2
<1> QED  BY <1>4, <1>5 DEF n

\* How prefixes are put together.
LEMMA PrefixFacts ==
  ASSUME NEW S, NEW a \in Seq(S), NEW b \in Seq(S)
  PROVE  /\ IsPrefix(a, a \o b) /\ IsPrefix(a, a) /\ IsPrefix(<<>>, a)
         /\ \A x \in Seq(S) : IsPrefix(a, b) /\ IsPrefix(b, x) => IsPrefix(a, x)
         /\ \A x \in Seq(S) : IsPrefix(a, b) => IsPrefix(x \o a, x \o b)
<1>1. IsPrefix(a, a) /\ IsPrefix(<<>>, a)
  <2> DEFINE e == <<>>
  <2>1. e \in Seq(S) /\ Len(e) = 0 /\ Len(a) \in Nat
    OBVIOUS
  <2> HIDE DEF e
  <2>2. Len(e) <= Len(a) /\ \A i \in 1 .. Len(e) : e[i] = a[i]
    BY <2>1
  <2>3. IsPrefix(e, a)
    BY <2>1, <2>2, PrefixIs
  <2>4. IsPrefix(a, a)
    BY <2>1, PrefixIs
  <2> QED  BY <2>3, <2>4 DEF e
<1>2. IsPrefix(a, a \o b)
  <2>1. /\ a \o b \in Seq(S) /\ Len(a) <= Len(a \o b)
        /\ \A i \in 1 .. Len(a) : a[i] = (a \o b)[i]
    OBVIOUS
  <2> QED  BY <2>1, PrefixIs
<1>3. ASSUME NEW x \in Seq(S), IsPrefix(a, b), IsPrefix(b, x) PROVE IsPrefix(a, x)
  <2>1. Len(a) <= Len(b) /\ \A i \in 1 .. Len(a) : a[i] = b[i]
    BY <1>3, PrefixIs
  <2>2. Len(b) <= Len(x) /\ \A i \in 1 .. Len(b) : b[i] = x[i]
    BY <1>3, PrefixIs
  <2>3. Len(a) <= Len(x) /\ \A i \in 1 .. Len(a) : a[i] = x[i]
    BY <2>1, <2>2
  <2> QED  BY <2>3, PrefixIs
<1>4. ASSUME NEW x \in Seq(S), IsPrefix(a, b) PROVE IsPrefix(x \o a, x \o b)
  <2>1. Len(a) <= Len(b) /\ \A i \in 1 .. Len(a) : a[i] = b[i]
    BY <1>4, PrefixIs
  <2> DEFINE p == x \o a
             q == x \o b
  <2>2. /\ p \in Seq(S) /\ Len(p) = Len(x) + Len(a)
        /\ \A i \in 1 .. Len(p) : p[i] = IF i <= Len(x) THEN x[i] ELSE a[i - Len(x)]
    OBVIOUS
  <2>3. /\ q \in Seq(S) /\ Len(q) = Len(x) + Len(b)
        /\ \A i \in 1 .. Len(q) : q[i] = IF i <= Len(x) THEN x[i] ELSE b[i - Len(x)]
    OBVIOUS
  <2> HIDE DEF p, q
  <2>4. Len(p) <= Len(q) /\ \A i \in 1 .. Len(p) : p[i] = q[i]
    <3>1. Len(x) \in Nat /\ Len(a) \in Nat /\ Len(b) \in Nat
      OBVIOUS
    <3>2. Len(p) <= Len(q)
      BY <2>1, <2>2, <2>3, <3>1
    <3>3. ASSUME NEW i \in 1 .. Len(p) PROVE p[i] = q[i]
      <4>1. i \in 1 .. Len(q) /\ (~ i <= Len(x) => i - Len(x) \in 1 .. Len(a))
        BY <2>2, <2>3, <3>1, <3>2
      <4> QED  BY <2>1, <2>2, <2>3, <4>1
    <3> QED  BY <3>2, <3>3
  <2>5. IsPrefix(p, q)
    BY <2>2, <2>3, <2>4, PrefixIs
  <2> QED  BY <2>5 DEF p, q
<1> QED  BY <1>1, <1>2, <1>3, <1>4

\* The rows a child builds are rows of the driver table.
LEMMA ChunkInTable ==
  ASSUME FitsInt, NEW c \in Children, NEW t \in Tables
  PROVE  /\ First(c, Driver(t)) \in Nat \ {0} /\ Count(c, Driver(t)) \in Nat
         /\ \A n \in Nat : n < Count(c, Driver(t)) => First(c, Driver(t)) + n \in DriverRows(t)
<1>1. Driver(t) \in {"catalog_sales", "customer_address"}
  BY DEF Driver, Tables
<1>2. TotalRows[Driver(t)] \in Nat
  BY <1>1, DsdgenAssumption
<1> QED  BY <1>1, <1>2, ChunkFacts DEF DriverRows

\* A file grows by the rows of a driver row.
LEMMA BuiltFacts ==
  ASSUME FitsInt, NEW g \in Seeds, NEW c \in Children, NEW t \in Tables,
         NEW n \in 0 .. Count(c, Driver(t))
  PROVE  /\ Built(g, c, t, n) \in Seq(AllRows)
         /\ Built(g, c, t, 0) = <<>>
         /\ n < Count(c, Driver(t)) =>
              Built(g, c, t, n + 1) = Built(g, c, t, n) \o DayRows(g, c, t, First(c, Driver(t)) + n)
<1> DEFINE e(i) == DayRows(g, c, t, First(c, Driver(t)) + i - 1)
           s(m) == [i \in 1 .. m |-> e(i)]
<1>1. /\ First(c, Driver(t)) \in Nat \ {0} /\ Count(c, Driver(t)) \in Nat
      /\ \A m \in Nat : m < Count(c, Driver(t)) => First(c, Driver(t)) + m \in DriverRows(t)
  BY ChunkInTable
<1>2. ASSUME NEW i \in 1 .. Count(c, Driver(t)) PROVE e(i) \in Seq(AllRows)
  <2>1. i - 1 \in Nat /\ i - 1 < Count(c, Driver(t))
        /\ First(c, Driver(t)) + (i - 1) = First(c, Driver(t)) + i - 1
    BY <1>1
  <2>2. First(c, Driver(t)) + i - 1 \in DriverRows(t)
    BY <1>1, <2>1
  <2> QED  BY <2>2, RowsTyped
<1>3. \A m : Built(g, c, t, m) = FlattenSeq(s(m))
  BY DEF Built
<1>4. n \in Nat
  BY <1>1
<1>5. Built(g, c, t, 0) = <<>>
  <2>1. s(0) = <<>>
    OBVIOUS
  <2> QED  BY <1>3, <2>1, FlattenNone
<1>6. \A i \in 1 .. n : e(i) \in Seq(AllRows)
  <2>1. \A i \in 1 .. n : i \in 1 .. Count(c, Driver(t))
    BY <1>1
  <2> HIDE DEF e, s
  <2> QED  BY <1>2, <2>1
<1>7. n < Count(c, Driver(t)) => e(n + 1) \in Seq(AllRows)
  <2>1. n < Count(c, Driver(t)) => n + 1 \in 1 .. Count(c, Driver(t))
    BY <1>1, <1>4
  <2> QED  BY <1>2, <2>1
<1>8. e(n + 1) = DayRows(g, c, t, First(c, Driver(t)) + n)
  <2>1. First(c, Driver(t)) + (n + 1) - 1 = First(c, Driver(t)) + n
    BY <1>1, <1>4
  <2> QED  BY <2>1
<1> HIDE DEF e
<1>9. s(n) \in Seq(Seq(AllRows)) /\ Append(s(n), e(n + 1)) = s(n + 1)
  <2>1. s(n) \in Seq(Seq(AllRows))
    BY <1>4, <1>6
  <2>2. Append(s(n), e(n + 1)) = s(n + 1)
    BY <1>4
  <2> QED  BY <2>1, <2>2
<1> HIDE DEF s
<1>10. <<>> \in Seq(AllRows)
  OBVIOUS
<1>11. Built(g, c, t, n) \in Seq(AllRows)
  BY <1>3, <1>9, <1>10, FlattenNext
<1>12. ASSUME n < Count(c, Driver(t))
       PROVE  Built(g, c, t, n + 1) = Built(g, c, t, n) \o e(n + 1)
  <2>1. FlattenSeq(Append(s(n), e(n + 1))) = FlattenSeq(s(n)) \o e(n + 1)
    BY <1>7, <1>9, <1>12, FlattenNext
  <2> QED  BY <1>3, <1>9, <2>1
<1> QED  BY <1>5, <1>8, <1>11, <1>12

\* Fewer rows are a prefix of more.
LEMMA BuiltGrows ==
  ASSUME FitsInt, NEW g \in Seeds, NEW c \in Children, NEW t \in Tables,
         NEW m \in Nat, NEW n \in Nat, m <= n, n <= Count(c, Driver(t))
  PROVE  IsPrefix(Built(g, c, t, m), Built(g, c, t, n))
<1> DEFINE N == Count(c, Driver(t))
           b(i) == Built(g, c, t, i)
           G == {i \in Nat : m + i <= N => IsPrefix(b(m), b(m + i))}
<1>1. N \in Nat
  BY ChunkInTable
<1>2. \A i \in 0 .. N : b(i) \in Seq(AllRows)
  BY BuiltFacts
<1>3. ASSUME NEW i \in Nat, i < N PROVE b(i + 1) \in Seq(AllRows) /\ IsPrefix(b(i), b(i + 1))
  <2>1. i \in 0 .. N /\ i + 1 \in 0 .. N
    BY <1>1, <1>3
  <2> DEFINE r == DayRows(g, c, t, First(c, Driver(t)) + i)
  <2>2. b(i + 1) = b(i) \o r
    BY <1>3, <2>1, BuiltFacts
  <2>3. r \in Seq(AllRows)
    BY <1>3, ChunkInTable, RowsTyped
  <2> HIDE DEF r, N, b, G
  <2>4. b(i) \in Seq(AllRows) /\ b(i + 1) \in Seq(AllRows)
    BY <1>2, <2>1
  <2>5. IsPrefix(b(i), b(i) \o r)
    BY <2>3, <2>4, PrefixFacts
  <2> QED  BY <2>2, <2>4, <2>5
<1> HIDE DEF N, b
<1>4. 0 \in G
  <2>1. m + 0 = m
    OBVIOUS
  <2>2. m <= N => b(m) \in Seq(AllRows)
    BY <1>1, <1>2
  <2> QED  BY <2>1, <2>2, PrefixFacts
<1>5. ASSUME NEW i \in G PROVE i + 1 \in G
  <2> SUFFICES ASSUME m + (i + 1) <= N PROVE IsPrefix(b(m), b(m + (i + 1)))
    OBVIOUS
  <2> DEFINE j == m + i
  <2>1. i \in Nat /\ j \in Nat /\ j < N /\ j + 1 = m + (i + 1) /\ m \in 0 .. N /\ j \in 0 .. N
    BY <1>1
  <2>2. IsPrefix(b(m), b(j))
    BY <2>1
  <2> HIDE DEF j, G
  <2>3. b(j + 1) \in Seq(AllRows) /\ IsPrefix(b(j), b(j + 1))
    BY <1>3, <2>1
  <2>4. b(m) \in Seq(AllRows) /\ b(j) \in Seq(AllRows)
    BY <1>2, <2>1
  <2>5. IsPrefix(b(m), b(j + 1))
    BY <2>2, <2>3, <2>4, PrefixFacts
  <2> QED  BY <2>1, <2>5
<1> HIDE DEF G
<1>6. G = Nat
  BY <1>4, <1>5, InductionSet DEF G
<1>7. n - m \in G /\ m + (n - m) = n
  BY <1>6
<1>8. n <= N
  BY DEF N
<1> QED  BY <1>7, <1>8 DEF G, b

\* A row's parts, one after the other, make the row; and what is written is
\* always a prefix of what is to be written.
LEMMA WrittenFacts ==
  ASSUME FitsInt, NEW g \in Seeds, NEW c \in Children, NEW t \in Tables,
         NEW n \in Nat, n < Count(c, Driver(t)),
         NEW k \in 0 .. Len(DayRows(g, c, t, First(c, Driver(t)) + n))
  PROVE  LET rows == DayRows(g, c, t, First(c, Driver(t)) + n) IN
         /\ rows \in Seq(AllRows)
         /\ Written(g, c, t, n, k) \in Seq(AllRows)
         /\ Written(g, c, t, n, Len(rows)) = Built(g, c, t, n + 1)
         /\ k < Len(rows) =>
              Written(g, c, t, n, k + 1) = Append(Written(g, c, t, n, k), rows[k + 1])
         /\ IsPrefix(Written(g, c, t, n, k), ChunkSlice(g, c, t))
<1> DEFINE N == Count(c, Driver(t))
           rows == DayRows(g, c, t, First(c, Driver(t)) + n)
           b == Built(g, c, t, n)
           w == Written(g, c, t, n, k)
<1>1. N \in Nat /\ n \in 0 .. N /\ n + 1 \in 0 .. N
  BY ChunkInTable
<1>2. rows \in Seq(AllRows)
  BY ChunkInTable, RowsTyped
<1>3. b \in Seq(AllRows) /\ Built(g, c, t, n + 1) = b \o rows
  BY <1>1, BuiltFacts
<1>4. /\ Part(rows, k) \in Seq(AllRows)
      /\ Part(rows, Len(rows)) = rows
      /\ k < Len(rows) => Part(rows, k + 1) = Append(Part(rows, k), rows[k + 1])
      /\ Len(Part(rows, k)) = k /\ \A i \in 1 .. k : Part(rows, k)[i] = rows[i]
  <2>1. k \in 0 .. Len(rows)
    OBVIOUS
  <2> HIDE DEF rows
  <2> QED  BY <1>2, <2>1, PartFacts
<1>5. w = b \o Part(rows, k) /\ Written(g, c, t, n, Len(rows)) = b \o Part(rows, Len(rows))
      /\ Written(g, c, t, n, k + 1) = b \o Part(rows, k + 1)
  BY DEF Written
<1>6. Built(g, c, t, n + 1) \in Seq(AllRows) /\ Built(g, c, t, N) \in Seq(AllRows)
  BY <1>1, BuiltFacts
<1>7. k \in 0 .. Len(rows)
  OBVIOUS
<1> HIDE DEF N, rows, b, w
<1>8. w \in Seq(AllRows) /\ Written(g, c, t, n, Len(rows)) = Built(g, c, t, n + 1)
  BY <1>3, <1>4, <1>5
<1>9. ASSUME k < Len(rows) PROVE Written(g, c, t, n, k + 1) = Append(w, rows[k + 1])
  <2> DEFINE p == Part(rows, k)
             x == rows[k + 1]
  <2>1. x \in AllRows
    BY <1>2, <1>7, <1>9
  <2>2. Part(rows, k + 1) = Append(p, x)
    BY <1>4, <1>9
  <2>3. p \in Seq(AllRows)
    BY <1>4
  <2> HIDE DEF p, x
  <2>4. b \o Append(p, x) = Append(b \o p, x)
    BY <1>3, <2>1, <2>3
  <2> QED  BY <1>5, <2>2, <2>4 DEF p, x
<1>10. IsPrefix(w, ChunkSlice(g, c, t))
  <2>1. IsPrefix(Part(rows, k), rows)
    BY <1>2, <1>4, <1>7, PrefixIs
  <2>2. IsPrefix(w, Built(g, c, t, n + 1))
    <3>1. IsPrefix(b \o Part(rows, k), b \o rows)
      BY <1>2, <1>3, <1>4, <2>1, PrefixFacts
    <3> QED  BY <1>3, <1>5, <3>1
  <2>3. IsPrefix(Built(g, c, t, n + 1), Built(g, c, t, N))
    <3>1. n + 1 \in Nat /\ N \in Nat /\ n + 1 <= N
      BY <1>1
    <3> QED  BY <3>1, BuiltGrows DEF N
  <2>4. IsPrefix(w, Built(g, c, t, N))
    BY <1>6, <1>8, <2>2, <2>3, PrefixFacts
  <2> QED  BY <2>4 DEF ChunkSlice, N
<1> QED  BY <1>2, <1>8, <1>9, <1>10 DEF rows, w

\* Of the row after the last nothing is written.
LEMMA NothingOfNext ==
  ASSUME FitsInt, NEW g \in Seeds, NEW c \in Children, NEW t \in Tables,
         NEW n \in 0 .. Count(c, Driver(t))
  PROVE  Written(g, c, t, n, 0) = Built(g, c, t, n)
<1>1. Built(g, c, t, n) \in Seq(AllRows)
  BY BuiltFacts
<1>2. \A s : Part(s, 0) = <<>>
  BY DEF Part
<1> QED  BY <1>1, <1>2 DEF Written

\* Unless the chunk starts where a day starts, its rows are the serial build's.
LEMMA SliceIsSerial ==
  ASSUME FitsInt, NEW g \in Seeds, NEW c \in Children, NEW t \in Tables,
         ~ StartsOnDayBoundary(c)
  PROVE  ChunkSlice(g, c, t) = SerialSlice(g, c, t)
<1> DEFINE N == Count(c, Driver(t))
           nth(i) == First(c, Driver(t)) + i - 1
<1>1. First(c, Driver(t)) \in Nat \ {0} /\ N \in Nat
  BY ChunkInTable
<1>2. \A i \in 1 .. N : DayRows(g, c, t, nth(i)) = RowsOf(g, SerialDay(nth(i)), t, nth(i))
  <2> TAKE i \in 1 .. N
  <2>1. nth(i) \in Nat
    BY <1>1
  <2>2. ChunkDay(c, nth(i)) = SerialDay(nth(i))
    BY <2>1, SerialDays
  <2> QED  BY <2>2 DEF DayRows
<1>3. ChunkSlice(g, c, t) = FlattenSeq([i \in 1 .. N |-> DayRows(g, c, t, nth(i))])
  BY DEF ChunkSlice, Built
<1>4. SerialSlice(g, c, t) = FlattenSeq([i \in 1 .. N |-> RowsOf(g, SerialDay(nth(i)), t, nth(i))])
  BY DEF SerialSlice
<1> HIDE DEF N, nth
<1>5. [i \in 1 .. N |-> DayRows(g, c, t, nth(i))]
        = [i \in 1 .. N |-> RowsOf(g, SerialDay(nth(i)), t, nth(i))]
  BY <1>2
<1> QED  BY <1>3, <1>4, <1>5

-----------------------------------------------------------------------------
(***************************************************************************)
(* The inductive invariant, on top of IInv.                                *)
(***************************************************************************)

\* Where a process dates its orders from: catalog_sales, after skipDays.
Dated(c) == tab[c] = 2 /\ started[c] /\ pc[c] \in {"row", "date", "stop"} \union LineLabels

\* The permutation takes nothing from a row's budget, so that it is drawn at
\* the same place by every child; and the day of the next order is the one
\* the chunk's days say.
DayInv(c) ==
  /\ perm[c] = 0
  /\ ~ started[c] => pos[c]["CS_PERMUTE"] = 0
  /\ pc[c] = "table" /\ tab[c] <= 2 => ~ started[c]
  /\ tab[c] = 2 /\ ~ started[c] =>
       /\ pc[c] \notin {"date", "stop"} \union LineLabels
       /\ pc[c] \in {"row", "skip_days"} => row[c] = First(c, "catalog_sales")
  /\ pc[c] = "skip_days" =>
       /\ ~ started[c]
       /\ dayIndex[c] = 1 + OrdersBefore[jDate[c]]
       /\ newDate[c] = 1 + OrdersBefore[IF jDate[c] = 0 THEN 1 ELSE jDate[c]]
       /\ jDate[c] > 0 => 1 + OrdersBefore[jDate[c] - 1] < First(c, "catalog_sales")
  /\ Dated(c) =>
       /\ newDate[c] = LastOrder(c, jDate[c])
       /\ jDate[c] > 0 => row[c] > LastOrder(c, jDate[c] - 1)
  /\ pc[c] = "done" => tab[c] = 4

\* The lines of the order that are built.
LinesBuilt(c) == IF pc[c] = "detail" THEN line[c] - 1 ELSE line[c]

\* The row under construction is the serial build's, line by line, and so is
\* what it has drawn so far.
RowInv(c) ==
  /\ pc[c] \in LineLabels =>
       /\ used[c]["CS_SHIP_DATE_SK"] = LinesBuilt(c)
       /\ used[c]["CS_NULLS"] = 2 * LinesBuilt(c)
       /\ used[c]["CR_IS_RETURNED"] = LinesBuilt(c)
       /\ used[c]["CR_NULLS"] = 2 * ReturnsBefore(seed, row[c], LinesBuilt(c) + 1)
       /\ used[c]["CR_RETURNING_CUSTOMER_SK"] = used[c]["CR_NULLS"]
       /\ lines[c] = LinesIn(seed, row[c])
       /\ item[c] = ItemOf(seed, row[c], LinesBuilt(c))
       /\ sale[c].order = row[c] /\ sale[c].date = ChunkDay(c, row[c])
       /\ sale[c].ship = ShipOf(seed, row[c])
  /\ pc[c] \in {"print_return", "print_sale"} =>
       sale[c] = SaleOf(seed, ChunkDay(c, row[c]), row[c], line[c])
  /\ pc[c] = "print_return" =>
       /\ IsReturned(seed, row[c], line[c])
       /\ return[c] = ReturnOf(seed, row[c], line[c])
  /\ pc[c] = "print_address" => address[c] = AddressOf(row[c])

\* The rows of table t that child c has written for the row it is at.
Done(c, t) ==
  IF pc[c] = "stop" THEN Len(DayRows(seed, c, t, row[c]))
  ELSE IF pc[c] \notin LineLabels THEN 0
  ELSE IF t = "catalog_sales" THEN line[c] - 1
  ELSE IF pc[c] = "print_sale" THEN ReturnsBefore(seed, row[c], line[c] + 1)
  ELSE ReturnsBefore(seed, row[c], line[c])

\* All it has written to table t, if it has opened the file.
Own(c, t) == Written(seed, c, t, row[c] - First(c, Driver(t)), Done(c, t))

Building(c, t) ==
  pc[c] \in InRow \union {"row"} /\ tab[c] \in {2, 3} /\ t \in Family(Table(c))

\* The table is behind child c.
Past(c, t) == tab[c] > (IF t = "customer_address" THEN 3 ELSE 2)

FileInv(c, t) ==
  /\ IsPrefix(file[c][t], ChunkSlice(seed, c, t))
  /\ t \in open[c] => t \in exists[c] /\ (pc[c] \in Stopped \/ Building(c, t))
  /\ Building(c, t) =>
       /\ row[c] >= First(c, Driver(t))
       /\ IF t \in open[c] THEN file[c][t] = Own(c, t) ELSE Own(c, t) = <<>>
  /\ Past(c, t) => file[c][t] = ChunkSlice(seed, c, t)

ChildSInv(c) == DayInv(c) /\ RowInv(c) /\ \A t \in Tables : FileInv(c, t)

SInv == \A c \in Children : ChildSInv(c)

-----------------------------------------------------------------------------
(***************************************************************************)
(* The child a step is not of.                                             *)
(***************************************************************************)

\* All of child d's variables stay.
Kept(d) ==
  /\ Frame(d)
  /\ newDate'[d] = newDate[d] /\ started'[d] = started[d] /\ perm'[d] = perm[d]
  /\ item'[d] = item[d] /\ sale'[d] = sale[d] /\ return'[d] = return[d]
  /\ address'[d] = address[d]
  /\ open'[d] = open[d] /\ exists'[d] = exists[d] /\ file'[d] = file[d]

\* A step of one child leaves the others, and the seed, as they are.
LEMMA OthersKept ==
  ASSUME TypeOK, NEW c \in Children, Step(c) \/ Crash(c) \/ Restart(c)
  PROVE  seed' = seed /\ \A d \in Children \ {c} : Kept(d)
<1> USE DEF Kept, Frame, TypeOK, Goto, Draw, envVars, ctlVars, rngVars, dayVars, rowVars, outVars
<1>1. CASE SkipChildTable(c)
  BY <1>1 DEF SkipChildTable
<1>2. CASE StartTable(c)
  BY <1>2 DEF StartTable
<1>3. CASE Exit(c)
  BY <1>3 DEF Exit
<1>4. CASE EndTable(c)
  BY <1>4 DEF EndTable
<1>5. CASE BuildAddress(c)
  BY <1>5 DEF BuildAddress
<1>6. CASE BeginOrder(c)
  <2>1. CASE started[c]
    BY <1>6, <2>1 DEF BeginOrder
  <2>2. CASE ~ started[c]
    BY <1>6, <2>2 DEF BeginOrder
  <2> QED  BY <2>1, <2>2
<1>7. CASE SkipDay(c)
  BY <1>7 DEF SkipDay
<1>8. CASE EndSkipDays(c)
  BY <1>8 DEF EndSkipDays
<1>9. CASE NewDate(c)
  BY <1>9 DEF NewDate
<1>10. CASE MkMaster(c)
  BY <1>10 DEF MkMaster
<1>11. CASE MkDetail(c)
  BY <1>11 DEF MkDetail
<1>12. CASE MkDetailReturned(c)
  BY <1>12 DEF MkDetailReturned
<1>13. CASE OpenFile(c)
  BY <1>13 DEF OpenFile
<1>14. CASE RefuseFile(c)
  BY <1>14 DEF RefuseFile
<1>15. CASE PrintReturn(c)
  BY <1>15 DEF PrintReturn, WriteRow
<1>16. CASE PrintSale(c)
  BY <1>16 DEF PrintSale, WriteRow
<1>17. CASE PrintAddress(c)
  BY <1>17 DEF PrintAddress, WriteRow
<1>18. CASE RowStop(c)
  BY <1>18 DEF RowStop
<1>19. CASE Crash(c)
  BY <1>19 DEF Crash
<1>20. CASE Restart(c)
  BY <1>20 DEF Restart
<1> QED
  BY <1>1, <1>2, <1>3, <1>4, <1>5, <1>6, <1>7, <1>8, <1>9, <1>10, <1>11, <1>12, <1>13, <1>14, <1>15, <1>16, <1>17, <1>18, <1>19, <1>20 DEF Step

\* What the invariant says of a child is about its variables and the seed.
LEMMA KeptInv ==
  ASSUME NEW d \in Children, Kept(d), seed' = seed, ChildSInv(d)
  PROVE  ChildSInv(d)'
<1>1. Table(d)' = Table(d)
  BY DEF Kept, Frame, Table
<1>2. DayInv(d)'
  BY DEF ChildSInv, DayInv, Dated, Kept, Frame, First
<1>3. RowInv(d)'
  BY DEF ChildSInv, RowInv, LinesBuilt, Kept, Frame
<1>4. ASSUME NEW t \in Tables PROVE FileInv(d, t)'
  <2>1. Done(d, t)' = Done(d, t)
    BY DEF Done, Kept, Frame
  <2>2. Own(d, t)' = Own(d, t) /\ Building(d, t)' = Building(d, t) /\ Past(d, t)' = Past(d, t)
    BY <1>1, <2>1 DEF Own, Building, Past, Kept, Frame, First
  <2>3. FileInv(d, t)
    BY DEF ChildSInv
  <2> QED  BY <2>2, <2>3 DEF FileInv, Kept, Frame
<1> QED  BY <1>2, <1>3, <1>4 DEF ChildSInv

-----------------------------------------------------------------------------
(***************************************************************************)
(* Days, step by step.                                                     *)
(***************************************************************************)

\* Most steps leave the days alone.
LEMMA DayQuiet ==
  ASSUME IInv, NEW c \in Children, DayInv(c),
         tab'[c] = tab[c], row'[c] = row[c], started'[c] = started[c], jDate'[c] = jDate[c],
         newDate'[c] = newDate[c], dayIndex'[c] = dayIndex[c], perm'[c] = perm[c],
         pos'[c]["CS_PERMUTE"] = pos[c]["CS_PERMUTE"],
         \/ pc'[c] = pc[c] \/ pc'[c] \in {"failed", "crashed"}
         \/ pc[c] \in {"date"} \union LineLabels /\ pc'[c] \in LineLabels \union {"stop"}
         \/ tab[c] = 3 /\ pc'[c] \in {"print_address", "stop"}
  PROVE  DayInv(c)'
<1>1. pc[c] \in {"date"} \union LineLabels => tab[c] = 2 /\ started[c]
  BY DEF IInv, ChildInv, CtlInv, OrderLabels, LineLabels, DayInv
<1>2. CASE pc'[c] = pc[c]
  BY <1>2 DEF DayInv, Dated, First
<1>3. CASE pc'[c] \in {"failed", "crashed"}
  BY <1>3 DEF DayInv, Dated, First, LineLabels
<1>4. CASE pc[c] \in {"date"} \union LineLabels /\ pc'[c] \in LineLabels \union {"stop"}
  BY <1>1, <1>4 DEF DayInv, Dated, First, LineLabels
<1>5. CASE tab[c] = 3 /\ pc'[c] \in {"print_address", "stop"}
  BY <1>5 DEF DayInv, Dated, First
<1> QED  BY <1>2, <1>3, <1>4, <1>5

\* A draw from other streams leaves the permutation's alone.
LEMMA OtherDraw ==
  ASSUME TypeOK, NEW c \in Children, NEW draws, Draw(c, draws), "CS_PERMUTE" \notin DOMAIN draws
  PROVE  pos'[c]["CS_PERMUTE"] = pos[c]["CS_PERMUTE"]
<1>1. "CS_PERMUTE" \in Streams
  BY StreamFacts
<1>2. pos[c]["CS_PERMUTE"] \in Nat
  BY <1>1 DEF TypeOK
<1> QED  BY <1>1, <1>2 DEF TypeOK, Draw

\* The steps that build and print rows do not touch the days.
LEMMA BuildingKeepsDays ==
  ASSUME IInv, NEW c \in Children, DayInv(c),
         \/ BuildAddress(c) \/ MkMaster(c) \/ MkDetail(c) \/ MkDetailReturned(c)
         \/ OpenFile(c) \/ RefuseFile(c) \/ PrintReturn(c) \/ PrintSale(c) \/ PrintAddress(c)
         \/ Crash(c)
  PROVE  DayInv(c)'
<1> USE DEF Goto, envVars, ctlVars, rngVars, dayVars, rowVars, outVars
<1>1. TypeOK
  BY DEF IInv
<1>2. CASE BuildAddress(c)
  <2>1. tab[c] = 3
    <3>1. tab[c] \in {2, 3} /\ Table(c) = "customer_address"
      BY <1>2 DEF BuildAddress, IInv, ChildInv, CtlInv
    <3> QED  BY <1>1, <3>1, TableFacts
  <2>2. pos'[c]["CS_PERMUTE"] = pos[c]["CS_PERMUTE"]
    BY <1>1, <1>2, OtherDraw DEF BuildAddress
  <2>3. pc'[c] = "print_address"
    BY <1>1, <1>2 DEF BuildAddress, TypeOK
  <2> QED  BY <1>2, <2>1, <2>2, <2>3, DayQuiet DEF BuildAddress
<1>3. CASE MkMaster(c)
  <2>1. pos'[c]["CS_PERMUTE"] = pos[c]["CS_PERMUTE"]
    BY <1>1, <1>3, OtherDraw DEF MkMaster
  <2>2. pc[c] = "date" /\ pc'[c] = "detail"
    BY <1>1, <1>3 DEF MkMaster, TypeOK
  <2> QED  BY <1>3, <2>1, <2>2, DayQuiet DEF MkMaster, LineLabels
<1>4. CASE MkDetail(c)
  <2>1. pos'[c]["CS_PERMUTE"] = pos[c]["CS_PERMUTE"]
    BY <1>1, <1>4, OtherDraw DEF MkDetail
  <2>2. pc[c] = "detail" /\ pc'[c] = "print_sale"
    BY <1>1, <1>4 DEF MkDetail, TypeOK
  <2> QED  BY <1>4, <2>1, <2>2, DayQuiet DEF MkDetail, LineLabels
<1>5. CASE MkDetailReturned(c)
  <2>1. pos'[c]["CS_PERMUTE"] = pos[c]["CS_PERMUTE"]
    BY <1>1, <1>5, OtherDraw DEF MkDetailReturned
  <2>2. pc[c] = "detail" /\ pc'[c] = "print_return"
    BY <1>1, <1>5 DEF MkDetailReturned, TypeOK
  <2> QED  BY <1>5, <2>1, <2>2, DayQuiet DEF MkDetailReturned, LineLabels
<1>6. CASE OpenFile(c)
  BY <1>6, DayQuiet DEF OpenFile
<1>7. CASE RefuseFile(c)
  <2>1. pc'[c] = "failed"
    BY <1>1, <1>7 DEF RefuseFile, TypeOK
  <2> QED  BY <1>7, <2>1, DayQuiet DEF RefuseFile
<1>8. CASE PrintReturn(c)
  <2>1. pc[c] = "print_return" /\ pc'[c] = "print_sale"
    BY <1>1, <1>8 DEF PrintReturn, TypeOK
  <2> QED  BY <1>8, <2>1, DayQuiet DEF PrintReturn, LineLabels
<1>9. CASE PrintSale(c)
  <2>1. pc[c] = "print_sale" /\ pc'[c] \in {"detail", "stop"}
    BY <1>1, <1>9 DEF PrintSale, TypeOK
  <2> QED  BY <1>9, <2>1, DayQuiet DEF PrintSale, LineLabels
<1>10. CASE PrintAddress(c)
  <2>1. pc[c] = "print_address" /\ pc'[c] = "stop" /\ tab[c] = 3
    BY <1>1, <1>10 DEF PrintAddress, TypeOK, IInv, ChildInv, CtlInv
  <2> QED  BY <1>10, <2>1, DayQuiet DEF PrintAddress
<1>11. CASE Crash(c)
  <2>1. pc'[c] = "crashed"
    BY <1>1, <1>11 DEF Crash, TypeOK
  <2> QED  BY <1>11, <2>1, DayQuiet DEF Crash
<1> QED
  BY <1>2, <1>3, <1>4, <1>5, <1>6, <1>7, <1>8, <1>9, <1>10, <1>11

\* Days start later and later.
LEMMA DaysIncrease ==
  ASSUME NEW d \in Nat, NEW e \in Nat, d < e
  PROVE  OrdersBefore[d] \in Nat /\ OrdersBefore[e] \in Nat /\ OrdersBefore[d] < OrdersBefore[e]
<1> DEFINE n == e - d
<1>1. n \in Nat \ {0} /\ d + n = e
  OBVIOUS
<1> HIDE DEF n
<1>2. OrdersBefore[d + n] >= OrdersBefore[d] + n
  BY <1>1, OrdersBeforeGrows
<1> QED  BY <1>1, <1>2, OrdersBeforeFacts

\* The shift of a chunk that starts within a day, and of one that does not.
LEMMA ShiftIs ==
  ASSUME NEW c \in Children, NEW d \in Nat, First(c, "catalog_sales") \in Nat
  PROVE  /\ d > 0 /\ 1 + OrdersBefore[d - 1] < First(c, "catalog_sales")
              /\ First(c, "catalog_sales") < 1 + OrdersBefore[d] => Shift(c) = 0
         /\ First(c, "catalog_sales") = 1 => Shift(c) = 0
         /\ d \in 1 .. Orders /\ First(c, "catalog_sales") = 1 + OrdersBefore[d] =>
              Shift(c) = DateScaling(d)
<1> DEFINE f == First(c, "catalog_sales")
<1>1. ASSUME NEW e \in Nat, d > 0, 1 + OrdersBefore[d - 1] < f, f < 1 + OrdersBefore[d]
      PROVE  f # 1 + OrdersBefore[e]
  <2>1. d - 1 \in Nat /\ (e <= d - 1 \/ d <= e)
    BY <1>1
  <2>2. /\ OrdersBefore[e] \in Nat /\ OrdersBefore[d] \in Nat /\ OrdersBefore[d - 1] \in Nat
    BY <2>1, OrdersBeforeFacts
  <2>3. e < d - 1 => OrdersBefore[e] < OrdersBefore[d - 1]
    BY <2>1, DaysIncrease
  <2>4. d < e => OrdersBefore[d] < OrdersBefore[e]
    BY DaysIncrease
  <2> HIDE DEF f
  <2>5. CASE e <= d - 1
    BY <1>1, <2>1, <2>2, <2>3, <2>5
  <2>6. CASE d <= e
    BY <1>1, <2>1, <2>2, <2>4, <2>6
  <2> QED  BY <2>1, <2>5, <2>6
<1>2. ASSUME NEW e \in Nat, e > 0 PROVE 1 # 1 + OrdersBefore[e]
  BY <1>2, DaysIncrease, OrdersBeforeFacts
<1>3. Orders \in Nat
  BY DsdgenAssumption DEF Orders
<1>4. (\A e \in Nat : e > 0 => f # 1 + OrdersBefore[e]) => Shift(c) = 0
  BY <1>3 DEF Shift, StartsOnDayBoundary
<1>5. ASSUME d \in 1 .. Orders, f = 1 + OrdersBefore[d] PROVE Shift(c) = DateScaling(d)
  <2> DEFINE x == CHOOSE e \in 1 .. Orders : f = 1 + OrdersBefore[e]
  <2>1. StartsOnDayBoundary(c)
    BY <1>5 DEF StartsOnDayBoundary
  <2>2. x \in 1 .. Orders /\ f = 1 + OrdersBefore[x]
    BY <1>5
  <2>3. Shift(c) = DateScaling(x)
    BY <2>1 DEF Shift
  <2> HIDE DEF x, f
  <2>4. x \in Nat /\ OrdersBefore[x] \in Nat /\ OrdersBefore[d] \in Nat
    BY <1>3, <2>2, OrdersBeforeFacts
  <2>5. (x < d => OrdersBefore[x] < OrdersBefore[d]) /\ (d < x => OrdersBefore[d] < OrdersBefore[x])
    BY <2>4, DaysIncrease
  <2>6. x = d
    BY <1>5, <2>2, <2>4, <2>5
  <2> QED  BY <2>3, <2>6
<1> QED  BY <1>1, <1>2, <1>4, <1>5

\* skipDays stops at the day of the chunk's first order.
LEMMA EndSkipDaysDays ==
  ASSUME FitsInt, IInv, NEW c \in Children, DayInv(c), EndSkipDays(c)
  PROVE  DayInv(c)'
<1> DEFINE f == First(c, "catalog_sales")
           d == jDate[c]
           e == jDate'[c]
<1> USE DEF EndSkipDays, Goto, envVars, ctlVars
<1>1. /\ TypeOK /\ pc[c] = "skip_days" /\ pc'[c] = "date" /\ tab[c] = 2 /\ left[c] > 0
      /\ started'[c] = TRUE /\ tab'[c] = tab[c] /\ row'[c] = row[c] /\ newDate'[c] = newDate[c]
      /\ d \in Nat
  BY DEF IInv, TypeOK, ChildInv, CtlInv, OrderLabels, InRow
<1>2. /\ perm'[c] = 0 /\ row[c] = f
      /\ dayIndex[c] = 1 + OrdersBefore[d]
      /\ newDate[c] = 1 + OrdersBefore[IF d = 0 THEN 1 ELSE d]
      /\ d > 0 => 1 + OrdersBefore[d - 1] < f
  BY <1>1 DEF DayInv, TypeOK
<1>3. f \in Nat \ {0} /\ f <= Orders /\ Orders \in Nat
  <2>1. row[c] \in 1 .. Orders
    BY <1>1, RowInTable, TableFacts DEF InRow, OrderLabels, Orders
  <2> QED  BY <1>2, <2>1, DsdgenAssumption DEF Orders
<1>4. /\ OrdersBefore[0] = 0 /\ OrdersBefore[d] \in Nat /\ OrdersBefore[1] \in Nat
      /\ OrdersBefore[d + 1] = OrdersBefore[d] + DateScaling(d) /\ DateScaling(d) \in Nat \ {0}
      /\ OrdersBefore[d + 1] \in Nat
  BY <1>1, OrdersBeforeFacts, DaysNotEmpty
<1>5. ~ dayIndex[c] < f /\ e = (IF dayIndex[c] > f THEN d - 1 ELSE d)
  BY <1>1 DEF TypeOK
<1>6. newDate[c] = LastOrder(c, e) /\ (e > 0 => row[c] > LastOrder(c, e - 1))
  <2> HIDE DEF f, d, e
  <2>1. CASE dayIndex[c] > f
    <3>1. d > 0 /\ e = d - 1 /\ e \in Nat /\ e + 1 = d
      BY <1>1, <1>2, <1>3, <1>4, <1>5, <2>1
    <3>2. Shift(c) = 0
      BY <1>1, <1>2, <1>3, <2>1, <3>1, ShiftIs DEF f
    <3>3. LastOrder(c, e) = 1 + OrdersBefore[d]
      BY <1>4, <3>1, <3>2 DEF LastOrder
    <3>4. e > 0 => LastOrder(c, e - 1) = 1 + OrdersBefore[e]
      <4> SUFFICES ASSUME e > 0 PROVE LastOrder(c, e - 1) = 1 + OrdersBefore[e]
        OBVIOUS
      <4>1. e - 1 + 1 = e /\ OrdersBefore[e] \in Nat
        BY <3>1, OrdersBeforeFacts
      <4> QED  BY <3>2, <4>1 DEF LastOrder
    <3> QED  BY <1>2, <3>1, <3>3, <3>4
  <2>2. CASE dayIndex[c] = f /\ d = 0
    <3>1. f = 1 /\ e = 0
      BY <1>2, <1>4, <1>5, <2>2
    <3>2. Shift(c) = 0
      BY <1>1, <3>1, ShiftIs DEF f
    <3>3. LastOrder(c, 0) = 1 + OrdersBefore[1]
      BY <1>4, <3>2 DEF LastOrder
    <3> QED  BY <1>2, <2>2, <3>1, <3>3
  <2>3. CASE dayIndex[c] = f /\ d > 0
    <3>1. f = 1 + OrdersBefore[d] /\ e = d
      BY <1>2, <1>3, <1>5, <2>3
    <3>2. d \in 1 .. Orders
      <4>1. OrdersBefore[0 + d] >= OrdersBefore[0] + d
        BY <1>1, OrdersBeforeGrows
      <4> QED  BY <1>1, <1>3, <1>4, <2>3, <3>1, <4>1
    <3>3. Shift(c) = DateScaling(d)
      BY <1>1, <1>3, <3>1, <3>2, ShiftIs DEF f
    <3>4. LastOrder(c, d) = 1 + OrdersBefore[d]
      BY <1>4, <3>3 DEF LastOrder
    <3>5. d - 1 + 1 = d
      BY <1>1
    <3>6. LastOrder(c, d - 1) = 1 + OrdersBefore[d] - DateScaling(d)
      BY <3>3, <3>5 DEF LastOrder
    <3> QED  BY <1>2, <1>4, <2>3, <3>1, <3>4, <3>6
  <2> QED
    <3>1. dayIndex[c] > f \/ dayIndex[c] = f
      BY <1>2, <1>3, <1>4, <1>5
    <3> QED  BY <1>1, <2>1, <2>2, <2>3, <3>1
<1> HIDE DEF f, d, EndSkipDays
<1> QED  BY <1>1, <1>2, <1>6 DEF DayInv, Dated, LineLabels

\* row_skip leaves the stream of the permutation at its start.
LEMMA PermuteStays ==
  ASSUME FitsInt, TypeOK, NEW c \in Children, StartTable(c), pos[c]["CS_PERMUTE"] = 0
  PROVE  pos'[c]["CS_PERMUTE"] = 0
<1> DEFINE t == Table(c)
           n == AsInt(First(c, t) - 1)
           p == RowSkipPos(pos[c], t, n)
           q == RowSkipPos(p, "catalog_returns", n)
<1>1. "CS_PERMUTE" \in Streams /\ pos \in [Children -> [Streams -> Nat]]
  BY StreamFacts DEF TypeOK
<1>2. t \in {"catalog_sales", "customer_address"}
  <2>1. tab[c] \in 1 .. 4 /\ tab[c] <= 3 /\ t # "catalog_returns"
    BY TableFacts, DriverSize DEF StartTable, IsChildTable
  <2> QED  BY <2>1, TableFacts
<1>3. Budget["CS_PERMUTE"] = 0 /\ StreamTable["CS_PERMUTE"] = "catalog_sales"
  BY DEF Budget, StreamTable
<1>4. n \in Int /\ n * Budget["CS_PERMUTE"] = 0
  <2>1. n = First(c, t) - 1 /\ First(c, t) \in Nat
    BY <1>2, ChunkFacts
  <2> HIDE DEF n
  <2> QED  BY <1>3, <2>1
<1>5. "CS_PERMUTE" \notin DuplicateTargets
  BY DEF DuplicateTargets
<1> HIDE DEF n
<1>6. p["CS_PERMUTE"] = 0 /\ q["CS_PERMUTE"] = 0
  BY <1>1, <1>3, <1>4, <1>5 DEF RowSkipPos, SkipRandom, Skipped
<1> HIDE DEF p, q, t
<1>7. pos' = pos \/ pos' = [pos EXCEPT ![c] = q] \/ pos' = [pos EXCEPT ![c] = p]
  BY DEF StartTable, rngVars, t, n, p, q
<1> QED  BY <1>1, <1>6, <1>7

\* main's steps from table to table.
LEMMA MainDays ==
  ASSUME FitsInt, IInv, NEW c \in Children, DayInv(c),
         SkipChildTable(c) \/ StartTable(c) \/ Exit(c) \/ EndTable(c) \/ Restart(c)
  PROVE  DayInv(c)'
<1> USE DEF Goto, envVars, ctlVars, rngVars, dayVars, rowVars, outVars
<1>1. /\ TypeOK /\ tab[c] \in 1 .. 4 /\ "CS_PERMUTE" \in Streams
      /\ tab[c] <= Len(DriverOrder) <=> tab[c] \in 1 .. 3
      /\ tab[c] = 1 => Table(c) = "catalog_returns"
      /\ tab[c] = 2 => Table(c) = "catalog_sales"
      /\ tab[c] = 3 => Table(c) = "customer_address"
  <2>1. TypeOK
    BY DEF IInv
  <2>2. tab[c] \in 1 .. 4
    BY <2>1, TableFacts
  <2>3. tab[c] <= Len(DriverOrder) <=> tab[c] \in 1 .. 3
    BY <2>2, DriverSize
  <2> QED  BY <2>1, <2>2, <2>3, TableFacts, StreamFacts
<1>2. CASE SkipChildTable(c)
  <2>1. tab[c] = 1
    BY <1>1, <1>2 DEF SkipChildTable, IsChildTable
  <2>2. pc[c] = "table" /\ pc'[c] = "table" /\ tab'[c] = 2
    BY <1>1, <1>2, <2>1 DEF SkipChildTable, TypeOK
  <2> QED  BY <1>2, <2>1, <2>2 DEF SkipChildTable, DayInv, Dated, LineLabels
<1>3. CASE StartTable(c)
  <2>1. tab[c] \in {2, 3}
    BY <1>1, <1>3 DEF StartTable, IsChildTable
  <2>2. /\ pc[c] = "table" /\ pc'[c] = "row" /\ tab'[c] = tab[c]
        /\ row'[c] = First(c, Table(c))
    BY <1>1, <1>3 DEF StartTable, TypeOK
  <2>3. ~ started[c] => pos'[c]["CS_PERMUTE"] = 0
    BY <1>1, <1>3, PermuteStays DEF DayInv
  <2>4. UNCHANGED <<dayVars, rowVars>>
    BY <1>3 DEF StartTable
  <2> QED  BY <1>1, <2>1, <2>2, <2>3, <2>4 DEF DayInv, Dated, LineLabels, First
<1>4. CASE Exit(c)
  <2>1. tab[c] = 4 /\ pc'[c] = "done"
    BY <1>1, <1>4, DriverSize DEF Exit, TypeOK
  <2> QED  BY <1>4, <2>1 DEF Exit, DayInv, Dated, LineLabels
<1>5. CASE EndTable(c)
  <2>1. pc[c] = "row" /\ pc'[c] = "table" /\ tab[c] \in {2, 3} /\ tab'[c] = tab[c] + 1
    BY <1>1, <1>5 DEF EndTable, IInv, ChildInv, CtlInv, TypeOK
  <2> QED  BY <1>5, <2>1 DEF EndTable, DayInv, Dated, LineLabels
<1>6. CASE Restart(c)
  <2>1. pc'[c] = "table" /\ tab'[c] = 1 /\ started'[c] = FALSE /\ perm'[c] = 0
        /\ pos'[c]["CS_PERMUTE"] = 0
    BY <1>1, <1>6 DEF Restart, TypeOK
  <2> QED  BY <2>1 DEF DayInv, Dated, LineLabels
<1> QED  BY <1>2, <1>3, <1>4, <1>5, <1>6

\* mk_master's steps from day to day.
LEMMA MasterDays ==
  ASSUME FitsInt, IInv, NEW c \in Children, DayInv(c),
         BeginOrder(c) \/ SkipDay(c) \/ EndSkipDays(c) \/ NewDate(c) \/ RowStop(c)
  PROVE  DayInv(c)'
<1> USE DEF Goto, envVars, ctlVars, rngVars, dayVars, rowVars, outVars
<1>1. TypeOK /\ jDate[c] \in Nat /\ newDate[c] \in Nat /\ row[c] \in Nat /\ jDate[c] + 1 \in Nat
  <2>1. TypeOK
    BY DEF IInv
  <2>2. jDate[c] \in Nat /\ newDate[c] \in Nat /\ row[c] \in Nat
    BY <2>1 DEF TypeOK
  <2> QED  BY <2>1, <2>2
<1>2. /\ OrdersBefore[0] = 0 /\ OrdersBefore[jDate[c]] \in Nat
      /\ OrdersBefore[jDate[c] + 1] = OrdersBefore[jDate[c]] + DateScaling(jDate[c])
      /\ OrdersBefore[1] = DateScaling(0) /\ DateScaling(0) \in Nat
      /\ DateScaling(jDate[c]) \in Nat /\ DateScaling(jDate[c] + 1) \in Nat
  <2>1. 0 \in Nat /\ 0 + 1 = 1
    OBVIOUS
  <2>2. /\ OrdersBefore[0] = 0 /\ OrdersBefore[0 + 1] = OrdersBefore[0] + DateScaling(0)
        /\ DateScaling(0) \in Nat
    BY <2>1, OrdersBeforeFacts, DaysNotEmpty
  <2>3. OrdersBefore[1] = DateScaling(0)
    BY <2>1, <2>2
  <2> QED  BY <1>1, <2>2, <2>3, OrdersBeforeFacts, DaysNotEmpty
<1>3. CASE BeginOrder(c)
  <2>1. pc[c] = "row" /\ tab[c] = 2
    <3>1. tab[c] \in {2, 3} /\ Table(c) = "catalog_sales" /\ pc[c] = "row"
      BY <1>3 DEF BeginOrder, IInv, ChildInv, CtlInv
    <3> QED  BY <1>1, <3>1, TableFacts
  <2>2. CASE started[c]
    <3>1. pc'[c] = "date" /\ UNCHANGED dayVars
      BY <1>1, <1>3, <2>2 DEF BeginOrder, TypeOK
    <3> QED  BY <1>3, <2>1, <2>2, <3>1 DEF BeginOrder, DayInv, Dated, LineLabels
  <2>3. CASE ~ started[c]
    <3>1. /\ pc'[c] = "skip_days" /\ jDate'[c] = 0 /\ newDate'[c] = DateScaling(0) + 1
          /\ dayIndex'[c] = 1
      BY <1>1, <1>3, <2>3 DEF BeginOrder, TypeOK
    <3>2. newDate'[c] = 1 + OrdersBefore[1] /\ dayIndex'[c] = 1 + OrdersBefore[0]
      BY <1>2, <3>1
    <3> QED  BY <1>3, <2>1, <2>3, <3>1, <3>2 DEF BeginOrder, DayInv, Dated, LineLabels, First
  <2> QED  BY <2>2, <2>3
<1>4. CASE SkipDay(c)
  <2> DEFINE d == jDate[c]
             e == jDate'[c]
  <2>1. /\ pc[c] = "skip_days" /\ pc'[c] = "skip_days" /\ dayIndex[c] < First(c, "catalog_sales")
        /\ e = d + 1 /\ dayIndex'[c] = dayIndex[c] + DateScaling(d) /\ newDate'[c] = dayIndex'[c]
    BY <1>1, <1>4 DEF SkipDay, TypeOK
  <2>2. dayIndex[c] = 1 + OrdersBefore[d] /\ ~ started[c]
    BY <2>1 DEF DayInv
  <2>3. dayIndex'[c] = 1 + OrdersBefore[e] /\ e # 0 /\ e - 1 = d
    BY <1>1, <1>2, <2>1, <2>2
  <2>4. newDate'[c] = 1 + OrdersBefore[IF e = 0 THEN 1 ELSE e]
    BY <2>1, <2>3
  <2>5. 1 + OrdersBefore[e - 1] < First(c, "catalog_sales")
    BY <2>1, <2>2, <2>3
  <2> HIDE DEF d, e
  <2> QED  BY <1>4, <2>1, <2>2, <2>3, <2>4, <2>5 DEF SkipDay, DayInv, Dated, LineLabels, First, e
<1>5. CASE EndSkipDays(c)
  BY <1>5, EndSkipDaysDays
<1>6. CASE NewDate(c)
  <2> DEFINE d == jDate[c]
             e == jDate'[c]
  <2>1. /\ pc[c] = "date" /\ pc'[c] = "date" /\ row[c] > newDate[c]
        /\ e = d + 1 /\ newDate'[c] = newDate[c] + DateScaling(d + 1)
    BY <1>1, <1>6 DEF NewDate, TypeOK
  <2>2. Dated(c)
    BY <2>1 DEF DayInv, Dated, IInv, ChildInv, CtlInv, OrderLabels
  <2>3. newDate[c] = LastOrder(c, d)
    BY <2>2 DEF DayInv
  <2>4. LastOrder(c, d + 1) = LastOrder(c, d) + DateScaling(d + 1)
    BY <1>1, LastOrderFacts
  <2>5. newDate'[c] = LastOrder(c, e) /\ e - 1 = d /\ row[c] > LastOrder(c, e - 1)
    BY <1>1, <2>1, <2>3, <2>4
  <2>6. UNCHANGED <<tab, row, started, perm, pos>>
    BY <1>6 DEF NewDate
  <2> HIDE DEF d, e
  <2> QED  BY <2>1, <2>2, <2>5, <2>6 DEF DayInv, Dated, LineLabels, First, e
<1>7. CASE RowStop(c)
  <2>1. pc[c] = "stop" /\ pc'[c] = "row" /\ row'[c] = row[c] + 1
    BY <1>1, <1>7 DEF RowStop, TypeOK
  <2>2. UNCHANGED <<tab, started, perm, jDate, newDate>>
    BY <1>7 DEF RowStop
  <2>3. ~ started[c] => pos'[c]["CS_PERMUTE"] = 0
    <3> SUFFICES ASSUME ~ started[c] PROVE pos'[c]["CS_PERMUTE"] = 0
      OBVIOUS
    <3>1. pos[c]["CS_PERMUTE"] = 0
      BY DEF DayInv
    <3>2. "CS_PERMUTE" \in Streams /\ used[c]["CS_PERMUTE"] \in Nat /\ Budget["CS_PERMUTE"] = 0
      BY <1>1, StreamFacts DEF TypeOK, Budget
    <3>3. TopUp("CS_PERMUTE", used[c]) = 0
      BY <3>2 DEF TopUp
    <3>4. pos'[c] = RowStopPos(pos[c], used[c], Table(c))
      BY <1>1, <1>7 DEF RowStop, TypeOK
    <3> QED  BY <3>1, <3>2, <3>3, <3>4 DEF RowStopPos
  <2>4. tab[c] = 2 => started[c]
    BY <2>1 DEF DayInv
  <2>5. jDate[c] > 0 => LastOrder(c, jDate[c] - 1) \in Int
    BY <1>1, LastOrderFacts
  <2>6. Dated(c)' => Dated(c)
    BY <2>1, <2>2 DEF Dated
  <2>7. Dated(c) /\ jDate[c] > 0 => row[c] + 1 > LastOrder(c, jDate[c] - 1)
    BY <1>1, <2>5 DEF DayInv
  <2> QED  BY <2>1, <2>2, <2>3, <2>4, <2>6, <2>7 DEF DayInv
<1> QED  BY <1>3, <1>4, <1>5, <1>6, <1>7

\* The days of the child that moves.
LEMMA DayStep ==
  ASSUME FitsInt, IInv, NEW c \in Children, DayInv(c), Step(c) \/ Crash(c) \/ Restart(c)
  PROVE  DayInv(c)'
BY BuildingKeepsDays, MainDays, MasterDays DEF Step

-----------------------------------------------------------------------------
(***************************************************************************)
(* Rows, step by step.                                                     *)
(***************************************************************************)

\* Arithmetic of positions.
LEMMA Twice ==
  ASSUME NEW a \in Nat, NEW b \in Nat
  PROVE  a * b \in Nat /\ a * (2 * b) = 2 * (a * b)
BY Z3

\* Where the streams of an order are: at its share and what it has drawn.
LEMMA OrderPositions ==
  ASSUME FitsInt, IInv, NEW c \in Children, pc[c] \in OrderLabels
  PROVE  /\ TypeOK /\ tab[c] = 2 /\ Table(c) = "catalog_sales"
         /\ row[c] \in 1 .. Orders /\ row[c] - 1 \in Nat /\ row[c] - 1 \in 0 .. Orders - 1
         /\ seed \in Seeds
         /\ pos[c]["CS_SHIP_CUSTOMER_SK"] = 2 * (row[c] - 1) + used[c]["CS_SHIP_CUSTOMER_SK"]
         /\ pos[c]["CS_SOLD_ITEM_SK"] = (row[c] - 1) + used[c]["CS_SOLD_ITEM_SK"]
         /\ pos[c]["CS_ORDER_NUMBER"] = (row[c] - 1) + used[c]["CS_ORDER_NUMBER"]
         /\ pos[c]["CS_SHIP_DATE_SK"] = (row[c] - 1) * MaxLines + used[c]["CS_SHIP_DATE_SK"]
         /\ pos[c]["CR_IS_RETURNED"] = (row[c] - 1) * MaxLines + used[c]["CR_IS_RETURNED"]
         /\ pos[c]["CS_NULLS"] = 2 * ((row[c] - 1) * MaxLines) + used[c]["CS_NULLS"]
         /\ pos[c]["CR_NULLS"] = 2 * ((row[c] - 1) * MaxLines) + used[c]["CR_NULLS"]
         /\ pos[c]["CR_RETURNING_CUSTOMER_SK"] =
              2 * ((row[c] - 1) * MaxLines) + used[c]["CR_RETURNING_CUSTOMER_SK"]
         /\ (row[c] - 1) * MaxLines \in Nat
         /\ \A s \in Streams : pos[c][s] \in Nat /\ used[c][s] \in Nat
<1>1. TypeOK /\ tab[c] = 2 /\ left[c] > 0
  BY DEF IInv, ChildInv, CtlInv, InRow, OrderLabels
<1>2. Table(c) = "catalog_sales"
  BY <1>1, TableFacts
<1>3. row[c] \in 1 .. Orders
  BY <1>1, <1>2, RowInTable DEF InRow, Orders
<1> DEFINE r == row[c] - 1
<1>4. r \in Nat /\ r \in 0 .. Orders - 1 /\ MaxLines \in Nat
  BY <1>3, DsdgenAssumption DEF Orders
<1>5. \A s \in SalesStreams : pos[c][s] = r * Budget[s] + used[c][s]
  BY <1>2 DEF IInv, ChildInv, WithinInv, RowStreams, InRow, OrderLabels, Aligned
<1>6. seed \in Seeds /\ \A s \in Streams : pos[c][s] \in Nat /\ used[c][s] \in Nat
  BY <1>1 DEF TypeOK
<1> HIDE DEF r
<1>7. /\ r * MaxLines \in Nat /\ r * (2 * MaxLines) = 2 * (r * MaxLines)
      /\ r * 2 = 2 * r /\ r * 1 = r
  BY <1>4, Twice
<1>8. /\ pos[c]["CS_SHIP_CUSTOMER_SK"] = r * 2 + used[c]["CS_SHIP_CUSTOMER_SK"]
      /\ pos[c]["CS_SOLD_ITEM_SK"] = r * 1 + used[c]["CS_SOLD_ITEM_SK"]
      /\ pos[c]["CS_ORDER_NUMBER"] = r * 1 + used[c]["CS_ORDER_NUMBER"]
      /\ pos[c]["CS_SHIP_DATE_SK"] = r * MaxLines + used[c]["CS_SHIP_DATE_SK"]
      /\ pos[c]["CR_IS_RETURNED"] = r * MaxLines + used[c]["CR_IS_RETURNED"]
      /\ pos[c]["CS_NULLS"] = r * (2 * MaxLines) + used[c]["CS_NULLS"]
      /\ pos[c]["CR_NULLS"] = r * (2 * MaxLines) + used[c]["CR_NULLS"]
      /\ pos[c]["CR_RETURNING_CUSTOMER_SK"] =
           r * (2 * MaxLines) + used[c]["CR_RETURNING_CUSTOMER_SK"]
  BY <1>5, StreamFacts DEF Budget
<1> QED  BY <1>1, <1>2, <1>3, <1>4, <1>6, <1>7, <1>8 DEF r

\* Before an order no line has been drawn for.
LEMMA NothingDrawn ==
  ASSUME IInv, NEW c \in Children, pc[c] = "date"
  PROVE  \A s \in SalesStreams : used[c][s] = 0
BY DEF IInv, ChildInv, WithinInv

\* Where an order is dated, it is on its day.
LEMMA OrderDay ==
  ASSUME IInv, NEW c \in Children, DayInv(c), pc[c] = "date", ~ row[c] > newDate[c]
  PROVE  jDate[c] = ChunkDay(c, row[c])
<1>1. TypeOK /\ tab[c] = 2
  BY DEF IInv, ChildInv, CtlInv, OrderLabels
<1>2. jDate[c] \in Nat /\ row[c] \in Nat /\ newDate[c] \in Nat
  BY <1>1 DEF TypeOK
<1>3. Dated(c)
  BY <1>1 DEF DayInv, Dated
<1>4. IsDay(c, row[c], jDate[c])
  BY <1>2, <1>3 DEF DayInv, IsDay
<1> QED  BY <1>2, <1>4, OneDay

\* The remainder of the next number.
LEMMA NextRemainder ==
  ASSUME NEW x \in Nat, NEW n \in Nat \ {0}
  PROVE  /\ x % n \in 0 .. n - 1
         /\ (x + 1) % n = IF (x % n) + 1 = n THEN 0 ELSE (x % n) + 1
<1>1. ASSUME NEW y \in Nat, NEW q \in Nat, NEW m \in 0 .. n - 1, y = n * q + m
      PROVE  y % n = m
  BY <1>1, Z3
<1> DEFINE q == x \div n
           m == x % n
<1>2. q \in Nat /\ m \in 0 .. n - 1 /\ x = n * q + m
  BY DivMod
<1> HIDE DEF q, m
<1>3. CASE m + 1 = n
  <2>1. x + 1 \in Nat /\ q + 1 \in Nat /\ 0 \in 0 .. n - 1 /\ x + 1 = n * (q + 1) + 0
    BY <1>2, <1>3, Z3
  <2>2. (x + 1) % n = 0
    BY <1>1, <2>1
  <2> QED  BY <1>2, <1>3, <2>2 DEF m
<1>4. CASE m + 1 # n
  <2>1. x + 1 \in Nat /\ m + 1 \in 0 .. n - 1 /\ x + 1 = n * q + (m + 1)
    BY <1>2, <1>4
  <2>2. (x + 1) % n = m + 1
    BY <1>1, <1>2, <2>1
  <2> QED  BY <1>2, <1>4, <2>2 DEF m
<1> QED  BY <1>3, <1>4

\* The items of an order's lines follow each other.
LEMMA ItemsFollow ==
  ASSUME NEW g \in Seeds, NEW o \in 1 .. Orders, NEW l \in Nat
  PROVE  /\ ItemOf(g, o, 0) = g.item[o - 1]
         /\ NextItem(ItemOf(g, o, l)) = ItemOf(g, o, l + 1)
<1> DEFINE b == g.item[o - 1]
           N == ItemCount
           x == b + l - 1
<1>1. N \in Nat \ {0} /\ b \in 1 .. N
  BY SeedFacts, DsdgenAssumption
<1>2. b \in Nat /\ x \in Nat /\ b + (l + 1) - 1 = x + 1 /\ b + 0 - 1 = b - 1
  BY <1>1
<1>3. ItemOf(g, o, 0) = ((b - 1) % N) + 1 /\ ItemOf(g, o, l) = (x % N) + 1
      /\ ItemOf(g, o, l + 1) = ((x + 1) % N) + 1
  BY <1>2 DEF ItemOf
<1> HIDE DEF b, x, N
<1>4. (b - 1) % N = b - 1
  BY <1>1, <1>2, Z3
<1>5. x % N \in 0 .. N - 1 /\ (x + 1) % N = IF (x % N) + 1 = N THEN 0 ELSE (x % N) + 1
  BY <1>1, <1>2, NextRemainder
<1>6. NextItem((x % N) + 1) = IF (x % N) + 1 = N THEN 1 ELSE (x % N) + 2
  BY <1>1, <1>5 DEF NextItem, N
<1> QED  BY <1>1, <1>2, <1>3, <1>4, <1>5, <1>6 DEF b

\* mk_master starts the order of the serial build.
LEMMA MasterRow ==
  ASSUME FitsInt, IInv, NEW c \in Children, DayInv(c), MkMaster(c)
  PROVE  RowInv(c)'
<1> DEFINE gift == seed.gift[pos[c]["CS_SHIP_CUSTOMER_SK"]]
           draws == [CS_SHIP_CUSTOMER_SK |-> IF gift THEN 2 ELSE 1,
                     CS_SOLD_ITEM_SK |-> 1, CS_ORDER_NUMBER |-> 1]
           r == row[c]
<1> USE DEF Goto, envVars, dayVars, outVars
<1>1. pc[c] = "date" /\ pc[c] \in OrderLabels /\ UNCHANGED <<seed, row>>
  BY DEF MkMaster, OrderLabels
<1>2. /\ TypeOK /\ r \in 1 .. Orders /\ r - 1 \in Nat /\ seed \in Seeds
      /\ pos[c]["CS_SHIP_CUSTOMER_SK"] = 2 * (r - 1) + used[c]["CS_SHIP_CUSTOMER_SK"]
      /\ pos[c]["CS_SOLD_ITEM_SK"] = (r - 1) + used[c]["CS_SOLD_ITEM_SK"]
      /\ pos[c]["CS_ORDER_NUMBER"] = (r - 1) + used[c]["CS_ORDER_NUMBER"]
  BY <1>1, OrderPositions
<1>3. \A s \in SalesStreams : used[c][s] = 0
  BY <1>1, NothingDrawn
<1>4. /\ pos[c]["CS_SHIP_CUSTOMER_SK"] = 2 * (r - 1)
      /\ pos[c]["CS_SOLD_ITEM_SK"] = r - 1 /\ pos[c]["CS_ORDER_NUMBER"] = r - 1
  BY <1>2, <1>3, StreamFacts
<1>5. /\ used'[c]["CS_SHIP_DATE_SK"] = 0 /\ used'[c]["CS_NULLS"] = 0
      /\ used'[c]["CR_IS_RETURNED"] = 0 /\ used'[c]["CR_NULLS"] = 0
      /\ used'[c]["CR_RETURNING_CUSTOMER_SK"] = 0
  <2>1. Draw(c, draws)
    BY DEF MkMaster
  <2>2. \A s \in Streams : Drawn(draws, s) \in Nat
    BY DEF Drawn
  <2>3. /\ Drawn(draws, "CS_SHIP_DATE_SK") = 0 /\ Drawn(draws, "CS_NULLS") = 0
        /\ Drawn(draws, "CR_IS_RETURNED") = 0 /\ Drawn(draws, "CR_NULLS") = 0
        /\ Drawn(draws, "CR_RETURNING_CUSTOMER_SK") = 0
    BY DEF Drawn
  <2> HIDE DEF draws
  <2>4. \A s \in Streams : used'[c][s] = used[c][s] + Drawn(draws, s)
    BY <1>2, <2>1, <2>2, DrawFacts
  <2> QED  BY <1>3, <2>3, <2>4, StreamFacts
<1>6. /\ pc'[c] = "detail" /\ line'[c] = 1 /\ lines'[c] = seed.lines[r - 1]
      /\ item'[c] = seed.item[r - 1]
      /\ sale'[c].order = r /\ sale'[c].date = jDate[c]
      /\ sale'[c].ship = IF seed.gift[2 * (r - 1)] THEN 2 * (r - 1) + 1 ELSE 0
  <2>1. /\ pc'[c] = "detail" /\ line'[c] = 1 /\ lines'[c] = seed.lines[r - 1]
        /\ item'[c] = seed.item[r - 1]
    BY <1>2, <1>4 DEF MkMaster, TypeOK
  <2> DEFINE ship == IF gift THEN pos[c]["CS_SHIP_CUSTOMER_SK"] + 1 ELSE 0
  <2>2. sale' = [sale EXCEPT ![c].order = row[c], ![c].date = jDate[c], ![c].ship = ship]
    BY DEF MkMaster
  <2>3. sale \in [Children -> SaleRows]
    BY <1>2 DEF TypeOK
  <2> HIDE DEF ship
  <2>4. sale'[c].order = r /\ sale'[c].date = jDate[c] /\ sale'[c].ship = ship
    BY <2>2, <2>3 DEF SaleRows
  <2> QED  BY <1>4, <2>1, <2>4 DEF ship
<1>7. jDate[c] = ChunkDay(c, r)
  BY OrderDay DEF MkMaster
<1>8. ItemOf(seed, r, 0) = seed.item[r - 1]
  <2>1. 0 \in Nat
    OBVIOUS
  <2> QED  BY <1>2, <2>1, ItemsFollow
<1>9. ReturnsBefore(seed, r, 1) = 0
  BY ReturnsCounted
<1>10. LinesBuilt(c)' = 0
  BY <1>6 DEF LinesBuilt
<1> HIDE DEF gift, draws
<1>11. row'[c] = r /\ seed' = seed /\ 0 + 1 = 1 /\ 2 * 0 = 0
  BY <1>1
<1> HIDE DEF r
<1>12. LinesIn(seed, r) = seed.lines[r - 1] /\ ShipOf(seed, r) = IF seed.gift[2 * (r - 1)] THEN 2 * (r - 1) + 1 ELSE 0
  BY DEF LinesIn, ShipOf
<1> QED
  BY <1>5, <1>6, <1>7, <1>8, <1>9, <1>10, <1>11, <1>12 DEF RowInv, LineLabels

\* mk_detail builds the line of the serial build.
LEMMA SoldLineIs ==
  ASSUME FitsInt, IInv, NEW c \in Children, DayInv(c), RowInv(c), pc[c] = "detail"
  PROVE  /\ line[c] \in Nat \ {0}
         /\ NextItem(item[c]) = ItemOf(seed, row[c], line[c])
         /\ SoldLine(c) = SaleOf(seed, ChunkDay(c, row[c]), row[c], line[c])
         /\ seed.returned[pos[c]["CR_IS_RETURNED"]] = IsReturned(seed, row[c], line[c])
<1> DEFINE r == row[c]
           l == line[c]
           nth == (r - 1) * MaxLines + (l - 1)
<1>1. /\ TypeOK /\ r \in 1 .. Orders /\ seed \in Seeds
      /\ pos[c]["CS_SHIP_DATE_SK"] = (r - 1) * MaxLines + used[c]["CS_SHIP_DATE_SK"]
      /\ pos[c]["CR_IS_RETURNED"] = (r - 1) * MaxLines + used[c]["CR_IS_RETURNED"]
      /\ pos[c]["CS_NULLS"] = 2 * ((r - 1) * MaxLines) + used[c]["CS_NULLS"]
      /\ (r - 1) * MaxLines \in Nat
  BY OrderPositions DEF OrderLabels
<1>2. l \in Nat \ {0} /\ l - 1 \in Nat /\ l - 1 + 1 = l
  <2>1. line[c] \in 1 .. MaxLines
    BY <1>1 DEF TypeOK
  <2> QED  BY <2>1, DsdgenAssumption
<1>3. /\ used[c]["CS_SHIP_DATE_SK"] = l - 1 /\ used[c]["CS_NULLS"] = 2 * (l - 1)
      /\ used[c]["CR_IS_RETURNED"] = l - 1
      /\ item[c] = ItemOf(seed, r, l - 1)
      /\ sale[c].order = r /\ sale[c].date = ChunkDay(c, r) /\ sale[c].ship = ShipOf(seed, r)
  BY DEF RowInv, LineLabels, LinesBuilt
<1>4. NextItem(item[c]) = ItemOf(seed, r, l)
  <2>1. NextItem(ItemOf(seed, r, l - 1)) = ItemOf(seed, r, l - 1 + 1)
    BY <1>1, <1>2, ItemsFollow
  <2> QED  BY <1>2, <1>3, <2>1
<1>5. /\ pos[c]["CS_SHIP_DATE_SK"] = nth /\ pos[c]["CR_IS_RETURNED"] = nth
      /\ pos[c]["CS_NULLS"] = 2 * nth
  BY <1>1, <1>2, <1>3
<1>6. perm[c] = 0 /\ sale[c] \in SaleRows
  BY <1>1 DEF DayInv, TypeOK
<1>7. SaleOf(seed, ChunkDay(c, r), r, l) =
        [order |-> r, line |-> l, date |-> ChunkDay(c, r), ship |-> ShipOf(seed, r),
         perm |-> 0, item |-> ItemOf(seed, r, l), lag |-> nth, nulls |-> 2 * nth]
  BY DEF SaleOf
<1>8. IsReturned(seed, r, l) = seed.returned[nth]
  BY DEF IsReturned
<1>9. SoldLine(c) = [sale[c] EXCEPT !.line = l, !.perm = 0, !.item = ItemOf(seed, r, l),
                                    !.lag = nth, !.nulls = 2 * nth]
  BY <1>4, <1>5, <1>6 DEF SoldLine
<1> HIDE DEF nth, l, r
<1>10. SoldLine(c) = SaleOf(seed, ChunkDay(c, r), r, l)
  BY <1>3, <1>6, <1>7, <1>9 DEF SaleRows
<1> QED  BY <1>2, <1>4, <1>5, <1>8, <1>10 DEF r, l

\* A line that stays is drawn for as in the serial build.
LEMMA DetailRow ==
  ASSUME FitsInt, IInv, NEW c \in Children, DayInv(c), RowInv(c), MkDetail(c)
  PROVE  RowInv(c)'
<1> DEFINE draws == [CS_NULLS |-> 2, CS_SHIP_DATE_SK |-> 1, CR_IS_RETURNED |-> 1]
           r == row[c]
           l == line[c]
<1> USE DEF Goto, envVars, ctlVars, dayVars, outVars
<1>1. pc[c] = "detail" /\ TypeOK
  BY DEF MkDetail, IInv
<1>2. /\ l \in Nat \ {0} /\ NextItem(item[c]) = ItemOf(seed, r, l)
      /\ SoldLine(c) = SaleOf(seed, ChunkDay(c, r), r, l)
      /\ seed.returned[pos[c]["CR_IS_RETURNED"]] = IsReturned(seed, r, l)
  BY <1>1, SoldLineIs
<1>3. /\ used[c]["CS_SHIP_DATE_SK"] = l - 1 /\ used[c]["CS_NULLS"] = 2 * (l - 1)
      /\ used[c]["CR_IS_RETURNED"] = l - 1
      /\ used[c]["CR_NULLS"] = 2 * ReturnsBefore(seed, r, l - 1 + 1)
      /\ used[c]["CR_RETURNING_CUSTOMER_SK"] = used[c]["CR_NULLS"]
      /\ lines[c] = LinesIn(seed, r)
      /\ sale[c].order = r /\ sale[c].date = ChunkDay(c, r) /\ sale[c].ship = ShipOf(seed, r)
  BY <1>1 DEF RowInv, LineLabels, LinesBuilt
<1>4. /\ used'[c]["CS_SHIP_DATE_SK"] = used[c]["CS_SHIP_DATE_SK"] + 1
      /\ used'[c]["CS_NULLS"] = used[c]["CS_NULLS"] + 2
      /\ used'[c]["CR_IS_RETURNED"] = used[c]["CR_IS_RETURNED"] + 1
      /\ used'[c]["CR_NULLS"] = used[c]["CR_NULLS"] + 0
      /\ used'[c]["CR_RETURNING_CUSTOMER_SK"] = used[c]["CR_RETURNING_CUSTOMER_SK"] + 0
  <2>1. Draw(c, draws)
    BY DEF MkDetail
  <2>2. \A s \in Streams : Drawn(draws, s) \in Nat
    BY DEF Drawn
  <2>3. /\ Drawn(draws, "CS_SHIP_DATE_SK") = 1 /\ Drawn(draws, "CS_NULLS") = 2
        /\ Drawn(draws, "CR_IS_RETURNED") = 1 /\ Drawn(draws, "CR_NULLS") = 0
        /\ Drawn(draws, "CR_RETURNING_CUSTOMER_SK") = 0
    BY DEF Drawn
  <2> HIDE DEF draws
  <2>4. \A s \in Streams : used'[c][s] = used[c][s] + Drawn(draws, s)
    BY <1>1, <2>1, <2>2, DrawFacts
  <2> QED  BY <2>3, <2>4, StreamFacts
<1>5. /\ pc'[c] = "print_sale" /\ sale'[c] = SoldLine(c) /\ item'[c] = NextItem(item[c])
      /\ seed' = seed /\ row'[c] = r /\ line'[c] = l /\ lines'[c] = lines[c]
  BY <1>1 DEF MkDetail, TypeOK
<1>6. ~ IsReturned(seed, r, l)
  BY <1>2 DEF MkDetail
<1>7. /\ ReturnsBefore(seed, r, l + 1) = ReturnsBefore(seed, r, l)
      /\ ReturnsBefore(seed, r, l) \in Nat
  <2> HIDE DEF r, l
  <2>1. /\ ReturnsBefore(seed, r, l) \in Nat
        /\ ReturnsBefore(seed, r, l + 1) =
             ReturnsBefore(seed, r, l) + (IF IsReturned(seed, r, l) THEN 1 ELSE 0)
    BY <1>2, ReturnsCounted
  <2> QED  BY <1>6, <2>1
<1>8. SaleOf(seed, ChunkDay(c, r), r, l).order = r
      /\ SaleOf(seed, ChunkDay(c, r), r, l).date = ChunkDay(c, r)
      /\ SaleOf(seed, ChunkDay(c, r), r, l).ship = ShipOf(seed, r)
  BY DEF SaleOf
<1> HIDE DEF draws, r, l
<1>9. /\ used'[c]["CS_SHIP_DATE_SK"] = l /\ used'[c]["CS_NULLS"] = 2 * l
      /\ used'[c]["CR_IS_RETURNED"] = l
      /\ used'[c]["CR_NULLS"] = 2 * ReturnsBefore(seed, r, l + 1)
      /\ used'[c]["CR_RETURNING_CUSTOMER_SK"] = used'[c]["CR_NULLS"]
  <2>1. l - 1 + 1 = l
    BY <1>2
  <2>2. used[c]["CR_NULLS"] = 2 * ReturnsBefore(seed, r, l)
    BY <1>3, <2>1
  <2> QED  BY <1>2, <1>3, <1>4, <1>7, <2>2
<1>10. LinesBuilt(c)' = l
  BY <1>5 DEF LinesBuilt
<1> QED
  BY <1>2, <1>3, <1>5, <1>8, <1>9, <1>10 DEF RowInv, LineLabels

\* So is a line that is returned, and its return.
LEMMA ReturnedRow ==
  ASSUME FitsInt, IInv, NEW c \in Children, DayInv(c), RowInv(c), MkDetailReturned(c)
  PROVE  RowInv(c)'
<1> DEFINE draws == [CS_NULLS |-> 2, CS_SHIP_DATE_SK |-> 1, CR_IS_RETURNED |-> 1,
                     CR_NULLS |-> 2, CR_RETURNING_CUSTOMER_SK |-> 2]
           r == row[c]
           l == line[c]
           drawn == 2 * ((r - 1) * MaxLines + ReturnsBefore(seed, r, l))
<1> USE DEF Goto, envVars, ctlVars, dayVars, outVars
<1>1. pc[c] = "detail" /\ TypeOK
  BY DEF MkDetailReturned, IInv
<1>2. /\ l \in Nat \ {0} /\ NextItem(item[c]) = ItemOf(seed, r, l)
      /\ SoldLine(c) = SaleOf(seed, ChunkDay(c, r), r, l)
      /\ seed.returned[pos[c]["CR_IS_RETURNED"]] = IsReturned(seed, r, l)
  BY <1>1, SoldLineIs
<1>3. /\ used[c]["CS_SHIP_DATE_SK"] = l - 1 /\ used[c]["CS_NULLS"] = 2 * (l - 1)
      /\ used[c]["CR_IS_RETURNED"] = l - 1
      /\ used[c]["CR_NULLS"] = 2 * ReturnsBefore(seed, r, l - 1 + 1)
      /\ used[c]["CR_RETURNING_CUSTOMER_SK"] = used[c]["CR_NULLS"]
      /\ lines[c] = LinesIn(seed, r)
      /\ sale[c].order = r /\ sale[c].date = ChunkDay(c, r) /\ sale[c].ship = ShipOf(seed, r)
  BY <1>1 DEF RowInv, LineLabels, LinesBuilt
<1>4. /\ used'[c]["CS_SHIP_DATE_SK"] = used[c]["CS_SHIP_DATE_SK"] + 1
      /\ used'[c]["CS_NULLS"] = used[c]["CS_NULLS"] + 2
      /\ used'[c]["CR_IS_RETURNED"] = used[c]["CR_IS_RETURNED"] + 1
      /\ used'[c]["CR_NULLS"] = used[c]["CR_NULLS"] + 2
      /\ used'[c]["CR_RETURNING_CUSTOMER_SK"] = used[c]["CR_RETURNING_CUSTOMER_SK"] + 2
  <2>1. Draw(c, draws)
    BY DEF MkDetailReturned
  <2>2. \A s \in Streams : Drawn(draws, s) \in Nat
    BY DEF Drawn
  <2>3. /\ Drawn(draws, "CS_SHIP_DATE_SK") = 1 /\ Drawn(draws, "CS_NULLS") = 2
        /\ Drawn(draws, "CR_IS_RETURNED") = 1 /\ Drawn(draws, "CR_NULLS") = 2
        /\ Drawn(draws, "CR_RETURNING_CUSTOMER_SK") = 2
    BY DEF Drawn
  <2> HIDE DEF draws
  <2>4. \A s \in Streams : used'[c][s] = used[c][s] + Drawn(draws, s)
    BY <1>1, <2>1, <2>2, DrawFacts
  <2> QED  BY <2>3, <2>4, StreamFacts
<1>5. /\ pc'[c] = "print_return" /\ sale'[c] = SoldLine(c) /\ item'[c] = NextItem(item[c])
      /\ seed' = seed /\ row'[c] = r /\ line'[c] = l /\ lines'[c] = lines[c]
  BY <1>1 DEF MkDetailReturned, TypeOK
<1>6. IsReturned(seed, r, l)
  BY <1>2 DEF MkDetailReturned
<1>7. /\ ReturnsBefore(seed, r, l + 1) = ReturnsBefore(seed, r, l) + 1
      /\ ReturnsBefore(seed, r, l) \in Nat
  BY <1>2, <1>6, ReturnsCounted
<1>8. SaleOf(seed, ChunkDay(c, r), r, l).order = r
      /\ SaleOf(seed, ChunkDay(c, r), r, l).date = ChunkDay(c, r)
      /\ SaleOf(seed, ChunkDay(c, r), r, l).ship = ShipOf(seed, r)
  BY DEF SaleOf
<1>9. l - 1 + 1 = l /\ used[c]["CR_NULLS"] = 2 * ReturnsBefore(seed, r, l)
  <2>1. l - 1 + 1 = l
    BY <1>2
  <2> QED  BY <1>3, <2>1
<1>10. pos[c]["CR_NULLS"] = drawn /\ pos[c]["CR_RETURNING_CUSTOMER_SK"] = drawn
  <2>1. /\ pos[c]["CR_NULLS"] = 2 * ((r - 1) * MaxLines) + used[c]["CR_NULLS"]
        /\ pos[c]["CR_RETURNING_CUSTOMER_SK"] =
             2 * ((r - 1) * MaxLines) + used[c]["CR_RETURNING_CUSTOMER_SK"]
        /\ (r - 1) * MaxLines \in Nat
    BY <1>1, OrderPositions DEF OrderLabels
  <2> QED  BY <1>3, <1>7, <1>9, <2>1
<1>11. return'[c] = ReturnOf(seed, r, l)
  <2>1. return'[c] =
          [order |-> sale[c].order, line |-> l, perm |-> perm[c], item |-> NextItem(item[c]),
           customer |-> IF seed.regift[pos[c]["CR_RETURNING_CUSTOMER_SK"] + 1]
                        THEN sale[c].ship ELSE pos[c]["CR_RETURNING_CUSTOMER_SK"],
           nulls |-> pos[c]["CR_NULLS"]]
    BY <1>1 DEF MkDetailReturned, TypeOK
  <2>2. perm[c] = 0
    BY DEF DayInv
  <2>3. ReturnOf(seed, r, l) =
          [order |-> r, line |-> l, perm |-> 0, item |-> ItemOf(seed, r, l),
           customer |-> IF seed.regift[drawn + 1] THEN ShipOf(seed, r) ELSE drawn,
           nulls |-> drawn]
    BY DEF ReturnOf
  <2> HIDE DEF drawn, l, r
  <2> QED  BY <1>2, <1>3, <1>10, <2>1, <2>2, <2>3
<1> HIDE DEF draws, r, l
<1>12. /\ used'[c]["CS_SHIP_DATE_SK"] = l /\ used'[c]["CS_NULLS"] = 2 * l
       /\ used'[c]["CR_IS_RETURNED"] = l
       /\ used'[c]["CR_NULLS"] = 2 * ReturnsBefore(seed, r, l + 1)
       /\ used'[c]["CR_RETURNING_CUSTOMER_SK"] = used'[c]["CR_NULLS"]
  BY <1>2, <1>3, <1>4, <1>7, <1>9
<1>13. LinesBuilt(c)' = l
  BY <1>5 DEF LinesBuilt
<1> QED
  BY <1>2, <1>3, <1>5, <1>6, <1>8, <1>11, <1>12, <1>13 DEF RowInv, LineLabels

\* The address is that of its row.
LEMMA AddressRow ==
  ASSUME FitsInt, IInv, NEW c \in Children, BuildAddress(c)
  PROVE  RowInv(c)'
<1> DEFINE r == row[c]
<1> USE DEF Goto, envVars, ctlVars, dayVars, outVars
<1>1. /\ TypeOK /\ pc[c] = "row" /\ left[c] > 0 /\ Table(c) = "customer_address"
      /\ pc'[c] = "print_address" /\ row'[c] = row[c]
  BY DEF BuildAddress, IInv, TypeOK
<1>2. r \in Nat \ {0}
  BY <1>1 DEF TypeOK
<1>3. \A s \in AddressStreams : pos[c][s] = (r - 1) * Budget[s] + 0
  <2>1. \A s \in AddressStreams : used[c][s] = 0 /\ Aligned(c, s)
    BY <1>1 DEF IInv, ChildInv, WithinInv, RowStreams
  <2> QED  BY <2>1 DEF Aligned
<1>4. pos[c]["CA_ADDRESS"] = 7 * (r - 1) /\ pos[c]["CA_NULLS"] = 2 * (r - 1)
  <2>1. Budget["CA_ADDRESS"] = 7 /\ Budget["CA_NULLS"] = 2
    BY DEF Budget
  <2>2. pos[c]["CA_ADDRESS"] = (r - 1) * 7 + 0 /\ pos[c]["CA_NULLS"] = (r - 1) * 2 + 0
    BY <1>3, <2>1 DEF AddressStreams
  <2> HIDE DEF r
  <2> QED  BY <1>2, <2>2
<1>5. address'[c] =
        [row |-> r, place |-> pos[c]["CA_ADDRESS"], nulls |-> pos[c]["CA_NULLS"]]
  BY <1>1 DEF BuildAddress, TypeOK
<1> QED  BY <1>1, <1>4, <1>5 DEF RowInv, LineLabels, AddressOf

\* Printing does not change the row; after a line the next one starts.
LEMMA PrintedRow ==
  ASSUME IInv, NEW c \in Children, RowInv(c),
         OpenFile(c) \/ PrintReturn(c) \/ PrintSale(c)
  PROVE  RowInv(c)'
<1> USE DEF Goto, envVars, ctlVars, rngVars, dayVars, rowVars
<1>1. TypeOK /\ line[c] \in Nat
  <2>1. TypeOK /\ line[c] \in 1 .. MaxLines
    BY DEF IInv, TypeOK
  <2> QED  BY <2>1, DsdgenAssumption
<1>2. CASE OpenFile(c)
  BY <1>2 DEF OpenFile, RowInv, LinesBuilt
<1>3. CASE PrintReturn(c)
  <2>1. pc[c] = "print_return" /\ pc'[c] = "print_sale"
    BY <1>1, <1>3 DEF PrintReturn, TypeOK
  <2>2. LinesBuilt(c)' = LinesBuilt(c)
    BY <1>3, <2>1 DEF PrintReturn, LinesBuilt
  <2> QED  BY <1>3, <2>1, <2>2 DEF PrintReturn, RowInv, LineLabels
<1>4. CASE PrintSale(c)
  <2>1. /\ pc[c] = "print_sale" /\ LinesBuilt(c) = line[c]
        /\ UNCHANGED <<row, lines, seed, rngVars, rowVars>>
    BY <1>1, <1>4 DEF PrintSale, LinesBuilt
  <2>2. CASE line[c] < lines[c]
    <3>1. pc'[c] = "detail" /\ line'[c] = line[c] + 1
      BY <1>1, <1>4, <2>2 DEF PrintSale, TypeOK
    <3>2. LinesBuilt(c)' = line[c]
      BY <1>1, <3>1 DEF LinesBuilt
    <3> QED  BY <2>1, <3>1, <3>2 DEF RowInv, LineLabels
  <2>3. CASE ~ line[c] < lines[c]
    <3>1. pc'[c] = "stop"
      BY <1>1, <1>4, <2>3 DEF PrintSale, TypeOK
    <3> QED  BY <3>1 DEF RowInv, LineLabels
  <2> QED  BY <2>2, <2>3
<1> QED  BY <1>2, <1>3, <1>4

\* The row of the child that moves.
LEMMA RowStep ==
  ASSUME FitsInt, IInv, NEW c \in Children, DayInv(c), RowInv(c),
         Step(c) \/ Crash(c) \/ Restart(c)
  PROVE  RowInv(c)'
<1>1. TypeOK
  BY DEF IInv
<1>2. CASE BuildAddress(c) \/ MkMaster(c) \/ MkDetail(c) \/ MkDetailReturned(c)
           \/ OpenFile(c) \/ PrintReturn(c) \/ PrintSale(c)
  BY <1>2, AddressRow, MasterRow, DetailRow, ReturnedRow, PrintedRow
<1>3. CASE ~ (BuildAddress(c) \/ MkMaster(c) \/ MkDetail(c) \/ MkDetailReturned(c)
              \/ OpenFile(c) \/ PrintReturn(c) \/ PrintSale(c))
  <2>1. pc'[c] \notin LineLabels \union {"print_address"}
    <3> USE DEF Goto, TypeOK, LineLabels
    <3>1. CASE SkipChildTable(c) \/ StartTable(c) \/ Exit(c) \/ EndTable(c)
      BY <1>1, <3>1 DEF SkipChildTable, StartTable, Exit, EndTable
    <3>2. CASE BeginOrder(c)
      BY <1>1, <3>2 DEF BeginOrder
    <3>3. CASE SkipDay(c) \/ EndSkipDays(c) \/ NewDate(c)
      BY <1>1, <3>3 DEF SkipDay, EndSkipDays, NewDate
    <3>4. CASE RefuseFile(c) \/ PrintAddress(c) \/ RowStop(c) \/ Crash(c) \/ Restart(c)
      BY <1>1, <3>4 DEF RefuseFile, PrintAddress, RowStop, Crash, Restart
    <3> QED  BY <1>3, <3>1, <3>2, <3>3, <3>4 DEF Step
  <2> QED  BY <2>1 DEF RowInv, LineLabels
<1> QED  BY <1>2, <1>3

-----------------------------------------------------------------------------
(***************************************************************************)
(* Files, step by step.                                                    *)
(***************************************************************************)

\* How far a process is with a table.
LEMMA Progress ==
  ASSUME FitsInt, IInv, NEW c \in Children, NEW t \in Tables, Building(c, t),
         row[c] >= First(c, Driver(t))
  PROVE  LET n == row[c] - First(c, Driver(t)) IN
         /\ TypeOK /\ seed \in Seeds /\ Driver(t) = Table(c)
         /\ n \in Nat /\ n \in 0 .. Count(c, Driver(t)) /\ First(c, Driver(t)) + n = row[c]
         /\ left[c] = 0 => n = Count(c, Driver(t))
         /\ left[c] > 0 => n < Count(c, Driver(t)) /\ n + 1 \in 0 .. Count(c, Driver(t))
         /\ pc[c] \in InRow => left[c] > 0
<1>1. TypeOK /\ seed \in Seeds /\ row[c] \in Nat /\ left[c] \in Nat
  BY DEF IInv, TypeOK
<1>2. tab[c] \in {2, 3} /\ t \in Family(Table(c)) /\ pc[c] \in InRow \union {"row"}
  BY DEF Building
<1>3. Driver(t) = Table(c)
  <2>1. Table(c) \in {"catalog_sales", "customer_address"}
    BY <1>1, <1>2, TableFacts
  <2> QED  BY <1>2, <2>1 DEF Driver, Family
<1>4. /\ row[c] + left[c] = First(c, Table(c)) + Count(c, Table(c))
      /\ pc[c] \in InRow => left[c] > 0
  BY <1>2 DEF IInv, ChildInv, CtlInv
<1>5. First(c, Driver(t)) \in Nat /\ Count(c, Driver(t)) \in Nat
  BY ChunkInTable
<1> DEFINE f == First(c, Driver(t))
           k == Count(c, Driver(t))
<1>6. f \in Nat /\ k \in Nat /\ row[c] + left[c] = f + k /\ row[c] >= f
  BY <1>3, <1>4, <1>5
<1> HIDE DEF f, k
<1>7. LET n == row[c] - f IN
         /\ n \in Nat /\ n \in 0 .. k /\ f + n = row[c]
         /\ left[c] = 0 => n = k
         /\ left[c] > 0 => n < k /\ n + 1 \in 0 .. k
  BY <1>1, <1>6
<1> QED  BY <1>1, <1>3, <1>4, <1>7 DEF f, k

\* A step within gen_tbl, for the tables it does not build.
LEMMA FileOther ==
  ASSUME NEW c \in Children, NEW t \in Tables, FileInv(c, t),
         seed' = seed, tab'[c] = tab[c],
         pc[c] \in InRow \union {"row"}, pc'[c] \in InRow \union {"row"},
         t \notin Family(Table(c)), t \in open'[c] => t \in open[c],
         t \in exists[c] => t \in exists'[c], file'[c][t] = file[c][t]
  PROVE  FileInv(c, t)'
<1>1. Table(c)' = Table(c)
  BY DEF Table
<1>2. ~ Building(c, t) /\ ~ Building(c, t)'
  BY <1>1 DEF Building
<1>3. t \notin open[c]
  BY <1>2 DEF FileInv, InRow, OrderLabels, Stopped
<1>4. Past(c, t)' = Past(c, t)
  BY DEF Past
<1> QED  BY <1>2, <1>3, <1>4 DEF FileInv

\* And for those it does.
LEMMA FileBuilding ==
  ASSUME NEW c \in Children, NEW t \in Tables, FileInv(c, t), Building(c, t), TypeOK,
         seed' = seed, tab'[c] = tab[c], pc'[c] \in InRow \union {"row"},
         row[c] \in Nat, row'[c] \in {row[c], row[c] + 1}, First(c, Driver(t)) \in Nat,
         t \in open'[c] => t \in exists'[c],
         IsPrefix(file'[c][t], ChunkSlice(seed, c, t)),
         IF t \in open'[c] THEN file'[c][t] = Own(c, t)' ELSE Own(c, t)' = <<>>
  PROVE  FileInv(c, t)'
<1>1. Table(c)' = Table(c)
  BY DEF Table
<1>2. Building(c, t)'
  BY <1>1 DEF Building
<1>3. ~ Past(c, t)'
  <2>1. /\ tab[c] \in {2, 3} /\ t \in Family(Table(c))
    BY DEF Building
  <2>2. tab[c] = 2 => t # "customer_address"
    BY <2>1, TableFacts DEF Family
  <2>3. tab[c] = 3 => t = "customer_address"
    BY <2>1, TableFacts DEF Family
  <2> QED  BY <2>1, <2>2, <2>3 DEF Past
<1>4. row[c]' >= First(c, Driver(t))
  BY DEF FileInv
<1> QED  BY <1>2, <1>3, <1>4 DEF FileInv, First

\* The steps that neither write nor open leave the files, and what they hold.
LEMMA FileQuiet ==
  ASSUME FitsInt, IInv, NEW c \in Children, NEW t \in Tables, FileInv(c, t),
         seed' = seed, tab'[c] = tab[c],
         pc[c] \in InRow \union {"row"}, pc'[c] \in InRow \union {"row"},
         row'[c] \in {row[c], row[c] + 1},
         open'[c] = open[c], exists'[c] = exists[c], file'[c] = file[c],
         Building(c, t) => Own(c, t)' = Own(c, t)
  PROVE  FileInv(c, t)'
<1>1. CASE Building(c, t)
  <2>1. TypeOK /\ row[c] \in Nat /\ First(c, Driver(t)) \in Nat
    <3>1. TypeOK
      BY DEF IInv
    <3> QED  BY <3>1, ChunkInTable DEF TypeOK
  <2> QED  BY <1>1, <2>1, FileBuilding DEF FileInv
<1>2. CASE ~ Building(c, t)
  <2>1. tab[c] \in {2, 3}
    BY DEF IInv, ChildInv, CtlInv
  <2> QED  BY <1>2, <2>1, FileOther DEF Building
<1> QED  BY <1>1, <1>2

\* How many rows an order is made into.
LEMMA RowCounts ==
  ASSUME NEW g \in Seeds, NEW c, NEW r
  PROVE  /\ r \in 1 .. Orders =>
              /\ Len(DayRows(g, c, "catalog_sales", r)) = LinesIn(g, r)
              /\ Len(DayRows(g, c, "catalog_returns", r)) = ReturnsBefore(g, r, LinesIn(g, r) + 1)
         /\ Len(DayRows(g, c, "customer_address", r)) = 1
<1>1. ASSUME r \in 1 .. Orders
      PROVE  /\ Len(DayRows(g, c, "catalog_sales", r)) = LinesIn(g, r)
             /\ Len(DayRows(g, c, "catalog_returns", r)) = ReturnsBefore(g, r, LinesIn(g, r) + 1)
  <2>1. LinesIn(g, r) \in Nat
    BY <1>1, SeedFacts
  <2>2. ReturnsBefore(g, r, LinesIn(g, r) + 1) \in Nat
    <3>1. LinesIn(g, r) + 1 \in Nat \ {0}
      BY <2>1
    <3> QED  BY <3>1, ReturnsAreCounted
  <2> DEFINE n == LinesIn(g, r)
             m == ReturnsBefore(g, r, n + 1)
             x(l) == SaleOf(g, ChunkDay(c, r), r, l)
             y(k) == ReturnOf(g, r, ReturnedLine(g, r, k))
  <2>3. /\ DayRows(g, c, "catalog_sales", r) = [l \in 1 .. n |-> x(l)]
        /\ DayRows(g, c, "catalog_returns", r) = [k \in 1 .. m |-> y(k)]
    BY RowsAre
  <2> HIDE DEF n, m, x, y
  <2>4. Len([l \in 1 .. n |-> x(l)]) = n /\ Len([k \in 1 .. m |-> y(k)]) = m
    BY <2>1, <2>2 DEF n, m
  <2> QED  BY <2>3, <2>4 DEF n, m
<1>2. Len(DayRows(g, c, "customer_address", r)) = 1
  BY RowsAre
<1> QED  BY <1>1, <1>2

\* What was written of an order does not change while it is dated and a line
\* is built: the lines before are written, and the returns of these.
LEMMA OwnOfOrder ==
  ASSUME FitsInt, IInv, NEW c \in Children, DayInv(c), RowInv(c),
         BeginOrder(c) \/ SkipDay(c) \/ EndSkipDays(c) \/ NewDate(c) \/ MkMaster(c)
           \/ MkDetail(c) \/ MkDetailReturned(c) \/ BuildAddress(c),
         NEW t \in Tables, Building(c, t)
  PROVE  Own(c, t)' = Own(c, t)
<1> USE DEF Goto, envVars, ctlVars, dayVars, outVars
<1>1. TypeOK
  BY DEF IInv
<1>2. seed' = seed /\ row' = row
  BY DEF BeginOrder, SkipDay, EndSkipDays, NewDate, MkMaster, MkDetail, MkDetailReturned, BuildAddress
<1>3. Done(c, t)' = Done(c, t)
  <2>1. CASE BeginOrder(c)
    <3>1. pc[c] = "row" /\ pc'[c] \in {"date", "skip_days"}
      BY <1>1, <2>1 DEF BeginOrder, TypeOK
    <3> QED  BY <3>1 DEF Done, LineLabels
  <2>2. CASE SkipDay(c) \/ EndSkipDays(c) \/ NewDate(c)
    <3>1. pc[c] \in {"date", "skip_days"} /\ pc'[c] \in {"date", "skip_days"}
      BY <1>1, <2>2 DEF SkipDay, EndSkipDays, NewDate, TypeOK
    <3> QED  BY <3>1 DEF Done, LineLabels
  <2>3. CASE BuildAddress(c)
    <3>1. pc[c] = "row" /\ pc'[c] = "print_address"
      BY <1>1, <2>3 DEF BuildAddress, TypeOK
    <3> QED  BY <3>1 DEF Done, LineLabels
  <2>4. CASE MkMaster(c)
    <3>1. pc[c] = "date" /\ pc'[c] = "detail" /\ line'[c] = 1
      BY <1>1, <2>4 DEF MkMaster, TypeOK
    <3>2. ReturnsBefore(seed', row'[c], 1) = 0
      BY ReturnsCounted
    <3> QED  BY <3>1, <3>2 DEF Done, LineLabels
  <2>5. CASE MkDetail(c)
    <3>1. pc[c] = "detail" /\ pc'[c] = "print_sale" /\ line' = line
      BY <1>1, <2>5 DEF MkDetail, TypeOK
    <3>2. /\ line[c] \in Nat \ {0}
          /\ seed.returned[pos[c]["CR_IS_RETURNED"]] = IsReturned(seed, row[c], line[c])
      BY <3>1, SoldLineIs
    <3>3. /\ ReturnsBefore(seed, row[c], line[c]) \in Nat
          /\ ReturnsBefore(seed, row[c], line[c] + 1) =
               ReturnsBefore(seed, row[c], line[c])
                 + (IF IsReturned(seed, row[c], line[c]) THEN 1 ELSE 0)
      BY <3>2, ReturnsCounted
    <3>4. ~ IsReturned(seed, row[c], line[c])
      BY <2>5, <3>2 DEF MkDetail
    <3>5. ReturnsBefore(seed, row[c], line[c] + 1) = ReturnsBefore(seed, row[c], line[c])
      BY <3>3, <3>4
    <3> QED  BY <1>2, <3>1, <3>5 DEF Done, LineLabels
  <2>6. CASE MkDetailReturned(c)
    <3>1. pc[c] = "detail" /\ pc'[c] = "print_return" /\ line' = line
      BY <1>1, <2>6 DEF MkDetailReturned, TypeOK
    <3> QED  BY <1>2, <3>1 DEF Done, LineLabels
  <2> QED  BY <2>1, <2>2, <2>3, <2>4, <2>5, <2>6
<1> QED  BY <1>2, <1>3 DEF Own, First

\* After row_stop all rows of the row are written, and none of the next.
LEMMA OwnOfNextRow ==
  ASSUME FitsInt, IInv, NEW c \in Children, RowStop(c),
         NEW t \in Tables, Building(c, t), row[c] >= First(c, Driver(t))
  PROVE  Own(c, t)' = Own(c, t)
<1> DEFINE f == First(c, Driver(t))
           n == row[c] - f
           rows == DayRows(seed, c, t, row[c])
<1>1. pc[c] = "stop" /\ pc'[c] = "row" /\ seed' = seed /\ row'[c] = row[c] + 1
  <2>1. TypeOK
    BY DEF IInv
  <2> QED  BY <2>1 DEF RowStop, Goto, envVars, TypeOK
<1>2. /\ seed \in Seeds /\ n \in Nat /\ f + n = row[c] /\ f \in Nat /\ row[c] \in Nat
      /\ n < Count(c, Driver(t)) /\ n + 1 \in 0 .. Count(c, Driver(t))
  <2>1. pc[c] \in InRow
    BY <1>1 DEF InRow
  <2>2. f \in Nat /\ row[c] \in Nat
    BY ChunkInTable DEF IInv, TypeOK
  <2> QED  BY <2>1, <2>2, Progress
<1>3. Own(c, t) = Written(seed, c, t, n, Len(rows))
  BY <1>1 DEF Own, Done
<1>4. Own(c, t)' = Written(seed, c, t, (row[c] + 1) - f, 0)
  <2>1. Done(c, t)' = 0
    BY <1>1 DEF Done, LineLabels
  <2>2. Own(c, t)' = Written(seed', c, t, row'[c] - First(c, Driver(t)), Done(c, t)')
    BY DEF Own
  <2> QED  BY <1>1, <2>1, <2>2
<1> HIDE DEF f, n
<1>5. (row[c] + 1) - f = n + 1
  BY <1>2 DEF n
<1>6. Written(seed, c, t, n + 1, 0) = Built(seed, c, t, n + 1)
  BY <1>2, NothingOfNext
<1>7. Written(seed, c, t, n, Len(rows)) = Built(seed, c, t, n + 1)
  <2>1. rows = DayRows(seed, c, t, First(c, Driver(t)) + n)
    BY <1>2 DEF f
  <2>2. First(c, Driver(t)) + n \in DriverRows(t)
    BY <1>2, ChunkInTable
  <2>3. rows \in Seq(AllRows)
    BY <1>2, <2>1, <2>2, RowsTyped
  <2>4. Len(rows) \in Nat /\ Len(rows) \in 0 .. Len(rows)
    BY <2>3
  <2> HIDE DEF rows
  <2> QED  BY <1>2, <2>1, <2>4, WrittenFacts
<1> QED  BY <1>3, <1>4, <1>5, <1>6, <1>7

\* The steps from row to row that do not print.
LEMMA QuietFiles ==
  ASSUME FitsInt, IInv, NEW c \in Children, DayInv(c), RowInv(c),
         BeginOrder(c) \/ SkipDay(c) \/ EndSkipDays(c) \/ NewDate(c) \/ MkMaster(c)
           \/ MkDetail(c) \/ MkDetailReturned(c) \/ BuildAddress(c) \/ RowStop(c),
         NEW t \in Tables, FileInv(c, t)
  PROVE  FileInv(c, t)'
<1>1. TypeOK
  BY DEF IInv
<1>2. seed' = seed /\ tab' = tab /\ UNCHANGED <<open, exists, file>>
  BY DEF BeginOrder, SkipDay, EndSkipDays, NewDate, MkMaster, MkDetail, MkDetailReturned,
         BuildAddress, RowStop, envVars, ctlVars, outVars
<1>3. pc[c] \in InRow \union {"row"} /\ pc'[c] \in InRow \union {"row"}
  <2> USE <1>1 DEF InRow, OrderLabels, Goto, TypeOK
  <2>1. CASE BeginOrder(c)
    BY <2>1 DEF BeginOrder
  <2>2. CASE SkipDay(c) \/ EndSkipDays(c) \/ NewDate(c)
    BY <2>2 DEF SkipDay, EndSkipDays, NewDate
  <2>3. CASE MkMaster(c) \/ MkDetail(c) \/ MkDetailReturned(c) \/ BuildAddress(c) \/ RowStop(c)
    BY <2>3 DEF MkMaster, MkDetail, MkDetailReturned, BuildAddress, RowStop
  <2> QED  BY <2>1, <2>2, <2>3
<1>4. CASE RowStop(c)
  <2>1. row'[c] = row[c] + 1
    BY <1>1, <1>4 DEF RowStop, TypeOK
  <2>2. Building(c, t) => Own(c, t)' = Own(c, t)
    BY <1>4, OwnOfNextRow DEF FileInv
  <2> QED  BY <1>2, <1>3, <2>1, <2>2, FileQuiet
<1>5. CASE ~ RowStop(c)
  <2>1. row' = row
    BY <1>5 DEF BeginOrder, SkipDay, EndSkipDays, NewDate, MkMaster, MkDetail, MkDetailReturned,
         BuildAddress, ctlVars
  <2>2. Building(c, t) => Own(c, t)' = Own(c, t)
    BY <1>5, OwnOfOrder
  <2> QED  BY <1>2, <1>3, <2>1, <2>2, FileQuiet
<1> QED  BY <1>4, <1>5

\* A process prints to a table it is building.
LEMMA TargetBuilt ==
  ASSUME IInv, NEW c \in Children, pc[c] \in Printing
  PROVE  /\ pc[c] \in InRow /\ tab[c] \in {2, 3}
         /\ Target(pc[c]) \in Tables /\ Building(c, Target(pc[c]))
<1>1. pc[c] \in InRow
  BY DEF Printing, InRow, OrderLabels
<1>2. tab[c] \in {2, 3} /\ (pc[c] = "print_address" => tab[c] = 3)
      /\ (pc[c] # "print_address" => tab[c] = 2)
  BY <1>1 DEF IInv, ChildInv, CtlInv, Printing, OrderLabels
<1>3. /\ pc[c] = "print_return" => Target(pc[c]) = "catalog_returns"
      /\ pc[c] = "print_sale" => Target(pc[c]) = "catalog_sales"
      /\ pc[c] = "print_address" => Target(pc[c]) = "customer_address"
  BY Zenon DEF Target
<1>4. /\ tab[c] = 2 => Table(c) = "catalog_sales"
      /\ tab[c] = 3 => Table(c) = "customer_address"
  BY TableFacts DEF IInv
<1>5. Target(pc[c]) \in Tables /\ Target(pc[c]) \in Family(Table(c))
  BY <1>2, <1>3, <1>4 DEF Printing, Tables, Family
<1> QED  BY <1>1, <1>2, <1>5 DEF Building

\* A file is opened before anything of its table is written, and emptied.
LEMMA OpenedFile ==
  ASSUME FitsInt, IInv, NEW c \in Children, OpenFile(c), NEW t \in Tables, FileInv(c, t)
  PROVE  FileInv(c, t)'
<1> DEFINE x == Target(pc[c])
<1>1. TypeOK
  BY DEF IInv
<1>2. pc[c] \in InRow /\ tab[c] \in {2, 3} /\ x \in Tables /\ Building(c, x) /\ x \notin open[c]
  BY TargetBuilt DEF OpenFile
<1> HIDE DEF x
<1>3. UNCHANGED <<seed, tab, pc, row, line>>
  BY DEF OpenFile, envVars, ctlVars
<1>4. /\ open'[c] = open[c] \union {x} /\ exists'[c] = exists[c] \union {x}
      /\ file'[c] = [file[c] EXCEPT ![x] = <<>>]
  BY <1>1 DEF OpenFile, TypeOK, x
<1>5. file[c] \in [Tables -> Seq(AllRows)]
  BY <1>1 DEF TypeOK, AllRows
<1>6. Done(c, t)' = Done(c, t)
  BY <1>3 DEF Done
<1>7. Own(c, t)' = Own(c, t)
  BY <1>3, <1>6 DEF Own
<1>8. CASE t = x
  <2>1. file'[c][t] = <<>>
    BY <1>2, <1>4, <1>5, <1>8
  <2>2. Own(c, t) = <<>>
    BY <1>2, <1>8 DEF FileInv
  <2>3. ChunkSlice(seed, c, t) \in Seq(AllRows)
    <3>1. Count(c, Driver(t)) \in Nat /\ seed \in Seeds
      BY <1>1, ChunkInTable DEF TypeOK
    <3>2. Count(c, Driver(t)) \in 0 .. Count(c, Driver(t))
      BY <3>1
    <3> QED  BY <3>1, <3>2, BuiltFacts DEF ChunkSlice
  <2>4. IsPrefix(<<>>, ChunkSlice(seed, c, t))
    BY <2>3, PrefixFacts
  <2>5. First(c, Driver(t)) \in Nat /\ row[c] \in Nat
    BY <1>1, ChunkInTable DEF TypeOK
  <2> QED
    BY <1>1, <1>2, <1>3, <1>4, <1>7, <1>8, <2>1, <2>2, <2>4, <2>5, FileBuilding
<1>9. CASE t # x
  <2>1. file'[c][t] = file[c][t] /\ (t \in open'[c] <=> t \in open[c])
        /\ (t \in exists[c] => t \in exists'[c])
    BY <1>4, <1>5, <1>9
  <2>2. CASE Building(c, t)
    <3>1. First(c, Driver(t)) \in Nat /\ row[c] \in Nat
      BY <1>1, ChunkInTable DEF TypeOK
    <3>2. /\ IsPrefix(file'[c][t], ChunkSlice(seed, c, t))
          /\ t \in open'[c] => t \in exists'[c]
          /\ IF t \in open'[c] THEN file'[c][t] = Own(c, t)' ELSE Own(c, t)' = <<>>
      BY <1>7, <2>1, <2>2 DEF FileInv
    <3> QED  BY <1>1, <1>2, <1>3, <2>2, <3>1, <3>2, FileBuilding
  <2>3. CASE ~ Building(c, t)
    <3>1. t \notin Family(Table(c))
      BY <1>2, <2>3 DEF Building
    <3> QED  BY <1>2, <1>3, <2>1, <3>1, FileOther
  <2> QED  BY <2>2, <2>3
<1> QED  BY <1>8, <1>9

\* Each of the rows an order is made into.
LEMMA RowAt ==
  ASSUME NEW g, NEW c, NEW r
  PROVE  /\ \A l \in 1 .. LinesIn(g, r) :
              DayRows(g, c, "catalog_sales", r)[l] = SaleOf(g, ChunkDay(c, r), r, l)
         /\ \A k \in 1 .. ReturnsBefore(g, r, LinesIn(g, r) + 1) :
              DayRows(g, c, "catalog_returns", r)[k] = ReturnOf(g, r, ReturnedLine(g, r, k))
         /\ DayRows(g, c, "customer_address", r)[1] = AddressOf(r)
<1> DEFINE n == LinesIn(g, r)
           m == ReturnsBefore(g, r, n + 1)
           x(l) == SaleOf(g, ChunkDay(c, r), r, l)
           y(k) == ReturnOf(g, r, ReturnedLine(g, r, k))
<1>1. /\ DayRows(g, c, "catalog_sales", r) = [l \in 1 .. n |-> x(l)]
      /\ DayRows(g, c, "catalog_returns", r) = [k \in 1 .. m |-> y(k)]
      /\ DayRows(g, c, "customer_address", r) = <<AddressOf(r)>>
  BY RowsAre
<1> HIDE DEF n, m, x, y
<1>2. \A l \in 1 .. n : DayRows(g, c, "catalog_sales", r)[l] = x(l)
  BY <1>1
<1>3. \A k \in 1 .. m : DayRows(g, c, "catalog_returns", r)[k] = y(k)
  BY <1>1
<1>4. DayRows(g, c, "customer_address", r)[1] = AddressOf(r)
  BY <1>1
<1> QED  BY <1>2, <1>3, <1>4 DEF n, m, x, y

\* The row that is printed is the next of its file.
LEMMA RowWritten ==
  ASSUME FitsInt, IInv, NEW c \in Children, NEW x \in Tables, NEW r, NEW t \in Tables,
         pc[c] \in Printing, x = Target(pc[c]), WriteRow(c, x, r), pc'[c] \in InRow,
         UNCHANGED <<seed, tab, row, open, exists>>,
         Done(c, x) \in Nat, Done(c, x) < Len(DayRows(seed, c, x, row[c])),
         r = DayRows(seed, c, x, row[c])[Done(c, x) + 1],
         Done(c, x)' = Done(c, x) + 1,
         \A y \in Tables \ {x} : Building(c, y) => Done(c, y)' = Done(c, y),
         FileInv(c, t)
  PROVE  FileInv(c, t)'
<1>1. TypeOK
  BY DEF IInv
<1>2. pc[c] \in InRow /\ tab[c] \in {2, 3} /\ Building(c, x)
  BY TargetBuilt
<1>3. x \in open[c] /\ file'[c] = [file[c] EXCEPT ![x] = Append(@, r)]
  BY <1>1 DEF WriteRow, TypeOK
<1>4. file[c] \in [Tables -> Seq(AllRows)]
  BY <1>1 DEF TypeOK, AllRows
<1>5. First(c, Driver(t)) \in Nat /\ row[c] \in Nat
  BY <1>1, ChunkInTable DEF TypeOK
<1>6. CASE t = x
  <2> DEFINE f == First(c, Driver(x))
             n == row[c] - f
             k == Done(c, x)
             rows == DayRows(seed, c, x, row[c])
  <2>1. /\ t \in open[c] /\ t \in exists[c] /\ row[c] >= f /\ file[c][x] = Own(c, x)
        /\ IsPrefix(file[c][t], ChunkSlice(seed, c, t))
    BY <1>2, <1>3, <1>6 DEF FileInv
  <2>2. /\ n \in Nat /\ n < Count(c, Driver(x)) /\ f + n = row[c] /\ seed \in Seeds
    BY <1>2, <2>1, Progress
  <2>3. file'[c][x] = Append(file[c][x], r)
    BY <1>3, <1>4
  <2>4. Own(c, x) = Written(seed, c, x, n, k)
    BY DEF Own
  <2>5. Own(c, x)' = Written(seed, c, x, n, k + 1)
    <3>1. Own(c, x)' = Written(seed', c, x, row'[c] - First(c, Driver(x)), Done(c, x)')
      BY DEF Own
    <3> QED  BY <3>1
  <2> HIDE DEF f, n, k, rows
  <2>6. rows = DayRows(seed, c, x, First(c, Driver(x)) + n)
    BY <2>2 DEF rows, f
  <2>7. k \in Nat /\ k < Len(rows) /\ r = rows[k + 1]
    BY DEF k, rows
  <2>8. First(c, Driver(x)) + n \in DriverRows(x)
    BY <2>2, ChunkInTable
  <2>9. rows \in Seq(AllRows)
    BY <2>2, <2>6, <2>8, RowsTyped
  <2>10. k \in 0 .. Len(rows) /\ k + 1 \in 0 .. Len(rows)
    BY <2>7, <2>9
  <2>11. Written(seed, c, x, n, k + 1) = Append(Written(seed, c, x, n, k), rows[k + 1])
    BY <2>2, <2>6, <2>7, <2>10, WrittenFacts
  <2>12. IsPrefix(Written(seed, c, x, n, k + 1), ChunkSlice(seed, c, x))
    BY <2>2, <2>6, <2>10, WrittenFacts
  <2>13. file'[c][x] = Own(c, x)'
    BY <2>1, <2>3, <2>4, <2>5, <2>7, <2>11
  <2>14. IsPrefix(file'[c][x], ChunkSlice(seed, c, x))
    BY <2>5, <2>12, <2>13
  <2> QED  BY <1>1, <1>2, <1>5, <1>6, <2>1, <2>13, <2>14, FileBuilding
<1>7. CASE t # x
  <2>1. file'[c][t] = file[c][t]
    BY <1>3, <1>4, <1>7
  <2>2. CASE Building(c, t)
    <3>1. Done(c, t)' = Done(c, t)
      BY <1>7, <2>2
    <3>2. Own(c, t)' = Own(c, t)
      BY <3>1 DEF Own
    <3>3. /\ IsPrefix(file'[c][t], ChunkSlice(seed, c, t))
          /\ t \in open'[c] => t \in exists'[c]
          /\ IF t \in open'[c] THEN file'[c][t] = Own(c, t)' ELSE Own(c, t)' = <<>>
      BY <2>1, <2>2, <3>2 DEF FileInv
    <3> QED  BY <1>1, <1>5, <2>2, <3>3, FileBuilding
  <2>3. CASE ~ Building(c, t)
    <3>1. t \notin Family(Table(c))
      BY <1>2, <2>3 DEF Building
    <3> QED  BY <1>2, <2>1, <3>1, FileOther
  <2> QED  BY <2>2, <2>3
<1> QED  BY <1>6, <1>7

\* Where the line being printed is among the rows of its order.
LEMMA LineInOrder ==
  ASSUME FitsInt, IInv, NEW c \in Children, RowInv(c), pc[c] \in LineLabels
  PROVE  /\ TypeOK /\ seed \in Seeds /\ row[c] \in 1 .. Orders
         /\ LinesIn(seed, row[c]) \in Nat \ {0} /\ lines[c] = LinesIn(seed, row[c])
         /\ line[c] \in Nat \ {0} /\ line[c] <= LinesIn(seed, row[c])
         /\ Table(c) = "catalog_sales"
         /\ Family(Table(c)) = {"catalog_sales", "catalog_returns"}
<1>1. /\ TypeOK /\ row[c] \in 1 .. Orders /\ seed \in Seeds /\ Table(c) = "catalog_sales"
  BY OrderPositions DEF LineLabels, OrderLabels
<1>2. lines[c] = LinesIn(seed, row[c]) /\ line[c] <= lines[c]
  BY DEF RowInv, IInv, ChildInv, CtlInv
<1>3. line[c] \in Nat \ {0}
  <2>1. line[c] \in 1 .. MaxLines /\ MaxLines \in Nat
    BY <1>1, DsdgenAssumption DEF TypeOK
  <2> QED  BY <2>1
<1>4. LinesIn(seed, row[c]) \in Nat \ {0}
  BY <1>1, SeedFacts
<1> QED  BY <1>1, <1>2, <1>3, <1>4 DEF Family

\* The printed return is the next.
LEMMA ReturnPrinted ==
  ASSUME FitsInt, IInv, NEW c \in Children, RowInv(c), PrintReturn(c),
         NEW t \in Tables, FileInv(c, t)
  PROVE  FileInv(c, t)'
<1> DEFINE x == "catalog_returns"
           o == row[c]
           l == line[c]
           N == LinesIn(seed, o)
           b(m) == ReturnsBefore(seed, o, m)
<1>1. pc[c] = "print_return" /\ WriteRow(c, x, return[c])
      /\ UNCHANGED <<seed, tab, row, open, exists, line>>
  BY DEF PrintReturn, envVars, ctlVars
<1>2. /\ TypeOK /\ seed \in Seeds /\ o \in 1 .. Orders /\ N \in Nat
      /\ l \in Nat \ {0} /\ l <= N
      /\ Family(Table(c)) = {"catalog_sales", "catalog_returns"}
  BY <1>1, LineInOrder DEF LineLabels
<1>3. pc'[c] = "print_sale"
  BY <1>2 DEF PrintReturn, Goto, TypeOK
<1>4. IsReturned(seed, o, l) /\ return[c] = ReturnOf(seed, o, l)
  BY <1>1 DEF RowInv
<1>5. Done(c, x) = b(l) /\ Done(c, x)' = b(l + 1)
  BY <1>1, <1>3 DEF Done, LineLabels
<1>6. b(l) \in Nat /\ b(l + 1) = b(l) + 1 /\ b(l + 1) <= b(N + 1)
  <2>1. l + 1 \in Nat \ {0} /\ N + 1 \in Nat /\ l + 1 <= N + 1
    BY <1>2
  <2>2. b(l + 1) <= b(N + 1)
    BY <2>1, ReturnsGrow
  <2> QED  BY <1>2, <1>4, <2>2, ReturnsCounted
<1>7. b(N + 1) \in Nat
  BY <1>2, ReturnsAreCounted
<1>8. Len(DayRows(seed, c, x, o)) = b(N + 1)
  BY <1>2, RowCounts
<1>9. ReturnedLine(seed, o, b(l) + 1) = l
  BY <1>2, <1>4, ReturnedLineIs
<1>10. Done(c, "catalog_sales")' = Done(c, "catalog_sales")
  BY <1>1, <1>3 DEF Done, LineLabels
<1>11. \A y \in Tables \ {x} : Building(c, y) => Done(c, y)' = Done(c, y)
  BY <1>2, <1>10 DEF Building
<1>12. pc[c] \in Printing /\ x = Target(pc[c]) /\ x \in Tables /\ pc'[c] \in InRow
  <2>1. x = Target("print_return")
    BY Zenon DEF Target
  <2> QED  BY <1>1, <1>3, <2>1 DEF Printing, Tables, InRow, OrderLabels
<1>13. return[c] = DayRows(seed, c, x, o)[b(l) + 1]
  <2> DEFINE k == b(l) + 1
  <2>1. k \in 1 .. b(N + 1)
    BY <1>6, <1>7
  <2> HIDE DEF k
  <2>2. DayRows(seed, c, x, o)[k] = ReturnOf(seed, o, ReturnedLine(seed, o, k))
    BY <2>1, RowAt
  <2> QED  BY <1>4, <1>9, <2>2 DEF k
<1> HIDE DEF b, N, l, x
<1>14. Done(c, x) \in Nat /\ Done(c, x) < Len(DayRows(seed, c, x, row[c]))
       /\ Done(c, x)' = Done(c, x) + 1
  BY <1>5, <1>6, <1>7, <1>8
<1>15. return[c] = DayRows(seed, c, x, row[c])[Done(c, x) + 1]
  BY <1>5, <1>13
<1> QED  BY <1>1, <1>11, <1>12, <1>14, <1>15, RowWritten

\* The printed sale is the next.
LEMMA SalePrinted ==
  ASSUME FitsInt, IInv, NEW c \in Children, RowInv(c), PrintSale(c),
         NEW t \in Tables, FileInv(c, t)
  PROVE  FileInv(c, t)'
<1> DEFINE x == "catalog_sales"
           o == row[c]
           l == line[c]
           N == LinesIn(seed, o)
           b(m) == ReturnsBefore(seed, o, m)
<1>1. pc[c] = "print_sale" /\ WriteRow(c, x, sale[c])
      /\ UNCHANGED <<seed, tab, row, open, exists>>
  BY DEF PrintSale, envVars
<1>2. /\ TypeOK /\ seed \in Seeds /\ o \in 1 .. Orders /\ N \in Nat /\ lines[c] = N
      /\ l \in Nat \ {0} /\ l <= N
      /\ Family(Table(c)) = {"catalog_sales", "catalog_returns"}
  BY <1>1, LineInOrder DEF LineLabels
<1>3. IF l < N THEN pc'[c] = "detail" /\ line'[c] = l + 1
               ELSE pc'[c] = "stop" /\ line'[c] = l
  <2>1. CASE l < N
    BY <1>2, <2>1 DEF PrintSale, Goto, TypeOK
  <2>2. CASE ~ l < N
    BY <1>2, <2>2 DEF PrintSale, Goto, TypeOK
  <2> QED  BY <2>1, <2>2
<1>4. sale[c] = SaleOf(seed, ChunkDay(c, o), o, l)
  BY <1>1 DEF RowInv
<1>5. /\ Len(DayRows(seed, c, x, o)) = N
      /\ Len(DayRows(seed, c, "catalog_returns", o)) = b(N + 1)
  BY <1>2, RowCounts
<1>6. DayRows(seed, c, x, o)[l] = sale[c]
  <2>1. l \in 1 .. N
    BY <1>2
  <2> HIDE DEF l
  <2> QED  BY <1>4, <2>1, RowAt DEF l
<1>7. Done(c, x) = l - 1 /\ Done(c, "catalog_returns") = b(l + 1)
  BY <1>1 DEF Done, LineLabels
<1>8. Done(c, x)' = l /\ Done(c, "catalog_returns")' = b(l + 1)
  <2>1. CASE l < N
    <3>1. pc'[c] = "detail" /\ line'[c] = l + 1 /\ row' = row /\ seed' = seed
      BY <1>1, <1>3, <2>1
    <3>2. Done(c, x)' = (l + 1) - 1 /\ Done(c, "catalog_returns")' = b(l + 1)
      BY <3>1 DEF Done, LineLabels
    <3> QED  BY <1>2, <3>2
  <2>2. CASE ~ l < N
    <3>1. pc'[c] = "stop" /\ row' = row /\ seed' = seed /\ l = N
      BY <1>1, <1>2, <1>3, <2>2
    <3>2. /\ Done(c, x)' = Len(DayRows(seed, c, x, o))
          /\ Done(c, "catalog_returns")' = Len(DayRows(seed, c, "catalog_returns", o))
      BY <3>1 DEF Done
    <3> QED  BY <1>5, <3>1, <3>2
  <2> QED  BY <2>1, <2>2
<1>9. \A y \in Tables \ {x} : Building(c, y) => Done(c, y)' = Done(c, y)
  BY <1>2, <1>7, <1>8 DEF Building
<1>10. pc[c] \in Printing /\ x = Target(pc[c]) /\ x \in Tables /\ pc'[c] \in InRow
  <2>1. x = Target("print_sale")
    BY Zenon DEF Target
  <2> QED  BY <1>1, <1>3, <2>1 DEF Printing, Tables, InRow, OrderLabels
<1> HIDE DEF b, N, l, x
<1>11. /\ Done(c, x) \in Nat /\ Done(c, x) < Len(DayRows(seed, c, x, row[c]))
       /\ Done(c, x)' = Done(c, x) + 1
  BY <1>2, <1>5, <1>7, <1>8
<1>12. sale[c] = DayRows(seed, c, x, row[c])[Done(c, x) + 1]
  <2>1. Done(c, x) + 1 = l
    BY <1>2, <1>7
  <2> QED  BY <1>6, <2>1
<1> QED  BY <1>1, <1>9, <1>10, <1>11, <1>12, RowWritten

\* The printed address is the next.
LEMMA AddressPrinted ==
  ASSUME FitsInt, IInv, NEW c \in Children, RowInv(c), PrintAddress(c),
         NEW t \in Tables, FileInv(c, t)
  PROVE  FileInv(c, t)'
<1> DEFINE x == "customer_address"
<1>1. pc[c] = "print_address" /\ WriteRow(c, x, address[c])
      /\ UNCHANGED <<seed, tab, row, open, exists>>
  BY DEF PrintAddress, envVars, ctlVars
<1>2. TypeOK
  BY DEF IInv
<1>3. pc'[c] = "stop" /\ seed \in Seeds /\ tab[c] = 3
  BY <1>1, <1>2 DEF PrintAddress, Goto, TypeOK, IInv, ChildInv, CtlInv
<1>4. address[c] = AddressOf(row[c])
  BY <1>1 DEF RowInv
<1>5. Len(DayRows(seed, c, x, row[c])) = 1 /\ DayRows(seed, c, x, row[c])[1] = address[c]
  <2>1. Len(DayRows(seed, c, x, row[c])) = 1
    BY <1>3, RowCounts
  <2>2. DayRows(seed, c, x, row[c])[1] = AddressOf(row[c])
    BY RowAt
  <2> QED  BY <1>4, <2>1, <2>2
<1>6. Done(c, x) = 0
  BY <1>1 DEF Done, LineLabels
<1>7. Done(c, x)' = 1
  <2>1. Done(c, x)' = Len(DayRows(seed, c, x, row[c]))
    BY <1>1, <1>3 DEF Done
  <2> QED  BY <1>5, <2>1
<1>8. \A y \in Tables \ {x} : ~ Building(c, y)
  <2>1. Table(c) = x
    BY <1>2, <1>3, TableFacts
  <2> QED  BY <2>1 DEF Building, Family
<1>9. pc[c] \in Printing /\ x = Target(pc[c]) /\ x \in Tables /\ pc'[c] \in InRow
  <2>1. x = Target("print_address")
    BY Zenon DEF Target
  <2> QED  BY <1>1, <1>3, <2>1 DEF Printing, Tables, InRow
<1> HIDE DEF x
<1>10. /\ Done(c, x) \in Nat /\ Done(c, x) < Len(DayRows(seed, c, x, row[c]))
       /\ Done(c, x)' = Done(c, x) + 1
       /\ address[c] = DayRows(seed, c, x, row[c])[Done(c, x) + 1]
  BY <1>5, <1>6, <1>7
<1> QED  BY <1>1, <1>8, <1>9, <1>10, RowWritten

\* A table is begun with nothing written of it.
LEMMA TableStarted ==
  ASSUME FitsInt, IInv, NEW c \in Children, StartTable(c), NEW t \in Tables, FileInv(c, t)
  PROVE  FileInv(c, t)'
<1>1. TypeOK /\ seed \in Seeds
  BY DEF IInv, TypeOK
<1>2. pc[c] = "table" /\ UNCHANGED <<seed, tab, open, exists, file>>
  BY DEF StartTable, envVars, outVars
<1>3. pc'[c] = "row" /\ row'[c] = First(c, Table(c))
  BY <1>1 DEF StartTable, Goto, TypeOK
<1>4. ~ Building(c, t) /\ t \notin open[c]
  BY <1>2 DEF FileInv, Building, InRow, OrderLabels, Stopped
<1>5. Past(c, t)' = Past(c, t) /\ Table(c)' = Table(c)
  BY <1>2 DEF Past, Table
<1>6. ASSUME Building(c, t)'
      PROVE  row'[c] = First(c, Driver(t)) /\ Own(c, t)' = <<>>
  <2>1. t \in Family(Table(c)) /\ tab[c] \in {2, 3}
    BY <1>2, <1>5, <1>6 DEF Building
  <2>2. Table(c) \in {"catalog_sales", "customer_address"}
    BY <1>1, <2>1, TableFacts
  <2>3. Driver(t) = Table(c)
    BY <2>1, <2>2 DEF Driver, Family
  <2>4. Done(c, t)' = 0
    BY <1>3 DEF Done, LineLabels
  <2>5. Own(c, t)' = Written(seed', c, t, row'[c] - First(c, Driver(t)), Done(c, t)')
    BY DEF Own
  <2>6. First(c, Driver(t)) \in Nat /\ Count(c, Driver(t)) \in Nat
    BY ChunkInTable
  <2> DEFINE f == First(c, Driver(t))
  <2>7. Own(c, t)' = Written(seed, c, t, f - f, 0) /\ row'[c] = f
    BY <1>2, <1>3, <2>3, <2>4, <2>5
  <2>8. f \in Nat
    BY <2>6
  <2>9. 0 \in 0 .. Count(c, Driver(t))
    BY <2>6
  <2> HIDE DEF f
  <2>10. f - f = 0
    BY <2>8
  <2>11. Written(seed, c, t, 0, 0) = <<>>
    BY <1>1, <2>9, NothingOfNext, BuiltFacts
  <2> QED  BY <2>7, <2>10, <2>11 DEF f
<1>7. First(c, Driver(t)) \in Nat
  BY ChunkInTable
<1> QED  BY <1>2, <1>4, <1>5, <1>6, <1>7 DEF FileInv

\* Once its rows are built, a table's file is complete.
LEMMA TableEnded ==
  ASSUME FitsInt, IInv, NEW c \in Children, EndTable(c), NEW t \in Tables, FileInv(c, t)
  PROVE  FileInv(c, t)'
<1> DEFINE f == First(c, Driver(t))
           N == Count(c, Driver(t))
           n == row[c] - f
<1>1. TypeOK /\ seed \in Seeds
  BY DEF IInv, TypeOK
<1>2. pc[c] = "row" /\ left[c] = 0 /\ UNCHANGED <<seed, exists, file>>
  BY DEF EndTable, envVars
<1>3. pc'[c] = "table" /\ tab'[c] = tab[c] + 1 /\ open'[c] = open[c] \ Family(Table(c))
  BY <1>1 DEF EndTable, Goto, TypeOK
<1>4. tab[c] \in {2, 3}
  BY <1>2 DEF IInv, ChildInv, CtlInv, InRow
<1>5. ~ Building(c, t)' /\ t \notin open'[c]
  BY <1>2, <1>3 DEF FileInv, Building, InRow, OrderLabels, Stopped
<1>6. CASE Building(c, t)
  <2>1. row[c] >= f /\ (IF t \in open[c] THEN file[c][t] = Own(c, t) ELSE Own(c, t) = <<>>)
    BY <1>6 DEF FileInv
  <2>2. n = N /\ n \in 0 .. N
    BY <1>2, <1>6, <2>1, Progress
  <2>3. Own(c, t) = Written(seed, c, t, n, 0)
    <3>1. Done(c, t) = 0
      BY <1>2 DEF Done, LineLabels
    <3> QED  BY <3>1 DEF Own
  <2> HIDE DEF n
  <2>4. Own(c, t) = ChunkSlice(seed, c, t)
    BY <1>1, <2>2, <2>3, NothingOfNext DEF ChunkSlice
  <2>5. file[c][t] = ChunkSlice(seed, c, t)
    <3>1. CASE t \in open[c]
      BY <2>1, <2>4, <3>1
    <3>2. CASE t \notin open[c]
      <4> DEFINE w == file[c][t]
                 e == ChunkSlice(seed, c, t)
      <4>1. e = <<>> /\ IsPrefix(w, e)
        BY <2>1, <2>4, <3>2 DEF FileInv
      <4>2. w \in Seq(AllRows) /\ e \in Seq(AllRows)
        BY <1>1, <4>1 DEF TypeOK, AllRows
      <4>3. Len(w) <= Len(e) /\ Len(e) = 0
        BY <4>1, <4>2, PrefixIs
      <4> HIDE DEF w, e
      <4>4. Len(w) = 0 /\ w = <<>>
        BY <4>2, <4>3
      <4> QED  BY <4>1, <4>4 DEF w, e
    <3> QED  BY <3>1, <3>2
  <2> QED  BY <1>2, <1>5, <2>5 DEF FileInv
<1>7. CASE ~ Building(c, t)
  <2>1. t \notin Family(Table(c))
    BY <1>2, <1>4, <1>7 DEF Building
  <2>2. Past(c, t)' => Past(c, t)
    <3>1. CASE tab[c] = 2
      <4>1. t = "customer_address" /\ tab'[c] = 3
        BY <1>1, <1>3, <2>1, <3>1, TableFacts DEF Family, Tables
      <4> QED  BY <4>1 DEF Past
    <3>2. CASE tab[c] = 3
      <4>1. t # "customer_address" /\ tab'[c] = 4
        BY <1>1, <1>3, <2>1, <3>2, TableFacts DEF Family, Tables
      <4> QED  BY <3>2, <4>1 DEF Past
    <3> QED  BY <1>4, <3>1, <3>2
  <2> QED  BY <1>2, <1>5, <2>2 DEF FileInv
<1> QED  BY <1>6, <1>7

\* Between tables, and where a process stops, the files stay.
LEMMA StoppedFiles ==
  ASSUME IInv, NEW c \in Children,
         RefuseFile(c) \/ Crash(c) \/ SkipChildTable(c) \/ Exit(c) \/ Restart(c),
         NEW t \in Tables, FileInv(c, t)
  PROVE  FileInv(c, t)'
<1>1. TypeOK
  BY DEF IInv
<1>2. UNCHANGED <<seed, exists, file>>
  BY DEF RefuseFile, Crash, SkipChildTable, Exit, Restart, envVars, outVars
<1>3. SkipChildTable(c) => tab[c] = 1
  <2>1. SkipChildTable(c) => tab[c] <= 3 /\ Table(c) = "catalog_returns"
    BY DriverSize DEF SkipChildTable, IsChildTable
  <2> QED  BY <1>1, <2>1, TableFacts
<1> USE DEF Goto, TypeOK
<1>4. CASE RefuseFile(c)
  <2>1. pc'[c] = "failed" /\ tab'[c] = tab[c] /\ open'[c] = open[c]
    BY <1>1, <1>4 DEF RefuseFile, ctlVars, outVars
  <2> QED  BY <1>2, <2>1 DEF FileInv, Building, Past, InRow, OrderLabels, Stopped
<1>5. CASE Crash(c)
  <2>1. pc'[c] = "crashed" /\ tab'[c] = tab[c] /\ open'[c] = {}
    BY <1>1, <1>5 DEF Crash, ctlVars
  <2> QED  BY <1>2, <2>1 DEF FileInv, Building, Past, InRow, OrderLabels, Stopped
<1>6. CASE SkipChildTable(c)
  <2>1. pc[c] = "table" /\ pc' = pc /\ tab'[c] = tab[c] + 1 /\ open' = open
    BY <1>1, <1>6 DEF SkipChildTable, outVars
  <2>2. tab'[c] = 2
    BY <1>6, <1>3, <2>1
  <2>3. ~ Past(c, t)'
    BY <2>2 DEF Past
  <2> QED  BY <1>2, <2>1, <2>3 DEF FileInv, Building, InRow, OrderLabels, Stopped
<1>7. CASE Exit(c)
  <2>1. pc[c] = "table" /\ pc'[c] = "done" /\ tab' = tab /\ open' = open
    BY <1>1, <1>7 DEF Exit, ctlVars, outVars
  <2> QED  BY <1>2, <2>1 DEF FileInv, Building, Past, InRow, OrderLabels, Stopped
<1>8. CASE Restart(c)
  <2>1. pc'[c] = "table" /\ tab'[c] = 1 /\ open'[c] = {}
    BY <1>1, <1>8 DEF Restart
  <2>2. ~ Past(c, t)'
    BY <2>1 DEF Past
  <2> QED  BY <1>2, <2>1, <2>2 DEF FileInv, Building, InRow, OrderLabels
<1> QED  BY <1>4, <1>5, <1>6, <1>7, <1>8

\* The files of the child that moves.
LEMMA FileStep ==
  ASSUME FitsInt, IInv, NEW c \in Children, DayInv(c), RowInv(c),
         Step(c) \/ Crash(c) \/ Restart(c), NEW t \in Tables, FileInv(c, t)
  PROVE  FileInv(c, t)'
<1>1. CASE BeginOrder(c) \/ SkipDay(c) \/ EndSkipDays(c) \/ NewDate(c) \/ MkMaster(c)
           \/ MkDetail(c) \/ MkDetailReturned(c) \/ BuildAddress(c) \/ RowStop(c)
  BY <1>1, QuietFiles
<1>2. CASE OpenFile(c)
  BY <1>2, OpenedFile
<1>3. CASE PrintReturn(c)
  BY <1>3, ReturnPrinted
<1>4. CASE PrintSale(c)
  BY <1>4, SalePrinted
<1>5. CASE PrintAddress(c)
  BY <1>5, AddressPrinted
<1>6. CASE StartTable(c)
  BY <1>6, TableStarted
<1>7. CASE EndTable(c)
  BY <1>7, TableEnded
<1>8. CASE RefuseFile(c) \/ Crash(c) \/ SkipChildTable(c) \/ Exit(c) \/ Restart(c)
  BY <1>8, StoppedFiles
<1> QED  BY <1>1, <1>2, <1>3, <1>4, <1>5, <1>6, <1>7, <1>8 DEF Step

-----------------------------------------------------------------------------
(***************************************************************************)
(* The invariant, and what follows from it.                                *)
(***************************************************************************)

\* A build starts with empty files.
LEMMA InitSInv ==
  ASSUME FitsInt, Init
  PROVE  SInv
<1> SUFFICES ASSUME NEW c \in Children PROVE ChildSInv(c)
  BY DEF SInv
<1>1. /\ seed \in Seeds /\ pc[c] = "table" /\ tab[c] = 1 /\ open[c] = {} /\ perm[c] = 0
      /\ ~ started[c] /\ \A s \in Streams : pos[c][s] = 0
      /\ \A t \in Tables : file[c][t] = <<>>
  BY DEF Init
<1>2. DayInv(c)
  BY <1>1, StreamFacts DEF DayInv, Dated, LineLabels
<1>3. RowInv(c)
  BY <1>1 DEF RowInv, LineLabels
<1>4. ASSUME NEW t \in Tables PROVE FileInv(c, t)
  <2>1. Count(c, Driver(t)) \in 0 .. Count(c, Driver(t))
    BY ChunkInTable
  <2>2. ChunkSlice(seed, c, t) \in Seq(AllRows)
    BY <1>1, <2>1, BuiltFacts DEF ChunkSlice
  <2>3. IsPrefix(<<>>, ChunkSlice(seed, c, t))
    BY <2>2, PrefixFacts
  <2>4. ~ Building(c, t) /\ ~ Past(c, t)
    BY <1>1 DEF Building, Past, InRow, OrderLabels
  <2> QED  BY <1>1, <2>3, <2>4 DEF FileInv
<1> QED  BY <1>2, <1>3, <1>4 DEF ChildSInv

\* And every step keeps what it says.
LEMMA NextSInv ==
  ASSUME FitsInt, IInv, SInv, [Next]_vars
  PROVE  SInv'
<1>1. TypeOK /\ \A d \in Children : ChildSInv(d)
  BY DEF IInv, SInv
<1>2. ASSUME NEW c \in Children, Step(c) \/ Crash(c) \/ Restart(c) PROVE SInv'
  <2>1. seed' = seed /\ \A d \in Children \ {c} : Kept(d)
    BY <1>1, <1>2, OthersKept
  <2>2. \A d \in Children \ {c} : ChildSInv(d)'
    BY <1>1, <2>1, KeptInv
  <2>3. DayInv(c) /\ RowInv(c) /\ \A t \in Tables : FileInv(c, t)
    BY <1>1 DEF ChildSInv
  <2>4. DayInv(c)' /\ RowInv(c)'
    BY <1>2, <2>3, DayStep, RowStep
  <2>5. ASSUME NEW t \in Tables PROVE FileInv(c, t)'
    BY <1>2, <2>3, FileStep
  <2>6. ChildSInv(c)'
    BY <2>4, <2>5 DEF ChildSInv
  <2> QED  BY <2>2, <2>6 DEF SInv
<1>3. CASE UNCHANGED vars
  <2>1. seed' = seed /\ \A d \in Children : Kept(d)
    BY <1>3 DEF vars, envVars, ctlVars, rngVars, dayVars, rowVars, outVars, Kept, Frame
  <2>2. \A d \in Children : ChildSInv(d)'
    BY <1>1, <2>1, KeptInv
  <2> QED  BY <2>2 DEF SInv
<1> QED  BY <1>2, <1>3 DEF Next

\* Every row a child builds is the serial build's row, but for its date where
\* the chunk starts with a day, and its files hold these rows in order.
THEOREM SerialInvariance == ASSUME FitsInt PROVE Spec => [](IInv /\ SInv)
<1>1. Init => IInv /\ SInv
  BY InitInv, InitSInv
<1>2. IInv /\ SInv /\ [Next]_vars => (IInv /\ SInv)'
  BY NextInv, NextSInv
<1> QED  BY <1>1, <1>2, PTL DEF Spec

\* What a chunk's file may hold: a prefix of what the child has to write.
FilesAreChunks ==
  \A c \in Children : \A t \in Tables : IsPrefix(file[c][t], ChunkSlice(seed, c, t))

\* A chunk's file holds a prefix of the chunk's rows, after any crashes and
\* restarts; the dates count from the day skipDays reaches.
THEOREM FilesHoldChunks == ASSUME FitsInt PROVE Spec => []FilesAreChunks
<1>1. SInv => FilesAreChunks
  BY DEF SInv, ChildSInv, FileInv, FilesAreChunks
<1> QED  BY <1>1, SerialInvariance, PTL

\* Unless the chunk starts where a day starts, these are the rows the serial
\* build writes (w_catalog_sales.c with skipDays, against mk_master's days).
THEOREM ChunksAreSerial == ASSUME FitsInt PROVE Spec => []SerialUnlessDayBoundary
<1>1. IInv /\ SInv => SerialUnlessDayBoundary
  <2> SUFFICES ASSUME IInv, SInv, NEW c \in Children, ~ StartsOnDayBoundary(c), NEW t \in Tables
               PROVE  IsPrefix(file[c][t], SerialSlice(seed, c, t))
    BY DEF SerialUnlessDayBoundary
  <2>1. seed \in Seeds
    BY DEF IInv, TypeOK
  <2>2. IsPrefix(file[c][t], ChunkSlice(seed, c, t))
    BY DEF SInv, ChildSInv, FileInv
  <2> QED  BY <2>1, <2>2, SliceIsSerial
<1> QED  BY <1>1, SerialInvariance, PTL

-----------------------------------------------------------------------------
(***************************************************************************)
(* The refinement of ChunkFiles.                                           *)
(***************************************************************************)

\* A row is only appended to a prefix of a slice as the slice's next.
LEMMA NextOfPrefix ==
  ASSUME NEW S, NEW a \in Seq(S), NEW b \in Seq(S), NEW r \in S, IsPrefix(Append(a, r), b)
  PROVE  Len(a) < Len(b) /\ r = b[Len(a) + 1]
<1> DEFINE w == Append(a, r)
<1>1. w \in Seq(S) /\ Len(w) = Len(a) + 1 /\ w[Len(a) + 1] = r /\ Len(a) \in Nat /\ Len(b) \in Nat
  OBVIOUS
<1>2. IsPrefix(w, b)
  OBVIOUS
<1> HIDE DEF w
<1>3. Len(w) <= Len(b) /\ \A i \in 1 .. Len(w) : w[i] = b[i]
  BY <1>1, <1>2, PrefixIs
<1> QED  BY <1>1, <1>3

\* A printed row is the next of its slice.
LEMMA WriteImplements ==
  ASSUME FitsInt, IInv, SInv, SInv', NEW c \in Children, ~ StartsOnDayBoundary(c),
         NEW x \in Tables, NEW r \in AllRows, pc[c] \in Printing, x = Target(pc[c]),
         WriteRow(c, x, r), UNCHANGED <<seed, exists>>
  PROVE  ChunkSpec!Write(c, x)
<1>1. TypeOK /\ seed \in Seeds /\ Building(c, x)
  BY TargetBuilt DEF IInv, TypeOK
<1>2. x \in exists[c]
  BY DEF SInv, ChildSInv, FileInv, WriteRow
<1> DEFINE w == file[c][x]
           s == ChunkSlice(seed, c, x)
<1>3. w \in Seq(AllRows)
  BY <1>1 DEF TypeOK, AllRows
<1>4. s \in Seq(AllRows)
  <2>1. Count(c, Driver(x)) \in 0 .. Count(c, Driver(x))
    BY ChunkInTable
  <2> QED  BY <1>1, <2>1, BuiltFacts DEF ChunkSlice
<1>5. file' = [file EXCEPT ![c][x] = Append(@, r)]
  BY DEF WriteRow
<1>6. file'[c][x] = Append(w, r)
  BY <1>1, <1>5 DEF TypeOK
<1>7. IsPrefix(Append(w, r), s)
  <2>1. FileInv(c, x)'
    BY DEF SInv, ChildSInv
  <2>2. IsPrefix(file'[c][x], ChunkSlice(seed', c, x))
    BY <2>1 DEF FileInv
  <2> QED  BY <1>6, <2>2
<1>8. s = SerialSlice(seed, c, x)
  BY <1>1, SliceIsSerial
<1> HIDE DEF s
<1>9. Len(w) < Len(s) /\ r = s[Len(w) + 1]
  <2> HIDE DEF w
  <2> QED  BY <1>3, <1>4, <1>7, NextOfPrefix
<1>10. file' = [file EXCEPT ![c][x] = Append(@, s[Len(@) + 1])]
  BY <1>5, <1>9
<1> QED  BY <1>2, <1>8, <1>9, <1>10 DEF ChunkSpec!Write

\* Every step opens a file, writes the next row of one, or leaves the files.
LEMMA StepImplements ==
  ASSUME FitsInt, \A c \in Children : ~ StartsOnDayBoundary(c),
         IInv, SInv, SInv', [Next]_vars
  PROVE  [ChunkSpec!Next]_<<seed, exists, file>>
<1>1. TypeOK
  BY DEF IInv
<1>2. ASSUME NEW c \in Children, Step(c) \/ Crash(c) \/ Restart(c)
      PROVE  [ChunkSpec!Next]_<<seed, exists, file>>
  <2>1. CASE OpenFile(c)
    <3>1. Target(pc[c]) \in Tables
      BY <2>1, TargetBuilt DEF OpenFile
    <3>2. ChunkSpec!Create(c, Target(pc[c]))
      BY <2>1 DEF OpenFile, envVars, ChunkSpec!Create
    <3> QED  BY <3>1, <3>2 DEF ChunkSpec!Next
  <2>2. CASE PrintReturn(c) \/ PrintSale(c) \/ PrintAddress(c)
    <3> DEFINE x == Target(pc[c])
    <3>1. /\ Target("print_return") = "catalog_returns" /\ Target("print_sale") = "catalog_sales"
          /\ Target("print_address") = "customer_address"
      BY Zenon DEF Target
    <3>2. return[c] \in AllRows /\ sale[c] \in AllRows /\ address[c] \in AllRows
      BY <1>1 DEF TypeOK, AllRows
    <3>3. \E r \in AllRows : pc[c] \in Printing /\ WriteRow(c, x, r) /\ UNCHANGED <<seed, exists>>
      BY <2>2, <3>1, <3>2 DEF PrintReturn, PrintSale, PrintAddress, Printing, envVars
    <3>4. x \in Tables
      BY <3>3, TargetBuilt
    <3>5. ChunkSpec!Write(c, x)
      BY <3>3, <3>4, WriteImplements
    <3> QED  BY <3>4, <3>5 DEF ChunkSpec!Next
  <2>3. CASE ~ (OpenFile(c) \/ PrintReturn(c) \/ PrintSale(c) \/ PrintAddress(c))
    <3>1. UNCHANGED <<seed, exists, file>>
      BY <1>2, <2>3 DEF Step, SkipChildTable, StartTable, Exit, EndTable, BuildAddress,
           BeginOrder, SkipDay, EndSkipDays, NewDate, MkMaster, MkDetail, MkDetailReturned,
           RefuseFile, RowStop, Crash, Restart, envVars, outVars
    <3> QED  BY <3>1
  <2> QED  BY <2>1, <2>2, <2>3
<1>3. CASE UNCHANGED vars
  BY <1>3 DEF vars, envVars, outVars
<1> QED  BY <1>2, <1>3 DEF Next

\* The generator implements what ChunkFiles promises: a file is created empty
\* and only ever grows by the next row of the serial build, across any crashes
\* and restarts, where no chunk starts with a day.
THEOREM RefinesChunkFiles ==
  ASSUME FitsInt, \A c \in Children : ~ StartsOnDayBoundary(c)
  PROVE  Spec => ImplementsChunkFiles
<1>1. Init => ChunkSpec!Init
  BY DEF Init, ChunkSpec!Init
<1>2. IInv /\ SInv /\ (IInv /\ SInv)' /\ [Next]_vars => [ChunkSpec!Next]_<<seed, exists, file>>
  BY StepImplements
<1> QED  BY <1>1, <1>2, SerialInvariance, PTL DEF Spec, ImplementsChunkFiles, ChunkSpec!Spec

-----------------------------------------------------------------------------
(***************************************************************************)
(* Returns and their sales.                                                *)
(***************************************************************************)

\* The rows hold the sale that r is a return of.
SoldIn(rows, r) ==
  \E i \in 1 .. Len(rows) : /\ rows[i].order = r.order /\ rows[i].line = r.line
                            /\ rows[i].item = r.item /\ rows[i].perm = r.perm

\* Every return but the last one has its sale.
Paired(rets, rows) == \A i \in 1 .. Len(rets) : SoldIn(rows, rets[i]) \/ i = Len(rets)

\* More rows hold no fewer sales.
LEMMA SoldStays ==
  ASSUME NEW S, NEW a \in Seq(S), NEW b \in Seq(S), NEW r
  PROVE  SoldIn(a, r) \/ SoldIn(b, r) => SoldIn(a \o b, r)
<1> DEFINE w == a \o b
<1>1. /\ Len(w) = Len(a) + Len(b) /\ Len(a) \in Nat /\ Len(b) \in Nat
      /\ \A i \in 1 .. Len(a) : w[i] = a[i]
      /\ \A i \in 1 .. Len(b) : w[Len(a) + i] = b[i]
  OBVIOUS
<1> HIDE DEF w
<1>2. ASSUME SoldIn(a, r) PROVE SoldIn(w, r)
  <2>1. PICK i \in 1 .. Len(a) : /\ a[i].order = r.order /\ a[i].line = r.line
                                 /\ a[i].item = r.item /\ a[i].perm = r.perm
    BY <1>2 DEF SoldIn
  <2>2. i \in 1 .. Len(w) /\ w[i] = a[i]
    BY <1>1
  <2> QED  BY <2>1, <2>2 DEF SoldIn
<1>3. ASSUME SoldIn(b, r) PROVE SoldIn(w, r)
  <2>1. PICK i \in 1 .. Len(b) : /\ b[i].order = r.order /\ b[i].line = r.line
                                 /\ b[i].item = r.item /\ b[i].perm = r.perm
    BY <1>3 DEF SoldIn
  <2>2. Len(a) + i \in 1 .. Len(w) /\ w[Len(a) + i] = b[i]
    BY <1>1
  <2> QED  BY <2>1, <2>2 DEF SoldIn
<1> QED  BY <1>2, <1>3 DEF w

\* A return has the order, the line and the item of its sale.
LEMMA SaleOfReturn ==
  ASSUME NEW g, NEW o, NEW l, NEW d
  PROVE  /\ SaleOf(g, d, o, l).order = ReturnOf(g, o, l).order
         /\ SaleOf(g, d, o, l).line = ReturnOf(g, o, l).line
         /\ SaleOf(g, d, o, l).item = ReturnOf(g, o, l).item
         /\ SaleOf(g, d, o, l).perm = ReturnOf(g, o, l).perm
BY DEF SaleOf, ReturnOf

\* The k-th return of an order is of a line of the order.
LEMMA OrderPairs ==
  ASSUME NEW g \in Seeds, NEW c \in Children, NEW o \in 1 .. Orders,
         NEW k \in 1 .. ReturnsBefore(g, o, LinesIn(g, o) + 1),
         NEW m \in 0 .. LinesIn(g, o), ReturnedLine(g, o, k) <= m
  PROVE  SoldIn(Part(DayRows(g, c, "catalog_sales", o), m),
                DayRows(g, c, "catalog_returns", o)[k])
<1> DEFINE l == ReturnedLine(g, o, k)
           N == LinesIn(g, o)
           rows == DayRows(g, c, "catalog_sales", o)
           part == Part(rows, m)
           r == DayRows(g, c, "catalog_returns", o)[k]
<1>1. N \in Nat
  BY SeedFacts
<1>2. l \in 1 .. N
  BY <1>1, ReturnedLineFacts
<1>3. rows[l] = SaleOf(g, ChunkDay(c, o), o, l)
  <2> HIDE DEF l
  <2> QED  BY <1>2, RowAt
<1>4. r = ReturnOf(g, o, l)
  BY RowAt
<1>5. /\ rows[l].order = r.order /\ rows[l].line = r.line
      /\ rows[l].item = r.item /\ rows[l].perm = r.perm
  <2> HIDE DEF rows, r, l
  <2> QED  BY <1>3, <1>4, SaleOfReturn
<1>6. part[l] = rows[l] /\ l \in 1 .. Len(part)
  <2>1. o \in DriverRows("catalog_sales") /\ "catalog_sales" \in Tables
    BY DEF DriverRows, Driver, Orders, Tables
  <2>2. rows \in Seq(AllRows) /\ Len(rows) = N
    BY <2>1, RowsTyped, RowCounts
  <2> HIDE DEF rows, l, N
  <2>3. m \in 0 .. Len(rows) /\ l \in 1 .. m
    BY <1>1, <1>2, <2>2 DEF N, l
  <2>4. Len(part) = m /\ \A i \in 1 .. m : part[i] = rows[i]
    BY <2>2, <2>3, PartFacts
  <2> QED  BY <2>3, <2>4
<1> HIDE DEF part, rows, r, l
<1>7. SoldIn(part, r)
  BY <1>5, <1>6 DEF SoldIn
<1> QED  BY <1>7 DEF part, rows, r

\* An element of two sequences put together is one of the first or the second.
LEMMA InConcat ==
  ASSUME NEW S, NEW a \in Seq(S), NEW b \in Seq(S), NEW i \in 1 .. Len(a \o b)
  PROVE  \/ i \in 1 .. Len(a) /\ (a \o b)[i] = a[i]
         \/ i - Len(a) \in 1 .. Len(b) /\ (a \o b)[i] = b[i - Len(a)]
OBVIOUS

\* Both tables of an order are counted by its driver row.
LEMMA SalesDrive ==
  /\ Driver("catalog_returns") = "catalog_sales" /\ Driver("catalog_sales") = "catalog_sales"
  /\ {"catalog_returns", "catalog_sales"} \subseteq Tables
  /\ DriverRows("catalog_returns") = 1 .. Orders /\ DriverRows("catalog_sales") = 1 .. Orders
BY DEF Driver, Tables, DriverRows, Orders

\* Of orders that are built every return has its sale.
LEMMA BuiltPairs ==
  ASSUME FitsInt, NEW g \in Seeds, NEW c \in Children,
         NEW n \in 0 .. Count(c, "catalog_sales")
  PROVE  \A i \in 1 .. Len(Built(g, c, "catalog_returns", n)) :
           SoldIn(Built(g, c, "catalog_sales", n), Built(g, c, "catalog_returns", n)[i])
<1> DEFINE N == Count(c, "catalog_sales")
           f == First(c, "catalog_sales")
           rets(m) == Built(g, c, "catalog_returns", m)
           sold(m) == Built(g, c, "catalog_sales", m)
           r(m) == DayRows(g, c, "catalog_returns", f + m)
           s(m) == DayRows(g, c, "catalog_sales", f + m)
           Good(m) == \A i \in 1 .. Len(rets(m)) : SoldIn(sold(m), rets(m)[i])
           G == {m \in Nat : m <= N => Good(m)}
<1>1. /\ N \in Nat /\ f \in Nat
      /\ \A m \in Nat : m < N => f + m \in 1 .. Orders
  BY ChunkInTable, SalesDrive
<1>2. \A m \in 0 .. N : /\ rets(m) \in Seq(AllRows) /\ sold(m) \in Seq(AllRows)
                        /\ m < N => rets(m + 1) = rets(m) \o r(m) /\ sold(m + 1) = sold(m) \o s(m)
  <2> TAKE m \in 0 .. N
  <2>1. ASSUME NEW t \in {"catalog_returns", "catalog_sales"}
        PROVE  /\ Built(g, c, t, m) \in Seq(AllRows)
               /\ m < N => Built(g, c, t, m + 1) = Built(g, c, t, m) \o DayRows(g, c, t, f + m)
    <3>1. t \in Tables /\ Driver(t) = "catalog_sales"
      BY SalesDrive
    <3>2. m \in 0 .. Count(c, Driver(t))
      BY <3>1
    <3> QED  BY <3>1, <3>2, BuiltFacts
  <2> QED  BY <2>1
<1>3. \A m \in Nat : m < N => r(m) \in Seq(AllRows) /\ s(m) \in Seq(AllRows)
  BY <1>1, RowsTyped, SalesDrive
<1>4. ASSUME NEW m \in Nat, m < N
      PROVE  \A k \in 1 .. Len(r(m)) : SoldIn(s(m), r(m)[k])
  <2> DEFINE o == f + m
             L == LinesIn(g, o)
  <2>1. o \in 1 .. Orders
    BY <1>1, <1>4
  <2> HIDE DEF o
  <2>2. L \in Nat /\ L + 1 \in Nat \ {0}
    BY <2>1, SeedFacts
  <2>3. Len(s(m)) = L /\ Len(r(m)) = ReturnsBefore(g, o, L + 1)
    BY <2>1, RowCounts DEF o
  <2>4. s(m) \in Seq(AllRows)
    BY <1>3, <1>4
  <2>5. Part(s(m), L) = s(m)
    <3>1. Len(s(m)) \in 0 .. Len(s(m))
      BY <2>2, <2>3
    <3> HIDE DEF s
    <3> QED  BY <2>3, <2>4, <3>1, PartFacts
  <2>6. ASSUME NEW k \in 1 .. ReturnsBefore(g, o, L + 1)
        PROVE  SoldIn(Part(DayRows(g, c, "catalog_sales", o), L),
                      DayRows(g, c, "catalog_returns", o)[k])
    <3>1. ReturnedLine(g, o, k) \in 1 .. L
      BY <2>2, ReturnedLineFacts
    <3>2. L \in 0 .. L /\ ReturnedLine(g, o, k) <= L
      BY <2>2, <3>1
    <3> QED  BY <2>1, <3>2, OrderPairs
  <2> QED  BY <2>3, <2>5, <2>6 DEF o
<1> HIDE DEF N, rets, sold, r, s
<1>5. 0 \in G
  <2>1. rets(0) = <<>>
    <3>1. 0 \in 0 .. Count(c, Driver("catalog_returns"))
      BY <1>1, SalesDrive DEF N
    <3> QED  BY <3>1, BuiltFacts, SalesDrive DEF rets
  <2> QED  BY <2>1
<1>6. ASSUME NEW m \in G PROVE m + 1 \in G
  <2> SUFFICES ASSUME m + 1 <= N, NEW i \in 1 .. Len(rets(m + 1))
               PROVE  SoldIn(sold(m + 1), rets(m + 1)[i])
    OBVIOUS
  <2>1. m \in Nat /\ m < N /\ m \in 0 .. N
    BY <1>1
  <2>2. Good(m)
    BY <2>1
  <2>3. /\ rets(m) \in Seq(AllRows) /\ sold(m) \in Seq(AllRows)
        /\ r(m) \in Seq(AllRows) /\ s(m) \in Seq(AllRows)
        /\ rets(m + 1) = rets(m) \o r(m) /\ sold(m + 1) = sold(m) \o s(m)
    BY <1>2, <1>3, <2>1
  <2> HIDE DEF G
  <2>4. CASE i \in 1 .. Len(rets(m)) /\ rets(m + 1)[i] = rets(m)[i]
    <3>1. SoldIn(sold(m), rets(m + 1)[i])
      BY <2>2, <2>4
    <3> DEFINE x == rets(m + 1)[i]
    <3>2. SoldIn(sold(m), x)
      BY <3>1
    <3> HIDE DEF Good, x
    <3>3. SoldIn(sold(m) \o s(m), x)
      BY <2>3, <3>2, SoldStays
    <3> QED  BY <2>3, <3>3 DEF x
  <2>5. CASE i - Len(rets(m)) \in 1 .. Len(r(m)) /\ rets(m + 1)[i] = r(m)[i - Len(rets(m))]
    <3> HIDE DEF Good
    <3>1. SoldIn(s(m), rets(m + 1)[i])
      BY <1>4, <2>1, <2>5
    <3> DEFINE x == rets(m + 1)[i]
    <3>2. SoldIn(s(m), x)
      BY <3>1
    <3> HIDE DEF x
    <3>3. SoldIn(sold(m) \o s(m), x)
      BY <2>3, <3>2, SoldStays
    <3> QED  BY <2>3, <3>3 DEF x
  <2> HIDE DEF Good
  <2> QED  BY <2>3, <2>4, <2>5, InConcat
<1> HIDE DEF G
<1>7. G = Nat
  BY <1>5, <1>6, InductionSet DEF G
<1>8. n \in G /\ n <= N
  BY <1>1, <1>7 DEF N
<1> QED  BY <1>8 DEF G, rets, sold

\* The length of two sequences put together.
LEMMA ConcatLength ==
  ASSUME NEW S, NEW a \in Seq(S), NEW b \in Seq(S)
  PROVE  Len(a \o b) = Len(a) + Len(b) /\ Len(a) \in Nat /\ Len(b) \in Nat
OBVIOUS

\* All but the last of the returns written of an order are of lines whose
\* sale is written.
LEMMA DoneLines ==
  ASSUME FitsInt, IInv, NEW c \in Children, RowInv(c), pc[c] \in LineLabels \union {"stop"},
         tab[c] = 2
  PROVE  LET o == row[c]
             L == LinesIn(seed, o)
             kr == Done(c, "catalog_returns")
             ks == Done(c, "catalog_sales")
         IN /\ o \in 1 .. Orders /\ L \in Nat
            /\ kr \in 0 .. ReturnsBefore(seed, o, L + 1) /\ ks \in 0 .. L
            /\ \A k \in 1 .. kr : k < kr => ReturnedLine(seed, o, k) <= ks
<1> DEFINE o == row[c]
           l == line[c]
           L == LinesIn(seed, o)
           b(m) == ReturnsBefore(seed, o, m)
           kr == Done(c, "catalog_returns")
           ks == Done(c, "catalog_sales")
<1>1. TypeOK /\ seed \in Seeds /\ o \in 1 .. Orders
  <2>1. TypeOK /\ Table(c) = "catalog_sales" /\ left[c] > 0
    BY TableFacts DEF IInv, ChildInv, CtlInv, InRow, OrderLabels, LineLabels
  <2> QED  BY <2>1, RowInTable DEF InRow, OrderLabels, LineLabels, Orders, TypeOK
<1>2. L \in Nat /\ L + 1 \in Nat \ {0} /\ b(L + 1) \in Nat
  <2>1. L \in Nat
    BY <1>1, SeedFacts
  <2>2. L + 1 \in Nat \ {0}
    BY <2>1
  <2> QED  BY <2>1, <2>2, ReturnsAreCounted
<1>3. \A k \in 1 .. b(L + 1) : ReturnedLine(seed, o, k) \in 1 .. L
                               /\ b(ReturnedLine(seed, o, k)) = k - 1
  BY <1>2, ReturnedLineFacts
<1>4. CASE pc[c] = "stop"
  <2>1. kr = b(L + 1) /\ ks = L
    <3>1. kr = Len(DayRows(seed, c, "catalog_returns", o)) /\ ks = Len(DayRows(seed, c, "catalog_sales", o))
      BY <1>4 DEF Done
    <3> QED  BY <1>1, <3>1, RowCounts
  <2> HIDE DEF kr, ks, b, L, o
  <2> QED  BY <1>1, <1>2, <1>3, <2>1 DEF kr, ks, b, L, o
<1>5. CASE pc[c] \in LineLabels
  <2>1. l \in Nat \ {0} /\ l <= L
    BY <1>5, LineInOrder
  <2>2. ks = l - 1 /\ kr \in {b(l), b(l + 1)}
    BY <1>5 DEF Done, LineLabels
  <2>3. b(l) \in Nat /\ b(l + 1) \in {b(l), b(l) + 1}
    <3>1. /\ b(l) \in Nat
          /\ b(l + 1) = b(l) + (IF IsReturned(seed, o, l) THEN 1 ELSE 0)
      <4> HIDE DEF l
      <4> QED  BY <2>1, ReturnsCounted
    <3> HIDE DEF b
    <3> QED  BY <3>1
  <2>4. b(l) <= b(L + 1) /\ b(l + 1) <= b(L + 1)
    <3>1. l + 1 \in Nat \ {0} /\ L + 1 \in Nat /\ l <= L + 1 /\ l + 1 <= L + 1
      BY <1>2, <2>1
    <3> QED  BY <2>1, <3>1, ReturnsGrow
  <2>5. \A m \in Nat : l <= m => b(l) <= b(m)
    BY <2>1, ReturnsGrow
  <2> DEFINE at(k) == ReturnedLine(seed, o, k)
  <2> HIDE DEF kr, ks, b, l, L, at
  <2>6. kr \in 0 .. b(L + 1) /\ ks \in 0 .. L
    BY <1>2, <2>1, <2>2, <2>3, <2>4
  <2>7. ASSUME NEW k \in 1 .. kr, k < kr PROVE at(k) <= ks
    <3>1. k \in 1 .. b(L + 1) /\ k <= b(l)
      BY <1>2, <2>2, <2>3, <2>6, <2>7
    <3>2. at(k) \in 1 .. L /\ b(at(k)) = k - 1
      BY <1>3, <3>1 DEF at
    <3>3. at(k) \in Nat /\ ~ l <= at(k)
      BY <1>2, <2>3, <2>5, <3>1, <3>2
    <3> QED  BY <2>1, <2>2, <3>3
  <2> QED  BY <1>1, <1>2, <2>6, <2>7 DEF kr, ks, L, at, b
<1> QED  BY <1>4, <1>5

\* What a process has written of the returns so far is of what it has written
\* of the sales, but for the last return.
LEMMA OwnPairs ==
  ASSUME FitsInt, IInv, NEW c \in Children, RowInv(c), Building(c, "catalog_returns"),
         row[c] >= First(c, "catalog_sales")
  PROVE  Paired(Own(c, "catalog_returns"), Own(c, "catalog_sales"))
<1> DEFINE f == First(c, "catalog_sales")
           n == row[c] - f
           o == row[c]
           kr == Done(c, "catalog_returns")
           ks == Done(c, "catalog_sales")
           br == Built(seed, c, "catalog_returns", n)
           bs == Built(seed, c, "catalog_sales", n)
           r == DayRows(seed, c, "catalog_returns", o)
           s == DayRows(seed, c, "catalog_sales", o)
<1>1. /\ TypeOK /\ seed \in Seeds /\ f + n = o /\ n \in 0 .. Count(c, "catalog_sales")
      /\ pc[c] \in InRow => left[c] > 0
      /\ left[c] > 0 => n < Count(c, "catalog_sales")
  BY Progress, SalesDrive
<1>2. br \in Seq(AllRows) /\ bs \in Seq(AllRows) /\ \A i \in 1 .. Len(br) : SoldIn(bs, br[i])
  <2>1. br \in Seq(AllRows) /\ bs \in Seq(AllRows)
    BY <1>1, BuiltFacts, SalesDrive
  <2> HIDE DEF n
  <2> QED  BY <1>1, <2>1, BuiltPairs
<1>3. tab[c] = 2
  <2>1. tab[c] \in {2, 3} /\ "catalog_returns" \in Family(Table(c))
    BY DEF Building
  <2> QED  BY <1>1, <2>1, TableFacts DEF Family
<1>4. /\ Own(c, "catalog_returns") = br \o Part(r, kr)
      /\ Own(c, "catalog_sales") = bs \o Part(s, ks)
  <2>1. /\ Own(c, "catalog_returns") = Written(seed, c, "catalog_returns", n, kr)
        /\ Own(c, "catalog_sales") = Written(seed, c, "catalog_sales", n, ks)
    BY SalesDrive DEF Own
  <2> HIDE DEF n, kr, ks
  <2> QED  BY <1>1, <2>1, SalesDrive DEF Written
<1>5. CASE pc[c] \in LineLabels \union {"stop"}
  <2>1. /\ o \in 1 .. Orders /\ LinesIn(seed, o) \in Nat
        /\ kr \in 0 .. ReturnsBefore(seed, o, LinesIn(seed, o) + 1) /\ ks \in 0 .. LinesIn(seed, o)
        /\ \A k \in 1 .. kr : k < kr => ReturnedLine(seed, o, k) <= ks
    BY <1>3, <1>5, DoneLines
  <2>2. /\ r \in Seq(AllRows) /\ Len(r) = ReturnsBefore(seed, o, LinesIn(seed, o) + 1)
        /\ s \in Seq(AllRows) /\ Len(s) = LinesIn(seed, o)
    BY <1>1, <2>1, RowsTyped, RowCounts, SalesDrive
  <2> DEFINE pr == Part(r, kr)
             ps == Part(s, ks)
  <2>3. ASSUME NEW k \in 1 .. kr, k < kr PROVE SoldIn(ps, r[k])
    <3>1. ReturnsBefore(seed, o, LinesIn(seed, o) + 1) \in Nat
      <4>1. LinesIn(seed, o) + 1 \in Nat \ {0}
        BY <2>1
      <4> QED  BY <4>1, ReturnsAreCounted
    <3>2. k \in 1 .. ReturnsBefore(seed, o, LinesIn(seed, o) + 1)
      <4> HIDE DEF kr
      <4> QED  BY <2>1, <3>1
    <3>3. ReturnedLine(seed, o, k) <= ks
      BY <2>1, <2>3
    <3> HIDE DEF ks
    <3> QED  BY <1>1, <2>1, <3>2, <3>3, OrderPairs
  <2> HIDE DEF kr, ks, r, s, br, bs
  <2>4. /\ pr \in Seq(AllRows) /\ Len(pr) = kr /\ \A i \in 1 .. kr : pr[i] = r[i]
        /\ ps \in Seq(AllRows)
    BY <2>1, <2>2, PartFacts
  <2> HIDE DEF pr, ps
  <2>5. ASSUME NEW i \in 1 .. Len(br \o pr)
        PROVE  SoldIn(bs \o ps, (br \o pr)[i]) \/ i = Len(br \o pr)
    <3>3. Len(br \o pr) = Len(br) + kr /\ Len(br) \in Nat /\ kr \in Nat
      <4>1. br \in Seq(AllRows) /\ pr \in Seq(AllRows) /\ Len(pr) = kr
        BY <1>2, <2>4
      <4> QED  BY <4>1, ConcatLength
    <3> DEFINE x == (br \o pr)[i]
    <3>1. CASE i \in 1 .. Len(br) /\ x = br[i]
      <4>1. SoldIn(bs, x)
        BY <1>2, <3>1
      <4> HIDE DEF x
      <4> QED  BY <1>2, <2>4, <4>1, SoldStays DEF x
    <3>2. CASE i - Len(br) \in 1 .. Len(pr) /\ x = pr[i - Len(br)]
      <4>2. CASE i - Len(br) < kr
        <5>1. SoldIn(ps, x)
          BY <2>3, <2>4, <3>2, <4>2
        <5> HIDE DEF x
        <5> QED  BY <1>2, <2>4, <5>1, SoldStays DEF x
      <4>3. CASE ~ i - Len(br) < kr
        BY <2>4, <3>2, <3>3, <4>3
      <4> QED  BY <4>2, <4>3
    <3> QED  BY <1>2, <2>4, <3>1, <3>2, InConcat
  <2> QED  BY <1>4, <2>5 DEF Paired, pr, ps
<1>6. CASE pc[c] \notin LineLabels \union {"stop"}
  <2>1. kr = 0 /\ ks = 0
    BY <1>6 DEF Done
  <2>2. \A x : Part(x, 0) = <<>>
    BY DEF Part
  <2> HIDE DEF br, bs, r, s, kr, ks
  <2>3. br \o <<>> = br /\ bs \o <<>> = bs
    BY <1>2
  <2>4. Own(c, "catalog_returns") = br /\ Own(c, "catalog_sales") = bs
    BY <1>4, <2>1, <2>2, <2>3
  <2> QED  BY <1>2, <2>4 DEF Paired
<1> QED  BY <1>5, <1>6

\* Before any process is started over, a file is empty until it is opened.
FreshInv ==
  \A c \in Children : \A t \in Tables :
    restarts = 0 /\ pc[c] \notin {"failed", "crashed"} /\ ~ Past(c, t) /\ t \notin open[c]
      => file[c][t] = <<>>

\* A step that ends no table and is not a process's end leaves an unopened
\* file as it is.
LEMMA FreshStep ==
  ASSUME FitsInt, IInv, NEW c \in Children, Step(c), ~ RefuseFile(c), NEW t \in Tables,
         ~ Past(c, t)', t \notin open'[c]
  PROVE  /\ pc[c] \notin Stopped /\ restarts' = restarts
         /\ ~ Past(c, t) /\ t \notin open[c] /\ file'[c][t] = file[c][t]
<1>1. TypeOK /\ tab[c] \in 1 .. 4
  BY TableFacts DEF IInv
<1>2. restarts' = restarts
  BY DEF Step, SkipChildTable, StartTable, Exit, EndTable, BuildAddress, BeginOrder, SkipDay,
     EndSkipDays, NewDate, MkMaster, MkDetail, MkDetailReturned, OpenFile, PrintReturn,
     PrintSale, PrintAddress, RowStop, envVars
<1>3. pc[c] \notin Stopped
  BY DEF Step, SkipChildTable, StartTable, Exit, EndTable, BuildAddress, BeginOrder, SkipDay,
     EndSkipDays, NewDate, MkMaster, MkDetail, MkDetailReturned, OpenFile, PrintReturn,
     PrintSale, PrintAddress, RowStop, Stopped, Printing
<1>4. CASE EndTable(c)
  <2>1. tab'[c] = tab[c] + 1 /\ open'[c] = open[c] \ Family(Table(c)) /\ file' = file
        /\ pc[c] = "row"
    BY <1>1, <1>4 DEF EndTable, TypeOK
  <2>2. tab[c] \in {2, 3}
    BY <2>1 DEF IInv, ChildInv, CtlInv, InRow
  <2>3. ~ Past(c, t)
    BY <2>1, <2>2 DEF Past
  <2>4. t \notin Family(Table(c))
    <3>1. CASE tab[c] = 2
      <4>1. t = "customer_address" /\ Table(c) = "catalog_sales"
        BY <1>1, <2>1, <3>1, TableFacts DEF Past
      <4> QED  BY <4>1 DEF Family
    <3>2. CASE tab[c] = 3
      <4>1. FALSE
        BY <2>1, <3>2 DEF Past
      <4> QED  BY <4>1
    <3> QED  BY <2>2, <3>1, <3>2
  <2> QED  BY <1>2, <1>3, <2>1, <2>3, <2>4
<1>5. CASE OpenFile(c) \/ PrintReturn(c) \/ PrintSale(c) \/ PrintAddress(c)
  <2>1. tab' = tab
    BY <1>5 DEF OpenFile, PrintReturn, PrintSale, PrintAddress, ctlVars
  <2>2. t \notin open[c] /\ file'[c][t] = file[c][t]
    <3> USE <1>1 DEF TypeOK
    <3>1. CASE OpenFile(c)
      <4> DEFINE x == Target(pc[c])
      <4>1. open'[c] = open[c] \union {x} /\ file' = [file EXCEPT ![c][x] = <<>>]
        BY <3>1 DEF OpenFile
      <4> HIDE DEF x
      <4> QED  BY <4>1
    <3>2. CASE PrintReturn(c)
      BY <3>2 DEF PrintReturn, WriteRow
    <3>3. CASE PrintSale(c)
      BY <3>3 DEF PrintSale, WriteRow
    <3>4. CASE PrintAddress(c)
      BY <3>4 DEF PrintAddress, WriteRow
    <3> QED  BY <1>5, <3>1, <3>2, <3>3, <3>4
  <2> QED  BY <1>2, <1>3, <2>1, <2>2 DEF Past
<1>6. CASE ~ (EndTable(c) \/ OpenFile(c) \/ PrintReturn(c) \/ PrintSale(c) \/ PrintAddress(c))
  <2>1. UNCHANGED <<open, file>>
    BY <1>6 DEF Step, SkipChildTable, StartTable, Exit, BuildAddress, BeginOrder, SkipDay,
       EndSkipDays, NewDate, MkMaster, MkDetail, MkDetailReturned, RowStop, outVars
  <2>2. tab'[c] \in {tab[c], tab[c] + 1}
    <3>1. CASE SkipChildTable(c)
      BY <1>1, <3>1 DEF SkipChildTable, TypeOK
    <3>2. CASE ~ SkipChildTable(c)
      BY <1>6, <3>2 DEF Step, StartTable, Exit, BuildAddress, BeginOrder, SkipDay,
         EndSkipDays, NewDate, MkMaster, MkDetail, MkDetailReturned, RowStop, ctlVars
    <3> QED  BY <3>1, <3>2
  <2>3. ~ Past(c, t)
    BY <1>1, <2>2 DEF Past
  <2> QED  BY <1>2, <1>3, <2>1, <2>3
<1> QED  BY <1>4, <1>5, <1>6

\* FreshInv is kept.
LEMMA NextFresh ==
  ASSUME FitsInt, IInv, FreshInv, [Next]_vars
  PROVE  FreshInv'
<1> SUFFICES ASSUME NEW d \in Children, NEW t \in Tables, restarts' = 0,
                    pc'[d] \notin {"failed", "crashed"}, ~ Past(d, t)', t \notin open'[d]
             PROVE  file'[d][t] = <<>>
  BY DEF FreshInv
<1>1. TypeOK /\ restarts \in Nat
  BY DEF IInv, TypeOK
<1>2. CASE UNCHANGED vars
  <2>1. UNCHANGED <<restarts, pc, tab, open, file>>
    BY <1>2 DEF vars, envVars, ctlVars, outVars
  <2> QED  BY <2>1 DEF FreshInv, Past
<1>3. ASSUME NEW c \in Children, Step(c) \/ Crash(c) \/ Restart(c)
      PROVE  file'[d][t] = <<>>
  <2>1. ~ Restart(c)
    BY <1>1 DEF Restart
  <2>2. CASE c # d
    <3>1. Kept(d)
      BY <1>1, <1>3, <2>2, OthersKept
    <3>2. restarts = 0
      <4>1. restarts' = restarts
        BY <1>3, <2>1 DEF Step, SkipChildTable, StartTable, Exit, EndTable, BuildAddress,
           BeginOrder, SkipDay, EndSkipDays, NewDate, MkMaster, MkDetail, MkDetailReturned,
           OpenFile, RefuseFile, PrintReturn, PrintSale, PrintAddress, RowStop, Crash, envVars
      <4> QED  BY <4>1
    <3> QED  BY <3>1, <3>2 DEF FreshInv, Past, Kept, Frame
  <2>3. CASE c = d
    <3>1. Step(d) /\ ~ RefuseFile(d)
      <4>1. ~ RefuseFile(c) /\ ~ Crash(c)
        BY <1>1, <2>3 DEF RefuseFile, Crash, Goto, TypeOK
      <4> QED  BY <1>3, <2>1, <2>3, <4>1
    <3>2. /\ pc[d] \notin Stopped /\ restarts' = restarts
          /\ ~ Past(d, t) /\ t \notin open[d] /\ file'[d][t] = file[d][t]
      BY <3>1, FreshStep
    <3> QED  BY <3>2 DEF FreshInv, Stopped
  <2> QED  BY <2>2, <2>3
<1> QED  BY <1>2, <1>3 DEF Next

PairsAt(c) == Paired(file[c]["catalog_returns"], file[c]["catalog_sales"])

\* The files of the orders, once they are complete.
LEMMA SlicePairs ==
  ASSUME FitsInt, IInv, SInv, NEW c \in Children, tab[c] > 2
  PROVE  \A i \in 1 .. Len(file[c]["catalog_returns"]) :
           SoldIn(file[c]["catalog_sales"], file[c]["catalog_returns"][i])
<1>1. seed \in Seeds
  BY DEF IInv, TypeOK
<1>2. \A t \in {"catalog_returns", "catalog_sales"} :
        file[c][t] = Built(seed, c, t, Count(c, "catalog_sales"))
  <2> TAKE t \in {"catalog_returns", "catalog_sales"}
  <2>1. FileInv(c, t) /\ Driver(t) = "catalog_sales"
    BY SalesDrive DEF SInv, ChildSInv
  <2>2. Past(c, t)
    BY DEF Past
  <2>3. file[c][t] = ChunkSlice(seed, c, t)
    BY <2>1, <2>2 DEF FileInv
  <2> QED  BY <2>1, <2>3 DEF ChunkSlice
<1>3. Count(c, "catalog_sales") \in 0 .. Count(c, "catalog_sales")
  BY ChunkInTable, SalesDrive
<1> QED  BY <1>1, <1>2, <1>3, BuiltPairs

\* The files of a process that runs, of which the returns are its own or empty.
LEMMA RunningPairs ==
  ASSUME FitsInt, IInv, SInv, FreshInv, NEW c \in Children,
         pc[c] \notin {"failed", "crashed"}, restarts = 0 \/ "catalog_returns" \in open[c]
  PROVE  PairsAt(c)
<1> DEFINE rets == file[c]["catalog_returns"]
           sold == file[c]["catalog_sales"]
<1>1. TypeOK
  BY DEF IInv
<1>2. rets = <<>> => PairsAt(c)
  BY DEF PairsAt, Paired
<1>3. tab[c] > 2 => PairsAt(c)
  BY SlicePairs DEF PairsAt, Paired
<1>4. /\ RowInv(c) /\ FileInv(c, "catalog_returns") /\ FileInv(c, "catalog_sales")
      /\ pc[c] = "done" => tab[c] > 2
  BY SalesDrive DEF SInv, ChildSInv, DayInv
<1>5. ~ tab[c] > 2 /\ "catalog_returns" \notin open[c] => rets = <<>>
  BY SalesDrive DEF FreshInv, Past
<1>6. CASE Building(c, "catalog_returns") /\ "catalog_returns" \in open[c]
  <2> DEFINE a == Own(c, "catalog_returns")
             b == Own(c, "catalog_sales")
  <2>1. row[c] >= First(c, "catalog_sales") /\ rets = a
    BY <1>4, <1>6, SalesDrive DEF FileInv
  <2>2. Paired(a, b)
    BY <1>4, <1>6, <2>1, OwnPairs
  <2>3. Building(c, "catalog_sales")
    <3>1. tab[c] \in {2, 3} /\ "catalog_returns" \in Family(Table(c))
      BY <1>6 DEF Building
    <3>2. Table(c) = "catalog_sales"
      BY <1>1, <3>1, TableFacts DEF Family
    <3> QED  BY <1>6, <3>2 DEF Building, Family
  <2>4. sold = b \/ b = <<>>
    BY <1>4, <2>3 DEF FileInv
  <2> HIDE DEF a, b, rets, sold
  <2>5. b = <<>> => \A i \in 1 .. Len(a) : i = Len(a)
    <3>1. \A r : ~ SoldIn(<<>>, r)
      BY DEF SoldIn
    <3> QED  BY <2>2, <3>1 DEF Paired
  <2> QED  BY <2>1, <2>2, <2>4, <2>5 DEF Paired, PairsAt, rets, sold
<1>7. CASE ~ (Building(c, "catalog_returns") /\ "catalog_returns" \in open[c])
  <2>1. "catalog_returns" \notin open[c] \/ pc[c] = "done"
    BY <1>4, <1>7 DEF FileInv, Stopped
  <2> QED  BY <1>2, <1>3, <1>4, <1>5, <2>1
<1> QED  BY <1>6, <1>7

\* The same where a process may have been stopped.
PairInv == \A c \in Children : restarts = 0 \/ "catalog_returns" \in open[c] => PairsAt(c)

RunningPairInv ==
  \A c \in Children :
    /\ pc[c] \notin {"failed", "crashed"} /\ (restarts = 0 \/ "catalog_returns" \in open[c])
         => PairsAt(c)
    /\ pc[c] = "done" =>
         \A i \in 1 .. Len(file[c]["catalog_returns"]) :
           SoldIn(file[c]["catalog_sales"], file[c]["catalog_returns"][i])

\* A process that stops leaves its files as they are.
LEMMA NextPair ==
  ASSUME IInv, PairInv, RunningPairInv', [Next]_vars
  PROVE  PairInv'
<1>1. TypeOK /\ restarts \in Nat
  BY DEF IInv, TypeOK
<1> SUFFICES ASSUME NEW d \in Children, restarts' = 0 \/ "catalog_returns" \in open'[d],
                    pc'[d] \in {"failed", "crashed"}
             PROVE  PairsAt(d)'
  BY DEF PairInv, RunningPairInv
<1>2. (restarts' = 0 => restarts = 0) /\ open'[d] \subseteq open[d] /\ file'[d] = file[d]
      => PairsAt(d)'
  BY DEF PairInv, PairsAt
<1>3. CASE UNCHANGED vars
  BY <1>2, <1>3 DEF vars, envVars, outVars
<1>4. ASSUME NEW c \in Children, Step(c) \/ Crash(c) \/ Restart(c)
      PROVE  PairsAt(d)'
  <2>1. restarts' = 0 => restarts = 0
    <3>1. restarts' = restarts \/ restarts' = restarts + 1
      BY <1>4 DEF Step, SkipChildTable, StartTable, Exit, EndTable, BuildAddress, BeginOrder,
         SkipDay, EndSkipDays, NewDate, MkMaster, MkDetail, MkDetailReturned, OpenFile,
         RefuseFile, PrintReturn, PrintSale, PrintAddress, RowStop, Crash, Restart, envVars
    <3> QED  BY <1>1, <3>1
  <2>2. CASE c # d
    <3>1. Kept(d)
      BY <1>1, <1>4, <2>2, OthersKept
    <3> QED  BY <1>2, <2>1, <3>1 DEF Kept
  <2>3. CASE c = d
    <3>1. RefuseFile(d) \/ Crash(d)
      <4> USE <1>1 DEF Goto, TypeOK
      <4>1. pc'[c] \in {"failed", "crashed"}
        BY <2>3
      <4>2. ~ (SkipChildTable(c) \/ StartTable(c) \/ Exit(c) \/ EndTable(c) \/ Restart(c))
        BY <4>1 DEF SkipChildTable, StartTable, Exit, EndTable, Restart
      <4>3. ~ BeginOrder(c)
        <5>1. pc \in [Children -> Labels] /\ c \in Children
          BY <1>1
        <5> HIDE <1>1 DEF TypeOK
        <5>2. BeginOrder(c) => Goto(c, "date") \/ Goto(c, "skip_days")
          BY DEF BeginOrder
        <5> QED  BY <4>1, <5>1, <5>2
      <4>4. ~ (SkipDay(c) \/ EndSkipDays(c) \/ NewDate(c) \/ MkMaster(c) \/ MkDetail(c)
                 \/ MkDetailReturned(c) \/ BuildAddress(c))
        BY <4>1 DEF SkipDay, EndSkipDays, NewDate, MkMaster, MkDetail, MkDetailReturned, BuildAddress
      <4>5. ~ (OpenFile(c) \/ PrintReturn(c) \/ PrintAddress(c) \/ RowStop(c))
        BY <4>1 DEF OpenFile, PrintReturn, PrintAddress, RowStop, Printing
      <4>6. ~ PrintSale(c)
        BY <4>1 DEF PrintSale
      <4> QED  BY <1>4, <2>3, <4>2, <4>3, <4>4, <4>5, <4>6 DEF Step
    <3>2. open'[d] \subseteq open[d] /\ file'[d] = file[d]
      BY <1>1, <3>1 DEF RefuseFile, Crash, TypeOK, outVars
    <3> QED  BY <1>2, <2>1, <3>2
  <2> QED  BY <2>2, <2>3
<1> QED  BY <1>3, <1>4 DEF Next

\* A return is of a sale in the sales file, but for the last, whose sale the
\* process has not written yet, or was stopped before it did (mk_detail prints
\* the return first).
THEOREM ReturnsAreOfSales == ASSUME FitsInt PROVE Spec => []ReturnsHaveSales
<1>1. Init => FreshInv /\ PairInv
  <2> SUFFICES ASSUME Init PROVE \A c \in Children : \A t \in Tables : file[c][t] = <<>>
    BY SalesDrive DEF FreshInv, PairInv, PairsAt, Paired
  <2> QED  BY DEF Init
<1>2. IInv /\ FreshInv /\ [Next]_vars => FreshInv'
  BY NextFresh
<1>3. IInv /\ SInv /\ FreshInv => RunningPairInv
  <2> SUFFICES ASSUME IInv, SInv, FreshInv, NEW c \in Children
               PROVE  /\ pc[c] \notin {"failed", "crashed"}
                         /\ (restarts = 0 \/ "catalog_returns" \in open[c]) => PairsAt(c)
                      /\ pc[c] = "done" =>
                           \A i \in 1 .. Len(file[c]["catalog_returns"]) :
                             SoldIn(file[c]["catalog_sales"], file[c]["catalog_returns"][i])
    BY DEF RunningPairInv
  <2>1. pc[c] = "done" => tab[c] > 2
    BY DEF SInv, ChildSInv, DayInv
  <2> QED  BY <2>1, RunningPairs, SlicePairs
<1>4. IInv /\ PairInv /\ RunningPairInv' /\ [Next]_vars => PairInv'
  BY NextPair
<1>5. PairInv /\ RunningPairInv => ReturnsHaveSales
  BY DEF PairInv, RunningPairInv, PairsAt, Paired, SoldIn, ReturnsHaveSales
<1> QED  BY <1>1, <1>2, <1>3, <1>4, <1>5, SerialInvariance, PTL DEF Spec

-----------------------------------------------------------------------------
(***************************************************************************)
(* The complete build.                                                     *)
(***************************************************************************)

\* What a row is identified by: the driver row, and its place among those the
\* driver row is made into.
Ord(t, x) == IF t = "catalog_sales" THEN x.order ELSE x.row
Lin(t, x) == IF t = "catalog_sales" THEN x.line ELSE 1

\* The most rows a driver row is made into.
Most(t) == IF t = "catalog_sales" THEN MaxLines ELSE 1

Holds(t, s, r, k) == \E i \in 1 .. Len(s) : Ord(t, s[i]) = r /\ Lin(t, s[i]) = k

\* No two rows are the same, and all are of the driver rows a .. b.
Keyed(t, s, a, b) ==
  /\ \A i \in 1 .. Len(s) : Ord(t, s[i]) \in a .. b
  /\ \A i, j \in 1 .. Len(s) :
       Ord(t, s[i]) = Ord(t, s[j]) /\ Lin(t, s[i]) = Lin(t, s[j]) => i = j

DriverTables == {"catalog_sales", "customer_address"}

\* The rows of a driver row are numbered.
LEMMA RowsNumbered ==
  ASSUME NEW g \in Seeds, NEW c \in Children, NEW t \in DriverTables, NEW r \in DriverRows(t)
  PROVE  LET s == DayRows(g, c, t, r) IN
         /\ s \in Seq(AllRows) /\ Len(s) <= Most(t)
         /\ t = "catalog_sales" => Len(s) = LinesIn(g, r)
         /\ t = "customer_address" => Len(s) = 1
         /\ \A k \in 1 .. Len(s) : Ord(t, s[k]) = r /\ Lin(t, s[k]) = k
<1> DEFINE s == DayRows(g, c, t, r)
<1>1. s \in Seq(AllRows)
  BY RowsTyped DEF DriverTables, Tables
<1>2. CASE t = "catalog_sales"
  <2>1. r \in 1 .. Orders
    BY <1>2, SalesDrive
  <2>2. Len(s) = LinesIn(g, r) /\ LinesIn(g, r) <= MaxLines
    <3>1. Len(s) = LinesIn(g, r)
      BY <1>2, <2>1, RowCounts
    <3> HIDE DEF s
    <3>2. LinesIn(g, r) \in MinLines .. MaxLines
      BY <2>1, SeedFacts
    <3> QED  BY <3>1, <3>2, DsdgenAssumption
  <2>3. \A k \in 1 .. LinesIn(g, r) : s[k] = SaleOf(g, ChunkDay(c, r), r, k)
    BY <1>2, RowAt
  <2>4. \A d, k : SaleOf(g, d, r, k).order = r /\ SaleOf(g, d, r, k).line = k
    BY DEF SaleOf
  <2> HIDE DEF s
  <2>5. \A k \in 1 .. Len(s) : Ord(t, s[k]) = r /\ Lin(t, s[k]) = k
    BY <1>2, <2>2, <2>3, <2>4 DEF Ord, Lin
  <2> QED  BY <1>1, <1>2, <2>2, <2>5 DEF Most, s
<1>3. CASE t = "customer_address"
  <2>1. Len(s) = 1 /\ s[1] = AddressOf(r)
    BY <1>3, RowCounts, RowAt
  <2>2. AddressOf(r).row = r
    BY DEF AddressOf
  <2> HIDE DEF s
  <2>3. \A k \in 1 .. Len(s) : k = 1
    BY <2>1
  <2>4. \A k \in 1 .. Len(s) : Ord(t, s[k]) = r /\ Lin(t, s[k]) = k
    BY <1>3, <2>1, <2>2, <2>3 DEF Ord, Lin
  <2> QED  BY <1>1, <1>3, <2>1, <2>4 DEF Most, s
<1> QED  BY <1>2, <1>3 DEF DriverTables

\* The next driver row's rows keep a file keyed.
LEMMA KeyedNext ==
  ASSUME NEW t, NEW a \in Nat, NEW b \in Nat, a <= b + 1,
         NEW s \in Seq(AllRows), NEW d \in Seq(AllRows), Keyed(t, s, a, b),
         \A k \in 1 .. Len(d) : Ord(t, d[k]) = b + 1 /\ Lin(t, d[k]) = k
  PROVE  /\ Keyed(t, s \o d, a, b + 1)
         /\ \A o, k : Holds(t, s, o, k) => Holds(t, s \o d, o, k)
         /\ \A k \in 1 .. Len(d) : Holds(t, s \o d, b + 1, k)
<1> DEFINE r == b + 1
           w == s \o d
<1>1. /\ Len(w) = Len(s) + Len(d) /\ Len(s) \in Nat /\ Len(d) \in Nat
      /\ \A i \in 1 .. Len(s) : w[i] = s[i]
      /\ \A i \in 1 .. Len(d) : w[Len(s) + i] = d[i]
  BY ConcatLength
<1>2. \A i \in 1 .. Len(w) : \/ i \in 1 .. Len(s) /\ w[i] = s[i]
                             \/ i - Len(s) \in 1 .. Len(d) /\ w[i] = d[i - Len(s)]
  BY InConcat
<1> HIDE DEF w
<1>3. \A i \in 1 .. Len(w) :
        \/ i \in 1 .. Len(s) /\ w[i] = s[i] /\ Ord(t, w[i]) \in a .. b
        \/ i - Len(s) \in 1 .. Len(d) /\ Ord(t, w[i]) = r /\ Lin(t, w[i]) = i - Len(s)
  BY <1>2 DEF Keyed
<1>4. Keyed(t, w, a, r)
  <2>1. \A i \in 1 .. Len(w) : Ord(t, w[i]) \in a .. r
    BY <1>3
  <2>2. ASSUME NEW i \in 1 .. Len(w), NEW j \in 1 .. Len(w),
               Ord(t, w[i]) = Ord(t, w[j]), Lin(t, w[i]) = Lin(t, w[j])
        PROVE  i = j
    <3>1. CASE Ord(t, w[i]) = r
      <4>1. r \notin a .. b
        OBVIOUS
      <4>2. Ord(t, w[i]) \notin a .. b /\ Ord(t, w[j]) \notin a .. b
        BY <2>2, <3>1, <4>1
      <4>3. Lin(t, w[i]) = i - Len(s)
        BY <1>3, <4>2
      <4>4. Lin(t, w[j]) = j - Len(s)
        BY <1>3, <4>2
      <4>5. i - Len(s) = j - Len(s)
        BY <2>2, <4>3, <4>4
      <4>6. i \in Int /\ j \in Int /\ Len(s) \in Int
        BY <1>1
      <4> QED  BY <4>5, <4>6
    <3>2. CASE Ord(t, w[i]) # r
      <4>1. /\ i \in 1 .. Len(s) /\ w[i] = s[i]
            /\ j \in 1 .. Len(s) /\ w[j] = s[j]
        BY <1>3, <2>2, <3>2
      <4> QED  BY <2>2, <4>1 DEF Keyed
    <3> QED  BY <3>1, <3>2
  <2> QED  BY <2>1, <2>2 DEF Keyed
<1>5. ASSUME NEW o, NEW k, Holds(t, s, o, k) PROVE Holds(t, w, o, k)
  <2>1. PICK i \in 1 .. Len(s) : Ord(t, s[i]) = o /\ Lin(t, s[i]) = k
    BY <1>5 DEF Holds
  <2>2. i \in 1 .. Len(w) /\ w[i] = s[i]
    BY <1>1
  <2> QED  BY <2>1, <2>2 DEF Holds
<1>6. ASSUME NEW k \in 1 .. Len(d) PROVE Holds(t, w, r, k)
  <2>1. Len(s) + k \in 1 .. Len(w) /\ w[Len(s) + k] = d[k]
    BY <1>1
  <2> QED  BY <2>1 DEF Holds
<1> QED  BY <1>4, <1>5, <1>6 DEF w

\* One more time k.
LEMMA NextMultiple ==
  ASSUME NEW m \in Nat, NEW k \in Nat
  PROVE  m * k \in Nat /\ (m + 1) * k = m * k + k
BY Z3

\* The rows of a chunk: each once, and no others.
LEMMA BuiltKeyed ==
  ASSUME FitsInt, NEW g \in Seeds, NEW c \in Children, NEW t \in DriverTables,
         NEW n \in 0 .. Count(c, t)
  PROVE  LET s == Built(g, c, t, n)
             b == (First(c, t) + n) - 1
         IN /\ s \in Seq(AllRows) /\ Len(s) <= n * Most(t)
            /\ Keyed(t, s, First(c, t), b)
            /\ \A r \in First(c, t) .. b : \A k \in 1 .. Len(DayRows(g, c, t, r)) : Holds(t, s, r, k)
<1> DEFINE N == Count(c, t)
           f == First(c, t)
           s(m) == Built(g, c, t, m)
           d(r) == DayRows(g, c, t, r)
           Good(m) == /\ Len(s(m)) <= m * Most(t)
                      /\ Keyed(t, s(m), f, (f + m) - 1)
                      /\ \A r \in f .. (f + m) - 1 : \A k \in 1 .. Len(d(r)) : Holds(t, s(m), r, k)
           G == {m \in Nat : m <= N => Good(m)}
<1>1. t \in Tables /\ Driver(t) = t
  BY DEF DriverTables, Tables, Driver
<1>2. f \in Nat \ {0} /\ N \in Nat /\ \A m \in Nat : m < N => f + m \in DriverRows(t)
  BY <1>1, ChunkInTable
<1>3. \A m \in 0 .. N : s(m) \in Seq(AllRows) /\ (m < N => s(m + 1) = s(m) \o d(f + m))
  <2> TAKE m \in 0 .. N
  <2>1. m \in 0 .. Count(c, Driver(t))
    BY <1>1
  <2> QED  BY <1>1, <2>1, BuiltFacts
<1>4. s(0) = <<>>
  <2>1. 0 \in 0 .. Count(c, Driver(t))
    BY <1>1, <1>2
  <2> QED  BY <1>1, <2>1, BuiltFacts
<1>5. Most(t) \in Nat
  BY DsdgenAssumption DEF Most
<1>6. ASSUME NEW m \in Nat, m < N
      PROVE  /\ d(f + m) \in Seq(AllRows) /\ Len(d(f + m)) <= Most(t)
             /\ \A k \in 1 .. Len(d(f + m)) : Ord(t, d(f + m)[k]) = f + m /\ Lin(t, d(f + m)[k]) = k
  <2> DEFINE r == f + m
  <2>1. r \in DriverRows(t)
    BY <1>2, <1>6
  <2> HIDE DEF r
  <2> QED  BY <2>1, RowsNumbered DEF r
<1> HIDE DEF N, f, s, d
<1>7. 0 \in G
  <2>1. (f + 0) - 1 < f
    BY <1>2
  <2>2. Keyed(t, <<>>, f, (f + 0) - 1)
    BY DEF Keyed
  <2>3. \A r \in f .. (f + 0) - 1 : FALSE
    BY <1>2
  <2>4. Len(<<>>) <= 0 * Most(t)
    BY <1>5
  <2> QED  BY <1>4, <2>2, <2>3, <2>4
<1>8. ASSUME NEW m \in G PROVE m + 1 \in G
  <2> SUFFICES ASSUME m + 1 <= N PROVE Good(m + 1)
    OBVIOUS
  <2>1. m \in Nat /\ m < N /\ m \in 0 .. N
    BY <1>2
  <2>2. Good(m)
    BY <2>1
  <2> DEFINE r == f + m
             b == (f + m) - 1
  <2>3. r \in Nat /\ b \in Nat /\ r = b + 1 /\ f <= r /\ (f + (m + 1)) - 1 = r
    BY <1>2, <2>1
  <2>4. /\ s(m) \in Seq(AllRows) /\ s(m + 1) = s(m) \o d(r)
        /\ d(r) \in Seq(AllRows) /\ Len(d(r)) <= Most(t)
        /\ \A k \in 1 .. Len(d(r)) : Ord(t, d(r)[k]) = r /\ Lin(t, d(r)[k]) = k
    BY <1>3, <1>6, <2>1
  <2>5. /\ Len(s(m)) <= m * Most(t) /\ Keyed(t, s(m), f, b)
        /\ \A q \in f .. b : \A k \in 1 .. Len(d(q)) : Holds(t, s(m), q, k)
    BY <2>2
  <2> HIDE DEF r, b, G, Good
  <2>6. /\ Keyed(t, s(m + 1), f, r)
        /\ \A o, k : Holds(t, s(m), o, k) => Holds(t, s(m + 1), o, k)
        /\ \A k \in 1 .. Len(d(r)) : Holds(t, s(m + 1), r, k)
    <3> DEFINE u == s(m)
               v == d(r)
    <3>1. /\ u \in Seq(AllRows) /\ v \in Seq(AllRows) /\ Keyed(t, u, f, b)
          /\ f \in Nat /\ b \in Nat /\ r = b + 1 /\ f <= r
          /\ \A k \in 1 .. Len(v) : Ord(t, v[k]) = r /\ Lin(t, v[k]) = k
      BY <1>2, <2>3, <2>4, <2>5
    <3>2. s(m + 1) = u \o v
      BY <2>4
    <3> HIDE DEF u, v
    <3>3. /\ Keyed(t, u \o v, f, r)
          /\ \A o, k : Holds(t, u, o, k) => Holds(t, u \o v, o, k)
          /\ \A k \in 1 .. Len(v) : Holds(t, u \o v, r, k)
      BY <3>1, KeyedNext
    <3> QED  BY <3>2, <3>3 DEF u, v
  <2>7. Len(s(m + 1)) <= (m + 1) * Most(t)
    <3> DEFINE x == m * Most(t)
    <3>1. Len(s(m + 1)) = Len(s(m)) + Len(d(r)) /\ Len(s(m)) \in Nat /\ Len(d(r)) \in Nat
      BY <2>4, ConcatLength
    <3>2. x \in Nat /\ (m + 1) * Most(t) = x + Most(t)
      BY <1>5, <2>1, NextMultiple
    <3>3. Len(s(m)) <= x
      BY <2>5
    <3> HIDE DEF x
    <3> QED  BY <1>5, <2>4, <3>1, <3>2, <3>3
  <2>8. \A q \in f .. r : \A k \in 1 .. Len(d(q)) : Holds(t, s(m + 1), q, k)
    <3>1. \A q \in f .. r : q = r \/ q \in f .. b
      BY <1>2, <2>3
    <3> QED  BY <2>5, <2>6, <3>1
  <2> QED  BY <2>3, <2>6, <2>7, <2>8 DEF Good
<1> HIDE DEF G, Good
<1>9. G = Nat
  BY <1>7, <1>8, InductionSet DEF G
<1>10. n \in 0 .. N /\ n \in G /\ n <= N
  BY <1>2, <1>9 DEF N
<1>11. Good(n)
  BY <1>10 DEF G
<1>12. s(n) \in Seq(AllRows)
  BY <1>3, <1>10
<1> QED  BY <1>11, <1>12 DEF Good, s, f, d

\* Every row of a driver table is in the chunk of exactly one child.
LEMMA OneOwner ==
  ASSUME NEW t \in DriverTables, NEW r \in DriverRows(t)
  PROVE  \E c \in Children :
           /\ r \in First(c, t) .. (First(c, t) + Count(c, t)) - 1
           /\ \A d \in Children : r \in First(d, t) .. (First(d, t) + Count(d, t)) - 1 => d = c
<1> DEFINE total == TotalRows[t]
           ch(c) == Chunk(total, Parallel, c)
<1>1. total \in Nat \ {0} /\ Parallel \in Nat \ {0} /\ r \in 1 .. total
  BY DsdgenAssumption DEF DriverTables, DriverRows, Driver
<1>2. ASSUME NEW c \in Children
      PROVE  ch(c) = First(c, t) .. (First(c, t) + Count(c, t)) - 1
  <2>1. First(c, t) \in Nat /\ Count(c, t) \in Nat
    BY FirstRowPositive DEF DriverTables
  <2>2. ch(c) = First(c, t) .. (First(c, t) + (Count(c, t) - 1))
    BY DEF Chunk, First, Count
  <2>3. First(c, t) + (Count(c, t) - 1) = (First(c, t) + Count(c, t)) - 1
    BY <2>1
  <2> QED  BY <2>2, <2>3
<1> HIDE DEF total, ch
<1>3. \E c \in Children : r \in ch(c)
  <2>1. UNION {ch(c) : c \in Children} = 1 .. total
    BY <1>1, Cover DEF ChunksCover, Children, ch
  <2> QED  BY <1>1, <2>1
<1>4. \A c, d \in Children : r \in ch(c) /\ r \in ch(d) => d = c
  <2>1. \A c, d \in Children : c # d => ch(c) \cap ch(d) = {}
    BY <1>1, Disjoint DEF ChunksDisjoint, Children, ch
  <2> QED  BY <2>1
<1>5. PICK c \in Children : r \in ch(c)
  BY <1>3
<1>6. \A d \in Children : r \in First(d, t) .. (First(d, t) + Count(d, t)) - 1 => d = c
  BY <1>2, <1>4, <1>5
<1>7. r \in First(c, t) .. (First(c, t) + Count(c, t)) - 1
  BY <1>2, <1>5
<1> QED  BY <1>6, <1>7

\* Where the chunks hold a row, no later than place M.
Places(g, t, r, k, M) ==
  {w \in Children \X (1 .. M) :
     /\ w[2] <= Len(ChunkSlice(g, w[1], t))
     /\ Ord(t, ChunkSlice(g, w[1], t)[w[2]]) = r
     /\ Lin(t, ChunkSlice(g, w[1], t)[w[2]]) = k}

\* Over all chunks together a row is there exactly once.
LEMMA OneRow ==
  ASSUME FitsInt, NEW g \in Seeds, NEW t \in DriverTables, NEW r \in DriverRows(t), NEW k,
         \A c \in Children : k \in 1 .. Len(DayRows(g, c, t, r)),
         NEW M \in Nat, \A c \in Children : Len(ChunkSlice(g, c, t)) <= M
  PROVE  Cardinality(Places(g, t, r, k, M)) = 1
<1> DEFINE s(c) == ChunkSlice(g, c, t)
           b(c) == (First(c, t) + Count(c, t)) - 1
           At(c, i) == Ord(t, s(c)[i]) = r /\ Lin(t, s(c)[i]) = k
           W == {w \in Children \X (1 .. M) : w[2] <= Len(s(w[1])) /\ At(w[1], w[2])}
<1>1. \A c \in Children :
        /\ s(c) \in Seq(AllRows) /\ Keyed(t, s(c), First(c, t), b(c))
        /\ \A q \in First(c, t) .. b(c) : \A j \in 1 .. Len(DayRows(g, c, t, q)) : Holds(t, s(c), q, j)
  <2> TAKE c \in Children
  <2>1. Driver(t) = t /\ Count(c, t) \in 0 .. Count(c, t)
    BY FirstRowPositive DEF DriverTables, Driver
  <2>2. s(c) = Built(g, c, t, Count(c, t))
    BY <2>1 DEF ChunkSlice
  <2> QED  BY <2>1, <2>2, BuiltKeyed
<1>2. PICK c \in Children : /\ r \in First(c, t) .. b(c)
                            /\ \A d \in Children : r \in First(d, t) .. b(d) => d = c
  BY OneOwner
<1> HIDE DEF s, b
<1>3. PICK i \in 1 .. Len(s(c)) : At(c, i)
  <2>1. Holds(t, s(c), r, k)
    BY <1>1, <1>2
  <2> QED  BY <2>1 DEF Holds
<1>4. i \in 1 .. M /\ i <= Len(s(c))
  <2>1. Len(s(c)) \in Nat /\ Len(s(c)) <= M
    BY <1>1 DEF s
  <2> QED  BY <2>1
<1>5. ASSUME NEW d \in Children, NEW j \in 1 .. M, j <= Len(s(d)), At(d, j)
      PROVE  d = c /\ j = i
  <2>1. j \in 1 .. Len(s(d)) /\ Len(s(d)) \in Nat
    BY <1>1, <1>5
  <2>2. r \in First(d, t) .. b(d)
    BY <1>1, <1>5, <2>1 DEF Keyed
  <2>3. d = c
    BY <1>2, <2>2
  <2> QED  BY <1>1, <1>3, <1>5, <2>1, <2>3 DEF Keyed
<1> HIDE DEF At
<1>6. W = {<<c, i>>}
  <2>1. <<c, i>> \in W
    BY <1>3, <1>4
  <2>2. ASSUME NEW w \in W PROVE w = <<c, i>>
    <3>1. w \in Children \X (1 .. M) /\ w[1] \in Children /\ w[2] \in 1 .. M
          /\ w[2] <= Len(s(w[1])) /\ At(w[1], w[2])
      OBVIOUS
    <3>2. w[1] = c /\ w[2] = i
      BY <1>5, <3>1
    <3> QED  BY <3>1, <3>2
  <2> QED  BY <2>1, <2>2
<1>7. Cardinality(W) = 1
  BY <1>6, FS_Singleton
<1> QED  BY <1>7 DEF At, s, Places

\* A chunk has no more rows than the table can have.
LEMMA SliceBound ==
  ASSUME FitsInt, NEW g \in Seeds, NEW c \in Children, NEW t \in DriverTables
  PROVE  Len(ChunkSlice(g, c, t)) <= TotalRows[t] * Most(t) /\ TotalRows[t] * Most(t) \in Nat
<1> DEFINE n == Count(c, t)
           m == TotalRows[t]
           k == Most(t)
           s == ChunkSlice(g, c, t)
<1>1. n \in Nat /\ n <= m /\ m \in Nat /\ k \in Nat
  <2>1. /\ First(c, t) \in Nat \ {0} /\ Count(c, t) \in Nat
        /\ First(c, t) + Count(c, t) - 1 <= TotalRows[t]
    BY ChunkFacts DEF DriverTables
  <2>2. TotalRows[t] \in Nat /\ MaxLines \in Nat
    BY DsdgenAssumption DEF DriverTables
  <2> QED  BY <2>1, <2>2 DEF Most
<1>2. Driver(t) = t /\ n \in 0 .. Count(c, t)
  BY <1>1 DEF DriverTables, Driver
<1>3. s = Built(g, c, t, n)
  BY <1>2 DEF ChunkSlice
<1>4. s \in Seq(AllRows) /\ Len(s) <= n * k
  <2> HIDE DEF n
  <2> QED  BY <1>2, <1>3, BuiltKeyed
<1> HIDE DEF n, m, k, s
<1>5. n * k <= m * k /\ m * k \in Nat /\ n * k \in Nat
  BY <1>1, Z3
<1>6. Len(s) \in Nat
  BY <1>4
<1> QED  BY <1>4, <1>5, <1>6 DEF s, m, k

\* When all children have ended well, their files together hold every line of
\* every order and every address, each exactly once: what the chunks of
\* split_work, the counting of gen_tbl and print_close come to.
THEOREM FinishedBuildComplete == ASSUME FitsInt PROVE Spec => []FinishedBuildIsTheTable
<1>1. IInv /\ SInv => FinishedBuildIsTheTable
  <2> SUFFICES ASSUME IInv, SInv, \A c \in Children : pc[c] = "done"
               PROVE  FinishedBuildIsTheTable
    BY DEF FinishedBuildIsTheTable
  <2>1. seed \in Seeds
    BY DEF IInv, TypeOK
  <2>2. \A t \in DriverTables : \A c \in Children : file[c][t] = ChunkSlice(seed, c, t)
    <3> TAKE t \in DriverTables
    <3> TAKE c \in Children
    <3>1. FileInv(c, t) /\ tab[c] = 4
      BY DEF SInv, ChildSInv, DayInv, DriverTables, Tables
    <3>2. Past(c, t)
      BY <3>1 DEF Past
    <3> QED  BY <3>1, <3>2 DEF FileInv
  <2>3. ASSUME NEW o \in 1 .. Orders, NEW l \in 1 .. seed.lines[o - 1]
        PROVE  Cardinality({w \in Children \X (1 .. Orders * MaxLines) :
                 LET rows == file[w[1]]["catalog_sales"] IN
                   w[2] <= Len(rows) /\ rows[w[2]].order = o /\ rows[w[2]].line = l}) = 1
    <3> DEFINE t == "catalog_sales"
               M == Orders * MaxLines
    <3>1. t \in DriverTables /\ o \in DriverRows(t)
      BY SalesDrive DEF DriverTables
    <3>2. \A c \in Children : l \in 1 .. Len(DayRows(seed, c, t, o))
      BY <2>1, RowCounts DEF LinesIn
    <3>3. M \in Nat /\ \A c \in Children : Len(ChunkSlice(seed, c, t)) <= M
      <4>1. TotalRows[t] * Most(t) = M
        BY DEF Most, Orders
      <4>2. 1 \in Children
        BY DsdgenAssumption DEF Children
      <4> QED  BY <2>1, <3>1, <4>1, <4>2, SliceBound
    <3> HIDE DEF M
    <3>4. Cardinality(Places(seed, t, o, l, M)) = 1
      BY <2>1, <3>1, <3>2, <3>3, OneRow
    <3>5. Places(seed, t, o, l, M)
          = {w \in Children \X (1 .. M) :
              LET rows == file[w[1]][t] IN
                w[2] <= Len(rows) /\ rows[w[2]].order = o /\ rows[w[2]].line = l}
      BY <2>2, <3>1 DEF Ord, Lin, Places
    <3> QED  BY <3>4, <3>5 DEF M
  <2>4. ASSUME NEW r \in 1 .. TotalRows["customer_address"]
        PROVE  Cardinality({w \in Children \X (1 .. TotalRows["customer_address"]) :
                 LET rows == file[w[1]]["customer_address"] IN
                   w[2] <= Len(rows) /\ rows[w[2]].row = r}) = 1
    <3> DEFINE t == "customer_address"
               M == TotalRows[t]
               one == 1
    <3>1. t \in DriverTables /\ r \in DriverRows(t)
      BY DEF DriverTables, DriverRows, Driver
    <3>2. \A c \in Children : one \in 1 .. Len(DayRows(seed, c, t, r))
      <4> TAKE c \in Children
      <4> DEFINE n == Len(DayRows(seed, c, t, r))
      <4>1. n = 1
        BY <2>1, RowCounts
      <4> HIDE DEF n
      <4>2. one \in 1 .. n
        BY <4>1
      <4> QED  BY <4>2 DEF n
    <3>3. M \in Nat /\ \A c \in Children : Len(ChunkSlice(seed, c, t)) <= M
      <4>1. TotalRows[t] * Most(t) = M /\ M \in Nat
        <5>1. M \in Nat
          BY DsdgenAssumption
        <5>2. Most(t) = 1
          BY DEF Most
        <5> HIDE DEF M
        <5> QED  BY <5>1, <5>2 DEF M
      <4> QED  BY <2>1, <3>1, <4>1, SliceBound
    <3> HIDE DEF M, one
    <3>4. Cardinality(Places(seed, t, r, one, M)) = 1
      BY <2>1, <3>1, <3>2, <3>3, OneRow
    <3>5. Places(seed, t, r, one, M)
          = {w \in Children \X (1 .. M) :
              LET rows == file[w[1]][t] IN w[2] <= Len(rows) /\ rows[w[2]].row = r}
      BY <2>2, <3>1 DEF Ord, Lin, Places, one
    <3> QED  BY <3>4, <3>5 DEF M
  <2> QED  BY <2>3, <2>4 DEF FinishedBuildIsTheTable
<1> QED  BY <1>1, SerialInvariance, PTL
================================================================================
