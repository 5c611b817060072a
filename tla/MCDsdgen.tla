------------------------------- MODULE MCDsdgen -------------------------------
(* Instances of DsdgenProps for TLC. *)
EXTENDS DsdgenProps

CONSTANTS OrdersBound, AddressBound, SeedNumbers

MCTotalRows == [catalog_sales |-> OrdersBound, customer_address |-> AddressBound]

\* Days of two, one and two orders.
MCCalendar == (0 :> 2) @@ (1 :> 1) @@ (2 :> 2)

\* Days of one and three orders: no day starts on order 3 or 4.
MCCalendarMidDay == (0 :> 1) @@ (1 :> 3)

\* The yield of stream k of seed g at position p.
Yield(g, k, p) == (((g * 11 + k * 7 + p) * (p + 3 * g + k)) % 29) \div 3

MCSeeds ==
  {[lines    |-> [p \in 0 .. OrdersBound - 1 |->
                   MinLines + (Yield(g, 1, p) % (MaxLines - MinLines + 1))],
    item     |-> [p \in 0 .. OrdersBound - 1 |-> 1 + (Yield(g, 2, p) % ItemCount)],
    gift     |-> [p \in 0 .. 2 * OrdersBound - 1 |-> Yield(g, 3, p) % 2 = 0],
    returned |-> [p \in 0 .. MaxLines * OrdersBound - 1 |-> Yield(g, 4, p) % 2 = 0],
    regift   |-> [p \in 0 .. 2 * MaxLines * OrdersBound - 1 |-> Yield(g, 5, p) % 2 = 0]]
   : g \in SeedNumbers}
=============================================================================
