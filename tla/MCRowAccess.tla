----------------------------- MODULE MCRowAccess -----------------------------
(***************************************************************************)
(* RowAccess for TLC.  A choice of a row comes out one way or the other by *)
(* a digit of the seed, taken at the row: text and orders of the greatest  *)
(* and the smallest size, and changes of all, none and every other field.  *)
(***************************************************************************)
EXTENDS RowAccess

FewestLines(t) ==
  CASE t = "catalog_sales" -> 4
    [] t \in {"store_sales", "web_sales"} -> 8
    [] OTHER -> MostLines(t)

\* The permutation of keys, and the version of the key.
PickedKey(luck, r) == (IF luck = 2 THEN <<6, 3, 2, 5, 1, 4>>
                                   ELSE <<3, 5, 4, 1, 2, 6>>)[((r - 1) % 6) + 1]

Chosen(luck, t, r) ==
  LET much == (luck = 1) \/ (luck = 2 /\ r % 2 = 0) IN
  [long |-> much, gift |-> much,
   lines |-> IF much THEN MostLines(t) ELSE FewestLines(t),
   returned |-> IF much THEN MostLines(t) ELSE 0,
   flags |-> CASE luck = 0 -> 0
               [] luck = 1 -> 2147483647
               [] OTHER -> IF r % 2 = 0 THEN 1431655765 ELSE 715827882,
   first |-> FALSE, sk |-> PickedKey(luck, r)]

AloneOrTogether ==
  {<<t>> : t \in DriverTables}
    \cup {<<"call_center", "item">>, <<"catalog_page", "customer">>,
          <<"s_item", "s_promotion">>, <<"customer", "customer_address", "inventory">>,
          <<"s_customer", "s_purchase">>}

AllValidated == DriverTables \ {"dbgen_version"}

NoSessions == {}

StoresAndSites == {"s_store", "web_site"}
=============================================================================
