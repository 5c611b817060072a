------------------------------ MODULE MCRunTpcds ------------------------------
(* Instances of RunTpcds for TLC. *)
EXTENDS RunTpcds, TLC

CONSTANTS alpha, beta

MCScales == <<"1", "3">>
MCOneScale == <<"1">>
MCQueries == <<"05", "19">>
MCOneQuery == <<"05">>

MCQueues == {alpha, beta}
QueueSymmetry == Permutations(MCQueues)
===============================================================================
