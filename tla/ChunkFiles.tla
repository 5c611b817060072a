------------------------------ MODULE ChunkFiles ------------------------------
(***************************************************************************)
(* What a parallel build promises.  Every (child, table) pair has one      *)
(* file; whatever the processes do, and however often they are killed and  *)
(* started over, the file only ever holds a prefix of the slice a serial   *)
(* build would write for the chunk: a file is created empty (again) and    *)
(* then grows one row of the slice at a time.                              *)
(***************************************************************************)
EXTENDS Naturals, Sequences

CONSTANTS
  Kids,        \* the children of the build
  Names,       \* the tables
  Seeds,       \* the seeds a build can be started with
  Slice(_, _, _)  \* Slice(g, c, t): the rows of table t that a serial build
                  \* with seed g writes for the chunk of child c

VARIABLES
  seed,        \* the seed of the build
  exists,      \* exists[c]: the tables whose file is there
  file         \* file[c][t]: its rows

Init ==
  /\ seed \in Seeds
  /\ exists = [c \in Kids |-> {}]
  /\ file = [c \in Kids |-> [t \in Names |-> <<>>]]

\* A process creates the file, or empties the one that is there.
Create(c, t) ==
  /\ exists' = [exists EXCEPT ![c] = @ \union {t}]
  /\ file' = [file EXCEPT ![c][t] = <<>>]
  /\ UNCHANGED seed

\* It writes the next row.
Write(c, t) ==
  /\ t \in exists[c]
  /\ Len(file[c][t]) < Len(Slice(seed, c, t))
  /\ file' = [file EXCEPT ![c][t] = Append(@, Slice(seed, c, t)[Len(@) + 1])]
  /\ UNCHANGED <<seed, exists>>

Next == \E c \in Kids, t \in Names : Create(c, t) \/ Write(c, t)

Spec == Init /\ [][Next]_<<seed, exists, file>>
=============================================================================
