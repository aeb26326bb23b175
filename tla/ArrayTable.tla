----------------------------- MODULE ArrayTable -----------------------------
(***************************************************************************)
(* What an array of marray.c promises: a table from keys to contents, in   *)
(* which an operation changes the row of one key, or empties the table.    *)
(* No slots, no index, no search.                                          *)
(*                                                                         *)
(* ArrayIndex.tla implements this module (see ImplementsTable there).      *)
(***************************************************************************)
CONSTANTS Key,    \* names, without regard to case
          Value   \* what is put under a name

VARIABLE table    \* key -> set of values put under it

TableInit == table = [k \in {} |-> {}]

\* The row of k, new or not.
Set(k, vs) ==
  table' = [j \in DOMAIN table \cup {k} |-> IF j = k THEN vs ELSE table[j]]

\* A name that is not there yet.
Add(k, vs) == k \notin DOMAIN table /\ Set(k, vs)

\* A name that is there: the values are joined.
Join(k, vs) == k \in DOMAIN table /\ Set(k, table[k] \cup vs)

\* A name that is there gets other content.
Replace(k, vs) == k \in DOMAIN table /\ Set(k, vs)

Clear == table' = [k \in {} |-> {}]

TableNext ==
  \/ \E k \in Key, vs \in SUBSET Value : Add(k, vs) \/ Join(k, vs) \/ Replace(k, vs)
  \/ Clear

TableSpec == TableInit /\ [][TableNext]_table
=============================================================================
