------------------------------ MODULE ConnTable ------------------------------
(***************************************************************************)
(* What the connection pool of mconnections.c promises to the rest of the  *)
(* server, without its array, its slots and its recycling: a table of the  *)
(* connections in service, each with a socket of its own.                  *)
(*                                                                         *)
(* Connections.tla implements this module (see ImplementsTable there).     *)
(***************************************************************************)
CONSTANTS Conn,   \* connection objects
          Fd      \* descriptors

VARIABLE table    \* connections in service, each with its descriptor

TableTypeOK ==
  \E S \in SUBSET Conn : table \in [S -> Fd]

TableInit ==
  table = [c \in {} |-> 0]

\* A connection object that is not in service gets a descriptor no
\* connection in service has.
Open(c, f) ==
  /\ c \notin DOMAIN table
  /\ \A d \in DOMAIN table : table[d] # f
  /\ table' = [d \in DOMAIN table \cup {c} |-> IF d = c THEN f ELSE table[d]]

\* Exactly one connection leaves; every other one keeps its descriptor.
Close(c) ==
  /\ c \in DOMAIN table
  /\ table' = [d \in DOMAIN table \ {c} |-> table[d]]

TableNext ==
  \/ \E c \in Conn, f \in Fd : Open(c, f)
  \/ \E c \in Conn : Close(c)

TableSpec == TableInit /\ [][TableNext]_table
=============================================================================
