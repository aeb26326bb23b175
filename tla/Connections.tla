----------------------------- MODULE Connections -----------------------------
(***************************************************************************)
(* The connection pool of mconnections.c together with the descriptor      *)
(* table of mfdevent.c.                                                    *)
(*                                                                         *)
(* srv->conns is an array `ptr' of connection objects.  The first `used'   *)
(* slots are the connections in service, the rest is kept for reuse; the   *)
(* array grows by a fixed number of slots and never shrinks.  Closing a    *)
(* connection swaps it with the last one in service, so an object moves    *)
(* between slots and carries the number of its slot in con->ndx.           *)
(* srv->ev->fdarray leads from a descriptor back to the connection, and    *)
(* srv->cur_fds counts the descriptors the server believes to be open.     *)
(* fdarray has a fixed length; nothing compares a descriptor with it, and  *)
(* registering one beyond it writes outside the array.  The model stops    *)
(* there (`overrun') and says nothing of what the program does next.       *)
(*                                                                         *)
(* A connection object is named by the slot connection_init filled with    *)
(* it: the objects are 0 .. size-1, and ptr is a permutation of them.      *)
(* Every action is one call that the single-threaded server runs to its    *)
(* end.  In the code connection_close is reached from the failure branch   *)
(* of connection_accepted only (the states that should call it are empty   *)
(* in connection_state_machine); CloseConnection models the call for any   *)
(* connection in service, which is what the function is written for.       *)
(***************************************************************************)
EXTENDS Integers, FiniteSets

CONSTANTS
  Growth,          \* slots added when the pool is full, 128 in the code
  MaxConns,        \* srv->srvconf.max_conns, the limit accept looks at
  MaxFds,          \* srv->max_fds: fdarray has MaxFds + 1 entries
  FdLimit,         \* descriptors the kernel hands out are 0 .. FdLimit-1
  OpenAtStart,     \* descriptors open when the main loop starts
  Listeners,       \* the listening sockets among them
  MaxCloseErrors   \* bound of the model: calls of close() that fail

ASSUME PoolAssumption ==
  /\ Growth \in Nat \ {0}
  /\ MaxConns \in Nat
  /\ MaxCloseErrors \in Nat

\* Nothing ties the limit of the process to the length of fdarray: max_fds is
\* 4096 for a server that is not root (mserver.c:332; the branch that would
\* read its limit is under a misspelled HAVE_GETRLIMT, :467), and select caps
\* it below the limit (:364).  The descriptors open at the start may have
\* holes: openDevNull and a piped log close numbers below open ones.
ASSUME FdAssumption ==
  /\ MaxFds \in Nat
  /\ FdLimit \in Nat
  /\ OpenAtStart \subseteq 0 .. FdLimit - 1
  /\ Listeners \subseteq OpenAtStart

VARIABLES
  ptr,         \* conns->ptr: slot -> connection object
  size,        \* conns->size
  used,        \* conns->used
  ndx,         \* con->ndx of every object
  fd,          \* con->fd of every object
  state,       \* con->state of every object
  fdarray,     \* ev->fdarray: descriptor -> context of the registered handler
  cur_fds,     \* srv->cur_fds
  openFds,     \* kernel: the descriptors that are open
  others,      \* those of them that other parts hold: listeners, logs, files
  closeErrors, \* calls of close() that failed so far
  overrun      \* a descriptor beyond fdarray was registered

vars == <<ptr, size, used, ndx, fd, state, fdarray, cur_fds, openFds,
          others, closeErrors, overrun>>

-----------------------------------------------------------------------------
NULL     == -1     \* an empty entry of fdarray
LISTENER == -2     \* an entry that belongs to a listening socket

Slots   == 0 .. size - 1
Conns   == Slots
Fds     == 0 .. FdLimit - 1
States  == {"connect", "request-start"}

\* The kernel hands out the lowest descriptor that is free.
Lowest(open) == {f \in Fds \ open : \A g \in Fds \ open : f <= g}

\* The connections in service.
Active == {ptr[i] : i \in 0 .. used - 1}

TypeOK ==
  /\ size \in Nat
  /\ used \in 0 .. size
  /\ ptr \in [Slots -> Conns]
  /\ ndx \in [Conns -> Int]
  /\ fd \in [Conns -> Int]
  /\ state \in [Conns -> States]
  /\ fdarray \in [0 .. MaxFds -> Conns \cup {NULL, LISTENER}]
  /\ cur_fds \in Int
  /\ openFds \subseteq Fds
  /\ others \subseteq Fds
  /\ closeErrors \in 0 .. MaxCloseErrors
  /\ overrun \in BOOLEAN

\* server_init leaves the pool empty; main() registers the listening sockets
\* and takes the lowest free descriptor, which open() of /dev/null returns, as
\* the count of the open ones: too few when they have holes, -1 when it fails.
Init ==
  /\ size = 0
  /\ used = 0
  /\ ptr = [i \in 0 .. -1 |-> 0]
  /\ ndx = [c \in 0 .. -1 |-> 0]
  /\ fd = [c \in 0 .. -1 |-> 0]
  /\ state = [c \in 0 .. -1 |-> "connect"]
  /\ fdarray = [f \in 0 .. MaxFds |-> IF f \in Listeners THEN LISTENER ELSE NULL]
  /\ cur_fds \in Lowest(OpenAtStart) \cup {-1}
  /\ openFds = OpenAtStart
  /\ others = OpenAtStart
  /\ closeErrors = 0
  /\ overrun = (\E l \in Listeners : l > MaxFds)

-----------------------------------------------------------------------------
(***************************************************************************)
(* connections_get_new_connection: a full pool grows; the new slots hold   *)
(* zeroed objects, whose ndx and fd are therefore 0 and not -1.            *)
(***************************************************************************)
NewSize == IF used = size THEN size + Growth ELSE size

GrownPtr == [k \in 0 .. NewSize - 1 |-> IF k < size THEN ptr[k] ELSE k]

\* A field of the objects after the growth, `fresh' being its value in a new one.
Grown(field, fresh) ==
  [k \in 0 .. NewSize - 1 |-> IF k < size THEN field[k] ELSE fresh]

\* The object the next connection gets.
NewConn == GrownPtr[used]

MayAccept == ~overrun /\ used <= MaxConns

\* accept() returned f, for which fdarray has an entry.
InArray(f) == f \in Lowest(openFds) /\ f <= MaxFds

(***************************************************************************)
(* connection_accept and connection_accepted: accept() returns the free    *)
(* descriptor f, a pooled object takes it and is registered for it.        *)
(***************************************************************************)
Accept(f) ==
  /\ MayAccept
  /\ InArray(f)
  /\ size' = NewSize
  /\ ptr' = GrownPtr
  /\ used' = used + 1
  /\ ndx' = [Grown(ndx, 0) EXCEPT ![NewConn] = used]
  /\ fd' = [Grown(fd, 0) EXCEPT ![NewConn] = f]
  /\ state' = [Grown(state, "connect") EXCEPT ![NewConn] = "request-start"]
  /\ fdarray' = [fdarray EXCEPT ![f] = NewConn]
  /\ cur_fds' = cur_fds + 1
  /\ openFds' = openFds \cup {f}
  /\ UNCHANGED <<others, closeErrors, overrun>>

\* fdevent_register writes the entry of f without a look at ev->maxfds.
Overrun(f) ==
  /\ MayAccept
  /\ f \in Lowest(openFds)
  /\ f > MaxFds
  /\ overrun' = TRUE
  /\ UNCHANGED <<ptr, size, used, ndx, fd, state, fdarray, cur_fds, openFds,
                 others, closeErrors>>

\* Faulty variant: the entry survives the descriptor.
Unregister_Skipped(f) == UNCHANGED fdarray

\* fdevent_unregister.  fdevent_event_del before it changes nothing: con->fde_ndx
\* is -1 from connection_accepted on.
Unregister(f) == fdarray' = [fdarray EXCEPT ![f] = NULL]

\* Faulty variant: a failed close() is counted as well.
SysClose_CountsFailure(f, open, count) ==
  \/ /\ openFds' = open \ {f}
     /\ cur_fds' = count - 1
     /\ UNCHANGED closeErrors
  \/ /\ closeErrors < MaxCloseErrors
     /\ openFds' \in {open, open \ {f}}
     /\ cur_fds' = count - 1
     /\ closeErrors' = closeErrors + 1

\* close(f) on the descriptor table `open', called when srv->cur_fds is
\* `count'.  A close() that fails may or may not have released f, and is not
\* counted.
SysClose(f, open, count) ==
  \/ /\ openFds' = open \ {f}
     /\ cur_fds' = count - 1
     /\ UNCHANGED closeErrors
  \/ /\ closeErrors < MaxCloseErrors
     /\ openFds' \in {open, open \ {f}}
     /\ cur_fds' = count
     /\ closeErrors' = closeErrors + 1

(***************************************************************************)
(* connection_accepted when the new socket cannot be made non-blocking:    *)
(* connection_close undoes the whole of Accept within the same call.  The  *)
(* object sits in the last slot in service, so nothing is swapped.         *)
(***************************************************************************)
AcceptThenClose(f) ==
  /\ MayAccept
  /\ InArray(f)
  /\ size' = NewSize
  /\ ptr' = GrownPtr
  /\ ndx' = [Grown(ndx, 0) EXCEPT ![NewConn] = -1]
  /\ fd' = [Grown(fd, 0) EXCEPT ![NewConn] = -1]
  /\ state' = [Grown(state, "connect") EXCEPT ![NewConn] = "connect"]
  /\ Unregister(f)
  /\ SysClose(f, openFds \cup {f}, cur_fds + 1)
  /\ UNCHANGED <<used, others, overrun>>

(***************************************************************************)
(* connection_del: the object in slot i leaves the service; the last one   *)
(* in service takes its slot.                                              *)
(***************************************************************************)
\* Faulty variant: the last pointer is copied, the old one is lost.
Swapped_Overwrite(i) == [ptr EXCEPT ![i] = ptr[used - 1]]

Swapped(i) == [ptr EXCEPT ![i] = ptr[used - 1], ![used - 1] = ptr[i]]

\* Faulty variant: the object that moves keeps its old number.
DelNdx_KeepsMoved(c) == [ndx EXCEPT ![c] = -1]

DelNdx(c) ==
  [d \in Conns |-> IF d = c THEN -1
                   ELSE IF d = ptr[used - 1] THEN ndx[c] ELSE ndx[d]]

\* Faulty variants: nothing is swapped; the count is lowered twice.
Del_NoSwap(c) ==
  /\ ndx' = [ndx EXCEPT ![c] = -1]
  /\ used' = used - 1
  /\ UNCHANGED ptr

Del(c) ==
  /\ ptr' = Swapped(ndx[c])
  /\ ndx' = DelNdx(c)
  /\ used' = used - 1

Detach(c) ==
  /\ fd' = [fd EXCEPT ![c] = -1]
  /\ state' = [state EXCEPT ![c] = "connect"]

\* connection_close of a connection in service.
CloseConnection(c) ==
  /\ ~overrun
  /\ c \in Active
  /\ Unregister(fd[c])
  /\ SysClose(fd[c], openFds, cur_fds)
  /\ Detach(c)
  /\ Del(c)
  /\ UNCHANGED <<size, others, overrun>>

(***************************************************************************)
(* Other parts open and close descriptors between the calls: temporary     *)
(* files of mchunk.c, the log of log_error_cycle, files of mstream.c.      *)
(* They take numbers clients gave back, and are not counted in cur_fds.    *)
(***************************************************************************)
Other(opened, closed) ==
  /\ ~overrun
  /\ openFds' = (openFds \cup opened) \ closed
  /\ others' = (others \cup opened) \ closed
  /\ UNCHANGED <<ptr, size, used, ndx, fd, state, fdarray, cur_fds, closeErrors, overrun>>

OtherOpen(f) == f \in Lowest(openFds) /\ Other({f}, {})

OtherClose(f) == f \in others \ Listeners /\ Other({}, {f})

Next ==
  \/ \E f \in Fds : Accept(f)
  \/ \E f \in Fds : AcceptThenClose(f)
  \/ \E f \in Fds : Overrun(f)
  \/ \E c \in Conns : CloseConnection(c)
  \/ \E f \in Fds : OtherOpen(f)
  \/ \E f \in Fds : OtherClose(f)

Spec == Init /\ [][Next]_vars

-----------------------------------------------------------------------------
(***************************************************************************)
(* Properties                                                              *)
(***************************************************************************)

\* A connection in service knows its slot: connection_del trusts con->ndx, and
\* a wrong number would take another connection out of service.
NdxConsistent == \A i \in 0 .. used - 1 : ndx[ptr[i]] = i

\* The pool never loses a connection object and never holds one twice, however
\* calls of connection_del and growing by connections_get_new_connection mix.
PoolKeepsObjects == \A i, j \in Slots : ptr[i] = ptr[j] => i = j

\* Every connection in service has an open descriptor of its own, which no other
\* part of the server holds, and is what its entry of fdarray leads to; and every
\* entry leads to a listener or to a connection in service that has this
\* descriptor: fdevent_get_context never returns a pooled connection.
RoutesToOwner ==
  /\ \A c \in Active : /\ fd[c] \in openFds \ others
                       /\ fd[c] \in 0 .. MaxFds
                       /\ fdarray[fd[c]] = c
  /\ \A f \in 0 .. MaxFds :
       fdarray[f] # NULL => \/ f \in Listeners /\ fdarray[f] = LISTENER
                            \/ fdarray[f] \in Active /\ fd[fdarray[f]] = f

\* srv->cur_fds is what the start found plus one per connection and one per
\* failed close(), whatever the start found; every descriptor that neither a
\* connection nor another part holds is the leftover of a failed close(); and
\* fdarray is overrun only by a listener or once each of its entries' descriptors
\* is open.
FdAccounting ==
  /\ \E base \in Lowest(OpenAtStart) \cup {-1} : cur_fds = base + used + closeErrors
  /\ Cardinality(openFds \ others) <= used + closeErrors
  /\ overrun => \/ \E l \in Listeners : l > MaxFds
               \/ 0 .. MaxFds \subseteq openFds

\* A connection that waits in the pool is in CON_STATE_CONNECT and holds no
\* socket of a client: its fd is -1, or the 0 of calloc when it was never used.
PooledIsIdle ==
  \A c \in Conns \ Active : state[c] = "connect" /\ fd[c] \in {-1, 0}

\* The pool is a table of connections with distinct descriptors in which
\* accepting adds one row, closing removes one, and nothing else moves.
\* A pool that grows only when it is full has at most MaxConns + Growth objects.
Table == INSTANCE ConnTable WITH
           Conn <- 0 .. MaxConns + Growth - 1,
           Fd <- Fds,
           table <- [c \in Active |-> fd[c]]

ImplementsTable == Table!TableSpec

\* mserver.c:512 says that there cannot be more connections than fds/2.
ConnectionLimit == used <= MaxFds \div 2
=============================================================================
