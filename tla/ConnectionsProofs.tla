-------------------------- MODULE ConnectionsProofs --------------------------
(***************************************************************************)
(* Proofs about Connections: the inductive invariant behind its safety     *)
(* properties, and the implementation of ConnTable.                        *)
(***************************************************************************)
EXTENDS Connections, FiniteSetTheorems, TLAPS

\* How far pool and service can grow: one connection more than MaxConns,
\* because connection_accept compares with `>'.
PoolBound ==
  /\ used <= MaxConns + 1
  /\ size <= MaxConns + Growth

\* The listeners stay open, and what other parts hold is open.
OthersOpen == Listeners \subseteq others /\ others \subseteq openFds

\* The table of connections ConnTable speaks of.
TableOf == [c \in Active |-> fd[c]]

IInv ==
  /\ TypeOK
  /\ PoolBound
  /\ OthersOpen
  /\ NdxConsistent
  /\ PoolKeepsObjects
  /\ RoutesToOwner
  /\ FdAccounting
  /\ PooledIsIdle

-----------------------------------------------------------------------------
\* The initial pool satisfies the invariant.
LEMMA InitIInv == Init => IInv
<1> SUFFICES ASSUME Init PROVE IInv
  OBVIOUS
<1> USE PoolAssumption, FdAssumption DEF Init
<1>1. Active = {}
  BY DEF Active
<1>2. TypeOK
  BY DEF TypeOK, Slots, Conns, States, Fds, NULL, LISTENER, Lowest
<1>3. PoolBound /\ OthersOpen
  BY DEF PoolBound, OthersOpen
<1>4. NdxConsistent /\ PoolKeepsObjects
  BY DEF NdxConsistent, PoolKeepsObjects, Slots
<1>5. RoutesToOwner
  BY <1>1 DEF RoutesToOwner, NULL, LISTENER
<1>6. FdAccounting
  <2>1. openFds \ others = {} /\ cur_fds \in Int
    BY DEF Lowest, Fds
  <2>2. Cardinality(openFds \ others) = 0
    BY <2>1, FS_EmptySet
  <2>3. cur_fds = cur_fds + used + closeErrors
    BY <2>1
  <2> QED
    BY <2>2, <2>3 DEF FdAccounting
<1>7. PooledIsIdle
  BY DEF PooledIsIdle, Conns, Slots
<1> QED
  BY <1>2, <1>3, <1>4, <1>5, <1>6, <1>7 DEF IInv

-----------------------------------------------------------------------------
(***************************************************************************)
(* What connections_get_new_connection returns.                            *)
(***************************************************************************)

\* Growing keeps the objects apart and hands out one that is not in service.
LEMMA GrowthFacts ==
  ASSUME IInv, MayAccept
  PROVE  /\ NewSize \in Nat /\ NewSize <= MaxConns + Growth
         /\ size <= NewSize /\ used < NewSize
         /\ GrownPtr \in [0 .. NewSize - 1 -> 0 .. NewSize - 1]
         /\ \A i \in 0 .. size - 1 : GrownPtr[i] = ptr[i]
         /\ \A i, j \in 0 .. NewSize - 1 : GrownPtr[i] = GrownPtr[j] => i = j
         /\ NewConn \in 0 .. NewSize - 1
         /\ NewConn \notin Active
<1> USE PoolAssumption DEF IInv, TypeOK, PoolBound, MayAccept, Slots, Conns
<1>1. /\ NewSize \in Nat /\ NewSize <= MaxConns + Growth
      /\ size <= NewSize /\ used < NewSize
  BY DEF NewSize
<1>2. \A k \in 0 .. NewSize - 1 :
        GrownPtr[k] = IF k < size THEN ptr[k] ELSE k
  BY DEF GrownPtr
<1>3. GrownPtr \in [0 .. NewSize - 1 -> 0 .. NewSize - 1]
  BY <1>1 DEF GrownPtr
<1>4. \A i, j \in 0 .. NewSize - 1 : GrownPtr[i] = GrownPtr[j] => i = j
  BY <1>1, <1>2 DEF PoolKeepsObjects
<1>5. \A i \in 0 .. size - 1 : GrownPtr[i] = ptr[i]
  BY <1>1, <1>2
<1>6. NewConn \in 0 .. NewSize - 1
  BY <1>1, <1>3 DEF NewConn
<1>7. NewConn \notin Active
  <2> SUFFICES ASSUME NEW i \in 0 .. used - 1, ptr[i] = NewConn
               PROVE  FALSE
    BY DEF Active
  <2>1. GrownPtr[i] = GrownPtr[used] /\ used \in 0 .. NewSize - 1 /\ i \in 0 .. NewSize - 1
    BY <1>1, <1>5 DEF NewConn
  <2> QED
    BY <2>1, <1>4
<1> QED
  BY <1>1, <1>3, <1>4, <1>5, <1>6, <1>7

\* A grown field keeps the values of the old objects and starts afresh for the
\* new ones.
LEMMA GrownFields ==
  ASSUME IInv, MayAccept
  PROVE  /\ Grown(ndx, 0) \in [0 .. NewSize - 1 -> Int]
         /\ Grown(fd, 0) \in [0 .. NewSize - 1 -> Int]
         /\ Grown(state, "connect") \in [0 .. NewSize - 1 -> States]
         /\ \A c \in Conns : /\ c \in 0 .. NewSize - 1
                             /\ Grown(ndx, 0)[c] = ndx[c]
                             /\ Grown(fd, 0)[c] = fd[c]
                             /\ Grown(state, "connect")[c] = state[c]
         /\ \A c \in (0 .. NewSize - 1) \ Conns :
              Grown(fd, 0)[c] = 0 /\ Grown(state, "connect")[c] = "connect"
<1>0. size \in Nat /\ NewSize \in Nat /\ size <= NewSize
  BY GrowthFacts DEF IInv, TypeOK
<1>1. \A c \in 0 .. NewSize - 1 : c < size <=> c \in Conns
  BY <1>0 DEF Conns, Slots
<1>2. \A c \in Conns : c \in 0 .. NewSize - 1
  BY <1>0 DEF Conns, Slots
<1> QED
  BY <1>1, <1>2 DEF Grown, IInv, TypeOK, States

\* Objects in service are objects of the pool, found by their number.
LEMMA ActiveFacts ==
  ASSUME IInv, NEW c \in Active
  PROVE  /\ c \in Conns
         /\ ndx[c] \in 0 .. used - 1
         /\ ptr[ndx[c]] = c
         /\ used >= 1
<1>1. PICK i \in 0 .. used - 1 : c = ptr[i]
  BY DEF Active
<1> QED
  BY <1>1 DEF IInv, TypeOK, NdxConsistent, Slots, Conns

-----------------------------------------------------------------------------
(***************************************************************************)
(* Accepting a connection.                                                 *)
(***************************************************************************)

\* The slots in service keep their objects and the new one is added.
LEMMA AcceptActive ==
  ASSUME IInv, NEW f \in Fds, Accept(f)
  PROVE  /\ \A i \in 0 .. used - 1 : ptr'[i] = ptr[i]
         /\ ptr'[used] = NewConn
         /\ Active' = Active \cup {NewConn}
         /\ \A c \in Conns : c # NewConn =>
              ndx'[c] = ndx[c] /\ fd'[c] = fd[c] /\ state'[c] = state[c]
<1> USE DEF Accept
<1>1. \A i \in 0 .. used - 1 : ptr'[i] = ptr[i]
  BY GrowthFacts DEF IInv, TypeOK, Slots
<1>2. ptr'[used] = NewConn
  BY DEF NewConn
<1>3. Active' = Active \cup {NewConn}
  <2>1. 0 .. used' - 1 = (0 .. used - 1) \cup {used}
    BY DEF IInv, TypeOK
  <2>2. Active' = {ptr'[i] : i \in 0 .. used' - 1}
    BY DEF Active
  <2>3. Active' = {ptr'[i] : i \in 0 .. used - 1} \cup {ptr'[used]}
    BY <2>1, <2>2
  <2>4. {ptr'[i] : i \in 0 .. used - 1} = {ptr[i] : i \in 0 .. used - 1}
    BY <1>1
  <2> QED
    BY <1>2, <2>3, <2>4 DEF Active
<1>4. \A c \in Conns : c # NewConn =>
        ndx'[c] = ndx[c] /\ fd'[c] = fd[c] /\ state'[c] = state[c]
  <2> SUFFICES ASSUME NEW c \in Conns, c # NewConn
               PROVE  ndx'[c] = ndx[c] /\ fd'[c] = fd[c] /\ state'[c] = state[c]
    OBVIOUS
  <2>1. ndx'[c] = Grown(ndx, 0)[c]
    BY GrownFields
  <2>2. fd'[c] = Grown(fd, 0)[c]
    BY GrownFields
  <2>3. state'[c] = Grown(state, "connect")[c]
    BY GrownFields
  <2> QED
    BY <2>1, <2>2, <2>3, GrownFields
<1> QED
  BY <1>1, <1>2, <1>3, <1>4

\* The descriptors no other part holds are finitely many.
LEMMA ClientsFinite ==
  ASSUME openFds \subseteq Fds
  PROVE  IsFiniteSet(openFds \ others)
<1>1. IsFiniteSet(0 .. FdLimit - 1)
  BY FdAssumption, FS_Interval
<1> QED
  BY <1>1, FS_Subset DEF Fds

\* Accept preserves the invariant.
LEMMA AcceptIInv ==
  ASSUME IInv, NEW f \in Fds, Accept(f)
  PROVE  IInv'
<1> USE PoolAssumption, FdAssumption
<1>0. MayAccept
  BY DEF Accept
<1>1. TypeOK'
  <2>1. ptr' \in [Slots' -> Conns']
    BY <1>0, GrowthFacts DEF Accept, Slots, Conns
  <2>2. Conns' = 0 .. NewSize - 1 /\ used \in Int /\ f \in Int
    BY DEF Accept, Conns, Slots, Fds, IInv, TypeOK
  <2>3. /\ ndx' \in [Conns' -> Int]
        /\ fd' \in [Conns' -> Int]
        /\ state' \in [Conns' -> States]
    <3>1. ndx' \in [Conns' -> Int]
      BY <2>2, <1>0, GrownFields DEF Accept
    <3>2. fd' \in [Conns' -> Int]
      BY <2>2, <1>0, GrownFields DEF Accept
    <3>3. state' \in [Conns' -> States]
      BY <2>2, <1>0, GrownFields DEF Accept, States
    <3> QED
      BY <3>1, <3>2, <3>3
  <2>4. fdarray' \in [0 .. MaxFds -> Conns' \cup {NULL, LISTENER}]
    <3>1. Conns \subseteq Conns' /\ NewConn \in Conns'
      BY <2>2, <1>0, GrowthFacts, GrownFields
    <3> QED
      BY <3>1 DEF Accept, IInv, TypeOK
  <2>5. size' \in Nat /\ used' \in 0 .. size' /\ cur_fds' \in Int
        /\ openFds' \subseteq Fds /\ closeErrors' \in 0 .. MaxCloseErrors
        /\ others' \subseteq Fds /\ overrun' \in BOOLEAN
    BY <1>0, GrowthFacts DEF Accept, IInv, TypeOK
  <2> QED
    BY <2>1, <2>3, <2>4, <2>5 DEF TypeOK
<1>2. PoolBound'
  BY <1>0, GrowthFacts DEF Accept, MayAccept, PoolBound, IInv, TypeOK
<1>3. OthersOpen'
  BY DEF Accept, OthersOpen, IInv
<1>4. NdxConsistent'
  <2> SUFFICES ASSUME NEW i \in 0 .. used PROVE ndx'[ptr'[i]] = i
    BY DEF NdxConsistent, Accept, IInv, TypeOK
  <2>1. CASE i = used
    <3>1. ptr'[i] = NewConn /\ NewConn \in 0 .. NewSize - 1
      BY <2>1, AcceptActive, <1>0, GrowthFacts
    <3> QED
      BY <2>1, <3>1, <1>0, GrownFields DEF Accept
  <2>2. CASE i \in 0 .. used - 1
    <3>1. ptr'[i] = ptr[i] /\ ptr[i] \in Active /\ ptr[i] \in Conns
      BY <2>2, AcceptActive DEF Active, IInv, TypeOK, Slots
    <3>2. ndx'[ptr[i]] = ndx[ptr[i]]
      BY <3>1, AcceptActive, <1>0, GrowthFacts
    <3> QED
      BY <2>2, <3>1, <3>2 DEF IInv, NdxConsistent
  <2> QED
    BY <2>1, <2>2 DEF IInv, TypeOK
<1>5. PoolKeepsObjects'
  BY <1>0, GrowthFacts DEF PoolKeepsObjects, Accept, Slots
<1>6. RoutesToOwner'
  <2>1. fd'[NewConn] = f /\ f \notin openFds /\ f \in 0 .. MaxFds
    BY <1>0, GrowthFacts, GrownFields DEF Accept, InArray, Lowest, Fds
  <2>2. ASSUME NEW c \in Active'
        PROVE  /\ fd'[c] \in openFds' \ others' /\ fd'[c] \in 0 .. MaxFds
               /\ fdarray'[fd'[c]] = c
    <3>1. CASE c = NewConn
      BY <3>1, <2>1 DEF Accept, IInv, TypeOK, OthersOpen, Fds
    <3>2. CASE c \in Active /\ c # NewConn
      <4>1. /\ fd'[c] = fd[c] /\ fd[c] \in openFds \ others
            /\ fd[c] \in 0 .. MaxFds /\ fdarray[fd[c]] = c
        BY <3>2, AcceptActive, ActiveFacts DEF IInv, RoutesToOwner
      <4> QED
        BY <4>1, <2>1 DEF Accept, IInv, TypeOK, Fds
    <3> QED
      BY <3>1, <3>2, <2>2, AcceptActive, <1>0, GrowthFacts
  <2>3. ASSUME NEW g \in 0 .. MaxFds, fdarray'[g] # NULL
        PROVE  \/ g \in Listeners /\ fdarray'[g] = LISTENER
               \/ fdarray'[g] \in Active' /\ fd'[fdarray'[g]] = g
    <3>1. CASE g = f
      <4>1. fdarray'[g] = NewConn
        BY <3>1 DEF Accept, IInv, TypeOK
      <4> QED
        BY <3>1, <4>1, <2>1, AcceptActive
    <3>2. CASE g # f
      <4>1. fdarray'[g] = fdarray[g]
        BY <3>2 DEF Accept, IInv, TypeOK
      <4>2. CASE fdarray[g] \in Active
        <5> DEFINE c == fdarray[g]
        <5>1. c \in Conns /\ c # NewConn
          BY <4>2, ActiveFacts, <1>0, GrowthFacts
        <5>2. c # LISTENER
          BY <5>1 DEF Conns, Slots, LISTENER, IInv, TypeOK
        <5>3. fd[c] = g
          BY <4>1, <2>3, <5>2 DEF IInv, RoutesToOwner
        <5>4. c \in Active' /\ fd'[c] = fd[c]
          BY <4>2, <5>1, AcceptActive
        <5> QED
          BY <4>1, <5>3, <5>4
      <4> QED
        BY <4>1, <4>2, <2>3 DEF IInv, RoutesToOwner
    <3> QED
      BY <3>1, <3>2
  <2> QED
    BY <2>2, <2>3 DEF RoutesToOwner
<1>7. FdAccounting'
  <2>1. IsFiniteSet(openFds \ others)
    BY ClientsFinite DEF IInv, TypeOK
  <2>2. openFds' \ others' = (openFds \ others) \cup {f} /\ f \notin openFds
    BY DEF Accept, InArray, Lowest, IInv, OthersOpen
  <2>3. Cardinality(openFds' \ others') = Cardinality(openFds \ others) + 1
    BY <2>1, <2>2, FS_AddElement
  <2>4. Cardinality(openFds \ others) \in Nat
    BY <2>1, FS_CardinalityType
  <2>5. \E base \in Lowest(OpenAtStart) \cup {-1} : cur_fds' = base + used' + closeErrors'
    <3>1. PICK base \in Lowest(OpenAtStart) \cup {-1} : cur_fds = base + used + closeErrors
      BY DEF IInv, FdAccounting
    <3>2. base \in Int
      BY DEF Lowest, Fds
    <3> QED
      BY <3>1, <3>2 DEF Accept, IInv, TypeOK
  <2>6. ~overrun'
    BY DEF Accept, MayAccept
  <2> QED
    BY <2>3, <2>4, <2>5, <2>6 DEF FdAccounting, Accept, IInv, TypeOK
<1>8. PooledIsIdle'
  <2> SUFFICES ASSUME NEW c \in Conns', c \notin Active'
               PROVE  state'[c] = "connect" /\ fd'[c] \in {-1, 0}
    BY DEF PooledIsIdle
  <2>1. c # NewConn /\ c \notin Active
    BY AcceptActive
  <2>2. CASE c \in Conns
    BY <2>1, <2>2, AcceptActive DEF IInv, PooledIsIdle
  <2>3. CASE c \notin Conns
    BY <2>1, <2>3, <1>0, GrowthFacts, GrownFields DEF Accept, Conns, Slots
  <2> QED
    BY <2>2, <2>3
<1> QED
  BY <1>1, <1>2, <1>3, <1>4, <1>5, <1>6, <1>7, <1>8 DEF IInv

-----------------------------------------------------------------------------
(***************************************************************************)
(* Closing a descriptor.                                                   *)
(***************************************************************************)

\* Whether close() succeeds or not, the count and the descriptors of clients
\* move together: by one less the failure.
LEMMA SysCloseFacts ==
  ASSUME NEW open \in SUBSET Fds, NEW f \in open \ others, NEW count \in Int,
         NEW n \in Int, closeErrors \in 0 .. MaxCloseErrors,
         Cardinality(open \ others) <= n, SysClose(f, open, count)
  PROVE  /\ openFds' \subseteq open /\ open \ {f} \subseteq openFds'
         /\ closeErrors' \in 0 .. MaxCloseErrors
         /\ cur_fds' \in Int
         /\ cur_fds' = count - 1 + (closeErrors' - closeErrors)
         /\ Cardinality(openFds' \ others) <= n - 1 + (closeErrors' - closeErrors)
<1> USE PoolAssumption, FdAssumption
<1>1. IsFiniteSet(open \ others)
  <2>1. IsFiniteSet(0 .. FdLimit - 1)
    BY FS_Interval
  <2> QED
    BY <2>1, FS_Subset DEF Fds
<1>2. PICK S : S = open \ others
  OBVIOUS
<1>3. PICK R : R = S \ {f}
  OBVIOUS
<1>a. /\ Cardinality(R) = Cardinality(S) - 1 /\ Cardinality(S) \in Nat
      /\ Cardinality(S) <= n /\ (open \ {f}) \ others = R
  BY <1>1, <1>2, <1>3, FS_RemoveElement, FS_CardinalityType
<1>4. CASE openFds' = open \ {f} /\ cur_fds' = count - 1 /\ UNCHANGED closeErrors
  <2>1. openFds' \ others = R
    BY <1>a, <1>4
  <2>2. Cardinality(openFds' \ others) = Cardinality(R)
    BY ONLY <2>1, Zenon
  <2>3. n - 1 + (closeErrors' - closeErrors) = n - 1
    BY <1>4
  <2> QED
    BY <1>a, <1>4, <2>2, <2>3
<1>5. CASE /\ closeErrors < MaxCloseErrors /\ openFds' \in {open, open \ {f}}
           /\ cur_fds' = count /\ closeErrors' = closeErrors + 1
  <2>1. openFds' \ others = R \/ openFds' \ others = S
    BY <1>a, <1>2, <1>5
  <2>2. Cardinality(openFds' \ others) \in {Cardinality(R), Cardinality(S)}
    BY ONLY <2>1, Zenon
  <2>3. /\ n - 1 + (closeErrors' - closeErrors) = n
        /\ closeErrors' \in 0 .. MaxCloseErrors
        /\ count - 1 + (closeErrors' - closeErrors) = count
    BY <1>5
  <2> QED
    BY <1>a, <1>5, <2>2, <2>3
<1> QED
  BY <1>4, <1>5 DEF SysClose

\* Accepting a socket that cannot be made non-blocking preserves the invariant.
LEMMA AcceptThenCloseIInv ==
  ASSUME IInv, NEW f \in Fds, AcceptThenClose(f)
  PROVE  IInv' /\ Active' = Active /\ \A c \in Active : fd'[c] = fd[c]
<1> USE PoolAssumption, FdAssumption
<1>0. MayAccept /\ f \notin openFds /\ ~overrun
      /\ UNCHANGED <<used, others, overrun>>
  BY DEF AcceptThenClose, InArray, Lowest, MayAccept
<1>1. /\ openFds' \subseteq openFds \cup {f} /\ openFds \subseteq openFds'
      /\ closeErrors' \in 0 .. MaxCloseErrors
      /\ cur_fds' \in Int
      /\ cur_fds' = cur_fds + (closeErrors' - closeErrors)
      /\ Cardinality(openFds' \ others) <= used + closeErrors'
  <2>1. IsFiniteSet(openFds \ others)
    BY ClientsFinite DEF IInv, TypeOK
  <2>2. /\ (openFds \cup {f}) \ others = (openFds \ others) \cup {f}
        /\ f \notin openFds \ others /\ f \in (openFds \cup {f}) \ others
    BY <1>0 DEF IInv, OthersOpen
  <2>3. Cardinality((openFds \cup {f}) \ others) = Cardinality(openFds \ others) + 1
    BY <2>1, <2>2, FS_AddElement
  <2>4. Cardinality(openFds \ others) \in Nat
    BY <2>1, FS_CardinalityType
  <2>5. /\ openFds \cup {f} \in SUBSET Fds /\ cur_fds + 1 \in Int
        /\ used + closeErrors + 1 \in Int /\ closeErrors \in 0 .. MaxCloseErrors
        /\ Cardinality((openFds \cup {f}) \ others) <= used + closeErrors + 1
    BY <2>3, <2>4 DEF IInv, TypeOK, FdAccounting
  <2>6. SysClose(f, openFds \cup {f}, cur_fds + 1)
    BY DEF AcceptThenClose
  <2>7. /\ openFds' \subseteq openFds \cup {f}
        /\ (openFds \cup {f}) \ {f} \subseteq openFds'
        /\ closeErrors' \in 0 .. MaxCloseErrors
        /\ cur_fds' \in Int
        /\ cur_fds' = (cur_fds + 1) - 1 + (closeErrors' - closeErrors)
        /\ Cardinality(openFds' \ others)
             <= (used + closeErrors + 1) - 1 + (closeErrors' - closeErrors)
    <3> DEFINE n == used + closeErrors + 1
               open == openFds \cup {f}
    <3>1. /\ open \in SUBSET Fds /\ f \in open \ others /\ n \in Int
          /\ Cardinality(open \ others) <= n /\ SysClose(f, open, cur_fds + 1)
      BY <2>2, <2>5, <2>6
    <3> HIDE DEF n, open
    <3>2. /\ openFds' \subseteq open /\ open \ {f} \subseteq openFds'
          /\ closeErrors' \in 0 .. MaxCloseErrors
          /\ cur_fds' \in Int
          /\ cur_fds' = (cur_fds + 1) - 1 + (closeErrors' - closeErrors)
          /\ Cardinality(openFds' \ others) <= n - 1 + (closeErrors' - closeErrors)
      BY <2>5, <3>1, SysCloseFacts
    <3> QED
      BY <3>2 DEF n, open
  <2>8. (openFds \cup {f}) \ {f} = openFds
    BY <1>0
  <2>9. /\ (cur_fds + 1) - 1 + (closeErrors' - closeErrors) = cur_fds + (closeErrors' - closeErrors)
        /\ (used + closeErrors + 1) - 1 + (closeErrors' - closeErrors) = used + closeErrors'
    BY <2>7 DEF IInv, TypeOK
  <2> QED
    BY <2>7, <2>8, <2>9
<1>2. /\ \A i \in 0 .. used - 1 : ptr'[i] = ptr[i]
      /\ used' = used
      /\ Active' = Active
  <2>1. \A i \in 0 .. used - 1 : ptr'[i] = ptr[i]
    BY <1>0, GrowthFacts DEF AcceptThenClose, IInv, TypeOK
  <2>2. used' = used
    BY DEF AcceptThenClose
  <2>3. Active' = {ptr'[i] : i \in 0 .. used - 1}
    BY <2>2 DEF Active
  <2> QED
    BY <2>1, <2>2, <2>3 DEF Active
<1>3. \A c \in Conns : c # NewConn =>
        ndx'[c] = ndx[c] /\ fd'[c] = fd[c] /\ state'[c] = state[c]
  BY <1>0, GrownFields DEF AcceptThenClose
<1>4. \A c \in Active : c \in Conns /\ c # NewConn
  BY <1>0, GrowthFacts, ActiveFacts
<1>5. Conns' = 0 .. NewSize - 1 /\ Slots' = 0 .. NewSize - 1 /\ Conns \subseteq Conns'
  BY <1>0, GrownFields DEF AcceptThenClose, Conns, Slots
<1>6. TypeOK'
  <2>1. ptr' \in [Slots' -> Conns']
    BY <1>0, <1>5, GrowthFacts DEF AcceptThenClose
  <2>a. -1 \in Int
    OBVIOUS
  <2>2. ndx' \in [Conns' -> Int]
    <3>1. ndx' = [Grown(ndx, 0) EXCEPT ![NewConn] = -1]
      BY DEF AcceptThenClose
    <3>2. Grown(ndx, 0) \in [Conns' -> Int]
      BY <1>0, <1>5, GrownFields
    <3> QED
      BY <3>1, <3>2, <2>a
  <2>3. fd' \in [Conns' -> Int]
    <3>1. fd' = [Grown(fd, 0) EXCEPT ![NewConn] = -1]
      BY DEF AcceptThenClose
    <3>2. Grown(fd, 0) \in [Conns' -> Int]
      BY <1>0, <1>5, GrownFields
    <3> QED
      BY <3>1, <3>2, <2>a
  <2>4. state' \in [Conns' -> States]
    BY <1>0, <1>5, GrownFields DEF AcceptThenClose, States
  <2>5. fdarray' \in [0 .. MaxFds -> Conns' \cup {NULL, LISTENER}]
    BY <1>5 DEF AcceptThenClose, Unregister, IInv, TypeOK
  <2>6. size' \in Nat /\ used' \in 0 .. size'
    BY <1>0, <1>2, GrowthFacts DEF AcceptThenClose, IInv, TypeOK
  <2>7. openFds' \subseteq Fds /\ others' \subseteq Fds /\ overrun' \in BOOLEAN
    BY <1>0, <1>1 DEF IInv, TypeOK
  <2> QED
    BY <1>1, <2>1, <2>2, <2>3, <2>4, <2>5, <2>6, <2>7 DEF TypeOK
<1>7. PoolBound' /\ OthersOpen'
  BY <1>0, <1>1, <1>2, GrowthFacts
     DEF AcceptThenClose, PoolBound, OthersOpen, IInv
<1>8. NdxConsistent'
  <2> SUFFICES ASSUME NEW i \in 0 .. used - 1 PROVE ndx'[ptr[i]] = i
    BY <1>2 DEF NdxConsistent
  <2>1. ptr[i] \in Active
    BY DEF Active
  <2> QED
    BY <2>1, <1>3, <1>4 DEF IInv, NdxConsistent
<1>9. PoolKeepsObjects'
  BY <1>0, <1>5, GrowthFacts DEF PoolKeepsObjects, AcceptThenClose
<1>10. RoutesToOwner'
  <2>2. ASSUME NEW c \in Active
        PROVE  /\ fd'[c] \in openFds' \ others' /\ fd'[c] \in 0 .. MaxFds
               /\ fdarray'[fd'[c]] = c
    <3>1. /\ fd'[c] = fd[c] /\ fd[c] \in openFds /\ fd[c] \notin others
          /\ fd[c] \in 0 .. MaxFds
      BY <2>2, <1>3, <1>4 DEF IInv, RoutesToOwner
    <3>2. fdarray[fd[c]] = c /\ fd[c] # f
      BY <3>1, <2>2, <1>0 DEF IInv, RoutesToOwner
    <3>3. fd[c] \in openFds'
      BY <3>1, <1>1
    <3>4. fdarray'[fd[c]] = fdarray[fd[c]]
      BY <3>1, <3>2 DEF AcceptThenClose, Unregister, IInv, TypeOK
    <3> QED
      BY <3>1, <3>2, <3>3, <3>4, <1>0
  <2>3. ASSUME NEW g \in 0 .. MaxFds, fdarray'[g] # NULL
        PROVE  \/ g \in Listeners /\ fdarray'[g] = LISTENER
               \/ fdarray'[g] \in Active /\ fd'[fdarray'[g]] = g
    <3>1. fdarray'[g] = fdarray[g]
      BY <2>3 DEF AcceptThenClose, Unregister, IInv, TypeOK
    <3> QED
      BY <3>1, <2>3, <1>3, <1>4 DEF IInv, RoutesToOwner
  <2> QED
    BY <1>2, <2>2, <2>3 DEF RoutesToOwner
<1>11. FdAccounting'
  <2>1. \E base \in Lowest(OpenAtStart) \cup {-1} : cur_fds' = base + used' + closeErrors'
    <3>1. PICK base \in Lowest(OpenAtStart) \cup {-1} : cur_fds = base + used + closeErrors
      BY DEF IInv, FdAccounting
    <3>2. base \in Int /\ cur_fds \in Int /\ used \in Int /\ closeErrors \in Int /\ closeErrors' \in Int
      BY <1>0, <1>1 DEF Lowest, Fds, IInv, TypeOK
    <3>3. cur_fds' = base + used' + closeErrors'
      BY <1>0, <1>1, <3>1, <3>2
    <3> QED
      BY <3>3
  <2> QED
    BY <1>0, <1>1, <2>1 DEF FdAccounting, IInv
<1>12. PooledIsIdle'
  <2> SUFFICES ASSUME NEW c \in Conns', c \notin Active
               PROVE  state'[c] = "connect" /\ fd'[c] \in {-1, 0}
    BY <1>2 DEF PooledIsIdle
  <2>1. CASE c = NewConn
    BY <2>1, <1>0, <1>5, GrownFields DEF AcceptThenClose
  <2>2. CASE c # NewConn /\ c \in Conns
    BY <2>2, <1>3 DEF IInv, PooledIsIdle
  <2>3. CASE c # NewConn /\ c \notin Conns
    BY <2>3, <1>0, <1>5, GrownFields DEF AcceptThenClose
  <2> QED
    BY <2>1, <2>2, <2>3
<1> QED
  BY <1>2, <1>3, <1>4, <1>6, <1>7, <1>8, <1>9, <1>10, <1>11, <1>12 DEF IInv

-----------------------------------------------------------------------------
(***************************************************************************)
(* Closing a connection.                                                   *)
(***************************************************************************)

\* The connection leaves the service and no other one does.
LEMMA CloseActive ==
  ASSUME IInv, NEW c \in Active, CloseConnection(c)
  PROVE  /\ ptr' = [i \in Slots |-> IF i = ndx[c] THEN ptr[used - 1]
                                    ELSE IF i = used - 1 THEN c ELSE ptr[i]]
         /\ Active' = Active \ {c}
         /\ Conns' = Conns /\ Slots' = Slots
<1> USE DEF CloseConnection, Del
<1>0. /\ c \in Conns /\ ndx[c] \in 0 .. used - 1 /\ ptr[ndx[c]] = c
      /\ used \in Nat /\ used >= 1 /\ used - 1 \in Slots /\ ndx[c] \in Slots
      /\ used' = used - 1
  BY ActiveFacts DEF IInv, TypeOK, Slots
<1>1. ptr' = [i \in Slots |-> IF i = ndx[c] THEN ptr[used - 1]
                              ELSE IF i = used - 1 THEN c ELSE ptr[i]]
  BY <1>0 DEF Swapped, IInv, TypeOK
<1>2. Active' = {ptr'[i] : i \in 0 .. used - 2}
  BY <1>0 DEF Active
<1>3. \A i \in 0 .. used - 2 : ptr'[i] \in Active /\ ptr'[i] # c
  <2> SUFFICES ASSUME NEW i \in 0 .. used - 2 PROVE ptr'[i] \in Active /\ ptr'[i] # c
    OBVIOUS
  <2>1. i \in Slots /\ i # used - 1 /\ i \in 0 .. used - 1 /\ used - 1 \in 0 .. used - 1
    BY <1>0 DEF IInv, TypeOK, Slots
  <2>2. CASE i = ndx[c]
    BY <2>1, <2>2, <1>0, <1>1 DEF Active, IInv, PoolKeepsObjects
  <2>3. CASE i # ndx[c]
    BY <2>1, <2>3, <1>0, <1>1 DEF Active, IInv, PoolKeepsObjects
  <2> QED
    BY <2>2, <2>3
<1>4. ASSUME NEW d \in Active, d # c
      PROVE  \E i \in 0 .. used - 2 : ptr'[i] = d
  <2>1. d \in Conns /\ ndx[d] \in 0 .. used - 1 /\ ptr[ndx[d]] = d /\ ndx[d] \in Slots
    BY ActiveFacts, <1>0 DEF IInv, TypeOK, Slots
  <2>2. CASE ndx[d] = used - 1
    <3>1. ndx[c] \in 0 .. used - 2
      BY <2>1, <2>2, <1>0, <1>4
    <3> QED
      BY <3>1, <2>1, <2>2, <1>0, <1>1
  <2>3. CASE ndx[d] # used - 1
    <3>1. ndx[d] \in 0 .. used - 2 /\ ndx[d] # ndx[c]
      BY <2>1, <2>3, <1>0, <1>4
    <3> QED
      BY <3>1, <2>1, <2>3, <1>0, <1>1
  <2> QED
    BY <2>2, <2>3
<1>5. Active' = Active \ {c}
  BY <1>2, <1>3, <1>4
<1>6. Conns' = Conns /\ Slots' = Slots
  BY DEF Conns, Slots
<1> QED
  BY <1>1, <1>5, <1>6

\* CloseConnection preserves the invariant.
LEMMA CloseIInv ==
  ASSUME IInv, NEW c \in Active, CloseConnection(c)
  PROVE  IInv'
<1> USE PoolAssumption, FdAssumption
<1>0. /\ c \in Conns /\ ndx[c] \in 0 .. used - 1 /\ ptr[ndx[c]] = c
      /\ used \in Nat /\ used >= 1 /\ used <= size /\ size \in Nat
      /\ used - 1 \in 0 .. size - 1
      /\ used' = used - 1 /\ size' = size
  BY ActiveFacts DEF IInv, TypeOK, CloseConnection, Del
<1>1. /\ ptr' = [i \in Slots |-> IF i = ndx[c] THEN ptr[used - 1]
                                 ELSE IF i = used - 1 THEN c ELSE ptr[i]]
      /\ Active' = Active \ {c}
      /\ Conns' = Conns /\ Slots' = Slots
  BY CloseActive
<1>2. /\ ndx' = DelNdx(c)
      /\ fd' = [fd EXCEPT ![c] = -1]
      /\ state' = [state EXCEPT ![c] = "connect"]
      /\ fdarray' = [fdarray EXCEPT ![fd[c]] = NULL]
  BY DEF CloseConnection, Del, Detach, Unregister
<1>3. /\ fd[c] \in openFds /\ fd[c] \notin others
      /\ fd[c] \in 0 .. MaxFds /\ fdarray[fd[c]] = c
      /\ ~overrun /\ UNCHANGED <<others, overrun>>
  BY DEF IInv, RoutesToOwner, CloseConnection
<1>4. /\ openFds' \subseteq openFds /\ openFds \ {fd[c]} \subseteq openFds'
      /\ closeErrors' \in 0 .. MaxCloseErrors
      /\ cur_fds' \in Int
      /\ cur_fds' = cur_fds - 1 + (closeErrors' - closeErrors)
      /\ Cardinality(openFds' \ others) <= used' + closeErrors'
  <2>1. SysClose(fd[c], openFds, cur_fds)
    BY DEF CloseConnection
  <2>2. /\ openFds \in SUBSET Fds /\ fd[c] \in openFds \ others /\ cur_fds \in Int
        /\ used + closeErrors \in Int /\ closeErrors \in 0 .. MaxCloseErrors
        /\ Cardinality(openFds \ others) <= used + closeErrors
    BY <1>3 DEF IInv, TypeOK, FdAccounting
  <2>3. /\ openFds' \subseteq openFds /\ openFds \ {fd[c]} \subseteq openFds'
        /\ closeErrors' \in 0 .. MaxCloseErrors
        /\ cur_fds' \in Int
        /\ cur_fds' = cur_fds - 1 + (closeErrors' - closeErrors)
        /\ Cardinality(openFds' \ others)
             <= (used + closeErrors) - 1 + (closeErrors' - closeErrors)
    BY <2>1, <2>2, SysCloseFacts
  <2>4. (used + closeErrors) - 1 + (closeErrors' - closeErrors) = used' + closeErrors'
    BY <1>0, <2>2, <2>3
  <2> QED
    BY <2>3, <2>4
<1>5. TypeOK'
  <2>1. ptr' \in [Slots' -> Conns']
    BY <1>0, <1>1 DEF IInv, TypeOK, Slots
  <2>2. ndx' \in [Conns' -> Int]
    BY <1>0, <1>1, <1>2 DEF DelNdx, IInv, TypeOK
  <2>3. fd' \in [Conns' -> Int] /\ state' \in [Conns' -> States]
    <3>1. -1 \in Int /\ "connect" \in States
      BY DEF States
    <3> QED
      BY <3>1, <1>1, <1>2 DEF IInv, TypeOK
  <2>4. fdarray' \in [0 .. MaxFds -> Conns' \cup {NULL, LISTENER}]
    BY <1>1, <1>2 DEF IInv, TypeOK
  <2>5. /\ size' \in Nat /\ used' \in 0 .. size' /\ openFds' \subseteq Fds
        /\ others' \subseteq Fds /\ overrun' \in BOOLEAN
    BY <1>0, <1>3, <1>4 DEF IInv, TypeOK
  <2> QED
    BY <1>4, <2>1, <2>2, <2>3, <2>4, <2>5 DEF TypeOK
<1>6. PoolBound' /\ OthersOpen'
  BY <1>0, <1>3, <1>4 DEF PoolBound, OthersOpen, IInv
<1>7. NdxConsistent'
  <2> SUFFICES ASSUME NEW i \in 0 .. used - 2 PROVE ndx'[ptr'[i]] = i
    BY <1>0 DEF NdxConsistent
  <2>1. i \in Slots /\ i # used - 1 /\ i \in 0 .. used - 1 /\ used - 1 \in 0 .. used - 1
        /\ used - 1 \in Slots
    BY <1>0 DEF Slots
  <2>2. ptr[used - 1] \in Conns /\ ptr[i] \in Conns /\ ndx[ptr[i]] = i /\ ndx[ptr[used - 1]] = used - 1
    BY <2>1 DEF IInv, TypeOK, NdxConsistent
  <2>3. CASE i = ndx[c]
    <3>1. ptr'[i] = ptr[used - 1] /\ ptr[used - 1] # c
      BY <2>1, <2>2, <2>3, <1>1
    <3> QED
      BY <3>1, <2>2, <2>3, <1>2 DEF DelNdx
  <2>4. CASE i # ndx[c]
    <3>1. ptr'[i] = ptr[i] /\ ptr[i] # c /\ ptr[i] # ptr[used - 1]
      BY <2>1, <2>2, <2>4, <1>0, <1>1
    <3> QED
      BY <3>1, <2>2, <1>2 DEF DelNdx
  <2> QED
    BY <2>3, <2>4
<1>8. PoolKeepsObjects'
  <2> SUFFICES ASSUME NEW i \in Slots, NEW j \in Slots, ptr'[i] = ptr'[j] PROVE i = j
    BY <1>1 DEF PoolKeepsObjects
  <2> QED
    BY <1>0, <1>1 DEF IInv, PoolKeepsObjects, Slots
<1>9. RoutesToOwner'
  <2>1. ASSUME NEW d \in Active, d # c
        PROVE  /\ fd'[d] \in openFds' \ others' /\ fd'[d] \in 0 .. MaxFds
               /\ fdarray'[fd'[d]] = d
    <3>1. d \in Conns /\ fd'[d] = fd[d]
      BY <2>1, <1>2, ActiveFacts DEF IInv, TypeOK
    <3>2. /\ fd[d] \in openFds \ others /\ fdarray[fd[d]] = d /\ fd[d] # fd[c]
          /\ fd[d] \in 0 .. MaxFds
      BY <2>1, <1>3 DEF IInv, RoutesToOwner
    <3> QED
      BY <3>1, <3>2, <1>2, <1>3, <1>4 DEF IInv, TypeOK
  <2>2. ASSUME NEW g \in 0 .. MaxFds, fdarray'[g] # NULL
        PROVE  \/ g \in Listeners /\ fdarray'[g] = LISTENER
               \/ fdarray'[g] \in Active \ {c} /\ fd'[fdarray'[g]] = g
    <3>1. g # fd[c] /\ fdarray'[g] = fdarray[g]
      BY <2>2, <1>2 DEF IInv, TypeOK
    <3>2. CASE fdarray[g] \in Active /\ fd[fdarray[g]] = g
      <4>1. fdarray[g] # c /\ fdarray[g] \in Conns
        BY <3>1, <3>2, ActiveFacts
      <4> QED
        BY <3>1, <3>2, <4>1, <1>2 DEF IInv, TypeOK
    <3> QED
      BY <3>1, <3>2, <2>2 DEF IInv, RoutesToOwner
  <2> QED
    BY <1>1, <2>1, <2>2 DEF RoutesToOwner
<1>10. FdAccounting'
  <2>1. \E base \in Lowest(OpenAtStart) \cup {-1} : cur_fds' = base + used' + closeErrors'
    <3>1. PICK base \in Lowest(OpenAtStart) \cup {-1} : cur_fds = base + used + closeErrors
      BY DEF IInv, FdAccounting
    <3>2. base \in Int /\ cur_fds \in Int /\ used \in Int /\ closeErrors \in Int /\ closeErrors' \in Int
      BY <1>0, <1>4 DEF Lowest, Fds, IInv, TypeOK
    <3>3. cur_fds' = base + used' + closeErrors'
      BY <1>0, <1>4, <3>1, <3>2
    <3> QED
      BY <3>3
  <2> QED
    BY <1>3, <1>4, <2>1 DEF FdAccounting, IInv
<1>11. PooledIsIdle'
  BY <1>0, <1>1, <1>2 DEF PooledIsIdle, IInv, TypeOK
<1> QED
  BY <1>5, <1>6, <1>7, <1>8, <1>9, <1>10, <1>11 DEF IInv

-----------------------------------------------------------------------------
(***************************************************************************)
(* The steps that leave the pool alone.                                    *)
(***************************************************************************)

\* Registering a descriptor beyond fdarray ends what the model says, with
\* every descriptor fdarray has an entry for open.
LEMMA OverrunIInv ==
  ASSUME IInv, NEW f \in Fds, Overrun(f)
  PROVE  IInv'
<1> USE FdAssumption
<1>1. 0 .. MaxFds \subseteq openFds
  <2> SUFFICES ASSUME NEW g \in 0 .. MaxFds, g \notin openFds PROVE FALSE
    OBVIOUS
  <2>1. f \in 0 .. FdLimit - 1 /\ f > MaxFds
    BY DEF Overrun, Fds
  <2>2. g \in Fds \ openFds /\ ~(f <= g)
    BY <2>1 DEF Fds
  <2> QED
    BY <2>2 DEF Overrun, Lowest
<1>2. FdAccounting'
  BY <1>1 DEF Overrun, FdAccounting, IInv
<1>3. TypeOK'
  BY DEF Overrun, TypeOK, IInv, Slots, Conns
<1> QED
  BY <1>2, <1>3
     DEF Overrun, IInv, PoolBound, OthersOpen, NdxConsistent, PoolKeepsObjects,
         RoutesToOwner, PooledIsIdle, Active, Slots, Conns

\* What other parts open and close is never a descriptor of a connection.
LEMMA OtherIInv ==
  ASSUME IInv, NEW opened \in SUBSET (Fds \ openFds), NEW closed \in SUBSET (others \ Listeners),
         Other(opened, closed)
  PROVE  IInv' /\ TableOf' = TableOf
<1>1. openFds' \ others' = openFds \ others /\ OthersOpen'
  BY FdAssumption DEF Other, IInv, OthersOpen, TypeOK
<1>2. TypeOK'
  BY DEF Other, TypeOK, IInv, Slots, Conns
<1>3. RoutesToOwner'
  BY <1>1 DEF Other, RoutesToOwner, IInv, Active
<1>4. FdAccounting'
  BY <1>1 DEF Other, FdAccounting, IInv
<1> QED
  BY <1>1, <1>2, <1>3, <1>4
     DEF Other, IInv, PoolBound, NdxConsistent, PoolKeepsObjects, PooledIsIdle,
         Active, Slots, Conns, TableOf

-----------------------------------------------------------------------------
(***************************************************************************)
(* The theorems about Spec.                                                *)
(***************************************************************************)

\* A step that changes nothing changes no property of the state.
LEMMA StutterIInv ==
  ASSUME IInv, UNCHANGED vars
  PROVE  IInv'
BY DEF vars, IInv, TypeOK, PoolBound, OthersOpen, NdxConsistent,
       PoolKeepsObjects, RoutesToOwner, FdAccounting, PooledIsIdle,
       Active, Slots, Conns

\* IInv holds in every state of every pool, whatever its size and limits.
THEOREM Invariance == Spec => []IInv
<1>1. Init => IInv
  BY InitIInv
<1>2. IInv /\ [Next]_vars => IInv'
  <2> SUFFICES ASSUME IInv, [Next]_vars PROVE IInv'
    OBVIOUS
  <2>1. CASE \E f \in Fds : Accept(f)
    BY <2>1, AcceptIInv
  <2>2. CASE \E f \in Fds : AcceptThenClose(f)
    BY <2>2, AcceptThenCloseIInv
  <2>3. CASE \E c \in Conns : CloseConnection(c)
    <3>1. PICK c \in Conns : CloseConnection(c)
      BY <2>3
    <3>2. c \in Active
      BY <3>1 DEF CloseConnection
    <3> QED
      BY <3>1, <3>2, CloseIInv
  <2>5. CASE \E f \in Fds : Overrun(f)
    BY <2>5, OverrunIInv
  <2>6. CASE \E f \in Fds : OtherOpen(f)
    BY <2>6, OtherIInv DEF OtherOpen, Lowest
  <2>7. CASE \E f \in Fds : OtherClose(f)
    BY <2>7, OtherIInv DEF OtherClose
  <2>4. CASE UNCHANGED vars
    BY <2>4, StutterIInv
  <2> QED
    BY <2>1, <2>2, <2>3, <2>4, <2>5, <2>6, <2>7 DEF Next
<1> QED
  BY <1>1, <1>2, PTL DEF Spec

\* Type correctness.
THEOREM TypeCorrect == Spec => []TypeOK
<1>1. IInv => TypeOK
  BY DEF IInv
<1> QED
  BY <1>1, Invariance, PTL

\* con->ndx is the slot of every connection in service, and an object in the
\* pool is idle.
THEOREM PoolCorrect == Spec => [](NdxConsistent /\ PooledIsIdle)
<1>1. IInv => NdxConsistent /\ PooledIsIdle
  BY DEF IInv
<1> QED
  BY <1>1, Invariance, PTL

\* The pool neither loses nor duplicates a connection object, however
\* connection_del and growing mix.
THEOREM ObjectsCorrect == Spec => []PoolKeepsObjects
<1>1. IInv => PoolKeepsObjects
  BY DEF IInv
<1> QED
  BY <1>1, Invariance, PTL

\* fdarray and the connections in service are inverse to each other, whatever
\* was open at the start and whatever other parts open and close meanwhile.
THEOREM RoutesCorrect == Spec => []RoutesToOwner
<1>1. IInv => RoutesToOwner
  BY DEF IInv
<1> QED
  BY <1>1, Invariance, PTL

\* srv->cur_fds moves with the connections from whatever main() took it to be,
\* no descriptor of a client outlives its connection unless its close() failed,
\* and fdarray is overrun only by a listener or when it is full.
THEOREM AccountingCorrect == Spec => []FdAccounting
<1>1. IInv => FdAccounting
  BY DEF IInv
<1> QED
  BY <1>1, Invariance, PTL

-----------------------------------------------------------------------------
(***************************************************************************)
(* Connections implements ConnTable.                                       *)
(***************************************************************************)
\* Accepting adds one row.
LEMMA AcceptOpens ==
  ASSUME IInv, NEW f \in Fds, Accept(f)
  PROVE  Table!TableNext
<1>0. MayAccept
  BY DEF Accept
<1>1. /\ NewConn \in 0 .. MaxConns + Growth - 1
      /\ NewConn \notin Active
      /\ Active' = Active \cup {NewConn}
      /\ fd'[NewConn] = f
      /\ \A c \in Active : c # NewConn /\ fd'[c] = fd[c]
  <2>1. NewConn \in 0 .. MaxConns + Growth - 1
    BY <1>0, GrowthFacts, PoolAssumption
  <2>2. fd'[NewConn] = f
    BY <1>0, GrowthFacts, GrownFields DEF Accept
  <2> QED
    BY <2>1, <2>2, <1>0, GrowthFacts, AcceptActive, ActiveFacts
<1>2. \A c \in Active : fd[c] # f
  BY DEF Accept, InArray, Lowest, IInv, RoutesToOwner
<1>3. Table!Open(NewConn, f)
  <2>1. DOMAIN TableOf = Active /\ \A c \in Active : TableOf[c] = fd[c]
    BY DEF TableOf
  <2>2. [c \in Active |-> fd[c]]'
          = [d \in Active \cup {NewConn} |-> IF d = NewConn THEN f ELSE TableOf[d]]
    BY <1>1, <2>1
  <2> QED
    BY <1>1, <1>2, <2>1, <2>2 DEF Table!Open, TableOf
<1> QED
  BY <1>1, <1>3 DEF Table!TableNext

\* Closing removes one row.
LEMMA CloseCloses ==
  ASSUME IInv, NEW c \in Active, CloseConnection(c)
  PROVE  Table!TableNext
<1>1. /\ c \in 0 .. MaxConns + Growth - 1
      /\ Active' = Active \ {c}
      /\ \A d \in Active \ {c} : fd'[d] = fd[d]
  <2>1. c \in 0 .. MaxConns + Growth - 1
    BY ActiveFacts, PoolAssumption DEF IInv, TypeOK, PoolBound, Conns, Slots
  <2>2. \A d \in Active \ {c} : fd'[d] = fd[d]
    BY ActiveFacts DEF CloseConnection, Detach, IInv, TypeOK
  <2> QED
    BY <2>1, <2>2, CloseActive
<1>2. Table!Close(c)
  BY <1>1 DEF Table!Close
<1> QED
  BY <1>1, <1>2 DEF Table!TableNext

\* Every behaviour of the pool is a behaviour of the table of connections:
\* accepting and closing never disturb a third connection.
THEOREM Implementation == Spec => ImplementsTable
<1>1. Init => Table!TableInit
  <2> SUFFICES ASSUME Init PROVE Table!TableInit
    OBVIOUS
  <2>1. Active = {}
    BY DEF Init, Active
  <2> QED
    BY <2>1 DEF Table!TableInit
<1>2. IInv /\ [Next]_vars => [Table!TableNext]_TableOf
  <2> SUFFICES ASSUME IInv, [Next]_vars PROVE Table!TableNext \/ UNCHANGED TableOf
    OBVIOUS
  <2>1. CASE \E f \in Fds : Accept(f)
    BY <2>1, AcceptOpens
  <2>2. CASE \E f \in Fds : AcceptThenClose(f)
    BY <2>2, AcceptThenCloseIInv DEF TableOf
  <2>3. CASE \E c \in Conns : CloseConnection(c)
    <3>1. PICK c \in Conns : CloseConnection(c)
      BY <2>3
    <3>2. c \in Active
      BY <3>1 DEF CloseConnection
    <3> QED
      BY <3>1, <3>2, CloseCloses
  <2>5. CASE \E f \in Fds : Overrun(f)
    BY <2>5 DEF Overrun, TableOf, Active
  <2>6. CASE \E f \in Fds : OtherOpen(f)
    BY <2>6, OtherIInv DEF OtherOpen, Lowest
  <2>7. CASE \E f \in Fds : OtherClose(f)
    BY <2>7, OtherIInv DEF OtherClose
  <2>4. CASE UNCHANGED vars
    BY <2>4 DEF vars, TableOf, Active
  <2> QED
    BY <2>1, <2>2, <2>3, <2>4, <2>5, <2>6, <2>7 DEF Next
<1> QED
  BY <1>1, <1>2, Invariance, PTL
     DEF Spec, ImplementsTable, Table!TableSpec, TableOf
=============================================================================
