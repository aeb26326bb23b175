----------------------------- MODULE WorkersProofs -----------------------------
(***************************************************************************)
(* Proofs about Workers: whatever the mixture of signals, deaths and forks *)
(* and however many workers there are, children are counted, a SIGHUP is   *)
(* forwarded once, and the pid file stays.                                 *)
(***************************************************************************)
EXTENDS Workers, FiniteSetTheorems, TLAPS

Children == {c \in Child : pc[c] # "none"}

\* The master is about to fork only when it has a worker to fork.
ForkHasWork == pc[Master] = "fork" => num_child > 0

\* A worker in its main loop has forgotten the name of the pid file.
LoopForgot == \A c \in Child : pc[c] = "loop" => ~pid_file[c]

\* forwarded_sig_hup is set in the master only around its kill(), and once that
\* has sent the signal, the signal that takes the flag back is on its way.
FlagOnlyAround ==
  forwarded_sig_hup[Master] =>
    \/ pc[Master] = "forward"
    \/ pc[Master] = "forwarded" /\ "HUP" \in pending[Master]

\* No worker that runs has the flag.
WorkersUnflagged == \A c \in Child : Running(c) => ~forwarded_sig_hup[c]

Bit(b) == IF b THEN 1 ELSE 0

(***************************************************************************)
(* The SIGHUPs from outside pay for those the master has forwarded and may *)
(* still forward: the one it is about to send, the one it has seen, and    *)
(* the one that is pending.  The one it is about to send comes back to it, *)
(* and forwarded_sig_hup takes one of those to come away.                  *)
(***************************************************************************)
ForwardsPaid ==
  forwards + 2 * Bit(pc[Master] = "forward") + Bit(handle_sig_hup[Master])
    + Bit("HUP" \in pending[Master]) <= hups + Bit(forwarded_sig_hup[Master])

\* Every process is somewhere.
Places == {"check", "fork", "wait", "blocked", "eintr", "forward", "forwarded",
           "stop", "cleanup", "gone", "none", "boot", "loop", "zombie"}

PcTyped == pc \in [Procs -> Places]

IInv ==
  /\ PcTyped
  /\ TypeOK
  /\ ChildrenCounted
  /\ ForkHasWork
  /\ PidFileKept
  /\ LoopForgot
  /\ FlagOnlyAround
  /\ WorkersUnflagged
  /\ ForwardsPaid

-----------------------------------------------------------------------------
(***************************************************************************)
(* Facts about the state that the lemmas on the actions need.              *)
(***************************************************************************)

\* The types of TypeOK one by one.
LEMMA Types ==
  ASSUME IInv
  PROVE  /\ pc \in [Procs -> Places]
         /\ num_child \in 0 .. MaxWorker
         /\ srv_shutdown \in [Procs -> BOOLEAN]
         /\ graceful_shutdown \in [Procs -> BOOLEAN]
         /\ handle_sig_hup \in [Procs -> BOOLEAN]
         /\ forwarded_sig_hup \in [Procs -> BOOLEAN]
         /\ pid_file \in [Procs -> BOOLEAN]
         /\ pending \in [Procs -> SUBSET Signals]
         /\ lost \in Nat /\ hups \in Nat /\ forwards \in Nat
         /\ signals \in Nat /\ deaths \in Nat
BY DEF IInv, TypeOK, PcTyped

\* The master is no worker.
LEMMA MasterApart == Master \in Procs /\ Master \notin Child /\ Child \subseteq Procs
BY WorkerAssumption DEF Master, Procs

\* The number of workers is a number.
LEMMA MaxWorkerNat == MaxWorker \in Nat \ {0}
BY WorkerAssumption, FS_CardinalityType

\* There are finitely many children, also when one comes or goes.
LEMMA ChildrenFinite ==
  /\ IsFiniteSet(Children)
  /\ Cardinality(Children) \in Nat
<1>1. IsFiniteSet(Child) /\ Children \subseteq Child
  BY WorkerAssumption DEF Children
<1> QED
  BY <1>1, FS_Subset, FS_CardinalityType

-----------------------------------------------------------------------------
(***************************************************************************)
(* The master's steps keep the invariant.                                  *)
(***************************************************************************)

\* The condition of the loop.
LEMMA CheckIInv ==
  ASSUME IInv, Check
  PROVE  IInv'
<1> USE Types, MasterApart DEF Check, At, Goto, LoopEnds, MoreToFork, history, flags
<1>1. PcTyped' /\ TypeOK'
  BY DEF IInv, TypeOK, PcTyped, Places, Master, Signals
<1>2. ChildrenCounted'
  <2>1. Children' = Children
    BY DEF Children, Places, Master
  <2> QED
    BY <2>1 DEF IInv, ChildrenCounted, Children, Running, Master
<1>3. ForkHasWork' /\ PidFileKept' /\ LoopForgot'
  BY DEF IInv, ForkHasWork, PidFileKept, LoopForgot, Running, Master
<1>4. FlagOnlyAround' /\ WorkersUnflagged'
  BY DEF IInv, FlagOnlyAround, WorkersUnflagged, Running, Master
<1>5. ForwardsPaid'
  BY DEF IInv, ForwardsPaid, FlagOnlyAround, Bit, Master
<1> QED
  BY <1>1, <1>2, <1>3, <1>4, <1>5 DEF IInv

\* wait() is entered.
LEMMA EnterWaitIInv ==
  ASSUME IInv, EnterWait
  PROVE  IInv'
<1> USE Types, MasterApart DEF EnterWait, At, Goto, history, flags
<1>1. PcTyped' /\ TypeOK'
  BY DEF IInv, TypeOK, PcTyped, Places, Master, Signals
<1>2. ChildrenCounted'
  <2>1. Children' = Children
    BY DEF Children, Places, Master
  <2> QED
    BY <2>1 DEF IInv, ChildrenCounted, Children, Running, Master
<1>3. ForkHasWork' /\ PidFileKept' /\ LoopForgot'
  BY DEF IInv, ForkHasWork, PidFileKept, LoopForgot, Running, Master
<1>4. FlagOnlyAround' /\ WorkersUnflagged'
  BY DEF IInv, FlagOnlyAround, WorkersUnflagged, Running, Master
<1>5. ForwardsPaid'
  BY DEF IInv, ForwardsPaid, FlagOnlyAround, Bit, Master
<1> QED
  BY <1>1, <1>2, <1>3, <1>4, <1>5 DEF IInv

\* wait() finds no worker.
LEMMA NoChildIInv ==
  ASSUME IInv, NoChild
  PROVE  IInv'
<1> USE Types, MasterApart DEF NoChild, At, Goto, history, flags
<1>1. PcTyped' /\ TypeOK'
  BY DEF IInv, TypeOK, PcTyped, Places, Master, Signals
<1>2. ChildrenCounted'
  <2>1. Children' = Children
    BY DEF Children, Places, Master
  <2> QED
    BY <2>1 DEF IInv, ChildrenCounted, Children, Running, Master
<1>3. ForkHasWork' /\ PidFileKept' /\ LoopForgot'
  BY DEF IInv, ForkHasWork, PidFileKept, LoopForgot, Running, Master
<1>4. FlagOnlyAround' /\ WorkersUnflagged'
  BY DEF IInv, FlagOnlyAround, WorkersUnflagged, Running, Master
<1>5. ForwardsPaid'
  BY DEF IInv, ForwardsPaid, FlagOnlyAround, Bit, Master
<1> QED
  BY <1>1, <1>2, <1>3, <1>4, <1>5 DEF IInv

\* The master that cannot fork ends.
LEMMA ForkFailsIInv ==
  ASSUME IInv, ForkFails
  PROVE  IInv'
<1> USE Types, MasterApart DEF ForkFails, At, history, flags
<1>1. PcTyped' /\ TypeOK'
  BY DEF IInv, TypeOK, PcTyped, Places, Master, Signals
<1>2. ChildrenCounted'
  BY DEF ChildrenCounted, Running
<1>3. ForkHasWork' /\ PidFileKept' /\ LoopForgot'
  BY DEF IInv, ForkHasWork, PidFileKept, LoopForgot, Running, Master
<1>4. FlagOnlyAround' /\ WorkersUnflagged'
  BY DEF IInv, FlagOnlyAround, WorkersUnflagged, Running, Master
<1>5. ForwardsPaid'
  BY DEF IInv, ForwardsPaid, FlagOnlyAround, Bit, Master
<1> QED
  BY <1>1, <1>2, <1>3, <1>4, <1>5 DEF IInv

\* A SIGHUP that was seen is about to be sent: what pays for it stays the same.
LEMMA InterruptedIInv ==
  ASSUME IInv, Interrupted
  PROVE  IInv'
<1> USE Types, MasterApart DEF Interrupted, At, Goto, history
<1>1. PcTyped' /\ TypeOK'
  BY DEF IInv, TypeOK, PcTyped, Places, Master, Signals
<1>2. ChildrenCounted'
  <2>1. Children' = Children
    BY DEF Children, Places, Master
  <2> QED
    BY <2>1 DEF IInv, ChildrenCounted, Children, Running, Master
<1>3. ForkHasWork' /\ PidFileKept' /\ LoopForgot'
  BY DEF IInv, ForkHasWork, PidFileKept, LoopForgot, Running, Master
<1>4. FlagOnlyAround' /\ WorkersUnflagged'
  BY DEF IInv, FlagOnlyAround, WorkersUnflagged, Running, Master
<1>5. ForwardsPaid'
  BY DEF IInv, ForwardsPaid, FlagOnlyAround, Bit, Master
<1> QED
  BY <1>1, <1>2, <1>3, <1>4, <1>5 DEF IInv

\* The signal is sent, and comes back to the master.
LEMMA ForwardIInv ==
  ASSUME IInv, Forward
  PROVE  IInv'
<1> USE Types, MasterApart DEF Forward, At, Goto, Send, Running, Workers, flags
<1>1. PcTyped' /\ TypeOK'
  BY DEF IInv, TypeOK, PcTyped, Places, Master, Signals
<1>2. ChildrenCounted'
  <2>1. Children' = Children
    BY DEF Children, Places, Master
  <2> QED
    BY <2>1 DEF IInv, ChildrenCounted, Children, Running, Master
<1>3. ForkHasWork' /\ PidFileKept' /\ LoopForgot'
  BY DEF IInv, ForkHasWork, PidFileKept, LoopForgot, Running, Master
<1>4. FlagOnlyAround' /\ WorkersUnflagged'
  BY DEF IInv, FlagOnlyAround, WorkersUnflagged, Running, Master
<1>5. ForwardsPaid'
  BY DEF IInv, ForwardsPaid, FlagOnlyAround, Bit, Master
<1> QED
  BY <1>1, <1>2, <1>3, <1>4, <1>5 DEF IInv

\* kill() returns when the master has taken its own signal.
LEMMA ForwardReturnsIInv ==
  ASSUME IInv, ForwardReturns
  PROVE  IInv'
<1> USE Types, MasterApart DEF ForwardReturns, At, Goto, history, flags
<1>1. PcTyped' /\ TypeOK'
  BY DEF IInv, TypeOK, PcTyped, Places, Master, Signals
<1>2. ChildrenCounted'
  <2>1. Children' = Children
    BY DEF Children, Places, Master
  <2> QED
    BY <2>1 DEF IInv, ChildrenCounted, Children, Running, Master
<1>3. ForkHasWork' /\ PidFileKept' /\ LoopForgot'
  BY DEF IInv, ForkHasWork, PidFileKept, LoopForgot, Running, Master
<1>4. FlagOnlyAround' /\ WorkersUnflagged'
  BY DEF IInv, FlagOnlyAround, WorkersUnflagged, Running, Master
<1>5. ForwardsPaid'
  BY DEF IInv, ForwardsPaid, FlagOnlyAround, Bit, Master
<1> QED
  BY <1>1, <1>2, <1>3, <1>4, <1>5 DEF IInv

\* No SIGHUP is sent to stop the workers.
LEMMA PassOnStopIInv ==
  ASSUME IInv, PassOnStop
  PROVE  IInv'
<1> USE Types, MasterApart DEF PassOnStop, StopSignal, At, Goto, Send, Running, flags
<1>1. PcTyped' /\ TypeOK'
  BY DEF IInv, TypeOK, PcTyped, Places, Master, Signals
<1>2. ChildrenCounted'
  <2>1. Children' = Children
    BY DEF Children, Places, Master
  <2> QED
    BY <2>1 DEF IInv, ChildrenCounted, Children, Running, Master
<1>3. ForkHasWork' /\ PidFileKept' /\ LoopForgot'
  BY DEF IInv, ForkHasWork, PidFileKept, LoopForgot, Running, Master
<1>4. FlagOnlyAround' /\ WorkersUnflagged'
  BY DEF IInv, FlagOnlyAround, WorkersUnflagged, Running, Master
<1>5. ForwardsPaid'
  BY DEF IInv, ForwardsPaid, FlagOnlyAround, Bit, Master
<1> QED
  BY <1>1, <1>2, <1>3, <1>4, <1>5 DEF IInv

\* The master ends.
LEMMA CleanupIInv ==
  ASSUME IInv, Cleanup
  PROVE  IInv'
<1> USE Types, MasterApart DEF Cleanup, At, history, flags
<1>1. PcTyped' /\ TypeOK'
  BY DEF IInv, TypeOK, PcTyped, Places, Master, Signals
<1>2. ChildrenCounted'
  BY DEF ChildrenCounted, Running
<1>3. ForkHasWork' /\ PidFileKept' /\ LoopForgot'
  BY DEF IInv, ForkHasWork, PidFileKept, LoopForgot, Running, Master
<1>4. FlagOnlyAround' /\ WorkersUnflagged'
  BY DEF IInv, FlagOnlyAround, WorkersUnflagged, Running, Master
<1>5. ForwardsPaid'
  BY DEF IInv, ForwardsPaid, FlagOnlyAround, Bit, Master
<1> QED
  BY <1>1, <1>2, <1>3, <1>4, <1>5 DEF IInv

\* A worker is made: one less to fork, one child more.
LEMMA ForkIInv ==
  ASSUME IInv, NEW c \in Child, Fork(c)
  PROVE  IInv'
<1> USE Types, MasterApart DEF Fork, Forked, Inherit, At
<1>1. PcTyped' /\ TypeOK'
  BY MaxWorkerNat DEF IInv, ForkHasWork, TypeOK, PcTyped, Places, Master, Signals
<1>2. ChildrenCounted'
  <2>1. Children' = Children \cup {c} /\ c \notin Children
    BY DEF Children, Places, Master
  <2>2. Cardinality(Children') = Cardinality(Children) + 1
    BY <2>1, ChildrenFinite, FS_AddElement
  <2> QED
    BY <2>2, ChildrenFinite DEF IInv, ChildrenCounted, ForkHasWork, Children, Running, Master
<1>3. ForkHasWork' /\ PidFileKept' /\ LoopForgot'
  BY DEF IInv, ForkHasWork, PidFileKept, LoopForgot, Running, Master
<1>4. FlagOnlyAround' /\ WorkersUnflagged'
  BY DEF IInv, FlagOnlyAround, WorkersUnflagged, Running, Master
<1>5. ForwardsPaid'
  BY DEF IInv, ForwardsPaid, FlagOnlyAround, Bit, Master
<1> QED
  BY <1>1, <1>2, <1>3, <1>4, <1>5 DEF IInv

\* A worker that ended is counted or lost.
LEMMA ReapIInv ==
  ASSUME IInv, NEW c \in Child, Reap(c)
  PROVE  IInv'
<1> USE Types, MasterApart DEF Reap, Reaped, Zombies, At, flags
<1>0. num_child' \in 0 .. MaxWorker
  <2>1. c \in Children
    BY DEF Children
  <2>2. Cardinality(Children) >= 1
    BY <2>1, ChildrenFinite, FS_EmptySet
  <2> QED
    BY <2>2, ChildrenFinite, WorkerAssumption DEF IInv, ChildrenCounted, Children, Running
<1>1. PcTyped' /\ TypeOK'
  BY <1>0 DEF IInv, TypeOK, PcTyped, Places, Master, Signals
<1>2. ChildrenCounted'
  <2>1. Children' = Children \ {c} /\ c \in Children
    BY DEF Children, Places, Master
  <2>2. Cardinality(Children') = Cardinality(Children) - 1
    BY <2>1, ChildrenFinite, FS_RemoveElement
  <2> QED
    BY <2>2, ChildrenFinite DEF IInv, ChildrenCounted, Children, Running, Master
<1>3. ForkHasWork' /\ PidFileKept' /\ LoopForgot'
  BY DEF IInv, ForkHasWork, PidFileKept, LoopForgot, Running, Master
<1>4. FlagOnlyAround' /\ WorkersUnflagged'
  BY DEF IInv, FlagOnlyAround, WorkersUnflagged, Running, Master
<1>5. ForwardsPaid'
  BY DEF IInv, ForwardsPaid, FlagOnlyAround, Bit, Master
<1> QED
  BY <1>1, <1>2, <1>3, <1>4, <1>5 DEF IInv

-----------------------------------------------------------------------------
(***************************************************************************)
(* Signals, and the steps of the workers.                                  *)
(***************************************************************************)

\* A SIGHUP from outside pays for one that is forwarded.
LEMMA OutsideIInv ==
  ASSUME IInv, NEW s \in Signals, NEW to, to \in {{Master}, Procs}, Outside(s, to)
  PROVE  IInv'
<1> USE Types, MasterApart DEF Outside, Send, Running, Workers, flags
<1>1. PcTyped' /\ TypeOK'
  BY DEF IInv, TypeOK, PcTyped, Places, Master, Signals
<1>2. ChildrenCounted'
  <2>1. Children' = Children
    BY DEF Children, Places, Master
  <2> QED
    BY <2>1 DEF IInv, ChildrenCounted, Children, Running, Master
<1>3. ForkHasWork' /\ PidFileKept' /\ LoopForgot'
  BY DEF IInv, ForkHasWork, PidFileKept, LoopForgot, Running, Master
<1>4. FlagOnlyAround' /\ WorkersUnflagged'
  BY DEF IInv, FlagOnlyAround, WorkersUnflagged, Running, Master
<1>5. ForwardsPaid'
  BY DEF IInv, ForwardsPaid, FlagOnlyAround, Bit, Master
<1> QED
  BY <1>1, <1>2, <1>3, <1>4, <1>5 DEF IInv

\* The handler takes a signal: what it had pending it has seen, or swallows.
LEMMA HandleIInv ==
  ASSUME IInv, NEW p \in Procs, NEW s \in Signals, Handle(p, s)
  PROVE  IInv'
<1> USE Types, MasterApart DEF Handle, OnHup, AfterSignal, Running, history
<1>1. PcTyped' /\ TypeOK'
  <2>1. /\ pc' \in [Procs -> Places]
        /\ \A c \in Child : pc'[c] = pc[c]
        /\ pc'[Master] \in {pc[Master], "eintr"}
    BY DEF Places, Master
  <2>2. /\ srv_shutdown' \in [Procs -> BOOLEAN]
        /\ graceful_shutdown' \in [Procs -> BOOLEAN]
        /\ handle_sig_hup' \in [Procs -> BOOLEAN]
        /\ forwarded_sig_hup' \in [Procs -> BOOLEAN]
    BY Zenon
  <2>3. pending' \in [Procs -> SUBSET Signals]
    OBVIOUS
  <2> QED
    BY <2>1, <2>2, <2>3 DEF IInv, TypeOK, PcTyped
<1>2. ChildrenCounted'
  <2>1. Children' = Children
    BY DEF Children, Places, Master
  <2> QED
    BY <2>1 DEF IInv, ChildrenCounted, Children, Running, Master
<1>3. ForkHasWork' /\ PidFileKept' /\ LoopForgot'
  BY DEF IInv, ForkHasWork, PidFileKept, LoopForgot, Running, Master
<1>4. FlagOnlyAround' /\ WorkersUnflagged'
  BY DEF IInv, FlagOnlyAround, WorkersUnflagged, Running, Master
<1>5. ForwardsPaid'
  BY DEF IInv, ForwardsPaid, FlagOnlyAround, Bit, Master
<1> QED
  BY <1>1, <1>2, <1>3, <1>4, <1>5 DEF IInv

\* A worker forgets the pid file before its main loop begins.
LEMMA BootIInv ==
  ASSUME IInv, NEW c \in Child, Boot(c)
  PROVE  IInv'
<1> USE Types, MasterApart DEF Boot, ForgetPidFile, history, flags
<1>1. PcTyped' /\ TypeOK'
  BY DEF IInv, TypeOK, PcTyped, Places, Master, Signals
<1>2. ChildrenCounted'
  <2>1. Children' = Children
    BY DEF Children, Places, Master
  <2> QED
    BY <2>1 DEF IInv, ChildrenCounted, Children, Running, Master
<1>3. ForkHasWork' /\ PidFileKept' /\ LoopForgot'
  BY DEF IInv, ForkHasWork, PidFileKept, LoopForgot, Running, Master
<1>4. FlagOnlyAround' /\ WorkersUnflagged'
  BY DEF IInv, FlagOnlyAround, WorkersUnflagged, Running, Master
<1>5. ForwardsPaid'
  BY DEF IInv, ForwardsPaid, FlagOnlyAround, Bit, Master
<1> QED
  BY <1>1, <1>2, <1>3, <1>4, <1>5 DEF IInv

\* A worker cycles its log.
LEMMA CycleLogIInv ==
  ASSUME IInv, NEW c \in Child, CycleLog(c)
  PROVE  IInv'
<1> USE Types, MasterApart DEF CycleLog
<1>1. PcTyped' /\ TypeOK'
  BY DEF IInv, TypeOK, PcTyped, Places, Master, Signals
<1>2. ChildrenCounted'
  <2>1. Children' = Children
    BY DEF Children, Places, Master
  <2> QED
    BY <2>1 DEF IInv, ChildrenCounted, Children, Running, Master
<1>3. ForkHasWork' /\ PidFileKept' /\ LoopForgot'
  BY DEF IInv, ForkHasWork, PidFileKept, LoopForgot, Running, Master
<1>4. FlagOnlyAround' /\ WorkersUnflagged'
  BY DEF IInv, FlagOnlyAround, WorkersUnflagged, Running, Master
<1>5. ForwardsPaid'
  BY DEF IInv, ForwardsPaid, FlagOnlyAround, Bit, Master
<1> QED
  BY <1>1, <1>2, <1>3, <1>4, <1>5 DEF IInv

\* A worker ends.  It has no pid file to remove, and stays a child.
LEMMA LeaveLoopIInv ==
  ASSUME IInv, NEW c \in Child, LeaveLoop(c)
  PROVE  IInv'
<1> USE Types, MasterApart DEF LeaveLoop, End, Running, history, flags
<1>1. PcTyped' /\ TypeOK'
  BY DEF IInv, TypeOK, PcTyped, Places, Master, Signals
<1>2. ChildrenCounted'
  <2> SUFFICES ASSUME Running(Master)'
               PROVE  ChildrenCounted'
    BY DEF ChildrenCounted
  <2>1. Children' = Children
    BY DEF Children, Places, Master
  <2> QED
    BY <2>1 DEF IInv, ChildrenCounted, Children, Running, Master
<1>3. ForkHasWork' /\ PidFileKept' /\ LoopForgot'
  BY DEF IInv, ForkHasWork, PidFileKept, LoopForgot, Running, Master
<1>4. FlagOnlyAround' /\ WorkersUnflagged'
  BY DEF IInv, FlagOnlyAround, WorkersUnflagged, Running, Master
<1>5. ForwardsPaid'
  BY DEF IInv, ForwardsPaid, FlagOnlyAround, Bit, Master
<1> QED
  BY <1>1, <1>2, <1>3, <1>4, <1>5 DEF IInv

\* A worker dies, and stays a child.
LEMMA DieIInv ==
  ASSUME IInv, NEW c \in Child, Die(c)
  PROVE  IInv'
<1> USE Types, MasterApart DEF Die, End, Workers, Running, flags
<1>1. PcTyped' /\ TypeOK'
  BY DEF IInv, TypeOK, PcTyped, Places, Master, Signals
<1>2. ChildrenCounted'
  <2> SUFFICES ASSUME Running(Master)'
               PROVE  ChildrenCounted'
    BY DEF ChildrenCounted
  <2>1. Children' = Children
    BY DEF Children, Places, Master
  <2> QED
    BY <2>1 DEF IInv, ChildrenCounted, Children, Running, Master
<1>3. ForkHasWork' /\ PidFileKept' /\ LoopForgot'
  BY DEF IInv, ForkHasWork, PidFileKept, LoopForgot, Running, Master
<1>4. FlagOnlyAround' /\ WorkersUnflagged'
  BY DEF IInv, FlagOnlyAround, WorkersUnflagged, Running, Master
<1>5. ForwardsPaid'
  BY DEF IInv, ForwardsPaid, FlagOnlyAround, Bit, Master
<1> QED
  BY <1>1, <1>2, <1>3, <1>4, <1>5 DEF IInv

-----------------------------------------------------------------------------
(***************************************************************************)
(* The theorems about Spec.  They hold with and without its fairness.      *)
(***************************************************************************)

\* The master begins with all workers to fork and no signal sent.
LEMMA InitIInv == Init => IInv
<1> SUFFICES ASSUME Init PROVE IInv
  OBVIOUS
<1> USE MasterApart DEF Init, Nowhere
<1>1. PcTyped /\ TypeOK
  BY MaxWorkerNat DEF PcTyped, TypeOK, Places, Master
<1>2. ChildrenCounted
  <2>1. Children = {}
    BY DEF Children
  <2> QED
    BY <2>1, FS_EmptySet, MaxWorkerNat DEF ChildrenCounted, Children
<1>3. ForkHasWork /\ PidFileKept /\ LoopForgot
  BY MaxWorkerNat DEF ForkHasWork, PidFileKept, LoopForgot
<1>4. FlagOnlyAround /\ WorkersUnflagged /\ ForwardsPaid
  BY DEF FlagOnlyAround, WorkersUnflagged, ForwardsPaid, Bit
<1> QED
  BY <1>1, <1>2, <1>3, <1>4 DEF IInv

\* A step that changes nothing changes no property of the state.
LEMMA StutterIInv ==
  ASSUME IInv, UNCHANGED vars
  PROVE  IInv'
BY DEF vars, flags, history, IInv, PcTyped, TypeOK, ChildrenCounted, ForkHasWork,
       PidFileKept, LoopForgot, FlagOnlyAround, WorkersUnflagged, ForwardsPaid, Running

\* IInv holds in every state, for every number of workers and of signals.
THEOREM Invariance == Spec => []IInv
<1>1. Init => IInv
  BY InitIInv
<1>2. IInv /\ [Next]_vars => IInv'
  <2> SUFFICES ASSUME IInv, [Next]_vars PROVE IInv'
    OBVIOUS
  <2>1. CASE \E s \in Signals, to \in {{Master}, Procs} : Outside(s, to)
    BY <2>1, OutsideIInv
  <2>2. CASE \E p \in Procs, s \in Signals : Handle(p, s)
    BY <2>2, HandleIInv
  <2>3. CASE MasterStep
    BY <2>3, CheckIInv, ForkIInv, ForkFailsIInv, EnterWaitIInv, ReapIInv, NoChildIInv,
       InterruptedIInv, ForwardIInv, ForwardReturnsIInv, PassOnStopIInv, CleanupIInv
       DEF MasterStep
  <2>4. CASE \E c \in Child : Boot(c) \/ CycleLog(c) \/ LeaveLoop(c) \/ Die(c)
    BY <2>4, BootIInv, CycleLogIInv, LeaveLoopIInv, DieIInv
  <2>5. CASE UNCHANGED vars
    BY <2>5, StutterIInv
  <2> QED
    BY <2>1, <2>2, <2>3, <2>4, <2>5 DEF Next
<1> QED
  BY <1>1, <1>2, PTL DEF Spec

\* Workers, workers that ended, workers to fork and workers that wait() took
\* without telling are MaxWorker together: the master never forks too many.
THEOREM CountingCorrect == Spec => []ChildrenCounted
<1>1. IInv => ChildrenCounted
  BY DEF IInv
<1> QED
  BY <1>1, Invariance, PTL

\* The master forwards no more SIGHUPs than came from outside, its own never
\* makes it send another, and no worker inherits the flag that swallows one.
THEOREM ForwardingCorrect == Spec => []ForwardedOnce
<1>1. IInv => ForwardedOnce
  <2> SUFFICES ASSUME IInv PROVE ForwardedOnce
    OBVIOUS
  <2>1. forwards <= hups
    BY Types, MasterApart DEF IInv, ForwardsPaid, FlagOnlyAround, Bit
  <2>2. ASSUME NEW p \in Procs, Running(p), forwarded_sig_hup[p]
        PROVE  p = Master /\ pc[p] \in {"forward", "forwarded"}
    BY <2>2 DEF IInv, WorkersUnflagged, FlagOnlyAround, Procs
  <2> QED
    BY <2>1, <2>2 DEF ForwardedOnce
<1> QED
  BY <1>1, Invariance, PTL

\* No worker removes the pid file of a master that runs.
THEOREM PidFileCorrect == Spec => []PidFileKept
<1>1. IInv => PidFileKept
  BY DEF IInv
<1> QED
  BY <1>1, Invariance, PTL
================================================================================
