------------------------------- MODULE Workers -------------------------------
(***************************************************************************)
(* The master of mserver.c and its workers: the signal handler, the loop   *)
(* in which the master forks workers, waits for them and forwards SIGHUP,  *)
(* the way a stop is passed on, and the part of a worker's main loop that  *)
(* looks at the signal flags.                                              *)
(*                                                                         *)
(* A signal is pending from the moment it is sent until the handler runs,  *)
(* and the handler may run between any two steps of the process it         *)
(* interrupts.  Two signals of a kind that are pending together are one.   *)
(* The handler is sigaction_handler; only a process that is blocked in     *)
(* wait() returns from its call because of one (SA_RESTART is not set).    *)
(*                                                                         *)
(* A turn of a worker's main loop is one step: it never waits longer than  *)
(* the timeout of fdevent_poll, so no signal makes it miss a flag.  The    *)
(* master starts with its pid file written and with worker processes to    *)
(* come; a server without workers (max_worker = 0) is not modelled here.   *)
(***************************************************************************)
EXTENDS Integers, FiniteSets

CONSTANTS
  Child,       \* process numbers the kernel gives to workers
  MaxWorker,   \* srv->srvconf.max_worker
  MaxSignals,  \* bound of the model: signals that come from outside
  MaxDeaths    \* bound of the model: workers that end by themselves

ASSUME WorkerAssumption ==
  /\ Child \subseteq Nat \ {0} /\ IsFiniteSet(Child)
  /\ MaxWorker \in 1 .. Cardinality(Child)
  /\ MaxSignals \in Nat /\ MaxDeaths \in Nat

Master  == 0
Procs   == Child \cup {Master}
Signals == {"TERM", "INT", "HUP"}

VARIABLES
  pc,                \* where every process is
  num_child,         \* workers the master has still to fork
  srv_shutdown, graceful_shutdown, handle_sig_hup, forwarded_sig_hup,
                     \* the flags, a copy in every process
  pid_file,          \* srv->srvconf.pid_file is not empty, in every process
  pending,           \* kernel: signals sent to every process and not handled
  exists,            \* file system: the pid file is there
  status,            \* what `status', which is passed to wait(), points to
  lost,              \* history: workers that wait() took without telling so
  stop,              \* history: why the master passed on a stop
  hups, forwards,    \* history: SIGHUPs from outside, and forwarded by the master
  due,               \* history: workers that a SIGHUP was sent to, log not cycled
  signals, deaths    \* bounds: signals from outside, workers that ended

flags   == <<srv_shutdown, graceful_shutdown, handle_sig_hup, forwarded_sig_hup>>
history == <<lost, stop, hups, forwards, due, signals, deaths>>
vars    == <<pc, num_child, flags, pid_file, pending, exists, status, history>>

Running(p) == pc[p] \notin {"none", "zombie", "gone"}
Workers    == {c \in Child : Running(c)}
Zombies    == {c \in Child : pc[c] = "zombie"}
Stopping   == srv_shutdown[Master] \/ graceful_shutdown[Master]

TypeOK ==
  /\ pc[Master] \in {"check", "fork", "wait", "blocked", "eintr", "forward",
                     "forwarded", "stop", "cleanup", "gone"}
  /\ \A c \in Child : pc[c] \in {"none", "boot", "loop", "zombie"}
  /\ num_child \in 0 .. MaxWorker
  /\ {srv_shutdown, graceful_shutdown, handle_sig_hup, forwarded_sig_hup, pid_file}
       \subseteq [Procs -> BOOLEAN]
  /\ pending \in [Procs -> SUBSET Signals]
  /\ exists \in BOOLEAN
  /\ status \in {"null", "wild"}
  /\ stop \in {"none", "shutdown", "graceful"}
  /\ due \subseteq Child
  /\ {lost, hups, forwards, signals, deaths} \subseteq Nat

Nowhere == [p \in Procs |-> FALSE]

\* `status' is an int that is never set, and wait() takes it for a pointer.
Init ==
  /\ pc = [p \in Procs |-> IF p = Master THEN "check" ELSE "none"]
  /\ num_child = MaxWorker
  /\ srv_shutdown = Nowhere /\ graceful_shutdown = Nowhere
  /\ handle_sig_hup = Nowhere /\ forwarded_sig_hup = Nowhere
  /\ pid_file = [p \in Procs |-> TRUE]
  /\ pending = [p \in Procs |-> {}]
  /\ exists = TRUE
  /\ status \in {"null", "wild"}
  /\ lost = 0 /\ stop = "none" /\ hups = 0 /\ forwards = 0 /\ due = {}
  /\ signals = 0 /\ deaths = 0

-----------------------------------------------------------------------------
(***************************************************************************)
(* Signals.                                                                *)
(***************************************************************************)

\* A signal is sent to the processes in `to'; kill(0, s) sends it to all.
Send(s, to) ==
  pending' = [p \in Procs |->
                IF p \in to /\ Running(p) THEN pending[p] \cup {s} ELSE pending[p]]

\* Someone signals the process in the pid file, or the whole group.
Outside(s, to) ==
  /\ signals < MaxSignals
  /\ Running(Master)
  /\ Send(s, to)
  /\ signals' = signals + 1
  /\ hups' = IF s = "HUP" THEN hups + 1 ELSE hups
  /\ due' = IF s = "HUP" THEN due \cup (to \cap Workers) ELSE due
  /\ UNCHANGED <<pc, num_child, flags, pid_file, exists, status, lost, stop, forwards, deaths>>

\* Faulty variants: every SIGHUP counts, the master's own too; the flag that
\* announces the master's own SIGHUP is never taken back.
OnHup_Always(p) ==
  /\ handle_sig_hup' = [handle_sig_hup EXCEPT ![p] = TRUE]
  /\ forwarded_sig_hup' = [forwarded_sig_hup EXCEPT ![p] = FALSE]

OnHup_Sticky(p) ==
  /\ handle_sig_hup' = [handle_sig_hup EXCEPT ![p] = @ \/ ~forwarded_sig_hup[p]]
  /\ UNCHANGED forwarded_sig_hup

OnHup(p) ==
  IF forwarded_sig_hup[p]
  THEN /\ forwarded_sig_hup' = [forwarded_sig_hup EXCEPT ![p] = FALSE]
       /\ UNCHANGED handle_sig_hup
  ELSE /\ handle_sig_hup' = [handle_sig_hup EXCEPT ![p] = TRUE]
       /\ UNCHANGED forwarded_sig_hup

\* wait() returns with EINTR, unless a worker has ended, which comes first.
AfterSignal(p) ==
  IF p = Master /\ pc[Master] = "blocked" /\ Zombies = {}
  THEN [pc EXCEPT ![Master] = "eintr"] ELSE pc

\* sigaction_handler.
Handle(p, s) ==
  /\ Running(p)
  /\ s \in pending[p]
  /\ pending' = [pending EXCEPT ![p] = @ \ {s}]
  /\ pc' = AfterSignal(p)
  /\ \/ /\ s = "TERM"
        /\ srv_shutdown' = [srv_shutdown EXCEPT ![p] = TRUE]
        /\ UNCHANGED <<graceful_shutdown, handle_sig_hup, forwarded_sig_hup>>
     \/ /\ s = "INT"
        /\ srv_shutdown' = [srv_shutdown EXCEPT ![p] = @ \/ graceful_shutdown[p]]
        /\ graceful_shutdown' = [graceful_shutdown EXCEPT ![p] = TRUE]
        /\ UNCHANGED <<handle_sig_hup, forwarded_sig_hup>>
     \/ /\ s = "HUP"
        /\ OnHup(p)
        /\ UNCHANGED <<srv_shutdown, graceful_shutdown>>
  /\ UNCHANGED <<num_child, pid_file, exists, status, history>>

-----------------------------------------------------------------------------
(***************************************************************************)
(* The master.                                                             *)
(***************************************************************************)
At(label) == pc[Master] = label
Goto(label) == pc' = [pc EXCEPT ![Master] = label]

\* Faulty variant: the loop looks at srv_shutdown only, as that of a worker does.
LoopEnds_Shutdown == srv_shutdown[Master]

LoopEnds == srv_shutdown[Master] \/ graceful_shutdown[Master]

MoreToFork == num_child > 0

\* The condition of the loop and the test of num_child behind it.
Check ==
  /\ At("check")
  /\ Goto(IF LoopEnds THEN "stop" ELSE IF MoreToFork THEN "fork" ELSE "wait")
  /\ UNCHANGED <<num_child, flags, pid_file, pending, exists, status, history>>

\* Faulty variant: the count is lowered in the worker, not in the master.
Forked_InChild == UNCHANGED num_child

Forked == num_child' = num_child - 1

\* The flags of a new process: those of the master.
Inherit(flag, c) == flag' = [flag EXCEPT ![c] = flag[Master]]

\* fork(): the worker leaves the loop and has still to close the pid file.
Fork(c) ==
  /\ At("fork")
  /\ pc[c] = "none"
  /\ \A d \in Child : pc[d] = "none" => c <= d
  /\ pc' = [pc EXCEPT ![Master] = "check", ![c] = "boot"]
  /\ Forked
  /\ Inherit(srv_shutdown, c) /\ Inherit(graceful_shutdown, c)
  /\ Inherit(handle_sig_hup, c) /\ Inherit(forwarded_sig_hup, c)
  /\ Inherit(pid_file, c)
  /\ due' = due \ {c}
  /\ UNCHANGED <<pending, exists, status, lost, stop, hups, forwards, signals, deaths>>

\* fork() fails: the master returns from main() and leaves all as it is.
ForkFails ==
  /\ At("fork")
  /\ pc' = [p \in Procs |-> IF p = Master THEN "gone"
                            ELSE IF pc[p] = "zombie" THEN "none" ELSE pc[p]]
  /\ pending' = [pending EXCEPT ![Master] = {}]
  /\ UNCHANGED <<num_child, flags, pid_file, exists, status, history>>

\* wait() is entered; a flag that was set since Check is not seen any more.
EnterWait ==
  /\ At("wait")
  /\ Goto("blocked")
  /\ UNCHANGED <<num_child, flags, pid_file, pending, exists, status, history>>

\* Faulty variant: the worker that ended is not counted.
Reaped_NotCounted == UNCHANGED num_child

Reaped == num_child' = num_child + 1

(***************************************************************************)
(* wait() takes a worker that ended.  When `status' is a wild pointer the  *)
(* worker is taken, but the call fails with EFAULT and is not counted.     *)
(***************************************************************************)
Reap(c) ==
  /\ At("blocked")
  /\ c \in Zombies
  /\ pc' = [pc EXCEPT ![Master] = "check", ![c] = "none"]
  /\ \/ status = "null" /\ Reaped /\ UNCHANGED lost
     \/ status = "wild" /\ lost' = lost + 1 /\ UNCHANGED num_child
  /\ UNCHANGED <<flags, pid_file, pending, exists, status, stop, hups, forwards, due,
                 signals, deaths>>

\* wait() fails with ECHILD.
NoChild ==
  /\ At("blocked")
  /\ \A c \in Child : pc[c] = "none"
  /\ Goto("check")
  /\ UNCHANGED <<num_child, flags, pid_file, pending, exists, status, history>>

\* case EINTR, up to kill(): the master cycles its log.
Interrupted ==
  LET again == handle_sig_hup[Master] /\ ~forwarded_sig_hup[Master] IN
  /\ At("eintr")
  /\ handle_sig_hup' = [handle_sig_hup EXCEPT ![Master] = FALSE]
  /\ forwarded_sig_hup' = [forwarded_sig_hup EXCEPT ![Master] = @ \/ again]
  /\ Goto(IF again THEN "forward" ELSE "check")
  /\ UNCHANGED <<num_child, srv_shutdown, graceful_shutdown, pid_file, pending,
                 exists, status, history>>

\* kill(0, SIGHUP).
Forward ==
  /\ At("forward")
  /\ Send("HUP", Procs)
  /\ forwards' = forwards + 1
  /\ due' = due \cup Workers
  /\ Goto("forwarded")
  /\ UNCHANGED <<num_child, flags, pid_file, exists, status, lost, stop, hups,
                 signals, deaths>>

\* kill() returns after the signal to the sender itself was handled.
ForwardReturns ==
  /\ At("forwarded")
  /\ pending[Master] = {}
  /\ Goto("check")
  /\ UNCHANGED <<num_child, flags, pid_file, pending, exists, status, history>>

\* Faulty variant: a graceful stop is passed on as SIGINT.
StopSignal_Int == "INT"

\* What the master tells its group when it has left the loop.
StopSignal == IF srv_shutdown[Master] THEN "INT" ELSE "TERM"

PassOnStop ==
  /\ At("stop")
  /\ Send(StopSignal, Procs)
  /\ stop' = IF srv_shutdown[Master] THEN "shutdown" ELSE "graceful"
  /\ Goto("cleanup")
  /\ UNCHANGED <<num_child, flags, pid_file, exists, status, lost, hups, forwards,
                 due, signals, deaths>>

\* The master removes the pid file and ends; the system takes the workers that
\* ended before.
Cleanup ==
  /\ At("cleanup")
  /\ pending[Master] = {}
  /\ exists' = (exists /\ ~pid_file[Master])
  /\ pc' = [p \in Procs |-> IF p = Master THEN "gone"
                            ELSE IF pc[p] = "zombie" THEN "none" ELSE pc[p]]
  /\ UNCHANGED <<num_child, flags, pid_file, pending, status, history>>

MasterStep ==
  \/ Check
  \/ \E c \in Child : Fork(c)
  \/ ForkFails
  \/ EnterWait
  \/ \E c \in Child : Reap(c)
  \/ NoChild
  \/ Interrupted
  \/ Forward
  \/ ForwardReturns
  \/ PassOnStop
  \/ Cleanup

-----------------------------------------------------------------------------
(***************************************************************************)
(* The workers.                                                            *)
(***************************************************************************)

\* Faulty variant: the worker keeps the name of the pid file.
ForgetPidFile_Not(c) == UNCHANGED pid_file

\* The worker closes the pid file and empties its name.
ForgetPidFile(c) == pid_file' = [pid_file EXCEPT ![c] = FALSE]

Boot(c) ==
  /\ pc[c] = "boot"
  /\ ForgetPidFile(c)
  /\ pc' = [pc EXCEPT ![c] = "loop"]
  /\ UNCHANGED <<num_child, flags, pending, exists, status, history>>

\* Nothing of c is left but its exit status, for a parent that is there.
End(c) ==
  /\ pc' = [pc EXCEPT ![c] = IF Running(Master) THEN "zombie" ELSE "none"]
  /\ pending' = [pending EXCEPT ![c] = {}]

\* A turn of the main loop that finds handle_sig_hup set: the log is cycled.
CycleLog(c) ==
  /\ pc[c] = "loop"
  /\ ~srv_shutdown[c]
  /\ handle_sig_hup[c]
  /\ handle_sig_hup' = [handle_sig_hup EXCEPT ![c] = FALSE]
  /\ due' = due \ {c}
  /\ UNCHANGED <<pc, num_child, srv_shutdown, graceful_shutdown, forwarded_sig_hup,
                 pid_file, pending, exists, status, lost, stop, hups, forwards,
                 signals, deaths>>

\* The main loop ends; remove_pid_file unlinks what srvconf.pid_file names.
LeaveLoop(c) ==
  /\ pc[c] = "loop"
  /\ srv_shutdown[c]
  /\ exists' = (exists /\ (graceful_shutdown[c] \/ ~pid_file[c]))
  /\ End(c)
  /\ UNCHANGED <<num_child, flags, pid_file, status, history>>

\* The worker fails: it returns from main() early, or is killed.
Die(c) ==
  /\ c \in Workers
  /\ deaths < MaxDeaths
  /\ deaths' = deaths + 1
  /\ End(c)
  /\ UNCHANGED <<num_child, flags, pid_file, exists, status, lost, stop, hups,
                 forwards, due, signals>>

Next ==
  \/ \E s \in Signals, to \in {{Master}, Procs} : Outside(s, to)
  \/ \E p \in Procs, s \in Signals : Handle(p, s)
  \/ MasterStep
  \/ \E c \in Child : Boot(c)
  \/ \E c \in Child : CycleLog(c)
  \/ \E c \in Child : LeaveLoop(c)
  \/ \E c \in Child : Die(c)

(***************************************************************************)
(* The kernel delivers every signal and runs every process that can run;   *)
(* nobody has to send a signal, and no worker has to fail.                 *)
(***************************************************************************)
Fairness ==
  /\ \A p \in Procs : WF_vars(\E s \in Signals : Handle(p, s))
  /\ WF_vars(MasterStep)
  /\ \A c \in Child : WF_vars(Boot(c) \/ CycleLog(c) \/ LeaveLoop(c))

Spec == Init /\ [][Next]_vars /\ Fairness

-----------------------------------------------------------------------------
(***************************************************************************)
(* Properties                                                              *)
(***************************************************************************)

\* Workers, workers that ended, workers to fork and workers that wait() took
\* without telling are always MaxWorker together: whatever mixture of signals,
\* deaths and forks the master sees, it never forks too many.
ChildrenCounted ==
  Running(Master) =>
    num_child + Cardinality({c \in Child : pc[c] # "none"}) + lost = MaxWorker

\* A SIGHUP is forwarded once: forwarded_sig_hup is set in the master while it
\* sends SIGHUP to its group and at no other time and place (a worker that
\* inherited it would swallow one), and the master's own never makes it send another.
ForwardedOnce ==
  /\ forwards <= hups
  /\ \A p \in Procs : Running(p) /\ forwarded_sig_hup[p] =>
                        p = Master /\ pc[p] \in {"forward", "forwarded"}

\* The pid file is there as long as the master is, whatever the workers that
\* inherited its name and descriptor do when they end.
PidFileKept == Running(Master) => exists

\* Every worker that a SIGHUP was sent to cycles its log, or ends.
HupReachesWorkers ==
  \A c \in Child : (c \in due /\ Running(c)) ~> (c \notin due \/ ~Running(c))

\* When the master was asked to stop and a worker has ended, the master ends: it
\* does not replace the worker and go on.
StopAfterReap == (Stopping /\ Zombies # {}) ~> ~Running(Master)

\* When the master has passed on a graceful stop, all workers end.
GracefulStop == (stop = "graceful") ~> (Workers = {})

\* A worker that ended is replaced, unless the master ends: at some time all
\* MaxWorker run again.  (When `status' points nowhere.)
WorkersReplaced ==
  (status = "null" /\ Zombies # {}) ~>
    (Cardinality(Workers) = MaxWorker \/ ~Running(Master))
=============================================================================
