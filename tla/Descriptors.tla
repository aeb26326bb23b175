---------------------------- MODULE Descriptors ----------------------------
(***************************************************************************)
(* The table of open descriptors of a process, as far as the code of       *)
(* mserver.c, mlog.c and mnetwork.c relies on it: open(), socket(), pipe() *)
(* and dup() take the lowest free number.  The kernel is external code.    *)
(***************************************************************************)
EXTENDS Integers, FiniteSetsExt

CONSTANT MaxFd    \* the highest descriptor the kernel gives out, RLIMIT_NOFILE - 1

ASSUME DescriptorsAssumption == MaxFd \in Nat /\ MaxFd >= 2

Fds  == 0 .. MaxFd
File(kind, id) == [kind |-> kind, id |-> id]
Closed == File("closed", 0)

STDIN_FILENO  == 0
STDOUT_FILENO == 1
STDERR_FILENO == 2

\* What a process is started with.
AtStart == [d \in Fds |-> IF d <= 2 THEN File("terminal", 0) ELSE Closed]

Free(t)       == {d \in Fds : t[d] = Closed}
HasRoom(t)    == Free(t) # {}    \* otherwise open() and its like fail with EMFILE
Lowest(t)     == Min(Free(t))
Opened(t, f)  == [t EXCEPT ![Lowest(t)] = f]
Shut(t, d)    == IF d \in Fds THEN [t EXCEPT ![d] = Closed] ELSE t
Dup2(t, d, e) == [t EXCEPT ![e] = t[d]]
=============================================================================
