-------------------------------- MODULE Log --------------------------------
(***************************************************************************)
(* The descriptors of mlog.c: where the error log goes, what opening it    *)
(* does with the standard descriptors, and how it follows a rotation.      *)
(* What a line of the log says is not modelled; where it goes is.          *)
(*                                                                         *)
(* The log's file is renamed from outside, `generation' numbers the files  *)
(* that had its name.  A log may be a pipe to a program; that program is   *)
(* not modelled.                                                           *)
(***************************************************************************)
EXTENDS Descriptors

CONSTANT MaxGenerations    \* bound of the model: files with the log's name

VARIABLES
  conf,           \* what the configuration says, srv->srvconf
  files,          \* the descriptors of the process
  errorlog_fd, errorlog_mode,
  generation,     \* file system: which file has the log's name
  stale           \* history: it was renamed since the log was last opened

logvars == <<files, errorlog_fd, errorlog_mode, generation, stale>>

LogTypeOK ==
  /\ files \in [Fds -> [kind : {"closed", "terminal", "null", "log", "logpipe",
                                "breakage", "pidfile", "listen", "other"}, id : Nat]]
  /\ errorlog_fd \in Fds \cup {-1}
  /\ errorlog_mode \in {"FD", "FILE", "PIPE", "SYSLOG"}
  /\ generation \in 1 .. MaxGenerations
  /\ stale \in BOOLEAN

LogInit ==
  /\ errorlog_fd = STDERR_FILENO
  /\ errorlog_mode = "FD"
  /\ generation = 1
  /\ stale = FALSE

\* The answer of a function that ends without a return statement, and of one
\* that returns a variable it never set.
Garbage == {-1, 0}

\* openDevNull: `nfd != -1 || nfd != fd' is always true, so a descriptor that
\* was the lowest free number is closed again.
DevNull(t, fd) ==
  LET s   == Opened(Shut(t, fd), File("null", 0))
      nfd == Lowest(Shut(t, fd))
  IN  Shut(Dup2(s, nfd, fd), nfd)

\* The file of the error log that has its name now, or the pipe to a program.
LogFile == IF conf.errorlog_file = "pipe" THEN File("logpipe", 0)
                                          ELSE File("log", generation)

\* open_logfile_or_pipe, when it succeeds.  pipe() takes two descriptors, and
\* the lower one, the reading end, is closed after the fork.
OpenLog(t, f) ==
  IF f.kind # "logpipe" THEN [files |-> Opened(t, f), fd |-> Lowest(t)]
  ELSE LET s == Opened(t, File("other", 0))
       IN  [files |-> Shut(Opened(s, f), Lowest(t)), fd |-> Lowest(s)]

\* The kernel has a descriptor left for the file, or two for the pipe.
CanOpen(t, f) ==
  HasRoom(t) /\ (f.kind = "logpipe" => HasRoom(Opened(t, File("other", 0))))

\* open_logfile_or_pipe fails in open() or pipe(), or in fork(): then both ends
\* of the pipe stay open.
OpenLogFailed(t, f) ==
  {t} \cup (IF f.kind = "logpipe" /\ CanOpen(t, f)
            THEN {Opened(Opened(t, File("other", 0)), File("other", 0))} ELSE {})

\* Where log_error_open has the log go: mode and descriptor.
Mode ==
  IF conf.errorlog_use_syslog THEN "SYSLOG"
  ELSE IF conf.errorlog_file = "" THEN "FD"
  ELSE IF conf.errorlog_file = "pipe" THEN "PIPE" ELSE "FILE"

Opens == Mode \in {"FILE", "PIPE"}

Chosen == IF Opens THEN OpenLog(files, LogFile) ELSE [files |-> files, fd |-> STDERR_FILENO]

\* The second part of log_error_open: with a breakage log standard error goes
\* there, and an error log on standard error goes on with a copy of the old
\* one; without a breakage log a daemon has no standard error.
Breakage(mode, log) ==
  IF conf.breakagelog_file
  THEN LET copy   == IF mode = "FD"
                     THEN [files |-> Opened(log.files, log.files[STDERR_FILENO]), fd |-> Lowest(log.files)]
                     ELSE log
           fd     == Lowest(copy.files)
           opened == Opened(copy.files, File("breakage", 0))
       IN  [files |-> Shut(Dup2(opened, fd, STDERR_FILENO), fd), fd |-> copy.fd]
  ELSE IF ~conf.dont_daemonize
  THEN [files |-> DevNull(log.files, STDERR_FILENO), fd |-> IF mode = "FD" THEN -1 ELSE log.fd]
  ELSE log

\* The descriptors log_error_open needs: for the log, for the copy of standard
\* error and for the breakage log.
Copied     == Opened(files, files[STDERR_FILENO])
RoomForLog == Opens => CanOpen(files, LogFile)
RoomForBreakage ==
  conf.breakagelog_file =>
    IF Mode = "FD" THEN HasRoom(files) /\ HasRoom(Copied) ELSE HasRoom(Chosen.files)

\* log_error_open succeeds, and has no return value.
LogOpen(r) ==
  /\ r \in Garbage
  /\ RoomForLog /\ RoomForBreakage
  /\ LET log == Breakage(Mode, Chosen)
     IN  /\ errorlog_mode' = Mode
         /\ errorlog_fd' = log.fd
         /\ files' = log.files
  /\ stale' = FALSE
  /\ UNCHANGED generation

\* The error log, or the breakage log, cannot be opened: both return -1.  The
\* mode becomes that of a pipe only when the pipe is there.
LogOpenFails ==
  /\ \/ /\ Opens
        /\ errorlog_mode' = "FILE"
        /\ files' \in OpenLogFailed(files, LogFile)
        /\ errorlog_fd' = -1
     \/ /\ conf.breakagelog_file /\ RoomForLog
        /\ errorlog_mode' = Mode
        /\ IF Mode # "FD" THEN files' = Chosen.files /\ errorlog_fd' = Chosen.fd
           ELSE IF HasRoom(files) THEN files' = Copied /\ errorlog_fd' = Lowest(files)
           ELSE UNCHANGED files /\ errorlog_fd' = -1
  /\ UNCHANGED <<generation, stale>>

\* Faulty variants: the new file is opened beside the old one; the descriptor
\* of the old file is kept.
LogCycle_Leaks ==
  IF errorlog_mode # "FILE" THEN UNCHANGED <<files, errorlog_fd, stale>>
  ELSE LET new == OpenLog(files, LogFile)
       IN  files' = new.files /\ errorlog_fd' = new.fd /\ stale' = FALSE

LogCycle_KeepsOld ==
  IF errorlog_mode # "FILE" THEN UNCHANGED <<files, errorlog_fd, stale>>
  ELSE UNCHANGED <<files, errorlog_fd>> /\ stale' = FALSE

\* log_error_cycle.  It fails when the new file cannot be opened; the log is
\* then closed, and it stays a file until the next cycle.
LogCycle ==
  IF errorlog_mode # "FILE" THEN UNCHANGED <<files, errorlog_fd, stale>>
  ELSE \/ LET new == OpenLog(files, LogFile)
          IN  /\ CanOpen(files, LogFile)
              /\ files' = Shut(new.files, errorlog_fd)
              /\ errorlog_fd' = new.fd
              /\ stale' = FALSE
       \/ /\ files' = Shut(files, errorlog_fd)
          /\ errorlog_fd' = -1
          /\ UNCHANGED stale

\* log_error_close: standard error is left open.
LogClose(t) ==
  /\ files' = IF errorlog_mode # "SYSLOG" /\ errorlog_fd # STDERR_FILENO
              THEN Shut(t, errorlog_fd) ELSE t
  /\ errorlog_fd' = IF errorlog_mode # "SYSLOG" THEN -1 ELSE errorlog_fd
  /\ UNCHANGED <<errorlog_mode, generation, stale>>

\* Someone renames the file of the log.
Rotate ==
  /\ errorlog_mode = "FILE" /\ generation < MaxGenerations
  /\ generation' = generation + 1
  /\ stale' = TRUE
  /\ UNCHANGED <<files, errorlog_fd, errorlog_mode>>

-----------------------------------------------------------------------------

\* A descriptor the log writes to is one of a log, whatever became of the
\* standard descriptors and of the numbers that were free: never a socket, the
\* pid file, the breakage log or a closed descriptor.  And no other descriptor of
\* a log is left over by a cycle or by the opening; standard error is never
\* closed and may have become the log's.
LogHasItsDescriptor ==
  /\ errorlog_mode # "SYSLOG" /\ errorlog_fd # -1 =>
       files[errorlog_fd].kind \in {"terminal", "log", "logpipe"}
  /\ \A d \in Fds \ {STDERR_FILENO} : files[d].kind \in {"log", "logpipe"} => d = errorlog_fd

\* A log file that was not renamed since it was opened last is the one that
\* has the name; a renamed one is written to until the next SIGHUP.
LogFollowsRotation ==
  errorlog_mode = "FILE" /\ errorlog_fd # -1 =>
    (stale <=> files[errorlog_fd].id < generation)
=============================================================================
