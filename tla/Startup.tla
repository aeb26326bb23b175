------------------------------ MODULE Startup ------------------------------
(***************************************************************************)
(* main() of mserver.c for a server without workers: from the options to   *)
(* the main loop, the loop's SIGHUP and trigger, and the end; with the     *)
(* log, the sockets and the plugins as Log, Network and Plugins have them. *)
(*                                                                         *)
(* The parts that depend on the build (privileges, daemonize) are as their *)
(* statements say.  `conf' is one of Configs and never changes; a member   *)
(* that is read in one place only is chosen there.                         *)
(*                                                                         *)
(* The loop over the unused keys (line 620) ends only when the global      *)
(* context has no key.  conf.has_keys says whether it has one: a           *)
(* configuration that sets the document root has, and never gets further.  *)
(* What comes after it is checked with has_keys = FALSE.                   *)
(***************************************************************************)
EXTENDS Network, Plugins

CONSTANTS
  Configs,      \* the configurations the model looks at
  SelectLimit,  \* FD_SETSIZE - 200
  MaxHups       \* bound of the model: SIGHUPs that are sent

ASSUME StartupAssumption == SelectLimit \in Nat /\ MaxHups \in Nat

\* What the configuration may say.
ASSUME ConfigsAssumption ==
  Configs \subseteq
    [has_keys : BOOLEAN, modules : Seq(DOMAIN HooksOf), pid_file : BOOLEAN,
     preflight_check : BOOLEAN, event_handler : {"poll", "select"}, max_fds : Nat,
     max_conns : Nat, root : BOOLEAN, username : STRING, groupname : STRING,
     changeroot : BOOLEAN, bindhost : Tokens, port_in_range : BOOLEAN,
     sockets_disabled : BOOLEAN, network_backend : STRING,
     conditions : Seq([token : Tokens, socket_eq : BOOLEAN]),
     dont_daemonize : BOOLEAN, errorlog_use_syslog : BOOLEAN,
     errorlog_file : {"", "file", "pipe"}, breakagelog_file : BOOLEAN]

VARIABLES
  pc,                   \* where main() is
  next,                 \* the module or the condition that is next
  pid_fd, pid_exists,   \* the descriptor, and file system: the pid file is there
  parent_pipe_fd,       \* the pipe to the process that waits for the daemon
  max_fds, max_conns,   \* srv->max_fds, srv->max_conns
  ids,                  \* the process: user, group and supplementary groups
  srv_shutdown, graceful_shutdown, handle_sig_hup,
  hups,                 \* bound: SIGHUPs sent
  outcome               \* how main() ended

mainvars == <<pc, next, pid_fd, pid_exists, parent_pipe_fd, max_fds, max_conns, ids,
              srv_shutdown, graceful_shutdown, handle_sig_hup, hups, outcome>>
vars == <<conf, logvars, netvars, pluginvars, mainvars>>

\* The groups of variables that a stage of main() leaves alone.
limits  == <<max_fds, max_conns>>
pidfile == <<pid_fd, pid_exists, parent_pipe_fd>>
flags   == <<srv_shutdown, graceful_shutdown, handle_sig_hup, hups>>
logonly == <<errorlog_fd, errorlog_mode, generation, stale>>
netonly == <<srv_sockets, leaked, quiet>>

TypeOK ==
  /\ LogTypeOK /\ NetworkTypeOK /\ PluginsTypeOK
  /\ conf \in Configs
  /\ next \in Nat
  /\ {pid_fd, parent_pipe_fd} \subseteq Fds \cup {-1} /\ pid_exists \in BOOLEAN
  /\ max_fds \in Nat /\ max_conns \in Nat
  /\ ids \in [uid : {"root", "user"}, gid : {"root", "group"}, groups : {"root", "none", "group"}]
  /\ srv_shutdown \in BOOLEAN /\ graceful_shutdown \in BOOLEAN
  /\ handle_sig_hup \in BOOLEAN /\ hups \in 0 .. MaxHups
  /\ outcome \in {"", "stopped", "preflight", "refused", "crashed"}

Init ==
  /\ conf \in Configs
  /\ files = AtStart
  /\ LogInit /\ NetworkInit /\ PluginsInit
  /\ pc = "options" /\ next = 1 /\ outcome = ""
  /\ pid_fd = -1 /\ pid_exists \in BOOLEAN /\ parent_pipe_fd = -1
  /\ max_fds = 0 /\ max_conns = 0
  /\ ids = [uid    |-> IF conf.root THEN "root" ELSE "user",
            gid    |-> IF conf.root THEN "root" ELSE "group",
            groups |-> IF conf.root THEN "root" ELSE "group"]
  /\ srv_shutdown = FALSE /\ graceful_shutdown = FALSE /\ handle_sig_hup = FALSE /\ hups = 0

Goto(l)  == pc' = l /\ UNCHANGED outcome
\* main() returns, without and with plugins_free and network_close.
Ends(o)  == pc' = "ended" /\ outcome' = o
FreePlugins == \E k \in 0 .. Len(plugin_slots["cleanup"]) : PluginsFree(k)

-----------------------------------------------------------------------------
(***************************************************************************)
(* Up to the sockets.                                                      *)
(***************************************************************************)

\* Options and configuration; the two standard descriptors are given up.
Options ==
  /\ pc = "options"
  /\ \/ Goto("load") /\ files' = DevNull(DevNull(files, STDIN_FILENO), STDOUT_FILENO)
     \/ Ends("refused") /\ UNCHANGED files
  /\ UNCHANGED <<conf, logonly, netonly, pluginvars, next, pidfile, limits, ids, flags>>

\* plugins_load: each module is opened and its init function is called.  From
\* the second on, the search for a double reads the array of modules as a string.
Load ==
  /\ pc = "load"
  /\ IF next > Len(conf.modules)
     THEN Goto("pidfile") /\ next' = 1 /\ UNCHANGED pluginvars
     ELSE \/ Goto("load") /\ next' = next + 1 /\ PluginLoad(conf.modules[next])
          \/ Ends("refused") /\ UNCHANGED next /\ FreePlugins
          \/ next > 1 /\ Ends("crashed") /\ UNCHANGED <<next, pluginvars>>
  /\ UNCHANGED <<conf, logvars, netonly, pidfile, limits, ids, flags>>

\* fdevent_open_cloexec has no body, so its answer is what is left in a
\* register, and errno is that of an earlier call.  The test is inverted: with
\* -1 main() goes on, and with anything else the file is opened only when errno
\* is EEXIST and the file is there.
PidFile ==
  /\ pc = "pidfile"
  /\ \/ Goto("limits") /\ UNCHANGED <<files, pidfile>>
     \/ conf.pid_file /\ Ends("refused") /\ UNCHANGED <<files, pidfile>>
     \/ /\ conf.pid_file /\ pid_exists /\ HasRoom(files)
        /\ Goto("limits")
        /\ files' = Opened(files, File("pidfile", 0))
        /\ pid_fd' = Lowest(files)
        /\ UNCHANGED <<pid_exists, parent_pipe_fd>>
  /\ UNCHANGED <<conf, logonly, netonly, pluginvars, next, limits, ids, flags>>

\* The limit on descriptors: what the process has, or what is configured; with
\* select no more than FD_SETSIZE - 200.
FdLimit(cur) == IF conf.event_handler = "select" /\ ~(cur < SelectLimit) THEN SelectLimit ELSE cur

Limits ==
  /\ pc = "limits"
  /\ \/ Goto("names") /\ max_fds' = FdLimit(conf.max_fds)
     \/ Ends("refused") /\ UNCHANGED max_fds
  /\ UNCHANGED <<conf, logvars, netonly, pluginvars, next, pidfile, max_conns, ids, flags>>

\* The names of user and group.  A user that is known is reported as unknown and
\* used; one that is not known is read through NULL.
NamesRefused ==
  \/ conf.groupname = "unknown"
  \/ conf.username # "unknown" /\ (conf.groupname = "root" \/ conf.username = "root")

\* Without a group of its own the server takes the user's, which may be unknown
\* or root's.
GroupOfUser == conf.username # "unknown" /\ conf.username # "" /\ conf.groupname = ""

Names ==
  /\ pc = "names"
  /\ \/ ~conf.root /\ Goto("network")
     \/ conf.root /\ conf.groupname # "unknown" /\ conf.username = "unknown" /\ Ends("crashed")
     \/ conf.root /\ (NamesRefused \/ GroupOfUser) /\ Ends("refused")
     \/ conf.root /\ conf.username # "unknown" /\ ~NamesRefused /\ Goto("network")
  /\ UNCHANGED <<conf, logvars, netonly, pluginvars, next, pidfile, limits, ids, flags>>

-----------------------------------------------------------------------------
(***************************************************************************)
(* network_init, the privileges and the limit on connections.              *)
(***************************************************************************)

\* network_init fails: the sockets that are open already are left open.
NetworkFails == Ends("refused") /\ FreePlugins /\ UNCHANGED next

Crash == Ends("crashed") /\ NothingOpened /\ UNCHANGED <<pluginvars, next>>

\* The socket of the bind host.
BindHost ==
  /\ pc = "network"
  /\ \/ Faults(conf.bindhost) /\ Crash
     \/ \E err \in Garbage :
          /\ NetworkServerInit(conf.bindhost, err)
          /\ IF err = 0 THEN Goto("backend") /\ UNCHANGED <<pluginvars, next>> ELSE NetworkFails
  /\ UNCHANGED <<conf, logonly, pidfile, limits, ids, flags>>

Backend ==
  /\ pc = "backend"
  /\ IF BackendKnown THEN Goto("sockets") /\ next' = 1 /\ UNCHANGED pluginvars ELSE NetworkFails
  /\ UNCHANGED <<conf, logvars, netonly, pidfile, limits, ids, flags>>

\* The socket of one condition; network_init then ends without an answer.
Sockets ==
  /\ pc = "sockets"
  /\ IF next > Len(conf.conditions)
     THEN \E r \in Garbage :
            /\ NothingOpened
            /\ IF r = 0 THEN Goto("privileges") /\ UNCHANGED <<pluginvars, next>> ELSE NetworkFails
     ELSE LET c == conf.conditions[next]
          IN  \/ /\ ~Wanted(c) /\ NothingOpened
                 /\ Goto("sockets") /\ next' = next + 1 /\ UNCHANGED pluginvars
              \/ Wanted(c) /\ Faults(c.token) /\ Crash
              \/ /\ Wanted(c)
                 /\ \E err \in Garbage :
                      /\ NetworkServerInit(c.token, err)
                      /\ IF err = 0 THEN Goto("sockets") /\ next' = next + 1 /\ UNCHANGED pluginvars
                                    ELSE NetworkFails
  /\ UNCHANGED <<conf, logonly, pidfile, limits, ids, flags>>

HasGroup == conf.groupname # "" \/ conf.username # ""
HasUser  == conf.username # ""

\* Faulty variant: the user is given up first, and the group can then not be
\* changed, which nobody looks at.
GivenUp_UserFirst ==
  {[ids EXCEPT !.uid = IF HasUser THEN "user" ELSE @]}

\* setgid, setgroups and initgroups, then chroot, then setuid: each may refuse,
\* but nobody looks at what initgroups answers.  When it fails, the process has
\* the groups setgroups left: none.
SupplementaryGroups ==
  IF HasUser THEN {"group", "none"} ELSE IF HasGroup THEN {"none"} ELSE {ids.groups}

GivenUp ==
  {[uid    |-> IF HasUser THEN "user" ELSE ids.uid,
    gid    |-> IF HasGroup THEN "group" ELSE ids.gid,
    groups |-> g] : g \in SupplementaryGroups}

Privileges ==
  /\ pc = "privileges"
  /\ \/ Goto("conns") /\ ids' \in IF conf.root THEN GivenUp ELSE {ids}
     \/ conf.root /\ Ends("refused") /\ UNCHANGED ids
  /\ UNCHANGED <<conf, logvars, netonly, pluginvars, next, pidfile, limits, flags>>

ConnLimit ==
  IF conf.max_conns > max_fds \div 2 THEN max_fds \div 2
  ELSE IF conf.max_conns # 0 THEN conf.max_conns ELSE max_fds \div 3

Conns ==
  /\ pc = "conns"
  /\ max_conns' = ConnLimit
  /\ next' = 1
  /\ Goto("init")
  /\ UNCHANGED <<conf, logvars, netonly, pluginvars, pidfile, max_fds, ids, flags>>

-----------------------------------------------------------------------------
(***************************************************************************)
(* Plugins, pid file, log.                                                 *)
(***************************************************************************)

\* The way out with everything freed: the sockets of the list are closed.
GoDown(t) ==
  /\ Ends("refused")
  /\ FreePlugins
  /\ files' = Closing(t) /\ srv_sockets' = <<>>
  /\ UNCHANGED <<leaked, quiet>>

Stays == UNCHANGED <<files, srv_sockets, leaked, quiet>>

\* plugins_call_init, one plugin.
InitPlugin ==
  /\ pc = "init"
  /\ IF next > Len(plugins)
     THEN Goto("daemonize") /\ next' = 1 /\ Stays /\ UNCHANGED pluginvars
     ELSE IF \E h \in Hook : Calls(next, h) /\ Overruns(plugin_slots[h])
     THEN Ends("crashed") /\ Stays /\ UNCHANGED <<pluginvars, next>>
     ELSE \E answer \in {"ready", "failed"} :
            /\ answer = "failed" => plugins[next] \in HasInit
            /\ PluginInit(next, answer)
            /\ next' = next + 1 /\ Stays
            /\ Goto(IF "init" \in refused' THEN "godown" ELSE "init")
  /\ UNCHANGED <<conf, logonly, pidfile, limits, ids, flags>>

\* daemonize() leaves one descriptor, the pipe to the waiting parent, which is
\* closed when the start-up is through.  The second fork() is not looked at, so
\* both processes of it go on; the model follows one.
Daemonize ==
  /\ pc = "daemonize"
  /\ IF conf.dont_daemonize THEN Goto("log") /\ UNCHANGED <<files, parent_pipe_fd>>
     ELSE \/ LET pipe == OpenLog(files, File("logpipe", 0))
             IN  /\ CanOpen(files, File("logpipe", 0))
                 /\ Goto("log")
                 /\ files' = [pipe.files EXCEPT ![pipe.fd] = File("other", 0)]
                 /\ parent_pipe_fd' = pipe.fd
          \/ Ends("refused") /\ UNCHANGED <<files, parent_pipe_fd>>
  /\ UNCHANGED <<conf, logonly, netonly, pluginvars, next, pid_fd, pid_exists, limits, ids, flags>>

\* The pid is written, and the log is opened unless this is a preflight check.
\* When the pid cannot be written, main() returns with everything left open.
OpenErrorLog ==
  /\ pc = "log"
  /\ \/ conf.preflight_check /\ Goto("defaults") /\ UNCHANGED <<logvars, netonly, pluginvars>>
     \/ /\ ~conf.preflight_check
        /\ LogOpen(0)
        /\ Goto("defaults") /\ UNCHANGED <<netonly, pluginvars>>
     \/ /\ ~conf.preflight_check
        /\ (LogOpen(-1) \/ LogOpenFails)
        /\ Goto("godown") /\ UNCHANGED <<netonly, pluginvars>>
     \/ pid_fd # -1 /\ Ends("refused") /\ UNCHANGED <<logvars, netonly, pluginvars>>
  /\ UNCHANGED <<conf, next, pidfile, limits, ids, flags>>

\* The way out after the log.
GoesDown ==
  /\ pc = "godown"
  /\ GoDown(files)
  /\ UNCHANGED <<conf, logonly, next, pidfile, limits, ids, flags>>

\* plugins_call_set_defaults.
SetDefaults ==
  /\ pc = "defaults"
  /\ \E k \in 0 .. Len(plugin_slots["set_defaults"]) :
       /\ Call("set_defaults", k)
       /\ Goto(IF "set_defaults" \in refused' THEN "godown" ELSE "keys")
  /\ UNCHANGED <<conf, logvars, netonly, next, pidfile, limits, ids, flags>>

\* The keys: the inner loop counts `i' and not `j', so that it looks at the first
\* key of a context for ever.  Unsupported and deprecated keys end the start-up,
\* the preflight check ends it well.  When the process that waits for the daemon
\* cannot be told, main() returns with everything left open.
Keys ==
  /\ pc = "keys"
  /\ ~conf.has_keys
  /\ \/ Goto("godown") /\ Stays /\ UNCHANGED pluginvars
     \/ conf.preflight_check /\ Goto("preflight") /\ Stays /\ UNCHANGED pluginvars
     \/ /\ ~conf.preflight_check /\ Goto("register")
        /\ files' = Shut(files, parent_pipe_fd) /\ UNCHANGED <<srv_sockets, leaked, quiet, pluginvars>>
     \/ ~conf.preflight_check /\ ~conf.dont_daemonize /\ Ends("refused") /\ Stays /\ UNCHANGED pluginvars
  /\ UNCHANGED <<conf, logonly, next, pidfile, limits, ids, flags>>

Preflight ==
  /\ pc = "preflight"
  /\ Ends("preflight")
  /\ FreePlugins
  /\ files' = Closing(files) /\ srv_sockets' = <<>>
  /\ UNCHANGED <<conf, logonly, leaked, quiet, next, pidfile, limits, ids, flags>>

\* fdevent_init, network_register_fdevents, stat_cache_init, the count of
\* descriptors (a descriptor that is opened and closed) and fcntl(): only the
\* second of them frees anything when it fails.
Register ==
  /\ pc = "register"
  /\ \/ Goto("loop") /\ srv_sockets' = Registered /\ UNCHANGED <<files, leaked, quiet, pluginvars>>
     \/ Ends("refused") /\ Stays /\ UNCHANGED pluginvars
     \/ GoDown(files)
  /\ UNCHANGED <<conf, logonly, next, pidfile, limits, ids, flags>>

-----------------------------------------------------------------------------
(***************************************************************************)
(* The main loop, as far as it is not the walk over the descriptors.       *)
(***************************************************************************)

\* A turn starts: the SIGHUP handlers of the plugins, whatever they answer.
Hup ==
  /\ pc = "loop" /\ ~srv_shutdown /\ handle_sig_hup
  /\ handle_sig_hup' = FALSE
  /\ \E k \in 0 .. Len(plugin_slots["handle_sighup"]) : Call("handle_sighup", k)
  /\ Goto("cycle")
  /\ UNCHANGED <<conf, logvars, netonly, next, pidfile, limits, ids, srv_shutdown, graceful_shutdown, hups>>

Cycle ==
  /\ pc = "cycle"
  /\ LogCycle
  /\ Goto("loop")
  /\ UNCHANGED <<conf, errorlog_mode, generation, netonly, pluginvars, next, pidfile, limits, ids, flags>>

\* handle_sig_alarm is never taken back: the triggers run whenever the second
\* changed.
Trigger ==
  /\ pc = "loop" /\ ~srv_shutdown /\ ~handle_sig_hup
  /\ \E k \in 0 .. Len(plugin_slots["handle_trigger"]) : Call("handle_trigger", k)
  /\ UNCHANGED <<conf, logvars, netonly, mainvars>>

\* Signals to the server: SIGHUP, SIGTERM, and SIGINT, which stops the loop when
\* it comes for the second time.
Signal ==
  /\ pc \in {"register", "loop", "cycle"}
  /\ \/ /\ hups < MaxHups /\ hups' = hups + 1
        /\ handle_sig_hup' = TRUE
        /\ UNCHANGED <<srv_shutdown, graceful_shutdown>>
     \/ /\ srv_shutdown' = TRUE
        /\ UNCHANGED <<hups, handle_sig_hup, graceful_shutdown>>
     \/ /\ srv_shutdown' = (srv_shutdown \/ graceful_shutdown)
        /\ graceful_shutdown' = TRUE
        /\ UNCHANGED <<hups, handle_sig_hup>>
  /\ UNCHANGED <<conf, logvars, netonly, pluginvars, pc, next, pidfile, limits, ids, outcome>>

Renamed ==
  /\ pc = "loop"
  /\ Rotate
  /\ UNCHANGED <<conf, netonly, pluginvars, mainvars>>

\* remove_pid_file: it is unlinked, which may fail, unless the server was confined
\* to a directory.
RemovePidFile ==
  /\ pid_fd' = -1
  /\ \/ UNCHANGED pid_exists
     \/ conf.pid_file /\ ~conf.changeroot /\ pid_exists' = FALSE

\* The end of main(): pid file, log, sockets, plugins.
Stop ==
  /\ pc = "loop" /\ srv_shutdown
  /\ Ends("stopped")
  /\ LET t == IF graceful_shutdown THEN files ELSE Shut(files, pid_fd)
     IN  LogClose(Closing(t))
  /\ IF graceful_shutdown THEN UNCHANGED <<pid_fd, pid_exists>> ELSE RemovePidFile
  /\ srv_sockets' = <<>>
  /\ FreePlugins
  /\ UNCHANGED <<conf, leaked, quiet, next, parent_pipe_fd, limits, ids, flags>>

Next ==
  \/ Options \/ Load \/ PidFile \/ Limits \/ Names
  \/ BindHost \/ Backend \/ Sockets \/ Privileges \/ Conns
  \/ InitPlugin \/ Daemonize \/ OpenErrorLog \/ GoesDown \/ SetDefaults \/ Keys
  \/ Preflight \/ Register
  \/ Hup \/ Cycle \/ Trigger \/ Signal \/ Renamed \/ Stop

Spec == Init /\ [][Next]_vars

-----------------------------------------------------------------------------
Serving == pc \in {"loop", "cycle"}

\* A server that was started by root and is to run as a user has neither root's
\* user, nor its group, nor its supplementary groups when it serves; with a group
\* only, its groups are not root's.  Whether it has the user's supplementary
\* groups is not said: a failing initgroups() leaves it without any.
PrivilegesGivenUp ==
  Serving /\ conf.root /\ HasGroup =>
    /\ ids.gid = "group" /\ ids.groups # "root"
    /\ HasUser => ids.uid = "user"

\* A server serves only with plugins that are all initialised and have all
\* accepted their defaults, each in the slots of its own functions and in the
\* order of the configuration.
ServesWithPluginsReady ==
  /\ SlotsInLoadOrder
  /\ Serving => /\ "set_defaults" \notin refused
                /\ Len(data) = Len(plugins)
                /\ \A n \in DOMAIN data : data[n] # "failed"

\* An ordinary stop leaves open no socket of the list and no log, and every
\* plugin with a cleanup has been called once, in order, unless one refused.
StopReleases ==
  outcome = "stopped" =>
    /\ \A d \in Fds \ {STDERR_FILENO} : files[d].kind \notin {"listen", "log", "logpipe"}
    /\ \A i, j \in DOMAIN cleaned : i < j => cleaned[i] < cleaned[j]
    /\ "cleanup" \notin refused =>
         ToSet(cleaned) = {n \in DOMAIN conf.modules : "cleanup" \in HooksOf[conf.modules[n]]}
=============================================================================
