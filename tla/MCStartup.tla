----------------------------- MODULE MCStartup -----------------------------
(***************************************************************************)
(* An instance of Startup: configurations that vary one subject at a time, *)
(* the log, the sockets, the names, the limits and the modules.            *)
(***************************************************************************)
EXTENDS Startup

MCHooksOf == [a |-> {"set_defaults", "cleanup", "handle_sighup"},
              b |-> {"cleanup", "handle_trigger"},
              c |-> {"set_defaults", "handle_trigger", "handle_sighup"},
              d |-> {"cleanup"}]

Token(id, kind) == [id |-> id, kind |-> kind]
Cond(token)     == [token |-> token, socket_eq |-> TRUE]
Plain(id)       == Cond(Token(id, "plain"))

Base ==
  [has_keys |-> FALSE, modules |-> <<"a">>, pid_file |-> FALSE, preflight_check |-> FALSE,
   event_handler |-> "poll", max_fds |-> 10, max_conns |-> 0,
   root |-> FALSE, username |-> "", groupname |-> "", changeroot |-> FALSE,
   bindhost |-> Token(0, "unix"), port_in_range |-> TRUE, sockets_disabled |-> FALSE,
   network_backend |-> "", conditions |-> <<>>,
   dont_daemonize |-> TRUE, errorlog_use_syslog |-> FALSE, errorlog_file |-> "",
   breakagelog_file |-> FALSE]

Logs ==
  {[Base EXCEPT !.errorlog_file = f, !.errorlog_use_syslog = u, !.breakagelog_file = b,
                !.dont_daemonize = d, !.pid_file = p, !.conditions = c] :
     f \in {"", "file", "pipe"}, u \in BOOLEAN, b \in BOOLEAN, d \in BOOLEAN, p \in BOOLEAN,
     c \in {<<>>, <<Plain(1)>>}}

Nets ==
  {[Base EXCEPT !.conditions = c, !.preflight_check = p, !.sockets_disabled = s,
                !.dont_daemonize = d, !.errorlog_file = "file"] :
     c \in {<<Plain(1), Plain(2), Plain(1)>>,
            <<Cond(Token(3, "bracket")), Plain(1), Cond(Token(4, "colon"))>>,
            <<[token |-> Token(1, "plain"), socket_eq |-> FALSE], Plain(2)>>},
     p \in BOOLEAN, s \in BOOLEAN, d \in BOOLEAN}
  \cup {[Base EXCEPT !.bindhost = Token(0, "colon")],
        [Base EXCEPT !.has_keys = TRUE],
        [Base EXCEPT !.network_backend = "sendfile"],
        [Base EXCEPT !.conditions = <<Plain(1)>>, !.port_in_range = FALSE]}

Names0 ==
  {[Base EXCEPT !.root = TRUE, !.username = u, !.groupname = g, !.changeroot = c, !.pid_file = TRUE] :
     u \in {"", "known", "root", "unknown"}, g \in {"", "known", "root", "unknown"}, c \in BOOLEAN}

Limits0 ==
  {[Base EXCEPT !.event_handler = e, !.max_fds = f, !.max_conns = c] :
     e \in {"poll", "select"}, f \in {5, 10}, c \in {0, 3, 9}}

Modules0 ==
  {[Base EXCEPT !.modules = m] :
     m \in {<<>>, <<"a", "b">>, <<"c", "a">>, <<"a", "a">>, <<"c", "b">>,
            <<"a", "b", "d">>, <<"c", "d", "c">>}}

MCConfigs == Logs \cup Nets \cup Names0 \cup Limits0 \cup Modules0
=============================================================================
