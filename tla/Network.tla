------------------------------ MODULE Network ------------------------------
(***************************************************************************)
(* The listening sockets of mnetwork.c: network_server_init with each of   *)
(* its system calls failing, network_init, network_register_fdevents and   *)
(* network_close.                                                          *)
(*                                                                         *)
(* A socket is asked for by a token: the bind host with the port, or the   *)
(* value of a $SERVER["socket"] condition.  Of a token matters how it is   *)
(* written: "unix" starts with a slash, "colon" has a port, "bracket" is   *)
(* in square brackets and "plain" is none of these.                        *)
(***************************************************************************)
EXTENDS Log, Sequences

VARIABLES
  srv_sockets,    \* the server_sockets: token, descriptor, registered or not
  leaked,         \* history: descriptors that error_free_socket left open
  quiet           \* history: no socket was asked of the kernel

netvars == <<srv_sockets, leaked, quiet>>

Tokens == [id : Nat, kind : {"unix", "colon", "bracket", "plain"}]

ServerSocket(token, fd) == [token |-> token, fd |-> fd, registered |-> FALSE]
Listed == {srv_sockets[i] : i \in DOMAIN srv_sockets}

NetworkTypeOK ==
  /\ \A s \in Listed : s.fd \in Fds \cup {-1} /\ s.registered \in BOOLEAN
  /\ leaked \subseteq Fds
  /\ quiet \in BOOLEAN

NetworkInit == srv_sockets = <<>> /\ leaked = {} /\ quiet = TRUE

\* `sp' is set to NULL instead of the last colon, and sp + 1 is then read.
Faults(token) == token.kind = "colon"

\* The host is a Unix domain socket, the port is out of range, or the host has
\* no IPv4 address; what is in brackets never has one.
Rejectable(token) == token.kind # "colon"
Resolvable(token) == token.kind = "plain" /\ conf.port_in_range

\* srv_socket_append.
Listen(token) ==
  /\ ~conf.preflight_check /\ ~conf.sockets_disabled
  /\ HasRoom(files)
  /\ files' = Opened(files, File("listen", token.id))
  /\ srv_sockets' = Append(srv_sockets, ServerSocket(token, Lowest(files)))
  /\ quiet' = FALSE
  /\ UNCHANGED leaked

AppendDisabled(token) ==
  /\ ~conf.preflight_check /\ conf.sockets_disabled
  /\ srv_sockets' = Append(srv_sockets, ServerSocket(token, -1))
  /\ UNCHANGED <<files, leaked, quiet>>

\* socket() failed: nothing to free.
SocketFails ==
  /\ ~conf.preflight_check /\ ~conf.sockets_disabled
  /\ UNCHANGED <<files, srv_sockets, leaked, quiet>>

\* setsockopt(), bind() or listen() fails, or TLS was asked for: error_free_socket
\* frees the structure and closes nothing, as fde_ndx is still -1.
\* Faulty variant of the caller's view: the freed structure stays in the list.
ListenFails_Listed(token) ==
  /\ ~conf.preflight_check /\ ~conf.sockets_disabled
  /\ HasRoom(files)
  /\ files' = Opened(files, File("other", 0))
  /\ srv_sockets' = Append(srv_sockets, ServerSocket(token, Lowest(files)))
  /\ leaked' = leaked \cup {Lowest(files)}
  /\ quiet' = FALSE

ListenFails(token) ==
  /\ ~conf.preflight_check /\ ~conf.sockets_disabled
  /\ HasRoom(files)
  /\ files' = Opened(files, File("other", 0))
  /\ leaked' = leaked \cup {Lowest(files)}
  /\ quiet' = FALSE
  /\ UNCHANGED srv_sockets

NothingOpened == UNCHANGED <<files, srv_sockets, leaked, quiet>>

\* network_server_init, which answers err.  On its error paths err was never
\* set, except in the preflight check, which stops there on purpose.
NetworkServerInit(token, err) ==
  \/ /\ Rejectable(token) /\ err \in Garbage /\ NothingOpened
  \/ /\ Resolvable(token)
     /\ \/ /\ conf.preflight_check /\ err = 0 /\ NothingOpened
        \/ /\ err = 0 /\ (AppendDisabled(token) \/ Listen(token))
        \/ /\ err \in Garbage /\ (SocketFails \/ ListenFails(token))

\* The conditions of network_init ask for a socket unless the list has the token.
Wanted(c) == c.socket_eq /\ \A s \in Listed : s.token # c.token

\* The choice of a backend: only "write" has one in this build.
BackendKnown == conf.network_backend \in {"", "write"}

\* network_close closes the sockets of the list, in files t.
\* Faulty variant: only those that are not registered.
Closing_Unregistered(t) ==
  [d \in Fds |-> IF \E s \in Listed : s.fd = d /\ ~s.registered THEN Closed ELSE t[d]]

Closing(t) == [d \in Fds |-> IF \E s \in Listed : s.fd = d THEN Closed ELSE t[d]]

Registered == [i \in DOMAIN srv_sockets |->
                 [srv_sockets[i] EXCEPT !.registered = ~conf.sockets_disabled]]

-----------------------------------------------------------------------------
\* Every socket of the list is open, listens for its own token, has a descriptor
\* of its own and is the only one for that token, whatever failed before it was
\* reached and however many conditions name it; the preflight check asks the
\* kernel for none.
SocketsListen ==
  /\ \A s \in Listed : s.fd # -1 => files[s.fd] = File("listen", s.token.id)
  /\ \A i, j \in DOMAIN srv_sockets :
       /\ srv_sockets[i].token = srv_sockets[j].token => i = j
       /\ srv_sockets[i].fd = srv_sockets[j].fd => i = j \/ conf.sockets_disabled
  /\ conf.preflight_check => quiet
=============================================================================
