# A verification project for mylighttpd

This directory holds TLA+ models of the server in `src/` (a rewrite of the
lighttpd 1.4 core in C), TLC configurations that model-check them, and proofs
for TLAPS.  The code is read as it is built by `src/Makefile`
(`gcc -c -g`, no `-D`); where a part is under `#ifdef` (`USE_POLL`,
`HAVE_FORK`, ...) the text says so.

The server is unfinished: many handlers are empty, several backends do not
compile, and `force_assert` (mbuffer.h:66) calls `log_failed_assert`, whose
body is empty (mbuffer.c:94), so an assertion never stops the program.  The
models take the assertions as statements about the program, not as guards.

## 1. The system

A single-threaded event server.  `main()` (mserver.c) reads the configuration,
opens the listening sockets, loads plugins, optionally forks workers, and runs
a loop: look at the signal flags, poll the descriptors, call the handler
registered for every descriptor that is ready, then run the connections on the
job list.

| Component | State | Operations | Interacts with |
|---|---|---|---|
| Connection pool, mconnections.c | `srv->conns` (`ptr`, `size`, `used`), `con->ndx`, `con->fd`, `con->state`, `srv->cur_fds` | `connection_accept(ed)`, `connection_close`, `connections_get_new_connection`, `connection_del`, `connection_state_machine`, `connection_handle_read_state` | event core (register, unregister), kernel (accept, close), chunk queues, plugins |
| Event core, mfdevent.c, mfdevent_poll.c | `ev->fdarray`, `fdnode->events`, `ev->pollfds`, `ev->used`, `ev->unused`, an `fde_ndx` in every owner | register, unregister, event_set/add/clr/del, poll, next_fdndx, get_handler | main loop (walk), every owner of a descriptor |
| Main loop and processes, mserver.c | signal flags, `num_child`, `forwarded_sig_hup`, pid file, phases of start and stop | `signal_handler`, start-up, master loop, worker loop | everything |
| Chunk queues, mchunk.c | list of chunks with offsets, pool of chunks, `bytes_in`/`bytes_out`, `tempdir_idx` | append (file, memory, buffer), get/use_memory, steal, steal_with_tempfiles, mark_written, remove_finished, remove_empty, reset | file system (mkstemp, write, close), connections |
| Reading a request, mconnection_glue.c, mconnections.c:91-193 | `con->read_queue`, `con->parse_request`, `is_readable` | connection_handle_read, connection_handle_read_state | chunk queues, connection states |
| Arrays, marray.c, mdata_*.c | `data`, `sorted`, `used`, `size`, `unique_ndx`, `next_power_of_2` | get_index, insert, replace, extract, pop, get_unused, reset | configuration reader and parser |
| Stat cache, mstat_cache.c | splay tree of entries by hash of the name | get_entry, init, free | splay tree, file system |
| Splay tree, msplaytree.c | nodes with key, size, left, right | splay, insert, delete | stat cache |
| Log, mlog.c | log fd, mode | open, cycle, close, write | signals (SIGHUP) |
| Network set-up, mnetwork.c | `srv->srv_sockets` | network_init, network_register_fdevents, network_close | event core, configuration |
| Plugins, mplugin.c | plugin list, slot tables | load, call, free | connections |
| Configuration, mconfigfile.c, mconfigfile-glue.c, configparser.c, mstream.c | tokenizer position and flags, parser stack, contexts and their stack, options of the server | config_read, config_tokenizer, the parser's driver and its 43 actions, config_insert, config_set_defaults | arrays, start-up |
| Buffers, vectors, streams | size, used, bytes | copy, append | all |

`PROJECT.json` lists every component with what is modelled of it, and under
`hazards` what can go wrong in it that a test would hardly reach.  The
behaviours that make this code hard:

* one object is known under three names at once (slot in the pool, descriptor
  in `fdarray`, slot in `pollfds`), each recycled by its own rule while walks
  over them are under way;
* a handler changes registrations while the loop walks over the results of the
  last poll, and nothing clears a result but the next poll;
* chunks are recycled with fields of their past, and moving bytes into
  temporary files can fail at every write, with a retry in another directory;
* signals arrive between any two steps of the master and of its workers;
* the start-up opens, duplicates and closes descriptors in an order that depends
  on what is configured and on which call fails, and every number that is free
  again is the next to be handed out;
* tokenizer, parser and context stack each keep their own notion of where in the
  configuration they are, and an else block changes the identity of a context
  that is in an index already.

What makes the components correct: slots and back references agree and no
object is lost or shared (pool, event core); a ready descriptor gets its
handler called once, with what was reported (event core); bytes leave in the
order they came, none lost, and counters agree with the list (chunk queues);
children are counted, a stop reaches every worker, the log is reopened on
SIGHUP (processes); the index of an array is a permutation of its elements in
key order (arrays); a tree holds exactly the keys inserted, in order (splay
tree); an answer about a file is true of the second it is given in (stat cache);
the log writes to its own descriptor and to no other, the sockets are the ones
asked for, nothing of root is left when the first client is served (start-up);
what the server goes on with is what the file says (configuration).

## 2. Modules

| Module | Models | Checked by | Proved in |
|---|---|---|---|
| `ConnTable` | abstract: the connections in service and their descriptors | `Connections.cfg` (refinement) | |
| `Connections` | the pool, `fdarray` and `cur_fds` | `Connections.cfg` | `ConnectionsProofs` |
| `FdEventPoll` | registration, the poll backend, and the walk in `main()` | `FdEventPoll.cfg` through `MCFdEventPoll` | `FdEventPollProofs` |
| `ChunkQueue` | two chunk queues and every operation on them | `ChunkQueue.cfg`, `ChunkQueueReuse.cfg` | `ChunkQueueProofs` |
| `Workers` | the signal handler, the master's loop, forking, waiting, forwarding, stopping; the flags of the workers | `Workers.cfg`, `WorkersLive.cfg` | `WorkersProofs` |
| `ArrayTable` | abstract: a table from keys to contents | `ArrayIndex.cfg` (refinement) | |
| `ArrayIndex` | an array: slots, sorted index, the probes of the search, ownership of elements | `ArrayIndex.cfg`, `ArrayFull.cfg` through `MCArrayIndex` | `ArrayIndexProofs` |
| `SplayTree` | the splay, insertion and deletion, on nodes with links and sizes (operators) | with `StatCache` | |
| `StatCache` | lookups, collisions and the freeing of the cache, files and the clock changing | `StatCache.cfg` through `MCStatCache` | |
| `Descriptors` | the kernel's table of descriptors (external) | with `Startup` | `StartupProofs` |
| `Log` | opening, cycling and closing the log | with `Startup` | `StartupProofs` |
| `Network` | the listening sockets | with `Startup` | `StartupProofs` |
| `Plugins` | loading, the slot tables, calling a hook | with `Startup` | `StartupProofs` |
| `Startup` | composes the three: `main()` of a server without workers, start to end | `Startup.cfg` through `MCStartup` | `StartupProofs` |
| `ConfigTables` | the grammar and the packed tables of the parser (data) | with `ConfigRead` | `ConfigProofs` |
| `ConfigContext` | contexts, variables and what the actions do with them (operators) | with `ConfigRead` | `ConfigProofs` |
| `ConfigParser` | the parser's driver, its stack, and the actions of the 43 rules | with `ConfigRead` | `ConfigProofs` |
| `Tokenizer` | config_tokenizer | with `ConfigRead` | `ConfigProofs` |
| `ConfigParse` | composes the two: config_parse | with `ConfigRead` | `ConfigProofs` |
| `ConfigRead` | the stream, config_insert, the modules, config_set_defaults | `Config.cfg`, `ConfigDocumentRoot.cfg` through `MCConfigRead` | `ConfigProofs` |

`SetFacts` holds facts about numbers and functions that several proofs need:
least numbers, induction, recursion.

Definitions keep the names of the code.  A definition whose name ends in a
suffix after an underscore and whose comment begins "Faulty variant" is no part
of any specification: it is the definition below it with a plausible bug, and
`PROJECT.json` names the property that catches it.

### Connections

`ptr`, `size`, `used` are the members of `srv->conns`; `ndx`, `fd`, `state` are
functions from objects to the members of `connection`.  An object is named by
the slot it was allocated for, so `ptr` is a permutation as long as nothing is
lost.  `Accept(f)` is `connection_accept` and `connection_accepted` with the
descriptor `f` that the kernel returned, including the growth of the pool;
`AcceptThenClose(f)` is the path on which `fdevent_fcntl_set` fails and the
connection is closed within the same call; `CloseConnection(c)` is
`connection_close` with `connection_del`.  `SysClose` gives `close()` its three
outcomes: done; failed and the descriptor released; failed and still open.
`AcceptThenClose` is the only caller of `connection_close` in the repository
(the states that should call it are empty in `connection_state_machine`);
`CloseConnection` models the call for any connection in service, which is what
the function is written for.

What is open when the main loop starts is a constant, any set of descriptors
(`OpenAtStart`) with the listening sockets in it: `openDevNull` closes both
numbers it had when 0 was free, and a piped log closes one of its two, so there
may be free numbers below open ones.  `main()` takes the lowest free number for
the count (mserver.c:749), and so does `Init`.  `OtherOpen` and `OtherClose` are
what the rest of the server does with descriptors in between (the log that is
cycled, temporary files, files of the configuration); `others` are those it
holds.  `fdarray` has `MaxFds + 1` entries whatever the limit of the process
(`FdLimit`) is: `max_fds` is 4096 or what `select` allows, and the limit is read
under a misspelled `HAVE_GETRLMIT` (mserver.c:467).  `fdevent_register` does not
compare; `Overrun` is an accept of a descriptor beyond the array, and ends the
behaviour, because what it writes to is not known.

### FdEventPoll

`registered`, `events` are `ev->fdarray` and the events in its nodes; `fde_ndx`
is the slot number in the owner of each descriptor; `pollfds` and `unused` are
the arrays of the poll backend; `n` and `fd_ndx` are the locals of the walk
(mserver.c:826-849).  The calls a handler makes are steps between `Dispatch`
and `HandlerReturns`.  `Poll` is `poll(2)` with any answer the interface
allows.  A slot added during a walk beyond the first, zeroed chunk has
arbitrary results, because `realloc` leaves junk.

The handlers of the repository are stubs, so whether a handler may give up the
descriptor of another is left open: `drops_others`, chosen at the start.  The
backend keeps its slots consistent either way, but when it is TRUE the walk can
meet an emptied slot and look up `fdarray[-1]`: the state "fault", which
`NoFault` excludes when it is FALSE.  mfdevent_poll.c is under `USE_POLL`, and its error
messages name an undeclared `srv` (lines 53, 75, 84); the model takes the
branches they stand in.

### ChunkQueue

A chunk is a record of its type, bytes, offset, and for files the flags
`is_temp` and `fd != -1`.  A byte is the number of its arrival.  A chunk in the
pool is represented by its `offset`: that is all of its past that a later user
sees, since `chunk_reset` clears everything else.  `chunkqueue_steal_with_tempfiles`
is a loop of steps, one per `write()`; every other call is one action, and a
loop inside one is a function of the number of its turns (`Loop`), with the body of
the loop as an operator of its own (`WriteTurn`, `StealTurn`, `SweepTurn`,
`FinishedTurn`).
`stale` counts how often a recycled offset was used, so that a property can be
asked of the behaviours before that happens.  "fault" stands for what follows
from a null or dangling pointer or a wild descriptor.

### Workers

The processes are the master, number 0, and `Child`.  `pc` says where each is:
the master's labels are the places of mserver.c:667-717 between which a signal
or another process makes a difference (`check` the loop condition, `wait` the
moment before `wait()`, `blocked` inside it, `eintr` its return, `forward` and
`forwarded` around `kill(0, SIGHUP)`, `stop` and `cleanup` after the loop); a
worker is `boot` (between `fork()` and the reset of the pid file's name),
`loop`, or `zombie`.  The four flags are functions over the processes, because
`fork()` copies them.  `pending` is the kernel's: signals of a kind merge.
`Handle` is `sigaction_handler` and may run between any two steps.  A signal
that finds the master in `wait()` makes the call return, because the actions
for SIGTERM, SIGINT and SIGHUP are installed without `SA_RESTART`.

`status` is an `int` that nobody sets and that is passed to `wait()` for a
pointer (mserver.c:682-683).  Its value is chosen at the start: "null" (or any
address that can be written), with which `wait()` works, or "wild", with which
the kernel takes the worker and the call fails with EFAULT.

A turn of a worker's main loop is one step, `CycleLog` or `LeaveLoop`; polling
and connections are in the other modules.  The variables under "history" only
record what happened, for the properties.  The code is under `HAVE_FORK` and
`HAVE_SIGACTION`, which src/Makefile does not define, and would not compile as
it is (`act.sa_signal`, and `*pid_fd` on an `int`); the model takes what the
statements say.  The server without workers is not modelled here.

### ArrayIndex

`data`, `sorted`, `used`, `size`, `unique_ndx` are the members of `array`;
`elem` has the fields of every element, among them `owner`, which says who has
to free it ("nobody": the memory is free).  A call is several steps: `Put` or
`Find` up to the search, one `Probe` for every round of the loop in
`array_get_index`, and a last step for what the call does with the result.  The
locals of the search are the variables `lower`, `upper`, `ndx`, `target`.
Keys are numbers in the order of `buffer_caseless_compare`, which is total.
`IndexKey[n]` is the key `buffer_copy_int` makes of n; the instance lets these
collide with keys of the caller's and puts them in another order than the
numbers have, as with "10" and "9".  Text that is collected by
`data_string_insert_dup` is the set of elements whose text is in it.

`array_extract_element` works with two uninitialized positions, and `array_pop`
moves a number of bytes where it should move as many entries, so both leave the
index in disorder.  They are in `FullNext` and not in `Next`: the properties of
the index are stated and proved of the other operations, and what survives the
two is stated of `FullSpec`.  `array_pop` is modelled up to eight elements,
where its move reaches into one entry only.

### SplayTree and StatCache

`SplayTree` is msplaytree.c as operators on a memory `m` of nodes [key, size,
left, right] with NULL; `Descend` is the loop of `splaytree_splay`, `Assemble`
the end of it, `Resize` the two loops that recompute sizes along the pointers
that were not cut.  `StatCache` has `files` (the root), the entry of each node,
the clock `ts` and the files on `disk`; `lately` records what a file was in this
second.  A lookup is `Hit` or `Refresh`, or fails and changes the tree only by
the splay; `FreeBegins`, `FreeRoot`, `FreeEnds` are `stat_cache_free`, which
takes the size of a NULL root at the end (mstat_cache.c:70): "fault".  A name's
hash is a constant, so that two names can have one.  FAM is under `HAVE_FAM_H`
and not modelled; the check of a symbolic link is under `HAVE_LSTAT` and is not
either; no function of the repository calls `stat_cache_get_entry` yet, so the
life of an entry in the hands of a connection is not modelled.

### Descriptors, Log, Plugins, Network, Startup

`files` is the process's table of descriptors: `open`, `socket`, `pipe` and
`dup` take the lowest free number, as POSIX says, and fail when there is none
below the kernel's limit (`MaxFd`, EMFILE).  `Startup` goes through the
stages of `main()` in their order (`pc` names the stage); each call that can
fail does or does not.  `Log`, `Network` and `Plugins` say what a stage does to
their state.  What a plugin answers is open.

Where the code leaves a value undefined it is chosen: `network_init` and
`log_error_open` return nothing at their ends, `network_server_init` returns
`err` before it was set on its error paths (`Garbage`).  Where it does something
other than what was meant, the model does as well: `openDevNull` closes the
descriptor it opened when that was the lowest number (mlog.c:264); a host with a
port makes `network_server_init` write through NULL (mnetwork.c:57), and as
`network_init` always appends a port, the instance uses a host that begins with
a slash; `plugins_load` finds a module named twice and loads it again; a plugin
whose `init` failed is cleaned up with the others; a slot overruns its room when
more than `PLUGIN_FUNC_SIZEOF` plugins are loaded (`SlotSize` is 2 here); two
SIGINTs leave the pid file.

`GivenUp` is the set of the ids that giving up root's can lead to: after `setgid`
and `setgroups(0, NULL)`, which are checked, the result of `initgroups()` is not
(mserver.c:434), so the process has the supplementary groups of its user or none.

Two places keep the program from ever reaching its main loop, and what comes
after them is checked as if they did not: `config_set_defaults` refuses every
configuration (finding `config_docroot`), and the loop at mserver.c:620 does not
end when the global context has a key (`conf.has_keys`).  The parts under
`HAVE_PWD_H`, `HAVE_GETRLIMIT`, `HAVE_FORK` are taken as their statements say,
as in `Workers`.  `fdevent_open_cloexec` has no body and is taken as `open`.

### ConfigTables, ConfigContext, ConfigParser, Tokenizer, ConfigParse, ConfigRead

The configuration is modelled from its characters to the options of the server.
A file is a sequence of lines chosen as the tokenizer reaches them (`ReadLine`).
`Tokenizer` works on pieces, runs of letters or digits or one other character;
`ConfigParser` runs the packed tables of configparser.c, which `ConfigTables`
holds entry by entry, and has one action for every group of rules with the same
code.  A reduction by rule r is `Reducing(r)`; `Msp(i)` is `yymsp[i]`.
`ConfigContext` holds contexts as records with `parent`, `prev`, `next`, `key`,
`context_ndx` and the variables.  The `key` of a context is the path of
conditions that leads to it, for the properties; what the code has and compares
is its text, `KeyText`, in which two paths may be the same.  `ConfigRead` opens the stream, runs
`ConfigParse`, and goes on with `config_insert` (one step per context), the
completion of the list of modules, and `config_set_defaults`.

What the code does here, and the model with it:

* The tokenizer returns 1 at the end of the input as well, so a file without a
  syntax error is parsed for ever (`Feed`): only a file with one gets to
  `config_insert`, with the contexts in front of the error.  A failure of the
  parser is not reported (config_parse returns 0).
* `force_assert` stops nothing, so NULL is used after a failed allocation or a
  failed rule; `Crash` stands for memory that is not there: `vector_realloc` has no
  body, `data_array_init` leaves the key of an array as it is, an array
  without its index in order is searched.
* `array_extract_element` shifts the index at a position that was never set
  (marray.c:191-212).  Besides a crash and the right place, the model has every
  wrong one by what it leads to: some elements stay in their slots and are found
  by no search any more.  A context has the variables that are found (`value`)
  and those that are not (`lost`); `ctx.lost` is the same of the contexts in
  all_configs.  When an element is taken out of an array or put into a spoilt one,
  which are lost is chosen anew, at most `MaxLost` of them: a variable may come
  back, and when its name was given again meanwhile it may be what the new value is
  joined to (`Put`).  The choice is wider than the code's where the position would
  have to be a certain one.  An extraction does no harm where no position can:
  when there is no other element, or when the element comes back to one other.
* The key of a condition is one flat string (configparser.c:1350-1357): in
  `$HTTP["url"] == "x/HTTPurl==x"` the right side makes it the key of a block within
  another, which is then entered from where it does not lie.  The key of an else
  block is made by overwriting a character at a place that is counted with the
  right side as it was kept, not as it was written (`OppositeKey`): for a mask with
  a leading zero it is the wrong character.
* `data_array_init` does not set `is_index_key`, so an array may be put under a
  number in place of its name (`PutNew`).
* A shift beyond `YYSTACKDEPTH` empties the stack and the parser goes on
  (`overflowed`).  The instance has a depth of 14 in place of 100.
* `config_insert` takes strings and lists; its numeric kinds have no option that
  uses them and are left out.  The assignment for a comparison in
  mconfigfile-glue.c:99 reads anything but an array as one ("fault").
* Elements of a list with one key in two contexts are joined into one string, and
  a condition does not keep an option of the server from counting: both are only
  warned about.
* `include` of what has no value frees NULL; `config_parse_file`,
  `config_parse_cmd` and `http_request_host_normalize` have no bodies.
* doc/lighttpd.conf:246 sets `server.stat-cache-engine`; the code reads
  `server.stat_cache_engine`.

Left out: the vector `children` (the inverse of `parent`), regular expressions,
positions in lines, the truncation of `strtol` to `int`, what is printed.

## 3. Runs

| Run | Question | Bounds | Result |
|---|---|---|---|
| `connections` | do slots, descriptors, counters and the abstract table agree? | growth 2 (twice), limit 3 (so 4 connections), 7 descriptors, `fdarray` for 6, 1 and 3 open at the start (3 a listener), one failing close | holds |
| `fdevent_poll` | does the walk call each reported handler once, with what was reported, and do slots survive handlers that drop any descriptor? | 3 descriptors, one interest and hang-up, first chunk of 1 slot so that junk slots exist | holds |
| `chunkqueue` | is a byte ever lost, doubled or overtaken? | 3 bytes in pieces of up to 2, pool of 2, 2 directories, file limit 1 byte | holds |
| `chunkqueue_reuse` | do the counters agree with the list when a stale offset was used once? | 2 bytes, pool of 1 | holds |
| `workers` | are children counted, and do forwarded signals and the pid file stay with the master? | 2 workers out of 3 process numbers, 2 signals from outside, 1 death | holds |
| `workers_live` | does a SIGHUP reach every worker, a stop end the master (a graceful one the workers too), a death lead to a new worker? | 1 worker out of 2 numbers, 3 signals, 1 death | holds |
| `array_index` | is the index sorted and complete, the search right, the array a table? | 3 elements, 2 of them strings, 3 keys, 2 numbers, growth 2 | holds |
| `array_full` | is an element ever freed twice or lost, with extraction and pop? | 3 strings, 2 keys, no numbers, growth 2 | holds |
| `statcache` | does the tree keep every entry through every splay, and is an answer about the name asked for and true of this second? | 3 names, 4 hashes (two shared), 2 changes of a file or the clock | holds |
| `startup` | does the log keep to its descriptor, are sockets, plugins and ids as they should be when the server serves, is everything given back? | configurations that vary one subject at a time, 6 descriptors (so that they run out), 2 SIGHUPs, 2 rotations | holds |
| `config` | do tables and grammar, tokenizer and parser, contexts and blocks agree, and does the server go on with what the file says? | files of lines whose costs sum up to 6 (a block 1, a line 2, an unusual one 4, options 5), stack of 14, one element of an array lost at a time, one working directory | holds |
| `config_docroot` | is a document root that the file sets taken? (mconfigfile.c:702) | as `config` | violated: finding |

Why the bounds are enough.  *connections*: the pool grows twice (0, 2, 4) with
connections in service in between; with four in service the swap in
`connection_del` has a first, a middle and a last position; one failed close is
enough to separate `cur_fds` from the open descriptors.  Of the descriptors 0 to
6, two with a hole before and between them are open at the start, other parts
open and close some, and the last is beyond `fdarray`.  *fdevent_poll*: three
descriptors give a ready slot before, at and behind the position of the walk,
one of which is given back and taken by another descriptor.  *chunkqueue*:
three bytes give a chunk that is consumed in part and one behind it; with a
file limit of one byte a file is replaced when it is larger, and two
directories give one retry.  *workers*: two workers are enough for one to die
or be forked while the other is signalled, and a third number for a new worker
before an old one is gone; two signals give every pair (a SIGHUP with a stop, two
SIGINTs, two SIGHUPs around a forwarded one); a third signal in
`WorkersLive.cfg` adds the stop after them.  *array*: three elements give an
insertion in front, in the middle and behind, a search of two rounds on either
side, and one growth with elements in use; two numbers give one that collides
and one after it.  *statcache*: three names, of which two share a hash with and two without
`follow_symlink`, give a tree of up to three nodes in every shape, so that each
rotation and each way to put the parts together happens, and a collision in a
tree with another entry; two changes are one of a file and one of the clock, in
either order.  *startup*: each subject (log, sockets, names, limits, modules) is
varied with the others at a base, because they meet in the descriptors only, and
those meet in the variants of the log (with a pid file, a socket and a daemon).
*config*: six blocks in or after each other, or two in a row with a line inside,
or one and an unusual line; the depth of 14 is reached within that budget.  One
of the unusual lines has the key of a nested block, one has a mask whose key is
spoilt, and an else block or a += after other variables makes an element of each
kind of array lost.  `MaxLost` is 1: each action looks at the elements of an array
one by one, so a second that is lost at the same time would meet it in the same way;
the theorems are about any number.
`MaxQueued` keeps `dst` short when a move into
files starts; `MaxStale` ends a behaviour after that many uses of a stale
offset.

Deadlock is checked except where the system really may stop: in
`Connections.cfg`, where an overrun of `fdarray` ends the behaviour; in
`FdEventPoll.cfg` and the `ChunkQueue` runs, where "fault" and, in
`ChunkQueue`, a used stale offset end the behaviour; in the `Workers` runs,
where the master and its workers end; in the array runs, where "fault" or
used-up elements end it; and in `statcache`, `startup` and the `config` runs,
where the program ends, exits or has crashed.

Fairness.  Safety is checked without it.  `Workers` assumes weak fairness of
the delivery of signals to each process (the kernel delivers a pending signal to
a process that it schedules), of the master's steps and of each worker's (the
scheduler runs a process that can run; a worker's turn always ends, since
`fdevent_poll` is called with a timeout of 1000 ms).  No fairness is assumed of
signals from outside, of deaths or of `fork()` failing.  `ArrayIndex` assumes
weak fairness of the steps of a search, and `FairReadSpec` of the parser's
step: sequential code runs on.  Liveness of the other components is not stated: their handlers are stubs, and nothing in
the repository makes a client read or write.

## 4. Findings

* `config_docroot` (mconfigfile.c:402): no option `server.document-root` is among
  those that `config_insert` takes, so `config_set_defaults` refuses every
  configuration with "a default document-root has to be set", also one that sets
  it as doc/lighttpd.conf:115 does.

Statements of the code that the models contradict.  Each is a definition that no
run lists; put it in place of the properties of the configuration named, and TLC
shows the behaviour.

| Statement | Definition | Configuration | What happens |
|---|---|---|---|
| mserver.c:512: at most fds/2 connections | `Connections!ConnectionLimit` | `Connections.cfg` | mconnections.c:229 compares with the configured number, and with `>` |
| mchunk.c:115: `len >= c->offset` | `ChunkQueue!OffsetInChunk` | `ChunkQueueReuse.cfg` | `chunk_reset` keeps the offset: a chunk from the pool skips bytes of its next content |
| mchunk.c:402: close() failed | `ChunkQueue!CloseMessageTrue` | `ChunkQueueReuse.cfg` | a close() that succeeded is reported, one that failed is not |
| marray.c:190: removes the entry | `ArrayIndex!ExtractRemoves` | `ArrayFull.cfg` | the index is shifted at a position that was never set |
| mstat_cache.c:173: the tree grew by one | `StatCache!InsertCounted` | `StatCache.cfg` | the sizes are recomputed along links that were not cut |
| config_skip_comment: it stands at a # | `ConfigParse!SkipsOnlyComments` | `Config.cfg` | after a newline in parentheses it skips the line that follows |

What the code does and no document speaks of is in the hazards: after SIGTERM
the master sends its workers SIGINT, which they take for the first of two and
ignore, so they go on without it (mserver.c:705); a stop may go unnoticed until
a worker ends (mserver.c:670); a wild `status` loses a worker for good (mserver.c:683);
a configuration without a syntax error is parsed for ever (mconfigfile.c:337);
a descriptor beyond `fdarray` is written to other memory (mfdevent.c:202); `+=` may
hide a variable for good (marray.c:209), and an option that is hidden is not used;
a right side may make one block the other of two (configparser.c:1357).

## 5. Proofs

Eight modules hold proofs, and tlapm checks them to the last leaf:
`ConnectionsProofs`, `ArrayIndexProofs`, `WorkersProofs`, `FdEventPollProofs`,
`StartupProofs`, `ConfigProofs`, `ChunkQueueProofs`, and `SetFacts`, which the
others use.  They follow one pattern: an inductive invariant, one lemma for each
action (or group of actions with the same effect) that it keeps it, the theorem
that it always holds, and one theorem for each property that follows from it.
The theorems are about every value of the constants that satisfies the
assumptions named here; each run evaluates these for its instance.

| Property of a run | Theorem |
|---|---|
| `NdxConsistent`, `PoolKeepsObjects`, `RoutesToOwner`, `FdAccounting`, `ImplementsTable` of `Connections` | `PoolCorrect`, `ObjectsCorrect`, `RoutesCorrect`, `AccountingCorrect`, `Implementation` |
| `IndexSorted`, `SearchRight`, `OwnedOnce`, `SearchNarrows`, `ImplementsTable` of `ArrayIndex` | `IndexCorrect`, `SearchCorrect`, `OwnershipCorrect`, `SearchTerminates`, `Implementation` |
| `ChildrenCounted`, `ForwardedOnce`, `PidFileKept` of `Workers` | `CountingCorrect`, `ForwardingCorrect`, `PidFileCorrect` |
| `SlotsConsistent`, `WalkComplete`, `NoFault`, `DispatchReported` of `FdEventPoll` | `SlotsCorrect`, `WalkCorrect`, `FaultFree`, `DispatchCorrect` |
| `PrivilegesGivenUp`, `ServesWithPluginsReady`, `LogHasItsDescriptor`, `LogFollowsRotation`, `SocketsListen`, `StopReleases` of `Startup` | `PrivilegesCorrect`, `PluginsCorrect`, `LogCorrect`, `RotationCorrect`, `SocketsCorrect`, `StopCorrect` |
| `Accounting`, `InOrder`, `NothingLost` of `ChunkQueue` | `AccountingCorrect`, `OrderCorrect`, `NothingLostCorrect` |
| `StackFitsRule`, `ModesAgree`, `ContentKept`, and `Distinct`, `DependsOnEarlier` in `ContextsFormTree`, of `ConfigParse` | `StackCorrect`, `ModesCorrect`, `ContentKeptCorrect`, `TreeCorrect` |
| `StreamReleased`, `OptionsTaken`, `ModulesComplete` of `ConfigRead` | `StreamCorrect`, `OptionsCorrect`, `ModulesCompleteCorrect` |

*Connections.*  Assumptions: `PoolAssumption` (limit and growth are numbers,
growth is not 0) and `FdAssumption` (the limit of the process and the length of
`fdarray` are numbers, and what is open at the start lies below that limit, the
listening sockets among it), both stated in `Connections`.  Nothing relates the
two numbers, and the descriptors of the start may have any holes.  The safety
properties are the conjuncts of `IInv`, with `PoolBound` (how far the pool can
grow, without which the type of `size` is not inductive) and `OthersOpen` (the
listeners are open, and so is what other parts hold: the kernel gives none of it
to a connection).  `AccountingCorrect` does not say that `cur_fds` is the number of
open descriptors, which the code does not provide: it says what the count is made
of, what may be open besides connections and other parts, and when `fdarray` is
overrun; `RoutesCorrect` holds up to there.  None of `NdxConsistent`, `PoolKeepsObjects` and `RoutesToOwner` is
inductive alone: the swap in `connection_del` keeps the objects apart only when
`ndx` is right, and leads back to the right one only when no two slots hold the
same.  `PoolKeepsObjects` follows because an object is named by a slot: `ptr` maps
`size` slots into `size` objects and no two to one.  `Implementation` shows that
each step is one of `ConnTable`'s.

*Arrays.*  Assumptions: elements and keys are numbers, `IndexKey` gives a key
for every number, growth is not 0.  `IInv` adds to the properties what a search
knows while it is under way (`RangeOK`: keys in front of the range are smaller,
keys behind it greater) and what a call knows of the element it was given
(`CallOK`: it belongs to the caller and has the key that is looked for).
Without the first, the position that a failed search gives is any number;
without the second, an insertion could put in an element that is in a slot
already.  The longest proof is `InsertIInv`, the shift of the index:
order and completeness are shown for the entries in front of, at and behind the
new one.  `SearchTerminates` is the measure of the search, an action property.
`Implementation` shows that the array implements `ArrayTable`.  `Rows` is the
table the array stands for; its rows are the elements in use, because no two of
them have a key in common (`HolderIsElement`, from `IndexSorted`), so a step is
looked at element by element: it leaves keys and values of all elements in use
alone (`SameRows`), changes those of the key that is looked for (`RowChanges`), or
is `Reset`.  The theorems are about `Spec`, without extraction and pop.

The type invariants, `PooledIsIdle` of the pool and `SearchSafe` of the array are
part of `IInv` and proved; no run lists them.

*Chunk queues.*  `LimitsAssumption` is the only assumption (the pool, the number
of directories and the pieces are numbers, the first three not 0); chunks may be of
any size, queues of any length.  What is in a queue is a function by recursion over
its chunks, and so is what a loop of mchunk.c makes of it; the proofs go by
induction over chunks and turns.  Each operation is described by its effect on
the counters and on the bytes of a queue: it leaves both (`SameBytes`), puts a
chunk at the end (`Appended`), takes bytes off the front (`Taken`), or takes them
from the front of one queue to the end of another (`Moves`); a loop has the effect
because each turn has it and the turns there can be are enough to finish it.
`Accounting` follows from the effects alone.  For `InOrder` and
`NothingLost` the invariant must say what is on its way while a move into temporary
files stands between two calls of `write()`: the first `piece` bytes of `src` are
taken off it only when the last of them is written; `todo` are those that are not
written yet, the others are in `dst` already.  `Pending` (what went out, `dst`,
`todo`, `src` behind `piece`) is in order what arrived until a move is given up; as
the bytes of `todo` are still in `src`, giving up makes some stand twice and none
be missing.  Both are about behaviours without a recycled offset
(`Clear`), `Accounting` is about all.

*Workers.*  Assumption: `MaxWorker` is a number greater than 0 and no more than
there are process numbers, the master is none of the workers.  `ForwardedOnce`
says that the master forwards no more SIGHUPs than came from outside, although
`kill(0, SIGHUP)` sends one to the master itself each time.  It is not inductive:
`ForwardsPaid` is, an account in which every SIGHUP from outside pays for one that
was forwarded, is about to be, was seen or is pending; the one that comes back is
paid by `forwarded_sig_hup`, which is set only around the call (`FlagOnlyAround`)
and never in a worker that runs (`WorkersUnflagged`).  `PidFileKept` needs that a
worker in its loop has forgotten the name (`LoopForgot`).

*FdEventPoll.*  Assumptions: -1 is no descriptor, hang-up is not an interest, the
chunk is not empty.  `SlotsConsistent` needs that the slots are numbered without a
gap and that `unused` holds each empty slot once.  The walk is the harder part:
handlers empty and fill slots while results are being handed out.  `WalkCounts`
says that there is a number m, the slots there were when poll(2) answered, such
that n counts the slots below m with a result which the walk has still to come to;
every descriptor that waits is in one of them with what was reported for it, and,
as long as handlers drop only their own descriptor, none of them is empty.
`NoFault` and `WalkComplete` follow: the walk ends exactly when nothing waits.

*Startup.*  Assumptions: the kernel's limit is at least 2 (`MaxFd`), the four
server hooks are hooks and each plugin's are a set of them, there is a slot for a
function at least, `SelectLimit` and `MaxHups` are numbers, configurations have the
form that `ConfigsAssumption` gives them.  There are three invariants that do not need each
other, for ids, plugins (`PluginInv`: how many are loaded and initialised at each
stage) and descriptors (`TableInv`).  The last says who owns which number at each
stage: the pid file, the pipe to the parent, the sockets and the log know only
their own numbers, so what keeps them apart is what stands at a number
(`SocketsOwned`, `LogOwned`, `FilesHeld`); the duplicates of `log_error_open` are
followed through `openDevNull` and `dup2`.

*The parser.*  What the packed tables contain is stated by the assumptions of
`ConfigTables` (`TablesFitGrammar`, `RulesNest`, `AcceptsAtEnd`,
`StatesOfConditions`, `BelowUnfolds`, `SymbolsNumbered`; `NoErrorRule` is why
`SyntaxError` clears the whole stack).  They speak
of literal tables and of no parameter or variable, and TLC evaluates them to
TRUE when it starts a run: for these tables they are facts, which the provers,
unlike TLC, cannot compute.  The proofs turn them into statements about stacks of any
height: `StackInv` says that the stack is a path through the automaton from state
0 (`Route`), that nothing on it is NULL while `ctx->ok`, and that tokens are tokens of
the grammar.  By `HandleOnTop` the right side of a rule is then on top of the stack
whenever the parser reduces by it.  `StackAssumption` only says that YYSTACKDEPTH
is a number greater than 0.  Files are arbitrary: what is assumed of the input is that
`Directories` and `OtherFiles` are apart (`FileSystem`) and that lines and the values
of the environment are texts (`LinesAssumption`, `EnvAssumption`), and so is the
working directory (`CwdsAssumption`).

*The contexts.*  `TreeCorrect` is about every file, those included in which keys of
different paths collide or an else block spoils the index of all_configs.  `TreeInv`
has three parts.  `ContextsFit`: each context has the number of the place where it
came in, its parent and the condition it is the else of have smaller ones, and of
the contexts that the index leads to each has a text of its own (`TextsFit`).  The
last survives a wrong index because an insertion only follows a search that found
no such text, and what the index leads to afterwards are contexts with texts of their
own once more (`Hides`).  `MinorsFit`: a condition on the parser's stack is a
context.  `BlocksCounted`: one entry of configs_stack for each opener, unless the
stack has overflowed.  That the condition of an else came before its block is what
the rule looks at (`Unreachable`): the mutant that does not breaks the property, since
a condition that is entered again may be older.  What makes an open block lie in the
block around it is the key alone, so `LiesInItsBlock` is asked only of behaviours that
are `straight`: the index of all_configs was always in order, and each condition that
was entered again had the path it was looked up with.

*The modes.*  `ModesAgree` compares tokenizer and parser, which are one token apart:
`ModesInv` says what in_brace and in_cond are with the token that is pending.  A
reduction takes parentheses in pairs (`RestOpened`) and an operator with its $
(`RestWaits`); that no condition begins in the left side of another, so that the
one that waits is the last, is once more a fact about the automaton
(`WaitsInLeftSide`).

*The values.*  `ContentKept` (a variable keeps what it was given) is about the actions
of `varline`, which look a variable up along the contexts, take a copy or the thing
itself, merge it and put it back.  A sum extends its first part only when both parts
are what their type says, and that is what the symbol on the stack stands for: `DataInv`
says that a token has a text, an expression a value, a list in parentheses a list
(`MinorFits`), that what the contexts hold are values (`VariablesFit`), and that what is
left of the file is text (`TextFits`).  A line that spoils the index of a context
hides some of its variables; they are still among its elements, and that is what is
proved, of each context whose index was in order before the line.  Of one whose index
was not, nothing is promised: a variable that comes back may meet one of its name and
be joined to it, as a text or not at all.  That the tokenizer's searches come to
an end is `JumpExists`, a function that goes on at a later place until it may stop.

*The options.*  `OptionsInv` says what srvconf holds after the contexts 1 .. n (`Options`):
of an option that is a string, the value of the last of them that sets it; of a list,
every element of all of them, if only as a part of an element (`Covers`), because
two elements with the same key are joined.  The strings `config_insert` takes from a list
must fit their type, which `DataInv` does not promise: a list may hold numbers and
lists.  It is a number or a list in a list that makes `config_insert` fail, so the
invariant has it for the contexts that were taken (`StringsFit`), and only of these
`OptionsTaken` speaks.  The list of modules then gets those that are always loaded.
For their order it must be known where an element came from (`Named`, and `Complete`
after that): from a context, or joined, and a joined element is the name of no module
because it has a line break in it.  The last steps take the directories for uploads
one by one (`DirsThere`).  `OptionsInv` is about the options that the index of each
context leads to; `OptionsTaken` speaks of an option only when no context hides it
(`Hidden`), and then those that are found (`FoundIn`) are all there are (`Setting`).

Only model-checked:

* liveness under fairness (`HupReachesWorkers`, `StopAfterReap`, `WorkersReplaced`,
  `GracefulStop`, `SearchEnds`, `TokenDigested`), which is beyond the prover, as is
  `ENABLED`;
* `LiesInItsBlock`, the part of `ContextsFormTree` that says where an open block
  lies, as long as no keys collide and the index of all_configs is in order;
* `StatCache` (`TreeHoldsEntries`, `AnswerTrue`): a splay is a `RECURSIVE` operator,
  and the prover cannot be used in a module that reaches one;
* `OwnedOnce` of `FullSpec`, with extraction and pop: its proof in `Spec` goes
  through the order of the index, which those two destroy.

## 6. Plan, and what is not modelled

To come:

1. *Theorems*: `LiesInItsBlock`, for behaviours that are `straight`; `OwnedOnce` of
   `FullSpec`, with an invariant that does without the order of the index; the splay tree, with its operators as functions.
2. *Reading a request*: `connection_handle_read_state` and the states of
   `connection_state_machine`, with what a recycled connection keeps.  No
   execution gets there as the code stands: `main()` runs the state machine for the
   connections on `srv->joblist` (mserver.c:851), which nothing fills; `con->read_queue`
   is NULL from `connection_init` on, because nothing calls `chunkqueue_init`; and
   `is_readable` is set only by the read it guards.  Whatever a model chose in their
   place, the search for the end of a header (mconnections.c:132-157) gives up after
   one matching byte, so no request would leave `CON_STATE_READ` but as oversized or
   failed.  What the read does to its queue, chunkqueue_get_memory and
   chunkqueue_use_memory, is in `ChunkQueue`.

Not modelled:

* The backends that do not compile or are stubs (select, epoll, kqueue, libev,
  devpoll, port) and the write backends (stubs).
* Buffers (mbuffer.c): character data; what the models need of it is in the
  keys, names and texts they use.
* Vectors (mvector.h): their growth has no body; its effect is `MustGrow`.
* `lemon.c` and `lempar.c`: the parser generator is third-party code that runs
  when the program is built.  Its product, configparser.c, is modelled.
* `log_error_write` beyond where it writes to: it changes no state.
* TLS, FAM, syslog and regular expressions, which the build has not.
