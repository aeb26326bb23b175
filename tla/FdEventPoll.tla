----------------------------- MODULE FdEventPoll -----------------------------
(***************************************************************************)
(* The event core: the registration table of mfdevent.c, the poll(2)       *)
(* backend of mfdevent_poll.c, and the dispatch loop of main() in          *)
(* mserver.c that runs over them.                                          *)
(*                                                                         *)
(* Every descriptor with an interest has a slot in the array `pollfds'     *)
(* that is handed to poll(2); its owner keeps the number of the slot in an *)
(* fde_ndx of its own.  Slots that were given back wait on the stack       *)
(* `unused' for the next descriptor.  After poll(2) the main loop walks    *)
(* over the slots with a result and calls the handler registered for the   *)
(* descriptor in the slot; the handler changes registrations and slots     *)
(* while the walk is under way, and nothing clears a result but the next   *)
(* poll(2).                                                                *)
(*                                                                         *)
(* Slots are numbered from 0, as in the code.  A handler is a sequence of  *)
(* calls into mfdevent.c between Dispatch and HandlerReturns.  The         *)
(* handlers of the repository are stubs; the model lets them do anything a *)
(* handler may do with its own descriptor and with descriptors it opens.   *)
(* Whether one may also drop the descriptor of another is drops_others,    *)
(* which the program that is written on top decides once: the dispatch is  *)
(* sound only when none does (see NoFault), the slots are either way.      *)
(* Between two walks the server may touch every descriptor.                *)
(***************************************************************************)
EXTENDS Integers, Sequences, FiniteSets

CONSTANTS
  Fds,        \* descriptors
  Interests,  \* what a descriptor can wait for: FDEVENT_IN, FDEVENT_OUT
  Hup,        \* what poll(2) reports without being asked
  Chunk       \* slots of the first, zeroed allocation; 16 in the code

ASSUME FdAssumption == -1 \notin Fds
ASSUME ChunkAssumption == Chunk \in Nat \ {0}
ASSUME HupAssumption == Hup \notin Interests

VARIABLES
  drops_others, \* may a handler drop a descriptor that is not its own?
  registered, \* the descriptors with a node in ev->fdarray
  events,     \* fdnode->events of every descriptor
  fde_ndx,    \* the slot number the owner of every descriptor keeps
  pollfds,    \* slot -> [fd, events, revents], for the slots 0 .. used-1
  unused,     \* ev->unused: stack of the slots given back
  pc,         \* where the main loop is
  n,          \* results of the walk still to come
  fd_ndx,     \* slot the walk is at, -1 before the first
  self,       \* descriptor whose handler runs
  reported,   \* history: what the last poll(2) said of every registration
  pending     \* history: descriptors it reported that no handler has seen yet

fdVars   == <<registered, events, fde_ndx, pollfds, unused>>
loopVars == <<pc, n, fd_ndx, self>>
vars     == <<drops_others, fdVars, loopVars, reported, pending>>

used    == Cardinality(DOMAIN pollfds)
Results == SUBSET (Interests \cup {Hup})

TypeOK ==
  /\ drops_others \in BOOLEAN
  /\ registered \subseteq Fds
  /\ events \in [Fds -> SUBSET Interests]
  /\ fde_ndx \in [Fds -> Int]
  /\ pollfds \in [0 .. used - 1 ->
                    [fd : Fds \cup {-1}, events : SUBSET Interests, revents : Results]]
  /\ unused \in Seq(0 .. used - 1)
  /\ pc \in {"main", "walk", "handler", "fault"}
  /\ n \in 0 .. used
  /\ fd_ndx \in -1 .. used - 1
  /\ self \in Fds \cup {-1}
  /\ reported \in [Fds -> Results]
  /\ pending \subseteq registered

Init ==
  /\ drops_others \in BOOLEAN
  /\ registered = {}
  /\ events = [f \in Fds |-> {}]
  /\ fde_ndx = [f \in Fds |-> -1]
  /\ pollfds = [k \in 0 .. -1 |-> 0]
  /\ unused = <<>>
  /\ pc = "main" /\ n = 0 /\ fd_ndx = -1 /\ self = -1
  /\ reported = [f \in Fds |-> {}]
  /\ pending = {}

-----------------------------------------------------------------------------
(***************************************************************************)
(* Calls into mfdevent.c, from a handler or from the rest of the loop.     *)
(***************************************************************************)
Running == pc \in {"main", "handler"}

\* Faulty variant: a handler may give up any descriptor.
MayDrop_Any(f) == TRUE

\* A handler gives up its own descriptor, or one that has no slot yet.
MayDrop(f) == \/ pc = "main"
              \/ drops_others \/ f = self \/ fde_ndx[f] = -1

\* fdevent_register, for a descriptor the kernel has just handed out.
Register(f) ==
  /\ Running
  /\ f \in Fds \ registered
  /\ registered' = registered \cup {f}
  /\ events' = [events EXCEPT ![f] = {}]
  /\ fde_ndx' = [fde_ndx EXCEPT ![f] = -1]
  /\ reported' = [reported EXCEPT ![f] = {}]
  /\ UNCHANGED <<pollfds, unused, pending, loopVars>>

\* Faulty variant: the slot is taken but left on the stack.
TakeUnused_Kept(f, want) ==
  LET k == unused[Len(unused)] IN
  /\ unused # <<>>
  /\ pollfds' = [pollfds EXCEPT ![k].fd = f, ![k].events = want]
  /\ fde_ndx' = [fde_ndx EXCEPT ![f] = k]
  /\ UNCHANGED unused

\* fdevent_poll_event_set on a slot from the stack.  The revents of its former
\* owner stay in it.
TakeUnused(f, want) ==
  LET k == unused[Len(unused)] IN
  /\ unused # <<>>
  /\ pollfds' = [pollfds EXCEPT ![k].fd = f, ![k].events = want]
  /\ fde_ndx' = [fde_ndx EXCEPT ![f] = k]
  /\ unused' = SubSeq(unused, 1, Len(unused) - 1)

\* fdevent_poll_event_set on a slot of its own at the end.  Its revents is 0 in
\* the first chunk, which is zeroed, and whatever realloc() left beyond it.
TakeNew(f, want) ==
  /\ unused = <<>>
  /\ \E junk \in IF used < Chunk THEN {{}} ELSE Results :
       pollfds' = [k \in 0 .. used |->
                     IF k < used THEN pollfds[k]
                     ELSE [fd |-> f, events |-> want, revents |-> junk]]
  /\ fde_ndx' = [fde_ndx EXCEPT ![f] = used]
  /\ UNCHANGED unused

\* fdevent_poll_event_set for a descriptor that has its slot.
Update(f, want) ==
  /\ pollfds' = IF pollfds[fde_ndx[f]].fd = f
                THEN [pollfds EXCEPT ![fde_ndx[f]].events = want] ELSE pollfds
  /\ UNCHANGED <<fde_ndx, unused>>

(***************************************************************************)
(* fdevent_event_set, and fdevent_event_add and fdevent_event_clr that     *)
(* compute `want' from the events already there: nothing happens when the  *)
(* interest stays the same.                                                *)
(***************************************************************************)
EventSet(f, want) ==
  /\ Running
  /\ f \in registered
  /\ want # events[f]
  /\ events' = [events EXCEPT ![f] = want]
  /\ \/ fde_ndx[f] # -1 /\ Update(f, want)
     \/ fde_ndx[f] = -1 /\ TakeUnused(f, want)
     \/ fde_ndx[f] = -1 /\ TakeNew(f, want)
  /\ UNCHANGED <<registered, reported, pending, loopVars>>

\* fdevent_poll_event_del: the slot of f is emptied and goes on the stack.
GiveBack(f) ==
  LET k == fde_ndx[f] IN
  IF k = -1 THEN UNCHANGED <<pollfds, unused>>
  ELSE /\ pollfds' = [pollfds EXCEPT ![k].fd = -1, ![k].events = {}]
       /\ unused' = Append(unused, k)

\* *fde_ndx gets the -1 fdevent_poll_event_del returns.
ForgetSlot(f) == fde_ndx' = [fde_ndx EXCEPT ![f] = -1]

\* fdevent_event_del of a registered descriptor.
EventDel(f) ==
  /\ Running
  /\ f \in registered /\ MayDrop(f)
  /\ GiveBack(f)
  /\ ForgetSlot(f)
  /\ events' = [events EXCEPT ![f] = {}]
  /\ pending' = pending \ {f}
  /\ UNCHANGED <<registered, reported, loopVars>>

\* The pair fdevent_event_del, fdevent_unregister, as connection_close and
\* network_close call it before they close the descriptor.
Drop(f) ==
  /\ Running
  /\ f \in registered /\ MayDrop(f)
  /\ GiveBack(f)
  /\ ForgetSlot(f)
  /\ events' = [events EXCEPT ![f] = {}]
  /\ registered' = registered \ {f}
  /\ pending' = pending \ {f}
  /\ UNCHANGED <<reported, loopVars>>

-----------------------------------------------------------------------------
(***************************************************************************)
(* The main loop.                                                          *)
(***************************************************************************)

\* The slots poll(2) may answer `result' for: nothing for an empty slot, and
\* never an event that was not asked for, except Hup.
Answer(result) ==
  \A k \in DOMAIN pollfds :
    result[k] \in IF pollfds[k].fd = -1 THEN {{}}
                  ELSE SUBSET (pollfds[k].events \cup {Hup})

\* fdevent_poll: poll(2) writes the results of all slots and returns how many
\* are not empty.  A walk begins when there is one.
Poll ==
  /\ pc = "main"
  /\ \E result \in [DOMAIN pollfds -> Results] :
       /\ Answer(result)
       /\ pollfds' = [k \in DOMAIN pollfds |-> [pollfds[k] EXCEPT !.revents = result[k]]]
       /\ n' = Cardinality({k \in DOMAIN pollfds : result[k] # {}})
       /\ pc' = IF n' > 0 THEN "walk" ELSE "main"
       /\ reported' = [f \in Fds |-> IF fde_ndx[f] = -1 THEN {} ELSE result[fde_ndx[f]]]
       /\ pending' = {f \in registered : reported'[f] # {}}
  /\ fd_ndx' = -1
  /\ UNCHANGED <<registered, events, fde_ndx, unused, self>>

\* Slots with a result beyond slot k.
ReadyBeyond(k) == {j \in DOMAIN pollfds : j > k /\ pollfds[j].revents # {}}

\* Faulty variant: the search for a result starts one slot too far.
NextReady_Skips(k) ==
  IF ReadyBeyond(k + 1) = {} THEN -1
  ELSE CHOOSE j \in ReadyBeyond(k + 1) : \A i \in ReadyBeyond(k + 1) : j <= i

\* fdevent_poll_event_next_fdndx.
NextReady(k) ==
  IF ReadyBeyond(k) = {} THEN -1
  ELSE CHOOSE j \in ReadyBeyond(k) : \A i \in ReadyBeyond(k) : j <= i

\* Faulty variant: the walk goes on while slots have results.
MoreToCome_Unbounded == TRUE

\* The walk is over when --n reaches 0.
MoreToCome == n > 1

EndOfStep ==
  /\ n' = n - 1
  /\ pc' = IF MoreToCome THEN "walk" ELSE "main"

(***************************************************************************)
(* One turn of the loop, up to the call of the handler.  Without a slot    *)
(* that has a result the loop breaks.  When the slot with the next result  *)
(* was emptied, fdevent_get_handler reads fdarray[-1], and the program may *)
(* do anything from there: that is "fault".                                *)
(***************************************************************************)
Dispatch ==
  LET k == NextReady(fd_ndx) IN
  /\ pc = "walk"
  /\ IF k = -1
     THEN pc' = "main" /\ UNCHANGED <<fd_ndx, self, pending>>
     ELSE IF pollfds[k].fd = -1
     THEN pc' = "fault" /\ UNCHANGED <<fd_ndx, self, pending>>
     ELSE /\ pc' = "handler"
          /\ fd_ndx' = k
          /\ self' = pollfds[k].fd
          /\ pending' = pending \ {self'}
  /\ UNCHANGED <<fdVars, n, reported>>

HandlerReturns ==
  /\ pc = "handler"
  /\ EndOfStep
  /\ self' = -1
  /\ UNCHANGED <<fdVars, fd_ndx, reported, pending>>

Next ==
  /\ \/ \E f \in Fds : Register(f)
     \/ \E f \in Fds, want \in SUBSET Interests : EventSet(f, want)
     \/ \E f \in Fds : EventDel(f)
     \/ \E f \in Fds : Drop(f)
     \/ Poll
     \/ Dispatch
     \/ HandlerReturns
  /\ UNCHANGED drops_others

Spec == Init /\ [][Next]_vars

-----------------------------------------------------------------------------
(***************************************************************************)
(* Properties                                                              *)
(***************************************************************************)

\* Owners, slots and the stack agree after any sequence of set, del, reuse and
\* growth: a descriptor with a slot number finds itself and its interest there,
\* a slot in use is known to its owner, the stack holds every empty slot once.
\* fdevent_poll_event_del kills the process when they do not (SEGFAULT).
SlotsConsistent ==
  /\ \A f \in Fds : IF fde_ndx[f] = -1
                    THEN events[f] = {}
                    ELSE /\ f \in registered
                         /\ pollfds[fde_ndx[f]].fd = f
                         /\ pollfds[fde_ndx[f]].events = events[f]
  /\ \A k \in DOMAIN pollfds :
       pollfds[k].fd # -1 => fde_ndx[pollfds[k].fd] = k
  /\ \A i, j \in DOMAIN unused : unused[i] = unused[j] => i = j
  /\ {unused[i] : i \in DOMAIN unused} = {k \in DOMAIN pollfds : pollfds[k].fd = -1}

\* A handler is called with what the last poll(2) reported for its registration
\* and at most once per walk, although slots are given back and reused, and
\* slots with arbitrary results are added, while the walk is under way.  (When no
\* handler drops the descriptor of another.)
DispatchReported ==
  [][~drops_others /\ pc = "walk" /\ pc' = "handler" =>
       /\ self' \in pending
       /\ pollfds[fd_ndx'].revents = reported[self']]_vars

\* No result is lost: when the walk is over, every descriptor that poll(2)
\* reported was handed to its handler, unless it was dropped before its turn.
WalkComplete == pc = "main" => pending = {}

\* The walk never looks up the handler of descriptor -1, as long as handlers
\* drop only descriptors of their own.
NoFault == ~drops_others => pc # "fault"
=============================================================================
