--------------------------- MODULE FdEventPollProofs ---------------------------
(***************************************************************************)
(* Proofs about FdEventPoll: slots, owners and the stack of free slots     *)
(* agree, and the walk over the results of poll(2) hands each of them to   *)
(* the handler it is for, however many descriptors there are and whatever  *)
(* the handlers do to the slots meanwhile.                                 *)
(***************************************************************************)
EXTENDS FdEventPoll, SetFacts, SequenceTheorems

Slot == [fd : Fds \cup {-1}, events : SUBSET Interests, revents : Results]

\* The slots are numbered from 0 without a gap.
Sized == used \in Nat /\ DOMAIN pollfds = 0 .. used - 1

\* The number an owner keeps is that of a slot.
NdxInRange == \A f \in Fds : fde_ndx[f] \in -1 .. used - 1

SlotInv ==
  /\ TypeOK
  /\ Sized
  /\ NdxInRange
  /\ SlotsConsistent

-----------------------------------------------------------------------------
(***************************************************************************)
(* The walk.  The slots there were when poll(2) answered are those below   *)
(* some number m: what is added during the walk comes after them.          *)
(***************************************************************************)
Walking == pc \in {"walk", "handler"}

\* Slots below m with a result that the walk has still to come to.
ReadyBelow(m) == {k \in ReadyBeyond(fd_ndx) : k < m}

\* Results still to be handed out, without the one in the handler's hands.
Left == IF pc = "walk" THEN n ELSE n - 1

\* A descriptor that waits for its handler is in a slot the walk will come to,
\* with what was reported.
PendingAhead(m) ==
  \A f \in pending : /\ fde_ndx[f] \in ReadyBelow(m)
                     /\ pollfds[fde_ndx[f]].revents = reported[f]

\* The walk comes only to slots whose descriptor waits for its handler.
AheadPending(m) == \A k \in ReadyBelow(m) : pollfds[k].fd \in pending

WalkCounts ==
  Walking =>
    /\ n >= 1
    /\ \E m \in 0 .. used :
         /\ Cardinality(ReadyBelow(m)) = Left
         /\ PendingAhead(m)
         /\ ~drops_others => AheadPending(m)

\* The descriptor whose handler runs waits for it no more.
SelfSeen == pc = "handler" => self \in Fds \ pending

IInv ==
  /\ SlotInv
  /\ WalkCounts
  /\ SelfSeen
  /\ WalkComplete
  /\ NoFault
-----------------------------------------------------------------------------
(***************************************************************************)
(* Facts about slots and the stack.                                        *)
(***************************************************************************)

\* As many slots as numbers below m.
LEMMA SizeIs ==
  ASSUME NEW t, NEW m \in Nat, DOMAIN t = 0 .. m - 1
  PROVE  Cardinality(DOMAIN t) = m
<1>1. Cardinality(0 .. m - 1) = IF 0 > m - 1 THEN 0 ELSE m - 1 - 0 + 1
  BY FS_Interval
<1> QED
  BY <1>1

\* What is left of a stack without its top.
LEMMA StackPopped ==
  ASSUME NEW S, NEW s \in Seq(S), Len(s) >= 1
  PROVE  /\ SubSeq(s, 1, Len(s) - 1) \in Seq(S)
         /\ Len(SubSeq(s, 1, Len(s) - 1)) = Len(s) - 1
         /\ \A i \in 1 .. Len(s) - 1 : SubSeq(s, 1, Len(s) - 1)[i] = s[i]
<1> DEFINE l == Len(s) - 1
<1>1. l \in Nat /\ \A i \in 1 .. l : s[i] \in S
  BY LenProperties, ElementOfSeq
<1> HIDE DEF l
<1>2. /\ SubSeq(s, 1, l) \in Seq(S)
      /\ Len(SubSeq(s, 1, l)) = IF 1 <= l THEN l - 1 + 1 ELSE 0
      /\ \A i \in 1 .. l - 1 + 1 : SubSeq(s, 1, l)[i] = s[1 + i - 1]
  BY <1>1, SubSeqProperties
<1>3. /\ SubSeq(s, 1, l) \in Seq(S)
      /\ Len(SubSeq(s, 1, l)) = l
      /\ \A i \in 1 .. l : SubSeq(s, 1, l)[i] = s[i]
  BY <1>1, <1>2
<1> QED
  BY <1>3 DEF l

\* What SlotInv says of the types.
LEMMA SlotTypes ==
  ASSUME SlotInv
  PROVE  /\ used \in Nat /\ DOMAIN pollfds = 0 .. used - 1
         /\ pollfds \in [0 .. used - 1 -> Slot]
         /\ \A k \in 0 .. used - 1 : /\ pollfds[k].fd \in Fds \cup {-1}
                                     /\ pollfds[k].events \in SUBSET Interests
                                     /\ pollfds[k].revents \in Results
         /\ unused \in Seq(0 .. used - 1)
         /\ events \in [Fds -> SUBSET Interests]
         /\ fde_ndx \in [Fds -> Int]
         /\ registered \subseteq Fds
         /\ reported \in [Fds -> Results]
         /\ pending \subseteq registered
         /\ \A f \in Fds : fde_ndx[f] \in -1 .. used - 1
BY DEF SlotInv, TypeOK, Sized, NdxInRange, Slot

\* The stack holds numbers of empty slots, all of them.
LEMMA StackFacts ==
  ASSUME SlotInv
  PROVE  /\ Len(unused) \in Nat /\ DOMAIN unused = 1 .. Len(unused)
         /\ \A i \in 1 .. Len(unused) : unused[i] \in 0 .. used - 1 /\ pollfds[unused[i]].fd = -1
         /\ \A i, j \in 1 .. Len(unused) : unused[i] = unused[j] => i = j
         /\ \A k \in 0 .. used - 1 : pollfds[k].fd = -1 =>
              \E i \in 1 .. Len(unused) : unused[i] = k
<1>1. Len(unused) \in Nat /\ DOMAIN unused = 1 .. Len(unused)
  BY SlotTypes, LenProperties
<1>0. {unused[i] : i \in DOMAIN unused} = {k \in DOMAIN pollfds : pollfds[k].fd = -1}
  BY DEF SlotInv, SlotsConsistent
<1>2. \A i \in 1 .. Len(unused) : unused[i] \in {k \in DOMAIN pollfds : pollfds[k].fd = -1}
  BY <1>0, <1>1
<1>3. ASSUME NEW k \in 0 .. used - 1, pollfds[k].fd = -1
      PROVE  \E i \in 1 .. Len(unused) : unused[i] = k
  <2>1. k \in {unused[i] : i \in DOMAIN unused}
    BY <1>0, <1>3, SlotTypes
  <2> QED
    BY <2>1, <1>1
<1> QED
  BY <1>1, <1>2, <1>3, SlotTypes DEF SlotInv, SlotsConsistent

\* How to conclude that slots and stack agree again.
LEMMA ConsistentAgain ==
  ASSUME used' \in Nat, DOMAIN pollfds' = 0 .. used' - 1,
         unused' \in Seq(0 .. used' - 1),
         \A f \in Fds : IF fde_ndx'[f] = -1
                        THEN events'[f] = {}
                        ELSE /\ f \in registered'
                             /\ pollfds'[fde_ndx'[f]].fd = f
                             /\ pollfds'[fde_ndx'[f]].events = events'[f],
         \A k \in 0 .. used' - 1 : pollfds'[k].fd # -1 => fde_ndx'[pollfds'[k].fd] = k,
         \A i, j \in 1 .. Len(unused') : unused'[i] = unused'[j] => i = j,
         \A i \in 1 .. Len(unused') : pollfds'[unused'[i]].fd = -1,
         \A k \in 0 .. used' - 1 : pollfds'[k].fd = -1 =>
           \E i \in 1 .. Len(unused') : unused'[i] = k
  PROVE  SlotsConsistent'
<1>1. DOMAIN unused' = 1 .. Len(unused') /\ \A i \in 1 .. Len(unused') : unused'[i] \in 0 .. used' - 1
  BY LenProperties
<1>2. {unused'[i] : i \in DOMAIN unused'} = {k \in DOMAIN pollfds' : pollfds'[k].fd = -1}
  <2> DEFINE stack == {unused'[i] : i \in DOMAIN unused'}
             empty == {k \in DOMAIN pollfds' : pollfds'[k].fd = -1}
  <2>1. ASSUME NEW k \in stack PROVE k \in empty
    <3>1. PICK i \in 1 .. Len(unused') : k = unused'[i]
      BY <1>1
    <3> QED
      BY <3>1, <1>1
  <2>2. ASSUME NEW k \in empty PROVE k \in stack
    <3>1. PICK i \in 1 .. Len(unused') : unused'[i] = k
      OBVIOUS
    <3> QED
      BY <3>1, <1>1
  <2> QED
    BY <2>1, <2>2
<1> QED
  BY <1>1, <1>2 DEF SlotsConsistent

-----------------------------------------------------------------------------
(***************************************************************************)
(* The calls into mfdevent.c: what they do to the slots.                   *)
(***************************************************************************)

\* Growing adds slots behind those there are, writing leaves their results.
SlotsKept ==
  /\ used' \in Nat /\ used' >= used
  /\ DOMAIN pollfds' = 0 .. used' - 1
  /\ pollfds' \in [0 .. used' - 1 -> Slot]
  /\ \A k \in 0 .. used - 1 : pollfds'[k].revents = pollfds[k].revents

\* The size of the slots does not change when none is added.
LEMMA SizeKept ==
  ASSUME SlotInv, DOMAIN pollfds' = DOMAIN pollfds
  PROVE  used' = used
BY DEF used

\* fdevent_poll_event_set on a slot from the stack.
LEMMA TakeUnusedFacts ==
  ASSUME SlotInv, NEW f \in Fds, NEW want \in SUBSET Interests, TakeUnused(f, want)
  PROVE  LET k == unused[Len(unused)] IN
         /\ SlotsKept /\ used' = used
         /\ k \in 0 .. used - 1 /\ pollfds[k].fd = -1
         /\ pollfds'[k].fd = f /\ pollfds'[k].events = want
         /\ \A j \in 0 .. used - 1 : j # k => pollfds'[j] = pollfds[j]
         /\ fde_ndx' = [fde_ndx EXCEPT ![f] = k]
         /\ unused' \in Seq(0 .. used - 1) /\ Len(unused') = Len(unused) - 1
         /\ Len(unused) >= 1
         /\ \A i \in 1 .. Len(unused') : unused'[i] = unused[i]
<1> DEFINE k == unused[Len(unused)]
<1>1. Len(unused) \in Nat \ {0}
  BY SlotTypes, StackFacts, EmptySeq DEF TakeUnused
<1>2. k \in 0 .. used - 1 /\ pollfds[k].fd = -1
  BY <1>1, StackFacts
<1>3. pollfds' = [pollfds EXCEPT ![k].fd = f, ![k].events = want]
  BY DEF TakeUnused
<1>4. DOMAIN pollfds' = DOMAIN pollfds
  BY <1>3
<1>5. used' = used
  BY <1>4, SizeKept
<1>6. /\ pollfds' \in [0 .. used - 1 -> Slot]
      /\ pollfds'[k].fd = f /\ pollfds'[k].events = want
      /\ \A j \in 0 .. used - 1 : pollfds'[j].revents = pollfds[j].revents
      /\ \A j \in 0 .. used - 1 : j # k => pollfds'[j] = pollfds[j]
  <2> HIDE DEF k
  <2>0. used \in Nat /\ pollfds \in [0 .. used - 1 -> Slot] /\ -1 \in Fds \cup {-1} /\ {} \in SUBSET Interests
    BY SlotTypes
  <2> QED
    BY <2>0, <1>2, <1>3 DEF Slot
<1>7. SlotsKept
  BY <1>4, <1>5, <1>6, SlotTypes DEF SlotsKept
<1>8. /\ unused' \in Seq(0 .. used - 1) /\ Len(unused') = Len(unused) - 1
      /\ \A i \in 1 .. Len(unused') : unused'[i] = unused[i]
  <2>1. unused \in Seq(0 .. used - 1) /\ Len(unused) >= 1
    BY <1>1, SlotTypes
  <2>2. unused' = SubSeq(unused, 1, Len(unused) - 1)
    BY DEF TakeUnused
  <2>3. /\ SubSeq(unused, 1, Len(unused) - 1) \in Seq(0 .. used - 1)
        /\ Len(SubSeq(unused, 1, Len(unused) - 1)) = Len(unused) - 1
        /\ \A i \in 1 .. Len(unused) - 1 : SubSeq(unused, 1, Len(unused) - 1)[i] = unused[i]
    BY <2>1, StackPopped
  <2> QED
    BY <2>2, <2>3
<1> QED
  BY <1>1, <1>2, <1>5, <1>6, <1>7, <1>8 DEF TakeUnused

\* fdevent_poll_event_set on a new slot.
LEMMA TakeNewFacts ==
  ASSUME SlotInv, NEW f \in Fds, NEW want \in SUBSET Interests, TakeNew(f, want)
  PROVE  /\ SlotsKept /\ used' = used + 1
         /\ pollfds'[used].fd = f /\ pollfds'[used].events = want
         /\ \A j \in 0 .. used - 1 : pollfds'[j] = pollfds[j]
         /\ fde_ndx' = [fde_ndx EXCEPT ![f] = used]
<1>1. PICK junk \in Results :
        pollfds' = [k \in 0 .. used |->
                      IF k < used THEN pollfds[k]
                      ELSE [fd |-> f, events |-> want, revents |-> junk]]
  BY DEF TakeNew, Results
<1>2. used \in Nat /\ DOMAIN pollfds' = 0 .. (used + 1) - 1
  BY <1>1, SlotTypes
<1>3. used' = used + 1
  <2>1. Cardinality(DOMAIN pollfds') = used + 1
    BY <1>2, SizeIs
  <2> QED
    BY <2>1 DEF used
<1>4. \A k \in 0 .. used : pollfds'[k] = IF k < used THEN pollfds[k]
                             ELSE [fd |-> f, events |-> want, revents |-> junk]
  BY <1>1
<1>5. pollfds' \in [0 .. used -> Slot]
  BY <1>1, <1>2, SlotTypes DEF Slot
<1>6. SlotsKept
  BY <1>2, <1>3, <1>4, <1>5 DEF SlotsKept
<1> QED
  BY <1>2, <1>3, <1>4, <1>6 DEF TakeNew

\* fdevent_poll_event_set for a descriptor with a slot.
LEMMA UpdateFacts ==
  ASSUME SlotInv, NEW f \in Fds, NEW want \in SUBSET Interests,
         fde_ndx[f] # -1, Update(f, want)
  PROVE  /\ SlotsKept /\ used' = used
         /\ fde_ndx[f] \in 0 .. used - 1 /\ pollfds'[fde_ndx[f]].events = want
         /\ \A j \in 0 .. used - 1 : /\ pollfds'[j].fd = pollfds[j].fd
                                     /\ j # fde_ndx[f] => pollfds'[j] = pollfds[j]
<1> DEFINE k == fde_ndx[f]
<1>1. k \in 0 .. used - 1 /\ pollfds[k].fd = f
  BY SlotTypes DEF SlotInv, SlotsConsistent
<1>2. pollfds' = [pollfds EXCEPT ![k].events = want]
  BY <1>1 DEF Update
<1>3. DOMAIN pollfds' = DOMAIN pollfds
  BY <1>2
<1>4. used' = used
  BY <1>3, SizeKept
<1>5. /\ pollfds' \in [0 .. used - 1 -> Slot]
      /\ pollfds'[k].events = want /\ pollfds'[k].fd = pollfds[k].fd
      /\ \A j \in 0 .. used - 1 : pollfds'[j].revents = pollfds[j].revents
      /\ \A j \in 0 .. used - 1 : j # k => pollfds'[j] = pollfds[j]
  <2> HIDE DEF k
  <2>0. used \in Nat /\ pollfds \in [0 .. used - 1 -> Slot] /\ -1 \in Fds \cup {-1} /\ {} \in SUBSET Interests
    BY SlotTypes
  <2> QED
    BY <2>0, <1>1, <1>2, SlotTypes DEF Slot
<1> QED
  BY <1>1, <1>3, <1>4, <1>5, SlotTypes DEF SlotsKept

\* fdevent_poll_event_del.
LEMMA GiveBackFacts ==
  ASSUME SlotInv, NEW f \in Fds, GiveBack(f), fde_ndx[f] # -1
  PROVE  /\ SlotsKept /\ used' = used
         /\ fde_ndx[f] \in 0 .. used - 1 /\ pollfds[fde_ndx[f]].fd = f
         /\ pollfds'[fde_ndx[f]].fd = -1 /\ pollfds'[fde_ndx[f]].events = {}
         /\ \A j \in 0 .. used - 1 : j # fde_ndx[f] => pollfds'[j] = pollfds[j]
         /\ unused' \in Seq(0 .. used - 1) /\ Len(unused') = Len(unused) + 1
         /\ \A i \in 1 .. Len(unused) : unused'[i] = unused[i]
         /\ unused'[Len(unused) + 1] = fde_ndx[f]
<1> DEFINE k == fde_ndx[f]
<1>1. k \in 0 .. used - 1 /\ pollfds[k].fd = f
  BY SlotTypes DEF SlotInv, SlotsConsistent
<1>2. pollfds' = [pollfds EXCEPT ![k].fd = -1, ![k].events = {}] /\ unused' = Append(unused, k)
  BY DEF GiveBack
<1>3. DOMAIN pollfds' = DOMAIN pollfds
  BY <1>2
<1>4. used' = used
  BY <1>3, SizeKept
<1>5. /\ pollfds' \in [0 .. used - 1 -> Slot]
      /\ pollfds'[k].fd = -1 /\ pollfds'[k].events = {}
      /\ \A j \in 0 .. used - 1 : pollfds'[j].revents = pollfds[j].revents
      /\ \A j \in 0 .. used - 1 : j # k => pollfds'[j] = pollfds[j]
  <2> HIDE DEF k
  <2>0. used \in Nat /\ pollfds \in [0 .. used - 1 -> Slot] /\ -1 \in Fds \cup {-1} /\ {} \in SUBSET Interests
    BY SlotTypes
  <2> QED
    BY <2>0, <1>1, <1>2 DEF Slot
<1>6. SlotsKept
  BY <1>3, <1>4, <1>5, SlotTypes DEF SlotsKept
<1>7. /\ unused' \in Seq(0 .. used - 1) /\ Len(unused') = Len(unused) + 1
      /\ \A i \in 1 .. Len(unused) : unused'[i] = unused[i]
      /\ unused'[Len(unused) + 1] = k
  <2> HIDE DEF k
  <2> QED
    BY <1>1, <1>2, SlotTypes, AppendProperties
<1> QED
  BY <1>1, <1>4, <1>5, <1>6, <1>7

\* How to conclude that a call leaves slots, owners and types in order.
LEMMA SlotInvAgain ==
  ASSUME SlotInv, SlotsKept, UNCHANGED <<loopVars, drops_others>>,
         unused' \in Seq(0 .. used' - 1),
         events' \in [Fds -> SUBSET Interests],
         fde_ndx' \in [Fds -> -1 .. used' - 1],
         registered' \subseteq Fds,
         reported' \in [Fds -> Results],
         pending' \subseteq registered',
         SlotsConsistent'
  PROVE  SlotInv'
<1>1. fde_ndx' \in [Fds -> Int] /\ \A f \in Fds : fde_ndx'[f] \in -1 .. used' - 1
  BY DEF SlotsKept
<1>2. n' \in 0 .. used' /\ fd_ndx' \in -1 .. used' - 1
  <2>1. n \in 0 .. used /\ fd_ndx \in -1 .. used - 1
    BY DEF SlotInv, TypeOK
  <2>2. n' = n /\ fd_ndx' = fd_ndx
    BY DEF loopVars
  <2>3. used \in Nat /\ used' \in Nat /\ used' >= used
    BY SlotTypes DEF SlotsKept
  <2>4. n' \in 0 .. used'
    BY <2>1, <2>2, <2>3
  <2>5. fd_ndx' \in -1 .. used' - 1
    <3>1. PICK u \in Nat : u = used'
      BY <2>3
    <3>2. PICK v \in Nat : v = used
      BY <2>3
    <3>3. u >= v /\ fd_ndx \in -1 .. v - 1
      BY <2>1, <2>3, <3>1, <3>2
    <3>4. fd_ndx' \in -1 .. u - 1
      BY <2>2, <3>3
    <3> QED
      BY <3>1, <3>4
  <2> QED
    BY <2>4, <2>5
<1>3. TypeOK'
  BY <1>1, <1>2 DEF SlotsKept, SlotInv, TypeOK, Slot, loopVars
<1> QED
  BY <1>1, <1>3 DEF SlotInv, SlotsKept, Sized, NdxInRange

\* Slots that are not touched are as they were.
LEMMA SameSlots ==
  ASSUME SlotInv, UNCHANGED pollfds
  PROVE  SlotsKept /\ used' = used
BY SlotTypes DEF SlotsKept, used

\* fdevent_register: the slots stay, and a new descriptor has none.
LEMMA RegisterSlots ==
  ASSUME SlotInv, UNCHANGED drops_others, NEW f \in Fds, Register(f)
  PROVE  SlotInv' /\ SlotsKept /\ used' = used
<1>1. SlotsKept /\ used' = used
  BY SameSlots DEF Register
<1>2. fde_ndx[f] = -1 /\ events[f] = {}
  BY DEF Register, SlotInv, SlotsConsistent
<1>3. fde_ndx' = fde_ndx /\ events' = events
  BY <1>2, SlotTypes DEF Register
<1>4. SlotsConsistent'
  BY <1>3 DEF Register, SlotInv, SlotsConsistent
<1>5. fde_ndx' \in [Fds -> -1 .. used' - 1]
  BY <1>1, <1>3, SlotTypes
<1> QED
  BY <1>1, <1>3, <1>4, <1>5, SlotTypes, SlotInvAgain DEF Register, Results

\* fdevent_event_set: the descriptor has one slot, and its interest is in it.
LEMMA EventSetSlots ==
  ASSUME SlotInv, UNCHANGED drops_others, NEW f \in Fds, NEW want \in SUBSET Interests,
         EventSet(f, want)
  PROVE  /\ SlotInv' /\ SlotsKept
         /\ \A j \in 0 .. used - 1 : pollfds'[j].fd = pollfds[j].fd \/ pollfds[j].fd = -1
         /\ \A g \in Fds : fde_ndx[g] # -1 => fde_ndx'[g] = fde_ndx[g]
<1>0. /\ f \in registered
      /\ events' = [events EXCEPT ![f] = want]
      /\ registered' = registered /\ reported' = reported /\ pending' = pending
      /\ UNCHANGED loopVars
  BY DEF EventSet
<1>1. CASE fde_ndx[f] # -1 /\ Update(f, want)
  <2>1. /\ SlotsKept /\ used' = used /\ fde_ndx[f] \in 0 .. used - 1
        /\ pollfds'[fde_ndx[f]].events = want
        /\ \A j \in 0 .. used - 1 : /\ pollfds'[j].fd = pollfds[j].fd
                                    /\ j # fde_ndx[f] => pollfds'[j] = pollfds[j]
    BY <1>1, UpdateFacts
  <2>2. fde_ndx' = fde_ndx /\ unused' = unused
    BY <1>1 DEF Update
  <2>3. SlotsConsistent'
    <3>1. ASSUME NEW g \in Fds
          PROVE  IF fde_ndx'[g] = -1 THEN events'[g] = {}
                 ELSE /\ g \in registered'
                      /\ pollfds'[fde_ndx'[g]].fd = g
                      /\ pollfds'[fde_ndx'[g]].events = events'[g]
      <4>1. CASE g = f
        BY <4>1, <1>0, <1>1, <2>1, <2>2, SlotTypes DEF SlotInv, SlotsConsistent
      <4>2. CASE g # f /\ fde_ndx[g] = -1
        BY <4>2, <1>0, <2>2, SlotTypes DEF SlotInv, SlotsConsistent
      <4>3. CASE g # f /\ fde_ndx[g] # -1
        <5>1. /\ fde_ndx[g] \in 0 .. used - 1 /\ g \in registered
              /\ pollfds[fde_ndx[g]].fd = g /\ pollfds[fde_ndx[g]].events = events[g]
          BY <4>3, SlotTypes DEF SlotInv, SlotsConsistent
        <5>2. pollfds[fde_ndx[f]].fd = f
          BY <1>1 DEF SlotInv, SlotsConsistent
        <5>3. pollfds'[fde_ndx[g]] = pollfds[fde_ndx[g]]
          BY <4>3, <5>1, <5>2, <2>1
        <5> QED
          BY <4>3, <5>1, <5>3, <1>0, <2>2, SlotTypes
      <4> QED
        BY <4>1, <4>2, <4>3
    <3>2. \A k \in 0 .. used' - 1 : pollfds'[k].fd # -1 => fde_ndx'[pollfds'[k].fd] = k
      BY <2>1, <2>2, SlotTypes DEF SlotInv, SlotsConsistent
    <3> QED
      BY <3>1, <3>2, <2>1, <2>2, SlotTypes, StackFacts, ConsistentAgain DEF SlotsKept
  <2>4. fde_ndx' \in [Fds -> -1 .. used' - 1]
    BY <2>1, <2>2, SlotTypes
  <2> QED
    BY <1>0, <2>1, <2>2, <2>3, <2>4, SlotTypes, SlotInvAgain
<1>2. CASE fde_ndx[f] = -1 /\ TakeUnused(f, want)
  <2> DEFINE k == unused[Len(unused)]
  <2>1. /\ SlotsKept /\ used' = used
        /\ k \in 0 .. used - 1 /\ pollfds[k].fd = -1
        /\ pollfds'[k].fd = f /\ pollfds'[k].events = want
        /\ \A j \in 0 .. used - 1 : j # k => pollfds'[j] = pollfds[j]
        /\ fde_ndx' = [fde_ndx EXCEPT ![f] = k]
        /\ unused' \in Seq(0 .. used - 1) /\ Len(unused') = Len(unused) - 1
        /\ Len(unused) >= 1
        /\ \A i \in 1 .. Len(unused') : unused'[i] = unused[i]
    BY <1>2, TakeUnusedFacts
  <2>2. \A g \in Fds : fde_ndx[g] # k
    BY <2>1, FdAssumption DEF SlotInv, SlotsConsistent
  <2>3. SlotsConsistent'
    <3>1. ASSUME NEW g \in Fds
          PROVE  IF fde_ndx'[g] = -1 THEN events'[g] = {}
                 ELSE /\ g \in registered'
                      /\ pollfds'[fde_ndx'[g]].fd = g
                      /\ pollfds'[fde_ndx'[g]].events = events'[g]
      <4>1. CASE g = f
        BY <4>1, <1>0, <2>1, SlotTypes
      <4>2. CASE g # f
        <5>1. fde_ndx'[g] = fde_ndx[g] /\ events'[g] = events[g]
          BY <4>2, <1>0, <2>1, SlotTypes
        <5> QED
          <6>1. CASE fde_ndx[g] = -1
            BY <6>1, <5>1, <1>0 DEF SlotInv, SlotsConsistent
          <6>2. CASE fde_ndx[g] # -1
            <7>1. /\ fde_ndx[g] \in 0 .. used - 1 /\ g \in registered
                  /\ pollfds[fde_ndx[g]].fd = g /\ pollfds[fde_ndx[g]].events = events[g]
              BY <6>2, SlotTypes DEF SlotInv, SlotsConsistent
            <7>2. pollfds'[fde_ndx[g]] = pollfds[fde_ndx[g]]
              BY <7>1, <2>1, <2>2
            <7> QED
              BY <6>2, <7>1, <7>2, <5>1, <1>0
          <6> QED
            BY <6>1, <6>2
      <4> QED
        BY <4>1, <4>2
    <3>2. ASSUME NEW j \in 0 .. used' - 1, pollfds'[j].fd # -1
          PROVE  fde_ndx'[pollfds'[j].fd] = j
      <4>1. CASE j = k
        BY <4>1, <2>1, SlotTypes
      <4>2. CASE j # k
        <5>1. pollfds'[j] = pollfds[j] /\ pollfds[j].fd \in Fds /\ fde_ndx[pollfds[j].fd] = j
          BY <4>2, <3>2, <2>1, SlotTypes DEF SlotInv, SlotsConsistent
        <5>2. pollfds[j].fd # f
          BY <5>1, <1>2, SlotTypes, <2>1
        <5> QED
          BY <5>1, <5>2, <2>1, SlotTypes
      <4> QED
        BY <4>1, <4>2
    <3>3. \A i, j \in 1 .. Len(unused') : unused'[i] = unused'[j] => i = j
      BY <2>1, StackFacts
    <3>4. ASSUME NEW i \in 1 .. Len(unused') PROVE pollfds'[unused'[i]].fd = -1
      <4>1. unused'[i] = unused[i] /\ i \in 1 .. Len(unused) /\ i # Len(unused)
        BY <2>1, StackFacts
      <4>2. unused[i] # k /\ unused[i] \in 0 .. used - 1 /\ pollfds[unused[i]].fd = -1
        BY <4>1, <2>1, StackFacts
      <4> QED
        BY <4>1, <4>2, <2>1
    <3>5. ASSUME NEW j \in 0 .. used' - 1, pollfds'[j].fd = -1
          PROVE  \E i \in 1 .. Len(unused') : unused'[i] = j
      <4>1. j # k /\ pollfds[j].fd = -1
        BY <3>5, <2>1, FdAssumption
      <4>2. PICK i \in 1 .. Len(unused) : unused[i] = j
        BY <4>1, <2>1, StackFacts
      <4>3. i # Len(unused)
        BY <4>1, <4>2
      <4> QED
        BY <4>2, <4>3, <2>1, StackFacts
    <3> HIDE DEF k
    <3> QED
      BY <3>1, <3>2, <3>3, <3>4, <3>5, <2>1, ConsistentAgain DEF SlotsKept
  <2>4. fde_ndx' \in [Fds -> -1 .. used' - 1]
    BY <2>1, SlotTypes
  <2>5. \A g \in Fds : fde_ndx[g] # -1 => fde_ndx'[g] = fde_ndx[g]
    BY <1>2, <2>1, SlotTypes
  <2>6. \A j \in 0 .. used - 1 : pollfds'[j].fd = pollfds[j].fd \/ pollfds[j].fd = -1
    BY <2>1
  <2>7. SlotInv'
    <3> HIDE DEF k
    <3> QED
      BY <1>0, <2>1, <2>3, <2>4, SlotTypes, SlotInvAgain
  <2> QED
    BY <2>1, <2>5, <2>6, <2>7
<1>3. CASE fde_ndx[f] = -1 /\ TakeNew(f, want)
  <2>1. /\ SlotsKept /\ used' = used + 1
        /\ pollfds'[used].fd = f /\ pollfds'[used].events = want
        /\ \A j \in 0 .. used - 1 : pollfds'[j] = pollfds[j]
        /\ fde_ndx' = [fde_ndx EXCEPT ![f] = used]
    BY <1>3, TakeNewFacts
  <2>2. unused = <<>> /\ unused' = <<>>
    BY <1>3 DEF TakeNew
  <2>3. SlotsConsistent'
    <3>1. ASSUME NEW g \in Fds
          PROVE  IF fde_ndx'[g] = -1 THEN events'[g] = {}
                 ELSE /\ g \in registered'
                      /\ pollfds'[fde_ndx'[g]].fd = g
                      /\ pollfds'[fde_ndx'[g]].events = events'[g]
      <4>1. CASE g = f
        BY <4>1, <1>0, <2>1, SlotTypes
      <4>2. CASE g # f
        <5>1. fde_ndx'[g] = fde_ndx[g] /\ events'[g] = events[g]
          BY <4>2, <1>0, <2>1, SlotTypes
        <5> QED
          BY <5>1, <1>0, <2>1, SlotTypes DEF SlotInv, SlotsConsistent
      <4> QED
        BY <4>1, <4>2
    <3>2. ASSUME NEW j \in 0 .. used' - 1, pollfds'[j].fd # -1
          PROVE  fde_ndx'[pollfds'[j].fd] = j
      <4>1. CASE j = used
        BY <4>1, <2>1, SlotTypes
      <4>2. CASE j # used
        <5>1. j \in 0 .. used - 1
          BY <4>2, <2>1, SlotTypes
        <5>2. pollfds'[j] = pollfds[j] /\ pollfds[j].fd \in Fds /\ fde_ndx[pollfds[j].fd] = j
          BY <5>1, <3>2, <2>1, SlotTypes DEF SlotInv, SlotsConsistent
        <5>3. pollfds[j].fd # f
          BY <5>1, <5>2, <1>3
        <5> QED
          BY <5>2, <5>3, <2>1, SlotTypes
      <4> QED
        BY <4>1, <4>2
    <3>3. Len(unused) = 0 /\ Len(unused') = 0 /\ unused' \in Seq(0 .. used' - 1)
      BY <2>2, EmptySeq
    <3>4. ASSUME NEW j \in 0 .. used' - 1, pollfds'[j].fd = -1 PROVE FALSE
      BY <3>3, <3>4, <2>1, SlotTypes, StackFacts, FdAssumption
    <3> QED
      BY <3>1, <3>2, <3>3, <3>4, ConsistentAgain, <2>1 DEF SlotsKept
  <2>4. fde_ndx' \in [Fds -> -1 .. used' - 1]
    BY <2>1, SlotTypes
  <2>5. \A g \in Fds : fde_ndx[g] # -1 => fde_ndx'[g] = fde_ndx[g]
    BY <1>3, <2>1, SlotTypes
  <2>6. unused' \in Seq(0 .. used' - 1)
    BY <2>2, EmptySeq
  <2>7. SlotInv'
    BY <1>0, <2>1, <2>3, <2>4, <2>6, SlotTypes, SlotInvAgain
  <2> QED
    BY <2>1, <2>5, <2>7
<1> QED
  BY <1>1, <1>2, <1>3 DEF EventSet

\* fdevent_event_del, with or without fdevent_unregister: the slot goes back.
LEMMA DropSlots ==
  ASSUME SlotInv, UNCHANGED drops_others, NEW f \in Fds, EventDel(f) \/ Drop(f)
  PROVE  /\ SlotInv' /\ SlotsKept
         /\ pending' = pending \ {f} /\ reported' = reported /\ UNCHANGED loopVars
         /\ \A g \in Fds : g # f => fde_ndx'[g] = fde_ndx[g]
         /\ \A j \in 0 .. used - 1 : j # fde_ndx[f] => pollfds'[j] = pollfds[j]
<1>0. /\ f \in registered /\ GiveBack(f)
      /\ events' = [events EXCEPT ![f] = {}]
      /\ fde_ndx' = [fde_ndx EXCEPT ![f] = -1]
      /\ registered' \subseteq registered /\ registered \subseteq registered' \cup {f}
      /\ reported' = reported /\ pending' = pending \ {f}
      /\ pending' \subseteq registered'
      /\ UNCHANGED loopVars
  BY SlotTypes DEF EventDel, Drop, ForgetSlot
<1>1. fde_ndx' \in [Fds -> -1 .. used - 1] /\ fde_ndx'[f] = -1 /\ events'[f] = {}
  <2>1. -1 \in -1 .. used - 1
    BY SlotTypes
  <2> QED
    BY <2>1, <1>0, SlotTypes
<1>2. \A g \in Fds : g # f => fde_ndx'[g] = fde_ndx[g] /\ events'[g] = events[g]
  BY <1>0, SlotTypes
<1>3. CASE fde_ndx[f] = -1
  <2>1. pollfds' = pollfds /\ unused' = unused
    BY <1>0, <1>3 DEF GiveBack
  <2>2. SlotsKept /\ used' = used
    BY <2>1, SameSlots
  <2>3. fde_ndx' = fde_ndx
    BY <1>0, <1>3, SlotTypes
  <2>4. \A g \in Fds : IF fde_ndx'[g] = -1 THEN events'[g] = {}
                       ELSE /\ g \in registered'
                            /\ pollfds'[fde_ndx'[g]].fd = g
                            /\ pollfds'[fde_ndx'[g]].events = events'[g]
    BY <2>1, <2>3, <1>0, <1>1, <1>2, <1>3 DEF SlotInv, SlotsConsistent
  <2>5. \A k \in 0 .. used - 1 : pollfds'[k].fd # -1 => fde_ndx'[pollfds'[k].fd] = k
    BY <2>1, <2>3, SlotTypes DEF SlotInv, SlotsConsistent
  <2>6. SlotsConsistent'
    BY <2>1, <2>2, <2>4, <2>5, SlotTypes, StackFacts, ConsistentAgain DEF SlotsKept
  <2>7. SlotInv'
    BY <1>0, <1>1, <2>1, <2>2, <2>6, SlotTypes, SlotInvAgain
  <2> QED
    BY <1>0, <1>2, <2>1, <2>2, <2>7
<1>4. CASE fde_ndx[f] # -1
  <2> DEFINE k == fde_ndx[f]
  <2>1. /\ SlotsKept /\ used' = used
        /\ k \in 0 .. used - 1 /\ pollfds[k].fd = f
        /\ pollfds'[k].fd = -1 /\ pollfds'[k].events = {}
        /\ \A j \in 0 .. used - 1 : j # k => pollfds'[j] = pollfds[j]
        /\ unused' \in Seq(0 .. used - 1) /\ Len(unused') = Len(unused) + 1
        /\ \A i \in 1 .. Len(unused) : unused'[i] = unused[i]
        /\ unused'[Len(unused) + 1] = k
    BY <1>0, <1>4, GiveBackFacts
  <2>2. ASSUME NEW g \in Fds
        PROVE  IF fde_ndx'[g] = -1 THEN events'[g] = {}
               ELSE /\ g \in registered'
                    /\ pollfds'[fde_ndx'[g]].fd = g
                    /\ pollfds'[fde_ndx'[g]].events = events'[g]
    <3>1. CASE g = f
      BY <3>1, <1>1
    <3>2. CASE g # f /\ fde_ndx[g] = -1
      BY <3>2, <1>2 DEF SlotInv, SlotsConsistent
    <3>3. CASE g # f /\ fde_ndx[g] # -1
      <4>1. /\ fde_ndx[g] \in 0 .. used - 1 /\ g \in registered
            /\ pollfds[fde_ndx[g]].fd = g /\ pollfds[fde_ndx[g]].events = events[g]
        BY <3>3, SlotTypes DEF SlotInv, SlotsConsistent
      <4>2. pollfds'[fde_ndx[g]] = pollfds[fde_ndx[g]]
        BY <3>3, <4>1, <2>1
      <4> QED
        BY <3>3, <4>1, <4>2, <1>0, <1>2
    <3> QED
      BY <3>1, <3>2, <3>3
  <2>3. ASSUME NEW j \in 0 .. used - 1, pollfds'[j].fd # -1
        PROVE  fde_ndx'[pollfds'[j].fd] = j
    <3>1. j # k /\ pollfds'[j] = pollfds[j]
      BY <2>1, <2>3
    <3>2. pollfds[j].fd \in Fds /\ fde_ndx[pollfds[j].fd] = j
      BY <2>3, <3>1, SlotTypes DEF SlotInv, SlotsConsistent
    <3> QED
      BY <3>1, <3>2, <1>2
  <2>4. \A i \in 1 .. Len(unused) : unused[i] # k
    BY <2>1, StackFacts, FdAssumption
  <2>5. \A i, j \in 1 .. Len(unused') : unused'[i] = unused'[j] => i = j
    <3>1. ASSUME NEW i \in 1 .. Len(unused'), NEW j \in 1 .. Len(unused'),
                 unused'[i] = unused'[j]
          PROVE  i = j
      <4>0. Len(unused) \in Nat
        BY StackFacts
      <4>1. CASE i = Len(unused) + 1
        BY <4>0, <4>1, <3>1, <2>1, <2>4
      <4>2. CASE j = Len(unused) + 1
        BY <4>0, <4>2, <3>1, <2>1, <2>4
      <4>3. CASE i # Len(unused) + 1 /\ j # Len(unused) + 1
        <5>1. i \in 1 .. Len(unused) /\ j \in 1 .. Len(unused)
          BY <4>0, <4>3, <2>1
        <5> QED
          BY <5>1, <3>1, <2>1, StackFacts
      <4> QED
        BY <4>1, <4>2, <4>3
    <3> QED
      BY <3>1
  <2>6. ASSUME NEW i \in 1 .. Len(unused') PROVE pollfds'[unused'[i]].fd = -1
    <3>1. CASE i = Len(unused) + 1
      BY <3>1, <2>1
    <3>2. CASE i # Len(unused) + 1
      <4>1. i \in 1 .. Len(unused)
        BY <3>2, <2>1, StackFacts
      <4>2. unused'[i] = unused[i] /\ unused[i] \in 0 .. used - 1
            /\ pollfds[unused[i]].fd = -1 /\ unused[i] # k
        BY <4>1, <2>1, <2>4, StackFacts
      <4> QED
        BY <4>2, <2>1
    <3> QED
      BY <3>1, <3>2
  <2>7. ASSUME NEW j \in 0 .. used - 1, pollfds'[j].fd = -1
        PROVE  \E i \in 1 .. Len(unused') : unused'[i] = j
    <3>0. Len(unused) \in Nat
      BY StackFacts
    <3>1. CASE j = k
      <4>1. Len(unused) + 1 \in 1 .. Len(unused')
        BY <3>0, <2>1
      <4> QED
        BY <4>1, <3>1, <2>1
    <3>2. CASE j # k
      <4>1. pollfds[j].fd = -1
        BY <3>2, <2>7, <2>1
      <4>2. PICK i \in 1 .. Len(unused) : unused[i] = j
        BY <4>1, StackFacts
      <4>3. i \in 1 .. Len(unused') /\ unused'[i] = j
        BY <4>2, <3>0, <2>1
      <4> QED
        BY <4>3
    <3> QED
      BY <3>1, <3>2
  <2> HIDE DEF k
  <2>8. SlotsConsistent'
    BY <2>1, <2>2, <2>3, <2>5, <2>6, <2>7, ConsistentAgain DEF SlotsKept
  <2>9. SlotInv'
    BY <1>0, <1>1, <2>1, <2>8, SlotTypes, SlotInvAgain
  <2> QED
    BY <1>0, <1>2, <2>1, <2>9 DEF k
<1> QED
  BY <1>3, <1>4

-----------------------------------------------------------------------------
(***************************************************************************)
(* What the calls leave of the walk.                                       *)
(***************************************************************************)

\* A descriptor waits for its handler only during a walk, and has a slot.
LEMMA PendingPlaced ==
  ASSUME IInv, Running, NEW f \in pending
  PROVE  /\ Walking /\ f \in Fds
         /\ fde_ndx[f] \in 0 .. used - 1 /\ fde_ndx[f] # -1
         /\ pollfds[fde_ndx[f]].fd = f
<1>1. Walking /\ f \in Fds
  BY SlotTypes DEF IInv, WalkComplete, Running, Walking
<1>2. PICK m \in 0 .. used : PendingAhead(m)
  BY <1>1 DEF IInv, WalkCounts
<1>3. fde_ndx[f] \in 0 .. used - 1
  BY <1>2, SlotTypes DEF IInv, PendingAhead, ReadyBelow, ReadyBeyond
<1>4. fde_ndx[f] # -1
  BY <1>3, SlotTypes DEF IInv
<1> QED
  BY <1>1, <1>3, <1>4 DEF IInv, SlotInv, SlotsConsistent

\* A call that moves no waiting descriptor leaves the walk as it was.
LEMMA WalkKept ==
  ASSUME IInv, SlotInv', SlotsKept, UNCHANGED <<loopVars, drops_others>>,
         pending' \subseteq pending,
         \A f \in pending' : fde_ndx'[f] = fde_ndx[f] /\ reported'[f] = reported[f],
         Walking /\ ~drops_others =>
           \A k \in 0 .. used - 1 : pollfds[k].fd \in pending => pollfds'[k].fd \in pending'
  PROVE  IInv'
<1>0. /\ pc' = pc /\ n' = n /\ fd_ndx' = fd_ndx /\ self' = self
      /\ drops_others' = drops_others /\ Left' = Left
  BY DEF loopVars, Left
<1>1. used \in Nat /\ used' \in Nat /\ used' >= used
  BY SlotTypes DEF SlotsKept, IInv
<1>2. ASSUME NEW m \in 0 .. used PROVE ReadyBelow(m)' = ReadyBelow(m)
  <2>0. PICK u \in Nat, v \in Nat : /\ u = used' /\ v = used
                                   /\ DOMAIN pollfds = 0 .. v - 1
                                   /\ DOMAIN pollfds' = 0 .. u - 1
    BY <1>1, SlotTypes DEF SlotsKept, IInv
  <2>1. \A k \in 0 .. m - 1 : /\ k \in DOMAIN pollfds /\ k \in DOMAIN pollfds'
                              /\ pollfds'[k].revents = pollfds[k].revents
    <3>1. u >= v /\ m \in 0 .. v
      BY <1>1, <2>0
    <3>2. \A k \in 0 .. v - 1 : pollfds'[k].revents = pollfds[k].revents
      BY <2>0 DEF SlotsKept
    <3> QED
      BY <2>0, <3>1, <3>2
  <2>2. DOMAIN pollfds \subseteq Int /\ DOMAIN pollfds' \subseteq Int
        /\ \A k \in DOMAIN pollfds : k >= 0
        /\ \A i \in DOMAIN pollfds' : i >= 0
    BY <2>0
  <2>3. ReadyBelow(m) = {k \in 0 .. m - 1 : k > fd_ndx /\ pollfds[k].revents # {}}
    BY <2>1, <2>2, <1>1 DEF ReadyBelow, ReadyBeyond
  <2>4. ReadyBelow(m)' = {k \in 0 .. m - 1 : k > fd_ndx' /\ pollfds'[k].revents # {}}
    <3>1. ReadyBelow(m)' = {k \in DOMAIN pollfds' : /\ k > fd_ndx' /\ pollfds'[k].revents # {}
                                                   /\ k < m}
      BY DEF ReadyBelow, ReadyBeyond
    <3>2. \A k : k \in 0 .. m - 1 <=> k \in DOMAIN pollfds' /\ k < m
      BY <2>0, <2>1, <2>2, <1>1
    <3> QED
      BY <3>1, <3>2
  <2> QED
    BY <2>1, <2>3, <2>4, <1>0
<1>3. WalkCounts'
  <2> SUFFICES ASSUME Walking' PROVE /\ n' >= 1
                                     /\ \E m \in 0 .. used' :
                                          /\ Cardinality(ReadyBelow(m)') = Left'
                                          /\ PendingAhead(m)'
                                          /\ ~drops_others' => AheadPending(m)'
    BY DEF WalkCounts
  <2>1. Walking /\ n >= 1
    BY <1>0 DEF Walking, IInv, WalkCounts
  <2>2. PICK m \in 0 .. used : /\ Cardinality(ReadyBelow(m)) = Left
                               /\ PendingAhead(m)
                               /\ ~drops_others => AheadPending(m)
    BY <2>1 DEF IInv, WalkCounts
  <2>3. m \in 0 .. used'
    BY <1>1
  <2>4. Cardinality(ReadyBelow(m)') = Left'
    BY <1>0, <1>2, <2>2
  <2>5. PendingAhead(m)'
    <3>1. ASSUME NEW f \in pending'
          PROVE  /\ fde_ndx'[f] \in ReadyBelow(m)'
                 /\ pollfds'[fde_ndx'[f]].revents = reported'[f]
      <4>1. /\ fde_ndx[f] \in ReadyBelow(m) /\ fde_ndx[f] \in 0 .. used - 1
            /\ pollfds[fde_ndx[f]].revents = reported[f]
        BY <2>2, SlotTypes DEF PendingAhead, ReadyBelow, ReadyBeyond, IInv
      <4> QED
        BY <4>1, <1>2 DEF SlotsKept
    <3> QED
      BY <3>1 DEF PendingAhead
  <2>6. ~drops_others' => AheadPending(m)'
    <3>1. ASSUME ~drops_others, NEW k \in ReadyBelow(m)' PROVE pollfds'[k].fd \in pending'
      <4>1. k \in ReadyBelow(m)
        BY <1>2
      <4>2. k \in 0 .. used - 1 /\ pollfds[k].fd \in pending
        BY <3>1, <4>1, <2>2, SlotTypes DEF AheadPending, ReadyBelow, ReadyBeyond, IInv
      <4> QED
        BY <3>1, <4>2, <2>1
    <3> QED
      BY <3>1, <1>0 DEF AheadPending
  <2> QED
    BY <1>0, <2>1, <2>3, <2>4, <2>5, <2>6
<1>4. SelfSeen' /\ WalkComplete' /\ NoFault'
  BY <1>0 DEF IInv, SelfSeen, WalkComplete, NoFault
<1> QED
  BY <1>3, <1>4 DEF IInv

LEMMA RegisterKept ==
  ASSUME IInv, UNCHANGED drops_others, NEW f \in Fds, Register(f)
  PROVE  IInv'
<1>1. SlotInv' /\ SlotsKept /\ pollfds' = pollfds /\ pending' = pending /\ UNCHANGED loopVars
  BY RegisterSlots DEF Register, IInv
<1>2. f \notin pending /\ pending \subseteq Fds
  BY SlotTypes DEF Register, IInv
<1>3. \A g \in pending : fde_ndx'[g] = fde_ndx[g] /\ reported'[g] = reported[g]
  BY <1>2, SlotTypes DEF Register, IInv
<1> QED
  BY <1>1, <1>3, WalkKept

LEMMA EventSetKept ==
  ASSUME IInv, UNCHANGED drops_others, NEW f \in Fds, NEW want \in SUBSET Interests,
         EventSet(f, want)
  PROVE  IInv'
<1>1. /\ SlotInv' /\ SlotsKept
      /\ \A j \in 0 .. used - 1 : pollfds'[j].fd = pollfds[j].fd \/ pollfds[j].fd = -1
      /\ \A g \in Fds : fde_ndx[g] # -1 => fde_ndx'[g] = fde_ndx[g]
  BY EventSetSlots DEF IInv
<1>2. pending' = pending /\ reported' = reported /\ UNCHANGED loopVars /\ Running
  BY DEF EventSet
<1>3. \A g \in pending : fde_ndx'[g] = fde_ndx[g]
  BY <1>1, <1>2, PendingPlaced
<1>4. \A k \in 0 .. used - 1 : pollfds[k].fd \in pending => pollfds'[k].fd \in pending'
  <2>1. -1 \notin pending
    BY FdAssumption, SlotTypes DEF IInv
  <2> QED
    BY <1>1, <1>2, <2>1
<1> QED
  BY <1>1, <1>2, <1>3, <1>4, WalkKept

LEMMA DropKept ==
  ASSUME IInv, UNCHANGED drops_others, NEW f \in Fds, EventDel(f) \/ Drop(f)
  PROVE  IInv'
<1>1. /\ SlotInv' /\ SlotsKept
      /\ pending' = pending \ {f} /\ reported' = reported /\ UNCHANGED loopVars
      /\ \A g \in Fds : g # f => fde_ndx'[g] = fde_ndx[g]
      /\ \A j \in 0 .. used - 1 : j # fde_ndx[f] => pollfds'[j] = pollfds[j]
  BY DropSlots DEF IInv
<1>2. Running /\ MayDrop(f) /\ pending \subseteq Fds
  BY SlotTypes DEF EventDel, Drop, IInv
<1>3. ASSUME Walking, ~drops_others, NEW k \in 0 .. used - 1, pollfds[k].fd \in pending
      PROVE  pollfds'[k].fd \in pending'
  <2>1. f = self \/ fde_ndx[f] = -1
    BY <1>2, <1>3 DEF MayDrop, Walking, Running
  <2>2. f \notin pending
    <3>1. CASE fde_ndx[f] = -1
      BY <3>1, <1>2, PendingPlaced
    <3>2. CASE f = self
      BY <3>2, <1>2, <1>3 DEF IInv, SelfSeen, Running, Walking
    <3> QED
      BY <2>1, <3>1, <3>2
  <2>3. k # fde_ndx[f]
    <3>1. fde_ndx[pollfds[k].fd] = k /\ pollfds[k].fd # f
      BY <1>3, <1>2, <2>2, SlotTypes, FdAssumption DEF IInv, SlotInv, SlotsConsistent
    <3>2. fde_ndx[f] = k => fde_ndx[f] # -1 /\ pollfds[k].fd = f
      BY SlotTypes DEF IInv, SlotInv, SlotsConsistent
    <3> QED
      BY <3>1, <3>2
  <2> QED
    BY <1>1, <1>3, <2>2, <2>3
<1> QED
  BY <1>1, <1>2, <1>3, WalkKept

-----------------------------------------------------------------------------
(***************************************************************************)
(* The main loop.                                                          *)
(***************************************************************************)

\* fdevent_poll_event_next_fdndx: the first slot beyond k with a result.
LEMMA NextReadyIs ==
  ASSUME SlotInv, NEW k \in Int, ReadyBeyond(k) # {}
  PROVE  /\ NextReady(k) \in ReadyBeyond(k)
         /\ \A i \in ReadyBeyond(k) : NextReady(k) <= i
<1>1. ReadyBeyond(k) \in SUBSET Nat
  BY SlotTypes DEF ReadyBeyond
<1>2. \E j \in ReadyBeyond(k) : \A i \in ReadyBeyond(k) : j <= i
  BY <1>1, LeastExists
<1> QED
  BY <1>2 DEF NextReady

\* A set of slots is finite, and no larger than all of them.
LEMMA SlotsFinite ==
  ASSUME SlotInv, NEW T \in SUBSET DOMAIN pollfds
  PROVE  /\ IsFiniteSet(T) /\ Cardinality(T) \in Nat /\ Cardinality(T) <= used
         /\ Cardinality(T) = 0 <=> T = {}
<1>1. IsFiniteSet(DOMAIN pollfds)
  <2>1. used \in Nat /\ DOMAIN pollfds = 0 .. used - 1
    BY SlotTypes
  <2>2. IsFiniteSet(0 .. used - 1)
    BY <2>1, FS_Interval
  <2> QED
    BY <2>1, <2>2
<1>2. IsFiniteSet(T) /\ Cardinality(T) <= Cardinality(DOMAIN pollfds)
  BY <1>1, FS_Subset
<1> QED
  BY <1>2, FS_CardinalityType, FS_EmptySet DEF used

LEMMA InitIInv == ASSUME Init PROVE IInv
<1>1. DOMAIN pollfds = 0 .. -1 /\ 0 .. -1 = {}
  BY DEF Init
<1>2. used = 0
  BY <1>1, FS_EmptySet DEF used
<1>3. unused \in Seq(0 .. used - 1) /\ DOMAIN unused = {}
  BY EmptySeq DEF Init
<1>4. TypeOK
  BY <1>1, <1>2, <1>3 DEF Init, TypeOK, Results
<1>5. SlotsConsistent
  BY <1>1, <1>3 DEF Init, SlotsConsistent
<1>6. SlotInv
  BY <1>1, <1>2, <1>4, <1>5 DEF Init, SlotInv, Sized, NdxInRange
<1> QED
  BY <1>6 DEF Init, IInv, WalkCounts, Walking, SelfSeen, WalkComplete, NoFault

LEMMA PollIInv ==
  ASSUME IInv, UNCHANGED drops_others, Poll
  PROVE  IInv'
<1>1. PICK result \in [DOMAIN pollfds -> Results] :
        /\ Answer(result)
        /\ pollfds' = [k \in DOMAIN pollfds |-> [pollfds[k] EXCEPT !.revents = result[k]]]
        /\ n' = Cardinality({k \in DOMAIN pollfds : result[k] # {}})
        /\ pc' = IF n' > 0 THEN "walk" ELSE "main"
        /\ reported' = [f \in Fds |-> IF fde_ndx[f] = -1 THEN {} ELSE result[fde_ndx[f]]]
        /\ pending' = {f \in registered : reported'[f] # {}}
  BY DEF Poll
<1>2. /\ fd_ndx' = -1 /\ registered' = registered /\ events' = events
      /\ fde_ndx' = fde_ndx /\ unused' = unused /\ self' = self
      /\ drops_others' = drops_others
  BY DEF Poll
<1> DEFINE ready == {k \in DOMAIN pollfds : result[k] # {}}
<1>3. n' = Cardinality(ready) /\ n' \in Nat /\ n' <= used /\ (n' = 0 <=> ready = {})
  BY <1>1, SlotsFinite DEF IInv
<1>4. DOMAIN pollfds' = DOMAIN pollfds /\ used' = used
  <2>1. DOMAIN pollfds' = DOMAIN pollfds
    BY <1>1
  <2> QED
    BY <2>1 DEF used
<1>5. \A k \in 0 .. used - 1 : /\ pollfds'[k].fd = pollfds[k].fd
                               /\ pollfds'[k].events = pollfds[k].events
                               /\ pollfds'[k].revents = result[k]
                               /\ pollfds'[k] \in Slot
  <2>1. ASSUME NEW k \in 0 .. used - 1
        PROVE  /\ pollfds'[k].fd = pollfds[k].fd
               /\ pollfds'[k].events = pollfds[k].events
               /\ pollfds'[k].revents = result[k]
               /\ pollfds'[k] \in Slot
    <3>1. pollfds[k] \in Slot /\ k \in DOMAIN pollfds /\ result[k] \in Results
      BY SlotTypes DEF IInv
    <3>2. pollfds'[k] = [pollfds[k] EXCEPT !.revents = result[k]]
      BY <1>1, <3>1
    <3> QED
      BY <3>1, <3>2 DEF Slot
  <2> QED
    BY <2>1
<1>6. pollfds' \in [0 .. used - 1 -> Slot]
  BY <1>1, <1>5, SlotTypes DEF IInv
<1>7. reported' \in [Fds -> Results]
  <2>1. \A f \in Fds : fde_ndx[f] = -1 \/ result[fde_ndx[f]] \in Results
    BY SlotTypes DEF IInv
  <2> QED
    BY <1>1, <2>1 DEF Results
<1>8. SlotsConsistent'
  <2>1. ASSUME NEW f \in Fds
        PROVE  IF fde_ndx'[f] = -1 THEN events'[f] = {}
               ELSE /\ f \in registered'
                    /\ pollfds'[fde_ndx'[f]].fd = f
                    /\ pollfds'[fde_ndx'[f]].events = events'[f]
    BY <1>2, <1>5, SlotTypes DEF IInv, SlotInv, SlotsConsistent
  <2>2. \A k \in 0 .. used' - 1 : pollfds'[k].fd # -1 => fde_ndx'[pollfds'[k].fd] = k
    BY <1>2, <1>4, <1>5, SlotTypes DEF IInv, SlotInv, SlotsConsistent
  <2>3. \A i \in 1 .. Len(unused') : pollfds'[unused'[i]].fd = -1
    BY <1>2, <1>5, StackFacts DEF IInv
  <2>4. \A k \in 0 .. used' - 1 : pollfds'[k].fd = -1 =>
          \E i \in 1 .. Len(unused') : unused'[i] = k
    BY <1>2, <1>4, <1>5, StackFacts DEF IInv
  <2>5. \A i, j \in 1 .. Len(unused') : unused'[i] = unused'[j] => i = j
    BY <1>2, StackFacts DEF IInv
  <2>6. /\ used' \in Nat /\ DOMAIN pollfds' = 0 .. used' - 1
        /\ unused' \in Seq(0 .. used' - 1)
    BY <1>2, <1>4, SlotTypes DEF IInv
  <2> QED
    BY <2>1, <2>2, <2>3, <2>4, <2>5, <2>6, ConsistentAgain
<1>9. SlotInv'
  <2>1. n' \in 0 .. used' /\ fd_ndx' \in -1 .. used' - 1
    BY <1>2, <1>3, <1>4, SlotTypes DEF IInv
  <2>2. pc' \in {"main", "walk", "handler", "fault"} /\ pending' \subseteq registered'
    BY <1>1, <1>2
  <2>3. TypeOK'
    BY <1>2, <1>4, <1>6, <1>7, <2>1, <2>2 DEF IInv, SlotInv, TypeOK, Slot
  <2> QED
    BY <1>2, <1>4, <1>8, <2>3 DEF IInv, SlotInv, Sized, NdxInRange
<1>10. PICK u \in Nat : u = used
  BY SlotTypes DEF IInv
<1>11. ReadyBelow(u)' = ready
  BY <1>2, <1>4, <1>5, <1>10, SlotTypes DEF IInv, ReadyBelow, ReadyBeyond
<1>12. WalkCounts'
  <2> SUFFICES ASSUME Walking' PROVE /\ n' >= 1
                                     /\ \E m \in 0 .. used' :
                                          /\ Cardinality(ReadyBelow(m)') = Left'
                                          /\ PendingAhead(m)'
                                          /\ ~drops_others' => AheadPending(m)'
    BY DEF WalkCounts
  <2>1. pc' = "walk" /\ n' > 0
    BY <1>1 DEF Walking
  <2>2. u \in 0 .. used'
    BY <1>4, <1>10
  <2>3. Cardinality(ReadyBelow(u)') = Left'
    BY <1>3, <1>11, <2>1 DEF Left
  <2>4. PendingAhead(u)'
    <3>1. ASSUME NEW f \in pending'
          PROVE  fde_ndx'[f] \in ready /\ pollfds'[fde_ndx'[f]].revents = reported'[f]
      <4>1. f \in Fds /\ reported'[f] # {}
        BY <1>1, SlotTypes DEF IInv
      <4>2. fde_ndx[f] # -1 /\ reported'[f] = result[fde_ndx[f]]
        BY <1>1, <4>1
      <4>3. fde_ndx[f] \in 0 .. used - 1 /\ fde_ndx[f] \in DOMAIN pollfds
        BY <4>1, <4>2, SlotTypes DEF IInv
      <4> QED
        BY <1>2, <1>5, <4>1, <4>2, <4>3
    <3> QED
      BY <3>1, <1>11 DEF PendingAhead
  <2>5. AheadPending(u)'
    <3>1. ASSUME NEW k \in ready PROVE pollfds'[k].fd \in pending'
      <4>1. k \in 0 .. used - 1 /\ k \in DOMAIN pollfds /\ result[k] # {}
        BY SlotTypes DEF IInv
      <4>2. pollfds[k].fd # -1
        BY <1>1, <4>1 DEF Answer
      <4>3. /\ pollfds[k].fd \in Fds /\ fde_ndx[pollfds[k].fd] = k
            /\ fde_ndx[pollfds[k].fd] # -1
        BY <4>1, <4>2, SlotTypes DEF IInv, SlotInv, SlotsConsistent
      <4>4. pollfds[k].fd \in registered
        BY <4>3 DEF IInv, SlotInv, SlotsConsistent
      <4>5. reported'[pollfds[k].fd] = result[k]
        BY <1>1, <4>3
      <4>6. pollfds[k].fd \in pending'
        BY <1>1, <4>1, <4>4, <4>5
      <4> QED
        BY <1>5, <4>1, <4>6
    <3> QED
      BY <3>1, <1>11 DEF AheadPending
  <2>6. n' >= 1
    BY <1>3, <2>1
  <2>7. \E m \in 0 .. used' : /\ Cardinality(ReadyBelow(m)') = Left'
                              /\ PendingAhead(m)'
                              /\ ~drops_others' => AheadPending(m)'
    BY <2>2, <2>3, <2>4, <2>5
  <2> QED
    BY <2>6, <2>7
<1>13. SelfSeen' /\ NoFault'
  BY <1>1 DEF SelfSeen, NoFault
<1>14. WalkComplete'
  <2> SUFFICES ASSUME pc' = "main", NEW f \in pending' PROVE FALSE
    BY DEF WalkComplete
  <2>1. ready = {}
    BY <1>1, <1>3
  <2>2. f \in Fds /\ reported'[f] # {}
    BY <1>1, SlotTypes DEF IInv
  <2>3. fde_ndx[f] # -1 /\ reported'[f] = result[fde_ndx[f]] /\ fde_ndx[f] \in DOMAIN pollfds
    BY <1>1, <2>2, SlotTypes DEF IInv
  <2> QED
    BY <2>1, <2>2, <2>3
<1> QED
  BY <1>9, <1>12, <1>13, <1>14 DEF IInv

\* The slot Dispatch takes is one the walk was still to come to.
LEMMA DispatchSlot ==
  ASSUME IInv, pc = "walk", NEW m \in 0 .. used,
         Cardinality(ReadyBelow(m)) = Left
  PROVE  LET k == NextReady(fd_ndx) IN
         /\ k \in ReadyBelow(m) /\ k \in 0 .. used - 1 /\ k # -1
         /\ {j \in ReadyBeyond(k) : j < m} = ReadyBelow(m) \ {k}
         /\ Cardinality(ReadyBelow(m) \ {k}) = n - 1
<1> DEFINE k == NextReady(fd_ndx)
<1>1. /\ fd_ndx \in Int /\ n \in Nat /\ n >= 1 /\ Left = n /\ m \in Int
      /\ DOMAIN pollfds \subseteq Nat
  BY SlotTypes DEF IInv, SlotInv, TypeOK, WalkCounts, Walking, Left
<1>2. IsFiniteSet(ReadyBelow(m)) /\ ReadyBelow(m) # {}
  <2>1. ReadyBelow(m) \in SUBSET DOMAIN pollfds
    BY DEF ReadyBelow, ReadyBeyond
  <2> QED
    BY <2>1, <1>1, SlotsFinite DEF IInv
<1>3. k \in ReadyBeyond(fd_ndx) /\ \A i \in ReadyBeyond(fd_ndx) : k <= i
  <2>1. ReadyBeyond(fd_ndx) # {}
    BY <1>2 DEF ReadyBelow
  <2> QED
    BY <2>1, <1>1, NextReadyIs DEF IInv
<1> HIDE DEF k
<1>4. k \in DOMAIN pollfds /\ k \in Nat /\ k > fd_ndx
  BY <1>1, <1>3 DEF ReadyBeyond
<1>5. k < m
  <2>1. PICK i \in ReadyBelow(m) : TRUE
    BY <1>2
  <2>2. i \in ReadyBeyond(fd_ndx) /\ i < m /\ i \in Nat
    BY <1>1, <2>1 DEF ReadyBelow, ReadyBeyond
  <2> QED
    BY <1>1, <1>3, <1>4, <2>2
<1>6. k \in ReadyBelow(m)
  BY <1>3, <1>5 DEF ReadyBelow
<1>7. {j \in ReadyBeyond(k) : j < m} = ReadyBelow(m) \ {k}
  <2>1. \A j \in DOMAIN pollfds : pollfds[j].revents # {} =>
          (j > k <=> j > fd_ndx /\ j # k)
    <3>1. ASSUME NEW j \in DOMAIN pollfds, pollfds[j].revents # {}, j > fd_ndx, j # k
          PROVE  j > k
      <4>1. j \in ReadyBeyond(fd_ndx) /\ j \in Nat
        BY <1>1, <3>1 DEF ReadyBeyond
      <4> QED
        BY <1>3, <1>4, <3>1, <4>1
    <3> QED
      BY <1>1, <1>4, <3>1
  <2> QED
    BY <2>1 DEF ReadyBelow, ReadyBeyond
<1>8. Cardinality(ReadyBelow(m) \ {k}) = n - 1
  BY <1>1, <1>2, <1>6, FS_RemoveElement
<1> QED
  BY <1>4, <1>6, <1>7, <1>8, SlotTypes DEF IInv, k

LEMMA DispatchIInv ==
  ASSUME IInv, UNCHANGED drops_others, Dispatch
  PROVE  IInv'
<1> DEFINE k == NextReady(fd_ndx)
<1>0. /\ pc = "walk" /\ UNCHANGED <<fdVars, n, reported, drops_others>>
      /\ IF k = -1
         THEN pc' = "main" /\ UNCHANGED <<fd_ndx, self, pending>>
         ELSE IF pollfds[k].fd = -1
         THEN pc' = "fault" /\ UNCHANGED <<fd_ndx, self, pending>>
         ELSE /\ pc' = "handler"
              /\ fd_ndx' = k
              /\ self' = pollfds[k].fd
              /\ pending' = pending \ {self'}
  BY DEF Dispatch
<1>1. PICK m \in 0 .. used : /\ Cardinality(ReadyBelow(m)) = Left
                             /\ PendingAhead(m)
                             /\ ~drops_others => AheadPending(m)
  BY <1>0 DEF IInv, WalkCounts, Walking
<1>2. /\ k \in ReadyBelow(m) /\ k \in 0 .. used - 1 /\ k # -1
      /\ {j \in ReadyBeyond(k) : j < m} = ReadyBelow(m) \ {k}
      /\ Cardinality(ReadyBelow(m) \ {k}) = n - 1
  BY <1>0, <1>1, DispatchSlot
<1> HIDE DEF k
<1>3. /\ registered' = registered /\ events' = events /\ fde_ndx' = fde_ndx
      /\ pollfds' = pollfds /\ unused' = unused /\ n' = n /\ reported' = reported
      /\ drops_others' = drops_others /\ used' = used
  BY <1>0 DEF fdVars, used
<1>4. SlotsConsistent' /\ Sized' /\ NdxInRange'
  BY <1>3 DEF IInv, SlotInv, SlotsConsistent, Sized, NdxInRange
<1>5. n >= 1
  BY <1>0 DEF IInv, WalkCounts, Walking
<1>6. CASE pollfds[k].fd = -1
  <2>1. pc' = "fault" /\ UNCHANGED <<fd_ndx, self, pending>>
    BY <1>0, <1>2, <1>6
  <2>2. drops_others
    <3>1. -1 \notin pending
      BY SlotTypes, FdAssumption DEF IInv
    <3> QED
      BY <3>1, <1>1, <1>2, <1>6 DEF AheadPending
  <2>3. TypeOK'
    BY <1>3, <2>1 DEF IInv, SlotInv, TypeOK
  <2> QED
    BY <1>3, <1>4, <2>1, <2>2, <2>3
       DEF IInv, SlotInv, WalkCounts, Walking, SelfSeen, WalkComplete, NoFault
<1>7. CASE pollfds[k].fd # -1
  <2>1. /\ pc' = "handler" /\ fd_ndx' = k /\ self' = pollfds[k].fd
        /\ pending' = pending \ {self'}
    BY <1>0, <1>2, <1>7
  <2>2. /\ self' \in Fds /\ fde_ndx[self'] = k
        /\ \A f \in Fds : fde_ndx[f] # -1 => pollfds[fde_ndx[f]].fd = f
    BY <1>2, <1>7, <2>1, SlotTypes DEF IInv, SlotInv, SlotsConsistent
  <2>3. TypeOK'
    <3>1. fd_ndx' \in -1 .. used - 1 /\ pending' \subseteq registered
      BY <1>2, <2>1, SlotTypes DEF IInv
    <3> QED
      BY <1>3, <2>1, <2>2, <3>1 DEF IInv, SlotInv, TypeOK
  <2>4. ReadyBelow(m)' = ReadyBelow(m) \ {k}
    <3>1. ReadyBelow(m)' = {j \in ReadyBeyond(k) : j < m}
      BY <1>3, <2>1 DEF ReadyBelow, ReadyBeyond
    <3> QED
      BY <3>1, <1>2
  <2>5. m \in 0 .. used' /\ Left' = n - 1
    BY <1>3, <2>1 DEF Left
  <2>6. PendingAhead(m)'
    <3>1. ASSUME NEW f \in pending'
          PROVE  /\ fde_ndx[f] \in ReadyBelow(m) \ {k}
                 /\ pollfds[fde_ndx[f]].revents = reported[f]
      <4>1. /\ f \in pending /\ f # self' /\ f \in Fds
            /\ fde_ndx[f] \in ReadyBelow(m)
            /\ pollfds[fde_ndx[f]].revents = reported[f]
        BY <1>1, <2>1, SlotTypes DEF PendingAhead, IInv
      <4>2. fde_ndx[f] \in 0 .. used - 1 /\ fde_ndx[f] # -1
        BY <4>1, SlotTypes DEF ReadyBelow, ReadyBeyond, IInv
      <4>3. fde_ndx[f] # k
        BY <4>1, <4>2, <2>1, <2>2
      <4> QED
        BY <4>1, <4>3
    <3> QED
      BY <3>1, <1>3, <2>4 DEF PendingAhead
  <2>7. ~drops_others' => AheadPending(m)'
    <3>1. ASSUME ~drops_others, NEW j \in ReadyBelow(m) \ {k}
          PROVE  pollfds[j].fd \in pending'
      <4>1. pollfds[j].fd \in pending /\ pollfds[j].fd \in Fds /\ pollfds[j].fd # -1
        BY <1>1, <3>1, SlotTypes, FdAssumption DEF AheadPending, IInv
      <4>2. fde_ndx[pollfds[j].fd] = j
        BY <3>1, <4>1 DEF ReadyBelow, ReadyBeyond, IInv, SlotInv, SlotsConsistent
      <4> QED
        BY <3>1, <4>1, <4>2, <2>1, <2>2
    <3> QED
      BY <3>1, <1>3, <2>4 DEF AheadPending
  <2>8. WalkCounts'
    <3>1. Cardinality(ReadyBelow(m)') = Left'
      BY <1>2, <2>4, <2>5
    <3> QED
      BY <1>3, <1>5, <2>5, <2>6, <2>7, <3>1 DEF WalkCounts
  <2>9. SelfSeen' /\ WalkComplete' /\ NoFault'
    BY <2>1, <2>2 DEF SelfSeen, WalkComplete, NoFault
  <2> QED
    BY <1>4, <2>3, <2>8, <2>9 DEF IInv, SlotInv
<1> QED
  BY <1>6, <1>7

LEMMA HandlerReturnsIInv ==
  ASSUME IInv, UNCHANGED drops_others, HandlerReturns
  PROVE  IInv'
<1>0. /\ pc = "handler" /\ n' = n - 1 /\ pc' = (IF n > 1 THEN "walk" ELSE "main")
      /\ self' = -1 /\ UNCHANGED <<fdVars, fd_ndx, reported, pending, drops_others>>
  BY DEF HandlerReturns, EndOfStep, MoreToCome
<1>1. PICK m \in 0 .. used : /\ Cardinality(ReadyBelow(m)) = n - 1
                             /\ PendingAhead(m)
                             /\ ~drops_others => AheadPending(m)
  BY <1>0 DEF IInv, WalkCounts, Walking, Left
<1>2. n \in 0 .. used /\ n >= 1
  BY <1>0 DEF IInv, SlotInv, TypeOK, WalkCounts, Walking
<1>3. /\ registered' = registered /\ events' = events /\ fde_ndx' = fde_ndx
      /\ pollfds' = pollfds /\ unused' = unused /\ fd_ndx' = fd_ndx
      /\ reported' = reported /\ pending' = pending
      /\ drops_others' = drops_others /\ used' = used
  BY <1>0 DEF fdVars, used
<1>4. SlotInv'
  <2>1. SlotsConsistent' /\ Sized' /\ NdxInRange'
    BY <1>3 DEF IInv, SlotInv, SlotsConsistent, Sized, NdxInRange
  <2>2. n' \in 0 .. used /\ pc' \in {"main", "walk", "handler", "fault"}
    BY <1>0, <1>2, SlotTypes DEF IInv
  <2>3. TypeOK'
    BY <1>0, <1>3, <2>2 DEF IInv, SlotInv, TypeOK
  <2> QED
    BY <2>1, <2>3 DEF SlotInv
<1>5. ReadyBelow(m)' = ReadyBelow(m)
  BY <1>3 DEF ReadyBelow, ReadyBeyond
<1>6. CASE n > 1
  <2>1. pc' = "walk" /\ Left' = n - 1 /\ n' >= 1
    BY <1>0, <1>2, <1>6 DEF Left
  <2>2. PendingAhead(m)' /\ (~drops_others' => AheadPending(m)')
    BY <1>1, <1>3, <1>5 DEF PendingAhead, AheadPending
  <2>3. m \in 0 .. used' /\ Cardinality(ReadyBelow(m)') = Left'
    BY <1>1, <1>3, <1>5, <2>1
  <2>4. WalkCounts'
    BY <2>1, <2>2, <2>3 DEF WalkCounts
  <2> QED
    BY <1>4, <2>1, <2>4 DEF IInv, SelfSeen, WalkComplete, NoFault
<1>7. CASE ~ n > 1
  <2>1. pc' = "main" /\ n - 1 = 0
    BY <1>0, <1>2, <1>7, SlotTypes DEF IInv
  <2>2. ReadyBelow(m) = {}
    <3>1. ReadyBelow(m) \in SUBSET DOMAIN pollfds
      BY DEF ReadyBelow, ReadyBeyond
    <3> QED
      BY <3>1, <1>1, <2>1, SlotsFinite DEF IInv
  <2>3. pending' = {}
    BY <1>1, <1>3, <2>2 DEF PendingAhead
  <2> QED
    BY <1>4, <2>1, <2>3 DEF IInv, WalkCounts, Walking, SelfSeen, WalkComplete, NoFault
<1> QED
  BY <1>6, <1>7

LEMMA StutterIInv == ASSUME IInv, UNCHANGED vars PROVE IInv'
<1>1. /\ registered' = registered /\ events' = events /\ fde_ndx' = fde_ndx
      /\ pollfds' = pollfds /\ unused' = unused /\ fd_ndx' = fd_ndx /\ n' = n
      /\ pc' = pc /\ self' = self /\ reported' = reported /\ pending' = pending
      /\ drops_others' = drops_others /\ used' = used
  BY DEF vars, fdVars, loopVars, used
<1>2. SlotInv'
  BY <1>1 DEF IInv, SlotInv, TypeOK, SlotsConsistent, Sized, NdxInRange
<1>3. WalkCounts'
  BY <1>1 DEF IInv, WalkCounts, Walking, Left, PendingAhead, AheadPending, ReadyBelow, ReadyBeyond
<1> QED
  BY <1>1, <1>2, <1>3 DEF IInv, SelfSeen, WalkComplete, NoFault

-----------------------------------------------------------------------------
(***************************************************************************)
(* The theorems.                                                           *)
(***************************************************************************)

\* IInv holds in every state, for every number of descriptors and of slots.
THEOREM Invariance == Spec => []IInv
<1>1. Init => IInv
  BY InitIInv
<1>2. IInv /\ [Next]_vars => IInv'
  <2> SUFFICES ASSUME IInv, [Next]_vars PROVE IInv'
    OBVIOUS
  <2>1. ASSUME Next PROVE IInv'
    BY <2>1, RegisterKept, EventSetKept, DropKept, PollIInv, DispatchIInv, HandlerReturnsIInv
       DEF Next
  <2> QED
    BY <2>1, StutterIInv
<1> QED
  BY <1>1, <1>2, PTL DEF Spec

\* The variables keep their types: no slot number leaves the array.
THEOREM TypeCorrect == Spec => []TypeOK
<1>1. IInv => TypeOK
  BY DEF IInv, SlotInv
<1> QED
  BY <1>1, Invariance, PTL

\* Owners, slots and the stack of free slots agree, whatever is set, deleted
\* and reused: fdevent_poll_event_del never finds the slot of another.
THEOREM SlotsCorrect == Spec => []SlotsConsistent
<1>1. IInv => SlotsConsistent
  BY DEF IInv, SlotInv
<1> QED
  BY <1>1, Invariance, PTL

\* The loop does not go back to poll(2) before every reported descriptor that
\* was not dropped had its handler called.
THEOREM WalkCorrect == Spec => []WalkComplete
<1>1. IInv => WalkComplete
  BY DEF IInv
<1> QED
  BY <1>1, Invariance, PTL

\* When handlers drop no descriptor of others the handler of descriptor -1 is
\* never looked up.
THEOREM FaultFree == Spec => []NoFault
<1>1. IInv => NoFault
  BY DEF IInv
<1> QED
  BY <1>1, Invariance, PTL

\* A handler is called for a descriptor that waits for it, and with what the
\* last poll(2) reported for this registration.
THEOREM DispatchCorrect == Spec => DispatchReported
<1>1. ASSUME IInv, [Next]_vars
      PROVE  [~drops_others /\ pc = "walk" /\ pc' = "handler" =>
                /\ self' \in pending
                /\ pollfds[fd_ndx'].revents = reported[self']]_vars
  <2> SUFFICES ASSUME Next, ~drops_others, pc = "walk", pc' = "handler"
               PROVE  /\ self' \in pending
                      /\ pollfds[fd_ndx'].revents = reported[self']
    BY <1>1
  <2>1. Dispatch
    BY DEF Next, Register, EventSet, EventDel, Drop, Poll, HandlerReturns, Running
  <2> DEFINE k == NextReady(fd_ndx)
  <2>2. PICK m \in 0 .. used : /\ Cardinality(ReadyBelow(m)) = Left
                               /\ PendingAhead(m) /\ AheadPending(m)
    BY <1>1 DEF IInv, WalkCounts, Walking
  <2>3. k \in ReadyBelow(m) /\ k \in 0 .. used - 1 /\ k # -1
    BY <1>1, <2>2, DispatchSlot
  <2>4. fd_ndx' = k /\ self' = pollfds[k].fd
    BY <2>1, <2>3 DEF Dispatch
  <2> HIDE DEF k
  <2>5. self' \in pending /\ fde_ndx[self'] = k
    <3>1. pollfds[k].fd \in pending /\ pollfds[k].fd # -1
      BY <1>1, <2>2, <2>3, SlotTypes, FdAssumption DEF AheadPending, IInv
    <3> QED
      BY <1>1, <2>3, <2>4, <3>1, SlotTypes DEF IInv, SlotInv, SlotsConsistent
  <2> QED
    BY <2>2, <2>4, <2>5 DEF PendingAhead
<1>2. IInv /\ [Next]_vars =>
        [~drops_others /\ pc = "walk" /\ pc' = "handler" =>
           /\ self' \in pending
           /\ pollfds[fd_ndx'].revents = reported[self']]_vars
  BY <1>1
<1> QED
  BY <1>2, Invariance, PTL DEF Spec, DispatchReported
=============================================================================
