----------------------------- MODULE ArrayIndex -----------------------------
(***************************************************************************)
(* The arrays of marray.c, which hold the configuration.  `data' holds     *)
(* pointers to elements in the order of their insertion, `sorted' the      *)
(* numbers of the first `used' of its slots in the order of the keys, so   *)
(* that array_get_index can halve the range in which a key may be.         *)
(* Elements behind `used' wait for their reuse.                            *)
(*                                                                         *)
(* Keys are numbers in the order buffer_caseless_compare gives them, which *)
(* takes keys that differ in case for the same.  An element is the number  *)
(* of its memory, `elem' has its fields, and `owner' says who has to free  *)
(* it.  The values collected in an element are a set: the elements whose   *)
(* text was put there.                                                     *)
(*                                                                         *)
(* A call is a few steps, one for every probe of the search, so that what  *)
(* the search keeps from probe to probe can be stated.  Nothing else       *)
(* happens to an array during a call.                                      *)
(*                                                                         *)
(* array_extract_element and array_pop leave the index in disorder, so     *)
(* they are kept out of Spec: FullSpec has them.  An assertion never stops *)
(* the program; a null pointer or a wild index does: that is "fault".      *)
(***************************************************************************)
EXTENDS Integers

CONSTANTS
  Obj,         \* memory for elements
  Strings,     \* those of them that are for a data_string
  Key,         \* keys, as their rank in the order of the array
  IndexKey,    \* the key that stands for a number: buffer_copy_int
  MaxUnique,   \* bound of the model: numbers used as keys
  Growth       \* slots the array grows by, 16 in the code

ASSUME ObjAssumption == Strings \subseteq Obj /\ Obj \subseteq Nat
ASSUME KeyAssumption == Key \subseteq Nat
ASSUME IndexKeyAssumption == MaxUnique \in Nat /\ IndexKey \in [0 .. MaxUnique -> Key]
ASSUME GrowthAssumption == Growth \in Nat \ {0}

VARIABLES
  data, sorted, used, size, unique_ndx,  \* the array
  elem,      \* the fields of every element
  pc,        \* "idle", or how far the call has come
  op,        \* the call
  arg,       \* the element it was given, NONE for a call that has only a key
  target,    \* the key it looks for
  lower, upper, ndx  \* the locals of array_get_index and its result

arrayVars  == <<data, sorted, used, size, unique_ndx>>
searchVars == <<lower, upper, ndx>>
vars       == <<arrayVars, elem, pc, op, arg, target, searchVars>>

NONE == -1

\* The fields of an element: who owns it, du->key (NONE when it is empty),
\* du->is_index_key, and what was collected in it.
Element == [owner : {"nobody", "caller", "array"}, key : Key \cup {NONE},
            indexed : BOOLEAN, value : SUBSET Obj]
Blank   == [owner |-> "nobody", key |-> NONE, indexed |-> FALSE, value |-> {}]

Slots == 0 .. size - 1
InUse == 0 .. used - 1

TypeOK ==
  /\ size \in Nat
  /\ used \in 0 .. size
  /\ data \in [Slots -> Obj \cup {NONE}]
  /\ sorted \in [Slots -> Int]
  /\ unique_ndx \in 0 .. MaxUnique
  /\ elem \in [Obj -> Element]
  /\ pc \in {"idle", "search", "found", "missing", "fault"}
  /\ op \in {"insert", "replace", "get", "set", "extract", "none"}
  /\ arg \in Obj \cup {NONE}
  /\ target \in Key \cup {NONE}
  /\ lower \in Nat /\ upper \in Nat
  /\ ndx \in Int

Init ==
  /\ size = 0 /\ used = 0 /\ unique_ndx = 0
  /\ data = [i \in 0 .. -1 |-> NONE]
  /\ sorted = [i \in 0 .. -1 |-> NONE]
  /\ elem = [o \in Obj |-> Blank]
  /\ pc = "idle" /\ op = "none" /\ arg = NONE /\ target = NONE
  /\ lower = 0 /\ upper = 0 /\ ndx = NONE

-----------------------------------------------------------------------------
(***************************************************************************)
(* The caller.                                                             *)
(***************************************************************************)

\* o is free memory for an element; which is taken makes no difference.
Free(o) ==
  /\ elem[o].owner = "nobody"
  /\ \A p \in Obj : elem[p].owner = "nobody" /\ (p \in Strings <=> o \in Strings) => o <= p

\* data_string_init and its like: a new element with a key, or without one.
New(o, k) ==
  /\ pc = "idle"
  /\ Free(o)
  /\ elem' = [elem EXCEPT ![o] =
                [owner |-> "caller", key |-> k, indexed |-> FALSE, value |-> {o}]]
  /\ UNCHANGED <<arrayVars, pc, op, arg, target, searchVars>>

\* An array is searched from its whole range on.
Look(call, o, k) ==
  /\ pc' = "search" /\ op' = call /\ arg' = o /\ target' = k
  /\ lower' = 0 /\ upper' = used /\ ndx' = NONE

\* Faulty variant: an element without a key keeps none.
NeedsNumber_Never(o) == FALSE

\* An element without a key gets a number for one, and so does an element that
\* had a number before, in this array or in another.
NeedsNumber(o) == elem[o].key = NONE \/ elem[o].indexed

\* array_insert_unique and array_replace, up to the search.
Put(call, o) ==
  /\ pc = "idle"
  /\ elem[o].owner = "caller"
  /\ IF NeedsNumber(o)
     THEN /\ unique_ndx < MaxUnique
          /\ unique_ndx' = unique_ndx + 1
          /\ elem' = [elem EXCEPT ![o].key = IndexKey[unique_ndx], ![o].indexed = TRUE]
     ELSE UNCHANGED <<unique_ndx, elem>>
  /\ Look(call, o, elem'[o].key)
  /\ UNCHANGED <<data, sorted, used, size>>

\* array_get_element, array_set_key_value and array_extract_element, up to the
\* search.
Find(call, k) ==
  /\ pc = "idle"
  /\ Look(call, NONE, k)
  /\ UNCHANGED <<arrayVars, elem>>

-----------------------------------------------------------------------------
(***************************************************************************)
(* array_get_index.                                                        *)
(***************************************************************************)
Probed == (lower + upper) \div 2

\* Key of the element that position p of the index leads to.
KeyAt(p) == elem[data[sorted[p]]].key

\* The index leads to an element there.
Readable(p) == sorted[p] \in Slots /\ data[sorted[p]] # NONE

\* Faulty variant: the middle itself stays in the range, from above.
Above_Stays == Probed
Above == Probed + 1

\* Faulty variant: the middle stays in the range, from below.
Below_OffByOne == Probed - 1
Below == Probed

Probe ==
  /\ pc = "search" /\ lower < upper
  /\ Readable(Probed)
  /\ \/ /\ target = KeyAt(Probed)
        /\ ndx' = sorted[Probed]
        /\ pc' = "found"
        /\ UNCHANGED <<lower, upper>>
     \/ /\ target < KeyAt(Probed)
        /\ upper' = Below
        /\ UNCHANGED <<pc, lower, ndx>>
     \/ /\ target > KeyAt(Probed)
        /\ lower' = Above
        /\ UNCHANGED <<pc, upper, ndx>>
  /\ UNCHANGED <<arrayVars, elem, op, arg, target>>

\* The index leads nowhere.
ProbeFaults ==
  /\ pc = "search" /\ lower < upper
  /\ ~Readable(Probed)
  /\ pc' = "fault"
  /\ UNCHANGED <<arrayVars, elem, op, arg, target, searchVars>>

NotFound ==
  /\ pc = "search" /\ lower >= upper
  /\ pc' = "missing"
  /\ UNCHANGED <<arrayVars, elem, op, arg, target, searchVars>>

\* The call is over, and its locals are gone.
Return ==
  /\ pc' = "idle" /\ op' = "none" /\ arg' = NONE /\ target' = NONE
  /\ lower' = 0 /\ upper' = 0 /\ ndx' = NONE

-----------------------------------------------------------------------------
(***************************************************************************)
(* What the calls do with the result.                                      *)
(***************************************************************************)
Dup == data[ndx]   \* the element that has the key already

\* array_insert_unique of a key that is there: data_string_insert_dup joins the
\* texts, the other insert_dup do nothing; then the new element is freed.  With
\* elements of different types a text would be appended to what is none.
InsertDup ==
  /\ pc = "found" /\ op = "insert"
  /\ IF arg \in Strings /\ Dup \notin Strings
     THEN pc' = "fault" /\ UNCHANGED <<elem, op, arg, target, searchVars>>
     ELSE /\ elem' = [elem EXCEPT ![arg] = Blank,
                                  ![Dup].value = IF arg \in Strings
                                                 THEN @ \cup elem[arg].value ELSE @]
          /\ Return
  /\ UNCHANGED arrayVars

Exchanged == [data EXCEPT ![ndx] = arg]

\* array_replace of a key that is there.
ReplaceOld ==
  /\ pc = "found" /\ op = "replace"
  /\ data' = Exchanged
  /\ elem' = [elem EXCEPT ![Dup] = Blank, ![arg].owner = "array"]
  /\ Return
  /\ UNCHANGED <<sorted, used, size, unique_ndx>>

NewSize == IF used = size THEN size + Growth ELSE size

\* Faulty variant: the entries behind the new one are not moved.
SortedWith_NoShift(pos, n) ==
  [p \in 0 .. NewSize - 1 |-> IF p = pos THEN n ELSE IF p < size THEN sorted[p] ELSE NONE]

\* The index with slot n at position pos.
SortedWith(pos, n) ==
  [p \in 0 .. NewSize - 1 |->
     IF p = pos THEN n
     ELSE IF pos < p /\ p <= n THEN sorted[p - 1]
     ELSE IF p < size THEN sorted[p] ELSE NONE]

\* The slots with element o in the first free one.
DataWith(o) ==
  [i \in 0 .. NewSize - 1 |-> IF i = used THEN o ELSE IF i < size THEN data[i] ELSE NONE]

\* Faulty variant: an element left in the slot is not freed.
FreeLeft_Not(o) == elem[o]

\* The element that array_reset left in the first free slot is freed.
FreeLeft(o) == IF used < size /\ data[used] = o THEN Blank ELSE elem[o]

\* array_find_or_insert of a key that is not there.
Insert ==
  /\ pc = "missing" /\ op \in {"insert", "replace"}
  /\ size' = NewSize
  /\ data' = DataWith(arg)
  /\ elem' = [[o \in Obj |-> FreeLeft(o)] EXCEPT ![arg].owner = "array"]
  /\ sorted' = SortedWith(lower, used)
  /\ used' = used + 1
  /\ Return
  /\ UNCHANGED unique_ndx

\* array_get_element.
Get ==
  /\ pc \in {"found", "missing"} /\ op = "get"
  /\ Return
  /\ UNCHANGED <<arrayVars, elem>>

\* array_set_key_value of a key that is there; vs is the new text.  It takes the
\* element for a data_string, whatever it is.
SetOld(vs) ==
  /\ pc = "found" /\ op = "set"
  /\ IF Dup \notin Strings
     THEN pc' = "fault" /\ UNCHANGED <<elem, op, arg, target, searchVars>>
     ELSE elem' = [elem EXCEPT ![Dup].value = vs] /\ Return
  /\ UNCHANGED arrayVars

Unused(i) == i \in Slots /\ i >= used /\ data[i] \in Strings
\* array_get_unused_element finds none, or takes the first.
NoUnused == \A i \in Slots : ~Unused(i)
FirstUnused(i) == Unused(i) /\ \A j \in Slots : Unused(j) => i <= j

\* array_set_key_value of a key that is not there, with a new element o.  The
\* search that array_insert_unique begins looks for the same key.
SetNew(o, vs) ==
  /\ pc = "missing" /\ op = "set"
  /\ NoUnused
  /\ Free(o) /\ o \in Strings
  /\ elem' = [elem EXCEPT ![o] =
                [owner |-> "caller", key |-> target, indexed |-> FALSE, value |-> vs]]
  /\ Look("insert", o, target)
  /\ UNCHANGED arrayVars

\* The same with an element that waits for reuse.  It still has the flag of its
\* past, so its key may be a number in the end.
SetReused(i, vs) ==
  LET o == data[i] IN
  /\ pc = "missing" /\ op = "set"
  /\ FirstUnused(i)
  /\ data' = [data EXCEPT ![i] = data[used], ![used] = NONE]
  /\ IF elem[o].indexed THEN unique_ndx < MaxUnique /\ unique_ndx' = unique_ndx + 1
                         ELSE UNCHANGED unique_ndx
  /\ elem' = [elem EXCEPT ![o].owner = "caller", ![o].value = vs,
                          ![o].key = IF elem[o].indexed THEN IndexKey[unique_ndx] ELSE target]
  /\ Look("insert", o, elem'[o].key)
  /\ UNCHANGED <<sorted, used, size>>

\* array_reset: the elements are emptied and stay; is_index_key is not cleared.
Reset ==
  LET emptied == {data[i] : i \in InUse} IN
  /\ pc = "idle"
  /\ elem' = [o \in Obj |-> IF o \in emptied
                             THEN [elem[o] EXCEPT !.key = NONE, !.value = {}] ELSE elem[o]]
  /\ used' = 0 /\ unique_ndx' = 0
  /\ UNCHANGED <<data, sorted, size, pc, op, arg, target, searchVars>>

-----------------------------------------------------------------------------
(***************************************************************************)
(* The operations that disturb the index.                                  *)
(***************************************************************************)

\* array_extract_element of a key that is not there.
ExtractNothing ==
  /\ pc = "missing" /\ op = "extract"
  /\ Return
  /\ UNCHANGED <<arrayVars, elem>>

\* The entries behind position p move down to it.
ShiftDown(s, p) == [q \in Slots |-> IF p <= q /\ q < used - 1 THEN s[q + 1] ELSE s[q]]

(***************************************************************************)
(* array_extract_element of a key that is there.  array_get_index sets its *)
(* last argument only when it finds nothing, so pos is what was in memory, *)
(* and so is last_elem_pos, the position of the last element (the second   *)
(* search finds it, unless the index is in disorder already).  NONE stands *)
(* for a position outside of the index.                                    *)
(***************************************************************************)
Extract(pos, last_elem_pos) ==
  LET last == used - 1
      moved == IF ndx = last THEN sorted ELSE [sorted EXCEPT ![last_elem_pos] = ndx]
  IN
  /\ pc = "found" /\ op = "extract"
  /\ used > 0
  /\ data' = [[data EXCEPT ![ndx] = data[last]] EXCEPT ![last] = NONE]
  /\ elem' = [elem EXCEPT ![Dup].owner = "caller"]
  /\ IF pos \notin 0 .. last \/ (ndx # last /\ last_elem_pos = NONE)
     THEN pc' = "fault" /\ UNCHANGED <<sorted, used, op, arg, target, searchVars>>
     ELSE /\ sorted' = [ShiftDown(moved, pos) EXCEPT ![last] = NONE]
          /\ used' = last
          /\ Return
  /\ UNCHANGED <<size, unique_ndx>>

(***************************************************************************)
(* array_pop.  The entries behind the one of the last element should move  *)
(* down, but the length of the move is their number and not their size.    *)
(* With at most 8 of them it reaches into the first one only, whose low    *)
(* byte is all there is of it.                                             *)
(***************************************************************************)
Pop ==
  LET last == used - 1
      of_last == {p \in 0 .. last : sorted[p] = last}
      first == CHOOSE p \in of_last : \A q \in of_last : p <= q
  IN
  /\ pc = "idle"
  /\ used > 0 /\ used <= 8
  /\ data[last] # NONE
  /\ sorted' = IF of_last # {} /\ first < last
               THEN [sorted EXCEPT ![first] = sorted[first + 1]] ELSE sorted
  /\ elem' = [elem EXCEPT ![data[last]].owner = "caller"]
  /\ data' = [data EXCEPT ![last] = NONE]
  /\ used' = last
  /\ UNCHANGED <<size, unique_ndx, pc, op, arg, target, searchVars>>

-----------------------------------------------------------------------------
Search == Probe \/ ProbeFaults \/ NotFound

Next ==
  \/ \E o \in Obj, k \in Key \cup {NONE} : New(o, k)
  \/ \E call \in {"insert", "replace"}, o \in Obj : Put(call, o)
  \/ \E call \in {"get", "set"}, k \in Key : Find(call, k)
  \/ Search
  \/ InsertDup
  \/ ReplaceOld
  \/ Insert
  \/ Get
  \/ \E o \in Obj : SetOld({o})
  \/ \E o, v \in Obj : SetNew(o, {v})
  \/ \E i \in Slots, v \in Obj : SetReused(i, {v})
  \/ Reset

\* A search that began is not left lying: one thread runs it to its end.
Spec == Init /\ [][Next]_vars /\ WF_vars(Search)

FullNext ==
  \/ Next
  \/ \E k \in Key : Find("extract", k)
  \/ ExtractNothing
  \/ \E pos, last_elem_pos \in Slots \cup {NONE} : Extract(pos, last_elem_pos)
  \/ Pop

FullSpec == Init /\ [][FullNext]_vars

-----------------------------------------------------------------------------
(***************************************************************************)
(* Properties                                                              *)
(***************************************************************************)

\* The index is a permutation of the slots in use, in the order of their keys:
\* no two elements have the same key, and every one of them can be found.
IndexSorted ==
  /\ \A p \in InUse : sorted[p] \in InUse /\ data[sorted[p]] # NONE
  /\ \A p, q \in InUse : p < q => KeyAt(p) < KeyAt(q)
  /\ \A i \in InUse : \E p \in InUse : sorted[p] = i

\* A search ends with the slot of its key, or, when no element in use has the
\* key, with the position the key belongs to.
SearchRight ==
  /\ pc = "found" => ndx \in InUse /\ elem[data[ndx]].key = target
  /\ pc = "missing" =>
       /\ \A i \in InUse : elem[data[i]].key # target
       /\ \A p \in InUse : IF p < lower THEN KeyAt(p) < target ELSE target < KeyAt(p)

\* An element is in one slot at most, and the array owns just what is in its
\* slots: nothing is freed twice or used after it was freed, nothing is leaked.
OwnedOnce ==
  /\ \A i, j \in Slots : data[i] = data[j] /\ data[i] # NONE => i = j
  /\ \A o \in Obj : elem[o].owner = "array" <=> \E i \in Slots : data[i] = o

\* The search never follows an entry of the index that leads nowhere.
SearchSafe == pc = "search" /\ lower < upper => Readable(Probed)

\* A call that began its search comes to the end of it.
SearchEnds == pc = "search" ~> pc # "search"

\* Every probe narrows the range that is left.
SearchNarrows ==
  [][pc = "search" /\ pc' = "search" => upper' - lower' < upper - lower]_vars

\* The element in use that has key k.
Holder(k) == data[CHOOSE i \in InUse : elem[data[i]].key = k]

Table == INSTANCE ArrayTable WITH
           Value <- Obj,
           table <- [k \in {elem[data[i]].key : i \in InUse} |-> elem[Holder(k)].value]

\* The array is a table: inserting adds a row or joins two, replacing and setting
\* change the row of their key, and no operation disturbs the row of another.
ImplementsTable == Table!TableSpec

\* marray.c:190 says that array_extract_element removes the entry it found from
\* the array: the index leads to all other elements then, and not to this one.
ExtractRemoves ==
  [][pc = "found" /\ op = "extract" /\ pc' = "idle" =>
       \A i \in InUse :
         data[i] # Dup <=> \E p \in 0 .. used' - 1 :
                             sorted'[p] \in Slots /\ data'[sorted'[p]] = data[i]]_vars
=============================================================================
