-------------------------- MODULE ArrayIndexProofs --------------------------
(***************************************************************************)
(* Proofs about ArrayIndex: for every number of elements, keys and slots,  *)
(* the index stays sorted, searches are right and narrow, every element    *)
(* has one owner, and the array implements ArrayTable.  The inductive      *)
(* invariant adds to the properties what a search knows while it is under  *)
(* way, and what a call knows of the element it was given.                 *)
(***************************************************************************)
EXTENDS ArrayIndex, TLAPS

Busy == pc \in {"search", "found", "missing"}

\* A call that puts an element into the array was given one of the caller's,
\* and looks for its key.
CallOK ==
  Busy =>
    /\ op \in {"insert", "replace", "get", "set"}
    /\ target \in Key
    /\ op \in {"insert", "replace"} =>
         arg \in Obj /\ elem[arg].owner = "caller" /\ elem[arg].key = target

\* Below the range that is left keys are smaller, above it they are greater.
RangeOK ==
  /\ pc = "search" =>
       /\ lower <= upper /\ upper <= used
       /\ \A p \in InUse : /\ p < lower => KeyAt(p) < target
                           /\ p >= upper => target < KeyAt(p)
  /\ pc = "missing" => lower <= used

IInv ==
  /\ TypeOK
  /\ IndexSorted
  /\ OwnedOnce
  /\ CallOK
  /\ RangeOK
  /\ SearchRight

-----------------------------------------------------------------------------
(***************************************************************************)
(* What leaves the array alone keeps the parts of the invariant about it.  *)
(***************************************************************************)

\* The index depends on the keys of the elements in use only.
LEMMA IndexFrame ==
  ASSUME TypeOK, IndexSorted,
         UNCHANGED <<data, sorted, used, size>>,
         \A i \in InUse : elem'[data[i]].key = elem[data[i]].key
  PROVE  /\ IndexSorted'
         /\ \A p \in InUse : KeyAt(p)' = KeyAt(p)
<1>1. \A p \in InUse : sorted[p] \in InUse
  BY DEF IndexSorted
<1>2. \A p \in InUse : KeyAt(p)' = KeyAt(p)
  BY <1>1 DEF KeyAt, InUse
<1>3. InUse' = InUse
  BY DEF InUse
<1> QED
  BY <1>2, <1>3 DEF IndexSorted

\* Ownership depends on the slots and on who owns an element.
LEMMA OwnerFrame ==
  ASSUME OwnedOnce, UNCHANGED <<data, size>>,
         \A o \in Obj : elem'[o].owner = "array" <=> elem[o].owner = "array"
  PROVE  OwnedOnce'
BY DEF OwnedOnce, Slots

\* An element in use belongs to the array.
LEMMA InUseOwned ==
  ASSUME TypeOK, IndexSorted, OwnedOnce
  PROVE  \A i \in InUse : /\ i \in Slots
                          /\ data[i] \in Obj
                          /\ elem[data[i]].owner = "array"
<1> SUFFICES ASSUME NEW i \in InUse
             PROVE  i \in Slots /\ data[i] \in Obj /\ elem[data[i]].owner = "array"
  OBVIOUS
<1>1. i \in Slots
  BY DEF TypeOK, InUse, Slots
<1>2. PICK p \in InUse : sorted[p] = i
  BY DEF IndexSorted
<1>3. data[i] # NONE
  BY <1>2 DEF IndexSorted
<1>4. data[i] \in Obj
  BY <1>1, <1>3 DEF TypeOK
<1> QED
  BY <1>1, <1>4 DEF OwnedOnce

\* No number of an element is the mark of an empty slot.
LEMMA ObjNotNone == NONE \notin Obj
BY ObjAssumption DEF NONE

\* Changes of a field keep the type of an element.
LEMMA ElementTypes ==
  /\ Blank \in Element
  /\ \A e \in Element, vs \in SUBSET Obj :
       /\ [e EXCEPT !.value = vs] \in Element
       /\ [e EXCEPT !.value = vs].owner = e.owner
       /\ [e EXCEPT !.value = vs].key = e.key
<1>1. Blank \in Element
  BY DEF Blank, Element
<1>2. ASSUME NEW e \in Element, NEW vs \in SUBSET Obj
      PROVE  /\ [e EXCEPT !.value = vs] \in Element
             /\ [e EXCEPT !.value = vs].owner = e.owner
             /\ [e EXCEPT !.value = vs].key = e.key
  BY DEF Element
<1> QED
  BY <1>1, <1>2

-----------------------------------------------------------------------------
\* The empty array satisfies the invariant.
LEMMA InitIInv == Init => IInv
<1> SUFFICES ASSUME Init PROVE IInv
  OBVIOUS
<1>1. TypeOK
  BY IndexKeyAssumption DEF Init, TypeOK, Slots, Element, Blank, NONE
<1>2. IndexSorted
  BY DEF Init, IndexSorted, InUse
<1>3. OwnedOnce
  BY DEF Init, OwnedOnce, Slots, Blank
<1>4. CallOK /\ RangeOK /\ SearchRight
  BY DEF Init, CallOK, RangeOK, SearchRight, Busy
<1> QED
  BY <1>1, <1>2, <1>3, <1>4 DEF IInv

-----------------------------------------------------------------------------
(***************************************************************************)
(* The caller.                                                             *)
(***************************************************************************)

\* A new element is no element of the array.
LEMMA NewIInv ==
  ASSUME IInv, NEW o \in Obj, NEW k \in Key \cup {NONE}, New(o, k)
  PROVE  IInv'
<1> USE DEF New, arrayVars, searchVars
<1>1. TypeOK /\ IndexSorted /\ OwnedOnce
  BY DEF IInv
<1>2. elem' \in [Obj -> Element]
  BY <1>1 DEF TypeOK, Element
<1>3. TypeOK'
  BY <1>1, <1>2 DEF TypeOK, Slots
<1>4. elem[o].owner = "nobody"
  BY DEF Free
<1>5. \A p \in Obj \ {o} : elem'[p] = elem[p]
  BY <1>1 DEF TypeOK
<1>6. elem'[o].owner = "caller"
  BY <1>1 DEF TypeOK
<1>7. \A i \in InUse : elem'[data[i]].key = elem[data[i]].key
  BY <1>1, <1>4, <1>5, InUseOwned
<1>8. IndexSorted'
  BY <1>1, <1>7, IndexFrame
<1>9. OwnedOnce'
  BY <1>1, <1>4, <1>5, <1>6, OwnerFrame
<1>10. CallOK' /\ RangeOK' /\ SearchRight'
  BY DEF CallOK, RangeOK, SearchRight, Busy
<1> QED
  BY <1>3, <1>8, <1>9, <1>10 DEF IInv

\* A search begins with the whole range.
LEMMA LookRange ==
  ASSUME IInv, NEW call, NEW o, NEW k, Look(call, o, k), used' = used
  PROVE  RangeOK' /\ SearchRight'
<1>1. used \in Nat
  BY DEF IInv, TypeOK
<1>2. \A p \in InUse' : 0 <= p /\ p < used
  BY <1>1 DEF InUse
<1>3. RangeOK'
  BY <1>1, <1>2 DEF Look, RangeOK, InUse
<1>4. SearchRight'
  BY DEF Look, SearchRight
<1> QED
  BY <1>3, <1>4

\* The element that is put in belongs to the caller still.
LEMMA PutIInv ==
  ASSUME IInv, NEW call \in {"insert", "replace"}, NEW o \in Obj, Put(call, o)
  PROVE  IInv'
<1> USE DEF Put
<1>1. TypeOK /\ IndexSorted /\ OwnedOnce
  BY DEF IInv
<1>2. /\ elem' \in [Obj -> Element]
      /\ unique_ndx' \in 0 .. MaxUnique
      /\ elem'[o].key \in Key
  <2>1. CASE NeedsNumber(o)
    <3>1. unique_ndx \in 0 .. MaxUnique
      BY <1>1 DEF TypeOK
    <3>2. IndexKey[unique_ndx] \in Key
      BY <3>1, IndexKeyAssumption
    <3>3. elem[o] \in Element
      BY <1>1 DEF TypeOK
    <3>4. elem' = [elem EXCEPT ![o] = [[elem[o] EXCEPT !.key = IndexKey[unique_ndx]]
                                         EXCEPT !.indexed = TRUE]]
      BY <2>1, <1>1 DEF TypeOK
    <3>5. [[elem[o] EXCEPT !.key = IndexKey[unique_ndx]] EXCEPT !.indexed = TRUE] \in Element
      BY <3>2, <3>3 DEF Element
    <3>6. unique_ndx' \in 0 .. MaxUnique
      BY <2>1, <3>1, IndexKeyAssumption
    <3>7. elem'[o].key = IndexKey[unique_ndx]
      BY <3>3, <3>4, <1>1 DEF TypeOK, Element
    <3>8. elem' \in [Obj -> Element]
      BY <3>4, <3>5, <1>1 DEF TypeOK
    <3> QED
      BY <3>2, <3>6, <3>7, <3>8
  <2>2. CASE ~NeedsNumber(o)
    BY <2>2, <1>1 DEF TypeOK, NeedsNumber, Element
  <2> QED
    BY <2>1, <2>2
<1>3. TypeOK'
  BY <1>1, <1>2 DEF TypeOK, Look, Slots, NONE
<1>4. /\ \A p \in Obj \ {o} : elem'[p] = elem[p]
      /\ elem'[o].owner = "caller"
  BY <1>1 DEF TypeOK, Element
<1>5. \A i \in InUse : elem'[data[i]].key = elem[data[i]].key
  BY <1>1, <1>4, InUseOwned
<1>6. IndexSorted'
  BY <1>1, <1>5, IndexFrame
<1>7. OwnedOnce'
  BY <1>1, <1>4, OwnerFrame
<1>8. RangeOK' /\ SearchRight'
  BY LookRange
<1>9. CallOK'
  BY <1>2, <1>4 DEF CallOK, Look
<1> QED
  BY <1>3, <1>6, <1>7, <1>8, <1>9 DEF IInv

LEMMA FindIInv ==
  ASSUME IInv, NEW call \in {"get", "set"}, NEW k \in Key, Find(call, k)
  PROVE  IInv'
<1> USE DEF Find, arrayVars
<1>1. TypeOK /\ IndexSorted /\ OwnedOnce
  BY DEF IInv
<1>2. TypeOK'
  BY <1>1 DEF TypeOK, Look, Slots, NONE
<1>3. IndexSorted' /\ OwnedOnce'
  BY <1>1, IndexFrame, OwnerFrame
<1>4. RangeOK' /\ SearchRight'
  BY LookRange
<1>5. CallOK'
  BY DEF CallOK, Look
<1> QED
  BY <1>2, <1>3, <1>4, <1>5 DEF IInv

-----------------------------------------------------------------------------
(***************************************************************************)
(* The search.                                                             *)
(***************************************************************************)

\* The middle lies in the range, and the index can be followed there.
LEMMA ProbedFacts ==
  ASSUME IInv, pc = "search", lower < upper
  PROVE  /\ Probed \in InUse
         /\ lower <= Probed /\ Probed < upper
         /\ Readable(Probed)
         /\ sorted[Probed] \in InUse
<1>1. lower \in Nat /\ upper \in Nat /\ used \in Nat /\ upper <= used
  BY DEF IInv, TypeOK, RangeOK
<1>2. Probed \in Nat /\ lower <= Probed /\ Probed < upper
  BY <1>1 DEF Probed
<1>3. Probed \in InUse
  BY <1>1, <1>2 DEF InUse
<1>4. sorted[Probed] \in InUse /\ data[sorted[Probed]] # NONE
  BY <1>3 DEF IInv, IndexSorted
<1>5. sorted[Probed] \in Slots
  BY <1>4 DEF IInv, TypeOK, InUse, Slots
<1> QED
  BY <1>2, <1>3, <1>4, <1>5 DEF Readable

\* Keys of elements in use can be compared.
LEMMA KeyAtInt ==
  ASSUME IInv
  PROVE  \A p \in InUse : KeyAt(p) \in Int
<1> SUFFICES ASSUME NEW p \in InUse PROVE KeyAt(p) \in Int
  OBVIOUS
<1>1. sorted[p] \in InUse
  BY DEF IInv, IndexSorted
<1>2. data[sorted[p]] \in Obj
  BY <1>1, InUseOwned DEF IInv
<1>3. elem[data[sorted[p]]] \in Element
  BY <1>2 DEF IInv, TypeOK
<1> QED
  BY <1>3, KeyAssumption DEF Element, KeyAt, NONE

LEMMA ProbeIInv ==
  ASSUME IInv, Probe
  PROVE  IInv'
<1> USE DEF arrayVars
<1>1. TypeOK /\ IndexSorted /\ OwnedOnce /\ CallOK /\ RangeOK
  BY DEF IInv
<1>2. UNCHANGED <<data, sorted, used, size, unique_ndx, elem, op, arg, target>>
  BY DEF Probe
<1>3. pc = "search" /\ lower < upper /\ target \in Key
  BY <1>1 DEF Probe, CallOK, Busy
<1>4. /\ Probed \in InUse /\ lower <= Probed /\ Probed < upper
      /\ sorted[Probed] \in InUse
  BY <1>3, ProbedFacts
<1>5. IndexSorted' /\ OwnedOnce' /\ \A p \in InUse : KeyAt(p)' = KeyAt(p)
  BY <1>1, <1>2, IndexFrame, OwnerFrame
<1>6. InUse' = InUse
  BY <1>2 DEF InUse
<1>7. Probed \in Nat /\ lower \in Nat /\ upper \in Nat /\ used \in Nat
      /\ upper <= used /\ target \in Int
  BY <1>1, <1>3, <1>4, KeyAssumption DEF TypeOK, RangeOK, InUse
<1>8. \A p \in InUse : p \in Nat /\ KeyAt(p) \in Int
  BY KeyAtInt DEF InUse
<1>9. CASE target = KeyAt(Probed) /\ ndx' = sorted[Probed] /\ pc' = "found"
           /\ UNCHANGED <<lower, upper>>
  <2>1. TypeOK'
    BY <1>1, <1>2, <1>9, <1>4, <1>7 DEF TypeOK, InUse, Slots
  <2>2. CallOK' /\ RangeOK'
    BY <1>1, <1>2, <1>3, <1>9 DEF CallOK, RangeOK, Busy
  <2>3. SearchRight'
    BY <1>2, <1>4, <1>6, <1>9 DEF SearchRight, KeyAt
  <2> QED
    BY <1>5, <2>1, <2>2, <2>3 DEF IInv
<1>10. CASE target < KeyAt(Probed) /\ upper' = Below /\ UNCHANGED <<pc, lower, ndx>>
  <2>1. TypeOK'
    BY <1>1, <1>2, <1>10, <1>7 DEF TypeOK, Slots, Below
  <2>2. CallOK' /\ SearchRight'
    BY <1>1, <1>2, <1>3, <1>10 DEF CallOK, SearchRight, Busy
  <2>3. \A p \in InUse : p >= Probed => target < KeyAt(p)
    <3> SUFFICES ASSUME NEW p \in InUse, p >= Probed PROVE target < KeyAt(p)
      OBVIOUS
    <3>1. CASE p = Probed
      BY <3>1, <1>10
    <3>2. CASE Probed < p
      <4>1. KeyAt(Probed) < KeyAt(p)
        BY <3>2, <1>1, <1>4 DEF IndexSorted
      <4> QED
        BY <4>1, <1>4, <1>7, <1>8, <1>10
    <3> QED
      BY <3>1, <3>2, <1>7, <1>8
  <2>4. RangeOK'
    <3>1. \A p \in InUse : p < lower => KeyAt(p) < target
      BY <1>1, <1>3 DEF RangeOK
    <3>2. pc' = "search" /\ lower' = lower /\ upper' = Probed /\ used' = used /\ target' = target
      BY <1>2, <1>3, <1>10 DEF Below
    <3>3. lower' <= upper' /\ upper' <= used'
      BY <3>2, <1>4, <1>7
    <3>4. \A p \in InUse' : /\ p < lower' => KeyAt(p)' < target'
                            /\ p >= upper' => target' < KeyAt(p)'
      BY <3>1, <3>2, <2>3, <1>5, <1>6
    <3> QED
      BY <3>2, <3>3, <3>4 DEF RangeOK
  <2> QED
    BY <1>5, <2>1, <2>2, <2>4 DEF IInv
<1>11. CASE target > KeyAt(Probed) /\ lower' = Above /\ UNCHANGED <<pc, upper, ndx>>
  <2>1. TypeOK'
    BY <1>1, <1>2, <1>11, <1>7 DEF TypeOK, Slots, Above
  <2>2. CallOK' /\ SearchRight'
    BY <1>1, <1>2, <1>3, <1>11 DEF CallOK, SearchRight, Busy
  <2>3. \A p \in InUse : p < Probed + 1 => KeyAt(p) < target
    <3> SUFFICES ASSUME NEW p \in InUse, p < Probed + 1 PROVE KeyAt(p) < target
      OBVIOUS
    <3>1. CASE p = Probed
      BY <3>1, <1>11, <1>4, <1>7, <1>8
    <3>2. CASE p < Probed
      <4>1. KeyAt(p) < KeyAt(Probed)
        BY <3>2, <1>1, <1>4 DEF IndexSorted
      <4> QED
        BY <4>1, <1>4, <1>7, <1>8, <1>11
    <3> QED
      BY <3>1, <3>2, <1>7, <1>8
  <2>4. RangeOK'
    <3>1. \A p \in InUse : p >= upper => target < KeyAt(p)
      BY <1>1, <1>3 DEF RangeOK
    <3>2. pc' = "search" /\ lower' = Probed + 1 /\ upper' = upper /\ used' = used /\ target' = target
      BY <1>2, <1>3, <1>11 DEF Above
    <3>3. lower' <= upper' /\ upper' <= used'
      BY <3>2, <1>4, <1>7
    <3>4. \A p \in InUse' : /\ p < lower' => KeyAt(p)' < target'
                            /\ p >= upper' => target' < KeyAt(p)'
      BY <3>1, <3>2, <2>3, <1>5, <1>6
    <3> QED
      BY <3>2, <3>3, <3>4 DEF RangeOK
  <2> QED
    BY <1>5, <2>1, <2>2, <2>4 DEF IInv
<1> QED
  BY <1>9, <1>10, <1>11 DEF Probe

\* A range that is empty is the position of a key that is not there.
LEMMA NotFoundIInv ==
  ASSUME IInv, NotFound
  PROVE  IInv'
<1> USE DEF NotFound, arrayVars, searchVars
<1>1. TypeOK /\ IndexSorted /\ OwnedOnce /\ CallOK /\ RangeOK
  BY DEF IInv
<1>2. TypeOK' /\ IndexSorted' /\ OwnedOnce'
  BY <1>1, IndexFrame, OwnerFrame DEF TypeOK, Slots
<1>3. CallOK'
  BY <1>1 DEF CallOK, Busy
<1>4. lower = upper /\ upper <= used /\ lower \in Nat /\ used \in Nat /\ target \in Int
  BY <1>1, KeyAssumption DEF TypeOK, RangeOK, CallOK, Busy
<1>5. RangeOK'
  BY <1>4 DEF RangeOK
<1>6. \A p \in InUse : IF p < lower THEN KeyAt(p) < target ELSE target < KeyAt(p)
  BY <1>1, <1>4 DEF RangeOK, InUse
<1>7. \A i \in InUse : elem[data[i]].key # target
  <2> SUFFICES ASSUME NEW i \in InUse PROVE elem[data[i]].key # target
    OBVIOUS
  <2>1. PICK p \in InUse : sorted[p] = i
    BY <1>1 DEF IndexSorted
  <2>2. KeyAt(p) # target
    BY <1>6, <1>4, KeyAtInt
  <2> QED
    BY <2>1, <2>2 DEF KeyAt
<1>8. SearchRight'
  BY <1>6, <1>7 DEF SearchRight, InUse, KeyAt
<1> QED
  BY <1>2, <1>3, <1>5, <1>8 DEF IInv

\* ProbeFaults is no step that can happen.
LEMMA ProbeDoesNotFault ==
  ASSUME IInv, ProbeFaults
  PROVE  FALSE
BY ProbedFacts DEF ProbeFaults

-----------------------------------------------------------------------------
(***************************************************************************)
(* What the calls do with the result.                                      *)
(***************************************************************************)

\* When no call is under way nothing is known of one.
LEMMA NoCall ==
  ASSUME pc' \in {"idle", "fault"}
  PROVE  CallOK' /\ RangeOK' /\ SearchRight'
BY DEF CallOK, RangeOK, SearchRight, Busy

\* The locals of a call that is over have their types.
LEMMA ReturnTypes ==
  ASSUME Return
  PROVE  /\ pc' = "idle" /\ op' = "none" /\ arg' = NONE /\ target' = NONE
         /\ lower' \in Nat /\ upper' \in Nat /\ ndx' \in Int
BY DEF Return, NONE

\* The element found is in use, so it belongs to the array and is not the one
\* that the call was given.
LEMMA DupFacts ==
  ASSUME IInv, pc = "found"
  PROVE  /\ ndx \in InUse /\ ndx \in Slots
         /\ Dup \in Obj /\ Dup # NONE
         /\ elem[Dup].owner = "array" /\ elem[Dup].key = target
         /\ op \in {"insert", "replace"} =>
              arg \in Obj /\ arg # Dup /\ elem[arg].owner = "caller" /\ elem[arg].key = target
<1>1. ndx \in InUse /\ elem[data[ndx]].key = target
  BY DEF IInv, SearchRight
<1>2. ndx \in Slots /\ data[ndx] \in Obj /\ elem[data[ndx]].owner = "array"
  BY <1>1, InUseOwned DEF IInv
<1>3. op \in {"insert", "replace"} =>
        arg \in Obj /\ elem[arg].owner = "caller" /\ elem[arg].key = target
  BY DEF IInv, CallOK, Busy
<1> QED
  BY <1>1, <1>2, <1>3, ObjNotNone DEF Dup

LEMMA InsertDupIInv ==
  ASSUME IInv, InsertDup
  PROVE  IInv'
<1> USE DEF InsertDup, arrayVars, searchVars
<1>1. TypeOK /\ IndexSorted /\ OwnedOnce
  BY DEF IInv
<1>2. CASE arg \in Strings /\ Dup \notin Strings
  <2>1. TypeOK' /\ IndexSorted' /\ OwnedOnce'
    BY <1>1, <1>2, IndexFrame, OwnerFrame DEF TypeOK, Slots
  <2> QED
    BY <1>2, <2>1, NoCall DEF IInv
<1>3. CASE ~(arg \in Strings /\ Dup \notin Strings)
  <2> DEFINE vs == IF arg \in Strings THEN elem[Dup].value \cup elem[arg].value
                                      ELSE elem[Dup].value
  <2>1. /\ arg \in Obj /\ Dup \in Obj /\ arg # Dup
        /\ elem[Dup].owner = "array" /\ elem[arg].owner = "caller"
    BY DupFacts
  <2>2. elem \in [Obj -> Element]
    BY <1>1 DEF TypeOK
  <2>3. /\ elem'[arg] = Blank
        /\ elem'[Dup] = [elem[Dup] EXCEPT !.value = vs]
        /\ \A p \in Obj \ {arg, Dup} : elem'[p] = elem[p]
        /\ DOMAIN elem' = Obj
        /\ elem' = [p \in Obj |-> elem'[p]]
    BY <1>3, <2>1, <2>2
  <2>4. elem[Dup] \in Element /\ vs \in SUBSET Obj
    BY <2>1, <2>2 DEF Element
  <2> HIDE DEF vs
  <2>5. elem'[Dup] \in Element /\ elem'[Dup].owner = "array" /\ elem'[Dup].key = elem[Dup].key
    BY <2>1, <2>3, <2>4, ElementTypes
  <2>6. elem' \in [Obj -> Element]
    <3>1. \A p \in Obj : elem'[p] \in Element
      BY <2>2, <2>3, <2>5, ElementTypes
    <3> QED
      BY <3>1, <2>3
  <2>7. TypeOK'
    BY <1>1, <1>3, <2>6, ReturnTypes DEF TypeOK, Slots
  <2>8. \A i \in InUse : data[i] \in Obj /\ data[i] # arg
    BY <1>1, <2>1, InUseOwned
  <2>9. IndexSorted'
    BY <1>1, <2>3, <2>5, <2>8, IndexFrame
  <2>10. OwnedOnce'
    <3>1. elem'[arg].owner = "nobody"
      BY <2>3 DEF Blank
    <3>2. \A o \in Obj : elem'[o].owner = "array" <=> elem[o].owner = "array"
      BY <2>1, <2>3, <2>5, <3>1
    <3> QED
      BY <1>1, <1>3, <3>2, OwnerFrame
  <2> QED
    BY <1>3, <2>7, <2>9, <2>10, NoCall, ReturnTypes DEF IInv
<1> QED
  BY <1>2, <1>3

\* The new element takes the place of the old one, under the same key.
LEMMA ReplaceOldIInv ==
  ASSUME IInv, ReplaceOld
  PROVE  IInv'
<1> USE DEF ReplaceOld, Exchanged
<1>1. TypeOK /\ IndexSorted /\ OwnedOnce
  BY DEF IInv
<1>2. /\ ndx \in InUse /\ ndx \in Slots
      /\ arg \in Obj /\ Dup \in Obj /\ arg # Dup /\ arg # NONE
      /\ elem[Dup].owner = "array" /\ elem[arg].owner = "caller"
      /\ elem[Dup].key = target /\ elem[arg].key = target
  BY DupFacts, ObjNotNone
<1>3. elem \in [Obj -> Element] /\ data \in [Slots -> Obj \cup {NONE}]
  BY <1>1 DEF TypeOK
<1>4. /\ elem'[Dup] = Blank
      /\ elem'[arg] = [elem[arg] EXCEPT !.owner = "array"]
      /\ \A p \in Obj \ {arg, Dup} : elem'[p] = elem[p]
      /\ elem' = [p \in Obj |-> elem'[p]]
  BY <1>2, <1>3
<1>5. elem'[arg] \in Element /\ elem'[arg].owner = "array" /\ elem'[arg].key = target
  <2> DEFINE e == elem[arg]
  <2>1. e \in Element /\ e.key = target /\ elem'[arg] = [e EXCEPT !.owner = "array"]
    BY <1>2, <1>3, <1>4
  <2> HIDE DEF e
  <2> QED
    BY <2>1 DEF Element
<1>6. elem' \in [Obj -> Element]
  <2>1. \A p \in Obj : elem'[p] \in Element
    BY <1>3, <1>4, <1>5, ElementTypes
  <2> QED
    BY <2>1, <1>4
<1>7. Slots' = Slots /\ InUse' = InUse
  BY DEF Slots, InUse
<1>8. /\ data' \in [Slots -> Obj \cup {NONE}]
      /\ data'[ndx] = arg
      /\ \A i \in Slots \ {ndx} : data'[i] = data[i]
  BY <1>2, <1>3
<1>9. TypeOK'
  BY <1>1, <1>6, <1>7, <1>8, ReturnTypes DEF TypeOK
<1>10. \A i \in Slots \ {ndx} : data[i] # Dup /\ data[i] # arg
  <2>1. data[ndx] = Dup /\ Dup # NONE
    BY <1>2, ObjNotNone DEF Dup
  <2>2. \A i \in Slots : data[i] = Dup => i = ndx
    BY <2>1, <1>1, <1>2 DEF OwnedOnce
  <2>3. \A i \in Slots : data[i] # arg
    BY <1>1, <1>2 DEF OwnedOnce
  <2> QED
    BY <2>2, <2>3
<1>11. \A i \in InUse : /\ i \in Slots /\ data'[i] # NONE
                        /\ elem'[data'[i]].key = elem[data[i]].key
  <2> SUFFICES ASSUME NEW i \in InUse
               PROVE  /\ i \in Slots /\ data'[i] # NONE
                      /\ elem'[data'[i]].key = elem[data[i]].key
    OBVIOUS
  <2>1. i \in Slots /\ data[i] \in Obj
    BY <1>1, InUseOwned
  <2>2. CASE i = ndx
    BY <2>1, <2>2, <1>2, <1>5, <1>8 DEF Dup
  <2>3. CASE i # ndx
    BY <2>1, <2>3, <1>4, <1>8, <1>10, ObjNotNone
  <2> QED
    BY <2>2, <2>3
<1>12. IndexSorted'
  <2>1. \A p \in InUse : sorted[p] \in InUse
    BY <1>1 DEF IndexSorted
  <2>2. \A p \in InUse : KeyAt(p)' = KeyAt(p)
    BY <2>1, <1>11 DEF KeyAt
  <2> QED
    BY <1>1, <1>7, <1>11, <2>1, <2>2 DEF IndexSorted
<1>13. OwnedOnce'
  <2>1. \A i, j \in Slots : data'[i] = data'[j] /\ data'[i] # NONE => i = j
    BY <1>1, <1>8, <1>10 DEF OwnedOnce
  <2>2. \A p \in Obj : elem'[p].owner = "array" <=> \E i \in Slots : data'[i] = p
    <3> SUFFICES ASSUME NEW p \in Obj
                 PROVE  elem'[p].owner = "array" <=> \E i \in Slots : data'[i] = p
      OBVIOUS
    <3>1. CASE p = arg
      BY <3>1, <1>2, <1>5, <1>8
    <3>2. CASE p = Dup
      BY <3>2, <1>2, <1>4, <1>8, <1>10 DEF Blank
    <3>3. CASE p # arg /\ p # Dup
      <4>1. elem[p].owner = "array" <=> \E i \in Slots : data[i] = p
        BY <1>1 DEF OwnedOnce
      <4>2. \A i \in Slots : data'[i] = p <=> data[i] = p
        BY <3>3, <1>2, <1>8 DEF Dup
      <4> QED
        BY <3>3, <4>1, <4>2, <1>4
    <3> QED
      BY <3>1, <3>2, <3>3
  <2> QED
    BY <2>1, <2>2, <1>7 DEF OwnedOnce
<1> QED
  BY <1>9, <1>12, <1>13, NoCall, ReturnTypes DEF IInv

\* Where array_find_or_insert puts things: the array has room for one more, the
\* slots in use stay as they are, and what is freed is not in one of them.
LEMMA InsertFacts ==
  ASSUME IInv, Insert
  PROVE  /\ NewSize \in Nat /\ size <= NewSize /\ used < NewSize
         /\ lower \in 0 .. used
         /\ Slots' = 0 .. NewSize - 1 /\ InUse' = 0 .. used
         /\ data' \in [Slots' -> Obj \cup {NONE}]
         /\ data'[used] = arg
         /\ \A i \in Slots \ {used} : data'[i] = data[i]
         /\ \A i \in Slots' : i # used /\ i \notin Slots => data'[i] = NONE
         /\ arg \in Obj /\ arg # NONE /\ \A i \in Slots : data[i] # arg
         /\ elem' \in [Obj -> Element]
         /\ elem'[arg].owner = "array" /\ elem'[arg].key = target
         /\ \A o \in Obj \ {arg} : elem'[o] = FreeLeft(o)
         /\ \A i \in InUse : i \in Slots /\ data[i] \in Obj /\ elem'[data[i]] = elem[data[i]]
<1> USE DEF Insert
<1>1. TypeOK /\ IndexSorted /\ OwnedOnce
  BY DEF IInv
<1>2. size \in Nat /\ used \in Nat /\ used <= size
  BY <1>1 DEF TypeOK
<1>3. NewSize \in Nat /\ size <= NewSize /\ used < NewSize
  BY <1>2, GrowthAssumption DEF NewSize
<1>4. lower \in 0 .. used
  BY <1>1, <1>2 DEF IInv, RangeOK, TypeOK
<1>5. Slots' = 0 .. NewSize - 1 /\ InUse' = 0 .. used
  BY <1>2 DEF Slots, InUse
<1>6. \A i \in Slots : i \in Int /\ i < size /\ i \in 0 .. NewSize - 1
  BY <1>2, <1>3 DEF Slots
<1>7. arg \in Obj /\ elem[arg].owner = "caller" /\ elem[arg].key = target /\ arg # NONE
  BY ObjNotNone DEF IInv, CallOK, Busy
<1>8. \A i \in Slots : data[i] # arg
  BY <1>1, <1>7 DEF OwnedOnce
<1>9. data' \in [Slots' -> Obj \cup {NONE}]
  <2>1. \A i \in 0 .. NewSize - 1 : i < size => i \in Slots
    BY <1>2 DEF Slots
  <2>2. \A i \in 0 .. NewSize - 1 :
          (IF i = used THEN arg ELSE IF i < size THEN data[i] ELSE NONE) \in Obj \cup {NONE}
    BY <2>1, <1>1, <1>7 DEF TypeOK
  <2> QED
    BY <2>2, <1>5 DEF DataWith
<1>10. /\ data'[used] = arg
       /\ \A i \in Slots \ {used} : data'[i] = data[i]
       /\ \A i \in Slots' : i # used /\ i \notin Slots => data'[i] = NONE
  <2>1. used \in 0 .. NewSize - 1
    BY <1>2, <1>3
  <2>2. \A i \in Slots' : i \notin Slots => ~(i < size)
    BY <1>2, <1>5 DEF Slots
  <2> QED
    BY <2>1, <2>2, <1>5, <1>6 DEF DataWith
<1>11. elem \in [Obj -> Element]
  BY <1>1 DEF TypeOK
<1>12. FreeLeft(arg) = elem[arg]
  <2>1. used < size => used \in Slots
    BY <1>2 DEF Slots
  <2> QED
    BY <2>1, <1>8 DEF FreeLeft
<1>13. /\ elem'[arg] = [elem[arg] EXCEPT !.owner = "array"]
       /\ \A o \in Obj \ {arg} : elem'[o] = FreeLeft(o)
       /\ elem' = [o \in Obj |-> elem'[o]]
  BY <1>7, <1>12
<1>14. elem[arg] \in Element
  BY <1>7, <1>11
<1>15. elem'[arg] \in Element /\ elem'[arg].owner = "array" /\ elem'[arg].key = target
  <2> DEFINE e == elem[arg]
  <2>1. e \in Element /\ e.key = target /\ elem'[arg] = [e EXCEPT !.owner = "array"]
    BY <1>7, <1>13, <1>14
  <2> HIDE DEF e
  <2> QED
    BY <2>1 DEF Element
<1>16. elem' \in [Obj -> Element]
  <2>1. \A o \in Obj : elem'[o] \in Element
    BY <1>11, <1>13, <1>15, ElementTypes DEF FreeLeft
  <2> QED
    BY <2>1, <1>13
<1>17. ASSUME NEW i \in InUse
       PROVE  i \in Slots /\ data[i] \in Obj /\ elem'[data[i]] = elem[data[i]]
  <2>1. i \in Slots /\ data[i] \in Obj
    BY <1>1, InUseOwned
  <2>2. i # used
    BY <1>2 DEF InUse
  <2>3. used < size => data[used] # data[i]
    <3>1. used < size => used \in Slots
      BY <1>2 DEF Slots
    <3> QED
      BY <3>1, <2>1, <2>2, <1>1, ObjNotNone DEF OwnedOnce
  <2> QED
    BY <2>1, <2>3, <1>8, <1>13 DEF FreeLeft
<1> QED
  BY <1>3, <1>4, <1>5, <1>7, <1>8, <1>9, <1>10, <1>13, <1>15, <1>16, <1>17

\* The entries of the index before, at and behind the new one.
LEMMA ShiftFacts ==
  ASSUME IInv, Insert
  PROVE  /\ sorted' \in [Slots' -> Int]
         /\ sorted'[lower] = used
         /\ \A p \in InUse : p < lower => sorted'[p] = sorted[p]
         /\ \A p \in InUse : p >= lower => p + 1 \in InUse' /\ sorted'[p + 1] = sorted[p]
<1> USE DEF Insert
<1>1. size \in Nat /\ used \in Nat /\ used <= size /\ sorted \in [Slots -> Int]
  BY DEF IInv, TypeOK
<1>2. /\ NewSize \in Nat /\ size <= NewSize /\ used < NewSize
      /\ lower \in 0 .. used
      /\ Slots' = 0 .. NewSize - 1 /\ InUse' = 0 .. used
  BY InsertFacts
<1>3. sorted' = SortedWith(lower, used)
  OBVIOUS
<1>4. \A p \in Slots' : sorted'[p] = IF p = lower THEN used
                                     ELSE IF lower < p /\ p <= used THEN sorted[p - 1]
                                     ELSE IF p < size THEN sorted[p] ELSE NONE
  BY <1>2, <1>3 DEF SortedWith
<1>5. \A p \in Slots' : sorted'[p] \in Int
  <2> SUFFICES ASSUME NEW p \in Slots' PROVE sorted'[p] \in Int
    OBVIOUS
  <2>1. lower < p /\ p <= used => p - 1 \in Slots
    BY <1>1, <1>2 DEF Slots
  <2>2. p < size => p \in Slots
    BY <1>1, <1>2 DEF Slots
  <2> QED
    BY <2>1, <2>2, <1>1, <1>4 DEF NONE
<1>6. sorted' \in [Slots' -> Int]
  <2>1. sorted' = [p \in Slots' |-> sorted'[p]]
    BY <1>2, <1>3 DEF SortedWith
  <2> QED
    BY <2>1, <1>5
<1>7. lower \in Slots' /\ sorted'[lower] = used
  BY <1>1, <1>2, <1>4
<1>8. ASSUME NEW p \in InUse, p < lower
      PROVE  sorted'[p] = sorted[p]
  <2>1. p \in Slots' /\ p # lower /\ ~(lower < p) /\ p < size
    BY <1>1, <1>2, <1>8 DEF InUse
  <2> QED
    BY <2>1, <1>4
<1>9. ASSUME NEW p \in InUse, p >= lower
      PROVE  p + 1 \in InUse' /\ sorted'[p + 1] = sorted[p]
  <2>1. /\ p + 1 \in InUse' /\ p + 1 \in Slots' /\ p + 1 # lower
        /\ lower < p + 1 /\ p + 1 <= used /\ (p + 1) - 1 = p
    BY <1>1, <1>2, <1>9 DEF InUse
  <2> QED
    BY <2>1, <1>4
<1> QED
  BY <1>6, <1>7, <1>8, <1>9

LEMMA InsertIInv ==
  ASSUME IInv, Insert
  PROVE  IInv'
<1>1. TypeOK /\ IndexSorted /\ OwnedOnce
  BY DEF IInv
<1>2. /\ NewSize \in Nat /\ size <= NewSize /\ used < NewSize
      /\ lower \in 0 .. used /\ size \in Nat /\ used \in Nat /\ used <= size
      /\ Slots' = 0 .. NewSize - 1 /\ InUse' = 0 .. used
      /\ Slots = 0 .. size - 1 /\ InUse = 0 .. used - 1
  <2>1. Slots = 0 .. size - 1 /\ InUse = 0 .. used - 1
    BY DEF Slots, InUse
  <2> QED
    BY <2>1, <1>1, InsertFacts DEF TypeOK
<1>3. /\ data'[used] = arg /\ arg # NONE
      /\ elem'[arg].key = target
      /\ \A i \in InUse : /\ data'[i] = data[i] /\ data[i] # NONE
                          /\ elem'[data'[i]].key = elem[data[i]].key
  <2>1. \A i \in InUse : i \in Slots /\ i # used
    BY <1>2, InsertFacts
  <2> QED
    BY <2>1, InsertFacts, ObjNotNone
<1>4. TypeOK'
  <2>1. used' = used + 1 /\ size' = NewSize /\ unique_ndx' = unique_ndx /\ Return
    BY DEF Insert
  <2>2. used' \in 0 .. size'
    BY <2>1, <1>2
  <2> QED
    BY <2>1, <2>2, <1>1, <1>2, InsertFacts, ShiftFacts, ReturnTypes DEF TypeOK
<1>5. IndexSorted'
  <2>1. \A p \in InUse : sorted[p] \in InUse /\ KeyAt(p) \in Int /\ p \in Int
    BY <1>1, KeyAtInt DEF IndexSorted, InUse
  <2>2. target \in Int
    BY KeyAssumption DEF IInv, CallOK, Busy, Insert
  <2>3. \A p \in InUse : IF p < lower THEN KeyAt(p) < target ELSE target < KeyAt(p)
    BY DEF IInv, SearchRight, Insert
  <2>4. sorted'[lower] = used /\ elem'[data'[sorted'[lower]]].key = target
    BY <1>3, ShiftFacts
  <2>5. \A p \in InUse : p < lower => sorted'[p] = sorted[p] /\ KeyAt(p)' = KeyAt(p)
    BY <2>1, <1>3, ShiftFacts DEF KeyAt
  <2>6. \A p \in InUse : p >= lower =>
           sorted'[p + 1] = sorted[p] /\ elem'[data'[sorted'[p + 1]]].key = KeyAt(p)
    BY <2>1, <1>3, ShiftFacts DEF KeyAt
  <2>7. ASSUME NEW p \in InUse'
        PROVE  \/ p = lower
               \/ p < lower /\ p \in InUse
               \/ p > lower /\ p - 1 \in InUse /\ p - 1 >= lower /\ (p - 1) + 1 = p
    BY <1>2
  <2>8. ASSUME NEW p \in InUse'
        PROVE  /\ sorted'[p] \in InUse' /\ data'[sorted'[p]] # NONE
               /\ p < lower => p \in InUse /\ KeyAt(p)' = KeyAt(p) /\ KeyAt(p) < target
               /\ p > lower => /\ p - 1 \in InUse /\ KeyAt(p)' = KeyAt(p - 1)
                               /\ target < KeyAt(p - 1)
    <3>1. CASE p = lower
      BY <3>1, <2>4, <1>2, <1>3
    <3>2. CASE p < lower /\ p \in InUse
      <4>1. sorted'[p] = sorted[p] /\ sorted[p] \in InUse
        BY <3>2, <2>1, <2>5
      <4> QED
        BY <3>2, <4>1, <2>1, <2>3, <2>5, <1>2, <1>3
    <3>3. CASE p > lower /\ p - 1 \in InUse /\ p - 1 >= lower /\ (p - 1) + 1 = p
      <4>1. sorted'[p] = sorted[p - 1] /\ sorted[p - 1] \in InUse
        BY <3>3, <2>1, <2>6
      <4>2. KeyAt(p)' = KeyAt(p - 1)
        BY <3>3, <2>6 DEF KeyAt
      <4>3. target < KeyAt(p - 1)
        BY <3>3, <2>3, <2>1, <1>2
      <4>4. sorted'[p] \in InUse' /\ data'[sorted'[p]] # NONE
        BY <4>1, <1>2, <1>3
      <4> QED
        BY <3>3, <4>2, <4>3, <4>4, <1>2
    <3> QED
      BY <3>1, <3>2, <3>3, <2>7
  <2>9. ASSUME NEW p \in InUse', NEW q \in InUse', p < q
        PROVE  KeyAt(p)' < KeyAt(q)'
    <3>1. p \in Int /\ q \in Int /\ lower \in Int
      BY <1>2
    <3>2. CASE p < lower /\ q < lower
      BY <3>2, <2>8, <2>9, <1>1 DEF IndexSorted
    <3>3. CASE p < lower /\ q = lower
      <4>1. KeyAt(q)' = target
        BY <3>3, <2>4 DEF KeyAt
      <4> QED
        BY <3>3, <4>1, <2>8
    <3>4. CASE p < lower /\ q > lower
      <4>1. /\ p \in InUse /\ KeyAt(p)' = KeyAt(p) /\ KeyAt(p) < target
            /\ q - 1 \in InUse /\ KeyAt(q)' = KeyAt(q - 1) /\ target < KeyAt(q - 1)
        BY <3>4, <2>8
      <4> QED
        BY <4>1, <2>1, <2>2
    <3>5. CASE p = lower /\ q > lower
      <4>1. KeyAt(p)' = target
        BY <3>5, <2>4 DEF KeyAt
      <4> QED
        BY <3>5, <4>1, <2>8
    <3>6. CASE p > lower /\ q > lower
      <4>1. /\ p - 1 \in InUse /\ KeyAt(p)' = KeyAt(p - 1)
            /\ q - 1 \in InUse /\ KeyAt(q)' = KeyAt(q - 1) /\ p - 1 < q - 1
        BY <3>6, <3>1, <2>8, <2>9
      <4> QED
        BY <4>1, <1>1 DEF IndexSorted
    <3> QED
      BY <2>9, <3>1, <3>2, <3>3, <3>4, <3>5, <3>6
  <2>10. ASSUME NEW i \in InUse'
         PROVE  \E p \in InUse' : sorted'[p] = i
    <3>1. CASE i = used
      BY <3>1, <2>4, <1>2
    <3>2. CASE i # used
      <4>1. i \in InUse
        BY <3>2, <1>2
      <4>2. PICK p \in InUse : sorted[p] = i
        BY <4>1, <1>1 DEF IndexSorted
      <4>3. CASE p < lower
        BY <4>2, <4>3, <2>5, <1>2
      <4>4. CASE p >= lower
        BY <4>2, <4>4, <2>6, ShiftFacts
      <4> QED
        BY <4>3, <4>4, <2>1, <1>2
    <3> QED
      BY <3>1, <3>2
  <2> QED
    BY <2>8, <2>9, <2>10 DEF IndexSorted
<1>6. OwnedOnce'
  <2>1. \A i \in Slots' : data'[i] # NONE => i = used \/ (i \in Slots /\ data'[i] = data[i])
    BY InsertFacts
  <2>2. data'[used] = arg /\ used \in Slots' /\ \A i \in Slots : data[i] # arg
    BY InsertFacts, <1>2
  <2>3. ASSUME NEW i \in Slots', NEW j \in Slots', data'[i] = data'[j], data'[i] # NONE
        PROVE  i = j
    BY <2>1, <2>2, <2>3, <1>1 DEF OwnedOnce
  <2>4. ASSUME NEW o \in Obj
        PROVE  elem'[o].owner = "array" <=> \E i \in Slots' : data'[i] = o
    <3>1. CASE o = arg
      BY <3>1, <2>2, InsertFacts
    <3>2. CASE o # arg /\ used < size /\ data[used] = o
      <4>1. elem'[o].owner = "nobody"
        BY <3>2, InsertFacts DEF FreeLeft, Blank
      <4>2. used \in Slots
        BY <3>2, <1>2
      <4>3. \A i \in Slots' : data'[i] # o
        BY <3>2, <4>2, <2>1, <2>2, <1>1, ObjNotNone DEF OwnedOnce
      <4> QED
        BY <4>1, <4>3
    <3>3. CASE o # arg /\ ~(used < size /\ data[used] = o)
      <4>1. elem'[o] = elem[o]
        BY <3>3, InsertFacts DEF FreeLeft
      <4>2. elem[o].owner = "array" <=> \E i \in Slots : data[i] = o
        BY <1>1 DEF OwnedOnce
      <4>3. ASSUME NEW i \in Slots, data[i] = o
            PROVE  i \in Slots' /\ data'[i] = o
        <5>1. i # used
          BY <3>3, <4>3, <1>2
        <5>2. i \in Slots'
          BY <1>2
        <5> QED
          BY <4>3, <5>1, <5>2, InsertFacts
      <4>4. ASSUME NEW i \in Slots', data'[i] = o
            PROVE  i \in Slots /\ data[i] = o
        BY <3>3, <4>4, <2>1, <2>2, ObjNotNone
      <4> QED
        BY <4>1, <4>2, <4>3, <4>4
    <3> QED
      BY <3>1, <3>2, <3>3
  <2> QED
    BY <2>3, <2>4 DEF OwnedOnce
<1>7. pc' = "idle"
  BY ReturnTypes DEF Insert
<1> QED
  BY <1>4, <1>5, <1>6, <1>7, NoCall DEF IInv

LEMMA GetIInv ==
  ASSUME IInv, Get
  PROVE  IInv'
<1> USE DEF Get, arrayVars
<1>1. TypeOK /\ IndexSorted /\ OwnedOnce
  BY DEF IInv
<1>2. TypeOK'
  BY <1>1, ReturnTypes DEF TypeOK, Slots
<1>3. IndexSorted' /\ OwnedOnce'
  BY <1>1, IndexFrame, OwnerFrame
<1> QED
  BY <1>2, <1>3, NoCall, ReturnTypes DEF IInv

LEMMA SetOldIInv ==
  ASSUME IInv, NEW o \in Obj, SetOld({o})
  PROVE  IInv'
<1> USE DEF SetOld, arrayVars, searchVars
<1>1. TypeOK /\ IndexSorted /\ OwnedOnce
  BY DEF IInv
<1>2. CASE Dup \notin Strings
  <2>1. TypeOK' /\ IndexSorted' /\ OwnedOnce'
    BY <1>1, <1>2, IndexFrame, OwnerFrame DEF TypeOK, Slots
  <2> QED
    BY <1>2, <2>1, NoCall DEF IInv
<1>3. CASE Dup \in Strings
  <2>1. elem \in [Obj -> Element] /\ Dup \in Obj
    BY <1>1, DupFacts DEF TypeOK
  <2>2. /\ elem'[Dup] = [elem[Dup] EXCEPT !.value = {o}]
        /\ \A p \in Obj \ {Dup} : elem'[p] = elem[p]
        /\ elem' = [p \in Obj |-> elem'[p]]
    BY <1>3, <2>1
  <2>3. elem[Dup] \in Element /\ {o} \in SUBSET Obj
    BY <2>1
  <2>4. elem'[Dup] \in Element /\ elem'[Dup].owner = elem[Dup].owner
        /\ elem'[Dup].key = elem[Dup].key
    BY <2>2, <2>3, ElementTypes
  <2>5. elem' \in [Obj -> Element]
    <3>1. \A p \in Obj : elem'[p] \in Element
      BY <2>1, <2>2, <2>4
    <3> QED
      BY <3>1, <2>2
  <2>6. TypeOK'
    BY <1>1, <1>3, <2>5, ReturnTypes DEF TypeOK, Slots
  <2>7. \A i \in InUse : data[i] \in Obj
    BY <1>1, InUseOwned
  <2>8. IndexSorted'
    BY <1>1, <2>2, <2>4, <2>7, IndexFrame
  <2>9. OwnedOnce'
    BY <1>1, <2>2, <2>4, OwnerFrame
  <2> QED
    BY <1>3, <2>6, <2>8, <2>9, NoCall, ReturnTypes DEF IInv
<1> QED
  BY <1>2, <1>3

\* The new element belongs to the caller until it is put in.
LEMMA SetNewIInv ==
  ASSUME IInv, NEW o \in Obj, NEW v \in Obj, SetNew(o, {v})
  PROVE  IInv'
<1> USE DEF SetNew, arrayVars
<1>1. TypeOK /\ IndexSorted /\ OwnedOnce
  BY DEF IInv
<1>2. target \in Key
  BY DEF IInv, CallOK, Busy
<1>3. elem \in [Obj -> Element] /\ elem[o].owner = "nobody"
  BY <1>1 DEF TypeOK, Free
<1>4. /\ elem' \in [Obj -> Element]
      /\ elem'[o].owner = "caller" /\ elem'[o].key = target
      /\ \A p \in Obj \ {o} : elem'[p] = elem[p]
  <2>1. [owner |-> "caller", key |-> target, indexed |-> FALSE, value |-> {v}] \in Element
    BY <1>2 DEF Element
  <2> QED
    BY <1>3, <2>1
<1>5. TypeOK'
  BY <1>1, <1>2, <1>4 DEF TypeOK, Look, Slots, NONE
<1>6. \A i \in InUse : data[i] \in Obj /\ data[i] # o
  BY <1>1, <1>3, InUseOwned
<1>7. IndexSorted'
  BY <1>1, <1>4, <1>6, IndexFrame
<1>8. OwnedOnce'
  BY <1>1, <1>3, <1>4, OwnerFrame
<1>9. RangeOK' /\ SearchRight'
  <2>1. Look("insert", o, target) /\ used' = used
    OBVIOUS
  <2> QED
    BY <2>1, LookRange
<1>10. CallOK'
  BY <1>2, <1>4 DEF CallOK, Look
<1> QED
  BY <1>5, <1>7, <1>8, <1>9, <1>10 DEF IInv

\* An element that waits is behind those in use, and leaves the slots to be put
\* in again.
LEMMA SetReusedIInv ==
  ASSUME IInv, NEW i \in Slots, NEW v \in Obj, SetReused(i, {v})
  PROVE  IInv'
<1> DEFINE o == data[i]
           k == IF elem[o].indexed THEN IndexKey[unique_ndx] ELSE target
<1>1. TypeOK /\ IndexSorted /\ OwnedOnce
  BY DEF IInv
<1>2. /\ pc = "missing" /\ op = "set" /\ FirstUnused(i)
      /\ data' = [data EXCEPT ![i] = data[used], ![used] = NONE]
      /\ elem' = [elem EXCEPT ![o].owner = "caller", ![o].value = {v}, ![o].key = k]
      /\ Look("insert", o, elem'[o].key)
      /\ UNCHANGED <<sorted, used, size>>
  BY DEF SetReused
<1>3. i >= used /\ o \in Obj /\ o # NONE
  BY <1>2, ObjAssumption, ObjNotNone DEF FirstUnused, Unused
<1>4. /\ elem \in [Obj -> Element] /\ data \in [Slots -> Obj \cup {NONE}]
      /\ used \in Nat /\ size \in Nat /\ Slots = 0 .. size - 1 /\ InUse = 0 .. used - 1
      /\ unique_ndx \in 0 .. MaxUnique
  BY <1>1 DEF TypeOK, Slots, InUse
<1>5. used \in Slots /\ i \in Int
  BY <1>3, <1>4
<1>6. k \in Key /\ unique_ndx' \in 0 .. MaxUnique
  <2>1. target \in Key
    BY <1>2 DEF IInv, CallOK, Busy
  <2>2. MaxUnique \in Nat /\ IndexKey[unique_ndx] \in Key
    BY <1>4, IndexKeyAssumption
  <2>3. unique_ndx' \in 0 .. MaxUnique
    BY <1>4, <2>2 DEF SetReused
  <2> QED
    BY <2>1, <2>2, <2>3
<1> HIDE DEF o, k
<1>7. /\ elem' \in [Obj -> Element]
      /\ elem'[o].owner = "caller" /\ elem'[o].key = k
      /\ \A p \in Obj \ {o} : elem'[p] = elem[p]
  <2> DEFINE e == elem[o]
  <2>1. e \in Element
    BY <1>3, <1>4
  <2>2. elem' = [elem EXCEPT ![o] = [[[e EXCEPT !.owner = "caller"] EXCEPT !.value = {v}]
                                       EXCEPT !.key = k]]
    BY <1>2, <1>3, <1>4
  <2> HIDE DEF e
  <2>3. /\ [[[e EXCEPT !.owner = "caller"] EXCEPT !.value = {v}] EXCEPT !.key = k] \in Element
        /\ [[[e EXCEPT !.owner = "caller"] EXCEPT !.value = {v}] EXCEPT !.key = k].owner = "caller"
        /\ [[[e EXCEPT !.owner = "caller"] EXCEPT !.value = {v}] EXCEPT !.key = k].key = k
    BY <1>6, <2>1 DEF Element
  <2> QED
    BY <2>2, <2>3, <1>3, <1>4
<1>8. /\ data' \in [Slots -> Obj \cup {NONE}]
      /\ data'[used] = NONE
      /\ i # used => data'[i] = data[used]
      /\ \A j \in Slots \ {i, used} : data'[j] = data[j]
  BY <1>2, <1>4, <1>5
<1>9. Slots' = Slots /\ InUse' = InUse
  BY <1>2 DEF Slots, InUse
<1>10. TypeOK'
  <2>1. lower' = 0 /\ upper' = used /\ ndx' = NONE /\ pc' = "search" /\ op' = "insert"
        /\ arg' = o /\ target' = k
    BY <1>2, <1>7 DEF Look
  <2> QED
    BY <2>1, <1>1, <1>2, <1>3, <1>6, <1>7, <1>8, <1>9 DEF TypeOK, NONE
<1>11. data[i] = o /\ \A j \in Slots : data[j] = o => j = i
  BY <1>1, <1>3 DEF o, OwnedOnce
<1>12. \A j \in InUse : /\ j \in Slots /\ data[j] \in Obj /\ data[j] # o
                        /\ data'[j] = data[j]
  <2>1. \A j \in InUse : j # i /\ j # used
    BY <1>3, <1>4, <1>5
  <2> QED
    BY <2>1, <1>1, <1>8, <1>11, InUseOwned
<1>13. IndexSorted'
  <2>1. \A p \in InUse : sorted[p] \in InUse
    BY <1>1 DEF IndexSorted
  <2>2. \A p \in InUse : KeyAt(p)' = KeyAt(p)
    <3> SUFFICES ASSUME NEW p \in InUse PROVE KeyAt(p)' = KeyAt(p)
      OBVIOUS
    <3>1. sorted[p] \in InUse /\ sorted'[p] = sorted[p]
      BY <1>2, <2>1
    <3>2. data'[sorted[p]] = data[sorted[p]] /\ data[sorted[p]] \in Obj \ {o}
      BY <3>1, <1>12
    <3> QED
      BY <3>1, <3>2, <1>7 DEF KeyAt
  <2>3. sorted' = sorted
    BY <1>2
  <2>4. \A j \in InUse : data'[j] # NONE
    BY <1>12, ObjNotNone
  <2> QED
    BY <1>1, <1>9, <2>1, <2>2, <2>3, <2>4 DEF IndexSorted
<1>14. OwnedOnce'
  <2>1. ASSUME NEW j \in Slots, data'[j] # NONE
        PROVE  j # used /\ data'[j] = data[IF j = i THEN used ELSE j]
    BY <2>1, <1>5, <1>8
  <2>2. ASSUME NEW j \in Slots, NEW l \in Slots, data'[j] = data'[l], data'[j] # NONE
        PROVE  j = l
    <3>1. /\ j # used /\ data'[j] = data[IF j = i THEN used ELSE j]
          /\ l # used /\ data'[l] = data[IF l = i THEN used ELSE l]
      BY <2>1, <2>2
    <3>2. (IF j = i THEN used ELSE j) = (IF l = i THEN used ELSE l)
      BY <3>1, <2>2, <1>1, <1>5 DEF OwnedOnce
    <3> QED
      BY <3>1, <3>2
  <2>3. ASSUME NEW p \in Obj
        PROVE  elem'[p].owner = "array" <=> \E j \in Slots : data'[j] = p
    <3>1. CASE p = o
      <4>1. ASSUME NEW j \in Slots, data'[j] = o
            PROVE  FALSE
        BY <4>1, <2>1, <1>3, <1>5, <1>11
      <4> QED
        BY <3>1, <4>1, <1>7
    <3>2. CASE p # o
      <4>1. elem'[p].owner = "array" <=> \E j \in Slots : data[j] = p
        BY <3>2, <1>1, <1>7 DEF OwnedOnce
      <4>2. ASSUME NEW j \in Slots, data'[j] = p
            PROVE  \E l \in Slots : data[l] = p
        BY <4>2, <2>1, <1>5, ObjNotNone
      <4>3. ASSUME NEW j \in Slots, data[j] = p
            PROVE  \E l \in Slots : data'[l] = p
        <5>1. j # i
          BY <4>3, <3>2, <1>11
        <5>2. CASE j = used
          BY <4>3, <5>1, <5>2, <1>8
        <5>3. CASE j # used
          BY <4>3, <5>1, <5>3, <1>8
        <5> QED
          BY <5>2, <5>3
      <4> QED
        BY <4>1, <4>2, <4>3
    <3> QED
      BY <3>1, <3>2
  <2> QED
    BY <2>2, <2>3, <1>9 DEF OwnedOnce
<1>15. RangeOK' /\ SearchRight'
  BY <1>2, LookRange
<1>16. CallOK'
  BY <1>2, <1>3, <1>6, <1>7 DEF CallOK, Look
<1> QED
  BY <1>10, <1>13, <1>14, <1>15, <1>16 DEF IInv

\* An array without elements in use is in order; the elements stay its own.
LEMMA ResetIInv ==
  ASSUME IInv, Reset
  PROVE  IInv'
<1>1. TypeOK /\ IndexSorted /\ OwnedOnce
  BY DEF IInv
<1>2. /\ pc = "idle" /\ used' = 0 /\ unique_ndx' = 0
      /\ UNCHANGED <<data, sorted, size, pc, op, arg, target, lower, upper, ndx>>
  BY DEF Reset, searchVars
<1>3. \A o \in Obj : elem[o] \in Element
  BY <1>1 DEF TypeOK
<1>4. \A e \in Element : /\ [e EXCEPT !.key = NONE, !.value = {}] \in Element
                         /\ [e EXCEPT !.key = NONE, !.value = {}].owner = e.owner
  BY DEF Element
<1>5. \A o \in Obj : elem'[o] \in Element /\ elem'[o].owner = elem[o].owner
  BY <1>3, <1>4 DEF Reset
<1>6. elem' \in [Obj -> Element]
  <2>1. elem' = [o \in Obj |-> elem'[o]]
    BY DEF Reset
  <2> QED
    BY <1>5, <2>1
<1>7. TypeOK'
  BY <1>1, <1>2, <1>6, IndexKeyAssumption DEF TypeOK, Slots
<1>8. InUse' = {}
  BY <1>2 DEF InUse
<1>9. IndexSorted'
  BY <1>8 DEF IndexSorted
<1>10. OwnedOnce'
  BY <1>1, <1>2, <1>5, OwnerFrame
<1>11. CallOK' /\ RangeOK' /\ SearchRight'
  BY <1>2, NoCall
<1> QED
  BY <1>7, <1>9, <1>10, <1>11 DEF IInv

-----------------------------------------------------------------------------
(***************************************************************************)
(* The theorems.                                                           *)
(***************************************************************************)

\* Every step keeps the invariant.
LEMMA StepIInv ==
  ASSUME IInv, [Next]_vars
  PROVE  IInv'
<1>1. ASSUME NEW o \in Obj, NEW k \in Key \cup {NONE}, New(o, k)
      PROVE  IInv'
  BY <1>1, NewIInv
<1>2. ASSUME NEW call \in {"insert", "replace"}, NEW o \in Obj, Put(call, o)
      PROVE  IInv'
  BY <1>2, PutIInv
<1>3. ASSUME NEW call \in {"get", "set"}, NEW k \in Key, Find(call, k)
      PROVE  IInv'
  BY <1>3, FindIInv
<1>4. CASE Search
  BY <1>4, ProbeIInv, ProbeDoesNotFault, NotFoundIInv DEF Search
<1>5. CASE InsertDup \/ ReplaceOld \/ Insert \/ Get \/ Reset
  BY <1>5, InsertDupIInv, ReplaceOldIInv, InsertIInv, GetIInv, ResetIInv
<1>6. ASSUME NEW o \in Obj, SetOld({o})
      PROVE  IInv'
  BY <1>6, SetOldIInv
<1>7. ASSUME NEW o \in Obj, NEW v \in Obj, SetNew(o, {v})
      PROVE  IInv'
  BY <1>7, SetNewIInv
<1>8. ASSUME NEW i \in Slots, NEW v \in Obj, SetReused(i, {v})
      PROVE  IInv'
  BY <1>8, SetReusedIInv
<1>9. CASE UNCHANGED vars
  <2> USE <1>9 DEF vars, arrayVars, searchVars
  <2>1. TypeOK' /\ IndexSorted' /\ OwnedOnce'
    BY IndexFrame, OwnerFrame DEF IInv, TypeOK, Slots
  <2>2. CallOK'
    BY DEF IInv, CallOK, Busy
  <2>3. RangeOK'
    BY DEF IInv, RangeOK, InUse, KeyAt
  <2>4. SearchRight'
    BY DEF IInv, SearchRight, InUse, KeyAt
  <2> QED
    BY <2>1, <2>2, <2>3, <2>4 DEF IInv
<1> QED
  BY <1>1, <1>2, <1>3, <1>4, <1>5, <1>6, <1>7, <1>8, <1>9 DEF Next

\* The inductive invariant holds in every state of the array.
THEOREM Invariance == Spec => []IInv
<1>1. Init => IInv
  BY InitIInv
<1>2. IInv /\ [Next]_vars => IInv'
  BY StepIInv
<1> QED
  BY <1>1, <1>2, PTL DEF Spec

\* Every variable of the array and of its calls keeps its type (marray.c).
THEOREM TypeCorrect == Spec => []TypeOK
<1>1. IInv => TypeOK
  BY DEF IInv
<1> QED
  BY <1>1, Invariance, PTL

\* The index of array_find_or_insert is a permutation of the slots in use, in
\* strictly ascending order of their keys, through every insertion (the shift of
\* marray.c:69), growth, replacement, reuse and reset.
THEOREM IndexCorrect == Spec => []IndexSorted
<1>1. IInv => IndexSorted
  BY DEF IInv
<1> QED
  BY <1>1, Invariance, PTL

\* array_get_index answers right: a slot it returns has the key, and when it
\* returns none there is none and the key belongs where it says.
THEOREM SearchCorrect == Spec => []SearchRight
<1>1. IInv => SearchRight
  BY DEF IInv
<1> QED
  BY <1>1, Invariance, PTL

\* array_get_index never reads an entry of `sorted' that leads to no element.
THEOREM SearchReadsSafely == Spec => []SearchSafe
<1>1. IInv => SearchSafe
  BY ProbedFacts DEF SearchSafe
<1> QED
  BY <1>1, Invariance, PTL

\* No element is in two slots, and the array owns just those in its slots: what
\* array_find_or_insert and array_replace free is used no more.
THEOREM OwnershipCorrect == Spec => []OwnedOnce
<1>1. IInv => OwnedOnce
  BY DEF IInv
<1> QED
  BY <1>1, Invariance, PTL

\* Every probe of array_get_index leaves a smaller range, so the search makes no
\* more of them than there are elements.
THEOREM SearchTerminates == Spec => SearchNarrows
<1>1. ASSUME IInv, [Next]_vars, pc = "search", pc' = "search"
      PROVE  upper' - lower' < upper - lower \/ UNCHANGED vars
  <2>1. CASE Probe
    <3>1. lower \in Nat /\ upper \in Nat /\ Probed \in Nat /\ lower <= Probed /\ Probed < upper
      BY <1>1, <2>1, ProbedFacts DEF Probe, IInv, TypeOK, InUse
    <3>2. \/ upper' = Probed /\ lower' = lower
          \/ lower' = Probed + 1 /\ upper' = upper
      BY <1>1, <2>1 DEF Probe, Below, Above
    <3> QED
      BY <3>1, <3>2
  <2>2. CASE UNCHANGED vars
    BY <2>2
  <2>3. CASE ~Probe /\ ~UNCHANGED vars
    <3>1. ~Search
      BY <1>1, <2>3, ProbeDoesNotFault DEF Search, NotFound
    <3> QED
      BY <1>1, <2>3, <3>1 DEF Next, New, Put, Find, InsertDup, ReplaceOld, Insert, Get, SetOld,
           SetNew, SetReused, Reset
  <2> QED
    BY <2>1, <2>2, <2>3
<1>2. IInv /\ [Next]_vars =>
        [pc = "search" /\ pc' = "search" => upper' - lower' < upper - lower]_vars
  BY <1>1
<1> QED
  BY <1>2, Invariance, PTL DEF Spec, SearchNarrows

-----------------------------------------------------------------------------
(***************************************************************************)
(* The array implements ArrayTable.                                        *)
(***************************************************************************)

\* The table that stands for the array, as ImplementsTable maps it.
Rows == [k \in {elem[data[i]].key : i \in InUse} |-> elem[Holder(k)].value]

\* The rows are those of the elements in use.
RowsOK ==
  /\ \A i \in InUse : /\ elem[data[i]].key \in DOMAIN Rows
                      /\ Rows[elem[data[i]].key] = elem[data[i]].value
  /\ \A k \in DOMAIN Rows : \E i \in InUse : elem[data[i]].key = k
  /\ Rows = [k \in DOMAIN Rows |-> Rows[k]]

\* No two elements in use have a key in common.
LEMMA HolderIsElement ==
  ASSUME IInv
  PROVE  \A i \in InUse : Holder(elem[data[i]].key) = data[i]
<1>1. ASSUME NEW i \in InUse, NEW j \in InUse, elem[data[i]].key = elem[data[j]].key
      PROVE  i = j
  <2>1. PICK p \in InUse : sorted[p] = i
    BY DEF IInv, IndexSorted
  <2>2. PICK q \in InUse : sorted[q] = j
    BY DEF IInv, IndexSorted
  <2>3. KeyAt(p) = KeyAt(q) /\ KeyAt(p) \in Int /\ p \in Int /\ q \in Int
    BY <1>1, <2>1, <2>2, KeyAtInt DEF KeyAt, InUse
  <2>4. ~(p < q) /\ ~(q < p)
    BY <2>3 DEF IInv, IndexSorted
  <2> QED
    BY <2>1, <2>2, <2>3, <2>4
<1>2. ASSUME NEW i \in InUse
      PROVE  Holder(elem[data[i]].key) = data[i]
  <2> DEFINE j == CHOOSE l \in InUse : elem[data[l]].key = elem[data[i]].key
  <2>1. j \in InUse /\ elem[data[j]].key = elem[data[i]].key
    OBVIOUS
  <2>2. j = i
    BY <1>1, <2>1
  <2> QED
    BY <2>2 DEF Holder
<1> QED
  BY <1>2

\* So every element in use has its row.
LEMMA RowsAreElements == IInv => RowsOK
BY HolderIsElement DEF RowsOK, Rows

LEMMA RowsAfter == IInv' => RowsOK'
<1>1. IInv => RowsOK
  BY RowsAreElements
<1> QED
  BY <1>1, PTL

\* What leaves keys and values of the elements in use alone leaves the rows.
LEMMA SameRows ==
  ASSUME IInv, IInv', UNCHANGED <<used, size>>,
         \A i \in InUse : /\ elem'[data'[i]].key = elem[data[i]].key
                          /\ elem'[data'[i]].value = elem[data[i]].value
  PROVE  Rows' = Rows
<1>1. RowsOK /\ RowsOK'
  BY RowsAreElements, RowsAfter
<1>2. InUse' = InUse
  BY DEF InUse
<1>3. DOMAIN Rows' = DOMAIN Rows
  BY <1>1, <1>2 DEF RowsOK
<1>4. \A k \in DOMAIN Rows : Rows'[k] = Rows[k]
  BY <1>1, <1>2, <1>3 DEF RowsOK
<1> QED
  BY <1>1, <1>3, <1>4 DEF RowsOK

\* When only the element of the key looked for changed, only its row did.
LEMMA OneRow ==
  ASSUME IInv, IInv',
         \A i \in InUse' : \/ elem'[data'[i]].key = target
                           \/ /\ i \in InUse
                              /\ elem[data[i]].key = elem'[data'[i]].key
                              /\ elem[data[i]].value = elem'[data'[i]].value,
         \A i \in InUse : i \in InUse' /\ elem'[data'[i]].key = elem[data[i]].key,
         \E i \in InUse' : elem'[data'[i]].key = target
  PROVE  Rows' = [j \in DOMAIN Rows \cup {target} |->
                    IF j = target THEN Rows'[target] ELSE Rows[j]]
<1>1. RowsOK /\ RowsOK'
  BY RowsAreElements, RowsAfter
<1>2. DOMAIN Rows' = DOMAIN Rows \cup {target}
  <2>1. ASSUME NEW j \in DOMAIN Rows'
        PROVE  j \in DOMAIN Rows \cup {target}
    <3>1. PICK i \in InUse' : elem'[data'[i]].key = j
      BY <1>1 DEF RowsOK
    <3> QED
      BY <3>1, <1>1 DEF RowsOK
  <2>2. ASSUME NEW j \in DOMAIN Rows
        PROVE  j \in DOMAIN Rows'
    <3>1. PICK i \in InUse : elem[data[i]].key = j
      BY <1>1 DEF RowsOK
    <3> QED
      BY <3>1, <1>1 DEF RowsOK
  <2>3. target \in DOMAIN Rows'
    BY <1>1 DEF RowsOK
  <2> QED
    BY <2>1, <2>2, <2>3
<1>3. ASSUME NEW j \in DOMAIN Rows', j # target
      PROVE  Rows'[j] = Rows[j]
  <2>1. PICK i \in InUse' : elem'[data'[i]].key = j
    BY <1>1 DEF RowsOK
  <2>2. Rows'[j] = elem'[data'[i]].value
    BY <2>1, <1>1 DEF RowsOK
  <2>3. /\ i \in InUse /\ elem[data[i]].key = j
        /\ elem[data[i]].value = elem'[data'[i]].value
    BY <2>1, <1>3
  <2>4. Rows[j] = elem[data[i]].value
    BY <2>3, <1>1 DEF RowsOK
  <2> QED
    BY <2>2, <2>3, <2>4
<1>4. Rows' = [j \in DOMAIN Rows' |-> Rows'[j]]
  BY <1>1 DEF RowsOK
<1> QED
  BY <1>2, <1>3, <1>4

\* A change of one row is a step of the table.
LEMMA RowSteps ==
  ASSUME NEW k \in Key, NEW vs \in SUBSET Obj,
         Rows' = [j \in DOMAIN Rows \cup {k} |-> IF j = k THEN vs ELSE Rows[j]]
  PROVE  Table!TableNext
<1>1. Table!Set(k, vs)
  BY DEF Table!Set, Rows
<1>2. CASE k \notin DOMAIN Rows
  <2>1. Table!Add(k, vs)
    BY <1>1, <1>2 DEF Table!Add, Rows
  <2> QED
    BY <2>1 DEF Table!TableNext
<1>3. CASE k \in DOMAIN Rows
  <2>1. Table!Replace(k, vs)
    BY <1>1, <1>3 DEF Table!Replace, Rows
  <2> QED
    BY <2>1 DEF Table!TableNext
<1> QED
  BY <1>2, <1>3

\* What is in the rows.
ValuesOK == \A i \in InUse : elem[data[i]].value \in SUBSET Obj

LEMMA ValuesInUse == IInv => ValuesOK
<1> SUFFICES ASSUME IInv, NEW i \in InUse
             PROVE  elem[data[i]].value \in SUBSET Obj
  BY DEF ValuesOK
<1>1. elem[data[i]] \in Element
  BY InUseOwned DEF IInv, TypeOK
<1> QED
  BY <1>1 DEF Element

LEMMA ValuesAfter == IInv' => ValuesOK'
<1>1. IInv => ValuesOK
  BY ValuesInUse
<1> QED
  BY <1>1, PTL

\* So a step that changes only the element of the key looked for is one.
LEMMA RowChanges ==
  ASSUME IInv, IInv', target \in Key,
         \A i \in InUse' : \/ elem'[data'[i]].key = target
                           \/ /\ i \in InUse
                              /\ elem[data[i]].key = elem'[data'[i]].key
                              /\ elem[data[i]].value = elem'[data'[i]].value,
         \A i \in InUse : i \in InUse' /\ elem'[data'[i]].key = elem[data[i]].key,
         \E i \in InUse' : elem'[data'[i]].key = target
  PROVE  Table!TableNext
<1>1. Rows' = [j \in DOMAIN Rows \cup {target} |->
                 IF j = target THEN Rows'[target] ELSE Rows[j]]
  BY OneRow
<1>2. PICK i \in InUse' : elem'[data'[i]].key = target
  OBVIOUS
<1>3. Rows'[target] \in SUBSET Obj
  BY <1>2, RowsAfter, ValuesAfter DEF RowsOK, ValuesOK
<1>4. PICK k \in Key : k = target
  OBVIOUS
<1>5. PICK vs \in SUBSET Obj : vs = Rows'[target]
  BY <1>3
<1>6. Rows' = [j \in DOMAIN Rows \cup {k} |-> IF j = k THEN vs ELSE Rows[j]]
  BY <1>1, <1>4, <1>5
<1> QED
  BY <1>6, RowSteps

\* Elements that the array does not own can be made, changed and freed.
LEMMA OutsideRows ==
  ASSUME IInv, IInv', UNCHANGED <<data, used, size>>, NEW o \in Obj,
         elem[o].owner # "array",
         \A p \in Obj \ {o} : elem'[p] = elem[p]
  PROVE  Rows' = Rows
<1>1. \A i \in InUse : data[i] \in Obj \ {o}
  BY InUseOwned DEF IInv
<1> QED
  BY <1>1, SameRows

\* The slots that array_get_unused_element exchanges are behind those in use.
LEMMA ReusedRows ==
  ASSUME IInv, IInv', NEW i \in Slots, NEW v \in Obj, SetReused(i, {v})
  PROVE  Rows' = Rows
<1>1. /\ i >= used /\ data[i] \in Obj /\ UNCHANGED <<used, size>>
      /\ data' = [data EXCEPT ![i] = data[used], ![used] = NONE]
  BY ObjAssumption DEF SetReused, FirstUnused, Unused
<1>2. /\ elem \in [Obj -> Element] /\ data \in [Slots -> Obj \cup {NONE}] /\ used \in Nat
      /\ size \in Nat /\ OwnedOnce
  BY DEF IInv, TypeOK
<1>3. \A p \in Obj \ {data[i]} : elem'[p] = elem[p]
  BY <1>1, <1>2 DEF SetReused
<1>4. i \in Int /\ used \in Slots
  BY <1>1, <1>2 DEF Slots
<1>5. ASSUME NEW j \in InUse
      PROVE  data'[j] = data[j] /\ elem'[data[j]] = elem[data[j]]
  <2>1. j \in Slots /\ data[j] \in Obj /\ data[j] # NONE
    BY InUseOwned, ObjNotNone DEF IInv
  <2>2. j # i /\ j # used
    BY <1>1, <1>2, <1>4 DEF InUse
  <2>3. data[j] # data[i]
    BY <1>2, <2>1, <2>2 DEF OwnedOnce
  <2> QED
    BY <1>1, <1>2, <1>3, <1>4, <2>1, <2>2, <2>3
<1> QED
  BY <1>1, <1>5, SameRows

\* Steps of the caller and of the search, and calls that only read.
LEMMA QuietStep ==
  ASSUME IInv, IInv',
         \/ \E o \in Obj, k \in Key \cup {NONE} : New(o, k)
         \/ \E call \in {"insert", "replace"}, o \in Obj : Put(call, o)
         \/ \E call \in {"get", "set"}, k \in Key : Find(call, k)
         \/ Search \/ Get
         \/ \E o, v \in Obj : SetNew(o, {v})
         \/ \E i \in Slots, v \in Obj : SetReused(i, {v})
         \/ UNCHANGED vars
  PROVE  Rows' = Rows
<1>1. elem \in [Obj -> Element]
  BY DEF IInv, TypeOK
<1>2. ASSUME NEW o \in Obj, NEW k \in Key \cup {NONE}, New(o, k)
      PROVE  Rows' = Rows
  <2>1. elem[o].owner = "nobody" /\ UNCHANGED <<data, used, size>>
    BY <1>2 DEF New, Free, arrayVars
  <2>2. \A p \in Obj \ {o} : elem'[p] = elem[p]
    BY <1>1, <1>2 DEF New
  <2> QED
    BY <2>1, <2>2, OutsideRows
<1>3. ASSUME NEW call \in {"insert", "replace"}, NEW o \in Obj, Put(call, o)
      PROVE  Rows' = Rows
  <2>1. elem[o].owner = "caller" /\ UNCHANGED <<data, used, size>>
    BY <1>3 DEF Put
  <2>2. \A p \in Obj \ {o} : elem'[p] = elem[p]
    BY <1>1, <1>3 DEF Put
  <2> QED
    BY <2>1, <2>2, OutsideRows
<1>4. ASSUME NEW o \in Obj, NEW v \in Obj, SetNew(o, {v})
      PROVE  Rows' = Rows
  <2>1. elem[o].owner = "nobody" /\ UNCHANGED <<data, used, size>>
    BY <1>4 DEF SetNew, Free, arrayVars
  <2>2. \A p \in Obj \ {o} : elem'[p] = elem[p]
    BY <1>1, <1>4 DEF SetNew
  <2> QED
    BY <2>1, <2>2, OutsideRows
<1>5. CASE UNCHANGED <<data, used, size, elem>>
  BY <1>5, SameRows
<1> QED
  BY <1>2, <1>3, <1>4, <1>5, ReusedRows
  DEF Find, Search, Probe, ProbeFaults, NotFound, Get, vars, arrayVars

\* An element of the array whose value changes.
LEMMA ValueStep ==
  ASSUME IInv, IInv', UNCHANGED <<data, used, size>>, pc = "found",
         elem'[Dup].key = target,
         \A i \in InUse : data[i] # Dup => elem'[data[i]] = elem[data[i]]
  PROVE  Table!TableNext
<1>1. ndx \in InUse /\ Dup = data[ndx] /\ elem[Dup].key = target /\ target \in Key
  BY DupFacts DEF Dup, IInv, CallOK, Busy
<1>2. InUse' = InUse
  BY DEF InUse
<1>3. \A i \in InUse' : \/ elem'[data'[i]].key = target
                        \/ /\ i \in InUse
                           /\ elem[data[i]].key = elem'[data'[i]].key
                           /\ elem[data[i]].value = elem'[data'[i]].value
  BY <1>1, <1>2
<1>4. \A i \in InUse : i \in InUse' /\ elem'[data'[i]].key = elem[data[i]].key
  BY <1>1, <1>2
<1>5. \E i \in InUse' : elem'[data'[i]].key = target
  BY <1>1, <1>2
<1> QED
  BY <1>1, <1>3, <1>4, <1>5, RowChanges

\* Texts are joined under the key they share; elements of other types are
\* dropped, and the row stays.
LEMMA InsertDupStep ==
  ASSUME IInv, IInv', InsertDup
  PROVE  Rows' = Rows \/ Table!TableNext
<1>1. /\ elem \in [Obj -> Element] /\ pc = "found"
      /\ UNCHANGED <<data, used, size>>
  BY DEF IInv, TypeOK, InsertDup, arrayVars
<1>2. /\ ndx \in InUse /\ Dup = data[ndx] /\ Dup \in Obj /\ elem[Dup].key = target
      /\ arg \in Obj /\ arg # Dup /\ elem[arg].owner = "caller"
  BY DupFacts DEF Dup, InsertDup
<1>3. \A i \in InUse : data[i] \in Obj \ {arg}
  BY <1>2, InUseOwned DEF IInv
<1>4. CASE arg \in Strings /\ Dup \notin Strings
  BY <1>4, <1>1, SameRows DEF InsertDup
<1>5. CASE ~(arg \in Strings /\ Dup \notin Strings)
  <2> DEFINE vs == IF arg \in Strings THEN elem[Dup].value \cup elem[arg].value
                                      ELSE elem[Dup].value
  <2>1. /\ elem'[Dup] = [elem[Dup] EXCEPT !.value = vs]
        /\ \A p \in Obj \ {arg, Dup} : elem'[p] = elem[p]
    BY <1>1, <1>2, <1>5 DEF InsertDup
  <2>2. elem[Dup] \in Element
    BY <1>1, <1>2
  <2> HIDE DEF vs
  <2>3. elem'[Dup].key = target
    BY <2>1, <2>2, <1>2 DEF Element
  <2> QED
    BY <2>1, <2>3, <1>1, <1>3, ValueStep
<1> QED
  BY <1>4, <1>5

\* The value under a key becomes that of the new element.
LEMMA ReplaceOldStep ==
  ASSUME IInv, IInv', ReplaceOld
  PROVE  Table!TableNext
<1>1. /\ elem \in [Obj -> Element] /\ target \in Key /\ pc = "found"
      /\ data \in [Slots -> Obj \cup {NONE}] /\ UNCHANGED <<used, size>>
  BY DEF IInv, TypeOK, CallOK, Busy, ReplaceOld
<1>2. /\ ndx \in InUse /\ ndx \in Slots /\ Dup = data[ndx] /\ Dup \in Obj
      /\ elem[Dup].key = target /\ elem[arg].key = target
      /\ arg \in Obj /\ arg # Dup /\ elem[arg].owner = "caller"
  BY DupFacts DEF Dup, ReplaceOld
<1>3. /\ data' = [data EXCEPT ![ndx] = arg]
      /\ elem'[arg] = [elem[arg] EXCEPT !.owner = "array"]
      /\ \A p \in Obj \ {arg, Dup} : elem'[p] = elem[p]
  BY <1>1, <1>2 DEF ReplaceOld, Exchanged
<1>4. elem'[arg].key = target
  <2>1. elem[arg] \in Element
    BY <1>1, <1>2
  <2> QED
    BY <2>1, <1>2, <1>3 DEF Element
<1>5. InUse' = InUse
  BY <1>1 DEF InUse
<1>6. data'[ndx] = arg
  BY <1>1, <1>2, <1>3
<1>7. ASSUME NEW i \in InUse, i # ndx
      PROVE  data'[i] = data[i] /\ elem'[data[i]] = elem[data[i]]
  <2>1. i \in Slots /\ data[i] \in Obj /\ elem[data[i]].owner = "array"
    BY InUseOwned DEF IInv
  <2>2. data[i] # Dup
    BY <2>1, <1>2, <1>7, ObjNotNone DEF IInv, OwnedOnce
  <2> QED
    BY <2>1, <2>2, <1>1, <1>2, <1>3, <1>7
<1>8. \A i \in InUse' : \/ elem'[data'[i]].key = target
                        \/ /\ i \in InUse
                           /\ elem[data[i]].key = elem'[data'[i]].key
                           /\ elem[data[i]].value = elem'[data'[i]].value
  BY <1>4, <1>5, <1>6, <1>7
<1>9. \A i \in InUse : i \in InUse' /\ elem'[data'[i]].key = elem[data[i]].key
  BY <1>2, <1>4, <1>5, <1>6, <1>7
<1>10. \E i \in InUse' : elem'[data'[i]].key = target
  BY <1>2, <1>4, <1>5, <1>6
<1> QED
  BY <1>1, <1>8, <1>9, <1>10, RowChanges

\* A key that was not there has a row now, with the value of its element.
LEMMA InsertStep ==
  ASSUME IInv, IInv', Insert
  PROVE  Table!TableNext
<1>1. target \in Key /\ used \in Nat
  BY DEF IInv, TypeOK, CallOK, Busy, Insert
<1>2. elem'[arg].key = target /\ data'[used] = arg
  BY InsertFacts
<1>3. InUse' = 0 .. used
  BY InsertFacts
<1>4. InUse = 0 .. used - 1
  BY DEF InUse
<1>5. ASSUME NEW i \in InUse
      PROVE  i \in InUse' /\ data'[i] = data[i] /\ elem'[data[i]] = elem[data[i]]
  <2>1. i # used /\ i \in InUse'
    BY <1>1, <1>3, <1>4
  <2> QED
    BY <2>1, InsertFacts
<1>6. \A i \in InUse' : i = used \/ i \in InUse
  BY <1>1, <1>3, <1>4
<1>7. used \in InUse'
  BY <1>1, <1>3
<1>8. \A i \in InUse' : \/ elem'[data'[i]].key = target
                        \/ /\ i \in InUse
                           /\ elem[data[i]].key = elem'[data'[i]].key
                           /\ elem[data[i]].value = elem'[data'[i]].value
  BY <1>2, <1>5, <1>6
<1>9. \A i \in InUse : i \in InUse' /\ elem'[data'[i]].key = elem[data[i]].key
  BY <1>5
<1>10. \E i \in InUse' : elem'[data'[i]].key = target
  BY <1>2, <1>7
<1> QED
  BY <1>1, <1>8, <1>9, <1>10, RowChanges

\* The element that has the key gets the new value.
LEMMA SetOldStep ==
  ASSUME IInv, IInv', NEW o \in Obj, SetOld({o})
  PROVE  Rows' = Rows \/ Table!TableNext
<1>1. /\ elem \in [Obj -> Element] /\ pc = "found"
      /\ UNCHANGED <<data, used, size>>
  BY DEF IInv, TypeOK, SetOld, arrayVars
<1>2. Dup \in Obj /\ elem[Dup].key = target
  BY <1>1, DupFacts
<1>3. CASE Dup \notin Strings
  BY <1>1, <1>3, SameRows DEF SetOld
<1>4. CASE Dup \in Strings
  <2>1. /\ elem'[Dup] = [elem[Dup] EXCEPT !.value = {o}]
        /\ \A p \in Obj \ {Dup} : elem'[p] = elem[p]
    BY <1>1, <1>2, <1>4 DEF SetOld
  <2>2. elem[Dup] \in Element
    BY <1>1, <1>2
  <2>3. elem'[Dup].key = target
    BY <2>1, <2>2, <1>2 DEF Element
  <2>4. \A i \in InUse : data[i] \in Obj
    BY InUseOwned DEF IInv
  <2> QED
    BY <2>1, <2>3, <2>4, <1>1, ValueStep
<1> QED
  BY <1>3, <1>4

LEMMA ResetStep ==
  ASSUME Reset
  PROVE  Table!TableNext
<1>1. used' = 0
  BY Zenon DEF Reset
<1>2. InUse' = {}
  BY <1>1 DEF InUse
<1>3. Table!Clear
  BY <1>2 DEF Table!Clear, Rows
<1> QED
  BY <1>3 DEF Table!TableNext

\* Every step of the array is one of the table, or leaves the table alone.
LEMMA StepImplements ==
  ASSUME IInv, IInv', [Next]_vars
  PROVE  Table!TableNext \/ Rows' = Rows
<1>1. CASE Insert
  BY <1>1, InsertStep
<1>2. CASE InsertDup
  BY <1>2, InsertDupStep
<1>3. CASE ReplaceOld
  BY <1>3, ReplaceOldStep
<1>4. ASSUME NEW o \in Obj, SetOld({o})
      PROVE  Table!TableNext \/ Rows' = Rows
  BY <1>4, SetOldStep
<1>5. CASE Reset
  BY <1>5, ResetStep
<1>6. CASE \/ \E o \in Obj, k \in Key \cup {NONE} : New(o, k)
           \/ \E call \in {"insert", "replace"}, o \in Obj : Put(call, o)
           \/ \E call \in {"get", "set"}, k \in Key : Find(call, k)
           \/ Search \/ Get
           \/ \E o, v \in Obj : SetNew(o, {v})
           \/ \E i \in Slots, v \in Obj : SetReused(i, {v})
           \/ UNCHANGED vars
  BY <1>6, QuietStep
<1> QED
  BY <1>1, <1>2, <1>3, <1>4, <1>5, <1>6 DEF Next

\* An array of marray.c implements a table from keys to contents: whatever the
\* order of calls, each changes the row of one key or empties the table.
THEOREM Implementation == Spec => ImplementsTable
<1>1. Init => Table!TableInit
  <2>1. Init => InUse = {}
    BY DEF Init, InUse
  <2> QED
    BY <2>1 DEF Table!TableInit, Rows
<1>2. IInv /\ IInv' /\ [Next]_vars => [Table!TableNext]_Rows
  BY StepImplements
<1>3. [Table!TableNext]_Rows <=>
        [Table!TableNext]_[k \in {elem[data[i]].key : i \in InUse} |-> elem[Holder(k)].value]
  BY DEF Rows
<1> QED
  BY <1>1, <1>2, <1>3, Invariance, PTL DEF Spec, ImplementsTable, Table!TableSpec
=============================================================================
