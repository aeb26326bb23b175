----------------------------- MODULE SplayTree -----------------------------
(***************************************************************************)
(* The splay tree of msplaytree.c.  A tree is a memory of nodes and the    *)
(* node at its root.  No two nodes have the same key, so a node is named   *)
(* by its key.  Head is the node N on the stack of splaytree_splay, which  *)
(* holds the tree of the smaller keys at its right and that of the greater *)
(* ones at its left.                                                       *)
(*                                                                         *)
(* splaytree_splay says everything twice, for left and right.  Here a side *)
(* is a parameter: `last[side]' is r or l, `sum[side]' is r_size or l_size,*)
(* for what hangs at that side of N.                                       *)
(***************************************************************************)
EXTENDS Integers

CONSTANT Key   \* the keys of nodes, hashes in the code

ASSUME KeyAssumption == Key \subseteq Nat

NULL == -1
Head == -2

Side == {"left", "right"}
Other(side) == IF side = "left" THEN "right" ELSE "left"

EmptyNode == [left |-> NULL, right |-> NULL, size |-> 0]
Nodes == [Key \cup {Head} -> [left : Key \cup {NULL}, right : Key \cup {NULL}, size : Int]]

\* node_size
Size(m, t) == IF t = NULL THEN 0 ELSE m[t].size

\* The sizes of the children and one.
SumOf(m, t) == Size(m, m[t].left) + Size(m, m[t].right) + 1

\* Faulty variant: the subtree between the two nodes is not passed on.
Rotate_Loses(m, t, side) ==
  LET y == m[t][side]
      m1 == [m EXCEPT ![t][side] = NULL, ![y][Other(side)] = t]
  IN  [m1 EXCEPT ![t].size = SumOf(m1, t)]

\* The child of t at a side comes to the place of t.
Rotate(m, t, side) ==
  LET y == m[t][side]
      m1 == [m EXCEPT ![t][side] = m[y][Other(side)], ![y][Other(side)] = t]
  IN  [m1 EXCEPT ![t].size = SumOf(m1, t)]

\* The key is farther at that side than the child of t is.
Beyond(m, t, side, key) ==
  IF side = "left" THEN key < m[t].left ELSE key > m[t].right

\* t, with what it has at its other side, is hung below the last node of a side.
Link(s, side) ==
  LET m1 == [s.m EXCEPT ![s.last[side]][side] = s.t]
  IN  [m |-> m1, t |-> m1[s.t][side],
       last |-> [s.last EXCEPT ![side] = s.t],
       sum |-> [s.sum EXCEPT ![side] = @ + Size(m1, m1[s.t][Other(side)]) + 1]]

\* The loop: down to the key, or to where it would be.
RECURSIVE Descend(_, _)
Descend(s, key) ==
  LET side == IF key < s.t THEN "left" ELSE "right"
      s1 == IF Beyond(s.m, s.t, side, key)
            THEN [s EXCEPT !.m = Rotate(s.m, s.t, side), !.t = s.m[s.t][side]] ELSE s
  IN  IF key = s.t \/ s.m[s.t][side] = NULL THEN s
      ELSE IF s1.m[s1.t][side] = NULL THEN s1
      ELSE Descend(Link(s1, side), key)

\* The sizes along a path.  The last node of the path still has its pointer to
\* t, so the path goes on through t.
RECURSIVE Resize(_, _, _, _)
Resize(m, y, side, size) ==
  IF y = NULL THEN m
  ELSE Resize([m EXCEPT ![y].size = size], m[y][side], side,
              size - (Size(m, m[y][Other(side)]) + 1))

\* The sizes of the two trees and of the whole.
Counted(s) ==
  LET l_size == s.sum["right"] + Size(s.m, s.m[s.t].left)
      r_size == s.sum["left"] + Size(s.m, s.m[s.t].right)
  IN  Resize(Resize([s.m EXCEPT ![s.t].size = l_size + r_size + 1],
                    s.m[Head].right, "right", l_size),
             s.m[Head].left, "left", r_size)

\* The three trees of a memory m are put together, with t as the root.
Assemble(m, s) ==
  LET m1 == [m EXCEPT ![s.last["right"]].right = m[s.t].left,
                      ![s.last["left"]].left = m[s.t].right]
  IN  [m1 EXCEPT ![s.t].left = m1[Head].right, ![s.t].right = m1[Head].left, ![Head] = EmptyNode]

Split(m, t, key) ==
  Descend([m |-> [m EXCEPT ![Head] = EmptyNode], t |-> t,
           last |-> [side \in Side |-> Head], sum |-> [side \in Side |-> 0]], key)
Joined(s) == [m |-> Assemble(Counted(s), s), root |-> s.t]

\* splaytree_splay: the new memory and the new root.
Splay(m, t, key) ==
  IF t = NULL THEN [m |-> m, root |-> NULL] ELSE Joined(Split(m, t, key))

\* splaytree_insert: the root of s gives up the child where the key belongs.
Above(s, key) ==
  LET side == IF key < s.root THEN "left" ELSE "right"
      m1 == [s.m EXCEPT ![key][side] = s.m[s.root][side], ![key][Other(side)] = s.root,
                        ![s.root][side] = NULL]
  IN  [m1 EXCEPT ![s.root].size = Size(m1, m1[s.root][Other(side)]) + 1]

AsRoot(m, key) == [m |-> [m EXCEPT ![key].size = SumOf(m, key)], root |-> key]
InsertAt(s, key) == IF s.root = key THEN s ELSE AsRoot(Above(s, key), key)

Insert(m, t, key) ==
  IF t = NULL THEN [m |-> [m EXCEPT ![key] = [EmptyNode EXCEPT !.size = 1]], root |-> key]
  ELSE InsertAt(Splay(m, t, key), key)

\* splaytree_delete: the root of s is replaced by its right child when it has no
\* left one, otherwise by the root of left, what is at its left splayed.
Replaced(s, left) ==
  LET right == s.m[s.root].right
      x  == IF left.root = NULL THEN right ELSE left.root
      m1 == IF left.root = NULL THEN s.m ELSE [left.m EXCEPT ![x].right = right]
      m2 == [m1 EXCEPT ![s.root] = EmptyNode]
  IN  [m |-> IF x = NULL THEN m2 ELSE [m2 EXCEPT ![x].size = s.m[s.root].size - 1], root |-> x]

DeleteAt(s, key) ==
  IF s.root # key THEN s ELSE Replaced(s, Splay(s.m, s.m[s.root].left, key))

Delete(m, t, key) == IF t = NULL THEN [m |-> m, root |-> NULL] ELSE DeleteAt(Splay(m, t, key), key)

-----------------------------------------------------------------------------
(***************************************************************************)
(* What a tree should be.                                                  *)
(***************************************************************************)

\* The nodes below t, t included.
RECURSIVE Below(_, _)
Below(m, t) == IF t = NULL THEN {} ELSE {t} \cup Below(m, m[t].left) \cup Below(m, m[t].right)

\* A binary search tree.
RECURSIVE Sorted(_, _)
Sorted(m, t) ==
  t # NULL =>
    /\ \A k \in Below(m, m[t].left) : k < t
    /\ \A k \in Below(m, m[t].right) : k > t
    /\ Sorted(m, m[t].left) /\ Sorted(m, m[t].right)
=============================================================================
