---------------------------- MODULE MCArrayIndex ----------------------------
(***************************************************************************)
(* Instance of ArrayIndex for TLC: the keys of the numbers 0, 1 and 2.     *)
(* They are keys that elements may have of their own, and the order of the *)
(* keys is not that of the numbers, as with names like "10" and "9".       *)
(***************************************************************************)
EXTENDS ArrayIndex

MCIndexKey == [n \in 0 .. MaxUnique |-> IF n = 0 THEN 2 ELSE IF n = 1 THEN 1 ELSE 3]
=============================================================================
