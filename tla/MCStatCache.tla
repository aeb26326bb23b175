---------------------------- MODULE MCStatCache ----------------------------
(***************************************************************************)
(* An instance of StatCache: three names, of which two have one hash with  *)
(* follow_symlink and two others without.                                  *)
(***************************************************************************)
EXTENDS StatCache

MCHash == [x \in Name \X {0, 1} |->
             CASE x = <<"a", 1>> -> 2 [] x = <<"a", 0>> -> 4
               [] x = <<"b", 1>> -> 2 [] x = <<"b", 0>> -> 1
               [] x = <<"c", 1>> -> 3 [] x = <<"c", 0>> -> 1]
MCMime == [n \in Name |-> IF n = "b" THEN "html" ELSE "text"]
MCDisk == [n \in Name |-> IF n = "c" THEN "dir" ELSE "file"]
=============================================================================
