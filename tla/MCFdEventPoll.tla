---------------------------- MODULE MCFdEventPoll ----------------------------
(***************************************************************************)
(* Instance of FdEventPoll for TLC.  Descriptors are model values: nothing *)
(* in the module orders them, so permuting them changes no behaviour.      *)
(***************************************************************************)
EXTENDS FdEventPoll, TLC

Symmetry == Permutations(Fds)
=============================================================================
