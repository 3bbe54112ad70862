---------------------------- MODULE MCVariables ----------------------------
(***************************************************************************)
(* Small instances of Variables for TLC.                                   *)
(***************************************************************************)
EXTENDS Variables, TLC

\* VMs are interchangeable; no liveness is checked.
Symmetry == Permutations(Vms)

=============================================================================
