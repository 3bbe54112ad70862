----------------------------- MODULE MCJsHeap -----------------------------
(***************************************************************************)
(* Small instances of JsHeap for TLC.                                      *)
(***************************************************************************)
EXTENDS JsHeap, TLC

\* Places in memory are interchangeable; no liveness is checked.
Symmetry == Permutations(Objects)

=============================================================================
