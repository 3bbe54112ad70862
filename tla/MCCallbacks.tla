---------------------------- MODULE MCCallbacks ----------------------------
(***************************************************************************)
(* Small instances of Callbacks for TLC.                                   *)
(***************************************************************************)
EXTENDS Callbacks, TLC

\* Wrappers, functions and messages are interchangeable.  Runs with liveness
\* properties go without this.
Symmetry == Permutations(Handles) \cup Permutations(Functions) \cup Permutations(Errors)

=============================================================================
