---------------------------- MODULE MCVmWrappers ----------------------------
(***************************************************************************)
(* Small instances of VmWrappers for TLC.                                  *)
(***************************************************************************)
EXTENDS VmWrappers, TLC

\* A script that stays with the plain methods, on ordinary values.
NoFeatures == {}

\* Scripts that do one thing more.
MethodReturnsObject == {"methodReturnsObject"}
NewVars             == {"newVars"}

\* Scripts that raise errors wherever JS code can.
OddScripts == {"newVars", "oddErrors", "oddProperties"}

\* Any script.
AllUses == Features

\* Wrappers are interchangeable, and so are VMs; no liveness is checked.
Symmetry == Permutations(Handles) \cup Permutations(VMs)

=============================================================================
