----------------------------- MODULE ShortScripts -----------------------------
(***************************************************************************)
(* How many calls a script can make before a stack may be full: nothing    *)
(* takes the slots back that the methods of JS and of the wrappers leave.  *)
(* The counter is unbounded: this module is for proofs only.               *)
(***************************************************************************)
EXTENDS VmWrappers

VARIABLE calls         \* method calls and releases so far, of any object

CountedInit == Init /\ calls = 0

CountedNext == Next /\ calls' = calls + 1

CountedSpec == CountedInit /\ [][CountedNext]_<<vars, calls>>

\* A method leaves two slots at most and needs Margin: as long as twice the
\* number of calls stays below what Duktape reserves (64 slots), no order of
\* calls and errors can fill a stack.
ShortScriptsFit == 2 * calls + Margin <= Reserve + 3 => mode # "stackFull"

=============================================================================
