------------------------------ MODULE Unwinding ------------------------------
(***************************************************************************)
(* What nested calls between two languages promise about errors: one at a  *)
(* time, an error leaves the activation it was raised in, then each        *)
(* activation below, none of them skipped and the error unchanged, until   *)
(* one of them catches it; nobody runs meanwhile.                          *)
(***************************************************************************)
EXTENDS Naturals

CONSTANTS Errors, None

VARIABLES
    depth,         \* activations on the call stack
    error,         \* the error on its way, or None
    lost           \* has the process been lost?

vars == <<depth, error, lost>>

Init == depth = 1 /\ error = None /\ lost = FALSE

Calm == ~lost /\ error = None
Flying == ~lost /\ error # None

Enter  == Calm /\ depth' = depth + 1 /\ UNCHANGED <<error, lost>>
Leave  == Calm /\ depth > 1 /\ depth' = depth - 1 /\ UNCHANGED <<error, lost>>
Raise  == Calm /\ error' \in Errors /\ UNCHANGED <<depth, lost>>
Unwind == Flying /\ depth > 1 /\ depth' = depth - 1 /\ UNCHANGED <<error, lost>>
Catch  == Flying /\ error' = None /\ UNCHANGED <<depth, lost>>
Lose   == ~lost /\ lost' = TRUE /\ UNCHANGED <<depth, error>>

Next == Enter \/ Leave \/ Raise \/ Unwind \/ Catch \/ Lose

Spec == Init /\ [][Next]_vars

=============================================================================
