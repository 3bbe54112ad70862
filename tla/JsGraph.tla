------------------------------ MODULE JsGraph ------------------------------
(***************************************************************************)
(* What JS code may rely on of its memory: a graph of objects, which only  *)
(* the code itself changes.  The memory management may forget objects that *)
(* are out of reach, provided nothing it keeps refers to them; an object   *)
(* out of reach that is not forgotten may come back as the argument of a   *)
(* finalizer, with all that it refers to.                                  *)
(***************************************************************************)
CONSTANTS
    Objects,       \* places for JS objects
    Nil

VARIABLES
    known,         \* the objects that have been made and not forgotten
    roots,         \* the objects variables refer to
    props,         \* the objects the properties of an object refer to
    given          \* the object a finalizer was given

vars == <<known, roots, props, given>>

\* The objects that code can reach.
Within(start) ==
    LET closed == {C \in SUBSET Objects :
                      start \subseteq C /\ \A p \in C : props[p] \subseteq C} IN
    {o \in Objects : \A C \in closed : o \in C}

Reached == Within(roots \cup ({given} \ {Nil}))

New(o) ==
    /\ o \notin known
    /\ known' = known \cup {o}
    /\ roots' = roots \cup {o}
    /\ UNCHANGED <<props, given>>

Hold(o) ==
    /\ roots' = roots \cup {o}
    /\ o \in Reached
    /\ UNCHANGED <<known, props, given>>

Drop(o) ==
    /\ roots' = roots \ {o}
    /\ UNCHANGED <<known, props, given>>

Link(o, p) ==
    /\ props' = [props EXCEPT ![o] = @ \cup {p}]
    /\ {o, p} \subseteq Reached
    /\ UNCHANGED <<known, roots, given>>

Unlink(o, p) ==
    /\ props' = [props EXCEPT ![o] = @ \ {p}]
    /\ o \in Reached
    /\ UNCHANGED <<known, roots, given>>

\* The objects S are out of reach of what is kept.
Forget(S) ==
    /\ known' = known \ S
    /\ props' = [o \in Objects |-> IF o \in S THEN {} ELSE props[o]]
    /\ S \cap Within(roots' \cup ({given'} \ {Nil})) = {}
    /\ \A o \in known \ S : props[o] \cap S = {}

Collect(S) == Forget(S) /\ UNCHANGED <<roots, given>>

\* A finalizer is given an object, and ends; then the object may go.
Give(o) ==
    /\ given = Nil /\ o \in known
    /\ given' = o
    /\ UNCHANGED <<known, roots, props>>

Take ==
    /\ given # Nil
    /\ given' = Nil
    /\ UNCHANGED roots
    /\ Forget({}) \/ Forget({given})

\* The VM is destroyed; no JS code will run.
End ==
    /\ given = Nil
    /\ known' = {} /\ roots' = {}
    /\ props' = [o \in Objects |-> {}]
    /\ UNCHANGED given

Init ==
    /\ known = {}
    /\ roots = {}
    /\ props = [o \in Objects |-> {}]
    /\ given = Nil

Next ==
    \/ \E o \in Objects : New(o) \/ Hold(o) \/ Drop(o) \/ Give(o)
    \/ \E o, p \in Objects : Link(o, p) \/ Unlink(o, p)
    \/ \E S \in SUBSET Objects : Collect(S)
    \/ Take \/ End

Spec == Init /\ [][Next]_vars

=============================================================================
