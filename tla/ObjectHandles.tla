---------------------------- MODULE ObjectHandles ----------------------------
(***************************************************************************)
(* What the wrappers promise to a PHP script, with no stack, no index and  *)
(* no reference count: a handle stands for one JavaScript object from the  *)
(* moment the script receives it until the script lets it go, and a VM     *)
(* exists as long as the script holds it or a handle into it.              *)
(***************************************************************************)

CONSTANTS
    VMs,           \* the JavaScript virtual machines
    Handles,       \* the PHP objects that may stand for JavaScript objects
    Objs,          \* the JavaScript objects and functions
    NoHandle       \* the state of a handle the script does not have

VARIABLES
    life,          \* "unborn", "live" or "destroyed", for each VM
    owned,         \* does the script hold the VM itself?
    means,         \* what each handle stands for: [ctx, obj] or NoHandle
    lost           \* has the process been lost?

vars == <<life, owned, means, lost>>

Init ==
    /\ life = [v \in VMs |-> "unborn"]
    /\ owned = [v \in VMs |-> FALSE]
    /\ means = [h \in Handles |-> NoHandle]
    /\ lost = FALSE

\* Does anything keep v alive?
Needed(v, own, mean) == own[v] \/ \E h \in Handles : mean[h] # NoHandle /\ mean[h].ctx = v

\* Every VM nothing needs any more is destroyed at once.
Collect(own, mean) ==
    [v \in VMs |-> IF life[v] = "live" /\ ~Needed(v, own, mean) THEN "destroyed" ELSE life[v]]

Create(v) ==
    /\ ~lost /\ life[v] = "unborn"
    /\ life' = [life EXCEPT ![v] = "live"]
    /\ owned' = [owned EXCEPT ![v] = TRUE]
    /\ UNCHANGED <<means, lost>>

\* A handle can only be had on an object of a VM that exists.
Receive(h, v, o) ==
    /\ ~lost /\ life[v] = "live" /\ means[h] = NoHandle
    /\ means' = [means EXCEPT ![h] = [ctx |-> v, obj |-> o]]
    /\ UNCHANGED <<life, owned, lost>>

Release(h) ==
    /\ ~lost /\ means[h] # NoHandle
    /\ means' = [means EXCEPT ![h] = NoHandle]
    /\ life' = Collect(owned, means')
    /\ UNCHANGED <<owned, lost>>

Abandon(v) ==
    /\ ~lost /\ owned[v]
    /\ owned' = [owned EXCEPT ![v] = FALSE]
    /\ life' = Collect(owned', means)
    /\ UNCHANGED <<means, lost>>

\* The process may be lost; nothing changes afterwards.
Fail == ~lost /\ lost' = TRUE /\ UNCHANGED <<life, owned, means>>

Next ==
    \/ \E v \in VMs : Create(v) \/ Abandon(v)
    \/ \E h \in Handles : Release(h) \/ \E v \in VMs, o \in Objs : Receive(h, v, o)
    \/ Fail

Spec == Init /\ [][Next]_vars

=============================================================================
