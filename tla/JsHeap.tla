------------------------------- MODULE JsHeap -------------------------------
(***************************************************************************)
(* The memory of one VM.  An object behind a wrapper lives because a stack *)
(* slot refers to it; which objects die, and when their finalizers run, is *)
(* decided by three mechanisms of Duktape that work on the same objects:   *)
(* reference counts, mark-and-sweep, and the list of objects whose         *)
(* finalizer is due.  A finalizer is JS code: it may use any object it can *)
(* reach, allocate, trigger another collection, and call PHP functions.    *)
(*                                                                         *)
(* An object refers to each other object at most once.  Strings, buffers   *)
(* and the objects every VM is built with are left out.                    *)
(***************************************************************************)
EXTENDS Integers, FiniteSets

CONSTANTS
    Objects,       \* places for JS objects
    MaxProps,      \* bound: properties of an object that refer to objects
    Builtins,      \* how many objects an empty VM has, and keeps
    Nil

ASSUME HeapAssumption ==
    /\ IsFiniteSet(Objects) /\ Nil \notin Objects
    /\ MaxProps \in Nat /\ Builtins \in Nat

VARIABLES
    where,         \* the list of the heap the object is on
    refers,        \* the objects its properties refer to
    roots,         \* the objects variables and stack slots refer to
    count,         \* h_refcount
    fin,           \* the objects with a finalizer
    finalized,     \* the flag FINALIZED
    current,       \* the object whose finalizer runs
    hadZero,       \* had_zero_refcount of that object
    refused,       \* the call of its finalizer has been refused
    pc,            \* JS code runs, or a loop of the memory management
    phase,         \* of duk_heap_free
    round,         \* objects duk__free_run_finalizers has yet to visit
    ran,           \* count_finalized: finalizers it ran in this round
    limit,         \* curr_limit: how many may run in a round
    idle,          \* history: objects mark-and-sweep has finalized, not reached since,
                   \* before the rounds
    late           \* history: objects finalizers made, or gave a finalizer, in this round

forced == <<round, ran, limit>>

vars == <<where, refers, roots, count, fin, finalized, current, hadZero, refused,
          pc, phase, forced, idle, late>>

Allocated == {o \in Objects : where[o] # "none"}
Heap == {o \in Objects : where[o] = "heap"}         \* heap_allocated
FinalizeList == {o \in Objects : where[o] = "due"}  \* finalize_list
RefzeroList == {o \in Objects : where[o] = "zero"}  \* refzero_list

\* Everything that can be reached from the objects of S.
Closed(S) == {C \in SUBSET Objects : S \subseteq C /\ \A p \in C : refers[p] \subseteq C}
Reach(S) == LET sets == Closed(S) IN {o \in Objects : \A C \in sets : o \in C}

\* The object whose finalizer runs is on the value stack.
OnStack == {current} \ {Nil}
Accessible == Reach(roots \cup OnStack)

\* JS code runs, or an error is made of a refused call.
Working == pc = "code" /\ (phase = "running" \/ current # Nil)

JsCode == Working /\ ~refused

One(b) == IF b THEN 1 ELSE 0

-----------------------------------------------------------------------------
(***************************************************************************)
(* Reference counts                                                        *)
(***************************************************************************)

\* While the remaining finalizers of a VM are run, ms_running is set and an
\* object whose count falls to zero stays where it is.
Suppressed == phase = "forced"

\* Of the objects T that lose a reference, those that lose their last.
Zeroed(T) == IF Suppressed THEN {} ELSE {o \in T : where[o] = "heap" /\ count[o] = 1}

\* Mutant of Due: a second finalizer run instead of none.
DueAgain(Z) == Z \cap fin

\* Those of them whose finalizer has to be run first.
Due(Z) == (Z \cap fin) \ finalized

\* Mutant of Bump: on the list without the additional reference.
NoBump(o) == 0

\* An object on finalize_list has one reference more, so that it is not freed
\* there when a finalizer takes up and drops a reference.
Bump(o) == 1

\* The counts and lists after the objects T lost a reference.
CountAfter(T) ==
    [o \in Objects |->
        IF o \notin T THEN count[o]
        ELSE count[o] - 1 + (IF o \in Due(Zeroed(T)) THEN Bump(o) ELSE 0)]

WhereAfter(T) ==
    [o \in Objects |->
        IF o \in Due(Zeroed(T)) THEN "due"
        ELSE IF o \in Zeroed(T) THEN "zero" ELSE where[o]]

\* Finalizers that are due are run at once, or later: not while one is running,
\* an error is thrown, or a property table is reallocated.
RunFinalizers == IF current = Nil THEN {"process", "code"} ELSE {"code"}

\* A cascade of frees is completed first.
AfterDecref(T) ==
    IF Zeroed(T) \ Due(Zeroed(T)) # {} THEN {"free"}
    ELSE IF Zeroed(T) # {} THEN RunFinalizers ELSE {"code"}

\* What JS code has reached is not idle.
Seen == idle' = idle \ Reach(roots \cup OnStack)

\* The object o is new, or has a new finalizer.
Given(o) == late' = IF phase = "forced" /\ o \in fin' \ finalized THEN late \cup {o} ELSE late

-----------------------------------------------------------------------------
(***************************************************************************)
(* JS code, in a script or in a finalizer                                  *)
(***************************************************************************)

\* An object is made and kept in a variable, with a finalizer or without.
New(o) ==
    /\ JsCode
    /\ where[o] = "none"
    /\ where' = [where EXCEPT ![o] = "heap"]
    /\ count' = [count EXCEPT ![o] = 1]
    /\ roots' = roots \cup {o}
    /\ fin' \in {fin, fin \cup {o}}
    /\ Seen /\ Given(o)
    /\ UNCHANGED <<refers, finalized, current, hadZero, refused, pc, phase, forced>>

\* p becomes a property of o.
Link(o, p) ==
    /\ JsCode
    /\ p \notin refers[o] /\ Cardinality(refers[o]) < MaxProps
    /\ refers' = [refers EXCEPT ![o] = @ \cup {p}]
    /\ count' = [count EXCEPT ![p] = @ + 1]
    /\ Seen
    /\ UNCHANGED <<where, roots, fin, finalized, current, hadZero, refused, pc, phase, forced, late>>

\* A property is deleted or overwritten.
Unlink(o, p) ==
    /\ JsCode
    /\ p \in refers[o]
    /\ refers' = [refers EXCEPT ![o] = @ \ {p}]
    /\ count' = CountAfter({p})
    /\ where' = WhereAfter({p})
    /\ pc' \in AfterDecref({p})
    /\ Seen
    /\ UNCHANGED <<roots, fin, finalized, current, hadZero, refused, phase, forced, late>>

\* A variable or a slot takes up a reference.
Hold(o) ==
    /\ JsCode
    /\ o \notin roots
    /\ roots' = roots \cup {o}
    /\ count' = [count EXCEPT ![o] = @ + 1]
    /\ Seen
    /\ UNCHANGED <<where, refers, fin, finalized, current, hadZero, refused, pc, phase, forced, late>>

\* It drops the reference: a variable is overwritten, a slot popped, or a
\* wrapper released.
Drop(o) ==
    /\ JsCode
    /\ o \in roots
    /\ roots' = roots \ {o}
    /\ count' = CountAfter({o})
    /\ where' = WhereAfter({o})
    /\ pc' \in AfterDecref({o})
    /\ Seen
    /\ UNCHANGED <<refers, fin, finalized, current, hadZero, refused, phase, forced, late>>

\* Duktape.fin(o, f) sets the finalizer or takes it away.
SetFinalizer(o) ==
    /\ JsCode
    /\ fin' = IF o \in fin THEN fin \ {o} ELSE fin \cup {o}
    /\ Seen /\ Given(o)
    /\ UNCHANGED <<where, refers, roots, count, finalized, current, hadZero, refused, pc, phase,
                   forced>>

-----------------------------------------------------------------------------
(***************************************************************************)
(* The cascade of frees                                                    *)
(***************************************************************************)

\* One round of duk__refcount_free_pending.  After the last, finalizers are due
\* (a decrement of the norz kind leaves them for later), or the loop that runs
\* them goes on.
FreeOne(o) ==
    /\ pc \in {"free", "drain"}
    /\ o \in RefzeroList
    /\ count' = CountAfter(refers[o])
    /\ where' = [WhereAfter(refers[o]) EXCEPT ![o] = "none"]
    /\ refers' = [refers EXCEPT ![o] = {}]
    /\ fin' = fin \ {o}
    /\ finalized' = finalized \ {o}
    /\ idle' = idle \ {o}
    /\ pc' \in IF \E p \in Objects : where'[p] = "zero" THEN {pc}
               ELSE IF pc = "drain" THEN {"process"} ELSE RunFinalizers
    /\ UNCHANGED <<roots, current, hadZero, refused, phase, forced, late>>

-----------------------------------------------------------------------------
(***************************************************************************)
(* Mark-and-sweep                                                          *)
(***************************************************************************)

\* The main roots: variables, and everything on the value stack.
MarkRoots == roots \cup OnStack

\* Unreachable objects whose finalizer has to be run first.
Finalizable ==
    {o \in Heap \ Reach(MarkRoots) : o \in fin /\ o \notin finalized}

\* Mutant of Marked: objects waiting for their finalizer are no roots.
MarkedWithoutList == Reach(MarkRoots \cup Finalizable)

\* They and the objects of finalize_list are roots for the second marking.
Marked == Reach(MarkRoots \cup Finalizable \cup FinalizeList)

Garbage == Heap \ Marked

\* Mutant of Rescued: decided while finalizers have yet to be run.
RescuedAtOnce == Marked \ Finalizable

\* Finalized objects that turn out reachable have been rescued; with objects
\* left on finalize_list the decision is postponed.
Rescued == IF FinalizeList = {} THEN Marked \ Finalizable ELSE {}

\* Objects newly found finalizable count as reachable when rescues are decided.
Doomed == IF FinalizeList = {} THEN Finalizable ELSE {}

\* duk__finalize_refcounts, duk__sweep_heap.
Sweep ==
    /\ where' = [o \in Objects |-> IF o \in Garbage THEN "none"
                                   ELSE IF o \in Finalizable THEN "due" ELSE where[o]]
    /\ count' = [o \in Objects |->
                   IF o \in Garbage THEN 0
                   ELSE count[o] - Cardinality({p \in Garbage : o \in refers[p]})
                        + (IF o \in Finalizable THEN Bump(o) ELSE 0)]
    /\ refers' = [o \in Objects |-> IF o \in Garbage THEN {} ELSE refers[o]]
    /\ fin' = fin \ Garbage
    /\ finalized' = (finalized \ Garbage) \ Rescued
    /\ idle' = (idle \ Reach(MarkRoots \cup Doomed)) \ Garbage
    /\ UNCHANGED <<roots, current, hadZero, refused, late>>

\* duk_heap_mark_and_sweep, from an allocation.
Collect ==
    /\ Working
    /\ phase # "forced"
    /\ Sweep
    /\ pc' \in RunFinalizers
    /\ UNCHANGED <<phase, forced>>

-----------------------------------------------------------------------------
(***************************************************************************)
(* Finalizers                                                              *)
(***************************************************************************)

\* Finalizers left behind are run at a later occasion.
ProcessLater ==
    /\ pc = "code" /\ current = Nil /\ phase = "running"
    /\ FinalizeList # {}
    /\ pc' = "process"
    /\ UNCHANGED <<where, refers, roots, count, fin, finalized, current, hadZero, refused,
                   phase, forced, idle, late>>

\* duk_heap_process_finalize_list takes an object and starts its finalizer,
\* to which the object is passed on the value stack.  The call is refused when
\* a coroutine is current and the main thread in a call (see Coroutines); the
\* object has the flag already.
StartFinalizer(o) ==
    /\ pc = "process" /\ phase # "skip"
    /\ o \in FinalizeList
    /\ current' = o
    /\ hadZero' = (count[o] = 1)
    /\ count' = [count EXCEPT ![o] = @ + 1]
    /\ finalized' = finalized \cup {o}
    /\ refused' \in IF phase = "running" THEN BOOLEAN ELSE {FALSE}
    /\ pc' = "code"
    /\ idle' = idle \ {o}
    /\ UNCHANGED <<where, refers, roots, fin, phase, forced, late>>

\* Mutants of Unreferenced: the bump is forgotten, or the result ignored.
UnreferencedNoBump(n) == n = 0
UnreferencedAlways(n) == TRUE

\* Only the additional reference is left.
Unreferenced(n) == n = 1

\* The finalizer returns or fails, or was refused.  Unless somebody has taken
\* up a reference the object is freed; otherwise it goes back to the heap, and
\* if the count was what doomed it, it may be finalized again.  All objects a
\* freed one refers to lose the reference at once; in the code they do in turn,
\* each with the cascade it starts, and no JS code runs in between.
EndFinalizer ==
    /\ pc = "code" /\ current # Nil /\ phase # "forced"
    /\ current' = Nil
    /\ IF Unreferenced(count[current] - 1)
       THEN /\ count' = [CountAfter(refers[current]) EXCEPT ![current] = 0]
            /\ where' = [WhereAfter(refers[current]) EXCEPT ![current] = "none"]
            /\ refers' = [refers EXCEPT ![current] = {}]
            /\ fin' = fin \ {current}
            /\ finalized' = finalized \ {current}
            /\ idle' = idle \ {current}
            /\ pc' = IF \E p \in Objects : where'[p] = "zero" THEN "drain" ELSE "process"
       ELSE /\ count' = [count EXCEPT ![current] = @ - 2]
            /\ where' = [where EXCEPT ![current] = "heap"]
            /\ finalized' = IF hadZero THEN finalized \ {current} ELSE finalized
            /\ idle' = IF hadZero \/ current \in Reach(roots)
                       THEN idle ELSE idle \cup {current}
            /\ pc' = "process"
            /\ UNCHANGED <<refers, fin>>
    /\ hadZero' = FALSE
    /\ refused' = FALSE
    /\ UNCHANGED <<roots, phase, forced, late>>

ProcessDone ==
    /\ pc = "process"
    /\ FinalizeList = {}
    /\ pc' = "code"
    /\ UNCHANGED <<where, refers, roots, count, fin, finalized, current, hadZero, refused,
                   phase, forced, idle, late>>

-----------------------------------------------------------------------------
(***************************************************************************)
(* The end of the VM                                                       *)
(***************************************************************************)

\* duk_heap_free runs mark-and-sweep three times; the third time finalizers
\* are skipped, it is there to notice which objects have been rescued.
NextPhase == [running |-> "first", first |-> "second", second |-> "skip"]

Destroy ==
    /\ pc = "code" /\ current = Nil
    /\ phase \in DOMAIN NextPhase
    /\ Sweep
    /\ phase' = NextPhase[phase]
    /\ pc' = "process"
    /\ UNCHANGED forced

SkipFinalizer(o) ==
    /\ pc = "process" /\ phase = "skip"
    /\ o \in FinalizeList
    /\ where' = [where EXCEPT ![o] = "heap"]
    /\ count' = [count EXCEPT ![o] = @ - 1]
    /\ UNCHANGED <<refers, roots, fin, finalized, current, hadZero, refused, pc, phase,
                   forced, idle, late>>

\* Mutant of AnotherRound: one round, whatever finalizers make.
AnotherRoundOnce == FALSE

\* The last round ran finalizers, but fewer than the limit.
AnotherRound == 0 < ran /\ ran < limit

\* duk__free_run_finalizers goes through all objects, in rounds: what a
\* finalizer makes is met in the next.  The limit, twice the objects there
\* are at first, falls by a quarter each round.
StartRound ==
    /\ pc = "code" /\ current = Nil
    /\ round = {}
    /\ \/ phase = "skip" /\ limit' = 2 * (Cardinality(Heap) + Builtins)
       \/ phase = "forced" /\ AnotherRound /\ limit' = (3 * limit) \div 4
    /\ phase' = "forced"
    /\ round' = Heap
    /\ ran' = 0
    /\ idle' = {} /\ late' = {}
    /\ UNCHANGED <<where, refers, roots, count, fin, finalized, current, hadZero, refused, pc>>

Visit(o) ==
    /\ phase = "forced" /\ current = Nil
    /\ o \in round
    /\ round' = round \ {o}
    /\ IF o \in fin \ finalized
       THEN /\ current' = o
            /\ count' = [count EXCEPT ![o] = @ + 1]
            /\ finalized' = finalized \cup {o}
            /\ ran' = ran + 1
       ELSE UNCHANGED <<current, count, finalized, ran>>
    /\ UNCHANGED <<where, refers, roots, fin, hadZero, refused, pc, phase, limit, idle, late>>

EndForced ==
    /\ phase = "forced" /\ current # Nil
    /\ current' = Nil
    /\ count' = [count EXCEPT ![current] = @ - 1]
    /\ UNCHANGED <<where, refers, roots, fin, finalized, hadZero, refused, pc, phase,
                   forced, idle, late>>

Gone ==
    /\ where' = [o \in Objects |-> "none"]
    /\ refers' = [o \in Objects |-> {}]
    /\ count' = [o \in Objects |-> 0]
    /\ roots' = {} /\ fin' = {} /\ finalized' = {} /\ idle' = {} /\ late' = {}

Release ==
    /\ phase = "forced" /\ current = Nil
    /\ round = {} /\ ~AnotherRound
    /\ phase' = "dead"
    /\ ran' = 0 /\ limit' = 0
    /\ Gone
    /\ UNCHANGED <<current, hadZero, refused, pc, round>>

-----------------------------------------------------------------------------
Init ==
    /\ where = [o \in Objects |-> "none"]
    /\ refers = [o \in Objects |-> {}]
    /\ roots = {}
    /\ count = [o \in Objects |-> 0]
    /\ fin = {}
    /\ finalized = {}
    /\ current = Nil
    /\ hadZero = FALSE
    /\ refused = FALSE
    /\ pc = "code"
    /\ phase = "running"
    /\ round = {}
    /\ ran = 0 /\ limit = 0
    /\ idle = {} /\ late = {}

Code ==
    \/ \E o \in Objects : New(o)
    \/ \E o \in Accessible : Hold(o) \/ Drop(o) \/ SetFinalizer(o)
    \/ \E o, p \in Accessible : Link(o, p) \/ Unlink(o, p)
    \/ Collect \/ ProcessLater \/ EndFinalizer

Engine ==
    \/ \E o \in Objects : FreeOne(o) \/ StartFinalizer(o) \/ SkipFinalizer(o) \/ Visit(o)
    \/ ProcessDone \/ Destroy \/ StartRound \/ EndForced \/ Release

Next == Code \/ Engine

Spec == Init /\ [][Next]_vars

-----------------------------------------------------------------------------
TypeOK ==
    /\ where \in [Objects -> {"none", "heap", "zero", "due"}]
    /\ refers \in [Objects -> SUBSET Objects]
    /\ roots \subseteq Objects
    /\ count \in [Objects -> Nat]
    /\ fin \subseteq Objects /\ finalized \subseteq Objects
    /\ current \in Objects \cup {Nil}
    /\ hadZero \in BOOLEAN
    /\ refused \in BOOLEAN
    /\ pc \in {"code", "free", "drain", "process"}
    /\ phase \in {"running", "first", "second", "skip", "forced", "dead"}
    /\ round \subseteq Objects
    /\ ran \in Nat /\ limit \in Nat
    /\ idle \subseteq Objects /\ late \subseteq Objects

\* Nothing refers to freed memory: not a variable or stack slot, not the
\* finalizer that runs, not a property of an object that still exists.
NoDangling ==
    /\ roots \subseteq Allocated
    /\ OnStack \subseteq Allocated
    /\ \A o \in Allocated : refers[o] \subseteq Allocated

\* The holders of o: objects, variables, the list and the value stack.
Referrers(o) == {p \in Allocated : o \in refers[p]}

Holders(o) ==
    Cardinality(Referrers(o)) + One(o \in roots) + One(where[o] = "due") + One(o = current)

\* The reference count of an object is the number of its holders, even
\* between two steps of a cascade, a sweep or a finalizer.
CountsExact == \A o \in Allocated : count[o] = Holders(o)

\* Whenever JS code runs, no object without a reference is left over: memory
\* comes back at once unless there is a cycle.
NothingLeftAtZero ==
    JsCode /\ phase # "forced" =>
        RefzeroList = {} /\ \A o \in Heap : count[o] > 0

\* An object that waits for its finalizer has not been finalized yet, and what
\* runs is an object of the list: no finalizer is entered twice.
ListKept ==
    /\ FinalizeList \cap finalized \subseteq OnStack
    /\ OnStack \subseteq finalized
    /\ phase # "forced" => OnStack \subseteq FinalizeList

\* An object is not freed before its finalizer has been tried: called, or
\* refused while a coroutine was current.  The end of the VM is no exception, but
\* for what finalizers make, or give a finalizer, in the last round, when it
\* reaches the limit.
NeverFreedUnfinalized ==
    [][\A o \in fin : o \in Allocated /\ o \notin Allocated' =>
           o \in finalized \/ (o \in late /\ ran >= limit)]_vars

\* The finalizer of an object that mark-and-sweep has finalized is not run again
\* until something has reached the object: what is in use, or an object newly
\* found to be finalized itself.  An object finalized because its count fell to
\* zero, and rescued, makes no such claim: it may be finalized at any time.
FinalizedOnce ==
    [][\A o \in Objects : current' = o /\ current # o /\ phase # "forced" => o \notin idle]_vars

\* To JS code objects are never freed: what it can reach changes by what the
\* code does alone, whatever is collected behind its back.
Seeable == INSTANCE JsGraph WITH known <- Allocated, props <- refers, given <- current

ImplementsGraph == Seeable!Spec

=============================================================================
