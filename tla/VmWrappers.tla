------------------------------ MODULE VmWrappers ------------------------------
(***************************************************************************)
(* The PHP objects that stand for JavaScript virtual machines (class JS)   *)
(* and for the JavaScript objects and functions living in them (classes    *)
(* JSObjectWrapper and JSFunctionWrapper).                                 *)
(*                                                                         *)
(* A VM owns a Duktape value stack.  A wrapper does not hold its JS object *)
(* directly: it remembers the index of a slot of that stack in which       *)
(* duk_to_zval left the object, and every method of the wrapper reads that *)
(* slot again.  A wrapper also remembers the address, inside the hash      *)
(* table that all VMs share, of the zval "main_obj", and counts one        *)
(* reference on the VM found there.                                        *)
(*                                                                         *)
(* Each action is a whole PHP method call made by a PHP script at the      *)
(* bottom of the stack; the JS code it runs is the environment, which      *)
(* chooses what it returns or throws.                                      *)
(***************************************************************************)
EXTENDS Integers, Sequences, FiniteSets

CONSTANTS
    VMs,           \* PHP objects of class JS
    Handles,       \* PHP objects of the two wrapper classes
    Instances,     \* JS objects whose constructor is not called "Object"
    Functions,     \* JS functions
    Names,         \* names of the variables JS code sets through the PHP proxy
    Reserve,       \* slots a fresh stack may use (64 in Duktape)
    Headroom,      \* slots a compilation or a failed call adds above the top (40)
    HashNeed,      \* slots the conversion of a plain JS array or object needs
    MaxArgs,       \* bound: slots the PHP values passed to one call take
    TableSize,     \* capacity of the shared hash table when it is created (8)
    MaxStack,      \* bound: scenarios end when a stack would get longer
    Uses           \* what the PHP and JS programs do, see Features

CONSTANTS
    Global,        \* the JS global object
    Undefined,     \* JS undefined or null
    Plain,         \* any other JS primitive
    Hash,          \* a JS array or plain object holding no wrappable value
    Unsafe,        \* an object whose conversion raises an unprotected JS error:
                   \* its constructor is null, or one of its getters throws
    Mixed,         \* a JS array or plain object holding a wrappable value
    Thrown,        \* outcome of a call: an ordinary JS exception
    ThrownNull,    \* outcome of a call: "throw null", or another error whose
                   \* property stack cannot be read
    NoVM, NoHandle

\* The parts of the interface a script may or may not exercise.
Features == { "methodReturnsObject",  \* a method of a wrapper returns a wrappable
              "varHoldsObject",       \* JS stores a wrappable in a PHP variable
              "oddValues",            \* JS code returns Unsafe and Mixed values
              "oddErrors",            \* JS code throws null or undefined
              "oddProperties",        \* JS code makes its variables read-only, or
                                      \* defines getters and setters that throw
              "newVars" }             \* JS sets PHP variables at all

Objs == Instances \cup Functions

ASSUME ConstantsAssumption ==
    /\ Reserve \in Nat /\ Headroom \in Nat /\ HashNeed \in Nat
    /\ MaxArgs \in Nat /\ MaxStack \in Nat
    /\ TableSize \in Nat \ {0}
    /\ Uses \subseteq Features
    /\ IsFiniteSet(Handles)

VARIABLES
    vm,            \* life of each JS object
    held,          \* does a PHP variable still hold the JS object?
    refs,          \* Zend reference count of each JS object
    stack,         \* Duktape value stack of each VM, index 0 first
    limit,         \* valstack_end of each VM: pushing beyond it raises an error
    mainObj,       \* the VM stored under "main_obj" in the shared table
    table,         \* the names JS code has added to the shared table
    cap,           \* capacity of the shared table; it changes when it moves
    wrap,          \* the wrapper objects
    mode           \* "running", or why the process is lost

vars == <<vm, held, refs, stack, limit, mainObj, table, cap, wrap, mode>>

\* What a slot of the stack may hold at the bottom frame.
Values == Objs \cup {Global, Undefined, Plain, Hash}

\* What a property read or a finished script may produce.
Results == Objs \cup {Undefined, Plain, Hash}
             \cup IF "oddValues" \in Uses THEN {Unsafe, Mixed} ELSE {}

\* How a protected call may end.
Throws   == {Thrown} \cup IF "oddErrors" \in Uses THEN {ThrownNull} ELSE {}
Outcomes == Results \cup Throws

\* "var": held by a PHP variable.  "table": held by the shared table only.
\* "lost": the only reference was dropped on the floor.
Holders == {"var", "table", "lost"}

Wrappers == [ctx : VMs, idx : Nat, vm : VMs, cap : Nat, obj : Objs, holder : Holders]

ASSUME AtomsAssumption ==
    /\ Instances \cap Functions = {}
    /\ {Global, Undefined, Plain, Hash, Unsafe, Mixed} \cap Objs = {}
    /\ Undefined \notin {Global, Plain, Hash}
    /\ {Unsafe, Mixed} \cap {Global, Undefined, Plain, Hash} = {}
    /\ {Thrown, ThrownNull} \cap
          (Objs \cup {Global, Undefined, Plain, Hash, Unsafe, Mixed}) = {}
    /\ Thrown # ThrownNull
    /\ NoVM \notin VMs
    /\ NoHandle \notin Wrappers /\ NoHandle \notin [ctx : VMs, obj : Objs]

\* Why a process is lost.  The first three are Duktape errors raised outside any
\* protected call, "uncaught" an error of the JS program; duk_fatal_handler
\* returns and duk_fatal_raw loops forever.  "undefined" is a use of freed
\* memory, and "doubleFree" that of a wrapper freed twice.
Faults == {"stackFull", "badIndex", "uncaught", "undefined", "doubleFree"}

Larger(a, b) == IF a > b THEN a ELSE b

-----------------------------------------------------------------------------
(***************************************************************************)
(* The Duktape stack                                                       *)
(***************************************************************************)

Fits(v, n) == Len(stack[v]) + n <= limit[v]

\* The value a stored index reads in the bottom frame (duk_require_tval).
InRange(v, i) == i < Len(stack[v])
Slot(v, i) == stack[v][i + 1]

\* duk_get_prop_string pushes the key, then the value that replaces it.
PropNeed == 2

\* Slots duk_to_zval pushes above the value it converts: duk_dup keeps a
\* function, duk_is_php_object first reads constructor.name of an object.
ConvertNeed(r) == IF r \in Functions THEN 1
                  ELSE IF r \in Instances \cup {Unsafe} THEN 1 + PropNeed
                  ELSE IF r \in {Hash, Mixed} THEN HashNeed ELSE 0

\* What may go wrong is a set of faults; a step with none goes through.
When(condition, fault) == IF condition THEN {fault} ELSE {}

\* How the conversion of r at index top - 1 can fail.  A wrapper is made on
\* top of the VM in the shared table, which may have been destroyed.
ConvertFaults(top, lim, r) ==
    When(top + ConvertNeed(r) > lim, "stackFull")
      \cup When(r = Unsafe, "uncaught")
      \cup When(r = Mixed, "undefined")
      \cup When(r \in Objs /\ vm[mainObj] # "live", "undefined")

\* How duk_php_throw can fail on the error e at index top - 1: it reads the
\* property "stack" of the error with no protection.
ThrowFaults(top, lim, e) ==
    When(top + PropNeed > lim, "stackFull") \cup When(e = ThrownNull, "uncaught")

\* Mutant of Keep: a method that pops twice.
KeepPopsTwice(base, r) == IF r \in Objs THEN base ELSE SubSeq(base, 1, Len(base) - 1)

\* The stack after the value r pushed on base has been converted and popped
\* once: the pop removes the copy phpjs_add_duk_context pushed, when it did,
\* and the value itself otherwise.
Keep(base, r) == IF r \in Objs THEN Append(base, r) ELSE base

\* Mutants of TopIndex: the index is kept as given, or taken after duk_dup.
TopIndexRaw(base) == -1
TopIndexAfterDup(base) == Len(base) + 1

\* duk_require_normalize_index(ctx, -1) in phpjs_add_duk_context, with the
\* wrapped value on top of base: the index of the value, not of its copy.
TopIndex(base) == Len(base)

-----------------------------------------------------------------------------
(***************************************************************************)
(* Endings of a method call                                                *)
(***************************************************************************)

\* The process is lost in the middle of the call.
Lose(fault) ==
    /\ mode' = fault
    /\ UNCHANGED <<vm, held, refs, stack, limit, mainObj, table, cap, wrap>>

\* Mutant of CountMainObj: the reference is not counted.
CountNothing == refs

\* Z_ADDREF_P on the zval under "main_obj".
CountMainObj == [refs EXCEPT ![mainObj] = @ + 1]

\* phpjs_add_duk_context: h becomes a wrapper of the value at index i of the
\* current frame of v, and counts one reference on the VM in the table.
NewWrapper(v, i, r, holder) ==
    \E h \in Handles :
        /\ wrap[h] = NoHandle
        /\ wrap' = [wrap EXCEPT ![h] = [ctx |-> v, idx |-> i, vm |-> mainObj,
                                        cap |-> cap, obj |-> r, holder |-> holder]]
        /\ refs' = CountMainObj

\* A property is read or written outside any protected call, and what JS code
\* has made of it raises an error.
Trips == "oddProperties" \in Uses /\ Lose("uncaught")

\* duk_to_zval converts r, pushed on base, for the caller of the method,
\* which then leaves the stack as after; lim is the limit in force.
ReturnValue(v, base, lim, r, after) ==
    \/ \E fault \in ConvertFaults(Len(base) + 1, lim, r) : Lose(fault)
    \/ /\ ConvertFaults(Len(base) + 1, lim, r) = {}
       /\ Len(after) <= MaxStack
       /\ IF r \in Objs THEN NewWrapper(v, TopIndex(base), r, "var") ELSE UNCHANGED <<wrap, refs>>
       /\ stack' = [stack EXCEPT ![v] = after]
       /\ limit' = [limit EXCEPT ![v] = lim]
       /\ UNCHANGED <<vm, held, mainObj, table, cap, mode>>

\* duk_php_throw turns the error e, pushed on base, into a JSException and
\* pops it; the method then leaves the stack as after.
RaiseError(v, base, after, lim, e) ==
    \/ \E fault \in ThrowFaults(Len(base) + 1, lim, e) : Lose(fault)
    \/ /\ ThrowFaults(Len(base) + 1, lim, e) = {}
       /\ Len(after) <= MaxStack
       /\ stack' = [stack EXCEPT ![v] = after]
       /\ limit' = [limit EXCEPT ![v] = lim]
       /\ UNCHANGED <<vm, held, refs, mainObj, table, cap, wrap, mode>>

\* A protected call that fails may leave the limit where the JS code had
\* moved it; one that returns puts it back.
LimitAfterFailure(v, top) == {limit[v], Larger(limit[v], top + Headroom)}

\* Mutant of LimitAfterCompile: the limit is set, not raised.
LimitAfterCompileExact(v) == Len(stack[v]) + Headroom

\* A compilation always moves it.
LimitAfterCompile(v) == Larger(limit[v], Len(stack[v]) + Headroom)

-----------------------------------------------------------------------------
(***************************************************************************)
(* Methods of JS                                                           *)
(***************************************************************************)

Running == mode = "running"

\* A script can call a method of v while a variable of it holds v.
Callable(v) == Running /\ held[v]

\* JS::__construct.  The first VM ever built stays in the table: the hash
\* table is never emptied and zend_hash_str_add does not replace.  The table
\* does not count a reference.  duk_php_init leaves the completion value of
\* its script, undefined, in slot 0.
Construct(v) ==
    /\ Running
    /\ vm[v] = "unborn"
    /\ vm' = [vm EXCEPT ![v] = "live"]
    /\ held' = [held EXCEPT ![v] = TRUE]
    /\ refs' = [refs EXCEPT ![v] = 1]
    /\ stack' = [stack EXCEPT ![v] = <<Undefined>>]
    /\ limit' = [limit EXCEPT ![v] = Larger(Reserve, 1 + Headroom)]
    /\ mainObj' = IF mainObj = NoVM THEN v ELSE mainObj
    /\ UNCHANGED <<table, cap, wrap, mode>>

\* JS::evaluate.
Evaluate(v) ==
    /\ Callable(v)
    /\ IF ~Fits(v, 1) THEN Lose("stackFull")
       ELSE \/ \E r \in Results : ReturnValue(v, stack[v], LimitAfterCompile(v), r, Keep(stack[v], r))
            \/ \E e \in Throws : RaiseError(v, stack[v], stack[v], LimitAfterCompile(v), e)

\* JS::load: a file that cannot be opened changes nothing; otherwise the
\* result is converted as in evaluate, but nothing is popped.
Load(v) ==
    /\ Callable(v)
    /\ \/ UNCHANGED vars
       \/ ~Fits(v, 1) /\ Lose("stackFull")
       \/ /\ Fits(v, 1)
          /\ \/ \E r \in Results :
                   ReturnValue(v, stack[v], LimitAfterCompile(v), r, Append(Keep(stack[v], r), r))
             \/ \E e \in Throws : RaiseError(v, stack[v], stack[v], LimitAfterCompile(v), e)

\* JS::offsetGet: the global object stays on the stack.
OffsetGet(v) ==
    LET base == Append(stack[v], Global) IN
    /\ Callable(v)
    /\ IF ~Fits(v, 1 + PropNeed) THEN Lose("stackFull")
       ELSE \/ Trips
            \/ \E r \in Results : ReturnValue(v, base, limit[v], r, Keep(base, r))

\* JS::__set and JS::offsetSet: zval_to_duk pushes the value, with the values
\* inside it on top when it is an array, and duk_put_global_string the global
\* object and the key; all are popped.
SetGlobal(v) ==
    /\ Callable(v)
    /\ \E need \in {1 + PropNeed, MaxArgs} :
          IF ~Fits(v, need) THEN Lose("stackFull") ELSE Trips \/ UNCHANGED vars

\* The last duk_pop of a method that ends with one.
Popped(s, pops) == IF pops THEN SubSeq(s, 1, Len(s) - 1) ELSE s

\* phpjs_php__call on the receiver at the top of base: a property that is no
\* function is popped and reported, a function is called with argc arguments.
\* The caller then pops once more, or not.
CallProperty(v, base, argc, results, pops) ==
    IF Len(base) + PropNeed > limit[v] THEN Lose("stackFull")
    ELSE \/ Trips
         \/ /\ Len(base) <= MaxStack
            /\ stack' = [stack EXCEPT ![v] = Popped(base, pops)]
            /\ UNCHANGED <<vm, held, refs, limit, mainObj, table, cap, wrap, mode>>
         \/ IF Len(base) + 1 + argc > limit[v] THEN Lose("stackFull")
            ELSE \/ \E r \in results :
                       ReturnValue(v, base, limit[v], r, Popped(Keep(base, r), pops))
                 \/ \E e \in Throws, lim \in LimitAfterFailure(v, Len(base)) :
                       RaiseError(v, base, Popped(base, pops), lim, e)

\* JS::__call: nothing removes the global object, whatever happens.
Call(v) ==
    /\ Callable(v)
    /\ IF ~Fits(v, 1) THEN Lose("stackFull")
       ELSE \E argc \in 0 .. MaxArgs : CallProperty(v, Append(stack[v], Global), argc, Results, FALSE)

\* How the trap can fail.  Its frame has slots of its own, and its errors
\* are JS exceptions of the script.
TrapFaults(v, r) ==
    When(~Fits(v, 1), "stackFull")
      \cup When(r = Mixed, "undefined")
      \cup When(r \in Objs /\ vm[mainObj] # "live", "undefined")

\* duk_set_into_php, run by a script that assigns PHP.$n = r and returns a
\* primitive: the value is converted at index 2 of the frame of the trap, and
\* is dropped when the name is taken, which zend_hash_str_add does not tell.
\* A table with no room left moves before the name is added.
SetIntoPhp(v, n, r) ==
    /\ Callable(v)
    /\ "newVars" \in Uses
    /\ r \in Objs => "varHoldsObject" \in Uses
    /\ \/ \E fault \in TrapFaults(v, r) : Lose(fault)
       \/ /\ TrapFaults(v, r) = {} /\ r # Unsafe
          /\ IF r \in Objs
             THEN NewWrapper(v, 2, r, IF n \in table THEN "lost" ELSE "table")
             ELSE UNCHANGED <<wrap, refs>>
          /\ table' = table \cup {n}
          /\ cap' = IF n \notin table /\ 1 + Cardinality(table) = cap THEN 2 * cap ELSE cap
          /\ limit' = [limit EXCEPT ![v] = LimitAfterCompile(v)]
          /\ UNCHANGED <<vm, held, stack, mainObj, mode>>

-----------------------------------------------------------------------------
(***************************************************************************)
(* Methods of the wrappers                                                 *)
(***************************************************************************)

\* A script reaches a wrapper through a variable, or through JS::__get.
Reachable(h) == Running /\ wrap[h] # NoHandle /\ wrap[h].holder \in {"var", "table"}

\* duk_dup(ctx, obj->idx), the first step of every method of a wrapper.
DupFaults(w) ==
    IF vm[w.ctx] # "live" THEN {"undefined"}
    ELSE When(~InRange(w.ctx, w.idx), "badIndex") \cup When(~Fits(w.ctx, 1), "stackFull")

\* The value the wrapper resolves to, and the stack once it is pushed.
Target(w) == Slot(w.ctx, w.idx)
WithTarget(w) == Append(stack[w.ctx], Target(w))

\* duk_get_prop_string on the copy: undefined and null have no properties.
PropFaults(w) ==
    When(~Fits(w.ctx, 1 + PropNeed), "stackFull") \cup When(Target(w) = Undefined, "uncaught")

\* What a method of a JS object may return to the script.
MethodResults == IF "methodReturnsObject" \in Uses THEN Results ELSE Results \ Objs

\* JSObjectWrapper::__get: the object stays on the stack.
ObjGet(h) ==
    LET w == wrap[h]
        base == WithTarget(w) IN
    /\ Reachable(h)
    /\ w.obj \in Instances
    /\ \/ \E fault \in DupFaults(w) : Lose(fault)
       \/ DupFaults(w) = {} /\ \E fault \in PropFaults(w) : Lose(fault)
       \/ /\ DupFaults(w) = {} /\ PropFaults(w) = {}
          /\ \/ Trips
             \/ \E r \in Results : ReturnValue(w.ctx, base, limit[w.ctx], r, Keep(base, r))

\* JSObjectWrapper::__call: its last duk_pop is meant for the object, and
\* meets the copy of the result when the result is wrapped.
ObjCall(h) ==
    LET w == wrap[h] IN
    /\ Reachable(h)
    /\ w.obj \in Instances
    /\ \/ \E fault \in DupFaults(w) : Lose(fault)
       \/ DupFaults(w) = {} /\ \E fault \in PropFaults(w) : Lose(fault)
       \/ /\ DupFaults(w) = {} /\ PropFaults(w) = {}
          /\ \E argc \in 0 .. MaxArgs :
                CallProperty(w.ctx, WithTarget(w), argc, MethodResults, TRUE)

\* JSFunctionWrapper::__invoke passes no argument on.  A slot that no longer
\* holds a function makes the protected call fail.
Invoke(h) ==
    LET w == wrap[h] IN
    /\ Reachable(h)
    /\ w.obj \in Functions
    /\ \/ \E fault \in DupFaults(w) : Lose(fault)
       \/ /\ DupFaults(w) = {} /\ Target(w) \in Functions
          /\ \E r \in Results :
                ReturnValue(w.ctx, stack[w.ctx], limit[w.ctx], r, Keep(stack[w.ctx], r))
       \/ /\ DupFaults(w) = {}
          /\ \E e \in Throws, lim \in LimitAfterFailure(w.ctx, Len(stack[w.ctx])) :
                RaiseError(w.ctx, stack[w.ctx], stack[w.ctx], lim, e)

-----------------------------------------------------------------------------
(***************************************************************************)
(* The end of PHP objects                                                  *)
(***************************************************************************)

\* Mutant of DropReference: the count falls, nobody looks whether it is zero.
DropReferenceOnly(v, stacks) ==
    /\ refs' = [refs EXCEPT ![v] = @ - 1]
    /\ vm' = vm
    /\ stack' = stacks

\* The Zend engine drops one reference on v, and at zero runs
\* php_js_free_storage, which destroys the heap of v and its stack.
DropReference(v, stacks) ==
    /\ refs' = [refs EXCEPT ![v] = @ - 1]
    /\ vm' = IF refs[v] = 1 THEN [vm EXCEPT ![v] = "destroyed"] ELSE vm
    /\ stack' = IF refs[v] = 1 THEN [stacks EXCEPT ![v] = << >>] ELSE stacks

\* A script unsets the variable that holds a JS object.
DropVm(v) ==
    /\ Callable(v)
    /\ held' = [held EXCEPT ![v] = FALSE]
    /\ DropReference(v, stack)
    /\ UNCHANGED <<limit, mainObj, table, cap, wrap, mode>>

\* Mutant of FreeFaults: the VM is dropped before the slot is written.
FreeFaultsVmFirst(w) ==
    IF w.cap # cap \/ vm[w.vm] # "live" \/ vm[w.ctx] # "live" \/ (w.vm = w.ctx /\ refs[w.vm] = 1)
    THEN {"undefined"}
    ELSE When(~InRange(w.ctx, w.idx), "badIndex")

\* phpjs_wrapped_free writes the slot of the wrapper first and drops its VM
\* afterwards, through the address it took when it was made.  What follows from
\* the wrapper's own block being freed twice is in Free.
FreeFaults(w) ==
    IF vm[w.ctx] # "live" THEN {"undefined"}
    ELSE IF ~InRange(w.ctx, w.idx) THEN {"badIndex"}
    ELSE When(w.cap # cap \/ vm[w.vm] # "live", "undefined")

\* Mutant of Cleared: the top of the stack is cleared instead of the slot.
ClearedTop(w) == [stack EXCEPT ![w.ctx][Len(stack[w.ctx])] = Undefined]

\* duk_to_undefined(obj->ctx, obj->idx).
Cleared(w) == [stack EXCEPT ![w.ctx][w.idx + 1] = Undefined]

\* A script unsets the variable that holds a wrapper.  phpjs_wrapped_free ends
\* with efree(obj), and the engine, whose handlers know offset and free_obj,
\* frees the block once more.  The allocator does not notice: either the block
\* is never handed out twice, or anything may happen.
Free(h) ==
    LET w == wrap[h] IN
    /\ Running
    /\ w # NoHandle
    /\ w.holder = "var"
    /\ \/ \E fault \in FreeFaults(w) : Lose(fault)
       \/ FreeFaults(w) = {} /\ Lose("doubleFree")
       \/ /\ FreeFaults(w) = {}
          /\ wrap' = [wrap EXCEPT ![h] = NoHandle]
          /\ DropReference(w.vm, Cleared(w))
          /\ UNCHANGED <<held, limit, mainObj, table, cap, mode>>

-----------------------------------------------------------------------------
Init ==
    /\ vm = [v \in VMs |-> "unborn"]
    /\ held = [v \in VMs |-> FALSE]
    /\ refs = [v \in VMs |-> 0]
    /\ stack = [v \in VMs |-> << >>]
    /\ limit = [v \in VMs |-> 0]
    /\ mainObj = NoVM
    /\ table = {}
    /\ cap = TableSize
    /\ wrap = [h \in Handles |-> NoHandle]
    /\ mode = "running"

VmStep(v) ==
    \/ Construct(v) \/ Evaluate(v) \/ Load(v) \/ OffsetGet(v) \/ SetGlobal(v) \/ Call(v)
    \/ \E n \in Names, r \in Results : SetIntoPhp(v, n, r)
    \/ DropVm(v)

WrapperStep(h) == ObjGet(h) \/ ObjCall(h) \/ Invoke(h) \/ Free(h)

Next == (\E v \in VMs : VmStep(v)) \/ (\E h \in Handles : WrapperStep(h))

\* A PHP script is free to stop at any step: there is no fairness.
Spec == Init /\ [][Next]_vars

-----------------------------------------------------------------------------
(***************************************************************************)
(* Correctness                                                             *)
(***************************************************************************)

TypeOK ==
    /\ vm \in [VMs -> {"unborn", "live", "destroyed"}]
    /\ held \in [VMs -> BOOLEAN]
    /\ refs \in [VMs -> Nat]
    /\ stack \in [VMs -> Seq(Values)]
    /\ limit \in [VMs -> Nat]
    /\ mainObj \in VMs \cup {NoVM}
    /\ table \in SUBSET Names
    /\ cap \in Nat \ {0}
    /\ wrap \in [Handles -> Wrappers \cup {NoHandle}]
    /\ mode \in {"running"} \cup Faults

Live(h) == wrap[h] # NoHandle

\* The table names a VM from the first construction on.
MainObjSet == \A v \in VMs : vm[v] # "unborn" => mainObj \in VMs

\* The wrappers that count a reference on v.
Owners(v) == {h \in Handles : Live(h) /\ wrap[h].vm = v}

\* The reference count of every JS object is the number of its holders: the
\* script's variable and the wrappers that took it from the shared table.
\* A miscount destroys a VM early or never (wrapper.c counts by hand).
RefcountExact ==
    \A v \in VMs : refs[v] = Cardinality(Owners(v)) + (IF held[v] THEN 1 ELSE 0)

\* A JS object is destroyed exactly when its last holder is gone.
DestroyedWhenUnheld ==
    \A v \in VMs : vm[v] = "live" <=> refs[v] > 0

\* The invariant the proofs about reference counts rest on.
CountInv == TypeOK /\ MainObjSet /\ RefcountExact /\ DestroyedWhenUnheld

\* As long as a wrapper and the VM of its object live, its slot holds the object it was made for:
\* no method overwrites, pops or shifts a slot another object relies on.
Pinned ==
    \A h \in Handles :
        Live(h) /\ vm[wrap[h].ctx] = "live" =>
            InRange(wrap[h].ctx, wrap[h].idx) /\ Target(wrap[h]) = wrap[h].obj

\* A wrapper is made in a VM that exists.
WrappersBorn == \A h \in Handles : Live(h) => vm[wrap[h].ctx] # "unborn"

\* Releasing one wrapper cannot clear the slot of another.
SlotsDistinct ==
    \A g, h \in Handles :
        g # h /\ Live(g) /\ Live(h) /\ wrap[g].ctx = wrap[h].ctx
           => wrap[g].idx # wrap[h].idx

\* The invariant the proofs about slots rest on.
SlotInv == CountInv /\ WrappersBorn /\ Pinned /\ SlotsDistinct

\* No method, and no release in any order, goes through a slot, a VM or an
\* entry of the shared table that is gone.  (The wrapper's own block, which
\* every release frees twice, is the fault "doubleFree".)
NoUseAfterFree == mode # "undefined"

\* The index of a wrapper is in range whenever duk_dup or duk_to_undefined
\* takes it: none of the two raises an error outside a protected call.
IndicesStayValid == mode # "badIndex"

\* A wrapper keeps the VM its slot is in alive, not just some VM.
VmOutlivesWrappers ==
    \A h \in Handles : Live(h) => vm[wrap[h].ctx] = "live"

\* What a program with one VM, whose JS values are ordinary, may lose the process
\* by: a stack with no room, the block of a wrapper freed twice, and an error of
\* JS code at a place where none is expected, if the code makes such errors at
\* all.  It is never a wrong index, a slot that holds something else, or memory
\* that is gone.
KnownFaults ==
    {"stackFull", "doubleFree"}
      \cup When({"oddErrors", "oddProperties"} \cap Uses # {}, "uncaught")

FailsAsKnown == mode \in {"running"} \cup KnownFaults

\* No method removes a slot it found on the stack: what the script holds by
\* index stays where it is until the VM is destroyed.
StackNeverShrinks ==
    [][\A v \in VMs : vm[v] = "live" /\ vm'[v] = "live" => Len(stack'[v]) >= Len(stack[v])]_vars

\* The slots a method may need above those it finds: the global object or
\* the object of a wrapper, the result, and the work of converting it, or
\* the arguments.
Margin == 2 + Larger(1 + PropNeed, Larger(HashNeed, MaxArgs))

\* A stack may have no room for the next call.
NoRoom == \E v \in VMs : vm[v] = "live" /\ limit[v] < Len(stack[v]) + Margin

\* A stack fills by two slots a call at most, its limit never falls, and only a
\* call that may find too little room runs out of it: no sequence of calls and
\* errors, however unlucky, fills a stack in one go.
FillsSlowly ==
    [][/\ \A v \in VMs : vm[v] = "live" =>
             Len(stack'[v]) <= Len(stack[v]) + 2 /\ limit[v] <= limit'[v]
       /\ mode' = "stackFull" /\ mode # "stackFull" => NoRoom]_vars

\* What each handle resolves to through its slot, right now.
Meaning ==
    [h \in Handles |->
        IF wrap[h] = NoHandle THEN NoHandle
        ELSE [ctx |-> wrap[h].ctx,
              obj |-> IF InRange(wrap[h].ctx, wrap[h].idx) THEN Target(wrap[h]) ELSE Undefined]]

Handled == INSTANCE ObjectHandles WITH
    life <- vm, owned <- held, means <- Meaning, lost <- mode # "running"

\* The stack slots and the hand-made reference counts implement handles that
\* keep their meaning and VMs that live exactly as long as they are needed.
ImplementsHandles == Handled!Spec

=============================================================================
