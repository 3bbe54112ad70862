# PHPJS in TLA+

PHPJS is a PHP 7 extension that runs JavaScript inside PHP on the Duktape
engine. A PHP script builds objects of class `JS`; each is a JavaScript virtual
machine. JavaScript objects and functions that reach PHP become objects of
`JSObjectWrapper` and `JSFunctionWrapper`; JavaScript code reaches PHP through
the proxy `PHP` (`PHP.$x` is a variable, `PHP.f()` a function). This directory
holds the TLA+ modules that describe the extension, the TLC configurations that
check them on small instances, and proofs checked by TLAPS.

The extension itself is small (`phpjs.c`, `interface.c`, `wrapper.c`,
`objects.c`, `functions.c`, `php_phpjs.h`); the engine is Duktape 2, one vendored
file of 96 801 lines. All of it runs in one thread of the process. What is hard
about it is not concurrency: it is that three parties keep notes about each
other's state by hand (stack indices into Duktape, addresses into a PHP hash
table, reference counts), and that any script may call the methods and release
the objects in any order. Inside the engine it is that three mechanisms free the
same objects and JS code, as finalizers, runs in between, and that call stacks of
coroutines are interleaved with one C stack PHP functions sit on.

## The parts of the system

| Part | State | Operations | Correct when |
|---|---|---|---|
| VMs (`interface.c`) | a Duktape heap and its value stack, a PHP reference count | `__construct`, `evaluate`, `load`, `offsetGet`, `offsetSet`, `__get`, `__set`, `__call`, destruction | a VM is destroyed exactly when nothing needs it; no legal call loses the process |
| Wrappers (`wrapper.c`, `objects.c`, `functions.c`) | VM, index of a stack slot, address of the zval of a VM | creation by `duk_to_zval`, `__get`, `__call`, `__invoke`, release | a wrapper stands for the same JS object until it is released, and releasing it disturbs no other |
| Shared table (`getht`, `phpjs.c:8-16`) | PHP variables by name, and `main_obj`; one for all VMs | `PHP.$x = v`, `PHP.$x`, `$js->x`, the count of every wrapper | a reader sees what was written; addresses kept into it stay valid |
| Conversion (`phpjs.c:189-338`) | none | `duk_to_zval`, `zval_to_duk` | values both languages have keep their meaning |
| PHP functions called from JS (`phpjs.c:340-429`) | a frame of the value stack per call, the pending PHP exception | `duk_get_from_php`, `php_get_function_wrapper` | results and exceptions arrive, once, and arguments are released |
| Errors (`phpjs.c:164-187`) | the pending PHP exception | `duk_php_throw`, `THROW_EXCEPTION` | every JS error becomes one `JSException` and leaves the stack as it was |
| Memory of a VM (`duktape.c`) | objects, their links and counts, the finalize list | reference counting, mark-and-sweep, finalizers, destruction of a heap | nothing refers to freed memory, nothing is forgotten, finalizers are tried first and JS code sees nothing of it |
| Threads of a VM (`duktape.c`) | call stacks, states, who resumed whom, the C stack | calls, errors, `resume`, `yield`, termination | a PHP function always works for the call it was made for; the script can always call again |
| Module start-up, `print`, `proto.php`, build files, the rest of Duktape | none that matters | | not modelled, see below |

How they interact. A PHP method pushes values on the stack of its VM, runs
Duktape in a protected call, converts the result and pops. Converting an object
or a function makes a wrapper: `phpjs_add_duk_context` stores the index of the
slot the object is in, counts a reference on the VM found under `main_obj` in
the shared table, and pushes a second copy so that the caller's pop removes the
copy and leaves the object in its slot. Releasing the wrapper writes `undefined`
to the slot and drops the reference, which may destroy the VM. Errors outside a
protected call end in `duk_fatal_handler`, which returns, after which Duktape
loops forever: the process is lost.

What is hard to test is listed with its line in `PROJECT.json` under `hazards`:
a wrapper whose slot is moved by a later legal call; counts that must balance
whatever the order of releases; the second VM; the table that moves; the stack
that fills; one step of a conversion failing inside another; properties that
raise an error where none is expected; numbers and booleans at the edge of a
type; keys that mean something to JS; finalizers that run inside a cascade, a
collection, or PHP's free handler, with an exception pending; errors and yields
that move between threads while PHP code waits.

## The modules

**`VmWrappers`** is the core: VMs, wrappers, stack slots, reference counts and
the shared table as far as it matters to them. Each action is a whole PHP method
call made by a script at the bottom of the stack, its error paths included; what
the JavaScript code does inside is the environment, and chooses what a call
returns or throws.

| Variable | In the code |
|---|---|
| `vm`, `held`, `refs` | whether a `JS` object is built or destroyed, whether a PHP variable holds it, its Zend reference count |
| `stack`, `limit` | `valstack` of the bottom frame of each heap and `valstack_end`; a push beyond `limit` is an unprotected error |
| `mainObj`, `table`, `cap` | the entry `main_obj`, the other names, and the capacity of `intern_hash`; a new capacity stands for a new address |
| `wrap` | `phpjs_wrap_duk_t`: `ctx`, `idx`, `vm` (with `cap`, the address it was read at), the object it was made for, and who holds the wrapper |
| `mode` | `running`, or why the process is lost: `stackFull`, `badIndex`, `uncaught` (an error of JS code outside any protected call), `undefined` (use of freed memory), `doubleFree` |

| Action | Code |
|---|---|
| `Construct`, `Evaluate`, `Load`, `OffsetGet`, `SetGlobal`, `Call` | the methods of `JS` |
| `SetIntoPhp` | `evaluate` of a script that does `PHP.$n = value` |
| `ObjGet`, `ObjCall`, `Invoke` | the methods of the wrappers |
| `DropVm`, `Free` | `unset` of a variable that holds a VM or a wrapper |

`JS::__get` changes nothing here: it makes a wrapper of the table reachable
(`Reachable`). Every unprotected property access may raise an error (`Trips`): JS code
can make a global read-only, or define a getter or setter that throws.
`phpjs_wrapped_free` frees its block (`wrapper.c:54`) and the engine, whose handlers
know `offset` and `free_obj`, frees it again: each release may end in `doubleFree`, or
go on if the block is not handed out twice. A value is one of a few kinds: an instance
or a function (these are wrapped), a primitive, undefined or null, a plain array or
object (`Hash`), one that holds a wrappable value (`Mixed`), one whose conversion raises
an error (`Unsafe`). The constant `Uses` says which parts of the interface the scripts
of a run exercise, so that a run can show what goes wrong with one and a theorem what
holds without it.

**`ObjectHandles`** is what the wrappers promise, with no stack, index or count:
a handle stands for one object until it is released, and a VM lives exactly as
long as the script holds it or a handle into it. `VmWrappers` implements it
under the mapping `Handled`: the meaning of a handle is what its slot holds now.

**`ShortScripts`** is `VmWrappers` with a counter of the calls a script has made,
to say how many of them a stack has room for. The counter has no bound, so the
module has a theorem and no run.

**`Conversion`** is `duk_to_zval` and `zval_to_duk` on nested values. Its state
is one value that a script sends back and forth (`$js->x = $v;
$v = $js->evaluate('x')`), which leaves nothing on the stack. A value is a tree:
a function from paths, which are sequences of keys, to nodes. Each conversion
copies the tree, renaming the keys and converting the nodes (`ToPhp`, `ToJs`); of
two keys that become one in the copy, either entry may be the one that stays,
since the order of the keys is left out. So are the `length` of an array and JS
code that changes the prototypes every VM has.

What an object is taken for is not up to its type alone. `duk_is_php_object`
reads the property `constructor` (`phpjs.c:204-218`): an entry of that name hides
the inherited one, and an entry `__proto__` sets the prototype it is inherited
from (`phpjs.c:235`). `Taken` says what an object with such an entry may be taken
for, a member of `Readings` chooses for each of them, and `Read` is what the
conversion then gets to see. Containers within each other take slots of the
value stack: `DepthToPhp` and `DepthToJs` of them fit. A value is `Regular` when
it is not deeper than that and has no such key, now or after a crossing.

`Meaning` is the reference: what a value means to both languages.

**`Callbacks`** is what happens when calls nest: PHP code calls JavaScript code,
which calls a PHP function with `PHP.f()`, which calls JavaScript code again. It
has one VM and the wrappers of functions only; how a frame fills up and how VMs
die is left to `VmWrappers`.

| Variable | In the code |
|---|---|
| `frames` | the value stack, cut in the frames of the Duktape/C calls that run PHP code; indices are relative to the top one |
| `running` | whose activation is on top; PHP and JS activations alternate |
| `pending`, `thrown` | `EG(exception)`, and the error Duktape unwinds with |
| `wrap` | index, function, the frame it was made in, and whether a variable, only the arguments of a running call, or nobody can release it |
| `finalizing` | the frames whose PHP code waits for a finalizer that a release has set off |
| `mode` | `running`; `jumped` when a Duktape error has jumped over PHP code; `fatal` |

| Action | Code |
|---|---|
| `Evaluate`, `Call`, `Invoke` | the methods that enter JS code |
| `JsReturns`, `JsFails` | the end of the protected call in them: `duk_to_zval`, or `duk_php_throw`, which fails itself on a thrown value without a stack (`OddErrors`) |
| `CallPhp` | `php_get_function_wrapper` up to the PHP function; an unknown name ends in a JS error, and so does a call while a PHP exception is pending, which the Zend engine refuses (`Callable`) |
| `PhpReturns`, `PhpFails` | the rest of `php_get_function_wrapper` |
| `Drop` | `phpjs_wrapped_free`, also while an exception unwinds the PHP function; the object it lets go may have a finalizer |
| `FinalizerReturns`, `FinalizerFails` | the end of `duk_heap_run_finalizer`, which drops results and errors |
| `JsThrows`, `JsCatches`, `PhpThrows`, `PhpCatches` | the environment |

A wrapper passed as an argument has two references, the variable of the PHP function and
`params[]`; nobody drops the second, hence the holder `arg`. A finalizer starts in
`Drop` only; those that collections start inside other calls of the engine are in
`JsHeap` and `Coroutines`. `CrossFrames` says whether PHP functions use wrappers made
outside them, or keep wrappers when they return. An error keeps its identity through a
crossing; that `duk_safe_to_string` puts the name of its class before the message is
left out.

`Propagate` is the part of it that is not up to the code of a script: handing an
error over at a boundary, ending a finalizer that failed, releasing the variables
of a PHP function that ends. `FairSpec` says that the engines do not stop there.

**`Unwinding`** is what the two error mechanisms promise together, with no
frames and no wrappers: an error leaves the activation it was raised in and then
each one below in turn, unchanged, until one catches it. `Callbacks` implements
it under the mapping `Crossing`, in which a finalizer is part of the activation
that sets it off.

**`Variables`** is what both languages see of each other's variables.
`PHP.$x` and `$js->x` are entries of the one table all VMs share; `$js['x']`, and
an assignment to `$js->x`, are about a global of one VM. Values go through
`ToPhp` and `ToJs`, cut down from `Conversion` to what is told apart here.

| Variable | In the code |
|---|---|
| `built`, `table` | the `JS` objects constructed, and `intern_hash` with `main_obj` |
| `globals`, `attr` | properties of the global object of each heap, and what `Object.defineProperty` made of them |
| `php` | what the script holds in a PHP variable |
| `mode` | `fatal` once an error was raised outside any protected call |
| `assigned` | history: what JS code last assigned to a PHP variable |

`SetIntoPhp` and `GetFromPhp` are the two traps of the proxy, `Get`, `OffsetGet`,
`OffsetSet` (also `__set`) and `Construct` the methods of `JS`; `Assign`, `Define`
and `PhpComputes` are the environment.

**`JsHeap`** is the memory of one VM: objects with links, their counts, the lists
they are on, and finalizers, which are JS code and may do all that JS code may.

| Variable | In the code |
|---|---|
| `where` | the list an object is on: `heap_allocated`, `refzero_list`, `finalize_list` |
| `refers`, `roots` | properties that refer to objects; variables and stack slots |
| `count`, `fin`, `finalized` | `h_refcount`, having a finalizer, the flag `FINALIZED` |
| `current`, `hadZero`, `refused` | the object whose finalizer runs, `had_zero_refcount`, and whether the call was refused because a coroutine was current |
| `pc`, `phase` | the loop of the memory management that is at work; where `duk_heap_free` is |
| `round`, `ran`, `limit` | of `duk__free_run_finalizers`: objects to visit, `count_finalized`, `curr_limit` |
| `idle` | history: objects mark-and-sweep has finalized and nothing has reached since |
| `late` | history: objects made, or given a finalizer, in this round of forced finalizers |

| Action | Code |
|---|---|
| `New`, `Link`, `Unlink`, `Hold`, `Drop`, `SetFinalizer` | what JS code does; a decrement ends in `AfterDecref`, which starts the cascade or the finalizers |
| `FreeOne` | one turn of `duk__refcount_free_pending` |
| `Collect` | `duk_heap_mark_and_sweep`, whenever JS code runs (an allocation may start it), without its finalizers |
| `ProcessLater`, `StartFinalizer`, `EndFinalizer`, `ProcessDone` | `duk_heap_process_finalize_list` |
| `Destroy`, `SkipFinalizer`, `StartRound`, `Visit`, `EndForced`, `Gone`, `Release` | `duk_heap_free`: two collections, one that only empties the list, rounds of forced finalizers, the end |

An object refers to another at most once. A rescue is postponed to a collection
that finds the finalize list empty (`DUK_MS_FLAG_POSTPONE_RESCUE`), as the code
does (`duktape.c:49491-49512`, `49554-49558`). The rounds of forced finalizers end when one
runs none, or as many as the limit, which is twice the number of objects at first
and falls by a quarter each round (`duktape.c:47303-47321`): what finalizers made in
that last round is freed without its own. A finalizer call that is refused
(`duktape.c:64033`) leaves its object with the flag `FINALIZED` (`duktape.c:48629`), and the
object goes like one whose finalizer has run. When `EndFinalizer` frees an object,
all it refers to loses the reference at once; in the code this happens in turn,
each with its cascade, with no JS code in between.

**`JsGraph`** is what JS code may rely on: a graph that only the code changes, from
which the memory management may forget what is out of reach. `JsHeap` implements
it under the mapping `Seeable`.

**`Coroutines`** is the threads of a VM. Each has a call stack, there is one C
stack, and PHP functions are on both. `resume` and `yield` move between call
stacks without a return in C; errors unwind both. Finalizers run at nearly any
point, and always on the main thread: `heap->heap_thread` is what
`duk_create_heap` returns (`duktape.c:16114-16117`) and a JS object keeps. The call is
refused when that thread is in a call but not current (`duktape.c:64033`).

| Variable | In the code |
|---|---|
| `state`, `resumer`, `current` | `thr->state`, `thr->resumer`, `heap->curr_thread` |
| `calls`, `prevent` | activations of each thread, and `callstack_preventcount` |
| `nested` | the C stack: protected calls, executors, native functions, each with the state it has saved to restore |
| `running` | what runs on top of it: native code, JS code, the function of a protected call, the end of a coroutine, an error on its way |
| `known` | the threads that wrappers remember as their `ctx` |

| Action | Code |
|---|---|
| `PhpCalls`, `Finalize` | entries through `duk_handle_safe_call`, by a method or for a finalizer |
| `CallJs`, `Call`, `CallNative` | `duk__handle_call_raw` |
| `NativeReturns`, `ExecutorReturns`, `SafeReturns`, `Return`, `Finish`, `HandOver` | the returns; `Finish` and `HandOver` are the end of a coroutine, between which finalizers may run |
| `Resume`, `Yield` | `duk_bi_thread_resume`, `duk_bi_thread_yield` and their part of `duk__handle_longjmp` |
| `Throw`, `Catch`, `Unwind`, `Rethrow`, `Terminate`, `SafeFails` | an error, and what `duk__handle_longjmp` and `duk__handle_safe_call_error` do about it |
| `NewCoroutine` | a coroutine is collected and its place used again |

Left out: `catch` against `finally`, tail calls, constructor calls, native
functions as finalizers, finalizers that start while the termination of a
coroutine by an error is under way, access to a wrapper of a thread that is not current
outside a protected call, and scripts that use a wrapper of a coroutine after it
was collected.

**`MCVmWrappers`**, **`MCConversion`**, **`MCCallbacks`**, **`MCVariables`** and
**`MCJsHeap`** give the constants their values for TLC. **`VmWrappers_proof`**,
**`VmSlots_proof`** and **`VmSafety_proof`**, each built on the one before,
**`Conversion_proof`**, **`Callbacks_proof`**, **`Variables_proof`**, **`JsHeap_proof`**
and **`Coroutines_proof`** hold the theorems.

## The runs

| Run | Question | Result |
|---|---|---|
| `handles` | one VM, three wrappers, JS code that sets PHP variables to plain values, throws null and makes properties that raise errors: do wrappers keep their meaning, are counts exact, is no stack shortened or filled by more than two slots a call, and is the process lost in the known ways only? | holds, and implements `ObjectHandles` |
| `any_script` | two VMs, every feature in use: are the counts exact until freed memory is used? | holds |
| `crossings` | values of every type, alone, nested in one another, deeper than there is room for, and under `constructor` and `__proto__`, crossing eight times | portable values keep their meaning; of regular values, only those fresh from JS make a conversion fail, and nothing changes after the fifth crossing |
| `nested` | JS code of the script calls a PHP function that runs JS code again, uses the wrappers it made or was passed, and releases them: do the wrappers keep their slots, what can make an error jump over PHP code, is there one error at a time, handed over exactly once, and does one that no code catches reach the script? | holds, and implements `Unwinding`; only a thrown value without a stack jumps; errors arrive if the engines do not stop |
| `variables` | two VMs, a PHP variable, `main_obj` and a global each: can an object get into another VM, can a script or a later VM displace the first one? | no; no |
| `heap` | three objects, linked and dropped by JS code and finalizers, up to the end of the heap: does anything refer to freed memory, is a count off, is an object forgotten, freed before its finalizer was tried or finalized again after its time? | no, but at the end of a heap what the last round of finalizers made; and implements `JsGraph` |
| `coroutines` | two coroutines and the main thread, calls four deep on each and six C calls: do threads, C stack and PHP functions stay in step, whatever errors, yields and finalizers do, and is every error taken in the end? | yes; the last if the handlers of Duktape do not stop |
| `second_vm` | does a wrapper keep its own VM alive? | no: it counts on the first VM ever built |
| `method_result` | does the wrapper of an object a wrapper's method returned hold its object? | no: its index is one beyond the top |
| `table_moves` | is a wrapper safe to release after JS code has set PHP variables? | no: once the table has moved it reads freed memory |
| `set_twice` | does an assignment to `PHP.$x` take effect? | no: the table keeps the first value |
| `outer_wrapper` | does a wrapper made in the script stand for its function inside a PHP function that JS code called? | no: its index is looked up in the frame of the callback |

The last five runs show violations of what the README or a test of the repository
says; `PROJECT.json` quotes the line for each.

Found on the way, with no run of its own:

* `duk_get_number` of a boolean is NaN, which is true in C: a JS variable that is
  `false` reads as `true` in PHP (`phpjs.c:326`). A PHP `false` becomes
  undefined in JavaScript, because `IS_BOOL` (`php_phpjs.h:21`) is
  `IS_FALSE | IS_TRUE`, the number of `IS_TRUE`; an integer beyond 32 bits keeps
  its low bits only (`phpjs.c:247`). `Conversion` has all three.
* An array with the key `constructor` is no longer an array when it comes back
  from JavaScript: `['constructor' => 1]` becomes a wrapper, and
  `['constructor' => false]` an error outside any protected call, because it
  reaches JavaScript as undefined. The key `__proto__` vanishes. `Conversion`
  has both (`Taken`).
* An array nested too deeply fills the value stack in the conversion: three slots
  a level on the way to PHP, one on the way to JavaScript (`phpjs.c:230-239`,
  `301-316`). `Conversion` has this as `stackFull`.
* Every wrapper is freed twice: `phpjs_wrapped_free` ends with `efree(obj)`
  (`wrapper.c:54`), and the engine frees the object again, at the offset the
  handlers name (`objects.c:74-75`, `functions.c:52-53`). The same line is
  commented out in the destructor of `JS` (`interface.c:278`). `VmWrappers` has
  this as `doubleFree`, a possible end of each release.
* `throw null` in JS code hangs the process: `duk_php_throw` reads the property
  `stack` of the value outside any protected call (`phpjs.c:173`). In
  `VmWrappers` this is `ThrowFaults`, for scripts with `oddErrors`. In a PHP
  function that JS code called, the error goes to the protected call below
  and jumps over the PHP engine: `OnlyOddErrorsJump` of `Callbacks`.
* `$js->fnc()` and `$js['XXX']` leave the global object on the stack
  (`interface.c:203`); about sixty of them fill it, and the next push is a fatal
  error. `handles` reaches this as `stackFull`.
* The wrappers of the arguments of a PHP function are never released: `params[]`
  keeps a reference (`phpjs.c:350`). `Callbacks` has them as holder `lost`.
* JavaScript code never gets the result of a PHP function:
  `php_get_function_wrapper` destroys it and returns the top of its frame, which
  is the function itself (`phpjs.c:385-388`).
* `PHP.y = v` without the `$` sets the variable whose name is `y` without its
  first character, here the empty one. What `$js->x = v` writes is a global of
  the VM, which `$js->x` does not read. The `$PHP` of README.md is not defined by
  the code, `PHP` is.
* `$js->x = v` on a property that JS code has made read-only, and `$js['x']` on
  one whose getter throws, hang the process: `Variables` has this as `fatal`,
  `VmWrappers` as `Trips`. So do a getter that `$obj->x` or a call of a method
  meets.
* A finalizer that becomes due while a coroutine is current is never called: the
  flag `FINALIZED` is set (`duktape.c:48629`), then the call on the main thread is
  refused (`duktape.c:64033`). `JsHeap` has this as `refused`.
* In a PHP function that a coroutine has called, methods of the JS object are
  refused with "invalid thread state": the JS object works on the main thread
  (`interface.c:26-27`, `duktape.c:64034`). `Coroutines` shows that the refusal
  leaves everything in order.

### Bounds

* `Reserve`, `Headroom` stand for 64 and 40 slots, `TableSize` for 8 entries. They are
  small so that a full stack and a moving table are reached in a few calls; the code
  compares sizes only, so the numbers themselves do not matter. `Reserve` 4, `Headroom`
  5, `HashNeed` 2 with two wrappers was also run, with the same result.
* `MaxStack` ends a scenario when a stack would get longer. In `handles` a VM that has
  compiled nothing fills its five slots, so the full stack itself is reached; one that
  has compiled has room above.
* Three wrappers: enough for two to share a slot or a VM while a third is made or
  released. Two VMs: the first and any other.
* `MaxArgs = 1`: calls with and without arguments differ in the room they need.
* Also run, with no error, what the theorems say beyond `handles`: two VMs, two
  wrappers, `MaxStack` 3, a table the first variable moves, values whose conversion
  fails, odd errors and properties for `Pinned`, `SlotsDistinct`, `IndicesStayValid`,
  `StackNeverShrinks` and `FillsSlowly`; one VM, three wrappers, `MaxStack` 4, methods
  that return objects, objects in PHP variables, odd errors and properties for
  `NoUseAfterFree` and `VmOutlivesWrappers`; `ShortScripts` with `Reserve` 10 and two
  wrappers, where no stack is full after four calls, as `ShortScriptsFit` says, and the
  fifth may find one full.
* In `Conversion`, 3-bit integers stand for 32-bit ones; the values used lie inside, at
  the edge and outside. Eight crossings are three more than the longest chain of changes
  (function, wrapper, undefined, NULL, false, true). Among the keys are pairs that
  become one: `9` and `"9\0..."`, `1` and `9` modulo 8, `"a"` and `"a\0..."`,
  `"constructor"` and `"constructor\0..."`. `DepthToPhp` 2 and `DepthToJs` 3 keep the
  order of the real limits; the values nest up to four deep.
* `nested`: the script and one PHP function, each with JS code above it, so that an
  error can pass every kind of boundary; four slots of a frame, two wrappers, calls with
  up to two arguments, so that a wrapped argument may precede or follow a plain one; two
  messages, so that one cannot pass for the other, and one thrown value without a stack.
  No symmetry, because of the liveness property. Also run, with no error: three frames
  of three slots; and without liveness, three frames of four slots and two of five,
  where two arguments of a call are wrapped.
* `variables`: two VMs, the first and any other; `main_obj` and one ordinary variable;
  one global, through which a VM passes everything it holds; one plain value. All values
  that differ in type are there.
* `heap`: three objects, each referring to at most one other: cycles of one, two and
  three, chains, and a finalizer that links its object to a live one while a third
  waits. `Builtins = 0`, so that the limit on forced rounds is small enough to be
  reached. Two objects with two links each were also run, with the same result.
* `coroutines`: two coroutines, the least for one that resumes another; four calls on a
  thread hold a PHP function, the executor it started, a JS call and `resume`; six C
  calls hold a PHP function, a finalizer inside it and a PHP function that the finalizer
  calls. No symmetry, because of the liveness property. Both limits, `MaxCalls` and
  `MaxNested`, exist in the code, larger, and are errors of JS code there and here.
  Deadlock is checked: a state of these threads that nothing leaves would be a hang.

### Fairness

A PHP script may stop at any statement and the extension starts nothing of its
own, so scripts and JS code have no fairness. One thing does not depend on them:
an error that is on its way and that no code catches. `FairSpec` asks weak
fairness of `Propagate`, the boundary handing an error over, the end of a
finalizer that failed and the release of the variables of a PHP function that
ends, which are plain sequences of C statements; `EveryErrorArrives` says that an
error ends in a catch block, in the script, or with the process, unless a
finalizer it sets off runs for ever. `FairSpec` of `Coroutines` asks the same of `Handle`,
the handlers inside Duktape (`duk__handle_executor_error` and
`duk__handle_safe_call_error`): each step of theirs takes something off a call stack
or the C stack, and `EveryErrorLands` says that an error in flight is always taken.
A comment at `duktape.c:75981-75984` names the bug this is about, an infinite loop
in the handler. Destruction needs no fairness: a VM is destroyed
in the very step that drops its last reference, which is the invariant
`DestroyedWhenUnheld`, and an object of JS without a reference is gone before JS
code goes on, which is `NothingLeftAtZero`. That cycles are collected some day
is not claimed: it depends on JS code allocating. `CHECK_DEADLOCK FALSE`, where
it is, because scripts end, processes get lost and scenarios reach their bound.

## The proofs

Constants are arbitrary, under `ConstantsAssumption` and `AtomsAssumption`
(sizes are naturals, there are finitely many wrappers, atoms are distinct).

**Counts** (`VmWrappers_proof`). `TypeCorrect`, `RefcountsAreExact` and
`VmsDieUnheld` hold for any number of VMs and wrappers and every script. None
of the three is inductive alone: that a count does not fall below zero needs it
to equal the number of holders, that a wrapper may count on `main_obj` needs the
table to name a VM that was built (`MainObjSet`), and that the VM it counts on
is alive needs `DestroyedWhenUnheld`. `CountInv` is their conjunction and is
inductive. The endings of a method call (`ReturnValue`, `RaiseError`,
`CallProperty`) have a lemma each, and the actions follow from them.

**Slots** (`VmSlots_proof`). `WrappersStayPinned` (`Pinned`) and
`WrappersKeepApart` (`SlotsDistinct`) hold for any number of VMs and wrappers,
under `NoDangling`: no method of a wrapper returns a wrappable value and JS code
stores none in a PHP variable. Without `NoDangling` they are false, as
`method_result` shows. `Pinned` is not inductive: releasing a wrapper that
shared its slot would unpin the other, so it needs `SlotsDistinct`; a new
wrapper differs from the old ones because theirs are below the top, which is
`Pinned`; and a VM being built must have no wrapper yet (`WrappersBorn`).
`SlotInv` is `CountInv` with these three. The lemmas follow the shape of the
code: a step only adds slots (`GrowSlotParts`), adds slots and wraps the one at
the index it takes (`WrapSlotParts`), or moves none (`QuietSlotParts`).

**Lifetimes and losses** (`VmSafety_proof`). `WrappersKeepTheirVm`
(`VmOutlivesWrappers`) holds for every script with one JS object (`OneVm`; with
two it is false, as `second_vm` shows). It follows from `CountInv`, which ties
the VM a wrapper counts on to its being alive.

The process can be lost in five ways, and the question is which programs can
meet which. `StepCause` answers it for all actions at once, under `CountInv`
alone: a step that loses the process has a cause in the state before it
(`Cause`: a stack with too little room; a result or an error that cannot be
converted, or a property that raises an error; a wrapper whose VM is gone, whose
slot is out of range or undefined, or whose address in the table is stale; or the
second release of a wrapper's block, which no program avoids), and every other
step leaves two slots at most on a stack and lowers no limit (`GoesOn`, `Shrinks`).
The theorems take the causes away one by one, without looking at the actions
again:

* `StacksFillSlowly` (`FillsSlowly`): in any program, with any number of VMs, a
  call adds two slots at most, no limit falls, and only a call that finds less
  than `Margin` slots, what one call needs at most, can run out of room.
* `ShortScriptsAreSafe` (`ShortScriptsFit`): in any program no stack is full while
  `2 * calls + Margin <= Reserve + 3`. With the 64 slots of Duktape and a `Margin`
  of 7, which converts flat arrays and passes five values, these are the first
  thirty calls. The invariant `Filling` says that `n` calls leave `2 * n - 1` slots
  and that no limit falls below the reserve. The bound is exact: see Bounds.
* `FreedMemoryIsNotTouched` (`NoUseAfterFree`): one JS object, a table that is
  not moved (`TableFits`: JS code adds no names, or fewer than there is room for;
  otherwise `table_moves` is the counterexample), and no result that holds a
  wrappable value inside, which leaves the conversion with a slot too many.
  Methods may return objects, JS code may store them in PHP variables and throw
  what it likes. The invariant is `TableStays`: every wrapper took its address in
  the table as it still is. The theorem is about slots, VMs and table entries; it
  goes on after a release only where the block of the wrapper, which is
  freed twice, was not handed out twice.
* `IndicesAreValid` (`IndicesStayValid`): any number of JS objects, any results and
  errors, a table that moves, under `NoDangling`; because of `Pinned`.
* `LossesAreKnown` (`FailsAsKnown`): one JS object, `NoDangling`, `TableFits`, and
  no result that cannot be converted. What is left is a full stack, the double free and, if JS
  code makes such errors at all (`oddErrors`, `oddProperties`), an error where
  nothing catches it (`KnownCause`): never a wrong index, a slot that holds
  something else, or memory that is gone.

`StepEffect` says what a step does to slots and wrappers, under `NoDangling`
(`Grows`, `Drops`, `Loses`). `StacksNeverShrink` (`StackNeverShrinks`)
follows from it, for any number of JS objects. `WrappersImplementHandles`
(`ImplementsHandles`) holds
for any one-VM script under `NoDangling`: making a wrapper is making a handle
because its slot holds the object of the result (`Pinned`), no step changes the
meaning of another handle because slots are kept and apart, and the VM goes with
its last holder in the same step (`DestroyedWhenUnheld`).

**Conversion** (`Conversion_proof`). `TypeCorrect` (`TypeOK`), `FreshValuesOnlyFail`
(`OnlyFreshValuesFail`), `PortableValuesSurvive` (`Faithful`) and `ValuesSettle`
(`Settles`) hold for values of any size and any keys, under `ConversionAssumption` and
`InputsAssumption`, and for integers of any width. All but the first are about `Regular`
values, nested as deep as the stack has room for and without the keys that change what
an object is taken for; the others may fail or change at any crossing, as the code has
it. No induction over values is needed, because a value is a function on paths: what
holds of every node and every key holds of the tree. Two facts about paths do need one,
and get it from `LeastNatural`, the least element of a set of naturals, which follows
from a theorem of the library on finite sets. `KeptApart` says that two different paths
that are kept have different copies (at the first key in which they differ, only one
stays), so that `CopyFacts` holds: the copy of a tree is a tree, and each path of it has
one source. `SamePaths` says that a copy in which no key changes has the very paths of
the original.

* `FreshInv`: what was in PHP once has no node that makes a conversion fail, since
  `zval_to_duk` makes only primitives, arrays and plain objects (`Harmless`), and a
  regular value stays regular (`StaysRegular`): its copies are no deeper and have no new
  keys of that kind.
* `AgeInv`, of regular values: every type of node and key has an age, the number of
  crossings that may still change it (`LeafAge`, `NodeAge`, `KeyAge`). A crossing makes
  each part of a copy younger or leaves it at zero (`Older`), and the oldest is five: a
  JS function becomes a wrapper, undefined, NULL, false, true. So from the sixth
  crossing on nothing changes, and nothing can fail.
* `PortableInv`: a portable value has age zero, and the crossing of a value of age zero
  keeps all paths and the meaning of each node.

**Errors** (`Callbacks_proof`). `OneErrorAtATime` (`OneError`) and `ErrorsUnwindInOrder`
(`Callbacks` implements `Unwinding`) hold for any nesting, any wrappers and both values
of `CrossFrames`, under `CallbacksAssumption`. The invariant `NestInv` adds to
`OneError` that there is a frame to work in, that `running` is one of the two languages,
and that a frame whose PHP code waits for a finalizer exists and is not the one PHP code
runs in; each lemma takes the steps that move the depth the same way and shows the
abstract action they are. A step that starts or ends a finalizer is a stutter, or a
`catch` when the finalizer failed while no exception was pending: the depth of the
mapping does not count it. Steps where an error meets no protected call of its own map
to the loss of the process, so the theorem says nothing of what happens after one;
`OnlyOddErrorsJumpOverPhp` says when it can come to that.

**Frames** (`Callbacks_proof`). `TypeCorrect` (`TypeOK`) holds without conditions.
`WrappersKeepTheirFrame` (`PinnedInFrame`), `OnlyOddErrorsJumpOverPhp`
(`OnlyOddErrorsJump`) and `MeaningKeptAtHome` (`MeaningKept`) hold for any depth, any
frames and any wrappers, as long as no wrapper is handed from one PHP function to
another (`~CrossFrames`); `outer_wrapper` shows that the last is false otherwise. As
with slots, `PinnedInFrame` is not inductive: two wrappers must not share a slot of
their frame (`SlotsApart`), and the arguments of a call get slots of their own because
each takes the next one (`Rank`). That no index makes an error jump follows because an
index in range of its own frame is looked up in that frame; what is left is the error of
`duk_php_throw` itself. `PinInv` is the conjunction, with `NestInv`.

**Variables** (`Variables_proof`). `ObjectsStayHome` (`HeapsKeepApart`) and
`MainObjStays` (`MainObjKept`) hold for any number of VMs, variables and globals,
under `VariablesAssumption`. The first rests on one lemma about the conversions
(`Converted`): nothing `zval_to_duk` makes is an object. `MainObjKept` says that the
first VM is entered when it is built and that no step changes the entry after
that; the invariant `MainInv` adds that the entry is there exactly when a VM has
been built (`Entered`): JS code, which could write it first, needs a VM to run in.
`TypeCorrect` (`TypeOK`) adds the attributes of globals (`AttrType`).

**Memory** (`JsHeap_proof`). `TypeCorrect`, `NothingDangles`, `CountsAreExact`,
`ListIsKept`, `NothingIsForgotten`, `FinalizersComeFirst` and `HeapIsAGraph` hold for
any finite number of objects, under `HeapAssumption`. No count can be trusted unless
links and lists are, and a sweep is safe only if counts and marks agree on what is in
use: `IInv` is the conjunction of the four invariants with what the loops keep while
they work. `ZeroListed`: what waits to be freed has no holder and no finalizer due.
`OneRuns` and `DueOnce`: an object whose finalizer runs is on the list, and no other
object there has been finalized. `Phases` and `RoundInv`: during the destruction of the
heap nothing is freed before all has been visited, and what has a finalizer that was not
tried has yet to be visited or is `late`. So `FinalizersComeFirst`
(`NeverFreedUnfinalized`) is exact: a finalizer has been called, or its call refused,
before its object goes, or the last round reached the limit and the object got its
finalizer in it. `NothingIsForgotten` needs one conjunct more, `HeapHeld`: what is
neither listed nor freed has a holder. The step that takes an argument is the sweep: an
object it leaves on the heap has been marked from a root or from another object that
stays, for otherwise the marked objects without it would be closed as well. The
refinement follows from `IInv` because what a collection frees is out of reach of
everything it keeps (`Reach` is the least closed set, and marking starts at the finalize
list too). `FinalizersRunOnce` (`FinalizedOnce`) says that the finalizer of an object
that mark-and-sweep has finalized, and that neither what is in use nor a newly doomed
object has reached since, is not run again before the forced rounds; it makes no claim
for objects finalized because their count fell to zero, whose flag is taken away at
once. It needs `IdleInv`: such an object still has the flag `FINALIZED`, and is not the
one whose finalizer runs; a sweep that takes the flag from a rescued object finds it
reachable, so it is none of these.

**Threads** (`Coroutines_proof`). `TypeCorrect` (`TypeOK`), `CountIsExact`
(`PreventExact`), `ResumersAreWaitedFor` (`ChainsAreSound`), `CallsStayWhereTheyAre`
(`PhpKeepsItsThread`) and `AllCallsEnd` (`BackToRest`) hold for any number of
coroutines and any limits, with no condition but `CoroutinesAssumption`. None of
them is inductive. A yield is safe because the count is exact; the count stays
exact through an error because the C functions that are unwound are the ones
whose calls are cut; these are on the right threads because the chain of
resumers is sound; and the chain is sound because a yield is refused where a C
function would be left behind. `IInv` states all of it at once:

* `Shape` is the types. `Counted` is `prevent` as a function of the call stacks
  and the C stack, which makes `TypeOK` (no count below zero) a consequence.
* `Fitting` is how call stacks and C stack fit: each C function has its call at
  the recorded depth of its thread (`FramesOK`), the thread it was called on is
  the one it will return to, and between two executors lies a chain of threads
  that resumed each other. Which executor runs a resumed thread, and how many
  resumes deep it is there, is in no variable; `Fitting` says that such numbers
  exist, `lvl` and `rank` (`Core`). `Resume` gives the thread it resumes the
  executor of its resumer, and one more rank; all other steps keep the numbers. The
  rank is what rules out threads that wait for each other in a circle.
* `Piled` holds in all states the runs reach, and only the proof shows that it is
  needed: below a call of JS code is another, or the entry of an executor. Without
  it `Return` could leave JS code running on top of a call that is not JS.

Steps that push a call, push a C function, take one back or go forward along a
chain of resumes have lemmas of their own; the actions follow from these, one
by one. `IInv` was checked by TLC first, with `lvl` and `rank` as variables.

**Only model-checked.** Liveness (`EveryErrorArrives`, `EveryErrorLands`), which is
out of the prover's reach. All invariants, action properties and refinements the
passing runs check are theorems.

## What is left

1. `VmWrappers`: streams opened by `load`.
2. `Callbacks`: `load`, `offsetGet` and the methods of `JSObjectWrapper` inside
   a PHP function, with the properties that raise errors; the trap of
   `PHP.$x = value`, which has a frame of its own; finalizers that collections
   start.
3. `JsHeap` with the wrappers of `VmWrappers`: finalizers that hand out wrappers
   while a heap is destroyed.

## Not modelled

* Most of Duktape: lexer, compiler, bytecode executor, builtins, strings,
  regular expressions, property tables, the debugger. It is third-party code,
  95% of the lines here, and the extension uses none of its state but what the
  modules name. Its memory and its threads are modelled because JS code that
  calls PHP runs in the middle of both.
* Class registration, argument descriptions, `print`, `proto.php`, the build
  files, the dead code `dump_object` and `myobject_constructor`: no state.
* What has no outcome but a fault the models have no state for: arguments parsed
  into variables of another width (`int` for `size_t`), the missing second
  argument of `offsetExists`, objects of the two wrapper classes built by the
  script with `new`, a second call of `__construct` on one object, variable
  names of length zero, wrappers of collected coroutines, and what happens at the
  end of a PHP request.
