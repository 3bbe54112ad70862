------------------------------ MODULE Coroutines ------------------------------
(***************************************************************************)
(* The threads of a VM: the main thread, on which the methods of JS work   *)
(* and finalizers run, and the coroutines of JS code.  PHP functions are   *)
(* called on any of them, and a wrapper remembers the thread of the call   *)
(* that made it.                                                           *)
(*                                                                         *)
(* The calls of JS code and the C calls they need are two structures: each *)
(* thread has a call stack of its own, and there is one C stack.  resume   *)
(* and yield move between call stacks without returning from C functions,  *)
(* an error unwinds both, and the PHP engine is in the middle of the C     *)
(* stack.  What keeps them together is the subject here; values, catch     *)
(* blocks and environments are left out.                                   *)
(***************************************************************************)
EXTENDS Integers, Sequences, SequencesExt, FiniteSets

CONSTANTS
    Coroutines,    \* threads made by JS code
    Main,          \* heap->heap_thread: duk_create_heap returns it, a JS object keeps it
    None,          \* NULL
    MaxCalls,      \* limit: calls on the call stack of a thread
    MaxNested      \* limit: C calls inside each other

ASSUME CoroutinesAssumption ==
    /\ MaxCalls \in Nat \ {0} /\ MaxNested \in Nat \ {0}
    /\ Main \notin Coroutines
    /\ None \notin Coroutines \cup {Main}

VARIABLES
    state,         \* the state of each thread
    resumer,       \* the thread that waits in resume()
    calls,         \* the call stack of each thread
    prevent,       \* callstack_preventcount: calls that forbid to yield
    current,       \* heap->curr_thread
    nested,        \* the C stack
    running,       \* what runs on top of the C stack
    known          \* the threads wrappers refer to

vars == <<state, resumer, calls, prevent, current, nested, running, known>>

Threads == Coroutines \cup {Main}

\* A call of a JS function by JS code, one that starts an executor, and calls
\* of native functions: PHP functions and builtins, resume() and yield().
Kinds == {"js", "entry", "native", "resume", "yield"}

\* DUK_ACT_FLAG_PREVENT_YIELD.
PreventsYield(k) == k # "js"

\* A C function keeps the state it found; from: what ran when it was called.
\* "safe" and "finalizer" are protected calls, "exec" is an executor.
Frame(kind, t) ==
    [kind |-> kind, thread |-> t, depth |-> Len(calls[t]),
     current |-> current, state |-> state[t], from |-> running]

Top == Last(nested)

\* longjmp drops the native function that calls it.
Landing(s) == IF s # << >> /\ Last(s).kind = "native" THEN Front(s) ELSE s

Raise == running' = "error" /\ nested' = Landing(nested)

Push(k) == calls' = [calls EXCEPT ![current] = Append(@, k)]
Prevents(n) == prevent' = [prevent EXCEPT ![current] = @ + n]

\* The current thread is in the call that started the executor on top.
AtEntry == current = Top.thread /\ Len(calls[current]) = Top.depth + 1

-----------------------------------------------------------------------------
(***************************************************************************)
(* Calls                                                                   *)
(***************************************************************************)

\* Mutant of Admits: any thread that is not finished may be entered.
AdmitsAny(t) == state[t] # "terminated"

\* duk__call_thread_state_update
Admits(t) == IF t = current THEN state[t] = "running" ELSE state[t] = "inactive"

Entered(t) ==
    IF Admits(t)
    THEN current' = t /\ state' = [state EXCEPT ![t] = "running"]
    ELSE UNCHANGED <<current, state>>

\* A protected call.  A thread that cannot be entered and a C stack that is
\* too deep are errors of the call itself.
Protect(kind, t) ==
    /\ nested' = Append(nested, Frame(kind, t))
    /\ prevent' = [prevent EXCEPT ![t] = @ + 1]
    /\ Entered(t)
    /\ running' = IF Admits(t) /\ Len(nested) < MaxNested THEN "protected" ELSE "error"
    /\ UNCHANGED <<resumer, calls, known>>

\* PHP code calls a method of the JS object or a wrapper.
PhpCalls(t) ==
    /\ running = "native"
    /\ t = Main \/ t \in known
    /\ Protect("safe", t)

Finalizing == \E i \in DOMAIN nested : nested[i].kind = "finalizer"

\* An object is not referred to any more: unless a finalizer runs already its
\* own is called at once, wherever that happens.  The call is on the main
\* thread; it is refused when that one is in a call but not current, and the
\* object goes without.
Finalize ==
    /\ running \in {"native", "js", "protected", "end"}
    /\ ~Finalizing
    /\ Protect("finalizer", Main)

\* Native code calls a JS function: in a protected call, or as a builtin like
\* forEach does.
CallJs ==
    /\ running = "protected" \/ (running = "native" /\ nested # << >>)
    /\ IF Len(calls[current]) >= MaxCalls
       THEN Raise /\ UNCHANGED <<calls, prevent>>
       ELSE /\ Push("entry")
            /\ Prevents(1)
            /\ IF Len(nested) < MaxNested
               THEN running' = "js" /\ nested' = Append(nested, Frame("exec", current))
               ELSE Raise
    /\ UNCHANGED <<state, resumer, current, known>>

\* JS code calls a JS function: the executor on top runs it.
Call ==
    /\ running = "js"
    /\ IF Len(calls[current]) < MaxCalls
       THEN Push("js") /\ UNCHANGED <<nested, running>>
       ELSE Raise /\ UNCHANGED calls
    /\ UNCHANGED <<state, resumer, prevent, current, known>>

\* JS code calls a PHP function or a builtin.
CallNative ==
    /\ running = "js"
    /\ IF Len(calls[current]) >= MaxCalls
       THEN Raise /\ UNCHANGED <<calls, prevent, known>>
       ELSE /\ Push("native")
            /\ Prevents(1)
            /\ IF Len(nested) < MaxNested
               THEN /\ running' = "native"
                    /\ nested' = Append(nested, Frame("native", current))
                    /\ known' = known \cup {current}
               ELSE Raise /\ UNCHANGED known
    /\ UNCHANGED <<state, resumer, current>>

-----------------------------------------------------------------------------
(***************************************************************************)
(* Returns                                                                 *)
(***************************************************************************)

\* Mutant of Restored: the thread keeps the state it has.
RestoredCurrentOnly(f) == current' = f.current /\ UNCHANGED state

\* The state a C function found.
Restored(f) == current' = f.current /\ state' = [state EXCEPT ![f.thread] = f.state]

\* A call returns to C code: duk__handle_call_raw unwinds its activation.
ReturnToC ==
    /\ calls' = [calls EXCEPT ![Top.thread] = Front(@)]
    /\ prevent' = [prevent EXCEPT ![Top.thread] = @ - 1]
    /\ Restored(Top)
    /\ nested' = Front(nested)
    /\ UNCHANGED <<resumer, known>>

NativeReturns ==
    /\ running = "native" /\ nested # << >>
    /\ ReturnToC
    /\ running' = "js"

ExecutorReturns ==
    /\ running = "js" /\ AtEntry
    /\ ReturnToC
    /\ running' = Top.from

\* The function of a protected call returns.
SafeReturns ==
    /\ running = "protected"
    /\ Restored(Top)
    /\ prevent' = [prevent EXCEPT ![Top.thread] = @ - 1]
    /\ nested' = Front(nested)
    /\ running' = Top.from
    /\ UNCHANGED <<resumer, calls, known>>

\* A JS function returns to JS code.
Return ==
    /\ running = "js" /\ ~AtEntry
    /\ Len(calls[current]) > 1
    /\ calls' = [calls EXCEPT ![current] = Front(@)]
    /\ UNCHANGED <<state, resumer, prevent, current, nested, running, known>>

\* A coroutine finishes: resume() is unwound on the other thread, then the
\* coroutine is terminated, which may run finalizers.
Finish ==
    /\ running = "js" /\ ~AtEntry
    /\ Len(calls[current]) = 1
    /\ calls' = [calls EXCEPT ![resumer[current]] = Front(@), ![current] = << >>]
    /\ prevent' = [prevent EXCEPT ![resumer[current]] = @ - 1]
    /\ state' = [state EXCEPT ![current] = "terminated"]
    /\ running' = "end"
    /\ UNCHANGED <<resumer, current, nested, known>>

\* The thread that waits goes on.
HandBack ==
    /\ resumer' = [resumer EXCEPT ![current] = None]
    /\ current' = resumer[current]

HandOver ==
    /\ running = "end"
    /\ HandBack
    /\ state' = [state EXCEPT ![resumer[current]] = "running"]
    /\ running' = "js"
    /\ UNCHANGED <<calls, prevent, nested, known>>

-----------------------------------------------------------------------------
(***************************************************************************)
(* resume and yield                                                        *)
(***************************************************************************)

Room == Len(calls[current]) < MaxCalls /\ Len(nested) < MaxNested

\* A coroutine that has not started has an empty call stack; so has the main
\* thread, but no function to start with.
Resumable(t) == state[t] = "yielded" \/ (state[t] = "inactive" /\ t \in Coroutines)

\* resume() on t is refused, or goes on there: with its first call, with the
\* return of its yield(), or with an error.
Resume(t) ==
    /\ running = "js" /\ Room
    /\ \/ /\ ~Resumable(t)
          /\ Push("resume") /\ Prevents(1)
          /\ Raise
          /\ UNCHANGED <<state, resumer, current>>
       \/ /\ Resumable(t)
          /\ \/ /\ running' = "js"
                /\ IF state[t] = "yielded"
                   THEN /\ calls' = [calls EXCEPT ![current] = Append(@, "resume"), ![t] = Front(@)]
                        /\ prevent' = [prevent EXCEPT ![current] = @ + 1, ![t] = @ - 1]
                   ELSE /\ calls' = [calls EXCEPT ![current] = Append(@, "resume"), ![t] = <<"js">>]
                        /\ Prevents(1)
             \/ running' = "error" /\ Push("resume") /\ Prevents(1)
          /\ resumer' = [resumer EXCEPT ![t] = current]
          /\ state' = [state EXCEPT ![t] = "running", ![current] = "resumed"]
          /\ current' = t
          /\ UNCHANGED nested
    /\ UNCHANGED known

\* Mutant of MayYield: a resumer is enough.
MayYieldAnywhere == resumer[current] # None

\* yield() itself is the only call that forbids it.
MayYield == resumer[current] # None /\ prevent[current] + 1 = 1

\* yield() is refused, or hands a value or an error to the resumer.
Yield ==
    /\ running = "js" /\ Room
    /\ \/ /\ ~MayYield
          /\ Push("yield") /\ Prevents(1)
          /\ Raise
          /\ UNCHANGED <<state, resumer, current>>
       \/ /\ MayYield
          /\ LET r == resumer[current] IN
             /\ \/ /\ running' = "js"
                   /\ calls' = [calls EXCEPT ![current] = Append(@, "yield"), ![r] = Front(@)]
                   /\ prevent' = [prevent EXCEPT ![current] = @ + 1, ![r] = @ - 1]
                \/ running' = "error" /\ Push("yield") /\ Prevents(1)
             /\ state' = [state EXCEPT ![current] = "yielded", ![r] = "running"]
          /\ HandBack
          /\ UNCHANGED nested
    /\ UNCHANGED known

\* A coroutine nobody refers to is collected and another one is made.  It is
\* kept while a protected call made on its behalf will return to it.  A
\* wrapper that referred to it is not used any more.
NewCoroutine(t) ==
    /\ running = "js"
    /\ state[t] \in {"yielded", "terminated"}
    /\ \A i \in DOMAIN nested : nested[i].current # t
    /\ calls' = [calls EXCEPT ![t] = << >>]
    /\ prevent' = [prevent EXCEPT ![t] = 0]
    /\ state' = [state EXCEPT ![t] = "inactive"]
    /\ known' = known \ {t}
    /\ UNCHANGED <<resumer, current, nested, running>>

-----------------------------------------------------------------------------
(***************************************************************************)
(* Errors                                                                  *)
(***************************************************************************)

\* JS code throws, a PHP function ends with an exception, or what a protected
\* call does fails.
Throw ==
    /\ running \in {"js", "protected"} \/ (running = "native" /\ nested # << >>)
    /\ Raise
    /\ UNCHANGED <<state, resumer, calls, prevent, current, known>>

\* The executor on top looks for a catch or finally block, call by call.  A
\* call that started an executor has one only while that executor runs it.
InExecutor == running = "error" /\ Top.kind = "exec"

Catch ==
    /\ InExecutor
    /\ calls[current] # << >>
    /\ Last(calls[current]) = "js" \/ AtEntry
    /\ running' = "js"
    /\ UNCHANGED <<state, resumer, calls, prevent, current, nested, known>>

\* Mutants of Released: the count is left as it is, or JS calls count too.
ReleasedNever(t, d) == 0
ReleasedAll(t, d) == Len(calls[t]) - d

\* How many of the calls of t above depth d prevent a yield.
Released(t, d) == Cardinality({i \in DOMAIN calls[t] : i > d /\ PreventsYield(calls[t][i])})

Unwind ==
    /\ InExecutor
    /\ calls[current] # << >> /\ ~AtEntry
    /\ prevent' = [prevent EXCEPT ![current] = @ - Released(current, Len(calls[current]) - 1)]
    /\ calls' = [calls EXCEPT ![current] = Front(@)]
    /\ UNCHANGED <<state, resumer, current, nested, running, known>>

\* Mutant of Outer: the executor that handles the error is still the one that
\* longjmp returns to.
OuterSame == nested

\* While an executor handles an error, longjmp returns to the C function that
\* called it.
Outer == Front(nested)

\* The error leaves the executor.
Rethrow ==
    /\ InExecutor /\ AtEntry
    /\ nested' = Landing(Outer)
    /\ UNCHANGED <<state, resumer, calls, prevent, current, running, known>>

\* The error leaves the coroutine, which is terminated, and goes on in the
\* thread that waits.
Terminate ==
    /\ InExecutor
    /\ calls[current] = << >> /\ resumer[current] # None
    /\ HandBack
    /\ state' = [state EXCEPT ![current] = "terminated", ![resumer[current]] = "running"]
    /\ UNCHANGED <<calls, prevent, nested, running, known>>

\* A protected call fails: what is above it on its thread is unwound.
SafeFails ==
    /\ running = "error" /\ Top.kind \in {"safe", "finalizer"}
    /\ calls' = [calls EXCEPT ![Top.thread] = SubSeq(@, 1, Top.depth)]
    /\ prevent' = [prevent EXCEPT ![Top.thread] = @ - Released(Top.thread, Top.depth) - 1]
    /\ Restored(Top)
    /\ nested' = Front(nested)
    /\ running' = Top.from
    /\ UNCHANGED <<resumer, known>>

-----------------------------------------------------------------------------
Init ==
    /\ state = [t \in Threads |-> "inactive"]
    /\ resumer = [t \in Threads |-> None]
    /\ calls = [t \in Threads |-> << >>]
    /\ prevent = [t \in Threads |-> 0]
    /\ current = None
    /\ nested = << >>
    /\ running = "native"
    /\ known = {}

Next ==
    \/ \E t \in Threads : PhpCalls(t) \/ Resume(t)
    \/ \E t \in Coroutines : NewCoroutine(t)
    \/ Finalize \/ CallJs \/ Call \/ CallNative
    \/ NativeReturns \/ ExecutorReturns \/ SafeReturns \/ Return \/ Finish \/ HandOver
    \/ Yield
    \/ Throw \/ Catch \/ Unwind \/ Rethrow \/ Terminate \/ SafeFails

\* Any code may stop or run on for ever.
Spec == Init /\ [][Next]_vars

\* An error on its way does not wait: the handlers are C code, and go on until
\* one of them has taken it.
Handle == Unwind \/ Rethrow \/ Terminate \/ SafeFails

FairSpec == Spec /\ WF_vars(Handle)

-----------------------------------------------------------------------------
States == {"inactive", "running", "resumed", "yielded", "terminated"}
Modes == {"native", "js", "protected", "end", "error"}

Frames ==
    [kind : {"safe", "finalizer", "exec", "native"}, thread : Threads, depth : Nat,
     current : Threads \cup {None}, state : States, from : Modes]

TypeOK ==
    /\ state \in [Threads -> States]
    /\ resumer \in [Threads -> Threads \cup {None}]
    /\ calls \in [Threads -> Seq(Kinds)]
    /\ prevent \in [Threads -> Nat]
    /\ current \in Threads \cup {None}
    /\ nested \in Seq(Frames)
    /\ running \in Modes
    /\ known \subseteq Threads

\* The count that forbids to yield is exact on every thread, in whatever way
\* calls ended: it counts the native calls, the executors and the protected
\* calls in progress there.
PreventExact ==
    \A t \in Threads :
        prevent[t] =
            Cardinality({i \in DOMAIN calls[t] : calls[t][i] # "js"})
            + Cardinality({i \in DOMAIN nested :
                nested[i].kind \in {"safe", "finalizer"} /\ nested[i].thread = t})

\* A coroutine that is finishing has left resume() already.
Finishing(t) == state[t] = "terminated" /\ resumer[t] # None

\* Threads that wait do so in resume(), each for one thread, which is running
\* or waits itself; no thread waits for one that yielded or is gone, which
\* would make it wait for ever.
ChainsAreSound ==
    /\ \A t \in Threads : resumer[t] # None =>
          /\ state[t] \in {"running", "resumed"} \/ Finishing(t)
          /\ state[resumer[t]] = "resumed"
          /\ Finishing(t) \/ Last(calls[resumer[t]]) = "resume"
    /\ \A r \in Threads : state[r] = "resumed" =>
          Cardinality({t \in Threads : resumer[t] = r}) = 1

\* The call a C function works for is where the C function left it, on the
\* thread it was given, whatever resume, yield, errors and finalizers did
\* meanwhile; the PHP function on top is the last call of the thread that is
\* current, so that its arguments and its wrappers are those it was given.
PhpKeepsItsThread ==
    /\ \A i \in DOMAIN nested :
          LET f == nested[i] IN
          /\ Len(calls[f.thread]) >= f.depth
          /\ f.kind = "native" => Len(calls[f.thread]) > f.depth /\ calls[f.thread][f.depth + 1] = "native"
          /\ f.kind = "exec" => Len(calls[f.thread]) > f.depth /\ calls[f.thread][f.depth + 1] = "entry"
    /\ running = "native" /\ nested # << >> =>
          /\ current = Top.thread /\ state[current] = "running"
          /\ Len(calls[current]) = Top.depth + 1

\* An error is always taken in the end, by a catch block or by a protected
\* call, however many executors, coroutines and calls it leaves on its way.
EveryErrorLands == running = "error" ~> running # "error"

\* Whatever happened in a call, the PHP script can call again: no thread is
\* left running or waiting, and the main thread is as it was made.
BackToRest ==
    nested = << >> =>
        /\ current = None
        /\ \A t \in Coroutines : state[t] \in {"inactive", "yielded", "terminated"}
        /\ state[Main] = "inactive" /\ calls[Main] = << >> /\ prevent[Main] = 0

=============================================================================
