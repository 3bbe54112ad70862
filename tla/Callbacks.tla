------------------------------ MODULE Callbacks ------------------------------
(***************************************************************************)
(* Calls that nest: PHP code calls a JavaScript function, which calls a    *)
(* PHP function through PHP.f(), which calls JavaScript again.             *)
(*                                                                         *)
(* Activations alternate between the languages.  Every PHP activation      *)
(* works in a frame of the value stack of its own: the script in the       *)
(* bottom frame, a PHP function in the frame of the Duktape/C call that    *)
(* runs php_get_function_wrapper.  Stack indices are relative to the frame *)
(* that is current.                                                        *)
(*                                                                         *)
(* When PHP code drops a wrapper, an object of the JS heap may die of it;  *)
(* its finalizer is a JS activation too, but one whose result and errors   *)
(* nobody waits for.                                                       *)
(*                                                                         *)
(* There is one VM, and the wrappers are those of functions; how a single  *)
(* frame fills up and how VMs die is the subject of VmWrappers.            *)
(***************************************************************************)
EXTENDS Integers, Sequences, FiniteSets

CONSTANTS
    Handles,       \* PHP objects of class JSFunctionWrapper
    Functions,     \* JS functions
    Errors,        \* error messages
    OddErrors,     \* thrown values that have no property "stack" to read: null,
                   \* undefined, an object with a getter that throws
    CrossFrames,   \* do wrappers leave the PHP function that received them?
    MaxArgs,       \* bound: arguments JS code passes to a PHP function
    MaxFrames,     \* bound: nested frames
    MaxSlots       \* bound: slots of a frame

CONSTANTS
    Global,        \* the JS global object
    Undefined, Plain,
    Self,          \* the Duktape/C function that stands for a PHP function
    None, NoHandle

ASSUME CallbacksAssumption ==
    /\ MaxArgs \in Nat /\ MaxFrames \in Nat /\ MaxSlots \in Nat
    /\ CrossFrames \in BOOLEAN
    /\ None \notin Errors \cup OddErrors
    /\ Errors \cap OddErrors = {}

VARIABLES
    frames,        \* the frames of the value stack, bottom first
    running,       \* "php" or "js": whose activation is on top
    pending,       \* EG(exception): the PHP exception on its way
    thrown,        \* the JS error on its way
    finalizing,    \* the frames whose PHP code waits for a finalizer
    wrap,          \* the wrappers
    mode           \* "running", or how the process was lost

vars == <<frames, running, pending, thrown, finalizing, wrap, mode>>

Values == Functions \cup {Global, Undefined, Plain, Self}

\* at: the frame the wrapper was made in, 0 once that frame is gone.
\* "arg" is an argument, which has a second reference nobody drops.
Wrappers == [at : Nat, idx : Nat, fn : Functions, holder : {"var", "arg", "lost"}]

Depth == Len(frames)
Frame == frames[Depth]
WithFrame(s) == [frames EXCEPT ![Depth] = s]

\* PHP or JS code that can take its next step.
Php == mode = "running" /\ running = "php" /\ pending = None
Js  == mode = "running" /\ running = "js" /\ thrown = None

\* Code with an error on its way.
PhpUnwinds == mode = "running" /\ running = "php" /\ pending # None
JsUnwinds  == mode = "running" /\ running = "js" /\ thrown # None

\* The JS activation on top is a finalizer.
InFinalizer == running = "js" /\ Depth \in finalizing

Free(h) == wrap[h] = NoHandle

\* A PHP function gets hold of a wrapper it made or was passed, and of any
\* other one through a variable both functions see.
Usable(h) ==
    /\ ~Free(h)
    /\ wrap[h].holder \in {"var", "arg"}
    /\ wrap[h].at = Depth \/ CrossFrames

-----------------------------------------------------------------------------
(***************************************************************************)
(* From PHP to JavaScript                                                  *)
(***************************************************************************)

\* JS::evaluate: the script is a JS activation.
Evaluate ==
    /\ Php
    /\ running' = "js"
    /\ UNCHANGED <<frames, pending, thrown, finalizing, wrap, mode>>

\* JS::__call: the global object stays in the frame.  A property that is no
\* function is reported as an exception.
Call ==
    /\ Php
    /\ Len(Frame) < MaxSlots
    /\ frames' = WithFrame(Append(Frame, Global))
    /\ \/ running' = "js" /\ UNCHANGED pending
       \/ pending' \in Errors /\ UNCHANGED running
    /\ UNCHANGED <<thrown, finalizing, wrap, mode>>

\* A JS error where nothing in this frame expects one, an index out of range to
\* begin with: it unwinds to the protected call that runs JS code below and
\* jumps over the PHP engine on the way.  In the bottom frame it is fatal.
Uncaught ==
    /\ mode' = IF Depth > 1 THEN "jumped" ELSE "fatal"
    /\ UNCHANGED <<frames, running, pending, thrown, finalizing, wrap>>

\* JSFunctionWrapper::__invoke calls what the index finds in this frame.
Invoke(h) ==
    LET i == wrap[h].idx IN
    /\ Php
    /\ Usable(h)
    /\ \/ i >= Len(Frame) /\ Uncaught
       \/ /\ i < Len(Frame) /\ Frame[i + 1] \in Functions
          /\ running' = "js"
          /\ UNCHANGED <<frames, pending, thrown, finalizing, wrap, mode>>
       \/ /\ i < Len(Frame) /\ Frame[i + 1] \notin Functions
          /\ pending' \in Errors
          /\ UNCHANGED <<frames, running, thrown, finalizing, wrap, mode>>

\* Mutant of ResultIndex: taken after duk_dup.
ResultIndexAfterDup(s) == Len(s) + 1

\* The slot of a result pushed on s.
ResultIndex(s) == Len(s)

\* The JS function returns: a function among its results is wrapped, and the
\* copy that stays in the frame is the slot of the wrapper.
JsReturns(r) ==
    /\ Js /\ ~InFinalizer
    /\ running' = "php"
    /\ IF r \in Functions
       THEN /\ Len(Frame) < MaxSlots
            /\ frames' = WithFrame(Append(Frame, r))
            /\ \E h \in Handles :
                  /\ Free(h)
                  /\ wrap' = [wrap EXCEPT ![h] =
                        [at |-> Depth, idx |-> ResultIndex(Frame), fn |-> r, holder |-> "var"]]
       ELSE UNCHANGED <<frames, wrap>>
    /\ UNCHANGED <<pending, thrown, finalizing, mode>>

\* JS code throws, or catches what was thrown.
JsThrows ==
    /\ Js
    /\ thrown' \in Errors \cup OddErrors
    /\ UNCHANGED <<frames, running, pending, finalizing, wrap, mode>>

JsCatches ==
    /\ JsUnwinds
    /\ thrown' = None
    /\ UNCHANGED <<frames, running, pending, finalizing, wrap, mode>>

\* The protected call fails: duk_php_throw makes a JSException of the error,
\* and first reads its property "stack", outside any protected call.
JsFails ==
    /\ JsUnwinds /\ ~InFinalizer
    /\ \/ thrown \in OddErrors /\ Uncaught
       \/ /\ thrown \notin OddErrors
          /\ running' = "php"
          /\ thrown' = None
          /\ pending' = thrown
          /\ UNCHANGED <<frames, finalizing, wrap, mode>>

\* A finalizer ends, with an error or without: duk_heap_run_finalizer drops
\* both, and the PHP code that released the wrapper goes on.
FinalizerEnds ==
    /\ running' = "php"
    /\ finalizing' = finalizing \ {Depth}
    /\ thrown' = None
    /\ UNCHANGED <<frames, pending, wrap, mode>>

FinalizerReturns == Js /\ InFinalizer /\ FinalizerEnds
FinalizerFails   == JsUnwinds /\ InFinalizer /\ FinalizerEnds

-----------------------------------------------------------------------------
(***************************************************************************)
(* From JavaScript to PHP                                                  *)
(***************************************************************************)

\* Mutants of ArgIndex: relative to the top, or counted from one.
ArgIndexFromTop(i) == -i
ArgIndexFromOne(i) == i

\* duk_to_zval is given the position of the argument in the new frame.
ArgIndex(i) == i - 1

\* The positions of the arguments that get a wrapper.
Wrapped(args) == {i \in 1 .. Len(args) : args[i] \in Functions}

\* How many arguments have been wrapped when the i-th has been converted.
Rank(args, i) == Cardinality({j \in Wrapped(args) : j <= i})

\* The copies duk_dup makes of the wrapped arguments, one after the other.
Copies(args) ==
    [k \in 1 .. Cardinality(Wrapped(args)) |->
        args[CHOOSE i \in Wrapped(args) : Rank(args, i) = k]]

\* The frame once the arguments are converted and the name of the PHP
\* function is read: arguments, a copy of each wrapped one, the function.
NewFrame(args) == args \o Copies(args) \o <<Self>>

\* The wrappers of the arguments; pick says which handle stands for which.
WrapArgs(args, pick, at, holder) ==
    [h \in Handles |->
        IF \E i \in Wrapped(args) : pick[i] = h
        THEN LET i == CHOOSE i \in Wrapped(args) : pick[i] = h IN
             [at |-> at, idx |-> ArgIndex(i), fn |-> args[i], holder |-> holder]
        ELSE wrap[h]]

Picks(args) ==
    {pick \in [Wrapped(args) -> {h \in Handles : Free(h)}] :
        \A i, j \in Wrapped(args) : i # j => pick[i] # pick[j]}

\* Mutant of Callable: the pending exception is not looked at.
CallableAnyway == TRUE

\* The PHP engine calls nobody while an exception is pending.
Callable == pending = None

\* php_get_function_wrapper, up to the call of the PHP function.  A name PHP
\* does not know, or a refusal, is a JS error; the arguments are converted by
\* then.
CallPhp(args) ==
    /\ Js
    /\ Depth < MaxFrames
    /\ Len(NewFrame(args)) <= MaxSlots
    /\ \E pick \in Picks(args) :
          \/ /\ Callable
             /\ running' = "php"
             /\ frames' = Append(frames, NewFrame(args))
             /\ wrap' = WrapArgs(args, pick, Depth + 1, "arg")
             /\ UNCHANGED thrown
          \/ /\ thrown' \in Errors
             /\ wrap' = WrapArgs(args, pick, 0, "lost")
             /\ UNCHANGED <<running, frames>>
    /\ UNCHANGED <<pending, finalizing, mode>>

\* The wrappers of the frame that ends: the function releases its variables
\* first, except those it keeps elsewhere.  Arguments are lost.
EndFrame(kept) ==
    /\ kept \subseteq {h \in Handles : Usable(h) /\ wrap[h].at = Depth}
    /\ kept # {} => CrossFrames
    /\ \A h \in Handles : ~Free(h) /\ wrap[h].at = Depth /\ wrap[h].holder = "var" => h \in kept
    /\ wrap' = [h \in Handles |->
                  IF Free(h) \/ wrap[h].at # Depth THEN wrap[h]
                  ELSE [wrap[h] EXCEPT !.at = 0, !.holder = IF h \in kept THEN @ ELSE "lost"]]
    /\ frames' = SubSeq(frames, 1, Depth - 1)
    /\ running' = "js"

\* The PHP function returns.  Its result is dropped: JS code gets what is on
\* top of the frame.
PhpReturns ==
    /\ Php
    /\ Depth > 1
    /\ \E kept \in SUBSET Handles : EndFrame(kept)
    /\ UNCHANGED <<pending, thrown, finalizing, mode>>

\* PHP code throws, or catches an exception.
PhpThrows ==
    /\ Php
    /\ pending' \in Errors
    /\ UNCHANGED <<frames, running, thrown, finalizing, wrap, mode>>

PhpCatches ==
    /\ PhpUnwinds
    /\ pending' = None
    /\ UNCHANGED <<frames, running, thrown, finalizing, wrap, mode>>

\* Mutant of ClearException: the exception stays pending.
ExceptionStays == pending

\* EG(exception) = NULL.
ClearException == None

\* An exception leaves the PHP function: its message is thrown as a JS error
\* and the exception is cleared.
PhpFails ==
    /\ PhpUnwinds
    /\ Depth > 1
    /\ \E kept \in SUBSET Handles : EndFrame(kept)
    /\ thrown' = pending
    /\ pending' = ClearException
    /\ UNCHANGED <<finalizing, mode>>

\* PHP code drops a wrapper, also while an exception leaves the function.  An
\* argument keeps its second reference; of any other the index is written in
\* the current frame, and what was there may die of it and be finalized.
Drop(h) ==
    LET w == wrap[h] IN
    /\ Php \/ PhpUnwinds
    /\ Usable(h)
    /\ \/ /\ w.holder = "arg"
          /\ wrap' = [wrap EXCEPT ![h].holder = "lost"]
          /\ UNCHANGED <<frames, running, pending, thrown, finalizing, mode>>
       \/ w.holder = "var" /\ w.idx >= Len(Frame) /\ Uncaught
       \/ /\ w.holder = "var" /\ w.idx < Len(Frame)
          /\ wrap' = [wrap EXCEPT ![h] = NoHandle]
          /\ frames' = WithFrame([Frame EXCEPT ![w.idx + 1] = Undefined])
          /\ \/ UNCHANGED <<running, finalizing>>
             \/ running' = "js" /\ finalizing' = finalizing \cup {Depth}
          /\ UNCHANGED <<pending, thrown, mode>>

-----------------------------------------------------------------------------
Arguments == UNION {[1 .. n -> Functions \cup {Plain}] : n \in 0 .. MaxArgs}

\* duk_php_init left undefined in slot 0.
Init ==
    /\ frames = << <<Undefined>> >>
    /\ running = "php"
    /\ pending = None
    /\ thrown = None
    /\ finalizing = {}
    /\ wrap = [h \in Handles |-> NoHandle]
    /\ mode = "running"

PhpStep ==
    \/ Evaluate \/ Call \/ PhpReturns \/ PhpThrows \/ PhpCatches \/ PhpFails
    \/ \E h \in Handles : Invoke(h) \/ Drop(h)

JsStep ==
    \/ \E r \in Functions \cup {Plain} : JsReturns(r)
    \/ \E args \in Arguments : CallPhp(args)
    \/ JsThrows \/ JsCatches \/ JsFails \/ FinalizerReturns \/ FinalizerFails

Next == PhpStep \/ JsStep

\* Code of either language may stop or run on for ever.
Spec == Init /\ [][Next]_vars

\* The engines do not stop while an error is on its way that nobody catches:
\* the activation on top ends, after PHP has released its variables.
Propagate ==
    JsFails \/ FinalizerFails \/ PhpFails \/ (PhpUnwinds /\ \E h \in Handles : Drop(h))

FairSpec == Spec /\ WF_vars(Propagate)

-----------------------------------------------------------------------------
TypeOK ==
    /\ frames \in Seq(Seq(Values)) /\ Depth >= 1
    /\ running \in {"php", "js"}
    /\ pending \in Errors \cup {None}
    /\ thrown \in Errors \cup OddErrors \cup {None}
    /\ finalizing \subseteq 1 .. Depth
    /\ wrap \in [Handles -> Wrappers \cup {NoHandle}]
    /\ mode \in {"running", "jumped", "fatal"}

\* In the frame a wrapper was made in, whatever happens in the frames above,
\* its slot holds its function.
PinnedInFrame ==
    \A h \in Handles :
        ~Free(h) /\ wrap[h].at > 0 =>
            /\ wrap[h].at <= Depth /\ wrap[h].idx < Len(frames[wrap[h].at])
            /\ frames[wrap[h].at][wrap[h].idx + 1] = wrap[h].fn

\* As long as wrappers stay with the PHP function they belong to, the process is
\* lost, and PHP code jumped over, in one way only: duk_php_throw takes a thrown
\* null, or another value without a stack, for an error.
OnlyOddErrorsJump == mode # "running" => thrown \in OddErrors

\* Errors are handed over exactly once.  PHP code never runs with a JS error on
\* its way, and JS code with a PHP exception pending only as the finalizer of
\* what PHP code released while the exception unwound it.
OneError ==
    /\ running = "php" => thrown = None
    /\ running = "js" /\ pending # None => InFinalizer

\* An error at any depth is caught in the end, or arrives in the script: it
\* does not get lost on the way through php_get_function_wrapper and
\* duk_php_throw, nor wait for ever at one of them.  Only a finalizer it sets
\* off may hold it up.
EveryErrorArrives ==
    pending # None \/ thrown # None ~>
        \/ pending = None /\ thrown = None
        \/ running = "php" /\ Depth = 1
        \/ InFinalizer /\ thrown = None
        \/ mode # "running"

\* A wrapper stands for its function in every PHP function that can use it.
MeaningKept ==
    Php => \A h \in Handles :
        Usable(h) =>
            wrap[h].idx < Len(Frame) /\ Frame[wrap[h].idx + 1] = wrap[h].fn

\* The two mechanisms together implement exceptions that cross languages.  A
\* finalizer is part of the activation that sets it off, which catches what the
\* finalizer throws.
Crossing == INSTANCE Unwinding WITH
    Errors <- Errors \cup OddErrors,
    depth <- (IF running = "php" THEN 2 * Depth - 1 ELSE 2 * Depth) - Cardinality(finalizing),
    error <- IF pending # None THEN pending ELSE thrown,
    lost <- mode # "running"

ImplementsUnwinding == Crossing!Spec

=============================================================================
