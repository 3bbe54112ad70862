--------------------------- MODULE Callbacks_proof ---------------------------
(***************************************************************************)
(* Proofs about errors that cross nested calls, for any depth of nesting,  *)
(* any wrappers and any values.                                            *)
(***************************************************************************)
EXTENDS Callbacks, SequenceTheorems, FiniteSetTheorems, TLAPS

(***************************************************************************)
(* The frames as a stack                                                   *)
(***************************************************************************)

\* A sequence of at least one frame, whatever the frames hold.
Stack(f) == (\E S : f \in Seq(S)) /\ Len(f) >= 1

LEMMA StackAppend ==
    ASSUME NEW f, NEW x, Stack(f)
    PROVE  Stack(Append(f, x)) /\ Len(Append(f, x)) = Len(f) + 1
<1> PICK S : f \in Seq(S)
    BY DEF Stack
<1>1. f \in Seq(S \cup {x}) /\ x \in S \cup {x}
    OBVIOUS
<1>2. Append(f, x) \in Seq(S \cup {x}) /\ Len(Append(f, x)) = Len(f) + 1
    BY <1>1
<1> QED BY <1>2 DEF Stack

LEMMA StackChange ==
    ASSUME NEW f, NEW x, Stack(f)
    PROVE  /\ Stack([f EXCEPT ![Len(f)] = x])
           /\ Len([f EXCEPT ![Len(f)] = x]) = Len(f)
<1> PICK S : f \in Seq(S)
    BY DEF Stack
<1>1. f \in Seq(S \cup {x}) /\ x \in S \cup {x} /\ Len(f) \in 1 .. Len(f)
    BY DEF Stack
<1>2. /\ [f EXCEPT ![Len(f)] = x] \in Seq(S \cup {x})
      /\ Len([f EXCEPT ![Len(f)] = x]) = Len(f)
    BY <1>1, ExceptSeq
<1> QED BY <1>1, <1>2 DEF Stack

LEMMA StackPop ==
    ASSUME NEW f, Stack(f), Len(f) > 1
    PROVE  Stack(SubSeq(f, 1, Len(f) - 1)) /\ Len(SubSeq(f, 1, Len(f) - 1)) = Len(f) - 1
<1> PICK S : f \in Seq(S)
    BY DEF Stack
<1>1. /\ SubSeq(f, 1, Len(f) - 1) \in Seq(S)
      /\ Len(SubSeq(f, 1, Len(f) - 1)) = Len(f) - 1
    BY DEF Stack
<1> QED BY <1>1, SMTT(60) DEF Stack

(***************************************************************************)
(* The inductive invariant: the frames nest, one error flies at a time,    *)
(* and PHP code waits for the finalizers it sets off                       *)
(***************************************************************************)

NestInv ==
    /\ Stack(frames)
    /\ running \in {"php", "js"}
    /\ OneError
    /\ finalizing \subseteq 1 .. Depth
    /\ running = "php" => Depth \notin finalizing

\* A step of PHP or JS code, as the mapping to Unwinding sees it: the depth,
\* the error and the end of the process change by one of its actions.
AbstractStep == [Crossing!Next]_Crossing!vars

\* How many finalizers there can be, and how a step changes their number.
LEMMA FinalizerCount ==
    ASSUME NEW D \in Nat, NEW F \in SUBSET (1 .. D)
    PROVE  /\ IsFiniteSet(F) /\ Cardinality(F) \in Nat
           /\ D \notin F /\ D >= 1 => Cardinality(F) <= D - 1
           /\ D \notin F => Cardinality(F \cup {D}) = Cardinality(F) + 1
           /\ D \in F => Cardinality(F \ {D}) = Cardinality(F) - 1
<1>1. IsFiniteSet(F) /\ Cardinality(F) \in Nat
    <2>1. IsFiniteSet(1 .. D)
        BY FS_Interval
    <2>2. IsFiniteSet(F)
        BY <2>1, FS_Subset
    <2> QED BY <2>2, FS_CardinalityType
<1>2. ASSUME D \notin F, D >= 1 PROVE Cardinality(F) <= D - 1
    <2>1. F \in SUBSET (1 .. D - 1) /\ D - 1 \in Nat
        BY <1>2
    <2>2. IsFiniteSet(1 .. D - 1) /\ Cardinality(1 .. D - 1) = D - 1
        BY <2>1, FS_Interval
    <2> QED BY <2>1, <2>2, FS_Subset
<1>3. D \notin F => Cardinality(F \cup {D}) = Cardinality(F) + 1
    BY <1>1, FS_AddElement
<1>4. D \in F => Cardinality(F \ {D}) = Cardinality(F) - 1
    BY <1>1, FS_RemoveElement
<1> QED BY <1>1, <1>2, <1>3, <1>4

\* What a step that neither begins nor ends an activation leaves as it is.
LEMMA SameFrames ==
    ASSUME NestInv, \/ UNCHANGED frames
                    \/ \E x : frames' = [frames EXCEPT ![Len(frames)] = x]
    PROVE  Stack(frames') /\ Len(frames') = Len(frames)
<1>1. CASE UNCHANGED frames
    BY <1>1 DEF NestInv
<1>2. CASE \E x : frames' = [frames EXCEPT ![Len(frames)] = x]
    <2>1. PICK x : frames' = [frames EXCEPT ![Len(frames)] = x]
        BY <1>2
    <2> QED BY <2>1, StackChange DEF NestInv
<1> QED BY <1>1, <1>2

\* The depth of the stack of frames and the number of finalizers.
LEMMA Counts ==
    ASSUME NestInv
    PROVE  /\ Depth \in Nat /\ Depth >= 1 /\ Cardinality(finalizing) \in Nat
           /\ Depth \notin finalizing => Cardinality(finalizing) <= Depth - 1
<1>1. Depth \in Nat /\ Depth >= 1
    BY DEF NestInv, Stack, Depth
<1> QED BY <1>1, FinalizerCount DEF NestInv

LEMMA EntersAndRaises ==
    ASSUME NestInv, Evaluate \/ Call \/ \E h \in Handles : Invoke(h)
    PROVE  NestInv' /\ AbstractStep
<1> USE CallbacksAssumption DEF AbstractStep, Depth
<1>1. /\ mode = "running" /\ running = "php" /\ pending = None /\ thrown = None /\ thrown' = None
      /\ finalizing' = finalizing
      /\ \/ /\ running' = "js" /\ pending' = None /\ mode' = mode
         \/ /\ running' = "php" /\ pending' \in Errors /\ mode' = mode
         \/ /\ UNCHANGED <<running, pending>> /\ mode' # "running"
    BY DEF NestInv, OneError, Evaluate, Call, Invoke, Uncaught, Php
<1>2. Stack(frames') /\ Len(frames') = Len(frames)
    BY SameFrames DEF Evaluate, Call, Invoke, Uncaught, WithFrame
<1>3. Len(frames) \in Nat /\ Cardinality(finalizing) \in Nat
    BY Counts
<1>4. NestInv'
    BY <1>1, <1>2 DEF NestInv, OneError
<1>5. AbstractStep
    BY <1>1, <1>2, <1>3
       DEF Crossing!Next, Crossing!vars, Crossing!Enter, Crossing!Raise, Crossing!Lose, Crossing!Calm
<1> QED BY <1>4, <1>5

LEMMA JsEnds ==
    ASSUME NestInv, (\E r \in Functions \cup {Plain} : JsReturns(r)) \/ JsFails
    PROVE  NestInv' /\ AbstractStep
<1> USE CallbacksAssumption DEF AbstractStep, Depth
<1>1. /\ mode = "running" /\ running = "js" /\ Depth \notin finalizing /\ finalizing' = finalizing
      /\ pending = None
      /\ \/ /\ running' = "php" /\ pending' = thrown /\ thrown' = None /\ mode' = mode
         \/ /\ UNCHANGED <<running, pending, thrown, frames>> /\ mode' # "running"
    BY DEF NestInv, OneError, JsReturns, JsFails, Js, JsUnwinds, InFinalizer, Uncaught
<1>2. Stack(frames') /\ Len(frames') = Len(frames)
    BY SameFrames DEF JsReturns, JsFails, Uncaught, WithFrame
<1>3. /\ Len(frames) \in Nat /\ Len(frames) >= 1 /\ Cardinality(finalizing) \in Nat
      /\ Cardinality(finalizing) <= Len(frames) - 1
    BY <1>1, Counts
<1>4. NestInv'
    BY <1>1, <1>2 DEF NestInv, OneError, InFinalizer
<1>5. AbstractStep
    BY <1>1, <1>2, <1>3
       DEF Crossing!Next, Crossing!vars, Crossing!Leave, Crossing!Unwind, Crossing!Lose,
           Crossing!Calm, Crossing!Flying
<1> QED BY <1>4, <1>5

LEMMA JsGoesOn ==
    ASSUME NestInv, JsThrows \/ JsCatches
    PROVE  NestInv' /\ AbstractStep
<1> USE CallbacksAssumption DEF AbstractStep, Depth
<1>1. /\ mode = "running" /\ running = "js"
      /\ UNCHANGED <<frames, running, pending, finalizing, mode>>
      /\ \/ thrown = None /\ thrown' \in Errors \cup OddErrors
         \/ thrown # None /\ thrown' = None
    BY DEF JsThrows, JsCatches, Js, JsUnwinds
<1>2. NestInv'
    BY <1>1 DEF NestInv, OneError, InFinalizer
<1>3. AbstractStep
    BY <1>1 DEF Crossing!Next, Crossing!vars, Crossing!Raise, Crossing!Catch, Crossing!Calm,
                Crossing!Flying
<1> QED BY <1>2, <1>3

LEMMA FinalizerGoes ==
    ASSUME NestInv, FinalizerReturns \/ FinalizerFails
    PROVE  NestInv' /\ AbstractStep
<1> USE CallbacksAssumption DEF AbstractStep, Depth
<1>1. /\ mode = "running" /\ running = "js" /\ running' = "php" /\ Len(frames) \in finalizing
      /\ finalizing' = finalizing \ {Len(frames)} /\ thrown' = None
      /\ UNCHANGED <<frames, pending, mode>>
    BY DEF FinalizerReturns, FinalizerFails, FinalizerEnds, InFinalizer, Js, JsUnwinds
<1>2. /\ Len(frames) \in Nat /\ Cardinality(finalizing) \in Nat
      /\ Cardinality(finalizing') = Cardinality(finalizing) - 1
    BY <1>1, Counts, FinalizerCount DEF NestInv
<1>3. NestInv'
    BY <1>1 DEF NestInv, OneError
<1>4. AbstractStep
    BY <1>1, <1>2 DEF Crossing!Next, Crossing!vars, Crossing!Catch, Crossing!Flying
<1> QED BY <1>3, <1>4

LEMMA CallbackBegins ==
    ASSUME NestInv, NEW args, CallPhp(args)
    PROVE  NestInv' /\ AbstractStep
<1> USE CallbacksAssumption DEF AbstractStep, Depth
<1>1. /\ Len(frames) \in Nat /\ Cardinality(finalizing) \in Nat
      /\ mode = "running" /\ mode' = mode /\ running = "js"
      /\ pending' = pending /\ thrown = None /\ finalizing' = finalizing
    BY Counts DEF CallPhp, Js
<1>2. CASE /\ pending = None /\ running' = "php" /\ UNCHANGED thrown
           /\ frames' = Append(frames, NewFrame(args))
  <2>1. Stack(frames') /\ Len(frames') = Len(frames) + 1
    BY <1>2, StackAppend DEF NestInv
  <2>2. NestInv'
    <3>1. finalizing' \subseteq 1 .. Len(frames') /\ Len(frames') \notin finalizing'
      BY <1>1, <2>1 DEF NestInv
    <3> QED BY <1>1, <1>2, <2>1, <3>1 DEF NestInv, OneError
  <2> QED BY <1>1, <1>2, <2>1, <2>2
             DEF Crossing!Next, Crossing!Enter, Crossing!Calm
<1>3. CASE thrown' \in Errors /\ UNCHANGED <<running, frames>>
  <2>1. NestInv'
    BY <1>1, <1>3 DEF NestInv, OneError, InFinalizer
  <2> QED BY <1>1, <1>3, <2>1 DEF Crossing!Next, Crossing!vars, Crossing!Raise, Crossing!Calm
<1> QED BY <1>2, <1>3 DEF CallPhp, Callable

LEMMA CallbackEnds ==
    ASSUME NestInv, PhpReturns \/ PhpFails
    PROVE  NestInv' /\ AbstractStep
<1> USE CallbacksAssumption DEF AbstractStep, Depth
<1>1. /\ mode = "running" /\ mode' = mode /\ running = "php" /\ running' = "js"
      /\ thrown = None /\ thrown' = pending /\ pending' = None /\ finalizing' = finalizing
      /\ Len(frames) > 1 /\ frames' = SubSeq(frames, 1, Len(frames) - 1)
    BY DEF NestInv, OneError, PhpReturns, PhpFails, EndFrame, ClearException, Php, PhpUnwinds
<1>2. Stack(frames') /\ Len(frames') = Len(frames) - 1
    BY <1>1, StackPop DEF NestInv
<1>3. /\ Len(frames) \in Nat /\ Cardinality(finalizing) \in Nat
      /\ Cardinality(finalizing) <= Len(frames) - 1
    BY <1>1, Counts DEF NestInv
<1>4. NestInv'
    <2>1. finalizing' \subseteq 1 .. Len(frames')
        BY <1>1, <1>2, <1>3 DEF NestInv
    <2> QED BY <1>1, <1>2, <2>1 DEF NestInv, OneError
<1>5. AbstractStep
    BY <1>1, <1>2, <1>3
       DEF Crossing!Next, Crossing!Leave, Crossing!Unwind, Crossing!Calm, Crossing!Flying
<1> QED BY <1>4, <1>5

LEMMA PhpGoesOn ==
    ASSUME NestInv, PhpThrows \/ PhpCatches \/ \E h \in Handles : Drop(h)
    PROVE  NestInv' /\ AbstractStep
<1> USE CallbacksAssumption DEF AbstractStep, Depth
<1>1. /\ mode = "running" /\ running = "php" /\ thrown = None /\ thrown' = None
      /\ \/ running' = running /\ finalizing' = finalizing
         \/ /\ running' = "js" /\ finalizing' = finalizing \cup {Len(frames)}
            /\ pending' = pending /\ mode' = mode
      /\ \/ pending = None /\ pending' \in Errors /\ mode' = mode
         \/ pending # None /\ pending' = None /\ mode' = mode
         \/ pending' = pending /\ mode' = mode
         \/ pending' = pending /\ mode' # "running"
    BY DEF NestInv, OneError, PhpThrows, PhpCatches, Drop, Uncaught, Php, PhpUnwinds
<1>2. Stack(frames') /\ Len(frames') = Len(frames)
    BY SameFrames DEF PhpThrows, PhpCatches, Drop, Uncaught, WithFrame
<1>3. /\ Len(frames) \in Nat /\ Cardinality(finalizing) \in Nat /\ Len(frames) >= 1
      /\ Cardinality(finalizing \cup {Len(frames)}) = Cardinality(finalizing) + 1
    BY <1>1, Counts, FinalizerCount DEF NestInv
<1>4. NestInv'
    <2>1. CASE running' = running /\ finalizing' = finalizing
        BY <1>1, <1>2, <2>1 DEF NestInv, OneError
    <2>2. CASE running' = "js" /\ finalizing' = finalizing \cup {Len(frames)}
        <3>1. Len(frames') \in finalizing' /\ finalizing' \subseteq 1 .. Len(frames')
            <4>1. Len(frames) \in 1 .. Len(frames) /\ finalizing \subseteq 1 .. Len(frames)
                BY <1>3 DEF NestInv
            <4> QED BY <1>2, <2>2, <4>1
        <3> QED BY <1>1, <1>2, <2>2, <3>1 DEF NestInv, OneError, InFinalizer
    <2> QED BY <1>1, <2>1, <2>2
<1>5. AbstractStep
    <2>1. CASE running' = running /\ finalizing' = finalizing
        BY <1>1, <1>2, <2>1
           DEF Crossing!Next, Crossing!vars, Crossing!Raise, Crossing!Catch, Crossing!Lose,
               Crossing!Calm, Crossing!Flying
    <2>2. CASE /\ running' = "js" /\ finalizing' = finalizing \cup {Len(frames)}
               /\ pending' = pending /\ mode' = mode
        BY <1>1, <1>2, <1>3, <2>2 DEF Crossing!vars
    <2> QED BY <1>1, <2>1, <2>2
<1> QED BY <1>4, <1>5

(***************************************************************************)
(* The theorems                                                            *)
(***************************************************************************)

\* The script starts with one frame and no error.
LEMMA StartsNested == Init => NestInv /\ Crossing!Init
<1> SUFFICES ASSUME Init
             PROVE  NestInv /\ Crossing!Init
    OBVIOUS
<1>1. << <<Undefined>> >> \in Seq(Seq({Undefined})) /\ Len(<< <<Undefined>> >>) = 1
    OBVIOUS
<1>2. frames \in Seq(Seq({Undefined})) /\ Len(frames) = 1
    BY <1>1 DEF Init
<1>3. Stack(frames)
    BY <1>2 DEF Stack
<1>4. Cardinality({}) = 0
    BY FS_EmptySet
<1> QED BY <1>2, <1>3, <1>4 DEF Init, NestInv, OneError, Crossing!Init, Depth

LEMMA StepsNest == NestInv /\ [Next]_vars => NestInv' /\ AbstractStep
<1> SUFFICES ASSUME NestInv, [Next]_vars
             PROVE  NestInv' /\ AbstractStep
    OBVIOUS
<1>1. CASE Evaluate \/ Call \/ \E h \in Handles : Invoke(h)
    BY <1>1, EntersAndRaises
<1>2. CASE (\E r \in Functions \cup {Plain} : JsReturns(r)) \/ JsFails
    BY <1>2, JsEnds
<1>7. CASE JsThrows \/ JsCatches
    BY <1>7, JsGoesOn
<1>8. CASE FinalizerReturns \/ FinalizerFails
    BY <1>8, FinalizerGoes
<1>3. CASE \E args \in Arguments : CallPhp(args)
    BY <1>3, CallbackBegins
<1>4. CASE PhpReturns \/ PhpFails
    BY <1>4, CallbackEnds
<1>5. CASE PhpThrows \/ PhpCatches \/ \E h \in Handles : Drop(h)
    BY <1>5, PhpGoesOn
<1>6. CASE UNCHANGED vars
    BY <1>6 DEF vars, NestInv, OneError, InFinalizer, AbstractStep, Crossing!vars, Depth
<1> QED BY <1>1, <1>2, <1>3, <1>4, <1>5, <1>6, <1>7, <1>8 DEF Next, PhpStep, JsStep

\* Errors are handed over exactly once by duk_php_throw and
\* php_get_function_wrapper, at any depth of nested calls: PHP code never runs
\* with a JS error on its way, and JS code with a PHP exception pending only as
\* the finalizer of what PHP code released while the exception unwound it.
THEOREM OneErrorAtATime == Spec => []OneError
<1>1. NestInv => OneError
    BY DEF NestInv
<1> QED BY <1>1, StartsNested, StepsNest, PTL DEF Spec

\* Calls that nest through JS::evaluate, __call, __invoke and
\* php_get_function_wrapper implement exceptions that cross languages: an
\* error unwinds every activation in turn, unchanged, until one catches it.
THEOREM ErrorsUnwindInOrder == Spec => ImplementsUnwinding
<1>1. NestInv /\ [Next]_vars => [Crossing!Next]_Crossing!vars
    BY StepsNest DEF AbstractStep
<1> QED BY <1>1, StartsNested, StepsNest, PTL DEF Spec, ImplementsUnwinding, Crossing!Spec

(***************************************************************************)
(* The frame of a callback                                                 *)
(***************************************************************************)

\* A finite set has more elements than any part of it.
LEMMA FewerInPart ==
    ASSUME NEW S, NEW T \in SUBSET S, IsFiniteSet(S), T # S
    PROVE  Cardinality(T) # Cardinality(S)
BY FS_Subset

\* Each wrapped argument has one copy, and each copy is of one argument.
LEMMA CopyOfEach ==
    ASSUME NEW args \in Seq(Functions \cup {Plain})
    PROVE  /\ IsFiniteSet(Wrapped(args))
           /\ \A k \in 1 .. Cardinality(Wrapped(args)) : \E i \in Wrapped(args) : Rank(args, i) = k
<1> DEFINE W == Wrapped(args)
           upTo(i) == {j \in W : j <= i}
           rank == [i \in W |-> Rank(args, i)]
           n == Cardinality(W)
<1>1. W \in SUBSET (1 .. Len(args)) /\ IsFiniteSet(1 .. Len(args))
    BY FS_Interval DEF Wrapped
<1>2. IsFiniteSet(W) /\ n \in Nat
    BY <1>1, FS_Subset, FS_CardinalityType
<1>3. \A i \in W : IsFiniteSet(upTo(i)) /\ Cardinality(upTo(i)) \in Nat /\ Cardinality(upTo(i)) <= n
    <2> TAKE i \in W
    <2>1. upTo(i) \in SUBSET W
        OBVIOUS
    <2> HIDE DEF upTo, W
    <2> QED BY <1>2, <2>1, FS_Subset, FS_CardinalityType
<1>4. \A i \in W : Cardinality(upTo(i)) # 0
    <2> TAKE i \in W
    <2>1. i \in upTo(i)
        BY <1>1
    <2> HIDE DEF upTo
    <2> QED BY <1>3, <2>1, FS_EmptySet
<1>5. \A i, j \in W : Cardinality(upTo(i)) = Cardinality(upTo(j)) => i = j
    <2>1. ASSUME NEW i \in W, NEW j \in W, i < j
          PROVE  Cardinality(upTo(i)) # Cardinality(upTo(j))
        <3>1. upTo(i) \in SUBSET upTo(j) /\ j \in upTo(j) /\ j \notin upTo(i)
            BY <1>1, <2>1
        <3>2. upTo(i) # upTo(j) /\ IsFiniteSet(upTo(j))
            BY <1>3, <3>1
        <3> HIDE DEF upTo, W
        <3> QED BY <3>1, <3>2, FewerInPart
    <2>2. \A i \in W : i \in Int
        BY <1>1
    <2> HIDE DEF upTo, W
    <2> QED BY <2>1, <2>2
<1>6. rank \in [W -> 1 .. n] /\ \A i \in W : rank[i] = Cardinality(upTo(i))
    <2>1. \A i \in W : Rank(args, i) = Cardinality(upTo(i))
        BY DEF Rank
    <2> HIDE DEF upTo, W, n
    <2> QED BY <1>2, <1>3, <1>4, <2>1
<1> HIDE DEF rank, upTo, W
<1>7. rank \in Injection(W, 1 .. n)
    BY <1>5, <1>6 DEF Injection, IsInjective
<1>8. IsFiniteSet(1 .. n) /\ Cardinality(1 .. n) = n
    BY <1>2, FS_Interval
<1>9. rank \in Surjection(W, 1 .. n)
    BY <1>7, <1>8, FS_Injection DEF n
<1>10. \A k \in 1 .. n : \E i \in W : rank[i] = k
    BY <1>9 DEF Surjection
<1> QED BY <1>2, <1>10 DEF rank, W

\* The arguments of the call are at the bottom of its frame.
LEMMA NewFrameType ==
    ASSUME NEW args \in Seq(Functions \cup {Plain})
    PROVE  /\ NewFrame(args) \in Seq(Values)
           /\ Len(args) <= Len(NewFrame(args))
           /\ \A i \in 1 .. Len(args) : NewFrame(args)[i] = args[i]
<1>1. args \in Seq(Values) /\ <<Self>> \in Seq(Values)
    BY DEF Values
<1>2. Copies(args) \in Seq(Values)
    <2>1. Cardinality(Wrapped(args)) \in Nat
        BY CopyOfEach, FS_CardinalityType
    <2>2. ASSUME NEW k \in 1 .. Cardinality(Wrapped(args))
          PROVE  args[CHOOSE i \in Wrapped(args) : Rank(args, i) = k] \in Values
        <3>1. (CHOOSE i \in Wrapped(args) : Rank(args, i) = k) \in Wrapped(args)
            BY CopyOfEach
        <3> QED BY <3>1 DEF Wrapped, Values
    <2>3. Copies(args) \in [1 .. Cardinality(Wrapped(args)) -> Values]
        BY <2>2 DEF Copies
    <2> HIDE DEF Values
    <2> QED BY <2>1, <2>3
<1> HIDE DEF Values
<1>3. /\ args \o Copies(args) \in Seq(Values)
      /\ Len(args \o Copies(args)) = Len(args) + Len(Copies(args))
      /\ \A i \in 1 .. Len(args) : (args \o Copies(args))[i] = args[i]
    BY <1>1, <1>2, ConcatProperties, LenProperties
<1>4. Len(args) \in Nat /\ Len(Copies(args)) \in Nat
    BY <1>1, <1>2, LenProperties
<1> DEFINE lower == args \o Copies(args)
<1>5. /\ lower \o <<Self>> \in Seq(Values) /\ Len(lower \o <<Self>>) = Len(lower) + 1
      /\ \A i \in 1 .. Len(lower) : (lower \o <<Self>>)[i] = lower[i]
    BY <1>1, <1>3, ConcatProperties, LenProperties
<1> QED BY <1>3, <1>4, <1>5 DEF NewFrame

LEMMA ArgumentsType ==
    ASSUME NEW args \in Arguments
    PROVE  args \in Seq(Functions \cup {Plain})
BY CallbacksAssumption DEF Arguments

(***************************************************************************)
(* Types                                                                   *)
(***************************************************************************)

\* What the steps change: the frames and the wrappers.
SlotTypes ==
    /\ frames \in Seq(Seq(Values)) /\ Depth >= 1
    /\ wrap \in [Handles -> Wrappers \cup {NoHandle}]

\* A step replaces the frame on top, pushes a frame or ends one.
LEMMA FrameChanges ==
    ASSUME SlotTypes
    PROVE  /\ Depth \in Nat /\ Frame \in Seq(Values) /\ Len(Frame) \in Nat
           /\ \A s \in Seq(Values) :
                 /\ WithFrame(s) \in Seq(Seq(Values)) /\ Len(WithFrame(s)) = Depth
                 /\ \A d \in 1 .. Depth : WithFrame(s)[d] = IF d = Depth THEN s ELSE frames[d]
           /\ \A s \in Seq(Values) :
                 /\ Append(frames, s) \in Seq(Seq(Values)) /\ Len(Append(frames, s)) = Depth + 1
                 /\ \A d \in 1 .. Depth : Append(frames, s)[d] = frames[d]
                 /\ Append(frames, s)[Depth + 1] = s
           /\ Depth > 1 =>
                 /\ SubSeq(frames, 1, Depth - 1) \in Seq(Seq(Values))
                 /\ Len(SubSeq(frames, 1, Depth - 1)) = Depth - 1
                 /\ \A d \in 1 .. Depth - 1 : SubSeq(frames, 1, Depth - 1)[d] = frames[d]
<1> DEFINE S == Seq(Values)
<1> HIDE DEF S
<1>1. frames \in Seq(S) /\ Len(frames) \in Nat /\ Len(frames) >= 1
    BY DEF SlotTypes, Depth, S
<1>2. Frame \in S
    BY <1>1 DEF Frame, Depth
<1>3. ASSUME NEW s \in S
      PROVE  /\ WithFrame(s) \in Seq(S) /\ Len(WithFrame(s)) = Depth
             /\ \A d \in 1 .. Depth : WithFrame(s)[d] = IF d = Depth THEN s ELSE frames[d]
    BY <1>1, ExceptSeq DEF WithFrame, Depth
<1>4. ASSUME NEW s \in S
      PROVE  /\ Append(frames, s) \in Seq(S) /\ Len(Append(frames, s)) = Depth + 1
             /\ \A d \in 1 .. Depth : Append(frames, s)[d] = frames[d]
             /\ Append(frames, s)[Depth + 1] = s
    BY <1>1 DEF Depth
<1>5. ASSUME Depth > 1
      PROVE  /\ SubSeq(frames, 1, Depth - 1) \in Seq(S)
             /\ Len(SubSeq(frames, 1, Depth - 1)) = Depth - 1
             /\ \A d \in 1 .. Depth - 1 : SubSeq(frames, 1, Depth - 1)[d] = frames[d]
    BY <1>1, <1>5 DEF Depth
<1>6. Depth \in Nat /\ Len(Frame) \in Nat
    BY <1>1, <1>2 DEF Depth, S
<1> QED BY <1>2, <1>3, <1>4, <1>5, <1>6 DEF S

\* A function that JS code returns is wrapped at the top of the frame.
LEMMA ReturnTypes ==
    ASSUME SlotTypes, NEW r \in Functions \cup {Plain}, JsReturns(r)
    PROVE  SlotTypes'
<1>1. CASE r \notin Functions
    BY <1>1 DEF JsReturns, SlotTypes, Depth
<1>2. CASE r \in Functions
    <2>1. Append(Frame, r) \in Seq(Values)
        BY <1>2, FrameChanges DEF Values
    <2>2. frames' \in Seq(Seq(Values)) /\ Len(frames') = Depth
        BY <1>2, <2>1, FrameChanges DEF JsReturns
    <2>3. [at |-> Depth, idx |-> ResultIndex(Frame), fn |-> r, holder |-> "var"] \in Wrappers
        BY <1>2, FrameChanges DEF Wrappers, ResultIndex
    <2>4. wrap' \in [Handles -> Wrappers \cup {NoHandle}]
        BY <1>2, <2>3 DEF JsReturns, SlotTypes
    <2> QED BY <2>2, <2>4 DEF SlotTypes, Depth
<1> QED BY <1>1, <1>2

\* The wrapper made for an argument, and the ones that stay.
LEMMA WrapArgsType ==
    ASSUME NEW args \in Arguments, NEW pick, NEW at \in Nat,
           NEW holder \in {"var", "arg", "lost"}, NEW h \in Handles
    PROVE  \/ /\ \A i \in Wrapped(args) : pick[i] # h
              /\ WrapArgs(args, pick, at, holder)[h] = wrap[h]
           \/ \E i \in Wrapped(args) :
                 /\ pick[i] = h /\ i \in 1 .. Len(args) /\ args[i] \in Functions
                 /\ WrapArgs(args, pick, at, holder)[h].at = at
                 /\ WrapArgs(args, pick, at, holder)[h].idx = i - 1
                 /\ WrapArgs(args, pick, at, holder)[h].fn = args[i]
                 /\ WrapArgs(args, pick, at, holder)[h] \in Wrappers
<1>1. CASE \A i \in Wrapped(args) : pick[i] # h
    BY <1>1 DEF WrapArgs
<1>2. CASE \E i \in Wrapped(args) : pick[i] = h
    <2> DEFINE i == CHOOSE i \in Wrapped(args) : pick[i] = h
    <2>1. i \in Wrapped(args) /\ pick[i] = h
        BY <1>2
    <2>2. WrapArgs(args, pick, at, holder)[h] =
             [at |-> at, idx |-> ArgIndex(i), fn |-> args[i], holder |-> holder]
        BY <1>2 DEF WrapArgs
    <2> HIDE DEF i
    <2>3. i \in 1 .. Len(args) /\ args[i] \in Functions
        BY <2>1 DEF Wrapped
    <2>4. ArgIndex(i) = i - 1 /\ i - 1 \in Nat
        BY <2>3, ArgumentsType DEF ArgIndex
    <2>5. [at |-> at, idx |-> i - 1, fn |-> args[i], holder |-> holder] \in Wrappers
        BY <2>3, <2>4 DEF Wrappers
    <2> QED BY <2>1, <2>2, <2>3, <2>4, <2>5
<1> QED BY <1>1, <1>2

LEMMA WrapArgsTypes ==
    ASSUME SlotTypes, NEW args \in Arguments, NEW pick, NEW at \in Nat,
           NEW holder \in {"var", "arg", "lost"}
    PROVE  WrapArgs(args, pick, at, holder) \in [Handles -> Wrappers \cup {NoHandle}]
<1>1. ASSUME NEW h \in Handles
      PROVE  WrapArgs(args, pick, at, holder)[h] \in Wrappers \cup {NoHandle}
    <2>1. CASE WrapArgs(args, pick, at, holder)[h] = wrap[h]
        BY <2>1 DEF SlotTypes
    <2>2. CASE WrapArgs(args, pick, at, holder)[h] \in Wrappers
        BY <2>2
    <2> QED BY <2>1, <2>2, WrapArgsType
<1>2. /\ DOMAIN WrapArgs(args, pick, at, holder) = Handles
      /\ WrapArgs(args, pick, at, holder) =
           [h \in Handles |-> WrapArgs(args, pick, at, holder)[h]]
    BY Zenon DEF WrapArgs
<1> QED BY <1>1, <1>2

LEMMA CallPhpTypes ==
    ASSUME SlotTypes, NEW args \in Arguments, CallPhp(args)
    PROVE  SlotTypes'
<1>1. NewFrame(args) \in Seq(Values)
    BY ArgumentsType, NewFrameType
<1>3. Depth \in Nat /\ Depth >= 1
    BY FrameChanges DEF SlotTypes
<1>4. CASE \E pick : frames' = Append(frames, NewFrame(args))
                     /\ wrap' = WrapArgs(args, pick, Depth + 1, "arg")
    <2>1. frames' \in Seq(Seq(Values)) /\ Len(frames') = Depth + 1
        BY <1>1, <1>4, FrameChanges
    <2>2. wrap' \in [Handles -> Wrappers \cup {NoHandle}]
        BY <1>3, <1>4, WrapArgsTypes
    <2> QED BY <1>3, <2>1, <2>2 DEF SlotTypes, Depth
<1>5. CASE \E pick : UNCHANGED frames /\ wrap' = WrapArgs(args, pick, 0, "lost")
    <2>1. wrap' \in [Handles -> Wrappers \cup {NoHandle}]
        BY <1>5, WrapArgsTypes
    <2> QED BY <1>5, <2>1 DEF SlotTypes, Depth
<1> QED BY <1>4, <1>5 DEF CallPhp

LEMMA EndFrameTypes ==
    ASSUME SlotTypes, Depth > 1, NEW kept \in SUBSET Handles, EndFrame(kept)
    PROVE  SlotTypes'
<1>1. frames' \in Seq(Seq(Values)) /\ Len(frames') = Depth - 1 /\ Depth \in Nat
    BY FrameChanges DEF EndFrame
<1>2. ASSUME NEW h \in Handles PROVE wrap'[h] \in Wrappers \cup {NoHandle}
    <2>1. wrap[h] \in Wrappers \cup {NoHandle}
        BY DEF SlotTypes
    <2>2. CASE wrap[h] = NoHandle \/ wrap[h].at # Depth
        BY <2>1, <2>2 DEF EndFrame, Free
    <2>3. CASE ~(wrap[h] = NoHandle \/ wrap[h].at # Depth)
        <3>1. wrap[h] \in [at : Nat, idx : Nat, fn : Functions, holder : {"var", "arg", "lost"}]
            BY <2>1, <2>3 DEF Wrappers
        <3>2. wrap'[h] = [wrap[h] EXCEPT !.at = 0,
                                         !.holder = IF h \in kept THEN wrap[h].holder ELSE "lost"]
            BY <2>3 DEF EndFrame, Free
        <3> DEFINE holder == IF h \in kept THEN wrap[h].holder ELSE "lost"
        <3>3. wrap'[h] = [at |-> 0, idx |-> wrap[h].idx, fn |-> wrap[h].fn, holder |-> holder]
            BY <3>1, <3>2
        <3>4. holder \in {"var", "arg", "lost"}
            BY <3>1
        <3> HIDE DEF holder
        <3> QED BY <3>1, <3>3, <3>4 DEF Wrappers
    <2> QED BY <2>2, <2>3
<1>3. wrap' \in [Handles -> Wrappers \cup {NoHandle}]
    BY <1>2 DEF EndFrame
<1> QED BY <1>1, <1>3 DEF SlotTypes, Depth

LEMMA DropTypes ==
    ASSUME SlotTypes, NEW h \in Handles, Drop(h)
    PROVE  SlotTypes'
<1>1. CASE UNCHANGED frames
    <2>1. wrap[h] \in Wrappers
        BY DEF Drop, Usable, Free, SlotTypes
    <2>2. [wrap EXCEPT ![h].holder = "lost"] \in [Handles -> Wrappers \cup {NoHandle}]
        BY <2>1 DEF SlotTypes, Wrappers
    <2>3. wrap' \in [Handles -> Wrappers \cup {NoHandle}]
        BY <2>2 DEF Drop, Uncaught, SlotTypes
    <2> QED BY <1>1, <2>3 DEF SlotTypes, Depth
<1>2. CASE /\ wrap[h].idx < Len(Frame) /\ wrap' = [wrap EXCEPT ![h] = NoHandle]
           /\ frames' = WithFrame([Frame EXCEPT ![wrap[h].idx + 1] = Undefined])
    <2>1. wrap[h] \in Wrappers
        BY DEF Drop, Usable, Free, SlotTypes
    <2>2. [Frame EXCEPT ![wrap[h].idx + 1] = Undefined] \in Seq(Values)
        BY <1>2, <2>1, FrameChanges, ExceptSeq DEF Wrappers, Values
    <2>3. frames' \in Seq(Seq(Values)) /\ Len(frames') = Depth
        BY <1>2, <2>2, FrameChanges
    <2>4. wrap' \in [Handles -> Wrappers \cup {NoHandle}]
        BY <1>2 DEF SlotTypes
    <2> QED BY <2>3, <2>4 DEF SlotTypes, Depth
<1> QED BY <1>1, <1>2 DEF Drop, Uncaught

LEMMA InitTypes == Init => TypeOK
<1> SUFFICES ASSUME Init PROVE TypeOK
    OBVIOUS
<1>1. Undefined \in Values
    BY DEF Values
<1>2. frames \in Seq(Seq(Values)) /\ Len(frames) = 1
    BY <1>1 DEF Init
<1> QED BY <1>2 DEF Init, TypeOK, Depth

LEMMA StepTypes == TypeOK /\ NestInv /\ [Next]_vars => TypeOK'
<1> SUFFICES ASSUME TypeOK, NestInv, [Next]_vars PROVE TypeOK'
    OBVIOUS
<1>1. SlotTypes
    BY DEF TypeOK, SlotTypes
<1>2. SlotTypes'
    <2>1. CASE UNCHANGED <<frames, wrap>>
        BY <1>1, <2>1 DEF SlotTypes, Depth
    <2>2. CASE Call
        <3>1. Append(Frame, Global) \in Seq(Values)
            BY <1>1, FrameChanges DEF Values
        <3>2. frames' \in Seq(Seq(Values)) /\ Len(frames') = Depth
            BY <1>1, <2>2, <3>1, FrameChanges DEF Call
        <3> QED BY <1>1, <2>2, <3>2 DEF Call, SlotTypes, Depth
    <2>3. CASE \E r \in Functions \cup {Plain} : JsReturns(r)
        BY <1>1, <2>3, ReturnTypes
    <2>4. CASE \E args \in Arguments : CallPhp(args)
        BY <1>1, <2>4, CallPhpTypes
    <2>5. CASE PhpReturns \/ PhpFails
        BY <1>1, <2>5, EndFrameTypes DEF PhpReturns, PhpFails
    <2>6. CASE \E h \in Handles : Drop(h)
        BY <1>1, <2>6, DropTypes
    <2> QED BY <2>1, <2>2, <2>3, <2>4, <2>5, <2>6
            DEF Next, PhpStep, JsStep, vars, Evaluate, Invoke, Uncaught, PhpThrows, PhpCatches,
                JsThrows, JsCatches, JsFails, FinalizerReturns, FinalizerFails, FinalizerEnds
<1>3. /\ running' \in {"php", "js"}
      /\ pending' \in Errors \cup {None} /\ thrown' \in Errors \cup OddErrors \cup {None}
      /\ mode' \in {"running", "jumped", "fatal"}
    BY DEF TypeOK, Next, PhpStep, JsStep, vars, Evaluate, Call, Invoke, Drop, Uncaught, PhpReturns,
           PhpFails, EndFrame, ClearException, PhpThrows, PhpCatches, JsReturns, CallPhp, JsThrows,
           JsCatches, JsFails, FinalizerReturns, FinalizerFails, FinalizerEnds
<1>4. finalizing' \subseteq 1 .. Depth'
    BY StepsNest DEF NestInv
<1> QED BY <1>2, <1>3, <1>4 DEF SlotTypes, TypeOK

\* Whatever PHP and JS code do, in frames of any number and length, the state
\* keeps its types: the index of a wrapper is never negative, and the frame of
\* the script stays.
THEOREM TypeCorrect == Spec => []TypeOK
<1> QED BY InitTypes, StartsNested, StepTypes, StepsNest, PTL DEF Spec

(***************************************************************************)
(* The slots of wrappers, frame by frame                                   *)
(***************************************************************************)

\* Wrappers made in one frame have slots of their own: releasing one of them
\* clears nobody else's.
SlotsApart ==
    \A g, h \in Handles :
        g # h /\ ~Free(g) /\ ~Free(h) /\ wrap[g].at = wrap[h].at /\ wrap[g].at > 0
           => wrap[g].idx # wrap[h].idx

\* The inductive invariant when wrappers stay in the function they belong to.
PinInv == TypeOK /\ NestInv /\ PinnedInFrame /\ SlotsApart /\ OnlyOddErrorsJump

\* What PinInv says about wrappers and frames.
Pins == PinnedInFrame /\ SlotsApart

\* A wrapper a PHP function can use is of its own frame.
LEMMA UsableIsPinned ==
    ASSUME ~CrossFrames, SlotTypes, PinnedInFrame, NEW h \in Handles, Usable(h)
    PROVE  /\ wrap[h] \in Wrappers /\ wrap[h].at = Depth /\ Depth > 0
           /\ wrap[h].idx < Len(Frame) /\ Frame[wrap[h].idx + 1] = wrap[h].fn
<1>1. wrap[h] \in Wrappers /\ wrap[h].at = Depth
    BY DEF Usable, Free, SlotTypes
<1>2. Depth \in Nat /\ Depth > 0
    BY FrameChanges DEF SlotTypes
<1> QED BY <1>1, <1>2 DEF PinnedInFrame, Usable, Frame

\* Slots pushed on the frame on top move none.
LEMMA PushPins ==
    ASSUME SlotTypes, Pins, NEW x \in Values, frames' = WithFrame(Append(Frame, x)),
           UNCHANGED wrap
    PROVE  Pins'
<1>1. Append(Frame, x) \in Seq(Values) /\ Len(Append(Frame, x)) = Len(Frame) + 1
      /\ \A i \in 1 .. Len(Frame) : Append(Frame, x)[i] = Frame[i]
    BY FrameChanges
<1>2. Len(frames') = Depth /\ Depth \in Nat /\ Len(Frame) \in Nat
      /\ \A d \in 1 .. Depth : frames'[d] = IF d = Depth THEN Append(Frame, x) ELSE frames[d]
    BY <1>1, FrameChanges
<1>3. ASSUME NEW h \in Handles, ~Free(h), wrap[h].at > 0
      PROVE  /\ wrap[h].at <= Len(frames') /\ wrap[h].idx < Len(frames'[wrap[h].at])
             /\ frames'[wrap[h].at][wrap[h].idx + 1] = wrap[h].fn
    <2> DEFINE d == wrap[h].at
               i == wrap[h].idx
    <2>1. d \in 1 .. Depth /\ i \in Nat /\ i < Len(frames[d]) /\ frames[d][i + 1] = wrap[h].fn
        BY <1>2, <1>3 DEF Pins, PinnedInFrame, SlotTypes, Free, Wrappers
    <2> HIDE DEF d, i
    <2>2. CASE d = Depth
        <3>1. frames[d] = Frame /\ frames'[d] = Append(Frame, x)
            BY <1>2, <2>1, <2>2 DEF Frame
        <3>2. i + 1 \in 1 .. Len(Frame) /\ Frame[i + 1] = wrap[h].fn /\ d <= Len(frames')
            BY <1>2, <2>1, <2>2, <3>1
        <3>3. i < Len(Append(Frame, x)) /\ Append(Frame, x)[i + 1] = wrap[h].fn
            BY <1>1, <1>2, <2>1, <3>2
        <3> QED BY <3>1, <3>2, <3>3 DEF d, i
    <2>3. CASE d # Depth
        BY <1>2, <2>1, <2>3, SMTT(60) DEF d, i
    <2> QED BY <2>2, <2>3
<1>4. PinnedInFrame'
    BY <1>3 DEF PinnedInFrame, Depth, Free
<1>5. SlotsApart'
    BY DEF Pins, SlotsApart, Free
<1> QED BY <1>4, <1>5 DEF Pins

\* A wrapper of the slot on top joins the others.
LEMMA ReturnPins ==
    ASSUME SlotTypes, Pins, NEW r \in Functions \cup {Plain}, JsReturns(r)
    PROVE  Pins'
<1>1. CASE r \notin Functions
    BY <1>1 DEF JsReturns, Pins, PinnedInFrame, SlotsApart, Free, Depth
<1>2. CASE r \in Functions
    <2> PICK h \in Handles :
            /\ Free(h)
            /\ wrap' = [wrap EXCEPT ![h] =
                  [at |-> Depth, idx |-> ResultIndex(Frame), fn |-> r, holder |-> "var"]]
        BY <1>2 DEF JsReturns
    <2>1. /\ \A g \in Handles : g # h => wrap'[g] = wrap[g]
          /\ wrap'[h].at = Depth /\ wrap'[h].idx = Len(Frame) /\ wrap'[h].fn = r
        BY DEF SlotTypes, ResultIndex
    <2>2. Append(Frame, r) \in Seq(Values) /\ Len(Append(Frame, r)) = Len(Frame) + 1
          /\ (\A i \in 1 .. Len(Frame) : Append(Frame, r)[i] = Frame[i])
          /\ Append(Frame, r)[Len(Frame) + 1] = r
        BY <1>2, FrameChanges DEF Values
    <2>3. Len(frames') = Depth /\ Depth \in Nat /\ Depth >= 1 /\ Len(Frame) \in Nat
          /\ \A d \in 1 .. Depth : frames'[d] = IF d = Depth THEN Append(Frame, r) ELSE frames[d]
        <3>1. frames' = WithFrame(Append(Frame, r))
            BY <1>2 DEF JsReturns
        <3>2. Depth >= 1
            BY DEF SlotTypes
        <3> QED BY <2>2, <3>1, <3>2, FrameChanges
    <2>4. ASSUME NEW g \in Handles, g # h, ~Free(g), wrap[g].at > 0
          PROVE  /\ wrap[g].at \in 1 .. Depth /\ wrap[g].idx \in Nat
                 /\ wrap[g].idx < Len(frames[wrap[g].at])
                 /\ frames[wrap[g].at][wrap[g].idx + 1] = wrap[g].fn
        BY <2>3, <2>4 DEF Pins, PinnedInFrame, SlotTypes, Free, Wrappers
    <2>5. ASSUME NEW g \in Handles, wrap'[g] # NoHandle, wrap'[g].at > 0
          PROVE  /\ wrap'[g].at <= Len(frames') /\ wrap'[g].idx < Len(frames'[wrap'[g].at])
                 /\ frames'[wrap'[g].at][wrap'[g].idx + 1] = wrap'[g].fn
        <3>1. CASE g = h
            BY <2>1, <2>2, <2>3, <3>1
        <3>2. CASE g # h
            <4> DEFINE d == wrap[g].at
                       i == wrap[g].idx
            <4>1. wrap'[g] = wrap[g]
                BY <2>1, <3>2
            <4>2. d \in 1 .. Depth /\ i \in Nat /\ i < Len(frames[d]) /\ frames[d][i + 1] = wrap[g].fn
                BY <2>4, <2>5, <3>2, <4>1 DEF Free
            <4> HIDE DEF d, i
            <4>3. CASE d = Depth
                <5>1. frames[d] = Frame /\ frames'[d] = Append(Frame, r)
                    BY <2>3, <4>2, <4>3 DEF Frame
                <5>2. i + 1 \in 1 .. Len(Frame) /\ Frame[i + 1] = wrap[g].fn /\ d <= Len(frames')
                    BY <2>3, <4>2, <4>3, <5>1
                <5>3. i < Len(Append(Frame, r)) /\ Append(Frame, r)[i + 1] = wrap[g].fn
                    BY <2>2, <2>3, <4>2, <5>2
                <5> QED BY <4>1, <5>1, <5>2, <5>3 DEF d, i
            <4>4. CASE d # Depth
                BY <2>3, <4>1, <4>2, <4>4 DEF d, i
            <4> QED BY <4>3, <4>4
        <3> QED BY <3>1, <3>2
    <2>6. PinnedInFrame'
        BY <2>5 DEF PinnedInFrame, Depth, Free
    <2>7. ASSUME NEW g \in Handles, NEW k \in Handles, g # k, wrap'[g] # NoHandle,
                 wrap'[k] # NoHandle, wrap'[g].at = wrap'[k].at, wrap'[g].at > 0
          PROVE  wrap'[g].idx # wrap'[k].idx
        <3>1. CASE g # h /\ k # h
            BY <2>1, <2>7, <3>1 DEF Pins, SlotsApart, Free
        <3>2. CASE g = h
            BY <2>1, <2>3, <2>4, <2>7, <3>2 DEF Free, Frame
        <3>3. CASE k = h
            BY <2>1, <2>3, <2>4, <2>7, <3>3 DEF Free, Frame
        <3> QED BY <3>1, <3>2, <3>3
    <2>8. SlotsApart'
        BY <2>7 DEF SlotsApart, Free
    <2> QED BY <2>6, <2>8 DEF Pins
<1> QED BY <1>1, <1>2

\* The arguments of a callback have the slots they were passed in.
LEMMA CallPhpPins ==
    ASSUME SlotTypes, Pins, NEW args \in Arguments, CallPhp(args)
    PROVE  Pins'
<1>1. Depth \in Nat /\ Depth >= 1 /\ NewFrame(args) \in Seq(Values)
      /\ Len(args) \in Nat /\ Len(args) <= Len(NewFrame(args))
      /\ \A i \in 1 .. Len(args) : NewFrame(args)[i] = args[i]
    <2>1. Depth \in Nat /\ Depth >= 1
        BY FrameChanges DEF SlotTypes
    <2>2. args \in Seq(Functions \cup {Plain}) /\ Len(args) \in Nat
        BY ArgumentsType
    <2> QED BY <2>1, <2>2, NewFrameType
<1>2. ASSUME NEW g \in Handles, ~Free(g), wrap[g].at > 0
      PROVE  /\ wrap[g].at \in 1 .. Depth /\ wrap[g].idx \in Nat
             /\ wrap[g].idx < Len(frames[wrap[g].at])
             /\ frames[wrap[g].at][wrap[g].idx + 1] = wrap[g].fn
    BY <1>1, <1>2 DEF Pins, PinnedInFrame, SlotTypes, Free, Wrappers
<1>3. CASE \E pick \in Picks(args) : UNCHANGED frames /\ wrap' = WrapArgs(args, pick, 0, "lost")
    <2> PICK pick \in Picks(args) : wrap' = WrapArgs(args, pick, 0, "lost")
        BY <1>3
    <2>1. \A g \in Handles : wrap'[g] = wrap[g] \/ wrap'[g].at = 0
        BY WrapArgsType
    <2>2. PinnedInFrame'
        BY <1>3, <2>1 DEF Pins, PinnedInFrame, Free, Depth
    <2>3. SlotsApart'
        BY <2>1 DEF Pins, SlotsApart, Free
    <2> QED BY <2>2, <2>3 DEF Pins
<1>4. CASE \E pick \in Picks(args) : /\ frames' = Append(frames, NewFrame(args))
                                     /\ wrap' = WrapArgs(args, pick, Depth + 1, "arg")
    <2> PICK pick \in Picks(args) : /\ frames' = Append(frames, NewFrame(args))
                                    /\ wrap' = WrapArgs(args, pick, Depth + 1, "arg")
        BY <1>4
    <2>1. ASSUME NEW g \in Handles
          PROVE  \/ wrap'[g] = wrap[g]
                 \/ \E i \in Wrapped(args) :
                       /\ pick[i] = g /\ i \in 1 .. Len(args)
                       /\ wrap'[g].at = Depth + 1 /\ wrap'[g].idx = i - 1
                       /\ wrap'[g].fn = args[i]
        <3> DEFINE at == Depth + 1
        <3>1. at \in Nat
            BY <1>1
        <3> HIDE DEF at
        <3>2. \/ WrapArgs(args, pick, at, "arg")[g] = wrap[g]
              \/ \E i \in Wrapped(args) :
                    /\ pick[i] = g /\ i \in 1 .. Len(args)
                    /\ WrapArgs(args, pick, at, "arg")[g].at = at
                    /\ WrapArgs(args, pick, at, "arg")[g].idx = i - 1
                    /\ WrapArgs(args, pick, at, "arg")[g].fn = args[i]
            BY <3>1, WrapArgsType, SMTT(60)
        <3> QED BY <3>2 DEF at
    <2>2. /\ Len(frames') = Depth + 1 /\ frames'[Depth + 1] = NewFrame(args)
          /\ \A d \in 1 .. Depth : frames'[d] = frames[d]
        BY <1>1, FrameChanges
    <2>3. ASSUME NEW g \in Handles, wrap'[g] # NoHandle, wrap'[g].at > 0
          PROVE  /\ wrap'[g].at <= Len(frames') /\ wrap'[g].idx < Len(frames'[wrap'[g].at])
                 /\ frames'[wrap'[g].at][wrap'[g].idx + 1] = wrap'[g].fn
        <3>1. CASE wrap'[g] = wrap[g]
            <4>1. wrap[g].at \in 1 .. Depth /\ wrap[g].idx < Len(frames[wrap[g].at])
                  /\ frames[wrap[g].at][wrap[g].idx + 1] = wrap[g].fn
                BY <1>2, <2>3, <3>1 DEF Free
            <4> QED BY <1>1, <2>2, <3>1, <4>1
        <3>2. CASE wrap'[g] # wrap[g]
            <4> PICK i \in Wrapped(args) :
                    /\ pick[i] = g /\ i \in 1 .. Len(args)
                    /\ wrap'[g].at = Depth + 1 /\ wrap'[g].idx = i - 1
                    /\ wrap'[g].fn = args[i]
                BY <2>1, <3>2
            <4>1. i - 1 < Len(NewFrame(args)) /\ (i - 1) + 1 = i
                BY <1>1
            <4> QED BY <1>1, <2>2, <4>1
        <3> QED BY <3>1, <3>2
    <2>4. PinnedInFrame'
        BY <2>3 DEF PinnedInFrame, Depth, Free
    <2>5. ASSUME NEW g \in Handles, NEW k \in Handles, g # k, wrap'[g] # NoHandle,
                 wrap'[k] # NoHandle, wrap'[g].at = wrap'[k].at, wrap'[g].at > 0
          PROVE  wrap'[g].idx # wrap'[k].idx
        <3>1. CASE wrap'[g] = wrap[g] /\ wrap'[k] = wrap[k]
            BY <2>5, <3>1 DEF Pins, SlotsApart, Free
        <3>2. CASE wrap'[g] # wrap[g] /\ wrap'[k] = wrap[k]
            BY <1>1, <1>2, <2>1, <2>5, <3>2 DEF Free
        <3>3. CASE wrap'[g] = wrap[g] /\ wrap'[k] # wrap[k]
            BY <1>1, <1>2, <2>1, <2>5, <3>3 DEF Free
        <3>4. CASE wrap'[g] # wrap[g] /\ wrap'[k] # wrap[k]
            <4> PICK i \in Wrapped(args) :
                    pick[i] = g /\ i \in 1 .. Len(args) /\ wrap'[g].idx = i - 1
                BY <2>1, <3>4
            <4> PICK j \in Wrapped(args) :
                    pick[j] = k /\ j \in 1 .. Len(args) /\ wrap'[k].idx = j - 1
                BY <2>1, <3>4
            <4>1. i # j
                BY <2>5
            <4> QED BY <1>1, <4>1
        <3> QED BY <3>1, <3>2, <3>3, <3>4
    <2>6. SlotsApart'
        BY <2>5 DEF SlotsApart, Free
    <2> QED BY <2>4, <2>6 DEF Pins
<1> QED BY <1>3, <1>4 DEF CallPhp

\* With a frame go the wrappers made in it.
LEMMA EndFramePins ==
    ASSUME SlotTypes, Pins, Depth > 1, NEW kept \in SUBSET Handles, EndFrame(kept)
    PROVE  Pins'
<1>1. /\ Depth \in Nat /\ Len(frames') = Depth - 1
      /\ \A d \in 1 .. Depth - 1 : frames'[d] = frames[d]
    BY FrameChanges DEF EndFrame
<1>2. \A g \in Handles :
        \/ wrap'[g] = wrap[g] /\ (Free(g) \/ wrap[g].at # Depth)
        \/ wrap'[g].at = 0
    <2> TAKE g \in Handles
    <2>1. CASE Free(g) \/ wrap[g].at # Depth
        BY <2>1 DEF EndFrame
    <2>2. CASE ~(Free(g) \/ wrap[g].at # Depth)
        <3>1. wrap[g] \in [at : Nat, idx : Nat, fn : Functions, holder : {"var", "arg", "lost"}]
            BY <2>2 DEF SlotTypes, Free, Wrappers
        <3>2. wrap'[g] = [wrap[g] EXCEPT !.at = 0,
                                         !.holder = IF g \in kept THEN wrap[g].holder ELSE "lost"]
            BY <2>2 DEF EndFrame
        <3> QED BY <3>1, <3>2
    <2> QED BY <2>1, <2>2
<1>3. ASSUME NEW g \in Handles, wrap'[g] # NoHandle, wrap'[g].at > 0
      PROVE  /\ wrap'[g].at <= Len(frames') /\ wrap'[g].idx < Len(frames'[wrap'[g].at])
             /\ frames'[wrap'[g].at][wrap'[g].idx + 1] = wrap'[g].fn
    <2>1. wrap'[g] = wrap[g] /\ ~Free(g) /\ wrap[g].at # Depth
        BY <1>2, <1>3 DEF Free
    <2>2. wrap[g].at \in 1 .. Depth - 1
        BY <1>1, <1>3, <2>1 DEF Pins, PinnedInFrame, SlotTypes, Free, Wrappers
    <2> QED BY <1>1, <1>3, <2>1, <2>2 DEF Pins, PinnedInFrame
<1>4. PinnedInFrame'
    BY <1>3 DEF PinnedInFrame, Depth, Free
<1>5. SlotsApart'
    BY <1>2 DEF Pins, SlotsApart, Free
<1> QED BY <1>4, <1>5 DEF Pins

\* A release clears the slot of the wrapper released, in its own frame.
LEMMA DropPins ==
    ASSUME ~CrossFrames, SlotTypes, Pins, NEW h \in Handles, Drop(h)
    PROVE  Pins' /\ mode' = mode
<1>1. /\ wrap[h] \in Wrappers /\ wrap[h].at = Depth /\ Depth > 0
      /\ wrap[h].idx < Len(Frame) /\ Frame[wrap[h].idx + 1] = wrap[h].fn /\ ~Free(h)
    BY UsableIsPinned DEF Drop, Pins, Usable
<1>2. wrap[h].idx \in Nat /\ Len(Frame) \in Nat /\ Depth \in Nat
    BY <1>1, FrameChanges DEF Wrappers
<1>3. CASE wrap' = [wrap EXCEPT ![h].holder = "lost"] /\ UNCHANGED <<frames, mode>>
    <2>1. /\ \A g \in Handles : wrap'[g].at = wrap[g].at /\ wrap'[g].idx = wrap[g].idx
                                /\ wrap'[g].fn = wrap[g].fn
          /\ \A g \in Handles : g # h => wrap'[g] = wrap[g]
        BY <1>1, <1>3 DEF SlotTypes, Wrappers
    <2>2. \A g \in Handles : ~Free(g)' => ~Free(g)
        BY <1>1, <2>1 DEF Free
    <2>3. PinnedInFrame'
        BY <1>3, <2>1, <2>2 DEF Pins, PinnedInFrame, Depth
    <2>4. SlotsApart'
        BY <2>1, <2>2 DEF Pins, SlotsApart
    <2> QED BY <1>3, <2>3, <2>4 DEF Pins
<1>4. CASE /\ wrap' = [wrap EXCEPT ![h] = NoHandle] /\ UNCHANGED mode
           /\ frames' = WithFrame([Frame EXCEPT ![wrap[h].idx + 1] = Undefined])
    <2> DEFINE cleared == [Frame EXCEPT ![wrap[h].idx + 1] = Undefined]
    <2>1. cleared \in Seq(Values) /\ Len(cleared) = Len(Frame)
          /\ \A j \in 1 .. Len(Frame) : j # wrap[h].idx + 1 => cleared[j] = Frame[j]
        BY <1>1, <1>2, FrameChanges, ExceptSeq DEF Values
    <2>2. /\ Len(frames') = Depth
          /\ \A d \in 1 .. Depth : frames'[d] = IF d = Depth THEN cleared ELSE frames[d]
        <3> HIDE DEF cleared
        <3>1. frames' = WithFrame(cleared)
            BY <1>4 DEF cleared
        <3> QED BY <2>1, <3>1, FrameChanges
    <2> HIDE DEF cleared
    <2>3. \A g \in Handles : ~Free(g)' => g # h /\ ~Free(g) /\ wrap'[g] = wrap[g]
        BY <1>4 DEF Free, SlotTypes
    <2>4. ASSUME NEW g \in Handles, ~Free(g)', wrap'[g].at > 0
          PROVE  /\ wrap'[g].at <= Len(frames') /\ wrap'[g].idx < Len(frames'[wrap'[g].at])
                 /\ frames'[wrap'[g].at][wrap'[g].idx + 1] = wrap'[g].fn
        <3>1. /\ wrap[g].at \in 1 .. Depth /\ wrap[g].idx \in Nat
              /\ wrap[g].idx < Len(frames[wrap[g].at])
              /\ frames[wrap[g].at][wrap[g].idx + 1] = wrap[g].fn
            BY <1>2, <2>3, <2>4 DEF Pins, PinnedInFrame, SlotTypes, Free, Wrappers
        <3>2. CASE wrap[g].at = Depth
            <4>1. wrap[g].idx # wrap[h].idx
                BY <1>1, <1>2, <2>3, <2>4, <3>2 DEF Pins, SlotsApart
            <4>2. frames[wrap[g].at] = Frame /\ frames'[wrap[g].at] = cleared
                BY <1>2, <2>2, <3>1, <3>2 DEF Frame
            <4>3. /\ wrap[g].idx + 1 \in 1 .. Len(Frame) /\ wrap[g].idx + 1 # wrap[h].idx + 1
                  /\ Frame[wrap[g].idx + 1] = wrap[g].fn
                BY <1>2, <3>1, <4>1, <4>2
            <4>4. wrap[g].idx < Len(cleared) /\ cleared[wrap[g].idx + 1] = wrap[g].fn
                BY <2>1, <3>1, <4>2, <4>3
            <4>5. wrap'[g] = wrap[g]
                BY <2>3, <2>4
            <4> QED BY <1>2, <2>2, <3>1, <4>2, <4>4, <4>5
        <3>3. CASE wrap[g].at # Depth
            BY <2>2, <2>3, <2>4, <3>1, <3>3
        <3> QED BY <3>2, <3>3
    <2>5. PinnedInFrame'
        BY <2>4 DEF PinnedInFrame, Depth
    <2>6. SlotsApart'
        BY <2>3 DEF Pins, SlotsApart
    <2> QED BY <1>4, <2>5, <2>6 DEF Pins
<1> QED BY <1>1, <1>2, <1>3, <1>4 DEF Drop

LEMMA StepPins ==
    ASSUME ~CrossFrames
    PROVE  PinInv /\ [Next]_vars => PinInv'
<1> SUFFICES ASSUME PinInv, [Next]_vars PROVE PinInv'
    OBVIOUS
<1>1. SlotTypes /\ Pins /\ OnlyOddErrorsJump /\ TypeOK' /\ NestInv'
    BY StepTypes, StepsNest DEF PinInv, Pins, TypeOK, SlotTypes
<1> DEFINE Kept == Pins' /\ OnlyOddErrorsJump'
<1>2. ASSUME UNCHANGED <<frames, wrap>> PROVE Pins'
    BY <1>1, <1>2 DEF Pins, PinnedInFrame, SlotsApart, Free, Depth
<1>3. Kept
    <2>1. CASE UNCHANGED vars
        BY <1>1, <1>2, <2>1 DEF vars, OnlyOddErrorsJump
    <2>2. CASE Call
        BY <1>1, <2>2, PushPins DEF Call, Values, Php, OnlyOddErrorsJump
    <2>3. ASSUME NEW h \in Handles, Invoke(h) PROVE Kept
        <3>1. /\ wrap[h] \in Wrappers /\ wrap[h].at = Depth /\ Depth > 0
              /\ wrap[h].idx < Len(Frame)
            BY <1>1, <2>3, UsableIsPinned DEF Invoke, Pins
        <3>2. wrap[h].idx \in Nat /\ Len(Frame) \in Nat
            BY <1>1, <3>1, FrameChanges DEF Wrappers
        <3>3. UNCHANGED <<frames, wrap, mode>> /\ mode = "running"
            BY <2>3, <3>1, <3>2 DEF Invoke, Php
        <3> QED BY <1>2, <3>3 DEF OnlyOddErrorsJump
    <2>4. CASE \E r \in Functions \cup {Plain} : JsReturns(r)
        BY <1>1, <2>4, ReturnPins DEF JsReturns, Js, OnlyOddErrorsJump
    <2>5. CASE \E args \in Arguments : CallPhp(args)
        BY <1>1, <2>5, CallPhpPins DEF CallPhp, Js, OnlyOddErrorsJump
    <2>6. CASE PhpReturns \/ PhpFails
        BY <1>1, <2>6, EndFramePins DEF PhpReturns, PhpFails, Php, PhpUnwinds, OnlyOddErrorsJump
    <2>7. CASE \E h \in Handles : Drop(h)
        BY <1>1, <2>7, DropPins DEF Drop, Php, PhpUnwinds, OnlyOddErrorsJump
    <2>8. CASE JsFails
        BY <1>2, <2>8 DEF JsFails, JsUnwinds, Uncaught, OnlyOddErrorsJump
    <2>9. CASE \/ Evaluate \/ PhpThrows \/ PhpCatches \/ JsThrows \/ JsCatches
               \/ FinalizerReturns \/ FinalizerFails
        BY <1>2, <2>9 DEF Evaluate, PhpThrows, PhpCatches, JsThrows, JsCatches, FinalizerReturns,
                          FinalizerFails, FinalizerEnds, Php, PhpUnwinds, Js, JsUnwinds,
                          OnlyOddErrorsJump
    <2> QED BY <2>1, <2>2, <2>3, <2>4, <2>5, <2>6, <2>7, <2>8, <2>9 DEF Next, PhpStep, JsStep
<1> QED BY <1>1, <1>3 DEF PinInv, Pins

LEMMA PinInvAlways ==
    ASSUME ~CrossFrames
    PROVE  Spec => []PinInv
<1>1. Init => PinInv
    BY InitTypes, StartsNested DEF Init, PinInv, PinnedInFrame, SlotsApart, OnlyOddErrorsJump, Free
<1> QED BY <1>1, StepPins, PTL DEF Spec

\* In the frame a wrapper was made in its slot holds its function, whatever
\* functions called from there, or errors that unwind them, do to the frames
\* above: duk_normalize_index in phpjs_add_duk_context is enough for that.
THEOREM WrappersKeepTheirFrame ==
    ASSUME ~CrossFrames
    PROVE  Spec => []PinnedInFrame
<1>1. PinInv => PinnedInFrame
    BY DEF PinInv
<1> QED BY <1>1, PinInvAlways, PTL

\* As long as wrappers are used where they were made, no index is out of range:
\* the process is lost, and PHP code jumped over, only when duk_php_throw takes a
\* thrown null, or another value without a stack, for an error.
THEOREM OnlyOddErrorsJumpOverPhp ==
    ASSUME ~CrossFrames
    PROVE  Spec => []OnlyOddErrorsJump
<1>1. PinInv => OnlyOddErrorsJump
    BY DEF PinInv
<1> QED BY <1>1, PinInvAlways, PTL

\* A wrapper stands for its function in every PHP function that uses it as
\* long as none is handed from one PHP function to another.  The run
\* outer_wrapper shows what happens when one is.
THEOREM MeaningKeptAtHome ==
    ASSUME ~CrossFrames
    PROVE  Spec => []MeaningKept
<1>1. PinInv => MeaningKept
    <2> SUFFICES ASSUME PinInv, NEW h \in Handles, Usable(h)
                 PROVE  wrap[h].idx < Len(Frame) /\ Frame[wrap[h].idx + 1] = wrap[h].fn
        BY DEF MeaningKept
    <2> QED BY UsableIsPinned DEF PinInv, TypeOK, SlotTypes
<1> QED BY <1>1, PinInvAlways, PTL

=============================================================================
