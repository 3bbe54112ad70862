-------------------------- MODULE VmWrappers_proof --------------------------
(***************************************************************************)
(* Proofs about VmWrappers, for any number of VMs and wrappers.            *)
(***************************************************************************)
EXTENDS VmWrappers, FiniteSetTheorems, SequenceTheorems, TLAPS

(***************************************************************************)
(* Facts about the operators                                               *)
(***************************************************************************)

\* What every conversion leaves on the stack is again a stack: duk_to_zval
\* and the pop after it keep the values they found.
LEMMA KeepType ==
    ASSUME NEW base \in Seq(Values), NEW r \in Results
    PROVE  Keep(base, r) \in Seq(Values)
BY DEF Keep, Values

\* Pushing the result of an evaluation that could be converted (JS::load).
LEMMA ConvertedIsValue ==
    ASSUME NEW r \in Results, r \notin {Unsafe, Mixed}
    PROVE  r \in Values
BY DEF Results, Values, Objs

\* A final duk_pop leaves a stack.
LEMMA PoppedType ==
    ASSUME NEW s \in Seq(Values), NEW pops \in BOOLEAN
    PROVE  Popped(s, pops) \in Seq(Values)
<1>1. CASE ~pops
    BY <1>1 DEF Popped
<1>2. CASE pops
    <2>1. \A i \in 1 .. Len(s) - 1 : s[i] \in Values
        OBVIOUS
    <2>2. Len(s) - 1 \in Int
        OBVIOUS
    <2>3. SubSeq(s, 1, Len(s) - 1) \in Seq(Values)
        BY <2>1, <2>2, SubSeqProperties
    <2> QED BY <1>2, <2>3 DEF Popped
<1> QED BY <1>1, <1>2

\* A wrapper record is never mistaken for the absence of one.
LEMMA NoHandleIsNoWrapper == NoHandle \notin Wrappers
BY AtomsAssumption

\* There are finitely many wrappers, so each VM has finitely many.
LEMMA OwnersFinite == \A v \in VMs : IsFiniteSet(Owners(v))
<1> SUFFICES ASSUME NEW v \in VMs PROVE IsFiniteSet(Owners(v))
    OBVIOUS
<1>1. Owners(v) \in SUBSET Handles
    BY DEF Owners
<1> QED BY <1>1, ConstantsAssumption, FS_Subset

\* Losing the process changes nothing else.
LEMMA LoseCountInv ==
    ASSUME CountInv, NEW fault \in Faults, Lose(fault)
    PROVE  CountInv'
<1> USE DEF CountInv, Lose
<1>1. TypeOK'
    BY DEF TypeOK
<1>2. MainObjSet' /\ RefcountExact' /\ DestroyedWhenUnheld'
    BY DEF MainObjSet, RefcountExact, DestroyedWhenUnheld, Owners, Live
<1> QED BY <1>1, <1>2

\* So does an error that a property raises where nothing catches it.
LEMMA TripsCountInv ==
    ASSUME CountInv, Trips
    PROVE  CountInv'
<1>1. Lose("uncaught") /\ "uncaught" \in Faults
    BY DEF Trips, Faults
<1> QED BY <1>1, LoseCountInv

\* A new wrapper and the reference it counts keep the books balanced
\* (phpjs_add_duk_context).
LEMMA NewWrapperCounts ==
    ASSUME CountInv, NEW v \in VMs, NEW i \in Nat, NEW r \in Objs, NEW holder \in Holders,
           NewWrapper(v, i, r, holder), mainObj \in VMs, vm[mainObj] = "live",
           UNCHANGED <<vm, held, mainObj>>
    PROVE  /\ refs' \in [VMs -> Nat]
           /\ wrap' \in [Handles -> Wrappers \cup {NoHandle}]
           /\ RefcountExact' /\ DestroyedWhenUnheld'
<1> PICK h \in Handles :
        /\ wrap[h] = NoHandle
        /\ wrap' = [wrap EXCEPT ![h] = [ctx |-> v, idx |-> i, vm |-> mainObj,
                                        cap |-> cap, obj |-> r, holder |-> holder]]
        /\ refs' = [refs EXCEPT ![mainObj] = @ + 1]
    BY DEF NewWrapper, CountMainObj
<1> USE DEF CountInv
<1>1. refs' \in [VMs -> Nat]
    BY DEF TypeOK
<1>2. [ctx |-> v, idx |-> i, vm |-> mainObj, cap |-> cap, obj |-> r, holder |-> holder]
         \in Wrappers
    BY DEF TypeOK, Wrappers
<1>3. wrap' \in [Handles -> Wrappers \cup {NoHandle}]
    BY <1>2 DEF TypeOK
<1>4. wrap'[h] # NoHandle /\ wrap'[h].vm = mainObj
    BY <1>2, NoHandleIsNoWrapper DEF TypeOK
<1>5. RefcountExact'
    <2> SUFFICES ASSUME NEW u \in VMs
                 PROVE  refs'[u] = Cardinality(Owners(u)') + (IF held[u] THEN 1 ELSE 0)
        BY DEF RefcountExact
    <2>1. CASE u = mainObj
        <3>1. Owners(u)' = Owners(u) \cup {h}
            BY <2>1, <1>4 DEF Owners, Live, TypeOK
        <3>2. h \notin Owners(u) /\ IsFiniteSet(Owners(u))
            BY OwnersFinite DEF Owners, Live
        <3>3. Cardinality(Owners(u)') = Cardinality(Owners(u)) + 1
            BY <3>1, <3>2, FS_AddElement
        <3> QED BY <2>1, <3>3, <3>2, FS_CardinalityType DEF RefcountExact, TypeOK
    <2>2. CASE u # mainObj
        <3>1. Owners(u)' = Owners(u)
            BY <2>2, <1>4 DEF Owners, Live, TypeOK
        <3> QED BY <2>2, <3>1 DEF RefcountExact, TypeOK
    <2> QED BY <2>1, <2>2
<1>6. DestroyedWhenUnheld'
    BY DEF DestroyedWhenUnheld, TypeOK
<1> QED BY <1>1, <1>3, <1>5, <1>6

(***************************************************************************)
(* The endings of a method call preserve CountInv                          *)
(***************************************************************************)

\* A fault of any of the fault sets is one of Faults.
LEMMA FaultsAreFaults ==
    /\ \A top, lim, r : ConvertFaults(top, lim, r) \subseteq Faults
    /\ \A top, lim, e : ThrowFaults(top, lim, e) \subseteq Faults
    /\ \A v, r : TrapFaults(v, r) \subseteq Faults
    /\ \A w : DupFaults(w) \subseteq Faults
    /\ \A w : PropFaults(w) \subseteq Faults
    /\ \A w : FreeFaults(w) \subseteq Faults
BY DEF ConvertFaults, ThrowFaults, TrapFaults, DupFaults, PropFaults, FreeFaults, When, Faults

\* duk_to_zval and the pops after it (the common end of every method that
\* returns a JS value to the script).
LEMMA ReturnCountInv ==
    ASSUME CountInv, NEW v \in VMs, mainObj \in VMs,
           NEW base \in Seq(Values), NEW lim \in Nat, NEW r \in Results, NEW after,
           r \notin {Unsafe, Mixed} => after \in Seq(Values),
           ReturnValue(v, base, lim, r, after)
    PROVE  CountInv'
<1>1. CASE \E fault \in ConvertFaults(Len(base) + 1, lim, r) : Lose(fault)
    BY <1>1, FaultsAreFaults, LoseCountInv
<1>2. CASE ~ \E fault \in ConvertFaults(Len(base) + 1, lim, r) : Lose(fault)
    <2>1. /\ ConvertFaults(Len(base) + 1, lim, r) = {}
          /\ IF r \in Objs THEN NewWrapper(v, TopIndex(base), r, "var")
                           ELSE UNCHANGED <<wrap, refs>>
          /\ stack' = [stack EXCEPT ![v] = after]
          /\ limit' = [limit EXCEPT ![v] = lim]
          /\ UNCHANGED <<vm, held, mainObj, table, cap, mode>>
        BY <1>2 DEF ReturnValue
    <2>2. r \notin {Unsafe, Mixed} /\ (r \in Objs => vm[mainObj] = "live")
        BY <2>1 DEF ConvertFaults, When
    <2>3. TopIndex(base) \in Nat
        BY DEF TopIndex
    <2>4. /\ refs' \in [VMs -> Nat] /\ wrap' \in [Handles -> Wrappers \cup {NoHandle}]
          /\ RefcountExact' /\ DestroyedWhenUnheld'
        <3>1. CASE r \in Objs
            BY <2>1, <2>2, <2>3, <3>1, NewWrapperCounts DEF Holders
        <3>2. CASE r \notin Objs
            BY <2>1, <3>2 DEF CountInv, TypeOK, RefcountExact, DestroyedWhenUnheld, Owners, Live
        <3> QED BY <3>1, <3>2
    <2>5. TypeOK'
        BY <2>1, <2>2, <2>4 DEF CountInv, TypeOK
    <2>6. MainObjSet'
        BY <2>1 DEF CountInv, MainObjSet
    <2> QED BY <2>4, <2>5, <2>6 DEF CountInv
<1> QED BY <1>1, <1>2

\* duk_php_throw and the early return after it.
LEMMA RaiseCountInv ==
    ASSUME CountInv, NEW v \in VMs, NEW base, NEW after \in Seq(Values), NEW lim \in Nat, NEW e,
           RaiseError(v, base, after, lim, e)
    PROVE  CountInv'
<1>1. CASE \E fault \in ThrowFaults(Len(base) + 1, lim, e) : Lose(fault)
    BY <1>1, FaultsAreFaults, LoseCountInv
<1>2. CASE ~ \E fault \in ThrowFaults(Len(base) + 1, lim, e) : Lose(fault)
    <2>1. /\ stack' = [stack EXCEPT ![v] = after]
          /\ limit' = [limit EXCEPT ![v] = lim]
          /\ UNCHANGED <<vm, held, refs, mainObj, table, cap, wrap, mode>>
        BY <1>2 DEF RaiseError
    <2> USE DEF CountInv
    <2>2. TypeOK'
        BY <2>1 DEF TypeOK
    <2>3. MainObjSet' /\ RefcountExact' /\ DestroyedWhenUnheld'
        BY <2>1 DEF MainObjSet, RefcountExact, DestroyedWhenUnheld, Owners, Live
    <2> QED BY <2>2, <2>3
<1> QED BY <1>1, <1>2

\* A step that changes nothing.
LEMMA StutterCountInv ==
    ASSUME CountInv, UNCHANGED vars
    PROVE  CountInv'
<1> USE DEF CountInv, vars
<1>1. TypeOK'
    BY DEF TypeOK
<1>2. MainObjSet' /\ RefcountExact' /\ DestroyedWhenUnheld'
    BY DEF MainObjSet, RefcountExact, DestroyedWhenUnheld, Owners, Live
<1> QED BY <1>1, <1>2

\* The limits a call can leave are slot counts.
LEMMA LimitTypes ==
    ASSUME CountInv, NEW v \in VMs
    PROVE  /\ LimitAfterCompile(v) \in Nat
           /\ \A top \in Nat : LimitAfterFailure(v, top) \subseteq Nat
BY ConstantsAssumption DEF CountInv, TypeOK, LimitAfterCompile, LimitAfterFailure, Larger

\* phpjs_php__call on behalf of both __call methods.
LEMMA CallPropertyCountInv ==
    ASSUME CountInv, NEW v \in VMs, mainObj \in VMs, NEW base \in Seq(Values), NEW argc \in Nat,
           NEW results \in SUBSET Results, NEW pops \in BOOLEAN,
           CallProperty(v, base, argc, results, pops)
    PROVE  CountInv'
<1>1. CASE Lose("stackFull")
    BY <1>1, LoseCountInv DEF Faults
<1>2. CASE /\ stack' = [stack EXCEPT ![v] = Popped(base, pops)]
           /\ UNCHANGED <<vm, held, refs, limit, mainObj, table, cap, wrap, mode>>
    <2>1. Popped(base, pops) \in Seq(Values)
        BY PoppedType
    <2> USE DEF CountInv
    <2>2. TypeOK'
        BY <1>2, <2>1 DEF TypeOK
    <2>3. MainObjSet' /\ RefcountExact' /\ DestroyedWhenUnheld'
        BY <1>2 DEF MainObjSet, RefcountExact, DestroyedWhenUnheld, Owners, Live
    <2> QED BY <2>2, <2>3
<1>3. CASE \E r \in results : ReturnValue(v, base, limit[v], r, Popped(Keep(base, r), pops))
    <2> PICK r \in results : ReturnValue(v, base, limit[v], r, Popped(Keep(base, r), pops))
        BY <1>3
    <2>1. r \in Results
        OBVIOUS
    <2>2. Popped(Keep(base, r), pops) \in Seq(Values)
        BY <2>1, KeepType, PoppedType
    <2>3. limit[v] \in Nat
        BY DEF CountInv, TypeOK
    <2> QED BY <2>1, <2>2, <2>3, ReturnCountInv
<1>4. CASE \E e \in Throws, lim \in LimitAfterFailure(v, Len(base)) :
               RaiseError(v, base, Popped(base, pops), lim, e)
    <2> PICK e \in Throws, lim \in LimitAfterFailure(v, Len(base)) :
            RaiseError(v, base, Popped(base, pops), lim, e)
        BY <1>4
    <2>1. Popped(base, pops) \in Seq(Values)
        BY PoppedType
    <2>2. lim \in Nat
        BY LimitTypes
    <2> QED BY <2>1, <2>2, RaiseCountInv
<1>5. CASE Trips
    BY <1>5, TripsCountInv
<1> QED BY <1>1, <1>2, <1>3, <1>4, <1>5 DEF CallProperty

(***************************************************************************)
(* The methods of JS preserve CountInv                                     *)
(***************************************************************************)

\* A VM the script can call is alive, and the table names a VM.
LEMMA CallableLive ==
    ASSUME CountInv, NEW v \in VMs, Callable(v)
    PROVE  vm[v] = "live" /\ mainObj \in VMs
<1>1. Cardinality(Owners(v)) \in Nat
    BY OwnersFinite, FS_CardinalityType
<1>2. refs[v] > 0
    BY <1>1 DEF Callable, CountInv, TypeOK, RefcountExact
<1> QED BY <1>2 DEF CountInv, DestroyedWhenUnheld, MainObjSet

LEMMA ConstructCountInv ==
    ASSUME CountInv, NEW v \in VMs, Construct(v)
    PROVE  CountInv'
<1> USE DEF CountInv, Construct
<1>1. refs[v] = 0
    BY DEF TypeOK, DestroyedWhenUnheld
<1>2. ~held[v] /\ Cardinality(Owners(v)) = 0
    <2>1. Cardinality(Owners(v)) \in Nat
        BY OwnersFinite, FS_CardinalityType
    <2> QED BY <1>1, <2>1 DEF RefcountExact, TypeOK
<1>3. TypeOK'
    <2>1. <<Undefined>> \in Seq(Values)
        BY DEF Values
    <2>2. Larger(Reserve, 1 + Headroom) \in Nat
        BY ConstantsAssumption DEF Larger
    <2> QED BY <2>1, <2>2 DEF TypeOK
<1>4. MainObjSet'
    BY DEF MainObjSet, TypeOK
<1>5. RefcountExact'
    <2> SUFFICES ASSUME NEW u \in VMs
                 PROVE  refs'[u] = Cardinality(Owners(u)') + (IF held'[u] THEN 1 ELSE 0)
        BY DEF RefcountExact
    <2>1. Owners(u)' = Owners(u)
        BY DEF Owners, Live
    <2>2. CASE u = v
        BY <1>2, <2>1, <2>2 DEF TypeOK
    <2>3. CASE u # v
        <3>1. refs'[u] = refs[u] /\ held'[u] = held[u]
            BY <2>3 DEF TypeOK
        <3> QED BY <2>1, <3>1 DEF RefcountExact
    <2> QED BY <2>2, <2>3
<1>6. DestroyedWhenUnheld'
    BY DEF DestroyedWhenUnheld, TypeOK
<1> QED BY <1>3, <1>4, <1>5, <1>6

LEMMA EvaluateCountInv ==
    ASSUME CountInv, NEW v \in VMs, Evaluate(v)
    PROVE  CountInv'
<1> DEFINE lim == LimitAfterCompile(v)
<1>1. mainObj \in VMs /\ stack[v] \in Seq(Values) /\ lim \in Nat
    BY CallableLive, LimitTypes DEF Evaluate, CountInv, TypeOK
<1> HIDE DEF lim
<1>2. CASE Lose("stackFull")
    BY <1>2, LoseCountInv DEF Faults
<1>3. CASE \E r \in Results : ReturnValue(v, stack[v], lim, r, Keep(stack[v], r))
    BY <1>1, <1>3, KeepType, ReturnCountInv
<1>4. CASE \E e \in Throws : RaiseError(v, stack[v], stack[v], lim, e)
    BY <1>1, <1>4, RaiseCountInv
<1> QED BY <1>2, <1>3, <1>4 DEF Evaluate, lim

LEMMA LoadCountInv ==
    ASSUME CountInv, NEW v \in VMs, Load(v)
    PROVE  CountInv'
<1> DEFINE lim == LimitAfterCompile(v)
<1>1. mainObj \in VMs /\ stack[v] \in Seq(Values) /\ lim \in Nat
    BY CallableLive, LimitTypes DEF Load, CountInv, TypeOK
<1> HIDE DEF lim
<1>2. CASE Lose("stackFull")
    BY <1>2, LoseCountInv DEF Faults
<1>3. CASE \E r \in Results : ReturnValue(v, stack[v], lim, r, Append(Keep(stack[v], r), r))
    <2> PICK r \in Results : ReturnValue(v, stack[v], lim, r, Append(Keep(stack[v], r), r))
        BY <1>3
    <2>1. r \notin {Unsafe, Mixed} => Append(Keep(stack[v], r), r) \in Seq(Values)
        BY <1>1, KeepType, ConvertedIsValue
    <2> QED BY <1>1, <2>1, ReturnCountInv
<1>4. CASE \E e \in Throws : RaiseError(v, stack[v], stack[v], lim, e)
    BY <1>1, <1>4, RaiseCountInv
<1>5. CASE UNCHANGED vars
    BY <1>5, StutterCountInv
<1> QED BY <1>2, <1>3, <1>4, <1>5 DEF Load, lim

LEMMA OffsetGetCountInv ==
    ASSUME CountInv, NEW v \in VMs, OffsetGet(v)
    PROVE  CountInv'
<1> DEFINE base == Append(stack[v], Global)
<1>1. mainObj \in VMs /\ base \in Seq(Values) /\ limit[v] \in Nat
    BY CallableLive DEF OffsetGet, CountInv, TypeOK, Values
<1> HIDE DEF base
<1>2. CASE Lose("stackFull")
    BY <1>2, LoseCountInv DEF Faults
<1>3. CASE \E r \in Results : ReturnValue(v, base, limit[v], r, Keep(base, r))
    BY <1>1, <1>3, KeepType, ReturnCountInv
<1>4. CASE Trips
    BY <1>4, TripsCountInv
<1> QED BY <1>2, <1>3, <1>4 DEF OffsetGet, base

LEMMA CallCountInv ==
    ASSUME CountInv, NEW v \in VMs, Call(v)
    PROVE  CountInv'
<1>1. mainObj \in VMs /\ Append(stack[v], Global) \in Seq(Values)
    BY CallableLive DEF Call, CountInv, TypeOK, Values
<1>2. CASE Lose("stackFull")
    BY <1>2, LoseCountInv DEF Faults
<1>3. CASE \E argc \in 0 .. MaxArgs :
              CallProperty(v, Append(stack[v], Global), argc, Results, FALSE)
    <2> PICK argc \in 0 .. MaxArgs :
            CallProperty(v, Append(stack[v], Global), argc, Results, FALSE)
        BY <1>3
    <2>1. argc \in Nat /\ Results \in SUBSET Results
        BY ConstantsAssumption
    <2> QED BY <1>1, <2>1, CallPropertyCountInv
<1> QED BY <1>2, <1>3 DEF Call

LEMMA SetIntoPhpCountInv ==
    ASSUME CountInv, NEW v \in VMs, NEW n \in Names, NEW r \in Results, SetIntoPhp(v, n, r)
    PROVE  CountInv'
<1>1. CASE \E fault \in TrapFaults(v, r) : Lose(fault)
    BY <1>1, FaultsAreFaults, LoseCountInv
<1>2. CASE ~ \E fault \in TrapFaults(v, r) : Lose(fault)
    <2> DEFINE holder == IF n \in table THEN "lost" ELSE "table"
    <2>1. /\ TrapFaults(v, r) = {}
          /\ IF r \in Objs THEN NewWrapper(v, 2, r, holder) ELSE UNCHANGED <<wrap, refs>>
          /\ table' = table \cup {n}
          /\ cap' = IF n \notin table /\ 1 + Cardinality(table) = cap THEN 2 * cap ELSE cap
          /\ limit' = [limit EXCEPT ![v] = LimitAfterCompile(v)]
          /\ UNCHANGED <<vm, held, stack, mainObj, mode>>
        BY <1>2 DEF SetIntoPhp
    <2>2. mainObj \in VMs
        BY CallableLive DEF SetIntoPhp
    <2>3. r \in Objs => vm[mainObj] = "live"
        BY <2>1 DEF TrapFaults, When
    <2>4. holder \in Holders
        BY DEF Holders
    <2> HIDE DEF holder
    <2>5. /\ refs' \in [VMs -> Nat] /\ wrap' \in [Handles -> Wrappers \cup {NoHandle}]
          /\ RefcountExact' /\ DestroyedWhenUnheld'
        <3>1. CASE r \in Objs
            BY <2>1, <2>2, <2>3, <2>4, <3>1, NewWrapperCounts
        <3>2. CASE r \notin Objs
            BY <2>1, <3>2 DEF CountInv, TypeOK, RefcountExact, DestroyedWhenUnheld, Owners, Live
        <3> QED BY <3>1, <3>2
    <2>6. TypeOK'
        <3>1. cap' \in Nat \ {0}
            BY <2>1 DEF CountInv, TypeOK
        <3>2. LimitAfterCompile(v) \in Nat
            BY LimitTypes
        <3>3. limit' \in [VMs -> Nat] /\ table' \in SUBSET Names
            BY <2>1, <3>2 DEF CountInv, TypeOK
        <3> QED BY <2>1, <2>5, <3>1, <3>3 DEF CountInv, TypeOK
    <2>7. MainObjSet'
        BY <2>1 DEF CountInv, MainObjSet
    <2> QED BY <2>5, <2>6, <2>7 DEF CountInv
<1> QED BY <1>1, <1>2

(***************************************************************************)
(* The methods of the wrappers, and the end of PHP objects                 *)
(***************************************************************************)

\* A wrapper a script can reach has a well-formed record, and the table a VM.
LEMMA WrapperFacts ==
    ASSUME CountInv, NEW h \in Handles, wrap[h] # NoHandle
    PROVE  /\ wrap[h] \in Wrappers
           /\ h \in Owners(wrap[h].vm) /\ refs[wrap[h].vm] > 0
           /\ vm[wrap[h].vm] = "live" /\ mainObj \in VMs
<1>1. wrap[h] \in Wrappers
    BY DEF CountInv, TypeOK
<1> DEFINE u == wrap[h].vm
<1>2. u \in VMs
    BY <1>1 DEF Wrappers
<1>3. h \in Owners(u)
    BY DEF Owners, Live
<1> HIDE DEF u
<1>4. Cardinality(Owners(u)) \in Nat /\ Cardinality(Owners(u)) # 0
    <2>1. IsFiniteSet(Owners(u)) /\ Owners(u) # {}
        BY <1>2, <1>3, OwnersFinite
    <2> QED BY <2>1, FS_CardinalityType, FS_EmptySet
<1>5. refs[u] > 0
    <2>1. refs[u] = Cardinality(Owners(u)) + (IF held[u] THEN 1 ELSE 0)
        BY <1>2 DEF CountInv, RefcountExact
    <2> QED BY <1>4, <2>1
<1>6. vm[u] = "live" /\ mainObj \in VMs
    BY <1>2, <1>5 DEF CountInv, DestroyedWhenUnheld, MainObjSet
<1> QED BY <1>1, <1>3, <1>5, <1>6 DEF u

\* The value a method pushes is one the stack may hold.
LEMMA WithTargetType ==
    ASSUME CountInv, NEW w \in Wrappers, DupFaults(w) = {}
    PROVE  WithTarget(w) \in Seq(Values)
<1>1. w.ctx \in VMs /\ w.idx \in Nat /\ w.idx < Len(stack[w.ctx])
    BY DEF DupFaults, When, InRange, Wrappers
<1>2. stack[w.ctx] \in Seq(Values)
    BY <1>1 DEF CountInv, TypeOK
<1>3. stack[w.ctx][w.idx + 1] \in Values
    BY <1>1, <1>2
<1> QED BY <1>2, <1>3 DEF WithTarget, Target, Slot

LEMMA ObjGetCountInv ==
    ASSUME CountInv, NEW h \in Handles, ObjGet(h)
    PROVE  CountInv'
<1> DEFINE w == wrap[h]
           base == WithTarget(w)
<1>1. w \in Wrappers /\ mainObj \in VMs
    BY WrapperFacts DEF ObjGet, Reachable
<1>2. w.ctx \in VMs /\ limit[w.ctx] \in Nat
    BY <1>1 DEF Wrappers, CountInv, TypeOK
<1>3. CASE \E fault \in Faults : Lose(fault)
    BY <1>3, LoseCountInv
<1>4. CASE /\ DupFaults(w) = {}
           /\ \E r \in Results : ReturnValue(w.ctx, base, limit[w.ctx], r, Keep(base, r))
    <2>1. base \in Seq(Values)
        BY <1>1, <1>4, WithTargetType
    <2> HIDE DEF w, base
    <2> QED BY <1>1, <1>2, <1>4, <2>1, KeepType, ReturnCountInv
<1>5. CASE Trips
    BY <1>5, TripsCountInv
<1> QED BY <1>3, <1>4, <1>5, FaultsAreFaults DEF ObjGet

LEMMA ObjCallCountInv ==
    ASSUME CountInv, NEW h \in Handles, ObjCall(h)
    PROVE  CountInv'
<1> DEFINE w == wrap[h]
           base == WithTarget(w)
<1>1. w \in Wrappers /\ mainObj \in VMs
    BY WrapperFacts DEF ObjCall, Reachable
<1>2. w.ctx \in VMs
    BY <1>1 DEF Wrappers
<1>3. CASE \E fault \in Faults : Lose(fault)
    BY <1>3, LoseCountInv
<1>4. CASE /\ DupFaults(w) = {}
           /\ \E argc \in 0 .. MaxArgs : CallProperty(w.ctx, base, argc, MethodResults, TRUE)
    <2>1. base \in Seq(Values) /\ MethodResults \in SUBSET Results
        BY <1>1, <1>4, WithTargetType DEF MethodResults
    <2> HIDE DEF w, base
    <2>2. PICK argc \in 0 .. MaxArgs : CallProperty(w.ctx, base, argc, MethodResults, TRUE)
        BY <1>4
    <2>3. argc \in Nat
        BY ConstantsAssumption
    <2> QED BY <1>1, <1>2, <2>1, <2>2, <2>3, CallPropertyCountInv
<1> QED BY <1>3, <1>4, FaultsAreFaults DEF ObjCall

LEMMA InvokeCountInv ==
    ASSUME CountInv, NEW h \in Handles, Invoke(h)
    PROVE  CountInv'
<1> DEFINE w == wrap[h]
           base == stack[w.ctx]
<1>1. w \in Wrappers /\ mainObj \in VMs
    BY WrapperFacts DEF Invoke, Reachable
<1>2. w.ctx \in VMs /\ limit[w.ctx] \in Nat /\ base \in Seq(Values)
    BY <1>1 DEF Wrappers, CountInv, TypeOK
<1>3. CASE \E fault \in Faults : Lose(fault)
    BY <1>3, LoseCountInv
<1>4. CASE \E r \in Results : ReturnValue(w.ctx, base, limit[w.ctx], r, Keep(base, r))
    <2> HIDE DEF w, base
    <2> QED BY <1>1, <1>2, <1>4, KeepType, ReturnCountInv
<1>5. CASE \E e \in Throws, lim \in LimitAfterFailure(w.ctx, Len(base)) :
              RaiseError(w.ctx, base, base, lim, e)
    <2>1. LimitAfterFailure(w.ctx, Len(base)) \subseteq Nat
        BY <1>2, LimitTypes
    <2> HIDE DEF w, base
    <2> QED BY <1>1, <1>2, <1>5, <2>1, RaiseCountInv
<1> QED BY <1>3, <1>4, <1>5, FaultsAreFaults DEF Invoke

LEMMA DropVmCountInv ==
    ASSUME CountInv, NEW v \in VMs, DropVm(v)
    PROVE  CountInv'
<1> USE DEF CountInv
<1>1. /\ held[v] /\ held' = [held EXCEPT ![v] = FALSE]
      /\ refs' = [refs EXCEPT ![v] = @ - 1]
      /\ vm' = IF refs[v] = 1 THEN [vm EXCEPT ![v] = "destroyed"] ELSE vm
      /\ stack' = IF refs[v] = 1 THEN [stack EXCEPT ![v] = << >>] ELSE stack
      /\ UNCHANGED <<limit, mainObj, table, cap, wrap, mode>>
    BY DEF DropVm, Callable, DropReference
<1>2. Cardinality(Owners(v)) \in Nat /\ refs[v] = Cardinality(Owners(v)) + 1
    BY <1>1, OwnersFinite, FS_CardinalityType DEF RefcountExact
<1>3. TypeOK'
    <2>1. << >> \in Seq(Values)
        OBVIOUS
    <2>2. refs[v] - 1 \in Nat
        BY <1>2
    <2> QED BY <1>1, <2>1, <2>2 DEF TypeOK
<1>4. MainObjSet'
    <2>1. \A u \in VMs : vm'[u] # "unborn" => vm[u] # "unborn"
        BY <1>1, <1>2 DEF TypeOK, DestroyedWhenUnheld
    <2> QED BY <1>1, <2>1 DEF MainObjSet
<1>5. RefcountExact'
    <2> SUFFICES ASSUME NEW u \in VMs
                 PROVE  refs'[u] = Cardinality(Owners(u)') + (IF held'[u] THEN 1 ELSE 0)
        BY DEF RefcountExact
    <2>1. Owners(u)' = Owners(u)
        BY <1>1 DEF Owners, Live
    <2>2. CASE u = v
        BY <1>1, <1>2, <2>1, <2>2 DEF TypeOK
    <2>3. CASE u # v
        <3>1. refs'[u] = refs[u] /\ held'[u] = held[u]
            BY <1>1, <2>3 DEF TypeOK
        <3> QED BY <2>1, <3>1 DEF RefcountExact
    <2> QED BY <2>2, <2>3
<1>6. DestroyedWhenUnheld'
    BY <1>1, <1>2 DEF DestroyedWhenUnheld, TypeOK
<1> QED BY <1>3, <1>4, <1>5, <1>6

LEMMA FreeCountInv ==
    ASSUME CountInv, NEW h \in Handles, Free(h)
    PROVE  CountInv'
<1> DEFINE w == wrap[h]
           u == w.vm
<1>1. /\ w \in Wrappers /\ h \in Owners(u)
      /\ refs[u] > 0 /\ vm[u] = "live"
    BY WrapperFacts DEF Free
<1>2. u \in VMs /\ w.ctx \in VMs
    BY <1>1 DEF Wrappers
<1>3. CASE \E fault \in Faults : Lose(fault)
    BY <1>3, LoseCountInv
<1>4. CASE /\ wrap' = [wrap EXCEPT ![h] = NoHandle]
           /\ FreeFaults(w) = {}
           /\ DropReference(u, Cleared(w))
           /\ UNCHANGED <<held, limit, mainObj, table, cap, mode>>
    <2> USE DEF CountInv
    <2>1. /\ refs' = [refs EXCEPT ![u] = @ - 1]
          /\ vm' = IF refs[u] = 1 THEN [vm EXCEPT ![u] = "destroyed"] ELSE vm
          /\ stack' = IF refs[u] = 1 THEN [Cleared(w) EXCEPT ![u] = << >>] ELSE Cleared(w)
        BY <1>4 DEF DropReference
    <2>2. Cleared(w) \in [VMs -> Seq(Values)]
        <3>1. w.idx + 1 \in 1 .. Len(stack[w.ctx])
            <4>1. w.idx \in Nat /\ Len(stack[w.ctx]) \in Nat
                BY <1>1, <1>2 DEF Wrappers, TypeOK
            <4>2. w.idx < Len(stack[w.ctx])
                BY <1>4 DEF FreeFaults, InRange
            <4> QED BY <4>1, <4>2
        <3>2. stack[w.ctx] \in Seq(Values) /\ Undefined \in Values
            BY <1>2 DEF TypeOK, Values
        <3>3. [stack[w.ctx] EXCEPT ![w.idx + 1] = Undefined] \in Seq(Values)
            BY <3>1, <3>2, ExceptSeq
        <3> QED BY <1>2, <3>3 DEF Cleared, TypeOK
    <2>3. TypeOK'
        <3>1. << >> \in Seq(Values)
            OBVIOUS
        <3>2. stack' \in [VMs -> Seq(Values)]
            BY <2>1, <2>2, <3>1
        <3>3. refs' \in [VMs -> Nat]
            BY <1>1, <1>2, <2>1 DEF TypeOK
        <3> QED BY <1>4, <2>1, <3>2, <3>3 DEF TypeOK
    <2>4. MainObjSet'
        BY <1>1, <1>4, <2>1 DEF MainObjSet, TypeOK
    <2>5. RefcountExact'
        <3> SUFFICES ASSUME NEW x \in VMs
                     PROVE  refs'[x] = Cardinality(Owners(x)') + (IF held[x] THEN 1 ELSE 0)
            BY <1>4 DEF RefcountExact
        <3>1. CASE x = u
            <4>1. Owners(x)' = Owners(x) \ {h}
                BY <1>4, <3>1 DEF Owners, Live, TypeOK
            <4>2. Cardinality(Owners(x)') = Cardinality(Owners(x)) - 1
                BY <1>1, <3>1, <4>1, OwnersFinite, FS_RemoveElement
            <4>3. Cardinality(Owners(x)) \in Nat
                BY OwnersFinite, FS_CardinalityType
            <4> QED BY <2>1, <3>1, <4>2, <4>3 DEF RefcountExact, TypeOK
        <3>2. CASE x # u
            <4>1. Owners(x)' = Owners(x)
                BY <1>4, <3>2 DEF Owners, Live, TypeOK
            <4> QED BY <2>1, <3>2, <4>1 DEF RefcountExact, TypeOK
        <3> QED BY <3>1, <3>2
    <2>6. DestroyedWhenUnheld'
        BY <1>1, <1>2, <2>1 DEF DestroyedWhenUnheld, TypeOK
    <2> QED BY <2>3, <2>4, <2>5, <2>6
<1>5. CASE Lose("doubleFree")
    BY <1>5, LoseCountInv DEF Faults
<1> QED BY <1>3, <1>4, <1>5, FaultsAreFaults DEF Free

(***************************************************************************)
(* The theorems                                                            *)
(***************************************************************************)

LEMMA InitCountInv == Init => CountInv
<1> SUFFICES ASSUME Init PROVE CountInv
    OBVIOUS
<1> USE DEF Init
<1>1. TypeOK
    <2>1. << >> \in Seq(Values)
        OBVIOUS
    <2> QED BY <2>1, ConstantsAssumption DEF TypeOK
<1>2. MainObjSet /\ DestroyedWhenUnheld
    BY DEF MainObjSet, DestroyedWhenUnheld
<1>3. RefcountExact
    <2>1. \A v \in VMs : Owners(v) = {}
        BY DEF Owners, Live
    <2>2. Cardinality({}) = 0
        BY FS_EmptySet
    <2>3. \A v \in VMs : refs[v] = 0 /\ held[v] = FALSE /\ Cardinality(Owners(v)) = 0
        BY <2>1, <2>2
    <2> QED BY <2>3 DEF RefcountExact
<1> QED BY <1>1, <1>2, <1>3 DEF CountInv

LEMMA NextCountInv == CountInv /\ [Next]_vars => CountInv'
<1> SUFFICES ASSUME CountInv, [Next]_vars PROVE CountInv'
    OBVIOUS
<1>1. ASSUME NEW v \in VMs, VmStep(v) PROVE CountInv'
    <2>1. CASE Construct(v)
        BY <2>1, ConstructCountInv
    <2>2. CASE Evaluate(v)
        BY <2>2, EvaluateCountInv
    <2>3. CASE Load(v)
        BY <2>3, LoadCountInv
    <2>4. CASE OffsetGet(v)
        BY <2>4, OffsetGetCountInv
    <2>5. CASE SetGlobal(v)
        BY <2>5, LoseCountInv, TripsCountInv, StutterCountInv DEF SetGlobal, Faults
    <2>6. CASE Call(v)
        BY <2>6, CallCountInv
    <2>7. CASE \E n \in Names, r \in Results : SetIntoPhp(v, n, r)
        BY <2>7, SetIntoPhpCountInv
    <2>8. CASE DropVm(v)
        BY <2>8, DropVmCountInv
    <2> QED BY <1>1, <2>1, <2>2, <2>3, <2>4, <2>5, <2>6, <2>7, <2>8 DEF VmStep
<1>2. ASSUME NEW h \in Handles, WrapperStep(h) PROVE CountInv'
    BY <1>2, ObjGetCountInv, ObjCallCountInv, InvokeCountInv, FreeCountInv DEF WrapperStep
<1>3. CASE UNCHANGED vars
    BY <1>3, StutterCountInv
<1> QED BY <1>1, <1>2, <1>3 DEF Next

LEMMA CountInvAlways == Spec => []CountInv
<1> QED BY InitCountInv, NextCountInv, PTL DEF Spec

\* Whatever scripts do, with any number of VMs and wrappers, the state keeps
\* its types: in particular no reference count goes below zero.
THEOREM TypeCorrect == Spec => []TypeOK
<1>1. CountInv => TypeOK
    BY DEF CountInv
<1> QED BY <1>1, CountInvAlways, PTL

\* The counting by hand in wrapper.c is exact: a JS object has as many
\* references as it has holders.
THEOREM RefcountsAreExact == Spec => []RefcountExact
<1>1. CountInv => RefcountExact
    BY DEF CountInv
<1> QED BY <1>1, CountInvAlways, PTL

\* A VM is destroyed when its last holder goes, and never before.
THEOREM VmsDieUnheld == Spec => []DestroyedWhenUnheld
<1>1. CountInv => DestroyedWhenUnheld
    BY DEF CountInv
<1> QED BY <1>1, CountInvAlways, PTL

=============================================================================
