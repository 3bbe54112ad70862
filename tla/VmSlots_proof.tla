---------------------------- MODULE VmSlots_proof ----------------------------
(***************************************************************************)
(* Proofs about the stack slots wrappers rely on, for any number of VMs    *)
(* and wrappers, when no method of a wrapper returns a wrappable value and *)
(* JS code stores none in a PHP variable.                                  *)
(***************************************************************************)
EXTENDS VmWrappers_proof

\* The two ways a wrapper can be made with an index of no slot of its own.
NoDangling == {"methodReturnsObject", "varHoldsObject"} \cap Uses = {}

\* The slots of s are where they were in t.
Extends(s, t) == Len(s) <= Len(t) /\ \A i \in 1 .. Len(s) : t[i] = s[i]

\* The three conjuncts of SlotInv beyond CountInv.
SlotParts == WrappersBorn /\ Pinned /\ SlotsDistinct

\* Losing the process, or a step with no effect, moves no slot.
LEMMA QuietSlotParts ==
    ASSUME SlotInv, UNCHANGED <<vm, stack, wrap>>
    PROVE  SlotParts'
BY DEF SlotInv, SlotParts, WrappersBorn, Pinned, SlotsDistinct, Live, InRange, Target, Slot

\* A step that only adds slots on top of a stack moves no slot.
LEMMA GrowSlotParts ==
    ASSUME SlotInv, NEW v \in VMs, NEW after \in Seq(Values), Extends(stack[v], after),
           stack' = [stack EXCEPT ![v] = after], UNCHANGED <<vm, wrap>>
    PROVE  SlotParts'
<1> USE DEF SlotInv, CountInv
<1>1. WrappersBorn' /\ SlotsDistinct'
    BY DEF WrappersBorn, SlotsDistinct, Live
<1>2. Pinned'
    <2> SUFFICES ASSUME NEW h \in Handles, wrap[h] # NoHandle, vm[wrap[h].ctx] = "live"
                 PROVE  /\ wrap[h].idx < Len(stack'[wrap[h].ctx])
                        /\ stack'[wrap[h].ctx][wrap[h].idx + 1] = wrap[h].obj
        BY DEF Pinned, Live, InRange, Target, Slot
    <2>1. /\ wrap[h].idx < Len(stack[wrap[h].ctx])
          /\ stack[wrap[h].ctx][wrap[h].idx + 1] = wrap[h].obj
        BY DEF Pinned, Live, InRange, Target, Slot
    <2>2. wrap[h].ctx \in VMs /\ wrap[h].idx \in Nat
        BY DEF TypeOK, Wrappers
    <2>3. stack[wrap[h].ctx] \in Seq(Values) /\ stack \in [VMs -> Seq(Values)]
        BY <2>2 DEF TypeOK
    <2>4. CASE wrap[h].ctx = v
        <3>1. stack'[wrap[h].ctx] = after
            BY <2>3, <2>4
        <3>2. Len(stack[v]) \in Nat /\ Len(after) \in Nat
            BY <2>3, <2>4
        <3> QED BY <2>1, <2>2, <2>4, <3>1, <3>2 DEF Extends
    <2>5. CASE wrap[h].ctx # v
        BY <2>1, <2>2, <2>3, <2>5
    <2> QED BY <2>4, <2>5
<1> QED BY <1>1, <1>2 DEF SlotParts

\* A new wrapper of the value that ends up at index Len(base), above every
\* slot in use.
LEMMA WrapSlotParts ==
    ASSUME SlotInv, NEW v \in VMs, vm[v] = "live", NEW r \in Objs,
           NEW base \in Seq(Values), NEW after \in Seq(Values),
           Extends(stack[v], base), Extends(stack[v], after),
           Len(base) < Len(after), after[Len(base) + 1] = r,
           NewWrapper(v, Len(base), r, "var"),
           stack' = [stack EXCEPT ![v] = after], UNCHANGED vm, mainObj \in VMs
    PROVE  SlotParts'
<1> USE DEF SlotInv, CountInv
<1> PICK g \in Handles :
        /\ wrap[g] = NoHandle
        /\ wrap' = [wrap EXCEPT ![g] = [ctx |-> v, idx |-> Len(base), vm |-> mainObj,
                                        cap |-> cap, obj |-> r, holder |-> "var"]]
    BY DEF NewWrapper
<1> DEFINE new == [ctx |-> v, idx |-> Len(base), vm |-> mainObj,
                   cap |-> cap, obj |-> r, holder |-> "var"]
<1>1. /\ wrap'[g] = new /\ \A h \in Handles \ {g} : wrap'[h] = wrap[h]
      /\ new.ctx = v /\ new.idx = Len(base) /\ new.obj = r
    BY DEF TypeOK
<1>2. stack'[v] = after /\ \A u \in VMs \ {v} : stack'[u] = stack[u]
    BY DEF TypeOK
<1>3. Len(stack[v]) \in Nat /\ Len(base) \in Nat /\ Len(after) \in Nat
    BY DEF TypeOK
<1>4. \A h \in Handles : wrap[h] # NoHandle => wrap[h].ctx \in VMs /\ wrap[h].idx \in Nat
    BY DEF TypeOK, Wrappers
<1> HIDE DEF new
<1>5. WrappersBorn'
    BY <1>1 DEF WrappersBorn, Live
<1>6. Pinned'
    <2> SUFFICES ASSUME NEW h \in Handles, wrap'[h] # NoHandle, vm[wrap'[h].ctx] = "live"
                 PROVE  /\ wrap'[h].idx < Len(stack'[wrap'[h].ctx])
                        /\ stack'[wrap'[h].ctx][wrap'[h].idx + 1] = wrap'[h].obj
        BY DEF Pinned, Live, InRange, Target, Slot
    <2>1. CASE h = g
        BY <1>1, <1>2, <1>3, <2>1
    <2>2. CASE h # g
        <3>1. /\ wrap[h].idx < Len(stack[wrap[h].ctx])
              /\ stack[wrap[h].ctx][wrap[h].idx + 1] = wrap[h].obj
            BY <1>1, <2>2 DEF Pinned, Live, InRange, Target, Slot
        <3>2. wrap'[h] = wrap[h] /\ wrap[h] # NoHandle
            BY <1>1, <2>2
        <3>3. CASE wrap[h].ctx = v
            BY <1>2, <1>3, <1>4, <3>1, <3>2, <3>3 DEF Extends
        <3>4. CASE wrap[h].ctx # v
            BY <1>2, <1>4, <3>1, <3>2, <3>4
        <3> QED BY <3>3, <3>4
    <2> QED BY <2>1, <2>2
<1>7. SlotsDistinct'
    <2>1. \A h \in Handles : wrap[h] # NoHandle /\ wrap[h].ctx = v => wrap[h].idx < Len(base)
        BY <1>3, <1>4 DEF Pinned, Live, InRange, Extends
    <2>2. \A h \in Handles : wrap[h] # NoHandle /\ wrap[h].ctx = v => wrap[h].idx # Len(base)
        BY <1>3, <1>4, <2>1
    <2> QED BY <1>1, <2>2 DEF SlotsDistinct, Live
<1> QED BY <1>5, <1>6, <1>7 DEF SlotParts

(***************************************************************************)
(* The endings of a method call                                            *)
(***************************************************************************)

\* What Keep and Popped leave extends what was there.
LEMMA ExtendsAppend ==
    ASSUME NEW s \in Seq(Values), NEW x
    PROVE  Extends(s, s) /\ Extends(s, Append(s, x))
BY DEF Extends

LEMMA ExtendsKeep ==
    ASSUME NEW s \in Seq(Values), NEW base \in Seq(Values), Extends(s, base), NEW r \in Results
    PROVE  /\ Extends(s, Keep(base, r))
           /\ r \in Objs => Len(base) < Len(Keep(base, r)) /\ Keep(base, r)[Len(base) + 1] = r
<1>1. CASE r \in Objs
    BY <1>1 DEF Keep, Extends
<1>2. CASE r \notin Objs
    BY <1>2 DEF Keep
<1> QED BY <1>1, <1>2

LEMMA LoseSlotParts ==
    ASSUME SlotInv, NEW fault, Lose(fault)
    PROVE  SlotParts'
BY QuietSlotParts DEF Lose

LEMMA ReturnSlotParts ==
    ASSUME SlotInv, NEW v \in VMs, vm[v] = "live", mainObj \in VMs,
           NEW base \in Seq(Values), NEW lim, NEW r \in Results, NEW after,
           r \notin {Unsafe, Mixed} => after \in Seq(Values),
           Extends(stack[v], base), Extends(stack[v], after),
           r \in Objs => Len(base) < Len(after) /\ after[Len(base) + 1] = r,
           ReturnValue(v, base, lim, r, after)
    PROVE  SlotParts'
<1>1. CASE \E fault \in ConvertFaults(Len(base) + 1, lim, r) : Lose(fault)
    BY <1>1, LoseSlotParts
<1>2. CASE ~ \E fault \in ConvertFaults(Len(base) + 1, lim, r) : Lose(fault)
    <2>1. /\ ConvertFaults(Len(base) + 1, lim, r) = {}
          /\ IF r \in Objs THEN NewWrapper(v, Len(base), r, "var") ELSE UNCHANGED <<wrap, refs>>
          /\ stack' = [stack EXCEPT ![v] = after]
          /\ UNCHANGED <<vm, mainObj>>
        BY <1>2 DEF ReturnValue, TopIndex
    <2>2. after \in Seq(Values)
        BY <2>1 DEF ConvertFaults, When
    <2>3. CASE r \in Objs
        BY <2>1, <2>2, <2>3, WrapSlotParts
    <2>4. CASE r \notin Objs
        BY <2>1, <2>2, <2>4, GrowSlotParts
    <2> QED BY <2>3, <2>4
<1> QED BY <1>1, <1>2

LEMMA RaiseSlotParts ==
    ASSUME SlotInv, NEW v \in VMs, NEW base, NEW after \in Seq(Values), NEW lim, NEW e,
           Extends(stack[v], after), RaiseError(v, base, after, lim, e)
    PROVE  SlotParts'
<1>1. CASE \E fault \in ThrowFaults(Len(base) + 1, lim, e) : Lose(fault)
    BY <1>1, LoseSlotParts
<1>2. CASE ~ \E fault \in ThrowFaults(Len(base) + 1, lim, e) : Lose(fault)
    <2>1. stack' = [stack EXCEPT ![v] = after] /\ UNCHANGED <<vm, wrap>>
        BY <1>2 DEF RaiseError
    <2> QED BY <2>1, GrowSlotParts
<1> QED BY <1>1, <1>2

\* phpjs_php__call: with a final pop, only results that are not wrapped.
LEMMA CallPropertySlotParts ==
    ASSUME SlotInv, NEW v \in VMs, vm[v] = "live", mainObj \in VMs,
           NEW base \in Seq(Values), NEW argc, NEW results \in SUBSET Results,
           NEW pops \in BOOLEAN, pops => results \cap Objs = {},
           Extends(stack[v], base), Extends(stack[v], Popped(base, pops)),
           CallProperty(v, base, argc, results, pops)
    PROVE  SlotParts'
<1>1. CASE Lose("stackFull")
    BY <1>1, LoseSlotParts
<1>2. Popped(base, pops) \in Seq(Values)
    BY PoppedType
<1>3. CASE /\ stack' = [stack EXCEPT ![v] = Popped(base, pops)]
           /\ UNCHANGED <<vm, held, refs, limit, mainObj, table, cap, wrap, mode>>
    BY <1>2, <1>3, GrowSlotParts
<1>4. CASE \E r \in results : ReturnValue(v, base, limit[v], r, Popped(Keep(base, r), pops))
    <2> PICK r \in results : ReturnValue(v, base, limit[v], r, Popped(Keep(base, r), pops))
        BY <1>4
    <2> DEFINE after == Popped(Keep(base, r), pops)
    <2>1. r \in Results /\ Keep(base, r) \in Seq(Values)
        BY KeepType
    <2>2. after \in Seq(Values)
        BY <2>1, PoppedType
    <2>3. /\ Extends(stack[v], after)
          /\ r \in Objs => Len(base) < Len(after) /\ after[Len(base) + 1] = r
        <3>1. CASE pops
            <4>1. r \notin Objs /\ after = Popped(base, pops)
                BY <3>1 DEF Keep
            <4> QED BY <4>1
        <3>2. CASE ~pops
            <4>1. after = Keep(base, r)
                BY <3>2 DEF Popped
            <4>2. stack[v] \in Seq(Values)
                BY DEF SlotInv, CountInv, TypeOK
            <4> QED BY <2>1, <4>1, <4>2, ExtendsKeep
        <3> QED BY <3>1, <3>2
    <2> HIDE DEF after
    <2> QED BY <2>1, <2>2, <2>3, ReturnSlotParts DEF after
<1>5. CASE \E e \in Throws, lim \in LimitAfterFailure(v, Len(base)) :
              RaiseError(v, base, Popped(base, pops), lim, e)
    BY <1>2, <1>5, RaiseSlotParts
<1>6. CASE Trips
    BY <1>6, LoseSlotParts DEF Trips
<1> QED BY <1>1, <1>3, <1>4, <1>5, <1>6 DEF CallProperty

(***************************************************************************)
(* The actions                                                             *)
(***************************************************************************)

LEMMA ConstructSlotParts ==
    ASSUME SlotInv, NEW v \in VMs, Construct(v)
    PROVE  SlotParts'
<1> USE DEF SlotInv, CountInv
<1>1. /\ vm[v] = "unborn" /\ vm' = [vm EXCEPT ![v] = "live"]
      /\ stack' = [stack EXCEPT ![v] = <<Undefined>>] /\ UNCHANGED wrap
    BY DEF Construct
<1>2. \A h \in Handles : wrap[h] # NoHandle => wrap[h].ctx \in VMs /\ wrap[h].ctx # v
    BY <1>1 DEF WrappersBorn, Live, TypeOK, Wrappers
<1>3. \A u \in VMs \ {v} : vm'[u] = vm[u] /\ stack'[u] = stack[u]
    BY <1>1 DEF TypeOK
<1>4. WrappersBorn' /\ SlotsDistinct'
    BY <1>1, <1>2, <1>3 DEF WrappersBorn, SlotsDistinct, Live
<1>5. Pinned'
    BY <1>1, <1>2, <1>3 DEF Pinned, Live, InRange, Target, Slot
<1> QED BY <1>4, <1>5 DEF SlotParts

LEMMA VmMethodsSlotParts ==
    ASSUME SlotInv, NEW v \in VMs, Evaluate(v) \/ Load(v) \/ OffsetGet(v) \/ SetGlobal(v) \/ Call(v)
    PROVE  SlotParts'
<1> DEFINE s == stack[v]
           lim == LimitAfterCompile(v)
           base == Append(s, Global)
<1>1. vm[v] = "live" /\ mainObj \in VMs
    BY CallableLive DEF Evaluate, Load, OffsetGet, SetGlobal, Call, SlotInv
<1>2. s \in Seq(Values) /\ base \in Seq(Values)
    BY DEF SlotInv, CountInv, TypeOK, Values
<1>3. Extends(s, s) /\ Extends(s, base)
    BY <1>2, ExtendsAppend
<1> HIDE DEF lim, base
<1>4. CASE Lose("stackFull") \/ UNCHANGED vars
    BY <1>4, LoseSlotParts, QuietSlotParts DEF vars
<1>5. CASE \E r \in Results : ReturnValue(v, s, lim, r, Keep(s, r))
    BY <1>1, <1>2, <1>3, <1>5, KeepType, ExtendsKeep, ReturnSlotParts
<1>6. CASE \E r \in Results : ReturnValue(v, s, lim, r, Append(Keep(s, r), r))
    <2> PICK r \in Results : ReturnValue(v, s, lim, r, Append(Keep(s, r), r))
        BY <1>6
    <2> DEFINE after == Append(Keep(s, r), r)
    <2>1. Keep(s, r) \in Seq(Values) /\ (r \notin {Unsafe, Mixed} => r \in Values)
        BY <1>2, KeepType, ConvertedIsValue
    <2>2. /\ Extends(s, Keep(s, r))
          /\ r \in Objs => Len(s) < Len(Keep(s, r)) /\ Keep(s, r)[Len(s) + 1] = r
        BY <1>2, <1>3, ExtendsKeep
    <2>3. r \notin {Unsafe, Mixed} => after \in Seq(Values)
        BY <2>1
    <2>4. Extends(s, after) /\ (r \in Objs => Len(s) < Len(after) /\ after[Len(s) + 1] = r)
        BY <1>2, <2>1, <2>2 DEF Extends
    <2> HIDE DEF after
    <2> QED BY <1>1, <1>2, <1>3, <2>3, <2>4, ReturnSlotParts DEF after
<1>7. CASE \E e \in Throws : RaiseError(v, s, s, lim, e)
    BY <1>2, <1>3, <1>7, RaiseSlotParts
<1>8. CASE \E r \in Results : ReturnValue(v, base, limit[v], r, Keep(base, r))
    BY <1>1, <1>2, <1>3, <1>8, KeepType, ExtendsKeep, ReturnSlotParts
<1>9. CASE \E argc \in 0 .. MaxArgs : CallProperty(v, base, argc, Results, FALSE)
    <2>1. Popped(base, FALSE) = base
        BY DEF Popped
    <2> QED BY <1>1, <1>2, <1>3, <1>9, <2>1, CallPropertySlotParts
<1>10. CASE Trips
    BY <1>10, LoseSlotParts DEF Trips
<1> QED BY <1>4, <1>5, <1>6, <1>7, <1>8, <1>9, <1>10
        DEF Evaluate, Load, OffsetGet, SetGlobal, Call, lim, base

LEMMA SetIntoPhpSlotParts ==
    ASSUME NoDangling, SlotInv, NEW v \in VMs, NEW n \in Names, NEW r \in Results,
           SetIntoPhp(v, n, r)
    PROVE  SlotParts'
<1>1. CASE \E fault \in TrapFaults(v, r) : Lose(fault)
    BY <1>1, LoseSlotParts
<1>2. CASE ~ \E fault \in TrapFaults(v, r) : Lose(fault)
    <2>1. r \notin Objs
        BY DEF SetIntoPhp, NoDangling
    <2>2. UNCHANGED <<vm, stack, wrap>>
        BY <1>2, <2>1 DEF SetIntoPhp
    <2> QED BY <2>2, QuietSlotParts
<1> QED BY <1>1, <1>2

\* A method of a wrapper runs in a VM that is alive.
LEMMA DupLive ==
    ASSUME NEW w, DupFaults(w) = {}
    PROVE  vm[w.ctx] = "live"
BY DEF DupFaults

LEMMA WrapperMethodsSlotParts ==
    ASSUME NoDangling, SlotInv, NEW h \in Handles, ObjGet(h) \/ ObjCall(h) \/ Invoke(h)
    PROVE  SlotParts'
<1> DEFINE w == wrap[h]
           s == stack[w.ctx]
           base == WithTarget(w)
<1>1. w \in Wrappers /\ mainObj \in VMs
    BY WrapperFacts DEF ObjGet, ObjCall, Invoke, Reachable, SlotInv
<1>2. w.ctx \in VMs /\ s \in Seq(Values)
    BY <1>1 DEF Wrappers, SlotInv, CountInv, TypeOK
<1>3. CASE \E fault : Lose(fault)
    BY <1>3, LoseSlotParts
<1>4. ASSUME DupFaults(w) = {}
      PROVE  /\ vm[w.ctx] = "live" /\ base \in Seq(Values)
             /\ Extends(s, s) /\ Extends(s, base) /\ Popped(base, TRUE) = s
    <2>1. vm[w.ctx] = "live" /\ base \in Seq(Values)
        BY <1>1, <1>4, DupLive, WithTargetType DEF SlotInv
    <2>2. base = Append(s, Target(w))
        BY DEF WithTarget
    <2>3. Extends(s, s) /\ Extends(s, base)
        BY <1>2, <2>2, ExtendsAppend
    <2>4. Target(w) \in Values
        <3>1. w.idx \in Nat /\ w.idx < Len(stack[w.ctx])
            BY <1>1, <1>4 DEF DupFaults, When, InRange, Wrappers
        <3>2. stack[w.ctx][w.idx + 1] \in Values
            BY <1>2, <3>1
        <3> QED BY <3>2 DEF Target, Slot
    <2>5. SubSeq(Append(s, Target(w)), 1, Len(s)) = s
        BY <1>2, <2>4, AppendProperties, SubSeqFull
    <2>6. Popped(base, TRUE) = s
        BY <1>2, <2>2, <2>4, <2>5 DEF Popped
    <2> QED BY <2>1, <2>3, <2>6
<1>5. CASE ObjGet(h) /\ DupFaults(w) = {} /\ ~ \E fault : Lose(fault)
    <2>1. PICK r \in Results : ReturnValue(w.ctx, base, limit[w.ctx], r, Keep(base, r))
        BY <1>5 DEF ObjGet, Trips
    <2> HIDE DEF w, base, s
    <2>2. Extends(stack[w.ctx], base)
        BY <1>4, <1>5 DEF s
    <2>3. /\ base \in Seq(Values) /\ Keep(base, r) \in Seq(Values)
          /\ Extends(stack[w.ctx], Keep(base, r))
          /\ r \in Objs => Len(base) < Len(Keep(base, r)) /\ Keep(base, r)[Len(base) + 1] = r
        BY <1>2, <1>4, <1>5, <2>2, KeepType, ExtendsKeep DEF s
    <2> QED BY <1>1, <1>2, <1>4, <1>5, <2>1, <2>2, <2>3, ReturnSlotParts
<1>6. CASE ObjCall(h) /\ DupFaults(w) = {} /\ ~ \E fault : Lose(fault)
    <2>1. \E argc \in 0 .. MaxArgs : CallProperty(w.ctx, base, argc, MethodResults, TRUE)
        BY <1>6 DEF ObjCall
    <2>2. MethodResults \in SUBSET Results /\ MethodResults \cap Objs = {}
        BY DEF MethodResults, NoDangling
    <2> HIDE DEF w, base
    <2> QED BY <1>1, <1>2, <1>4, <1>6, <2>1, <2>2, CallPropertySlotParts
<1>7. CASE Invoke(h) /\ DupFaults(w) = {} /\ ~ \E fault : Lose(fault)
    <2>1. CASE \E r \in Results : ReturnValue(w.ctx, s, limit[w.ctx], r, Keep(s, r))
        <3> PICK r \in Results : ReturnValue(w.ctx, s, limit[w.ctx], r, Keep(s, r))
            BY <2>1
        <3> HIDE DEF w
        <3>1. Keep(s, r) \in Seq(Values) /\ Extends(s, Keep(s, r))
            BY <1>2, <1>4, <1>7, KeepType, ExtendsKeep
        <3>2. r \in Objs => Len(s) < Len(Keep(s, r)) /\ Keep(s, r)[Len(s) + 1] = r
            BY <1>2, <1>4, <1>7, ExtendsKeep
        <3> QED BY <1>1, <1>2, <1>4, <1>7, <3>1, <3>2, ReturnSlotParts
    <2>2. CASE \E e \in Throws, lim \in LimitAfterFailure(w.ctx, Len(s)) :
                  RaiseError(w.ctx, s, s, lim, e)
        <3> PICK e \in Throws, lim \in LimitAfterFailure(w.ctx, Len(s)) :
                    RaiseError(w.ctx, s, s, lim, e)
            BY <2>2
        <3> HIDE DEF w
        <3> QED BY <1>2, <1>4, <1>7, RaiseSlotParts
    <2> QED BY <1>7, <2>1, <2>2 DEF Invoke
<1> QED BY <1>3, <1>5, <1>6, <1>7 DEF ObjGet, ObjCall, Invoke

LEMMA DropVmSlotParts ==
    ASSUME SlotInv, NEW v \in VMs, DropVm(v)
    PROVE  SlotParts'
<1> USE DEF SlotInv, CountInv
<1>1. /\ vm' = IF refs[v] = 1 THEN [vm EXCEPT ![v] = "destroyed"] ELSE vm
      /\ stack' = IF refs[v] = 1 THEN [stack EXCEPT ![v] = << >>] ELSE stack
      /\ UNCHANGED wrap
    BY DEF DropVm, DropReference
<1>2. \A h \in Handles : wrap[h] # NoHandle => wrap[h].ctx \in VMs
    BY DEF TypeOK, Wrappers
<1>3. \A u \in VMs : /\ vm'[u] = "live" => vm[u] = "live" /\ stack'[u] = stack[u]
                     /\ vm'[u] = "unborn" => vm[u] = "unborn"
    BY <1>1 DEF TypeOK
<1>4. WrappersBorn' /\ SlotsDistinct'
    BY <1>1, <1>2, <1>3 DEF WrappersBorn, SlotsDistinct, Live
<1>5. Pinned'
    BY <1>1, <1>2, <1>3 DEF Pinned, Live, InRange, Target, Slot
<1> QED BY <1>4, <1>5 DEF SlotParts

\* phpjs_wrapped_free clears its own slot and no other.
LEMMA FreeSlotParts ==
    ASSUME SlotInv, NEW h \in Handles, Free(h)
    PROVE  SlotParts'
<1> USE DEF SlotInv, CountInv
<1> DEFINE w == wrap[h]
           u == w.vm
<1>1. CASE \E fault : Lose(fault)
    BY <1>1, LoseSlotParts
<1>2. CASE ~ \E fault : Lose(fault)
    <2>1. /\ wrap[h] # NoHandle /\ wrap' = [wrap EXCEPT ![h] = NoHandle]
          /\ vm' = IF refs[u] = 1 THEN [vm EXCEPT ![u] = "destroyed"] ELSE vm
          /\ stack' = IF refs[u] = 1 THEN [Cleared(w) EXCEPT ![u] = << >>] ELSE Cleared(w)
        BY <1>2 DEF Free, DropReference
    <2>2. /\ w.ctx \in VMs /\ u \in VMs
          /\ \A g \in Handles : wrap[g] # NoHandle => wrap[g].ctx \in VMs /\ wrap[g].idx \in Nat
        BY <2>1 DEF TypeOK, Wrappers
    <2>3. /\ wrap'[h] = NoHandle
          /\ \A g \in Handles \ {h} : wrap'[g] = wrap[g]
        BY <2>1 DEF TypeOK
    <2>4. \A x \in VMs : /\ vm'[x] = "live" => vm[x] = "live" /\ stack'[x] = Cleared(w)[x]
                         /\ vm'[x] = "unborn" => vm[x] = "unborn"
        <3>1. DOMAIN Cleared(w) = VMs
            BY DEF Cleared, TypeOK
        <3> QED BY <2>1, <2>2, <3>1 DEF TypeOK
    <2>5. \A x \in VMs, i \in Nat :
             /\ Len(Cleared(w)[x]) = Len(stack[x])
             /\ x # w.ctx \/ i # w.idx => Cleared(w)[x][i + 1] = stack[x][i + 1]
        <3> SUFFICES ASSUME NEW x \in VMs, NEW i \in Nat
                     PROVE  /\ Len(Cleared(w)[x]) = Len(stack[x])
                            /\ x # w.ctx \/ i # w.idx => Cleared(w)[x][i + 1] = stack[x][i + 1]
            OBVIOUS
        <3>1. stack[x] \in Seq(Values) /\ w.idx \in Nat
            BY <2>1, <2>2 DEF TypeOK
        <3>2. CASE x = w.ctx
            <4>1. Cleared(w)[x] = [stack[x] EXCEPT ![w.idx + 1] = Undefined]
                BY <3>2 DEF Cleared, TypeOK
            <4> QED BY <3>1, <3>2, <4>1
        <3>3. CASE x # w.ctx
            BY <3>3 DEF Cleared, TypeOK
        <3> QED BY <3>2, <3>3
    <2> HIDE DEF w, u
    <2>6. WrappersBorn' /\ SlotsDistinct'
        BY <2>2, <2>3, <2>4 DEF WrappersBorn, SlotsDistinct, Live
    <2>7. Pinned'
        <3> SUFFICES ASSUME NEW g \in Handles, wrap'[g] # NoHandle, vm'[wrap'[g].ctx] = "live"
                     PROVE  /\ wrap'[g].idx < Len(stack'[wrap'[g].ctx])
                            /\ stack'[wrap'[g].ctx][wrap'[g].idx + 1] = wrap'[g].obj
            BY DEF Pinned, Live, InRange, Target, Slot
        <3>1. g # h /\ wrap'[g] = wrap[g] /\ wrap[g].ctx \in VMs /\ wrap[g].idx \in Nat
            BY <2>2, <2>3
        <3>2. vm[wrap[g].ctx] = "live" /\ stack'[wrap[g].ctx] = Cleared(w)[wrap[g].ctx]
            BY <2>4, <3>1
        <3>3. /\ wrap[g].idx < Len(stack[wrap[g].ctx])
              /\ stack[wrap[g].ctx][wrap[g].idx + 1] = wrap[g].obj
            BY <3>1, <3>2 DEF Pinned, Live, InRange, Target, Slot
        <3>4. wrap[g].ctx # w.ctx \/ wrap[g].idx # w.idx
            BY <2>1, <3>1 DEF SlotsDistinct, Live, w
        <3> QED BY <2>5, <3>1, <3>2, <3>3, <3>4
    <2> QED BY <2>6, <2>7 DEF SlotParts
<1> QED BY <1>1, <1>2

LEMMA InitSlotParts == Init => SlotParts
BY NoHandleIsNoWrapper DEF Init, SlotParts, WrappersBorn, Pinned, SlotsDistinct, Live

LEMMA NextSlotInv ==
    ASSUME NoDangling
    PROVE  SlotInv /\ [Next]_vars => SlotInv'
<1> SUFFICES ASSUME SlotInv, [Next]_vars PROVE SlotInv'
    OBVIOUS
<1>1. CountInv'
    BY NextCountInv DEF SlotInv
<1>2. SlotParts'
    <2>1. ASSUME NEW v \in VMs, VmStep(v) PROVE SlotParts'
        <3>1. CASE Construct(v)
            BY <3>1, ConstructSlotParts
        <3>2. CASE Evaluate(v) \/ Load(v) \/ OffsetGet(v) \/ SetGlobal(v) \/ Call(v)
            BY <3>2, VmMethodsSlotParts
        <3>3. CASE \E n \in Names, r \in Results : SetIntoPhp(v, n, r)
            BY <3>3, SetIntoPhpSlotParts
        <3>4. CASE DropVm(v)
            BY <3>4, DropVmSlotParts
        <3> QED BY <2>1, <3>1, <3>2, <3>3, <3>4 DEF VmStep
    <2>2. ASSUME NEW h \in Handles, WrapperStep(h) PROVE SlotParts'
        <3>1. CASE ObjGet(h) \/ ObjCall(h) \/ Invoke(h)
            BY <3>1, WrapperMethodsSlotParts
        <3>2. CASE Free(h)
            BY <3>2, FreeSlotParts
        <3> QED BY <2>2, <3>1, <3>2 DEF WrapperStep
    <2>3. CASE UNCHANGED vars
        BY <2>3, QuietSlotParts DEF vars
    <2> QED BY <2>1, <2>2, <2>3 DEF Next
<1> QED BY <1>1, <1>2 DEF SlotInv, SlotParts

LEMMA SlotInvAlways ==
    ASSUME NoDangling
    PROVE  Spec => []SlotInv
<1>1. Init => SlotInv
    BY InitCountInv, InitSlotParts DEF SlotInv, SlotParts
<1>2. SlotInv /\ [Next]_vars => SlotInv'
    BY NextSlotInv
<1> QED BY <1>1, <1>2, PTL DEF Spec

\* However a script interleaves methods and releases of its wrappers, over
\* any number of VMs, the slot of a wrapper holds the object the wrapper was
\* made for as long as the VM exists: phpjs_add_duk_context and
\* phpjs_wrapped_free need no other bookkeeping, as long as a wrapper's own
\* method returns no wrappable value (objects.c:33).
THEOREM WrappersStayPinned ==
    ASSUME NoDangling
    PROVE  Spec => []Pinned
<1>1. SlotInv => Pinned
    BY DEF SlotInv
<1> QED BY <1>1, SlotInvAlways, PTL

\* Two wrappers never share a slot, so the duk_to_undefined of one release
\* leaves every other wrapper alone.
THEOREM WrappersKeepApart ==
    ASSUME NoDangling
    PROVE  Spec => []SlotsDistinct
<1>1. SlotInv => SlotsDistinct
    BY DEF SlotInv
<1> QED BY <1>1, SlotInvAlways, PTL

=============================================================================
