---------------------------- MODULE VmSafety_proof ----------------------------
(***************************************************************************)
(* Proofs about how a process is lost, for any number of wrappers, objects *)
(* and variables: which programs go through no slot, VM or table entry     *)
(* that is gone, use no index out of range, and fail in known ways only;   *)
(* how many calls fit in a stack; and that the slots and counts implement  *)
(* handles that keep their meaning.                                        *)
(***************************************************************************)
EXTENDS VmSlots_proof, ShortScripts

(***************************************************************************)
(* Programs                                                                *)
(***************************************************************************)

\* The script makes one JS object.
OneVm == \A u, v \in VMs : u = v

\* The variables JS sets fit in the table as it is made (TableSize is 8).
FewNames == IsFiniteSet(Names) /\ Cardinality(Names) < TableSize

\* The table has not moved since any wrapper took an address in it.
TableStays == cap = TableSize /\ \A h \in Handles : Live(h) => wrap[h].cap = cap

\* With one VM a wrapper counts a reference on the VM its slot is in.
LEMMA WrapperKeepsVm ==
    ASSUME OneVm, CountInv, NEW h \in Handles, Live(h)
    PROVE  /\ vm[wrap[h].ctx] = "live" /\ wrap[h].vm = wrap[h].ctx
           /\ wrap[h].ctx \in VMs /\ wrap[h] \in Wrappers
BY WrapperFacts DEF Live, OneVm, Wrappers

(***************************************************************************)
(* Why a process is lost, and how fast a stack fills                       *)
(***************************************************************************)

\* The table is never moved: JS code sets no variable, or fewer than fit.
TableFits == "newVars" \notin Uses \/ FewNames

\* What has to be the case for a step to lose the process.
Cause(fault) ==
    \/ fault = "stackFull" /\ NoRoom
    \/ fault = "uncaught" /\ (Unsafe \in Results \/ ThrownNull \in Throws)
    \/ fault = "uncaught" /\ "oddProperties" \in Uses
    \/ fault = "doubleFree"
    \/ fault = "undefined" /\ Mixed \in Results
    \/ fault = "undefined" /\ vm[mainObj] # "live" /\ \E v \in VMs : vm[v] = "live"
    \/ \E h \in Handles : Live(h) /\ fault \in FreeFaults(wrap[h])
    \/ \E h \in Handles :
          Live(h) /\ vm[wrap[h].ctx] # "live" /\ fault = "undefined"
    \/ \E h \in Handles :
          Live(h) /\ vm[wrap[h].ctx] = "live" /\ fault = "badIndex" /\ ~InRange(wrap[h].ctx, wrap[h].idx)
    \/ \E h \in Handles :
          Live(h) /\ vm[wrap[h].ctx] = "live" /\ fault = "uncaught" /\ Target(wrap[h]) = Undefined

Breaks == \E fault \in Faults : Lose(fault) /\ Cause(fault)

\* A call leaves two slots at most on a stack and never lowers its limit; a
\* wrapper it makes takes its address in the table as it is.
GoesOn ==
    /\ UNCHANGED <<vm, mode>>
    /\ \A u \in VMs : Len(stack'[u]) <= Len(stack[u]) + 2 /\ limit[u] <= limit'[u]
    /\ \A h \in Handles : wrap'[h] = wrap[h] \/ wrap'[h].cap = cap
    /\ TableFits /\ cap = TableSize => cap' = cap

\* The limits a call may run under.
LEMMA LimitsGrow ==
    ASSUME CountInv, NEW v \in VMs, NEW top \in Nat
    PROVE  /\ limit[v] \in Nat
           /\ LimitAfterCompile(v) \in Nat /\ limit[v] <= LimitAfterCompile(v)
           /\ \A lim \in LimitAfterFailure(v, top) : lim \in Nat /\ limit[v] <= lim
<1>1. limit[v] \in Nat /\ Len(stack[v]) \in Nat /\ Headroom \in Nat
    BY ConstantsAssumption DEF CountInv, TypeOK
<1> QED BY <1>1 DEF LimitAfterCompile, LimitAfterFailure, Larger

LEMMA MarginFacts ==
    /\ Margin \in Nat /\ Margin >= 5
    /\ \A argc \in 0 .. MaxArgs : 2 + argc <= Margin
    /\ \A r \in Results : ConvertNeed(r) \in Nat /\ 2 + ConvertNeed(r) <= Margin
<1>1. HashNeed \in Nat /\ MaxArgs \in Nat
    BY ConstantsAssumption
<1>2. /\ Margin \in Nat /\ Margin >= 5 /\ Margin >= 2 + HashNeed /\ Margin >= 2 + MaxArgs
    BY <1>1 DEF Margin, Larger, PropNeed
<1>3. \A r \in Results : ConvertNeed(r) \in {0, 1, 3, HashNeed}
    BY DEF ConvertNeed, PropNeed
<1> QED BY <1>1, <1>2, <1>3

LEMMA WrapsHere ==
    ASSUME CountInv, NEW v, NEW i, NEW r, NEW holder, NewWrapper(v, i, r, holder)
    PROVE  \A h \in Handles : wrap'[h] = wrap[h] \/ wrap'[h].cap = cap
BY DEF NewWrapper, CountInv, TypeOK

LEMMA StackGoesOn ==
    ASSUME CountInv, NEW v \in VMs, NEW after, NEW lim \in Nat, limit[v] <= lim,
           Len(after) \in Nat, Len(after) <= Len(stack[v]) + 2,
           stack' = [stack EXCEPT ![v] = after], limit' = [limit EXCEPT ![v] = lim]
    PROVE  \A u \in VMs : Len(stack'[u]) <= Len(stack[u]) + 2 /\ limit[u] <= limit'[u]
<1> SUFFICES ASSUME NEW u \in VMs
             PROVE  Len(stack'[u]) <= Len(stack[u]) + 2 /\ limit[u] <= limit'[u]
    OBVIOUS
<1>1. Len(stack[u]) \in Nat /\ limit[u] \in Nat
    BY DEF CountInv, TypeOK
<1>2. CASE u = v
    BY <1>2 DEF CountInv, TypeOK
<1>3. CASE u # v
    <2>1. stack'[u] = stack[u] /\ limit'[u] = limit[u]
        BY <1>3 DEF CountInv, TypeOK
    <2> QED BY <1>1, <2>1
<1> QED BY <1>2, <1>3

LEMMA ReturnGoesOn ==
    ASSUME CountInv, NEW v \in VMs, vm[v] = "live",
           NEW base, NEW lim \in Nat, limit[v] <= lim, NEW r \in Results, NEW after,
           Len(base) \in Nat, Len(base) <= Len(stack[v]) + 1,
           r \notin {Unsafe, Mixed} => Len(after) \in Nat /\ Len(after) <= Len(stack[v]) + 2,
           ReturnValue(v, base, lim, r, after)
    PROVE  Breaks \/ GoesOn
<1>1. Len(stack[v]) \in Nat /\ limit[v] \in Nat
    BY DEF CountInv, TypeOK
<1>2. ASSUME NEW fault \in ConvertFaults(Len(base) + 1, lim, r), Lose(fault) PROVE Breaks
    <2>1. fault \in Faults
        BY FaultsAreFaults
    <2>2. CASE fault = "stackFull"
        <3>1. Len(base) + 1 + ConvertNeed(r) > lim
            BY <1>2, <2>2 DEF ConvertFaults, When
        <3>2. limit[v] < Len(stack[v]) + Margin
            BY <1>1, <3>1, MarginFacts
        <3> QED BY <1>2, <2>1, <2>2, <3>2 DEF Breaks, Cause, NoRoom
    <2>3. CASE fault # "stackFull"
        <3>1. \/ fault = "uncaught" /\ r = Unsafe
              \/ fault = "undefined" /\ r = Mixed
              \/ fault = "undefined" /\ vm[mainObj] # "live"
            BY <1>2, <2>3 DEF ConvertFaults, When
        <3> QED BY <1>2, <2>1, <3>1 DEF Breaks, Cause
    <2> QED BY <2>2, <2>3
<1>3. CASE ~ \E fault \in ConvertFaults(Len(base) + 1, lim, r) : Lose(fault)
    <2>1. /\ ConvertFaults(Len(base) + 1, lim, r) = {}
          /\ IF r \in Objs THEN NewWrapper(v, TopIndex(base), r, "var") ELSE UNCHANGED <<wrap, refs>>
          /\ stack' = [stack EXCEPT ![v] = after]
          /\ limit' = [limit EXCEPT ![v] = lim]
          /\ UNCHANGED <<vm, cap, mode>>
        BY <1>3 DEF ReturnValue
    <2>2. r \notin {Unsafe, Mixed}
        BY <2>1 DEF ConvertFaults, When
    <2>3. \A h \in Handles : wrap'[h] = wrap[h] \/ wrap'[h].cap = cap
        BY <2>1, WrapsHere
    <2> QED BY <2>1, <2>2, <2>3, StackGoesOn DEF GoesOn
<1> QED BY <1>2, <1>3

LEMMA RaiseGoesOn ==
    ASSUME CountInv, NEW v \in VMs, vm[v] = "live",
           NEW base, NEW lim \in Nat, limit[v] <= lim, NEW e \in Throws, NEW after,
           Len(base) \in Nat, Len(base) <= Len(stack[v]) + 1,
           Len(after) \in Nat, Len(after) <= Len(stack[v]) + 2,
           RaiseError(v, base, after, lim, e)
    PROVE  Breaks \/ GoesOn
<1>1. Len(stack[v]) \in Nat /\ limit[v] \in Nat
    BY DEF CountInv, TypeOK
<1>2. ASSUME NEW fault \in ThrowFaults(Len(base) + 1, lim, e), Lose(fault) PROVE Breaks
    <2>1. fault \in Faults
        BY FaultsAreFaults
    <2>2. CASE fault = "stackFull"
        <3>1. Len(base) + 1 + PropNeed > lim
            BY <1>2, <2>2 DEF ThrowFaults, When
        <3>2. limit[v] < Len(stack[v]) + Margin
            BY <1>1, <3>1, MarginFacts DEF PropNeed
        <3> QED BY <1>2, <2>1, <2>2, <3>2 DEF Breaks, Cause, NoRoom
    <2>3. CASE fault # "stackFull"
        <3>1. fault = "uncaught" /\ e = ThrownNull
            BY <1>2, <2>3 DEF ThrowFaults, When
        <3> QED BY <1>2, <2>1, <3>1 DEF Breaks, Cause
    <2> QED BY <2>2, <2>3
<1>3. CASE ~ \E fault \in ThrowFaults(Len(base) + 1, lim, e) : Lose(fault)
    <2>1. /\ stack' = [stack EXCEPT ![v] = after]
          /\ limit' = [limit EXCEPT ![v] = lim]
          /\ UNCHANGED <<vm, cap, wrap, mode>>
        BY <1>3 DEF RaiseError
    <2> QED BY <2>1, StackGoesOn DEF GoesOn
<1> QED BY <1>2, <1>3

\* The process is lost for want of a slot that Margin allows for.
LEMMA FullBreaks ==
    ASSUME CountInv, NEW v \in VMs, vm[v] = "live", NEW n \in Nat, n <= Margin, ~Fits(v, n),
           Lose("stackFull")
    PROVE  Breaks
<1>1. Len(stack[v]) \in Nat /\ limit[v] \in Nat
    BY DEF CountInv, TypeOK
<1>2. limit[v] < Len(stack[v]) + Margin
    BY <1>1, MarginFacts DEF Fits
<1> QED BY <1>2 DEF Breaks, Cause, NoRoom, Faults

\* A property raises an error where nothing catches it.
LEMMA TripsBreaks == Trips => Breaks
BY DEF Trips, Breaks, Cause, Faults

\* A final duk_pop leaves a shorter stack.
LEMMA SubSeqLen ==
    ASSUME NEW s, s \in Seq(Values), NEW n \in Nat, n <= Len(s)
    PROVE  Len(SubSeq(s, 1, n)) = n
<1>1. \A i \in 1 .. n : s[i] \in Values
    BY ElementOfSeq
<1>2. Len(SubSeq(s, 1, n)) = IF 1 <= n THEN n - 1 + 1 ELSE 0
    BY <1>1, SubSeqProperties
<1> QED BY <1>2

LEMMA PoppedLen ==
    ASSUME NEW s, s \in Seq(Values), NEW pops \in BOOLEAN
    PROVE  Len(Popped(s, pops)) \in Nat /\ Len(Popped(s, pops)) <= Len(s)
<1>1. Len(s) \in Nat
    OBVIOUS
<1>2. ASSUME pops, Len(s) > 0 PROVE Len(SubSeq(s, 1, Len(s) - 1)) = Len(s) - 1
    <2>1. Len(s) - 1 \in Nat /\ Len(s) - 1 <= Len(s)
        BY <1>1, <1>2
    <2> QED BY <2>1, SubSeqLen
<1>3. ASSUME pops, Len(s) = 0 PROVE Len(SubSeq(s, 1, Len(s) - 1)) = 0
    BY <1>1, <1>3
<1> QED BY <1>1, <1>2, <1>3 DEF Popped

LEMMA KeepLen ==
    ASSUME NEW s \in Seq(Values), NEW r \in Results
    PROVE  Len(Keep(s, r)) \in Nat /\ Len(Keep(s, r)) <= Len(s) + 1
BY DEF Keep

LEMMA CallPropertyGoesOn ==
    ASSUME CountInv, NEW v \in VMs, vm[v] = "live",
           NEW base \in Seq(Values), Len(base) = Len(stack[v]) + 1,
           NEW argc \in 0 .. MaxArgs, NEW results \in SUBSET Results, NEW pops \in BOOLEAN,
           CallProperty(v, base, argc, results, pops)
    PROVE  Breaks \/ GoesOn
<1>1. Len(stack[v]) \in Nat /\ limit[v] \in Nat /\ Len(base) \in Nat /\ argc \in Nat
    BY ConstantsAssumption DEF CountInv, TypeOK
<1>2. CASE Len(base) + PropNeed > limit[v] /\ Lose("stackFull")
    <2>1. limit[v] < Len(stack[v]) + Margin
        BY <1>1, <1>2, MarginFacts DEF PropNeed
    <2> QED BY <1>2, <2>1 DEF Breaks, Cause, NoRoom, Faults
<1>3. CASE Len(base) + 1 + argc > limit[v] /\ Lose("stackFull")
    <2>1. limit[v] < Len(stack[v]) + Margin
        BY <1>1, <1>3, MarginFacts
    <2> QED BY <1>3, <2>1 DEF Breaks, Cause, NoRoom, Faults
<1>4. Len(Popped(base, pops)) \in Nat /\ Len(Popped(base, pops)) <= Len(stack[v]) + 1
    BY <1>1, PoppedLen
<1>5. CASE /\ stack' = [stack EXCEPT ![v] = Popped(base, pops)]
           /\ UNCHANGED <<vm, held, refs, limit, mainObj, table, cap, wrap, mode>>
    <2>1. limit' = [limit EXCEPT ![v] = limit[v]]
        BY <1>5 DEF CountInv, TypeOK
    <2>2. limit[v] <= limit[v] /\ Len(Popped(base, pops)) <= Len(stack[v]) + 2
        BY <1>1, <1>4
    <2>3. \A u \in VMs : Len(stack'[u]) <= Len(stack[u]) + 2 /\ limit[u] <= limit'[u]
        BY <1>1, <1>4, <1>5, <2>1, <2>2, StackGoesOn
    <2> QED BY <1>5, <2>3 DEF GoesOn
<1>6. ASSUME NEW r \in results, ReturnValue(v, base, limit[v], r, Popped(Keep(base, r), pops))
      PROVE  Breaks \/ GoesOn
    <2>1. Keep(base, r) \in Seq(Values) /\ Len(Keep(base, r)) <= Len(base) + 1
          /\ Len(Keep(base, r)) \in Nat
        BY KeepType, KeepLen
    <2>2. Len(Popped(Keep(base, r), pops)) \in Nat
          /\ Len(Popped(Keep(base, r), pops)) <= Len(stack[v]) + 2
        BY <1>1, <2>1, PoppedLen
    <2> QED BY <1>1, <1>6, <2>2, ReturnGoesOn
<1>7. ASSUME NEW e \in Throws, NEW lim \in LimitAfterFailure(v, Len(base)),
             RaiseError(v, base, Popped(base, pops), lim, e)
      PROVE  Breaks \/ GoesOn
    <2>1. lim \in Nat /\ limit[v] <= lim
        BY <1>1, LimitsGrow
    <2> QED BY <1>1, <1>4, <1>7, <2>1, RaiseGoesOn
<1> QED BY <1>2, <1>3, <1>5, <1>6, <1>7, TripsBreaks DEF CallProperty

LEMMA VmMethodsGoOn ==
    ASSUME CountInv, NEW v \in VMs, Evaluate(v) \/ Load(v) \/ OffsetGet(v) \/ SetGlobal(v) \/ Call(v)
    PROVE  Breaks \/ GoesOn \/ UNCHANGED vars
<1> DEFINE s == stack[v]
           top == LimitAfterCompile(v)
           base == Append(s, Global)
<1>1. vm[v] = "live"
    BY CallableLive DEF Evaluate, Load, OffsetGet, SetGlobal, Call
<1>2. s \in Seq(Values) /\ base \in Seq(Values) /\ Len(base) = Len(s) + 1 /\ Len(s) \in Nat
    BY DEF CountInv, TypeOK, Values
<1>3. top \in Nat /\ limit[v] <= top /\ limit[v] \in Nat
    BY <1>2, LimitsGrow
<1> HIDE DEF top, base
<1>4. CASE \E n \in {1, 1 + PropNeed, MaxArgs} : ~Fits(v, n) /\ Lose("stackFull")
    <2> PICK n \in {1, 1 + PropNeed, MaxArgs} : ~Fits(v, n)
        BY <1>4
    <2>1. n \in Nat /\ n <= Margin
        BY MarginFacts, ConstantsAssumption DEF PropNeed
    <2> QED BY <1>1, <1>4, <2>1, FullBreaks
<1>5. ASSUME NEW r \in Results, ReturnValue(v, s, top, r, Keep(s, r)) PROVE Breaks \/ GoesOn
    <2>1. Len(Keep(s, r)) \in Nat /\ Len(Keep(s, r)) <= Len(s) + 1
        BY <1>2, KeepLen
    <2> HIDE DEF s
    <2>2. Len(Keep(s, r)) <= Len(s) + 2
        BY <1>2, <2>1
    <2> QED BY <1>1, <1>2, <1>3, <1>5, <2>1, <2>2, ReturnGoesOn DEF s
<1>6. ASSUME NEW r \in Results, ReturnValue(v, s, top, r, Append(Keep(s, r), r))
      PROVE  Breaks \/ GoesOn
    <2>1. /\ Keep(s, r) \in Seq(Values)
          /\ Len(Keep(s, r)) \in Nat /\ Len(Keep(s, r)) <= Len(s) + 1
        BY <1>2, KeepType, KeepLen
    <2>2. Len(Append(Keep(s, r), r)) = Len(Keep(s, r)) + 1
        BY <2>1
    <2>3. Len(Append(Keep(s, r), r)) \in Nat /\ Len(Append(Keep(s, r), r)) <= Len(s) + 2
        BY <1>2, <2>1, <2>2
    <2>4. Len(s) <= Len(s) + 1
        BY <1>2
    <2> DEFINE after == Append(Keep(s, r), r)
    <2> HIDE DEF after
    <2> QED BY <1>1, <1>2, <1>3, <1>6, <2>3, <2>4, ReturnGoesOn DEF after
<1>7. ASSUME NEW e \in Throws, RaiseError(v, s, s, top, e) PROVE Breaks \/ GoesOn
    <2>1. Len(s) <= Len(s) + 1 /\ Len(s) <= Len(s) + 2
        BY <1>2
    <2>2. Len(s) <= Len(stack[v]) + 1 /\ Len(s) <= Len(stack[v]) + 2
        BY <2>1
    <2> HIDE DEF s
    <2> QED BY <1>1, <1>2, <1>3, <1>7, <2>2, RaiseGoesOn
<1>8. ASSUME NEW r \in Results, ReturnValue(v, base, limit[v], r, Keep(base, r))
      PROVE  Breaks \/ GoesOn
    <2>1. Len(Keep(base, r)) \in Nat /\ Len(Keep(base, r)) <= Len(s) + 2
        BY <1>2, KeepLen
    <2> QED BY <1>1, <1>2, <1>3, <1>8, <2>1, ReturnGoesOn
<1>9. ASSUME NEW argc \in 0 .. MaxArgs, CallProperty(v, base, argc, Results, FALSE)
      PROVE  Breaks \/ GoesOn
    BY <1>1, <1>2, <1>9, CallPropertyGoesOn
<1>10. CASE UNCHANGED vars
    BY <1>10
<1>11. CASE Evaluate(v)
    BY <1>4, <1>5, <1>7, <1>11 DEF Evaluate, top
<1>12. CASE Load(v)
    BY <1>4, <1>6, <1>7, <1>10, <1>12 DEF Load, top
<1>13. CASE OffsetGet(v)
    BY <1>4, <1>8, <1>13, TripsBreaks DEF OffsetGet, base
<1>14. CASE SetGlobal(v)
    BY <1>4, <1>10, <1>14, TripsBreaks DEF SetGlobal
<1>15. CASE Call(v)
    BY <1>4, <1>9, <1>15 DEF Call, base
<1> QED BY <1>11, <1>12, <1>13, <1>14, <1>15

\* A variable finds room in a table that holds all names JS code sets.
LEMMA TableHasRoom ==
    ASSUME CountInv, FewNames, cap = TableSize, NEW n \in Names, n \notin table
    PROVE  1 + Cardinality(table) # cap
<1>1. table \in SUBSET Names /\ IsFiniteSet(Names)
    BY DEF FewNames, CountInv, TypeOK
<1>2. IsFiniteSet(table) /\ table \cup {n} \subseteq Names
    BY <1>1, FS_Subset
<1>3. Cardinality(table \cup {n}) = Cardinality(table) + 1 /\ IsFiniteSet(table \cup {n})
    BY <1>2, FS_AddElement
<1>4. Cardinality(table \cup {n}) <= Cardinality(Names)
    BY <1>1, <1>2, FS_Subset
<1>5. Cardinality(table) \in Nat /\ Cardinality(Names) \in Nat
    BY <1>1, <1>2, FS_CardinalityType
<1> QED BY <1>3, <1>4, <1>5, ConstantsAssumption DEF FewNames

LEMMA SetIntoPhpGoesOn ==
    ASSUME CountInv, NEW v \in VMs, NEW n \in Names, NEW r \in Results, SetIntoPhp(v, n, r)
    PROVE  Breaks \/ GoesOn
<1>1. vm[v] = "live" /\ "newVars" \in Uses
    BY CallableLive DEF SetIntoPhp
<1>2. ASSUME NEW fault \in TrapFaults(v, r), Lose(fault) PROVE Breaks
    <2>1. fault \in Faults
        BY FaultsAreFaults
    <2>2. CASE fault = "stackFull"
        <3>1. ~Fits(v, 1) /\ 1 \in Nat /\ 1 <= Margin
            BY <1>2, <2>2, MarginFacts DEF TrapFaults, When
        <3> QED BY <1>1, <1>2, <2>2, <3>1, FullBreaks
    <2>3. CASE fault # "stackFull"
        <3>1. \/ fault = "undefined" /\ r = Mixed
              \/ fault = "undefined" /\ vm[mainObj] # "live"
            BY <1>2, <2>3 DEF TrapFaults, When
        <3> QED BY <1>1, <1>2, <2>1, <3>1 DEF Breaks, Cause
    <2> QED BY <2>2, <2>3
<1>3. CASE ~ \E fault \in TrapFaults(v, r) : Lose(fault)
    <2>1. /\ UNCHANGED <<vm, stack, mode>> /\ limit' = [limit EXCEPT ![v] = LimitAfterCompile(v)]
          /\ IF r \in Objs
             THEN NewWrapper(v, 2, r, IF n \in table THEN "lost" ELSE "table")
             ELSE UNCHANGED <<wrap, refs>>
          /\ cap' = IF n \notin table /\ 1 + Cardinality(table) = cap THEN 2 * cap ELSE cap
        BY <1>3 DEF SetIntoPhp
    <2>2. \A h \in Handles : wrap'[h] = wrap[h] \/ wrap'[h].cap = cap
        BY <2>1, WrapsHere
    <2>3. TableFits /\ cap = TableSize => cap' = cap
        BY <1>1, <2>1, TableHasRoom DEF TableFits
    <2>4. stack' = [stack EXCEPT ![v] = stack[v]] /\ Len(stack[v]) \in Nat
        BY <2>1 DEF CountInv, TypeOK
    <2>5. LimitAfterCompile(v) \in Nat /\ limit[v] <= LimitAfterCompile(v)
        BY <2>4, LimitsGrow
    <2>6. Len(stack[v]) <= Len(stack[v]) + 2
        BY <2>4
    <2>7. \A u \in VMs : Len(stack'[u]) <= Len(stack[u]) + 2 /\ limit[u] <= limit'[u]
        BY <2>1, <2>4, <2>5, <2>6, StackGoesOn
    <2> QED BY <2>1, <2>2, <2>3, <2>7 DEF GoesOn
<1> QED BY <1>2, <1>3

\* The first two steps of a method of a wrapper.
LEMMA DupBreaks ==
    ASSUME CountInv, NEW h \in Handles, Live(h), NEW fault \in DupFaults(wrap[h]), Lose(fault)
    PROVE  Breaks
<1> DEFINE w == wrap[h]
<1>1. fault \in Faults /\ w.ctx \in VMs
    BY FaultsAreFaults, WrapperFacts DEF Live, Wrappers
<1>2. CASE vm[w.ctx] # "live"
    <2>1. fault = "undefined"
        BY <1>2 DEF DupFaults
    <2> QED BY <1>1, <1>2, <2>1 DEF Breaks, Cause
<1>3. CASE vm[w.ctx] = "live"
    <2>1. (fault = "badIndex" /\ ~InRange(w.ctx, w.idx)) \/ (fault = "stackFull" /\ ~Fits(w.ctx, 1))
        BY <1>3 DEF DupFaults, When
    <2>2. 1 \in Nat /\ 1 <= Margin
        BY MarginFacts
    <2>3. CASE fault = "badIndex" /\ ~InRange(w.ctx, w.idx)
        BY <1>1, <1>3, <2>3 DEF Breaks, Cause
    <2>4. CASE fault = "stackFull" /\ ~Fits(w.ctx, 1)
        BY <1>1, <1>3, <2>2, <2>4, FullBreaks
    <2> QED BY <2>1, <2>3, <2>4
<1> QED BY <1>2, <1>3

LEMMA PropBreaks ==
    ASSUME CountInv, NEW h \in Handles, Live(h), DupFaults(wrap[h]) = {},
           NEW fault \in PropFaults(wrap[h]), Lose(fault)
    PROVE  Breaks
<1> DEFINE w == wrap[h]
<1>1. fault \in Faults /\ w.ctx \in VMs /\ vm[w.ctx] = "live"
    BY FaultsAreFaults, WrapperFacts, DupLive DEF Live, Wrappers
<1>2. \/ fault = "stackFull" /\ ~Fits(w.ctx, 1 + PropNeed)
      \/ fault = "uncaught" /\ Target(w) = Undefined
    BY DEF PropFaults, When
<1>3. 1 + PropNeed \in Nat /\ 1 + PropNeed <= Margin
    BY MarginFacts DEF PropNeed
<1>4. CASE fault = "stackFull" /\ ~Fits(w.ctx, 1 + PropNeed)
    BY <1>1, <1>3, <1>4, FullBreaks
<1>5. CASE fault = "uncaught" /\ Target(w) = Undefined
    BY <1>1, <1>5 DEF Breaks, Cause
<1> QED BY <1>2, <1>4, <1>5

LEMMA WrapperMethodsGoOn ==
    ASSUME CountInv, NEW h \in Handles, ObjGet(h) \/ ObjCall(h) \/ Invoke(h)
    PROVE  Breaks \/ GoesOn
<1> DEFINE w == wrap[h]
           v == w.ctx
           s == stack[v]
           base == WithTarget(w)
<1>1. w \in Wrappers /\ Live(h) /\ v \in VMs
    BY WrapperFacts DEF ObjGet, ObjCall, Invoke, Reachable, Live, Wrappers
<1>2. s \in Seq(Values) /\ Len(s) \in Nat /\ limit[v] \in Nat
    BY <1>1 DEF CountInv, TypeOK
<1>3. ASSUME NEW fault, fault \in DupFaults(w) \/ (DupFaults(w) = {} /\ fault \in PropFaults(w)),
             Lose(fault)
      PROVE  Breaks
    BY <1>1, <1>3, DupBreaks, PropBreaks
<1>4. ASSUME DupFaults(w) = {}
      PROVE  vm[v] = "live" /\ base \in Seq(Values) /\ Len(base) = Len(s) + 1
    <2>1. vm[v] = "live" /\ base \in Seq(Values)
        BY <1>1, <1>4, DupLive, WithTargetType
    <2> QED BY <1>2, <2>1 DEF WithTarget
<1> HIDE DEF base
<1>5. ASSUME DupFaults(w) = {}, NEW r \in Results, ReturnValue(v, base, limit[v], r, Keep(base, r))
      PROVE  Breaks \/ GoesOn
    <2>1. Len(Keep(base, r)) \in Nat /\ Len(Keep(base, r)) <= Len(s) + 2
        BY <1>2, <1>4, <1>5, KeepLen
    <2> HIDE DEF v
    <2> QED BY <1>1, <1>2, <1>4, <1>5, <2>1, ReturnGoesOn
<1>6. ASSUME DupFaults(w) = {}, NEW argc \in 0 .. MaxArgs,
             CallProperty(v, base, argc, MethodResults, TRUE)
      PROVE  Breaks \/ GoesOn
    <2>1. MethodResults \in SUBSET Results
        BY DEF MethodResults
    <2> HIDE DEF v
    <2> QED BY <1>1, <1>4, <1>6, <2>1, CallPropertyGoesOn
<1>7. ASSUME DupFaults(w) = {}, NEW r \in Results, ReturnValue(v, s, limit[v], r, Keep(s, r))
      PROVE  Breaks \/ GoesOn
    <2>1. Len(Keep(s, r)) \in Nat /\ Len(Keep(s, r)) <= Len(s) + 1
        BY <1>2, KeepLen
    <2> HIDE DEF v
    <2>2. Len(Keep(s, r)) <= Len(s) + 2 /\ Len(s) <= Len(s) + 1
        BY <1>2, <2>1
    <2> QED BY <1>1, <1>2, <1>4, <1>7, <2>1, <2>2, ReturnGoesOn
<1>8. ASSUME DupFaults(w) = {}, NEW e \in Throws, NEW lim \in LimitAfterFailure(v, Len(s)),
             RaiseError(v, s, s, lim, e)
      PROVE  Breaks \/ GoesOn
    <2>1. lim \in Nat /\ limit[v] <= lim
        BY <1>1, <1>2, LimitsGrow
    <2> HIDE DEF v
    <2>2. Len(s) <= Len(s) + 1 /\ Len(s) <= Len(s) + 2
        BY <1>2
    <2> QED BY <1>1, <1>2, <1>4, <1>8, <2>1, <2>2, RaiseGoesOn
<1>9. CASE ObjGet(h)
    BY <1>3, <1>5, <1>9, TripsBreaks DEF ObjGet, base
<1>10. CASE ObjCall(h)
    BY <1>3, <1>6, <1>10 DEF ObjCall, base
<1>11. CASE Invoke(h)
    BY <1>3, <1>7, <1>8, <1>11 DEF Invoke
<1> QED BY <1>9, <1>10, <1>11

LEMMA FreeGoesOn ==
    ASSUME CountInv, NEW h \in Handles, Free(h)
    PROVE  \/ Breaks
           \/ /\ UNCHANGED <<limit, cap, mode>>
              /\ wrap' = [wrap EXCEPT ![h] = NoHandle]
              /\ \A u \in VMs : Len(stack'[u]) <= Len(stack[u])
              /\ \A u \in VMs : vm'[u] = "live" => vm[u] = "live"
<1> DEFINE w == wrap[h]
<1>1. Live(h) /\ w \in Wrappers
    BY DEF Free, Live, CountInv, TypeOK
<1>2. ASSUME NEW fault \in FreeFaults(w), Lose(fault) PROVE Breaks
    BY <1>1, <1>2, FaultsAreFaults DEF Breaks, Cause
<1>3. CASE Lose("doubleFree")
    BY <1>3 DEF Breaks, Cause, Faults
<1>4. CASE ~ \E fault \in FreeFaults(w) \cup {"doubleFree"} : Lose(fault)
    <2>1. /\ wrap' = [wrap EXCEPT ![h] = NoHandle]
          /\ vm' = IF refs[w.vm] = 1 THEN [vm EXCEPT ![w.vm] = "destroyed"] ELSE vm
          /\ stack' = IF refs[w.vm] = 1 THEN [Cleared(w) EXCEPT ![w.vm] = << >>] ELSE Cleared(w)
          /\ UNCHANGED <<limit, cap, mode>>
        BY <1>4 DEF Free, DropReference
    <2>2. stack \in [VMs -> Seq(Values)] /\ w.ctx \in VMs /\ w.vm \in VMs
        BY <1>1 DEF CountInv, TypeOK, Wrappers
    <2>3. \A u \in VMs : Len(Cleared(w)[u]) = Len(stack[u]) /\ Len(stack[u]) \in Nat
        <3> SUFFICES ASSUME NEW u \in VMs
                     PROVE  Len(Cleared(w)[u]) = Len(stack[u]) /\ Len(stack[u]) \in Nat
            OBVIOUS
        <3> HIDE DEF w
        <3>1. CASE u = w.ctx
            <4>1. Cleared(w)[u] = [stack[u] EXCEPT ![w.idx + 1] = Undefined]
                BY <2>2, <3>1 DEF Cleared
            <4> QED BY <2>2, <4>1
        <3>2. CASE u # w.ctx
            BY <2>2, <3>2 DEF Cleared
        <3> QED BY <3>1, <3>2
    <2>4. DOMAIN Cleared(w) = VMs
        BY <2>2 DEF Cleared
    <2>5. \A u \in VMs : stack'[u] = Cleared(w)[u] \/ stack'[u] = << >>
        BY <2>1, <2>4
    <2>6. \A u \in VMs : Len(stack'[u]) <= Len(stack[u])
        <3>1. Len(<< >>) = 0
            OBVIOUS
        <3> QED BY <2>3, <2>5, <3>1
    <2>7. \A u \in VMs : vm'[u] = "live" => vm[u] = "live"
        BY <2>1 DEF CountInv, TypeOK
    <2> QED BY <2>1, <2>6, <2>7
<1> QED BY <1>2, <1>3, <1>4

\* A reference is dropped: nothing is added anywhere.
Shrinks ==
    /\ UNCHANGED <<limit, cap, mode>>
    /\ \A h \in Handles : wrap'[h] = wrap[h] \/ wrap'[h] = NoHandle
    /\ \A u \in VMs : Len(stack'[u]) <= Len(stack[u])
    /\ \A u \in VMs : vm'[u] = "live" => vm[u] = "live"

LEMMA FreeShrinks ==
    ASSUME CountInv, NEW h \in Handles, Free(h)
    PROVE  Breaks \/ Shrinks
<1>1. wrap \in [Handles -> Wrappers \cup {NoHandle}]
    BY DEF CountInv, TypeOK
<1> QED BY <1>1, FreeGoesOn DEF Shrinks

LEMMA DropVmShrinks ==
    ASSUME CountInv, NEW v \in VMs, DropVm(v)
    PROVE  Shrinks
<1>1. /\ vm' = IF refs[v] = 1 THEN [vm EXCEPT ![v] = "destroyed"] ELSE vm
      /\ stack' = IF refs[v] = 1 THEN [stack EXCEPT ![v] = << >>] ELSE stack
      /\ UNCHANGED <<limit, cap, wrap, mode>>
    BY DEF DropVm, DropReference
<1>2. vm \in [VMs -> {"unborn", "live", "destroyed"}] /\ stack \in [VMs -> Seq(Values)]
    BY DEF CountInv, TypeOK
<1>3. \A u \in VMs : Len(stack'[u]) <= Len(stack[u])
    <2> SUFFICES ASSUME NEW u \in VMs PROVE Len(stack'[u]) <= Len(stack[u])
        OBVIOUS
    <2>1. Len(stack[u]) \in Nat /\ Len(<< >>) = 0
        BY <1>2
    <2>2. stack'[u] = stack[u] \/ stack'[u] = << >>
        BY <1>1, <1>2
    <2> QED BY <2>1, <2>2
<1>4. \A u \in VMs : vm'[u] = "live" => vm[u] = "live"
    BY <1>1, <1>2
<1> QED BY <1>1, <1>3, <1>4 DEF Shrinks

\* Every step is one of these.
LEMMA StepCause ==
    ASSUME CountInv, [Next]_vars
    PROVE  Breaks \/ GoesOn \/ Shrinks \/ (\E v \in VMs : Construct(v)) \/ UNCHANGED vars
<1>1. ASSUME NEW v \in VMs, VmStep(v), ~Construct(v)
      PROVE  Breaks \/ GoesOn \/ Shrinks \/ UNCHANGED vars
    BY <1>1, VmMethodsGoOn, SetIntoPhpGoesOn, DropVmShrinks DEF VmStep
<1>2. ASSUME NEW h \in Handles, WrapperStep(h) PROVE Breaks \/ GoesOn \/ Shrinks
    BY <1>2, WrapperMethodsGoOn, FreeShrinks DEF WrapperStep
<1> QED BY <1>1, <1>2 DEF Next

(***************************************************************************)
(* Lifetimes and losses                                                    *)
(***************************************************************************)

\* In a program with one JS object, the VM in which the object of a wrapper
\* lives is never destroyed before the wrapper, in whatever order the script
\* lets its variables go: the VM phpjs_add_duk_context counts is that one.
THEOREM WrappersKeepTheirVm ==
    ASSUME OneVm
    PROVE  Spec => []VmOutlivesWrappers
<1>1. CountInv => VmOutlivesWrappers
    BY WrapperKeepsVm DEF VmOutlivesWrappers
<1> QED BY <1>1, CountInvAlways, PTL

\* A process that runs on, or is lost for a reason.
LEMMA ModeHasCause ==
    ASSUME CountInv, [Next]_vars
    PROVE  mode' = mode \/ Cause(mode')
BY StepCause DEF Breaks, Lose, GoesOn, Shrinks, Construct, vars

LEMMA NextTableStays ==
    ASSUME TableFits, CountInv, TableStays, [Next]_vars
    PROVE  TableStays'
<1>1. CASE UNCHANGED <<cap, wrap>>
    BY <1>1 DEF TableStays, Live
<1>2. CASE GoesOn
    BY <1>2 DEF GoesOn, TableStays, Live
<1>3. CASE Shrinks
    BY <1>3 DEF Shrinks, TableStays, Live
<1> QED BY <1>1, <1>2, <1>3, StepCause DEF Breaks, Lose, Construct, vars

LEMMA TableStaysAlways ==
    ASSUME TableFits
    PROVE  Spec => []TableStays
<1>1. Init => TableStays
    BY DEF Init, TableStays, Live
<1>2. CountInv /\ TableStays /\ [Next]_vars => TableStays'
    BY NextTableStays
<1> QED BY <1>1, <1>2, CountInvAlways, PTL DEF Spec

\* With one JS object and a table that stays, freed memory is reached by the
\* conversion of a JS array or object that holds a wrappable value, or never.
LEMMA NoFreedMemory ==
    ASSUME OneVm, "oddValues" \notin Uses, CountInv, TableStays
    PROVE  ~Cause("undefined")
<1>1. Mixed \notin Results
    BY AtomsAssumption DEF Results
<1>2. ASSUME NEW v \in VMs, vm[v] = "live" PROVE vm[mainObj] = "live"
    BY <1>2 DEF OneVm, CountInv, MainObjSet
<1>3. ASSUME NEW h \in Handles, Live(h)
      PROVE  vm[wrap[h].ctx] = "live" /\ "undefined" \notin FreeFaults(wrap[h])
    <2>1. vm[wrap[h].ctx] = "live" /\ vm[wrap[h].vm] = "live" /\ wrap[h].cap = cap
        BY <1>3, WrapperKeepsVm DEF TableStays
    <2> QED BY <2>1 DEF FreeFaults, When
<1> QED BY <1>1, <1>2, <1>3 DEF Cause

\* A script with one JS object, in whatever order it calls methods and lets
\* its objects go, whatever its JS code throws and wherever it stores objects,
\* goes through no slot, VM or table entry after it has been freed: as long as
\* the names JS adds fit in the table, no result holds a wrappable inside, and
\* the wrapper blocks that wrapper.c:54 frees twice are not handed out twice.
THEOREM FreedMemoryIsNotTouched ==
    ASSUME OneVm, TableFits, "oddValues" \notin Uses
    PROVE  Spec => []NoUseAfterFree
<1>1. Init => NoUseAfterFree
    BY DEF Init, NoUseAfterFree
<1>2. CountInv /\ TableStays /\ NoUseAfterFree /\ [Next]_vars => NoUseAfterFree'
    BY ModeHasCause, NoFreedMemory DEF NoUseAfterFree
<1> QED BY <1>1, <1>2, CountInvAlways, TableStaysAlways, PTL DEF Spec

\* A slot that holds its object has a valid index and is not undefined.
LEMMA NoBadSlot ==
    ASSUME SlotInv
    PROVE  ~Cause("badIndex") /\ (/\ Unsafe \notin Results /\ ThrownNull \notin Throws
                                   /\ "oddProperties" \notin Uses
                                   => ~Cause("uncaught"))
<1>1. ASSUME NEW h \in Handles, Live(h), vm[wrap[h].ctx] = "live"
      PROVE  InRange(wrap[h].ctx, wrap[h].idx) /\ Target(wrap[h]) # Undefined
    <2>1. wrap[h] \in Wrappers
        BY <1>1, WrapperFacts DEF Live, SlotInv
    <2>2. wrap[h].obj # Undefined
        BY <2>1, AtomsAssumption DEF Wrappers
    <2> QED BY <1>1, <2>2 DEF SlotInv, Pinned
<1>2. ASSUME NEW h \in Handles, Live(h)
      PROVE  "badIndex" \notin FreeFaults(wrap[h]) /\ "uncaught" \notin FreeFaults(wrap[h])
    BY <1>1, <1>2 DEF FreeFaults, When
<1> QED BY <1>1, <1>2 DEF Cause

\* With any number of JS objects, any errors and any results, the index a
\* wrapper took when it was made is good whenever duk_dup or duk_to_undefined
\* uses it, as long as a wrapper's own method returns no wrappable value
\* (objects.c:33) and JS code stores none in a PHP variable.
THEOREM IndicesAreValid ==
    ASSUME NoDangling
    PROVE  Spec => []IndicesStayValid
<1>1. Init => IndicesStayValid
    BY DEF Init, IndicesStayValid
<1>2. SlotInv /\ IndicesStayValid /\ [Next]_vars => IndicesStayValid'
    BY ModeHasCause, NoBadSlot DEF IndicesStayValid, SlotInv
<1> QED BY <1>1, <1>2, SlotInvAlways, PTL DEF Spec

\* The reasons that are left when wrappers keep their slots and VMs.
LEMMA KnownCause ==
    ASSUME OneVm, "oddValues" \notin Uses, SlotInv, TableStays, NEW fault \in Faults, Cause(fault)
    PROVE  fault \in KnownFaults
<1>1. fault \notin {"undefined", "badIndex"}
    BY NoFreedMemory, NoBadSlot DEF SlotInv
<1>2. CASE fault = "uncaught"
    <2>1. Unsafe \notin Results
        BY AtomsAssumption DEF Results
    <2>2. ThrownNull \in Throws \/ "oddProperties" \in Uses
        BY <1>2, <2>1, NoBadSlot
    <2>3. "oddErrors" \in Uses \/ "oddProperties" \in Uses
        BY <2>2, AtomsAssumption DEF Throws
    <2> QED BY <1>2, <2>3 DEF KnownFaults, When
<1>3. CASE fault \in {"stackFull", "doubleFree"}
    BY <1>3 DEF KnownFaults
<1> QED BY <1>1, <1>2, <1>3 DEF Faults

\* A step that loses the process names a reason.
LEMMA ModeType == CountInv /\ [Next]_vars => mode' = mode \/ mode' \in Faults
BY StepCause DEF Breaks, Lose, GoesOn, Shrinks, Construct, vars

\* In a program with one JS object and ordinary values, whose wrappers' methods
\* return no wrappable value (objects.c:33) and whose names fit in the shared
\* table, nothing but a full stack, the second free of a wrapper (wrapper.c:54)
\* and an error that JS code raises where none is expected loses the process:
\* whatever the order of calls, errors and releases, no index is wrong and no
\* slot, VM or table entry is used after its end.
THEOREM LossesAreKnown ==
    ASSUME OneVm, NoDangling, TableFits, "oddValues" \notin Uses
    PROVE  Spec => []FailsAsKnown
<1>1. Init => FailsAsKnown
    BY DEF Init, FailsAsKnown
<1>2. SlotInv /\ TableStays /\ FailsAsKnown /\ [Next]_vars => FailsAsKnown'
    BY ModeHasCause, ModeType, KnownCause DEF FailsAsKnown, KnownFaults, SlotInv
<1> QED BY <1>1, <1>2, SlotInvAlways, TableStaysAlways, PTL DEF Spec

\* Only missing room overflows a stack.
LEMMA FullCause == Cause("stackFull") => NoRoom
BY DEF Cause, FreeFaults, When

\* In any program, with any number of VMs, a stack fills by two slots a call at
\* most, its limit never falls, and a push finds no room only where the room
\* for one call is missing: none of the pushes around a call, a conversion or
\* an error goes uncounted.
THEOREM StacksFillSlowly == Spec => FillsSlowly
<1>1. CountInv /\ [Next]_vars =>
        [/\ \A v \in VMs : vm[v] = "live" =>
               Len(stack'[v]) <= Len(stack[v]) + 2 /\ limit[v] <= limit'[v]
         /\ mode' = "stackFull" /\ mode # "stackFull" => NoRoom]_vars
    <2> SUFFICES ASSUME CountInv, [Next]_vars
                 PROVE  /\ \A v \in VMs : vm[v] = "live" =>
                               Len(stack'[v]) <= Len(stack[v]) + 2 /\ limit[v] <= limit'[v]
                        /\ mode' = "stackFull" /\ mode # "stackFull" => NoRoom
        OBVIOUS
    <2>1. mode' = "stackFull" /\ mode # "stackFull" => NoRoom
        BY ModeHasCause, FullCause
    <2>2. ASSUME NEW u \in VMs, vm[u] = "live"
          PROVE  Len(stack'[u]) <= Len(stack[u]) + 2 /\ limit[u] <= limit'[u]
        <3>1. Len(stack[u]) \in Nat /\ limit[u] \in Nat
            BY DEF CountInv, TypeOK
        <3>2. CASE UNCHANGED <<stack, limit>>
            BY <3>1, <3>2
        <3>3. CASE GoesOn
            BY <3>3 DEF GoesOn
        <3>4. CASE Shrinks
            <4>1. limit'[u] = limit[u] /\ Len(stack'[u]) <= Len(stack[u])
                BY <3>4 DEF Shrinks
            <4>2. Len(stack'[u]) \in Nat
                <5>1. CountInv'
                    BY NextCountInv
                <5>2. stack' \in [VMs -> Seq(Values)]
                    BY <5>1 DEF CountInv, TypeOK
                <5> QED BY <5>2
            <4> QED BY <3>1, <4>1, <4>2
        <3>5. ASSUME NEW v \in VMs, Construct(v) PROVE UNCHANGED <<stack[u], limit[u]>>
            <4>1. u # v
                BY <2>2, <3>5 DEF Construct
            <4> QED BY <3>5, <4>1 DEF Construct, CountInv, TypeOK
        <3>6. Breaks \/ UNCHANGED vars => UNCHANGED <<stack, limit>>
            BY DEF Breaks, Lose, vars
        <3> QED BY <3>1, <3>2, <3>3, <3>4, <3>5, <3>6, StepCause
    <2> QED BY <2>1, <2>2
<1> QED BY <1>1, CountInvAlways, PTL DEF Spec, FillsSlowly

(***************************************************************************)
(* What a step does                                                        *)
(***************************************************************************)

\* The process is lost.
Loses == \E fault \in Faults : Lose(fault)

\* A free handle becomes the wrapper of an object in v.
Wraps(v) ==
    \E h \in Handles, i \in Nat, r \in Objs :
        /\ wrap[h] = NoHandle
        /\ wrap' = [wrap EXCEPT ![h] = [ctx |-> v, idx |-> i, vm |-> mainObj,
                                        cap |-> cap, obj |-> r, holder |-> "var"]]

\* A method leaves everything as it was, but for slots on top of the stack
\* of v and perhaps a wrapper.
Grows(v) ==
    /\ vm[v] = "live"
    /\ \E after \in Seq(Values) :
          Extends(stack[v], after) /\ stack' = [stack EXCEPT ![v] = after]
    /\ UNCHANGED <<vm, held, mode>>
    /\ UNCHANGED wrap \/ Wraps(v)

\* A method ends in one of the two ways.
Ends(v) == Loses \/ Grows(v)

LEMMA LosesFull == Lose("stackFull") => Loses
BY DEF Loses, Faults

LEMMA TripsLoses == Trips => Loses
BY DEF Trips, Loses, Faults

LEMMA ReturnEnds ==
    ASSUME SlotInv, NEW v \in VMs, vm[v] = "live", mainObj \in VMs,
           NEW base \in Seq(Values), NEW lim, NEW r \in Results, NEW after,
           r \notin {Unsafe, Mixed} => after \in Seq(Values),
           Extends(stack[v], after),
           ReturnValue(v, base, lim, r, after)
    PROVE  Ends(v)
<1>1. CASE \E fault \in ConvertFaults(Len(base) + 1, lim, r) : Lose(fault)
    <2>1. ConvertFaults(Len(base) + 1, lim, r) \subseteq Faults
        BY FaultsAreFaults
    <2> QED BY <1>1, <2>1 DEF Ends, Loses
<1>2. CASE ~ \E fault \in ConvertFaults(Len(base) + 1, lim, r) : Lose(fault)
    <2>1. /\ ConvertFaults(Len(base) + 1, lim, r) = {}
          /\ IF r \in Objs THEN NewWrapper(v, Len(base), r, "var") ELSE UNCHANGED <<wrap, refs>>
          /\ stack' = [stack EXCEPT ![v] = after]
          /\ UNCHANGED <<vm, held, mode>>
        BY <1>2 DEF ReturnValue, TopIndex
    <2>2. after \in Seq(Values)
        BY <2>1 DEF ConvertFaults, When
    <2>3. Len(base) \in Nat
        OBVIOUS
    <2>4. UNCHANGED wrap \/ Wraps(v)
        BY <2>1, <2>3 DEF NewWrapper, Wraps
    <2> QED BY <2>1, <2>2, <2>4 DEF Ends, Grows
<1> QED BY <1>1, <1>2

LEMMA RaiseEnds ==
    ASSUME SlotInv, NEW v \in VMs, vm[v] = "live", NEW base, NEW after \in Seq(Values),
           NEW lim, NEW e \in Throws,
           Extends(stack[v], after), RaiseError(v, base, after, lim, e)
    PROVE  Ends(v)
<1>1. CASE \E fault \in ThrowFaults(Len(base) + 1, lim, e) : Lose(fault)
    <2>1. ThrowFaults(Len(base) + 1, lim, e) \subseteq Faults
        BY FaultsAreFaults
    <2> QED BY <1>1, <2>1 DEF Ends, Loses
<1>2. CASE ~ \E fault \in ThrowFaults(Len(base) + 1, lim, e) : Lose(fault)
    <2>1. stack' = [stack EXCEPT ![v] = after] /\ UNCHANGED <<vm, held, wrap, mode>>
        BY <1>2 DEF RaiseError
    <2> QED BY <2>1 DEF Ends, Grows
<1> QED BY <1>1, <1>2

LEMMA CallPropertyEnds ==
    ASSUME SlotInv, NEW v \in VMs, vm[v] = "live", mainObj \in VMs,
           NEW base \in Seq(Values), NEW argc, NEW results \in SUBSET Results,
           NEW pops \in BOOLEAN, pops => results \cap Objs = {},
           Extends(stack[v], base), Extends(stack[v], Popped(base, pops)),
           CallProperty(v, base, argc, results, pops)
    PROVE  Ends(v)
<1>1. CASE Lose("stackFull")
    BY <1>1, LosesFull DEF Ends
<1>2. Popped(base, pops) \in Seq(Values)
    BY PoppedType
<1>3. CASE /\ stack' = [stack EXCEPT ![v] = Popped(base, pops)]
           /\ UNCHANGED <<vm, held, refs, limit, mainObj, table, cap, wrap, mode>>
    BY <1>2, <1>3 DEF Ends, Grows
<1>4. CASE \E r \in results : ReturnValue(v, base, limit[v], r, Popped(Keep(base, r), pops))
    <2> PICK r \in results : ReturnValue(v, base, limit[v], r, Popped(Keep(base, r), pops))
        BY <1>4
    <2>1. r \in Results /\ Keep(base, r) \in Seq(Values) /\ Popped(Keep(base, r), pops) \in Seq(Values)
        BY KeepType, PoppedType
    <2>2. Extends(stack[v], Popped(Keep(base, r), pops))
        <3>1. CASE pops
            BY <3>1 DEF Keep
        <3>2. CASE ~pops
            <4>1. stack[v] \in Seq(Values)
                BY DEF SlotInv, CountInv, TypeOK
            <4> QED BY <2>1, <3>2, <4>1, ExtendsKeep DEF Popped
        <3> QED BY <3>1, <3>2
    <2> QED BY <2>1, <2>2, ReturnEnds
<1>5. CASE \E e \in Throws, lim \in LimitAfterFailure(v, Len(base)) :
              RaiseError(v, base, Popped(base, pops), lim, e)
    BY <1>2, <1>5, RaiseEnds
<1> QED BY <1>1, <1>3, <1>4, <1>5, TripsLoses DEF CallProperty, Ends

LEMMA VmMethodsEnd ==
    ASSUME SlotInv, NEW v \in VMs, Evaluate(v) \/ Load(v) \/ OffsetGet(v) \/ SetGlobal(v) \/ Call(v)
    PROVE  Ends(v) \/ UNCHANGED vars
<1> DEFINE s == stack[v]
           lim == LimitAfterCompile(v)
           base == Append(s, Global)
<1>1. vm[v] = "live" /\ mainObj \in VMs
    BY CallableLive DEF Evaluate, Load, OffsetGet, SetGlobal, Call, SlotInv
<1>2. s \in Seq(Values) /\ base \in Seq(Values)
    BY DEF SlotInv, CountInv, TypeOK, Values
<1>3. Extends(s, s) /\ Extends(s, base)
    BY <1>2, ExtendsAppend
<1> HIDE DEF lim, base
<1>4. CASE Lose("stackFull") \/ UNCHANGED vars
    BY <1>4, LosesFull DEF Ends
<1>5. CASE \E r \in Results : ReturnValue(v, s, lim, r, Keep(s, r))
    BY <1>1, <1>2, <1>3, <1>5, KeepType, ExtendsKeep, ReturnEnds
<1>6. CASE \E r \in Results : ReturnValue(v, s, lim, r, Append(Keep(s, r), r))
    <2> PICK r \in Results : ReturnValue(v, s, lim, r, Append(Keep(s, r), r))
        BY <1>6
    <2>1. Keep(s, r) \in Seq(Values) /\ Extends(s, Keep(s, r))
        BY <1>2, <1>3, KeepType, ExtendsKeep
    <2>2. r \notin {Unsafe, Mixed} => Append(Keep(s, r), r) \in Seq(Values)
        BY <2>1, ConvertedIsValue
    <2>3. Extends(s, Append(Keep(s, r), r))
        BY <1>2, <2>1 DEF Extends
    <2> QED BY <1>1, <1>2, <2>2, <2>3, ReturnEnds
<1>7. CASE \E e \in Throws : RaiseError(v, s, s, lim, e)
    BY <1>1, <1>2, <1>3, <1>7, RaiseEnds
<1>8. CASE \E r \in Results : ReturnValue(v, base, limit[v], r, Keep(base, r))
    BY <1>1, <1>2, <1>3, <1>8, KeepType, ExtendsKeep, ReturnEnds
<1>9. CASE \E argc \in 0 .. MaxArgs : CallProperty(v, base, argc, Results, FALSE)
    <2>1. Popped(base, FALSE) = base
        BY DEF Popped
    <2> QED BY <1>1, <1>2, <1>3, <1>9, <2>1, CallPropertyEnds
<1>10. CASE Trips
    BY <1>10, TripsLoses DEF Ends
<1> QED BY <1>4, <1>5, <1>6, <1>7, <1>8, <1>9, <1>10
        DEF Evaluate, Load, OffsetGet, SetGlobal, Call, lim, base

\* PHP.n = r, with a primitive r.
LEMMA SetIntoPhpEnds ==
    ASSUME NoDangling, SlotInv, NEW v \in VMs, NEW n \in Names, NEW r \in Results,
           SetIntoPhp(v, n, r)
    PROVE  Ends(v)
<1>1. vm[v] = "live" /\ r \notin Objs
    BY CallableLive DEF SetIntoPhp, SlotInv, NoDangling
<1>2. CASE \E fault \in TrapFaults(v, r) : Lose(fault)
    <2>1. TrapFaults(v, r) \subseteq Faults
        BY FaultsAreFaults
    <2> QED BY <1>2, <2>1 DEF Ends, Loses
<1>3. CASE ~ \E fault \in TrapFaults(v, r) : Lose(fault)
    <2>1. UNCHANGED <<vm, held, stack, wrap, mode>>
        BY <1>1, <1>3 DEF SetIntoPhp
    <2>2. stack[v] \in Seq(Values) /\ stack' = [stack EXCEPT ![v] = stack[v]]
          /\ Extends(stack[v], stack[v])
        BY <2>1, ExtendsAppend DEF SlotInv, CountInv, TypeOK
    <2> QED BY <1>1, <2>1, <2>2 DEF Ends, Grows
<1> QED BY <1>2, <1>3

(***************************************************************************)
(* Methods of the wrappers, and the end of PHP objects                     *)
(***************************************************************************)

LEMMA WrapperMethodsEnd ==
    ASSUME NoDangling, SlotInv, NEW h \in Handles, ObjGet(h) \/ ObjCall(h) \/ Invoke(h)
    PROVE  Ends(wrap[h].ctx)
<1> DEFINE w == wrap[h]
           s == stack[w.ctx]
           base == WithTarget(w)
<1> SUFFICES Ends(w.ctx)
    OBVIOUS
<1>1. w \in Wrappers /\ mainObj \in VMs /\ Live(h)
    BY WrapperFacts DEF ObjGet, ObjCall, Invoke, Reachable, SlotInv, Live
<1>2. w.ctx \in VMs /\ s \in Seq(Values)
    BY <1>1 DEF Wrappers, SlotInv, CountInv, TypeOK
<1>3. ASSUME NEW fault \in DupFaults(w) \cup PropFaults(w), Lose(fault) PROVE Ends(w.ctx)
    <2>1. fault \in Faults
        BY <1>3, FaultsAreFaults
    <2> QED BY <1>3, <2>1 DEF Ends, Loses
<1>4. ASSUME DupFaults(w) = {}
      PROVE  /\ vm[w.ctx] = "live" /\ base \in Seq(Values)
             /\ Extends(s, s) /\ Extends(s, base) /\ Popped(base, TRUE) = s
    <2>1. vm[w.ctx] = "live" /\ base \in Seq(Values)
        BY <1>1, <1>4, DupLive, WithTargetType DEF SlotInv
    <2>2. base = Append(s, Target(w))
        BY DEF WithTarget
    <2>3. Extends(s, s) /\ Extends(s, base)
        BY <1>2, <2>2, ExtendsAppend
    <2>4. Target(w) \in Values
        <3>1. w.idx \in Nat /\ w.idx < Len(stack[w.ctx])
            BY <1>1, <1>4 DEF DupFaults, When, InRange, Wrappers
        <3>2. stack[w.ctx][w.idx + 1] \in Values
            BY <1>2, <3>1
        <3> QED BY <3>2 DEF Target, Slot
    <2>5. SubSeq(Append(s, Target(w)), 1, Len(s)) = s
        BY <1>2, <2>4, AppendProperties, SubSeqFull
    <2>6. Popped(base, TRUE) = s
        BY <1>2, <2>2, <2>4, <2>5 DEF Popped
    <2> QED BY <2>1, <2>3, <2>6
<1>5. CASE /\ DupFaults(w) = {}
           /\ \E r \in Results : ReturnValue(w.ctx, base, limit[w.ctx], r, Keep(base, r))
    <2> PICK r \in Results : ReturnValue(w.ctx, base, limit[w.ctx], r, Keep(base, r))
        BY <1>5
    <2> HIDE DEF w, base, s
    <2>1. Keep(base, r) \in Seq(Values) /\ Extends(stack[w.ctx], Keep(base, r))
        BY <1>2, <1>4, <1>5, KeepType, ExtendsKeep DEF s
    <2> QED BY <1>1, <1>2, <1>4, <1>5, <2>1, ReturnEnds
<1>6. CASE /\ DupFaults(w) = {}
           /\ \E argc \in 0 .. MaxArgs : CallProperty(w.ctx, base, argc, MethodResults, TRUE)
    <2>1. MethodResults \in SUBSET Results /\ MethodResults \cap Objs = {}
        BY DEF MethodResults, NoDangling
    <2> HIDE DEF w, base
    <2> QED BY <1>1, <1>2, <1>4, <1>6, <2>1, CallPropertyEnds
<1>7. CASE /\ DupFaults(w) = {}
           /\ \E r \in Results : ReturnValue(w.ctx, s, limit[w.ctx], r, Keep(s, r))
    <2> PICK r \in Results : ReturnValue(w.ctx, s, limit[w.ctx], r, Keep(s, r))
        BY <1>7
    <2> HIDE DEF w
    <2>1. Keep(s, r) \in Seq(Values) /\ Extends(s, Keep(s, r))
        BY <1>2, <1>4, <1>7, KeepType, ExtendsKeep
    <2> QED BY <1>1, <1>2, <1>4, <1>7, <2>1, ReturnEnds
<1>8. CASE /\ DupFaults(w) = {}
           /\ \E e \in Throws, lim \in LimitAfterFailure(w.ctx, Len(s)) :
                  RaiseError(w.ctx, s, s, lim, e)
    <2> PICK e \in Throws, lim \in LimitAfterFailure(w.ctx, Len(s)) :
                RaiseError(w.ctx, s, s, lim, e)
        BY <1>8
    <2> HIDE DEF w
    <2> QED BY <1>2, <1>4, <1>8, RaiseEnds
<1>9. CASE Trips
    BY <1>9, TripsLoses DEF Ends
<1> QED BY <1>3, <1>5, <1>6, <1>7, <1>8, <1>9 DEF ObjGet, ObjCall, Invoke

\* One reference on v is dropped, and v is destroyed if it was the last.
Drops(v) ==
    /\ vm' = IF refs[v] = 1 THEN [vm EXCEPT ![v] = "destroyed"] ELSE vm
    /\ \A u \in VMs : vm'[u] = "live" => Len(stack'[u]) = Len(stack[u])
    /\ UNCHANGED mode

LEMMA DropVmDrops ==
    ASSUME SlotInv, NEW v \in VMs, DropVm(v)
    PROVE  /\ Drops(v) /\ held[v] /\ mode = "running"
           /\ held' = [held EXCEPT ![v] = FALSE] /\ UNCHANGED wrap
<1>1. /\ vm' = IF refs[v] = 1 THEN [vm EXCEPT ![v] = "destroyed"] ELSE vm
      /\ stack' = IF refs[v] = 1 THEN [stack EXCEPT ![v] = << >>] ELSE stack
      /\ held[v] /\ held' = [held EXCEPT ![v] = FALSE] /\ mode = "running"
      /\ UNCHANGED <<wrap, mode>>
    BY DEF DropVm, DropReference, Callable, Running
<1>2. \A u \in VMs : vm'[u] = "live" => stack'[u] = stack[u]
    BY <1>1 DEF SlotInv, CountInv, TypeOK
<1> QED BY <1>1, <1>2 DEF Drops

LEMMA FreeDrops ==
    ASSUME SlotInv, NEW h \in Handles, Free(h)
    PROVE  \/ Loses
           \/ /\ Drops(wrap[h].vm) /\ wrap[h] # NoHandle /\ mode = "running"
              /\ wrap' = [wrap EXCEPT ![h] = NoHandle] /\ UNCHANGED held
<1> DEFINE w == wrap[h]
<1>1. CASE \E fault \in FreeFaults(w) : Lose(fault)
    <2>1. FreeFaults(w) \subseteq Faults
        BY FaultsAreFaults
    <2> QED BY <1>1, <2>1 DEF Loses
<1>2. CASE ~ \E fault \in FreeFaults(w) \cup {"doubleFree"} : Lose(fault)
    <2>1. /\ w # NoHandle /\ wrap' = [wrap EXCEPT ![h] = NoHandle]
          /\ vm' = IF refs[w.vm] = 1 THEN [vm EXCEPT ![w.vm] = "destroyed"] ELSE vm
          /\ stack' = IF refs[w.vm] = 1 THEN [Cleared(w) EXCEPT ![w.vm] = << >>] ELSE Cleared(w)
          /\ UNCHANGED <<held, mode>> /\ mode = "running"
        BY <1>2 DEF Free, DropReference, Running
    <2>2. w \in Wrappers
        BY <2>1 DEF SlotInv, CountInv, TypeOK
    <2>3. stack \in [VMs -> Seq(Values)] /\ w.ctx \in VMs /\ w.vm \in VMs
        BY <2>2 DEF SlotInv, CountInv, TypeOK, Wrappers
    <2>4. \A u \in VMs : Len(Cleared(w)[u]) = Len(stack[u])
        <3> SUFFICES ASSUME NEW u \in VMs PROVE Len(Cleared(w)[u]) = Len(stack[u])
            OBVIOUS
        <3> HIDE DEF w
        <3>1. CASE u = w.ctx
            <4>1. Cleared(w)[u] = [stack[u] EXCEPT ![w.idx + 1] = Undefined]
                BY <2>3, <3>1 DEF Cleared
            <4> QED BY <2>3, <4>1
        <3>2. CASE u # w.ctx
            BY <2>3, <3>2 DEF Cleared
        <3> QED BY <3>1, <3>2
    <2>5. \A u \in VMs : vm'[u] = "live" => stack'[u] = Cleared(w)[u]
        BY <2>1, <2>3 DEF Cleared, SlotInv, CountInv, TypeOK
    <2> QED BY <2>1, <2>4, <2>5 DEF Drops
<1>3. CASE Lose("doubleFree")
    BY <1>3 DEF Loses, Faults
<1> QED BY <1>1, <1>2, <1>3

(***************************************************************************)
(* All steps                                                               *)
(***************************************************************************)

\* A step of the specification is one of these.
Effect ==
    \/ Loses /\ mode = "running"
    \/ \E v \in VMs : Grows(v) /\ mode = "running"
    \/ \E v \in VMs : Construct(v)
    \/ \E v \in VMs : /\ Drops(v) /\ held[v] /\ mode = "running"
                      /\ held' = [held EXCEPT ![v] = FALSE] /\ UNCHANGED wrap
    \/ \E h \in Handles : /\ Drops(wrap[h].vm) /\ wrap[h] # NoHandle /\ mode = "running"
                          /\ wrap' = [wrap EXCEPT ![h] = NoHandle] /\ UNCHANGED held
    \/ UNCHANGED vars

LEMMA StepEffect ==
    ASSUME NoDangling, SlotInv, [Next]_vars
    PROVE  Effect
<1>1. ASSUME NEW v \in VMs, VmStep(v) PROVE Effect
    <2>1. CASE Construct(v)
        BY <2>1 DEF Effect
    <2>2. CASE Evaluate(v) \/ Load(v) \/ OffsetGet(v) \/ SetGlobal(v) \/ Call(v)
        <3>1. mode = "running"
            BY <2>2 DEF Evaluate, Load, OffsetGet, SetGlobal, Call, Callable, Running
        <3> QED BY <2>2, <3>1, VmMethodsEnd DEF Effect, Ends
    <2>3. CASE \E n \in Names, r \in Results : SetIntoPhp(v, n, r)
        <3>1. mode = "running"
            BY <2>3 DEF SetIntoPhp, Callable, Running
        <3> QED BY <2>3, <3>1, SetIntoPhpEnds DEF Effect, Ends
    <2>4. CASE DropVm(v)
        BY <2>4, DropVmDrops DEF Effect
    <2> QED BY <1>1, <2>1, <2>2, <2>3, <2>4 DEF VmStep
<1>2. ASSUME NEW h \in Handles, WrapperStep(h) PROVE Effect
    <2>1. CASE ObjGet(h) \/ ObjCall(h) \/ Invoke(h)
        <3>1. mode = "running" /\ wrap[h] # NoHandle
            BY <2>1 DEF ObjGet, ObjCall, Invoke, Reachable, Running
        <3>2. wrap[h].ctx \in VMs
            BY <3>1 DEF SlotInv, CountInv, TypeOK, Wrappers
        <3> QED BY <2>1, <3>1, <3>2, WrapperMethodsEnd DEF Effect, Ends
    <2>2. CASE Free(h)
        <3>1. mode = "running"
            BY <2>2 DEF Free, Running
        <3> QED BY <2>2, <3>1, FreeDrops DEF Effect
    <2> QED BY <1>2, <2>1, <2>2 DEF WrapperStep
<1>3. CASE UNCHANGED vars
    BY <1>3 DEF Effect
<1> QED BY <1>1, <1>2, <1>3 DEF Next

\* No method of any VM or wrapper shortens a stack: an index a wrapper has
\* stored stays in range until the VM is destroyed.
THEOREM StacksNeverShrink ==
    ASSUME NoDangling
    PROVE  Spec => StackNeverShrinks
<1>1. SlotInv /\ [Next]_vars =>
        [\A v \in VMs : vm[v] = "live" /\ vm'[v] = "live" => Len(stack'[v]) >= Len(stack[v])]_vars
    <2> SUFFICES ASSUME SlotInv, [Next]_vars, NEW u \in VMs, vm[u] = "live", vm'[u] = "live"
                 PROVE  Len(stack'[u]) >= Len(stack[u])
        OBVIOUS
    <2>1. Effect /\ stack \in [VMs -> Seq(Values)]
        BY StepEffect DEF SlotInv, CountInv, TypeOK
    <2>2. stack[u] \in Seq(Values) /\ Len(stack[u]) \in Nat
        BY <2>1
    <2>3. CASE UNCHANGED stack
        BY <2>2, <2>3
    <2>4. ASSUME NEW v \in VMs, Grows(v) PROVE Len(stack'[u]) >= Len(stack[u])
        <3> PICK after \in Seq(Values) :
                Extends(stack[v], after) /\ stack' = [stack EXCEPT ![v] = after]
            BY <2>4 DEF Grows
        <3>1. Len(after) >= Len(stack[v]) /\ Len(after) \in Nat
            BY <2>1 DEF Extends
        <3>2. CASE u = v
            BY <2>1, <3>1, <3>2
        <3>3. CASE u # v
            BY <2>1, <2>2, <3>3
        <3> QED BY <3>2, <3>3
    <2>5. ASSUME NEW v \in VMs, Construct(v) PROVE Len(stack'[u]) >= Len(stack[u])
        <3>1. u # v
            BY <2>5 DEF Construct
        <3>2. stack'[u] = stack[u]
            BY <2>1, <2>5, <3>1 DEF Construct
        <3> QED BY <2>2, <3>2
    <2>6. ASSUME NEW v, Drops(v) PROVE Len(stack'[u]) >= Len(stack[u])
        BY <2>2, <2>6 DEF Drops
    <2> QED BY <2>1, <2>3, <2>4, <2>5, <2>6 DEF Effect, Loses, Lose, vars
<1> QED BY <1>1, SlotInvAlways, PTL DEF Spec, StackNeverShrinks

(***************************************************************************)
(* The wrappers implement handles                                          *)
(***************************************************************************)

\* What the wrappers say they stand for.
Said == [h \in Handles |-> IF wrap[h] = NoHandle THEN NoHandle
                           ELSE [ctx |-> wrap[h].ctx, obj |-> wrap[h].obj]]

\* A slot holds what its wrapper says.
LEMMA MeaningIsSaid == OneVm /\ SlotInv => Meaning = Said
<1> SUFFICES ASSUME OneVm, SlotInv PROVE Meaning = Said
    OBVIOUS
<1>1. ASSUME NEW h \in Handles, wrap[h] # NoHandle
      PROVE  InRange(wrap[h].ctx, wrap[h].idx) /\ Target(wrap[h]) = wrap[h].obj
    BY <1>1, WrapperKeepsVm DEF SlotInv, Pinned, Live
<1> QED BY <1>1 DEF Meaning, Said

LEMMA MeaningIsSaidNext == (OneVm /\ SlotInv => Meaning = Said)'
BY MeaningIsSaid, PTL

\* Does anything keep v alive?
Kept(v) == held[v] \/ \E h \in Handles : wrap[h] # NoHandle /\ wrap[h].ctx = v

LEMMA LiveIsKept == OneVm /\ CountInv => \A v \in VMs : vm[v] = "live" <=> Kept(v)
<1> SUFFICES ASSUME OneVm, CountInv, NEW v \in VMs PROVE vm[v] = "live" <=> Kept(v)
    OBVIOUS
<1>1. \A h \in Handles : wrap[h] # NoHandle => wrap[h].vm = wrap[h].ctx
    BY WrapperKeepsVm DEF Live
<1>2. (\E h \in Handles : wrap[h] # NoHandle /\ wrap[h].ctx = v) <=> Owners(v) # {}
    BY <1>1 DEF Owners, Live
<1>3. Owners(v) # {} <=> Cardinality(Owners(v)) > 0
    <2>1. IsFiniteSet(Owners(v))
        BY OwnersFinite
    <2> QED BY <2>1, FS_CardinalityType, FS_EmptySet
<1>4. refs[v] > 0 <=> (Owners(v) # {} \/ held[v])
    <2>1. Cardinality(Owners(v)) \in Nat
        BY OwnersFinite, FS_CardinalityType
    <2>2. refs[v] = Cardinality(Owners(v)) + (IF held[v] THEN 1 ELSE 0)
        BY DEF CountInv, RefcountExact
    <2> QED BY <1>3, <2>1, <2>2
<1>5. vm[v] = "live" <=> refs[v] > 0
    BY DEF CountInv, DestroyedWhenUnheld
<1> QED BY <1>2, <1>4, <1>5 DEF Kept

LEMMA LiveIsKeptNext == (OneVm /\ CountInv => \A v \in VMs : vm[v] = "live" <=> Kept(v))'
BY LiveIsKept, PTL

\* A VM that loses a reference is collected when nothing keeps it any more.
LEMMA DropsCollects ==
    ASSUME OneVm, SlotInv, SlotInv', NEW v \in VMs, Drops(v)
    PROVE  vm' = Handled!Collect(held', Meaning')
<1>1. CountInv /\ CountInv' /\ vm \in [VMs -> {"unborn", "live", "destroyed"}]
      /\ vm' \in [VMs -> {"unborn", "live", "destroyed"}]
    BY DEF SlotInv, CountInv, TypeOK
<1>2. ASSUME NEW u \in VMs
      PROVE  vm'[u] = IF vm[u] = "live" /\ ~Handled!Needed(u, held', Meaning')
                      THEN "destroyed" ELSE vm[u]
    <2>1. Handled!Needed(u, held', Meaning') <=> Kept(u)'
        <3>1. Meaning' = Said'
            BY MeaningIsSaidNext
        <3>2. \A h \in Handles :
                 Said'[h] # NoHandle /\ Said'[h].ctx = u <=> wrap'[h] # NoHandle /\ wrap'[h].ctx = u
            <4> SUFFICES ASSUME NEW h \in Handles, wrap'[h] # NoHandle
                         PROVE  Said'[h] # NoHandle /\ Said'[h].ctx = wrap'[h].ctx
                BY DEF Said
            <4>1. wrap'[h] \in Wrappers
                BY <1>1 DEF CountInv, TypeOK
            <4>2. [ctx |-> wrap'[h].ctx, obj |-> wrap'[h].obj] \in [ctx : VMs, obj : Objs]
                BY <4>1 DEF Wrappers
            <4> QED BY <4>2, AtomsAssumption DEF Said
        <3> QED BY <3>1, <3>2 DEF Handled!Needed, Kept
    <2>2. vm'[u] = "live" <=> Kept(u)'
        BY <1>1, LiveIsKeptNext
    <2>3. vm'[u] = vm[u] \/ (vm[u] = "live" /\ vm'[u] = "destroyed")
        BY <1>1 DEF Drops, CountInv, DestroyedWhenUnheld
    <2> QED BY <2>1, <2>2, <2>3
<1> QED BY <1>1, <1>2 DEF Handled!Collect

LEMMA HandleStep ==
    ASSUME OneVm, NoDangling, SlotInv, SlotInv', [Next]_vars
    PROVE  [Handled!Next]_(Handled!vars)
<1>1. Effect
    BY StepEffect
<1>2. Meaning = Said /\ Meaning' = Said'
    BY MeaningIsSaid, MeaningIsSaidNext
<1>3. wrap \in [Handles -> Wrappers \cup {NoHandle}]
    BY DEF SlotInv, CountInv, TypeOK
<1>4. \A h \in Handles : wrap[h] # NoHandle => Said[h] # NoHandle
    <2> SUFFICES ASSUME NEW h \in Handles, wrap[h] # NoHandle PROVE Said[h] # NoHandle
        OBVIOUS
    <2>1. [ctx |-> wrap[h].ctx, obj |-> wrap[h].obj] \in [ctx : VMs, obj : Objs]
        BY <1>3 DEF Wrappers
    <2> QED BY <2>1, AtomsAssumption DEF Said
<1>5. CASE Loses /\ mode = "running"
    <2>1. UNCHANGED <<vm, held, wrap>> /\ mode' # "running"
        BY <1>5 DEF Loses, Lose, Faults
    <2>2. Meaning' = Meaning
        BY <1>2, <2>1 DEF Said
    <2> QED BY <1>5, <2>1, <2>2 DEF Handled!Next, Handled!Fail
<1>6. ASSUME NEW v \in VMs, Grows(v), mode = "running" PROVE [Handled!Next]_(Handled!vars)
    <2>1. CASE UNCHANGED wrap
        <3>1. Meaning' = Meaning
            BY <1>2, <2>1 DEF Said
        <3> QED BY <1>6, <3>1 DEF Grows, Handled!vars
    <2>2. CASE Wraps(v)
        <3> PICK h \in Handles, i \in Nat, r \in Objs :
                /\ wrap[h] = NoHandle
                /\ wrap' = [wrap EXCEPT ![h] = [ctx |-> v, idx |-> i, vm |-> mainObj,
                                                cap |-> cap, obj |-> r, holder |-> "var"]]
            BY <2>2 DEF Wraps
        <3>1. wrap' \in [Handles -> Wrappers \cup {NoHandle}]
            BY DEF SlotInv, CountInv, TypeOK
        <3>2. wrap'[h] # NoHandle
            <4>1. wrap'[h] = [ctx |-> v, idx |-> i, vm |-> mainObj,
                              cap |-> cap, obj |-> r, holder |-> "var"]
                BY <1>3
            <4>2. mainObj \in VMs /\ cap \in Nat
                BY <1>6 DEF SlotInv, CountInv, TypeOK, MainObjSet, Grows
            <4>3. wrap'[h] \in Wrappers
                BY <4>1, <4>2 DEF Wrappers, Holders
            <4> QED BY <4>3, AtomsAssumption
        <3>3. Meaning' = [Meaning EXCEPT ![h] = [ctx |-> v, obj |-> r]]
            BY <1>2, <1>3, <3>2 DEF Said
        <3>4. Meaning[h] = NoHandle
            BY <1>2 DEF Said
        <3> QED BY <1>6, <3>3, <3>4 DEF Grows, Handled!Next, Handled!Receive
    <2> QED BY <1>6, <2>1, <2>2 DEF Grows
<1>7. ASSUME NEW v \in VMs, Construct(v) PROVE [Handled!Next]_(Handled!vars)
    <2>1. Meaning' = Meaning
        BY <1>2, <1>7 DEF Said, Construct
    <2> QED BY <1>7, <2>1 DEF Construct, Running, Handled!Next, Handled!Create
<1>8. ASSUME NEW v \in VMs, Drops(v), held[v], mode = "running",
             held' = [held EXCEPT ![v] = FALSE], UNCHANGED wrap
      PROVE  [Handled!Next]_(Handled!vars)
    <2>1. Meaning' = Meaning
        BY <1>2, <1>8 DEF Said
    <2>2. vm' = Handled!Collect(held', Meaning)
        BY <1>8, <2>1, DropsCollects
    <2> QED BY <1>8, <2>1, <2>2 DEF Drops, Handled!Next, Handled!Abandon
<1>9. ASSUME NEW h \in Handles, Drops(wrap[h].vm), wrap[h] # NoHandle, mode = "running",
             wrap' = [wrap EXCEPT ![h] = NoHandle], UNCHANGED held
      PROVE  [Handled!Next]_(Handled!vars)
    <2>1. wrap[h].vm \in VMs
        BY <1>3, <1>9 DEF Wrappers
    <2>2. vm' = Handled!Collect(held, Meaning')
        BY <1>9, <2>1, DropsCollects
    <2>3. Meaning' = [Meaning EXCEPT ![h] = NoHandle]
        BY <1>2, <1>3, <1>9 DEF Said
    <2>4. Meaning[h] # NoHandle
        BY <1>2, <1>4, <1>9
    <2> QED BY <1>9, <2>2, <2>3, <2>4 DEF Drops, Handled!Next, Handled!Release
<1>10. CASE UNCHANGED vars
    <2>1. Meaning' = Meaning
        BY <1>2, <1>10 DEF Said, vars
    <2> QED BY <1>10, <2>1 DEF vars, Handled!vars
<1> QED BY <1>1, <1>5, <1>6, <1>7, <1>8, <1>9, <1>10 DEF Effect

\* A slot index, a capacity and a reference count per wrapper are as good as
\* handles that keep their meaning until they are released, in VMs that live
\* exactly as long as the script or a handle needs them: every step of a
\* script with one JS object is a step of ObjectHandles, or changes nothing
\* there.
THEOREM WrappersImplementHandles ==
    ASSUME OneVm, NoDangling
    PROVE  Spec => ImplementsHandles
<1>1. Init => Handled!Init
    BY DEF Init, Meaning, Handled!Init
<1>2. SlotInv /\ SlotInv' /\ [Next]_vars => [Handled!Next]_(Handled!vars)
    BY HandleStep
<1> QED BY <1>1, <1>2, SlotInvAlways, PTL DEF Spec, ImplementsHandles, Handled!Spec

(***************************************************************************)
(* Short scripts                                                           *)
(***************************************************************************)

\* Construction leaves one slot, each call two more at most, and no limit is
\* ever below the reserve of a fresh stack.
Filling ==
    /\ calls \in Nat
    /\ \A v \in VMs : vm[v] = "live" => Len(stack[v]) <= 2 * calls - 1 /\ Reserve <= limit[v]

LEMMA NextTypes ==
    ASSUME CountInv, [Next]_vars
    PROVE  \A u \in VMs : Len(stack'[u]) \in Nat /\ limit'[u] \in Nat
<1>1. CountInv'
    BY NextCountInv
<1>2. stack' \in [VMs -> Seq(Values)] /\ limit' \in [VMs -> Nat]
    BY <1>1 DEF CountInv, TypeOK
<1> QED BY <1>2

LEMMA NextFilling ==
    ASSUME CountInv, Filling, [CountedNext]_<<vars, calls>>
    PROVE  Filling'
<1>1. CASE UNCHANGED <<vars, calls>>
    BY <1>1 DEF Filling, vars
<1>2. CASE CountedNext
    <2>1. calls' = calls + 1 /\ calls \in Nat /\ Next
        BY <1>2 DEF CountedNext, Filling
    <2>2. \A u \in VMs : Len(stack[u]) \in Nat /\ limit[u] \in Nat
        BY DEF CountInv, TypeOK
    <2>3. ASSUME NEW u \in VMs, vm'[u] = "live"
          PROVE  Len(stack'[u]) <= 2 * calls + 1 /\ Reserve <= limit'[u]
        <3>1. vm[u] = "live" => Len(stack[u]) <= 2 * calls - 1 /\ Reserve <= limit[u]
            BY DEF Filling
        <3>2. CASE Breaks \/ UNCHANGED vars
            <4>1. UNCHANGED <<vm, stack, limit>>
                BY <3>2 DEF Breaks, Lose, vars
            <4> QED BY <2>1, <2>2, <2>3, <3>1, <4>1
        <3>3. CASE Shrinks
            <4>1. vm[u] = "live" /\ limit'[u] = limit[u] /\ Len(stack'[u]) <= Len(stack[u])
                BY <2>3, <3>3 DEF Shrinks
            <4>2. Len(stack'[u]) \in Nat
                BY NextTypes, <2>1
            <4> QED BY <2>1, <2>2, <3>1, <4>1, <4>2
        <3>4. CASE GoesOn
            <4>1. /\ vm[u] = "live" /\ limit[u] <= limit'[u]
                  /\ Len(stack'[u]) <= Len(stack[u]) + 2
                BY <2>3, <3>4 DEF GoesOn
            <4>2. Len(stack'[u]) \in Nat /\ limit'[u] \in Nat /\ Reserve \in Nat
                BY NextTypes, <2>1, ConstantsAssumption
            <4> QED BY <2>1, <2>2, <3>1, <4>1, <4>2
        <3>5. ASSUME NEW v \in VMs, Construct(v)
              PROVE  Len(stack'[u]) <= 2 * calls + 1 /\ Reserve <= limit'[u]
            <4>1. /\ vm' = [vm EXCEPT ![v] = "live"] /\ stack' = [stack EXCEPT ![v] = <<Undefined>>]
                  /\ limit' = [limit EXCEPT ![v] = Larger(Reserve, 1 + Headroom)]
                BY <3>5 DEF Construct
            <4>2. CASE u = v
                <5>1. stack'[u] = <<Undefined>> /\ limit'[u] = Larger(Reserve, 1 + Headroom)
                    BY <4>1, <4>2 DEF CountInv, TypeOK
                <5> QED BY <2>1, <5>1, ConstantsAssumption DEF Larger
            <4>3. CASE u # v
                <5>1. vm'[u] = vm[u] /\ stack'[u] = stack[u] /\ limit'[u] = limit[u]
                    BY <4>1, <4>3 DEF CountInv, TypeOK
                <5> QED BY <2>1, <2>2, <2>3, <3>1, <5>1
            <4> QED BY <4>2, <4>3
        <3> QED BY <2>1, <3>2, <3>3, <3>4, <3>5, StepCause
    <2>4. 2 * calls' - 1 = 2 * calls + 1 /\ calls' \in Nat
        BY <2>1
    <2> QED BY <2>3, <2>4 DEF Filling
<1> QED BY <1>1, <1>2 DEF CountedNext

\* A push finds no room only after enough calls to fill a stack.
LEMMA FullLate ==
    ASSUME CountInv, Filling, ShortScriptsFit, [CountedNext]_<<vars, calls>>
    PROVE  ShortScriptsFit'
<1>1. CASE UNCHANGED <<vars, calls>>
    BY <1>1 DEF ShortScriptsFit, vars
<1>2. CASE CountedNext
    <2>1. calls' = calls + 1 /\ calls \in Nat /\ Next /\ Margin \in Nat /\ Reserve \in Nat
        BY <1>2, MarginFacts, ConstantsAssumption DEF CountedNext, Filling
    <2>2. mode' = mode \/ Cause(mode')
        BY <2>1, ModeHasCause
    <2>3. CASE mode' = mode \/ mode' # "stackFull"
        BY <2>1, <2>3 DEF ShortScriptsFit
    <2>4. CASE mode' = "stackFull" /\ Cause(mode')
        <3> PICK v \in VMs : vm[v] = "live" /\ limit[v] < Len(stack[v]) + Margin
            BY <2>4, FullCause DEF NoRoom
        <3>1. Len(stack[v]) <= 2 * calls - 1 /\ Reserve <= limit[v]
            BY DEF Filling
        <3>2. Len(stack[v]) \in Nat /\ limit[v] \in Nat
            BY DEF CountInv, TypeOK
        <3>3. ~(2 * (calls + 1) + Margin <= Reserve + 3)
            BY <2>1, <3>1, <3>2
        <3> QED BY <2>1, <3>3 DEF ShortScriptsFit
    <2> QED BY <2>2, <2>3, <2>4
<1> QED BY <1>1, <1>2

\* Whatever the reserve, the head-room, the number of arguments and the program:
\* no order of constructions, calls, errors and releases overflows a stack
\* (duk_fatal_handler) while twice the number of calls plus what one call needs
\* is at most the reserve of a fresh stack plus three.
THEOREM ShortScriptsAreSafe == CountedSpec => []ShortScriptsFit
<1>1. CountedInit => Filling /\ ShortScriptsFit
    BY DEF CountedInit, Init, Filling, ShortScriptsFit
<1>2. CountInv /\ Filling /\ [CountedNext]_<<vars, calls>> => Filling'
    BY NextFilling
<1>3. CountInv /\ Filling /\ ShortScriptsFit /\ [CountedNext]_<<vars, calls>>
        => ShortScriptsFit'
    BY FullLate
<1>4. CountedInit => Init
    BY DEF CountedInit
<1>5. [CountedNext]_<<vars, calls>> => [Next]_vars
    BY DEF CountedNext
<1>6. CountedSpec => Spec
    BY <1>4, <1>5, PTL DEF CountedSpec, Spec
<1> QED BY <1>1, <1>2, <1>3, <1>6, CountInvAlways, PTL DEF CountedSpec

=============================================================================
