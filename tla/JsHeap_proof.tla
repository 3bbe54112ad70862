---------------------------- MODULE JsHeap_proof ----------------------------
(***************************************************************************)
(* Proofs about the memory of a VM, for any number of objects and          *)
(* properties: nothing refers to freed memory, reference counts are exact, *)
(* finalizers run before their objects go, and JS code sees nothing of it. *)
(***************************************************************************)
EXTENDS JsHeap, FiniteSetTheorems, TLAPS

(***************************************************************************)
(* The inductive invariant                                                 *)
(***************************************************************************)

Unused == \A o \in Objects : where[o] = "none" => refers[o] = {}

\* Objects on their way to be freed have no reference, and no finalizer due.
ZeroListed ==
    \A o \in Objects : where[o] = "zero" =>
        count[o] = 0 /\ pc \in {"free", "drain"} /\ (o \in fin => o \in finalized)

\* While a finalizer runs its object is on the list, and the loop waits.
OneRuns ==
    current # Nil =>
        /\ current \in finalized
        /\ pc # "process"
        /\ phase \notin {"skip", "dead"}
        /\ phase # "forced" => where[current] = "due"

\* What waits for its finalizer has not been finalized.
DueOnce ==
    \A o \in Objects : where[o] = "due" =>
        phase \notin {"forced", "dead"} /\ (o \in finalized => o = current)

Phases ==
    /\ phase \in {"forced", "dead"} => pc = "code"
    /\ phase = "skip" => pc \notin {"free", "drain"}
    /\ pc = "drain" => current = Nil
    /\ phase = "skip" /\ pc = "code" => FinalizeList = {}

\* Nothing is freed during a round.  All that is left to finalize has yet to be
\* visited, except what finalizers make of it in this round.
RoundInv ==
    /\ \A o \in round : phase = "forced" /\ where[o] # "none"
    /\ phase = "forced" /\ ran = 0 => current = Nil /\ late = {}
    /\ phase = "forced" =>
         \A o \in fin : where[o] # "none" => o \in finalized \cup round \cup late

IInv ==
    TypeOK /\ NoDangling /\ CountsExact /\ Unused /\ ZeroListed /\ OneRuns
        /\ DueOnce /\ Phases /\ RoundInv

Lists == {"none", "heap", "zero", "due"}

(***************************************************************************)
(* Facts about counts                                                      *)
(***************************************************************************)

LEMMA ReferrersFinite ==
    ASSUME TypeOK
    PROVE  \A o \in Objects : IsFiniteSet(Referrers(o)) /\ Cardinality(Referrers(o)) \in Nat
<1> TAKE o \in Objects
<1>1. Referrers(o) \in SUBSET Objects /\ IsFiniteSet(Objects)
    BY HeapAssumption DEF Referrers, Allocated
<1>2. IsFiniteSet(Referrers(o))
    BY <1>1, FS_Subset
<1> QED BY <1>2, FS_CardinalityType

\* Whatever has a holder is counted.
LEMMA HeldIsCounted ==
    ASSUME TypeOK, CountsExact, NEW o \in Allocated,
           o \in roots \/ o = current \/ where[o] = "due" \/ Referrers(o) # {}
    PROVE  count[o] > 0
<1>1. o \in Objects /\ count[o] = Holders(o) /\ count[o] \in Nat
    BY DEF TypeOK, CountsExact, Allocated
<1>2. IsFiniteSet(Referrers(o)) /\ Cardinality(Referrers(o)) \in Nat
    BY ReferrersFinite, <1>1
<1>3. Referrers(o) # {} => Cardinality(Referrers(o)) # 0
    BY <1>2, FS_EmptySet
<1> QED BY <1>1, <1>2, <1>3 DEF Holders, One

\* The objects T lose a reference each.
LEMMA Loss ==
    ASSUME TypeOK, NEW T \in SUBSET Objects,
           \A o \in T : count[o] > 0 /\ where[o] # "none"
    PROVE  /\ CountAfter(T) \in [Objects -> Nat]
           /\ WhereAfter(T) \in [Objects -> Lists]
           /\ \A o \in Objects :
                /\ WhereAfter(T)[o] = "none" <=> where[o] = "none"
                /\ o \in T =>
                     \/ /\ CountAfter(T)[o] = count[o] - 1
                        /\ \/ WhereAfter(T)[o] = where[o]
                           \/ where[o] = "heap" /\ WhereAfter(T)[o] = "zero"
                     \/ /\ CountAfter(T)[o] = count[o]
                        /\ where[o] = "heap" /\ WhereAfter(T)[o] = "due"
                /\ WhereAfter(T)[o] = "zero" =>
                     \/ where[o] = "zero"
                     \/ /\ CountAfter(T)[o] = 0
                        /\ ~Suppressed
                        /\ o \in Zeroed(T) \ Due(Zeroed(T))
                        /\ o \in fin => o \in finalized
                /\ WhereAfter(T)[o] = "due" =>
                     \/ where[o] = "due"
                     \/ o \notin finalized /\ ~Suppressed /\ o \in Zeroed(T)
                /\ where[o] = "due" => WhereAfter(T)[o] = "due"
                /\ o \notin T => CountAfter(T)[o] = count[o] /\ WhereAfter(T)[o] = where[o]
<1>1. /\ count \in [Objects -> Nat] /\ where \in [Objects -> Lists]
      /\ Zeroed(T) \subseteq T /\ Due(Zeroed(T)) \subseteq Zeroed(T)
    BY DEF TypeOK, Lists, Zeroed, Due
<1>2. \A o \in Objects :
        /\ CountAfter(T)[o] = IF o \notin T THEN count[o]
                              ELSE count[o] - 1 + (IF o \in Due(Zeroed(T)) THEN 1 ELSE 0)
        /\ WhereAfter(T)[o] = IF o \in Due(Zeroed(T)) THEN "due"
                              ELSE IF o \in Zeroed(T) THEN "zero" ELSE where[o]
    BY DEF CountAfter, WhereAfter, Bump
<1>3. \A o \in Zeroed(T) : o \in T /\ where[o] = "heap" /\ count[o] = 1 /\ ~Suppressed
    BY DEF Zeroed
<1>4. \A o \in Due(Zeroed(T)) : o \in Zeroed(T) /\ o \in fin /\ o \notin finalized
    BY DEF Due
<1>5. \A o \in Zeroed(T) \ Due(Zeroed(T)) : o \in fin => o \in finalized
    BY DEF Due
<1>6. CountAfter(T) \in [Objects -> Nat]
    BY <1>1, <1>2, <1>3 DEF CountAfter, Bump
<1>7. WhereAfter(T) \in [Objects -> Lists]
    BY <1>1, <1>2 DEF WhereAfter, Lists
<1> QED BY <1>1, <1>2, <1>3, <1>4, <1>5, <1>6, <1>7 DEF Lists

\* The loss of one reference to x leads to the counts c and the lists w, and
\* goes on at one of the points next.
Lost(x, c, w, next) ==
    /\ c \in [Objects -> Nat]
    /\ w \in [Objects -> Lists]
    /\ \A q \in Objects : q # x => c[q] = count[q] /\ w[q] = where[q]
    /\ \/ /\ c[x] = count[x] - 1 /\ w[x] = where[x]
          /\ next = {"code"}
       \/ /\ c[x] = 0 /\ count[x] = 1 /\ where[x] = "heap" /\ w[x] = "zero"
          /\ ~Suppressed /\ (x \in fin => x \in finalized)
          /\ next = {"free"}
       \/ /\ c[x] = count[x] /\ where[x] = "heap" /\ w[x] = "due"
          /\ ~Suppressed /\ x \notin finalized
          /\ next = RunFinalizers

LEMMA LossOfOne ==
    ASSUME TypeOK, NEW x \in Objects, count[x] > 0, where[x] # "none"
    PROVE  Lost(x, CountAfter({x}), WhereAfter({x}), AfterDecref({x}))
<1> DEFINE Z == Zeroed({x})
           D == Due(Z)
           c == CountAfter({x})
           w == WhereAfter({x})
           n == AfterDecref({x})
<1>1. count[x] \in Nat /\ where[x] \in Lists
    BY DEF TypeOK, Lists
<1>2. c \in [Objects -> Nat] /\ w \in [Objects -> Lists]
    <2>1. {x} \in SUBSET Objects /\ \A o \in {x} : count[o] > 0 /\ where[o] # "none"
        OBVIOUS
    <2> QED BY <2>1, Loss
<1>3. /\ x \in Z <=> ~Suppressed /\ where[x] = "heap" /\ count[x] = 1
      /\ \A q \in Z : q = x
    BY DEF Zeroed
<1>4. /\ x \in D <=> x \in Z /\ x \in fin /\ x \notin finalized
      /\ \A q \in D : q = x
    BY <1>3 DEF Due
<1>5. \A q \in Objects :
        /\ c[q] = IF q # x THEN count[q] ELSE count[q] - 1 + (IF q \in D THEN 1 ELSE 0)
        /\ w[q] = IF q \in D THEN "due" ELSE IF q \in Z THEN "zero" ELSE where[q]
    BY DEF CountAfter, WhereAfter, Bump
<1>6. n = IF Z \ D # {} THEN {"free"} ELSE IF Z # {} THEN RunFinalizers ELSE {"code"}
    BY DEF AfterDecref
<1> HIDE DEF Z, D, c, w, n
<1>7. \A q \in Objects : q # x => c[q] = count[q] /\ w[q] = where[q]
    BY <1>3, <1>4, <1>5
<1>8. CASE x \in D
    <2>1. c[x] = count[x] /\ w[x] = "due" /\ n = RunFinalizers
        BY <1>1, <1>3, <1>4, <1>5, <1>6, <1>8
    <2> QED BY <1>2, <1>3, <1>4, <1>7, <1>8, <2>1 DEF Lost, c, w, n
<1>9. CASE x \in Z \ D
    <2>1. c[x] = 0 /\ w[x] = "zero" /\ n = {"free"}
        <3>1. x \in Z /\ x \notin D /\ count[x] = 1
            BY <1>3, <1>9
        <3>2. c[x] = 0
            BY <1>5, <3>1
        <3> QED BY <1>5, <1>6, <3>1, <3>2
    <2>2. ~Suppressed /\ where[x] = "heap" /\ count[x] = 1 /\ (x \in fin => x \in finalized)
        BY <1>3, <1>4, <1>9
    <2> QED BY <1>2, <1>7, <2>1, <2>2 DEF Lost, c, w, n
<1>10. CASE x \notin Z
    <2>1. c[x] = count[x] - 1 /\ w[x] = where[x] /\ n = {"code"}
        BY <1>1, <1>3, <1>4, <1>5, <1>6, <1>10
    <2> QED BY <1>2, <1>7, <2>1 DEF Lost, c, w, n
<1> QED BY <1>8, <1>9, <1>10

(***************************************************************************)
(* JS code                                                                 *)
(***************************************************************************)

\* What changes neither lists, objects nor finalizers keeps the rest.
Rest == Unused /\ ZeroListed /\ OneRuns /\ DueOnce /\ Phases /\ RoundInv

LEMMA CodeRuns ==
    ASSUME IInv, Working
    PROVE  /\ pc = "code"
           /\ phase \in {"running", "first", "second", "forced"}
           /\ phase = "forced" => ran > 0
           /\ \A o \in Objects : where[o] # "zero"
           /\ current # Nil => current \in Objects
           /\ phase \notin {"skip", "dead"}
BY DEF IInv, Working, TypeOK, ZeroListed, OneRuns, RoundInv

\* What JS code can reach exists.
LEMMA AccessibleAllocated ==
    ASSUME IInv
    PROVE  Accessible \subseteq Allocated
<1> DEFINE S == roots \cup OnStack
<1>1. Allocated \in SUBSET Objects /\ S \subseteq Allocated
    BY DEF IInv, NoDangling, Allocated
<1>2. \A p \in Allocated : refers[p] \subseteq Allocated
    BY DEF IInv, NoDangling
<1>3. Allocated \in Closed(S)
    BY <1>1, <1>2 DEF Closed
<1> QED BY <1>3 DEF Accessible, Reach

LEMMA NewStep ==
    ASSUME IInv, NEW o \in Objects, New(o)
    PROVE  IInv'
<1>1. /\ where[o] = "none" /\ refers[o] = {} /\ o # Nil
      /\ where' = [where EXCEPT ![o] = "heap"] /\ count' = [count EXCEPT ![o] = 1]
      /\ roots' = roots \cup {o} /\ fin' \in {fin, fin \cup {o}}
      /\ UNCHANGED <<refers, finalized, current, hadZero, pc, phase, refused, round, ran, limit>>
      /\ idle' \subseteq idle /\ late \subseteq late' /\ late' \subseteq late \cup {o}
      /\ phase = "forced" /\ o \in fin' => o \in finalized \cup late'
      /\ phase # "forced" => late' = late
    BY HeapAssumption DEF IInv, Unused, New, Seen, Given, forced
<1> USE CodeRuns DEF New, JsCode
<1>2. TypeOK'
    BY <1>1 DEF IInv, TypeOK
<1>3. /\ Allocated' = Allocated \cup {o} /\ o \notin Allocated
      /\ current # o /\ o \notin roots
    BY <1>1 DEF IInv, TypeOK, Allocated, NoDangling, OnStack
<1>4. NoDangling'
    BY <1>1, <1>3 DEF IInv, NoDangling, OnStack
<1>5. ASSUME NEW p \in Allocated' PROVE count'[p] = Holders(p)'
    <2>1. Referrers(p)' = Referrers(p)
        BY <1>1, <1>3 DEF Referrers
    <2>2. CASE p = o
        <3>1. Referrers(o) = {}
            BY <1>3 DEF IInv, NoDangling, Referrers
        <3> QED BY <1>1, <1>2, <1>3, <2>1, <2>2, <3>1, FS_EmptySet DEF Holders, One, TypeOK, IInv
    <2>3. CASE p # o
        <3>1. p \in Allocated /\ where'[p] = where[p] /\ count'[p] = count[p]
            BY <1>1, <1>3, <2>3 DEF Allocated, TypeOK, IInv
        <3>2. count[p] = Holders(p)
            BY <3>1 DEF IInv, CountsExact
        <3> QED BY <1>1, <2>1, <2>3, <3>1, <3>2 DEF Holders, One
    <2> QED BY <2>2, <2>3
<1>6. CountsExact'
    BY <1>5 DEF CountsExact
<1>7. Rest'
    BY <1>1, <1>3 DEF IInv, TypeOK, Rest, Unused, ZeroListed, OneRuns, DueOnce, Phases, RoundInv, FinalizeList, Allocated
<1> QED BY <1>2, <1>4, <1>6, <1>7 DEF IInv, Rest

\* One more reference to p, by a variable or by a property of o.
LEMMA HoldStep ==
    ASSUME IInv, NEW p \in Accessible, Hold(p)
    PROVE  IInv'
<1>1. /\ p \in Allocated /\ p \in Objects /\ p \notin roots
      /\ roots' = roots \cup {p} /\ count' = [count EXCEPT ![p] = @ + 1]
      /\ UNCHANGED <<where, refers, fin, finalized, current, hadZero, pc, phase, refused, round, ran, limit, late>>
      /\ idle' \subseteq idle
    BY AccessibleAllocated DEF Hold, Allocated, Seen, forced
<1> USE CodeRuns DEF Hold, JsCode
<1>2. TypeOK'
    BY <1>1 DEF IInv, TypeOK
<1>3. NoDangling'
    BY <1>1 DEF IInv, NoDangling, OnStack, Allocated
<1>4. ASSUME NEW q \in Allocated' PROVE count'[q] = Holders(q)'
    <2>1. q \in Allocated /\ q \in Objects /\ Referrers(q)' = Referrers(q) /\ count[q] = Holders(q)
        BY <1>1 DEF Allocated, Referrers, IInv, CountsExact
    <2>2. Cardinality(Referrers(q)) \in Nat
        BY <2>1, ReferrersFinite DEF IInv
    <2> QED BY <1>1, <2>1, <2>2 DEF Holders, One, IInv, TypeOK
<1>5. CountsExact'
    BY <1>4 DEF CountsExact
<1>6. Rest'
    BY <1>1 DEF IInv, TypeOK, Rest, Unused, ZeroListed, OneRuns, DueOnce, Phases, RoundInv, FinalizeList
<1> QED BY <1>2, <1>3, <1>5, <1>6 DEF IInv, Rest

LEMMA LinkStep ==
    ASSUME IInv, NEW o \in Accessible, NEW p \in Accessible, Link(o, p)
    PROVE  IInv'
<1>1. /\ {o, p} \subseteq Allocated /\ {o, p} \subseteq Objects /\ p \notin refers[o]
      /\ refers' = [refers EXCEPT ![o] = @ \cup {p}] /\ count' = [count EXCEPT ![p] = @ + 1]
      /\ UNCHANGED <<where, roots, fin, finalized, current, hadZero, pc, phase, refused, round, ran, limit, late>>
      /\ idle' \subseteq idle
    BY AccessibleAllocated DEF Link, Allocated, Seen, forced
<1> USE CodeRuns DEF Link, JsCode
<1>2. TypeOK'
    BY <1>1 DEF IInv, TypeOK
<1>3. NoDangling'
    BY <1>1 DEF IInv, TypeOK, NoDangling, OnStack, Allocated
<1>4. ASSUME NEW q \in Allocated' PROVE count'[q] = Holders(q)'
    <2>1. q \in Allocated /\ q \in Objects /\ count[q] = Holders(q)
        BY <1>1 DEF Allocated, IInv, CountsExact
    <2>2. IsFiniteSet(Referrers(q)) /\ Cardinality(Referrers(q)) \in Nat
        BY <2>1, ReferrersFinite DEF IInv
    <2>3. Referrers(q)' = IF q = p THEN Referrers(q) \cup {o} ELSE Referrers(q)
        BY <1>1 DEF Referrers, Allocated, IInv, TypeOK
    <2>4. o \notin Referrers(p)
        BY <1>1 DEF Referrers
    <2>5. Cardinality(Referrers(q) \cup {o}) =
            IF o \in Referrers(q) THEN Cardinality(Referrers(q)) ELSE Cardinality(Referrers(q)) + 1
        BY <2>2, FS_AddElement
    <2>6. Cardinality(Referrers(q)') = Cardinality(Referrers(q)) + One(q = p)
        BY <2>2, <2>3, <2>4, <2>5 DEF One
    <2> QED BY <1>1, <2>1, <2>2, <2>6 DEF Holders, One, IInv, TypeOK
<1>5. CountsExact'
    BY <1>4 DEF CountsExact
<1>6. Rest'
    BY <1>1 DEF IInv, TypeOK, Rest, Unused, ZeroListed, OneRuns, DueOnce, Phases, RoundInv, FinalizeList, Allocated
<1> QED BY <1>2, <1>3, <1>5, <1>6 DEF IInv, Rest

LEMMA SetFinalizerStep ==
    ASSUME IInv, NEW o \in Accessible, SetFinalizer(o)
    PROVE  IInv'
<1>1. /\ o \in Objects /\ fin' \subseteq fin \cup {o}
      /\ UNCHANGED <<where, refers, roots, count, finalized, current, hadZero, pc, phase, refused, round, ran, limit>>
      /\ idle' \subseteq idle /\ late \subseteq late' /\ late' \subseteq late \cup {o}
      /\ phase = "forced" /\ o \in fin' => o \in finalized \cup late'
      /\ phase # "forced" => late' = late
    BY DEF SetFinalizer, Seen, Accessible, Reach, Given, forced
<1> USE CodeRuns DEF SetFinalizer, JsCode
<1>2. TypeOK'
    BY <1>1 DEF IInv, TypeOK
<1>3. NoDangling' /\ CountsExact'
    BY <1>1 DEF IInv, NoDangling, CountsExact, OnStack, Allocated, Holders, Referrers
<1>4. Rest'
    BY <1>1 DEF IInv, TypeOK, Rest, Unused, ZeroListed, OneRuns, DueOnce, Phases, RoundInv, FinalizeList, Allocated
<1> QED BY <1>2, <1>3, <1>4 DEF IInv, Rest

\* JS code drops its reference to x: lists, loops and phases stay in order.
LEMMA DecrefRest ==
    ASSUME IInv, JsCode, NEW x \in Allocated, NEW next,
           Lost(x, count', where', next), pc' \in next,
           \A o \in Objects : where'[o] = "none" => refers'[o] = {},
           UNCHANGED <<fin, finalized, current, phase, refused, round, ran, limit, late>>
    PROVE  Rest'
<1>0. x \in Objects /\ where[x] # "none" /\ TypeOK
    BY DEF Allocated, IInv
<1> USE CodeRuns DEF JsCode
<1>1. /\ current # Nil => RunFinalizers = {"code"}
      /\ current # Nil => pc' # "process"
      /\ Suppressed => pc' = "code"
      /\ pc' # "drain"
    BY DEF Lost, RunFinalizers
<1>2. /\ \A o \in Objects : where'[o] = "none" <=> where[o] = "none"
      /\ \A o \in Objects : where[o] = "due" => where'[o] = "due"
      /\ \A o \in Objects : where'[o] = "due" =>
           where[o] = "due" \/ (~Suppressed /\ o \notin finalized)
      /\ \A o \in Objects : where'[o] = "zero" =>
           count'[o] = 0 /\ pc' = "free" /\ (o \in fin => o \in finalized)
    BY <1>0 DEF Lost
<1>3. Unused' /\ ZeroListed'
    BY <1>2 DEF Unused, ZeroListed
<1>4. OneRuns' /\ DueOnce'
    BY <1>1, <1>2 DEF IInv, OneRuns, DueOnce, Suppressed
<1>5. Phases'
    BY <1>1, <1>2 DEF IInv, Phases, Suppressed
<1>6. round \cup fin \subseteq Objects
    BY <1>0 DEF TypeOK
<1>7. RoundInv'
    BY <1>2, <1>6 DEF IInv, RoundInv
<1> QED BY <1>3, <1>4, <1>5, <1>7 DEF Rest

LEMMA DropStep ==
    ASSUME IInv, NEW o \in Accessible, Drop(o)
    PROVE  IInv'
<1>1. /\ o \in Allocated /\ o \in Objects /\ o \in roots /\ count[o] > 0
      /\ roots' = roots \ {o} /\ count' = CountAfter({o}) /\ where' = WhereAfter({o})
      /\ pc' \in AfterDecref({o}) /\ pc' \in {"code", "free", "process"}
      /\ UNCHANGED <<refers, fin, finalized, current, hadZero, phase, refused, round, ran, limit, late>>
      /\ idle' \subseteq idle /\ where[o] # "none"
    BY AccessibleAllocated, HeldIsCounted
       DEF Drop, Allocated, Seen, AfterDecref, RunFinalizers, IInv, forced
<1>2. Lost(o, count', where', AfterDecref({o}))
    BY <1>1, LossOfOne DEF IInv
<1>3. TypeOK'
    BY <1>1, <1>2 DEF Lost, IInv, TypeOK, Lists
<1>4. Allocated' = Allocated
    BY <1>1, <1>2 DEF Lost, Allocated
<1>5. NoDangling'
    BY <1>1, <1>4 DEF IInv, NoDangling, OnStack
<1>6. ASSUME NEW q \in Allocated' PROVE count'[q] = Holders(q)'
    <2>1. q \in Allocated /\ q \in Objects /\ Referrers(q)' = Referrers(q) /\ count[q] = Holders(q)
        BY <1>1, <1>4 DEF Allocated, Referrers, IInv, CountsExact
    <2>2. Cardinality(Referrers(q)) \in Nat
        BY <2>1, ReferrersFinite DEF IInv
    <2>3. count'[q] \in Nat /\ count[q] \in Nat
        BY <1>1, <1>2, <2>1 DEF Lost, IInv, TypeOK
    <2>4. CASE q = o
        <3>1. \/ count'[o] = count[o] - 1 /\ (where'[o] = "due" <=> where[o] = "due")
              \/ count'[o] = count[o] /\ where[o] = "heap" /\ where'[o] = "due"
            BY <1>2 DEF Lost
        <3>2. One(o \in roots) = 1 /\ One(o \in roots') = 0 /\ current' = current
            BY <1>1 DEF One
        <3> QED BY <2>1, <2>2, <2>3, <2>4, <3>1, <3>2 DEF Holders, One
    <2>5. CASE q # o
        BY <1>1, <2>1, <2>2, <2>3, <1>2, <2>5 DEF Lost, Holders, One
    <2> QED BY <2>4, <2>5
<1>7. CountsExact'
    BY <1>6 DEF CountsExact
<1>8. Rest'
    BY <1>1, <1>2, <1>4, DecrefRest DEF Drop, IInv, Unused, Allocated
<1> QED BY <1>3, <1>5, <1>7, <1>8 DEF IInv, Rest

LEMMA UnlinkStep ==
    ASSUME IInv, NEW o \in Accessible, NEW p \in Accessible, Unlink(o, p)
    PROVE  IInv'
<1>0. /\ {o, p} \subseteq Allocated /\ {o, p} \subseteq Objects /\ o \in Referrers(p)
    BY AccessibleAllocated DEF Unlink, Allocated, Referrers
<1>1. /\ count[p] > 0 /\ where[p] # "none"
      /\ refers' = [refers EXCEPT ![o] = @ \ {p}]
      /\ count' = CountAfter({p}) /\ where' = WhereAfter({p})
      /\ pc' \in AfterDecref({p}) /\ pc' \in {"code", "free", "process"}
      /\ UNCHANGED <<roots, fin, finalized, current, hadZero, phase, refused, round, ran, limit, late>>
      /\ idle' \subseteq idle
    BY <1>0, HeldIsCounted DEF Unlink, Allocated, Seen, AfterDecref, RunFinalizers, IInv, forced
<1>2. Lost(p, count', where', AfterDecref({p}))
    BY <1>0, <1>1, LossOfOne DEF IInv
<1>3. TypeOK'
    BY <1>0, <1>1, <1>2 DEF Lost, IInv, TypeOK, Lists
<1>4. Allocated' = Allocated
    BY <1>1, <1>2 DEF Lost, Allocated
<1>5. NoDangling'
    BY <1>0, <1>1, <1>4 DEF IInv, NoDangling, OnStack, TypeOK, Allocated
<1>6. ASSUME NEW q \in Allocated' PROVE count'[q] = Holders(q)'
    <2>1. q \in Allocated /\ q \in Objects /\ count[q] = Holders(q)
        BY <1>4 DEF Allocated, IInv, CountsExact
    <2>2. IsFiniteSet(Referrers(q)) /\ Cardinality(Referrers(q)) \in Nat
        BY <2>1, ReferrersFinite DEF IInv
    <2>3. Referrers(q)' = IF q = p THEN Referrers(q) \ {o} ELSE Referrers(q)
        BY <1>0, <1>1, <1>4 DEF Referrers, Allocated, IInv, TypeOK
    <2>4. Cardinality(Referrers(q) \ {o}) =
            IF o \in Referrers(q) THEN Cardinality(Referrers(q)) - 1 ELSE Cardinality(Referrers(q))
        BY <2>2, FS_RemoveElement
    <2>5. Cardinality(Referrers(q)') = Cardinality(Referrers(q)) - One(q = p)
        BY <1>0, <2>2, <2>3, <2>4 DEF One
    <2>6. count'[q] \in Nat /\ count[q] \in Nat
        BY <1>1, <1>2, <2>1 DEF Lost, IInv, TypeOK
    <2>7. CASE q = p
        <3>1. \/ count'[p] = count[p] - 1 /\ (where'[p] = "due" <=> where[p] = "due")
              \/ count'[p] = count[p] /\ where[p] = "heap" /\ where'[p] = "due"
            BY <1>2 DEF Lost
        <3>2. /\ Cardinality(Referrers(q)') = Cardinality(Referrers(q)) - 1
              /\ roots' = roots /\ current' = current
            BY <1>1, <2>5, <2>7 DEF One
        <3> QED BY <2>1, <2>2, <2>6, <2>7, <3>1, <3>2 DEF Holders, One
    <2>8. CASE q # p
        <3>1. count'[q] = count[q] /\ where'[q] = where[q] /\ roots' = roots /\ current' = current
            BY <1>1, <1>2, <2>1, <2>8 DEF Lost
        <3> QED BY <2>1, <2>2, <2>3, <2>8, <3>1 DEF Holders
    <2> QED BY <2>7, <2>8
<1>7. CountsExact'
    BY <1>6 DEF CountsExact
<1>8. Rest'
    <2>1. \A q \in Objects : where'[q] = "none" => refers'[q] = {}
        BY <1>0, <1>1, <1>4 DEF IInv, Unused, TypeOK, Allocated
    <2> QED BY <1>0, <1>1, <1>2, <2>1, DecrefRest DEF Unlink
<1> QED BY <1>3, <1>5, <1>7, <1>8 DEF IInv, Rest

(***************************************************************************)
(* Freeing an object                                                       *)
(***************************************************************************)

\* Object g goes, whom nobody refers to, and what it refers to loses one
\* reference each.
Frees(g, c, w) ==
    /\ c = CountAfter(refers[g])
    /\ w = WhereAfter(refers[g])
    /\ \A q \in Objects : q # g => count'[q] = c[q] /\ where'[q] = w[q]
    /\ count' \in [Objects -> Nat] /\ where' \in [Objects -> Lists]
    /\ where'[g] = "none"
    /\ refers' = [refers EXCEPT ![g] = {}]
    /\ fin' = fin \ {g}
    /\ finalized' = finalized \ {g}
    /\ roots' = roots
    /\ current' # g /\ current' \in {current, Nil}
    /\ \A q \in Objects : q # g => (q = current' <=> q = current)

LEMMA FreeingIsSafe ==
    ASSUME IInv, NEW g \in Allocated, Referrers(g) = {}, g \notin roots, NEW c, NEW w, Frees(g, c, w)
    PROVE  /\ NoDangling' /\ CountsExact' /\ Unused'
           /\ \A q \in Objects :
                /\ where'[q] = "zero" =>
                     where[q] = "zero" \/ (count'[q] = 0 /\ (q \in fin' => q \in finalized'))
                /\ where'[q] = "due" =>
                     \/ where[q] = "due"
                     \/ ~Suppressed /\ q \notin finalized'
                /\ q # g /\ where[q] = "due" => where'[q] = "due"
                /\ q # g => (where'[q] = "none" <=> where[q] = "none")
<1> DEFINE T == refers[g]
<1>1. /\ TypeOK /\ g \in Objects /\ T \in SUBSET Objects /\ T \subseteq Allocated /\ g \notin T
      /\ \A q \in T : g \in Referrers(q)
    BY DEF IInv, TypeOK, Allocated, NoDangling, Referrers
<1>2. \A q \in T : count[q] > 0 /\ where[q] # "none"
    BY <1>1, HeldIsCounted DEF IInv, Allocated
<1>3. /\ c \in [Objects -> Nat]
      /\ w \in [Objects -> Lists]
      /\ \A o \in Objects :
           /\ w[o] = "none" <=> where[o] = "none"
           /\ o \in T =>
                \/ /\ c[o] = count[o] - 1
                   /\ \/ w[o] = where[o]
                      \/ where[o] = "heap" /\ w[o] = "zero"
                \/ /\ c[o] = count[o]
                   /\ where[o] = "heap" /\ w[o] = "due"
           /\ w[o] = "zero" =>
                where[o] = "zero" \/ (c[o] = 0 /\ (o \in fin => o \in finalized))
           /\ w[o] = "due" =>
                where[o] = "due" \/ (o \notin finalized /\ ~Suppressed)
           /\ where[o] = "due" => w[o] = "due"
           /\ o \notin T => c[o] = count[o] /\ w[o] = where[o]
    BY <1>1, <1>2, Loss DEF Frees
<1> HIDE DEF T
<1>4. \A q \in Objects : q # g => count'[q] = c[q] /\ where'[q] = w[q]
    BY DEF Frees
<1>5. Allocated' = Allocated \ {g}
    BY <1>1, <1>3, <1>4 DEF Allocated, Frees
<1>6. \A p \in Allocated : g \notin refers[p]
    BY DEF Referrers
<1>7. NoDangling'
    <2>1. \A p \in Allocated' : refers'[p] \subseteq Allocated'
        BY <1>1, <1>5, <1>6 DEF Frees, IInv, NoDangling, Allocated, TypeOK
    <2>2. roots' \subseteq Allocated'
        BY <1>5 DEF Frees, IInv, NoDangling
    <2>3. OnStack' \subseteq Allocated'
        BY <1>1, <1>5, HeapAssumption DEF Frees, IInv, NoDangling, OnStack, TypeOK, Allocated
    <2> QED BY <2>1, <2>2, <2>3 DEF NoDangling
<1>8. ASSUME NEW q \in Allocated' PROVE count'[q] = Holders(q)'
    <2>1. q \in Allocated /\ q \in Objects /\ q # g /\ count[q] = Holders(q)
        BY <1>5 DEF Allocated, IInv, CountsExact
    <2>2. IsFiniteSet(Referrers(q)) /\ Cardinality(Referrers(q)) \in Nat
        BY <1>1, <2>1, ReferrersFinite
    <2>3. Referrers(q)' = Referrers(q) \ {g}
        BY <1>1, <1>5, <2>1 DEF Referrers, Frees, IInv, TypeOK, Allocated
    <2>4. Cardinality(Referrers(q) \ {g}) =
            IF g \in Referrers(q) THEN Cardinality(Referrers(q)) - 1 ELSE Cardinality(Referrers(q))
        BY <2>2, FS_RemoveElement
    <2>5. g \in Referrers(q) <=> q \in T
        BY DEF Referrers, T
    <2>6. count'[q] = c[q] /\ where'[q] = w[q] /\ roots' = roots /\ (q = current' <=> q = current)
        BY <1>4, <2>1 DEF Frees
    <2>7. count[q] \in Nat /\ c[q] \in Nat
        BY <1>1, <1>3, <2>1 DEF TypeOK
    <2>8. CASE q \in T
        <3>1. Cardinality(Referrers(q)') = Cardinality(Referrers(q)) - 1
            BY <2>3, <2>4, <2>5, <2>8
        <3>2. \/ c[q] = count[q] - 1 /\ (w[q] = "due" <=> where[q] = "due")
              \/ c[q] = count[q] /\ where[q] = "heap" /\ w[q] = "due"
            BY <1>3, <2>1, <2>8
        <3> QED BY <2>1, <2>2, <2>6, <2>7, <3>1, <3>2 DEF Holders, One
    <2>9. CASE q \notin T
        <3>1. Cardinality(Referrers(q)') = Cardinality(Referrers(q))
            BY <2>3, <2>4, <2>5, <2>9
        <3>2. c[q] = count[q] /\ w[q] = where[q]
            BY <1>3, <2>1, <2>9
        <3> QED BY <2>1, <2>2, <2>6, <2>7, <3>1, <3>2 DEF Holders, One
    <2> QED BY <2>8, <2>9
<1>9. CountsExact'
    BY <1>8 DEF CountsExact
<1>10. Unused'
    BY <1>1, <1>3, <1>4 DEF Frees, IInv, Unused, TypeOK
<1>11. ASSUME NEW q \in Objects, q # g
       PROVE  /\ where'[q] = "zero" =>
                   where[q] = "zero" \/ (count'[q] = 0 /\ (q \in fin' => q \in finalized'))
              /\ where'[q] = "due" =>
                   where[q] = "due" \/ (~Suppressed /\ q \notin finalized')
              /\ where[q] = "due" => where'[q] = "due"
              /\ where'[q] = "none" <=> where[q] = "none"
    BY <1>3, <1>4, <1>11 DEF Frees
<1> QED BY <1>7, <1>9, <1>10, <1>11 DEF Frees

\* A count of zero leaves no holder.
LEMMA NobodyHolds ==
    ASSUME IInv, NEW o \in Allocated, count[o] = 0
    PROVE  Referrers(o) = {} /\ o \notin roots /\ o # current /\ where[o] # "due"
BY HeldIsCounted DEF IInv

LEMMA FreeOneStep ==
    ASSUME IInv, NEW o \in Objects, FreeOne(o)
    PROVE  IInv'
<1>1. where[o] = "zero" /\ o \in Allocated /\ count[o] = 0 /\ pc \in {"free", "drain"} /\ TypeOK
    BY DEF FreeOne, RefzeroList, Allocated, IInv, ZeroListed
<1>2. Referrers(o) = {} /\ o \notin roots /\ o # current
    BY <1>1, NobodyHolds
<1>3. /\ refers[o] \in SUBSET Objects
      /\ \A q \in refers[o] : count[q] > 0 /\ where[q] # "none"
    <2>1. \A q \in refers[o] : q \in Allocated /\ o \in Referrers(q)
        BY <1>1 DEF IInv, NoDangling, Referrers
    <2> QED BY <1>1, <2>1, HeldIsCounted DEF IInv, TypeOK, Allocated
<1>4. /\ CountAfter(refers[o]) \in [Objects -> Nat]
      /\ WhereAfter(refers[o]) \in [Objects -> Lists]
    BY <1>1, <1>3, Loss
<1>5. /\ count' = CountAfter(refers[o])
      /\ where' = [WhereAfter(refers[o]) EXCEPT ![o] = "none"]
      /\ refers' = [refers EXCEPT ![o] = {}]
      /\ fin' = fin \ {o} /\ finalized' = finalized \ {o} /\ idle' = idle \ {o}
      /\ pc' \in {pc, "process", "code"}
      /\ (\E p \in Objects : where'[p] = "zero") => pc' = pc
      /\ pc' = "process" => pc = "drain" \/ current = Nil
      /\ UNCHANGED <<roots, current, hadZero, phase, refused, round, ran, limit, late>>
    BY DEF FreeOne, RunFinalizers, forced
<1>6. Frees(o, CountAfter(refers[o]), WhereAfter(refers[o]))
    BY <1>2, <1>4, <1>5 DEF Frees, Lists
<1>7. TypeOK'
    BY <1>1, <1>4, <1>5 DEF TypeOK, Lists
<1> DEFINE after ==
        \A q \in Objects :
            /\ where'[q] = "zero" =>
                 where[q] = "zero" \/ (count'[q] = 0 /\ (q \in fin' => q \in finalized'))
            /\ where'[q] = "due" =>
                 \/ where[q] = "due"
                 \/ ~Suppressed /\ q \notin finalized'
            /\ q # o /\ where[q] = "due" => where'[q] = "due"
            /\ q # o => (where'[q] = "none" <=> where[q] = "none")
<1>8. NoDangling' /\ CountsExact' /\ Unused' /\ after
    BY <1>1, <1>2, <1>6, FreeingIsSafe
<1>9. phase \notin {"forced", "skip", "dead"}
    BY <1>1 DEF IInv, Phases
<1>10. ZeroListed'
    <2> SUFFICES ASSUME NEW q \in Objects, where'[q] = "zero"
                 PROVE  /\ count'[q] = 0 /\ pc' \in {"free", "drain"}
                        /\ q \in fin' => q \in finalized'
        BY DEF ZeroListed
    <2>1. pc' \in {"free", "drain"}
        BY <1>1, <1>5
    <2>2. CASE where[q] = "zero"
        <3>1. count[q] = 0 /\ q \in Allocated /\ (q \in fin => q \in finalized)
            BY <2>2 DEF IInv, ZeroListed, Allocated
        <3>2. q \in Allocated' /\ q # o
            BY <1>4, <1>5 DEF Allocated
        <3>3. Holders(q)' = count'[q]
            BY <1>8, <3>2 DEF CountsExact
        <3>4. q \notin refers[o]
            BY <1>3, <3>1
        <3>5. count'[q] = count[q]
            BY <1>1, <1>3, <1>5, <3>4, Loss
        <3> QED BY <1>5, <2>1, <3>1, <3>2, <3>5
    <2> QED BY <1>8, <2>1, <2>2
<1>11. OneRuns'
    BY <1>2, <1>5, <1>8, <1>9 DEF IInv, OneRuns, TypeOK, Phases
<1>12. DueOnce'
    BY <1>5, <1>8, <1>9 DEF IInv, DueOnce
<1>13. Phases' /\ RoundInv'
    BY <1>5, <1>9 DEF IInv, Phases, RoundInv
<1> QED BY <1>7, <1>8, <1>10, <1>11, <1>12, <1>13 DEF IInv

(***************************************************************************)
(* The loop over due finalizers                                            *)
(***************************************************************************)

LEMMA ProcessSteps ==
    ASSUME IInv, ProcessLater \/ ProcessDone
    PROVE  IInv'
<1>1. /\ UNCHANGED <<where, refers, roots, count, fin, finalized, current, hadZero,
                     phase, refused, round, ran, limit, idle, late>>
      /\ \/ pc = "code" /\ pc' = "process" /\ current = Nil /\ phase = "running"
         \/ pc = "process" /\ pc' = "code" /\ FinalizeList = {}
    BY DEF ProcessLater, ProcessDone, forced
<1>2. TypeOK'
    BY <1>1 DEF IInv, TypeOK
<1>3. NoDangling' /\ CountsExact' /\ Unused'
    BY <1>1 DEF IInv, NoDangling, CountsExact, Unused, OnStack, Allocated, Holders, Referrers
<1>4. ZeroListed' /\ OneRuns' /\ DueOnce' /\ Phases' /\ RoundInv'
    BY <1>1 DEF IInv, ZeroListed, OneRuns, DueOnce, Phases, RoundInv, FinalizeList
<1> QED BY <1>2, <1>3, <1>4 DEF IInv

\* An object is passed to its finalizer: one more reference, on the stack.
LEMMA Passed ==
    ASSUME IInv, NEW o \in Allocated, current = Nil, current' = o,
           count' = [count EXCEPT ![o] = @ + 1], UNCHANGED <<where, refers, roots>>
    PROVE  NoDangling' /\ CountsExact' /\ Unused' /\ count' \in [Objects -> Nat]
<1>1. o \in Objects /\ o # Nil /\ Allocated' = Allocated /\ TypeOK
    BY HeapAssumption DEF Allocated, IInv
<1>2. NoDangling' /\ Unused' /\ count' \in [Objects -> Nat]
    BY <1>1 DEF IInv, NoDangling, Unused, OnStack, TypeOK
<1>3. ASSUME NEW q \in Allocated' PROVE count'[q] = Holders(q)'
    <2>1. /\ q \in Allocated /\ q \in Objects /\ q # Nil /\ count[q] = Holders(q)
          /\ Referrers(q)' = Referrers(q)
        BY <1>1, HeapAssumption DEF Allocated, IInv, CountsExact, Referrers
    <2>2. Cardinality(Referrers(q)) \in Nat
        BY <1>1, <2>1, ReferrersFinite
    <2> QED BY <1>1, <2>1, <2>2 DEF Holders, One, TypeOK
<1> QED BY <1>2, <1>3 DEF CountsExact

LEMMA StartFinalizerStep ==
    ASSUME IInv, NEW o \in Objects, StartFinalizer(o)
    PROVE  IInv'
<1>1. /\ pc = "process" /\ phase # "skip" /\ where[o] = "due" /\ o \in Allocated
      /\ current = Nil /\ TypeOK
    BY DEF StartFinalizer, FinalizeList, Allocated, IInv, OneRuns
<1>2. /\ current' = o /\ count' = [count EXCEPT ![o] = @ + 1]
      /\ finalized' = finalized \cup {o} /\ pc' = "code" /\ idle' = idle \ {o}
      /\ hadZero' \in BOOLEAN /\ refused' \in BOOLEAN
      /\ UNCHANGED <<where, refers, roots, fin, phase, round, ran, limit, late>>
    BY DEF StartFinalizer, forced
<1>3. NoDangling' /\ CountsExact' /\ Unused' /\ count' \in [Objects -> Nat]
    BY <1>1, <1>2, Passed
<1>4. TypeOK'
    BY <1>1, <1>2, <1>3 DEF TypeOK
<1>5. phase \notin {"skip", "forced", "dead"}
    BY <1>1 DEF IInv, Phases
<1>6. ZeroListed' /\ OneRuns' /\ DueOnce' /\ Phases' /\ RoundInv'
    BY <1>1, <1>2, <1>5, HeapAssumption DEF IInv, ZeroListed, OneRuns, DueOnce, Phases, RoundInv
<1> QED BY <1>3, <1>4, <1>6 DEF IInv

LEMMA SkipFinalizerStep ==
    ASSUME IInv, NEW o \in Objects, SkipFinalizer(o)
    PROVE  IInv'
<1>1. /\ pc = "process" /\ phase = "skip" /\ where[o] = "due" /\ o \in Allocated
      /\ current = Nil /\ TypeOK /\ o # Nil /\ count[o] > 0
    BY HeapAssumption, HeldIsCounted
       DEF SkipFinalizer, FinalizeList, Allocated, IInv, OneRuns
<1>2. /\ where' = [where EXCEPT ![o] = "heap"] /\ count' = [count EXCEPT ![o] = @ - 1]
      /\ UNCHANGED <<refers, roots, fin, finalized, current, hadZero, pc, phase, refused, round, ran, limit, idle, late>>
    BY DEF SkipFinalizer, forced
<1>3. TypeOK' /\ Allocated' = Allocated
    BY <1>1, <1>2 DEF TypeOK, Allocated
<1>4. NoDangling' /\ Unused'
    BY <1>1, <1>2, <1>3 DEF IInv, NoDangling, Unused, OnStack, TypeOK
<1>5. ASSUME NEW q \in Allocated' PROVE count'[q] = Holders(q)'
    <2>1. /\ q \in Allocated /\ q \in Objects /\ count[q] = Holders(q)
          /\ Referrers(q)' = Referrers(q)
        BY <1>2, <1>3 DEF Allocated, IInv, CountsExact, Referrers
    <2>2. Cardinality(Referrers(q)) \in Nat
        BY <1>1, <2>1, ReferrersFinite
    <2> QED BY <1>1, <1>2, <2>1, <2>2 DEF Holders, One, TypeOK
<1>6. CountsExact'
    BY <1>5 DEF CountsExact
<1>7. ZeroListed' /\ OneRuns' /\ DueOnce' /\ Phases' /\ RoundInv'
    BY <1>1, <1>2 DEF IInv, TypeOK, ZeroListed, OneRuns, DueOnce, Phases, RoundInv, FinalizeList
<1> QED BY <1>3, <1>4, <1>6, <1>7 DEF IInv

LEMMA EndFinalizerStep ==
    ASSUME IInv, EndFinalizer
    PROVE  IInv'
<1>1. /\ pc = "code" /\ current # Nil /\ phase \notin {"forced", "skip", "dead"}
      /\ where[current] = "due" /\ current \in finalized
      /\ current \in Objects /\ current \in Allocated /\ TypeOK
      /\ \A q \in Objects : where[q] # "zero"
    BY DEF EndFinalizer, IInv, OneRuns, TypeOK, Allocated, ZeroListed
<1>2. /\ current' = Nil /\ hadZero' = FALSE /\ refused' = FALSE
      /\ UNCHANGED <<roots, phase, round, ran, limit, late>>
    BY DEF EndFinalizer, forced
<1>3. /\ IsFiniteSet(Referrers(current)) /\ Cardinality(Referrers(current)) \in Nat
      /\ count[current] = Cardinality(Referrers(current)) + One(current \in roots) + 2
      /\ count[current] \in Nat
    BY <1>1, ReferrersFinite DEF IInv, CountsExact, Holders, One, TypeOK
<1>4. CASE count[current] = 2
    <2>1. Referrers(current) = {} /\ current \notin roots
        <3>1. Cardinality(Referrers(current)) = 0 /\ current \notin roots
            BY <1>3, <1>4 DEF One
        <3> QED BY <1>3, <3>1, FS_EmptySet
    <2>2. /\ refers[current] \in SUBSET Objects
          /\ \A q \in refers[current] : count[q] > 0 /\ where[q] # "none"
        <3>1. \A q \in refers[current] : q \in Allocated /\ current \in Referrers(q)
            BY <1>1 DEF IInv, NoDangling, Referrers
        <3> QED BY <1>1, <3>1, HeldIsCounted DEF IInv, TypeOK, Allocated
    <2>3. /\ CountAfter(refers[current]) \in [Objects -> Nat]
          /\ WhereAfter(refers[current]) \in [Objects -> Lists]
        BY <1>1, <2>2, Loss
    <2>4. /\ count' = [CountAfter(refers[current]) EXCEPT ![current] = 0]
          /\ where' = [WhereAfter(refers[current]) EXCEPT ![current] = "none"]
          /\ refers' = [refers EXCEPT ![current] = {}]
          /\ fin' = fin \ {current} /\ finalized' = finalized \ {current}
          /\ idle' = idle \ {current}
          /\ pc' = IF \E p \in Objects : where'[p] = "zero" THEN "drain" ELSE "process"
        BY <1>1, <1>4, <1>3 DEF EndFinalizer, Unreferenced
    <2>5. Frees(current, CountAfter(refers[current]), WhereAfter(refers[current]))
        BY <1>1, <1>2, <2>3, <2>4, HeapAssumption DEF Frees, Lists
    <2>6. TypeOK'
        BY <1>1, <1>2, <2>3, <2>4 DEF TypeOK, Lists
    <2> DEFINE after ==
            \A q \in Objects :
                /\ where'[q] = "zero" =>
                     where[q] = "zero" \/ (count'[q] = 0 /\ (q \in fin' => q \in finalized'))
                /\ where'[q] = "due" =>
                     \/ where[q] = "due"
                     \/ ~Suppressed /\ q \notin finalized'
                /\ q # current /\ where[q] = "due" => where'[q] = "due"
                /\ q # current => (where'[q] = "none" <=> where[q] = "none")
    <2>7. NoDangling' /\ CountsExact' /\ Unused' /\ after
        BY <1>1, <2>1, <2>5, FreeingIsSafe
    <2>8. ZeroListed'
        BY <1>1, <2>4, <2>7 DEF ZeroListed
    <2>9. OneRuns' /\ DueOnce' /\ Phases' /\ RoundInv'
        BY <1>1, <1>2, <2>4, <2>7 DEF IInv, OneRuns, DueOnce, Phases, RoundInv
    <2> QED BY <2>6, <2>7, <2>8, <2>9 DEF IInv
<1>5. CASE count[current] # 2
    <2>1. /\ count' = [count EXCEPT ![current] = @ - 2]
          /\ where' = [where EXCEPT ![current] = "heap"]
          /\ finalized' \subseteq finalized
          /\ idle' \subseteq idle \cup {current}
          /\ pc' = "process" /\ UNCHANGED <<refers, fin>>
        BY <1>1, <1>3, <1>5 DEF EndFinalizer, Unreferenced
    <2>2. count[current] >= 2
        BY <1>3 DEF One
    <2>3. TypeOK' /\ Allocated' = Allocated
        <3>1. count[current] - 2 \in Nat /\ count' \in [Objects -> Nat]
            BY <1>1, <1>3, <2>1, <2>2 DEF TypeOK
        <3>2. Allocated' = Allocated
            BY <1>1, <2>1 DEF Allocated, TypeOK
        <3> QED BY <1>1, <1>2, <2>1, <3>1, <3>2 DEF TypeOK
    <2>4. NoDangling' /\ Unused'
        BY <1>1, <1>2, <2>1, <2>3 DEF IInv, NoDangling, Unused, OnStack, TypeOK
    <2>5. ASSUME NEW q \in Allocated' PROVE count'[q] = Holders(q)'
        <3>1. /\ q \in Allocated /\ q \in Objects /\ q # Nil /\ count[q] = Holders(q)
              /\ Referrers(q)' = Referrers(q)
            BY <2>1, <2>3, HeapAssumption DEF Allocated, IInv, CountsExact, Referrers
        <3>2. Cardinality(Referrers(q)) \in Nat
            BY <1>1, <3>1, ReferrersFinite
        <3>3. CASE q = current
            BY <1>1, <1>2, <1>3, <2>1, <3>1, <3>2, <3>3 DEF Holders, One, TypeOK
        <3>4. CASE q # current
            BY <1>1, <1>2, <2>1, <3>1, <3>2, <3>4 DEF Holders, One, TypeOK
        <3> QED BY <3>3, <3>4
    <2>6. CountsExact'
        BY <2>5 DEF CountsExact
    <2>7. ZeroListed' /\ OneRuns' /\ DueOnce' /\ Phases' /\ RoundInv'
        BY <1>1, <1>2, <2>1 DEF IInv, ZeroListed, OneRuns, DueOnce, Phases, RoundInv, TypeOK
    <2> QED BY <2>3, <2>4, <2>6, <2>7 DEF IInv
<1> QED BY <1>4, <1>5

(***************************************************************************)
(* The end of the VM                                                       *)
(***************************************************************************)

LEMMA StartRoundStep ==
    ASSUME IInv, StartRound
    PROVE  IInv'
<1>1. /\ pc = "code" /\ current = Nil /\ phase \in {"skip", "forced"} /\ TypeOK
      /\ phase' = "forced" /\ round' = Heap /\ ran' = 0 /\ idle' = {} /\ late' = {}
      /\ UNCHANGED <<where, refers, roots, count, fin, finalized, current, hadZero, refused, pc>>
    BY DEF StartRound, IInv
<1>0. limit' \in Nat
    <2>1. IsFiniteSet(Heap)
        BY HeapAssumption, FS_Subset DEF Heap
    <2>2. Cardinality(Heap) \in Nat
        BY <2>1, FS_CardinalityType
    <2>3. (3 * limit) \div 4 \in Nat
        BY <1>1 DEF TypeOK
    <2>4. limit' \in {2 * (Cardinality(Heap) + Builtins), (3 * limit) \div 4}
        BY DEF StartRound
    <2> QED BY <2>2, <2>3, <2>4, HeapAssumption
<1>2. TypeOK'
    BY <1>0, <1>1 DEF TypeOK, Heap
<1>3. NoDangling' /\ CountsExact' /\ Unused'
    BY <1>1 DEF IInv, NoDangling, CountsExact, Unused, OnStack, Allocated, Holders, Referrers
<1>4. \A o \in Objects : where[o] \in {"none", "heap"}
    BY <1>1 DEF IInv, TypeOK, ZeroListed, DueOnce, Phases, FinalizeList
<1>5. ZeroListed' /\ OneRuns' /\ DueOnce' /\ Phases' /\ RoundInv'
    BY <1>1, <1>4 DEF TypeOK, ZeroListed, OneRuns, DueOnce, Phases, RoundInv, Heap
<1> QED BY <1>2, <1>3, <1>5 DEF IInv

LEMMA VisitStep ==
    ASSUME IInv, NEW o \in Objects, Visit(o)
    PROVE  IInv'
<1>1. /\ phase = "forced" /\ current = Nil /\ o \in round /\ pc = "code" /\ TypeOK
      /\ round' = round \ {o}
      /\ UNCHANGED <<where, refers, roots, fin, hadZero, refused, pc, phase, limit, idle, late>>
    BY DEF Visit, IInv, Phases
<1>2. CASE o \in fin \ finalized /\ where[o] # "none"
    <2>1. /\ current' = o /\ count' = [count EXCEPT ![o] = @ + 1]
          /\ finalized' = finalized \cup {o} /\ ran' = ran + 1 /\ o \in Allocated
        BY <1>2 DEF Visit, Allocated
    <2>2. NoDangling' /\ CountsExact' /\ Unused' /\ count' \in [Objects -> Nat]
        BY <1>1, <2>1, Passed
    <2>3. TypeOK'
        BY <1>1, <2>1, <2>2 DEF TypeOK
    <2>4. ZeroListed' /\ OneRuns' /\ DueOnce' /\ Phases' /\ RoundInv'
        BY <1>1, <2>1 DEF IInv, TypeOK, ZeroListed, OneRuns, DueOnce, Phases, RoundInv, FinalizeList
    <2> QED BY <2>2, <2>3, <2>4 DEF IInv
<1>3. CASE o \notin fin \ finalized
    <2>1. UNCHANGED <<current, count, finalized, ran>>
        BY <1>3 DEF Visit
    <2>2. TypeOK'
        BY <1>1, <2>1 DEF TypeOK
    <2>3. NoDangling' /\ CountsExact' /\ Unused'
        BY <1>1, <2>1 DEF IInv, NoDangling, CountsExact, Unused, OnStack, Allocated, Holders, Referrers
    <2>4. ZeroListed' /\ OneRuns' /\ DueOnce' /\ Phases' /\ RoundInv'
        BY <1>1, <1>3, <2>1 DEF IInv, ZeroListed, OneRuns, DueOnce, Phases, RoundInv, FinalizeList
    <2> QED BY <2>2, <2>3, <2>4 DEF IInv
<1>4. where[o] # "none"
    BY <1>1 DEF IInv, RoundInv
<1> QED BY <1>2, <1>3, <1>4

LEMMA EndForcedStep ==
    ASSUME IInv, EndForced
    PROVE  IInv'
<1>1. /\ phase = "forced" /\ current # Nil /\ pc = "code" /\ ran > 0 /\ TypeOK
      /\ current \in Objects /\ current \in Allocated
      /\ where[current] # "due" /\ count[current] > 0
    BY HeldIsCounted DEF EndForced, IInv, Phases, RoundInv, TypeOK, NoDangling, OnStack, DueOnce
<1>2. /\ current' = Nil /\ count' = [count EXCEPT ![current] = @ - 1]
      /\ UNCHANGED <<where, refers, roots, fin, finalized, hadZero, pc, phase, refused, round, ran, limit, idle, late>>
    BY DEF EndForced, forced
<1>3. TypeOK' /\ Allocated' = Allocated
    BY <1>1, <1>2 DEF TypeOK, Allocated
<1>4. NoDangling' /\ Unused'
    BY <1>1, <1>2, <1>3 DEF IInv, NoDangling, Unused, OnStack
<1>5. ASSUME NEW q \in Allocated' PROVE count'[q] = Holders(q)'
    <2>1. /\ q \in Allocated /\ q \in Objects /\ q # Nil /\ count[q] = Holders(q)
          /\ Referrers(q)' = Referrers(q)
        BY <1>2, <1>3, HeapAssumption DEF Allocated, IInv, CountsExact, Referrers
    <2>2. Cardinality(Referrers(q)) \in Nat
        BY <1>1, <2>1, ReferrersFinite
    <2>3. CASE q = current
        BY <1>1, <1>2, <2>1, <2>2, <2>3 DEF Holders, One, TypeOK
    <2>4. CASE q # current
        BY <1>1, <1>2, <2>1, <2>2, <2>4 DEF Holders, One, TypeOK
    <2> QED BY <2>3, <2>4
<1>6. CountsExact'
    BY <1>5 DEF CountsExact
<1>7. ZeroListed' /\ OneRuns' /\ DueOnce' /\ Phases' /\ RoundInv'
    BY <1>1, <1>2 DEF IInv, TypeOK, ZeroListed, OneRuns, DueOnce, Phases, RoundInv, FinalizeList
<1> QED BY <1>3, <1>4, <1>6, <1>7 DEF IInv

LEMMA ReleaseStep ==
    ASSUME IInv, Release
    PROVE  IInv'
<1>1. /\ phase = "forced" /\ current = Nil /\ round = {} /\ pc = "code" /\ TypeOK
      /\ phase' = "dead" /\ ran' = 0 /\ limit' = 0
      /\ Gone /\ UNCHANGED <<current, hadZero, pc, refused, round>>
    BY DEF Release, IInv, Phases
<1>2. TypeOK' /\ Allocated' = {}
    BY <1>1 DEF TypeOK, Gone, Allocated
<1>3. NoDangling' /\ CountsExact' /\ Unused'
    BY <1>1, <1>2 DEF NoDangling, CountsExact, Unused, OnStack, Gone
<1>4. ZeroListed' /\ OneRuns' /\ DueOnce' /\ Phases' /\ RoundInv'
    BY <1>1 DEF Gone, ZeroListed, OneRuns, DueOnce, Phases, RoundInv
<1> QED BY <1>2, <1>3, <1>4 DEF IInv

(***************************************************************************)
(* Mark-and-sweep                                                          *)
(***************************************************************************)

\* Marking finds everything its roots lead to, and nothing a closed set that
\* contains the roots does not have.
LEMMA ReachClosed ==
    ASSUME refers \in [Objects -> SUBSET Objects], NEW S \in SUBSET Objects
    PROVE  /\ S \subseteq Reach(S) /\ Reach(S) \subseteq Objects
           /\ \A p \in Reach(S) : refers[p] \subseteq Reach(S)
           /\ \A C \in Closed(S) : Reach(S) \subseteq C
<1>1. \A C \in Closed(S) : S \subseteq C /\ \A p \in C : refers[p] \subseteq C
    BY DEF Closed
<1> QED BY <1>1 DEF Reach

\* What a sweep leaves; nothing is about to be freed when it begins.
LEMMA SweepIsSafe ==
    ASSUME IInv, Sweep, \A o \in Objects : where[o] # "zero", phase # "forced"
    PROVE  /\ NoDangling' /\ CountsExact' /\ Unused'
           /\ where' \in [Objects -> Lists] /\ count' \in [Objects -> Nat]
           /\ refers' \in [Objects -> SUBSET Objects]
           /\ UNCHANGED <<roots, current, hadZero, refused, late>>
           /\ fin' \subseteq fin /\ finalized' \subseteq finalized /\ idle' \subseteq idle
           /\ current # Nil => current \in finalized' /\ where'[current] = "due"
           /\ \A o \in Objects :
                /\ where'[o] # "zero"
                /\ where'[o] = "due" => where[o] = "due" \/ o \notin finalized
<1> DEFINE G == Garbage
           F == Finalizable
           K == Marked
<1>1. TypeOK /\ where \in [Objects -> Lists] /\ count \in [Objects -> Nat]
    BY DEF IInv, TypeOK, Lists
<1>2. /\ roots \cup OnStack \subseteq K /\ F \subseteq K /\ FinalizeList \subseteq K
      /\ \A p \in K : refers[p] \subseteq K
    <2>1. MarkRoots \cup F \cup FinalizeList \in SUBSET Objects
        BY <1>1 DEF MarkRoots, OnStack, Finalizable, FinalizeList, Heap, TypeOK
    <2> QED BY <1>1, <2>1, ReachClosed DEF Marked, MarkRoots, TypeOK
<1>3. /\ F \subseteq Heap /\ G = Heap \ K
      /\ \A o \in F : o \in fin /\ o \notin finalized
    BY DEF Finalizable, Garbage
<1>4. /\ where' = [o \in Objects |-> IF o \in G THEN "none"
                                     ELSE IF o \in F THEN "due" ELSE where[o]]
      /\ refers' = [o \in Objects |-> IF o \in G THEN {} ELSE refers[o]]
      /\ fin' \subseteq fin /\ idle' \subseteq idle
      /\ finalized' = (finalized \ G) \ Rescued
      /\ UNCHANGED <<roots, current, hadZero, refused, late>>
    BY DEF Sweep
<1> DEFINE after(q) ==
               IF q \in G THEN 0
               ELSE count[q] - Cardinality({p \in G : q \in refers[p]}) + (IF q \in F THEN 1 ELSE 0)
<1>5. count' = [q \in Objects |-> after(q)]
    BY DEF Sweep, Bump
<1>6. /\ \A q \in Objects : count'[q] = after(q)
      /\ \A q \in Objects : q \in G => count'[q] = 0
    BY <1>5
<1> HIDE DEF G, F, K
<1>7. /\ Allocated = Heap \cup FinalizeList /\ Allocated' = Allocated \ G
      /\ Allocated' \subseteq K /\ Heap \cap FinalizeList = {} /\ G \subseteq Objects
      /\ G \subseteq Heap /\ G \cap F = {}
    BY <1>1, <1>2, <1>3, <1>4 DEF Allocated, Heap, FinalizeList, Lists
<1>8. where' \in [Objects -> Lists] /\ refers' \in [Objects -> SUBSET Objects]
    BY <1>1, <1>4 DEF Lists, TypeOK
<1>9. NoDangling'
    <2>1. roots \subseteq Allocated' /\ OnStack' \subseteq Allocated'
        BY <1>2, <1>3, <1>4, <1>7 DEF IInv, NoDangling, OnStack
    <2>2. ASSUME NEW o \in Allocated' PROVE refers'[o] \subseteq Allocated'
        <3>1. o \in Allocated /\ o \in Objects /\ o \in K /\ o \notin G
            BY <1>7 DEF Allocated
        <3>2. refers'[o] = refers[o] /\ refers[o] \subseteq Allocated /\ refers[o] \subseteq K
            BY <1>2, <1>4, <3>1 DEF IInv, NoDangling
        <3> QED BY <1>3, <1>7, <3>2
    <2> QED BY <1>4, <2>1, <2>2 DEF NoDangling
<1>10. ASSUME NEW q \in Objects, q \notin G
       PROVE  /\ count'[q] \in Nat
              /\ q \in Allocated' => count'[q] = Holders(q)'
    <2> DEFINE R == Referrers(q)
               L == {p \in G : q \in refers[p]}
    <2>1. L = R \cap G /\ IsFiniteSet(R) /\ Cardinality(R) \in Nat
        BY <1>1, <1>7, ReferrersFinite DEF Referrers
    <2>2. /\ IsFiniteSet(R \cap G) /\ Cardinality(R \cap G) \in Nat
          /\ Cardinality(R \cap G) <= Cardinality(R)
          /\ Cardinality(R \ G) = Cardinality(R) - Cardinality(R \cap G)
        <3>1. IsFiniteSet(R \cap G) /\ Cardinality(R \cap G) <= Cardinality(R)
            BY <2>1, FS_Subset
        <3> QED BY <2>1, <3>1, FS_CardinalityType, FS_Difference
    <2>3. Cardinality(L) = Cardinality(R \cap G)
        BY <2>1
    <2>4. count'[q] = count[q] - Cardinality(R \cap G) + (IF q \in F THEN 1 ELSE 0)
        BY <1>6, <1>10, <2>3
    <2>5. count[q] \in Nat
        BY <1>1
    <2> HIDE DEF R, L
    <2>6. CASE q \in Allocated
        <3>1. /\ count[q] = Cardinality(R) + One(q \in roots) + One(where[q] = "due") + One(q = current)
              /\ q \in Allocated'
            BY <1>7, <1>10, <2>6 DEF IInv, CountsExact, Holders, R
        <3>2. count'[q] \in Nat
            BY <2>1, <2>2, <2>4, <2>5, <3>1 DEF One
        <3>3. Referrers(q)' = R \ G
            BY <1>4, <1>7 DEF Referrers, R, Allocated
        <3>4. /\ where'[q] = "due" <=> where[q] = "due" \/ q \in F
              /\ ~(where[q] = "due" /\ q \in F)
            BY <1>3, <1>4, <1>10 DEF Heap
        <3>5. count'[q] = Cardinality(Referrers(q)') + One(q \in roots) + One(where'[q] = "due") + One(q = current)
            BY <2>1, <2>2, <2>4, <2>5, <3>1, <3>3, <3>4 DEF One
        <3> QED BY <1>4, <3>2, <3>5 DEF Holders
    <2>7. CASE q \notin Allocated
        <3>1. R \cap G = {} /\ q \notin F /\ q \notin Allocated'
            BY <1>3, <1>7, <2>7 DEF IInv, NoDangling, R, Referrers
        <3>2. Cardinality(R \cap G) = 0
            BY <3>1, FS_EmptySet
        <3> QED BY <2>4, <2>5, <3>1, <3>2
    <2> QED BY <2>6, <2>7
<1>11. count' \in [Objects -> Nat]
    <2>1. ASSUME NEW q \in Objects PROVE count'[q] \in Nat
        <3>1. CASE q \in G
            BY <1>6, <3>1
        <3>2. CASE q \notin G
            BY <1>10, <3>2
        <3> QED BY <3>1, <3>2
    <2>2. \A q \in Objects : after(q) \in Nat
        BY <1>6, <2>1
    <2> HIDE DEF after
    <2> QED BY <1>5, <2>2
<1>12. CountsExact'
    <2>1. \A q \in Allocated' : q \in Objects /\ q \notin G
        BY <1>7 DEF Allocated
    <2> QED BY <1>10, <2>1 DEF CountsExact
<1>13. Unused'
    BY <1>4 DEF IInv, Unused
<1>14. current # Nil => current \in finalized' /\ where'[current] = "due"
    <2> SUFFICES ASSUME current # Nil PROVE current \in finalized' /\ where'[current] = "due"
        OBVIOUS
    <2>1. current \in FinalizeList /\ current \in finalized /\ current \in Objects
        BY <1>1 DEF IInv, OneRuns, FinalizeList, TypeOK
    <2>2. Rescued = {} /\ current \notin G /\ where[current] = "due"
        BY <1>7, <2>1 DEF Rescued, FinalizeList
    <2> QED BY <1>4, <2>1, <2>2
<1>15. \A o \in Objects :
         /\ where'[o] # "zero"
         /\ where'[o] = "due" => where[o] = "due" \/ o \notin finalized
    BY <1>3, <1>4
<1> QED BY <1>4, <1>8, <1>9, <1>11, <1>12, <1>13, <1>14, <1>15

LEMMA CollectStep ==
    ASSUME IInv, Collect
    PROVE  IInv'
<1>1. /\ Sweep /\ phase # "forced" /\ pc' \in RunFinalizers /\ TypeOK
      /\ UNCHANGED <<phase, round, ran, limit>>
      /\ pc = "code" /\ phase \in {"running", "first", "second"}
      /\ \A o \in Objects : where[o] # "zero"
    BY CodeRuns DEF Collect, IInv, forced
<1>2. /\ NoDangling' /\ CountsExact' /\ Unused'
      /\ where' \in [Objects -> Lists] /\ count' \in [Objects -> Nat]
      /\ refers' \in [Objects -> SUBSET Objects]
      /\ UNCHANGED <<roots, current, hadZero, refused, late>>
      /\ fin' \subseteq fin /\ finalized' \subseteq finalized /\ idle' \subseteq idle
      /\ current # Nil => current \in finalized' /\ where'[current] = "due"
      /\ \A o \in Objects :
           /\ where'[o] # "zero"
           /\ where'[o] = "due" => where[o] = "due" \/ o \notin finalized
    BY <1>1, SweepIsSafe
<1>3. pc' \in {"code", "process"} /\ (current # Nil => pc' = "code")
    BY <1>1 DEF RunFinalizers
<1>4. TypeOK'
    BY <1>1, <1>2, <1>3 DEF TypeOK, Lists
<1>5. ZeroListed' /\ OneRuns'
    BY <1>1, <1>2, <1>3 DEF ZeroListed, OneRuns
<1>6. DueOnce' /\ Phases' /\ RoundInv'
    BY <1>1, <1>2, <1>3 DEF IInv, DueOnce, Phases, RoundInv, FinalizeList
<1> QED BY <1>2, <1>4, <1>5, <1>6 DEF IInv

LEMMA DestroyStep ==
    ASSUME IInv, Destroy
    PROVE  IInv'
<1>1. /\ Sweep /\ pc = "code" /\ current = Nil /\ pc' = "process" /\ TypeOK
      /\ phase \in {"running", "first", "second"} /\ phase' \in {"first", "second", "skip"}
      /\ UNCHANGED <<round, ran, limit>>
      /\ \A o \in Objects : where[o] # "zero"
    BY DEF Destroy, NextPhase, IInv, ZeroListed, forced
<1>2. /\ NoDangling' /\ CountsExact' /\ Unused'
      /\ where' \in [Objects -> Lists] /\ count' \in [Objects -> Nat]
      /\ refers' \in [Objects -> SUBSET Objects]
      /\ UNCHANGED <<roots, current, hadZero, refused, late>>
      /\ fin' \subseteq fin /\ finalized' \subseteq finalized /\ idle' \subseteq idle
      /\ \A o \in Objects :
           /\ where'[o] # "zero"
           /\ where'[o] = "due" => where[o] = "due" \/ o \notin finalized
    BY <1>1, SweepIsSafe
<1>3. TypeOK'
    BY <1>1, <1>2 DEF TypeOK, Lists
<1>4. ZeroListed' /\ OneRuns'
    BY <1>1, <1>2 DEF ZeroListed, OneRuns
<1>5. DueOnce' /\ Phases' /\ RoundInv'
    BY <1>1, <1>2 DEF IInv, DueOnce, Phases, RoundInv, FinalizeList
<1> QED BY <1>2, <1>3, <1>4, <1>5 DEF IInv


(***************************************************************************)
(* The theorems                                                            *)
(***************************************************************************)

LEMMA InitIInv == Init => IInv
<1> SUFFICES ASSUME Init PROVE IInv
    OBVIOUS
<1>1. TypeOK /\ Allocated = {}
    BY DEF Init, TypeOK, Allocated
<1>2. NoDangling /\ CountsExact /\ Unused
    BY <1>1 DEF Init, NoDangling, CountsExact, Unused, OnStack
<1>3. ZeroListed /\ OneRuns /\ DueOnce /\ Phases /\ RoundInv
    BY DEF Init, ZeroListed, OneRuns, DueOnce, Phases, RoundInv
<1> QED BY <1>1, <1>2, <1>3 DEF IInv

LEMMA StutterStep ==
    ASSUME IInv, UNCHANGED vars
    PROVE  IInv'
BY DEF vars, forced, IInv, TypeOK, NoDangling, CountsExact, Unused, ZeroListed, OneRuns, DueOnce,
       Phases, RoundInv, OnStack, Allocated, Holders, Referrers, FinalizeList

LEMMA NextIInv == IInv /\ [Next]_vars => IInv'
<1> SUFFICES ASSUME IInv, [Next]_vars PROVE IInv'
    OBVIOUS
<1> USE DEF Next
<1>1. CASE UNCHANGED vars
    BY <1>1, StutterStep
<1>2. CASE Code
    <2>1. Accessible \in SUBSET Objects
        BY DEF Accessible, Reach
    <2> QED BY <1>2, <2>1, NewStep, HoldStep, DropStep, SetFinalizerStep, LinkStep, UnlinkStep,
               CollectStep, ProcessSteps, EndFinalizerStep DEF Code
<1>3. CASE Engine
    BY <1>3, FreeOneStep, StartFinalizerStep, SkipFinalizerStep, VisitStep, ProcessSteps,
       DestroyStep, StartRoundStep, EndForcedStep, ReleaseStep DEF Engine
<1> QED BY <1>1, <1>2, <1>3

LEMMA Inductive == Spec => []IInv
BY InitIInv, NextIInv, PTL DEF Spec

\* Every variable keeps to its type; a count is never negative.
THEOREM TypeCorrect == Spec => []TypeOK
<1>1. IInv => TypeOK
    BY DEF IInv
<1> QED BY <1>1, Inductive, PTL

\* Whatever is collected, freed in a cascade or finalized: no variable, no
\* slot of the value stack and no property refers to freed memory.
THEOREM NothingDangles == Spec => []NoDangling
<1>1. IInv => NoDangling
    BY DEF IInv
<1> QED BY <1>1, Inductive, PTL

\* The count of an object is the number of its holders after every step, in
\* the middle of a cascade too.
THEOREM CountsAreExact == Spec => []CountsExact
<1>1. IInv => CountsExact
    BY DEF IInv
<1> QED BY <1>1, Inductive, PTL

\* An object waits for its finalizer only before the finalizer has run, and
\* stays on the list while it runs.
THEOREM ListIsKept == Spec => []ListKept
<1>1. ASSUME IInv PROVE ListKept
    <2>1. \A o \in FinalizeList : where[o] = "due" /\ o \in Objects /\ o # Nil
        BY HeapAssumption DEF FinalizeList
    <2>2. current # Nil => current \in Objects
        BY <1>1 DEF IInv, TypeOK
    <2> QED BY <1>1, <2>1, <2>2 DEF IInv, OneRuns, DueOnce, ListKept, OnStack, FinalizeList
<1> QED BY <1>1, Inductive, PTL

(***************************************************************************)
(* Nothing is forgotten                                                    *)
(***************************************************************************)

\* Until the last steps of a VM an object that is neither listed nor being
\* freed has a holder.
HeapHeld == phase \in {"running", "first", "second"} => \A o \in Heap : count[o] > 0

Held == \A o \in Allocated :
            o \in roots \/ o = current \/ where[o] = "due" \/ Referrers(o) # {} => count[o] > 0

LEMMA HeldNow == IInv => Held
BY HeldIsCounted DEF IInv, Held

\* It is so after every step, too.
LEMMA HeldNext == (IInv => Held)'
BY HeldNow, PTL

\* Objects that lose a reference, and stay where they are, have another one.
LEMMA LossKeepsHeld ==
    ASSUME IInv, HeapHeld, phase \in {"running", "first", "second"},
           NEW T \in SUBSET Objects, \A o \in T : count[o] > 0 /\ where[o] # "none",
           NEW o \in Objects, WhereAfter(T)[o] = "heap"
    PROVE  CountAfter(T)[o] > 0
<1>1. TypeOK /\ count[o] \in Nat /\ ~Suppressed
    BY DEF IInv, TypeOK, Suppressed
<1>2. where[o] = "heap" /\ o \notin Zeroed(T) /\ o \notin Due(Zeroed(T))
    BY DEF WhereAfter, Due
<1>3. count[o] > 0
    BY <1>2 DEF HeapHeld, Heap
<1>4. o \in T => count[o] # 1
    BY <1>1, <1>2 DEF Zeroed
<1> QED BY <1>1, <1>2, <1>3, <1>4 DEF CountAfter

\* What an object refers to has a count to lose.
LEMMA PropsCounted ==
    ASSUME IInv, NEW o \in Allocated
    PROVE  refers[o] \in SUBSET Objects /\ \A q \in refers[o] : count[q] > 0 /\ where[q] # "none"
<1>1. \A q \in refers[o] : q \in Allocated /\ o \in Referrers(q)
    BY DEF IInv, NoDangling, Referrers
<1> QED BY <1>1, HeldIsCounted DEF IInv, TypeOK, Allocated

\* What a sweep leaves on the heap it has marked from a root or from another
\* object that stays.
LEMMA SweepKeepsHeld ==
    ASSUME IInv, IInv', Sweep, NEW o \in Heap'
    PROVE  count'[o] > 0
<1> DEFINE S == MarkRoots \cup Finalizable \cup FinalizeList
<1>1. /\ where' = [q \in Objects |-> IF q \in Garbage THEN "none"
                                     ELSE IF q \in Finalizable THEN "due" ELSE where[q]]
      /\ refers' = [q \in Objects |-> IF q \in Garbage THEN {} ELSE refers[q]]
      /\ roots' = roots /\ current' = current
    BY DEF Sweep
<1>2. o \in Heap /\ o \notin Garbage /\ o \notin Finalizable /\ o \notin FinalizeList
    BY <1>1 DEF Heap, FinalizeList
<1>3. o \in Marked /\ o \in Objects /\ o \in Allocated'
    BY <1>2 DEF Garbage, Heap, Allocated
<1>4. S \in SUBSET Objects /\ refers \in [Objects -> SUBSET Objects]
    BY DEF MarkRoots, OnStack, Finalizable, FinalizeList, Heap, IInv, TypeOK
<1>5. /\ S \subseteq Marked /\ Marked \subseteq Objects
      /\ \A p \in Marked : refers[p] \subseteq Marked
      /\ \A C \in Closed(S) : Marked \subseteq C
    BY <1>4, ReachClosed DEF Marked
<1>6. CASE o \in S
    <2>1. o \in roots' \/ o = current'
        BY <1>1, <1>2, <1>6 DEF MarkRoots, OnStack
    <2> QED BY <1>3, <2>1, HeldNext DEF Held
<1>7. CASE o \notin S
    <2>1. PICK p \in Marked : o \in refers[p]
        <3>1. SUFFICES ASSUME \A p \in Marked : o \notin refers[p] PROVE FALSE
            OBVIOUS
        <3>2. Marked \ {o} \in Closed(S)
            BY <1>5, <1>7, <3>1 DEF Closed
        <3> QED BY <1>3, <1>5, <3>2
    <2>2. p \in Objects /\ p \notin Garbage /\ where[p] # "none"
        BY <1>5, <2>1 DEF Garbage, IInv, Unused
    <2>3. p \in Referrers(o)'
        BY <1>1, <2>1, <2>2 DEF Referrers, Allocated
    <2> QED BY <1>3, <2>3, HeldNext DEF Held
<1> QED BY <1>6, <1>7

LEMMA CodeKeepsHeld ==
    ASSUME IInv, IInv', HeapHeld, Code, phase \in {"running", "first", "second"}, NEW o \in Heap'
    PROVE  count'[o] > 0
<1>1. /\ o \in Objects /\ where'[o] = "heap" /\ TypeOK /\ TypeOK'
      /\ Accessible \subseteq Allocated /\ Allocated \subseteq Objects
      /\ count[o] \in Nat /\ (where[o] = "heap" => count[o] > 0)
    BY AccessibleAllocated DEF IInv, Heap, TypeOK, Allocated, HeapHeld
<1>2. ASSUME NEW p \in Objects, New(p) PROVE count'[o] > 0
    BY <1>1, <1>2 DEF New, TypeOK
<1>3. ASSUME NEW p \in Accessible, Hold(p) PROVE count'[o] > 0
    BY <1>1, <1>3 DEF Hold, TypeOK
<1>4. ASSUME NEW p \in Accessible, Drop(p) PROVE count'[o] > 0
    <2>1. {p} \in SUBSET Objects /\ \A q \in {p} : count[q] > 0 /\ where[q] # "none"
        BY <1>1, <1>4, HeldIsCounted DEF Drop, IInv, Allocated
    <2> QED BY <1>1, <1>4, <2>1, LossKeepsHeld DEF Drop
<1>5. ASSUME NEW p \in Accessible, NEW q \in Accessible, Unlink(p, q) PROVE count'[o] > 0
    <2>1. {q} \in SUBSET Objects /\ \A r \in {q} : count[r] > 0 /\ where[r] # "none"
        BY <1>1, <1>5, PropsCounted DEF Unlink
    <2> QED BY <1>1, <1>5, <2>1, LossKeepsHeld DEF Unlink
<1>6. ASSUME NEW p \in Accessible, NEW q \in Accessible, Link(p, q) PROVE count'[o] > 0
    BY <1>1, <1>6 DEF Link, TypeOK
<1>7. ASSUME NEW p \in Accessible, SetFinalizer(p) PROVE count'[o] > 0
    BY <1>1, <1>7 DEF SetFinalizer
<1>8. ASSUME Collect PROVE count'[o] > 0
    BY <1>8, SweepKeepsHeld DEF Collect
<1>9. ASSUME ProcessLater PROVE count'[o] > 0
    BY <1>1, <1>9 DEF ProcessLater
<1>10. ASSUME EndFinalizer PROVE count'[o] > 0
    <2>1. current \in Allocated /\ current \in Objects /\ current # Nil /\ where[current] = "due"
        BY <1>1, <1>10 DEF EndFinalizer, IInv, OneRuns, TypeOK, Allocated
    <2>2. count[current] \in Nat /\ count[current] >= 2
        BY <1>1, <2>1, ReferrersFinite DEF IInv, CountsExact, Holders, One, TypeOK
    <2>3. CASE Unreferenced(count[current] - 1)
        <3>1. /\ count' = [CountAfter(refers[current]) EXCEPT ![current] = 0]
              /\ where' = [WhereAfter(refers[current]) EXCEPT ![current] = "none"]
            BY <1>10, <2>3 DEF EndFinalizer
        <3>2. o # current
            BY <1>1, <2>1, <3>1 DEF WhereAfter
        <3>3. count'[o] = CountAfter(refers[current])[o] /\ WhereAfter(refers[current])[o] = "heap"
            BY <1>1, <3>1, <3>2 DEF WhereAfter, CountAfter
        <3> QED BY <1>1, <2>1, <3>3, PropsCounted, LossKeepsHeld
    <2>4. CASE ~Unreferenced(count[current] - 1)
        <3>1. /\ count' = [count EXCEPT ![current] = @ - 2]
              /\ where' = [where EXCEPT ![current] = "heap"]
            BY <1>10, <2>4 DEF EndFinalizer
        <3>2. count[current] # 2
            BY <2>4 DEF Unreferenced
        <3> QED BY <1>1, <2>1, <2>2, <3>1, <3>2 DEF TypeOK
    <2> QED BY <2>3, <2>4
<1> QED BY <1>1, <1>2, <1>3, <1>4, <1>5, <1>6, <1>7, <1>8, <1>9, <1>10 DEF Code

LEMMA EngineKeepsHeld ==
    ASSUME IInv, IInv', HeapHeld, Engine, phase \in {"running", "first", "second"}, NEW o \in Heap'
    PROVE  count'[o] > 0 \/ phase' = "skip"
<1>1. /\ o \in Objects /\ where'[o] = "heap" /\ TypeOK
      /\ count[o] \in Nat /\ (where[o] = "heap" => count[o] > 0)
    BY DEF IInv, Heap, TypeOK, HeapHeld
<1>2. ASSUME NEW g \in Objects, FreeOne(g) PROVE count'[o] > 0
    <2>1. /\ g \in Allocated
          /\ count' = CountAfter(refers[g]) /\ where' = [WhereAfter(refers[g]) EXCEPT ![g] = "none"]
        BY <1>2 DEF FreeOne, RefzeroList, Allocated
    <2>2. WhereAfter(refers[g])[o] = "heap"
        BY <1>1, <2>1 DEF WhereAfter
    <2> QED BY <1>1, <2>1, <2>2, PropsCounted, LossKeepsHeld
<1>3. ASSUME NEW p \in Objects, StartFinalizer(p) PROVE count'[o] > 0
    BY <1>1, <1>3 DEF StartFinalizer, TypeOK
<1>4. ASSUME ProcessDone PROVE count'[o] > 0
    BY <1>1, <1>4 DEF ProcessDone
<1>5. ASSUME Destroy PROVE count'[o] > 0
    BY <1>5, SweepKeepsHeld DEF Destroy
<1>6. \A p \in Objects : ~SkipFinalizer(p) /\ ~Visit(p)
    BY DEF SkipFinalizer, Visit
<1>7. ~StartRound /\ ~EndForced /\ ~Release
    BY DEF StartRound, EndForced, Release
<1> QED BY <1>2, <1>3, <1>4, <1>5, <1>6, <1>7 DEF Engine

\* The life of a VM goes forward only.
LEMMA PhaseForward ==
    ASSUME IInv, Next, phase' \in {"running", "first", "second"}
    PROVE  phase \in {"running", "first", "second"}
<1>1. phase \in {"running", "first", "second", "skip", "forced", "dead"}
    BY DEF IInv, TypeOK
<1> QED BY <1>1 DEF Next, Code, Engine, New, Hold, Drop, SetFinalizer, Link, Unlink, Collect,
                   ProcessLater, EndFinalizer, FreeOne, StartFinalizer, SkipFinalizer, Visit,
                   ProcessDone, Destroy, StartRound, EndForced, Release, NextPhase

\* Whenever JS code runs, each object has a reference or waits for its
\* finalizer: what has lost its last reference is gone.
THEOREM NothingIsForgotten == Spec => []NothingLeftAtZero
<1>1. Init => HeapHeld
    BY DEF Init, HeapHeld, Heap
<1>2. IInv /\ IInv' /\ HeapHeld /\ [Next]_vars => HeapHeld'
    <2> SUFFICES ASSUME IInv, IInv', HeapHeld, [Next]_vars,
                        phase' \in {"running", "first", "second"}, NEW o \in Heap'
                 PROVE  count'[o] > 0
        BY DEF HeapHeld
    <2>1. CASE UNCHANGED vars
        BY <2>1 DEF vars, HeapHeld, Heap
    <2>2. CASE Next
        BY <2>2, PhaseForward, CodeKeepsHeld, EngineKeepsHeld DEF Next
    <2> QED BY <2>1, <2>2
<1>3. IInv /\ HeapHeld => NothingLeftAtZero
    <2> SUFFICES ASSUME IInv, HeapHeld, JsCode, phase # "forced"
                 PROVE  RefzeroList = {} /\ \A o \in Heap : count[o] > 0
        BY DEF NothingLeftAtZero
    <2> QED BY CodeRuns DEF JsCode, HeapHeld, RefzeroList
<1> QED BY <1>1, <1>2, <1>3, Inductive, PTL DEF Spec

\* A sweep forgets only what marking from any part of its roots does not find.
LEMMA GarbageUnmarked ==
    ASSUME TypeOK, NoDangling, Unused
    PROVE  /\ Garbage \cap Reach(MarkRoots) = {}
           /\ Garbage \cap Finalizable = {}
           /\ \A o \in Allocated \ Garbage :
                o \in Heap \cup FinalizeList => refers[o] \cap Garbage = {}
<1>1. MarkRoots \cup Finalizable \cup FinalizeList \in SUBSET Objects
    BY DEF MarkRoots, OnStack, Finalizable, FinalizeList, Heap, TypeOK
<1>2. /\ MarkRoots \cup Finalizable \cup FinalizeList \subseteq Marked /\ Marked \subseteq Objects
      /\ \A p \in Marked : refers[p] \subseteq Marked
    BY <1>1, ReachClosed DEF Marked, TypeOK
<1>3. Marked \in Closed(MarkRoots)
    BY <1>2 DEF Closed
<1>4. Reach(MarkRoots) \subseteq Marked
    BY <1>3 DEF Reach
<1> QED BY <1>2, <1>4 DEF Garbage

\* No object is freed before its finalizer has been tried: not by its count,
\* not by mark-and-sweep.  At the end of the VM only what finalizers make, or give
\* a finalizer, in a round that reaches the limit goes without.
THEOREM FinalizersComeFirst == Spec => NeverFreedUnfinalized
<1> DEFINE kept == \A o \in fin : o \in Allocated /\ o \notin Allocated' =>
                       o \in finalized \/ (o \in late /\ ran >= limit)
<1>1. ASSUME IInv, [Next]_vars PROVE kept
    <2> SUFFICES ASSUME NEW o \in fin, o \in Allocated, o \notin Allocated'
                 PROVE  o \in finalized \/ (o \in late /\ ran >= limit)
        OBVIOUS
    <2>1. o \in Objects /\ where[o] # "none" /\ where'[o] = "none" /\ TypeOK /\ IInv
        BY <1>1 DEF Allocated, IInv
    <2>2. \A T \in SUBSET Objects : WhereAfter(T)[o] # "none"
        BY <2>1 DEF WhereAfter
    <2>3. Accessible \in SUBSET Objects
        BY DEF Accessible, Reach
    <2>4. ~UNCHANGED where
        BY <2>1
    <2>5. ASSUME NEW p \in Objects PROVE ~New(p) /\ ~SkipFinalizer(p)
        BY <2>1, <2>5 DEF New, SkipFinalizer, TypeOK
    <2>6. ASSUME NEW p \in Objects PROVE ~Drop(p)
        <3>1. {p} \in SUBSET Objects
            BY <2>6
        <3> QED BY <2>1, <2>2, <3>1 DEF Drop
    <2>7. ASSUME NEW p \in Objects, NEW q \in Objects PROVE ~Unlink(p, q)
        <3>1. {q} \in SUBSET Objects
            BY <2>7
        <3> QED BY <2>1, <2>2, <3>1 DEF Unlink
    <2>8. ASSUME NEW p \in Objects, FreeOne(p) PROVE o \in finalized
        <3>1. refers[p] \in SUBSET Objects
            BY <2>1, <2>8 DEF TypeOK
        <3>2. o = p
            BY <2>1, <2>2, <2>8, <3>1 DEF FreeOne
        <3> QED BY <2>1, <2>8, <3>2 DEF FreeOne, RefzeroList, IInv, ZeroListed
    <2>9. ASSUME EndFinalizer PROVE o \in finalized
        <3>1. current \in Objects /\ current \in finalized
            BY <2>1, <2>9 DEF EndFinalizer, TypeOK, IInv, OneRuns
        <3>2. refers[current] \in SUBSET Objects
            BY <2>1, <3>1 DEF TypeOK
        <3>3. CASE Unreferenced(count[current] - 1)
            <4>1. where' = [WhereAfter(refers[current]) EXCEPT ![current] = "none"]
                BY <2>9, <3>3 DEF EndFinalizer
            <4>2. o = current
                BY <2>1, <2>2, <3>2, <4>1
            <4> QED BY <3>1, <4>2
        <3>4. CASE ~Unreferenced(count[current] - 1)
            BY <2>1, <2>9, <3>1, <3>4 DEF EndFinalizer, TypeOK
        <3> QED BY <3>3, <3>4
    <2>10. ASSUME Sweep PROVE o \in finalized
        <3>1. o \in Garbage
            BY <2>1, <2>10 DEF Sweep
        <3>2. o \notin Reach(MarkRoots) /\ o \notin Finalizable /\ o \in Heap
            BY <2>1, <3>1, GarbageUnmarked DEF IInv, Garbage
        <3> QED BY <3>2 DEF Finalizable
    <2>11. ASSUME Release PROVE o \in finalized \/ (o \in late /\ ran >= limit)
        <3>1. phase = "forced" /\ round = {} /\ ~AnotherRound /\ ran \in Nat /\ limit \in Nat
            BY <2>1, <2>11 DEF Release, TypeOK
        <3>2. o \in finalized \cup late
            BY <2>1, <3>1 DEF IInv, RoundInv
        <3>3. ran = 0 => late = {}
            BY <2>1, <3>1 DEF IInv, RoundInv
        <3>4. ran = 0 \/ ran >= limit
            BY <3>1 DEF AnotherRound
        <3> QED BY <3>2, <3>3, <3>4
    <2>12. CASE UNCHANGED vars
        BY <2>4, <2>12 DEF vars
    <2>13. CASE Code
        <3>2. \A p, q \in Objects : ~Hold(p) /\ ~SetFinalizer(p) /\ ~Link(p, q)
            BY <2>4 DEF Hold, SetFinalizer, Link
        <3>3. ~ProcessLater
            BY <2>4 DEF ProcessLater
        <3> QED BY <2>3, <2>5, <2>6, <2>7, <2>9, <2>10, <2>13, <3>2, <3>3 DEF Code, Collect
    <2>14. CASE Engine
        <3>1. \A p \in Objects : ~StartFinalizer(p) /\ ~Visit(p)
            BY <2>4 DEF StartFinalizer, Visit
        <3>2. ~ProcessDone /\ ~StartRound /\ ~EndForced
            BY <2>4 DEF ProcessDone, StartRound, EndForced
        <3> QED BY <2>5, <2>8, <2>10, <2>11, <2>14, <3>1, <3>2 DEF Engine, Destroy
    <2> QED BY <1>1, <2>12, <2>13, <2>14 DEF Next
<1>2. IInv /\ [Next]_vars => [kept]_vars
    BY <1>1
<1> QED BY <1>2, Inductive, PTL DEF Spec, NeverFreedUnfinalized

(***************************************************************************)
(* Finalizers run once                                                     *)
(***************************************************************************)

\* Of the objects nobody has reached since their finalizer each still has its
\* flag, and the one whose finalizer runs is none of them.
IdleInv ==
    /\ idle \subseteq finalized
    /\ phase # "forced" => current \notin idle

\* A sweep takes the flag from rescued objects, and those it does not count
\* as idle any more.
LEMMA SweepKeepsIdle ==
    ASSUME TypeOK, IdleInv, Sweep
    PROVE  idle' \subseteq finalized' /\ idle' \subseteq idle
<1>1. idle' = (idle \ Reach(MarkRoots \cup Doomed)) \ Garbage
      /\ finalized' = (finalized \ Garbage) \ Rescued
    BY DEF Sweep
<1>2. Rescued \subseteq Reach(MarkRoots \cup Doomed)
    <2>1. CASE FinalizeList = {}
        <3>1. Rescued \subseteq Marked /\ Doomed = Finalizable
            BY <2>1 DEF Rescued, Doomed
        <3>2. MarkRoots \cup Finalizable \cup FinalizeList = MarkRoots \cup Doomed
            BY <2>1, <3>1
        <3>3. Marked = Reach(MarkRoots \cup Doomed)
            BY <3>2 DEF Marked
        <3> QED BY <3>1, <3>3
    <2>2. CASE FinalizeList # {}
        BY <2>2 DEF Rescued
    <2> QED BY <2>1, <2>2
<1> QED BY <1>1, <1>2 DEF IdleInv

LEMMA CodeKeepsIdle ==
    ASSUME IInv, IdleInv, Code
    PROVE  IdleInv'
<1>1. TypeOK /\ Accessible \in SUBSET Objects /\ Nil \notin idle
    BY HeapAssumption DEF IInv, TypeOK, Accessible, Reach
<1>2. ASSUME Seen, UNCHANGED <<finalized, current, phase>> PROVE IdleInv'
    BY <1>2 DEF Seen, IdleInv
<1>3. ASSUME NEW o \in Objects, NEW p \in Objects,
             New(o) \/ Hold(o) \/ Drop(o) \/ SetFinalizer(o) \/ Link(o, p) \/ Unlink(o, p)
      PROVE  IdleInv'
    BY <1>2, <1>3 DEF New, Hold, Drop, SetFinalizer, Link, Unlink
<1>4. ASSUME Collect PROVE IdleInv'
    <2>1. Sweep /\ current' = current /\ phase' = phase
        BY <1>4 DEF Collect, Sweep
    <2> QED BY <1>1, <2>1, SweepKeepsIdle DEF IdleInv
<1>5. ASSUME ProcessLater PROVE IdleInv'
    BY <1>5 DEF ProcessLater, IdleInv
<1>6. ASSUME EndFinalizer PROVE IdleInv'
    <2>1. /\ current # Nil /\ phase # "forced" /\ phase' = phase /\ current' = Nil
          /\ current \notin idle /\ current \in finalized
        BY <1>6 DEF EndFinalizer, IdleInv, IInv, OneRuns
    <2>2. CASE Unreferenced(count[current] - 1)
        <3>1. idle' = idle \ {current} /\ finalized' = finalized \ {current}
            BY <1>6, <2>2 DEF EndFinalizer
        <3> QED BY <1>1, <2>1, <3>1 DEF IdleInv
    <2>3. CASE ~Unreferenced(count[current] - 1)
        <3>1. /\ finalized' = IF hadZero THEN finalized \ {current} ELSE finalized
              /\ idle' = IF hadZero \/ current \in Reach(roots)
                         THEN idle ELSE idle \cup {current}
            BY <1>6, <2>3 DEF EndFinalizer
        <3>2. idle' \subseteq finalized' /\ Nil \notin idle'
            BY <1>1, <2>1, <3>1 DEF IdleInv
        <3> QED BY <2>1, <3>2 DEF IdleInv
    <2> QED BY <2>2, <2>3
<1> QED BY <1>1, <1>3, <1>4, <1>5, <1>6 DEF Code

LEMMA EngineKeepsIdle ==
    ASSUME IInv, IdleInv, Engine
    PROVE  IdleInv'
<1>1. TypeOK /\ Nil \notin idle
    BY HeapAssumption DEF IInv, TypeOK
<1>2. ASSUME NEW o \in Objects, FreeOne(o) PROVE IdleInv'
    BY <1>2 DEF FreeOne, IdleInv
<1>3. ASSUME NEW o \in Objects, StartFinalizer(o) PROVE IdleInv'
    BY <1>3 DEF StartFinalizer, IdleInv
<1>4. ASSUME NEW o \in Objects, SkipFinalizer(o) PROVE IdleInv'
    BY <1>4 DEF SkipFinalizer, IdleInv
<1>5. ASSUME NEW o \in Objects, Visit(o) PROVE IdleInv'
    BY <1>5 DEF Visit, IdleInv
<1>6. ASSUME ProcessDone \/ StartRound \/ EndForced PROVE IdleInv'
    BY <1>6 DEF ProcessDone, StartRound, EndForced, IdleInv
<1>7. ASSUME Destroy PROVE IdleInv'
    <2>1. Sweep /\ current = Nil /\ current' = current
        BY <1>7 DEF Destroy, Sweep
    <2> QED BY <1>1, <2>1, SweepKeepsIdle DEF IdleInv
<1>8. ASSUME Release PROVE IdleInv'
    BY <1>8 DEF Release, Gone, IdleInv
<1> QED BY <1>2, <1>3, <1>4, <1>5, <1>6, <1>7, <1>8 DEF Engine

\* When mark-and-sweep has finalized an object, its finalizer is not run again
\* before something has reached the object: not by a reference that goes, not by
\* a collection.  Of an object finalized because its count fell to zero, and
\* rescued, nothing is said: it may be finalized at any time.
THEOREM FinalizersRunOnce == Spec => FinalizedOnce
<1> DEFINE once ==
        \A o \in Objects : current' = o /\ current # o /\ phase # "forced" => o \notin idle
<1>1. Init => IdleInv
    BY DEF Init, IdleInv
<1>2. IInv /\ IdleInv /\ [Next]_vars => IdleInv'
    <2>1. UNCHANGED vars /\ IdleInv => IdleInv'
        BY DEF vars, IdleInv
    <2> QED BY <2>1, CodeKeepsIdle, EngineKeepsIdle DEF Next
<1>3. ASSUME IInv, IdleInv, [Next]_vars PROVE once
    <2> SUFFICES ASSUME NEW o \in Objects, current' = o, current # o, phase # "forced"
                 PROVE  o \notin idle
        OBVIOUS
    <2>1. o # Nil
        BY HeapAssumption
    <2>2. PICK p \in Objects : StartFinalizer(p)
        <3>1. ~UNCHANGED current
            OBVIOUS
        <3>2. ~UNCHANGED vars
            BY <3>1 DEF vars
        <3>3. ~Code
            BY <2>1, <3>1 DEF Code, New, Hold, Drop, SetFinalizer, Link, Unlink, Collect, Sweep,
                              ProcessLater, EndFinalizer
        <3>4. \A p \in Objects : ~FreeOne(p) /\ ~SkipFinalizer(p) /\ ~Visit(p)
            BY <3>1 DEF FreeOne, SkipFinalizer, Visit
        <3>5. ~ProcessDone /\ ~Destroy /\ ~StartRound /\ ~EndForced /\ ~Release
            BY <2>1, <3>1 DEF ProcessDone, Destroy, Sweep, StartRound, EndForced, Release
        <3> QED BY <1>3, <3>2, <3>3, <3>4, <3>5 DEF Next, Engine
    <2>3. p = o /\ where[o] = "due" /\ pc = "process"
        BY <2>2 DEF StartFinalizer, FinalizeList
    <2> QED BY <1>3, <2>3 DEF IdleInv, IInv, DueOnce
<1>4. IInv /\ IdleInv /\ [Next]_vars => [once]_vars
    BY <1>3
<1> QED BY <1>1, <1>2, <1>4, Inductive, PTL DEF Spec, FinalizedOnce

(***************************************************************************)
(* What JS code sees                                                       *)
(***************************************************************************)

LEMMA SameReach ==
    /\ \A S : Seeable!Within(S) = Reach(S)
    /\ Seeable!Reached = Accessible
BY DEF Seeable!Within, Seeable!Reached, Reach, Closed, Accessible, OnStack

\* An object nobody refers to is out of reach of everything but itself.
LEMMA OutOfReach ==
    ASSUME IInv, NEW g \in Objects, Referrers(g) = {}, NEW S \in SUBSET Objects, g \notin S
    PROVE  g \notin Reach(S)
<1>1. \A p \in Objects : refers[p] \in SUBSET Objects /\ g \notin refers[p]
    BY DEF IInv, TypeOK, Unused, Referrers, Allocated
<1>2. Objects \ {g} \in Closed(S)
    BY <1>1 DEF Closed
<1> QED BY <1>2 DEF Reach

LEMMA ForgetNothing ==
    ASSUME IInv, UNCHANGED <<Allocated, refers>>
    PROVE  Seeable!Forget({})
BY DEF IInv, TypeOK, Seeable!Forget

LEMMA ForgetOne ==
    ASSUME IInv, NEW g \in Allocated, Referrers(g) = {}, g \notin roots,
           Allocated' = Allocated \ {g}, refers' = [refers EXCEPT ![g] = {}],
           roots' = roots, current' # g, current' \in {current, Nil}
    PROVE  Seeable!Forget({g})
<1>1. g \in Objects /\ TypeOK /\ refers \in [Objects -> SUBSET Objects]
    BY DEF Allocated, IInv, TypeOK
<1>2. roots' \cup ({current'} \ {Nil}) \in SUBSET Objects /\ g \notin roots' \cup ({current'} \ {Nil})
    BY <1>1 DEF TypeOK
<1>3. g \notin Seeable!Within(roots' \cup ({current'} \ {Nil}))
    BY <1>1, <1>2, OutOfReach, SameReach
<1>4. refers' = [o \in Objects |-> IF o \in {g} THEN {} ELSE refers[o]]
    BY <1>1
<1>5. \A o \in Allocated \ {g} : refers[o] \cap {g} = {}
    BY DEF Referrers
<1> QED BY <1>3, <1>4, <1>5 DEF Seeable!Forget

\* A sweep forgets the garbage.
LEMMA ForgetGarbage ==
    ASSUME IInv, Sweep, \A o \in Objects : where[o] # "zero"
    PROVE  Seeable!Collect(Garbage)
<1>1. Garbage \in SUBSET Objects /\ Garbage \subseteq Heap /\ TypeOK /\ NoDangling /\ Unused
    BY DEF Garbage, Heap, IInv
<1>2. /\ where' = [o \in Objects |-> IF o \in Garbage THEN "none"
                                     ELSE IF o \in Finalizable THEN "due" ELSE where[o]]
      /\ refers' = [o \in Objects |-> IF o \in Garbage THEN {} ELSE refers[o]]
      /\ roots' = roots /\ current' = current
    BY DEF Sweep
<1>3. Finalizable \subseteq Heap
    BY DEF Finalizable
<1>4. Allocated' = Allocated \ Garbage
    BY <1>1, <1>2, <1>3 DEF Allocated, Heap
<1>5. Garbage \cap Seeable!Within(roots' \cup ({current'} \ {Nil})) = {}
    BY <1>1, <1>2, GarbageUnmarked, SameReach DEF MarkRoots, OnStack
<1>6. \A o \in Allocated \ Garbage : refers[o] \cap Garbage = {}
    <2>1. \A o \in Allocated : o \in Heap \cup FinalizeList
        BY <1>1 DEF TypeOK, Allocated, Heap, FinalizeList
    <2> QED BY <1>1, <2>1, GarbageUnmarked
<1> QED BY <1>2, <1>4, <1>5, <1>6 DEF Seeable!Forget, Seeable!Collect

LEMMA CodeImplements ==
    ASSUME IInv, Code
    PROVE  Seeable!Next \/ UNCHANGED Seeable!vars
<1>1. TypeOK /\ Accessible \subseteq Allocated /\ Allocated \subseteq Objects
    BY AccessibleAllocated DEF IInv, Allocated
<1>2. ASSUME NEW o \in Objects, New(o) PROVE Seeable!New(o)
    BY <1>1, <1>2 DEF New, Seeable!New, Allocated, TypeOK
<1>3. ASSUME NEW o \in Accessible, Hold(o) PROVE Seeable!Hold(o)
    BY <1>3, SameReach DEF Hold, Seeable!Hold, Allocated
<1>4. ASSUME NEW o \in Accessible, Drop(o) \/ \E p \in Accessible : Unlink(p, o)
      PROVE  Allocated' = Allocated
    <2>1. where' = WhereAfter({o})
        BY <1>4 DEF Drop, Unlink
    <2>2. \A q \in Objects : WhereAfter({o})[q] = "none" <=> where[q] = "none"
        BY DEF WhereAfter, Due, Zeroed
    <2> QED BY <2>1, <2>2 DEF Allocated
<1>5. ASSUME NEW o \in Accessible, Drop(o) PROVE Seeable!Drop(o)
    BY <1>4, <1>5 DEF Drop, Seeable!Drop
<1>6. ASSUME NEW o \in Accessible, NEW p \in Accessible, Link(o, p) PROVE Seeable!Link(o, p)
    BY <1>6, SameReach DEF Link, Seeable!Link, Allocated
<1>7. ASSUME NEW o \in Accessible, NEW p \in Accessible, Unlink(o, p) PROVE Seeable!Unlink(o, p)
    BY <1>4, <1>7, SameReach DEF Unlink, Seeable!Unlink
<1>8. ASSUME NEW o \in Accessible, SetFinalizer(o) PROVE UNCHANGED Seeable!vars
    BY <1>8 DEF SetFinalizer, Seeable!vars, Allocated
<1>9. ASSUME Collect PROVE Seeable!Collect(Garbage) /\ Garbage \in SUBSET Objects
    BY <1>9, CodeRuns, ForgetGarbage DEF Collect, Garbage, Heap
<1>10. ASSUME ProcessLater PROVE UNCHANGED Seeable!vars
    BY <1>10 DEF ProcessLater, Seeable!vars, Allocated
<1>11. ASSUME EndFinalizer PROVE Seeable!Take
    <2>1. /\ current # Nil /\ current' = Nil /\ roots' = roots
          /\ current \in Objects /\ current \in Allocated /\ where[current] = "due"
        BY <1>1, <1>11 DEF EndFinalizer, IInv, OneRuns, TypeOK, Allocated
    <2>2. CASE Unreferenced(count[current] - 1)
        <3>1. /\ where' = [WhereAfter(refers[current]) EXCEPT ![current] = "none"]
              /\ refers' = [refers EXCEPT ![current] = {}]
            BY <1>11, <2>2 DEF EndFinalizer
        <3>2. \A q \in Objects : WhereAfter(refers[current])[q] = "none" <=> where[q] = "none"
            BY DEF WhereAfter, Due, Zeroed
        <3>3. Allocated' = Allocated \ {current}
            <4>1. \A q \in Objects : q \in DOMAIN WhereAfter(refers[current])
                BY DEF WhereAfter
            <4> QED BY <2>1, <3>1, <3>2, <4>1 DEF Allocated, WhereAfter
        <3>4. Referrers(current) = {} /\ current \notin roots
            <4>1. /\ IsFiniteSet(Referrers(current)) /\ Cardinality(Referrers(current)) \in Nat
                  /\ count[current] = Cardinality(Referrers(current)) + One(current \in roots) + 2
                  /\ count[current] = 2
                BY <1>1, <2>1, <2>2, ReferrersFinite
                   DEF IInv, CountsExact, Holders, One, TypeOK, Unreferenced
            <4>2. Cardinality(Referrers(current)) = 0 /\ current \notin roots
                BY <4>1 DEF One
            <4> QED BY <4>1, <4>2, FS_EmptySet
        <3>5. Seeable!Forget({current})
            BY <2>1, <3>1, <3>3, <3>4, ForgetOne
        <3> QED BY <2>1, <3>5 DEF Seeable!Take
    <2>3. CASE ~Unreferenced(count[current] - 1)
        <3>1. where' = [where EXCEPT ![current] = "heap"] /\ refers' = refers
            BY <1>11, <2>3 DEF EndFinalizer
        <3>2. Allocated' = Allocated
            BY <1>1, <2>1, <3>1 DEF Allocated, TypeOK
        <3>3. Seeable!Forget({})
            BY <3>1, <3>2, ForgetNothing
        <3> QED BY <2>1, <3>3 DEF Seeable!Take
    <2> QED BY <2>2, <2>3
<1>12. \A o \in Accessible : o \in Objects
    BY <1>1
<1> QED BY <1>2, <1>3, <1>5, <1>6, <1>7, <1>8, <1>9, <1>10, <1>11, <1>12 DEF Code, Seeable!Next

LEMMA EngineImplements ==
    ASSUME IInv, Engine
    PROVE  Seeable!Next \/ UNCHANGED Seeable!vars
<1>1. TypeOK /\ Allocated \subseteq Objects
    BY DEF IInv, Allocated
<1>2. ASSUME NEW o \in Objects, FreeOne(o) PROVE Seeable!Collect({o}) /\ {o} \in SUBSET Objects
    <2>1. /\ where' = [WhereAfter(refers[o]) EXCEPT ![o] = "none"]
          /\ refers' = [refers EXCEPT ![o] = {}] /\ roots' = roots /\ current' = current
          /\ o \in Allocated /\ count[o] = 0
        BY <1>2 DEF FreeOne, RefzeroList, Allocated, IInv, ZeroListed
    <2>2. Referrers(o) = {} /\ o \notin roots /\ o # current
        BY <2>1, NobodyHolds
    <2>3. \A q \in Objects : WhereAfter(refers[o])[q] = "none" <=> where[q] = "none"
        BY DEF WhereAfter, Due, Zeroed
    <2>4. Allocated' = Allocated \ {o}
        BY <2>1, <2>3 DEF Allocated, WhereAfter
    <2>5. Seeable!Forget({o})
        BY <2>1, <2>2, <2>4, ForgetOne
    <2> QED BY <2>1, <2>5 DEF Seeable!Collect
<1>3. ASSUME NEW o \in Objects, StartFinalizer(o) PROVE Seeable!Give(o)
    BY <1>3 DEF StartFinalizer, Seeable!Give, Allocated, FinalizeList, IInv, OneRuns
<1>4. ASSUME NEW o \in Objects, SkipFinalizer(o) PROVE UNCHANGED Seeable!vars
    <2>1. Allocated' = Allocated
        BY <1>1, <1>4 DEF SkipFinalizer, Allocated, FinalizeList, TypeOK
    <2> QED BY <1>4, <2>1 DEF SkipFinalizer, Seeable!vars
<1>5. ASSUME NEW o \in Objects, Visit(o) PROVE Seeable!Give(o) \/ UNCHANGED Seeable!vars
    <2>1. o \in Allocated /\ current = Nil
        BY <1>5 DEF Visit, IInv, RoundInv, Allocated
    <2>2. CASE o \in fin \ finalized
        BY <1>5, <2>1, <2>2 DEF Visit, Seeable!Give, Allocated
    <2>3. CASE o \notin fin \ finalized
        BY <1>5, <2>3 DEF Visit, Seeable!vars, Allocated
    <2> QED BY <2>2, <2>3
<1>6. ASSUME ProcessDone \/ StartRound PROVE UNCHANGED Seeable!vars
    BY <1>6 DEF ProcessDone, StartRound, Seeable!vars, Allocated
<1>7. ASSUME Destroy PROVE Seeable!Collect(Garbage) /\ Garbage \in SUBSET Objects
    BY <1>7, ForgetGarbage DEF Destroy, IInv, ZeroListed, Garbage, Heap
<1>8. ASSUME EndForced PROVE Seeable!Take
    <2>1. current # Nil /\ current' = Nil /\ UNCHANGED <<where, refers, roots>>
        BY <1>8 DEF EndForced
    <2>2. Allocated' = Allocated
        BY <2>1 DEF Allocated
    <2>3. Seeable!Forget({})
        BY <2>1, <2>2, ForgetNothing
    <2> QED BY <2>1, <2>3 DEF Seeable!Take
<1>9. ASSUME Release PROVE Seeable!End
    BY <1>9 DEF Release, Gone, Seeable!End, Allocated
<1> QED BY <1>2, <1>3, <1>4, <1>5, <1>6, <1>7, <1>8, <1>9 DEF Engine, Seeable!Next

\* JS code may take its objects for a graph that only the code changes: each
\* step of the memory management forgets what is out of reach, or nothing.
THEOREM HeapIsAGraph == Spec => ImplementsGraph
<1>1. Init => Seeable!Init
    BY DEF Init, Seeable!Init, Allocated
<1>2. ASSUME IInv, [Next]_vars PROVE [Seeable!Next]_(Seeable!vars)
    <2>1. CASE UNCHANGED vars
        BY <2>1 DEF vars, Seeable!vars, Allocated
    <2>2. CASE Code
        BY <1>2, <2>2, CodeImplements
    <2>3. CASE Engine
        BY <1>2, <2>3, EngineImplements
    <2> QED BY <1>2, <2>1, <2>2, <2>3 DEF Next
<1> QED BY <1>1, <1>2, Inductive, PTL DEF Spec, ImplementsGraph, Seeable!Spec

=============================================================================
