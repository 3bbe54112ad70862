-------------------------- MODULE Coroutines_proof --------------------------
(***************************************************************************)
(* Proofs about coroutines, for any number of them and any limits: however *)
(* resume, yield, errors and finalizers interleave, the call stacks of the *)
(* threads and the C stack fit together.                                   *)
(*                                                                         *)
(* A thread that was resumed and has neither yielded nor ended waits for   *)
(* nobody in particular: which executor runs it, and how many resumes deep *)
(* it is in there, is not in the state.  The invariant says that there are *)
(* such numbers, lvl and rank.                                             *)
(***************************************************************************)
EXTENDS Coroutines, FiniteSetTheorems, TLAPS

(***************************************************************************)
(* The inductive invariant                                                 *)
(***************************************************************************)

Shape ==
    /\ state \in [Threads -> States]
    /\ resumer \in [Threads -> Threads \cup {None}]
    /\ calls \in [Threads -> Seq(Kinds)]
    /\ current \in Threads \cup {None}
    /\ nested \in Seq(Frames)
    /\ running \in Modes
    /\ known \subseteq Threads

\* What callstack_preventcount counts: native calls and calls of executors in a
\* call stack s, protected calls for thread t in a C stack n.
Preventing(s) == {i \in DOMAIN s : s[i] # "js"}
ProtectedOn(n, t) == {i \in DOMAIN n : n[i].kind \in {"safe", "finalizer"} /\ n[i].thread = t}

CallsThere(s) == Cardinality(Preventing(s))
ProtectedThere(n, t) == Cardinality(ProtectedOn(n, t))

Counted == prevent = [t \in Threads |-> CallsThere(calls[t]) + ProtectedThere(nested, t)]

Deep == Len(nested)
Protected(f) == f.kind \in {"safe", "finalizer"}

\* The calls of its thread that a C function relies on.
Base(f) == IF Protected(f) THEN f.depth ELSE f.depth + 1

\* A protected call on another thread; one that was not admitted there.
Switches(f) == f.thread # f.current
Rejected(f) == Switches(f) /\ f.state # "inactive"
Refused == nested # << >> /\ Rejected(nested[Deep])

Linked(t) == resumer[t] # None

\* What runs on top of the k-th C function.
Fits(m, k) ==
    /\ m = "native" => k = 0 \/ nested[k].kind = "native"
    /\ m \in {"js", "end"} => k > 0 /\ nested[k].kind = "exec"
    /\ m = "protected" => k > 0 /\ Protected(nested[k])

\* The C stack: what called what, and at which depths of the call stacks.
FrameOK(f, i) ==
    /\ f.from # "error" /\ Fits(f.from, i - 1)
    /\ f.kind = "native" => f.from = "js"
    /\ f.kind = "exec" =>
         i > 1 /\ f.from \in {"native", "protected"} /\ nested[i - 1].thread = f.thread
    /\ f.kind = "safe" => f.from = "native"
    /\ Switches(f) => Protected(f)
    /\ ~Switches(f) => f.state = "running" /\ f.from # "end"
    /\ f.state = "inactive" => f.depth = 0 /\ \A j \in 1..i-1 : nested[j].thread # f.thread
    /\ \A j \in 1..i-1 : nested[j].thread = f.thread => Base(nested[j]) <= f.depth

FramesOK == \A i \in 1..Deep : FrameOK(nested[i], i)

ModeOK ==
    IF running = "error" THEN Deep > 0 /\ nested[Deep].kind # "native" ELSE Fits(running, Deep)

\* A call that is not admitted fails at once.
Rejections ==
    \A i \in 1..Deep : LET f == nested[i] IN
        Rejected(f) =>
            /\ i = Deep /\ running = "error" /\ current = f.current
            /\ Len(calls[f.thread]) = f.depth /\ state[f.thread] = f.state

\* Thread x works for the k-th C function: as the thread it was called on, or
\* resumed by the executor it is.
Serves(x, k, lvl) ==
    IF k = 0 THEN x = None
    ELSE \/ x = nested[k].thread
         \/ nested[k].kind = "exec" /\ x # None /\ Linked(x) /\ lvl[x] = k

Served(lvl) ==
    /\ \A i \in 1..Deep : Serves(nested[i].current, i - 1, lvl)
    /\ ~Refused => Serves(current, Deep, lvl)

\* The last of the threads that work for the k-th C function.
AtTop(k) == IF k < Deep THEN nested[k + 1].current ELSE current

RankAt(x, k, rank) == IF x = nested[k].thread THEN 0 ELSE rank[x]

\* The threads between the thread of an executor and the one that is current
\* there are a chain of resumes, and do not work for anything further below.
Chained(lvl, rank) ==
    \A t \in Threads : Linked(t) =>
        /\ lvl[t] \in 1..Deep /\ nested[lvl[t]].kind = "exec"
        /\ Serves(resumer[t], lvl[t], lvl)
        /\ rank[t] = RankAt(resumer[t], lvl[t], rank) + 1
        /\ rank[t] <= RankAt(AtTop(lvl[t]), lvl[t], rank)
        /\ \A i \in 1..Deep : nested[i].thread = t => i > lvl[t]
        /\ \A i \in 1..Deep : nested[i].thread = resumer[t] => i <= lvl[t] \/ Rejected(nested[i])
        /\ \A s \in Threads : Linked(s) /\ lvl[s] = lvl[t] /\ rank[s] = rank[t] => s = t

\* The calls that C functions work for are there.
Marked ==
    \A i \in 1..Deep : LET f == nested[i] IN
        /\ Base(f) <= Len(calls[f.thread])
        /\ f.kind = "native" => calls[f.thread][f.depth + 1] = "native"
        /\ f.kind = "exec" => calls[f.thread][f.depth + 1] = "entry"

\* With the first d calls of s, x can go on in mode m on top of C function f.
GoesOn(m, x, s, d, f) ==
    /\ m = "native" => d = f.depth + 1
    /\ m = "protected" => d = f.depth
    /\ m = "js" => d >= 1 /\ (s[d] = "js" \/ (x = f.thread /\ d = f.depth + 1))

\* What C functions return to finds its calls as it left them ...
CallersGoOn ==
    \A i \in 2..Deep : LET f == nested[i] IN
        IF Switches(f)
        THEN GoesOn(f.from, f.current, calls[f.current], Len(calls[f.current]), nested[i - 1])
        ELSE GoesOn(f.from, f.thread, calls[f.thread], f.depth, nested[i - 1])

CurrentGoesOn ==
    running # "error" /\ Deep > 0 =>
        GoesOn(running, current, calls[current], Len(calls[current]), nested[Deep])

\* ... and so does a thread r that waits in resume() for one in state st, which
\* has left resume() already if that one is finishing.
Resumes(st, r, s, f) ==
    IF st = "terminated" THEN GoesOn("js", r, s, Len(s), f)
    ELSE Len(s) >= 1 /\ s[Len(s)] = "resume" /\ GoesOn("js", r, s, Len(s) - 1, f)

ResumersGoOn(lvl) ==
    \A t \in Threads : Linked(t) =>
        Resumes(state[t], resumer[t], calls[resumer[t]], nested[lvl[t]])

Resting ==
    \A t \in Threads : LET s == calls[t] IN
        /\ state[t] = "yielded" => Len(s) >= 2 /\ s[Len(s)] = "yield" /\ s[Len(s) - 1] = "js"
        /\ state[t] \in {"inactive", "terminated"} => Len(s) = 0

\* The state of a thread that was current in mode m.
Frozen(m) == IF m = "end" THEN "terminated" ELSE "running"

CurrentState ==
    current # None => state[current] = Frozen(IF Refused THEN nested[Deep].from ELSE running)

\* A thread from which another was called stays as it was.
CallersWait ==
    \A i \in 1..Deep : LET f == nested[i] IN
        /\ Switches(f) /\ f.current # None =>
             /\ state[f.current] = Frozen(f.from)
             /\ Rejected(f) \/ f.current # current
             /\ \A j \in i+1..Deep : nested[j].current # f.current
        /\ f.state = "inactive" => ~Linked(f.thread)

Called(t) == \E i \in 1..Deep : nested[i].current = t /\ Switches(nested[i])

Runners == \A t \in Threads : state[t] = "running" => t = current \/ Called(t)

\* Threads are in the states their links call for.
LinkStates ==
    \A t \in Threads :
        /\ Linked(t) =>
            /\ t \in Coroutines
            /\ state[resumer[t]] = "resumed"
            /\ state[t] \in {"running", "resumed", "terminated"}
            /\ state[t] = "terminated" => t = current \/ Called(t)
            /\ \A s \in Threads : resumer[s] = resumer[t] => s = t
        /\ state[t] = "resumed" => \E s \in Threads : resumer[s] = t
        /\ state[t] \in {"yielded", "terminated"} => t \in Coroutines

\* C functions do not work for threads that are not in use.
Unserved ==
    \A i \in 1..Deep :
        Rejected(nested[i]) \/ state[nested[i].thread] \notin {"inactive", "yielded", "terminated"}

Core(lvl, rank) ==
    /\ FramesOK /\ ModeOK /\ Rejections /\ Served(lvl) /\ Chained(lvl, rank) /\ Marked
    /\ CallersGoOn /\ CurrentGoesOn /\ ResumersGoOn(lvl) /\ Resting
    /\ CurrentState /\ CallersWait /\ Runners /\ LinkStates /\ Unserved

Fitting == \E lvl, rank \in [Threads -> Nat] : Core(lvl, rank)

\* JS code is called by JS code, or by what an executor was started for.
Started(t, d) ==
    \E j \in 1..Deep : nested[j].kind = "exec" /\ nested[j].thread = t /\ nested[j].depth + 1 = d

Piled ==
    \A t \in Threads : \A d \in 1..Len(calls[t]) - 1 :
        calls[t][d + 1] = "js" => calls[t][d] = "js" \/ Started(t, d)

IInv == Shape /\ Counted /\ Fitting /\ Piled

(***************************************************************************)
(* Facts about sequences and frames                                        *)
(***************************************************************************)

LEMMA AppendFacts ==
    ASSUME NEW S, NEW s \in Seq(S), NEW e \in S
    PROVE  /\ Append(s, e) \in Seq(S) /\ Len(Append(s, e)) = Len(s) + 1
           /\ \A i \in 1..Len(s) : Append(s, e)[i] = s[i]
           /\ Append(s, e)[Len(s) + 1] = e
OBVIOUS

LEMMA CutFacts ==
    ASSUME NEW S, NEW s \in Seq(S), NEW d \in 0..Len(s)
    PROVE  /\ SubSeq(s, 1, d) \in Seq(S) /\ Len(SubSeq(s, 1, d)) = d
           /\ \A i \in 1..d : SubSeq(s, 1, d)[i] = s[i]
OBVIOUS

LEMMA FrontFacts ==
    ASSUME NEW S, NEW s \in Seq(S), s # << >>
    PROVE  /\ Front(s) \in Seq(S) /\ Len(Front(s)) = Len(s) - 1
           /\ \A i \in 1..Len(s) - 1 : Front(s)[i] = s[i]
           /\ Last(s) = s[Len(s)]
<1>1. Len(s) - 1 \in 0..Len(s)
    OBVIOUS
<1> QED BY <1>1, CutFacts DEF Front, Last

LEMMA LenFacts ==
    ASSUME NEW S, NEW s \in Seq(S)
    PROVE  /\ Len(s) \in Nat /\ DOMAIN s = 1..Len(s)
           /\ s = << >> <=> Len(s) = 0
           /\ \A i \in 1..Len(s) : s[i] \in S
OBVIOUS

LEMMA FrameTypes ==
    ASSUME Shape
    PROVE  /\ Deep \in Nat /\ DOMAIN nested = 1..Deep
           /\ \A i \in 1..Deep :
                /\ nested[i] \in Frames
                /\ nested[i].kind \in {"safe", "finalizer", "exec", "native"}
                /\ nested[i].thread \in Threads /\ nested[i].depth \in Nat
                /\ Base(nested[i]) \in Nat /\ Base(nested[i]) >= nested[i].depth
                /\ nested[i].current \in Threads \cup {None}
                /\ nested[i].state \in States /\ nested[i].from \in Modes
           /\ \A t \in Threads : Len(calls[t]) \in Nat
           /\ None \notin Threads
<1>1. nested \in Seq(Frames) /\ calls \in [Threads -> Seq(Kinds)]
    BY DEF Shape
<1>2. Deep \in Nat /\ DOMAIN nested = 1..Deep /\ \A i \in 1..Deep : nested[i] \in Frames
    BY <1>1, LenFacts DEF Deep
<1>3. None \notin Threads
    BY CoroutinesAssumption DEF Threads
<1> QED BY <1>1, <1>2, <1>3, LenFacts DEF Frames, Base


\* Whether a C function fits depends on those below it.
LEMMA FramesBelow ==
    ASSUME NEW f, NEW i \in Nat, i >= 1, FrameOK(f, i), \A j \in 1..i-1 : nested'[j] = nested[j]
    PROVE  FrameOK(f, i)'
<1>1. i > 1 => nested'[i - 1] = nested[i - 1]
    <2>1. i > 1 => i - 1 \in 1..i-1
        OBVIOUS
    <2> QED BY <2>1
<1>2. i - 1 > 0 => nested'[i - 1] = nested[i - 1]
    BY <1>1
<1>3. i - 1 = 0 \/ i - 1 > 0
    OBVIOUS
<1>4. Fits(f.from, i - 1) => Fits(f.from, i - 1)'
    BY <1>2, <1>3 DEF Fits
<1> QED BY <1>1, <1>4 DEF FrameOK

LEMMA CurrentIs ==
    ASSUME NEW lvl, NEW rank, Shape, Core(lvl, rank), Deep > 0, ~Rejected(nested[Deep])
    PROVE  /\ current \in Threads
           /\ nested # << >> /\ ~Refused
           /\ \A i \in 1..Deep : ~Rejected(nested[i])
           /\ state[current] = Frozen(running)
           /\ running # "end" => state[current] = "running"
           /\ Serves(current, Deep, lvl)
           /\ ~Switches(nested[Deep]) \/ nested[Deep].state = "inactive"
<1>1. Deep \in Nat /\ nested \in Seq(Frames) /\ nested # << >>
    BY FrameTypes DEF Shape, Deep
<1>2. ~Refused /\ \A i \in 1..Deep : ~Rejected(nested[i])
    BY <1>1 DEF Core, Rejections, Refused
<1>3. Serves(current, Deep, lvl)
    BY <1>2 DEF Core, Served
<1>4. current \in Threads
    BY <1>1, <1>3, FrameTypes DEF Serves, Shape
<1>5. state[current] = Frozen(running)
    BY <1>2, <1>4, FrameTypes DEF Core, CurrentState
<1> QED BY <1>1, <1>2, <1>3, <1>4, <1>5 DEF Frozen, Rejected

\* All fits together as before when only calls of the current thread change.
LEMMA KeepStep ==
    ASSUME NEW lvl \in [Threads -> Nat], NEW rank \in [Threads -> Nat],
           Shape, Shape', Core(lvl, rank),
           UNCHANGED <<nested, current, state, resumer>>,
           running \in {"js", "protected", "error"}, running' \in {"js", "error"},
           Deep > 0, ~Rejected(nested[Deep]),
           running' = "js" => nested[Deep].kind = "exec",
           running' = "error" => nested[Deep].kind # "native",
           \A t \in Threads \ {current} : calls'[t] = calls[t],
           \A i \in 1..Deep : nested[i].thread = current =>
               /\ Base(nested[i]) <= Len(calls'[current])
               /\ \A p \in 1..Base(nested[i]) : calls'[current][p] = calls[current][p],
           running' = "js" =>
               GoesOn("js", current, calls'[current], Len(calls'[current]), nested[Deep])
    PROVE  Core(lvl, rank)'
<1>1. /\ Deep \in Nat /\ Deep' = Deep
      /\ \A i \in 1..Deep :
           /\ nested[i].thread \in Threads /\ nested[i].depth \in Nat
           /\ nested[i].kind \in {"safe", "finalizer", "exec", "native"}
           /\ Base(nested[i]) \in Nat /\ Base(nested[i]) >= nested[i].depth
           /\ nested[i].current \in Threads \cup {None}
           /\ nested[i].from \in Modes
      /\ \A t \in Threads : Len(calls[t]) \in Nat
      /\ None \notin Threads
    BY FrameTypes DEF Deep
<1>2. /\ current \in Threads /\ ~Refused /\ ~Refused' /\ state[current] = "running"
      /\ \A i \in 1..Deep : ~Rejected(nested[i])
    BY <1>1, CurrentIs DEF Refused
<1>3. FramesOK'
    BY <1>1, FramesBelow DEF Core, FramesOK
<1>4. ModeOK'
    BY <1>1 DEF ModeOK, Fits
<1>5. Rejections'
    BY <1>1, <1>2 DEF Rejections
<1>6. Served(lvl)'
    BY <1>1, <1>2 DEF Core, Served, Serves, Linked
<1>7. Chained(lvl, rank)'
    BY <1>1, <1>2, SMTT(60) DEF Core, Chained, Serves, AtTop, RankAt, Linked
<1>8. Marked'
    <2> SUFFICES ASSUME NEW i \in 1..Deep
                 PROVE  LET f == nested[i] IN
                        /\ Base(f) <= Len(calls'[f.thread])
                        /\ f.kind = "native" => calls'[f.thread][f.depth + 1] = "native"
                        /\ f.kind = "exec" => calls'[f.thread][f.depth + 1] = "entry"
        BY <1>1 DEF Marked
    <2>1. LET f == nested[i] IN
            /\ Base(f) <= Len(calls[f.thread])
            /\ f.kind = "native" => calls[f.thread][f.depth + 1] = "native" /\ Base(f) = f.depth + 1
            /\ f.kind = "exec" => calls[f.thread][f.depth + 1] = "entry" /\ Base(f) = f.depth + 1
        BY DEF Core, Marked, Base, Protected
    <2>2. CASE nested[i].thread = current
        <3>1. /\ Base(nested[i]) <= Len(calls'[current])
              /\ \A p \in 1..Base(nested[i]) : calls'[current][p] = calls[current][p]
            BY <2>2
        <3>2. nested[i].depth + 1 = Base(nested[i]) => nested[i].depth + 1 \in 1..Base(nested[i])
            BY <1>1
        <3> QED BY <2>1, <2>2, <3>1, <3>2
    <2>3. CASE nested[i].thread # current
        BY <1>1, <2>1, <2>3
    <2> QED BY <2>2, <2>3
<1>9. CallersGoOn'
    <2> SUFFICES ASSUME NEW i \in 2..Deep
                 PROVE  LET f == nested[i] IN
                        IF Switches(f)
                        THEN GoesOn(f.from, f.current, calls'[f.current], Len(calls'[f.current]), nested[i - 1])
                        ELSE GoesOn(f.from, f.thread, calls'[f.thread], f.depth, nested[i - 1])
        BY <1>1 DEF CallersGoOn
    <2>1. LET f == nested[i] IN
            IF Switches(f)
            THEN GoesOn(f.from, f.current, calls[f.current], Len(calls[f.current]), nested[i - 1])
            ELSE GoesOn(f.from, f.thread, calls[f.thread], f.depth, nested[i - 1])
        BY DEF Core, CallersGoOn
    <2>2. i \in 1..Deep /\ i - 1 \in 1..Deep
        BY <1>1
    <2>3. CASE Switches(nested[i])
        <3>1. nested[i].current # None
            <4>1. Serves(nested[i].current, i - 1, lvl) /\ nested[i - 1].thread \in Threads
                BY <1>1, <2>2 DEF Core, Served
            <4> QED BY <1>1, <4>1 DEF Serves
        <3>2. nested[i].current # current
            BY <1>2, <2>2, <2>3, <3>1 DEF Core, CallersWait
        <3> QED BY <1>1, <2>1, <2>2, <2>3, <3>1, <3>2
    <2>4. CASE ~Switches(nested[i])
        <3>1. /\ nested[i].depth \in Nat /\ nested[i].thread \in Threads
              /\ nested[i].depth <= Base(nested[i]) /\ Base(nested[i]) \in Nat
              /\ nested[i].thread # current => calls'[nested[i].thread] = calls[nested[i].thread]
            BY <1>1, <2>2
        <3>2. nested[i].depth >= 1 => nested[i].depth \in 1..Base(nested[i])
            BY <3>1
        <3>3. nested[i].depth >= 1 =>
                calls'[nested[i].thread][nested[i].depth] = calls[nested[i].thread][nested[i].depth]
            BY <2>2, <3>1, <3>2
        <3> QED BY <2>1, <2>4, <3>3 DEF GoesOn
    <2> QED BY <2>3, <2>4
<1>10. CurrentGoesOn'
    BY <1>1 DEF CurrentGoesOn
<1>11. ResumersGoOn(lvl)'
    <2>1. ASSUME NEW t \in Threads, Linked(t) PROVE calls'[resumer[t]] = calls[resumer[t]]
        BY <1>1, <1>2, <2>1 DEF Core, LinkStates, Shape, Linked
    <2>2. ResumersGoOn(lvl)
        BY DEF Core
    <2> QED BY <2>1, <2>2 DEF ResumersGoOn, Linked
<1>12. Resting'
    BY <1>2 DEF Core, Resting
<1>13. CurrentState'
    BY <1>2 DEF CurrentState, Frozen
<1>14. CallersWait'
    BY <1>1 DEF Core, CallersWait, Linked
<1>15. Runners'
    BY <1>1 DEF Core, Runners, Called
<1>16. LinkStates'
    BY <1>1 DEF Core, LinkStates, Linked, Called
<1>17. Unserved'
    BY <1>1 DEF Core, Unserved
<1> QED BY <1>3, <1>4, <1>5, <1>6, <1>7, <1>8, <1>9, <1>10, <1>11, <1>12, <1>13, <1>14, <1>15,
           <1>16, <1>17 DEF Core

LEMMA ServesKept ==
    ASSUME NEW x, NEW k, NEW lvl, k = 0 \/ nested'[k] = nested[k], resumer' = resumer,
           Serves(x, k, lvl)
    PROVE  Serves(x, k, lvl)'
BY DEF Serves, Linked

\* What the invariant says about the C function f that is left, and the m below.
LeftAbove(f, m, lvl) ==
    /\ f.thread \in Threads /\ f.depth \in Nat /\ f.from # "error" /\ f.from \in Modes
    /\ f.current \in Threads \cup {None}
    /\ ~Switches(f) => f.state = "running" /\ f.from # "end"
    /\ f.state = "inactive" => \A j \in 1..m : nested[j].thread # f.thread
    /\ \A j \in 1..m : nested[j].thread = f.thread => Base(nested[j]) <= f.depth
    /\ Serves(f.current, m, lvl) /\ Fits(f.from, m)
    /\ Rejected(f) => m + 1 = Deep /\ current = f.current /\ state[f.thread] = f.state
    /\ m > 0 => IF Switches(f)
                THEN GoesOn(f.from, f.current, calls[f.current], Len(calls[f.current]), nested[m])
                ELSE GoesOn(f.from, f.thread, calls[f.thread], f.depth, nested[m])

LEMMA CutFrame ==
    ASSUME NEW lvl \in [Threads -> Nat], NEW rank \in [Threads -> Nat],
           Shape, Core(lvl, rank), NEW m \in 0..Deep-1, NEW f, f = nested[m + 1]
    PROVE  Deep > 0 /\ LeftAbove(f, m, lvl)
<1>1. Deep \in Nat
    BY FrameTypes
<1>2. m \in Nat /\ m + 1 \in 1..Deep /\ m + 1 - 1 = m /\ Deep > 0
    BY <1>1
<1>3. /\ f.thread \in Threads /\ f.depth \in Nat /\ f.from \in Modes
      /\ f.current \in Threads \cup {None}
    BY <1>2, FrameTypes
<1>4. FrameOK(f, m + 1) /\ Serves(f.current, m + 1 - 1, lvl)
    BY <1>2 DEF Core, FramesOK, Served
<1>5. Rejected(f) => m + 1 = Deep /\ current = f.current /\ state[f.thread] = f.state
    BY <1>2 DEF Core, Rejections
<1>6. m > 0 => IF Switches(f)
                THEN GoesOn(f.from, f.current, calls[f.current], Len(calls[f.current]), nested[m])
                ELSE GoesOn(f.from, f.thread, calls[f.thread], f.depth, nested[m])
    <2>1. m > 0 => m + 1 \in 2..Deep
        BY <1>1, <1>2
    <2> QED BY <1>2, <2>1 DEF Core, CallersGoOn
<1>7. /\ f.from # "error" /\ Fits(f.from, m)
      /\ ~Switches(f) => f.state = "running" /\ f.from # "end"
      /\ f.state = "inactive" => \A j \in 1..m : nested[j].thread # f.thread
      /\ \A j \in 1..m : nested[j].thread = f.thread => Base(nested[j]) <= f.depth
    BY <1>2, <1>4 DEF FrameOK
<1>8. Serves(f.current, m, lvl)
    BY <1>2, <1>4, Zenon
<1> QED BY <1>2, <1>3, <1>5, <1>6, <1>7, <1>8, Zenon DEF LeftAbove

\* What is left of the C stack.
LEMMA CutDepth ==
    ASSUME Shape, NEW m \in 0..Deep-1, nested' = SubSeq(nested, 1, m)
    PROVE  /\ Deep' = m /\ m \in Nat /\ m < Deep /\ m + 1 \in 1..Deep
           /\ \A i \in 1..m : nested'[i] = nested[i]
           /\ \A i \in 1..m : /\ i \in 1..Deep /\ m + 1 \in i+1..Deep
                              /\ \A j \in i+1..m : j \in i+1..Deep
           /\ m > 0 => m + 1 \in 2..Deep /\ m \in 1..Deep /\ m + 1 - 1 = m
<1>1. Deep \in Nat /\ m \in Nat /\ m < Deep /\ m \in 0..Len(nested) /\ nested \in Seq(Frames)
    BY FrameTypes DEF Shape, Deep
<1>2. Deep' = m /\ \A i \in 1..m : nested'[i] = nested[i]
    BY <1>1, CutFacts DEF Deep
<1>3. \A i \in 1..m : /\ i \in 1..Deep /\ m + 1 \in i+1..Deep
                      /\ \A j \in i+1..m : j \in i+1..Deep
    BY <1>1
<1>4. m + 1 \in 1..Deep /\ (m > 0 => m + 1 \in 2..Deep /\ m \in 1..Deep /\ m + 1 - 1 = m)
    BY <1>1
<1> QED BY <1>1, <1>2, <1>3, <1>4

\* C functions above f are of its thread, executors above it run nobody else, and
\* the calls f was called from stay.
Leaves(f, m, lvl) ==
    /\ nested' = SubSeq(nested, 1, m)
    /\ \A i \in m+2..Deep : ~Switches(nested[i])
    /\ \A t \in Threads : Linked(t) => lvl[t] <= m
    /\ \A t \in Threads \ {f.thread} : calls'[t] = calls[t]
    /\ Rejected(f) => calls' = calls
    /\ f.depth <= Len(calls'[f.thread])
    /\ \A p \in 1..f.depth : calls'[f.thread][p] = calls[f.thread][p]

\* All fits together again when the m+1-th C function is left, by a return or by
\* an error, and with it what it called.
LEMMA CutStep ==
    ASSUME NEW lvl \in [Threads -> Nat], NEW rank \in [Threads -> Nat],
           Shape, Shape', Core(lvl, rank),
           NEW m \in 0..Deep-1, NEW f, f = nested[m + 1],
           resumer' = resumer, current' = f.current,
           state' = [state EXCEPT ![f.thread] = f.state],
           running # "end",
           Rejected(f) \/ (current = f.thread /\ ~Rejected(nested[Deep])),
           Leaves(f, m, lvl),
           \/ running' = "error" /\ ~Switches(f) /\ m > 0 /\ nested[m].kind # "native"
           \/ running' = f.from /\ Len(calls'[f.thread]) = f.depth
    PROVE  Core(lvl, rank)'
<1>c. /\ \A t \in Threads \ {f.thread} : calls'[t] = calls[t]
      /\ Rejected(f) => calls' = calls
      /\ f.depth <= Len(calls'[f.thread])
      /\ \A p \in 1..f.depth : calls'[f.thread][p] = calls[f.thread][p]
    BY DEF Leaves
<1>l. \A t \in Threads : Linked(t) => lvl[t] <= m
    BY DEF Leaves
<1>s. \A i \in m+2..Deep : ~Switches(nested[i])
    BY DEF Leaves
<1>1. /\ Deep \in Nat /\ Deep > 0
      /\ \A i \in 1..Deep :
           /\ nested[i].thread \in Threads /\ nested[i].depth \in Nat
           /\ nested[i].kind \in {"safe", "finalizer", "exec", "native"}
           /\ Base(nested[i]) \in Nat /\ Base(nested[i]) >= nested[i].depth
           /\ nested[i].current \in Threads \cup {None}
           /\ nested[i].from \in Modes
      /\ \A t \in Threads : Len(calls[t]) \in Nat
      /\ None \notin Threads
    <2>1. Deep > 0
        BY CutFrame
    <2> QED BY <2>1, FrameTypes, Zenon
<1>2. Deep' = m /\ m \in Nat /\ m < Deep /\ m + 1 \in 1..Deep /\ \A i \in 1..m : nested'[i] = nested[i]
    <2>1. nested' = SubSeq(nested, 1, m)
        BY DEF Leaves
    <2> QED BY <2>1, CutDepth
<1>3. \A i \in 1..m : i \in 1..Deep /\ ~Rejected(nested[i])
    BY <1>1, <1>2 DEF Core, Rejections
<1>4. ~Refused'
    <2>1. nested' # << >> => m > 0
        BY <1>2 DEF Deep
    <2> QED BY <1>2, <1>3, <2>1 DEF Refused
<1>5. /\ f.thread \in Threads /\ f.depth \in Nat /\ f.from # "error" /\ f.from \in Modes
      /\ f.current \in Threads \cup {None}
      /\ ~Switches(f) => f.state = "running" /\ f.from # "end"
      /\ f.state = "inactive" => \A j \in 1..m : nested[j].thread # f.thread
      /\ \A j \in 1..m : nested[j].thread = f.thread => Base(nested[j]) <= f.depth
      /\ Serves(f.current, m, lvl) /\ Fits(f.from, m)
    <2>1. LeftAbove(f, m, lvl)
        BY CutFrame
    <2> QED BY <2>1, Zenon DEF LeftAbove
<1>6. Rejected(f) => /\ m + 1 = Deep /\ state' = state /\ current' = current /\ calls' = calls
    <2> SUFFICES ASSUME Rejected(f)
                 PROVE  m + 1 = Deep /\ state' = state /\ current' = current /\ calls' = calls
        OBVIOUS
    <2>1. m + 1 = Deep /\ current = f.current /\ state[f.thread] = f.state
        BY CutFrame DEF LeftAbove
    <2>2. state' = state
        BY <2>1 DEF Shape
    <2> QED BY <1>c, <2>1, <2>2
<1>7. ~Rejected(f) => /\ current = f.thread /\ state[f.thread] = "running"
                      /\ ~Switches(f) => state' = state /\ current' = current
                      /\ Switches(f) => f.state = "inactive" /\ ~Linked(f.thread)
    <2> SUFFICES ASSUME ~Rejected(f)
                 PROVE  /\ current = f.thread /\ state[f.thread] = "running"
                        /\ ~Switches(f) => state' = state /\ current' = current
                        /\ Switches(f) => f.state = "inactive" /\ ~Linked(f.thread)
        OBVIOUS
    <2>1. current = f.thread /\ state[f.thread] = "running"
        BY <1>1, CurrentIs
    <2>2. ~Switches(f) => state' = state /\ current' = current
        BY <1>5, <2>1 DEF Switches, Shape
    <2>3. Switches(f) => f.state = "inactive" /\ ~Linked(f.thread)
        BY <1>2 DEF Rejected, Core, CallersWait
    <2> QED BY <2>1, <2>2, <2>3
<1>8. /\ \A t \in Threads \ {f.thread} : state'[t] = state[t]
      /\ \A t \in Threads : state'[t] = state[t] \/ (t = f.thread /\ f.state = "inactive"
                                                   /\ ~Linked(t) /\ state'[t] = "inactive" /\ state[t] = "running" /\ Switches(f))
    BY <1>5, <1>6, <1>7 DEF Shape
<1>9. FramesOK'
    BY <1>2, <1>3, FramesBelow DEF Core, FramesOK
<1>10. ModeOK'
    BY <1>2, <1>5 DEF ModeOK, Fits
<1>11. Rejections'
    BY <1>2, <1>3 DEF Rejections
<1>12. Served(lvl)'
    <2>1. \A x : Serves(x, m, lvl) => Serves(x, m, lvl)'
        BY <1>2 DEF Serves, Linked
    <2>2. Serves(current, Deep, lvl)'
        BY <1>2, <1>5 DEF Serves, Linked
    <2>3. \A i \in 1..m : Serves(nested[i].current, i - 1, lvl)'
        <3> SUFFICES ASSUME NEW i \in 1..m PROVE Serves(nested[i].current, i - 1, lvl)'
            OBVIOUS
        <3>1. Serves(nested[i].current, i - 1, lvl)
            BY <1>3 DEF Core, Served
        <3>2. i - 1 = 0 \/ i - 1 \in 1..m
            BY <1>2
        <3>3. nested'[i] = nested[i]
            BY <1>2
        <3>4. i - 1 = 0 \/ nested'[i - 1] = nested[i - 1]
            BY <1>2, <3>2, Zenon
        <3> QED BY <3>1, <3>3, <3>4, ServesKept
    <2> QED BY <1>2, <2>2, <2>3 DEF Served
<1>13. Chained(lvl, rank)'
    <2> SUFFICES ASSUME NEW t \in Threads, Linked(t)
                 PROVE  /\ lvl[t] \in 1..m /\ nested'[lvl[t]].kind = "exec"
                        /\ Serves(resumer[t], lvl[t], lvl)'
                        /\ rank[t] = RankAt(resumer[t], lvl[t], rank)' + 1
                        /\ rank[t] <= RankAt(AtTop(lvl[t]), lvl[t], rank)'
                        /\ \A i \in 1..m : nested'[i].thread = t => i > lvl[t]
                        /\ \A i \in 1..m : nested'[i].thread = resumer[t] => i <= lvl[t] \/ Rejected(nested'[i])
                        /\ \A s \in Threads : Linked(s)' /\ lvl[s] = lvl[t] /\ rank[s] = rank[t] => s = t
        BY <1>2 DEF Chained, Linked
    <2>1. /\ lvl[t] \in 1..Deep /\ nested[lvl[t]].kind = "exec"
          /\ Serves(resumer[t], lvl[t], lvl)
          /\ rank[t] = RankAt(resumer[t], lvl[t], rank) + 1
          /\ rank[t] <= RankAt(AtTop(lvl[t]), lvl[t], rank)
          /\ \A i \in 1..Deep : nested[i].thread = t => i > lvl[t]
          /\ \A i \in 1..Deep : nested[i].thread = resumer[t] => i <= lvl[t] \/ Rejected(nested[i])
          /\ \A s \in Threads : Linked(s) /\ lvl[s] = lvl[t] /\ rank[s] = rank[t] => s = t
        BY DEF Core, Chained
    <2>2. lvl[t] \in 1..m /\ nested'[lvl[t]] = nested[lvl[t]]
        BY <1>l, <1>2, <2>1
    <2>3. Serves(resumer[t], lvl[t], lvl)'
        BY <2>1, <2>2 DEF Serves, Linked
    <2>4. RankAt(resumer[t], lvl[t], rank)' = RankAt(resumer[t], lvl[t], rank)
        BY <2>2 DEF RankAt
    <2>5. AtTop(lvl[t])' = AtTop(lvl[t])
        <3>1. CASE lvl[t] < m
            <4>1. lvl[t] < Deep /\ lvl[t] + 1 \in 1..m /\ lvl[t] < Deep'
                <5>1. m \in Nat /\ Deep \in Nat /\ m < Deep /\ Deep' = m /\ lvl[t] \in 1..m
                    BY <1>1, <1>2, <2>2
                <5> QED BY <3>1, <5>1
            <4>2. nested'[lvl[t] + 1] = nested[lvl[t] + 1]
                BY <1>2, <4>1
            <4> QED BY <4>1, <4>2 DEF AtTop
        <3>2. CASE lvl[t] = m
            <4>1. lvl[t] < Deep /\ ~(lvl[t] < Deep')
                BY <1>2, <3>2
            <4> QED BY <3>2, <4>1 DEF AtTop
        <3> QED BY <2>2, <3>1, <3>2
    <2>6. RankAt(AtTop(lvl[t]), lvl[t], rank)' = RankAt(AtTop(lvl[t]), lvl[t], rank)
        BY <2>2, <2>5 DEF RankAt
    <2>7. \A s \in Threads : Linked(s)' <=> Linked(s)
        BY DEF Linked
    <2>8. \A i \in 1..m : i \in 1..Deep /\ nested'[i] = nested[i]
        BY <1>2, <1>3
    <2> QED BY <2>1, <2>2, <2>3, <2>4, <2>6, <2>7, <2>8
<1>14. Marked'
    <2> SUFFICES ASSUME NEW i \in 1..m, NEW g, g = nested[i]
                 PROVE  /\ Base(g) <= Len(calls'[g.thread])
                        /\ g.kind = "native" => calls'[g.thread][g.depth + 1] = "native"
                        /\ g.kind = "exec" => calls'[g.thread][g.depth + 1] = "entry"
        BY <1>2 DEF Marked
    <2>1. /\ Base(g) <= Len(calls[g.thread])
          /\ g.kind = "native" => calls[g.thread][g.depth + 1] = "native" /\ Base(g) = g.depth + 1
          /\ g.kind = "exec" => calls[g.thread][g.depth + 1] = "entry" /\ Base(g) = g.depth + 1
        BY <1>3 DEF Core, Marked, Base, Protected
    <2>2. g.thread \in Threads /\ g.depth \in Nat /\ Base(g) \in Nat
        BY <1>1, <1>3
    <2>3. CASE g.thread = f.thread
        <3>1. Base(g) <= f.depth
            BY <1>3, <1>5, <2>3
        <3>2. g.depth + 1 = Base(g) => g.depth + 1 \in 1..f.depth
            BY <1>5, <2>2, <3>1
        <3>3. Len(calls'[f.thread]) \in Nat
            BY <1>5, LenFacts DEF Shape
        <3>4. Base(g) <= Len(calls'[f.thread])
            <4>1. f.depth \in Nat /\ f.depth <= Len(calls'[f.thread])
                BY <1>c, <1>5
            <4> QED BY <2>2, <3>1, <3>3, <4>1
        <3>5. g.depth + 1 = Base(g) => calls'[g.thread][g.depth + 1] = calls[g.thread][g.depth + 1]
            BY <1>c, <2>3, <3>2
        <3> QED BY <2>1, <2>3, <3>4, <3>5
    <2>4. CASE g.thread # f.thread
        <3>1. calls'[g.thread] = calls[g.thread]
            BY <1>c, <2>2, <2>4
        <3> QED BY <2>1, <3>1
    <2> QED BY <2>3, <2>4
<1>15. CallersGoOn'
    <2> SUFFICES ASSUME NEW i \in 2..m, NEW g, g = nested[i]
                 PROVE  IF Switches(g)
                        THEN GoesOn(g.from, g.current, calls'[g.current], Len(calls'[g.current]), nested[i - 1])
                        ELSE GoesOn(g.from, g.thread, calls'[g.thread], g.depth, nested[i - 1])
        <3> SUFFICES ASSUME NEW i \in 2..Deep', NEW g, g = nested'[i]
                     PROVE  IF Switches(g)
                            THEN GoesOn(g.from, g.current, calls'[g.current], Len(calls'[g.current]), nested'[i - 1])
                            ELSE GoesOn(g.from, g.thread, calls'[g.thread], g.depth, nested'[i - 1])
            BY Zenon DEF CallersGoOn, Switches
        <3>1. i \in 2..m /\ i \in 1..m /\ i - 1 \in 1..m
            BY <1>2
        <3>2. nested'[i] = nested[i] /\ nested'[i - 1] = nested[i - 1]
            BY <1>2, <3>1, Zenon
        <3> QED BY <3>1, <3>2, Zenon
    <2>1. i \in 1..m /\ i - 1 \in 1..m /\ i \in 2..Deep /\ i \in 1..Deep /\ i - 1 \in 1..Deep
        <3>1. m \in Nat /\ Deep \in Nat /\ m < Deep
            BY <1>1, <1>2
        <3> QED BY <3>1
    <2>2. IF Switches(g)
          THEN GoesOn(g.from, g.current, calls[g.current], Len(calls[g.current]), nested[i - 1])
          ELSE GoesOn(g.from, g.thread, calls[g.thread], g.depth, nested[i - 1])
        BY <2>1 DEF Core, CallersGoOn
    <2>3. CASE Switches(g)
        <3>1. g.current \in Threads
            <4>1. Serves(g.current, i - 1, lvl) /\ nested[i - 1].thread \in Threads
                BY <1>1, <2>1 DEF Core, Served
            <4>2. g.current # None
                <5>1. i - 1 # 0 /\ None \notin Threads
                    BY <1>1, <2>1
                <5> QED BY <4>1, <5>1 DEF Serves
            <4> QED BY <1>1, <2>1, <4>2
        <3>2. g.current # current
            BY <1>1, <1>3, <2>1, <2>3, <3>1 DEF Core, CallersWait
        <3>3. calls'[g.current] = calls[g.current]
            BY <1>c, <1>6, <1>7, <3>1, <3>2
        <3> QED BY <2>2, <2>3, <3>3
    <2>4. CASE ~Switches(g)
        <3>1. /\ g.depth \in Nat /\ g.thread \in Threads /\ Base(g) \in Nat /\ Base(g) >= g.depth
              /\ g.thread = f.thread => Base(g) <= f.depth
            BY <1>1, <1>5, <2>1
        <3>2. g.depth >= 1 /\ g.thread = f.thread => g.depth \in 1..f.depth
            BY <1>5, <3>1
        <3>3. g.depth >= 1 => calls'[g.thread][g.depth] = calls[g.thread][g.depth]
            BY <1>c, <3>1, <3>2
        <3>4. GoesOn(g.from, g.thread, calls[g.thread], g.depth, nested[i - 1])
            BY <2>2, <2>4
        <3>5. GoesOn(g.from, g.thread, calls'[g.thread], g.depth, nested[i - 1])
            BY <3>3, <3>4 DEF GoesOn
        <3> QED BY <2>4, <3>5
    <2> QED BY <2>3, <2>4
<1>16. CurrentGoesOn'
    <2> SUFFICES ASSUME running' # "error", m > 0
                 PROVE  GoesOn(f.from, f.current, calls'[f.current], Len(calls'[f.current]), nested[m])
        BY <1>2 DEF CurrentGoesOn
    <2>1. m + 1 \in 2..Deep /\ m \in 1..Deep /\ m + 1 - 1 = m
        <3>1. nested' = SubSeq(nested, 1, m)
            BY DEF Leaves
        <3> QED BY <3>1, CutDepth
    <2>2. IF Switches(f)
          THEN GoesOn(f.from, f.current, calls[f.current], Len(calls[f.current]), nested[m])
          ELSE GoesOn(f.from, f.thread, calls[f.thread], f.depth, nested[m])
        BY CutFrame DEF LeftAbove
    <2>3. CASE Switches(f)
        <3>1. f.current \in Threads
            <4>1. f.current \in Threads \cup {None} /\ Serves(f.current, m, lvl)
                BY <1>5
            <4>2. nested[m].thread \in Threads /\ None \notin Threads /\ m # 0
                BY <1>1, <2>1
            <4> QED BY <4>1, <4>2 DEF Serves
        <3> QED BY <1>c, <2>2, <2>3, <3>1 DEF Switches
    <2>4. CASE ~Switches(f)
        <3>1. f.current = f.thread /\ Len(calls'[f.thread]) = f.depth
            BY <2>4 DEF Switches
        <3>2. f.depth >= 1 => calls'[f.thread][f.depth] = calls[f.thread][f.depth]
            <4>1. f.depth >= 1 => f.depth \in 1..f.depth
                BY <1>5
            <4> QED BY <1>c, <4>1
        <3> QED BY <2>2, <2>4, <3>1, <3>2 DEF GoesOn
    <2> QED BY <2>3, <2>4
<1>17. ResumersGoOn(lvl)'
    <2> SUFFICES ASSUME NEW t \in Threads, Linked(t)
                 PROVE  Resumes(state'[t], resumer[t], calls'[resumer[t]], nested'[lvl[t]])
        BY DEF ResumersGoOn, Linked
    <2>1. resumer[t] \in Threads /\ state[resumer[t]] = "resumed" /\ lvl[t] \in 1..m
        <3>1. lvl[t] <= m /\ lvl[t] \in 1..Deep
            BY <1>l DEF Core, Chained
        <3> QED BY <1>1, <1>2, <3>1 DEF Linked, Shape, Core, LinkStates
    <2>2. calls'[resumer[t]] = calls[resumer[t]]
        BY <1>c, <1>6, <1>7, <2>1
    <2>3. state'[t] = state[t]
        BY <1>8
    <2> QED BY <1>2, <2>1, <2>2, <2>3 DEF Core, ResumersGoOn
<1>18. Resting'
    <2> SUFFICES ASSUME NEW t \in Threads
                 PROVE  LET s == calls'[t] IN
                        /\ state'[t] = "yielded" => Len(s) >= 2 /\ s[Len(s)] = "yield" /\ s[Len(s) - 1] = "js"
                        /\ state'[t] \in {"inactive", "terminated"} => Len(s) = 0
        BY DEF Resting
    <2>1. CASE t # f.thread \/ Rejected(f)
        <3>1. state'[t] = state[t] /\ calls'[t] = calls[t]
            BY <1>c, <1>6, <1>8, <2>1
        <3> QED BY <3>1 DEF Core, Resting
    <2>2. CASE t = f.thread /\ ~Rejected(f)
        <3>1. CASE Switches(f)
            <4>1. state'[t] = "inactive" /\ f.depth = 0
                BY <1>2, <1>5, <1>7, <2>2, <3>1 DEF Shape, Core, FramesOK, FrameOK
            <4> QED BY <1>c, <2>2, <3>1, <4>1
        <3>2. CASE ~Switches(f)
            BY <1>7, <2>2, <3>2
        <3> QED BY <3>1, <3>2
    <2> QED BY <2>1, <2>2
<1>19. CurrentState'
    <2> SUFFICES ASSUME f.current # None PROVE state'[f.current] = Frozen(running')
        BY <1>4 DEF CurrentState
    <2>1. CASE ~Switches(f)
        BY <1>5, <1>7, <2>1 DEF Switches, Frozen, Rejected
    <2>2. CASE Switches(f)
        <3>1. state[f.current] = Frozen(f.from) /\ running' = f.from
            BY <1>2, <2>2 DEF Core, CallersWait
        <3>2. f.current # f.thread
            BY <2>2 DEF Switches
        <3> QED BY <1>5, <1>8, <3>1, <3>2
    <2> QED BY <2>1, <2>2
<1>20. CallersWait'
    <2> SUFFICES ASSUME NEW i \in 1..m
                 PROVE  LET g == nested[i] IN
                        /\ Switches(g) /\ g.current # None =>
                             /\ state'[g.current] = Frozen(g.from)
                             /\ Rejected(g) \/ g.current # current'
                             /\ \A j \in i+1..m : nested[j].current # g.current
                        /\ g.state = "inactive" => ~Linked(g.thread)
        <3> SUFFICES ASSUME NEW i \in 1..Deep', NEW g, g = nested'[i]
                     PROVE  /\ Switches(g) /\ g.current # None =>
                                 /\ state'[g.current] = Frozen(g.from)
                                 /\ Rejected(g) \/ g.current # current'
                                 /\ \A j \in i+1..Deep' : nested'[j].current # g.current
                            /\ g.state = "inactive" => ~Linked(g.thread)
            BY Zenon DEF CallersWait, Linked, Switches, Rejected, Frozen
        <3>1. Deep' = m /\ nested'[i] = nested[i] /\ i \in 1..m
            BY <1>2
        <3>2. ASSUME NEW j \in i+1..m PROVE nested'[j] = nested[j]
            <4>1. j \in 1..m
                BY <1>2, <3>1, <3>2
            <4> QED BY <1>2, <4>1, Zenon
        <3> QED BY <3>1, <3>2, ZenonT(60)
    <2>1. i \in 1..Deep /\ m + 1 \in i+1..Deep /\ \A j \in i+1..m : j \in i+1..Deep
        <3>1. nested' = SubSeq(nested, 1, m)
            BY DEF Leaves
        <3> QED BY <3>1, CutDepth
    <2>2. LET g == nested[i] IN
          /\ Switches(g) /\ g.current # None =>
               /\ state[g.current] = Frozen(g.from)
               /\ Rejected(g) \/ g.current # current
               /\ \A j \in i+1..Deep : nested[j].current # g.current
          /\ g.state = "inactive" => ~Linked(g.thread)
        BY <2>1 DEF Core, CallersWait
    <2>3. ASSUME Switches(nested[i]), nested[i].current # None
          PROVE  state'[nested[i].current] = state[nested[i].current]
        <3>1. nested[i].current # current /\ nested[i].current \in Threads
            BY <1>1, <1>3, <2>1, <2>2, <2>3
        <3> QED BY <1>6, <1>7, <1>8, <3>1
    <2> QED BY <2>1, <2>2, <2>3
<1>21. \A t \in Threads : Called(t) => t = current' \/ Called(t)'
    <2> SUFFICES ASSUME NEW t \in Threads, NEW i \in 1..Deep, nested[i].current = t, Switches(nested[i])
                 PROVE  t = current' \/ Called(t)'
        BY DEF Called
    <2>1. CASE i <= m
        BY <1>2, <2>1 DEF Called
    <2>2. CASE i = m + 1
        BY <2>2
    <2>3. CASE i > m + 1
        BY <1>s, <1>2, <2>3
    <2> QED BY <1>2, <2>1, <2>2, <2>3
<1>22. Runners'
    <2> SUFFICES ASSUME NEW t \in Threads, state'[t] = "running" PROVE t = current' \/ Called(t)'
        BY DEF Runners
    <2>1. state[t] = "running"
        BY <1>8
    <2>2. CASE Called(t)
        BY <1>21, <2>2
    <2>3. CASE t = current
        <3>1. CASE Rejected(f) \/ ~Switches(f)
            BY <1>6, <1>7, <2>3, <3>1
        <3>2. CASE ~Rejected(f) /\ Switches(f)
            <4>1. t = f.thread /\ f.state = "inactive"
                BY <1>7, <2>3, <3>2
            <4> QED BY <4>1 DEF Shape
        <3> QED BY <3>1, <3>2
    <2> QED BY <2>1, <2>2, <2>3 DEF Core, Runners
<1>23. LinkStates'
    <2> SUFFICES ASSUME NEW t \in Threads
                 PROVE  /\ Linked(t) =>
                            /\ t \in Coroutines
                            /\ state'[resumer[t]] = "resumed"
                            /\ state'[t] \in {"running", "resumed", "terminated"}
                            /\ state'[t] = "terminated" => t = current' \/ Called(t)'
                            /\ \A s \in Threads : resumer[s] = resumer[t] => s = t
                        /\ state'[t] = "resumed" => \E s \in Threads : resumer[s] = t
                        /\ state'[t] \in {"yielded", "terminated"} => t \in Coroutines
        BY DEF LinkStates, Linked
    <2>1. /\ Linked(t) =>
              /\ t \in Coroutines
              /\ state[resumer[t]] = "resumed"
              /\ state[t] \in {"running", "resumed", "terminated"}
              /\ state[t] = "terminated" => t = current \/ Called(t)
              /\ \A s \in Threads : resumer[s] = resumer[t] => s = t
          /\ state[t] = "resumed" => \E s \in Threads : resumer[s] = t
          /\ state[t] \in {"yielded", "terminated"} => t \in Coroutines
        BY DEF Core, LinkStates
    <2>2. Linked(t) => state'[t] = state[t] /\ state'[resumer[t]] = "resumed"
        <3>1. Linked(t) => resumer[t] \in Threads
            BY DEF Linked, Shape
        <3> QED BY <1>8, <2>1, <3>1
    <2>3. Linked(t) /\ state[t] = "terminated" => t = current' \/ Called(t)'
        BY <1>6, <1>7, <1>21, <2>1
    <2> QED BY <1>8, <2>1, <2>2, <2>3
<1>24. Unserved'
    <2> SUFFICES ASSUME NEW i \in 1..m
                 PROVE  state'[nested[i].thread] \notin {"inactive", "yielded", "terminated"}
        BY <1>2 DEF Unserved
    <2>1. state[nested[i].thread] \notin {"inactive", "yielded", "terminated"}
        BY <1>3 DEF Core, Unserved
    <2> QED BY <1>1, <1>3, <1>5, <1>8, <2>1
<1> QED BY <1>9, <1>10, <1>11, <1>12, <1>13, <1>14, <1>15, <1>16, <1>17, <1>18, <1>19, <1>20, <1>22,
           <1>23, <1>24 DEF Core

LEMMA FrameFacts ==
    ASSUME Shape, NEW kind \in {"safe", "finalizer", "exec", "native"}, NEW t \in Threads,
           NEW g, g = Frame(kind, t)
    PROVE  /\ g.kind = kind /\ g.thread = t /\ g.depth = Len(calls[t]) /\ g.current = current
           /\ g.state = state[t] /\ g.from = running
           /\ g \in Frames
           /\ Append(nested, g) \in Seq(Frames) /\ Len(Append(nested, g)) = Deep + 1
           /\ \A i \in 1..Deep : Append(nested, g)[i] = nested[i]
           /\ Append(nested, g)[Deep + 1] = g
<1>1. /\ g.kind = kind /\ g.thread = t /\ g.depth = Len(calls[t]) /\ g.current = current
      /\ g.state = state[t] /\ g.from = running
    BY DEF Frame
<1>2. g \in Frames
    BY FrameTypes DEF Frame, Frames, Shape
<1>3. nested \in Seq(Frames)
    BY DEF Shape
<1> QED BY <1>1, <1>2, <1>3, AppendFacts DEF Deep

\* What is there before another C function is called.
LEMMA Calm ==
    ASSUME NEW lvl, NEW rank, Shape, Core(lvl, rank), running # "error"
    PROVE  /\ Deep \in Nat
           /\ \A i \in 1..Deep :
                /\ nested[i].thread \in Threads /\ nested[i].depth \in Nat
                /\ nested[i].kind \in {"safe", "finalizer", "exec", "native"}
                /\ Base(nested[i]) \in Nat /\ Base(nested[i]) >= nested[i].depth
                /\ nested[i].current \in Threads \cup {None}
                /\ nested[i].from \in Modes
                /\ ~Rejected(nested[i])
           /\ \A s \in Threads : Len(calls[s]) \in Nat
           /\ None \notin Threads
           /\ ~Refused /\ Serves(current, Deep, lvl) /\ Fits(running, Deep)
           /\ current \in Threads \cup {None}
           /\ current # None => state[current] = Frozen(running)
           /\ Deep > 0 <=> current # None
<1>1. \A i \in 1..Deep : ~Rejected(nested[i])
    BY DEF Core, Rejections
<1>2. ~Refused
    BY <1>1, FrameTypes DEF Refused, Deep, Shape
<1>3. Serves(current, Deep, lvl) /\ Fits(running, Deep) /\ current \in Threads \cup {None}
    BY <1>2 DEF Core, Served, ModeOK, Shape
<1>4. current # None => state[current] = Frozen(running)
    BY <1>2 DEF Core, CurrentState
<1>5. Deep > 0 <=> current # None
    BY <1>3, FrameTypes DEF Serves
<1> QED BY <1>1, <1>2, <1>3, <1>4, <1>5, FrameTypes

\* A C function g is called on thread t: on the current one, on another one, or
\* in vain.
Reaches(t, g) ==
    \/ /\ t = current /\ state[t] = "running" /\ current' = current /\ state' = state
       /\ running # "end" /\ ~Switches(g) /\ ~Rejected(g)
    \/ /\ t # current /\ state[t] = "inactive" /\ current' = t /\ calls' = calls
       /\ state' = [state EXCEPT ![t] = "running"] /\ Switches(g) /\ ~Rejected(g)
    \/ /\ t # current /\ state[t] # "inactive" /\ current' = current /\ calls' = calls
       /\ state' = state /\ running' = "error" /\ Switches(g) /\ Rejected(g)

\* The calls of t so far stay.
Extends(t) ==
    /\ \A s \in Threads \ {t} : calls'[s] = calls[s]
    /\ Len(calls'[t]) >= Len(calls[t])
    /\ \A p \in 1..Len(calls[t]) : calls'[t][p] = calls[t][p]

\* What the function needs above them.
Starts(t, g) ==
    \/ Protected(g) /\ calls' = calls /\ running' \in {"protected", "error"}
    \/ /\ g.kind = "native" /\ running' = "native"
       /\ Len(calls'[t]) = Len(calls[t]) + 1 /\ calls'[t][Len(calls[t]) + 1] = "native"
    \/ /\ g.kind = "exec" /\ running' = "js"
       /\ Len(calls'[t]) = Len(calls[t]) + 1 /\ calls'[t][Len(calls[t]) + 1] = "entry"

Pushed(g) == nested' = Append(nested, g) /\ resumer' = resumer

LEMMA ReachesShape ==
    ASSUME Shape, NEW t \in Threads, NEW g, Reaches(t, g)
    PROVE  state' \in [Threads -> States] /\ current' \in Threads \cup {None}
<1>1. state \in [Threads -> States] /\ current \in Threads \cup {None} /\ "running" \in States
    BY DEF Shape, States
<1> QED BY <1>1 DEF Reaches

\* All fits together when another C function is called.
LEMMA PushStep ==
    ASSUME NEW lvl \in [Threads -> Nat], NEW rank \in [Threads -> Nat],
           Shape, Shape', Core(lvl, rank), running # "error",
           NEW kind \in {"safe", "finalizer", "exec", "native"}, NEW t \in Threads,
           NEW g, g = Frame(kind, t), FrameOK(g, Deep + 1),
           Pushed(g), Reaches(t, g), Extends(t), Starts(t, g)
    PROVE  Core(lvl, rank)'
<1>1. /\ g.kind = kind /\ g.thread = t /\ g.depth = Len(calls[t]) /\ g.current = current
      /\ g.state = state[t] /\ g.from = running
    BY FrameFacts
<1>2. /\ Deep' = Deep + 1 /\ nested'[Deep + 1] = g /\ \A i \in 1..Deep : nested'[i] = nested[i]
    BY FrameFacts DEF Deep, Pushed
<1>3. /\ Deep \in Nat
      /\ \A i \in 1..Deep :
           /\ nested[i].thread \in Threads /\ nested[i].depth \in Nat
           /\ Base(nested[i]) \in Nat /\ Base(nested[i]) >= nested[i].depth
           /\ nested[i].current \in Threads \cup {None}
           /\ ~Rejected(nested[i])
      /\ \A s \in Threads : Len(calls[s]) \in Nat
      /\ None \notin Threads
      /\ Serves(current, Deep, lvl) /\ Fits(running, Deep) /\ current \in Threads \cup {None}
      /\ current # None => state[current] = Frozen(running)
      /\ Deep > 0 <=> current # None
    BY Calm
<1>4. /\ \A i \in 1..Deep : i \in 1..Deep' /\ nested'[i] = nested[i] /\ i # Deep + 1
      /\ \A i \in 1..Deep' : i \in 1..Deep \/ i = Deep + 1
      /\ Deep + 1 \in 1..Deep' /\ Deep + 1 - 1 = Deep
    <2>1. Deep \in Nat /\ Deep' = Deep + 1
        BY <1>2, <1>3
    <2>2. \A i \in 1..Deep : i \in 1..Deep' /\ i # Deep + 1
        BY <2>1
    <2>3. \A i \in 1..Deep' : i \in 1..Deep \/ i = Deep + 1
        BY <2>1
    <2>4. Deep + 1 \in 1..Deep' /\ Deep + 1 - 1 = Deep
        BY <2>1
    <2> QED BY <1>2, <2>2, <2>3, <2>4
<1>5. Base(g) = (IF Protected(g) THEN Len(calls[t]) ELSE Len(calls[t]) + 1)
      /\ (Protected(g) <=> kind \in {"safe", "finalizer"})
    BY <1>1 DEF Protected, Base
<1>6. Refused' <=> Rejected(g)
    <2>1. nested' # << >>
        BY <1>2, <1>3 DEF Deep
    <2> QED BY <1>2, <2>1 DEF Refused
<1>0. resumer' = resumer
    BY DEF Pushed
<1>n. PICK n \in Nat : n = Deep
    BY <1>3
<1>7. FramesOK'
    <2>1. \A i \in 1..Deep + 1 : \A j \in 1..i-1 : nested'[j] = nested[j]
        BY <1>2, <1>3
    <2>2. ASSUME NEW i \in 1..Deep, NEW f, f = nested[i] PROVE FrameOK(f, i)'
        <3>1. i \in Nat /\ i >= 1 /\ i \in 1..Deep + 1
            BY <1>3
        <3>2. FrameOK(f, i)
            BY <2>2 DEF Core, FramesOK
        <3> QED BY <2>1, <3>1, <3>2, FramesBelow
    <2>3. FrameOK(g, n + 1)'
        <3>1. n + 1 \in Nat /\ n + 1 >= 1 /\ n + 1 \in 1..n + 1
            BY <1>n
        <3>2. FrameOK(g, n + 1)
            BY <1>n, Zenon
        <3>3. \A j \in 1..n + 1 - 1 : nested'[j] = nested[j]
            <4> SUFFICES ASSUME NEW j \in 1..n + 1 - 1 PROVE nested'[j] = nested[j]
                OBVIOUS
            <4>1. j \in 1..Deep
                BY <1>n
            <4> QED BY <1>2, <4>1, Zenon
        <3> QED BY <3>1, <3>2, <3>3, FramesBelow
    <2>4. ASSUME NEW i \in 1..Deep', NEW f, f = nested'[i] PROVE FrameOK(f, i)'
        <3>1. i \in 1..Deep \/ i = Deep + 1
            BY <1>4
        <3>2. CASE i \in 1..Deep
            BY <1>2, <2>2, <2>4, <3>2
        <3>3. CASE i = Deep + 1
            BY <1>2, <1>n, <2>3, <2>4, <3>3
        <3> QED BY <3>1, <3>2, <3>3
    <2> QED BY <2>4 DEF FramesOK
<1>8. ModeOK'
    BY <1>1, <1>2, <1>3, <1>5 DEF ModeOK, Fits, Starts
<1>9. Rejections'
    <2>1. Rejected(g) =>
            /\ running' = "error" /\ current' = g.current
            /\ Len(calls'[t]) = g.depth /\ state'[t] = g.state
        BY <1>1 DEF Reaches
    <2>2. ASSUME NEW i \in 1..Deep', Rejected(nested'[i]) PROVE i = Deep' /\ nested'[i] = g
        BY <1>2, <1>3, <1>4, <2>2
    <2> QED BY <1>1, <2>1, <2>2 DEF Rejections
<1>10. Served(lvl)'
    <2>1. ASSUME NEW i \in 1..Deep, NEW f, f = nested[i]
          PROVE  Serves(f.current, i - 1, lvl)'
        <3>1. i - 1 = 0 \/ nested'[i - 1] = nested[i - 1]
            <4>1. i - 1 = 0 \/ i - 1 \in 1..Deep
                BY <1>3
            <4> QED BY <1>2, <4>1
        <3>2. Serves(f.current, i - 1, lvl)
            BY <2>1 DEF Core, Served
        <3> QED BY <1>0, <3>1, <3>2, ServesKept
    <2>2. Serves(g.current, n, lvl)'
        <3>1. Deep = 0 \/ nested'[Deep] = nested[Deep]
            <4>1. Deep = 0 \/ Deep \in 1..Deep
                BY <1>3
            <4> QED BY <1>2, <4>1
        <3>2. g.current = current /\ Serves(current, Deep, lvl)
            BY <1>1, <1>3
        <3>3. Serves(g.current, n, lvl)
            BY <1>n, <3>2
        <3> QED BY <1>0, <1>n, <3>1, <3>3, ServesKept
    <2>3. Serves(t, n + 1, lvl)'
        <3>2. n + 1 # 0 /\ t = nested'[n + 1].thread
            BY <1>1, <1>2, <1>n
        <3> QED BY <3>2 DEF Serves
    <2>4. ~Rejected(g) => current' = t
        BY DEF Reaches
    <2>5. \A i \in 1..Deep' : Serves(nested[i].current, i - 1, lvl)'
        <3> SUFFICES ASSUME NEW i \in 1..Deep', NEW f, f = nested'[i] PROVE Serves(f.current, i - 1, lvl)'
            OBVIOUS
        <3>1. CASE i \in 1..Deep
            BY <1>2, <2>1, <3>1
        <3>2. CASE i = Deep + 1
            <4>1. f = g /\ i - 1 = n
                BY <1>2, <1>n, <3>2
            <4> QED BY <2>2, <4>1
        <3> QED BY <1>4, <3>1, <3>2
    <2>6. ~Refused' => Serves(current, Deep, lvl)'
        <3>1. Deep' = n + 1
            BY <1>2, <1>n
        <3> QED BY <1>6, <2>3, <2>4, <3>1
    <2> QED BY <2>5, <2>6 DEF Served
<1>11. Chained(lvl, rank)'
    <2> SUFFICES ASSUME NEW s \in Threads, Linked(s)
                 PROVE  /\ lvl[s] \in 1..Deep' /\ nested'[lvl[s]].kind = "exec"
                        /\ Serves(resumer[s], lvl[s], lvl)'
                        /\ rank[s] = RankAt(resumer[s], lvl[s], rank)' + 1
                        /\ rank[s] <= RankAt(AtTop(lvl[s]), lvl[s], rank)'
                        /\ \A i \in 1..Deep' : nested'[i].thread = s => i > lvl[s]
                        /\ \A i \in 1..Deep' : nested'[i].thread = resumer[s] => i <= lvl[s] \/ Rejected(nested'[i])
                        /\ \A u \in Threads : Linked(u)' /\ lvl[u] = lvl[s] /\ rank[u] = rank[s] => u = s
        BY <1>0 DEF Chained, Linked
    <2>1. /\ lvl[s] \in 1..Deep /\ nested[lvl[s]].kind = "exec"
          /\ Serves(resumer[s], lvl[s], lvl)
          /\ rank[s] = RankAt(resumer[s], lvl[s], rank) + 1
          /\ rank[s] <= RankAt(AtTop(lvl[s]), lvl[s], rank)
          /\ \A i \in 1..Deep : nested[i].thread = s => i > lvl[s]
          /\ \A i \in 1..Deep : nested[i].thread = resumer[s] => i <= lvl[s] \/ Rejected(nested[i])
          /\ \A u \in Threads : Linked(u) /\ lvl[u] = lvl[s] /\ rank[u] = rank[s] => u = s
        BY DEF Core, Chained
    <2>0. Deep \in Nat /\ lvl[s] \in 1..Deep
        BY <1>3, <2>1
    <2>2. lvl[s] \in 1..Deep' /\ nested'[lvl[s]] = nested[lvl[s]] /\ lvl[s] <= Deep
        <3>1. lvl[s] <= Deep
            BY <2>0
        <3> QED BY <1>4, <2>0, <3>1
    <2>3. Serves(resumer[s], lvl[s], lvl)'
        BY <1>0, <2>1, <2>2 DEF Serves, Linked
    <2>4. RankAt(resumer[s], lvl[s], rank)' = RankAt(resumer[s], lvl[s], rank)
        BY <1>0, <2>2 DEF RankAt
    <2>5. AtTop(lvl[s])' = AtTop(lvl[s])
        <3>1. CASE lvl[s] < Deep
            <4>0. lvl[s] < Deep + 1 /\ lvl[s] + 1 \in 1..Deep
                BY <2>0, <3>1
            <4>1. lvl[s] < Deep'
                BY <1>2, <4>0
            <4>2. nested'[lvl[s] + 1] = nested[lvl[s] + 1]
                BY <1>2, <4>0
            <4> QED BY <3>1, <4>1, <4>2 DEF AtTop
        <3>2. CASE lvl[s] = Deep
            <4>0. ~(lvl[s] < Deep) /\ lvl[s] < Deep + 1
                BY <2>0, <3>2
            <4>1. ~(lvl[s] < Deep) /\ lvl[s] < Deep' /\ nested'[lvl[s] + 1] = g
                BY <1>2, <3>2, <4>0
            <4> QED BY <1>1, <4>1 DEF AtTop
        <3>3. lvl[s] < Deep \/ lvl[s] = Deep
            BY <2>0
        <3> QED BY <3>1, <3>2, <3>3
    <2>6. RankAt(AtTop(lvl[s]), lvl[s], rank)' = RankAt(AtTop(lvl[s]), lvl[s], rank)
        BY <2>2, <2>5 DEF RankAt
    <2>7. \A u \in Threads : Linked(u)' <=> Linked(u)
        BY <1>0 DEF Linked
    <2>8. Deep + 1 > lvl[s]
        BY <2>0
    <2>9. t = resumer[s] => Rejected(g)
        <3>1. state[resumer[s]] = "resumed"
            BY DEF Core, LinkStates
        <3> QED BY <3>1 DEF Reaches
    <2>10. \A i \in 1..Deep' : nested'[i].thread = s => i > lvl[s]
        BY <1>2, <1>4, <2>1, <2>8
    <2>11. \A i \in 1..Deep' : nested'[i].thread = resumer[s] => i <= lvl[s] \/ Rejected(nested'[i])
        BY <1>1, <1>2, <1>4, <2>1, <2>9
    <2> QED BY <2>1, <2>2, <2>3, <2>4, <2>6, <2>7, <2>10, <2>11
<1>12. Marked'
    <2>1. ASSUME NEW i \in 1..Deep, NEW f, f = nested[i]
          PROVE  /\ Base(f) <= Len(calls'[f.thread])
                 /\ f.kind = "native" => calls'[f.thread][f.depth + 1] = "native"
                 /\ f.kind = "exec" => calls'[f.thread][f.depth + 1] = "entry"
        <3>1. /\ Base(f) <= Len(calls[f.thread])
              /\ f.kind = "native" => calls[f.thread][f.depth + 1] = "native" /\ Base(f) = f.depth + 1
              /\ f.kind = "exec" => calls[f.thread][f.depth + 1] = "entry" /\ Base(f) = f.depth + 1
            BY <2>1 DEF Core, Marked, Base, Protected
        <3>2. f.thread \in Threads /\ f.depth \in Nat /\ Base(f) \in Nat /\ Len(calls[f.thread]) \in Nat
            BY <1>3, <2>1
        <3>3. CASE f.thread = t
            <4>1. f.depth + 1 = Base(f) => f.depth + 1 \in 1..Len(calls[t])
                BY <3>1, <3>2, <3>3
            <4>2. f.depth + 1 = Base(f) => calls'[t][f.depth + 1] = calls[t][f.depth + 1]
                BY <4>1 DEF Extends
            <4>3. Len(calls'[t]) \in Nat /\ Len(calls'[t]) >= Len(calls[t])
                BY LenFacts DEF Shape, Extends
            <4>4. Base(f) <= Len(calls'[t])
                BY <3>1, <3>2, <3>3, <4>3
            <4> QED BY <3>1, <3>3, <4>2, <4>4
        <3>4. CASE f.thread # t
            <4>1. calls'[f.thread] = calls[f.thread]
                BY <3>2, <3>4 DEF Extends
            <4> QED BY <3>1, <4>1
        <3> QED BY <3>3, <3>4
    <2>2. /\ Base(g) <= Len(calls'[t])
          /\ kind = "native" => calls'[t][g.depth + 1] = "native"
          /\ kind = "exec" => calls'[t][g.depth + 1] = "entry"
        BY <1>1, <1>3, <1>5 DEF Starts
    <2>3. ASSUME NEW i \in 1..Deep', NEW f, f = nested'[i]
          PROVE  /\ Base(f) <= Len(calls'[f.thread])
                 /\ f.kind = "native" => calls'[f.thread][f.depth + 1] = "native"
                 /\ f.kind = "exec" => calls'[f.thread][f.depth + 1] = "entry"
        <3>1. CASE i \in 1..Deep
            BY <1>4, <2>1, <2>3, <3>1, Zenon
        <3>2. CASE i = Deep + 1
            BY <1>1, <1>2, <2>2, <2>3, <3>2, Zenon
        <3> QED BY <1>4, <2>3, <3>1, <3>2, Zenon
    <2> QED BY <2>3, Zenon DEF Marked, Base, Protected
<1>13. \A s \in Threads : state[s] # "running" => calls'[s] = calls[s]
    BY DEF Reaches, Extends
<1>14. \A s \in Threads : s # current => calls'[s] = calls[s]
    BY DEF Reaches, Extends
<1>15. CallersGoOn'
    <2>1. ASSUME NEW i \in 2..Deep, NEW f, f = nested[i]
          PROVE  IF Switches(f)
                 THEN GoesOn(f.from, f.current, calls'[f.current], Len(calls'[f.current]), nested[i - 1])
                 ELSE GoesOn(f.from, f.thread, calls'[f.thread], f.depth, nested[i - 1])
        <3>1. i \in 1..Deep /\ i - 1 \in 1..Deep
            BY <1>3
        <3>2. IF Switches(f)
              THEN GoesOn(f.from, f.current, calls[f.current], Len(calls[f.current]), nested[i - 1])
              ELSE GoesOn(f.from, f.thread, calls[f.thread], f.depth, nested[i - 1])
            BY <2>1 DEF Core, CallersGoOn
        <3>3. CASE Switches(f)
            <4>1. f.current \in Threads
                <5>1. Serves(f.current, i - 1, lvl) /\ nested[i - 1].thread \in Threads
                    BY <1>3, <2>1, <3>1 DEF Core, Served
                <5>2. f.current # None
                    BY <1>3, <3>1, <5>1 DEF Serves
                <5> QED BY <1>3, <2>1, <3>1, <5>2
            <4>2. f.current # current
                BY <1>3, <2>1, <3>1, <3>3, <4>1 DEF Core, CallersWait
            <4>3. calls'[f.current] = calls[f.current]
                BY <1>14, <4>1, <4>2
            <4> QED BY <3>2, <3>3, <4>3
        <3>4. CASE ~Switches(f)
            <4>1. f.thread \in Threads /\ f.depth \in Nat /\ f.depth <= Len(calls[f.thread])
                <5>1. Base(f) <= Len(calls[f.thread]) /\ Base(f) >= f.depth /\ Base(f) \in Nat
                    BY <1>3, <2>1, <3>1 DEF Core, Marked
                <5> QED BY <1>3, <2>1, <3>1, <5>1, SMTT(60)
            <4>2. f.depth >= 1 => f.depth \in 1..Len(calls[f.thread])
                BY <1>3, <4>1
            <4>3. f.depth >= 1 => calls'[f.thread][f.depth] = calls[f.thread][f.depth]
                <5>1. CASE f.thread = t
                    BY <4>2, <5>1 DEF Extends
                <5>2. CASE f.thread # t
                    BY <4>1, <5>2 DEF Extends
                <5> QED BY <5>1, <5>2
            <4>4. GoesOn(f.from, f.thread, calls[f.thread], f.depth, nested[i - 1])
                BY <3>2, <3>4
            <4>5. GoesOn(f.from, f.thread, calls'[f.thread], f.depth, nested[i - 1])
                BY <4>3, <4>4 DEF GoesOn
            <4> QED BY <3>4, <4>5
        <3> QED BY <3>3, <3>4
    <2>2. ASSUME Deep > 0
          PROVE  IF Switches(g)
                 THEN GoesOn(g.from, g.current, calls'[g.current], Len(calls'[g.current]), nested[Deep])
                 ELSE GoesOn(g.from, g.thread, calls'[g.thread], g.depth, nested[Deep])
        <3>1. GoesOn(running, current, calls[current], Len(calls[current]), nested[Deep])
            BY <2>2 DEF Core, CurrentGoesOn
        <3>2. CASE Switches(g)
            BY <1>1, <3>1, <3>2 DEF Reaches
        <3>3. CASE ~Switches(g)
            <4>1. t = current /\ Len(calls[t]) \in Nat
                BY <1>1, <1>3, <3>3 DEF Switches
            <4>2. Len(calls[t]) >= 1 => calls'[t][Len(calls[t])] = calls[t][Len(calls[t])]
                <5>1. Len(calls[t]) >= 1 => Len(calls[t]) \in 1..Len(calls[t])
                    BY <4>1
                <5> QED BY <5>1 DEF Extends
            <4>3. GoesOn(running, t, calls[t], Len(calls[t]), nested[Deep])
                BY <3>1, <4>1
            <4>4. GoesOn(running, t, calls'[t], Len(calls[t]), nested[Deep])
                BY <4>2, <4>3 DEF GoesOn
            <4> QED BY <1>1, <3>3, <4>4
        <3> QED BY <3>2, <3>3
    <2>3. \A i \in 2..Deep' : (i \in 2..Deep /\ nested'[i] = nested[i] /\ nested'[i - 1] = nested[i - 1])
                              \/ (i = Deep + 1 /\ Deep > 0 /\ nested'[i] = g /\ nested'[i - 1] = nested[Deep])
        BY <1>2, <1>3
    <2> QED BY <2>1, <2>2, <2>3 DEF CallersGoOn
<1>16. CurrentGoesOn'
    <2> SUFFICES ASSUME running' # "error"
                 PROVE  GoesOn(running', t, calls'[t], Len(calls'[t]), g)
        BY <1>2 DEF CurrentGoesOn, Reaches
    <2> QED BY <1>1, <1>3 DEF GoesOn, Starts
<1>17. ResumersGoOn(lvl)'
    <2> SUFFICES ASSUME NEW s \in Threads, Linked(s)
                 PROVE  Resumes(state'[s], resumer[s], calls'[resumer[s]], nested'[lvl[s]])
        BY <1>0 DEF ResumersGoOn, Linked
    <2>1. /\ resumer[s] \in Threads /\ state[resumer[s]] = "resumed" /\ lvl[s] \in 1..Deep
          /\ state[s] \in {"running", "resumed", "terminated"}
        BY DEF Linked, Shape, Core, LinkStates, Chained
    <2>2. calls'[resumer[s]] = calls[resumer[s]]
        BY <1>13, <2>1
    <2>3. state'[s] = state[s]
        BY <2>1 DEF Shape, Reaches
    <2> QED BY <1>2, <2>1, <2>2, <2>3 DEF Core, ResumersGoOn
<1>18. \A s \in Threads : state'[s] = state[s]
                          \/ (s = t /\ state[s] = "inactive" /\ state'[s] = "running" /\ current' = t)
    BY DEF Shape, Reaches
<1>19. Resting'
    BY <1>13, <1>18 DEF Core, Resting, Reaches
<1>20. CurrentState'
    <2>1. CASE Rejected(g)
        BY <1>1, <1>2, <1>3, <1>6, <2>1 DEF CurrentState, Reaches
    <2>2. CASE ~Rejected(g)
        <3>1. running' \in {"protected", "error", "native", "js"} /\ current' = t /\ state'[t] = "running"
            BY <2>2 DEF Shape, Reaches, Starts
        <3> QED BY <1>6, <2>2, <3>1 DEF CurrentState, Frozen
    <2> QED BY <2>1, <2>2
<1>21. CallersWait'
    <2>1. ASSUME NEW i \in 1..Deep, NEW f, f = nested[i]
          PROVE  /\ Switches(f) /\ f.current # None =>
                      /\ state'[f.current] = Frozen(f.from)
                      /\ Rejected(f) \/ f.current # current'
                      /\ \A j \in i+1..Deep' : nested'[j].current # f.current
                 /\ f.state = "inactive" => ~Linked(f.thread)
        <3>1. /\ Switches(f) /\ f.current # None =>
                   /\ state[f.current] = Frozen(f.from)
                   /\ Rejected(f) \/ f.current # current
                   /\ \A j \in i+1..Deep : nested[j].current # f.current
              /\ f.state = "inactive" => ~Linked(f.thread)
            BY <2>1 DEF Core, CallersWait
        <3>2. ASSUME Switches(f), f.current # None
              PROVE  /\ state'[f.current] = Frozen(f.from)
                     /\ f.current # current'
                     /\ \A j \in i+1..Deep' : nested'[j].current # f.current
            <4>1. f.current \in Threads /\ ~Rejected(f) /\ f.current # current
                BY <1>3, <2>1, <3>1, <3>2
            <4>2. f.current = t => state[t] # "inactive"
                BY <3>1, <3>2 DEF Frozen
            <4>3. f.current # current'
                BY <4>1, <4>2 DEF Reaches
            <4>4. \A j \in i+1..Deep' : j \in i+1..Deep \/ j = Deep + 1
                <5>1. Deep \in Nat /\ Deep' = Deep + 1
                    BY <1>2, <1>3
                <5> QED BY <5>1
            <4>5. \A j \in i+1..Deep : nested'[j] = nested[j]
                BY <1>2, <1>3
            <4> QED BY <1>1, <1>2, <1>18, <3>1, <3>2, <4>1, <4>2, <4>3, <4>4, <4>5
        <3> QED BY <3>1, <3>2
    <2>2. /\ Switches(g) /\ g.current # None =>
               /\ state'[g.current] = Frozen(g.from)
               /\ Rejected(g) \/ g.current # current'
               /\ \A j \in Deep+1+1..Deep' : nested'[j].current # g.current
          /\ g.state = "inactive" => ~Linked(g.thread)
        <3>1. current # None => state[current] = Frozen(running) /\ current \in Threads
            BY <1>3
        <3>2. Switches(g) => t # current
            BY <1>1 DEF Switches
        <3>3. Switches(g) /\ current # None => state'[current] = Frozen(running)
            BY <1>18, <3>1, <3>2
        <3>4. state[t] = "inactive" => ~Linked(t)
            BY DEF Core, LinkStates
        <3>5. \A j \in Deep+1+1..Deep' : FALSE
            BY <1>2, <1>3
        <3>6. Switches(g) => Rejected(g) \/ current # current'
            BY DEF Reaches
        <3> QED BY <1>1, <3>2, <3>3, <3>4, <3>5, <3>6
    <2> QED BY <1>0, <1>2, <1>4, <2>1, <2>2 DEF CallersWait, Linked
<1>22. \A s \in Threads : (s = current \/ Called(s)) => (s = current' \/ Called(s)')
    <2> SUFFICES ASSUME NEW s \in Threads, s = current \/ Called(s), s # current' PROVE Called(s)'
        OBVIOUS
    <2>1. CASE s = current
        BY <1>1, <1>2, <1>4, <2>1 DEF Called, Reaches
    <2>2. CASE Called(s)
        BY <1>4, <2>2 DEF Called
    <2> QED BY <2>1, <2>2
<1>23. Runners'
    BY <1>18, <1>22 DEF Core, Runners
<1>24. LinkStates'
    <2> SUFFICES ASSUME NEW s \in Threads
                 PROVE  /\ Linked(s) =>
                            /\ s \in Coroutines
                            /\ state'[resumer[s]] = "resumed"
                            /\ state'[s] \in {"running", "resumed", "terminated"}
                            /\ state'[s] = "terminated" => s = current' \/ Called(s)'
                            /\ \A u \in Threads : resumer[u] = resumer[s] => u = s
                        /\ state'[s] = "resumed" => \E u \in Threads : resumer[u] = s
                        /\ state'[s] \in {"yielded", "terminated"} => s \in Coroutines
        BY <1>0 DEF LinkStates, Linked
    <2>1. /\ Linked(s) =>
              /\ s \in Coroutines
              /\ state[resumer[s]] = "resumed"
              /\ state[s] \in {"running", "resumed", "terminated"}
              /\ state[s] = "terminated" => s = current \/ Called(s)
              /\ \A u \in Threads : resumer[u] = resumer[s] => u = s
          /\ state[s] = "resumed" => \E u \in Threads : resumer[u] = s
          /\ state[s] \in {"yielded", "terminated"} => s \in Coroutines
        BY DEF Core, LinkStates
    <2>2. Linked(s) => resumer[s] \in Threads
        BY DEF Linked, Shape
    <2> QED BY <1>18, <1>22, <2>1, <2>2
<1>25. Unserved'
    <2>1. ASSUME NEW i \in 1..Deep
          PROVE  Rejected(nested[i]) \/ state'[nested[i].thread] \notin {"inactive", "yielded", "terminated"}
        BY <1>3, <1>18 DEF Core, Unserved
    <2>2. Rejected(g) \/ state'[t] = "running"
        BY DEF Shape, Reaches
    <2> QED BY <1>1, <1>2, <1>4, <2>1, <2>2 DEF Unserved
<1> QED BY <1>7, <1>8, <1>9, <1>10, <1>11, <1>12, <1>15, <1>16, <1>17, <1>19, <1>20, <1>21,
           <1>23, <1>24, <1>25 DEF Core

\* What an executor on top works for.
LEMMA ExecutorIs ==
    ASSUME NEW lvl, NEW rank, Shape, Core(lvl, rank), Deep > 0, nested[Deep].kind = "exec"
    PROVE  /\ Deep \in Nat /\ Deep \in 1..Deep /\ nested[Deep].thread \in Threads
           /\ nested # << >> /\ Top = nested[Deep]
           /\ ~Switches(nested[Deep]) /\ ~Rejected(nested[Deep])
           /\ \A i \in 1..Deep : ~Rejected(nested[i])
           /\ ~Refused
           /\ current \in Threads /\ state[current] = Frozen(running)
           /\ current = nested[Deep].thread \/ (Linked(current) /\ lvl[current] = Deep)
           /\ Base(nested[Deep]) = nested[Deep].depth + 1
           /\ nested[Deep].depth + 1 <= Len(calls[nested[Deep].thread])
           /\ calls[nested[Deep].thread][nested[Deep].depth + 1] = "entry"
<1>1. /\ Deep \in Nat /\ Deep \in 1..Deep /\ nested[Deep].thread \in Threads
      /\ nested[Deep].kind \in {"safe", "finalizer", "exec", "native"}
    BY FrameTypes
<1>2. nested # << >> /\ Top = nested[Deep]
    <2>1. nested \in Seq(Frames)
        BY DEF Shape
    <2>2. nested # << >>
        BY <1>1, <2>1 DEF Deep
    <2> QED BY <2>1, <2>2, FrontFacts DEF Top, Deep
<1>3. ~Switches(nested[Deep]) /\ ~Rejected(nested[Deep])
    BY <1>1 DEF Core, FramesOK, FrameOK, Protected, Rejected
<1>4. /\ ~Refused /\ current \in Threads /\ state[current] = Frozen(running)
      /\ \A i \in 1..Deep : ~Rejected(nested[i])
      /\ Serves(current, Deep, lvl)
    BY <1>3, CurrentIs
<1>5. current = nested[Deep].thread \/ (Linked(current) /\ lvl[current] = Deep)
    BY <1>1, <1>4 DEF Serves
<1>6. /\ Base(nested[Deep]) = nested[Deep].depth + 1
      /\ nested[Deep].depth + 1 <= Len(calls[nested[Deep].thread])
      /\ calls[nested[Deep].thread][nested[Deep].depth + 1] = "entry"
    BY <1>1 DEF Core, Marked, Base, Protected
<1> QED BY <1>1, <1>2, <1>3, <1>4, <1>5, <1>6

\* A coroutine that the executor on top resumed: no C function is called on it,
\* and the thread that waits for it waits for nobody else.
LEMMA ResumedIs ==
    ASSUME NEW lvl \in [Threads -> Nat], NEW rank \in [Threads -> Nat],
           Shape, Core(lvl, rank), Deep > 0, nested[Deep].kind = "exec",
           NEW r, r = resumer[current], current # nested[Deep].thread
    PROVE  /\ Linked(current) /\ lvl[current] = Deep /\ current \in Coroutines
           /\ r \in Threads /\ r # current /\ state[r] = "resumed" /\ current # None
           /\ \A i \in 1..Deep : nested[i].thread # current
           /\ \A t \in Threads : resumer[t] = r => t = current
           /\ \A t \in Threads : resumer[t] # current
           /\ \A i \in 1..Deep : Switches(nested[i]) => nested[i].current \notin {current, r}
           /\ Serves(r, Deep, lvl)
           /\ rank[current] = RankAt(r, Deep, rank) + 1
           /\ Resumes(state[current], r, calls[r], nested[Deep])
<1>1. /\ Deep \in Nat /\ current \in Threads /\ Linked(current) /\ lvl[current] = Deep
      /\ state[current] = Frozen(running) /\ \A i \in 1..Deep : ~Rejected(nested[i])
    BY ExecutorIs
<1>2. r \in Threads /\ None \notin Threads
    BY <1>1, FrameTypes DEF Linked, Shape
<1>3. state[current] # "resumed"
    BY <1>1 DEF Frozen
<1>4. /\ current \in Coroutines /\ state[r] = "resumed"
      /\ \A t \in Threads : resumer[t] = r => t = current
    BY <1>1 DEF Core, LinkStates
<1>5. \A t \in Threads : resumer[t] # current
    BY <1>1, <1>2, <1>3 DEF Core, LinkStates, Linked
<1>6. /\ \A i \in 1..Deep : nested[i].thread = current => i > Deep
      /\ Serves(r, Deep, lvl) /\ rank[current] = RankAt(r, Deep, rank) + 1
    BY <1>1 DEF Core, Chained
<1>7. \A i \in 1..Deep : nested[i].thread # current
    <2>1. \A i \in 1..Deep : ~(i > Deep)
        BY <1>1
    <2> QED BY <1>6, <2>1
<1>8. ASSUME NEW i \in 1..Deep, Switches(nested[i])
      PROVE  nested[i].current \notin {current, r}
    <2>1. nested[i].current \in Threads =>
            nested[i].current # current /\ state[nested[i].current] # "resumed"
        BY <1>1, <1>2, <1>8 DEF Core, CallersWait, Frozen
    <2> QED BY <1>1, <1>2, <1>4, <2>1
<1>9. Resumes(state[current], r, calls[r], nested[Deep])
    BY <1>1 DEF Core, ResumersGoOn
<1> QED BY <1>1, <1>2, <1>3, <1>4, <1>5, <1>6, <1>7, <1>8, <1>9

\* The calls of thread r keep what C functions work for when a call of resume()
\* on top of them ends.
LEMMA ResumeOnTop ==
    ASSUME NEW lvl \in [Threads -> Nat], NEW rank \in [Threads -> Nat],
           Shape, Core(lvl, rank), Deep > 0, nested[Deep].kind = "exec",
           NEW r \in Threads, Serves(r, Deep, lvl),
           Len(calls[r]) >= 1, calls[r][Len(calls[r])] = "resume",
           NEW i \in 1..Deep, nested[i].thread = r
    PROVE  Base(nested[i]) <= Len(calls[r]) - 1
<1>1. /\ Deep \in Nat /\ Deep \in 1..Deep
      /\ Base(nested[Deep]) = nested[Deep].depth + 1
      /\ nested[Deep].depth + 1 <= Len(calls[nested[Deep].thread])
      /\ calls[nested[Deep].thread][nested[Deep].depth + 1] = "entry"
    BY ExecutorIs
<1>2. /\ nested[Deep].depth \in Nat /\ Base(nested[i]) \in Nat /\ Len(calls[r]) \in Nat
    BY <1>1, FrameTypes
<1>3. r = nested[Deep].thread
    <2>1. CASE Linked(r) /\ lvl[r] = Deep
        <3>1. i > Deep
            BY <2>1 DEF Core, Chained
        <3> QED BY <1>1, <3>1
    <2> QED BY <1>1, <2>1 DEF Serves
<1>4. nested[Deep].depth + 1 # Len(calls[r])
    BY <1>1, <1>3
<1>5. nested[Deep].depth + 1 <= Len(calls[r]) - 1
    BY <1>1, <1>2, <1>3, <1>4, SMTT(60)
<1>6. CASE i = Deep
    BY <1>1, <1>5, <1>6
<1>7. CASE i # Deep
    <2>1. i \in 1..Deep-1
        BY <1>1, <1>7
    <2>2. Base(nested[i]) <= nested[Deep].depth
        BY <1>1, <1>3, <2>1 DEF Core, FramesOK, FrameOK
    <2> QED BY <1>2, <1>5, <2>2
<1> QED BY <1>6, <1>7

\* How the calls of the thread that goes on change.
Unwaits(r) == calls'[r] = calls[r] \/ (Last(calls[r]) = "resume" /\ calls[r] # << >> /\ calls'[r] = Front(calls[r]))

LEMMA UnwaitsFacts ==
    ASSUME Shape, NEW r \in Threads, Unwaits(r)
    PROVE  \/ calls'[r] = calls[r]
           \/ /\ Len(calls[r]) >= 1 /\ calls[r][Len(calls[r])] = "resume"
              /\ Len(calls'[r]) = Len(calls[r]) - 1
              /\ \A p \in 1..Len(calls[r]) - 1 : calls'[r][p] = calls[r][p]
<1>1. calls[r] \in Seq(Kinds)
    BY DEF Shape
<1>2. Len(calls[r]) \in Nat /\ (calls[r] = << >> <=> Len(calls[r]) = 0)
    BY <1>1, LenFacts
<1>3. CASE calls'[r] = calls[r]
    BY <1>3
<1>4. CASE Last(calls[r]) = "resume" /\ calls[r] # << >> /\ calls'[r] = Front(calls[r])
    <2>1. Len(calls[r]) >= 1
        BY <1>2, <1>4
    <2> QED BY <1>1, <1>4, <2>1, FrontFacts
<1> QED BY <1>3, <1>4 DEF Unwaits

\* How the thread that is left stays behind.
Rests(c, r) ==
    /\ state' = [state EXCEPT ![c] = state'[c], ![r] = "running"]
    /\ \/ /\ state'[c] = "yielded"
          /\ Len(calls'[c]) >= 2
          /\ calls'[c][Len(calls'[c])] = "yield" /\ calls'[c][Len(calls'[c]) - 1] = "js"
       \/ state'[c] = "terminated" /\ Len(calls'[c]) = 0

\* All fits together when the thread that waits for the current one goes on.
LEMMA BackStep ==
    ASSUME NEW lvl \in [Threads -> Nat], NEW rank \in [Threads -> Nat],
           Shape, Shape', Core(lvl, rank), Deep > 0, nested[Deep].kind = "exec",
           NEW c, c = current, NEW r, r = resumer[c], c # nested[Deep].thread,
           nested' = nested, resumer' = [resumer EXCEPT ![c] = None], current' = r,
           Rests(c, r), Unwaits(r),
           \A t \in Threads \ {c, r} : calls'[t] = calls[t],
           running' \in {"js", "error"},
           running' = "js" => GoesOn("js", r, calls'[r], Len(calls'[r]), nested[Deep])
    PROVE  Core(lvl, rank)'
<1>1. /\ Deep \in Nat /\ Deep' = Deep
      /\ \A i \in 1..Deep :
           /\ nested[i].thread \in Threads /\ nested[i].depth \in Nat
           /\ nested[i].kind \in {"safe", "finalizer", "exec", "native"}
           /\ Base(nested[i]) \in Nat /\ Base(nested[i]) >= nested[i].depth
           /\ nested[i].current \in Threads \cup {None}
           /\ nested[i].from \in Modes
      /\ \A t \in Threads : Len(calls[t]) \in Nat
      /\ None \notin Threads
    BY FrameTypes DEF Deep
<1>2. /\ ~Refused /\ \A i \in 1..Deep : ~Rejected(nested[i])
      /\ c \in Threads /\ state[c] = Frozen(running)
    BY ExecutorIs
<1>3. ~Refused'
    BY <1>2 DEF Refused, Deep
<1>4. /\ Linked(c) /\ lvl[c] = Deep /\ c \in Coroutines
      /\ r \in Threads /\ r # c /\ state[r] = "resumed"
      /\ \A i \in 1..Deep : nested[i].thread # c
      /\ \A t \in Threads : resumer[t] = r => t = c
      /\ \A t \in Threads : resumer[t] # c
      /\ \A i \in 1..Deep : Switches(nested[i]) => nested[i].current \notin {c, r}
      /\ Serves(r, Deep, lvl)
      /\ rank[c] = RankAt(r, Deep, rank) + 1
    BY ResumedIs, SMTT(60)
<1>5. /\ \A t \in Threads : Linked(t)' <=> Linked(t) /\ t # c
      /\ \A t \in Threads \ {c} : resumer'[t] = resumer[t]
      /\ resumer'[c] = None
    BY <1>1, <1>2 DEF Linked, Shape
<1>6. /\ state'[r] = "running" /\ state'[c] \in {"yielded", "terminated"}
      /\ \A t \in Threads \ {c, r} : state'[t] = state[t]
    BY <1>2, <1>4 DEF Rests, Shape
<1>7. FramesOK'
    <2> SUFFICES ASSUME NEW i \in 1..Deep, NEW f, f = nested[i] PROVE FrameOK(f, i)'
        BY <1>1 DEF FramesOK
    <2>1. i \in Nat /\ i >= 1 /\ FrameOK(f, i)
        BY <1>1 DEF Core, FramesOK
    <2> QED BY <2>1, FramesBelow
<1>8. ModeOK'
    BY <1>1 DEF ModeOK, Fits
<1>9. Rejections'
    BY <1>1, <1>2 DEF Rejections
<1>10. \A x, k : Serves(x, k, lvl) /\ (x # c \/ k # Deep) /\ k \in 0..Deep => Serves(x, k, lvl)'
    <2> SUFFICES ASSUME NEW x, NEW k \in 0..Deep, Serves(x, k, lvl), x # c \/ k # Deep
                 PROVE  Serves(x, k, lvl)'
        OBVIOUS
    <2>1. CASE k = 0
        BY <2>1 DEF Serves
    <2>2. CASE k # 0 /\ x = nested[k].thread
        BY <2>2 DEF Serves
    <2>3. CASE k # 0 /\ nested[k].kind = "exec" /\ x # None /\ Linked(x) /\ lvl[x] = k
        <3>1. x # c
            BY <1>4, <2>3
        <3>2. resumer'[x] = resumer[x]
            BY <3>1 DEF Shape
        <3> QED BY <2>3, <3>2 DEF Serves, Linked
    <2> QED BY <2>1, <2>2, <2>3 DEF Serves
<1>11. Served(lvl)'
    <2>1. ASSUME NEW i \in 1..Deep, NEW f, f = nested[i]
          PROVE  Serves(f.current, i - 1, lvl)'
        <3>1. Serves(f.current, i - 1, lvl)
            BY <2>1 DEF Core, Served
        <3>2. i - 1 \in 0..Deep /\ i - 1 # Deep
            BY <1>1
        <3> QED BY <1>10, <3>1, <3>2
    <2>2. Serves(current, Deep, lvl)'
        <3>1. Deep \in 0..Deep
            BY <1>1
        <3>2. PICK n \in Nat : n = Deep
            BY <1>1
        <3>3. Serves(r, n, lvl)'
            BY <1>4, <1>10, <3>1, <3>2
        <3> QED BY <1>1, <3>2, <3>3
    <2> QED BY <1>1, <2>1, <2>2 DEF Served
<1>12. Chained(lvl, rank)'
    <2> SUFFICES ASSUME NEW t \in Threads, Linked(t), t # c
                 PROVE  /\ lvl[t] \in 1..Deep /\ nested[lvl[t]].kind = "exec"
                        /\ Serves(resumer[t], lvl[t], lvl)'
                        /\ rank[t] = RankAt(resumer[t], lvl[t], rank) + 1
                        /\ rank[t] <= RankAt(AtTop(lvl[t]), lvl[t], rank)'
                        /\ \A i \in 1..Deep : nested[i].thread = t => i > lvl[t]
                        /\ \A i \in 1..Deep : nested[i].thread = resumer[t] => i <= lvl[t] \/ Rejected(nested[i])
                        /\ \A s \in Threads : Linked(s) /\ lvl[s] = lvl[t] /\ rank[s] = rank[t] => s = t
        <3>1. \A t \in Threads \ {c} : resumer'[t] = resumer[t]
              /\ RankAt(resumer[t], lvl[t], rank)' = RankAt(resumer[t], lvl[t], rank)
            BY <1>5 DEF RankAt
        <3>2. nested' = nested /\ (1..Deep)' = 1..Deep
            BY <1>1
        <3> SUFFICES ASSUME NEW t \in Threads, Linked(t)'
              PROVE  /\ lvl[t] \in (1..Deep)' /\ nested'[lvl[t]].kind = "exec"
                     /\ Serves(resumer[t], lvl[t], lvl)'
                     /\ rank[t] = RankAt(resumer[t], lvl[t], rank)' + 1
                     /\ rank[t] <= RankAt(AtTop(lvl[t]), lvl[t], rank)'
                     /\ \A i \in (1..Deep)' : nested'[i].thread = t => i > lvl[t]
                     /\ \A i \in (1..Deep)' : nested'[i].thread = resumer'[t] =>
                            i <= lvl[t] \/ Rejected(nested[i])'
                     /\ \A s \in Threads : Linked(s)' /\ lvl[s] = lvl[t] /\ rank[s] = rank[t] => s = t
            BY DEF Chained
        <3>4. \A i \in 1..Deep : Rejected(nested[i])' <=> Rejected(nested[i])
            BY <3>2 DEF Rejected
        <3>5. Linked(t) /\ t # c
            BY <1>5
        <3>6. /\ lvl[t] \in 1..Deep /\ nested[lvl[t]].kind = "exec"
              /\ Serves(resumer[t], lvl[t], lvl)'
              /\ rank[t] = RankAt(resumer[t], lvl[t], rank) + 1
              /\ rank[t] <= RankAt(AtTop(lvl[t]), lvl[t], rank)'
              /\ \A i \in 1..Deep : nested[i].thread = t => i > lvl[t]
              /\ \A i \in 1..Deep : nested[i].thread = resumer[t] => i <= lvl[t] \/ Rejected(nested[i])
              /\ \A s \in Threads : Linked(s) /\ lvl[s] = lvl[t] /\ rank[s] = rank[t] => s = t
            BY <3>5, Zenon
        <3>7. /\ rank[t] = RankAt(resumer[t], lvl[t], rank)' + 1
              /\ resumer'[t] = resumer[t]
            BY <3>1, <3>5, <3>6
        <3>8. \A i \in (1..Deep)' : nested'[i].thread = resumer'[t] => i <= lvl[t] \/ Rejected(nested[i])'
            BY <3>2, <3>4, <3>6, <3>7
        <3>9. \A s \in Threads : Linked(s)' /\ lvl[s] = lvl[t] /\ rank[s] = rank[t] => s = t
            BY <1>5, <3>6
        <3> QED BY <3>2, <3>6, <3>7, <3>8, <3>9
    <2>1. /\ lvl[t] \in 1..Deep /\ nested[lvl[t]].kind = "exec"
          /\ Serves(resumer[t], lvl[t], lvl)
          /\ rank[t] = RankAt(resumer[t], lvl[t], rank) + 1
          /\ rank[t] <= RankAt(AtTop(lvl[t]), lvl[t], rank)
          /\ \A i \in 1..Deep : nested[i].thread = t => i > lvl[t]
          /\ \A i \in 1..Deep : nested[i].thread = resumer[t] => i <= lvl[t] \/ Rejected(nested[i])
          /\ \A s \in Threads : Linked(s) /\ lvl[s] = lvl[t] /\ rank[s] = rank[t] => s = t
        BY DEF Core, Chained
    <2>2. Serves(resumer[t], lvl[t], lvl)'
        <3>1. resumer[t] # c /\ lvl[t] \in 0..Deep
            BY <1>1, <1>4, <2>1
        <3>2. PICK x : x = resumer[t]
            OBVIOUS
        <3>3. Serves(x, lvl[t], lvl)'
            BY <1>10, <2>1, <3>1, <3>2
        <3>4. resumer'[t] = x
            BY <1>5, <3>2
        <3> QED BY <3>3, <3>4
    <2>3. CASE lvl[t] # Deep
        <3>1. AtTop(lvl[t])' = AtTop(lvl[t])
            <4>1. lvl[t] < Deep
                BY <1>1, <2>1, <2>3
            <4> QED BY <1>1, <4>1 DEF AtTop
        <3>2. RankAt(AtTop(lvl[t]), lvl[t], rank)' = RankAt(AtTop(lvl[t]), lvl[t], rank)
            BY <3>1 DEF RankAt
        <3> QED BY <2>1, <2>2, <3>2
    <2>4. CASE lvl[t] = Deep
        <3>1. AtTop(Deep) = c /\ AtTop(Deep)' = r
            <4>1. ~(Deep < Deep)
                BY <1>1
            <4> QED BY <1>1, <4>1 DEF AtTop
        <3>2. rank[t] <= rank[c]
            BY <2>1, <2>4, <3>1 DEF RankAt
        <3>3. rank[t] # rank[c]
            BY <1>2, <1>4, <2>1, <2>4
        <3>4. PICK q : q = RankAt(r, Deep, rank)
            OBVIOUS
        <3>5. q \in Nat
            BY <1>4, <3>4 DEF RankAt
        <3>6. rank[t] <= q
            <4>1. rank[c] = q + 1 /\ rank[t] \in Nat
                BY <1>4, <3>4
            <4> QED BY <3>2, <3>3, <3>5, <4>1
        <3>7. RankAt(AtTop(lvl[t]), lvl[t], rank)' = q
            <4>1. AtTop(lvl[t])' = r
                BY <1>1, <2>4, <3>1 DEF AtTop
            <4> QED BY <2>4, <3>4, <4>1 DEF RankAt
        <3> QED BY <2>1, <2>2, <3>6, <3>7
    <2> QED BY <2>3, <2>4
<1>13. ASSUME NEW i \in 1..Deep
       PROVE  /\ Base(nested[i]) <= Len(calls'[nested[i].thread])
              /\ \A p \in 1..Base(nested[i]) : calls'[nested[i].thread][p] = calls[nested[i].thread][p]
    <2>1. nested[i].thread \in Threads \ {c} /\ Base(nested[i]) \in Nat /\ Len(calls[r]) \in Nat
        BY <1>1, <1>4
    <2>2. Base(nested[i]) <= Len(calls[nested[i].thread])
        BY DEF Core, Marked
    <2>3. CASE calls'[nested[i].thread] = calls[nested[i].thread]
        BY <2>2, <2>3
    <2>4. CASE calls'[nested[i].thread] # calls[nested[i].thread]
        <3>1. nested[i].thread = r
            BY <2>1, <2>4
        <3>2. /\ Len(calls[r]) >= 1 /\ calls[r][Len(calls[r])] = "resume"
              /\ Len(calls'[r]) = Len(calls[r]) - 1
              /\ \A p \in 1..Len(calls[r]) - 1 : calls'[r][p] = calls[r][p]
            BY <1>4, <2>4, <3>1, UnwaitsFacts
        <3>3. Base(nested[i]) <= Len(calls[r]) - 1
            BY <1>4, <3>1, <3>2, ResumeOnTop
        <3>4. \A p \in 1..Base(nested[i]) : p \in 1..Len(calls[r]) - 1
            BY <2>1, <3>3
        <3> QED BY <3>1, <3>2, <3>3, <3>4
    <2> QED BY <2>3, <2>4
<1>14. Marked'
    <2> SUFFICES ASSUME NEW i \in 1..Deep, NEW f, f = nested[i]
                 PROVE  /\ Base(f) <= Len(calls'[f.thread])
                        /\ f.kind = "native" => calls'[f.thread][f.depth + 1] = "native"
                        /\ f.kind = "exec" => calls'[f.thread][f.depth + 1] = "entry"
        BY <1>1 DEF Marked
    <2>1. /\ f.kind = "native" => calls[f.thread][f.depth + 1] = "native" /\ Base(f) = f.depth + 1
          /\ f.kind = "exec" => calls[f.thread][f.depth + 1] = "entry" /\ Base(f) = f.depth + 1
        BY DEF Core, Marked, Base, Protected
    <2>2. f.depth + 1 = Base(f) => f.depth + 1 \in 1..Base(f)
        BY <1>1
    <2> QED BY <1>13, <2>1, <2>2
<1>15. CallersGoOn'
    <2> SUFFICES ASSUME NEW i \in 2..Deep, NEW f, f = nested[i]
                 PROVE  IF Switches(f)
                        THEN GoesOn(f.from, f.current, calls'[f.current], Len(calls'[f.current]), nested[i - 1])
                        ELSE GoesOn(f.from, f.thread, calls'[f.thread], f.depth, nested[i - 1])
        BY <1>1 DEF CallersGoOn
    <2>1. i \in 1..Deep /\ i - 1 \in 1..Deep
        BY <1>1
    <2>2. IF Switches(f)
          THEN GoesOn(f.from, f.current, calls[f.current], Len(calls[f.current]), nested[i - 1])
          ELSE GoesOn(f.from, f.thread, calls[f.thread], f.depth, nested[i - 1])
        BY DEF Core, CallersGoOn
    <2>3. CASE Switches(f)
        <3>1. f.current \in Threads
            <4>1. Serves(f.current, i - 1, lvl) /\ nested[i - 1].thread \in Threads
                BY <1>1, <2>1 DEF Core, Served
            <4>2. f.current # None
                BY <1>1, <2>1, <4>1 DEF Serves
            <4> QED BY <1>1, <2>1, <4>2
        <3>2. f.current \notin {c, r}
            BY <1>4, <2>1, <2>3
        <3> QED BY <2>2, <2>3, <3>1, <3>2
    <2>4. CASE ~Switches(f)
        <3>1. f.depth >= 1 => f.depth \in 1..Base(f)
            <4>1. f.depth \in Nat /\ Base(f) \in Nat /\ Base(f) >= f.depth
                BY <1>1, <2>1
            <4> QED BY <4>1
        <3>2. f.depth >= 1 => calls'[f.thread][f.depth] = calls[f.thread][f.depth]
            BY <1>13, <2>1, <3>1
        <3>3. GoesOn(f.from, f.thread, calls[f.thread], f.depth, nested[i - 1])
            BY <2>2, <2>4
        <3>4. GoesOn(f.from, f.thread, calls'[f.thread], f.depth, nested[i - 1])
            BY <3>2, <3>3 DEF GoesOn
        <3> QED BY <2>4, <3>4
    <2> QED BY <2>3, <2>4
<1>16. CurrentGoesOn'
    BY <1>1 DEF CurrentGoesOn
<1>17. ResumersGoOn(lvl)'
    <2> SUFFICES ASSUME NEW t \in Threads, Linked(t), t # c
                 PROVE  Resumes(state'[t], resumer[t], calls'[resumer[t]], nested[lvl[t]])
        BY <1>5 DEF ResumersGoOn
    <2>1. resumer[t] \in Threads \ {c, r}
        BY <1>4 DEF Linked, Shape
    <2>2. Resumes(state[t], resumer[t], calls[resumer[t]], nested[lvl[t]])
        BY DEF Core, ResumersGoOn
    <2>3. state'[t] = "terminated" <=> state[t] = "terminated"
        BY <1>4, <1>6
    <2> QED BY <2>1, <2>2, <2>3 DEF Resumes
<1>18. Resting'
    <2> SUFFICES ASSUME NEW t \in Threads, NEW s, s = calls'[t]
                 PROVE  /\ state'[t] = "yielded" => Len(s) >= 2 /\ s[Len(s)] = "yield" /\ s[Len(s) - 1] = "js"
                        /\ state'[t] \in {"inactive", "terminated"} => Len(s) = 0
        BY Zenon DEF Resting
    <2>1. CASE t = c
        BY <1>6, <2>1 DEF Rests
    <2>2. CASE t = r
        BY <1>4, <1>6, <2>2
    <2>3. CASE t \in Threads \ {c, r}
        <3>1. state'[t] = state[t] /\ calls'[t] = calls[t]
            BY <1>6, <2>3
        <3> QED BY <3>1 DEF Core, Resting
    <2> QED BY <2>1, <2>2, <2>3
<1>19. CurrentState'
    BY <1>3, <1>6 DEF CurrentState, Frozen
<1>20. CallersWait'
    <2> SUFFICES ASSUME NEW i \in 1..Deep, NEW f, f = nested[i]
                 PROVE  /\ Switches(f) /\ f.current # None =>
                             /\ state'[f.current] = Frozen(f.from)
                             /\ f.current # r
                             /\ \A j \in i+1..Deep : nested[j].current # f.current
                        /\ f.state = "inactive" => ~Linked(f.thread)'
        BY <1>1 DEF CallersWait
    <2>1. /\ Switches(f) /\ f.current # None =>
               /\ state[f.current] = Frozen(f.from)
               /\ \A j \in i+1..Deep : nested[j].current # f.current
          /\ f.state = "inactive" => ~Linked(f.thread)
        BY DEF Core, CallersWait
    <2>2. f.thread \in Threads /\ f.current \in Threads \cup {None}
        BY <1>1
    <2>3. Switches(f) => f.current \notin {c, r}
        BY <1>4
    <2> QED BY <1>5, <1>6, <2>1, <2>2, <2>3
<1>21. Runners'
    <2>1. \A t \in Threads : Called(t) => Called(t)'
        BY <1>1 DEF Called
    <2>2. \A t \in Threads : state'[t] = "running" => t = r \/ (t # c /\ state[t] = "running")
        BY <1>6
    <2> QED BY <2>1, <2>2 DEF Core, Runners
<1>22. LinkStates'
    <2> SUFFICES ASSUME NEW t \in Threads
                 PROVE  /\ Linked(t) /\ t # c =>
                            /\ t \in Coroutines
                            /\ state'[resumer[t]] = "resumed"
                            /\ state'[t] \in {"running", "resumed", "terminated"}
                            /\ state'[t] = "terminated" => t = r \/ Called(t)
                            /\ \A s \in Threads : resumer'[s] = resumer[t] => s = t
                        /\ state'[t] = "resumed" => \E s \in Threads : resumer'[s] = t
                        /\ state'[t] \in {"yielded", "terminated"} => t \in Coroutines
        BY <1>5 DEF LinkStates, Called, Deep
    <2>1. /\ Linked(t) =>
              /\ t \in Coroutines
              /\ state[resumer[t]] = "resumed"
              /\ state[t] \in {"running", "resumed", "terminated"}
              /\ state[t] = "terminated" => t = current \/ Called(t)
              /\ \A s \in Threads : resumer[s] = resumer[t] => s = t
          /\ state[t] = "resumed" => \E s \in Threads : resumer[s] = t
          /\ state[t] \in {"yielded", "terminated"} => t \in Coroutines
        BY DEF Core, LinkStates
    <2>2. ASSUME Linked(t), t # c
          PROVE  /\ t \in Coroutines
                 /\ state'[resumer[t]] = "resumed"
                 /\ state'[t] \in {"running", "resumed", "terminated"}
                 /\ state'[t] = "terminated" => t = r \/ Called(t)
                 /\ \A s \in Threads : resumer'[s] = resumer[t] => s = t
        <3>1. resumer[t] \in Threads \ {c, r}
            BY <1>4, <2>2 DEF Linked, Shape
        <3>2. \A s \in Threads : resumer'[s] = resumer[t] => s = t
            BY <1>1, <1>5, <2>1, <2>2, <3>1
        <3> QED BY <1>6, <2>1, <2>2, <3>1, <3>2
    <2>3. ASSUME state'[t] = "resumed" PROVE \E s \in Threads : resumer'[s] = t
        <3>1. t \notin {c, r} /\ state[t] = "resumed"
            BY <1>6, <2>3
        <3>2. PICK s \in Threads : resumer[s] = t
            BY <2>1, <3>1
        <3>3. s # c
            BY <3>1, <3>2
        <3> QED BY <1>5, <3>2, <3>3
    <2>4. state'[t] \in {"yielded", "terminated"} => t \in Coroutines
        BY <1>4, <1>6, <2>1
    <2> QED BY <2>2, <2>3, <2>4
<1>23. Unserved'
    <2> SUFFICES ASSUME NEW i \in 1..Deep
                 PROVE  state'[nested[i].thread] \notin {"inactive", "yielded", "terminated"}
        BY <1>1 DEF Unserved
    <2>1. state[nested[i].thread] \notin {"inactive", "yielded", "terminated"}
        BY <1>2 DEF Core, Unserved
    <2> QED BY <1>1, <1>4, <1>6, <2>1
<1> QED BY <1>7, <1>8, <1>9, <1>11, <1>12, <1>14, <1>15, <1>16, <1>17, <1>18, <1>19, <1>20, <1>21,
           <1>22, <1>23 DEF Core

\* All fits together when the current thread c resumes t: for the executor on
\* top, one further from its own thread than c is.
LEMMA ForwardStep ==
    ASSUME NEW lvl \in [Threads -> Nat], NEW rank \in [Threads -> Nat],
           Shape, Shape', Core(lvl, rank), Deep > 0, nested[Deep].kind = "exec", running = "js",
           NEW c, c = current, NEW t \in Threads, Resumable(t),
           nested' = nested, resumer' = [resumer EXCEPT ![t] = c], current' = t,
           state' = [state EXCEPT ![t] = "running", ![c] = "resumed"],
           calls'[c] = Append(calls[c], "resume"),
           \A s \in Threads \ {c, t} : calls'[s] = calls[s],
           running' \in {"js", "error"},
           running' = "js" => GoesOn("js", t, calls'[t], Len(calls'[t]), nested[Deep]),
           NEW lvl2, lvl2 = [lvl EXCEPT ![t] = Deep],
           NEW rank2, rank2 = [rank EXCEPT ![t] = RankAt(c, Deep, rank) + 1]
    PROVE  lvl2 \in [Threads -> Nat] /\ rank2 \in [Threads -> Nat] /\ Core(lvl2, rank2)'
<1>1. /\ Deep \in Nat /\ Deep' = Deep
      /\ \A i \in 1..Deep :
           /\ nested[i].thread \in Threads /\ nested[i].depth \in Nat
           /\ nested[i].kind \in {"safe", "finalizer", "exec", "native"}
           /\ Base(nested[i]) \in Nat /\ Base(nested[i]) >= nested[i].depth
           /\ nested[i].current \in Threads \cup {None}
           /\ nested[i].from \in Modes
      /\ \A s \in Threads : Len(calls[s]) \in Nat
      /\ None \notin Threads
    BY FrameTypes DEF Deep
<1>2. /\ ~Refused /\ \A i \in 1..Deep : ~Rejected(nested[i])
      /\ c \in Threads /\ state[c] = "running"
      /\ c = nested[Deep].thread \/ (Linked(c) /\ lvl[c] = Deep)
    BY ExecutorIs DEF Frozen
<1>3. ~Refused'
    BY <1>2 DEF Refused, Deep
<1>4. state[t] \in {"inactive", "yielded"} /\ t \in Coroutines /\ t # c
    BY <1>2 DEF Resumable, Core, LinkStates
<1>5. /\ ~Linked(t) /\ \A s \in Threads : resumer[s] \notin {c, t}
      /\ \A s \in Threads : Linked(s) => resumer[s] \in Threads
    <2>1. ~Linked(t) /\ \A s \in Threads : Linked(s) => state[resumer[s]] = "resumed"
        BY <1>4 DEF Core, LinkStates
    <2>2. c # None /\ t # None
        BY <1>1, <1>2
    <2>3. \A s \in Threads : resumer[s] \notin {c, t}
        BY <1>2, <1>4, <2>1, <2>2 DEF Linked
    <2>4. \A s \in Threads : Linked(s) => resumer[s] \in Threads
        BY DEF Linked, Shape
    <2> QED BY <2>1, <2>3, <2>4
<1>6. \A i \in 1..Deep : nested[i].thread # t
    BY <1>2, <1>4 DEF Core, Unserved
<1>7. \A i \in 1..Deep : nested[i].current # t /\ (Switches(nested[i]) => nested[i].current # c)
    <2> SUFFICES ASSUME NEW i \in 1..Deep
                 PROVE  nested[i].current # t /\ (Switches(nested[i]) => nested[i].current # c)
        OBVIOUS
    <2>1. CASE Switches(nested[i])
        BY <1>1, <1>2, <1>4, <2>1 DEF Core, CallersWait, Frozen
    <2>2. CASE ~Switches(nested[i])
        BY <1>6, <2>2 DEF Switches
    <2> QED BY <2>1, <2>2
<1>8. /\ \A s \in Threads : Linked(s)' <=> Linked(s) \/ s = t
      /\ \A s \in Threads \ {t} : resumer'[s] = resumer[s]
      /\ resumer'[t] = c
    BY <1>1, <1>2, SMTT(60) DEF Linked, Shape
<1>9. /\ state'[t] = "running" /\ state'[c] = "resumed"
      /\ \A s \in Threads \ {c, t} : state'[s] = state[s]
    BY <1>2, <1>4 DEF Shape
<1>10. PICK q : q = RankAt(c, Deep, rank)
    OBVIOUS
<1>11. /\ q \in Nat
       /\ \A s \in Threads : Linked(s) /\ lvl[s] = Deep => rank[s] <= q
    <2>1. q \in Nat
        BY <1>2, <1>10 DEF RankAt
    <2>2. AtTop(Deep) = c
        <3>1. ~(Deep < Deep)
            BY <1>1
        <3> QED BY <3>1 DEF AtTop
    <2> QED BY <1>10, <2>1, <2>2 DEF Core, Chained
<1>12. /\ lvl2 \in [Threads -> Nat] /\ rank2 \in [Threads -> Nat]
       /\ lvl2[t] = Deep /\ rank2[t] = q + 1
       /\ \A s \in Threads \ {t} : lvl2[s] = lvl[s] /\ rank2[s] = rank[s]
    BY <1>1, <1>10, <1>11
<1>13. \A x, k : Serves(x, k, lvl) /\ x # t => Serves(x, k, lvl2)'
    <2> SUFFICES ASSUME NEW x, NEW k, Serves(x, k, lvl), x # t
                 PROVE  Serves(x, k, lvl2)'
        OBVIOUS
    <2>1. CASE k = 0
        BY <2>1 DEF Serves
    <2>2. CASE k # 0 /\ x = nested[k].thread
        BY <2>2 DEF Serves
    <2>3. CASE k # 0 /\ nested[k].kind = "exec" /\ x # None /\ Linked(x) /\ lvl[x] = k
        <3>1. resumer'[x] = resumer[x] /\ lvl2[x] = lvl[x]
            BY DEF Shape
        <3> QED BY <2>3, <3>1 DEF Serves, Linked
    <2> QED BY <2>1, <2>2, <2>3 DEF Serves
<1>14. FramesOK'
    <2> SUFFICES ASSUME NEW i \in 1..Deep, NEW f, f = nested[i] PROVE FrameOK(f, i)'
        BY <1>1 DEF FramesOK
    <2>1. i \in Nat /\ i >= 1 /\ FrameOK(f, i)
        BY <1>1 DEF Core, FramesOK
    <2> QED BY <2>1, FramesBelow
<1>15. ModeOK'
    BY <1>1 DEF ModeOK, Fits
<1>16. Rejections'
    BY <1>1, <1>2 DEF Rejections
<1>17. PICK n \in Nat : n = Deep
    BY <1>1
<1>18. Served(lvl2)'
    <2>1. ASSUME NEW i \in 1..Deep, NEW f, f = nested[i]
          PROVE  Serves(f.current, i - 1, lvl2)'
        <3>1. Serves(f.current, i - 1, lvl)
            BY <2>1 DEF Core, Served
        <3> QED BY <1>7, <1>13, <2>1, <3>1
    <2>2. Serves(t, n, lvl2)'
        BY <1>1, <1>4, <1>8, <1>12, <1>17 DEF Serves
    <2> QED BY <1>1, <1>17, <2>1, <2>2 DEF Served
<1>19. Chained(lvl2, rank2)'
    <2> SUFFICES ASSUME NEW s \in Threads, Linked(s)'
                 PROVE  /\ lvl2[s] \in 1..Deep /\ nested[lvl2[s]].kind = "exec"
                        /\ Serves(resumer[s], lvl2[s], lvl2)'
                        /\ rank2[s] = RankAt(resumer[s], lvl2[s], rank2)' + 1
                        /\ rank2[s] <= RankAt(AtTop(lvl2[s]), lvl2[s], rank2)'
                        /\ \A i \in 1..Deep : nested[i].thread = s => i > lvl2[s]
                        /\ \A i \in 1..Deep : nested[i].thread = resumer'[s] => i <= lvl2[s] \/ Rejected(nested[i])
                        /\ \A u \in Threads : Linked(u)' /\ lvl2[u] = lvl2[s] /\ rank2[u] = rank2[s] => u = s
        BY <1>1 DEF Chained
    <2>1. AtTop(Deep)' = t /\ RankAt(t, Deep, rank2) = q + 1 /\ RankAt(c, Deep, rank2) = q
        <3>1. ~(Deep < Deep) /\ Deep \in 1..Deep
            BY <1>1
        <3>2. RankAt(c, Deep, rank2) = q
            BY <1>2, <1>4, <1>10, <1>12 DEF RankAt
        <3>3. t # nested[Deep].thread
            BY <1>6, <3>1
        <3> QED BY <1>1, <1>12, <3>1, <3>2, <3>3 DEF AtTop, RankAt
    <2>2. CASE s = t
        <3>1. lvl2[s] \in 1..Deep /\ nested[lvl2[s]].kind = "exec"
            BY <1>1, <1>12, <2>2
        <3>2. Serves(resumer[s], lvl2[s], lvl2)'
            <4>1. Serves(c, Deep, lvl)
                BY <1>2, <1>1, CurrentIs
            <4>2. Serves(c, n, lvl2)'
                BY <1>4, <1>13, <1>17, <4>1
            <4>3. resumer'[s] = c /\ lvl2[s] = n
                BY <1>8, <1>12, <1>17, <2>2
            <4> QED BY <4>2, <4>3
        <3>3. rank2[s] = RankAt(resumer'[s], lvl2[s], rank2) + 1
            BY <1>8, <1>12, <2>1, <2>2
        <3>4. rank2[s] <= RankAt(AtTop(lvl2[s])', lvl2[s], rank2)
            <4>1. AtTop(lvl2[s])' = t
                BY <1>1, <1>12, <2>1, <2>2 DEF AtTop
            <4> QED BY <1>11, <1>12, <2>1, <2>2, <4>1
        <3>5. \A i \in 1..Deep : nested[i].thread # s /\ i <= lvl2[s]
            BY <1>1, <1>6, <1>12, <2>2
        <3>6. \A u \in Threads : Linked(u)' /\ lvl2[u] = lvl2[s] /\ rank2[u] = rank2[s] => u = s
            <4> SUFFICES ASSUME NEW u \in Threads, Linked(u)', lvl2[u] = lvl2[s], rank2[u] = rank2[s], u # t
                         PROVE  FALSE
                BY <2>2
            <4>1. Linked(u) /\ lvl[u] = Deep /\ rank[u] = q + 1 /\ rank[u] \in Nat
                BY <1>8, <1>12, <2>2
            <4>2. rank[u] <= q
                BY <1>11, <4>1
            <4> QED BY <1>11, <4>1, <4>2
        <3>7. RankAt(resumer[s], lvl2[s], rank2)' = RankAt(resumer'[s], lvl2[s], rank2)
            BY DEF RankAt
        <3>8. RankAt(AtTop(lvl2[s]), lvl2[s], rank2)' = RankAt(AtTop(lvl2[s])', lvl2[s], rank2)
            BY DEF RankAt
        <3> QED BY <3>1, <3>2, <3>3, <3>4, <3>5, <3>6, <3>7, <3>8
    <2>3. CASE s # t
        <3>1. /\ Linked(s) /\ lvl2[s] = lvl[s] /\ rank2[s] = rank[s] /\ resumer'[s] = resumer[s]
              /\ resumer[s] \notin {c, t} /\ resumer[s] \in Threads
            BY <1>5, <1>8, <1>12, <2>3
        <3>2. /\ lvl[s] \in 1..Deep /\ nested[lvl[s]].kind = "exec"
              /\ Serves(resumer[s], lvl[s], lvl)
              /\ rank[s] = RankAt(resumer[s], lvl[s], rank) + 1
              /\ rank[s] <= RankAt(AtTop(lvl[s]), lvl[s], rank)
              /\ \A i \in 1..Deep : nested[i].thread = s => i > lvl[s]
              /\ \A i \in 1..Deep : nested[i].thread = resumer[s] => i <= lvl[s] \/ Rejected(nested[i])
              /\ \A u \in Threads : Linked(u) /\ lvl[u] = lvl[s] /\ rank[u] = rank[s] => u = s
            BY <3>1 DEF Core, Chained
        <3>3. Serves(resumer[s], lvl2[s], lvl2)'
            <4>1. PICK x : x = resumer[s]
                OBVIOUS
            <4>2. Serves(x, lvl[s], lvl2)'
                BY <1>13, <3>1, <3>2, <4>1
            <4>3. resumer'[s] = x /\ lvl2[s] = lvl[s]
                BY <3>1, <4>1
            <4> QED BY <4>2, <4>3
        <3>4. RankAt(resumer[s], lvl[s], rank2) = RankAt(resumer[s], lvl[s], rank)
            BY <1>12, <3>1 DEF RankAt
        <3>5. rank2[s] <= RankAt(AtTop(lvl2[s])', lvl2[s], rank2)
            <4>1. CASE lvl[s] = Deep
                <5>1. rank[s] <= q
                    BY <1>11, <3>1, <4>1
                <5>2. rank[s] <= q + 1
                    BY <1>11, <5>1
                <5>3. AtTop(lvl2[s])' = t
                    BY <1>1, <2>1, <3>1, <4>1 DEF AtTop
                <5> QED BY <2>1, <3>1, <4>1, <5>2, <5>3
            <4>2. CASE lvl[s] # Deep
                <5>1. lvl[s] < Deep /\ lvl[s] + 1 \in 1..Deep
                    BY <1>1, <3>2, <4>2, SMTT(60)
                <5>2. AtTop(lvl[s]) = nested[lvl[s] + 1].current /\ AtTop(lvl[s])' = nested[lvl[s] + 1].current
                    BY <1>1, <5>1 DEF AtTop
                <5>3. AtTop(lvl[s]) # t /\ AtTop(lvl2[s])' = AtTop(lvl[s])
                    <6>1. AtTop(lvl2[s])' = AtTop(lvl[s])'
                        BY <3>1
                    <6> QED BY <1>7, <5>1, <5>2, <6>1
                <5>4. AtTop(lvl[s]) = nested[lvl[s]].thread \/ AtTop(lvl[s]) \in Threads
                    <6>1. Serves(AtTop(lvl[s]), lvl[s], lvl)
                        <7>1. Serves(nested[lvl[s] + 1].current, lvl[s] + 1 - 1, lvl)
                            BY <5>1 DEF Core, Served
                        <7>2. lvl[s] + 1 - 1 = lvl[s]
                            BY <3>2, <1>1
                        <7> QED BY <5>2, <7>1, <7>2
                    <6> QED BY <1>1, <3>2, <5>1, <5>2, <6>1 DEF Serves
                <5>5. RankAt(AtTop(lvl[s]), lvl[s], rank2) = RankAt(AtTop(lvl[s]), lvl[s], rank)
                    <6>1. AtTop(lvl[s]) \in Threads \/ AtTop(lvl[s]) = nested[lvl[s]].thread
                        BY <5>4
                    <6> QED BY <1>12, <5>3, <6>1 DEF RankAt
                <5> QED BY <3>1, <3>2, <5>3, <5>5
            <4> QED BY <4>1, <4>2
        <3>6. \A u \in Threads : Linked(u)' /\ lvl2[u] = lvl2[s] /\ rank2[u] = rank2[s] => u = s
            <4> SUFFICES ASSUME NEW u \in Threads, Linked(u)', lvl2[u] = lvl2[s], rank2[u] = rank2[s]
                         PROVE  u = s
                OBVIOUS
            <4>1. CASE u = t
                <5>1. rank[s] = q + 1 /\ lvl[s] = Deep
                    BY <1>12, <3>1, <4>1
                <5>2. rank[s] <= q
                    BY <1>11, <3>1, <5>1
                <5> QED BY <1>11, <5>1, <5>2
            <4>2. CASE u # t
                BY <1>8, <1>12, <3>1, <3>2, <4>2
            <4> QED BY <4>1, <4>2
        <3>7. RankAt(resumer[s], lvl2[s], rank2)' = RankAt(resumer'[s], lvl2[s], rank2)
            BY DEF RankAt
        <3>8. RankAt(AtTop(lvl2[s]), lvl2[s], rank2)' = RankAt(AtTop(lvl2[s])', lvl2[s], rank2)
            BY DEF RankAt
        <3> QED BY <3>1, <3>2, <3>3, <3>4, <3>5, <3>6, <3>7, <3>8
    <2> QED BY <2>2, <2>3
<1>20. ASSUME NEW i \in 1..Deep
       PROVE  /\ Base(nested[i]) <= Len(calls'[nested[i].thread])
              /\ \A p \in 1..Base(nested[i]) : calls'[nested[i].thread][p] = calls[nested[i].thread][p]
    <2>1. nested[i].thread \in Threads \ {t} /\ Base(nested[i]) \in Nat /\ Len(calls[c]) \in Nat
        BY <1>1, <1>2, <1>6
    <2>2. Base(nested[i]) <= Len(calls[nested[i].thread])
        BY DEF Core, Marked
    <2>3. CASE nested[i].thread # c
        BY <2>1, <2>2, <2>3
    <2>4. CASE nested[i].thread = c
        <3>1. Len(calls'[c]) = Len(calls[c]) + 1 /\ \A p \in 1..Len(calls[c]) : calls'[c][p] = calls[c][p]
            <4>1. calls[c] \in Seq(Kinds) /\ "resume" \in Kinds
                BY <1>2 DEF Shape, Kinds
            <4> QED BY <4>1, AppendFacts
        <3>2. Base(nested[i]) <= Len(calls[c]) + 1 /\ \A p \in 1..Base(nested[i]) : p \in 1..Len(calls[c])
            BY <2>1, <2>2, <2>4, SMTT(60)
        <3> QED BY <2>4, <3>1, <3>2
    <2> QED BY <2>3, <2>4
<1>21. Marked'
    <2> SUFFICES ASSUME NEW i \in 1..Deep, NEW f, f = nested[i]
                 PROVE  /\ Base(f) <= Len(calls'[f.thread])
                        /\ f.kind = "native" => calls'[f.thread][f.depth + 1] = "native"
                        /\ f.kind = "exec" => calls'[f.thread][f.depth + 1] = "entry"
        BY <1>1 DEF Marked
    <2>1. /\ f.kind = "native" => calls[f.thread][f.depth + 1] = "native" /\ Base(f) = f.depth + 1
          /\ f.kind = "exec" => calls[f.thread][f.depth + 1] = "entry" /\ Base(f) = f.depth + 1
        BY DEF Core, Marked, Base, Protected
    <2>2. f.depth + 1 = Base(f) => f.depth + 1 \in 1..Base(f)
        BY <1>1
    <2> QED BY <1>20, <2>1, <2>2
<1>22. CallersGoOn'
    <2> SUFFICES ASSUME NEW i \in 2..Deep, NEW f, f = nested[i]
                 PROVE  IF Switches(f)
                        THEN GoesOn(f.from, f.current, calls'[f.current], Len(calls'[f.current]), nested[i - 1])
                        ELSE GoesOn(f.from, f.thread, calls'[f.thread], f.depth, nested[i - 1])
        BY <1>1 DEF CallersGoOn
    <2>1. i \in 1..Deep /\ i - 1 \in 1..Deep
        BY <1>1
    <2>2. IF Switches(f)
          THEN GoesOn(f.from, f.current, calls[f.current], Len(calls[f.current]), nested[i - 1])
          ELSE GoesOn(f.from, f.thread, calls[f.thread], f.depth, nested[i - 1])
        BY DEF Core, CallersGoOn
    <2>3. CASE Switches(f)
        <3>1. f.current \in Threads
            <4>1. Serves(f.current, i - 1, lvl) /\ nested[i - 1].thread \in Threads
                BY <1>1, <2>1 DEF Core, Served
            <4>2. f.current # None
                BY <1>1, <2>1, <4>1, SMTT(60) DEF Serves
            <4> QED BY <1>1, <2>1, <4>2
        <3>2. f.current \notin {c, t}
            BY <1>7, <2>1, <2>3
        <3> QED BY <2>2, <2>3, <3>1, <3>2
    <2>4. CASE ~Switches(f)
        <3>1. f.depth >= 1 => f.depth \in 1..Base(f)
            <4>1. f.depth \in Nat /\ Base(f) \in Nat /\ Base(f) >= f.depth
                BY <1>1, <2>1
            <4> QED BY <4>1
        <3>2. f.depth >= 1 => calls'[f.thread][f.depth] = calls[f.thread][f.depth]
            BY <1>20, <2>1, <3>1
        <3>3. GoesOn(f.from, f.thread, calls[f.thread], f.depth, nested[i - 1])
            BY <2>2, <2>4
        <3>4. GoesOn(f.from, f.thread, calls'[f.thread], f.depth, nested[i - 1])
            BY <3>2, <3>3 DEF GoesOn
        <3> QED BY <2>4, <3>4
    <2> QED BY <2>3, <2>4
<1>23. CurrentGoesOn'
    BY <1>1 DEF CurrentGoesOn
<1>24. ResumersGoOn(lvl2)'
    <2> SUFFICES ASSUME NEW s \in Threads, Linked(s)'
                 PROVE  Resumes(state'[s], resumer'[s], calls'[resumer'[s]], nested[lvl2[s]])
        BY <1>1 DEF ResumersGoOn
    <2>1. CASE s = t
        <3>1. GoesOn("js", c, calls[c], Len(calls[c]), nested[Deep])
            BY DEF Core, CurrentGoesOn
        <3>2. calls[c] \in Seq(Kinds) /\ "resume" \in Kinds
            BY <1>2 DEF Shape, Kinds
        <3>3. /\ Len(calls'[c]) = Len(calls[c]) + 1 /\ calls'[c][Len(calls[c]) + 1] = "resume"
              /\ \A p \in 1..Len(calls[c]) : calls'[c][p] = calls[c][p]
              /\ Len(calls[c]) \in Nat
            BY <3>2, AppendFacts, LenFacts
        <3>4. Len(calls'[c]) >= 1 /\ Len(calls'[c]) - 1 = Len(calls[c])
            BY <3>3
        <3>5. Len(calls[c]) >= 1 => Len(calls[c]) \in 1..Len(calls[c])
            BY <3>3
        <3>6. GoesOn("js", c, calls'[c], Len(calls'[c]) - 1, nested[Deep])
            BY <3>1, <3>3, <3>4, <3>5 DEF GoesOn
        <3>7. state'[s] = "running" /\ resumer'[s] = c /\ lvl2[s] = Deep
            BY <1>8, <1>9, <1>12, <2>1
        <3> QED BY <3>3, <3>4, <3>6, <3>7 DEF Resumes
    <2>2. CASE s # t
        <3>1. /\ Linked(s) /\ lvl2[s] = lvl[s] /\ resumer'[s] = resumer[s]
              /\ resumer[s] \notin {c, t} /\ resumer[s] \in Threads
            BY <1>5, <1>8, <1>12, <2>2
        <3>2. Resumes(state[s], resumer[s], calls[resumer[s]], nested[lvl[s]])
            BY <3>1 DEF Core, ResumersGoOn
        <3>3. state'[s] = "terminated" <=> state[s] = "terminated"
            BY <1>2, <1>9, <2>2
        <3> QED BY <3>1, <3>2, <3>3 DEF Resumes
    <2> QED BY <2>1, <2>2
<1>25. Resting'
    BY <1>9 DEF Core, Resting
<1>26. CurrentState'
    BY <1>3, <1>9 DEF CurrentState, Frozen
<1>27. CallersWait'
    <2>1. ASSUME NEW i \in 1..Deep
          PROVE  LET f == nested[i] IN
                 /\ Switches(f) /\ f.current # None =>
                      /\ state'[f.current] = Frozen(f.from)
                      /\ Rejected(f) \/ f.current # t
                      /\ \A j \in i+1..Deep : nested[j].current # f.current
                 /\ f.state = "inactive" => ~(resumer'[f.thread] # None)
        <3> PICK f : f = nested[i]
            OBVIOUS
        <3>1. /\ Switches(f) /\ f.current # None =>
                   /\ state[f.current] = Frozen(f.from)
                   /\ \A j \in i+1..Deep : nested[j].current # f.current
              /\ f.state = "inactive" => ~Linked(f.thread)
            BY DEF Core, CallersWait
        <3>2. f.thread \in Threads \ {t} /\ f.current \in Threads \cup {None}
            BY <1>1, <1>6
        <3>3. f.current # t /\ (Switches(f) => f.current # c)
            BY <1>7
        <3> QED BY <1>8, <1>9, <3>1, <3>2, <3>3 DEF Linked
    <2> QED BY <1>1, <2>1 DEF CallersWait, Linked
<1>28. Runners'
    <2>1. \A s \in Threads : Called(s) => Called(s)'
        BY <1>1 DEF Called
    <2>2. \A s \in Threads : state'[s] = "running" => s = t \/ (s # c /\ state[s] = "running")
        BY <1>9
    <2> QED BY <2>1, <2>2 DEF Core, Runners
<1>29. LinkStates'
    <2> SUFFICES ASSUME NEW s \in Threads
                 PROVE  /\ Linked(s)' =>
                            /\ s \in Coroutines
                            /\ state'[resumer'[s]] = "resumed"
                            /\ state'[s] \in {"running", "resumed", "terminated"}
                            /\ state'[s] = "terminated" => s = t \/ Called(s)
                            /\ \A u \in Threads : resumer'[u] = resumer'[s] => u = s
                        /\ state'[s] = "resumed" => \E u \in Threads : resumer'[u] = s
                        /\ state'[s] \in {"yielded", "terminated"} => s \in Coroutines
        BY DEF LinkStates, Called, Deep
    <2>1. /\ Linked(s) =>
              /\ s \in Coroutines
              /\ state[resumer[s]] = "resumed"
              /\ state[s] \in {"running", "resumed", "terminated"}
              /\ state[s] = "terminated" => s = current \/ Called(s)
              /\ \A u \in Threads : resumer[u] = resumer[s] => u = s
          /\ state[s] = "resumed" => \E u \in Threads : resumer[u] = s
          /\ state[s] \in {"yielded", "terminated"} => s \in Coroutines
        BY DEF Core, LinkStates
    <2>2. ASSUME Linked(s)'
          PROVE  /\ s \in Coroutines
                 /\ state'[resumer'[s]] = "resumed"
                 /\ state'[s] \in {"running", "resumed", "terminated"}
                 /\ state'[s] = "terminated" => s = t \/ Called(s)
                 /\ \A u \in Threads : resumer'[u] = resumer'[s] => u = s
        <3>1. CASE s = t
            BY <1>4, <1>5, <1>8, <1>9, <3>1
        <3>2. CASE s # t
            <4>1. Linked(s) /\ resumer'[s] = resumer[s] /\ resumer[s] \in Threads \ {c, t}
                BY <1>5, <1>8, <2>2, <3>2
            <4>2. \A u \in Threads : resumer'[u] = resumer'[s] => u = s
                BY <1>8, <2>1, <4>1
            <4> QED BY <1>2, <1>9, <2>1, <3>2, <4>1, <4>2
        <3> QED BY <3>1, <3>2
    <2>3. ASSUME state'[s] = "resumed" PROVE \E u \in Threads : resumer'[u] = s
        <3>1. CASE s = c
            BY <1>8, <3>1
        <3>2. CASE s # c
            <4>1. s # t /\ state[s] = "resumed"
                BY <1>9, <2>3, <3>2
            <4>2. PICK u \in Threads : resumer[u] = s
                BY <2>1, <4>1
            <4>3. u # t
                BY <1>1, <1>5, <4>2 DEF Linked
            <4> QED BY <1>8, <4>2, <4>3
        <3> QED BY <3>1, <3>2
    <2>4. state'[s] \in {"yielded", "terminated"} => s \in Coroutines
        BY <1>9, <2>1
    <2> QED BY <2>2, <2>3, <2>4
<1>30. Unserved'
    <2> SUFFICES ASSUME NEW i \in 1..Deep
                 PROVE  state'[nested[i].thread] \notin {"inactive", "yielded", "terminated"}
        BY <1>1 DEF Unserved
    <2>1. state[nested[i].thread] \notin {"inactive", "yielded", "terminated"}
        BY <1>2 DEF Core, Unserved
    <2> QED BY <1>1, <1>9, <2>1
<1> QED BY <1>12, <1>14, <1>15, <1>16, <1>18, <1>19, <1>21, <1>22, <1>23, <1>24, <1>25, <1>26, <1>27, <1>28,
           <1>29, <1>30 DEF Core

\* A coroutine x ends: the current one, that has left the resume() of another
\* thread, or one that is collected.
Gone(x) ==
    \/ /\ x = current /\ Linked(x) /\ x # nested[Deep].thread
       /\ state'[x] = "terminated" /\ running' = "end"
       /\ Unwaits(resumer[x])
       /\ \A s \in Threads \ {x, resumer[x]} : calls'[s] = calls[s]
       /\ GoesOn("js", resumer[x], calls'[resumer[x]], Len(calls'[resumer[x]]), nested[Deep])
    \/ /\ x # current /\ ~Linked(x) /\ state[x] \in {"yielded", "terminated"}
       /\ \A i \in 1..Deep : nested[i].current # x
       /\ state'[x] = "inactive" /\ running' = "js"
       /\ \A s \in Threads \ {x} : calls'[s] = calls[s]

\* All fits together when a coroutine ends.
LEMMA StayStep ==
    ASSUME NEW lvl \in [Threads -> Nat], NEW rank \in [Threads -> Nat],
           Shape, Shape', Core(lvl, rank), Deep > 0, nested[Deep].kind = "exec", running = "js",
           NEW x \in Coroutines, Gone(x), Len(calls'[x]) = 0,
           UNCHANGED <<nested, resumer, current>>,
           \A s \in Threads \ {x} : state'[s] = state[s]
    PROVE  Core(lvl, rank)'
<1>1. /\ Deep \in Nat /\ Deep' = Deep
      /\ \A i \in 1..Deep :
           /\ nested[i].thread \in Threads /\ nested[i].depth \in Nat
           /\ nested[i].kind \in {"safe", "finalizer", "exec", "native"}
           /\ Base(nested[i]) \in Nat /\ Base(nested[i]) >= nested[i].depth
           /\ nested[i].current \in Threads \cup {None}
           /\ nested[i].from \in Modes
      /\ \A s \in Threads : Len(calls[s]) \in Nat
      /\ None \notin Threads /\ x \in Threads
    BY FrameTypes DEF Deep, Threads
<1>2. /\ ~Refused /\ \A i \in 1..Deep : ~Rejected(nested[i])
      /\ current \in Threads /\ state[current] = "running"
    BY ExecutorIs DEF Frozen
<1>3. ~Refused'
    BY <1>2 DEF Refused, Deep
<1>4. /\ \A i \in 1..Deep : nested[i].thread # x
      /\ \A s \in Threads : resumer[s] # x
      /\ \A i \in 1..Deep : Switches(nested[i]) => nested[i].current # x
      /\ \A s \in Threads \ {x} :
            \/ calls'[s] = calls[s]
            \/ /\ s = resumer[x] /\ Linked(x) /\ x = current /\ state[s] = "resumed"
               /\ Unwaits(s) /\ Serves(s, Deep, lvl)
    <2>1. CASE x = current /\ Linked(x)
        <3>1. /\ x # nested[Deep].thread
              /\ Unwaits(resumer[x])
              /\ \A s \in Threads \ {x, resumer[x]} : calls'[s] = calls[s]
            BY <2>1 DEF Gone
        <3>2. /\ \A i \in 1..Deep : nested[i].thread # x
              /\ \A s \in Threads : resumer[s] # x
              /\ \A i \in 1..Deep : Switches(nested[i]) => nested[i].current \notin {x, resumer[x]}
              /\ state[resumer[x]] = "resumed" /\ Serves(resumer[x], Deep, lvl)
            BY <2>1, <3>1, ResumedIs
        <3> QED BY <2>1, <3>1, <3>2
    <2>2. CASE ~(x = current /\ Linked(x))
        <3>1. /\ x # current /\ ~Linked(x) /\ state[x] \in {"yielded", "terminated"}
              /\ \A i \in 1..Deep : nested[i].current # x
              /\ \A s \in Threads \ {x} : calls'[s] = calls[s]
            BY <2>2 DEF Gone
        <3>2. \A i \in 1..Deep : nested[i].thread # x
            BY <1>2, <3>1 DEF Core, Unserved
        <3>3. \A s \in Threads : resumer[s] # x
            <4>1. \A s \in Threads : resumer[s] # None => state[resumer[s]] = "resumed"
                BY DEF Core, LinkStates, Linked
            <4> QED BY <1>1, <3>1, <4>1
        <3> QED BY <3>1, <3>2, <3>3
    <2> QED BY <2>1, <2>2
<1>5. \A t \in Threads : Linked(t)' <=> Linked(t)
    BY DEF Linked
<1>6. FramesOK'
    <2> SUFFICES ASSUME NEW i \in 1..Deep, NEW f, f = nested[i] PROVE FrameOK(f, i)'
        BY <1>1 DEF FramesOK
    <2>1. i \in Nat /\ i >= 1 /\ FrameOK(f, i)
        BY <1>1 DEF Core, FramesOK
    <2> QED BY <2>1, FramesBelow
<1>7. running' \in {"js", "end"} /\ state'[x] \in {"inactive", "terminated"}
    BY DEF Gone
<1>8. ModeOK'
    BY <1>1, <1>7 DEF ModeOK, Fits
<1>9. Rejections'
    BY <1>1, <1>2 DEF Rejections
<1>10. Served(lvl)'
    BY <1>1, <1>2 DEF Core, Served, Serves, Linked
<1>11. Chained(lvl, rank)'
    BY <1>1, SMTT(60) DEF Core, Chained, Serves, AtTop, RankAt, Linked
<1>13. ASSUME NEW i \in 1..Deep
       PROVE  /\ Base(nested[i]) <= Len(calls'[nested[i].thread])
              /\ \A p \in 1..Base(nested[i]) : calls'[nested[i].thread][p] = calls[nested[i].thread][p]
    <2>1. nested[i].thread \in Threads \ {x} /\ Base(nested[i]) \in Nat
        BY <1>1, <1>4
    <2>2. Base(nested[i]) <= Len(calls[nested[i].thread])
        BY DEF Core, Marked
    <2>3. CASE calls'[nested[i].thread] = calls[nested[i].thread]
        BY <2>2, <2>3
    <2>4. CASE calls'[nested[i].thread] # calls[nested[i].thread]
        <3> PICK r : r = nested[i].thread
            OBVIOUS
        <3>1. r \in Threads /\ Unwaits(r) /\ Serves(r, Deep, lvl)
            BY <1>4, <2>1, <2>4
        <3>2. /\ Len(calls[r]) >= 1 /\ calls[r][Len(calls[r])] = "resume"
              /\ Len(calls'[r]) = Len(calls[r]) - 1
              /\ \A p \in 1..Len(calls[r]) - 1 : calls'[r][p] = calls[r][p]
            BY <2>4, <3>1, UnwaitsFacts
        <3>3. Base(nested[i]) <= Len(calls[r]) - 1
            BY <3>1, <3>2, ResumeOnTop
        <3>4. \A p \in 1..Base(nested[i]) : p \in 1..Len(calls[r]) - 1
            <4>1. Base(nested[i]) \in Nat /\ Len(calls[r]) \in Nat
                BY <1>1, <3>1
            <4> QED BY <3>3, <4>1
        <3> QED BY <3>1, <3>2, <3>3, <3>4
    <2> QED BY <2>3, <2>4
<1>14. Marked'
    <2> SUFFICES ASSUME NEW i \in 1..Deep, NEW f, f = nested[i]
                 PROVE  /\ Base(f) <= Len(calls'[f.thread])
                        /\ f.kind = "native" => calls'[f.thread][f.depth + 1] = "native"
                        /\ f.kind = "exec" => calls'[f.thread][f.depth + 1] = "entry"
        BY <1>1 DEF Marked
    <2>1. /\ f.kind = "native" => calls[f.thread][f.depth + 1] = "native" /\ Base(f) = f.depth + 1
          /\ f.kind = "exec" => calls[f.thread][f.depth + 1] = "entry" /\ Base(f) = f.depth + 1
        BY DEF Core, Marked, Base, Protected
    <2>2. f.depth + 1 = Base(f) => f.depth + 1 \in 1..Base(f)
        BY <1>1
    <2> QED BY <1>13, <2>1, <2>2
<1>15. CallersGoOn'
    <2> SUFFICES ASSUME NEW i \in 2..Deep, NEW f, f = nested[i]
                 PROVE  IF Switches(f)
                        THEN GoesOn(f.from, f.current, calls'[f.current], Len(calls'[f.current]), nested[i - 1])
                        ELSE GoesOn(f.from, f.thread, calls'[f.thread], f.depth, nested[i - 1])
        BY <1>1 DEF CallersGoOn
    <2>1. i \in 1..Deep /\ i - 1 \in 1..Deep
        BY <1>1
    <2>2. IF Switches(f)
          THEN GoesOn(f.from, f.current, calls[f.current], Len(calls[f.current]), nested[i - 1])
          ELSE GoesOn(f.from, f.thread, calls[f.thread], f.depth, nested[i - 1])
        BY DEF Core, CallersGoOn
    <2>3. CASE Switches(f)
        <3>1. f.current \in Threads
            <4>1. Serves(f.current, i - 1, lvl) /\ nested[i - 1].thread \in Threads
                BY <1>1, <2>1 DEF Core, Served
            <4>2. f.current # None
                BY <1>1, <2>1, <4>1 DEF Serves
            <4> QED BY <1>1, <2>1, <4>2
        <3>2. f.current # x /\ state[f.current] # "resumed"
            BY <1>1, <1>4, <2>1, <2>3, <3>1 DEF Core, CallersWait, Frozen
        <3>3. calls'[f.current] = calls[f.current]
            BY <1>4, <3>1, <3>2
        <3> QED BY <2>2, <2>3, <3>3
    <2>4. CASE ~Switches(f)
        <3>1. f.depth >= 1 => f.depth \in 1..Base(f)
            <4>1. f.depth \in Nat /\ Base(f) \in Nat /\ Base(f) >= f.depth
                BY <1>1, <2>1
            <4> QED BY <4>1
        <3>2. f.depth >= 1 => calls'[f.thread][f.depth] = calls[f.thread][f.depth]
            BY <1>13, <2>1, <3>1
        <3>3. GoesOn(f.from, f.thread, calls[f.thread], f.depth, nested[i - 1])
            BY <2>2, <2>4
        <3>4. GoesOn(f.from, f.thread, calls'[f.thread], f.depth, nested[i - 1])
            BY <3>2, <3>3 DEF GoesOn
        <3> QED BY <2>4, <3>4
    <2> QED BY <2>3, <2>4
<1>16. CurrentGoesOn'
    <2>1. CASE x # current
        <3>1. running' = "js" /\ calls'[current] = calls[current]
            BY <1>2, <2>1 DEF Gone
        <3>2. GoesOn("js", current, calls[current], Len(calls[current]), nested[Deep])
            BY DEF Core, CurrentGoesOn
        <3> QED BY <1>1, <3>1, <3>2 DEF CurrentGoesOn
    <2>2. CASE x = current
        BY <2>2 DEF CurrentGoesOn, GoesOn, Gone
    <2> QED BY <2>1, <2>2
<1>17. ResumersGoOn(lvl)'
    <2> SUFFICES ASSUME NEW t \in Threads, Linked(t)
                 PROVE  Resumes(state'[t], resumer[t], calls'[resumer[t]], nested[lvl[t]])
        BY <1>1, <1>5 DEF ResumersGoOn
    <2>1. CASE t = x
        <3>1. /\ GoesOn("js", resumer[x], calls'[resumer[x]], Len(calls'[resumer[x]]), nested[Deep])
              /\ state'[x] = "terminated" /\ x = current /\ x # nested[Deep].thread
            BY <2>1 DEF Gone
        <3>2. lvl[x] = Deep
            BY <3>1, ExecutorIs
        <3> QED BY <2>1, <3>1, <3>2 DEF Resumes
    <2>2. CASE t # x
        <3>1. resumer[t] \in Threads \ {x}
            BY <1>4 DEF Linked, Shape
        <3>2. resumer[t] # resumer[x]
            <4>1. \A s \in Threads : resumer[s] = resumer[t] => s = t
                BY DEF Core, LinkStates
            <4> QED BY <1>1, <2>2, <4>1
        <3>3. calls'[resumer[t]] = calls[resumer[t]]
            BY <1>4, <3>1, <3>2
        <3>4. Resumes(state[t], resumer[t], calls[resumer[t]], nested[lvl[t]])
            BY DEF Core, ResumersGoOn
        <3> QED BY <2>2, <3>3, <3>4
    <2> QED BY <2>1, <2>2
<1>18. Resting'
    <2> SUFFICES ASSUME NEW t \in Threads
                 PROVE  /\ state'[t] = "yielded" =>
                              /\ Len(calls'[t]) >= 2 /\ calls'[t][Len(calls'[t])] = "yield"
                              /\ calls'[t][Len(calls'[t]) - 1] = "js"
                        /\ state'[t] \in {"inactive", "terminated"} => Len(calls'[t]) = 0
        BY DEF Resting
    <2>1. CASE t = x
        BY <1>7, <2>1
    <2>2. CASE t # x
        <3>1. state'[t] = state[t] /\ (calls'[t] = calls[t] \/ state[t] = "resumed")
            BY <1>4, <2>2
        <3> QED BY <3>1 DEF Core, Resting
    <2> QED BY <2>1, <2>2
<1>19. CurrentState'
    <2>1. CASE x # current
        <3>1. running' = "js"
            BY <2>1 DEF Gone
        <3> QED BY <1>2, <1>3, <2>1, <3>1 DEF CurrentState, Frozen
    <2>2. CASE x = current
        <3>1. running' = "end" /\ state'[x] = "terminated"
            BY <2>2 DEF Gone
        <3> QED BY <1>3, <2>2, <3>1 DEF CurrentState, Frozen
    <2> QED BY <2>1, <2>2
<1>20. CallersWait'
    <2>1. ASSUME NEW i \in 1..Deep
          PROVE  LET f == nested[i] IN
                 /\ Switches(f) /\ f.current # None =>
                      /\ state'[f.current] = Frozen(f.from)
                      /\ Rejected(f) \/ f.current # current
                      /\ \A j \in i+1..Deep : nested[j].current # f.current
                 /\ f.state = "inactive" => ~Linked(f.thread)
        <3>1. LET f == nested[i] IN
                 /\ Switches(f) /\ f.current # None =>
                      /\ state[f.current] = Frozen(f.from)
                      /\ Rejected(f) \/ f.current # current
                      /\ \A j \in i+1..Deep : nested[j].current # f.current
                 /\ f.state = "inactive" => ~Linked(f.thread)
            BY DEF Core, CallersWait
        <3>2. ASSUME Switches(nested[i]), nested[i].current # None
              PROVE  state'[nested[i].current] = state[nested[i].current]
            BY <1>1, <1>4, <3>2
        <3> QED BY <3>1, <3>2
    <2> QED BY <1>1, <2>1 DEF CallersWait, Linked
<1>21. Runners'
    <2>1. \A t \in Threads : Called(t) => Called(t)'
        BY <1>1 DEF Called
    <2>2. \A t \in Threads : state'[t] = "running" => state[t] = "running"
        BY <1>7
    <2> QED BY <2>1, <2>2 DEF Core, Runners
<1>22. LinkStates'
    <2> SUFFICES ASSUME NEW t \in Threads
                 PROVE  /\ Linked(t) =>
                            /\ t \in Coroutines
                            /\ state'[resumer[t]] = "resumed"
                            /\ state'[t] \in {"running", "resumed", "terminated"}
                            /\ state'[t] = "terminated" => t = current \/ Called(t)
                            /\ \A s \in Threads : resumer[s] = resumer[t] => s = t
                        /\ state'[t] = "resumed" => \E s \in Threads : resumer[s] = t
                        /\ state'[t] \in {"yielded", "terminated"} => t \in Coroutines
        BY DEF LinkStates, Called, Deep, Linked
    <2>1. /\ Linked(t) =>
              /\ t \in Coroutines
              /\ state[resumer[t]] = "resumed"
              /\ state[t] \in {"running", "resumed", "terminated"}
              /\ state[t] = "terminated" => t = current \/ Called(t)
              /\ \A s \in Threads : resumer[s] = resumer[t] => s = t
          /\ state[t] = "resumed" => \E s \in Threads : resumer[s] = t
          /\ state[t] \in {"yielded", "terminated"} => t \in Coroutines
        BY DEF Core, LinkStates
    <2>2. Linked(t) => resumer[t] \in Threads \ {x}
        BY <1>4 DEF Linked, Shape
    <2>3. CASE t = x
        <3>1. Linked(t) => t = current /\ state'[t] = "terminated"
            BY <2>3 DEF Gone
        <3> QED BY <1>7, <2>1, <2>2, <2>3, <3>1
    <2>4. CASE t # x
        BY <2>1, <2>2, <2>4
    <2> QED BY <2>3, <2>4
<1>23. Unserved'
    <2> SUFFICES ASSUME NEW i \in 1..Deep
                 PROVE  state'[nested[i].thread] \notin {"inactive", "yielded", "terminated"}
        BY <1>1 DEF Unserved
    <2>1. state[nested[i].thread] \notin {"inactive", "yielded", "terminated"}
        BY <1>2 DEF Core, Unserved
    <2> QED BY <1>1, <1>4, <2>1
<1> QED BY <1>6, <1>8, <1>9, <1>10, <1>11, <1>14, <1>15, <1>16, <1>17, <1>18, <1>19, <1>20, <1>21,
           <1>22, <1>23 DEF Core

(***************************************************************************)
(* What the count of a thread counts                                       *)
(***************************************************************************)

LEMMA EmptySeq == << >> \in Seq(Kinds) /\ << >> \in Seq(Frames)
OBVIOUS

LEMMA CountTypes ==
    ASSUME NEW s \in Seq(Kinds), NEW n \in Seq(Frames), NEW t
    PROVE  /\ IsFiniteSet(Preventing(s)) /\ CallsThere(s) \in Nat
           /\ IsFiniteSet(ProtectedOn(n, t)) /\ ProtectedThere(n, t) \in Nat
<1>1. IsFiniteSet(1..Len(s)) /\ IsFiniteSet(1..Len(n))
    BY LenFacts, FS_Interval
<1>2. DOMAIN s = 1..Len(s) /\ DOMAIN n = 1..Len(n)
    BY LenFacts
<1>3. Preventing(s) \subseteq 1..Len(s) /\ ProtectedOn(n, t) \subseteq 1..Len(n)
    BY <1>2 DEF Preventing, ProtectedOn
<1>4. IsFiniteSet(Preventing(s)) /\ IsFiniteSet(ProtectedOn(n, t))
    BY <1>1, <1>3, FS_Subset
<1> QED BY <1>4, FS_CardinalityType DEF CallsThere, ProtectedThere

LEMMA CountNone ==
    /\ CallsThere(<< >>) = 0 /\ CallsThere(<<"js">>) = 0
    /\ \A t : ProtectedThere(<< >>, t) = 0
<1>1. Preventing(<< >>) = {} /\ Preventing(<<"js">>) = {} /\ \A t : ProtectedOn(<< >>, t) = {}
    BY DEF Preventing, ProtectedOn
<1> QED BY <1>1, FS_EmptySet DEF CallsThere, ProtectedThere

LEMMA CountCall ==
    ASSUME NEW s \in Seq(Kinds), NEW k \in Kinds
    PROVE  CallsThere(Append(s, k)) = IF k = "js" THEN CallsThere(s) ELSE CallsThere(s) + 1
<1> DEFINE u == Append(s, k)
<1>1. /\ Len(s) \in Nat /\ DOMAIN s = 1..Len(s) /\ DOMAIN u = 1..Len(s) + 1
      /\ \A i \in 1..Len(s) : u[i] = s[i]
      /\ u[Len(s) + 1] = k
    BY LenFacts, AppendFacts
<1> HIDE DEF u
<1>2. Preventing(u) = IF k = "js" THEN Preventing(s) ELSE Preventing(s) \cup {Len(s) + 1}
    BY <1>1 DEF Preventing
<1>3. Len(s) + 1 \notin Preventing(s) /\ IsFiniteSet(Preventing(s))
    <2>1. IsFiniteSet(Preventing(s))
        BY CountTypes, EmptySeq
    <2> QED BY <1>1, <2>1 DEF Preventing
<1>4. CallsThere(u) = IF k = "js" THEN CallsThere(s) ELSE CallsThere(s) + 1
    BY <1>2, <1>3, FS_AddElement DEF CallsThere
<1> QED BY <1>4 DEF u

LEMMA CountReturn ==
    ASSUME NEW s \in Seq(Kinds), s # << >>
    PROVE  CallsThere(Front(s)) = IF Last(s) = "js" THEN CallsThere(s) ELSE CallsThere(s) - 1
<1> DEFINE u == Front(s)
<1>1. /\ Len(s) \in Nat /\ Len(s) # 0 /\ DOMAIN s = 1..Len(s) /\ DOMAIN u = 1..Len(s) - 1
      /\ \A i \in 1..Len(s) - 1 : u[i] = s[i]
      /\ s[Len(s)] = Last(s)
    BY LenFacts, FrontFacts
<1> HIDE DEF u
<1>2. Preventing(u) = Preventing(s) \ {Len(s)}
    <2>1. ASSUME NEW i PROVE i \in Preventing(u) <=> i \in Preventing(s) \ {Len(s)}
        <3>1. i \in 1..Len(s) - 1 <=> i \in 1..Len(s) /\ i # Len(s)
            BY <1>1
        <3> QED BY <1>1, <3>1 DEF Preventing
    <2> QED BY <2>1
<1>3. Len(s) \in Preventing(s) <=> Last(s) # "js"
    BY <1>1 DEF Preventing
<1>4. CallsThere(u) = IF Last(s) = "js" THEN CallsThere(s) ELSE CallsThere(s) - 1
    <2>1. IsFiniteSet(Preventing(s))
        BY CountTypes, EmptySeq
    <2>2. CASE Last(s) = "js"
        <3>1. Preventing(u) = Preventing(s)
            BY <1>2, <1>3, <2>2
        <3> QED BY <2>2, <3>1 DEF CallsThere
    <2>3. CASE Last(s) # "js"
        <3>1. Cardinality(Preventing(s) \ {Len(s)}) = Cardinality(Preventing(s)) - 1
            BY <1>3, <2>1, <2>3, FS_RemoveElement
        <3> QED BY <1>2, <2>3, <3>1 DEF CallsThere
    <2> QED BY <2>2, <2>3
<1> QED BY <1>4 DEF u

LEMMA CountFrame ==
    ASSUME NEW n \in Seq(Frames), NEW g \in Frames, NEW t
    PROVE  ProtectedThere(Append(n, g), t) =
               IF Protected(g) /\ g.thread = t THEN ProtectedThere(n, t) + 1 ELSE ProtectedThere(n, t)
<1> DEFINE u == Append(n, g)
<1>1. /\ Len(n) \in Nat /\ DOMAIN n = 1..Len(n) /\ DOMAIN u = 1..Len(n) + 1
      /\ \A i \in 1..Len(n) : u[i] = n[i]
      /\ u[Len(n) + 1] = g
    BY LenFacts, AppendFacts
<1> HIDE DEF u
<1>2. ProtectedOn(u, t) =
          IF Protected(g) /\ g.thread = t THEN ProtectedOn(n, t) \cup {Len(n) + 1} ELSE ProtectedOn(n, t)
    BY <1>1 DEF ProtectedOn, Protected
<1>3. Len(n) + 1 \notin ProtectedOn(n, t) /\ IsFiniteSet(ProtectedOn(n, t))
    <2>1. IsFiniteSet(ProtectedOn(n, t))
        BY CountTypes, EmptySeq
    <2> QED BY <1>1, <2>1 DEF ProtectedOn
<1>4. ProtectedThere(u, t) =
          IF Protected(g) /\ g.thread = t THEN ProtectedThere(n, t) + 1 ELSE ProtectedThere(n, t)
    BY <1>2, <1>3, FS_AddElement DEF ProtectedThere
<1> QED BY <1>4 DEF u

LEMMA CountFront ==
    ASSUME NEW n \in Seq(Frames), n # << >>, NEW t
    PROVE  ProtectedThere(Front(n), t) =
               IF Protected(Last(n)) /\ Last(n).thread = t
               THEN ProtectedThere(n, t) - 1 ELSE ProtectedThere(n, t)
<1> DEFINE u == Front(n)
<1>1. /\ Len(n) \in Nat /\ Len(n) # 0 /\ DOMAIN n = 1..Len(n) /\ DOMAIN u = 1..Len(n) - 1
      /\ \A i \in 1..Len(n) - 1 : u[i] = n[i]
      /\ n[Len(n)] = Last(n)
    BY LenFacts, FrontFacts
<1> HIDE DEF u
<1>2. ProtectedOn(u, t) = ProtectedOn(n, t) \ {Len(n)}
    <2>1. ASSUME NEW i PROVE i \in ProtectedOn(u, t) <=> i \in ProtectedOn(n, t) \ {Len(n)}
        <3>1. i \in 1..Len(n) - 1 <=> i \in 1..Len(n) /\ i # Len(n)
            BY <1>1
        <3> QED BY <1>1, <3>1 DEF ProtectedOn
    <2> QED BY <2>1
<1>3. Len(n) \in ProtectedOn(n, t) <=> Protected(Last(n)) /\ Last(n).thread = t
    BY <1>1 DEF ProtectedOn, Protected
<1>4. ProtectedThere(u, t) =
          IF Protected(Last(n)) /\ Last(n).thread = t THEN ProtectedThere(n, t) - 1 ELSE ProtectedThere(n, t)
    <2>1. IsFiniteSet(ProtectedOn(n, t))
        BY CountTypes, EmptySeq
    <2>2. CASE ~(Protected(Last(n)) /\ Last(n).thread = t)
        <3>1. ProtectedOn(u, t) = ProtectedOn(n, t)
            BY <1>2, <1>3, <2>2
        <3> QED BY <2>2, <3>1 DEF ProtectedThere
    <2>3. CASE Protected(Last(n)) /\ Last(n).thread = t
        <3>1. Cardinality(ProtectedOn(n, t) \ {Len(n)}) = Cardinality(ProtectedOn(n, t)) - 1
            BY <1>3, <2>1, <2>3, FS_RemoveElement
        <3> QED BY <1>2, <2>3, <3>1 DEF ProtectedThere
    <2> QED BY <2>2, <2>3
<1> QED BY <1>4 DEF u

\* What SafeFails and Unwind release.
LEMMA CountCut ==
    ASSUME NEW s \in Seq(Kinds), NEW d \in 0..Len(s)
    PROVE  CallsThere(SubSeq(s, 1, d)) =
               CallsThere(s) - Cardinality({i \in DOMAIN s : i > d /\ PreventsYield(s[i])})
<1> DEFINE u == SubSeq(s, 1, d)
           A == {i \in DOMAIN s : i > d /\ PreventsYield(s[i])}
<1>1. /\ Len(s) \in Nat /\ d \in Nat /\ DOMAIN s = 1..Len(s) /\ DOMAIN u = 1..d
      /\ \A i \in 1..d : u[i] = s[i] /\ i \in 1..Len(s)
    BY LenFacts, CutFacts
<1> HIDE DEF u
<1>2. /\ Preventing(u) \cup A = Preventing(s) /\ Preventing(u) \cap A = {}
    <2>1. ASSUME NEW i \in DOMAIN s
          PROVE  /\ i \in Preventing(u) <=> i <= d /\ s[i] # "js"
                 /\ i \in A <=> i > d /\ s[i] # "js"
                 /\ i <= d <=> ~(i > d)
        <3>1. (i \in 1..d <=> i <= d) /\ (i <= d <=> ~(i > d))
            BY <1>1
        <3> QED BY <1>1, <3>1 DEF Preventing, PreventsYield
    <2>2. Preventing(u) \subseteq DOMAIN s /\ A \subseteq DOMAIN s
        BY <1>1 DEF Preventing
    <2>3. Preventing(s) \subseteq DOMAIN s /\ \A i \in DOMAIN s : i \in Preventing(s) <=> s[i] # "js"
        BY DEF Preventing
    <2> HIDE DEF A
    <2>4. Preventing(u) \cap A = {}
        BY <2>1, <2>2
    <2>5. Preventing(u) \cup A = Preventing(s)
        BY <2>1, <2>2, <2>3
    <2> QED BY <2>4, <2>5
<1>3. IsFiniteSet(Preventing(s))
    BY CountTypes, EmptySeq
<1> HIDE DEF A
<1>4. IsFiniteSet(Preventing(u)) /\ IsFiniteSet(A)
    BY <1>2, <1>3, FS_Subset
<1>5. Cardinality(Preventing(s)) = Cardinality(Preventing(u)) + Cardinality(A)
    <2>1. Cardinality(Preventing(u) \cup A) =
              Cardinality(Preventing(u)) + Cardinality(A) - Cardinality(Preventing(u) \cap A)
        BY <1>4, FS_Union
    <2>2. Cardinality(Preventing(u) \cap A) = 0
        BY <1>2, FS_EmptySet
    <2>3. Cardinality(Preventing(u)) \in Nat /\ Cardinality(A) \in Nat
        BY <1>4, FS_CardinalityType
    <2>4. Cardinality(Preventing(u) \cup A) = Cardinality(Preventing(s))
        BY <1>2
    <2> QED BY <2>1, <2>2, <2>3, <2>4
<1>6. Cardinality(Preventing(u)) \in Nat /\ Cardinality(A) \in Nat
    BY <1>4, FS_CardinalityType
<1>7. CallsThere(u) = CallsThere(s) - Cardinality(A)
    BY <1>5, <1>6 DEF CallsThere
<1> QED BY <1>7 DEF u, A

(***************************************************************************)
(* The state in each mode                                                  *)
(***************************************************************************)

LEMMA StackFacts ==
    ASSUME Shape, nested # << >>
    PROVE  /\ Deep \in Nat /\ Deep > 0 /\ Deep \in 1..Deep /\ Deep - 1 \in 0..Deep - 1
           /\ Top = nested[Deep] /\ Top = Last(nested) /\ Top \in Frames
           /\ Top.thread \in Threads /\ Top.depth \in Nat /\ Top.current \in Threads \cup {None}
           /\ Top.kind \in {"safe", "finalizer", "exec", "native"}
           /\ Top.state \in States /\ Top.from \in Modes
           /\ Front(nested) = SubSeq(nested, 1, Deep - 1) /\ Front(nested) \in Seq(Frames)
           /\ Len(Front(nested)) = Deep - 1
           /\ \A i \in 1..Deep - 1 : Front(nested)[i] = nested[i]
<1>1. nested \in Seq(Frames)
    BY DEF Shape
<1>2. Deep \in Nat /\ Deep > 0 /\ Deep \in 1..Deep /\ Deep - 1 \in 0..Deep - 1
    BY <1>1, LenFacts DEF Deep
<1>3. /\ Top = nested[Deep] /\ Top = Last(nested) /\ Front(nested) \in Seq(Frames)
      /\ Len(Front(nested)) = Deep - 1
      /\ \A i \in 1..Deep - 1 : Front(nested)[i] = nested[i]
    BY <1>1, FrontFacts DEF Top, Deep
<1>4. Front(nested) = SubSeq(nested, 1, Deep - 1)
    BY DEF Front, Deep
<1> QED BY <1>2, <1>3, <1>4, FrameTypes

LEMMA LinksBelow ==
    ASSUME NEW lvl \in [Threads -> Nat], NEW rank \in [Threads -> Nat], Shape, Core(lvl, rank),
           Deep > 0, nested[Deep].kind # "exec"
    PROVE  \A t \in Threads : Linked(t) => lvl[t] <= Deep - 1
<1> SUFFICES ASSUME NEW t \in Threads, Linked(t) PROVE lvl[t] <= Deep - 1
    OBVIOUS
<1>1. lvl[t] \in 1..Deep /\ nested[lvl[t]].kind = "exec" /\ Deep \in Nat
    BY FrameTypes DEF Core, Chained
<1>2. lvl[t] # Deep
    BY <1>1
<1> QED BY <1>1, <1>2

LEMMA NativeIs ==
    ASSUME NEW lvl \in [Threads -> Nat], NEW rank \in [Threads -> Nat], Shape, Core(lvl, rank),
           running = "native", nested # << >>
    PROVE  /\ Top.kind = "native" /\ Deep >= 2 /\ nested[Deep - 1].kind = "exec" /\ Top.from = "js"
           /\ current = Top.thread /\ state[current] = "running" /\ Top.state = "running"
           /\ Top.current = current /\ ~Switches(Top) /\ ~Rejected(Top)
           /\ Len(calls[current]) = Top.depth + 1 /\ Last(calls[current]) = "native"
           /\ \A t \in Threads : Linked(t) => lvl[t] <= Deep - 1
<1>1. Deep \in Nat /\ Deep > 0 /\ Deep \in 1..Deep /\ Top = nested[Deep] /\ Top.thread \in Threads
    BY StackFacts
<1>2. Top.kind = "native"
    BY <1>1 DEF Core, ModeOK, Fits
<1>3. ~Switches(Top) /\ Top.from = "js" /\ Top.state = "running" /\ Fits("js", Deep - 1)
    BY <1>1, <1>2 DEF Core, FramesOK, FrameOK, Protected
<1>4. ~Rejected(Top)
    BY <1>3 DEF Rejected
<1>5. current = Top.thread /\ state[current] = "running"
    BY <1>1, <1>2, <1>4, CurrentIs DEF Serves
<1>6. Top.current = current
    BY <1>3, <1>5 DEF Switches
<1>7. Deep >= 2 /\ nested[Deep - 1].kind = "exec"
    BY <1>1, <1>3 DEF Fits
<1>8. Len(calls[current]) = Top.depth + 1
    BY <1>1 DEF Core, CurrentGoesOn, GoesOn
<1>9. calls[current][Top.depth + 1] = "native"
    BY <1>1, <1>2, <1>5 DEF Core, Marked
<1>10. \A t \in Threads : Linked(t) => lvl[t] <= Deep - 1
    BY <1>1, <1>2, LinksBelow
<1> QED BY <1>2, <1>3, <1>4, <1>5, <1>6, <1>7, <1>8, <1>9, <1>10 DEF Last

LEMMA ProtectedIs ==
    ASSUME NEW lvl \in [Threads -> Nat], NEW rank \in [Threads -> Nat], Shape, Core(lvl, rank),
           running = "protected"
    PROVE  /\ nested # << >> /\ Protected(Top) /\ ~Rejected(Top)
           /\ current = Top.thread /\ state[current] = "running"
           /\ Len(calls[current]) = Top.depth
           /\ \A t \in Threads : Linked(t) => lvl[t] <= Deep - 1
<1>1. Deep > 0 /\ Protected(nested[Deep])
    BY DEF Core, ModeOK, Fits
<1>2. nested # << >>
    BY <1>1, LenFacts DEF Shape, Deep
<1>3. /\ Top = nested[Deep] /\ Deep \in 1..Deep /\ Top.thread \in Threads
      /\ Top.kind \in {"safe", "finalizer", "exec", "native"}
    BY <1>2, StackFacts
<1>4. ~Rejected(Top)
    BY <1>3 DEF Core, Rejections
<1>5. Top.kind \notin {"exec", "native"}
    BY <1>1, <1>3 DEF Protected
<1>6. current = Top.thread /\ state[current] = "running"
    BY <1>1, <1>3, <1>4, <1>5, CurrentIs DEF Serves
<1>7. Len(calls[current]) = Top.depth
    BY <1>1, <1>3 DEF Core, CurrentGoesOn, GoesOn
<1>8. \A t \in Threads : Linked(t) => lvl[t] <= Deep - 1
    BY <1>1, <1>3, <1>5, LinksBelow
<1> QED BY <1>1, <1>2, <1>3, <1>4, <1>6, <1>7, <1>8

LEMMA ScriptIs ==
    ASSUME NEW lvl \in [Threads -> Nat], NEW rank \in [Threads -> Nat], Shape, Core(lvl, rank),
           running = "js"
    PROVE  /\ nested # << >> /\ Deep > 0 /\ Top = nested[Deep] /\ Top.kind = "exec"
           /\ ~Switches(Top) /\ ~Rejected(Top) /\ ~Rejected(nested[Deep])
           /\ current \in Threads /\ state[current] = "running"
           /\ GoesOn("js", current, calls[current], Len(calls[current]), Top)
<1>1. Deep > 0 /\ nested[Deep].kind = "exec"
    BY DEF Core, ModeOK, Fits
<1>2. /\ nested # << >> /\ Top = nested[Deep]
      /\ ~Switches(Top) /\ ~Rejected(Top)
      /\ current \in Threads /\ state[current] = "running"
    BY <1>1, ExecutorIs DEF Frozen
<1>3. GoesOn("js", current, calls[current], Len(calls[current]), Top)
    BY <1>1, <1>2 DEF Core, CurrentGoesOn
<1> QED BY <1>1, <1>2, <1>3

\* The calls that C functions on thread t work for are among its first d when
\* those on top of them are.
LEMMA BasesBelow ==
    ASSUME NEW lvl \in [Threads -> Nat], NEW rank \in [Threads -> Nat], Shape, Core(lvl, rank),
           Deep > 0, nested[Deep].kind = "exec", NEW i \in 1..Deep, nested[i].thread = current
    PROVE  current = Top.thread /\ Base(nested[i]) <= Top.depth + 1
<1>1. /\ Deep \in Nat /\ Deep \in 1..Deep /\ Top = nested[Deep]
      /\ current = nested[Deep].thread \/ (Linked(current) /\ lvl[current] = Deep)
      /\ Base(Top) = Top.depth + 1 /\ current \in Threads
    BY ExecutorIs
<1>2. Base(nested[i]) \in Nat /\ Top.depth \in Nat
    BY <1>1, FrameTypes
<1>3. current = Top.thread
    <2>1. CASE Linked(current) /\ lvl[current] = Deep
        <3>1. i > Deep
            BY <1>1, <2>1 DEF Core, Chained
        <3> QED BY <1>1, <3>1
    <2> QED BY <1>1, <2>1
<1>4. CASE i = Deep
    BY <1>1, <1>2, <1>3, <1>4
<1>5. CASE i # Deep
    <2>1. i \in 1..Deep-1
        BY <1>1, <1>5
    <2>2. Base(nested[i]) <= Top.depth
        BY <1>1, <1>3, <2>1 DEF Core, FramesOK, FrameOK
    <2> QED BY <1>2, <1>3, <2>2
<1> QED BY <1>4, <1>5

LEMMA PreventIs ==
    ASSUME Shape, Counted
    PROVE  /\ prevent \in [Threads -> Nat]
           /\ \A s \in Threads :
                /\ prevent[s] = CallsThere(calls[s]) + ProtectedThere(nested, s)
                /\ CallsThere(calls[s]) \in Nat /\ ProtectedThere(nested, s) \in Nat
<1>1. \A s \in Threads : CallsThere(calls[s]) \in Nat /\ ProtectedThere(nested, s) \in Nat
    BY CountTypes DEF Shape
<1> QED BY <1>1 DEF Counted

LEMMA Recount ==
    ASSUME DOMAIN prevent' = Threads, prevent' = [t \in DOMAIN prevent' |-> prevent'[t]],
           \A s \in Threads : prevent'[s] = CallsThere(calls'[s]) + ProtectedThere(nested', s)
    PROVE  Counted'
<1>1. prevent' = [t \in Threads |-> CallsThere(calls'[t]) + ProtectedThere(nested', t)]
    OBVIOUS
<1> QED BY <1>1 DEF Counted, CallsThere, ProtectedThere, Preventing, ProtectedOn

(***************************************************************************)
(* Every action keeps the invariant: calls of JS code                      *)
(***************************************************************************)

LEMMA CountedStays ==
    ASSUME Shape, Counted, calls' = calls, prevent' = prevent,
           \A s \in Threads : ProtectedThere(nested', s) = ProtectedThere(nested, s)
    PROVE  Counted'
BY PreventIs, Recount

LEMMA CountedPush ==
    ASSUME Shape, Counted, current \in Threads, NEW k \in Kinds, k # "js", Push(k), Prevents(1),
           \A s \in Threads : ProtectedThere(nested', s) = ProtectedThere(nested, s)
    PROVE  Counted'
<1>1. \A s \in Threads : prevent'[s] = CallsThere(calls'[s]) + ProtectedThere(nested', s)
    <2> SUFFICES ASSUME NEW s \in Threads
                 PROVE  prevent'[s] = CallsThere(calls'[s]) + ProtectedThere(nested, s)
        OBVIOUS
    <2>1. /\ prevent[s] = CallsThere(calls[s]) + ProtectedThere(nested, s)
          /\ CallsThere(calls[s]) \in Nat /\ ProtectedThere(nested, s) \in Nat
          /\ prevent \in [Threads -> Nat] /\ calls \in [Threads -> Seq(Kinds)]
        BY PreventIs DEF Shape
    <2>2. CASE s = current
        <3>1. calls'[s] = Append(calls[s], k) /\ prevent'[s] = prevent[s] + 1
            BY <2>1, <2>2 DEF Push, Prevents
        <3>2. CallsThere(calls'[s]) = CallsThere(calls[s]) + 1
            BY <2>1, <3>1, CountCall
        <3> QED BY <2>1, <3>1, <3>2
    <2>3. CASE s # current
        BY <2>1, <2>3 DEF Push, Prevents
    <2> QED BY <2>2, <2>3
<1>2. DOMAIN prevent' = Threads /\ prevent' = [t \in DOMAIN prevent' |-> prevent'[t]]
    BY PreventIs DEF Prevents
<1> QED BY <1>1, <1>2, Recount

\* A call is pushed.
LEMMA PushFacts ==
    ASSUME Shape, current \in Threads, NEW k \in Kinds, Push(k)
    PROVE  /\ calls' \in [Threads -> Seq(Kinds)]
           /\ calls'[current] = Append(calls[current], k)
           /\ Len(calls[current]) \in Nat
           /\ Len(calls'[current]) = Len(calls[current]) + 1
           /\ calls'[current][Len(calls[current]) + 1] = k
           /\ \A p \in 1..Len(calls[current]) : calls'[current][p] = calls[current][p]
           /\ \A t \in Threads \ {current} : calls'[t] = calls[t]
<1>1. calls[current] \in Seq(Kinds) /\ calls \in [Threads -> Seq(Kinds)]
    BY DEF Shape
<1>2. calls'[current] = Append(calls[current], k) /\ \A t \in Threads \ {current} : calls'[t] = calls[t]
    BY <1>1 DEF Push
<1>3. Append(calls[current], k) \in Seq(Kinds)
    BY <1>1, AppendFacts
<1>4. calls' \in [Threads -> Seq(Kinds)]
    BY <1>1, <1>3 DEF Push
<1> QED BY <1>1, <1>2, <1>4, AppendFacts, LenFacts


(***************************************************************************)
(* What is below a call of JS code                                         *)
(***************************************************************************)

\* A C function stays, or is no executor, or nothing is left above the call it
\* was started for.
StartKept(j) ==
    \/ j <= Deep' /\ nested'[j] = nested[j]
    \/ nested[j].kind # "exec"
    \/ nested[j].depth + 1 >= Len(calls'[nested[j].thread])

\* Calls of t end, or one is made that JS code below it makes if it is one of JS.
Trimmed(t) ==
    \/ Len(calls'[t]) <= 1
    \/ \A p \in 1..Len(calls'[t]) :
          \/ p <= Len(calls[t]) /\ calls'[t][p] = calls[t][p]
          \/ p = Len(calls'[t]) /\ calls'[t][p] # "js"
          \/ p = Len(calls'[t]) /\ calls'[t][p - 1] = "js"
          \/ p = Len(calls'[t]) /\ Started(t, p - 1)'

LEMMA PiledStep ==
    ASSUME Shape, Shape', Piled, \A j \in 1..Deep : StartKept(j), \A t \in Threads : Trimmed(t)
    PROVE  Piled'
<1> SUFFICES ASSUME NEW t \in Threads, NEW d \in 1..Len(calls'[t]) - 1, calls'[t][d + 1] = "js",
                    calls'[t][d] # "js"
             PROVE  Started(t, d)'
    BY DEF Piled
<1>1. Len(calls[t]) \in Nat /\ Len(calls'[t]) \in Nat /\ Deep \in Nat /\ Deep' \in Nat
    <2>1. /\ calls[t] \in Seq(Kinds) /\ calls'[t] \in Seq(Kinds)
          /\ nested \in Seq(Frames) /\ nested' \in Seq(Frames)
        BY DEF Shape
    <2> QED BY <2>1, LenFacts DEF Deep
<1>2. /\ d \in 1..Len(calls'[t]) /\ d + 1 \in 1..Len(calls'[t]) /\ d # Len(calls'[t])
      /\ d + 1 - 1 = d /\ ~(Len(calls'[t]) <= 1)
    BY <1>1
<1>3. calls'[t][d] = calls[t][d]
    BY <1>2 DEF Trimmed
<1>4. \/ d + 1 <= Len(calls[t]) /\ calls[t][d + 1] = "js"
      \/ Started(t, d)'
    <2>1. \/ d + 1 <= Len(calls[t]) /\ calls'[t][d + 1] = calls[t][d + 1]
          \/ calls'[t][d + 1] # "js"
          \/ calls'[t][d + 1 - 1] = "js"
          \/ Started(t, d + 1 - 1)'
        BY <1>2 DEF Trimmed
    <2> QED BY <1>2, <2>1
<1>5. CASE d + 1 <= Len(calls[t]) /\ calls[t][d + 1] = "js"
    <2>1. d \in 1..Len(calls[t]) - 1
        BY <1>1, <1>5
    <2>2. Started(t, d)
        BY <1>3, <1>5, <2>1 DEF Piled
    <2> PICK j \in 1..Deep : nested[j].kind = "exec" /\ nested[j].thread = t /\ nested[j].depth + 1 = d
        BY <2>2 DEF Started
    <2>3. ~(nested[j].depth + 1 >= Len(calls'[nested[j].thread]))
        BY <1>1, <1>2
    <2>4. j <= Deep' /\ nested'[j] = nested[j]
        BY <2>3 DEF StartKept
    <2>5. j \in 1..Deep'
        BY <1>1, <2>4
    <2> QED BY <2>4, <2>5 DEF Started
<1> QED BY <1>4, <1>5

\* The C functions there stay.
LEMMA StartsStay ==
    ASSUME Shape, nested' = nested \/ (\E g \in Frames : nested' = Append(nested, g))
    PROVE  \A j \in 1..Deep : StartKept(j)
<1>1. nested \in Seq(Frames) /\ Deep \in Nat
    BY FrameTypes DEF Shape
<1>2. Deep' >= Deep /\ Deep' \in Nat /\ \A j \in 1..Deep : nested'[j] = nested[j]
    <2>1. CASE nested' = nested
        BY <1>1, <2>1 DEF Deep
    <2>2. CASE \E g \in Frames : nested' = Append(nested, g)
        BY <1>1, <2>2, AppendFacts DEF Deep
    <2> QED BY <2>1, <2>2
<1> QED BY <1>1, <1>2 DEF StartKept

\* The last C functions return, of which none is an executor.
LEMMA StartsLeft ==
    ASSUME Shape, nested # << >>, nested' = Front(nested),
           Top.kind # "exec" \/ Top.depth + 1 >= Len(calls'[Top.thread])
    PROVE  \A j \in 1..Deep : StartKept(j)
<1>1. /\ Deep \in Nat /\ Top = nested[Deep] /\ Deep' = Deep - 1
      /\ \A i \in 1..Deep - 1 : nested'[i] = nested[i]
    BY StackFacts DEF Deep
<1> SUFFICES ASSUME NEW j \in 1..Deep PROVE StartKept(j)
    OBVIOUS
<1>2. CASE j = Deep
    BY <1>1, <1>2 DEF StartKept
<1>3. CASE j # Deep
    BY <1>1, <1>3 DEF StartKept
<1> QED BY <1>2, <1>3

\* The calls of a thread stay, or the last ones end.
LEMMA TrimmedSame ==
    ASSUME Shape, NEW t \in Threads, calls'[t] = calls[t]
    PROVE  Trimmed(t)
BY FrameTypes DEF Trimmed

LEMMA TrimmedCut ==
    ASSUME Shape, NEW t \in Threads, NEW d \in 0..Len(calls[t]), calls'[t] = SubSeq(calls[t], 1, d)
    PROVE  Trimmed(t)
<1>1. calls[t] \in Seq(Kinds) /\ Len(calls[t]) \in Nat
    BY FrameTypes DEF Shape
<1>2. Len(calls'[t]) = d /\ \A i \in 1..d : calls'[t][i] = calls[t][i] /\ i <= Len(calls[t])
    BY <1>1, CutFacts
<1> QED BY <1>2 DEF Trimmed

LEMMA TrimmedFront ==
    ASSUME Shape, NEW t \in Threads, calls'[t] = Front(calls[t]), calls[t] # << >>
    PROVE  Trimmed(t)
<1>1. Len(calls[t]) - 1 \in 0..Len(calls[t])
    BY LenFacts DEF Shape
<1> QED BY <1>1, TrimmedCut DEF Front

\* A native call is made.
LEMMA TrimmedPush ==
    ASSUME Shape, NEW t \in Threads, NEW k \in Kinds, k # "js", calls'[t] = Append(calls[t], k)
    PROVE  Trimmed(t)
<1>1. calls[t] \in Seq(Kinds) /\ Len(calls[t]) \in Nat
    BY FrameTypes DEF Shape
<1>2. /\ Len(calls'[t]) = Len(calls[t]) + 1
      /\ \A i \in 1..Len(calls[t]) : calls'[t][i] = calls[t][i]
      /\ calls'[t][Len(calls[t]) + 1] = k
    BY <1>1, AppendFacts
<1>3. \A p \in 1..Len(calls'[t]) : p <= Len(calls[t]) \/ p = Len(calls'[t])
    BY <1>1, <1>2
<1> QED BY <1>1, <1>2, <1>3 DEF Trimmed

\* The calls stay, with one pushed on the current thread or none, and so do the
\* C functions.
LEMMA PiledStays ==
    ASSUME Shape, Shape', Piled, \A j \in 1..Deep : StartKept(j),
           calls' = calls \/ (\E k \in Kinds \ {"js"} : Push(k)), current \in Threads \/ calls' = calls
    PROVE  Piled'
<1> SUFFICES ASSUME NEW t \in Threads PROVE Trimmed(t)
    BY PiledStep
<1>1. CASE calls'[t] = calls[t]
    BY <1>1, TrimmedSame
<1>2. CASE calls'[t] # calls[t]
    <2> PICK k \in Kinds \ {"js"} : Push(k)
        BY <1>2
    <2>1. t = current /\ calls'[t] = Append(calls[t], k)
        BY <1>2, PushFacts
    <2> QED BY <2>1, TrimmedPush
<1> QED BY <1>1, <1>2
\* longjmp stays in the C function when that is an executor or a protected call.
LEMMA RaiseStays ==
    ASSUME nested # << >> => Top.kind # "native", Raise
    PROVE  nested' = nested /\ running' = "error"
BY DEF Raise, Landing, Top

\* Within what C functions on it work for, the calls of the current thread stay.
LEMMA ScriptKeeps ==
    ASSUME NEW lvl \in [Threads -> Nat], NEW rank \in [Threads -> Nat],
           Shape, Shape', Core(lvl, rank), running = "js",
           UNCHANGED <<nested, current, state, resumer>>, running' \in {"js", "error"},
           calls' = calls \/ (\E k \in Kinds : Push(k)),
           running' = "js" =>
               GoesOn("js", current, calls'[current], Len(calls'[current]), Top)
    PROVE  Core(lvl, rank)'
<1>1. /\ Deep > 0 /\ Top = nested[Deep] /\ Top.kind = "exec" /\ ~Rejected(nested[Deep])
      /\ current \in Threads
    BY ScriptIs
<1>2. /\ \A t \in Threads \ {current} : calls'[t] = calls[t]
      /\ Len(calls'[current]) >= Len(calls[current])
      /\ \A p \in 1..Len(calls[current]) : calls'[current][p] = calls[current][p]
      /\ Len(calls[current]) \in Nat /\ Len(calls'[current]) \in Nat
    <2>1. Len(calls[current]) \in Nat
        BY <1>1, FrameTypes
    <2>2. CASE calls' = calls
        BY <2>1, <2>2
    <2>3. CASE \E k \in Kinds : Push(k)
        <3> PICK k \in Kinds : Push(k)
            BY <2>3
        <3> QED BY <1>1, <2>1, PushFacts
    <2> QED BY <2>2, <2>3
<1>3. ASSUME NEW i \in 1..Deep, nested[i].thread = current
      PROVE  /\ Base(nested[i]) <= Len(calls'[current])
             /\ \A p \in 1..Base(nested[i]) : calls'[current][p] = calls[current][p]
    <2>1. Base(nested[i]) <= Len(calls[current]) /\ Base(nested[i]) \in Nat
        BY <1>3, FrameTypes DEF Core, Marked
    <2>2. \A p \in 1..Base(nested[i]) : p \in 1..Len(calls[current])
        BY <1>2, <2>1
    <2>3. Base(nested[i]) <= Len(calls'[current])
        BY <1>2, <2>1
    <2> QED BY <1>2, <2>2, <2>3
<1> QED BY <1>1, <1>2, <1>3, KeepStep

LEMMA CallKeeps == ASSUME IInv, Call PROVE IInv'
<1> PICK lvl \in [Threads -> Nat], rank \in [Threads -> Nat] : Core(lvl, rank)
    BY DEF IInv, Fitting
<1>1. /\ Shape /\ Counted /\ running = "js"
      /\ UNCHANGED <<state, resumer, prevent, current, known>>
    BY DEF IInv, Call
<1>2. current \in Threads /\ Top.kind = "exec" /\ nested # << >>
    BY <1>1, ScriptIs
<1>3. CASE Len(calls[current]) < MaxCalls
    <2>1. Push("js") /\ nested' = nested /\ running' = running
        BY <1>3 DEF Call
    <2>2. Shape'
        BY <1>1, <1>2, <2>1, PushFacts DEF Shape, Kinds
    <2>3. Counted'
        <3>1. \A s \in Threads : CallsThere(calls'[s]) = CallsThere(calls[s])
            <4>1. calls \in [Threads -> Seq(Kinds)] /\ "js" \in Kinds
                BY <1>1 DEF Shape, Kinds
            <4>2. CallsThere(Append(calls[current], "js")) = CallsThere(calls[current])
                BY <1>2, <4>1, CountCall
            <4>3. calls'[current] = Append(calls[current], "js")
                  /\ \A t \in Threads \ {current} : calls'[t] = calls[t]
                BY <1>1, <1>2, <2>1, <4>1, PushFacts
            <4> QED BY <4>2, <4>3
        <3>2. prevent' = prevent /\ nested' = nested
            BY <1>1, <2>1
        <3> QED BY <1>1, <3>1, <3>2, PreventIs, Recount
    <2>4. GoesOn("js", current, calls'[current], Len(calls'[current]), Top)
        BY <1>1, <1>2, <2>1, PushFacts DEF GoesOn, Kinds
    <2>5. Core(lvl, rank)'
        BY <1>1, <2>1, <2>2, <2>4, ScriptKeeps DEF Kinds
    <2>6. Piled'
        <3>1. /\ calls'[current] = Append(calls[current], "js") /\ Len(calls[current]) \in Nat
              /\ Len(calls'[current]) = Len(calls[current]) + 1
              /\ \A p \in 1..Len(calls[current]) : calls'[current][p] = calls[current][p]
              /\ \A t \in Threads \ {current} : calls'[t] = calls[t]
            BY <1>1, <1>2, <2>1, PushFacts DEF Kinds
        <3>2. /\ Deep \in Nat /\ Deep \in 1..Deep /\ Top = nested[Deep] /\ Deep' = Deep /\ nested' = nested
              /\ GoesOn("js", current, calls[current], Len(calls[current]), Top)
            BY <1>1, <1>2, <2>1, StackFacts, ScriptIs DEF Deep
        <3> PICK d : d = Len(calls[current])
            OBVIOUS
        <3>3. d >= 1 /\ (calls'[current][d] = "js" \/ Started(current, d)')
            <4>1. d >= 1 /\ (calls[current][d] = "js" \/ (current = Top.thread /\ d = Top.depth + 1))
                BY <3>2 DEF GoesOn
            <4>2. calls[current][d] = "js" => calls'[current][d] = "js"
                BY <3>1, <4>1
            <4>3. (current = Top.thread /\ d = Top.depth + 1) => Started(current, d)
                BY <1>2, <3>2 DEF Started
            <4>4. Started(current, d) => Started(current, d)'
                <5>1. current' = current
                    BY <1>1
                <5> QED BY <3>2, <5>1 DEF Started
            <4> QED BY <4>1, <4>2, <4>3, <4>4
        <3>4. Trimmed(current)
            <4>1. \A p \in 1..Len(calls'[current]) :
                      p <= Len(calls[current]) \/ (p = Len(calls'[current]) /\ p - 1 = d)
                BY <3>1
            <4> QED BY <3>1, <3>3, <4>1 DEF Trimmed
        <3>5. \A t \in Threads : Trimmed(t)
            BY <1>1, <3>1, <3>4, TrimmedSame
        <3> QED BY <1>1, <2>1, <2>2, <3>5, StartsStay, PiledStep DEF IInv
    <2> QED BY <2>2, <2>3, <2>5, <2>6 DEF IInv, Fitting
<1>4. CASE ~(Len(calls[current]) < MaxCalls)
    <2>1. calls' = calls /\ nested' = nested /\ running' = "error"
        BY <1>2, <1>4, RaiseStays DEF Call
    <2>2. Shape'
        BY <1>1, <2>1 DEF Shape, Modes
    <2>3. Counted'
        BY <1>1, <2>1, CountedStays
    <2>4. Core(lvl, rank)'
        BY <1>1, <2>1, <2>2, ScriptKeeps
    <2>5. Piled'
        BY <1>1, <2>1, <2>2, StartsStay, PiledStays DEF IInv
    <2> QED BY <2>2, <2>3, <2>4, <2>5 DEF IInv, Fitting
<1> QED BY <1>3, <1>4

\* A native call is refused: it is pushed, and fails.
LEMMA RefusedKeeps ==
    ASSUME IInv, running = "js", NEW k \in Kinds, k # "js", Push(k), Prevents(1), Raise,
           UNCHANGED <<state, resumer, current, known>>
    PROVE  IInv'
<1> PICK lvl \in [Threads -> Nat], rank \in [Threads -> Nat] : Core(lvl, rank)
    BY DEF IInv, Fitting
<1>1. Shape /\ Counted
    BY DEF IInv
<1>2. current \in Threads /\ Top.kind = "exec" /\ nested # << >>
    BY <1>1, ScriptIs
<1>3. nested' = nested /\ running' = "error"
    BY <1>2, RaiseStays
<1>4. Shape'
    BY <1>1, <1>2, <1>3, PushFacts DEF Shape, Modes
<1>5. Counted'
    BY <1>1, <1>2, <1>3, CountedPush
<1>6. Core(lvl, rank)'
    BY <1>1, <1>3, <1>4, ScriptKeeps
<1>7. Piled'
    BY <1>1, <1>2, <1>3, <1>4, StartsStay, PiledStays DEF IInv
<1> QED BY <1>4, <1>5, <1>6, <1>7 DEF IInv, Fitting

LEMMA NewFrameFits ==
    ASSUME NEW lvl \in [Threads -> Nat], NEW rank \in [Threads -> Nat], Shape, Core(lvl, rank),
           running # "error",
           NEW kind \in {"safe", "finalizer", "exec", "native"}, NEW t \in Threads,
           NEW g, g = Frame(kind, t),
           kind = "safe" => running = "native",
           kind = "native" => running = "js" /\ t = current,
           kind = "exec" => running \in {"native", "protected"} /\ t = current /\ Deep > 0
                            /\ nested[Deep].thread = t,
           t = current => running # "end"
    PROVE  FrameOK(g, Deep + 1)
<1>1. /\ g.kind = kind /\ g.thread = t /\ g.depth = Len(calls[t]) /\ g.current = current
      /\ g.state = state[t] /\ g.from = running
    BY FrameFacts
<1>2. /\ Deep \in Nat /\ Deep + 1 - 1 = Deep /\ Fits(running, Deep)
      /\ current # None => state[current] = Frozen(running)
      /\ None \notin Threads
      /\ \A i \in 1..Deep : ~Rejected(nested[i])
    BY Calm
<1>3. Switches(g) <=> t # current
    BY <1>1 DEF Switches
<1>4. t = current => state[t] = "running"
    BY <1>2 DEF Frozen
<1>5. Switches(g) => Protected(g)
    BY <1>1, <1>3 DEF Protected
<1>6. state[t] = "inactive" => Len(calls[t]) = 0 /\ \A j \in 1..Deep : nested[j].thread # t
    BY <1>2 DEF Core, Resting, Unserved
<1>7. \A j \in 1..Deep : nested[j].thread = t => Base(nested[j]) <= Len(calls[t])
    BY DEF Core, Marked
<1>8. kind = "exec" => Deep + 1 > 1
    BY <1>2
<1> PICK n \in Nat : n = Deep + 1
    BY <1>2
<1>9. n - 1 = Deep /\ 1..n - 1 = 1..Deep
    BY <1>2
<1>10. g.from # "error" /\ Fits(g.from, n - 1)
    BY <1>1, <1>2, <1>9
<1>11. /\ g.kind = "native" => g.from = "js"
       /\ g.kind = "exec" => n > 1 /\ g.from \in {"native", "protected"} /\ nested[n - 1].thread = g.thread
       /\ g.kind = "safe" => g.from = "native"
    BY <1>1, <1>2, <1>8, <1>9
<1>12. ~Switches(g) => g.state = "running" /\ g.from # "end"
    BY <1>1, <1>3, <1>4
<1>13. g.state = "inactive" => g.depth = 0 /\ \A j \in 1..n - 1 : nested[j].thread # g.thread
    BY <1>1, <1>6, <1>9
<1>14. \A j \in 1..n - 1 : nested[j].thread = g.thread => Base(nested[j]) <= g.depth
    BY <1>1, <1>7, <1>9
<1>15. FrameOK(g, n)
    BY <1>5, <1>10, <1>11, <1>12, <1>13, <1>14, Zenon DEF FrameOK
<1> QED BY <1>15

\* The count and the shape when a C function is called on the current thread.
LEMMA PushedShape ==
    ASSUME Shape, NEW kind \in {"safe", "finalizer", "exec", "native"}, NEW t \in Threads,
           NEW g, g = Frame(kind, t), nested' = Append(nested, g)
    PROVE  /\ nested' \in Seq(Frames)
           /\ \A s \in Threads : ProtectedThere(nested', s) =
                IF Protected(g) /\ s = t THEN ProtectedThere(nested, s) + 1 ELSE ProtectedThere(nested, s)
<1>1. g \in Frames /\ g.thread = t /\ nested \in Seq(Frames) /\ nested' \in Seq(Frames)
    BY FrameFacts DEF Shape
<1> QED BY <1>1, CountFrame

LEMMA CallNativeKeeps == ASSUME IInv, CallNative PROVE IInv'
<1> PICK lvl \in [Threads -> Nat], rank \in [Threads -> Nat] : Core(lvl, rank)
    BY DEF IInv, Fitting
<1>1. Shape /\ Counted /\ running = "js" /\ UNCHANGED <<state, resumer, current>> /\ "native" \in Kinds
    BY DEF IInv, CallNative, Kinds
<1>2. /\ current \in Threads /\ Top.kind = "exec" /\ nested # << >> /\ state[current] = "running"
    BY <1>1, ScriptIs
<1>3. CASE Len(calls[current]) >= MaxCalls
    <2>1. UNCHANGED <<calls, prevent, known, nested>> /\ running' = "error"
        BY <1>2, <1>3, RaiseStays DEF CallNative
    <2>2. Shape'
        BY <1>1, <2>1 DEF Shape, Modes
    <2>3. Counted'
        BY <1>1, <2>1, CountedStays
    <2>4. Core(lvl, rank)'
        BY <1>1, <2>1, <2>2, ScriptKeeps
    <2>5. Piled'
        BY <1>1, <2>1, <2>2, StartsStay, PiledStays DEF IInv
    <2> QED BY <2>2, <2>3, <2>4, <2>5 DEF IInv, Fitting
<1>4. CASE ~(Len(calls[current]) >= MaxCalls) /\ ~(Len(nested) < MaxNested)
    <2>1. Push("native") /\ Prevents(1) /\ Raise /\ known' = known
        BY <1>4 DEF CallNative
    <2> QED BY <1>1, <2>1, RefusedKeeps
<1>5. CASE ~(Len(calls[current]) >= MaxCalls) /\ Len(nested) < MaxNested
    <2> PICK g : g = Frame("native", current)
        OBVIOUS
    <2>1. /\ Push("native") /\ Prevents(1) /\ running' = "native"
          /\ nested' = Append(nested, g) /\ known' = known \cup {current}
        BY <1>5 DEF CallNative
    <2>2. g.kind = "native" /\ g.thread = current /\ g.current = current /\ g.state = "running"
        BY <1>1, <1>2, FrameFacts
    <2>3. ~Switches(g) /\ ~Rejected(g) /\ ~Protected(g)
        BY <2>2 DEF Switches, Rejected, Protected
    <2>4. nested' \in Seq(Frames) /\ \A s \in Threads : ProtectedThere(nested', s) = ProtectedThere(nested, s)
        BY <1>1, <1>2, <2>1, <2>3, PushedShape
    <2>5. Shape'
        BY <1>1, <1>2, <2>1, <2>4, PushFacts DEF Shape, Modes
    <2>6. Counted'
        BY <1>1, <1>2, <2>1, <2>4, CountedPush
    <2>7. FrameOK(g, Deep + 1)
        BY <1>1, <1>2, NewFrameFits
    <2>8. Pushed(g) /\ Reaches(current, g)
        BY <1>1, <1>2, <2>1, <2>3 DEF Pushed, Reaches
    <2>9. Extends(current) /\ Starts(current, g)
        <3>1. /\ \A s \in Threads \ {current} : calls'[s] = calls[s]
              /\ Len(calls[current]) \in Nat
              /\ Len(calls'[current]) = Len(calls[current]) + 1
              /\ calls'[current][Len(calls[current]) + 1] = "native"
              /\ \A p \in 1..Len(calls[current]) : calls'[current][p] = calls[current][p]
            BY <1>1, <1>2, <2>1, PushFacts
        <3> QED BY <2>1, <2>2, <3>1 DEF Extends, Starts
    <2>10. Core(lvl, rank)'
        BY <1>1, <1>2, <2>5, <2>7, <2>8, <2>9, PushStep
    <2>11. Piled'
        <3>1. g \in Frames
            BY <1>1, <1>2, FrameFacts
        <3> QED BY <1>1, <1>2, <2>1, <2>5, <3>1, StartsStay, PiledStays DEF IInv
    <2> QED BY <2>5, <2>6, <2>10, <2>11 DEF IInv, Fitting
<1> QED BY <1>3, <1>4, <1>5

LEMMA CatchKeeps == ASSUME IInv, Catch PROVE IInv'
<1> PICK lvl \in [Threads -> Nat], rank \in [Threads -> Nat] : Core(lvl, rank)
    BY DEF IInv, Fitting
<1>1. /\ Shape /\ Counted /\ running = "error" /\ Top.kind = "exec" /\ running' = "js"
      /\ UNCHANGED <<state, resumer, calls, prevent, current, nested, known>>
      /\ calls[current] # << >> /\ (Last(calls[current]) = "js" \/ AtEntry)
    BY DEF IInv, Catch, InExecutor
<1>2. Deep > 0 /\ Deep \in Nat /\ nested # << >> /\ Top = nested[Deep]
    <2>1. Deep > 0
        BY <1>1 DEF Core, ModeOK
    <2>2. nested # << >>
        BY <1>1, <2>1, LenFacts DEF Shape, Deep
    <2> QED BY <1>1, <2>2, StackFacts
<1>3. current \in Threads /\ ~Rejected(nested[Deep])
    BY <1>1, <1>2, ExecutorIs
<1>4. Shape'
    BY <1>1 DEF Shape, Modes
<1>5. Counted'
    BY <1>1, CountedStays
<1>6. GoesOn("js", current, calls[current], Len(calls[current]), Top)
    <2>1. Len(calls[current]) \in Nat /\ Len(calls[current]) # 0
        BY <1>1, <1>3, LenFacts DEF Shape
    <2> QED BY <1>1, <2>1 DEF GoesOn, Last, AtEntry
<1>7. \A i \in 1..Deep : nested[i].thread = current =>
          Base(nested[i]) <= Len(calls[current])
    BY DEF Core, Marked
<1>8. Core(lvl, rank)'
    BY <1>1, <1>2, <1>3, <1>4, <1>6, <1>7, KeepStep, SMTT(60)
<1>9. Piled'
    BY <1>1, <1>4, StartsStay, PiledStays DEF IInv
<1> QED BY <1>4, <1>5, <1>8, <1>9 DEF IInv, Fitting

(***************************************************************************)
(* Calls from native code, protected calls                                 *)
(***************************************************************************)

\* A native function is left by longjmp, or returns.
LEMMA NativeLeft ==
    ASSUME NEW lvl \in [Threads -> Nat], NEW rank \in [Threads -> Nat], Shape, Shape', Core(lvl, rank),
           running = "native", nested # << >>,
           nested' = Front(nested), UNCHANGED <<state, resumer, current>>,
           \A t \in Threads \ {current} : calls'[t] = calls[t],
           Top.depth <= Len(calls'[current]),
           \A p \in 1..Top.depth : calls'[current][p] = calls[current][p],
           running' = "error" \/ (running' = "js" /\ Len(calls'[current]) = Top.depth)
    PROVE  Core(lvl, rank)'
<1>1. /\ Deep \in Nat /\ Deep > 0 /\ Deep - 1 \in 0..Deep - 1
      /\ Top = nested[Deep] /\ Top.thread \in Threads
      /\ Front(nested) = SubSeq(nested, 1, Deep - 1)
    BY StackFacts
<1>2. /\ Top.kind = "native" /\ Deep >= 2 /\ nested[Deep - 1].kind = "exec" /\ Top.from = "js"
      /\ current = Top.thread /\ state[current] = "running" /\ Top.state = "running"
      /\ Top.current = current /\ ~Switches(Top) /\ ~Rejected(Top)
      /\ \A t \in Threads : Linked(t) => lvl[t] <= Deep - 1
    BY NativeIs
<1> PICK f, m : f = Top /\ m = Deep - 1
    OBVIOUS
<1>3. m \in 0..Deep - 1 /\ m + 1 = Deep /\ m > 0 /\ \A i \in m + 2..Deep : ~Switches(nested[i])
    BY <1>1, <1>2
<1>4. f = nested[m + 1] /\ nested' = SubSeq(nested, 1, m) /\ current' = f.current
    BY <1>1, <1>2, <1>3
<1>5. state' = [state EXCEPT ![f.thread] = f.state]
    BY <1>2 DEF Shape
<1>6. ~Rejected(nested[Deep]) /\ ~Rejected(f) /\ current = f.thread /\ ~Switches(f)
    BY <1>1, <1>2
<1>7. \/ running' = "error" /\ ~Switches(f) /\ m > 0 /\ nested[m].kind # "native"
      \/ running' = f.from /\ Len(calls'[f.thread]) = f.depth
    BY <1>2, <1>3
<1>8. /\ \A t \in Threads \ {f.thread} : calls'[t] = calls[t]
      /\ f.depth <= Len(calls'[f.thread])
      /\ \A p \in 1..f.depth : calls'[f.thread][p] = calls[f.thread][p]
      /\ \A t \in Threads : Linked(t) => lvl[t] <= m
      /\ resumer' = resumer /\ running # "end"
    BY <1>2
<1> QED BY <1>3, <1>4, <1>5, <1>6, <1>7, <1>8, CutStep DEF Leaves

LEMMA FrontCounts ==
    ASSUME Shape, nested # << >>
    PROVE  \A s \in Threads : ProtectedThere(Front(nested), s) =
               IF Protected(Top) /\ s = Top.thread
               THEN ProtectedThere(nested, s) - 1 ELSE ProtectedThere(nested, s)
BY CountFront DEF Shape, Top

LEMMA ThrowKeeps == ASSUME IInv, Throw PROVE IInv'
<1> PICK lvl \in [Threads -> Nat], rank \in [Threads -> Nat] : Core(lvl, rank)
    BY DEF IInv, Fitting
<1>1. /\ Shape /\ Counted /\ Raise
      /\ UNCHANGED <<state, resumer, calls, prevent, current, known>>
      /\ running \in {"js", "protected"} \/ (running = "native" /\ nested # << >>)
    BY DEF IInv, Throw
<1>2. CASE running = "js"
    <2>1. Top.kind = "exec"
        BY <1>1, <1>2, ScriptIs
    <2>2. nested' = nested /\ running' = "error"
        BY <1>1, <2>1, RaiseStays
    <2>3. Shape'
        BY <1>1, <2>2 DEF Shape, Modes
    <2>4. Counted'
        BY <1>1, <2>2, CountedStays
    <2>5. Core(lvl, rank)'
        BY <1>1, <1>2, <2>2, <2>3, ScriptKeeps
    <2>6. Piled'
        BY <1>1, <2>2, <2>3, StartsStay, PiledStays DEF IInv
    <2> QED BY <2>3, <2>4, <2>5, <2>6 DEF IInv, Fitting
<1>3. CASE running = "protected"
    <2>1. /\ nested # << >> /\ Protected(Top) /\ ~Rejected(Top) /\ Top.kind # "native"
        BY <1>1, <1>3, ProtectedIs DEF Protected
    <2>2. nested' = nested /\ running' = "error"
        BY <1>1, <2>1, RaiseStays
    <2>3. Shape'
        BY <1>1, <2>2 DEF Shape, Modes
    <2>4. Counted'
        BY <1>1, <2>2, CountedStays
    <2>5. Deep > 0 /\ Top = nested[Deep]
        BY <1>1, <2>1, StackFacts
    <2>6. \A i \in 1..Deep : nested[i].thread = current => Base(nested[i]) <= Len(calls[current])
        BY DEF Core, Marked
    <2>7. Core(lvl, rank)'
        BY <1>1, <1>3, <2>1, <2>2, <2>3, <2>5, <2>6, KeepStep
    <2>8. Piled'
        BY <1>1, <2>2, <2>3, StartsStay, PiledStays DEF IInv
    <2> QED BY <2>3, <2>4, <2>7, <2>8 DEF IInv, Fitting
<1>4. CASE running = "native"
    <2>1. Top.kind = "native" /\ Len(calls[current]) = Top.depth + 1 /\ nested # << >>
        BY <1>1, <1>4, NativeIs
    <2>2. Top.depth \in Nat
        BY <1>1, <2>1, StackFacts
    <2>3. nested' = Front(nested) /\ running' = "error"
        BY <1>1, <2>1 DEF Raise, Landing, Top
    <2>4. Shape'
        BY <1>1, <2>1, <2>3, StackFacts DEF Shape, Modes
    <2>5. \A s \in Threads : ProtectedThere(nested', s) = ProtectedThere(nested, s)
        BY <1>1, <2>1, <2>3, FrontCounts DEF Protected
    <2>6. Counted'
        BY <1>1, <2>5, CountedStays
    <2>7. Top.depth <= Len(calls[current])
        BY <2>1, <2>2
    <2>8. Core(lvl, rank)'
        BY <1>1, <1>4, <2>1, <2>3, <2>4, <2>7, NativeLeft
    <2>9. Piled'
        BY <1>1, <2>1, <2>3, <2>4, StartsLeft, PiledStays DEF IInv
    <2> QED BY <2>4, <2>6, <2>8, <2>9 DEF IInv, Fitting
<1> QED BY <1>1, <1>2, <1>3, <1>4

LEMMA CallJsKeeps == ASSUME IInv, CallJs PROVE IInv'
<1> PICK lvl \in [Threads -> Nat], rank \in [Threads -> Nat] : Core(lvl, rank)
    BY DEF IInv, Fitting
<1>1. /\ Shape /\ Counted /\ UNCHANGED <<state, resumer, current, known>> /\ "entry" \in Kinds
      /\ running = "protected" \/ (running = "native" /\ nested # << >>)
    BY DEF IInv, CallJs, Kinds
<1>2. /\ nested # << >> /\ current = Top.thread /\ state[current] = "running"
      /\ Top.depth <= Len(calls[current])
      /\ running = "protected" => Protected(Top)
      /\ running = "native" => Top.kind = "native"
      /\ ~Rejected(Top)
    <2>1. CASE running = "protected"
        <3>1. /\ nested # << >> /\ Protected(Top) /\ current = Top.thread /\ state[current] = "running"
              /\ Len(calls[current]) = Top.depth /\ ~Rejected(Top)
            BY <1>1, <2>1, ProtectedIs
        <3>2. Top.depth \in Nat
            BY <1>1, <3>1, StackFacts
        <3> QED BY <2>1, <3>1, <3>2
    <2>2. CASE running = "native"
        <3>1. /\ nested # << >> /\ Top.kind = "native" /\ current = Top.thread /\ state[current] = "running"
              /\ Len(calls[current]) = Top.depth + 1 /\ ~Rejected(Top)
            BY <1>1, <2>2, NativeIs
        <3>2. Top.depth \in Nat
            BY <1>1, <3>1, StackFacts
        <3> QED BY <2>2, <3>1, <3>2
    <2> QED BY <1>1, <2>1, <2>2
<1>3. /\ Deep > 0 /\ Deep \in Nat /\ Top = nested[Deep] /\ current \in Threads /\ Top.depth \in Nat
      /\ Top.kind \in {"safe", "finalizer", "exec", "native"}
    BY <1>1, <1>2, StackFacts
\* The call fails, before or after it is pushed.
<1>4. ASSUME Raise, (calls' = calls /\ prevent' = prevent) \/ (Push("entry") /\ Prevents(1))
      PROVE  IInv'
    <2>1. /\ \A t \in Threads \ {current} : calls'[t] = calls[t]
          /\ Len(calls'[current]) >= Len(calls[current])
          /\ Len(calls[current]) \in Nat /\ Len(calls'[current]) \in Nat
          /\ \A p \in 1..Len(calls[current]) : calls'[current][p] = calls[current][p]
          /\ calls' \in [Threads -> Seq(Kinds)]
        <3>1. Len(calls[current]) \in Nat /\ calls \in [Threads -> Seq(Kinds)]
            BY <1>1, <1>3, FrameTypes DEF Shape
        <3>2. CASE calls' = calls
            BY <3>1, <3>2
        <3>3. CASE Push("entry")
            BY <1>1, <1>3, <3>1, <3>3, PushFacts
        <3> QED BY <1>4, <3>2, <3>3
    <2>2. CASE running = "protected"
        <3>1. nested' = nested /\ running' = "error"
            BY <1>2, <1>4, <2>2, RaiseStays DEF Protected
        <3>2. Shape'
            BY <1>1, <2>1, <3>1 DEF Shape, Modes
        <3>3. Counted'
            BY <1>1, <1>3, <1>4, <3>1, CountedStays, CountedPush
        <3>4. ASSUME NEW i \in 1..Deep, nested[i].thread = current
              PROVE  /\ Base(nested[i]) <= Len(calls'[current])
                     /\ \A p \in 1..Base(nested[i]) : calls'[current][p] = calls[current][p]
            <4>1. Base(nested[i]) <= Len(calls[current]) /\ Base(nested[i]) \in Nat
                BY <1>1, <3>4, FrameTypes DEF Core, Marked
            <4>2. \A p \in 1..Base(nested[i]) : p \in 1..Len(calls[current])
                BY <2>1, <4>1
            <4>3. Base(nested[i]) <= Len(calls'[current])
                BY <2>1, <4>1
            <4> QED BY <2>1, <4>2, <4>3
        <3>5. nested[Deep].kind # "native" /\ ~Rejected(nested[Deep])
            BY <1>2, <1>3, <2>2 DEF Protected
        <3>6. Core(lvl, rank)'
            BY <1>1, <1>3, <2>1, <2>2, <3>1, <3>2, <3>4, <3>5, KeepStep
        <3>7. Piled'
            BY <1>1, <1>3, <1>4, <3>1, <3>2, StartsStay, PiledStays DEF IInv
        <3> QED BY <3>2, <3>3, <3>6, <3>7 DEF IInv, Fitting
    <2>3. CASE running = "native"
        <3>1. nested' = Front(nested) /\ running' = "error"
            BY <1>2, <1>4, <2>3 DEF Raise, Landing, Top
        <3>2. Shape'
            BY <1>1, <1>2, <2>1, <3>1, StackFacts DEF Shape, Modes
        <3>3. \A s \in Threads : ProtectedThere(nested', s) = ProtectedThere(nested, s)
            BY <1>1, <1>2, <2>3, <3>1, FrontCounts DEF Protected
        <3>4. Counted'
            BY <1>1, <1>3, <1>4, <3>3, CountedStays, CountedPush
        <3>5. Top.depth <= Len(calls'[current]) /\ \A p \in 1..Top.depth : p \in 1..Len(calls[current])
            BY <1>2, <1>3, <2>1, SMTT(60)
        <3>6. Core(lvl, rank)'
            BY <1>1, <1>2, <2>1, <2>3, <3>1, <3>2, <3>5, NativeLeft
        <3>7. Piled'
            BY <1>1, <1>2, <1>3, <1>4, <2>3, <3>1, <3>2, StartsLeft, PiledStays DEF IInv
        <3> QED BY <3>2, <3>4, <3>6, <3>7 DEF IInv, Fitting
    <2> QED BY <1>1, <2>2, <2>3
<1>5. CASE Len(calls[current]) >= MaxCalls
    BY <1>4, <1>5 DEF CallJs
<1>6. CASE ~(Len(calls[current]) >= MaxCalls) /\ ~(Len(nested) < MaxNested)
    BY <1>4, <1>6 DEF CallJs
<1>7. CASE ~(Len(calls[current]) >= MaxCalls) /\ Len(nested) < MaxNested
    <2> PICK g : g = Frame("exec", current)
        OBVIOUS
    <2>1. /\ Push("entry") /\ Prevents(1) /\ running' = "js"
          /\ nested' = Append(nested, g)
        BY <1>7 DEF CallJs
    <2>2. g.kind = "exec" /\ g.thread = current /\ g.current = current /\ g.state = "running"
        BY <1>1, <1>2, <1>3, FrameFacts
    <2>3. ~Switches(g) /\ ~Rejected(g) /\ ~Protected(g)
        BY <2>2 DEF Switches, Rejected, Protected
    <2>4. nested' \in Seq(Frames) /\ \A s \in Threads : ProtectedThere(nested', s) = ProtectedThere(nested, s)
        BY <1>1, <1>3, <2>1, <2>3, PushedShape
    <2>5. Shape'
        BY <1>1, <1>3, <2>1, <2>4, PushFacts DEF Shape, Modes
    <2>6. Counted'
        BY <1>1, <1>3, <2>1, <2>4, CountedPush
    <2>7. FrameOK(g, Deep + 1)
        BY <1>1, <1>2, <1>3, NewFrameFits
    <2>8. Pushed(g) /\ Reaches(current, g)
        BY <1>1, <1>2, <2>1, <2>3 DEF Pushed, Reaches
    <2>9. Extends(current) /\ Starts(current, g)
        <3>1. /\ \A s \in Threads \ {current} : calls'[s] = calls[s]
              /\ Len(calls[current]) \in Nat
              /\ Len(calls'[current]) = Len(calls[current]) + 1
              /\ calls'[current][Len(calls[current]) + 1] = "entry"
              /\ \A p \in 1..Len(calls[current]) : calls'[current][p] = calls[current][p]
            BY <1>1, <1>3, <2>1, PushFacts
        <3> QED BY <2>1, <2>2, <3>1 DEF Extends, Starts
    <2>10. Core(lvl, rank)'
        BY <1>1, <1>3, <2>5, <2>7, <2>8, <2>9, PushStep
    <2>11. Piled'
        <3>1. g \in Frames
            BY <1>1, <1>3, FrameFacts
        <3> QED BY <1>1, <1>3, <2>1, <2>5, <3>1, StartsStay, PiledStays DEF IInv
    <2> QED BY <2>5, <2>6, <2>10, <2>11 DEF IInv, Fitting
<1> QED BY <1>5, <1>6, <1>7

(***************************************************************************)
(* Protected calls, returns to C functions                                 *)
(***************************************************************************)

LEMMA ProtectKeeps ==
    ASSUME IInv, NEW kind \in {"safe", "finalizer"}, NEW t \in Threads, Protect(kind, t),
           running \in {"native", "js", "protected", "end"},
           kind = "safe" => running = "native", kind = "finalizer" => t = Main
    PROVE  IInv'
<1> PICK lvl \in [Threads -> Nat], rank \in [Threads -> Nat] : Core(lvl, rank)
    BY DEF IInv, Fitting
<1> PICK g : g = Frame(kind, t)
    OBVIOUS
<1>1. /\ Shape /\ Counted /\ Piled
      /\ nested' = Append(nested, g) /\ UNCHANGED <<resumer, calls, known>>
      /\ prevent' = [prevent EXCEPT ![t] = @ + 1]
      /\ Entered(t)
      /\ running' = IF Admits(t) /\ Len(nested) < MaxNested THEN "protected" ELSE "error"
    BY DEF IInv, Protect
<1>2. /\ g.kind = kind /\ g.thread = t /\ g.current = current /\ g.state = state[t]
      /\ g.from = running /\ Protected(g) /\ g \in Frames
    BY <1>1, FrameFacts DEF Protected
<1>3. current # None => state[current] = Frozen(running)
    BY <1>1, Calm
<1>4. None \notin Threads /\ Main \notin Coroutines /\ state \in [Threads -> States]
      /\ "running" \in States
    BY CoroutinesAssumption DEF Threads, Shape, IInv, States
<1>5. t = current => state[t] = "running" /\ running # "end"
    <2> SUFFICES ASSUME t = current PROVE state[t] = "running" /\ running # "end"
        OBVIOUS
    <2>1. state[t] = Frozen(running)
        BY <1>3, <1>4
    <2>2. state[t] # "terminated"
        <3>1. CASE running = "end"
            <4>1. t \notin Coroutines
                BY <1>4, <3>1
            <4> QED BY <4>1 DEF Core, LinkStates
        <3> QED BY <2>1, <3>1 DEF Frozen
    <2> QED BY <2>1, <2>2 DEF Frozen
<1>6. running' \in {"protected", "error"} /\ (Admits(t) \/ running' = "error")
    BY <1>1
<1>7. Switches(g) <=> t # current
    BY <1>2 DEF Switches
<1>8. Reaches(t, g)
    <2>1. CASE t = current
        <3>1. Admits(t)
            BY <1>5, <2>1 DEF Admits
        <3>2. current' = current /\ state' = state
            BY <1>1, <1>4, <1>5, <2>1, <3>1 DEF Entered
        <3> QED BY <1>5, <1>7, <2>1, <3>2 DEF Reaches, Rejected
    <2>2. CASE t # current /\ state[t] = "inactive"
        <3>1. Admits(t)
            BY <2>2 DEF Admits
        <3>2. current' = t /\ state' = [state EXCEPT ![t] = "running"]
            BY <1>1, <3>1 DEF Entered
        <3> QED BY <1>1, <1>2, <1>7, <2>2, <3>2 DEF Reaches, Rejected
    <2>3. CASE t # current /\ state[t] # "inactive"
        <3>1. ~Admits(t)
            BY <2>3 DEF Admits
        <3>2. current' = current /\ state' = state /\ running' = "error"
            BY <1>1, <3>1 DEF Entered
        <3> QED BY <1>1, <1>2, <1>7, <2>3, <3>2 DEF Reaches, Rejected
    <2> QED BY <2>1, <2>2, <2>3
<1>9. nested' \in Seq(Frames) /\ \A s \in Threads : ProtectedThere(nested', s) =
          IF s = t THEN ProtectedThere(nested, s) + 1 ELSE ProtectedThere(nested, s)
    BY <1>1, <1>2, PushedShape
<1>10. Shape'
    <2>1. state' \in [Threads -> States] /\ current' \in Threads \cup {None}
        BY <1>1, <1>8, ReachesShape, Zenon
    <2> QED BY <1>1, <1>6, <1>9, <2>1 DEF Shape, Modes
<1>11. Counted'
    <2>1. \A s \in Threads : prevent'[s] = CallsThere(calls'[s]) + ProtectedThere(nested', s)
        <3>1. prevent \in [Threads -> Nat] /\ \A s \in Threads :
                  /\ prevent[s] = CallsThere(calls[s]) + ProtectedThere(nested, s)
                  /\ CallsThere(calls[s]) \in Nat /\ ProtectedThere(nested, s) \in Nat
            BY <1>1, PreventIs, Zenon
        <3> SUFFICES ASSUME NEW s \in Threads
                     PROVE  prevent'[s] = CallsThere(calls'[s]) + ProtectedThere(nested', s)
            OBVIOUS
        <3>2. CallsThere(calls'[s]) = CallsThere(calls[s])
            BY <1>1
        <3>3. CASE s = t
            BY <1>1, <1>9, <3>1, <3>2, <3>3, SMTT(60)
        <3>4. CASE s # t
            <4>1. prevent'[s] = prevent[s] /\ ProtectedThere(nested', s) = ProtectedThere(nested, s)
                BY <1>1, <1>9, <3>1, <3>4
            <4> QED BY <3>1, <3>2, <4>1
        <3> QED BY <3>3, <3>4
    <2>2. DOMAIN prevent' = Threads /\ prevent' = [s \in DOMAIN prevent' |-> prevent'[s]]
        BY <1>1, PreventIs
    <2> QED BY <2>1, <2>2, Recount
<1>12. FrameOK(g, Deep + 1)
    BY <1>1, <1>5, NewFrameFits
<1>13. Pushed(g) /\ Extends(t) /\ Starts(t, g)
    <2>1. Len(calls[t]) \in Nat
        BY <1>1, FrameTypes
    <2> QED BY <1>1, <1>2, <1>6, <2>1 DEF Pushed, Extends, Starts
<1>14. Core(lvl, rank)'
    BY <1>1, <1>8, <1>10, <1>12, <1>13, PushStep
<1>15. Piled'
    BY <1>1, <1>2, <1>10, StartsStay, PiledStays
<1> QED BY <1>10, <1>11, <1>14, <1>15 DEF IInv, Fitting

LEMMA PhpCallsKeeps == ASSUME IInv, NEW t \in Threads, PhpCalls(t) PROVE IInv'
BY ProtectKeeps DEF PhpCalls

LEMMA FinalizeKeeps == ASSUME IInv, Finalize PROVE IInv'
<1>1. Main \in Threads
    BY DEF Threads
<1> QED BY <1>1, ProtectKeeps DEF Finalize

\* An executor whose first call is on top has resumed no coroutine that is not
\* finished.
LEMMA AtEntryAlone ==
    ASSUME NEW lvl \in [Threads -> Nat], NEW rank \in [Threads -> Nat], Shape, Core(lvl, rank),
           Deep > 0, nested[Deep].kind = "exec", AtEntry
    PROVE  \A t \in Threads : Linked(t) => lvl[t] <= Deep - 1
<1>1. Deep \in Nat /\ Top = nested[Deep] /\ current \in Threads /\ None \notin Threads
    BY ExecutorIs, FrameTypes
<1> SUFFICES ASSUME NEW t \in Threads, Linked(t) PROVE lvl[t] <= Deep - 1
    OBVIOUS
<1>2. lvl[t] # Deep
    <2> SUFFICES ASSUME lvl[t] = Deep PROVE FALSE
        OBVIOUS
    <2>1. resumer[t] \in Threads
        BY <1>1 DEF Shape, Linked
    <2>2. rank[t] = RankAt(resumer[t], Deep, rank) + 1 /\ rank[t] <= RankAt(AtTop(Deep), Deep, rank)
        BY DEF Core, Chained
    <2>3. RankAt(resumer[t], Deep, rank) \in Nat
        BY <2>1 DEF RankAt
    <2>4. AtTop(Deep) = current
        BY <1>1 DEF AtTop
    <2>5. RankAt(AtTop(Deep), Deep, rank) = 0
        BY <1>1, <2>4 DEF RankAt, AtEntry
    <2> QED BY <2>2, <2>3, <2>5
<1>3. lvl[t] \in 1..Deep
    BY DEF Core, Chained
<1> QED BY <1>1, <1>2, <1>3

\* The count when the call on top of thread t returns to native code, with the
\* C function it was called by.
LEMMA ReturnCounted ==
    ASSUME Shape, Counted, nested # << >>, ~Protected(Top), nested' = Front(nested),
           calls[Top.thread] # << >>, Last(calls[Top.thread]) # "js",
           calls' = [calls EXCEPT ![Top.thread] = Front(@)],
           prevent' = [prevent EXCEPT ![Top.thread] = @ - 1]
    PROVE  Counted'
<1>1. /\ Top.thread \in Threads /\ calls \in [Threads -> Seq(Kinds)]
      /\ prevent \in [Threads -> Nat]
    BY StackFacts, PreventIs DEF Shape
<1>2. \A s \in Threads : ProtectedThere(nested', s) = ProtectedThere(nested, s)
    BY FrontCounts
<1>3. CallsThere(calls'[Top.thread]) = CallsThere(calls[Top.thread]) - 1
    <2>1. CallsThere(Front(calls[Top.thread])) = CallsThere(calls[Top.thread]) - 1
        BY <1>1, CountReturn
    <2> QED BY <1>1, <2>1
<1>4. \A s \in Threads : prevent'[s] = CallsThere(calls'[s]) + ProtectedThere(nested', s)
    <2> SUFFICES ASSUME NEW s \in Threads
                 PROVE  prevent'[s] = CallsThere(calls'[s]) + ProtectedThere(nested', s)
        OBVIOUS
    <2>1. /\ prevent[s] = CallsThere(calls[s]) + ProtectedThere(nested, s)
          /\ CallsThere(calls[s]) \in Nat /\ ProtectedThere(nested, s) \in Nat
        BY PreventIs
    <2>2. CASE s = Top.thread
        <3>1. prevent'[s] = prevent[s] - 1
            BY <1>1, <2>2
        <3> QED BY <1>2, <1>3, <2>1, <2>2, <3>1
    <2>3. CASE s # Top.thread
        BY <1>1, <1>2, <2>1, <2>3
    <2> QED BY <2>2, <2>3
<1>5. DOMAIN prevent' = Threads /\ prevent' = [s \in DOMAIN prevent' |-> prevent'[s]]
    BY <1>1
<1> QED BY <1>4, <1>5, Recount

\* Its shape, and the calls below.
LEMMA ReturnShape ==
    ASSUME Shape, Piled, nested # << >>, ReturnToC, calls[Top.thread] # << >>, running' \in Modes,
           Len(calls[Top.thread]) = Top.depth + 1
    PROVE  /\ Shape' /\ Piled'
           /\ Len(calls'[Top.thread]) = Top.depth
           /\ \A p \in 1..Top.depth : calls'[Top.thread][p] = calls[Top.thread][p]
           /\ \A t \in Threads \ {Top.thread} : calls'[t] = calls[t]
<1>1. /\ Top.thread \in Threads /\ Top.depth \in Nat /\ Top.current \in Threads \cup {None}
      /\ Top.state \in States /\ Front(nested) \in Seq(Frames)
      /\ calls \in [Threads -> Seq(Kinds)]
    BY StackFacts DEF Shape
<1>2. /\ calls' = [calls EXCEPT ![Top.thread] = Front(calls[Top.thread])]
      /\ current' = Top.current /\ state' = [state EXCEPT ![Top.thread] = Top.state]
      /\ nested' = Front(nested) /\ UNCHANGED <<resumer, known>>
    BY DEF ReturnToC, Restored
<1>3. /\ Front(calls[Top.thread]) \in Seq(Kinds)
      /\ Len(Front(calls[Top.thread])) = Len(calls[Top.thread]) - 1
      /\ \A p \in 1..Len(calls[Top.thread]) - 1 : Front(calls[Top.thread])[p] = calls[Top.thread][p]
    <2> PICK s \in Seq(Kinds) : s = calls[Top.thread]
        BY <1>1
    <2>1. /\ Front(s) \in Seq(Kinds) /\ Len(Front(s)) = Len(s) - 1
          /\ \A p \in 1..Len(s) - 1 : Front(s)[p] = s[p]
        BY FrontFacts
    <2> QED BY <2>1
<1>4. calls'[Top.thread] = Front(calls[Top.thread]) /\ calls' \in [Threads -> Seq(Kinds)]
      /\ \A t \in Threads \ {Top.thread} : calls'[t] = calls[t]
    BY <1>1, <1>2, <1>3
<1>5. Len(calls'[Top.thread]) = Top.depth /\ Len(calls[Top.thread]) - 1 = Top.depth
    BY <1>1, <1>3, <1>4
<1>6. Shape'
    BY <1>1, <1>2, <1>4 DEF Shape
<1>7. \A t \in Threads : Trimmed(t)
    BY <1>4, TrimmedFront, TrimmedSame
<1>8. Top.depth + 1 >= Len(calls'[Top.thread])
    BY <1>1, <1>5
<1>9. Piled'
    BY <1>2, <1>6, <1>7, <1>8, StartsLeft, PiledStep
<1> QED BY <1>3, <1>4, <1>5, <1>6, <1>9

LEMMA NativeReturnsKeeps == ASSUME IInv, NativeReturns PROVE IInv'
<1> PICK lvl \in [Threads -> Nat], rank \in [Threads -> Nat] : Core(lvl, rank)
    BY DEF IInv, Fitting
<1>1. /\ Shape /\ Counted /\ Piled /\ running = "native" /\ nested # << >> /\ ReturnToC
      /\ running' = "js"
    BY DEF IInv, NativeReturns
<1>2. /\ Top.kind = "native"
      /\ current = Top.thread /\ state[current] = "running" /\ Top.state = "running"
      /\ Top.current = current /\ Len(calls[current]) = Top.depth + 1 /\ Last(calls[current]) = "native"
    BY <1>1, NativeIs
<1>3. /\ Top.depth \in Nat /\ Top.thread \in Threads
    BY <1>1, StackFacts
<1>4. calls[current] # << >>
    BY <1>1, <1>2, <1>3, LenFacts DEF Shape
<1>5. /\ Shape' /\ Piled'
      /\ Len(calls'[Top.thread]) = Top.depth
      /\ \A p \in 1..Top.depth : calls'[Top.thread][p] = calls[Top.thread][p]
      /\ \A t \in Threads \ {Top.thread} : calls'[t] = calls[t]
    BY <1>1, <1>2, <1>4, ReturnShape DEF Modes
<1>6. UNCHANGED <<state, resumer, current>> /\ nested' = Front(nested)
    BY <1>1, <1>2, <1>3 DEF ReturnToC, Restored, Shape
<1>7. Counted'
    BY <1>1, <1>2, <1>4, ReturnCounted DEF ReturnToC, Protected
<1>8. Top.depth <= Len(calls'[current])
    BY <1>2, <1>3, <1>5
<1>9. Core(lvl, rank)'
    BY <1>1, <1>2, <1>5, <1>6, <1>8, NativeLeft
<1> QED BY <1>5, <1>7, <1>9 DEF IInv, Fitting

LEMMA ExecutorReturnsKeeps == ASSUME IInv, ExecutorReturns PROVE IInv'
<1> PICK lvl \in [Threads -> Nat], rank \in [Threads -> Nat] : Core(lvl, rank)
    BY DEF IInv, Fitting
<1>1. /\ Shape /\ Counted /\ Piled /\ running = "js" /\ AtEntry /\ ReturnToC
      /\ running' = Top.from
    BY DEF IInv, ExecutorReturns
<1>2. /\ nested # << >> /\ Deep > 0 /\ Top = nested[Deep] /\ Top.kind = "exec"
      /\ ~Switches(Top) /\ ~Rejected(Top)
    BY <1>1, ScriptIs
<1>3. /\ current = Top.thread /\ Len(calls[Top.thread]) = Top.depth + 1
      /\ calls[Top.thread][Top.depth + 1] = "entry"
    BY <1>1, <1>2, ExecutorIs DEF AtEntry
<1>4. /\ Top.depth \in Nat /\ Top.thread \in Threads /\ Top.from \in Modes
      /\ Deep \in Nat /\ Front(nested) = SubSeq(nested, 1, Deep - 1)
    BY <1>1, <1>2, StackFacts
<1>5. calls[Top.thread] # << >> /\ Last(calls[Top.thread]) = "entry"
    BY <1>1, <1>3, <1>4, LenFacts DEF Shape, Last
<1>6. /\ Shape' /\ Piled'
      /\ Len(calls'[Top.thread]) = Top.depth
      /\ \A p \in 1..Top.depth : calls'[Top.thread][p] = calls[Top.thread][p]
      /\ \A t \in Threads \ {Top.thread} : calls'[t] = calls[t]
    BY <1>1, <1>2, <1>3, <1>4, <1>5, ReturnShape
<1>7. Counted'
    BY <1>1, <1>2, <1>5, ReturnCounted DEF ReturnToC, Protected
<1>8. Core(lvl, rank)'
    <2> PICK m, f : m = Deep - 1 /\ f = Top
        OBVIOUS
    <2>1. m \in 0..Deep-1 /\ m + 1 = Deep /\ f = nested[m + 1] /\ \A i \in m+2..Deep : ~Switches(nested[i])
        BY <1>2, <1>4
    <2>2. /\ nested' = SubSeq(nested, 1, m) /\ resumer' = resumer /\ current' = f.current
          /\ state' = [state EXCEPT ![f.thread] = f.state]
        BY <1>1, <1>4 DEF ReturnToC, Restored
    <2>3. \A t \in Threads : Linked(t) => lvl[t] <= m
        BY <1>1, <1>2, AtEntryAlone
    <2>4. /\ current = f.thread /\ ~Rejected(nested[Deep]) /\ ~Rejected(f)
          /\ \A t \in Threads \ {f.thread} : calls'[t] = calls[t]
          /\ \A p \in 1..f.depth : calls'[f.thread][p] = calls[f.thread][p]
          /\ running' = f.from /\ Len(calls'[f.thread]) = f.depth /\ running # "end"
        BY <1>1, <1>2, <1>3, <1>6
    <2>5. f.depth <= Len(calls'[f.thread])
        BY <1>4, <2>4
    <2> QED BY <1>1, <1>6, <2>1, <2>2, <2>3, <2>4, <2>5, CutStep DEF Leaves
<1> QED BY <1>6, <1>7, <1>8 DEF IInv, Fitting

LEMMA SafeReturnsKeeps == ASSUME IInv, SafeReturns PROVE IInv'
<1> PICK lvl \in [Threads -> Nat], rank \in [Threads -> Nat] : Core(lvl, rank)
    BY DEF IInv, Fitting
<1>1. /\ Shape /\ Counted /\ Piled /\ running = "protected" /\ running' = Top.from
      /\ current' = Top.current /\ state' = [state EXCEPT ![Top.thread] = Top.state]
      /\ prevent' = [prevent EXCEPT ![Top.thread] = @ - 1]
      /\ nested' = Front(nested)
      /\ UNCHANGED <<resumer, calls, known>>
    BY DEF IInv, SafeReturns, Restored
<1>2. /\ nested # << >> /\ Protected(Top) /\ ~Rejected(Top) /\ Top.kind # "exec"
      /\ current = Top.thread /\ Len(calls[Top.thread]) = Top.depth
      /\ \A t \in Threads : Linked(t) => lvl[t] <= Deep - 1
    BY <1>1, ProtectedIs DEF Protected
<1>3. /\ Top.depth \in Nat /\ Top.thread \in Threads /\ Top.from \in Modes /\ Top = nested[Deep]
      /\ Top.state \in States /\ Top.current \in Threads \cup {None} /\ Front(nested) \in Seq(Frames)
      /\ Deep \in Nat /\ Deep > 0 /\ Front(nested) = SubSeq(nested, 1, Deep - 1)
    BY <1>1, <1>2, StackFacts
<1>4. Shape'
    BY <1>1, <1>3 DEF Shape
<1>5. Counted'
    <2>1. \A s \in Threads : ProtectedThere(nested', s) =
              IF s = Top.thread THEN ProtectedThere(nested, s) - 1 ELSE ProtectedThere(nested, s)
        BY <1>1, <1>2, FrontCounts
    <2>2. ASSUME NEW s \in Threads
          PROVE  prevent'[s] = CallsThere(calls'[s]) + ProtectedThere(nested', s)
        <3>1. /\ prevent[s] = CallsThere(calls[s]) + ProtectedThere(nested, s)
              /\ CallsThere(calls[s]) \in Nat /\ ProtectedThere(nested, s) \in Nat
              /\ prevent \in [Threads -> Nat]
            BY <1>1, PreventIs
        <3>2. CASE s = Top.thread
            <4>1. prevent'[s] = prevent[s] - 1
                BY <1>1, <3>1, <3>2
            <4> QED BY <1>1, <2>1, <3>1, <3>2, <4>1
        <3>3. CASE s # Top.thread
            BY <1>1, <2>1, <3>1, <3>3
        <3> QED BY <3>2, <3>3
    <2>3. DOMAIN prevent' = Threads /\ prevent' = [s \in DOMAIN prevent' |-> prevent'[s]]
        BY <1>1, PreventIs
    <2> QED BY <2>2, <2>3, Recount
<1>6. Piled'
    BY <1>1, <1>2, <1>4, StartsLeft, PiledStays
<1>7. Core(lvl, rank)'
    <2> PICK m, f : m = Deep - 1 /\ f = Top
        OBVIOUS
    <2>1. m \in 0..Deep-1 /\ m + 1 = Deep /\ f = nested[m + 1] /\ \A i \in m+2..Deep : ~Switches(nested[i])
        BY <1>3
    <2>2. /\ nested' = SubSeq(nested, 1, m) /\ resumer' = resumer /\ current' = f.current
          /\ state' = [state EXCEPT ![f.thread] = f.state]
        BY <1>1, <1>3
    <2>3. \A t \in Threads : Linked(t) => lvl[t] <= m
        BY <1>2
    <2>4. /\ current = f.thread /\ ~Rejected(nested[Deep]) /\ calls' = calls
          /\ running' = f.from /\ Len(calls'[f.thread]) = f.depth /\ running # "end"
        BY <1>1, <1>2, <1>3
    <2>5. f.depth <= Len(calls'[f.thread])
        BY <1>3, <2>4
    <2> QED BY <1>1, <1>4, <2>1, <2>2, <2>3, <2>4, <2>5, CutStep DEF Leaves
<1> QED BY <1>4, <1>5, <1>6, <1>7 DEF IInv, Fitting

\* A sequence cut at its end.
LEMMA CutAll == ASSUME NEW s \in Seq(Kinds) PROVE SubSeq(s, 1, Len(s)) = s
OBVIOUS

LEMMA SafeFailsKeeps == ASSUME IInv, SafeFails PROVE IInv'
<1> PICK lvl \in [Threads -> Nat], rank \in [Threads -> Nat] : Core(lvl, rank)
    BY DEF IInv, Fitting
<1>1. /\ Shape /\ Counted /\ Piled /\ running = "error" /\ running' = Top.from
      /\ Top.kind \in {"safe", "finalizer"}
      /\ current' = Top.current /\ state' = [state EXCEPT ![Top.thread] = Top.state]
      /\ calls' = [calls EXCEPT ![Top.thread] = SubSeq(@, 1, Top.depth)]
      /\ prevent' = [prevent EXCEPT ![Top.thread] = @ - Released(Top.thread, Top.depth) - 1]
      /\ nested' = Front(nested)
      /\ UNCHANGED <<resumer, known>>
    BY DEF IInv, SafeFails, Restored
<1>2. nested # << >>
    <2>1. Deep > 0
        BY <1>1 DEF Core, ModeOK
    <2> QED BY <1>1, <2>1, LenFacts DEF Shape, Deep
<1>3. /\ Top.depth \in Nat /\ Top.thread \in Threads /\ Top.from \in Modes /\ Top = nested[Deep]
      /\ Top.state \in States /\ Top.current \in Threads \cup {None} /\ Front(nested) \in Seq(Frames)
      /\ Deep \in Nat /\ Deep > 0 /\ Deep \in 1..Deep /\ Front(nested) = SubSeq(nested, 1, Deep - 1)
    BY <1>1, <1>2, StackFacts
<1>4. \A t \in Threads : Linked(t) => lvl[t] <= Deep - 1
    BY <1>1, <1>3, LinksBelow
<1>5. Protected(Top) /\ Top.depth <= Len(calls[Top.thread]) /\ Top.kind # "exec"
    <2>1. Protected(Top) /\ Base(Top) = Top.depth
        BY <1>1 DEF Protected, Base
    <2> QED BY <1>1, <1>3, <2>1 DEF Core, Marked
<1>6. Rejected(Top) \/ (current = Top.thread /\ ~Rejected(Top))
    <2> SUFFICES ASSUME ~Rejected(Top) PROVE current = Top.thread
        OBVIOUS
    <2>1. Serves(current, Deep, lvl)
        BY <1>1, <1>3, CurrentIs
    <2> QED BY <1>3, <1>5, <2>1 DEF Serves
<1>7. Rejected(Top) => Len(calls[Top.thread]) = Top.depth
    BY <1>3 DEF Core, Rejections
<1>8. /\ calls'[Top.thread] = SubSeq(calls[Top.thread], 1, Top.depth)
      /\ calls[Top.thread] \in Seq(Kinds) /\ calls \in [Threads -> Seq(Kinds)]
      /\ \A t \in Threads \ {Top.thread} : calls'[t] = calls[t]
      /\ Top.depth \in 0..Len(calls[Top.thread])
    <2>1. calls[Top.thread] \in Seq(Kinds) /\ calls \in [Threads -> Seq(Kinds)]
        BY <1>1, <1>3 DEF Shape
    <2>2. Len(calls[Top.thread]) \in Nat
        BY <2>1, LenFacts
    <2> QED BY <1>1, <1>3, <1>5, <2>1, <2>2, SMTT(60)
<1>9. /\ calls'[Top.thread] \in Seq(Kinds) /\ Len(calls'[Top.thread]) = Top.depth
      /\ \A p \in 1..Top.depth : calls'[Top.thread][p] = calls[Top.thread][p]
    <2> PICK s \in Seq(Kinds) : s = calls[Top.thread]
        BY <1>8
    <2>1. /\ SubSeq(s, 1, Top.depth) \in Seq(Kinds) /\ Len(SubSeq(s, 1, Top.depth)) = Top.depth
          /\ \A p \in 1..Top.depth : SubSeq(s, 1, Top.depth)[p] = s[p]
        BY <1>8, CutFacts
    <2> QED BY <1>8, <2>1
<1>10. Shape'
    <2>1. calls' \in [Threads -> Seq(Kinds)]
        BY <1>1, <1>3, <1>8, <1>9
    <2> QED BY <1>1, <1>3, <2>1 DEF Shape
<1>11. Counted'
    <2>1. \A s \in Threads : ProtectedThere(nested', s) =
              IF s = Top.thread THEN ProtectedThere(nested, s) - 1 ELSE ProtectedThere(nested, s)
        BY <1>1, <1>2, <1>5, FrontCounts
    <2> PICK n : n = Released(Top.thread, Top.depth)
        OBVIOUS
    <2>2. CallsThere(calls'[Top.thread]) = CallsThere(calls[Top.thread]) - n
        BY <1>8, CountCut DEF Released
    <2>3. n \in Nat
        <3>1. IsFiniteSet(DOMAIN calls[Top.thread])
            BY <1>8, LenFacts, FS_Interval
        <3>2. {i \in DOMAIN calls[Top.thread] : i > Top.depth /\ PreventsYield(calls[Top.thread][i])}
                  \subseteq DOMAIN calls[Top.thread]
            OBVIOUS
        <3> QED BY <3>1, <3>2, FS_Subset, FS_CardinalityType DEF Released
    <2>4. ASSUME NEW s \in Threads
          PROVE  prevent'[s] = CallsThere(calls'[s]) + ProtectedThere(nested', s)
        <3>1. /\ prevent[s] = CallsThere(calls[s]) + ProtectedThere(nested, s)
              /\ CallsThere(calls[s]) \in Nat /\ ProtectedThere(nested, s) \in Nat
              /\ prevent \in [Threads -> Nat]
            BY <1>1, PreventIs
        <3>2. CASE s = Top.thread
            <4>1. prevent'[s] = prevent[s] - n - 1
                BY <1>1, <1>3, <3>1, <3>2
            <4> QED BY <2>1, <2>2, <2>3, <3>1, <3>2, <4>1
        <3>3. CASE s # Top.thread
            BY <1>1, <1>8, <2>1, <3>1, <3>3
        <3> QED BY <3>2, <3>3
    <2>5. DOMAIN prevent' = Threads /\ prevent' = [s \in DOMAIN prevent' |-> prevent'[s]]
        BY <1>1, PreventIs
    <2> QED BY <2>4, <2>5, Recount
<1>12. Piled'
    <2>1. \A t \in Threads : Trimmed(t)
        BY <1>1, <1>8, TrimmedSame, TrimmedCut
    <2> QED BY <1>1, <1>2, <1>5, <1>10, <2>1, StartsLeft, PiledStep
<1>13. Rejected(Top) => calls' = calls
    <2> SUFFICES ASSUME Rejected(Top) PROVE calls' = calls
        OBVIOUS
    <2>1. SubSeq(calls[Top.thread], 1, Top.depth) = calls[Top.thread]
        BY <1>7, <1>8, CutAll, SMTT(60)
    <2> QED BY <1>1, <1>8, <2>1
<1>14. Core(lvl, rank)'
    <2> PICK m, f : m = Deep - 1 /\ f = Top
        OBVIOUS
    <2>1. m \in 0..Deep-1 /\ m + 1 = Deep /\ f = nested[m + 1] /\ \A i \in m+2..Deep : ~Switches(nested[i])
        BY <1>3
    <2>2. /\ nested' = SubSeq(nested, 1, m) /\ resumer' = resumer /\ current' = f.current
          /\ state' = [state EXCEPT ![f.thread] = f.state]
        BY <1>1, <1>3
    <2>3. \A t \in Threads : Linked(t) => lvl[t] <= m
        BY <1>4
    <2>4. /\ Rejected(f) \/ (current = f.thread /\ ~Rejected(nested[Deep]))
          /\ \A t \in Threads \ {f.thread} : calls'[t] = calls[t]
          /\ Rejected(f) => calls' = calls
          /\ \A p \in 1..f.depth : calls'[f.thread][p] = calls[f.thread][p]
          /\ running' = f.from /\ Len(calls'[f.thread]) = f.depth /\ running # "end"
        BY <1>1, <1>3, <1>6, <1>8, <1>9, <1>13
    <2>5. f.depth <= Len(calls'[f.thread])
        BY <1>3, <2>4
    <2> QED BY <1>1, <1>10, <2>1, <2>2, <2>3, <2>4, <2>5, CutStep DEF Leaves
<1> QED BY <1>10, <1>11, <1>12, <1>14 DEF IInv, Fitting

(***************************************************************************)
(* Returns to JS code, errors                                              *)
(***************************************************************************)

\* A call that is not the one an executor was started for is above what C
\* functions work for.
LEMMA AboveBases ==
    ASSUME NEW lvl \in [Threads -> Nat], NEW rank \in [Threads -> Nat], Shape, Core(lvl, rank),
           Deep > 0, nested[Deep].kind = "exec", ~AtEntry, NEW i \in 1..Deep, nested[i].thread = current
    PROVE  /\ current = Top.thread /\ Base(nested[i]) <= Top.depth + 1
           /\ Base(nested[i]) <= Len(calls[current]) - 1 /\ Top.depth + 1 <= Len(calls[current]) - 1
<1>1. current = Top.thread /\ Base(nested[i]) <= Top.depth + 1
    BY BasesBelow
<1>2. Top.depth + 1 <= Len(calls[Top.thread]) /\ Top = nested[Deep] /\ Top.thread \in Threads
    BY ExecutorIs
<1>3. Top.depth \in Nat /\ Len(calls[current]) \in Nat /\ Base(nested[i]) \in Nat
    BY <1>1, <1>2, ExecutorIs, FrameTypes
<1>4. Top.depth + 1 # Len(calls[current])
    BY <1>1 DEF AtEntry
<1>5. Top.depth + 1 <= Len(calls[current]) - 1
    <2> PICK d, n : d = Top.depth /\ n = Len(calls[current])
        OBVIOUS
    <2>1. d + 1 <= n /\ d + 1 # n /\ d \in Nat /\ n \in Nat
        BY <1>1, <1>2, <1>3, <1>4
    <2>2. d + 1 <= n - 1
        BY <2>1
    <2> QED BY <2>2
<1>6. Base(nested[i]) <= Len(calls[current]) - 1
    BY <1>1, <1>3, <1>5
<1> QED BY <1>1, <1>5, <1>6

\* All fits together when the last call of the current thread ends.
LEMMA DropKeeps ==
    ASSUME NEW lvl \in [Threads -> Nat], NEW rank \in [Threads -> Nat], Shape, Piled, Core(lvl, rank),
           Deep > 0, nested[Deep].kind = "exec", ~AtEntry, calls[current] # << >>,
           calls' = [calls EXCEPT ![current] = Front(@)],
           UNCHANGED <<state, resumer, current, nested, running, known>>,
           \/ running = "error"
           \/ running = "js" /\ Len(calls[current]) > 1
    PROVE  Shape' /\ Piled' /\ Core(lvl, rank)'
<1>1. /\ current \in Threads /\ Top = nested[Deep] /\ ~Rejected(nested[Deep]) /\ Deep \in 1..Deep
      /\ Deep \in Nat
    BY ExecutorIs
<1>2. calls[current] \in Seq(Kinds) /\ calls \in [Threads -> Seq(Kinds)] /\ Len(calls[current]) \in Nat
    BY <1>1, FrameTypes DEF Shape
<1>3. /\ calls'[current] = Front(calls[current]) /\ \A t \in Threads \ {current} : calls'[t] = calls[t]
    BY <1>1, <1>2
<1>4. /\ Front(calls[current]) \in Seq(Kinds) /\ Len(Front(calls[current])) = Len(calls[current]) - 1
      /\ \A p \in 1..Len(calls[current]) - 1 : Front(calls[current])[p] = calls[current][p]
    <2> PICK s \in Seq(Kinds) : s = calls[current]
        BY <1>2
    <2>1. /\ Front(s) \in Seq(Kinds) /\ Len(Front(s)) = Len(s) - 1
          /\ \A p \in 1..Len(s) - 1 : Front(s)[p] = s[p]
        BY FrontFacts
    <2> QED BY <2>1
<1>5. Shape'
    BY <1>1, <1>2, <1>4 DEF Shape
<1>6. Piled'
    <2>1. \A t \in Threads : Trimmed(t)
        BY <1>3, TrimmedFront, TrimmedSame
    <2> QED BY <1>5, <2>1, StartsStay, PiledStep
<1>7. ASSUME NEW i \in 1..Deep, nested[i].thread = current
      PROVE  /\ Base(nested[i]) <= Len(calls'[current])
             /\ \A p \in 1..Base(nested[i]) : calls'[current][p] = calls[current][p]
    <2>1. Base(nested[i]) <= Len(calls[current]) - 1
        BY <1>7, AboveBases
    <2>2. Base(nested[i]) \in Nat
        BY <1>7, FrameTypes
    <2>3. \A p \in 1..Base(nested[i]) : p \in 1..Len(calls[current]) - 1
        BY <1>2, <2>1, <2>2
    <2>4. Base(nested[i]) <= Len(calls'[current])
        BY <1>3, <1>4, <2>1
    <2> QED BY <1>3, <1>4, <2>3, <2>4
<1>8. ASSUME running = "js"
      PROVE  GoesOn("js", current, calls'[current], Len(calls'[current]), nested[Deep])
    <2> PICK d : d = Len(calls[current]) - 1
        OBVIOUS
    <2>1. d \in 1..Len(calls[current]) - 1 /\ d + 1 = Len(calls[current]) /\ d \in Nat /\ d >= 1
        BY <1>2, <1>8
    <2>2. calls[current][d + 1] = "js"
        <3>1. GoesOn("js", current, calls[current], Len(calls[current]), Top)
            BY <1>1, <1>8 DEF Core, CurrentGoesOn
        <3> QED BY <2>1, <3>1 DEF GoesOn, AtEntry
    <2>3. calls[current][d] = "js" \/ Started(current, d)
        BY <1>1, <2>1, <2>2 DEF Piled
    <2>4. Started(current, d) => current = Top.thread /\ d = Top.depth + 1
        <3> SUFFICES ASSUME Started(current, d) PROVE current = Top.thread /\ d = Top.depth + 1
            OBVIOUS
        <3> PICK j \in 1..Deep :
                 nested[j].kind = "exec" /\ nested[j].thread = current /\ nested[j].depth + 1 = d
            BY DEF Started
        <3>1. Base(nested[j]) = d
            BY DEF Base, Protected
        <3>2. current = Top.thread /\ d <= Top.depth + 1 /\ Top.depth + 1 <= Len(calls[current]) - 1
            BY <3>1, AboveBases
        <3>3. Top.depth \in Nat
            BY <1>1, FrameTypes
        <3> QED BY <1>2, <2>1, <3>2, <3>3
    <2>5. calls'[current][d] = calls[current][d] /\ Len(calls'[current]) = d
        BY <1>2, <1>3, <1>4, <2>1
    <2> QED BY <1>1, <2>1, <2>3, <2>4, <2>5 DEF GoesOn
<1>9. Core(lvl, rank)'
    BY <1>1, <1>3, <1>5, <1>7, <1>8, KeepStep
<1> QED BY <1>5, <1>6, <1>9

LEMMA ReturnKeeps == ASSUME IInv, Return PROVE IInv'
<1> PICK lvl \in [Threads -> Nat], rank \in [Threads -> Nat] : Core(lvl, rank)
    BY DEF IInv, Fitting
<1>1. /\ Shape /\ Counted /\ Piled /\ running = "js" /\ ~AtEntry /\ Len(calls[current]) > 1
      /\ calls' = [calls EXCEPT ![current] = Front(@)]
      /\ UNCHANGED <<state, resumer, prevent, current, nested, running, known>>
    BY DEF IInv, Return
<1>2. /\ Deep > 0 /\ Top = nested[Deep] /\ Top.kind = "exec" /\ current \in Threads
      /\ GoesOn("js", current, calls[current], Len(calls[current]), Top)
    BY <1>1, ScriptIs
<1>3. calls[current] # << >> /\ Last(calls[current]) = "js"
    <2>1. calls[current] # << >>
        BY <1>1, <1>2, LenFacts DEF Shape
    <2> QED BY <1>1, <1>2, <2>1 DEF GoesOn, AtEntry, Last
<1>4. Shape' /\ Piled' /\ Core(lvl, rank)'
    BY <1>1, <1>2, <1>3, DropKeeps
<1>5. Counted'
    <2>1. \A s \in Threads : CallsThere(calls'[s]) = CallsThere(calls[s])
        <3>1. calls \in [Threads -> Seq(Kinds)]
            BY <1>1 DEF Shape
        <3>2. CallsThere(Front(calls[current])) = CallsThere(calls[current])
            BY <1>2, <1>3, <3>1, CountReturn
        <3> QED BY <1>1, <1>2, <3>1, <3>2
    <2> QED BY <1>1, <2>1, PreventIs, Recount
<1> QED BY <1>4, <1>5 DEF IInv, Fitting

LEMMA UnwindKeeps == ASSUME IInv, Unwind PROVE IInv'
<1> PICK lvl \in [Threads -> Nat], rank \in [Threads -> Nat] : Core(lvl, rank)
    BY DEF IInv, Fitting
<1> PICK n : n = Released(current, Len(calls[current]) - 1)
    OBVIOUS
<1>1. /\ Shape /\ Counted /\ Piled /\ running = "error" /\ Top.kind = "exec"
      /\ calls[current] # << >> /\ ~AtEntry
      /\ prevent' = [prevent EXCEPT ![current] = @ - n]
      /\ calls' = [calls EXCEPT ![current] = Front(@)]
      /\ UNCHANGED <<state, resumer, current, nested, running, known>>
    BY DEF IInv, Unwind, InExecutor
<1>2. Deep > 0 /\ Top = nested[Deep]
    <2>1. Deep > 0
        BY <1>1 DEF Core, ModeOK
    <2>2. nested # << >>
        BY <1>1, <2>1, LenFacts DEF Shape, Deep
    <2> QED BY <1>1, <2>2, StackFacts
<1>3. current \in Threads
    BY <1>1, <1>2, ExecutorIs
<1>4. Shape' /\ Piled' /\ Core(lvl, rank)'
    BY <1>1, <1>2, DropKeeps
<1>5. Counted'
    <2>1. calls[current] \in Seq(Kinds) /\ calls \in [Threads -> Seq(Kinds)]
        BY <1>1, <1>3 DEF Shape
    <2>2. Len(calls[current]) - 1 \in 0..Len(calls[current])
        BY <1>1, <2>1, LenFacts
    <2>3. CallsThere(Front(calls[current])) = CallsThere(calls[current]) - n
        BY <2>1, <2>2, CountCut DEF Front, Released
    <2>4. n \in Nat
        <3>1. IsFiniteSet(DOMAIN calls[current])
            BY <2>1, LenFacts, FS_Interval
        <3>2. {i \in DOMAIN calls[current] :
                  i > Len(calls[current]) - 1 /\ PreventsYield(calls[current][i])}
                  \subseteq DOMAIN calls[current]
            OBVIOUS
        <3> QED BY <3>1, <3>2, FS_Subset, FS_CardinalityType DEF Released
    <2>5. ASSUME NEW s \in Threads
          PROVE  prevent'[s] = CallsThere(calls'[s]) + ProtectedThere(nested', s)
        <3>1. /\ prevent[s] = CallsThere(calls[s]) + ProtectedThere(nested, s)
              /\ CallsThere(calls[s]) \in Nat /\ ProtectedThere(nested, s) \in Nat
              /\ prevent \in [Threads -> Nat]
            BY <1>1, PreventIs
        <3>2. CASE s = current
            <4>1. prevent'[s] = prevent[s] - n /\ calls'[s] = Front(calls[s])
                BY <1>1, <1>3, <2>1, <3>1, <3>2
            <4>2. CallsThere(calls'[s]) = CallsThere(calls[s]) - n /\ nested' = nested
                BY <1>1, <2>3, <3>2, <4>1
            <4> QED BY <2>4, <3>1, <4>1, <4>2
        <3>3. CASE s # current
            BY <1>1, <2>1, <3>1, <3>3
        <3> QED BY <3>2, <3>3
    <2>6. DOMAIN prevent' = Threads /\ prevent' = [s \in DOMAIN prevent' |-> prevent'[s]]
        BY <1>1, PreventIs
    <2> QED BY <2>5, <2>6, Recount
<1> QED BY <1>4, <1>5 DEF IInv, Fitting

LEMMA RethrowKeeps == ASSUME IInv, Rethrow PROVE IInv'
<1> PICK lvl \in [Threads -> Nat], rank \in [Threads -> Nat] : Core(lvl, rank)
    BY DEF IInv, Fitting
<1>1. /\ Shape /\ Counted /\ Piled /\ running = "error" /\ Top.kind = "exec" /\ AtEntry
      /\ nested' = Landing(Front(nested))
      /\ UNCHANGED <<state, resumer, calls, prevent, current, running, known>>
    BY DEF IInv, Rethrow, InExecutor, Outer
<1>2. Deep > 0 /\ nested # << >>
    <2>1. Deep > 0
        BY <1>1 DEF Core, ModeOK
    <2> QED BY <1>1, <2>1, LenFacts DEF Shape, Deep
<1>3. /\ Deep \in Nat /\ Deep \in 1..Deep /\ Top = nested[Deep] /\ Top.thread \in Threads
      /\ Top.depth \in Nat /\ Front(nested) \in Seq(Frames) /\ Len(Front(nested)) = Deep - 1
      /\ \A i \in 1..Deep - 1 : Front(nested)[i] = nested[i]
      /\ Front(nested) = SubSeq(nested, 1, Deep - 1) /\ nested \in Seq(Frames)
    BY <1>1, <1>2, StackFacts DEF Shape
<1>4. /\ current = Top.thread /\ ~Switches(Top) /\ ~Rejected(Top) /\ state[current] = "running"
      /\ Top.depth + 1 <= Len(calls[Top.thread])
    BY <1>1, <1>2, <1>3, ExecutorIs DEF AtEntry, Frozen
<1>5. /\ Deep > 1 /\ Top.from \in {"native", "protected"} /\ nested[Deep - 1].thread = Top.thread
      /\ Fits(Top.from, Deep - 1) /\ Top.state = "running" /\ Top.current = current
    <2>1. FrameOK(Top, Deep)
        BY <1>3 DEF Core, FramesOK
    <2> QED BY <1>1, <1>4, <2>1 DEF FrameOK, Switches
<1>6. Deep - 1 \in 1..Deep /\ nested[Deep - 1].kind \in {"safe", "finalizer", "native"}
    <2>1. Deep - 1 > 0 /\ Deep - 1 # 0 /\ Deep - 1 \in 1..Deep
        BY <1>3, <1>5
    <2> QED BY <1>5, <2>1 DEF Fits, Protected
<1>7. Last(Front(nested)) = nested[Deep - 1] /\ Front(nested) # << >>
    <2> PICK o \in Seq(Frames) : o = Front(nested)
        BY <1>3
    <2>1. Len(o) = Deep - 1 /\ Deep - 1 # 0 /\ Deep - 1 \in 1..Deep - 1
        BY <1>3, <1>5
    <2>2. o # << >> /\ Last(o) = o[Len(o)]
        BY <2>1, LenFacts, FrontFacts
    <2> QED BY <1>3, <2>1, <2>2
<1>8. \A t \in Threads : Linked(t) => lvl[t] <= Deep - 1
    BY <1>1, <1>2, <1>3, AtEntryAlone
<1>9. \A s \in Threads : ProtectedThere(Front(nested), s) = ProtectedThere(nested, s)
    BY <1>1, <1>2, FrontCounts DEF Protected
<1>10. CASE nested[Deep - 1].kind # "native"
    <2>1. nested' = Front(nested)
        BY <1>1, <1>7, <1>10 DEF Landing
    <2>2. Shape'
        BY <1>1, <1>3, <2>1 DEF Shape
    <2>3. Counted'
        BY <1>1, <1>9, <2>1, CountedStays
    <2>4. Piled'
        <3>1. Top.depth + 1 >= Len(calls'[Top.thread])
            BY <1>1, <1>3, <1>4 DEF AtEntry
        <3> QED BY <1>1, <1>2, <2>1, <2>2, <3>1, StartsLeft, PiledStays
    <2>5. Core(lvl, rank)'
        <3> PICK m, f : m = Deep - 1 /\ f = Top
            OBVIOUS
        <3>1. /\ m \in 0..Deep-1 /\ m + 1 = Deep /\ f = nested[m + 1] /\ m > 0
              /\ \A i \in m+2..Deep : ~Switches(nested[i])
            BY <1>3, <1>5, SMTT(60)
        <3>2. /\ nested' = SubSeq(nested, 1, m) /\ resumer' = resumer /\ current' = f.current
              /\ state' = [state EXCEPT ![f.thread] = f.state]
            BY <1>1, <1>3, <1>4, <1>5, <2>1 DEF Shape
        <3>3. /\ current = f.thread /\ ~Rejected(nested[Deep]) /\ calls' = calls
              /\ running' = "error" /\ ~Switches(f) /\ nested[m].kind # "native" /\ running # "end"
              /\ \A t \in Threads : Linked(t) => lvl[t] <= m
            BY <1>1, <1>3, <1>4, <1>8, <1>10
        <3>4. f.depth <= Len(calls'[f.thread])
            <4>1. Len(calls[Top.thread]) \in Nat
                BY <1>1, <1>3, FrameTypes
            <4> QED BY <1>1, <1>3, <1>4, <4>1
        <3> QED BY <1>1, <2>2, <3>1, <3>2, <3>3, <3>4, CutStep DEF Leaves
    <2> QED BY <2>2, <2>3, <2>4, <2>5 DEF IInv, Fitting
<1>11. CASE nested[Deep - 1].kind = "native"
    <2> PICK m, f : m = Deep - 2 /\ f = nested[Deep - 1]
        OBVIOUS
    <2> PICK o : o = Front(nested)
        OBVIOUS
    <2>1. /\ nested' = Front(o) /\ o # << >> /\ o \in Seq(Frames) /\ Len(o) = Deep - 1
          /\ \A i \in 1..Deep - 1 : o[i] = nested[i]
          /\ Last(o) = nested[Deep - 1]
        BY <1>1, <1>3, <1>7, <1>11 DEF Landing
    <2>2. /\ nested' \in Seq(Frames) /\ Len(nested') = m
          /\ \A i \in 1..m : nested'[i] = nested[i]
          /\ m \in 0..Deep - 1 /\ m + 1 = Deep - 1
        <3>1. /\ Front(o) \in Seq(Frames) /\ Len(Front(o)) = Len(o) - 1
              /\ \A i \in 1..Len(o) - 1 : Front(o)[i] = o[i]
            BY <2>1, FrontFacts
        <3>2. Len(o) - 1 = m /\ m \in 0..Deep - 1 /\ m + 1 = Deep - 1
            BY <1>3, <1>5, <2>1
        <3>3. \A i \in 1..m : i \in 1..Deep - 1
            BY <3>2
        <3> QED BY <2>1, <3>1, <3>2, <3>3
    <2>3. Shape'
        BY <1>1, <2>2 DEF Shape
    <2>4. Counted'
        <3>1. \A s \in Threads : ProtectedThere(nested', s) = ProtectedThere(o, s)
            BY <1>11, <2>1, CountFront DEF Protected
        <3>2. \A s \in Threads : ProtectedThere(nested', s) = ProtectedThere(nested, s)
            BY <1>9, <3>1
        <3> QED BY <1>1, <3>2, CountedStays
    <2>5. Piled'
        <3>1. ASSUME NEW j \in 1..Deep PROVE StartKept(j)
            <4>1. Deep' = m
                BY <2>2 DEF Deep
            <4>2. j \in 1..m \/ j = Deep - 1 \/ j = Deep
                BY <1>3, <2>2
            <4>3. CASE j \in 1..m
                BY <2>2, <4>1, <4>3 DEF StartKept
            <4>4. CASE j = Deep - 1
                BY <1>11, <4>4 DEF StartKept
            <4>5. CASE j = Deep
                <5>1. Top.depth + 1 >= Len(calls'[Top.thread])
                    BY <1>1, <1>3, <1>4 DEF AtEntry
                <5> QED BY <1>3, <4>5, <5>1 DEF StartKept
            <4> QED BY <4>2, <4>3, <4>4, <4>5
        <3> QED BY <1>1, <2>3, <3>1, PiledStays
    <2>6. /\ f.from = "js" /\ ~Switches(f) /\ f.state = "running" /\ f.thread = current
          /\ f.current = current /\ m > 0 /\ nested[m].kind = "exec"
        <3>1. FrameOK(f, Deep - 1)
            BY <1>6 DEF Core, FramesOK
        <3>2. f.from = "js" /\ Fits("js", Deep - 1 - 1) /\ ~Switches(f) /\ f.state = "running"
            BY <1>11, <3>1 DEF FrameOK, Protected
        <3>3. Deep - 1 - 1 = m
            BY <1>3
        <3>4. Fits("js", m)
            BY <3>2, <3>3
        <3> QED BY <1>4, <1>5, <3>2, <3>4 DEF Fits, Switches
    <2>7. f.depth <= Len(calls'[f.thread])
        <3>1. Base(f) <= Len(calls[f.thread])
            BY <1>6 DEF Core, Marked
        <3>2. f.depth \in Nat /\ f.thread \in Threads /\ Base(f) \in Nat /\ Base(f) >= f.depth
            BY <1>1, <1>6, FrameTypes
        <3>3. Len(calls[f.thread]) \in Nat
            BY <1>1, <3>2, FrameTypes
        <3>4. f.depth <= Len(calls[f.thread])
            BY <3>1, <3>2, <3>3
        <3> QED BY <1>1, <3>4
    <2>8. \A t \in Threads : Linked(t) => lvl[t] <= m
        <3> SUFFICES ASSUME NEW t \in Threads, Linked(t) PROVE lvl[t] <= m
            OBVIOUS
        <3>1. lvl[t] \in Nat /\ nested[lvl[t]].kind = "exec" /\ lvl[t] <= Deep - 1
            BY <1>8 DEF Core, Chained
        <3>2. lvl[t] # Deep - 1
            BY <1>11, <3>1
        <3> QED BY <1>3, <2>2, <3>1, <3>2
    <2>9. \A i \in m+2..Deep : ~Switches(nested[i])
        <3>1. \A i \in m+2..Deep : i = Deep
            BY <1>3, <2>2
        <3> QED BY <1>3, <1>4, <3>1
    <2>10. nested' = SubSeq(nested, 1, m)
        <3>1. m \in 0..Len(nested)
            BY <1>3, <2>2 DEF Deep
        <3>2. /\ SubSeq(nested, 1, m) \in Seq(Frames) /\ Len(SubSeq(nested, 1, m)) = m
              /\ \A i \in 1..m : SubSeq(nested, 1, m)[i] = nested[i]
            BY <1>3, <3>1, CutFacts
        <3> QED BY <2>2, <3>2
    <2>11. /\ f = nested[m + 1] /\ resumer' = resumer /\ current' = f.current /\ running # "end"
           /\ state' = [state EXCEPT ![f.thread] = f.state]
           /\ current = f.thread /\ ~Rejected(nested[Deep]) /\ calls' = calls /\ ~Rejected(f)
           /\ running' = "error" /\ nested[m].kind # "native"
        BY <1>1, <1>3, <1>4, <2>2, <2>6 DEF Shape, Rejected
    <2>12. Core(lvl, rank)'
        BY <1>1, <2>2, <2>3, <2>6, <2>7, <2>8, <2>9, <2>10, <2>11, CutStep DEF Leaves
    <2> QED BY <2>3, <2>4, <2>5, <2>12 DEF IInv, Fitting
<1> QED BY <1>10, <1>11

(***************************************************************************)
(* Coroutines                                                              *)
(***************************************************************************)

\* The count of a thread changes with its calls.
CountsWith(s) ==
    \E k \in {-1, 0, 1} :
        prevent'[s] = prevent[s] + k /\ CallsThere(calls'[s]) = CallsThere(calls[s]) + k

LEMMA CountedWith ==
    ASSUME Shape, Counted, nested' = nested,
           DOMAIN prevent' = Threads, prevent' = [t \in DOMAIN prevent' |-> prevent'[t]],
           \A s \in Threads : CountsWith(s)
    PROVE  Counted'
<1>1. ASSUME NEW s \in Threads
      PROVE  prevent'[s] = CallsThere(calls'[s]) + ProtectedThere(nested', s)
    <2>1. /\ prevent[s] = CallsThere(calls[s]) + ProtectedThere(nested, s)
          /\ CallsThere(calls[s]) \in Nat /\ ProtectedThere(nested, s) \in Nat
        BY PreventIs
    <2> PICK k \in {-1, 0, 1} :
             prevent'[s] = prevent[s] + k /\ CallsThere(calls'[s]) = CallsThere(calls[s]) + k
        BY DEF CountsWith
    <2> QED BY <2>1
<1> QED BY <1>1, Recount

LEMMA CountsSame ==
    ASSUME Shape, Counted, NEW s \in Threads, calls'[s] = calls[s], prevent'[s] = prevent[s]
    PROVE  CountsWith(s)
<1>1. prevent[s] \in Nat /\ CallsThere(calls[s]) \in Nat
    BY PreventIs
<1>2. prevent'[s] = prevent[s] + 0 /\ CallsThere(calls'[s]) = CallsThere(calls[s]) + 0
    BY <1>1
<1> QED BY <1>2 DEF CountsWith

LEMMA CountsPush ==
    ASSUME Shape, NEW s \in Threads, NEW k \in Kinds, k # "js", calls'[s] = Append(calls[s], k),
           prevent'[s] = prevent[s] + 1
    PROVE  CountsWith(s)
<1>1. calls[s] \in Seq(Kinds)
    BY DEF Shape
<1>2. CallsThere(calls'[s]) = CallsThere(calls[s]) + 1
    BY <1>1, CountCall
<1> QED BY <1>2 DEF CountsWith

LEMMA CountsPop ==
    ASSUME Shape, Counted, NEW s \in Threads, calls[s] # << >>, Last(calls[s]) # "js",
           calls'[s] = Front(calls[s]), prevent'[s] = prevent[s] - 1
    PROVE  CountsWith(s)
<1>1. calls[s] \in Seq(Kinds) /\ prevent[s] \in Nat /\ CallsThere(calls[s]) \in Nat
    BY PreventIs DEF Shape
<1>2. CallsThere(calls'[s]) = CallsThere(calls[s]) - 1
    BY <1>1, CountReturn
<1>3. prevent'[s] = prevent[s] + (-1) /\ CallsThere(calls'[s]) = CallsThere(calls[s]) + (-1)
    BY <1>1, <1>2
<1> QED BY <1>3 DEF CountsWith

\* The last call of a thread ends.
LEMMA PopFacts ==
    ASSUME NEW s \in Seq(Kinds), Len(s) >= 1
    PROVE  /\ s # << >> /\ Last(s) = s[Len(s)]
           /\ Front(s) \in Seq(Kinds) /\ Len(Front(s)) = Len(s) - 1
           /\ \A p \in 1..Len(s) - 1 : Front(s)[p] = s[p]
<1>1. s # << >>
    BY LenFacts
<1> QED BY <1>1, FrontFacts

\* resume() goes on in coroutine t.
LEMMA ResumeForward ==
    ASSUME IInv, running = "js", NEW t \in Threads, Resumable(t),
           UNCHANGED <<nested, known>>,
           resumer' = [resumer EXCEPT ![t] = current], current' = t,
           state' = [state EXCEPT ![t] = "running", ![current] = "resumed"],
           \/ /\ running' = "js" /\ state[t] = "yielded"
              /\ calls' = [calls EXCEPT ![current] = Append(@, "resume"), ![t] = Front(@)]
              /\ prevent' = [prevent EXCEPT ![current] = @ + 1, ![t] = @ - 1]
           \/ /\ running' = "js" /\ state[t] # "yielded"
              /\ calls' = [calls EXCEPT ![current] = Append(@, "resume"), ![t] = <<"js">>]
              /\ Prevents(1)
           \/ running' = "error" /\ Push("resume") /\ Prevents(1)
    PROVE  IInv'
<1> PICK lvl \in [Threads -> Nat], rank \in [Threads -> Nat] : Core(lvl, rank)
    BY DEF IInv, Fitting
<1> PICK c : c = current
    OBVIOUS
<1>1. Shape /\ Counted /\ Piled
    BY DEF IInv
<1>2. Deep > 0 /\ nested[Deep].kind = "exec" /\ c \in Threads /\ state[c] = "running"
    BY <1>1, ScriptIs
<1>3. t # c /\ state[t] \in {"inactive", "yielded"}
    BY <1>2 DEF Resumable
<1>4. /\ calls \in [Threads -> Seq(Kinds)] /\ calls[c] \in Seq(Kinds) /\ calls[t] \in Seq(Kinds)
      /\ prevent \in [Threads -> Nat] /\ "resume" \in Kinds /\ "js" \in Kinds
    BY <1>1, <1>2, PreventIs DEF Shape, Kinds
<1>5. state[t] = "yielded" =>
          /\ Len(calls[t]) >= 2 /\ calls[t][Len(calls[t])] = "yield"
          /\ calls[t][Len(calls[t]) - 1] = "js"
    BY DEF Core, Resting
<1>6. state[t] = "inactive" => Len(calls[t]) = 0
    BY DEF Core, Resting
<1>7. /\ calls'[c] = Append(calls[c], "resume") /\ prevent'[c] = prevent[c] + 1
      /\ \A s \in Threads \ {c, t} : calls'[s] = calls[s] /\ prevent'[s] = prevent[s]
      /\ DOMAIN prevent' = Threads /\ prevent' = [s \in DOMAIN prevent' |-> prevent'[s]]
      /\ DOMAIN calls' = Threads /\ calls' = [s \in DOMAIN calls' |-> calls'[s]]
      /\ running' \in {"js", "error"}
    BY <1>2, <1>3, <1>4 DEF Push, Prevents
<1>8. /\ calls'[t] \in Seq(Kinds) /\ CountsWith(t) /\ Trimmed(t)
      /\ running' = "js" => GoesOn("js", t, calls'[t], Len(calls'[t]), nested[Deep])
    <2>1. CASE running' = "js" /\ state[t] = "yielded"
        <3>1. calls'[t] = Front(calls[t]) /\ prevent'[t] = prevent[t] - 1
            BY <1>2, <1>3, <1>4, <2>1
        <3>2. Len(calls[t]) \in Nat /\ Len(calls[t]) >= 1 /\ Len(calls[t]) - 1 \in 1..Len(calls[t]) - 1
            BY <1>4, <1>5, <2>1, LenFacts
        <3>3. /\ calls[t] # << >> /\ Last(calls[t]) = "yield"
              /\ Front(calls[t]) \in Seq(Kinds) /\ Len(Front(calls[t])) = Len(calls[t]) - 1
              /\ Front(calls[t])[Len(calls[t]) - 1] = "js"
            BY <1>4, <1>5, <2>1, <3>2, PopFacts
        <3>4. CountsWith(t) /\ Trimmed(t)
            BY <1>1, <3>1, <3>3, CountsPop, TrimmedFront
        <3>5. Len(calls'[t]) >= 1 /\ calls'[t][Len(calls'[t])] = "js"
            BY <3>1, <3>2, <3>3
        <3> QED BY <3>1, <3>3, <3>4, <3>5 DEF GoesOn
    <2>2. CASE running' = "js" /\ state[t] # "yielded"
        <3>1. calls'[t] = <<"js">> /\ prevent'[t] = prevent[t]
            BY <1>2, <1>3, <1>4, <2>2 DEF Prevents
        <3>2. <<"js">> \in Seq(Kinds) /\ Len(<<"js">>) = 1 /\ <<"js">>[1] = "js"
            BY <1>4
        <3>3. calls[t] = << >>
            BY <1>3, <1>4, <1>6, <2>2, LenFacts
        <3>4. prevent'[t] = prevent[t] + 0 /\ CallsThere(calls'[t]) = CallsThere(calls[t]) + 0
            BY <1>4, <3>1, <3>3, CountNone
        <3> QED BY <3>1, <3>2, <3>4 DEF CountsWith, Trimmed, GoesOn
    <2>3. CASE running' = "error" /\ Push("resume") /\ Prevents(1)
        <3>1. calls'[t] = calls[t] /\ prevent'[t] = prevent[t]
            BY <1>2, <1>3, <1>4, <2>3 DEF Push, Prevents
        <3> QED BY <1>1, <1>4, <2>3, <3>1, CountsSame, TrimmedSame
    <2> QED BY <2>1, <2>2, <2>3
<1>9. Append(calls[c], "resume") \in Seq(Kinds)
    BY <1>4, AppendFacts
<1>10. calls' \in [Threads -> Seq(Kinds)]
    <2>1. \A s \in Threads : calls'[s] \in Seq(Kinds)
        BY <1>4, <1>7, <1>8, <1>9
    <2> QED BY <1>7, <2>1
<1>11. Shape'
    <2>1. state' \in [Threads -> States] /\ resumer' \in [Threads -> Threads \cup {None}]
        BY <1>1, <1>2 DEF Shape, States
    <2> QED BY <1>1, <1>7, <1>10, <2>1 DEF Shape, Modes
<1>12. \A s \in Threads : CountsWith(s) /\ Trimmed(s)
    <2> SUFFICES ASSUME NEW s \in Threads PROVE CountsWith(s) /\ Trimmed(s)
        OBVIOUS
    <2>1. CASE s = c
        BY <1>1, <1>4, <1>7, <2>1, CountsPush, TrimmedPush
    <2>2. CASE s = t
        BY <1>8, <2>2
    <2>3. CASE s \notin {c, t}
        BY <1>1, <1>7, <2>3, CountsSame, TrimmedSame
    <2> QED BY <2>1, <2>2, <2>3
<1>13. Counted'
    BY <1>1, <1>7, <1>12, CountedWith
<1>14. Piled'
    BY <1>1, <1>11, <1>12, StartsStay, PiledStep
<1> PICK lvl2, rank2 :
         lvl2 = [lvl EXCEPT ![t] = Deep] /\ rank2 = [rank EXCEPT ![t] = RankAt(c, Deep, rank) + 1]
    OBVIOUS
<1>15. \A s \in Threads \ {c, t} : calls'[s] = calls[s]
    BY <1>7
<1>16. lvl2 \in [Threads -> Nat] /\ rank2 \in [Threads -> Nat] /\ Core(lvl2, rank2)'
    BY <1>1, <1>2, <1>7, <1>8, <1>11, <1>15, ForwardStep
<1> QED BY <1>11, <1>13, <1>14, <1>16 DEF IInv, Fitting

LEMMA ResumeKeeps == ASSUME IInv, NEW t \in Threads, Resume(t) PROVE IInv'
<1>1. CASE Resumable(t)
    <2>1. /\ running = "js" /\ UNCHANGED <<nested, known>>
          /\ resumer' = [resumer EXCEPT ![t] = current] /\ current' = t
          /\ state' = [state EXCEPT ![t] = "running", ![current] = "resumed"]
        BY <1>1 DEF Resume
    <2>2. \/ /\ running' = "js"
             /\ IF state[t] = "yielded"
                THEN /\ calls' = [calls EXCEPT ![current] = Append(@, "resume"), ![t] = Front(@)]
                     /\ prevent' = [prevent EXCEPT ![current] = @ + 1, ![t] = @ - 1]
                ELSE /\ calls' = [calls EXCEPT ![current] = Append(@, "resume"), ![t] = <<"js">>]
                     /\ Prevents(1)
          \/ running' = "error" /\ Push("resume") /\ Prevents(1)
        BY <1>1 DEF Resume
    <2> QED BY <1>1, <2>1, <2>2, ResumeForward
<1>2. CASE ~Resumable(t)
    <2>1. /\ running = "js" /\ Push("resume") /\ Prevents(1) /\ Raise
          /\ UNCHANGED <<state, resumer, current, known>>
        BY <1>2 DEF Resume
    <2> QED BY <2>1, RefusedKeeps DEF Kinds
<1> QED BY <1>1, <1>2

\* A call stack that does not forbid to yield holds JS calls only.
LEMMA NothingPrevents ==
    ASSUME NEW s \in Seq(Kinds), CallsThere(s) = 0
    PROVE  \A i \in 1..Len(s) : s[i] = "js"
<1>1. IsFiniteSet(Preventing(s)) /\ DOMAIN s = 1..Len(s)
    BY CountTypes, EmptySeq, LenFacts
<1>2. Preventing(s) = {}
    BY <1>1, FS_EmptySet DEF CallsThere
<1> QED BY <1>1, <1>2 DEF Preventing

\* What the executor on top was started for is on the call stack of its thread.
LEMMA MayYieldIs ==
    ASSUME NEW lvl \in [Threads -> Nat], NEW rank \in [Threads -> Nat], Shape, Counted, Core(lvl, rank),
           running = "js", MayYield
    PROVE  current # nested[Deep].thread
<1>1. /\ Deep > 0 /\ nested[Deep].kind = "exec" /\ current \in Threads
    BY ScriptIs
<1>2. /\ prevent[current] = CallsThere(calls[current]) + ProtectedThere(nested, current)
      /\ CallsThere(calls[current]) \in Nat /\ ProtectedThere(nested, current) \in Nat
    BY <1>1, PreventIs
<1>3. CallsThere(calls[current]) = 0
    BY <1>2 DEF MayYield
<1>4. calls[current] \in Seq(Kinds)
    BY <1>1 DEF Shape
<1> SUFFICES ASSUME current = nested[Deep].thread PROVE FALSE
    OBVIOUS
<1>5. /\ nested[Deep].depth + 1 <= Len(calls[current])
      /\ calls[current][nested[Deep].depth + 1] = "entry"
      /\ nested[Deep].depth \in Nat
    BY <1>1, ExecutorIs, FrameTypes
<1>6. nested[Deep].depth + 1 \in 1..Len(calls[current])
    BY <1>4, <1>5, LenFacts
<1> QED BY <1>3, <1>4, <1>5, <1>6, NothingPrevents

\* yield() goes on in the thread that waits.
LEMMA YieldBack ==
    ASSUME IInv, running = "js", MayYield, UNCHANGED <<nested, known>>, HandBack,
           NEW r, r = resumer[current],
           state' = [state EXCEPT ![current] = "yielded", ![r] = "running"],
           \/ /\ running' = "js"
              /\ calls' = [calls EXCEPT ![current] = Append(@, "yield"), ![r] = Front(@)]
              /\ prevent' = [prevent EXCEPT ![current] = @ + 1, ![r] = @ - 1]
           \/ running' = "error" /\ Push("yield") /\ Prevents(1)
    PROVE  IInv'
<1> PICK lvl \in [Threads -> Nat], rank \in [Threads -> Nat] : Core(lvl, rank)
    BY DEF IInv, Fitting
<1> PICK c : c = current
    OBVIOUS
<1>1. Shape /\ Counted /\ Piled
    BY DEF IInv
<1>2. /\ Deep > 0 /\ nested[Deep].kind = "exec" /\ c \in Threads /\ state[c] = "running"
      /\ GoesOn("js", c, calls[c], Len(calls[c]), nested[Deep])
    BY <1>1, ScriptIs
<1>3. c # nested[Deep].thread
    BY <1>1, MayYieldIs
<1>4. r \in Threads /\ r # c /\ Resumes(state[c], r, calls[r], nested[Deep]) /\ c \in Coroutines
    BY <1>1, <1>2, <1>3, ResumedIs
<1>5. /\ Len(calls[r]) >= 1 /\ calls[r][Len(calls[r])] = "resume"
      /\ GoesOn("js", r, calls[r], Len(calls[r]) - 1, nested[Deep])
    BY <1>2, <1>4 DEF Resumes
<1>6. Len(calls[c]) >= 1 /\ calls[c][Len(calls[c])] = "js"
    BY <1>2, <1>3 DEF GoesOn
<1>7. /\ calls \in [Threads -> Seq(Kinds)] /\ calls[c] \in Seq(Kinds) /\ calls[r] \in Seq(Kinds)
      /\ prevent \in [Threads -> Nat] /\ "yield" \in Kinds
      /\ Len(calls[c]) \in Nat /\ Len(calls[r]) \in Nat
    BY <1>1, <1>2, <1>4, PreventIs, LenFacts, SMTT(60) DEF Shape, Kinds
<1>8. /\ calls'[c] = Append(calls[c], "yield") /\ prevent'[c] = prevent[c] + 1
      /\ \A s \in Threads \ {c, r} : calls'[s] = calls[s] /\ prevent'[s] = prevent[s]
      /\ DOMAIN prevent' = Threads /\ prevent' = [s \in DOMAIN prevent' |-> prevent'[s]]
      /\ DOMAIN calls' = Threads /\ calls' = [s \in DOMAIN calls' |-> calls'[s]]
      /\ running' \in {"js", "error"}
    BY <1>2, <1>4, <1>7 DEF Push, Prevents
<1>9. /\ calls[r] # << >> /\ Last(calls[r]) = "resume"
      /\ Front(calls[r]) \in Seq(Kinds) /\ Len(Front(calls[r])) = Len(calls[r]) - 1
      /\ \A p \in 1..Len(calls[r]) - 1 : Front(calls[r])[p] = calls[r][p]
    BY <1>5, <1>7, PopFacts
<1>10. /\ calls'[r] \in Seq(Kinds) /\ CountsWith(r) /\ Trimmed(r) /\ Unwaits(r)
       /\ running' = "js" => GoesOn("js", r, calls'[r], Len(calls'[r]), nested[Deep])
    <2>1. CASE running' = "js"
        <3>1. calls'[r] = Front(calls[r]) /\ prevent'[r] = prevent[r] - 1
            BY <1>2, <1>4, <1>7, <2>1
        <3>2. CountsWith(r) /\ Trimmed(r) /\ Unwaits(r)
            BY <1>1, <1>4, <1>9, <3>1, CountsPop, TrimmedFront DEF Unwaits
        <3>3. GoesOn("js", r, calls'[r], Len(calls'[r]), nested[Deep])
            <4> PICK d : d = Len(calls[r]) - 1
                OBVIOUS
            <4>1. d >= 1 /\ (calls[r][d] = "js" \/ (r = nested[Deep].thread /\ d = nested[Deep].depth + 1))
                BY <1>5 DEF GoesOn
            <4>2. d \in 1..Len(calls[r]) - 1
                BY <1>7, <4>1
            <4>3. calls'[r][d] = calls[r][d] /\ Len(calls'[r]) = d
                BY <1>9, <3>1, <4>2
            <4> QED BY <4>1, <4>3 DEF GoesOn
        <3> QED BY <1>9, <3>1, <3>2, <3>3
    <2>2. CASE running' = "error" /\ Push("yield") /\ Prevents(1)
        <3>1. calls'[r] = calls[r] /\ prevent'[r] = prevent[r]
            BY <1>2, <1>4, <1>7, <2>2 DEF Push, Prevents
        <3> QED BY <1>1, <1>4, <1>7, <2>2, <3>1, CountsSame, TrimmedSame DEF Unwaits
    <2> QED BY <2>1, <2>2
<1>11. /\ calls'[c] \in Seq(Kinds) /\ Len(calls'[c]) >= 2
       /\ calls'[c][Len(calls'[c])] = "yield" /\ calls'[c][Len(calls'[c]) - 1] = "js"
    <2>1. /\ Append(calls[c], "yield") \in Seq(Kinds)
          /\ Len(Append(calls[c], "yield")) = Len(calls[c]) + 1
          /\ \A p \in 1..Len(calls[c]) : Append(calls[c], "yield")[p] = calls[c][p]
          /\ Append(calls[c], "yield")[Len(calls[c]) + 1] = "yield"
        BY <1>7, AppendFacts
    <2>2. /\ Len(calls[c]) \in 1..Len(calls[c]) /\ Len(calls[c]) + 1 >= 2
          /\ Len(calls[c]) + 1 - 1 = Len(calls[c])
        BY <1>6, <1>7
    <2> QED BY <1>6, <1>8, <2>1, <2>2
<1>12. Shape'
    <2>1. calls' \in [Threads -> Seq(Kinds)]
        <3>1. \A s \in Threads : calls'[s] \in Seq(Kinds)
            BY <1>7, <1>8, <1>10, <1>11
        <3> QED BY <1>8, <3>1
    <2>2. /\ state' \in [Threads -> States] /\ resumer' \in [Threads -> Threads \cup {None}]
          /\ current' = r
        BY <1>1, <1>4 DEF Shape, States, HandBack
    <2> QED BY <1>1, <1>4, <1>8, <2>1, <2>2 DEF Shape, Modes
<1>13. \A s \in Threads : CountsWith(s) /\ Trimmed(s)
    <2> SUFFICES ASSUME NEW s \in Threads PROVE CountsWith(s) /\ Trimmed(s)
        OBVIOUS
    <2>1. CASE s = c
        BY <1>1, <1>7, <1>8, <2>1, CountsPush, TrimmedPush
    <2>2. CASE s = r
        BY <1>10, <2>2
    <2>3. CASE s \notin {c, r}
        BY <1>1, <1>8, <2>3, CountsSame, TrimmedSame
    <2> QED BY <2>1, <2>2, <2>3
<1>14. Counted' /\ Piled'
    BY <1>1, <1>8, <1>12, <1>13, CountedWith, StartsStay, PiledStep
<1>15. /\ resumer' = [resumer EXCEPT ![c] = None] /\ current' = r
       /\ \A s \in Threads \ {c, r} : calls'[s] = calls[s]
    BY <1>8 DEF HandBack
<1>16. Rests(c, r)
    <2>1. state'[c] = "yielded" /\ state' = [state EXCEPT ![c] = state'[c], ![r] = "running"]
        BY <1>1, <1>2, <1>4 DEF Shape
    <2> QED BY <1>11, <2>1 DEF Rests
<1>17. Core(lvl, rank)'
    BY <1>1, <1>2, <1>3, <1>8, <1>10, <1>12, <1>15, <1>16, BackStep
<1> QED BY <1>12, <1>14, <1>17 DEF IInv, Fitting

LEMMA YieldKeeps == ASSUME IInv, Yield PROVE IInv'
<1>1. CASE MayYield
    <2> PICK r : r = resumer[current]
        OBVIOUS
    <2>1. /\ running = "js" /\ UNCHANGED <<nested, known>> /\ HandBack
          /\ state' = [state EXCEPT ![current] = "yielded", ![r] = "running"]
          /\ \/ /\ running' = "js"
                /\ calls' = [calls EXCEPT ![current] = Append(@, "yield"), ![r] = Front(@)]
                /\ prevent' = [prevent EXCEPT ![current] = @ + 1, ![r] = @ - 1]
             \/ running' = "error" /\ Push("yield") /\ Prevents(1)
        BY <1>1 DEF Yield
    <2> QED BY <1>1, <2>1, YieldBack
<1>2. CASE ~MayYield
    <2>1. /\ running = "js" /\ Push("yield") /\ Prevents(1) /\ Raise
          /\ UNCHANGED <<state, resumer, current, known>>
        BY <1>2 DEF Yield
    <2> QED BY <2>1, RefusedKeeps DEF Kinds
<1> QED BY <1>1, <1>2

\* The thread that waits goes on when a coroutine has ended.
LEMMA EndedBack ==
    ASSUME IInv, NEW lvl \in [Threads -> Nat], NEW rank \in [Threads -> Nat], Core(lvl, rank),
           Deep > 0, nested[Deep].kind = "exec", current # nested[Deep].thread,
           Len(calls[current]) = 0, HandBack, UNCHANGED <<calls, prevent, nested, known>>,
           NEW r, r = resumer[current], state' = [state EXCEPT ![current] = "terminated", ![r] = "running"],
           running' \in {"js", "error"},
           running' = "js" => GoesOn("js", r, calls[r], Len(calls[r]), nested[Deep])
    PROVE  IInv'
<1> PICK c : c = current
    OBVIOUS
<1>1. Shape /\ Counted /\ Piled
    BY DEF IInv
<1>2. c \in Threads /\ r \in Threads /\ r # c
    BY <1>1, ExecutorIs, ResumedIs
<1>3. resumer' = [resumer EXCEPT ![c] = None] /\ current' = r
    BY DEF HandBack
<1>4. Shape'
    BY <1>1, <1>2, <1>3 DEF Shape, States, Modes
<1>5. Counted' /\ Piled'
    BY <1>1, <1>4, CountedStays, StartsStay, PiledStays
<1>6. Rests(c, r) /\ Unwaits(r)
    <2>1. state'[c] = "terminated" /\ state' = [state EXCEPT ![c] = state'[c], ![r] = "running"]
        BY <1>1, <1>2 DEF Shape
    <2> QED BY <2>1 DEF Rests, Unwaits
<1>7. Core(lvl, rank)'
    BY <1>1, <1>3, <1>4, <1>6, BackStep
<1> QED BY <1>4, <1>5, <1>7 DEF IInv, Fitting

LEMMA TerminateKeeps == ASSUME IInv, Terminate PROVE IInv'
<1> PICK lvl \in [Threads -> Nat], rank \in [Threads -> Nat] : Core(lvl, rank)
    BY DEF IInv, Fitting
<1>1. /\ Shape /\ running = "error" /\ Top.kind = "exec" /\ running' = running
      /\ calls[current] = << >> /\ HandBack
      /\ state' = [state EXCEPT ![current] = "terminated", ![resumer[current]] = "running"]
      /\ UNCHANGED <<calls, prevent, nested, known>>
    BY DEF IInv, Terminate, InExecutor
<1>2. Deep > 0 /\ Top = nested[Deep]
    <2>1. Deep > 0
        BY <1>1 DEF Core, ModeOK
    <2>2. nested # << >>
        BY <1>1, <2>1, LenFacts DEF Shape, Deep
    <2> QED BY <1>1, <2>2, StackFacts
<1>3. Len(calls[current]) = 0
    BY <1>1
<1>4. current # nested[Deep].thread
    <2>1. nested[Deep].depth + 1 <= Len(calls[nested[Deep].thread]) /\ nested[Deep].depth \in Nat
        BY <1>1, <1>2, ExecutorIs, FrameTypes
    <2> QED BY <1>3, <2>1
<1> QED BY <1>1, <1>2, <1>3, <1>4, EndedBack

LEMMA HandOverKeeps == ASSUME IInv, HandOver PROVE IInv'
<1> PICK lvl \in [Threads -> Nat], rank \in [Threads -> Nat] : Core(lvl, rank)
    BY DEF IInv, Fitting
<1> PICK r : r = resumer[current]
    OBVIOUS
<1>1. /\ Shape /\ running = "end" /\ HandBack /\ running' = "js"
      /\ state' = [state EXCEPT ![r] = "running"]
      /\ UNCHANGED <<calls, prevent, nested, known>>
    BY DEF IInv, HandOver
<1>2. Deep > 0 /\ nested[Deep].kind = "exec"
    BY <1>1 DEF Core, ModeOK, Fits
<1>3. /\ current \in Threads /\ state[current] = "terminated" /\ Deep \in 1..Deep
      /\ ~Rejected(nested[Deep])
    BY <1>1, <1>2, ExecutorIs DEF Frozen
<1>4. current # nested[Deep].thread
    BY <1>3 DEF Core, Unserved
<1>5. Len(calls[current]) = 0
    BY <1>3 DEF Core, Resting
<1>6. r \in Threads /\ r # current /\ Resumes(state[current], r, calls[r], nested[Deep])
    BY <1>1, <1>2, <1>4, ResumedIs
<1>7. GoesOn("js", r, calls[r], Len(calls[r]), nested[Deep])
    BY <1>3, <1>6 DEF Resumes
<1>8. state' = [state EXCEPT ![current] = "terminated", ![r] = "running"]
    BY <1>1, <1>3, <1>6 DEF Shape
<1> QED BY <1>1, <1>2, <1>4, <1>5, <1>7, <1>8, EndedBack

LEMMA FinishKeeps == ASSUME IInv, Finish PROVE IInv'
<1> PICK lvl \in [Threads -> Nat], rank \in [Threads -> Nat] : Core(lvl, rank)
    BY DEF IInv, Fitting
<1> PICK c, r : c = current /\ r = resumer[current]
    OBVIOUS
<1>1. /\ Shape /\ Counted /\ Piled /\ running = "js" /\ ~AtEntry /\ Len(calls[c]) = 1
      /\ calls' = [calls EXCEPT ![r] = Front(@), ![c] = << >>]
      /\ prevent' = [prevent EXCEPT ![r] = @ - 1]
      /\ state' = [state EXCEPT ![c] = "terminated"]
      /\ running' = "end"
      /\ UNCHANGED <<resumer, current, nested, known>>
    BY DEF IInv, Finish
<1>2. /\ Deep > 0 /\ nested[Deep].kind = "exec" /\ c \in Threads /\ state[c] = "running"
      /\ Top = nested[Deep]
      /\ GoesOn("js", c, calls[c], Len(calls[c]), Top)
    BY <1>1, ScriptIs
<1>3. c # nested[Deep].thread
    <2> SUFFICES ASSUME c = nested[Deep].thread PROVE FALSE
        OBVIOUS
    <2>1. nested[Deep].depth + 1 <= 1 /\ nested[Deep].depth \in Nat
        BY <1>1, <1>2, ExecutorIs, FrameTypes
    <2>2. Len(calls[c]) = Top.depth + 1
        BY <1>1, <1>2, <2>1
    <2> QED BY <1>1, <1>2, <2>2 DEF AtEntry
<1>4. /\ r \in Threads /\ r # c /\ Resumes(state[c], r, calls[r], nested[Deep]) /\ c \in Coroutines
      /\ Linked(c)
    BY <1>1, <1>2, <1>3, ResumedIs
<1>5. /\ Len(calls[r]) >= 1 /\ calls[r][Len(calls[r])] = "resume"
      /\ GoesOn("js", r, calls[r], Len(calls[r]) - 1, nested[Deep])
    BY <1>2, <1>4 DEF Resumes
<1>6. calls[c][1] = "js"
    BY <1>1, <1>2 DEF GoesOn, AtEntry
<1>7. /\ calls \in [Threads -> Seq(Kinds)] /\ calls[c] \in Seq(Kinds) /\ calls[r] \in Seq(Kinds)
      /\ prevent \in [Threads -> Nat] /\ Len(calls[r]) \in Nat
    BY <1>1, <1>2, <1>4, PreventIs, LenFacts DEF Shape
<1>8. /\ calls'[c] = << >> /\ prevent'[c] = prevent[c]
      /\ calls'[r] = Front(calls[r]) /\ prevent'[r] = prevent[r] - 1
      /\ \A s \in Threads \ {c, r} : calls'[s] = calls[s] /\ prevent'[s] = prevent[s]
      /\ DOMAIN prevent' = Threads /\ prevent' = [s \in DOMAIN prevent' |-> prevent'[s]]
      /\ DOMAIN calls' = Threads /\ calls' = [s \in DOMAIN calls' |-> calls'[s]]
    BY <1>1, <1>2, <1>4, <1>7
<1>9. /\ calls[r] # << >> /\ Last(calls[r]) = "resume"
      /\ Front(calls[r]) \in Seq(Kinds) /\ Len(Front(calls[r])) = Len(calls[r]) - 1
      /\ \A p \in 1..Len(calls[r]) - 1 : Front(calls[r])[p] = calls[r][p]
    BY <1>5, <1>7, PopFacts
<1>10. GoesOn("js", r, calls'[r], Len(calls'[r]), nested[Deep])
    <2> PICK d : d = Len(calls[r]) - 1
        OBVIOUS
    <2>1. d >= 1 /\ (calls[r][d] = "js" \/ (r = nested[Deep].thread /\ d = nested[Deep].depth + 1))
        BY <1>5 DEF GoesOn
    <2>2. d \in 1..Len(calls[r]) - 1
        BY <1>7, <2>1
    <2>3. calls'[r][d] = calls[r][d] /\ Len(calls'[r]) = d
        BY <1>8, <1>9, <2>2
    <2> QED BY <2>1, <2>3 DEF GoesOn
<1>11. Shape'
    <2>1. calls' \in [Threads -> Seq(Kinds)]
        <3>1. ASSUME NEW s \in Threads PROVE calls'[s] \in Seq(Kinds)
            <4>1. CASE s = c
                BY <1>8, <4>1, EmptySeq
            <4>2. CASE s = r
                BY <1>8, <1>9, <4>2
            <4>3. CASE s \notin {c, r}
                BY <1>7, <1>8, <4>3
            <4> QED BY <4>1, <4>2, <4>3
        <3> QED BY <1>8, <3>1
    <2> QED BY <1>1, <2>1 DEF Shape, States, Modes
<1>12. CountsWith(c) /\ Trimmed(c) /\ Len(calls'[c]) = 0
    <2>1. Preventing(calls[c]) = {} /\ Preventing(<< >>) = {}
        BY <1>1, <1>6, <1>7, LenFacts DEF Preventing
    <2>2. CallsThere(calls'[c]) = CallsThere(calls[c]) + 0 /\ prevent'[c] = prevent[c] + 0
        <3>1. CallsThere(calls[c]) \in Nat /\ prevent[c] \in Nat
            BY <1>1, <1>2, PreventIs
        <3>2. CallsThere(calls'[c]) = CallsThere(calls[c])
            BY <1>8, <2>1 DEF CallsThere
        <3> QED BY <1>8, <3>1, <3>2
    <2>3. Len(calls'[c]) = 0
        BY <1>8
    <2> QED BY <2>2, <2>3 DEF CountsWith, Trimmed
<1>13. \A s \in Threads : CountsWith(s) /\ Trimmed(s)
    <2> SUFFICES ASSUME NEW s \in Threads PROVE CountsWith(s) /\ Trimmed(s)
        OBVIOUS
    <2>1. CASE s = c
        BY <1>12, <2>1
    <2>2. CASE s = r
        BY <1>1, <1>8, <1>9, <2>2, CountsPop, TrimmedFront
    <2>3. CASE s \notin {c, r}
        BY <1>1, <1>8, <2>3, CountsSame, TrimmedSame
    <2> QED BY <2>1, <2>2, <2>3
<1>14. Counted' /\ Piled'
    BY <1>1, <1>8, <1>11, <1>13, CountedWith, StartsStay, PiledStep
<1>15. Gone(c)
    <2>1. state'[c] = "terminated"
        BY <1>1, <1>2 DEF Shape
    <2>2. Unwaits(r) /\ \A s \in Threads \ {c, r} : calls'[s] = calls[s]
        BY <1>8, <1>9 DEF Unwaits
    <2> QED BY <1>1, <1>3, <1>4, <1>10, <2>1, <2>2 DEF Gone
<1>16. \A s \in Threads \ {c} : state'[s] = state[s]
    BY <1>1 DEF Shape
<1>17. Len(calls'[c]) = 0 /\ UNCHANGED <<nested, resumer, current>>
    BY <1>1, <1>12
<1>18. Core(lvl, rank)'
    BY <1>1, <1>2, <1>4, <1>11, <1>15, <1>16, <1>17, StayStep
<1> QED BY <1>11, <1>14, <1>18 DEF IInv, Fitting

LEMMA NewCoroutineKeeps == ASSUME IInv, NEW t \in Coroutines, NewCoroutine(t) PROVE IInv'
<1> PICK lvl \in [Threads -> Nat], rank \in [Threads -> Nat] : Core(lvl, rank)
    BY DEF IInv, Fitting
<1>1. /\ Shape /\ Counted /\ Piled /\ running = "js" /\ state[t] \in {"yielded", "terminated"}
      /\ \A i \in DOMAIN nested : nested[i].current # t
      /\ calls' = [calls EXCEPT ![t] = << >>]
      /\ prevent' = [prevent EXCEPT ![t] = 0]
      /\ state' = [state EXCEPT ![t] = "inactive"]
      /\ known' = known \ {t}
      /\ UNCHANGED <<resumer, current, nested, running>>
    BY DEF IInv, NewCoroutine
<1>2. /\ Deep > 0 /\ nested[Deep].kind = "exec" /\ state[current] = "running"
      /\ \A i \in 1..Deep : ~Rejected(nested[i])
    BY <1>1, ScriptIs, ExecutorIs
<1>3. t \in Threads /\ t # current /\ \A i \in 1..Deep : nested[i].current # t
    BY <1>1, <1>2, FrameTypes DEF Threads
<1>4. ~Linked(t)
    <2> SUFFICES ASSUME Linked(t) PROVE FALSE
        OBVIOUS
    <2>1. state[t] = "terminated" /\ (t = current \/ Called(t))
        BY <1>1, <1>3 DEF Core, LinkStates
    <2> QED BY <1>3, <2>1 DEF Called
<1>5. \A i \in 1..Deep : nested[i].thread # t
    BY <1>1, <1>2 DEF Core, Unserved
<1>6. ProtectedThere(nested, t) = 0
    <2>1. ProtectedOn(nested, t) = {}
        BY <1>1, <1>5, FrameTypes DEF ProtectedOn
    <2> QED BY <2>1, FS_EmptySet DEF ProtectedThere
<1>7. /\ calls \in [Threads -> Seq(Kinds)] /\ prevent \in [Threads -> Nat]
    BY <1>1, PreventIs DEF Shape
<1>8. /\ calls'[t] = << >> /\ prevent'[t] = 0 /\ Len(calls'[t]) = 0
      /\ \A s \in Threads \ {t} : calls'[s] = calls[s] /\ prevent'[s] = prevent[s]
      /\ DOMAIN prevent' = Threads /\ prevent' = [s \in DOMAIN prevent' |-> prevent'[s]]
    BY <1>1, <1>3, <1>7
<1>9. Shape'
    <2>1. calls' \in [Threads -> Seq(Kinds)]
        BY <1>1, <1>7, EmptySeq
    <2> QED BY <1>1, <2>1 DEF Shape, States
<1>10. Counted'
    <2>1. ASSUME NEW s \in Threads
          PROVE  prevent'[s] = CallsThere(calls'[s]) + ProtectedThere(nested', s)
        <3>1. CASE s = t
            BY <1>1, <1>6, <1>8, <3>1, CountNone
        <3>2. CASE s # t
            BY <1>1, <1>8, <3>2, PreventIs
        <3> QED BY <3>1, <3>2
    <2> QED BY <1>8, <2>1, Recount
<1>11. Piled'
    <2>1. \A s \in Threads : Trimmed(s)
        <3>1. Trimmed(t)
            BY <1>8 DEF Trimmed
        <3> QED BY <1>1, <1>8, <3>1, TrimmedSame
    <2> QED BY <1>1, <1>9, <2>1, StartsStay, PiledStep
<1>12. Gone(t)
    <2>1. state'[t] = "inactive" /\ running' = "js" /\ \A s \in Threads \ {t} : calls'[s] = calls[s]
        BY <1>1, <1>3, <1>8 DEF Shape
    <2> QED BY <1>1, <1>3, <1>4, <2>1 DEF Gone
<1>13. \A s \in Threads \ {t} : state'[s] = state[s]
    BY <1>1 DEF Shape
<1>14. Core(lvl, rank)'
    BY <1>1, <1>2, <1>8, <1>9, <1>12, <1>13, StayStep
<1> QED BY <1>9, <1>10, <1>11, <1>14 DEF IInv, Fitting

(***************************************************************************)
(* The invariant                                                           *)
(***************************************************************************)

LEMMA InitKeeps == ASSUME Init PROVE IInv
<1>1. nested = << >> /\ Deep = 0 /\ 1..Deep = {} /\ 2..Deep = {} /\ DOMAIN nested = {}
    BY DEF Init, Deep
<1>2. /\ running = "native" /\ current = None
      /\ \A t \in Threads : state[t] = "inactive" /\ resumer[t] = None /\ calls[t] = << >>
      /\ prevent = [t \in Threads |-> 0]
    BY DEF Init
<1>3. \A t \in Threads : t # None /\ ~Linked(t) /\ Len(calls[t]) = 0
    BY <1>2, CoroutinesAssumption DEF Linked, Threads
<1>4. Shape
    <2>1. calls \in [Threads -> Seq(Kinds)] /\ nested \in Seq(Frames)
        BY EmptySeq DEF Init
    <2> QED BY <2>1 DEF Init, Shape, States, Modes
<1>5. Counted
    BY <1>1, <1>2, CountNone DEF Counted
<1>6. Piled
    BY <1>3 DEF Piled
<1> PICK lvl \in [Threads -> Nat] : TRUE
    <2>1. [t \in Threads |-> 0] \in [Threads -> Nat]
        OBVIOUS
    <2> QED BY <2>1
<1>7. ~Refused
    BY <1>1 DEF Refused
<1>8. FramesOK /\ ModeOK /\ Rejections /\ Marked /\ CallersGoOn /\ CallersWait /\ Unserved
    BY <1>1, <1>2 DEF FramesOK, ModeOK, Fits, Rejections, Marked, CallersGoOn, CallersWait, Unserved
<1>9. Served(lvl) /\ Chained(lvl, lvl) /\ ResumersGoOn(lvl)
    BY <1>1, <1>2, <1>3 DEF Served, Serves, Chained, ResumersGoOn
<1>10. CurrentGoesOn /\ Resting /\ CurrentState /\ Runners /\ LinkStates
    BY <1>1, <1>2, <1>3 DEF CurrentGoesOn, Resting, CurrentState, Runners, LinkStates
<1>11. Core(lvl, lvl)
    BY <1>8, <1>9, <1>10 DEF Core
<1> QED BY <1>4, <1>5, <1>6, <1>11 DEF IInv, Fitting

LEMMA StutterKeeps == ASSUME IInv, UNCHANGED vars PROVE IInv'
<1> PICK lvl \in [Threads -> Nat], rank \in [Threads -> Nat] : Core(lvl, rank)
    BY DEF IInv, Fitting
<1>1. UNCHANGED <<state, resumer, calls, prevent, current, nested, running, known>>
    BY DEF vars
<1>2. Shape' /\ Counted' /\ Piled'
    BY <1>1 DEF IInv, Shape, Counted, Piled, Started, Deep
<1>3. Deep' = Deep /\ (Refused <=> Refused')
    BY <1>1 DEF Deep, Refused
<1>4. Core(lvl, rank)'
    <2>1. (FramesOK /\ ModeOK /\ Rejections)'
        BY <1>1, <1>3 DEF Core, FramesOK, FrameOK, ModeOK, Fits, Rejections
    <2>2. (Served(lvl) /\ Chained(lvl, rank))'
        BY <1>1, <1>3 DEF Core, Served, Serves, Chained, AtTop, RankAt, Linked
    <2>3. (Marked /\ CallersGoOn /\ CurrentGoesOn /\ ResumersGoOn(lvl))'
        BY <1>1, <1>3 DEF Core, Marked, CallersGoOn, CurrentGoesOn, ResumersGoOn, Linked
    <2>4. (Resting /\ CurrentState /\ CallersWait)'
        BY <1>1, <1>3 DEF Core, Resting, CurrentState, CallersWait, Linked
    <2>5. (Runners /\ LinkStates /\ Unserved)'
        BY <1>1, <1>3 DEF Core, Runners, LinkStates, Unserved, Called, Linked
    <2> QED BY <2>1, <2>2, <2>3, <2>4, <2>5 DEF Core
<1> QED BY <1>2, <1>4 DEF IInv, Fitting

LEMMA NextKeeps == ASSUME IInv, [Next]_vars PROVE IInv'
<1>1. CASE \E t \in Threads : PhpCalls(t) \/ Resume(t)
    BY <1>1, PhpCallsKeeps, ResumeKeeps
<1>2. CASE \E t \in Coroutines : NewCoroutine(t)
    BY <1>2, NewCoroutineKeeps
<1>3. CASE Finalize \/ CallJs \/ Call \/ CallNative
    BY <1>3, FinalizeKeeps, CallJsKeeps, CallKeeps, CallNativeKeeps
<1>4. CASE NativeReturns \/ ExecutorReturns \/ SafeReturns \/ Return \/ Finish \/ HandOver
    BY <1>4, NativeReturnsKeeps, ExecutorReturnsKeeps, SafeReturnsKeeps, ReturnKeeps, FinishKeeps,
       HandOverKeeps
<1>5. CASE Yield
    BY <1>5, YieldKeeps
<1>6. CASE Throw \/ Catch \/ Unwind \/ Rethrow \/ Terminate \/ SafeFails
    BY <1>6, ThrowKeeps, CatchKeeps, UnwindKeeps, RethrowKeeps, TerminateKeeps, SafeFailsKeeps
<1>7. CASE UNCHANGED vars
    BY <1>7, StutterKeeps
<1> QED BY <1>1, <1>2, <1>3, <1>4, <1>5, <1>6, <1>7 DEF Next

LEMMA Invariance == Spec => []IInv
<1>1. Init => IInv
    BY InitKeeps
<1>2. IInv /\ [Next]_vars => IInv'
    BY NextKeeps
<1> QED BY <1>1, <1>2, PTL DEF Spec

(***************************************************************************)
(* The theorems                                                            *)
(***************************************************************************)

\* The state of every thread, the count of calls that forbid to yield included,
\* is of the type it has in the code: the count is never taken below zero.
THEOREM TypeCorrect == Spec => []TypeOK
<1>1. IInv => TypeOK
    BY PreventIs DEF IInv, Shape, TypeOK
<1> QED BY <1>1, Invariance, PTL

\* duk_bi_thread_yield relies on callstack_preventcount alone: however calls
\* end, it is exactly the number of native calls, executors and protected calls
\* in progress on the thread.
THEOREM CountIsExact == Spec => []PreventExact
<1>1. IInv => PreventExact
    BY PreventIs DEF IInv, PreventExact, CallsThere, Preventing, ProtectedThere, ProtectedOn
<1> QED BY <1>1, Invariance, PTL

\* What the invariant says of a thread that was resumed.
LEMMA LinkIs ==
    ASSUME IInv, NEW t \in Threads, resumer[t] # None
    PROVE  /\ state[t] \in {"running", "resumed"} \/ Finishing(t)
           /\ resumer[t] \in Threads /\ state[resumer[t]] = "resumed"
           /\ Finishing(t) \/ Last(calls[resumer[t]]) = "resume"
           /\ \A s \in Threads : resumer[s] = resumer[t] => s = t
<1> PICK lvl \in [Threads -> Nat], rank \in [Threads -> Nat] : Core(lvl, rank)
    BY DEF IInv, Fitting
<1>1. Linked(t) /\ Shape /\ resumer[t] \in Threads
    BY DEF Linked, IInv, Shape
<1>2. /\ state[resumer[t]] = "resumed" /\ state[t] \in {"running", "resumed", "terminated"}
      /\ \A s \in Threads : resumer[s] = resumer[t] => s = t
    BY <1>1 DEF Core, LinkStates
<1>3. state[t] # "terminated" => Last(calls[resumer[t]]) = "resume"
    BY <1>1 DEF Core, ResumersGoOn, Resumes, Last
<1> QED BY <1>1, <1>2, <1>3 DEF Finishing

\* Threads wait in resume(), each for the one thread that was resumed by it, and
\* that one is running, waits itself or is about to end: no thread is left
\* waiting for one that yielded or is gone.
THEOREM ResumersAreWaitedFor == Spec => []ChainsAreSound
<1>1. ASSUME IInv PROVE ChainsAreSound
    <2>1. ASSUME NEW r \in Threads, state[r] = "resumed"
          PROVE  Cardinality({t \in Threads : resumer[t] = r}) = 1
        <3> PICK lvl \in [Threads -> Nat], rank \in [Threads -> Nat] : Core(lvl, rank)
            BY <1>1 DEF IInv, Fitting
        <3> PICK s \in Threads : resumer[s] = r
            BY <2>1 DEF Core, LinkStates
        <3>1. resumer[s] # None
            BY <1>1, FrameTypes DEF IInv
        <3>2. {t \in Threads : resumer[t] = r} = {s}
            BY <1>1, <3>1, LinkIs
        <3> QED BY <3>2, FS_Singleton
    <2> QED BY <1>1, <2>1, LinkIs DEF ChainsAreSound
<1> QED BY <1>1, Invariance, PTL

\* A C function returns to the call it works for, on the thread it was called
\* on: resume, yield, errors and finalizers leave it where it was.
THEOREM CallsStayWhereTheyAre == Spec => []PhpKeepsItsThread
<1>1. ASSUME IInv PROVE PhpKeepsItsThread
    <2> PICK lvl \in [Threads -> Nat], rank \in [Threads -> Nat] : Core(lvl, rank)
        BY <1>1 DEF IInv, Fitting
    <2>1. Shape
        BY <1>1 DEF IInv
    <2>2. ASSUME NEW i \in DOMAIN nested
          PROVE  LET f == nested[i] IN
              /\ Len(calls[f.thread]) >= f.depth
              /\ f.kind = "native" =>
                   Len(calls[f.thread]) > f.depth /\ calls[f.thread][f.depth + 1] = "native"
              /\ f.kind = "exec" =>
                   Len(calls[f.thread]) > f.depth /\ calls[f.thread][f.depth + 1] = "entry"
        <3>1. /\ i \in 1..Deep /\ nested[i].depth \in Nat /\ nested[i].thread \in Threads
              /\ Len(calls[nested[i].thread]) \in Nat
            BY <2>1, FrameTypes
        <3>2. /\ Base(nested[i]) <= Len(calls[nested[i].thread])
              /\ nested[i].kind = "native" => calls[nested[i].thread][nested[i].depth + 1] = "native"
              /\ nested[i].kind = "exec" => calls[nested[i].thread][nested[i].depth + 1] = "entry"
            BY <3>1 DEF Core, Marked
        <3>3. \/ Base(nested[i]) = nested[i].depth /\ nested[i].kind \notin {"native", "exec"}
              \/ Base(nested[i]) = nested[i].depth + 1
            BY DEF Base, Protected
        <3> QED BY <3>1, <3>2, <3>3
    <2>3. running = "native" /\ nested # << >> =>
              current = Top.thread /\ state[current] = "running" /\ Len(calls[current]) = Top.depth + 1
        BY <2>1, NativeIs
    <2> QED BY <2>2, <2>3 DEF PhpKeepsItsThread
<1> QED BY <1>1, Invariance, PTL

\* When no C function is left, no thread runs or waits, and the main thread is as
\* it was before the first call: the script can call again.
THEOREM AllCallsEnd == Spec => []BackToRest
<1>1. ASSUME IInv, nested = << >>
      PROVE  /\ current = None
             /\ \A t \in Coroutines : state[t] \in {"inactive", "yielded", "terminated"}
             /\ state[Main] = "inactive" /\ calls[Main] = << >> /\ prevent[Main] = 0
    <2> PICK lvl \in [Threads -> Nat], rank \in [Threads -> Nat] : Core(lvl, rank)
        BY <1>1 DEF IInv, Fitting
    <2>1. Shape /\ Counted /\ Deep = 0 /\ 1..Deep = {} /\ ~Refused
        BY <1>1 DEF IInv, Deep, Refused
    <2>2. current = None
        BY <2>1 DEF Core, Served, Serves
    <2>3. ASSUME NEW t \in Threads
          PROVE  ~Linked(t) /\ t # None /\ state[t] \in {"inactive", "yielded", "terminated"}
        <3>1. \A s \in Threads : ~Linked(s) /\ s # None
            BY <2>1, FrameTypes DEF Core, Chained
        <3>2. state[t] # "running"
            BY <2>1, <2>2, <3>1 DEF Core, Runners, Called
        <3>3. state[t] # "resumed"
            BY <3>1 DEF Core, LinkStates, Linked
        <3>4. state[t] \in States
            BY <2>1 DEF Shape
        <3> QED BY <3>1, <3>2, <3>3, <3>4 DEF States
    <2>4. state[Main] = "inactive" /\ calls[Main] = << >> /\ prevent[Main] = 0
        <3>1. Main \in Threads /\ Main \notin Coroutines
            BY CoroutinesAssumption DEF Threads
        <3>2. state[Main] = "inactive"
            BY <2>3, <3>1 DEF Core, LinkStates
        <3>3. calls[Main] = << >>
            <4>1. Len(calls[Main]) = 0
                BY <3>1, <3>2 DEF Core, Resting
            <4> QED BY <2>1, <3>1, <4>1, LenFacts DEF Shape
        <3>4. prevent[Main] = 0
            BY <1>1, <2>1, <3>1, <3>3, PreventIs, CountNone
        <3> QED BY <3>2, <3>3, <3>4
    <2>5. Coroutines \subseteq Threads
        BY DEF Threads
    <2> QED BY <2>2, <2>3, <2>4, <2>5
<1>2. IInv => BackToRest
    BY <1>1 DEF BackToRest
<1> QED BY <1>2, Invariance, PTL

=============================================================================
