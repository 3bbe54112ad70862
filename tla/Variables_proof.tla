-------------------------- MODULE Variables_proof --------------------------
(***************************************************************************)
(* Proofs about shared variables, for any VMs, names and data.             *)
(***************************************************************************)
EXTENDS Variables, TLAPS

\* Converted values are never taken for an absent entry.
LEMMA Converted ==
    /\ \A p : ToJs(p) \in Plain \cup {Undefined, True, [is |-> "false"]}
    /\ \A m \in Vms : \A v \in JsValues(m) : ToPhp(v) \in PhpValues /\ ToPhp(v) # Absent
    /\ \A v \in Plain \cup {True} : ToJs(ToPhp(v)) = v
    /\ \A m \in Vms : Vm(m) # Absent /\ ToJs(Vm(m)) = Undefined /\ Vm(m) \in PhpValues
    /\ \A m \in Vms : Absent \notin JsValues(m)
<1>1. \A p : ToJs(p) \in Plain \cup {Undefined, True, [is |-> "false"]}
    BY DEF ToJs
<1>2. \A v \in Plain : /\ v # Undefined /\ v # True /\ v # [is |-> "false"]
                       /\ v # [is |-> "TRUE"] /\ v # Null /\ v # Absent
    BY DEF Plain, Undefined, True, Null, Absent
<1>3. \A m \in Vms :
        /\ Object(m) \notin Plain /\ Object(m) # Undefined /\ Object(m) # True
        /\ Object(m) # [is |-> "false"] /\ Object(m) # Absent /\ Object(m).object = m
        /\ Wrapper(m) # Absent
        /\ Vm(m) \notin Plain /\ Vm(m) # Null /\ Vm(m) # [is |-> "TRUE"] /\ Vm(m) # Absent
    BY DEF Object, Plain, Undefined, True, Absent, Wrapper, Vm, Null
<1>4. \A m \in Vms : \A v \in JsValues(m) : ToPhp(v) \in PhpValues /\ ToPhp(v) # Absent
    <2> TAKE m \in Vms
    <2> TAKE v \in JsValues(m)
    <2>1. CASE v \in Plain
        BY <1>2, <2>1 DEF ToPhp, PhpValues, Simple
    <2>2. CASE v = Undefined
        BY <1>2, <2>2 DEF ToPhp, PhpValues, Simple, Null, Absent, Undefined, True
    <2>3. CASE v \in {True, [is |-> "false"]} /\ v \notin Plain
        BY <2>3 DEF ToPhp, PhpValues, Simple, Absent, Undefined, True
    <2>4. CASE v = Object(m)
        <3>1. ToPhp(v) = Wrapper(m)
            BY <1>3, <2>4 DEF ToPhp
        <3> QED BY <1>3, <3>1 DEF PhpValues
    <2> QED BY <2>1, <2>2, <2>3, <2>4 DEF JsValues
<1>5. \A v \in Plain \cup {True} : ToJs(ToPhp(v)) = v
    <2>1. \A v \in Plain : ToPhp(v) = v /\ ToJs(v) = v
        BY <1>2 DEF ToPhp, ToJs
    <2>2. True \notin Plain /\ True # Undefined /\ [is |-> "TRUE"] \notin Plain /\ [is |-> "TRUE"] # Null
        BY <1>2 DEF True, Undefined, Null
    <2>3. ToPhp(True) = [is |-> "TRUE"] /\ ToJs([is |-> "TRUE"]) = True
        BY <2>2 DEF ToPhp, ToJs
    <2> QED BY <2>1, <2>3
<1>6. \A m \in Vms : ToJs(Vm(m)) = Undefined /\ Vm(m) \in PhpValues
    BY <1>3 DEF ToJs, PhpValues
<1>7. \A m \in Vms : Absent \notin JsValues(m)
    BY <1>2, <1>3 DEF JsValues, Absent, Undefined, True
<1> QED BY <1>1, <1>3, <1>4, <1>5, <1>6, <1>7

(***************************************************************************)
(* Types, and objects in their heaps                                       *)
(***************************************************************************)

AnyJs == (UNION {JsValues(m) : m \in Vms}) \cup {Absent}

Types ==
    /\ built \subseteq Vms
    /\ table \in [Names -> PhpValues \cup {Absent}]
    /\ globals \in [Vms -> [Globals -> AnyJs]]
    /\ php \in PhpValues

Apart == Types /\ HeapsKeepApart

LEMMA Written ==
    ASSUME Apart, NEW m \in Vms, NEW v \in Expressions(m) \ {Absent}
    PROVE  v \in JsValues(m)
BY DEF Apart, HeapsKeepApart, Expressions

LEMMA SetKeepsApart ==
    ASSUME Apart, NEW m \in Vms, NEW g \in Globals, NEW v \in JsValues(m) \cup {Absent},
           globals' = [globals EXCEPT ![m][g] = v]
    PROVE  /\ globals' \in [Vms -> [Globals -> AnyJs]]
           /\ HeapsKeepApart'
<1>1. v \in AnyJs /\ globals \in [Vms -> [Globals -> AnyJs]]
    BY DEF AnyJs, Apart, Types
<1>2. \A k \in Vms, h \in Globals :
        globals'[k][h] = IF k = m /\ h = g THEN v ELSE globals[k][h]
    BY <1>1
<1>3. globals' \in [Vms -> [Globals -> AnyJs]]
    BY <1>1
<1> QED BY <1>2, <1>3 DEF Apart, HeapsKeepApart

LEMMA InitApart == Init => Apart
<1> SUFFICES ASSUME Init PROVE Apart
    OBVIOUS
<1>1. Absent \in AnyJs /\ Null \in PhpValues
    BY DEF AnyJs, PhpValues, Simple
<1>2. Types
    BY <1>1 DEF Init, Types
<1>3. HeapsKeepApart
    BY DEF Init, HeapsKeepApart
<1> QED BY <1>2, <1>3 DEF Apart

LEMMA AddedType ==
    ASSUME Apart, NEW n \in Names, NEW p \in PhpValues
    PROVE  Added(n, p) \in [Names -> PhpValues \cup {Absent}]
BY DEF Apart, Types, Added

LEMMA NextApart == Apart /\ [Next]_vars => Apart'
<1> SUFFICES ASSUME Apart, [Next]_vars PROVE Apart'
    OBVIOUS
<1> USE DEF Apart, Types
<1>1. CASE UNCHANGED vars
    BY <1>1 DEF vars, HeapsKeepApart
<1>2. CASE PhpComputes
    BY <1>2 DEF PhpComputes, HeapsKeepApart, PhpValues
<1>3. ASSUME NEW m \in Vms, Construct(m) PROVE Apart'
    BY <1>3, VariablesAssumption, Converted, AddedType DEF Construct, HeapsKeepApart
<1>4. ASSUME NEW m \in Vms, NEW n \in Names, NEW v \in Expressions(m) \ {Absent},
             SetIntoPhp(m, n, v)
      PROVE  Apart'
    <2>1. v \in JsValues(m) /\ ToPhp(v) \in PhpValues
        BY Written, Converted
    <2>2. table' \in [Names -> PhpValues \cup {Absent}]
        BY <1>4, <2>1, AddedType DEF SetIntoPhp
    <2>3. UNCHANGED <<built, globals, php>>
        BY <1>4 DEF SetIntoPhp
    <2> QED BY <2>2, <2>3 DEF HeapsKeepApart
<1>5. ASSUME NEW m \in Vms, NEW n \in Names, Get(m, n) PROVE Apart'
    BY <1>5 DEF Get, HeapsKeepApart, PhpValues, Simple
<1>6. ASSUME NEW m \in Vms, NEW n \in Names, NEW g \in Globals, GetFromPhp(m, n, g) PROVE Apart'
    <2> DEFINE v == IF table[n] = Absent THEN Undefined ELSE ToJs(table[n])
    <2>1. v \in JsValues(m)
        BY Converted DEF JsValues
    <2>2. /\ globals' = globals \/ globals' = [globals EXCEPT ![m][g] = v]
          /\ UNCHANGED <<built, table, attr, php, mode>>
        BY <1>6 DEF GetFromPhp
    <2> HIDE DEF v
    <2>3. CASE globals' = globals
        BY <2>2, <2>3 DEF HeapsKeepApart
    <2>4. CASE globals' = [globals EXCEPT ![m][g] = v]
        BY <2>1, <2>2, <2>4, SetKeepsApart
    <2> QED BY <2>2, <2>3, <2>4
<1>7. ASSUME NEW m \in Vms, NEW g \in Globals, OffsetGet(m, g) PROVE Apart'
    <2>1. php' \in PhpValues
        BY <1>7, Converted DEF OffsetGet, HeapsKeepApart, PhpValues, Simple
    <2> QED BY <1>7, <2>1 DEF OffsetGet, HeapsKeepApart
<1>8. ASSUME NEW m \in Vms, NEW g \in Globals, OffsetSet(m, g) PROVE Apart'
    <2>1. ToJs(php) \in JsValues(m)
        BY Converted DEF JsValues
    <2>2. /\ globals' = globals \/ globals' = [globals EXCEPT ![m][g] = ToJs(php)]
          /\ UNCHANGED <<built, table, attr, php>>
        BY <1>8 DEF OffsetSet
    <2>3. CASE globals' = globals
        BY <2>2, <2>3 DEF HeapsKeepApart
    <2>4. CASE globals' = [globals EXCEPT ![m][g] = ToJs(php)]
        BY <2>1, <2>2, <2>4, SetKeepsApart
    <2> QED BY <2>2, <2>3, <2>4
<1>9. ASSUME NEW m \in Vms, NEW g \in Globals, Assign(m, g) PROVE Apart'
    <2> PICK v \in Expressions(m) \ {Absent} : globals' = [globals EXCEPT ![m][g] = v]
        BY <1>9 DEF Assign
    <2>1. v \in JsValues(m)
        BY Written
    <2> QED BY <1>9, <2>1, SetKeepsApart DEF Assign
<1>10. ASSUME NEW m \in Vms, NEW g \in Globals, Define(m, g) PROVE Apart'
    <2> DEFINE v == IF globals[m][g] = Absent THEN Undefined ELSE globals[m][g]
    <2>1. v \in JsValues(m)
        BY DEF HeapsKeepApart, JsValues
    <2>2. globals' = [globals EXCEPT ![m][g] = v] /\ UNCHANGED <<built, table, php, mode>>
        BY <1>10 DEF Define
    <2> HIDE DEF v
    <2> QED BY <2>1, <2>2, SetKeepsApart
<1> QED BY <1>1, <1>2, <1>3, <1>4, <1>5, <1>6, <1>7, <1>8, <1>9, <1>10 DEF Next

\* Whatever scripts in both languages do, an object of one VM never gets into
\* the heap of another.
THEOREM ObjectsStayHome == Spec => []HeapsKeepApart
<1>1. Apart => HeapsKeepApart
    BY DEF Apart
<1> QED BY <1>1, InitApart, NextApart, PTL DEF Spec

\* The attributes of globals, which decide what fails.
AttrType ==
    /\ attr \in [Vms -> [Globals -> {"plain", "readOnly", "throws"}]]
    /\ mode \in {"running", "fatal"}

\* Every variable keeps to its type: the table holds nothing but PHP values,
\* whatever JS code has written to it.
THEOREM TypeCorrect == Spec => []TypeOK
<1>1. Init => AttrType
    BY DEF Init, AttrType
<1>2. AttrType /\ [Next]_vars => AttrType'
    <2> SUFFICES ASSUME AttrType, [Next]_vars PROVE AttrType'
        OBVIOUS
    <2> USE DEF AttrType
    <2>1. CASE UNCHANGED vars
        BY <2>1 DEF vars
    <2>2. ASSUME NEW m \in Vms, NEW g \in Globals, Define(m, g) PROVE AttrType'
        <3>1. PICK kind \in {"readOnly", "throws"} : attr' = [attr EXCEPT ![m][g] = kind]
            BY <2>2 DEF Define
        <3> QED BY <2>2, <3>1 DEF Define
    <2>3. ASSUME NEW m \in Vms, NEW g \in Globals,
                 OffsetGet(m, g) \/ OffsetSet(m, g) \/ Assign(m, g)
          PROVE  AttrType'
        BY <2>3 DEF OffsetGet, OffsetSet, Assign
    <2>4. ASSUME NEW m \in Vms, NEW n \in Names,
                 Get(m, n) \/ \E v \in Expressions(m) \ {Absent} : SetIntoPhp(m, n, v)
          PROVE  AttrType'
        BY <2>4 DEF SetIntoPhp, Get
    <2>5. ASSUME NEW m \in Vms, NEW n \in Names, NEW g \in Globals, GetFromPhp(m, n, g)
          PROVE  AttrType'
        BY <2>5 DEF GetFromPhp
    <2>6. ASSUME NEW m \in Vms, Construct(m) PROVE AttrType'
        BY <2>6 DEF Construct
    <2>7. CASE PhpComputes
        BY <2>7 DEF PhpComputes
    <2> QED BY <2>1, <2>2, <2>3, <2>4, <2>5, <2>6, <2>7 DEF Next
<1>3. Apart /\ AttrType => TypeOK
    BY DEF Apart, Types, AttrType, TypeOK
<1> QED BY <1>1, <1>2, <1>3, InitApart, NextApart, PTL DEF Spec

(***************************************************************************)
(* The first VM                                                            *)
(***************************************************************************)

\* As soon as there is a VM, main_obj is taken.
Entered == table[MainObj] = Absent <=> built = {}

MainInv == Apart /\ Entered

\* Where there is a VM, an assignment leaves the entry alone; the first VM is
\* entered.
LEMMA NextEnters ==
    ASSUME MainInv, [Next]_vars
    PROVE  /\ Entered'
           /\ built = {} => \A m \in built' : table'[MainObj] = Vm(m)
           /\ built # {} => table'[MainObj] = table[MainObj]
<1> USE VariablesAssumption DEF MainInv, Entered
<1>1. ASSUME UNCHANGED <<built, table>>
      PROVE  /\ Entered'
             /\ built = {} => \A m \in built' : table'[MainObj] = Vm(m)
             /\ built # {} => table'[MainObj] = table[MainObj]
    BY <1>1
<1>2. ASSUME NEW m \in Vms, Construct(m)
      PROVE  /\ Entered'
             /\ built = {} => \A k \in built' : table'[MainObj] = Vm(k)
             /\ built # {} => table'[MainObj] = table[MainObj]
    <2>1. /\ built' = built \cup {m} /\ Vm(m) # Absent
          /\ table'[MainObj] = IF table[MainObj] = Absent THEN Vm(m) ELSE table[MainObj]
        BY <1>2, Converted DEF Construct, Added, Apart, Types
    <2> QED BY <2>1
<1>3. ASSUME NEW m \in Vms, NEW n \in Names, NEW v \in Expressions(m) \ {Absent},
             SetIntoPhp(m, n, v)
      PROVE  UNCHANGED built /\ built # {} /\ table'[MainObj] = table[MainObj]
    <2>1. m \in built /\ UNCHANGED built /\ table' = Added(n, ToPhp(v))
        BY <1>3 DEF SetIntoPhp
    <2>2. table[MainObj] # Absent
        BY <2>1
    <2> QED BY <2>1, <2>2 DEF Added, Apart, Types
<1>4. ASSUME NEW m \in Vms, NEW n \in Names, Get(m, n) PROVE UNCHANGED <<built, table>>
    BY <1>4 DEF Get
<1>5. ASSUME NEW m \in Vms, NEW n \in Names, NEW g \in Globals, GetFromPhp(m, n, g)
      PROVE  UNCHANGED <<built, table>>
    BY <1>5 DEF GetFromPhp
<1>6. ASSUME NEW m \in Vms, NEW g \in Globals,
             OffsetGet(m, g) \/ OffsetSet(m, g) \/ Assign(m, g) \/ Define(m, g)
      PROVE  UNCHANGED <<built, table>>
    BY <1>6 DEF OffsetGet, OffsetSet, Assign, Define
<1>7. CASE PhpComputes \/ UNCHANGED vars
    BY <1>1, <1>7 DEF PhpComputes, vars
<1> QED BY <1>1, <1>2, <1>3, <1>4, <1>5, <1>6, <1>7 DEF Next

\* The VM that a script builds first is entered under main_obj, and stays there
\* whatever VMs are built and whatever is assigned to PHP.$main_obj later:
\* zend_hash_str_add never replaces an entry.
THEOREM MainObjStays == Spec => MainObjKept
<1>1. Init => MainInv
    BY InitApart, VariablesAssumption DEF Init, MainInv, Entered
<1>2. MainInv /\ [Next]_vars => MainInv'
    BY NextApart, NextEnters DEF MainInv
<1>3. MainInv /\ [Next]_vars =>
        [IF built = {}
         THEN \A m \in built' : table'[MainObj] = Vm(m)
         ELSE table'[MainObj] = table[MainObj]]_vars
    BY NextEnters
<1> QED BY <1>1, <1>2, <1>3, PTL DEF Spec, MainObjKept

=============================================================================
