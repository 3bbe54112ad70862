----------------------------- MODULE Variables -----------------------------
(***************************************************************************)
(* Variables that both languages see.  PHP.$x in JS code is an entry of    *)
(* one table that all VMs and $js->x share; $js['x'], and an assignment to *)
(* $js->x, are about the global variable x of one VM.  The table is filled *)
(* by JS code only and holds PHP values; globals hold JS values.           *)
(*                                                                         *)
(* JS code keeps what it computes and reads in globals.  VMs stay:         *)
(* VmWrappers has their end.                                               *)
(***************************************************************************)
EXTENDS Integers

CONSTANTS
    Vms,
    Names,         \* of PHP variables, and main_obj
    MainObj,       \* "main_obj", under which the table holds a VM
    Globals,       \* names of global variables
    Data           \* numbers and strings, which cross as they are

ASSUME VariablesAssumption == MainObj \in Names

VARIABLES
    built,         \* the VMs constructed
    table,         \* intern_hash
    globals,       \* properties of the global object of a VM
    attr,          \* what JS code has made of them
    php,           \* what the PHP script holds in a variable
    mode,          \* "fatal": an error outside of any protected call
    assigned       \* history: what JS code last assigned to PHP.$x

vars == <<built, table, globals, attr, php, mode, assigned>>

\* Values are records with one field, as in Conversion.  A JS value is plain
\* data, undefined, a boolean, or an object of a VM.
Plain == {[data |-> d] : d \in Data}
Undefined == [is |-> "undefined"]
True == [is |-> "true"]
Object(m) == [object |-> m]
JsValues(m) == Plain \cup {Undefined, True, [is |-> "false"], Object(m)}

\* A PHP value is plain data, NULL, a boolean, a wrapper or a VM.
Null == [is |-> "NULL"]
Wrapper(m) == [wrapper |-> m]
Vm(m) == [JS |-> m]
Simple == Plain \cup {Null, [is |-> "TRUE"], [is |-> "FALSE"]}
PhpValues == Simple \cup {Wrapper(m) : m \in Vms} \cup {Vm(m) : m \in Vms}

Absent == [is |-> "absent"]

-----------------------------------------------------------------------------
(***************************************************************************)
(* The conversions, of what is told apart here                             *)
(***************************************************************************)

\* Mutant of ToPhp: functions and instances are passed as they are.
ToPhpUnwrapped(v) ==
    CASE v \in Plain -> v
      [] v = Undefined -> Null
      [] v \in {True, [is |-> "false"]} -> [is |-> "TRUE"]
      [] OTHER -> v

ToPhp(v) ==
    CASE v \in Plain -> v
      [] v = Undefined -> Null
      [] v \in {True, [is |-> "false"]} -> [is |-> "TRUE"]
      [] OTHER -> Wrapper(v.object)

\* Mutant of ToJs: a wrapper is handed back as what it wraps.
ToJsUnwraps(p) ==
    CASE p \in Plain -> p
      [] p = Null -> [is |-> "false"]
      [] p = [is |-> "TRUE"] -> True
      [] p \in {Wrapper(m) : m \in Vms} -> Object(p.wrapper)
      [] OTHER -> Undefined

\* FALSE, wrappers and VMs fall to the default case.
ToJs(p) ==
    CASE p \in Plain -> p
      [] p = Null -> [is |-> "false"]
      [] p = [is |-> "TRUE"] -> True
      [] OTHER -> Undefined

-----------------------------------------------------------------------------
(***************************************************************************)
(* Properties of the global object                                         *)
(***************************************************************************)

\* Errors of a property access: the getter throws; the property is read-only.
ReadFails(m, n) == attr[m][n] = "throws"

WriteFails(m, n) == attr[m][n] # "plain"

\* What JS code of m can write: a new value, or that of a global.
Expressions(m) == JsValues(m) \cup {globals[m][g] : g \in {h \in Globals : attr[m][h] # "throws"}}

\* JS code assigns to a global, which has no effect, or is an error that it or
\* evaluate catches, if the property does not allow it.
Assign(m, n) ==
    /\ mode = "running" /\ m \in built
    /\ ~WriteFails(m, n)
    /\ \E v \in Expressions(m) \ {Absent} : globals' = [globals EXCEPT ![m][n] = v]
    /\ UNCHANGED <<built, table, attr, php, mode, assigned>>

\* Object.defineProperty: an accessor whose functions throw, or a property that
\* cannot be written.
Define(m, n) ==
    /\ mode = "running" /\ m \in built
    /\ \E kind \in {"readOnly", "throws"} : attr' = [attr EXCEPT ![m][n] = kind]
    /\ globals' = [globals EXCEPT ![m][n] = IF @ = Absent THEN Undefined ELSE @]
    /\ UNCHANGED <<built, table, php, mode, assigned>>

-----------------------------------------------------------------------------
(***************************************************************************)
(* The table                                                               *)
(***************************************************************************)

\* Mutant of Added: zend_hash_str_update.
AddedAnew(n, p) == [table EXCEPT ![n] = p]

\* zend_hash_str_add keeps an entry that is there.
Added(n, p) == IF table[n] = Absent THEN [table EXCEPT ![n] = p] ELSE table

\* JS::__construct.
Construct(m) ==
    /\ mode = "running"
    /\ m \notin built
    /\ built' = built \cup {m}
    /\ table' = Added(MainObj, Vm(m))
    /\ UNCHANGED <<globals, attr, php, mode, assigned>>

\* duk_set_into_php, the trap of PHP.$n = v.  It drops the first character
\* of the key, whatever that is, and tells JS code that all is well.
SetIntoPhp(m, n, v) ==
    /\ mode = "running" /\ m \in built
    /\ v \in Expressions(m) \ {Absent}
    /\ table' = Added(n, ToPhp(v))
    /\ assigned' = [assigned EXCEPT ![n] = v]
    /\ UNCHANGED <<built, globals, attr, php, mode>>

\* duk_get_from_php, the trap that reads PHP.$n, here into the global g.
\* Without the $ it makes a function, like any that JS code may hold.
GetFromPhp(m, n, g) ==
    /\ mode = "running" /\ m \in built
    /\ LET v == IF table[n] = Absent THEN Undefined ELSE ToJs(table[n]) IN
        globals' = IF WriteFails(m, g) THEN globals ELSE [globals EXCEPT ![m][g] = v]
    /\ UNCHANGED <<built, table, attr, php, mode, assigned>>

\* JS::__get: $v = $js->n, for any $js.
Get(m, n) ==
    /\ mode = "running" /\ m \in built
    /\ php' = IF table[n] = Absent THEN Null ELSE table[n]
    /\ UNCHANGED <<built, table, globals, attr, mode, assigned>>

-----------------------------------------------------------------------------
(***************************************************************************)
(* Globals seen from PHP                                                   *)
(***************************************************************************)

\* JS::offsetGet: $v = $js['n'], a property access in no protected call.
OffsetGet(m, n) ==
    /\ mode = "running" /\ m \in built
    /\ IF ReadFails(m, n)
       THEN mode' = "fatal" /\ UNCHANGED php
       ELSE /\ php' = IF globals[m][n] = Absent THEN Null ELSE ToPhp(globals[m][n])
            /\ UNCHANGED mode
    /\ UNCHANGED <<built, table, globals, attr, assigned>>

\* JS::offsetSet and JS::__set: $js['n'] = $v, $js->n = $v.
OffsetSet(m, n) ==
    /\ mode = "running" /\ m \in built
    /\ IF WriteFails(m, n)
       THEN mode' = "fatal" /\ UNCHANGED globals
       ELSE globals' = [globals EXCEPT ![m][n] = ToJs(php)] /\ UNCHANGED mode
    /\ UNCHANGED <<built, table, attr, php, assigned>>

-----------------------------------------------------------------------------
\* The PHP script comes by a value of its own.
PhpComputes ==
    /\ mode = "running"
    /\ php' \in Simple
    /\ UNCHANGED <<built, table, globals, attr, mode, assigned>>

Init ==
    /\ built = {}
    /\ table = [n \in Names |-> Absent]
    /\ globals = [m \in Vms |-> [n \in Globals |-> Absent]]
    /\ attr = [m \in Vms |-> [n \in Globals |-> "plain"]]
    /\ php = Null
    /\ mode = "running"
    /\ assigned = [n \in Names |-> Absent]

Next ==
    \/ PhpComputes
    \/ \E m \in Vms : Construct(m)
    \/ \E m \in Vms, n \in Names :
        Get(m, n) \/ \E v \in Expressions(m) \ {Absent} : SetIntoPhp(m, n, v)
    \/ \E m \in Vms, n \in Names, g \in Globals : GetFromPhp(m, n, g)
    \/ \E m \in Vms, n \in Globals :
        \/ OffsetGet(m, n) \/ OffsetSet(m, n)
        \/ Assign(m, n) \/ Define(m, n)

Spec == Init /\ [][Next]_vars

-----------------------------------------------------------------------------
TypeOK ==
    /\ built \subseteq Vms
    /\ table \in [Names -> PhpValues \cup {Absent}]
    /\ php \in PhpValues
    /\ mode \in {"running", "fatal"}
    /\ \A m \in Vms : attr[m] \in [Globals -> {"plain", "readOnly", "throws"}]

\* JS code never holds an object of another VM: whatever route a value takes,
\* through the table, through PHP variables and through globals of any VM,
\* objects of one heap do not get into another.
HeapsKeepApart ==
    \A m \in Vms, n \in Globals : globals[m][n] \in JsValues(m) \cup {Absent}

\* The first VM that is built is entered under main_obj, and no later VM and no
\* assignment to PHP.$main_obj ever displaces it.
MainObjKept ==
    [][IF built = {}
       THEN \A m \in built' : table'[MainObj] = Vm(m)
       ELSE table'[MainObj] = table[MainObj]]_vars

\* What README.md says of PHP.$something = 1, that it sets a variable: PHP code
\* finds there what JS code assigned.
SetTakesEffect ==
    \A n \in Names \ {MainObj} : assigned[n] # Absent => table[n] = ToPhp(assigned[n])

=============================================================================
