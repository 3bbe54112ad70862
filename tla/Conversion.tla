------------------------------ MODULE Conversion ------------------------------
(***************************************************************************)
(* How values cross between JavaScript and PHP: duk_to_zval and            *)
(* zval_to_duk.  A script that writes $js->x = $v; and                     *)
(* $v = $js->evaluate('x'); sends one value over and back as often as it   *)
(* likes; the state is that value.  Such a script leaves nothing on the    *)
(* Duktape stack, so every conversion finds the same room.                 *)
(*                                                                         *)
(* A value is a tree: a function from paths, sequences of keys, to nodes.  *)
(* The path << >> leads to the value itself, and q \o <<k>> to what the    *)
(* container at q has under the key k.  A node is a record with one field. *)
(* JavaScript:  [number |-> n]  [string |-> s]  [is |-> t], t one of       *)
(*    JsLeaves or "array", "object"                                        *)
(* PHP:  [long |-> n]  [double |-> n]  [string |-> s]  [is |-> t], t one   *)
(*    of PhpLeaves or "array"                                              *)
(* A key is an integer or one of Names; the order of the keys is left out. *)
(***************************************************************************)
EXTENDS Integers, Sequences

CONSTANTS
    Names,         \* keys that are not decimal integers
    Strings,       \* string values
    Constructor,   \* the name "constructor"
    Prototype,     \* the name "__proto__"
    Cut,           \* what precedes the first NUL of a name or string
    Half,          \* half the number of values of duk_int_t and duk_uarridx_t (2^31)
    DepthToPhp,    \* containers within each other that the slots of the stack
                   \* have room for: each takes three of them in duk_to_zval
    DepthToJs,     \* and one in zval_to_duk
    Inputs,        \* <<side, value>>: where the crossings start
    MaxTrips       \* bound: crossings of a behaviour

Keys == Int \cup Names

ASSUME ConversionAssumption ==
    /\ Half \in Nat \ {0}
    /\ MaxTrips \in Nat
    /\ DepthToPhp \in Nat /\ DepthToJs \in Nat /\ DepthToPhp <= DepthToJs
    /\ Names \cap Int = {}
    /\ \A n \in Names : Cut[n] \in Keys /\ (Cut[n] \in Names => Cut[Cut[n]] = Cut[n])
    /\ {Constructor, Prototype} \subseteq Names
    /\ Cut[Constructor] = Constructor /\ Cut[Prototype] = Prototype
    /\ \A t \in Strings : Cut[t] \in Strings /\ Cut[Cut[t]] = Cut[t]

VARIABLES
    side,          \* "js" or "php": who holds the value
    value,
    origin,        \* the value the crossings started from
    trips,         \* crossings so far
    fate           \* "ok", or how a conversion lost the process

vars == <<side, value, origin, trips, fate>>

-----------------------------------------------------------------------------
\* "instance": an object whose constructor is not called Object.
\* "bare": an object whose constructor.name cannot be read.
\* "cyclic": a plain object that contains itself.
\* An "object" is none of these unless its entries make it one, see Taken; what
\* it has under Prototype is its prototype, no property of its own.
JsLeaves == {"undefined", "null", "true", "false", "function", "instance",
             "bare", "cyclic", "buffer"}

\* Any object but a wrapper is IS_OBJECT; an array element bound to a
\* variable is IS_REFERENCE.
PhpLeaves == {"IS_NULL", "IS_TRUE", "IS_FALSE", "IS_OBJECT", "IS_REFERENCE",
              "JSFunctionWrapper", "JSObjectWrapper"}

Has(x, field) == field \in DOMAIN x
Is(x, leaves) == Has(x, "is") /\ x.is \in leaves
Container(x)  == Is(x, {"array", "object"})

JsNodes  == [number : Int] \cup [string : Strings] \cup [is : JsLeaves \cup {"array", "object"}]
PhpNodes == [long : Int] \cup [double : Int] \cup [string : Strings] \cup [is : PhpLeaves \cup {"array"}]

Parent(p) == SubSeq(p, 1, Len(p) - 1)

\* Everything but the root is in a container.
Tree(x) ==
    /\ x = [p \in DOMAIN x |-> x[p]]
    /\ DOMAIN x \subseteq Seq(Keys)
    /\ << >> \in DOMAIN x
    /\ \A p \in DOMAIN x \ {<< >>} : Parent(p) \in DOMAIN x /\ Container(x[Parent(p)])

JsValue(x)  == Tree(x) /\ \A p \in DOMAIN x : x[p] \in JsNodes
PhpValue(x) == Tree(x) /\ \A p \in DOMAIN x : x[p] \in PhpNodes

ASSUME InputsAssumption ==
    \A input \in Inputs :
        \/ input[1] = "js" /\ JsValue(input[2])
        \/ input[1] = "php" /\ PhpValue(input[2])

\* There is a container inside n others.
Deeper(x, n) == \E p \in DOMAIN x : Container(x[p]) /\ Len(p) >= n

\* The keys of the container at p.
KeysUnder(x, p) == {q[Len(q)] : q \in {r \in DOMAIN x \ {<< >>} : Parent(r) = p}}

\* The path in the copy, where every key k has become key[k].
Renamed(p, key) == [i \in DOMAIN p |-> key[p[i]]]

\* Of the entries of a container whose keys become one, the last one written
\* stays: any of them, as the order is left out.
Stays(x, key, p, i) ==
    p[i] = CHOOSE k \in KeysUnder(x, SubSeq(p, 1, i - 1)) : key[k] = key[p[i]]

\* What the copy of x is made from.
Kept(x, key) == {p \in DOMAIN x : \A i \in DOMAIN p : Stays(x, key, p, i)}
Paths(x, key) == {Renamed(p, key) : p \in Kept(x, key)}
Source(x, key, q) == CHOOSE p \in Kept(x, key) : Renamed(p, key) = q

-----------------------------------------------------------------------------
(***************************************************************************)
(* duk_to_zval                                                             *)
(***************************************************************************)

\* Mutant of LeafToPhp: a type the switch does not know is left unwritten.
LeafToPhpUnwritten ==
    [undefined |-> "IS_NULL", null |-> "IS_NULL", true |-> "IS_TRUE", false |-> "IS_TRUE",
     function |-> "JSFunctionWrapper", instance |-> "JSObjectWrapper", buffer |-> "garbage",
     array |-> "array", object |-> "array"]

\* duk_get_number of a boolean is NaN, which C takes for true.  No case
\* handles a buffer: the return value keeps the null the engine put in it.
LeafToPhp ==
    [undefined |-> "IS_NULL", null |-> "IS_NULL", true |-> "IS_TRUE", false |-> "IS_TRUE",
     function |-> "JSFunctionWrapper", instance |-> "JSObjectWrapper", buffer |-> "IS_NULL",
     array |-> "array", object |-> "array"]

\* add_assoc_zval measures the key with strlen, and turns decimal keys into
\* integers.
KeyToPhp == [k \in Keys |-> IF k \in Names THEN Cut[k] ELSE k]

JsObject(x) == Container(x) \/ Is(x, {"function", "instance", "bare", "cyclic"})

\* What duk_is_php_object takes an object for that has, under Constructor, its
\* own property of that name, or under Prototype what it inherits it from.  A
\* primitive has no name; an object may be called anything.
Taken(j, p) ==
    LET own == Append(p, Constructor)
        proto == Append(p, Prototype) IN
    IF own \in DOMAIN j
    THEN IF Is(j[own], {"undefined", "null"}) THEN {"bare"}
         ELSE IF JsObject(j[own]) THEN {"object", "instance"} ELSE {"instance"}
    ELSE IF JsObject(j[proto]) THEN {"object", "instance", "bare"}
         ELSE IF Is(j[proto], {"null"}) THEN {"bare"} ELSE {"object"}

\* The objects whose entries decide what they are taken for, and the ways to
\* take them.
Doubtful(j) ==
    {p \in DOMAIN j : Is(j[p], {"object"})
                      /\ {Append(p, Constructor), Append(p, Prototype)} \cap DOMAIN j # {}}
Readings(j) ==
    {r \in [Doubtful(j) -> {"object", "instance", "bare"}] : \A p \in Doubtful(j) : r[p] \in Taken(j, p)}

\* What the conversion gets to see of j: duk_enum stays out of prototypes, and
\* nothing looks into an object that is wrapped.
Seen(j, r) ==
    {p \in DOMAIN j : \A i \in DOMAIN p :
        /\ p[i] # Prototype
        /\ SubSeq(p, 1, i - 1) \in DOMAIN r => r[SubSeq(p, 1, i - 1)] = "object"}
Read(j, r) == [p \in Seen(j, r) |-> IF p \in DOMAIN r THEN [is |-> r[p]] ELSE j[p]]

\* What can go wrong on the way.  An instance or function inside a container
\* leaves a copy on the stack, and its key is then looked for one slot too
\* high; a buffer inside leaves an element uninitialised.
Faults(j) ==
    LET Within(paths, leaves) == \E p \in paths : Is(j[p], leaves)
        Anywhere(leaves) == Within(DOMAIN j, leaves)
        Inside(leaves)   == Within(DOMAIN j \ {<< >>}, leaves) IN
    (IF Anywhere({"bare"}) THEN {"typeError"} ELSE {})
      \cup (IF Anywhere({"cyclic"}) \/ Deeper(j, DepthToPhp) THEN {"stackFull"} ELSE {})
      \cup (IF Inside({"function", "instance", "buffer"}) THEN {"undefined"} ELSE {})

NodeToPhp(x) ==
    CASE Has(x, "is")     -> [is |-> LeafToPhp[x.is]]
      [] Has(x, "number") -> [double |-> x.number]
      [] Has(x, "string") -> x

ToPhp(j) == [q \in Paths(j, KeyToPhp) |-> NodeToPhp(j[Source(j, KeyToPhp, q)])]

-----------------------------------------------------------------------------
(***************************************************************************)
(* zval_to_duk                                                             *)
(***************************************************************************)

\* Mutant of LeafToJs: wrappers are handed back as what they wrap.
LeafToJsUnwraps ==
    [IS_NULL |-> "false", IS_TRUE |-> "true", IS_FALSE |-> "undefined",
     IS_OBJECT |-> "undefined", IS_REFERENCE |-> "undefined",
     JSFunctionWrapper |-> "function", JSObjectWrapper |-> "instance"]

\* IS_BOOL is IS_FALSE | IS_TRUE, which is the number of IS_TRUE: a false
\* falls to the default case, as do objects, wrappers and references.
LeafToJs ==
    [IS_NULL |-> "false", IS_TRUE |-> "true", IS_FALSE |-> "undefined",
     IS_OBJECT |-> "undefined", IS_REFERENCE |-> "undefined",
     JSFunctionWrapper |-> "undefined", JSObjectWrapper |-> "undefined"]

\* Mutant of ToInt: the sign is lost.
ToIntUnsigned(n) == n % (2 * Half)

\* The conversion of a 64-bit integer to the parameter of duk_push_int.
ToInt(n) == ((n + Half) % (2 * Half)) - Half

\* Mutant of KeyToJs: indices start at one.
KeyToJsShifted == [k \in Keys |-> IF k \in Names THEN Cut[k] ELSE (k + 1) % (2 * Half)]

\* duk_put_prop_string stops at a NUL, and sets the prototype of the object when
\* the name is __proto__; duk_put_prop_index takes an unsigned integer.
KeyToJs == [k \in Keys |-> IF k \in Names THEN Cut[k] ELSE k % (2 * Half)]

\* duk_push_php_array_or_object makes an object if one of the keys is a name.
NodeToJs(x, keys) ==
    CASE Is(x, PhpLeaves) -> [is |-> LeafToJs[x.is]]
      [] Is(x, {"array"}) -> [is |-> IF keys \cap Names = {} THEN "array" ELSE "object"]
      [] Has(x, "long")   -> [number |-> ToInt(x.long)]
      [] Has(x, "double") -> [number |-> x.double]
      [] Has(x, "string") -> [string |-> Cut[x.string]]

ToJs(z) ==
    [q \in Paths(z, KeyToJs) |->
        LET p == Source(z, KeyToJs, q) IN NodeToJs(z[p], KeysUnder(z, p))]

-----------------------------------------------------------------------------
Init ==
    /\ \E input \in Inputs : side = input[1] /\ value = input[2] /\ origin = input[2]
    /\ trips = 0
    /\ fate = "ok"

\* JS to PHP: what JS::evaluate and its like return.
IntoPhp ==
    /\ side = "js" /\ fate = "ok" /\ trips < MaxTrips
    /\ \E r \in Readings(value) :
          LET seen == Read(value, r) IN
          \/ \E fault \in Faults(seen) : fate' = fault /\ UNCHANGED <<side, value, origin, trips>>
          \/ /\ Faults(seen) = {}
             /\ value' = ToPhp(seen)
             /\ side' = "php"
             /\ trips' = trips + 1
             /\ UNCHANGED <<origin, fate>>

\* PHP to JS: what JS::__set and its like store.
IntoJs ==
    /\ side = "php" /\ fate = "ok" /\ trips < MaxTrips
    /\ IF Deeper(value, DepthToJs)
       THEN fate' = "stackFull" /\ UNCHANGED <<side, value, origin, trips>>
       ELSE /\ value' = ToJs(value)
            /\ side' = "js"
            /\ trips' = trips + 1
            /\ UNCHANGED <<origin, fate>>

Next == IntoPhp \/ IntoJs

Spec == Init /\ [][Next]_vars

-----------------------------------------------------------------------------
(***************************************************************************)
(* What crossing should mean                                               *)
(***************************************************************************)

\* The reading both languages agree on: undefined and null are nothing,
\* numbers are numbers, arrays and objects map keys to values.
NodeMeaning(x) ==
    CASE Is(x, {"undefined", "null", "IS_NULL"}) -> [nothing |-> TRUE]
      [] Is(x, {"true", "IS_TRUE"})              -> [boolean |-> TRUE]
      [] Is(x, {"false", "IS_FALSE"})            -> [boolean |-> FALSE]
      [] Container(x)                            -> [is |-> "map"]
      [] Has(x, "long")                          -> [number |-> x.long]
      [] Has(x, "double")                        -> [number |-> x.double]
      [] OTHER                                   -> x

Meaning(x) == [p \in DOMAIN x |-> NodeMeaning(x[p])]

\* No container is too deep for a conversion, and no key is, or becomes, one that
\* makes JS take an object for something else.
Regular(x) ==
    /\ ~Deeper(x, DepthToPhp)
    /\ \A p \in DOMAIN x : \A i \in DOMAIN p :
          p[i] \in Names => {p[i], Cut[p[i]]} \cap {Constructor, Prototype} = {}

\* Keys, and nodes, that mean the same to both languages: true, strings,
\* arrays and plain objects, integers that fit 32 bits, natural indices, no
\* NUL.
PortableKey(k) == IF k \in Names THEN Cut[k] = k ELSE k \in 0 .. 2 * Half - 1

PortableNode(x) ==
    /\ Has(x, "is") => Is(x, {"true", "IS_TRUE", "array", "object"})
    /\ Has(x, "long") => x.long \in -Half .. Half - 1
    /\ Has(x, "string") => Cut[x.string] = x.string

Portable(x) ==
    /\ Regular(x)
    /\ \A p \in DOMAIN x : PortableNode(x[p]) /\ \A i \in DOMAIN p : PortableKey(p[i])

TypeOK ==
    /\ side \in {"js", "php"}
    /\ trips \in 0 .. MaxTrips
    /\ fate \in {"ok", "typeError", "stackFull", "undefined"}
    /\ IF side = "js" THEN JsValue(value) ELSE PhpValue(value)
    /\ JsValue(origin) \/ PhpValue(origin)

\* Portable values survive any number of crossings in both directions unchanged
\* in meaning.
Faithful == Portable(origin) => fate = "ok" /\ Meaning(value) = Meaning(origin)

\* Of the regular values, only one fresh from JS code can make a conversion
\* fail: whatever else PHP holds, even arrays of wrappers, it can send to JS
\* and read back.
OnlyFreshValuesFail == fate # "ok" /\ Regular(origin) => side = "js" /\ trips = 0

\* The changes crossings make to a regular value come to an end: from the sixth
\* crossing on, nothing it means changes any more.
Settles ==
    [][trips >= 5 /\ Regular(origin) => fate' = "ok" /\ Meaning(value') = Meaning(value)]_vars

=============================================================================
