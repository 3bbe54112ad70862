---------------------------- MODULE MCConversion ----------------------------
(***************************************************************************)
(* Values for TLC: leaves of every type, containers of up to two of them   *)
(* under every pair of keys, containers of containers, deeper than the     *)
(* stack has room for, and containers with the names that JS gives a       *)
(* meaning to.                                                             *)
(***************************************************************************)
EXTENDS Conversion, FiniteSets

CONSTANTS a, aNul, nineNul, s, sNul,     \* "a", "a\0...", "9\0...", "s", "s\0..."
          conNul                         \* "constructor\0..."

PlainNames == {a, aNul, nineNul}
OddNames   == {Constructor, Prototype, conNul}
MCNames   == PlainNames \cup OddNames
MCStrings == {s, sNul}
MCCut     == [t \in MCNames \cup MCStrings |->
                IF t \in MCStrings THEN s ELSE IF t = nineNul THEN 9
                ELSE IF t = conNul THEN Constructor ELSE IF t \in OddNames THEN t ELSE a]

\* 3-bit integers stand for 32-bit ones.
Numbers == {0, 3, 5, -1}

JsScalars  == {[number |-> n] : n \in Numbers} \cup {[string |-> t] : t \in MCStrings}
                \cup {[is |-> t] : t \in JsLeaves}
PhpScalars == {[long |-> n] : n \in Numbers} \cup {[double |-> 5]}
                \cup {[string |-> t] : t \in MCStrings} \cup {[is |-> t] : t \in PhpLeaves}

\* 9, nineNul and 1, like aNul and a, become one on the way to JS or PHP.
KeySets == {K \in SUBSET ({1, 9, -1} \cup PlainNames) : Cardinality(K) <= 2}

\* A value alone, a container of scalars, and one that holds a value.
Alone(x) == [p \in {<< >>} |-> x]
Flat(type, f) ==
    [p \in {<< >>} \cup {<<k>> : k \in DOMAIN f} |-> IF p = << >> THEN [is |-> type] ELSE f[p[1]]]
Deep(type, k, x) ==
    [p \in {<< >>} \cup {<<k>> \o q : q \in DOMAIN x} |->
        IF p = << >> THEN [is |-> type] ELSE x[Tail(p)]]

Flats(types, leaves) ==
    UNION {{Flat(t, f) : t \in types, f \in [K -> leaves]} : K \in KeySets}
Deeps(type, values) ==
    {Deep(type, k, x) : k \in {1, 9, -1} \cup PlainNames, x \in {y \in values : Cardinality(DOMAIN y) <= 2}}

JsFlat  == Flats({"array", "object"}, JsScalars)
PhpFlat == Flats({"array"}, PhpScalars)

\* Containers in containers: two levels fit on the way to PHP, three to JS.
RECURSIVE Nested(_, _, _)
Nested(type, n, x) == IF n = 0 THEN Alone(x) ELSE Deep(type, 1, Nested(type, n - 1, x))

\* Containers, also within one another, with a name that means something to JS.
Odd(type, scalars) ==
    LET Inner == {Alone(x) : x \in scalars} \cup {Flat(type, [k \in {n} |-> x]) : n \in MCNames, x \in scalars}
        Outer == {Deep(type, n, x) : n \in OddNames, x \in Inner} IN
    Outer \cup {Deep(type, a, x) : x \in Outer}

\* An element is bound to a variable only inside an array.
AllInputs ==
    ({"js"} \X ({Alone(x) : x \in JsScalars} \cup JsFlat \cup Deeps("object", JsFlat)
                  \cup Odd("object", JsScalars)
                  \cup {Nested("object", n, x) : n \in 2 .. 4, x \in JsScalars}))
      \cup ({"php"} \X ({Alone(x) : x \in PhpScalars \ {[is |-> "IS_REFERENCE"]}}
                          \cup PhpFlat \cup Deeps("array", PhpFlat)
                          \cup Odd("array", PhpScalars)
                          \cup {Nested("array", n, x) : n \in 2 .. 4, x \in PhpScalars}))

=============================================================================
