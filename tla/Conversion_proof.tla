--------------------------- MODULE Conversion_proof ---------------------------
(***************************************************************************)
(* Proofs about values that cross between JavaScript and PHP, of any shape *)
(* and with any keys: what crossing makes of them, and, as long as no key  *)
(* and no depth is special, what it preserves, what it changes, and that   *)
(* the changes come to an end.                                             *)
(***************************************************************************)
EXTENDS Conversion, SequenceTheorems, FiniteSetTheorems, WellFoundedInduction, TLAPS

(***************************************************************************)
(* Natural numbers                                                         *)
(***************************************************************************)

\* A set of natural numbers has a least element: its initial segments are
\* finite sets, which strict inclusion orders.
LEMMA LeastNatural ==
    ASSUME NEW T \in SUBSET Nat, T # {}
    PROVE  \E x \in T : \A y \in T : x <= y
<1> DEFINE Segments == {0 .. x : x \in T}
           R == StrictSubsetOrdering(Nat)
<1>1. Segments \subseteq FiniteSubsetsOf(Nat) /\ Segments # {}
    <2>1. ASSUME NEW x \in T PROVE 0 .. x \in FiniteSubsetsOf(Nat)
        <3>1. IsFiniteSet(0 .. x)
            BY FS_Interval
        <3>2. 0 .. x \in SUBSET Nat
            OBVIOUS
        <3> QED BY <3>1, <3>2 DEF FiniteSubsetsOf
    <2>2. PICK x : x \in T
        OBVIOUS
    <2> QED BY <2>1, <2>2
<1>2. IsWellFoundedOn(R, FiniteSubsetsOf(Nat))
    BY FS_StrictSubsetOrderingWellFounded
<1> HIDE DEF R, Segments
<1>3. PICK M \in Segments : \A L \in Segments : <<L, M>> \notin R
    BY <1>1, <1>2, WFMin
<1>4. PICK x \in T : M = 0 .. x
    BY <1>3 DEF Segments
<1>5. ASSUME NEW y \in T, y < x PROVE FALSE
    <2>1. 0 .. y \in Segments /\ 0 .. y \subseteq M /\ x \in M /\ x \notin 0 .. y
        BY <1>4, <1>5 DEF Segments
    <2>2. 0 .. y \in SUBSET Nat /\ M \in SUBSET Nat
        BY <1>4
    <2> QED BY <1>3, <2>1, <2>2 DEF R, StrictSubsetOrdering
<1> QED BY <1>5

LEMMA Remainder ==
    ASSUME NEW n \in Int, NEW w \in Nat \ {0}
    PROVE  n % w \in 0 .. w - 1 /\ (n \in 0 .. w - 1 => n % w = n)
OBVIOUS

LEMMA Modulus ==
    ASSUME NEW n \in Int
    PROVE  /\ n % (2 * Half) \in 0 .. 2 * Half - 1
           /\ n \in 0 .. 2 * Half - 1 => n % (2 * Half) = n
           /\ ToInt(n) \in -Half .. Half - 1
           /\ n \in -Half .. Half - 1 => ToInt(n) = n
<1> DEFINE r == (n + Half) % (2 * Half)
<1>1. 2 * Half \in Nat \ {0} /\ Half \in Nat /\ n + Half \in Int
    BY ConversionAssumption
<1>2. /\ n % (2 * Half) \in 0 .. 2 * Half - 1
      /\ n \in 0 .. 2 * Half - 1 => n % (2 * Half) = n
    BY <1>1, Remainder
<1>3. r \in 0 .. 2 * Half - 1 /\ (n + Half \in 0 .. 2 * Half - 1 => r = n + Half)
    BY <1>1, Remainder
<1>4. ToInt(n) = r - Half
    BY DEF ToInt
<1> HIDE DEF r
<1>5. ToInt(n) \in -Half .. Half - 1 /\ (n \in -Half .. Half - 1 => ToInt(n) = n)
    BY <1>1, <1>3, <1>4
<1> QED BY <1>2, <1>5

(***************************************************************************)
(* Paths                                                                   *)
(***************************************************************************)

LEMMA KeyTypes == KeyToPhp \in [Keys -> Keys] /\ KeyToJs \in [Keys -> Keys]
<1>1. ASSUME NEW k \in Keys, k \notin Names PROVE k % (2 * Half) \in Keys
    BY <1>1, Modulus DEF Keys
<1>2. \A n \in Names : Cut[n] \in Keys
    BY ConversionAssumption
<1> QED BY <1>1, <1>2 DEF KeyToPhp, KeyToJs

LEMMA ParentFacts ==
    ASSUME NEW p \in Seq(Keys), p # << >>
    PROVE  /\ Len(p) \in Nat \ {0}
           /\ Parent(p) \in Seq(Keys) /\ Len(Parent(p)) = Len(p) - 1
           /\ \A i \in 1 .. Len(p) - 1 : Parent(p)[i] = p[i]
           /\ \A i \in 1 .. Len(p) - 1 : SubSeq(Parent(p), 1, i - 1) = SubSeq(p, 1, i - 1)
<1>1. Len(p) \in Nat \ {0}
    BY EmptySeq
<1>2. /\ Parent(p) \in Seq(Keys) /\ Len(Parent(p)) = Len(p) - 1
      /\ \A i \in 1 .. Len(p) - 1 : Parent(p)[i] = p[i]
    <2>1. \A i \in 1 .. Len(p) - 1 : p[i] \in Keys
        BY <1>1, ElementOfSeq
    <2>2. \A i \in 1 .. Len(p) - 1 : p[1 + i - 1] = p[i]
        <3>1. \A i \in 1 .. Len(p) - 1 : 1 + i - 1 = i
            BY <1>1
        <3> QED BY <3>1, SMTT(60)
    <2> DEFINE q == SubSeq(p, 1, Len(p) - 1)
    <2>3. q \in Seq(Keys)
        BY <1>1, <2>1
    <2>4. Len(q) = Len(p) - 1
        <3>1. Len(q) = IF 1 <= Len(p) - 1 THEN (Len(p) - 1) - 1 + 1 ELSE 0
            BY <1>1, <2>1, SubSeqProperties
        <3> QED BY <1>1, <3>1
    <2>5. \A i \in 1 .. (Len(p) - 1) - 1 + 1 : q[i] = p[1 + i - 1]
        BY <1>1, <2>1, SubSeqProperties
    <2>6. ASSUME NEW i \in 1 .. Len(p) - 1 PROVE q[i] = p[i]
        <3> HIDE DEF q
        <3> QED BY <1>1, <2>2, <2>5
    <2> QED BY <2>3, <2>4, <2>6 DEF Parent
<1>3. ASSUME NEW i \in 1 .. Len(p) - 1
      PROVE  SubSeq(Parent(p), 1, i - 1) = SubSeq(p, 1, i - 1)
    <2>1. /\ SubSeq(Parent(p), 1, i - 1) \in Seq(Keys)
          /\ Len(SubSeq(Parent(p), 1, i - 1)) = i - 1
          /\ \A j \in 1 .. i - 1 : SubSeq(Parent(p), 1, i - 1)[j] = p[j]
        BY <1>1, <1>2
    <2>2. /\ SubSeq(p, 1, i - 1) \in Seq(Keys)
          /\ Len(SubSeq(p, 1, i - 1)) = i - 1
          /\ \A j \in 1 .. i - 1 : SubSeq(p, 1, i - 1)[j] = p[j]
        BY <1>1
    <2> QED BY <2>1, <2>2, SeqEqual
<1> QED BY <1>1, <1>2, <1>3

LEMMA RenamedFacts ==
    ASSUME NEW key \in [Keys -> Keys], NEW p \in Seq(Keys)
    PROVE  /\ Renamed(p, key) \in Seq(Keys) /\ Len(Renamed(p, key)) = Len(p)
           /\ \A i \in 1 .. Len(p) : Renamed(p, key)[i] = key[p[i]]
           /\ Renamed(p, key) = << >> <=> p = << >>
           /\ p # << >> => Parent(Renamed(p, key)) = Renamed(Parent(p), key)
<1>1. DOMAIN p = 1 .. Len(p) /\ Len(p) \in Nat /\ \A i \in 1 .. Len(p) : p[i] \in Keys
    BY LenProperties, ElementOfSeq
<1>2. /\ Renamed(p, key) \in Seq(Keys) /\ Len(Renamed(p, key)) = Len(p)
      /\ \A i \in 1 .. Len(p) : Renamed(p, key)[i] = key[p[i]]
    BY <1>1 DEF Renamed
<1>3. Renamed(p, key) = << >> <=> p = << >>
    BY <1>1, <1>2, EmptySeq
<1>4. ASSUME p # << >> PROVE Parent(Renamed(p, key)) = Renamed(Parent(p), key)
    <2> DEFINE r == Renamed(p, key)
               s == Renamed(Parent(p), key)
    <2>1. /\ Parent(r) \in Seq(Keys) /\ Len(Parent(r)) = Len(p) - 1
          /\ \A i \in 1 .. Len(p) - 1 : Parent(r)[i] = key[p[i]]
        <3>1. r \in Seq(Keys) /\ r # << >> /\ Len(r) = Len(p)
              /\ \A i \in 1 .. Len(p) : r[i] = key[p[i]]
            BY <1>2, <1>3, <1>4
        <3>2. \A i \in 1 .. Len(p) - 1 : i \in 1 .. Len(p)
            BY <1>1
        <3> HIDE DEF r
        <3> QED BY <3>1, <3>2, ParentFacts
    <2>2. Parent(p) \in Seq(Keys) /\ Len(Parent(p)) = Len(p) - 1
          /\ \A i \in 1 .. Len(p) - 1 : Parent(p)[i] = p[i]
        BY <1>4, ParentFacts
    <2>3. DOMAIN Parent(p) = 1 .. Len(p) - 1
        BY <2>2, LenProperties
    <2>4. /\ s \in Seq(Keys) /\ Len(s) = Len(p) - 1
          /\ \A i \in 1 .. Len(p) - 1 : s[i] = key[p[i]]
        BY <1>1, <1>4, <2>2, <2>3, ParentFacts DEF Renamed
    <2> HIDE DEF r, s
    <2>5. Parent(r) = s
        BY <2>1, <2>4, SeqEqual
    <2> QED BY <2>5 DEF r, s
<1> QED BY <1>2, <1>3, <1>4

\* Two paths of the same length differ first somewhere.
LEMMA FirstDifference ==
    ASSUME NEW p \in Seq(Keys), NEW q \in Seq(Keys), Len(p) = Len(q), p # q
    PROVE  \E i \in 1 .. Len(p) : p[i] # q[i] /\ SubSeq(p, 1, i - 1) = SubSeq(q, 1, i - 1)
<1> DEFINE T == {i \in 1 .. Len(p) : p[i] # q[i]}
<1>1. T \in SUBSET Nat /\ T # {}
    BY SeqEqual
<1>2. PICK i \in T : \A j \in T : i <= j
    BY <1>1, LeastNatural
<1>3. i \in 1 .. Len(p) /\ p[i] # q[i] /\ \A j \in 1 .. i - 1 : p[j] = q[j]
    BY <1>2
<1>4. /\ SubSeq(p, 1, i - 1) \in Seq(Keys) /\ Len(SubSeq(p, 1, i - 1)) = i - 1
      /\ SubSeq(q, 1, i - 1) \in Seq(Keys) /\ Len(SubSeq(q, 1, i - 1)) = i - 1
      /\ \A j \in 1 .. i - 1 : SubSeq(p, 1, i - 1)[j] = p[j] /\ SubSeq(q, 1, i - 1)[j] = q[j]
    BY <1>3
<1> QED BY <1>3, <1>4, SeqEqual

(***************************************************************************)
(* Copies                                                                  *)
(***************************************************************************)

\* No two of the paths a copy is made from become one.
LEMMA KeptApart ==
    ASSUME NEW x, DOMAIN x \subseteq Seq(Keys), NEW key \in [Keys -> Keys],
           NEW p \in Kept(x, key), NEW q \in Kept(x, key),
           Renamed(p, key) = Renamed(q, key)
    PROVE  p = q
<1> SUFFICES ASSUME p # q PROVE FALSE
    OBVIOUS
<1>1. p \in Seq(Keys) /\ q \in Seq(Keys)
    BY DEF Kept
<1>2. Len(p) = Len(q) /\ \A i \in 1 .. Len(p) : key[p[i]] = key[q[i]]
    BY <1>1, RenamedFacts
<1>3. PICK i \in 1 .. Len(p) : p[i] # q[i] /\ SubSeq(p, 1, i - 1) = SubSeq(q, 1, i - 1)
    BY <1>1, <1>2, FirstDifference
<1>4. i \in DOMAIN p /\ i \in DOMAIN q
    BY <1>1, <1>2, LenProperties
<1>5. Stays(x, key, p, i) /\ Stays(x, key, q, i)
    BY <1>4 DEF Kept
<1> QED BY <1>2, <1>3, <1>5 DEF Stays

\* The container an entry of a copy is in comes from the container its
\* source is in.
LEMMA CopyFacts ==
    ASSUME NEW x, Tree(x), NEW key \in [Keys -> Keys]
    PROVE  /\ << >> \in Paths(x, key) /\ Source(x, key, << >>) = << >>
           /\ \A q \in Paths(x, key) :
                 /\ q \in Seq(Keys)
                 /\ Source(x, key, q) \in DOMAIN x
                 /\ Source(x, key, q) \in Kept(x, key)
                 /\ Renamed(Source(x, key, q), key) = q
           /\ \A q \in Paths(x, key) \ {<< >>} :
                 /\ Source(x, key, q) # << >>
                 /\ Parent(q) \in Paths(x, key)
                 /\ Source(x, key, Parent(q)) = Parent(Source(x, key, q))
<1>1. DOMAIN x \subseteq Seq(Keys) /\ << >> \in DOMAIN x
    BY DEF Tree
<1>2. << >> \in Kept(x, key) /\ Renamed(<< >>, key) = << >>
    <2>1. DOMAIN << >> = {}
        OBVIOUS
    <2>2. << >> \in Seq(Keys)
        BY EmptySeq
    <2> QED BY <1>1, <2>1, <2>2, RenamedFacts DEF Kept
<1>3. ASSUME NEW q \in Paths(x, key)
      PROVE  /\ Source(x, key, q) \in Kept(x, key)
             /\ Source(x, key, q) \in DOMAIN x
             /\ Renamed(Source(x, key, q), key) = q
             /\ q \in Seq(Keys)
    <2>1. \E p \in Kept(x, key) : Renamed(p, key) = q
        BY DEF Paths
    <2>2. Source(x, key, q) \in Kept(x, key) /\ Renamed(Source(x, key, q), key) = q
        BY <2>1 DEF Source
    <2> QED BY <1>1, <2>2, RenamedFacts DEF Kept
<1>4. << >> \in Paths(x, key)
    BY <1>2 DEF Paths
<1>5. Source(x, key, << >>) = << >>
    BY <1>1, <1>2, <1>3, <1>4, KeptApart
<1>6. ASSUME NEW p \in Kept(x, key), p # << >> PROVE Parent(p) \in Kept(x, key)
    <2>1. p \in DOMAIN x /\ p \in Seq(Keys) /\ Parent(p) \in DOMAIN x /\ Parent(p) \in Seq(Keys)
        BY <1>1, <1>6 DEF Kept, Tree
    <2>2. DOMAIN p = 1 .. Len(p) /\ DOMAIN Parent(p) = 1 .. Len(p) - 1 /\ Len(p) \in Nat \ {0}
        BY <1>6, <2>1, ParentFacts, LenProperties
    <2>3. ASSUME NEW i \in DOMAIN Parent(p) PROVE Stays(x, key, Parent(p), i)
        <3>1. i \in DOMAIN p /\ i \in 1 .. Len(p) - 1
            BY <2>2
        <3>2. Stays(x, key, p, i)
            BY <3>1 DEF Kept
        <3>3. Parent(p)[i] = p[i] /\ SubSeq(Parent(p), 1, i - 1) = SubSeq(p, 1, i - 1)
            BY <1>6, <2>1, <3>1, ParentFacts
        <3> QED BY <3>2, <3>3 DEF Stays
    <2> QED BY <2>1, <2>3 DEF Kept
<1>7. ASSUME NEW q \in Paths(x, key), q # << >>
      PROVE  /\ Source(x, key, q) # << >>
             /\ Parent(q) \in Paths(x, key)
             /\ Source(x, key, Parent(q)) = Parent(Source(x, key, q))
    <2> DEFINE p == Source(x, key, q)
    <2>1. p \in Kept(x, key) /\ p \in Seq(Keys) /\ Renamed(p, key) = q
        BY <1>1, <1>3
    <2>2. p # << >>
        BY <1>2, <1>7, <2>1
    <2>3. Parent(p) \in Kept(x, key) /\ Renamed(Parent(p), key) = Parent(q)
        BY <1>6, <2>1, <2>2, RenamedFacts
    <2>4. Parent(q) \in Paths(x, key)
        BY <2>3 DEF Paths
    <2>5. Source(x, key, Parent(q)) = Parent(p)
        BY <1>1, <1>3, <2>3, <2>4, KeptApart
    <2> QED BY <2>2, <2>4, <2>5
<1> QED BY <1>3, <1>4, <1>5, <1>7

(***************************************************************************)
(* Nodes                                                                   *)
(***************************************************************************)

LEMMA LeafTables ==
    /\ LeafToPhp["undefined"] = "IS_NULL" /\ LeafToPhp["null"] = "IS_NULL"
    /\ LeafToPhp["true"] = "IS_TRUE" /\ LeafToPhp["false"] = "IS_TRUE"
    /\ LeafToPhp["function"] = "JSFunctionWrapper" /\ LeafToPhp["instance"] = "JSObjectWrapper"
    /\ LeafToPhp["buffer"] = "IS_NULL"
    /\ LeafToPhp["array"] = "array" /\ LeafToPhp["object"] = "array"
    /\ LeafToJs["IS_NULL"] = "false" /\ LeafToJs["IS_TRUE"] = "true"
    /\ \A t \in PhpLeaves \ {"IS_NULL", "IS_TRUE"} : LeafToJs[t] = "undefined"
BY DEF LeafToPhp, LeafToJs, PhpLeaves

\* A node has one field.
LEMMA JsNodeKinds ==
    ASSUME NEW x \in JsNodes
    PROVE  \/ /\ Has(x, "number") /\ ~Has(x, "string") /\ ~Has(x, "is")
              /\ x = [number |-> x.number] /\ x.number \in Int
           \/ /\ Has(x, "string") /\ ~Has(x, "number") /\ ~Has(x, "is")
              /\ x = [string |-> x.string] /\ x.string \in Strings
           \/ /\ Has(x, "is") /\ ~Has(x, "number") /\ ~Has(x, "string")
              /\ x = [is |-> x.is] /\ x.is \in JsLeaves \cup {"array", "object"}
BY DEF JsNodes, Has

LEMMA PhpNodeKinds ==
    ASSUME NEW x \in PhpNodes
    PROVE  \/ /\ Has(x, "long") /\ ~Has(x, "double") /\ ~Has(x, "string") /\ ~Has(x, "is")
              /\ x = [long |-> x.long] /\ x.long \in Int
           \/ /\ Has(x, "double") /\ ~Has(x, "long") /\ ~Has(x, "string") /\ ~Has(x, "is")
              /\ x = [double |-> x.double] /\ x.double \in Int
           \/ /\ Has(x, "string") /\ ~Has(x, "long") /\ ~Has(x, "double") /\ ~Has(x, "is")
              /\ x = [string |-> x.string] /\ x.string \in Strings
           \/ /\ Has(x, "is") /\ ~Has(x, "long") /\ ~Has(x, "double") /\ ~Has(x, "string")
              /\ x = [is |-> x.is] /\ x.is \in PhpLeaves \cup {"array"}
BY DEF PhpNodes, Has

LEMMA NodeToPhpCases ==
    ASSUME NEW x \in JsNodes
    PROVE  /\ Has(x, "number") => NodeToPhp(x) = [double |-> x.number]
           /\ Has(x, "string") => NodeToPhp(x) = x
           /\ Has(x, "is") => NodeToPhp(x) = [is |-> LeafToPhp[x.is]]
BY JsNodeKinds DEF NodeToPhp

LEMMA NodeToJsCases ==
    ASSUME NEW x \in PhpNodes, NEW keys
    PROVE  /\ Has(x, "long") => NodeToJs(x, keys) = [number |-> ToInt(x.long)]
           /\ Has(x, "double") => NodeToJs(x, keys) = [number |-> x.double]
           /\ Has(x, "string") => NodeToJs(x, keys) = [string |-> Cut[x.string]]
           /\ Is(x, PhpLeaves) => NodeToJs(x, keys) = [is |-> LeafToJs[x.is]]
           /\ Is(x, {"array"}) => NodeToJs(x, keys) \in {[is |-> "array"], [is |-> "object"]}
<1>1. ~(Is(x, PhpLeaves) /\ Is(x, {"array"}))
    BY DEF Is, PhpLeaves
<1> QED BY <1>1, PhpNodeKinds DEF NodeToJs, Is

\* What a node becomes is a node, and a container becomes a container.
LEMMA NodeToPhpType ==
    ASSUME NEW x \in JsNodes, ~Is(x, {"bare", "cyclic"})
    PROVE  NodeToPhp(x) \in PhpNodes /\ (Container(x) <=> Container(NodeToPhp(x)))
<1>1. CASE Has(x, "number")
    <2>1. NodeToPhp(x) = [double |-> x.number] /\ x.number \in Int /\ ~Has(x, "is")
        BY <1>1, JsNodeKinds, NodeToPhpCases
    <2>2. [double |-> x.number] \in PhpNodes /\ ~Has([double |-> x.number], "is")
        BY <2>1 DEF PhpNodes, Has
    <2> QED BY <2>1, <2>2 DEF Container, Is
<1>2. CASE Has(x, "string")
    <2>1. NodeToPhp(x) = x /\ x = [string |-> x.string] /\ x.string \in Strings
          /\ ~Has(x, "is")
        BY <1>2, JsNodeKinds, NodeToPhpCases
    <2>2. [string |-> x.string] \in PhpNodes
        BY <2>1 DEF PhpNodes
    <2> QED BY <2>1, <2>2
<1>3. CASE Has(x, "is")
    <2>1. NodeToPhp(x) = [is |-> LeafToPhp[x.is]] /\ x.is \in JsLeaves \cup {"array", "object"}
        BY <1>3, JsNodeKinds, NodeToPhpCases
    <2>2. x.is \notin {"bare", "cyclic"}
        BY <1>3 DEF Is
    <2>3. LeafToPhp[x.is] \in PhpLeaves \cup {"array"}
          /\ (x.is \in {"array", "object"} => LeafToPhp[x.is] = "array")
          /\ (x.is \notin {"array", "object"} => LeafToPhp[x.is] \in PhpLeaves)
        BY <2>1, <2>2, LeafTables DEF JsLeaves, PhpLeaves
    <2>4. [is |-> LeafToPhp[x.is]] \in PhpNodes
        BY <2>3 DEF PhpNodes
    <2>5. Container(x) <=> x.is \in {"array", "object"}
        BY <1>3 DEF Container, Is
    <2>6. Container([is |-> LeafToPhp[x.is]]) <=> LeafToPhp[x.is] \in {"array", "object"}
        BY DEF Container, Is, Has
    <2>7. "array" \notin PhpLeaves /\ "object" \notin PhpLeaves
        BY DEF PhpLeaves
    <2> QED BY <2>1, <2>3, <2>4, <2>5, <2>6, <2>7
<1> QED BY <1>1, <1>2, <1>3, JsNodeKinds

LEMMA NodeToJsType ==
    ASSUME NEW x \in PhpNodes, NEW keys
    PROVE  /\ NodeToJs(x, keys) \in JsNodes
           /\ Container(x) <=> Container(NodeToJs(x, keys))
           /\ ~Is(NodeToJs(x, keys), {"function", "instance", "bare", "cyclic", "buffer"})
<1>1. CASE Has(x, "long")
    BY <1>1, PhpNodeKinds, NodeToJsCases, Modulus DEF JsNodes, Container, Is, Has
<1>2. CASE Has(x, "double")
    BY <1>2, PhpNodeKinds, NodeToJsCases DEF JsNodes, Container, Is, Has
<1>3. CASE Has(x, "string")
    BY <1>3, PhpNodeKinds, NodeToJsCases, ConversionAssumption DEF JsNodes, Container, Is, Has
<1>4. CASE Is(x, PhpLeaves)
    <2>1. LeafToJs[x.is] \in {"true", "false", "undefined"}
        BY <1>4, LeafTables DEF Is
    <2>2. x.is \notin {"array", "object"}
        BY <1>4 DEF Is, PhpLeaves
    <2> QED BY <1>4, <2>1, <2>2, NodeToJsCases DEF JsNodes, JsLeaves, Container, Is, Has
<1>5. CASE Is(x, {"array"})
    BY <1>5, NodeToJsCases DEF JsNodes, Container, Is, Has
<1> QED BY <1>1, <1>2, <1>3, <1>4, <1>5, PhpNodeKinds DEF Is

(***************************************************************************)
(* Types, and what can fail                                                *)
(***************************************************************************)

\* What makes the conversion of a JS value fail, somewhere in it.
Traps == {"function", "instance", "bare", "cyclic", "buffer"}

LEMMA FaultFacts ==
    ASSUME NEW j
    PROVE  /\ (\A p \in DOMAIN j : ~Is(j[p], Traps)) /\ ~Deeper(j, DepthToPhp) => Faults(j) = {}
           /\ Faults(j) = {} => \A p \in DOMAIN j : ~Is(j[p], {"bare", "cyclic"})
<1>1. ASSUME \A p \in DOMAIN j : ~Is(j[p], Traps), ~Deeper(j, DepthToPhp) PROVE Faults(j) = {}
    <2>1. \A p \in DOMAIN j : /\ ~Is(j[p], {"bare"}) /\ ~Is(j[p], {"cyclic"})
                              /\ ~Is(j[p], {"function", "instance", "buffer"})
        BY <1>1 DEF Is, Traps
    <2> QED BY <1>1, <2>1 DEF Faults
<1>2. ASSUME Faults(j) = {} PROVE \A p \in DOMAIN j : ~Is(j[p], {"bare", "cyclic"})
    <2>1. \A p \in DOMAIN j : ~Is(j[p], {"bare"})
        BY <1>2 DEF Faults
    <2>2. \A p \in DOMAIN j : ~Is(j[p], {"cyclic"})
        BY <1>2 DEF Faults
    <2> QED BY <2>1, <2>2 DEF Is
<1> QED BY <1>1, <1>2

LEMMA ToPhpType ==
    ASSUME NEW j, JsValue(j), Faults(j) = {}
    PROVE  PhpValue(ToPhp(j))
<1> DEFINE src(q) == Source(j, KeyToPhp, q)
           P == Paths(j, KeyToPhp)
           z == ToPhp(j)
<1>1. /\ << >> \in P
      /\ \A q \in P : q \in Seq(Keys) /\ src(q) \in DOMAIN j
      /\ \A q \in P \ {<< >>} : src(q) # << >> /\ Parent(q) \in P /\ src(Parent(q)) = Parent(src(q))
    BY KeyTypes, CopyFacts DEF JsValue
<1>2. DOMAIN z = P /\ z = [q \in P |-> z[q]] /\ \A q \in P : z[q] = NodeToPhp(j[src(q)])
    BY DEF ToPhp
<1> HIDE DEF z, P, src
<1>3. \A p \in DOMAIN j : /\ NodeToPhp(j[p]) \in PhpNodes
                          /\ Container(j[p]) <=> Container(NodeToPhp(j[p]))
    BY FaultFacts, NodeToPhpType DEF JsValue
<1>4. \A q \in P : z[q] \in PhpNodes
    BY <1>1, <1>2, <1>3
<1>5. ASSUME NEW q \in P, q # << >> PROVE Parent(q) \in P /\ Container(z[Parent(q)])
    <2>1. Parent(q) \in P /\ src(q) \in DOMAIN j \ {<< >>} /\ src(Parent(q)) = Parent(src(q))
        BY <1>1, <1>5
    <2>2. Parent(src(q)) \in DOMAIN j /\ Container(j[Parent(src(q))])
        BY <2>1 DEF JsValue, Tree
    <2> QED BY <1>2, <1>3, <2>1, <2>2
<1>6. PhpValue(z)
    BY <1>1, <1>2, <1>4, <1>5 DEF PhpValue, Tree
<1> QED BY <1>6 DEF z

LEMMA ToJsType ==
    ASSUME NEW x, PhpValue(x)
    PROVE  JsValue(ToJs(x)) /\ \A q \in DOMAIN ToJs(x) : ~Is(ToJs(x)[q], Traps)
<1> DEFINE src(q) == Source(x, KeyToJs, q)
           P == Paths(x, KeyToJs)
           z == ToJs(x)
<1>1. /\ << >> \in P
      /\ \A q \in P : q \in Seq(Keys) /\ src(q) \in DOMAIN x
      /\ \A q \in P \ {<< >>} : src(q) # << >> /\ Parent(q) \in P /\ src(Parent(q)) = Parent(src(q))
    BY KeyTypes, CopyFacts DEF PhpValue
<1>2. DOMAIN z = P /\ z = [q \in P |-> z[q]]
      /\ \A q \in P : z[q] = NodeToJs(x[src(q)], KeysUnder(x, src(q)))
    BY DEF ToJs
<1> HIDE DEF z, P, src
<1>3. \A p \in DOMAIN x :
         LET n == NodeToJs(x[p], KeysUnder(x, p)) IN
         n \in JsNodes /\ (Container(x[p]) => Container(n)) /\ ~Is(n, Traps)
    BY NodeToJsType DEF PhpValue, Traps
<1>4. \A q \in P : z[q] \in JsNodes /\ ~Is(z[q], Traps)
    BY <1>1, <1>2, <1>3
<1>5. ASSUME NEW q \in P, q # << >> PROVE Parent(q) \in P /\ Container(z[Parent(q)])
    <2>1. Parent(q) \in P /\ src(q) \in DOMAIN x \ {<< >>} /\ src(Parent(q)) = Parent(src(q))
        BY <1>1, <1>5
    <2>2. Parent(src(q)) \in DOMAIN x /\ Container(x[Parent(src(q))])
        BY <2>1 DEF PhpValue, Tree
    <2> QED BY <1>2, <1>3, <2>1, <2>2
<1>6. JsValue(z)
    BY <1>1, <1>2, <1>4, <1>5 DEF JsValue, Tree
<1>7. \A q \in DOMAIN z : ~Is(z[q], Traps)
    BY <1>2, <1>4
<1> QED BY <1>6, <1>7 DEF z

(***************************************************************************)
(* What duk_is_php_object makes of a value, and regular values             *)
(***************************************************************************)

LEMMA ReadingTypes ==
    ASSUME NEW j, NEW r \in Readings(j)
    PROVE  /\ DOMAIN r = Doubtful(j)
           /\ \A p \in DOMAIN r : /\ p \in DOMAIN j /\ Is(j[p], {"object"})
                                 /\ r[p] \in {"object", "instance", "bare"}
BY DEF Readings, Doubtful

\* However its objects are taken, what is seen of a value is a value.
LEMMA ReadType ==
    ASSUME NEW j, JsValue(j), NEW r \in Readings(j)
    PROVE  JsValue(Read(j, r))
<1> DEFINE z == Read(j, r)
           S == Seen(j, r)
<1>1. S \subseteq DOMAIN j /\ DOMAIN j \subseteq Seq(Keys) /\ << >> \in DOMAIN j
    BY DEF Seen, JsValue, Tree
<1>2. DOMAIN z = S /\ z = [p \in S |-> z[p]]
      /\ \A p \in S : z[p] = IF p \in DOMAIN r THEN [is |-> r[p]] ELSE j[p]
    BY DEF Read
<1>3. << >> \in S
    <2>1. DOMAIN << >> = {}
        OBVIOUS
    <2> QED BY <1>1, <2>1 DEF Seen
<1>4. ASSUME NEW p \in S PROVE z[p] \in JsNodes
    <2>1. j[p] \in JsNodes
        BY <1>1 DEF JsValue
    <2>2. p \in DOMAIN r => [is |-> r[p]] \in JsNodes
        BY ReadingTypes DEF JsNodes, JsLeaves
    <2> QED BY <1>2, <2>1, <2>2
<1>5. ASSUME NEW p \in S, p # << >> PROVE Parent(p) \in S /\ Container(z[Parent(p)])
    <2>1. /\ p \in Seq(Keys) /\ Len(p) \in Nat \ {0} /\ DOMAIN p = 1 .. Len(p)
          /\ Parent(p) \in DOMAIN j /\ Container(j[Parent(p)])
          /\ DOMAIN Parent(p) = 1 .. Len(p) - 1
        BY <1>1, <1>5, ParentFacts, LenProperties DEF JsValue, Tree
    <2>2. ASSUME NEW i \in DOMAIN Parent(p)
          PROVE  /\ i \in DOMAIN p /\ Parent(p)[i] = p[i]
                 /\ SubSeq(Parent(p), 1, i - 1) = SubSeq(p, 1, i - 1)
        <3>1. i \in 1 .. Len(p) - 1 /\ i \in DOMAIN p
            BY <2>1
        <3> QED BY <1>5, <2>1, <3>1, ParentFacts
    <2>3. Parent(p) \in S
        BY <2>1, <2>2 DEF Seen
    <2>4. Parent(p) \in DOMAIN r => r[Parent(p)] = "object"
        <3>1. Len(p) \in DOMAIN p
            BY <2>1
        <3> QED BY <3>1 DEF Seen, Parent
    <2>5. CASE Parent(p) \in DOMAIN r
        <3>1. z[Parent(p)] = [is |-> "object"]
            BY <1>2, <2>3, <2>4, <2>5
        <3> QED BY <2>3, <3>1 DEF Container, Is, Has
    <2>6. CASE Parent(p) \notin DOMAIN r
        BY <1>2, <2>1, <2>3, <2>6
    <2> QED BY <2>5, <2>6
<1> HIDE DEF z, S
<1>6. JsValue(z)
    BY <1>1, <1>2, <1>3, <1>4, <1>5 DEF JsValue, Tree
<1> QED BY <1>6 DEF z

\* A key that means nothing special.
Ordinary(k) == k \in Names => {k, Cut[k]} \cap {Constructor, Prototype} = {}

LEMMA RegularKeys ==
    ASSUME NEW x
    PROVE  Regular(x) <=> /\ ~Deeper(x, DepthToPhp)
                          /\ \A p \in DOMAIN x : \A i \in DOMAIN p : Ordinary(p[i])
BY DEF Regular, Ordinary

\* No object of a regular value is in doubt, and all of it is seen.
LEMMA RegularRead ==
    ASSUME NEW j, JsValue(j), Regular(j), NEW r \in Readings(j)
    PROVE  Read(j, r) = j
<1>1. DOMAIN j \subseteq Seq(Keys)
    BY DEF JsValue, Tree
<1>2. ASSUME NEW p \in DOMAIN j, NEW i \in DOMAIN p PROVE p[i] \notin {Constructor, Prototype}
    BY <1>2, ConversionAssumption DEF Regular
<1>3. Doubtful(j) = {}
    <2> SUFFICES ASSUME NEW p \in DOMAIN j, NEW k \in {Constructor, Prototype},
                        Append(p, k) \in DOMAIN j
                 PROVE  FALSE
        BY DEF Doubtful
    <2>1. p \in Seq(Keys) /\ k \in Keys
        BY <1>1, ConversionAssumption DEF Keys
    <2>2. Append(p, k)[Len(p) + 1] = k /\ Len(p) + 1 \in DOMAIN Append(p, k)
        BY <2>1, AppendProperties
    <2> QED BY <1>2, <2>2
<1>4. DOMAIN r = {}
    BY <1>3, ReadingTypes
<1>5. Seen(j, r) = DOMAIN j
    BY <1>2, <1>4 DEF Seen
<1>6. j = [p \in DOMAIN j |-> j[p]]
    BY DEF JsValue, Tree
<1>7. Read(j, r) = [p \in DOMAIN j |-> j[p]]
    BY <1>4, <1>5 DEF Read
<1> QED BY <1>6, <1>7

LEMMA OrdinaryCopies ==
    ASSUME NEW k \in Keys, Ordinary(k)
    PROVE  Ordinary(KeyToPhp[k]) /\ Ordinary(KeyToJs[k])
<1>1. CASE k \in Names
    <2>1. KeyToPhp[k] = Cut[k] /\ KeyToJs[k] = Cut[k] /\ (Cut[k] \in Names => Cut[Cut[k]] = Cut[k])
        BY <1>1, ConversionAssumption DEF KeyToPhp, KeyToJs
    <2> QED BY <1>1, <2>1 DEF Ordinary
<1>2. CASE k \notin Names
    <2>1. KeyToPhp[k] = k /\ KeyToJs[k] = k % (2 * Half) /\ k \in Int
        BY <1>2 DEF KeyToPhp, KeyToJs, Keys
    <2>2. k % (2 * Half) \in Int
        BY <2>1, Modulus
    <2> QED BY <1>2, <2>1, <2>2, ConversionAssumption DEF Ordinary
<1> QED BY <1>1, <1>2

\* A copy is as deep as the value and has no key that the value had no
\* counterpart of.
LEMMA CopyRegular ==
    ASSUME NEW x, Tree(x), Regular(x), NEW key \in [Keys -> Keys],
           \A k \in Keys : Ordinary(k) => Ordinary(key[k]),
           NEW z, DOMAIN z = Paths(x, key),
           \A q \in Paths(x, key) : Container(z[q]) => Container(x[Source(x, key, q)])
    PROVE  Regular(z)
<1>1. ASSUME NEW q \in DOMAIN z
      PROVE  /\ Container(z[q]) => ~(Len(q) >= DepthToPhp)
             /\ \A i \in DOMAIN q : Ordinary(q[i])
    <2> DEFINE p == Source(x, key, q)
    <2>1. p \in DOMAIN x /\ Renamed(p, key) = q /\ p \in Seq(Keys) /\ q \in Seq(Keys)
        BY <1>1, CopyFacts DEF Tree
    <2> HIDE DEF p
    <2>2. Len(q) = Len(p) /\ \A i \in 1 .. Len(p) : q[i] = key[p[i]]
        BY <2>1, RenamedFacts
    <2>3. Container(z[q]) => ~(Len(q) >= DepthToPhp)
        BY <2>1, <2>2 DEF Regular, Deeper, p
    <2>4. ASSUME NEW i \in DOMAIN q PROVE Ordinary(q[i])
        <3>1. i \in 1 .. Len(p) /\ i \in DOMAIN p /\ p[i] \in Keys
            BY <2>1, <2>2, LenProperties, ElementOfSeq
        <3>2. Ordinary(p[i])
            BY <2>1, <3>1, RegularKeys
        <3> QED BY <2>2, <3>1, <3>2
    <2> QED BY <2>3, <2>4
<1>2. ~Deeper(z, DepthToPhp)
    BY <1>1 DEF Deeper
<1> QED BY <1>1, <1>2, RegularKeys

LEMMA ToPhpRegular ==
    ASSUME NEW j, JsValue(j), Regular(j), Faults(j) = {}
    PROVE  Regular(ToPhp(j))
<1> DEFINE z == ToPhp(j)
<1>1. DOMAIN z = Paths(j, KeyToPhp)
      /\ \A q \in Paths(j, KeyToPhp) : z[q] = NodeToPhp(j[Source(j, KeyToPhp, q)])
    BY DEF ToPhp
<1>2. \A p \in DOMAIN j : Container(NodeToPhp(j[p])) => Container(j[p])
    BY FaultFacts, NodeToPhpType DEF JsValue
<1>3. \A q \in Paths(j, KeyToPhp) : Source(j, KeyToPhp, q) \in DOMAIN j
    BY KeyTypes, CopyFacts DEF JsValue
<1> HIDE DEF z
<1>4. Regular(z)
    BY <1>1, <1>2, <1>3, KeyTypes, OrdinaryCopies, CopyRegular DEF JsValue
<1> QED BY <1>4 DEF z

LEMMA ToJsRegular ==
    ASSUME NEW x, PhpValue(x), Regular(x)
    PROVE  Regular(ToJs(x))
<1> DEFINE z == ToJs(x)
<1>1. DOMAIN z = Paths(x, KeyToJs)
      /\ \A q \in Paths(x, KeyToJs) :
            z[q] = NodeToJs(x[Source(x, KeyToJs, q)], KeysUnder(x, Source(x, KeyToJs, q)))
    BY DEF ToJs
<1>2. \A p \in DOMAIN x : Container(NodeToJs(x[p], KeysUnder(x, p))) => Container(x[p])
    BY NodeToJsType DEF PhpValue
<1>3. \A q \in Paths(x, KeyToJs) : Source(x, KeyToJs, q) \in DOMAIN x
    BY KeyTypes, CopyFacts DEF PhpValue
<1> HIDE DEF z
<1>4. Regular(z)
    BY <1>1, <1>2, <1>3, KeyTypes, OrdinaryCopies, CopyRegular DEF PhpValue
<1> QED BY <1>4 DEF z

\* What fits on the way to PHP fits on the way to JS.
LEMMA RegularFits ==
    ASSUME NEW x, Tree(x), Regular(x)
    PROVE  ~Deeper(x, DepthToJs)
<1>1. \A p \in DOMAIN x : Len(p) \in Nat
    BY DEF Tree
<1> QED BY <1>1, ConversionAssumption DEF Regular, Deeper

(***************************************************************************)
(* What can fail                                                           *)
(***************************************************************************)

\* What has been in PHP holds nothing that makes a conversion fail.
Harmless == side = "js" /\ trips > 0 => \A p \in DOMAIN value : ~Is(value[p], Traps)

\* A regular value stays regular.
StaysRegular == Regular(origin) => Regular(value)

FreshInv == TypeOK /\ OnlyFreshValuesFail /\ Harmless /\ StaysRegular

LEMMA FreshInvAlways == Spec => []FreshInv
<1>1. Init => FreshInv
    BY InputsAssumption, ConversionAssumption
       DEF Init, FreshInv, TypeOK, OnlyFreshValuesFail, Harmless, StaysRegular
<1>2. FreshInv /\ [Next]_vars => FreshInv'
    <2> SUFFICES ASSUME FreshInv, [Next]_vars PROVE FreshInv'
        OBVIOUS
    <2> USE DEF FreshInv, TypeOK, Harmless, StaysRegular
    <2>1. ASSUME IntoPhp, NEW r \in Readings(value), NEW fault \in Faults(Read(value, r)),
                 fate' = fault, UNCHANGED <<side, value, origin, trips>>
          PROVE  FreshInv'
        <3>1. JsValue(value) /\ side = "js"
            BY <2>1 DEF IntoPhp
        <3>2. Regular(origin) => trips = 0
            <4> SUFFICES ASSUME Regular(origin), trips # 0 PROVE FALSE
                OBVIOUS
            <4>1. Read(value, r) = value /\ ~Deeper(value, DepthToPhp)
                BY <2>1, <3>1, RegularRead DEF Regular
            <4>2. trips > 0
                BY ConversionAssumption
            <4> QED BY <2>1, <3>1, <4>1, <4>2, FaultFacts
        <3>3. fate' \in {"typeError", "stackFull", "undefined"}
            BY <2>1 DEF Faults
        <3> QED BY <2>1, <3>1, <3>2, <3>3 DEF OnlyFreshValuesFail
    <2>2. ASSUME IntoPhp, NEW r \in Readings(value), Faults(Read(value, r)) = {},
                 value' = ToPhp(Read(value, r)), side' = "php", trips' = trips + 1,
                 UNCHANGED <<origin, fate>>
          PROVE  FreshInv'
        <3>1. JsValue(value) /\ JsValue(Read(value, r))
            BY <2>2, ReadType DEF IntoPhp
        <3>2. PhpValue(value')
            BY <2>2, <3>1, ToPhpType
        <3>3. trips' \in 0 .. MaxTrips /\ fate' = "ok" /\ side' = "php" /\ origin' = origin
            BY <2>2, ConversionAssumption DEF IntoPhp
        <3>4. Regular(origin) => Regular(value')
            BY <2>2, <3>1, RegularRead, ToPhpRegular
        <3> QED BY <3>2, <3>3, <3>4 DEF OnlyFreshValuesFail
    <2>3. CASE IntoJs /\ Deeper(value, DepthToJs)
        <3>1. /\ fate' = "stackFull" /\ UNCHANGED <<side, value, origin, trips>>
              /\ PhpValue(value)
            BY <2>3 DEF IntoJs
        <3>2. ~Regular(origin)
            BY <2>3, <3>1, RegularFits DEF PhpValue
        <3> QED BY <3>1, <3>2 DEF OnlyFreshValuesFail
    <2>4. CASE IntoJs /\ ~Deeper(value, DepthToJs)
        <3>1. PhpValue(value) /\ value' = ToJs(value)
            BY <2>4 DEF IntoJs
        <3>2. JsValue(value') /\ \A p \in DOMAIN value' : ~Is(value'[p], Traps)
            BY <3>1, ToJsType
        <3>3. trips' \in 0 .. MaxTrips /\ fate' = "ok" /\ side' = "js" /\ origin' = origin
            BY <2>4, ConversionAssumption DEF IntoJs
        <3>4. Regular(origin) => Regular(value')
            BY <3>1, ToJsRegular
        <3> QED BY <3>2, <3>3, <3>4 DEF OnlyFreshValuesFail
    <2>5. CASE UNCHANGED vars
        BY <2>5 DEF vars, OnlyFreshValuesFail
    <2> QED BY <2>1, <2>2, <2>3, <2>4, <2>5 DEF Next, IntoPhp
<1> QED BY <1>1, <1>2, PTL DEF Spec

\* Both conversions, on values of any shape and with any keys, even with keys
\* that become one or that change what an object is taken for, make well-formed
\* values of the other language.
THEOREM TypeCorrect == Spec => []TypeOK
<1>1. FreshInv => TypeOK
    BY DEF FreshInv
<1> QED BY <1>1, FreshInvAlways, PTL

\* Whatever regular value PHP code holds, arrays of wrappers included, it can
\* send to JS code and read back: with no key "constructor" or "__proto__" and no
\* container too deep for the stack, only what comes fresh from JS code makes a
\* conversion fail.
THEOREM FreshValuesOnlyFail == Spec => []OnlyFreshValuesFail
<1>1. FreshInv => OnlyFreshValuesFail
    BY DEF FreshInv
<1> QED BY <1>1, FreshInvAlways, PTL

(***************************************************************************)
(* How long a value goes on changing                                       *)
(***************************************************************************)

\* How many more crossings may change a node, or a key: a JS function becomes
\* a wrapper, undefined, NULL, false, and true.
LeafAge ==
    [function |-> 5, instance |-> 5, bare |-> 5, cyclic |-> 5,
     IS_OBJECT |-> 4, IS_REFERENCE |-> 4, JSFunctionWrapper |-> 4, JSObjectWrapper |-> 4,
     IS_FALSE |-> 4, undefined |-> 3, null |-> 3, buffer |-> 3, IS_NULL |-> 2, false |-> 1,
     true |-> 0, IS_TRUE |-> 0, array |-> 0, object |-> 0]

NodeAge(owner, x) ==
    IF Has(x, "is") THEN LeafAge[x.is]
    ELSE IF Has(x, "string") /\ Cut[x.string] # x.string THEN IF owner = "js" THEN 2 ELSE 1
    ELSE IF Has(x, "long") /\ x.long \notin -Half .. Half - 1 THEN 1
    ELSE 0

KeyAge(owner, k) ==
    IF PortableKey(k) THEN 0
    ELSE IF k \in Int THEN IF owner = "js" THEN 2 ELSE 1
    ELSE IF owner = "js" THEN 2 ELSE 3

\* No part of x changes more than n times.
Ages(owner, x, n) ==
    \A p \in DOMAIN x : NodeAge(owner, x[p]) <= n /\ \A i \in DOMAIN p : KeyAge(owner, p[i]) <= n

\* One crossing less.
Less(n) == IF n = 0 THEN 0 ELSE n - 1

\* The age b of what something of age a has become.
Older(b, a) == b \in Nat /\ a \in Nat /\ (b = 0 \/ b < a)

LEMMA OlderLess ==
    ASSUME NEW a, NEW b, NEW n \in Nat, Older(b, a), a <= n
    PROVE  b <= Less(n)
BY DEF Older, Less

LEMMA LeafAges ==
    /\ \A t \in JsLeaves \cup PhpLeaves \cup {"array", "object"} : LeafAge[t] \in 0 .. 5
    /\ \A t \in JsLeaves \ {"bare", "cyclic"} : Older(LeafAge[LeafToPhp[t]], LeafAge[t])
    /\ \A t \in PhpLeaves : Older(LeafAge[LeafToJs[t]], LeafAge[t])
    /\ \A t \in JsLeaves \cup PhpLeaves : LeafAge[t] = 0 => t \in {"true", "IS_TRUE"}
    /\ LeafAge["array"] = 0 /\ LeafAge["object"] = 0
<1>1. \A t \in JsLeaves \cup PhpLeaves \cup {"array", "object"} : LeafAge[t] \in 0 .. 5
    BY DEF LeafAge, JsLeaves, PhpLeaves
<1>2. \A t \in JsLeaves \ {"bare", "cyclic"} : Older(LeafAge[LeafToPhp[t]], LeafAge[t])
    BY DEF LeafAge, JsLeaves, LeafToPhp, Older
<1>3. \A t \in PhpLeaves : Older(LeafAge[LeafToJs[t]], LeafAge[t])
    BY DEF LeafAge, PhpLeaves, LeafToJs, Older
<1>4. \A t \in JsLeaves \cup PhpLeaves : LeafAge[t] = 0 => t \in {"true", "IS_TRUE"}
    BY DEF LeafAge, JsLeaves, PhpLeaves
<1>5. LeafAge["array"] = 0 /\ LeafAge["object"] = 0
    BY DEF LeafAge
<1> QED BY <1>1, <1>2, <1>3, <1>4, <1>5

\* Nothing is older than five crossings.
LEMMA AgesBounded ==
    /\ \A x \in JsNodes \cup PhpNodes : NodeAge("js", x) \in 0 .. 5 /\ NodeAge("php", x) \in 0 .. 5
    /\ \A k : KeyAge("js", k) \in 0 .. 5 /\ KeyAge("php", k) \in 0 .. 5
<1>1. ASSUME NEW x \in JsNodes \cup PhpNodes, NEW owner PROVE NodeAge(owner, x) \in 0 .. 5
    <2>1. Has(x, "is") => LeafAge[x.is] \in 0 .. 5
        BY JsNodeKinds, PhpNodeKinds, LeafAges
    <2> QED BY <2>1 DEF NodeAge
<1>2. \A k : KeyAge("js", k) \in 0 .. 5 /\ KeyAge("php", k) \in 0 .. 5
    BY DEF KeyAge
<1> QED BY <1>1, <1>2

LEMMA LeafMeanings ==
    ASSUME NEW x \in JsNodes \cup PhpNodes
    PROVE  /\ Is(x, {"true", "IS_TRUE"}) => NodeMeaning(x) = [boolean |-> TRUE]
           /\ Container(x) => NodeMeaning(x) = [is |-> "map"]
<1>1. Has(x, "is") => ~Has(x, "long") /\ ~Has(x, "double")
    BY JsNodeKinds, PhpNodeKinds DEF JsNodes, Has
<1>2. ASSUME Is(x, {"true", "IS_TRUE"}) PROVE NodeMeaning(x) = [boolean |-> TRUE]
    <2>1. /\ ~Is(x, {"undefined", "null", "IS_NULL"}) /\ ~Is(x, {"false", "IS_FALSE"})
          /\ ~Container(x) /\ ~Has(x, "long") /\ ~Has(x, "double")
        BY <1>1, <1>2 DEF Is, Container
    <2> QED BY <1>2, <2>1 DEF NodeMeaning
<1>3. ASSUME Container(x) PROVE NodeMeaning(x) = [is |-> "map"]
    <2>1. /\ ~Is(x, {"undefined", "null", "IS_NULL"}) /\ ~Is(x, {"false", "IS_FALSE"})
          /\ ~Is(x, {"true", "IS_TRUE"}) /\ ~Has(x, "long") /\ ~Has(x, "double")
        BY <1>1, <1>3 DEF Is, Container
    <2> QED BY <1>3, <2>1 DEF NodeMeaning
<1> QED BY <1>2, <1>3

LEMMA NodeToPhpAge ==
    ASSUME NEW x \in JsNodes, ~Is(x, {"bare", "cyclic"})
    PROVE  /\ Older(NodeAge("php", NodeToPhp(x)), NodeAge("js", x))
           /\ NodeAge("js", x) = 0 => NodeMeaning(NodeToPhp(x)) = NodeMeaning(x)
<1>1. CASE Has(x, "number")
    <2>1. NodeToPhp(x) = [double |-> x.number] /\ x = [number |-> x.number]
        BY <1>1, JsNodeKinds, NodeToPhpCases
    <2>2. NodeAge("php", NodeToPhp(x)) = 0 /\ NodeAge("js", x) = 0
        BY <1>1, <2>1, JsNodeKinds DEF NodeAge, Has
    <2>3. NodeMeaning(x) = x /\ NodeMeaning(NodeToPhp(x)) = [number |-> x.number]
        BY <2>1 DEF NodeMeaning, Is, Has, Container
    <2> QED BY <2>1, <2>2, <2>3 DEF Older
<1>2. CASE Has(x, "string")
    <2>1. NodeToPhp(x) = x
        BY <1>2, NodeToPhpCases
    <2>2. /\ NodeAge("php", x) \in {0, 1}
          /\ NodeAge("js", x) = IF Cut[x.string] = x.string THEN 0 ELSE 2
          /\ Cut[x.string] = x.string => NodeAge("php", x) = 0
        BY <1>2, JsNodeKinds DEF NodeAge, Has
    <2> QED BY <2>1, <2>2 DEF Older
<1>3. CASE Has(x, "is")
    <2>1. /\ NodeToPhp(x) = [is |-> LeafToPhp[x.is]] /\ x = [is |-> x.is]
          /\ x.is \in (JsLeaves \ {"bare", "cyclic"}) \cup {"array", "object"}
        BY <1>3, JsNodeKinds, NodeToPhpCases DEF Is
    <2>2. NodeAge("php", NodeToPhp(x)) = LeafAge[LeafToPhp[x.is]] /\ NodeAge("js", x) = LeafAge[x.is]
        BY <1>3, <2>1 DEF NodeAge, Has
    <2>3. Older(LeafAge[LeafToPhp[x.is]], LeafAge[x.is])
        BY <2>1, LeafAges, LeafTables DEF Older
    <2>4. ASSUME LeafAge[x.is] = 0 PROVE NodeMeaning(NodeToPhp(x)) = NodeMeaning(x)
        <3>1. x.is \in {"true", "array", "object"}
            BY <2>1, <2>4, LeafAges DEF JsLeaves
        <3>2. NodeToPhp(x) = [is |-> IF x.is = "true" THEN "IS_TRUE" ELSE "array"]
            BY <2>1, <3>1, LeafTables
        <3>3. NodeToPhp(x) \in PhpNodes
            BY NodeToPhpType
        <3>4. CASE x.is = "true"
            <4>1. Is(x, {"true", "IS_TRUE"}) /\ Is(NodeToPhp(x), {"true", "IS_TRUE"})
                BY <1>3, <3>2, <3>4 DEF Is, Has
            <4> QED BY <3>3, <4>1, LeafMeanings
        <3>5. CASE x.is # "true"
            <4>1. Container(x) /\ Container(NodeToPhp(x))
                BY <1>3, <3>1, <3>2, <3>5 DEF Container, Is, Has
            <4> QED BY <3>3, <4>1, LeafMeanings
        <3> QED BY <3>4, <3>5
    <2> QED BY <2>2, <2>3, <2>4
<1> QED BY <1>1, <1>2, <1>3, JsNodeKinds

LEMMA NodeToJsAge ==
    ASSUME NEW x \in PhpNodes, NEW keys
    PROVE  /\ Older(NodeAge("js", NodeToJs(x, keys)), NodeAge("php", x))
           /\ NodeAge("php", x) = 0 => NodeMeaning(NodeToJs(x, keys)) = NodeMeaning(x)
<1> DEFINE y == NodeToJs(x, keys)
<1>1. CASE Has(x, "long")
    <2>1. y = [number |-> ToInt(x.long)] /\ x = [long |-> x.long] /\ x.long \in Int
        BY <1>1, PhpNodeKinds, NodeToJsCases
    <2>2. NodeAge("js", y) = 0
          /\ NodeAge("php", x) = IF x.long \in -Half .. Half - 1 THEN 0 ELSE 1
        BY <1>1, <2>1, PhpNodeKinds DEF NodeAge, Has
    <2>3. NodeMeaning(x) = [number |-> x.long] /\ NodeMeaning(y) = y
        BY <2>1 DEF NodeMeaning, Is, Has, Container
    <2> QED BY <2>1, <2>2, <2>3, Modulus DEF Older
<1>2. CASE Has(x, "double")
    <2>1. y = [number |-> x.double] /\ x = [double |-> x.double]
        BY <1>2, PhpNodeKinds, NodeToJsCases
    <2>2. NodeAge("js", y) = 0 /\ NodeAge("php", x) = 0
        BY <1>2, <2>1, PhpNodeKinds DEF NodeAge, Has
    <2>3. NodeMeaning(x) = [number |-> x.double] /\ NodeMeaning(y) = y
        BY <2>1 DEF NodeMeaning, Is, Has, Container
    <2> QED BY <2>1, <2>2, <2>3 DEF Older
<1>3. CASE Has(x, "string")
    <2>1. y = [string |-> Cut[x.string]] /\ x = [string |-> x.string] /\ x.string \in Strings
        BY <1>3, PhpNodeKinds, NodeToJsCases
    <2>2. Cut[Cut[x.string]] = Cut[x.string]
        BY <2>1, ConversionAssumption
    <2>3. NodeAge("js", y) = 0
          /\ NodeAge("php", x) = IF Cut[x.string] = x.string THEN 0 ELSE 1
        BY <1>3, <2>1, <2>2, PhpNodeKinds DEF NodeAge, Has
    <2> QED BY <2>1, <2>3 DEF Older
<1>4. CASE Is(x, PhpLeaves)
    <2>1. y = [is |-> LeafToJs[x.is]] /\ x.is \in PhpLeaves /\ Has(x, "is")
        BY <1>4, NodeToJsCases DEF Is
    <2>2. NodeAge("js", y) = LeafAge[LeafToJs[x.is]] /\ NodeAge("php", x) = LeafAge[x.is]
        BY <2>1 DEF NodeAge, Has
    <2>3. ASSUME LeafAge[x.is] = 0 PROVE NodeMeaning(y) = NodeMeaning(x)
        <3>1. x.is = "IS_TRUE"
            BY <2>1, <2>3, LeafAges DEF PhpLeaves
        <3>2. y = [is |-> "true"]
            BY <2>1, <3>1, LeafTables
        <3>3. Is(x, {"true", "IS_TRUE"}) /\ Is(y, {"true", "IS_TRUE"}) /\ y \in JsNodes
            BY <2>1, <3>1, <3>2, NodeToJsType DEF Is, Has
        <3> QED BY <3>3, LeafMeanings
    <2> QED BY <2>1, <2>2, <2>3, LeafAges
<1>5. CASE Is(x, {"array"})
    <2>1. y \in {[is |-> "array"], [is |-> "object"]} /\ Has(x, "is") /\ x.is = "array"
        BY <1>5, NodeToJsCases DEF Is
    <2>2. NodeAge("js", y) = 0 /\ NodeAge("php", x) = 0
        BY <2>1, LeafAges DEF NodeAge, Has
    <2>3. NodeMeaning(x) = [is |-> "map"] /\ NodeMeaning(y) = [is |-> "map"]
        <3>1. Container(x) /\ Container(y) /\ y \in JsNodes
            BY <2>1, NodeToJsType DEF Container, Is, Has
        <3> QED BY <3>1, LeafMeanings
    <2> QED BY <2>2, <2>3 DEF Older
<1> QED BY <1>1, <1>2, <1>3, <1>4, <1>5, PhpNodeKinds DEF Is

LEMMA KeyToPhpAge ==
    ASSUME NEW k \in Keys
    PROVE  /\ Older(KeyAge("php", KeyToPhp[k]), KeyAge("js", k))
           /\ KeyAge("js", k) = 0 => KeyToPhp[k] = k
<1>1. CASE k \in Names
    <2>1. KeyToPhp[k] = Cut[k] /\ Cut[k] \in Keys /\ k \notin Int
          /\ (Cut[k] \in Names => Cut[Cut[k]] = Cut[k])
        BY <1>1, ConversionAssumption DEF KeyToPhp
    <2> QED BY <1>1, <2>1 DEF KeyAge, PortableKey, Older, Keys
<1>2. CASE k \notin Names
    <2>1. KeyToPhp[k] = k /\ k \in Int
        BY <1>2 DEF KeyToPhp, Keys
    <2> QED BY <2>1 DEF KeyAge, Older
<1> QED BY <1>1, <1>2

LEMMA KeyToJsAge ==
    ASSUME NEW k \in Keys
    PROVE  /\ Older(KeyAge("js", KeyToJs[k]), KeyAge("php", k))
           /\ KeyAge("php", k) = 0 => KeyToJs[k] = k
<1>1. CASE k \in Names
    <2>1. KeyToJs[k] = Cut[k] /\ Cut[k] \in Keys /\ k \notin Int
          /\ (Cut[k] \in Names => Cut[Cut[k]] = Cut[k])
        BY <1>1, ConversionAssumption DEF KeyToJs
    <2> QED BY <1>1, <2>1 DEF KeyAge, PortableKey, Older, Keys
<1>2. CASE k \notin Names
    <2>1. KeyToJs[k] = k % (2 * Half) /\ k \in Int
        BY <1>2 DEF KeyToJs, Keys
    <2>2. KeyToJs[k] \in 0 .. 2 * Half - 1 /\ (k \in 0 .. 2 * Half - 1 => KeyToJs[k] = k)
        BY <2>1, Modulus
    <2>3. KeyToJs[k] \notin Names
        BY <2>2, ConversionAssumption
    <2> QED BY <1>2, <2>1, <2>2, <2>3 DEF KeyAge, PortableKey, Older
<1> QED BY <1>1, <1>2

(***************************************************************************)
(* Copies in which no key changes                                          *)
(***************************************************************************)

\* What leads to an entry of a value is in the value: the least number of
\* steps back that leaves it would leave a value without its container.
LEMMA PrefixInside ==
    ASSUME NEW x, Tree(x), NEW p \in DOMAIN x, NEW n \in 0 .. Len(p)
    PROVE  SubSeq(p, 1, n) \in DOMAIN x
<1>1. p \in Seq(Keys) /\ Len(p) \in Nat
    BY DEF Tree
<1> DEFINE back(m) == SubSeq(p, 1, Len(p) - m)
           T == {m \in 0 .. Len(p) : back(m) \notin DOMAIN x}
<1>2. ASSUME T # {} PROVE FALSE
    <2>1. T \in SUBSET Nat
        BY <1>1
    <2>2. PICK m \in T : \A j \in T : m <= j
        BY <1>2, <2>1, LeastNatural
    <2>3. m \in 0 .. Len(p) /\ back(m) \notin DOMAIN x
        BY <2>2
    <2>4. back(0) = p
        BY <1>1, SubSeqFull
    <2>5. m \in 1 .. Len(p)
        <3> HIDE DEF back
        <3>1. m # 0
            BY <2>3, <2>4
        <3> QED BY <1>1, <2>3, <3>1
    <2>6. m - 1 \in 0 .. Len(p) /\ m - 1 \notin T
        BY <1>1, <2>2, <2>5
    <2>7. back(m - 1) \in DOMAIN x
        BY <2>6
    <2>8. back(m - 1) \in Seq(Keys) /\ Len(back(m - 1)) = Len(p) - m + 1
        BY <1>1, <2>5
    <2>9. back(m - 1) # << >>
        <3> HIDE DEF back
        <3>1. Len(back(m - 1)) # 0
            BY <1>1, <2>5, <2>8
        <3> QED BY <2>8, <3>1, EmptySeq
    <2>10. Parent(back(m - 1)) = back(m)
        <3>1. Parent(back(m - 1)) \in Seq(Keys) /\ Len(Parent(back(m - 1))) = Len(p) - m
              /\ \A i \in 1 .. Len(p) - m : Parent(back(m - 1))[i] = back(m - 1)[i]
            <4> HIDE DEF back
            <4> QED BY <1>1, <2>5, <2>8, <2>9, ParentFacts
        <3>2. \A i \in 1 .. Len(p) - m : back(m - 1)[i] = p[i]
            BY <1>1, <2>5
        <3>3. back(m) \in Seq(Keys) /\ Len(back(m)) = Len(p) - m
              /\ \A i \in 1 .. Len(p) - m : back(m)[i] = p[i]
            BY <1>1, <2>5
        <3> HIDE DEF back
        <3> QED BY <3>1, <3>2, <3>3, SeqEqual
    <2> QED BY <2>3, <2>7, <2>9, <2>10 DEF Tree
<1>3. Len(p) - n \in 0 .. Len(p) /\ Len(p) - (Len(p) - n) = n
    BY <1>1
<1>4. back(Len(p) - n) \in DOMAIN x
    BY <1>2, <1>3
<1> QED BY <1>3, <1>4

LEMMA SamePaths ==
    ASSUME NEW x, Tree(x), NEW key \in [Keys -> Keys],
           \A p \in DOMAIN x : \A i \in DOMAIN p : key[p[i]] = p[i]
    PROVE  /\ Paths(x, key) = DOMAIN x
           /\ \A p \in DOMAIN x : Source(x, key, p) = p
<1>1. DOMAIN x \subseteq Seq(Keys)
    BY DEF Tree
<1>2. ASSUME NEW p \in DOMAIN x PROVE Renamed(p, key) = p
    <2>1. p \in Seq(Keys) /\ DOMAIN p = 1 .. Len(p)
        BY <1>1, LenProperties
    <2>2. Renamed(p, key) \in Seq(Keys) /\ Len(Renamed(p, key)) = Len(p)
          /\ \A i \in 1 .. Len(p) : Renamed(p, key)[i] = p[i]
        BY <2>1, RenamedFacts
    <2> QED BY <2>1, <2>2, SeqEqual
<1>3. ASSUME NEW p \in DOMAIN x, NEW i \in DOMAIN p PROVE Stays(x, key, p, i)
    <2> DEFINE q == SubSeq(p, 1, i)
               K == KeysUnder(x, SubSeq(p, 1, i - 1))
    <2>1. p \in Seq(Keys) /\ Len(p) \in Nat /\ i \in 1 .. Len(p)
        BY <1>1, LenProperties
    <2>2. q \in DOMAIN x
        BY <2>1, PrefixInside
    <2>3. q \in Seq(Keys) /\ Len(q) = i /\ \A j \in 1 .. i : q[j] = p[j]
        BY <2>1
    <2>4. q # << >> /\ q[Len(q)] = p[i]
        BY <2>1, <2>3, EmptySeq
    <2>5. Parent(q) = SubSeq(p, 1, i - 1)
        <3>1. Parent(q) \in Seq(Keys) /\ Len(Parent(q)) = i - 1
              /\ \A j \in 1 .. i - 1 : Parent(q)[j] = q[j]
            <4> HIDE DEF q
            <4> QED BY <2>3, <2>4, ParentFacts
        <3>2. SubSeq(p, 1, i - 1) \in Seq(Keys) /\ Len(SubSeq(p, 1, i - 1)) = i - 1
              /\ \A j \in 1 .. i - 1 : SubSeq(p, 1, i - 1)[j] = p[j]
            BY <2>1
        <3>3. \A j \in 1 .. i - 1 : q[j] = p[j]
            BY <2>1, <2>3
        <3> HIDE DEF q
        <3> QED BY <3>1, <3>2, <3>3, SeqEqual
    <2>6. p[i] \in K
        <3> HIDE DEF q
        <3> QED BY <2>2, <2>4, <2>5 DEF KeysUnder
    <2>7. ASSUME NEW k \in K PROVE key[k] = k
        <3>1. PICK r \in DOMAIN x \ {<< >>} : k = r[Len(r)]
            BY <2>7 DEF KeysUnder
        <3>2. r \in Seq(Keys) /\ DOMAIN r = 1 .. Len(r) /\ Len(r) \in Nat \ {0}
            BY <1>1, <3>1, LenProperties, EmptySeq
        <3>3. Len(r) \in DOMAIN r
            BY <3>2
        <3> QED BY <3>1, <3>3
    <2> HIDE DEF K
    <2>8. (CHOOSE k \in K : key[k] = key[p[i]]) = p[i]
        BY <2>6, <2>7
    <2> QED BY <2>8 DEF Stays, K
<1>4. Kept(x, key) = DOMAIN x
    BY <1>3 DEF Kept
<1>5. Paths(x, key) = DOMAIN x
    BY <1>2, <1>4 DEF Paths
<1>6. ASSUME NEW p \in DOMAIN x PROVE Source(x, key, p) = p
    <2>1. Source(x, key, p) \in DOMAIN x /\ Renamed(Source(x, key, p), key) = p
        BY <1>5, CopyFacts
    <2> QED BY <1>2, <2>1
<1> QED BY <1>5, <1>6

(***************************************************************************)
(* Ages of copies                                                          *)
(***************************************************************************)

LEMMA ToPhpAges ==
    ASSUME NEW j, JsValue(j), Faults(j) = {}, NEW n \in Nat, Ages("js", j, n)
    PROVE  /\ Ages("php", ToPhp(j), Less(n))
           /\ n = 0 => Meaning(ToPhp(j)) = Meaning(j)
<1> DEFINE src(q) == Source(j, KeyToPhp, q)
           P == Paths(j, KeyToPhp)
           z == ToPhp(j)
<1>1. \A q \in P : q \in Seq(Keys) /\ src(q) \in DOMAIN j /\ Renamed(src(q), KeyToPhp) = q
    BY KeyTypes, CopyFacts DEF JsValue
<1>2. DOMAIN z = P /\ z = [q \in P |-> z[q]] /\ \A q \in P : z[q] = NodeToPhp(j[src(q)])
    BY DEF ToPhp
<1>3. ASSUME n = 0
      PROVE  P = DOMAIN j /\ \A q \in P : src(q) = q
    <2>1. ASSUME NEW p \in DOMAIN j, NEW i \in DOMAIN p PROVE KeyToPhp[p[i]] = p[i]
        <3>1. p[i] \in Keys
            BY ElementOfSeq, LenProperties DEF JsValue, Tree
        <3>2. KeyAge("js", p[i]) = 0
            BY <1>3, AgesBounded DEF Ages
        <3> QED BY <3>1, <3>2, KeyToPhpAge
    <2> QED BY <2>1, KeyTypes, SamePaths DEF JsValue
<1> HIDE DEF z, P, src
<1>4. \A p \in DOMAIN j :
         /\ Older(NodeAge("php", NodeToPhp(j[p])), NodeAge("js", j[p]))
         /\ NodeAge("js", j[p]) = 0 => NodeMeaning(NodeToPhp(j[p])) = NodeMeaning(j[p])
    BY FaultFacts, NodeToPhpAge DEF JsValue
<1>5. ASSUME NEW q \in P PROVE NodeAge("php", z[q]) <= Less(n)
    BY <1>1, <1>2, <1>4, OlderLess DEF Ages
<1>6. ASSUME NEW q \in P, NEW i \in DOMAIN q PROVE KeyAge("php", q[i]) <= Less(n)
    <2> DEFINE p == src(q)
    <2>1. p \in DOMAIN j /\ p \in Seq(Keys) /\ Renamed(p, KeyToPhp) = q
        BY <1>1 DEF JsValue, Tree
    <2>2. i \in DOMAIN p /\ i \in 1 .. Len(p) /\ p[i] \in Keys /\ q[i] = KeyToPhp[p[i]]
        BY <1>1, <2>1, KeyTypes, RenamedFacts, LenProperties, ElementOfSeq
    <2>3. KeyAge("js", p[i]) <= n
        BY <2>1, <2>2 DEF Ages
    <2> QED BY <2>2, <2>3, KeyToPhpAge, OlderLess
<1>7. Ages("php", z, Less(n))
    BY <1>2, <1>5, <1>6 DEF Ages
<1>8. ASSUME n = 0 PROVE Meaning(z) = Meaning(j)
    <2>1. ASSUME NEW p \in DOMAIN j PROVE NodeMeaning(z[p]) = NodeMeaning(j[p])
        <3>1. NodeAge("js", j[p]) = 0
            BY <1>8, AgesBounded DEF Ages, JsValue
        <3> QED BY <1>2, <1>3, <1>4, <1>8, <3>1
    <2> QED BY <1>2, <1>3, <1>8, <2>1 DEF Meaning
<1> QED BY <1>7, <1>8 DEF z

LEMMA ToJsAges ==
    ASSUME NEW x, PhpValue(x), NEW n \in Nat, Ages("php", x, n)
    PROVE  /\ Ages("js", ToJs(x), Less(n))
           /\ n = 0 => Meaning(ToJs(x)) = Meaning(x)
<1> DEFINE src(q) == Source(x, KeyToJs, q)
           P == Paths(x, KeyToJs)
           z == ToJs(x)
<1>1. \A q \in P : q \in Seq(Keys) /\ src(q) \in DOMAIN x /\ Renamed(src(q), KeyToJs) = q
    BY KeyTypes, CopyFacts DEF PhpValue
<1>2. DOMAIN z = P /\ z = [q \in P |-> z[q]]
      /\ \A q \in P : z[q] = NodeToJs(x[src(q)], KeysUnder(x, src(q)))
    BY DEF ToJs
<1>3. ASSUME n = 0
      PROVE  P = DOMAIN x /\ \A q \in P : src(q) = q
    <2>1. ASSUME NEW p \in DOMAIN x, NEW i \in DOMAIN p PROVE KeyToJs[p[i]] = p[i]
        <3>1. p[i] \in Keys
            BY ElementOfSeq, LenProperties DEF PhpValue, Tree
        <3>2. KeyAge("php", p[i]) = 0
            BY <1>3, AgesBounded DEF Ages
        <3> QED BY <3>1, <3>2, KeyToJsAge
    <2> QED BY <2>1, KeyTypes, SamePaths DEF PhpValue
<1> HIDE DEF z, P, src
<1>4. \A p \in DOMAIN x :
         LET m == NodeToJs(x[p], KeysUnder(x, p)) IN
         /\ Older(NodeAge("js", m), NodeAge("php", x[p]))
         /\ NodeAge("php", x[p]) = 0 => NodeMeaning(m) = NodeMeaning(x[p])
    BY NodeToJsAge DEF PhpValue
<1>5. ASSUME NEW q \in P PROVE NodeAge("js", z[q]) <= Less(n)
    BY <1>1, <1>2, <1>4, OlderLess DEF Ages
<1>6. ASSUME NEW q \in P, NEW i \in DOMAIN q PROVE KeyAge("js", q[i]) <= Less(n)
    <2> DEFINE p == src(q)
    <2>1. p \in DOMAIN x /\ p \in Seq(Keys) /\ Renamed(p, KeyToJs) = q
        BY <1>1 DEF PhpValue, Tree
    <2>2. i \in DOMAIN p /\ i \in 1 .. Len(p) /\ p[i] \in Keys /\ q[i] = KeyToJs[p[i]]
        BY <1>1, <2>1, KeyTypes, RenamedFacts, LenProperties, ElementOfSeq
    <2>3. KeyAge("php", p[i]) <= n
        BY <2>1, <2>2 DEF Ages
    <2> QED BY <2>2, <2>3, KeyToJsAge, OlderLess
<1>7. Ages("js", z, Less(n))
    BY <1>2, <1>5, <1>6 DEF Ages
<1>8. ASSUME n = 0 PROVE Meaning(z) = Meaning(x)
    <2>1. ASSUME NEW p \in DOMAIN x PROVE NodeMeaning(z[p]) = NodeMeaning(x[p])
        <3>1. NodeAge("php", x[p]) = 0
            BY <1>8, AgesBounded DEF Ages, PhpValue
        <3> QED BY <1>2, <1>3, <1>4, <1>8, <3>1
    <2> QED BY <1>2, <1>3, <1>8, <2>1 DEF Meaning
<1> QED BY <1>7, <1>8 DEF z

(***************************************************************************)
(* What crossing means                                                     *)
(***************************************************************************)

\* How many crossings may still change something.
Left(t) == IF t < 5 THEN 5 - t ELSE 0

LEMMA LeftFacts ==
    ASSUME NEW t \in Nat
    PROVE  Left(t) \in Nat /\ Left(t + 1) = Less(Left(t)) /\ Left(0) = 5 /\ (t >= 5 => Left(t) = 0)
BY DEF Left, Less

\* What no crossing changes any more makes no conversion fail.
LEMMA AgedHarmless ==
    ASSUME NEW j, JsValue(j), Regular(j), Ages("js", j, 0)
    PROVE  Faults(j) = {}
<1>1. ASSUME NEW p \in DOMAIN j, Is(j[p], Traps) PROVE FALSE
    <2>1. j[p] \in JsNodes /\ Has(j[p], "is") /\ j[p].is \in Traps
        BY <1>1 DEF JsValue, Is
    <2>2. NodeAge("js", j[p]) = LeafAge[j[p].is] /\ NodeAge("js", j[p]) <= 0
        BY <2>1 DEF Ages, NodeAge
    <2>3. LeafAge[j[p].is] > 0
        BY <2>1 DEF Traps, LeafAge
    <2>4. LeafAge[j[p].is] \in 0 .. 5
        BY <2>1, LeafAges DEF Traps, JsLeaves
    <2> QED BY <2>2, <2>3, <2>4
<1> QED BY <1>1, FaultFacts DEF Regular

\* Neither direction fails on such a value.
LEMMA AgedCrosses ==
    ASSUME TypeOK, Next, Regular(value), Ages(side, value, 0)
    PROVE  fate' = "ok"
<1>1. CASE IntoPhp
    <2>1. side = "js" /\ fate = "ok" /\ JsValue(value)
        BY <1>1 DEF IntoPhp, TypeOK
    <2>2. \A r \in Readings(value) : Faults(Read(value, r)) = {}
        BY <2>1, RegularRead, AgedHarmless
    <2> QED BY <1>1, <2>1, <2>2 DEF IntoPhp
<1>2. CASE IntoJs
    <2>1. fate = "ok" /\ PhpValue(value)
        BY <1>2 DEF IntoJs, TypeOK
    <2> QED BY <1>2, <2>1, RegularFits DEF IntoJs, PhpValue
<1> QED BY <1>1, <1>2 DEF Next

\* Every crossing that goes well takes a year off what the value has left.
LEMMA CrossingAges ==
    ASSUME TypeOK, Next, fate' = "ok", Regular(value), NEW n \in Nat, Ages(side, value, n)
    PROVE  Ages(side', value', Less(n)) /\ trips' = trips + 1 /\ origin' = origin
           /\ (n = 0 => Meaning(value') = Meaning(value))
<1>1. CASE IntoPhp
    <2>1. JsValue(value) /\ side = "js"
        BY <1>1 DEF IntoPhp, TypeOK
    <2>2. PICK r \in Readings(value) :
              \/ fate' \in Faults(Read(value, r))
              \/ /\ Faults(Read(value, r)) = {} /\ value' = ToPhp(Read(value, r))
                 /\ side' = "php" /\ trips' = trips + 1 /\ origin' = origin
        BY <1>1 DEF IntoPhp
    <2>3. Read(value, r) = value
        BY <2>1, RegularRead
    <2>4. fate' \notin Faults(value)
        BY DEF Faults
    <2>5. Faults(value) = {} /\ value' = ToPhp(value) /\ side' = "php" /\ trips' = trips + 1
          /\ origin' = origin
        BY <2>2, <2>3, <2>4
    <2> QED BY <2>1, <2>5, ToPhpAges
<1>2. CASE IntoJs
    <2>1. side = "php" /\ value' = ToJs(value) /\ side' = "js" /\ trips' = trips + 1
          /\ origin' = origin
        BY <1>2 DEF IntoJs
    <2>2. PhpValue(value)
        BY <2>1 DEF TypeOK
    <2> QED BY <2>1, <2>2, ToJsAges
<1> QED BY <1>1, <1>2 DEF Next

LEMMA PortableAges ==
    ASSUME NEW owner \in {"js", "php"}, NEW x, JsValue(x) \/ PhpValue(x), Portable(x)
    PROVE  Ages(owner, x, 0)
<1>1. ASSUME NEW p \in DOMAIN x PROVE NodeAge(owner, x[p]) <= 0
    <2>1. PortableNode(x[p]) /\ x[p] \in JsNodes \cup PhpNodes
        BY DEF Portable, JsValue, PhpValue
    <2>2. Has(x[p], "is") => LeafAge[x[p].is] = 0
        BY <2>1 DEF PortableNode, Is, LeafAge
    <2> QED BY <2>1, <2>2 DEF PortableNode, NodeAge
<1>2. ASSUME NEW p \in DOMAIN x, NEW i \in DOMAIN p PROVE KeyAge(owner, p[i]) <= 0
    BY DEF Portable, KeyAge
<1> QED BY <1>1, <1>2 DEF Ages

\* What a portable value has become is portable in every part, and means the
\* same.
PortableInv ==
    Portable(origin) =>
        fate = "ok" /\ Ages(side, value, 0) /\ Meaning(value) = Meaning(origin)

\* A portable value, however large, survives any number of crossings unchanged
\* in meaning: neither conversion loses, cuts, wraps or confuses any part of it.
THEOREM PortableValuesSurvive == Spec => []Faithful
<1>1. Init => PortableInv
    <2> SUFFICES ASSUME Init, Portable(origin) PROVE PortableInv
        BY DEF PortableInv
    <2>1. side \in {"js", "php"} /\ value = origin /\ (JsValue(value) \/ PhpValue(value))
        BY InputsAssumption DEF Init
    <2>2. Ages(side, value, 0)
        BY <2>1, PortableAges
    <2> QED BY <2>1, <2>2 DEF Init, PortableInv
<1>2. PortableInv /\ FreshInv /\ [Next]_vars => PortableInv'
    <2> SUFFICES ASSUME PortableInv, FreshInv, [Next]_vars, Portable(origin)' PROVE PortableInv'
        BY DEF PortableInv
    <2>1. CASE Next
        <3>1. origin' = origin
            BY <2>1 DEF Next, IntoPhp, IntoJs
        <3>2. Portable(origin) /\ Regular(value) /\ TypeOK
            BY <3>1 DEF Portable, FreshInv, StaysRegular
        <3>3. Ages(side, value, 0) /\ Meaning(value) = Meaning(origin) /\ fate = "ok"
            BY <3>2 DEF PortableInv
        <3>4. fate' = "ok"
            BY <2>1, <3>2, <3>3, AgedCrosses
        <3>5. Ages(side', value', Less(0)) /\ Meaning(value') = Meaning(value)
            BY <2>1, <3>2, <3>3, <3>4, CrossingAges
        <3>6. Less(0) = 0
            BY DEF Less
        <3> QED BY <3>1, <3>3, <3>4, <3>5, <3>6 DEF PortableInv
    <2>2. CASE UNCHANGED vars
        BY <2>2 DEF vars, PortableInv
    <2> QED BY <2>1, <2>2
<1>3. PortableInv => Faithful
    BY DEF PortableInv, Faithful
<1> QED BY <1>1, <1>2, <1>3, FreshInvAlways, PTL DEF Spec

AgeInv == fate = "ok" /\ Regular(origin) => Ages(side, value, Left(trips))

\* Every regular value, of any size, stops changing: the sixth crossing and all
\* later ones neither fail nor change what it means, in any part.
THEOREM ValuesSettle == Spec => Settles
<1>1. Init => AgeInv
    <2> SUFFICES ASSUME Init PROVE AgeInv
        OBVIOUS
    <2>1. /\ (side = "js" /\ JsValue(value)) \/ (side = "php" /\ PhpValue(value))
          /\ trips = 0
        BY InputsAssumption DEF Init
    <2>2. Left(trips) = 5
        BY <2>1, LeftFacts
    <2>3. \A p \in DOMAIN value : value[p] \in JsNodes \cup PhpNodes
        BY <2>1 DEF JsValue, PhpValue
    <2> QED BY <2>1, <2>2, <2>3, AgesBounded DEF AgeInv, Ages
<1>2. AgeInv /\ FreshInv /\ [Next]_vars => AgeInv'
    <2> SUFFICES ASSUME AgeInv, FreshInv, [Next]_vars, fate' = "ok", Regular(origin)' PROVE AgeInv'
        BY DEF AgeInv
    <2>1. CASE Next
        <3>1. fate = "ok" /\ origin' = origin
            BY <2>1 DEF Next, IntoPhp, IntoJs
        <3>2. TypeOK /\ Regular(origin) /\ Regular(value) /\ trips \in Nat
            BY <3>1, ConversionAssumption DEF FreshInv, StaysRegular, TypeOK
        <3>3. Left(trips) \in Nat /\ Ages(side, value, Left(trips))
            BY <3>1, <3>2, LeftFacts DEF AgeInv
        <3>4. Ages(side', value', Less(Left(trips))) /\ trips' = trips + 1
            BY <2>1, <3>2, <3>3, CrossingAges
        <3> QED BY <3>2, <3>4, LeftFacts DEF AgeInv
    <2>2. CASE UNCHANGED vars
        BY <2>2 DEF vars, AgeInv
    <2> QED BY <2>1, <2>2
<1>3. AgeInv /\ FreshInv /\ [Next]_vars =>
        [trips >= 5 /\ Regular(origin) =>
            fate' = "ok" /\ Meaning(value') = Meaning(value)]_vars
    <2> SUFFICES ASSUME AgeInv, FreshInv, Next, trips >= 5, Regular(origin)
                 PROVE  fate' = "ok" /\ Meaning(value') = Meaning(value)
        OBVIOUS
    <2>1. TypeOK /\ fate = "ok" /\ trips \in Nat /\ Regular(value)
        BY ConversionAssumption DEF FreshInv, StaysRegular, TypeOK, Next, IntoPhp, IntoJs
    <2>2. Ages(side, value, 0)
        BY <2>1, LeftFacts DEF AgeInv
    <2>3. fate' = "ok"
        BY <2>1, <2>2, AgedCrosses
    <2> QED BY <2>1, <2>2, <2>3, CrossingAges
<1> QED BY <1>1, <1>2, <1>3, FreshInvAlways, PTL DEF Spec, Settles

=============================================================================
