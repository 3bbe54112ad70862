CONSTANTS
    VMs = {v1}
    Handles = {h1, h2}
    Instances = {i1}
    Functions = {f1}
    Names = {n1, n2}
    Reserve = 5
    Headroom = 4
    HashNeed = 3
    MaxArgs = 1
    TableSize = 2
    MaxStack = 4
    Uses <- NewVars
    Global = Global
    Undefined = Undefined
    Plain = Plain
    Hash = Hash
    Unsafe = Unsafe
    Mixed = Mixed
    Thrown = Thrown
    ThrownNull = ThrownNull
    NoVM = NoVM
    NoHandle = NoHandle
SPECIFICATION Spec
SYMMETRY Symmetry
INVARIANTS
    NoUseAfterFree

CHECK_DEADLOCK FALSE
