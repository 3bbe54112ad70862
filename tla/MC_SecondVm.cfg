CONSTANTS
    VMs = {v1, v2}
    Handles = {h1, h2}
    Instances = {i1}
    Functions = {f1}
    Names = {n1}
    Reserve = 5
    Headroom = 4
    HashNeed = 3
    MaxArgs = 1
    TableSize = 2
    MaxStack = 4
    Uses <- NoFeatures
    Global = Global
    Undefined = Undefined
    Plain = Plain
    Hash = Hash
    Unsafe = Unsafe
    Mixed = Mixed
    Thrown = Thrown
    ThrownNull = ThrownNull
    NoVM = NoVM
    NoHandle = NoHandle
SPECIFICATION Spec
SYMMETRY Symmetry
INVARIANTS
    VmOutlivesWrappers

CHECK_DEADLOCK FALSE
