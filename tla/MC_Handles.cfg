CONSTANTS
    VMs = {v1}
    Handles = {h1, h2, h3}
    Instances = {i1, i2}
    Functions = {f1}
    Names = {n1}
    Reserve = 5
    Headroom = 4
    HashNeed = 3
    MaxArgs = 1
    TableSize = 2
    MaxStack = 5
    Uses <- OddScripts
    Global = Global
    Undefined = Undefined
    Plain = Plain
    Hash = Hash
    Unsafe = Unsafe
    Mixed = Mixed
    Thrown = Thrown
    ThrownNull = ThrownNull
    NoVM = NoVM
    NoHandle = NoHandle
SPECIFICATION Spec
SYMMETRY Symmetry
INVARIANTS
    TypeOK
    RefcountExact
    DestroyedWhenUnheld
    Pinned
    SlotsDistinct
    NoUseAfterFree
    VmOutlivesWrappers
    FailsAsKnown
PROPERTIES
    StackNeverShrinks
    FillsSlowly
    ImplementsHandles
CHECK_DEADLOCK FALSE
