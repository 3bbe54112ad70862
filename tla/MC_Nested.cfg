CONSTANTS
    Handles = {h1, h2}
    Functions = {f1, f2}
    Errors = {e1, e2}
    OddErrors = {odd}
    CrossFrames = FALSE
    MaxArgs = 2
    MaxFrames = 2
    MaxSlots = 4
    Global = Global
    Undefined = Undefined
    Plain = Plain
    Self = Self
    None = None
    NoHandle = NoHandle
SPECIFICATION FairSpec
INVARIANT TypeOK
INVARIANT PinnedInFrame
INVARIANT OneError
 
PROPERTY ImplementsUnwinding
PROPERTY EveryErrorArrives
CHECK_DEADLOCK FALSE
