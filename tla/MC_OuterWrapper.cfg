CONSTANTS
    Handles = {h1, h2}
    Functions = {f1, f2}
    Errors = {e1, e2}
    OddErrors = {odd}
    CrossFrames = TRUE
    MaxArgs = 2
    MaxFrames = 2
    MaxSlots = 5
    Global = Global
    Undefined = Undefined
    Plain = Plain
    Self = Self
    None = None
    NoHandle = NoHandle
SPECIFICATION Spec
SYMMETRY Symmetry
INVARIANT MeaningKept
CHECK_DEADLOCK FALSE
