CONSTANTS
    a = a
    aNul = aNul
    nineNul = nineNul
    s = s
    sNul = sNul
    conNul = conNul
    Constructor = Constructor
    Prototype = Prototype
    Names <- MCNames
    Strings <- MCStrings
    Cut <- MCCut
    Half = 4
    DepthToPhp = 2
    DepthToJs = 3
    Inputs <- AllInputs
    MaxTrips = 8
SPECIFICATION Spec
INVARIANT TypeOK
INVARIANT Faithful
INVARIANT OnlyFreshValuesFail
PROPERTY Settles
CHECK_DEADLOCK FALSE
