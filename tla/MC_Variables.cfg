CONSTANTS
    Vms = {m1, m2}
    Names = {x, main_obj}
    MainObj = main_obj
    Globals = {g}
    Data = {d}
SPECIFICATION Spec
SYMMETRY Symmetry
INVARIANT TypeOK
INVARIANT HeapsKeepApart
PROPERTY MainObjKept
CHECK_DEADLOCK FALSE
