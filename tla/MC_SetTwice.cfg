CONSTANTS
    Vms = {m1}
    Names = {x, main_obj}
    MainObj = main_obj
    Globals = {g}
    Data = {one, two}
SPECIFICATION Spec
INVARIANT SetTakesEffect
CHECK_DEADLOCK FALSE
