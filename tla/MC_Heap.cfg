CONSTANTS
    Objects = {o1, o2, o3}
    MaxProps = 1
    Builtins = 0
    Nil = Nil
SPECIFICATION Spec
SYMMETRY Symmetry
INVARIANT TypeOK
INVARIANT NoDangling
INVARIANT CountsExact
INVARIANT NothingLeftAtZero
INVARIANT ListKept
PROPERTY NeverFreedUnfinalized
PROPERTY FinalizedOnce
PROPERTY ImplementsGraph
CHECK_DEADLOCK FALSE
