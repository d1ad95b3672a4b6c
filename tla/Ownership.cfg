SPECIFICATION Spec
CONSTANTS
    o1 = o1
    o2 = o2
    o3 = o3
    n1 = n1
    n2 = n2
    n3 = n3
    a1 = a1
    Objs = {o1, o2, o3}
    Fds = {n1, n2, n3}
    Frames = {a1}
    NoFd = NoFd
    MaxFiles = 5
SYMMETRY Symmetry
INVARIANTS HoldsOwnFile OneOwner OwnInv
CHECK_DEADLOCK FALSE
