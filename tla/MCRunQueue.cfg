SPECIFICATION Spec
CONSTANTS
    OnlineCpus = 2
    Proc = {p1, p2, p3, p4}
    Nil = Nil
INVARIANT ListsSound
PROPERTY FifoSpec
