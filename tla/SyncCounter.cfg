SPECIFICATION Spec
CONSTANTS
    None = None
    Callers = {c1, c2}
    Objects = {s1, s2}
    Contents = {x}
    Last = 1
SYMMETRY Alike
INVARIANTS
    NonceUsedOnce
    CrashIsNotLoss
    ResendsSameBytes
    NothingSentRolledBack
