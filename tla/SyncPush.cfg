SPECIFICATION Spec
CONSTANTS
    d1 = d1
    d2 = d2
    d3 = d3
    d4 = d4
    m1 = m1
    m2 = m2
    a = a
    b = b
    None = None
    Refused = Refused
    Devices = {d1, d2, d3, d4}
    Machines = {m1, m2}
    Commands = {a, b}
    t1 = t1
    t2 = t2
    Tags = {t1, t2}
    Home <- MCHome
    First <- MCFirst
    Start <- MCStart
    MaxSeals = 2
    MaxRecords = 4
INVARIANTS
    NoForkAlone
    MembersRead
PROPERTIES
    AppendsOnce
SYMMETRY TagSymmetry
CHECK_DEADLOCK FALSE
