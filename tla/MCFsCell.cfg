\* Two tasks of one process and one of another on one cell; one process may die.
CONSTANTS
    None = None
    t1 = t1  t2 = t2  t3 = t3
    p1 = p1  p2 = p2
    a = a  b = b
    Task = {t1, t2, t3}
    Process = {p1, p2}
    ProcessOf <- MCProcessOf
    Content = {a, b}
    MaxCrashes = 1
SPECIFICATION Spec
SYMMETRY Symmetry
INVARIANTS TypeOK CriticalSection
PROPERTY ImplementsRegister
