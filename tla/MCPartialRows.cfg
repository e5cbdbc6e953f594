\* A rule of a concept in a body leaves an optional operand out.
CONSTANTS
    None = None
    Constant = Constant
    Blank = Blank
    Implicit = Implicit
    upper = upper  known = known  loose = loose  nameless = nameless  silent = silent
    t1 = t1
    EmployeeYields <- NickLeftOut
    Task = {t1}
    Rule = {known}
    Body <- MCBody
    Fields <- MCFields
    Sorted <- MCSorted
    Operand <- MCOperand
    Caller <- MCCaller
    MaxCost = 1000000
    MaxRevisions = 2
    MaxQueries = 2
SPECIFICATION Spec
INVARIANT StepsReady
CHECK_DEADLOCK FALSE
