\* Calls with different operands, patterns of rows and overlays.
CONSTANTS
    None = None
    Constant = Constant
    Blank = Blank
    Implicit = Implicit
    upper = upper  known = known  loose = loose  nameless = nameless  silent = silent
    t1 = t1
    EmployeeYields <- AllOperands
    Task = {t1}
    Rule = {upper, known, loose, nameless, silent}
    Body <- MCBody
    Fields <- MCFields
    Sorted <- MCSorted
    Operand <- MCOperand
    Caller <- MCCaller
    MaxCost = 1000000
    MaxRevisions = 2
    MaxQueries = 2
SPECIFICATION Spec
INVARIANTS TypeOK StepsReady PlannableByConstruction RefusalJustified HeadsBound RulesCurrent
CHECK_DEADLOCK FALSE
