SPECIFICATION Spec
CONSTANTS
    t1 = t1
    t2 = t2
    f1 = f1
    s1 = s1
    s2 = s2
    Targets = {t1, t2}
    Files = {f1}
    Specs = {s1, s2}
    FileOf <- MCFileOf
    SpecOf <- MCSpecOf
    First <- MCFirst
    Budgets <- MCBudgets
    None = None
INVARIANT
    TypeOK
PROPERTIES
    VerdictIsEarned
    FrozenTestsKept
CHECK_DEADLOCK FALSE
