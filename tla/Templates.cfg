CONSTANTS
    User = {ann, bob}
    Index = {0, 1, 2}
    Input = {0, 1}
    Value = {v, w}
    Stored = Stored
    Declarations <- MCDeclarations
    Givens <- MCGivens
    MaxTemplates = 2
SPECIFICATION Spec
CHECK_DEADLOCK FALSE
INVARIANTS
    TypeOK
    ExecutedAsDeclared
