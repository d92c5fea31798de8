\* The lexer stops behind the EOF.
SPECIFICATION Spec
CHECK_DEADLOCK FALSE
CONSTANTS
    Texts <- AllTexts
    Keywords <- Reserved
    MaxInt = 90
INVARIANTS TypeOK TokensInPlace OperatorsMaximal StringsBracketed
