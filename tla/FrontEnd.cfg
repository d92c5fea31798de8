\* A compilation ends.
SPECIFICATION Spec
CHECK_DEADLOCK FALSE
CONSTANTS
    Builtin = {Vector3}
    UserDefined = {}
    Undefined = {Mesh}
    Name = {a, self}
    Self = self
    None = None
    Signatures = {"full", "short", "spent"}
    MaxNesting = 2
    MaxBlocks = 6
CONSTRAINT Bound
INVARIANTS
    TypeOK
    NamesAgree
    OnlyNestedJoinsOpen
    SpoiledByReturnOnly
    OnlyUncheckedTypesPanic
