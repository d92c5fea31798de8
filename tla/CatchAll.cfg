\* A compilation ends.
SPECIFICATION Spec
CHECK_DEADLOCK FALSE
CONSTANTS
    Builtin = {Vector3}
    UserDefined = {}
    Undefined = {Mesh}
    Name = {self}
    Self = self
    None = None
    Signatures = {"full"}
    MaxNesting = 1
    MaxBlocks = 1
INVARIANTS
    CatchAllUnreached
