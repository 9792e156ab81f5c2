CONSTANTS
    Texts <- CallTexts
    Names = {"x", "y", "f"}
    LocalNames = {"_x"}
    Wide = {"W", "A"}
    Astral = {"A"}
    Builtins <- MCBuiltins
    TypeNames <- MCTypeNames
    PropertyTypes <- MCPropertyTypes
SPECIFICATION Spec
CHECK_DEADLOCK FALSE
INVARIANTS FunctionRenameIsExact
