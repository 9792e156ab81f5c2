CONSTANTS
    Texts <- MCTexts
    Names = {"x", "y", "f"}
    LocalNames = {"_x"}
    Wide = {"W", "A"}
    Astral = {"A"}
    Builtins <- MCBuiltins
    TypeNames <- MCTypeNames
    PropertyTypes <- MCPropertyTypes
SPECIFICATION Spec
CHECK_DEADLOCK FALSE
INVARIANTS
    IndentsBalance
    SpansAreTheText
    DepthIsIndentation
    DeclarationsAreKept
    SpansNest
    NodeAtIsInnermost
    UnusedLocalsAreRight
    VariableRenameReachesEveryUse
    ParametersKeepTheirType
    PositionsRoundTrip
    RangesAreWellFormed
    SignatureIsOfTheCall
PROPERTIES
    MisalignmentIsReported
