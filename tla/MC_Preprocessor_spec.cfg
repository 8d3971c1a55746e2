\* Every template of up to 6 characters; the line may itself hold "$@" or
\* "$1".
CONSTANTS
    Fuel = 12
    Templates <- MCTemplates
    Lines <- MCDirtyLines
    Captures <- MCCaptures
SPECIFICATION Spec
INVARIANT PreprocAsSpec
CHECK_DEADLOCK FALSE
