\* Every template of up to 6 characters, clean lines and captures.
CONSTANTS
    Fuel = 12
    Templates <- MCTemplates
    Lines <- MCCleanValues
    Captures <- MCCaptures
SPECIFICATION Spec
INVARIANT Terminates
\* One call of run() per behaviour: the final state has no successor.
CHECK_DEADLOCK FALSE
