\* Two calls at a time, three policies, clocks a millisecond apart.
SPECIFICATION Spec
CONSTANTS
    Calls = {c1, c2}
    Policies <- MCPolicies
    Scale = 4
    Milli = 2
    Skews <- MCSkews
    MaxDelay = 2
    MaxTime = 4
    MaxRuns = 4
    None = None
INVARIANTS
    TypeOK
    GrantsBounded
    RefusalsJustified
    RetryAfterHonoured
SYMMETRY Symmetry
\* A behaviour ends at its bounds.
CHECK_DEADLOCK FALSE
