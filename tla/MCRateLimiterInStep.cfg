\* Two calls at a time, a limit of 2.5 per 3, clocks that agree and no delays.
SPECIFICATION Spec
CONSTANTS
    Calls = {c1, c2}
    Policies <- MCOnePolicy
    Scale = 6
    Milli = 1
    Skews <- MCOneSkew
    MaxDelay = 0
    MaxTime = 8
    MaxRuns = 6
    None = None
PROPERTIES
    ImplementsIdealBucket
\* A behaviour ends at its bounds.
CHECK_DEADLOCK FALSE
