\* Two administrators and one request on one key that is written four times.
SPECIFICATION Spec
CONSTANTS
    Admins = {a1, a2}
    Requests = {r1}
    Scopes = {read}
    None = None
    Unset = Unset
    MaxWrites = 4
    MaxFailures = 1
INVARIANTS
    TypeOK
    AcceptedWhileValid
    HandedTokenWorks
PROPERTIES
    ImplementsAtomicKeys
SYMMETRY Symmetry
\* A behaviour ends at its bounds.
CHECK_DEADLOCK FALSE
