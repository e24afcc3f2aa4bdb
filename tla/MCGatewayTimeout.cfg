\* The README's claim that upstream errors reach the client as 502.
SPECIFICATION Spec
CONSTANTS
    Routes <- MCRoutes
    Statuses = {200, 502}
    NoRoute = NoRoute
INVARIANTS
    ErrorsAre502
