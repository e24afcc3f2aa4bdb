\* One request, every mode, two statuses an upstream may answer with (one of
\* them a 502 of its own).
SPECIFICATION FairSpec
CONSTANTS
    Routes <- MCRoutes
    Statuses = {200, 502}
    NoRoute = NoRoute
INVARIANTS
    TypeOK
    ForwardedOnlyWhenAdmitted
    LoggedAsSent
    WholeAnswerOrError
    HooksFollowOutcome
    EditsInChainOrder
PROPERTIES
    AnsweredOnce
    EveryRequestEnds
