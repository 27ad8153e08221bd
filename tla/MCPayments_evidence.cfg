\* An obligation closed before any attempt has nothing left to happen to it.
CHECK_DEADLOCK FALSE
SPECIFICATION Spec
CONSTANTS
    UsedAttempts = {"a1", "a2"}
    UsedObservations = {"a1Paid", "a1PaidAgain", "a1Clash", "a1Failed", "a1NotFound", "a1Gap", "a1Short", "a2Paid", "a2Same"}
    Null <- MCNull
    ObligationIds <- MCObligationIds
    AttemptIds <- UsedAttempts
    ObservationIds <- UsedObservations
    ObligationRow <- MCObligationRow
    AttemptRow <- MCAttemptRow
    ObservationRow <- MCObservationRow
CONSTRAINT InAScenario
INVARIANTS
    TypeOK
    OneUnresolvedAttempt
    DoubtIsUnderReview
    EvidenceAgreesWithOutcome
    SatisfactionIsAnnounced
    CapturesAccountedFor
PROPERTIES
    AttemptsMoveForward
