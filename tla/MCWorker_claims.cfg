\* Once the clock has stopped and nothing is unresolved, nothing need happen.
CHECK_DEADLOCK FALSE
SPECIFICATION WorkerSpec
CONSTANTS
    UsedAttempts = {"a1"}
    UsedObservations = {"a1Timeout", "a1Paid"}
    Workers = {w1, w2}
    RequestIds = {"r1"}
    CredentialContexts <- ActiveOrRevoked
    MaxClock = 4
    MaxCrashes = 1
    Null <- MCNull
    ObligationIds <- MCObligationIds
    AttemptIds <- UsedAttempts
    ObservationIds <- UsedObservations
    ObligationRow <- MCObligationRow
    AttemptRow <- MCAttemptRow
    ObservationRow <- MCObservationRow
    Policy <- MCPolicy
    QueryAnswers <- MCQueryAnswers
SYMMETRY WorkerSymmetry
INVARIANTS
    RequestsRunOnce
    ClaimsAccountedFor
PROPERTIES
    ImplementsOrchestration
