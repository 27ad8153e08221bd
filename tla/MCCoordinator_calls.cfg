\* Once every call is answered, nothing need happen.
CHECK_DEADLOCK FALSE
SPECIFICATION CoordinatorSpec
CONSTANTS
    UsedAttempts = {"a1", "a1Again", "a2", "b1", "b2"}
    UsedObservations = {"a1Paid"}
    Null <- MCNull
    ObligationIds <- MCObligationIds
    AttemptIds <- UsedAttempts
    ObservationIds <- UsedObservations
    ObligationRow <- MCObligationRow
    AttemptRow <- MCCallRow
    ObservationRow <- MCObservationRow
CONSTRAINT InACallScenario
INVARIANTS
    OneAttemptPerKey
PROPERTIES
    ImplementsCreateAttempt
