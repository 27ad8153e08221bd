SPECIFICATION ProgressSpec
CONSTANTS
    UsedAttempts = {"a1", "a1Again", "b1"}
    UsedObservations = {"a1Paid", "a1Other", "a1Timeout", "b1Timeout"}
    Horizon = 2
    Null <- MCNull
    ObligationIds <- MCObligationIds
    AttemptIds <- UsedAttempts
    ObservationIds <- UsedObservations
    ObligationRow <- MCObligationRow
    AttemptRow <- ProgressAttemptRow
    ObservationRow <- MCObservationRow
INVARIANTS
    CasesAreWorkedOff
    CasesAreDue
PROPERTIES
    RefundsSettle
    OverdueIsSeen
    CallsAreAnswered
\* Once everything is answered, settled and seen, nothing need happen.
CHECK_DEADLOCK FALSE
