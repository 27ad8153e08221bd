\* An obligation closed before any attempt has nothing left to happen to it.
CHECK_DEADLOCK FALSE
SPECIFICATION Spec
CONSTANTS
    UsedAttempts = {"a1", "a2"}
    UsedObservations = {"a1Paid", "a1PaidAgain", "a1Clash", "a1Other"}
    Null <- MCNull
    ObligationIds <- MCObligationIds
    AttemptIds <- UsedAttempts
    ObservationIds <- UsedObservations
    ObligationRow <- MCObligationRow
    AttemptRow <- MCAttemptRow
    ObservationRow <- MCObservationRow
INVARIANTS
    SatisfyingCaptureIsKept
