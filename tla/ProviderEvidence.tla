-------------------------- MODULE ProviderEvidence --------------------------
(***************************************************************************)
(* What one provider observation says about one payment attempt.           *)
(* paymentOrchestration/matching.ts and the per-observation part of        *)
(* classifyAndDedupe in paymentOrchestration/reducer.ts.                   *)
(*                                                                         *)
(* Rows that never change once inserted are constants: the identity        *)
(* columns of an obligation, of an attempt, and a whole observation.       *)
(* Everything here is therefore a function of constants alone; what        *)
(* changes is which rows exist, and that lives in PaymentOrchestration.    *)
(***************************************************************************)
EXTENDS Integers, Sequences

CONSTANTS
    ObligationIds,    \* PaymentObligation.id
    AttemptIds,       \* PaymentAttempt.id, one for each create request
    ObservationIds,   \* ProviderObservation.id, one for each distinct delivery
    Null,             \* SQL NULL
    ObligationRow,    \* obligation -> its immutable columns
    AttemptRow,       \* attempt -> its immutable columns
    ObservationRow    \* observation -> its columns (append-only table)

MappedOutcomes == {"PENDING", "UNKNOWN", "SUCCEEDED", "FAILED_TERMINAL",
                   "NOT_FOUND_TERMINAL", "UNMAPPED"}

(***************************************************************************)
(* An observation names an attempt, the attempt an obligation.  A stored   *)
(* row is determined by its attempt, provider, environment, event id and   *)
(* body hash whenever the provider sent an event id                        *)
(* (observationService.ts appendOrClassifyObservation).                    *)
(***************************************************************************)
ASSUME RowAssumption ==
    /\ \A a \in AttemptIds : AttemptRow[a].obligation \in ObligationIds
    /\ \A c \in ObservationIds :
          /\ ObservationRow[c].attempt \in AttemptIds
          /\ ObservationRow[c].mappedOutcome \in MappedOutcomes

ASSUME NullAssumption == Null \notin ObservationIds

(***************************************************************************)
(* Source-specific authenticity.                                           *)
(***************************************************************************)
RequiredSignature ==
    [WEBHOOK         |-> "VERIFIED",
     STATUS_QUERY    |-> "NOT_APPLICABLE",
     PROVIDER_RECORD |-> "NOT_APPLICABLE",
     MOCK            |-> "NOT_APPLICABLE"]

Authenticated(obs) ==
    /\ obs.signatureVerification = RequiredSignature[obs.source]
    /\ obs.source = "MOCK" => obs.provider = "MOCK"

(***************************************************************************)
(* The ordered comparisons of matchObservation.  The order matters once:   *)
(* an UNMAPPED status is only reported for evidence that passed every      *)
(* comparison above it, and before the mapping version is looked at.       *)
(***************************************************************************)
MatchChecks(c) ==
    LET obs == ObservationRow[c]
        att == AttemptRow[obs.attempt]
        obl == ObligationRow[obs.obligation]
    IN  << [reason |-> "MERCHANT_MISMATCH",
            holds  |-> obs.merchant = obl.merchant /\ obs.merchant = att.merchant],
           [reason |-> "PROVIDER_MISMATCH",    holds |-> obs.provider = att.provider],
           [reason |-> "ENVIRONMENT_MISMATCH", holds |-> obs.environment = att.environment],
           [reason |-> "CREDENTIAL_BINDING_MISMATCH",
            holds  |-> obs.binding = att.binding /\ obs.bindingVerification = "VERIFIED"],
           [reason |-> "UNAUTHENTICATED",         holds |-> Authenticated(obs)],
           [reason |-> "EVIDENCE_NOT_AUTHORIZED", holds |-> obs.authority = "ELIGIBLE"],
           [reason |-> "ORDER_REFERENCE_MISMATCH",
            holds  |-> att.orderRef # Null /\ obs.orderRef = att.orderRef],
           [reason |-> "MISSING_TRANSACTION_REFERENCE",
            holds  |-> obs.mappedOutcome = "SUCCEEDED" => obs.transactionRef \notin {Null, ""}],
           [reason |-> "AMOUNT_MISMATCH",   holds |-> obs.amountPaise = obl.amountPaise],
           [reason |-> "CURRENCY_MISMATCH", holds |-> obs.currency = obl.currency],
           [reason |-> "UNMAPPED_STATUS",   holds |-> obs.mappedOutcome # "UNMAPPED"],
           [reason |-> "MAPPING_VERSION_MISMATCH",
            holds  |-> obs.mappingVersion = att.mappingVersion],
           [reason |-> "INTERNAL_REFERENCE_MISMATCH",
            holds  |-> obs.obligation = att.obligation] >>

FirstFailure(checks) ==
    LET failed == {i \in DOMAIN checks : ~checks[i].holds}
    IN  IF failed = {}
        THEN "MATCHED"
        ELSE checks[CHOOSE i \in failed : \A j \in failed : i <= j].reason

MatchObservation(c) == FirstFailure(MatchChecks(c))

(***************************************************************************)
(* The kind classifyAndDedupe gives an observation that shares its event   *)
(* id with no differing body: a table, since matching reads constants.     *)
(***************************************************************************)
KindOfOutcome ==
    [SUCCEEDED          |-> "MATCHED_SUCCESS",
     FAILED_TERMINAL    |-> "MATCHED_TERMINAL_FAILURE",
     NOT_FOUND_TERMINAL |-> "MATCHED_TERMINAL_FAILURE",
     UNKNOWN            |-> "MATCHED_UNKNOWN",
     PENDING            |-> "MATCHED_PENDING",
     UNMAPPED           |-> "MAPPING_GAP"]

KindOfMatch(match, mappedOutcome) ==
    CASE match = "MATCHED"         -> KindOfOutcome[mappedOutcome]
      [] match = "UNMAPPED_STATUS" -> "MAPPING_GAP"
      [] OTHER                     -> "NON_MATCHING"

MatchedKind ==
    [c \in ObservationIds |-> KindOfMatch(MatchObservation(c), ObservationRow[c].mappedOutcome)]
=============================================================================
