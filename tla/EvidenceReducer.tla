--------------------------- MODULE EvidenceReducer ---------------------------
(***************************************************************************)
(* The deterministic reducer of paymentOrchestration/reducer.ts: from the  *)
(* observations stored for an obligation, the state of one of its attempts *)
(* and the observation that triggered the reduction, the plan that         *)
(* reductionPersistence.ts then writes.  Pure: no variables.               *)
(*                                                                         *)
(* S is always the set of observations stored for the obligation, the      *)
(* triggering one included; t is the triggering observation and isNew says *)
(* that this delivery inserted it.                                         *)
(***************************************************************************)
EXTENDS ProviderEvidence

(***************************************************************************)
(* Event groups: one event id on one attempt, provider and environment.    *)
(* A group with two body hashes is an integrity conflict as a whole.       *)
(***************************************************************************)
SameProviderEvent(c, d) ==
    LET x == ObservationRow[c]
        y == ObservationRow[d]
    IN  /\ x.event # Null
        /\ x.event = y.event
        /\ x.attempt = y.attempt
        /\ x.provider = y.provider
        /\ x.environment = y.environment

OtherBodies ==
    [c \in ObservationIds |->
        {d \in ObservationIds : /\ SameProviderEvent(c, d)
                                /\ ObservationRow[d].bodyHash # ObservationRow[c].bodyHash}]

IntegrityConflict(c, S) == OtherBodies[c] \cap S # {}

Kind(c, S) ==
    IF IntegrityConflict(c, S) THEN "INTEGRITY_CONFLICT" ELSE MatchedKind[c]

OfKind(k, S) == {c \in S : Kind(c, S) = k}

HasEvidence(a, k, S) == \E c \in OfKind(k, S) : ObservationRow[c].attempt = a

(***************************************************************************)
(* captureIdentity: one captured amount of money at the provider.          *)
(***************************************************************************)
CaptureKey(c) ==
    LET obs == ObservationRow[c]
    IN  <<obs.obligation, AttemptRow[obs.attempt].provider, obs.transactionRef>>

ResolvedReview(r)   == IF r \in {"REQUIRED", "IN_PROGRESS"} THEN "COMPLETED" ELSE r

\* Mutant of UnresolvedReview: a review is only reopened, never opened.
UnresolvedReviewReopen(r) == IF r = "COMPLETED" THEN "REQUIRED" ELSE r

UnresolvedReview(r) == IF r = "IN_PROGRESS" THEN "IN_PROGRESS" ELSE "REQUIRED"

(***************************************************************************)
(* The precedence of reduceEvidence over the target attempt's evidence.    *)
(***************************************************************************)
\* Mutant of Verdict: a terminal failure is looked at before a success.
VerdictFailureFirst(a, S) ==
    IF HasEvidence(a, "MATCHED_TERMINAL_FAILURE", S) THEN "TERMINAL_FAILURE"
    ELSE IF HasEvidence(a, "MATCHED_SUCCESS", S)     THEN "SUCCESS"
    ELSE "UNRESOLVED"

Verdict(a, S) ==
    IF HasEvidence(a, "MATCHED_SUCCESS", S)               THEN "SUCCESS"
    ELSE IF HasEvidence(a, "INTEGRITY_CONFLICT", S)       THEN "INTEGRITY_CONFLICT"
    ELSE IF HasEvidence(a, "MAPPING_GAP", S)              THEN "MAPPING_GAP"
    ELSE IF HasEvidence(a, "MATCHED_TERMINAL_FAILURE", S) THEN "TERMINAL_FAILURE"
    ELSE "UNRESOLVED"

(***************************************************************************)
(* Refunds reduceTargetSuccess opens, as the set of reasons (at most one). *)
(***************************************************************************)
CaptureAlreadyObserved(t, S) ==
    \E c \in OfKind("MATCHED_SUCCESS", S) : c # t /\ CaptureKey(c) = CaptureKey(t)

OtherCaptureObserved(t, S) ==
    \E c \in OfKind("MATCHED_SUCCESS", S) : CaptureKey(c) # CaptureKey(t)

\* Mutant of RefundReasons: every further success is a surplus, whichever capture it shows.
RefundReasonsPerDelivery(t, S, obligationStatus) ==
    CASE obligationStatus \in {"EXPIRED", "CANCELLED"} -> {"LATE_SUCCESS_AFTER_CLOSURE"}
      [] obligationStatus = "SATISFIED"                -> {"SURPLUS_DOUBLE_SUCCESS"}
      [] OTHER                                         -> {}

RefundReasons(t, S, obligationStatus) ==
    IF CaptureAlreadyObserved(t, S) THEN {}
    ELSE CASE obligationStatus \in {"EXPIRED", "CANCELLED"} -> {"LATE_SUCCESS_AFTER_CLOSURE"}
           [] obligationStatus = "SATISFIED" /\ OtherCaptureObserved(t, S)
                                                            -> {"SURPLUS_DOUBLE_SUCCESS"}
           [] OTHER                                         -> {}

(***************************************************************************)
(* The plans.  "facts" are the payment facts sourced by t, "refunds" the   *)
(* reasons of the refund case for t's capture, "attention" the signals.    *)
(* A REFUND_DUE_DETECTED fact goes with each refund.                       *)
(***************************************************************************)
SuccessPlan(a, S, t, isNew, obligationStatus, attempt) ==
    LET triggers(k)   == isNew /\ ObservationRow[t].attempt = a /\ Kind(t, S) = k
        refunds       == IF triggers("MATCHED_SUCCESS")
                         THEN RefundReasons(t, S, obligationStatus) ELSE {}
        contradictory == {"MATCHED_PENDING", "MATCHED_UNKNOWN", "MATCHED_TERMINAL_FAILURE"}
    IN  [outcome   |-> "SUCCEEDED",
         resolved  |-> TRUE,
         satisfy   |-> obligationStatus = "OPEN",
         review    |-> ResolvedReview(attempt.review),
         facts     |-> {f \in {"PAYMENT_SUCCEEDED", "PAYMENT_FAILED"} :
                          \/ f = "PAYMENT_SUCCEEDED" /\ triggers("MATCHED_SUCCESS")
                          \/ f = "PAYMENT_FAILED" /\ triggers("MATCHED_TERMINAL_FAILURE")},
         refunds   |-> refunds,
         attention |->
            {s \in {"CONTRADICTORY_EVIDENCE", "INTEGRITY_CONFLICT", "MAPPING_GAP",
                    "DOUBLE_SUCCESS_DETECTED"} :
               \/ s = "CONTRADICTORY_EVIDENCE" /\ \E k \in contradictory : HasEvidence(a, k, S)
               \/ s \in {"INTEGRITY_CONFLICT", "MAPPING_GAP"} /\ HasEvidence(a, s, S)
               \/ s = "DOUBLE_SUCCESS_DETECTED" /\ "SURPLUS_DOUBLE_SUCCESS" \in refunds}]

TerminalFailurePlan(a, S, t, isNew, attempt) ==
    LET failures == {c \in OfKind("MATCHED_TERMINAL_FAILURE", S) : ObservationRow[c].attempt = a}
        failed   == \E c \in failures : ObservationRow[c].mappedOutcome = "FAILED_TERMINAL"
    IN  [outcome   |-> IF failed THEN "FAILED_TERMINAL" ELSE "NOT_FOUND_TERMINAL",
         resolved  |-> TRUE,
         satisfy   |-> FALSE,
         review    |-> ResolvedReview(attempt.review),
         facts     |-> IF isNew /\ t \in failures THEN {"PAYMENT_FAILED"} ELSE {},
         refunds   |-> {},
         attention |-> {}]

IntegrityConflictPlan(attempt) ==
    [outcome   |-> attempt.outcome,
     resolved  |-> attempt.resolvedAt # Null,
     satisfy   |-> FALSE,
     review    |-> IF attempt.resolvedAt = Null THEN UnresolvedReview(attempt.review)
                                                ELSE ResolvedReview(attempt.review),
     facts     |-> {},
     refunds   |-> {},
     attention |-> {"INTEGRITY_CONFLICT"}]

\* Mutant of MappingGapPlan: the attempt takes over the outcome of the evidence.
MappingGapPlanCopied(attempt) ==
    [outcome |-> "UNMAPPED", resolved |-> FALSE, satisfy |-> FALSE,
     review |-> UnresolvedReview(attempt.review),
     facts |-> {}, refunds |-> {}, attention |-> {"MAPPING_GAP"}]

MappingGapPlan(attempt) ==
    [outcome   |-> "UNKNOWN",
     resolved  |-> FALSE,
     satisfy   |-> FALSE,
     review    |-> UnresolvedReview(attempt.review),
     facts     |-> {},
     refunds   |-> {},
     attention |-> {"MAPPING_GAP"}]

UnresolvedPlan(a, S, attempt) ==
    [outcome   |-> IF attempt.resolvedAt = Null /\ HasEvidence(a, "MATCHED_UNKNOWN", S)
                   THEN "UNKNOWN" ELSE attempt.outcome,
     resolved  |-> attempt.resolvedAt # Null,
     satisfy   |-> FALSE,
     review    |-> attempt.review,
     facts     |-> {},
     refunds   |-> {},
     attention |-> {}]

ReduceEvidence(a, S, t, isNew, obligationStatus, attempt) ==
    LET verdict == Verdict(a, S)
    IN  CASE verdict = "SUCCESS"            -> SuccessPlan(a, S, t, isNew, obligationStatus, attempt)
          [] verdict = "INTEGRITY_CONFLICT" -> IntegrityConflictPlan(attempt)
          [] verdict = "MAPPING_GAP"        -> MappingGapPlan(attempt)
          [] verdict = "TERMINAL_FAILURE"   -> TerminalFailurePlan(a, S, t, isNew, attempt)
          [] verdict = "UNRESOLVED"         -> UnresolvedPlan(a, S, attempt)
=============================================================================
