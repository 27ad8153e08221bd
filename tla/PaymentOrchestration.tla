------------------------- MODULE PaymentOrchestration -------------------------
(***************************************************************************)
(* The evidence state machine of src/modules/paymentOrchestration: payment *)
(* obligations, the attempts made to collect them, the provider evidence   *)
(* stored about the attempts, and what the reducer persists from it.       *)
(*                                                                         *)
(* Every action is one database transaction.  Each transaction that writes *)
(* an attempt first locks its obligation and the attempts with FOR UPDATE  *)
(* (the review service locks the attempt row alone, which the other        *)
(* transactions lock too), reads under the locks and writes before they    *)
(* are released, so transactions on an obligation are serial and one       *)
(* action per transaction loses no interleaving.  Interleavings between    *)
(* transactions are the interleavings of the actions.                      *)
(***************************************************************************)
EXTENDS EvidenceReducer

VARIABLES
    obligationStatus,   \* PaymentObligation.status
    satisfiedAt,        \* the observation whose time PaymentObligation.satisfiedAt holds
    created,            \* the attempts that have been inserted
    outcome,            \* PaymentAttempt.outcomeStatus
    review,             \* PaymentAttempt.reviewStatus
    resolvedAt,         \* the observation whose time PaymentAttempt.resolvedAt holds
    observations,       \* ProviderObservation rows
    facts,              \* PaymentNormalizedFactOutbox rows
    refundCases,        \* RefundDueCase rows
    attention,          \* PaymentAttentionSignal rows
    transitions,        \* PaymentOutcomeTransition rows
    reviewHistory       \* ReconciliationReviewHistory rows

obligationVars == <<obligationStatus, satisfiedAt>>
attemptVars    == <<outcome, review, resolvedAt>>
outboxVars     == <<facts, refundCases>>
logVars        == <<attention, transitions, reviewHistory>>
vars == <<obligationVars, created, attemptVars, observations, outboxVars, logVars>>

-----------------------------------------------------------------------------
ObligationStatuses == {"OPEN", "SATISFIED", "EXPIRED", "CANCELLED"}
OutcomeStatuses    == {"PENDING", "UNKNOWN", "SUCCEEDED", "FAILED_TERMINAL", "NOT_FOUND_TERMINAL"}
TerminalOutcomes   == {"SUCCEEDED", "FAILED_TERMINAL", "NOT_FOUND_TERMINAL"}
ReviewStatuses     == {"NOT_REQUIRED", "REQUIRED", "IN_PROGRESS", "COMPLETED"}
OpenReviews        == {"REQUIRED", "IN_PROGRESS"}

ObligationOf(a)  == AttemptRow[a].obligation
AttemptOf(c)     == ObservationRow[c].attempt
AttemptsOf(o)    == {a \in created : ObligationOf(a) = o}
Unresolved(a)    == a \in created /\ resolvedAt[a] = Null

\* loadReductionContext: every observation stored for the obligation.
EvidenceFor(o, stored) == {c \in stored : ObservationRow[c].obligation = o}

Snapshot(a) == [outcome |-> outcome[a], review |-> review[a], resolvedAt |-> resolvedAt[a]]

TypeOK ==
    /\ obligationStatus \in [ObligationIds -> ObligationStatuses]
    /\ satisfiedAt \in [ObligationIds -> ObservationIds \cup {Null}]
    /\ created \subseteq AttemptIds
    /\ outcome \in [AttemptIds -> OutcomeStatuses]
    /\ review \in [AttemptIds -> ReviewStatuses]
    /\ resolvedAt \in [AttemptIds -> ObservationIds \cup {Null}]
    /\ observations \subseteq ObservationIds

\* createCheckoutObligations inserts obligations OPEN; an attempt row is inserted
\* with the values below, which stand for "no row yet" before that.
Init ==
    /\ obligationStatus = [o \in ObligationIds |-> "OPEN"]
    /\ satisfiedAt = [o \in ObligationIds |-> Null]
    /\ created = {}
    /\ outcome = [a \in AttemptIds |-> "PENDING"]
    /\ review = [a \in AttemptIds |-> "NOT_REQUIRED"]
    /\ resolvedAt = [a \in AttemptIds |-> Null]
    /\ observations = {}
    /\ facts = {}
    /\ refundCases = {}
    /\ attention = {}
    /\ transitions = {}
    /\ reviewHistory = {}

-----------------------------------------------------------------------------
(***************************************************************************)
(* attemptCoordinator.ts createAttempt, the call that inserts an attempt.  *)
(* A replay of a used idempotency key, an ineligible obligation, another   *)
(* unresolved attempt or a disabled policy return before the insert; they  *)
(* write nothing but policy-audit rows.                                    *)
(***************************************************************************)
AttemptEligible(o) ==
    /\ ObligationRow[o].rail = "ONLINE"
    /\ obligationStatus[o] = "OPEN"
    /\ satisfiedAt[o] = Null

KeyUsed(a) == \E b \in created : /\ AttemptRow[b].merchant = AttemptRow[a].merchant
                                 /\ AttemptRow[b].key = AttemptRow[a].key

\* "policy" says whether the policy record passed with the request authorises it
\* (approval, owner, amount ceiling, effective window).
ActivationEnabled(a) ==
    /\ AttemptRow[a].policy
    /\ AttemptRow[a].provider = "MOCK"
    /\ AttemptRow[a].environment = "TEST"

\* Mutant of CreateAttempt: an attempt in front of a reviewer does not block another one.
CreateAttemptBesideReview(a) ==
    /\ a \notin created
    /\ ~KeyUsed(a)
    /\ AttemptEligible(ObligationOf(a))
    /\ \A b \in AttemptsOf(ObligationOf(a)) : resolvedAt[b] # Null \/ review[b] \in OpenReviews
    /\ ActivationEnabled(a)
    /\ created' = created \cup {a}
    /\ UNCHANGED <<obligationVars, attemptVars, observations, outboxVars, logVars>>

CreateAttempt(a) ==
    /\ a \notin created
    /\ ~KeyUsed(a)
    /\ ObligationRow[ObligationOf(a)].merchant = AttemptRow[a].merchant
    /\ AttemptEligible(ObligationOf(a))
    /\ \A b \in AttemptsOf(ObligationOf(a)) : resolvedAt[b] # Null
    /\ ActivationEnabled(a)
    /\ created' = created \cup {a}
    /\ UNCHANGED <<obligationVars, attemptVars, observations, outboxVars, logVars>>

-----------------------------------------------------------------------------
(***************************************************************************)
(* Log rows.  Outcomes and review states only move forward, so a row per   *)
(* change is a set member.                                                 *)
(***************************************************************************)
LogOutcome(a, next) ==
    transitions' = IF next = outcome[a] THEN transitions
                   ELSE transitions \cup {[attempt |-> a, prior |-> outcome[a], next |-> next]}

LogReview(a, next) ==
    reviewHistory' = IF next = review[a] THEN reviewHistory
                     ELSE reviewHistory \cup
                          {[attempt |-> a, prior |-> review[a], next |-> next, reason |-> "STATUS"]}

(***************************************************************************)
(* Outbox rows.  A payment fact is identified by its type, attempt and     *)
(* observation; a refund case and its fact share the capture key, and the  *)
(* first insert for a key wins (upsert with an empty update).              *)
(***************************************************************************)
PaymentFact(type, c) == [type |-> type, key |-> <<type, AttemptOf(c), c>>, observation |-> c]
RefundFact(c)        == [type |-> "REFUND_DUE_DETECTED", key |-> CaptureKey(c), observation |-> c]
RefundCase(c, why)   == [key |-> CaptureKey(c), attempt |-> AttemptOf(c), reason |-> why]

Emit(t, plan) ==
    LET newCase == plan.refunds # {} /\ \A r \in refundCases : r.key # CaptureKey(t)
        newFact == plan.refunds # {} /\ \A f \in facts : f.key # CaptureKey(t)
    IN  /\ refundCases' = refundCases \cup
              (IF newCase THEN {RefundCase(t, why) : why \in plan.refunds} ELSE {})
        /\ facts' = facts \cup {PaymentFact(type, t) : type \in plan.facts}
                          \cup (IF newFact THEN {RefundFact(t)} ELSE {})

(***************************************************************************)
(* reductionPersistence.ts persistReduction: a plan that leaves the        *)
(* attempt unresolved never takes back a resolution.                       *)
(***************************************************************************)
\* Mutant of WriteAttempt: the plan is written as it is, over a resolved attempt too.
WritePlanAsIs(a, t, plan) ==
    /\ outcome' = [outcome EXCEPT ![a] = plan.outcome]
    /\ review' = [review EXCEPT ![a] = plan.review]
    /\ resolvedAt' = [resolvedAt EXCEPT ![a] = IF plan.resolved THEN t ELSE Null]
    /\ LogOutcome(a, plan.outcome)
    /\ LogReview(a, plan.review)

WriteAttempt(a, t, plan) ==
    LET preserve    == resolvedAt[a] # Null /\ ~plan.resolved
        nextOutcome == IF preserve THEN outcome[a] ELSE plan.outcome
        nextReview  == IF preserve THEN review[a] ELSE plan.review
    IN  /\ outcome' = [outcome EXCEPT ![a] = nextOutcome]
        /\ review' = [review EXCEPT ![a] = nextReview]
        /\ resolvedAt' = IF plan.resolved /\ resolvedAt[a] = Null
                         THEN [resolvedAt EXCEPT ![a] = t] ELSE resolvedAt
        /\ LogOutcome(a, nextOutcome)
        /\ LogReview(a, nextReview)

\* Mutant of SatisfyObligation: the status is written without its time.
SatisfyWithoutTime(o, t, plan) ==
    /\ obligationStatus' = IF plan.satisfy THEN [obligationStatus EXCEPT ![o] = "SATISFIED"]
                                           ELSE obligationStatus
    /\ UNCHANGED satisfiedAt

SatisfyObligation(o, t, plan) ==
    IF plan.satisfy /\ obligationStatus[o] = "OPEN"
    THEN /\ obligationStatus' = [obligationStatus EXCEPT ![o] = "SATISFIED"]
         /\ satisfiedAt' = IF satisfiedAt[o] = Null THEN [satisfiedAt EXCEPT ![o] = t]
                                                    ELSE satisfiedAt
    ELSE UNCHANGED obligationVars

PersistReduction(a, o, t, plan) ==
    /\ WriteAttempt(a, t, plan)
    /\ SatisfyObligation(o, t, plan)
    /\ attention' = attention \cup
          {[attempt |-> a, code |-> code, observation |-> t] : code \in plan.attention}
    /\ Emit(t, plan)

(***************************************************************************)
(* observationService.ts ingestObservation.  The delivery of an event and  *)
(* body already stored for the attempt inserts no observation and is       *)
(* reduced again as not new; a delivery without an event id always gets an *)
(* id of its own.                                                          *)
(***************************************************************************)
IngestObservation(c) ==
    LET obs    == ObservationRow[c]
        a      == obs.attempt
        o      == obs.obligation
        isNew  == c \notin observations
        stored == observations \cup {c}
    IN  /\ a \in created
        /\ ObligationOf(a) = o
        /\ ObligationRow[o].merchant = obs.merchant
        /\ obs.event = Null => isNew
        /\ observations' = stored
        /\ PersistReduction(a, o, c,
              ReduceEvidence(a, EvidenceFor(o, stored), c, isNew, obligationStatus[o], Snapshot(a)))
        /\ UNCHANGED created

-----------------------------------------------------------------------------
(***************************************************************************)
(* persistSlaEscalation and persistCredentialUseDenial: both re-read the   *)
(* attempt under the locks and do nothing when it has been resolved.       *)
(***************************************************************************)
ParkForReview(a, nextOutcome) ==
    LET nextReview == UnresolvedReview(review[a])
    IN  /\ outcome' = [outcome EXCEPT ![a] = nextOutcome]
        /\ review' = [review EXCEPT ![a] = nextReview]
        /\ LogOutcome(a, nextOutcome)
        /\ LogReview(a, nextReview)

SlaEscalation(a) ==
    /\ Unresolved(a)
    /\ ParkForReview(a, IF outcome[a] = "PENDING" THEN "UNKNOWN" ELSE outcome[a])
    /\ UNCHANGED <<obligationVars, created, resolvedAt, observations, outboxVars, attention>>

CredentialUseDenial(a) ==
    /\ Unresolved(a)
    /\ ParkForReview(a, "UNKNOWN")
    /\ attention' = attention \cup
          {[attempt |-> a, code |-> "CREDENTIAL_SECURITY_ALERT", observation |-> Null]}
    /\ UNCHANGED <<obligationVars, created, resolvedAt, observations, outboxVars>>

-----------------------------------------------------------------------------
(***************************************************************************)
(* reviewService.ts.  Claiming a review that is already IN_PROGRESS, by    *)
(* the same or another reviewer, changes nothing.                          *)
(***************************************************************************)
ClaimReview(a) ==
    /\ Unresolved(a)
    /\ review[a] = "REQUIRED"
    /\ review' = [review EXCEPT ![a] = "IN_PROGRESS"]
    /\ LogReview(a, "IN_PROGRESS")
    /\ UNCHANGED <<obligationVars, created, outcome, resolvedAt, observations, outboxVars,
                   attention, transitions>>

ReviewNote(a, reason) ==
    /\ Unresolved(a)
    /\ review[a] = "IN_PROGRESS"
    /\ reviewHistory' = reviewHistory \cup
          {[attempt |-> a, prior |-> "IN_PROGRESS", next |-> "IN_PROGRESS", reason |-> reason]}
    /\ UNCHANGED <<obligationVars, created, attemptVars, observations, outboxVars,
                   attention, transitions>>

AttachEvidenceReference(a) == ReviewNote(a, "EVIDENCE_REFERENCE_ATTACHED")

RequestReadOnlyQuery(a) == ReviewNote(a, "READ_ONLY_QUERY_REQUESTED")

(***************************************************************************)
(* Closing an obligation that was not paid.  No code of the repository     *)
(* does it; the reducer and the coordinator read the two statuses.         *)
(***************************************************************************)
CloseObligation(o, closed) ==
    /\ obligationStatus[o] = "OPEN"
    /\ obligationStatus' = [obligationStatus EXCEPT ![o] = closed]
    /\ UNCHANGED <<satisfiedAt, created, attemptVars, observations, outboxVars, logVars>>

-----------------------------------------------------------------------------
Next ==
    \/ \E a \in AttemptIds :
          \/ CreateAttempt(a)
          \/ SlaEscalation(a)
          \/ CredentialUseDenial(a)
          \/ ClaimReview(a)
          \/ AttachEvidenceReference(a)
          \/ RequestReadOnlyQuery(a)
    \/ \E c \in ObservationIds : IngestObservation(c)
    \/ \E o \in ObligationIds : \E closed \in {"EXPIRED", "CANCELLED"} : CloseObligation(o, closed)

Spec == Init /\ [][Next]_vars

-----------------------------------------------------------------------------
(***************************************************************************)
(* Properties.                                                             *)
(***************************************************************************)

\* An obligation has at most one unresolved attempt, so at most one provider order
\* is waiting for the same money: createAttempt refuses a second one while any
\* attempt is open, and no later transaction reopens a resolved attempt
\* (the partial unique index of the migration is never hit).
OneUnresolvedAttempt ==
    \A a, b \in created :
        ObligationOf(a) = ObligationOf(b) /\ Unresolved(a) /\ Unresolved(b) => a = b

\* No transaction is rejected by the CHECK constraints of the migration: an outcome
\* is terminal exactly when the attempt is resolved, a completed review belongs to a
\* resolved attempt, and a resolved attempt has no review waiting.
DatabaseChecksHold ==
    \A a \in created :
        /\ outcome[a] \in TerminalOutcomes <=> resolvedAt[a] # Null
        /\ review[a] = "COMPLETED" => resolvedAt[a] # Null
        /\ resolvedAt[a] # Null => review[a] \notin OpenReviews

OutcomeRank ==
    [PENDING |-> 0, UNKNOWN |-> 1, NOT_FOUND_TERMINAL |-> 2, FAILED_TERMINAL |-> 3, SUCCEEDED |-> 4]

ReviewRank == [NOT_REQUIRED |-> 0, REQUIRED |-> 1, IN_PROGRESS |-> 2, COMPLETED |-> 3]

\* Success is absorbing, a terminal failure gives way only to a success (and "not
\* found" only to a failure or a success), a review never steps back, and the time of a
\* resolution is written once, whatever evidence, escalation or denial comes later and
\* in whatever order.
AttemptMovesForward ==
    \A a \in AttemptIds :
        /\ OutcomeRank[outcome[a]] <= OutcomeRank[outcome'[a]]
        /\ ReviewRank[review[a]] <= ReviewRank[review'[a]]
        /\ resolvedAt[a] # Null => resolvedAt'[a] = resolvedAt[a]

AttemptsMoveForward == [][AttemptMovesForward]_vars

\* The stored evidence and the persisted outcome never disagree: a success that is
\* matched and not in conflict has made its attempt SUCCEEDED and taken its obligation
\* out of OPEN; a SUCCEEDED or failed attempt has a stored, matched observation saying so
\* (possibly put in doubt by a later conflict).
EvidenceAgreesWithOutcome ==
    /\ \A c \in observations :
          Kind(c, observations) = "MATCHED_SUCCESS" =>
              /\ outcome[AttemptOf(c)] = "SUCCEEDED"
              /\ obligationStatus[ObligationOf(AttemptOf(c))] # "OPEN"
    /\ \A a \in created :
          outcome[a] \in TerminalOutcomes =>
              \E c \in observations : /\ AttemptOf(c) = a
                                      /\ MatchedKind[c] \in {"MATCHED_SUCCESS", "MATCHED_TERMINAL_FAILURE"}
                                      /\ ObservationRow[c].mappedOutcome = outcome[a]

\* An obligation is SATISFIED only by stored, matched success evidence of one of its own
\* attempts, and the outbox announced that very observation as PAYMENT_SUCCEEDED in the
\* same transaction.
SatisfactionIsAnnounced ==
    \A o \in ObligationIds :
        /\ obligationStatus[o] = "SATISFIED" <=> satisfiedAt[o] # Null
        /\ obligationStatus[o] = "SATISFIED" =>
              /\ satisfiedAt[o] \in observations
              /\ MatchedKind[satisfiedAt[o]] = "MATCHED_SUCCESS"
              /\ ObligationOf(AttemptOf(satisfiedAt[o])) = o
              /\ outcome[AttemptOf(satisfiedAt[o])] = "SUCCEEDED"
              /\ PaymentFact("PAYMENT_SUCCEEDED", satisfiedAt[o]) \in facts

\* Captured money of an obligation: the keys of the stored, matched successes.
Captures(o) == {CaptureKey(c) : c \in {d \in EvidenceFor(o, observations) :
                                           MatchedKind[d] = "MATCHED_SUCCESS"}}

RefundedCaptures(o) == {r.key : r \in {s \in refundCases : ObligationOf(s.attempt) = o}}

SatisfyingCapture(o) ==
    IF satisfiedAt[o] = Null THEN {} ELSE {CaptureKey(satisfiedAt[o])}

SuccessInConflict(o) ==
    \E c \in EvidenceFor(o, observations) :
        MatchedKind[c] = "MATCHED_SUCCESS" /\ IntegrityConflict(c, observations)

\* Every capture of an obligation either paid it or is due for refund, and never both:
\* no buyer's money is kept twice and none is refunded that settled the order.  Stated
\* for obligations none of whose successes was put in doubt by a second body under the
\* same event id.
CapturesAccountedFor ==
    \A o \in ObligationIds :
        ~SuccessInConflict(o) =>
            /\ Captures(o) = SatisfyingCapture(o) \cup RefundedCaptures(o)
            /\ SatisfyingCapture(o) \cap RefundedCaptures(o) = {}

\* The capture that satisfied the obligation is never put up for refund.
SatisfyingCaptureIsKept ==
    \A o \in ObligationIds : SatisfyingCapture(o) \cap RefundedCaptures(o) = {}

InDoubt(a) ==
    \E c \in observations : /\ AttemptOf(c) = a
                           /\ Kind(c, observations) \in {"INTEGRITY_CONFLICT", "MAPPING_GAP"}

\* An unresolved attempt whose evidence is in conflict or carries a status nobody mapped
\* is in front of a reviewer: its review is required or in progress, and stays so
\* through escalations, denials and further evidence until the attempt is resolved.
DoubtIsUnderReview ==
    \A a \in created : Unresolved(a) /\ InDoubt(a) => review[a] \in OpenReviews

=============================================================================
