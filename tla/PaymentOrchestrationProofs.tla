---------------------- MODULE PaymentOrchestrationProofs ----------------------
(***************************************************************************)
(* Theorems about PaymentOrchestration for any obligations, attempts and   *)
(* provider evidence.                                                      *)
(*                                                                         *)
(* The heart is that the reducer forgets nothing it has decided: a         *)
(* persisted terminal outcome is backed by a stored observation (Backed),  *)
(* stored observations are never removed, and the reducer, seeing that     *)
(* observation again, either confirms the outcome, improves on it, or      *)
(* finds it in conflict, in which case the attempt is left as it is.       *)
(***************************************************************************)
EXTENDS PaymentOrchestration, TLAPS

(***************************************************************************)
(* The inductive invariant, one attempt at a time.                         *)
(***************************************************************************)
AttemptRecord == [outcome : OutcomeStatuses, review : ReviewStatuses,
                  resolvedAt : ObservationIds \cup {Null}]

WellFormed(att) ==
    /\ att \in AttemptRecord
    /\ att.outcome \in TerminalOutcomes <=> att.resolvedAt # Null
    /\ att.review = "COMPLETED" => att.resolvedAt # Null
    /\ att.resolvedAt # Null => att.review \notin OpenReviews

Evidences(c, a, kind) ==
    AttemptOf(c) = a /\ ObservationRow[c].obligation = ObligationOf(a) /\ MatchedKind[c] = kind

Backed(out, a, S) ==
    /\ out = "SUCCEEDED" => \E c \in S : Evidences(c, a, "MATCHED_SUCCESS")
    /\ out \in {"FAILED_TERMINAL", "NOT_FOUND_TERMINAL"} =>
          \E c \in S : /\ Evidences(c, a, "MATCHED_TERMINAL_FAILURE")
                       /\ ObservationRow[c].mappedOutcome = out

AttemptsWellFormed == \A a \in AttemptIds : WellFormed(Snapshot(a))

OutcomesBacked == \A a \in AttemptIds : Backed(outcome[a], a, observations)

\* Only the evidence of an attempt that exists, filed under its own obligation, is stored.
EvidenceFiled ==
    \A c \in observations :
        AttemptOf(c) \in created /\ ObservationRow[c].obligation = ObligationOf(AttemptOf(c))

\* A success that is not in conflict has been acted on.
SuccessesActedOn ==
    \A c \in observations :
        Kind(c, observations) = "MATCHED_SUCCESS" =>
            /\ outcome[AttemptOf(c)] = "SUCCEEDED"
            /\ obligationStatus[ObligationOf(AttemptOf(c))] # "OPEN"

IInv ==
    /\ TypeOK
    /\ AttemptsWellFormed
    /\ OutcomesBacked
    /\ OneUnresolvedAttempt
    /\ EvidenceFiled
    /\ SuccessesActedOn
    /\ SatisfactionIsAnnounced

-----------------------------------------------------------------------------
(***************************************************************************)
(* Lemmas about the reducer.                                               *)
(***************************************************************************)

\* What a verdict says of the evidence it is taken from.
LEMMA VerdictMeaning ==
    ASSUME NEW a, NEW S
    PROVE  /\ Verdict(a, S) \in {"SUCCESS", "INTEGRITY_CONFLICT", "MAPPING_GAP",
                                 "TERMINAL_FAILURE", "UNRESOLVED"}
           /\ Verdict(a, S) = "SUCCESS" <=> HasEvidence(a, "MATCHED_SUCCESS", S)
           /\ Verdict(a, S) \in {"MAPPING_GAP", "TERMINAL_FAILURE", "UNRESOLVED"}
                 => ~HasEvidence(a, "INTEGRITY_CONFLICT", S)
           /\ Verdict(a, S) = "TERMINAL_FAILURE"
                 => HasEvidence(a, "MATCHED_TERMINAL_FAILURE", S)
           /\ Verdict(a, S) = "UNRESOLVED"
                 => ~HasEvidence(a, "MATCHED_TERMINAL_FAILURE", S)
  BY DEF Verdict

\* Stored evidence is still there when the reducer looks again: it keeps its kind or is
\* in conflict.
LEMMA EvidenceIsSeen ==
    ASSUME NEW a, NEW S, NEW kind, NEW c \in S, Evidences(c, a, kind)
    PROVE  HasEvidence(a, kind, S) \/ HasEvidence(a, "INTEGRITY_CONFLICT", S)
  BY DEF Evidences, HasEvidence, OfKind, Kind, AttemptOf

\* Evidence of a matched kind was matched on its own.
LEMMA SeenIsEvidence ==
    ASSUME NEW a, NEW S, NEW kind, kind # "INTEGRITY_CONFLICT", HasEvidence(a, kind, S),
           \A c \in S : ObservationRow[c].obligation = ObligationOf(a)
    PROVE  \E c \in S : Evidences(c, a, kind)
  BY DEF Evidences, HasEvidence, OfKind, Kind, AttemptOf

\* The review states the two helpers of the reducer produce.
LEMMA ReviewHelpers ==
    ASSUME NEW r \in ReviewStatuses
    PROVE  /\ ResolvedReview(r) \in ReviewStatuses \ OpenReviews
           /\ UnresolvedReview(r) \in OpenReviews
           /\ ReviewRank[r] <= ReviewRank[ResolvedReview(r)]
           /\ r # "COMPLETED" => ReviewRank[r] <= ReviewRank[UnresolvedReview(r)]
  BY DEF ResolvedReview, UnresolvedReview, ReviewStatuses, OpenReviews, ReviewRank


\* A kind tells what the provider reported.
LEMMA KindTellsOutcome ==
    ASSUME NEW c \in ObservationIds
    PROVE  /\ MatchedKind[c] = "MATCHED_SUCCESS" => ObservationRow[c].mappedOutcome = "SUCCEEDED"
           /\ MatchedKind[c] = "MATCHED_TERMINAL_FAILURE"
                 => ObservationRow[c].mappedOutcome \in {"FAILED_TERMINAL", "NOT_FOUND_TERMINAL"}
  <1> DEFINE m == ObservationRow[c].mappedOutcome
  <1>1. m \in MappedOutcomes
    BY RowAssumption
  <1>2. MatchedKind[c] \in {"MATCHED_SUCCESS", "MATCHED_TERMINAL_FAILURE"}
           => MatchObservation(c) = "MATCHED" /\ MatchedKind[c] = KindOfOutcome[m]
    BY DEF MatchedKind, KindOfMatch
  <1> QED
    BY <1>1, <1>2 DEF MappedOutcomes, KindOfOutcome

(***************************************************************************)
(* What the plan of reduceEvidence may say, whatever evidence is stored,   *)
(* as long as the attempt is well formed and its outcome is backed.        *)
(***************************************************************************)
PlanIsSound(a, S, att, plan) ==
    /\ plan.outcome \in OutcomeStatuses
    /\ plan.review \in ReviewStatuses
    /\ plan.resolved \in BOOLEAN
    /\ plan.resolved => plan.outcome \in TerminalOutcomes /\ plan.review \notin OpenReviews
    /\ ~plan.resolved /\ att.resolvedAt = Null =>
          plan.outcome \notin TerminalOutcomes /\ plan.review # "COMPLETED"
    /\ plan.resolved \/ att.resolvedAt = Null =>
          /\ OutcomeRank[att.outcome] <= OutcomeRank[plan.outcome]
          /\ ReviewRank[att.review] <= ReviewRank[plan.review]
    /\ Backed(plan.outcome, a, S)

LEMMA PlanSound ==
    ASSUME NEW a, NEW S, S \subseteq ObservationIds,
           \A c \in S : ObservationRow[c].obligation = ObligationOf(a),
           NEW t, NEW isNew, NEW status, NEW att, WellFormed(att), Backed(att.outcome, a, S)
    PROVE  PlanIsSound(a, S, att, ReduceEvidence(a, S, t, isNew, status, att))
  <1> DEFINE plan == ReduceEvidence(a, S, t, isNew, status, att)
             v    == Verdict(a, S)
  <1>a. /\ att.outcome \in OutcomeStatuses
        /\ att.review \in ReviewStatuses
        /\ att.outcome \in TerminalOutcomes <=> att.resolvedAt # Null
        /\ att.review = "COMPLETED" => att.resolvedAt # Null
        /\ att.resolvedAt # Null => att.review \notin OpenReviews
    BY DEF WellFormed, AttemptRecord
  <1>b. /\ ResolvedReview(att.review) \in ReviewStatuses \ OpenReviews
        /\ UnresolvedReview(att.review) \in OpenReviews
        /\ ReviewRank[att.review] <= ReviewRank[ResolvedReview(att.review)]
        /\ att.review # "COMPLETED" => ReviewRank[att.review] <= ReviewRank[UnresolvedReview(att.review)]
    BY <1>a, ReviewHelpers
  <1>c. \A x \in OutcomeStatuses : OutcomeRank[x] \in 0..4 /\ OutcomeRank[x] <= 4
    BY DEF OutcomeStatuses, OutcomeRank
  <1>1. CASE v = "SUCCESS"
    <2>1. plan = SuccessPlan(a, S, t, isNew, status, att)
      BY <1>1 DEF ReduceEvidence
    <2>2. /\ plan.outcome = "SUCCEEDED"
          /\ plan.resolved = TRUE
          /\ plan.review = ResolvedReview(att.review)
      BY <2>1 DEF SuccessPlan
    <2>3. \E c \in S : Evidences(c, a, "MATCHED_SUCCESS")
      BY <1>1, VerdictMeaning, SeenIsEvidence
    <2>4. Backed(plan.outcome, a, S)
      BY <2>2, <2>3 DEF Backed
    <2>5. OutcomeRank[att.outcome] <= OutcomeRank[plan.outcome]
      BY <1>a, <2>2, <1>c DEF OutcomeRank, OutcomeStatuses
    <2> QED
      BY <1>b, <2>2, <2>4, <2>5 DEF PlanIsSound, OutcomeStatuses, TerminalOutcomes
  <1>2. CASE v = "INTEGRITY_CONFLICT"
    <2>1. plan = IntegrityConflictPlan(att)
      BY <1>2 DEF ReduceEvidence
    <2>2. /\ plan.outcome = att.outcome
          /\ plan.resolved = (att.resolvedAt # Null)
          /\ att.resolvedAt = Null => plan.review = UnresolvedReview(att.review)
          /\ att.resolvedAt # Null => plan.review = ResolvedReview(att.review)
      BY <2>1 DEF IntegrityConflictPlan
    <2>3. OutcomeRank[att.outcome] <= OutcomeRank[plan.outcome]
      BY <1>a, <2>2, <1>c
    <2> QED
      BY <1>a, <1>b, <2>2, <2>3 DEF PlanIsSound, OpenReviews, ReviewStatuses
  <1>3. CASE v = "MAPPING_GAP"
    <2>1. plan = MappingGapPlan(att)
      BY <1>3 DEF ReduceEvidence
    <2>2. /\ plan.outcome = "UNKNOWN"
          /\ plan.resolved = FALSE
          /\ plan.review = UnresolvedReview(att.review)
      BY <2>1 DEF MappingGapPlan
    <2>3. att.resolvedAt = Null => OutcomeRank[att.outcome] <= OutcomeRank[plan.outcome]
      BY <1>a, <2>2 DEF OutcomeRank, OutcomeStatuses, TerminalOutcomes
    <2> QED
      BY <1>a, <1>b, <2>2, <2>3
      DEF PlanIsSound, Backed, OutcomeStatuses, TerminalOutcomes, OpenReviews, ReviewStatuses
  <1>4. CASE v = "TERMINAL_FAILURE"
    <2> DEFINE failed == \E c \in S : /\ Kind(c, S) = "MATCHED_TERMINAL_FAILURE"
                                      /\ AttemptOf(c) = a
                                      /\ ObservationRow[c].mappedOutcome = "FAILED_TERMINAL"
    <2>1. plan = TerminalFailurePlan(a, S, t, isNew, att)
      BY <1>4 DEF ReduceEvidence
    <2>2. /\ plan.outcome = IF failed THEN "FAILED_TERMINAL" ELSE "NOT_FOUND_TERMINAL"
          /\ plan.resolved = TRUE
          /\ plan.review = ResolvedReview(att.review)
      BY <2>1 DEF TerminalFailurePlan, OfKind, AttemptOf
    <2>3. PICK c \in S : Kind(c, S) = "MATCHED_TERMINAL_FAILURE" /\ AttemptOf(c) = a
      BY <1>4, VerdictMeaning DEF HasEvidence, OfKind, AttemptOf
    <2>4. Backed(plan.outcome, a, S)
      <3>1. \A d \in S : Kind(d, S) = "MATCHED_TERMINAL_FAILURE" /\ AttemptOf(d) = a
                           => Evidences(d, a, "MATCHED_TERMINAL_FAILURE")
        BY DEF Kind, Evidences
      <3>2. ~failed => ObservationRow[c].mappedOutcome = "NOT_FOUND_TERMINAL"
        BY <2>3, KindTellsOutcome DEF Kind
      <3> QED
        BY <2>2, <2>3, <3>1, <3>2 DEF Backed
    <2>5. ~HasEvidence(a, "MATCHED_SUCCESS", S) /\ ~HasEvidence(a, "INTEGRITY_CONFLICT", S)
      BY <1>4, VerdictMeaning
    <2>6. att.outcome # "SUCCEEDED"
      BY <2>5, EvidenceIsSeen DEF Backed
    <2>7. att.outcome = "FAILED_TERMINAL" => failed
      BY <2>5 DEF Backed, Evidences, HasEvidence, OfKind, Kind, AttemptOf
    <2>8. OutcomeRank[att.outcome] <= OutcomeRank[plan.outcome]
      BY <1>a, <2>2, <2>6, <2>7 DEF OutcomeRank, OutcomeStatuses
    <2> QED
      BY <1>b, <2>2, <2>4, <2>8 DEF PlanIsSound, OutcomeStatuses, TerminalOutcomes
  <1>5. CASE v = "UNRESOLVED"
    <2>1. plan = UnresolvedPlan(a, S, att)
      BY <1>5 DEF ReduceEvidence
    <2>2. /\ \/ plan.outcome = att.outcome
             \/ plan.outcome = "UNKNOWN" /\ att.resolvedAt = Null
          /\ plan.resolved = (att.resolvedAt # Null)
          /\ plan.review = att.review
      BY <2>1 DEF UnresolvedPlan
    <2>3. OutcomeRank[att.outcome] <= OutcomeRank[plan.outcome]
      BY <1>a, <2>2, <1>c DEF OutcomeRank, OutcomeStatuses, TerminalOutcomes
    <2>4. ReviewRank[att.review] <= ReviewRank[plan.review]
      BY <1>a, <2>2 DEF ReviewRank, ReviewStatuses
    <2> QED
      BY <1>a, <2>2, <2>3, <2>4
      DEF PlanIsSound, Backed, OutcomeStatuses, TerminalOutcomes
  <1> QED
    BY <1>1, <1>2, <1>3, <1>4, <1>5, VerdictMeaning

\* What the plan says about the obligation and the outbox.
LEMMA PlanSatisfies ==
    ASSUME NEW a, NEW S, NEW t, NEW isNew \in BOOLEAN, NEW status, NEW att
    PROVE  LET plan == ReduceEvidence(a, S, t, isNew, status, att)
           IN  /\ plan.satisfy <=> Verdict(a, S) = "SUCCESS" /\ status = "OPEN"
               /\ Verdict(a, S) = "SUCCESS" => plan.outcome = "SUCCEEDED" /\ plan.resolved
               /\ /\ Verdict(a, S) = "SUCCESS"
                  /\ isNew
                  /\ AttemptOf(t) = a
                  /\ Kind(t, S) = "MATCHED_SUCCESS"
                  => "PAYMENT_SUCCEEDED" \in plan.facts
  <1> DEFINE plan == ReduceEvidence(a, S, t, isNew, status, att)
  <1>1. CASE Verdict(a, S) = "SUCCESS"
    <2>1. plan = SuccessPlan(a, S, t, isNew, status, att)
      BY <1>1 DEF ReduceEvidence
    <2>2. /\ plan.outcome = "SUCCEEDED"
          /\ plan.resolved = TRUE
          /\ plan.satisfy = (status = "OPEN")
      BY <2>1 DEF SuccessPlan
    <2>3. isNew /\ AttemptOf(t) = a /\ Kind(t, S) = "MATCHED_SUCCESS"
             => "PAYMENT_SUCCEEDED" \in plan.facts
      BY <2>1 DEF SuccessPlan, AttemptOf
    <2> QED
      BY <1>1, <2>2, <2>3
  <1>2. CASE Verdict(a, S) # "SUCCESS"
    <2>1. plan \in {IntegrityConflictPlan(att), MappingGapPlan(att),
                    TerminalFailurePlan(a, S, t, isNew, att), UnresolvedPlan(a, S, att)}
      BY <1>2, VerdictMeaning DEF ReduceEvidence
    <2>2. plan.satisfy = FALSE
      BY <2>1 DEF IntegrityConflictPlan, MappingGapPlan, TerminalFailurePlan, UnresolvedPlan
    <2> QED
      BY <1>2, <2>2
  <1> QED
    BY <1>1, <1>2

\* More stored evidence can only put an observation in conflict.
LEMMA KindIsStable ==
    ASSUME NEW S, NEW T, S \subseteq T, NEW c, Kind(c, T) # "INTEGRITY_CONFLICT"
    PROVE  Kind(c, S) = Kind(c, T)
  BY DEF Kind, IntegrityConflict

\* The reducer, which is given the evidence of one obligation, sees the same kinds as one
\* that is given the whole table.
LEMMA KindIsLocal ==
    ASSUME NEW stored, stored \subseteq ObservationIds, NEW o, NEW c \in EvidenceFor(o, stored),
           \A d \in stored : ObservationRow[d].obligation = ObligationOf(AttemptOf(d))
    PROVE  Kind(c, EvidenceFor(o, stored)) = Kind(c, stored)
  <1>1. \A d \in OtherBodies[c] \cap stored : d \in EvidenceFor(o, stored)
    <2> SUFFICES ASSUME NEW d \in OtherBodies[c] \cap stored
                 PROVE  ObservationRow[d].obligation = o
      BY DEF EvidenceFor
    <2>1. AttemptOf(d) = AttemptOf(c)
      <3>1. c \in ObservationIds => SameProviderEvent(c, d)
        BY DEF OtherBodies
      <3> QED
        BY <3>1 DEF SameProviderEvent, AttemptOf, EvidenceFor
    <2> QED
      BY <2>1 DEF EvidenceFor
  <1> QED
    BY <1>1 DEF Kind, IntegrityConflict, EvidenceFor

-----------------------------------------------------------------------------
(***************************************************************************)
(* Steps.                                                                  *)
(***************************************************************************)

AttemptTypes ==
    /\ outcome \in [AttemptIds -> OutcomeStatuses]
    /\ review \in [AttemptIds -> ReviewStatuses]
    /\ resolvedAt \in [AttemptIds -> ObservationIds \cup {Null}]

\* Writing a well-formed row that ranks no lower over an attempt's row.
LEMMA AttemptRowWritten ==
    ASSUME IInv, NEW a \in AttemptIds, NEW out, NEW rev, NEW res,
           WellFormed([outcome |-> out, review |-> rev, resolvedAt |-> res]),
           OutcomeRank[outcome[a]] <= OutcomeRank[out],
           ReviewRank[review[a]] <= ReviewRank[rev],
           resolvedAt[a] # Null => res = resolvedAt[a],
           outcome' = [outcome EXCEPT ![a] = out],
           review' = [review EXCEPT ![a] = rev],
           resolvedAt' = [resolvedAt EXCEPT ![a] = res],
           created' = created
    PROVE  /\ AttemptTypes'
           /\ AttemptsWellFormed'
           /\ OneUnresolvedAttempt'
           /\ AttemptMovesForward
  <1> USE DEF IInv, TypeOK
  <1>1. out \in OutcomeStatuses /\ rev \in ReviewStatuses /\ res \in ObservationIds \cup {Null}
    BY DEF WellFormed, AttemptRecord
  <1>2. AttemptTypes'
    BY <1>1 DEF AttemptTypes
  <1>3. AttemptsWellFormed'
    <2> SUFFICES ASSUME NEW b \in AttemptIds PROVE WellFormed(Snapshot(b)')
      BY DEF AttemptsWellFormed
    <2>1. CASE b = a
      BY <2>1, Snapshot(b)' = [outcome |-> out, review |-> rev, resolvedAt |-> res] DEF Snapshot
    <2>2. CASE b # a
      BY <2>2, Snapshot(b)' = Snapshot(b) DEF Snapshot, AttemptsWellFormed
    <2> QED
      BY <2>1, <2>2
  <1>4. OneUnresolvedAttempt'
    BY DEF OneUnresolvedAttempt, Unresolved
  <1>5. AttemptMovesForward
    <2> SUFFICES ASSUME NEW b \in AttemptIds
                 PROVE  /\ OutcomeRank[outcome[b]] <= OutcomeRank[outcome'[b]]
                        /\ ReviewRank[review[b]] <= ReviewRank[review'[b]]
                        /\ resolvedAt[b] # Null => resolvedAt'[b] = resolvedAt[b]
      BY DEF AttemptMovesForward
    <2>1. CASE b = a
      BY <2>1
    <2>2. CASE b # a
      <3>1. outcome[b] \in OutcomeStatuses /\ review[b] \in ReviewStatuses
        OBVIOUS
      <3>2. outcome'[b] = outcome[b] /\ review'[b] = review[b] /\ resolvedAt'[b] = resolvedAt[b]
        BY <2>2
      <3> QED
        BY <3>1, <3>2 DEF OutcomeRank, ReviewRank, OutcomeStatuses, ReviewStatuses
    <2> QED
      BY <2>1, <2>2
  <1> QED
    BY <1>2, <1>3, <1>4, <1>5

\* An attempt's row left alone.
LEMMA AttemptRowKept ==
    ASSUME IInv, UNCHANGED attemptVars
    PROVE  AttemptTypes' /\ AttemptsWellFormed' /\ AttemptMovesForward
  <1> USE DEF IInv, TypeOK, attemptVars
  <1>1. AttemptTypes'
    BY DEF AttemptTypes
  <1>2. AttemptsWellFormed'
    BY DEF AttemptsWellFormed, Snapshot
  <1>3. AttemptMovesForward
    BY DEF AttemptMovesForward, OutcomeRank, ReviewRank, OutcomeStatuses, ReviewStatuses
  <1> QED
    BY <1>1, <1>2, <1>3

\* A step that stores no evidence, announces nothing and satisfies no obligation, and
\* moves no attempt into or out of a terminal outcome.
LEMMA QuietStep ==
    ASSUME IInv, AttemptTypes', AttemptsWellFormed', OneUnresolvedAttempt',
           observations' = observations, facts' = facts, satisfiedAt' = satisfiedAt,
           created \subseteq created', created' \subseteq AttemptIds,
           obligationStatus' \in [ObligationIds -> ObligationStatuses],
           \A o \in ObligationIds :
              \/ obligationStatus'[o] = obligationStatus[o]
              \/ obligationStatus[o] = "OPEN" /\ obligationStatus'[o] \in {"EXPIRED", "CANCELLED"},
           \A b \in AttemptIds :
              \/ outcome'[b] = outcome[b]
              \/ outcome[b] \notin TerminalOutcomes /\ outcome'[b] \notin TerminalOutcomes
    PROVE  IInv'
  <1> USE DEF IInv, TypeOK
  <1>1. TypeOK'
    BY DEF AttemptTypes
  <1>2. OutcomesBacked'
    BY DEF OutcomesBacked, Backed, TerminalOutcomes
  <1>3. EvidenceFiled'
    BY DEF EvidenceFiled
  <1>4. SuccessesActedOn'
    <2> SUFFICES ASSUME NEW c \in observations, Kind(c, observations) = "MATCHED_SUCCESS"
                 PROVE  /\ outcome'[AttemptOf(c)] = "SUCCEEDED"
                        /\ obligationStatus'[ObligationOf(AttemptOf(c))] # "OPEN"
      BY DEF SuccessesActedOn
    <2>1. AttemptOf(c) \in AttemptIds /\ ObligationOf(AttemptOf(c)) \in ObligationIds
      BY RowAssumption DEF AttemptOf, ObligationOf
    <2> QED
      BY <2>1 DEF SuccessesActedOn, TerminalOutcomes
  <1>5. SatisfactionIsAnnounced'
    <2> SUFFICES ASSUME NEW o \in ObligationIds
                 PROVE  /\ obligationStatus'[o] = "SATISFIED" <=> satisfiedAt[o] # Null
                        /\ obligationStatus'[o] = "SATISFIED" =>
                              /\ satisfiedAt[o] \in observations
                              /\ MatchedKind[satisfiedAt[o]] = "MATCHED_SUCCESS"
                              /\ ObligationOf(AttemptOf(satisfiedAt[o])) = o
                              /\ outcome'[AttemptOf(satisfiedAt[o])] = "SUCCEEDED"
                              /\ PaymentFact("PAYMENT_SUCCEEDED", satisfiedAt[o]) \in facts
      BY DEF SatisfactionIsAnnounced
    <2>1. satisfiedAt[o] \in observations => AttemptOf(satisfiedAt[o]) \in AttemptIds
      BY RowAssumption DEF AttemptOf
    <2> QED
      BY <2>1 DEF SatisfactionIsAnnounced, TerminalOutcomes
  <1> QED
    BY <1>1, <1>2, <1>3, <1>4, <1>5

\* Escalations and denials park an unresolved attempt for review.
LEMMA ParkingStep ==
    ASSUME IInv, NEW a \in AttemptIds, Unresolved(a),
           NEW out \in {"PENDING", "UNKNOWN"}, OutcomeRank[outcome[a]] <= OutcomeRank[out],
           ParkForReview(a, out),
           UNCHANGED <<obligationVars, created, resolvedAt, observations, outboxVars>>
    PROVE  IInv' /\ AttemptMovesForward
  <1> USE DEF IInv, TypeOK
  <1> DEFINE rev == UnresolvedReview(review[a])
  <1>1. WellFormed(Snapshot(a)) /\ resolvedAt[a] = Null
    BY DEF AttemptsWellFormed, Unresolved
  <1>2. /\ outcome[a] \notin TerminalOutcomes
        /\ review[a] \in ReviewStatuses
        /\ review[a] # "COMPLETED"
    BY <1>1 DEF WellFormed, Snapshot
  <1>3. rev \in OpenReviews /\ ReviewRank[review[a]] <= ReviewRank[rev]
    BY <1>2, ReviewHelpers
  <1>4. WellFormed([outcome |-> out, review |-> rev, resolvedAt |-> Null])
    BY <1>3 DEF WellFormed, AttemptRecord, OutcomeStatuses, TerminalOutcomes, OpenReviews,
                ReviewStatuses
  <1>5. /\ outcome' = [outcome EXCEPT ![a] = out]
        /\ review' = [review EXCEPT ![a] = rev]
        /\ resolvedAt' = [resolvedAt EXCEPT ![a] = Null]
        /\ created' = created
    BY <1>1 DEF ParkForReview
  <1>6. /\ AttemptTypes'
        /\ AttemptsWellFormed'
        /\ OneUnresolvedAttempt'
        /\ AttemptMovesForward
    <2> HIDE DEF IInv, TypeOK
    <2> QED
      BY <1>1, <1>3, <1>4, <1>5, AttemptRowWritten
  <1>7. \A b \in AttemptIds :
           \/ outcome'[b] = outcome[b]
           \/ outcome[b] \notin TerminalOutcomes /\ outcome'[b] \notin TerminalOutcomes
    BY <1>2, <1>5 DEF TerminalOutcomes
  <1> QED
    BY <1>6, <1>7, QuietStep DEF obligationVars, outboxVars

LEMMA SlaEscalationStep ==
    ASSUME IInv, NEW a \in AttemptIds, SlaEscalation(a)
    PROVE  IInv' /\ AttemptMovesForward
  <1> DEFINE out == IF outcome[a] = "PENDING" THEN "UNKNOWN" ELSE outcome[a]
  <1>1. outcome[a] \in {"PENDING", "UNKNOWN"}
    BY DEF SlaEscalation, Unresolved, IInv, TypeOK, AttemptsWellFormed, WellFormed, Snapshot,
           OutcomeStatuses, TerminalOutcomes
  <1>2. out \in {"PENDING", "UNKNOWN"} /\ OutcomeRank[outcome[a]] <= OutcomeRank[out]
    BY <1>1 DEF OutcomeRank
  <1> QED
    BY <1>2, ParkingStep DEF SlaEscalation

LEMMA CredentialUseDenialStep ==
    ASSUME IInv, NEW a \in AttemptIds, CredentialUseDenial(a)
    PROVE  IInv' /\ AttemptMovesForward
  <1>1. outcome[a] \in {"PENDING", "UNKNOWN"}
    BY DEF CredentialUseDenial, Unresolved, IInv, TypeOK, AttemptsWellFormed, WellFormed, Snapshot,
           OutcomeStatuses, TerminalOutcomes
  <1>2. OutcomeRank[outcome[a]] <= OutcomeRank["UNKNOWN"]
    BY <1>1 DEF OutcomeRank
  <1> QED
    BY <1>2, ParkingStep DEF CredentialUseDenial

LEMMA CreateAttemptStep ==
    ASSUME IInv, NEW a \in AttemptIds, CreateAttempt(a)
    PROVE  IInv' /\ AttemptMovesForward
  <1> USE DEF CreateAttempt, obligationVars, outboxVars
  <1>1. AttemptTypes' /\ AttemptsWellFormed' /\ AttemptMovesForward
    BY AttemptRowKept
  <1>2. OneUnresolvedAttempt'
    BY DEF OneUnresolvedAttempt, Unresolved, AttemptsOf, attemptVars, IInv
  <1>3. created \subseteq created' /\ created' \subseteq AttemptIds
    BY DEF IInv, TypeOK
  <1> QED
    BY <1>1, <1>2, <1>3, QuietStep DEF IInv, TypeOK, attemptVars

LEMMA ClaimReviewStep ==
    ASSUME IInv, NEW a \in AttemptIds, ClaimReview(a)
    PROVE  IInv' /\ AttemptMovesForward
  <1> USE DEF ClaimReview, obligationVars, outboxVars
  <1>1. outcome[a] \in {"PENDING", "UNKNOWN"} /\ resolvedAt[a] = Null /\ review[a] = "REQUIRED"
    BY DEF Unresolved, IInv, TypeOK, AttemptsWellFormed, WellFormed, Snapshot,
           OutcomeStatuses, TerminalOutcomes
  <1>2. WellFormed([outcome |-> outcome[a], review |-> "IN_PROGRESS", resolvedAt |-> Null])
    BY <1>1 DEF WellFormed, AttemptRecord, OutcomeStatuses, TerminalOutcomes, OpenReviews,
                ReviewStatuses
  <1>3. /\ outcome' = [outcome EXCEPT ![a] = outcome[a]]
        /\ resolvedAt' = [resolvedAt EXCEPT ![a] = Null]
    BY <1>1 DEF IInv, TypeOK
  <1>4. /\ OutcomeRank[outcome[a]] <= OutcomeRank[outcome[a]]
        /\ ReviewRank[review[a]] <= ReviewRank["IN_PROGRESS"]
    BY <1>1 DEF OutcomeRank, ReviewRank
  <1>5. /\ AttemptTypes'
        /\ AttemptsWellFormed'
        /\ OneUnresolvedAttempt'
        /\ AttemptMovesForward
    BY <1>1, <1>2, <1>3, <1>4, AttemptRowWritten
  <1> QED
    BY <1>5, QuietStep DEF IInv, TypeOK

LEMMA ReviewNoteStep ==
    ASSUME IInv, NEW a \in AttemptIds, NEW reason, ReviewNote(a, reason)
    PROVE  IInv' /\ AttemptMovesForward
  <1> USE DEF ReviewNote, obligationVars, outboxVars
  <1>1. AttemptTypes' /\ AttemptsWellFormed' /\ AttemptMovesForward
    BY AttemptRowKept
  <1>2. OneUnresolvedAttempt'
    BY DEF OneUnresolvedAttempt, Unresolved, attemptVars, IInv
  <1> QED
    BY <1>1, <1>2, QuietStep DEF IInv, TypeOK, attemptVars

LEMMA CloseObligationStep ==
    ASSUME IInv, NEW o \in ObligationIds, NEW closed \in {"EXPIRED", "CANCELLED"},
           CloseObligation(o, closed)
    PROVE  IInv' /\ AttemptMovesForward
  <1> USE DEF CloseObligation, outboxVars
  <1>1. AttemptTypes' /\ AttemptsWellFormed' /\ AttemptMovesForward
    BY AttemptRowKept
  <1>2. OneUnresolvedAttempt'
    BY DEF OneUnresolvedAttempt, Unresolved, attemptVars, IInv
  <1>3. /\ obligationStatus' \in [ObligationIds -> ObligationStatuses]
        /\ \A p \in ObligationIds :
              \/ obligationStatus'[p] = obligationStatus[p]
              \/ obligationStatus[p] = "OPEN" /\ obligationStatus'[p] \in {"EXPIRED", "CANCELLED"}
    BY DEF IInv, TypeOK, ObligationStatuses
  <1> QED
    BY <1>1, <1>2, <1>3, QuietStep DEF IInv, TypeOK, attemptVars

\* The reducer's turn: the only step that stores evidence, resolves attempts and
\* satisfies obligations.
LEMMA IngestObservationStep ==
    ASSUME IInv, NEW t \in ObservationIds, IngestObservation(t)
    PROVE  IInv' /\ AttemptMovesForward
  <1> DEFINE a      == AttemptOf(t)
             o      == ObservationRow[t].obligation
             isNew  == t \notin observations
             stored == observations \cup {t}
             S      == EvidenceFor(o, stored)
             att    == Snapshot(a)
             plan   == ReduceEvidence(a, S, t, isNew, obligationStatus[o], att)
             keep   == resolvedAt[a] # Null /\ ~plan.resolved
             out    == IF keep THEN outcome[a] ELSE plan.outcome
             rev    == IF keep THEN review[a] ELSE plan.review
             res    == IF plan.resolved /\ resolvedAt[a] = Null THEN t ELSE resolvedAt[a]
  <1>1. /\ a \in created
        /\ ObligationOf(a) = o
        /\ observations' = stored
        /\ PersistReduction(a, o, t, plan)
        /\ created' = created
    BY DEF IngestObservation, AttemptOf
  <1>2. /\ a \in AttemptIds
        /\ o \in ObligationIds
        /\ stored \subseteq ObservationIds
        /\ S \subseteq ObservationIds
        /\ t # Null
    BY <1>1, RowAssumption, NullAssumption DEF IInv, TypeOK, ObligationOf, EvidenceFor
  <1>3. \A c \in stored : /\ AttemptOf(c) \in created
                          /\ ObservationRow[c].obligation = ObligationOf(AttemptOf(c))
    BY <1>1 DEF IInv, EvidenceFiled
  <1>4. \A c \in S : Kind(c, S) = Kind(c, stored)
    BY <1>2, <1>3, KindIsLocal
  <1>5. WellFormed(att) /\ Backed(att.outcome, a, S)
    <2>1. WellFormed(att) /\ Backed(outcome[a], a, observations) /\ att.outcome = outcome[a]
      BY <1>2 DEF IInv, AttemptsWellFormed, OutcomesBacked, Snapshot
    <2> QED
      BY <1>1, <2>1 DEF Backed, Evidences, EvidenceFor
  <1>6. PlanIsSound(a, S, att, plan)
    <2>1. \A c \in S : ObservationRow[c].obligation = ObligationOf(a)
      BY <1>1 DEF EvidenceFor
    <2> HIDE DEF a, S, att, isNew
    <2> QED
      BY <1>2, <1>5, <2>1, PlanSound
  <1>7. /\ plan.satisfy <=> Verdict(a, S) = "SUCCESS" /\ obligationStatus[o] = "OPEN"
        /\ Verdict(a, S) = "SUCCESS" => plan.outcome = "SUCCEEDED" /\ plan.resolved
        /\ Verdict(a, S) = "SUCCESS" /\ isNew /\ Kind(t, S) = "MATCHED_SUCCESS"
              => "PAYMENT_SUCCEEDED" \in plan.facts
    <2>1. isNew \in BOOLEAN
      OBVIOUS
    <2> HIDE DEF S, att, isNew
    <2> QED
      BY <2>1, PlanSatisfies
  <1>8. /\ WriteAttempt(a, t, plan)
        /\ SatisfyObligation(o, t, plan)
        /\ Emit(t, plan)
    BY <1>1 DEF PersistReduction
  <1> HIDE DEF S, plan
  <1>9. /\ AttemptTypes'
        /\ AttemptsWellFormed'
        /\ OneUnresolvedAttempt'
        /\ AttemptMovesForward
    <2>1. /\ outcome' = [outcome EXCEPT ![a] = out]
          /\ review' = [review EXCEPT ![a] = rev]
          /\ resolvedAt' = [resolvedAt EXCEPT ![a] = res]
      BY <1>8, <1>2 DEF WriteAttempt, IInv, TypeOK
    <2>2. /\ outcome[a] \in OutcomeStatuses /\ review[a] \in ReviewStatuses
          /\ resolvedAt[a] \in ObservationIds \cup {Null}
          /\ outcome[a] \in TerminalOutcomes <=> resolvedAt[a] # Null
          /\ review[a] = "COMPLETED" => resolvedAt[a] # Null
          /\ resolvedAt[a] # Null => review[a] \notin OpenReviews
          /\ att.outcome = outcome[a] /\ att.review = review[a] /\ att.resolvedAt = resolvedAt[a]
      BY <1>2, <1>5 DEF WellFormed, AttemptRecord, Snapshot, IInv, TypeOK
    <2>3. WellFormed([outcome |-> out, review |-> rev, resolvedAt |-> res])
      BY <1>2, <1>6, <2>2 DEF WellFormed, AttemptRecord, PlanIsSound
    <2>4. /\ OutcomeRank[outcome[a]] <= OutcomeRank[out]
          /\ ReviewRank[review[a]] <= ReviewRank[rev]
      <3>1. CASE keep
        BY <3>1, <2>2 DEF OutcomeRank, ReviewRank, OutcomeStatuses, ReviewStatuses
      <3>2. CASE ~keep
        BY <3>2, <1>6, <2>2 DEF PlanIsSound
      <3> QED
        BY <3>1, <3>2
    <2>5. resolvedAt[a] # Null => res = resolvedAt[a]
      OBVIOUS
    <2> HIDE DEF out, rev, res, a
    <2> QED
      BY <1>1, <1>2, <2>1, <2>3, <2>4, <2>5, AttemptRowWritten
  <1>10. /\ outcome' = [outcome EXCEPT ![a] = out]
         /\ Verdict(a, S) = "SUCCESS" => out = "SUCCEEDED"
    BY <1>7, <1>8 DEF WriteAttempt
  <1>11. \A b \in AttemptIds : outcome[b] = "SUCCEEDED" => outcome'[b] = "SUCCEEDED"
    <2>1. \A b \in AttemptIds : /\ outcome'[b] \in OutcomeStatuses
                                /\ OutcomeRank[outcome[b]] <= OutcomeRank[outcome'[b]]
      BY <1>9 DEF AttemptTypes, AttemptMovesForward
    <2> QED
      BY <2>1 DEF OutcomeRank, OutcomeStatuses
  <1>12. OutcomesBacked'
    <2> SUFFICES ASSUME NEW b \in AttemptIds PROVE Backed(outcome'[b], b, stored)
      BY <1>1 DEF OutcomesBacked
    <2>1. Backed(outcome[b], b, observations)
      BY DEF IInv, OutcomesBacked
    <2>2. CASE outcome'[b] = outcome[b]
      BY <2>1, <2>2 DEF Backed
    <2>3. CASE outcome'[b] # outcome[b]
      <3>1. b = a /\ outcome'[b] = plan.outcome
        BY <1>2, <1>10, <2>3 DEF IInv, TypeOK
      <3>2. Backed(plan.outcome, a, S)
        BY <1>6 DEF PlanIsSound
      <3> QED
        BY <3>1, <3>2 DEF Backed, S, EvidenceFor
    <2> QED
      BY <2>2, <2>3
  <1>13. EvidenceFiled'
    BY <1>1, <1>3 DEF EvidenceFiled
  <1>14. /\ obligationStatus' \in [ObligationIds -> ObligationStatuses]
         /\ satisfiedAt' \in [ObligationIds -> ObservationIds \cup {Null}]
         /\ \A p \in ObligationIds :
               \/ obligationStatus'[p] = obligationStatus[p] /\ satisfiedAt'[p] = satisfiedAt[p]
               \/ /\ p = o /\ plan.satisfy /\ obligationStatus[p] = "OPEN"
                  /\ obligationStatus'[p] = "SATISFIED" /\ satisfiedAt'[p] = t
         /\ plan.satisfy => obligationStatus'[o] # "OPEN"
    <2>1. obligationStatus[o] = "OPEN" => satisfiedAt[o] = Null
      BY <1>2 DEF IInv, SatisfactionIsAnnounced
    <2> QED
      BY <1>2, <1>8, <2>1 DEF SatisfyObligation, obligationVars, IInv, TypeOK, ObligationStatuses
  <1>15. TypeOK'
    BY <1>1, <1>2, <1>9, <1>14 DEF TypeOK, IInv, AttemptTypes
  <1>16. t \in S
    BY DEF S, EvidenceFor
  <1>17. SuccessesActedOn'
    <2> SUFFICES ASSUME NEW c \in stored, Kind(c, stored) = "MATCHED_SUCCESS"
                 PROVE  /\ outcome'[AttemptOf(c)] = "SUCCEEDED"
                        /\ obligationStatus'[ObligationOf(AttemptOf(c))] # "OPEN"
      BY <1>1 DEF SuccessesActedOn
    <2>1. AttemptOf(c) \in AttemptIds /\ ObligationOf(AttemptOf(c)) \in ObligationIds
      BY <1>2, RowAssumption DEF AttemptOf, ObligationOf
    <2>2. CASE c \in observations
      <3>1. Kind(c, observations) = "MATCHED_SUCCESS"
        BY KindIsStable
      <3>2. /\ outcome[AttemptOf(c)] = "SUCCEEDED"
            /\ obligationStatus[ObligationOf(AttemptOf(c))] # "OPEN"
        BY <2>2, <3>1 DEF IInv, SuccessesActedOn
      <3> QED
        BY <2>1, <3>2, <1>11, <1>14
    <2>3. CASE c = t
      <3>1. Kind(t, S) = "MATCHED_SUCCESS"
        BY <1>4, <1>16, <2>3
      <3>2. Verdict(a, S) = "SUCCESS"
        BY <1>16, <3>1, VerdictMeaning DEF HasEvidence, OfKind, AttemptOf
      <3>3. outcome'[a] = "SUCCEEDED"
        BY <1>2, <1>10, <3>2 DEF IInv, TypeOK
      <3>4. obligationStatus'[o] # "OPEN"
        BY <1>2, <1>7, <1>14, <3>2
      <3> QED
        BY <1>1, <2>3, <3>3, <3>4
    <2> QED
      BY <2>2, <2>3
  <1>18. SatisfactionIsAnnounced'
    <2> DEFINE Announced(p) ==
          /\ obligationStatus'[p] = "SATISFIED" <=> satisfiedAt'[p] # Null
          /\ obligationStatus'[p] = "SATISFIED" =>
                /\ satisfiedAt'[p] \in observations'
                /\ MatchedKind[satisfiedAt'[p]] = "MATCHED_SUCCESS"
                /\ ObligationOf(AttemptOf(satisfiedAt'[p])) = p
                /\ outcome'[AttemptOf(satisfiedAt'[p])] = "SUCCEEDED"
                /\ PaymentFact("PAYMENT_SUCCEEDED", satisfiedAt'[p]) \in facts'
    <2> SUFFICES ASSUME NEW p \in ObligationIds PROVE Announced(p)
      BY DEF SatisfactionIsAnnounced
    <2>1. CASE obligationStatus'[p] = obligationStatus[p] /\ satisfiedAt'[p] = satisfiedAt[p]
      <3>1. satisfiedAt[p] \in observations => AttemptOf(satisfiedAt[p]) \in AttemptIds
        BY <1>2, RowAssumption DEF AttemptOf
      <3>2. facts \subseteq facts' /\ observations \subseteq observations'
        BY <1>1, <1>8 DEF Emit
      <3> QED
        BY <2>1, <3>1, <3>2, <1>11 DEF IInv, SatisfactionIsAnnounced
    <2>2. CASE /\ p = o /\ plan.satisfy /\ obligationStatus[p] = "OPEN"
               /\ obligationStatus'[p] = "SATISFIED" /\ satisfiedAt'[p] = t
      <3>1. Verdict(a, S) = "SUCCESS"
        BY <1>7, <2>2
      <3>2. PICK c \in S : Kind(c, S) = "MATCHED_SUCCESS" /\ AttemptOf(c) = a
        BY <3>1, VerdictMeaning DEF HasEvidence, OfKind, AttemptOf
      <3>3. c \notin observations
        <4> SUFFICES ASSUME c \in observations PROVE FALSE
          OBVIOUS
        <4>1. Kind(c, observations) = "MATCHED_SUCCESS"
          BY <1>4, <3>2, KindIsStable
        <4> QED
          BY <1>1, <2>2, <3>2, <4>1 DEF IInv, SuccessesActedOn
      <3>4. c = t /\ isNew
        BY <3>3 DEF S, EvidenceFor
      <3>5. MatchedKind[t] = "MATCHED_SUCCESS"
        BY <3>2, <3>4 DEF Kind
      <3>6. PaymentFact("PAYMENT_SUCCEEDED", t) \in facts'
        BY <1>7, <1>8, <3>1, <3>2, <3>4 DEF Emit
      <3>7. outcome'[a] = "SUCCEEDED"
        BY <1>2, <1>10, <3>1 DEF IInv, TypeOK
      <3> QED
        BY <1>1, <1>2, <2>2, <3>5, <3>6, <3>7
    <2> QED
      BY <1>14, <2>1, <2>2
  <1> QED
    BY <1>9, <1>12, <1>13, <1>15, <1>17, <1>18 DEF IInv

-----------------------------------------------------------------------------
(***************************************************************************)
(* Theorems.                                                               *)
(***************************************************************************)

LEMMA InitInvariant == ASSUME Init PROVE IInv
  <1> USE DEF Init
  <1>1. TypeOK
    BY DEF TypeOK, ObligationStatuses, OutcomeStatuses, ReviewStatuses
  <1>2. AttemptsWellFormed
    BY DEF AttemptsWellFormed, WellFormed, AttemptRecord, Snapshot, OutcomeStatuses,
           TerminalOutcomes, ReviewStatuses, OpenReviews
  <1>3. OutcomesBacked /\ OneUnresolvedAttempt /\ EvidenceFiled /\ SuccessesActedOn
    BY DEF OutcomesBacked, Backed, OneUnresolvedAttempt, EvidenceFiled, SuccessesActedOn
  <1>4. SatisfactionIsAnnounced
    BY DEF SatisfactionIsAnnounced
  <1> QED
    BY <1>1, <1>2, <1>3, <1>4 DEF IInv

LEMMA NextInvariant ==
    ASSUME IInv, [Next]_vars
    PROVE  IInv' /\ (AttemptMovesForward \/ UNCHANGED vars)
  <1>1. ASSUME NEW a \in AttemptIds, CreateAttempt(a)
        PROVE  IInv' /\ AttemptMovesForward
    BY <1>1, CreateAttemptStep
  <1>2. ASSUME NEW a \in AttemptIds, SlaEscalation(a)
        PROVE  IInv' /\ AttemptMovesForward
    BY <1>2, SlaEscalationStep
  <1>3. ASSUME NEW a \in AttemptIds, CredentialUseDenial(a)
        PROVE  IInv' /\ AttemptMovesForward
    BY <1>3, CredentialUseDenialStep
  <1>4. ASSUME NEW a \in AttemptIds, ClaimReview(a)
        PROVE  IInv' /\ AttemptMovesForward
    BY <1>4, ClaimReviewStep
  <1>5. ASSUME NEW a \in AttemptIds, AttachEvidenceReference(a) \/ RequestReadOnlyQuery(a)
        PROVE  IInv' /\ AttemptMovesForward
    BY <1>5, ReviewNoteStep DEF AttachEvidenceReference, RequestReadOnlyQuery
  <1>6. ASSUME NEW c \in ObservationIds, IngestObservation(c)
        PROVE  IInv' /\ AttemptMovesForward
    BY <1>6, IngestObservationStep
  <1>7. ASSUME NEW o \in ObligationIds, NEW closed \in {"EXPIRED", "CANCELLED"},
               CloseObligation(o, closed)
        PROVE  IInv' /\ AttemptMovesForward
    BY <1>7, CloseObligationStep
  <1>8. CASE UNCHANGED vars
    BY <1>8 DEF vars, obligationVars, attemptVars, outboxVars, logVars, IInv, TypeOK,
                AttemptsWellFormed, Snapshot, OutcomesBacked, OneUnresolvedAttempt, Unresolved,
                EvidenceFiled, SuccessesActedOn, SatisfactionIsAnnounced
  <1> QED
    BY <1>1, <1>2, <1>3, <1>4, <1>5, <1>6, <1>7, <1>8 DEF Next

\* The inductive invariant holds of every behaviour.
THEOREM Invariant == Spec => []IInv
  BY InitInvariant, NextInvariant, PTL DEF Spec

\* Every variable keeps its type.
THEOREM TypeCorrect == Spec => []TypeOK
  <1>1. IInv => TypeOK
    BY DEF IInv
  <1> QED
    BY <1>1, Invariant, PTL

\* createAttempt and the transactions that resolve attempts never leave an obligation with
\* two unresolved attempts.
THEOREM AtMostOneUnresolved == Spec => []OneUnresolvedAttempt
  <1>1. IInv => OneUnresolvedAttempt
    BY DEF IInv
  <1> QED
    BY <1>1, Invariant, PTL

\* No transaction of the module is rejected by the CHECK constraints of the migration.
THEOREM DatabaseAccepts == Spec => []DatabaseChecksHold
  <1>1. IInv => DatabaseChecksHold
    BY DEF IInv, TypeOK, AttemptsWellFormed, WellFormed, Snapshot, DatabaseChecksHold
  <1> QED
    BY <1>1, Invariant, PTL

\* Outcome and review of an attempt only move forward and a resolution is written once,
\* whatever evidence, escalations and denials arrive in whatever order.
THEOREM ForwardOnly == Spec => AttemptsMoveForward
  <1>1. IInv /\ [Next]_vars => [AttemptMovesForward]_vars
    BY NextInvariant
  <1> QED
    BY <1>1, Invariant, PTL DEF Spec, AttemptsMoveForward

\* The stored evidence and the persisted outcomes never disagree.
THEOREM EvidenceAgrees == Spec => []EvidenceAgreesWithOutcome
  <1>1. ASSUME IInv PROVE EvidenceAgreesWithOutcome
    <2>1. \A c \in observations : /\ c \in ObservationIds
                                  /\ MatchedKind[c] = "MATCHED_SUCCESS"
                                        => ObservationRow[c].mappedOutcome = "SUCCEEDED"
      BY <1>1, KindTellsOutcome DEF IInv, TypeOK
    <2>2. \A a \in created : Backed(outcome[a], a, observations)
      BY <1>1 DEF IInv, TypeOK, OutcomesBacked
    <2> QED
      BY <1>1, <2>1, <2>2
      DEF IInv, SuccessesActedOn, EvidenceAgreesWithOutcome, Backed, Evidences, TerminalOutcomes
  <1> QED
    BY <1>1, Invariant, PTL

\* An obligation is satisfied exactly by an announced, matched success of its own attempts.
THEOREM SatisfiedByAnnouncedSuccess == Spec => []SatisfactionIsAnnounced
  <1>1. IInv => SatisfactionIsAnnounced
    BY DEF IInv
  <1> QED
    BY <1>1, Invariant, PTL

-----------------------------------------------------------------------------
(***************************************************************************)
(* Doubt and captures.  What an ingestion writes, in names of their own:   *)
(* the evidence the reducer is given and the plan it returns.              *)
(***************************************************************************)
Stored(t)   == observations \cup {t}
Reduced(t)  == EvidenceFor(ObservationRow[t].obligation, Stored(t))
PlanFor(t)  == ReduceEvidence(AttemptOf(t), Reduced(t), t, t \notin observations,
                              obligationStatus[ObservationRow[t].obligation], Snapshot(AttemptOf(t)))

\* Every refund case was opened for a stored, matched success of its attempt.
RefundsBacked ==
    \A r \in refundCases :
        \E c \in observations : /\ MatchedKind[c] = "MATCHED_SUCCESS"
                                /\ r = [key |-> CaptureKey(c), attempt |-> AttemptOf(c),
                                         reason |-> r.reason]

LEMMA IngestionWrites ==
    ASSUME IInv, NEW t \in ObservationIds, IngestObservation(t)
    PROVE  /\ AttemptOf(t) \in created
           /\ ObligationOf(AttemptOf(t)) = ObservationRow[t].obligation
           /\ ObservationRow[t].obligation \in ObligationIds
           /\ created' = created
           /\ observations' = Stored(t)
           /\ t \in Reduced(t)
           /\ \A c \in Reduced(t) : Kind(c, Reduced(t)) = Kind(c, Stored(t))
           /\ WriteAttempt(AttemptOf(t), t, PlanFor(t))
           /\ SatisfyObligation(ObservationRow[t].obligation, t, PlanFor(t))
           /\ Emit(t, PlanFor(t))
  <1>1. /\ AttemptOf(t) \in created
        /\ ObligationOf(AttemptOf(t)) = ObservationRow[t].obligation
        /\ created' = created
        /\ observations' = Stored(t)
        /\ PersistReduction(AttemptOf(t), ObservationRow[t].obligation, t, PlanFor(t))
    BY DEF IngestObservation, AttemptOf, PlanFor, Reduced, Stored
  <1>2. ObservationRow[t].obligation \in ObligationIds
    BY <1>1, RowAssumption DEF IInv, TypeOK, ObligationOf
  <1>3. t \in Reduced(t)
    BY DEF Reduced, EvidenceFor, Stored
  <1>4. \A c \in Reduced(t) : Kind(c, Reduced(t)) = Kind(c, Stored(t))
    <2>1. /\ Stored(t) \subseteq ObservationIds
          /\ \A c \in Stored(t) : ObservationRow[c].obligation = ObligationOf(AttemptOf(c))
      BY <1>1 DEF IInv, TypeOK, EvidenceFiled, Stored
    <2> QED
      BY <2>1, KindIsLocal DEF Reduced
  <1> QED
    BY <1>1, <1>2, <1>3, <1>4 DEF PersistReduction

\* Evidence of another attempt is what it was before.
LEMMA KindElsewhere ==
    ASSUME NEW S, NEW t, NEW c \in ObservationIds, AttemptOf(c) # AttemptOf(t)
    PROVE  Kind(c, S \cup {t}) = Kind(c, S)
  <1>1. t \notin OtherBodies[c]
    BY DEF OtherBodies, SameProviderEvent, AttemptOf
  <1> QED
    BY <1>1 DEF Kind, IntegrityConflict

-----------------------------------------------------------------------------
(* Doubt *)

\* An attempt that the reducer leaves unresolved in spite of a conflict or an unmapped
\* status goes to a reviewer.
LEMMA DoubtIsReviewed ==
    ASSUME NEW a, NEW S, NEW t, NEW isNew, NEW status, NEW att,
           HasEvidence(a, "INTEGRITY_CONFLICT", S) \/ HasEvidence(a, "MAPPING_GAP", S)
    PROVE  LET plan == ReduceEvidence(a, S, t, isNew, status, att)
           IN  plan.resolved \/ plan.review \in OpenReviews
  <1> DEFINE plan == ReduceEvidence(a, S, t, isNew, status, att)
  <1>1. CASE Verdict(a, S) = "SUCCESS"
    BY <1>1 DEF ReduceEvidence, SuccessPlan
  <1>2. CASE Verdict(a, S) = "INTEGRITY_CONFLICT"
    <2>1. plan = IntegrityConflictPlan(att)
      BY <1>2 DEF ReduceEvidence
    <2>2. /\ plan.resolved = (att.resolvedAt # Null)
          /\ att.resolvedAt = Null => plan.review = UnresolvedReview(att.review)
      BY <2>1 DEF IntegrityConflictPlan
    <2> QED
      BY <2>2 DEF UnresolvedReview, OpenReviews
  <1>3. CASE Verdict(a, S) = "MAPPING_GAP"
    <2>1. plan = MappingGapPlan(att)
      BY <1>3 DEF ReduceEvidence
    <2> QED
      BY <2>1 DEF MappingGapPlan, UnresolvedReview, OpenReviews
  <1>4. Verdict(a, S) \in {"SUCCESS", "INTEGRITY_CONFLICT", "MAPPING_GAP"}
    BY DEF Verdict
  <1> QED
    BY <1>1, <1>2, <1>3, <1>4

\* A step that stores no evidence and takes no unresolved attempt away from its reviewer.
LEMMA DoubtQuietStep ==
    ASSUME IInv, DoubtIsUnderReview, observations' = observations,
           \A b \in created :
              Unresolved(b)' => /\ Unresolved(b)
                                /\ review'[b] = review[b] \/ review'[b] \in OpenReviews
    PROVE  DoubtIsUnderReview'
  <1> SUFFICES ASSUME NEW b \in created', Unresolved(b)', InDoubt(b)'
               PROVE  review'[b] \in OpenReviews
    BY DEF DoubtIsUnderReview
  <1>1. InDoubt(b)
    BY DEF InDoubt
  <1>2. b \in created
    BY <1>1 DEF InDoubt, IInv, EvidenceFiled
  <1> QED
    BY <1>1, <1>2 DEF DoubtIsUnderReview

LEMMA ParkingKeepsDoubt ==
    ASSUME IInv, DoubtIsUnderReview, NEW a, NEW out, ParkForReview(a, out),
           UNCHANGED <<created, resolvedAt, observations>>
    PROVE  DoubtIsUnderReview'
  <1>1. \A b \in created : review'[b] = review[b] \/ review'[b] \in OpenReviews
    BY DEF ParkForReview, UnresolvedReview, OpenReviews, IInv, TypeOK
  <1> QED
    BY <1>1, DoubtQuietStep DEF Unresolved

LEMMA IngestionKeepsDoubt ==
    ASSUME IInv, DoubtIsUnderReview, NEW t \in ObservationIds, IngestObservation(t)
    PROVE  DoubtIsUnderReview'
  <1> DEFINE a == AttemptOf(t)
             S == Reduced(t)
             plan == PlanFor(t)
  <1>1. /\ a \in AttemptIds
        /\ created' = created
        /\ observations' = Stored(t)
        /\ \A c \in S : Kind(c, S) = Kind(c, Stored(t))
        /\ WriteAttempt(a, t, plan)
    BY IngestionWrites DEF IInv, TypeOK
  <1> SUFFICES ASSUME NEW b \in created, Unresolved(b)', InDoubt(b)'
               PROVE  review'[b] \in OpenReviews
    BY <1>1 DEF DoubtIsUnderReview
  <1>2. PICK c \in Stored(t) : /\ AttemptOf(c) = b
                               /\ Kind(c, Stored(t)) \in {"INTEGRITY_CONFLICT", "MAPPING_GAP"}
    BY <1>1 DEF InDoubt
  <1>3. CASE b = a
    <2>1. c \in S
      BY <1>2, <1>3, IngestionWrites DEF Reduced, EvidenceFor, Stored, IInv, EvidenceFiled
    <2>2. HasEvidence(a, "INTEGRITY_CONFLICT", S) \/ HasEvidence(a, "MAPPING_GAP", S)
      BY <1>1, <1>2, <1>3, <2>1 DEF HasEvidence, OfKind, AttemptOf
    <2>3. plan.resolved \/ plan.review \in OpenReviews
      BY <2>2, DoubtIsReviewed DEF PlanFor
    <2>4. resolvedAt[a] = Null /\ ~plan.resolved
      <3> HIDE DEF a, plan
      <3> QED
        BY <1>1, <1>3, NullAssumption DEF WriteAttempt, Unresolved, IInv, TypeOK
    <2>5. review'[a] = plan.review
      <3> HIDE DEF a, plan
      <3> QED
        BY <1>1, <2>4 DEF WriteAttempt, IInv, TypeOK
    <2> QED
      BY <1>3, <2>3, <2>4, <2>5
  <1>4. CASE b # a
    <2>1. c \in observations /\ c \in ObservationIds
      BY <1>2, <1>4 DEF Stored, IInv, TypeOK
    <2>2. InDoubt(b)
      BY <1>2, <1>4, <2>1, KindElsewhere DEF InDoubt, Stored
    <2>3. review'[b] = review[b] /\ resolvedAt'[b] = resolvedAt[b]
      <3> HIDE DEF a, plan
      <3> QED
        BY <1>1, <1>4 DEF WriteAttempt, IInv, TypeOK
    <2> QED
      BY <1>1, <2>2, <2>3 DEF DoubtIsUnderReview, Unresolved
  <1> QED
    BY <1>3, <1>4

LEMMA NextKeepsDoubt ==
    ASSUME IInv, DoubtIsUnderReview, [Next]_vars
    PROVE  DoubtIsUnderReview'
  <1>1. ASSUME NEW a \in AttemptIds, CreateAttempt(a)
        PROVE  DoubtIsUnderReview'
    BY <1>1, DoubtQuietStep DEF CreateAttempt, attemptVars, Unresolved
  <1>2. ASSUME NEW a \in AttemptIds, SlaEscalation(a) \/ CredentialUseDenial(a)
        PROVE  DoubtIsUnderReview'
    BY <1>2, ParkingKeepsDoubt DEF SlaEscalation, CredentialUseDenial
  <1>3. ASSUME NEW a \in AttemptIds, ClaimReview(a)
        PROVE  DoubtIsUnderReview'
    <2>1. \A b \in created : review'[b] = review[b] \/ review'[b] \in OpenReviews
      BY <1>3 DEF ClaimReview, OpenReviews, IInv, TypeOK
    <2> QED
      BY <1>3, <2>1, DoubtQuietStep DEF ClaimReview, Unresolved
  <1>4. ASSUME NEW a \in AttemptIds, AttachEvidenceReference(a) \/ RequestReadOnlyQuery(a)
        PROVE  DoubtIsUnderReview'
    BY <1>4, DoubtQuietStep
    DEF AttachEvidenceReference, RequestReadOnlyQuery, ReviewNote, attemptVars, Unresolved
  <1>5. ASSUME NEW c \in ObservationIds, IngestObservation(c)
        PROVE  DoubtIsUnderReview'
    BY <1>5, IngestionKeepsDoubt
  <1>6. ASSUME NEW o \in ObligationIds, NEW closed \in {"EXPIRED", "CANCELLED"},
               CloseObligation(o, closed)
        PROVE  DoubtIsUnderReview'
    BY <1>6, DoubtQuietStep DEF CloseObligation, attemptVars, Unresolved
  <1>7. CASE UNCHANGED vars
    BY <1>7, DoubtQuietStep DEF vars, attemptVars, Unresolved
  <1> QED
    BY <1>1, <1>2, <1>3, <1>4, <1>5, <1>6, <1>7 DEF Next

\* An unresolved attempt in doubt stays in front of a reviewer, through escalations,
\* denials, claims and further evidence, until it is resolved.
THEOREM DoubtStaysUnderReview == Spec => []DoubtIsUnderReview
  <1>1. Init => DoubtIsUnderReview
    BY DEF Init, DoubtIsUnderReview
  <1>2. IInv /\ DoubtIsUnderReview /\ [Next]_vars => DoubtIsUnderReview'
    BY NextKeepsDoubt
  <1> QED
    BY <1>1, <1>2, Invariant, PTL DEF Spec

-----------------------------------------------------------------------------
(* Captures *)

\* What a plan says about refunds.
LEMMA PlanRefunds ==
    ASSUME NEW a, NEW S, NEW t, NEW isNew \in BOOLEAN, NEW status, NEW att
    PROVE  LET plan      == ReduceEvidence(a, S, t, isNew, status, att)
               triggered == isNew /\ AttemptOf(t) = a /\ Kind(t, S) = "MATCHED_SUCCESS"
           IN  /\ plan.refunds # {} => triggered
               /\ triggered /\ t \in S => plan.refunds = RefundReasons(t, S, status)
  <1> DEFINE plan == ReduceEvidence(a, S, t, isNew, status, att)
             triggered == isNew /\ AttemptOf(t) = a /\ Kind(t, S) = "MATCHED_SUCCESS"
  <1>1. CASE Verdict(a, S) = "SUCCESS"
    <2>1. plan = SuccessPlan(a, S, t, isNew, status, att)
      BY <1>1 DEF ReduceEvidence
    <2>2. plan.refunds = IF triggered THEN RefundReasons(t, S, status) ELSE {}
      BY <2>1 DEF SuccessPlan, AttemptOf
    <2> QED
      BY <2>2
  <1>2. CASE Verdict(a, S) # "SUCCESS"
    <2>1. plan \in {IntegrityConflictPlan(att), MappingGapPlan(att),
                    TerminalFailurePlan(a, S, t, isNew, att), UnresolvedPlan(a, S, att)}
      BY <1>2, VerdictMeaning DEF ReduceEvidence
    <2>2. plan.refunds = {}
      BY <2>1 DEF IntegrityConflictPlan, MappingGapPlan, TerminalFailurePlan, UnresolvedPlan
    <2>3. ~(triggered /\ t \in S)
      BY <1>2, VerdictMeaning DEF HasEvidence, OfKind, AttemptOf
    <2> QED
      BY <2>2, <2>3
  <1> QED
    BY <1>1, <1>2

\* There is at most one reason, and what it depends on.
LEMMA RefundReasonsMeaning ==
    ASSUME NEW t, NEW S, NEW status
    PROVE  LET reasons == RefundReasons(t, S, status)
           IN  /\ status = "OPEN" => reasons = {}
               /\ CaptureAlreadyObserved(t, S) => reasons = {}
               /\ status \in {"EXPIRED", "CANCELLED"} /\ ~CaptureAlreadyObserved(t, S) => reasons # {}
               /\ /\ status = "SATISFIED"
                  /\ ~CaptureAlreadyObserved(t, S)
                  /\ OtherCaptureObserved(t, S)
                  => reasons # {}
  BY DEF RefundReasons

\* The capture key names the obligation.
LEMMA KeyNamesObligation ==
    ASSUME NEW c, NEW d, CaptureKey(c) = CaptureKey(d)
    PROVE  ObservationRow[c].obligation = ObservationRow[d].obligation
  BY DEF CaptureKey

LEMMA CapturesQuietStep ==
    ASSUME RefundsBacked, CapturesAccountedFor, UNCHANGED <<observations, satisfiedAt, refundCases>>
    PROVE  RefundsBacked' /\ CapturesAccountedFor'
  <1>1. RefundsBacked'
    BY DEF RefundsBacked
  <1>2. \A o \in ObligationIds : /\ SuccessInConflict(o)' = SuccessInConflict(o)
                                 /\ Captures(o)' = Captures(o)
                                 /\ SatisfyingCapture(o)' = SatisfyingCapture(o)
                                 /\ RefundedCaptures(o)' = RefundedCaptures(o)
    BY DEF SuccessInConflict, Captures, EvidenceFor, SatisfyingCapture, RefundedCaptures
  <1> QED
    BY <1>1, <1>2 DEF CapturesAccountedFor

\* What an ingestion adds to the refund cases.
LEMMA IngestionRefunds ==
    ASSUME IInv, RefundsBacked, NEW t \in ObservationIds, IngestObservation(t)
    PROVE  LET S == Reduced(t)
               triggered == t \notin observations /\ Kind(t, S) = "MATCHED_SUCCESS"
               reasons == RefundReasons(t, S, obligationStatus[ObservationRow[t].obligation])
               opened == /\ triggered /\ reasons # {}
                         /\ \A r \in refundCases : r.key # CaptureKey(t)
           IN  /\ opened => refundCases' = refundCases \cup {RefundCase(t, why) : why \in reasons}
               /\ ~opened => refundCases' = refundCases
  <1> DEFINE S == Reduced(t)
             triggered == t \notin observations /\ Kind(t, S) = "MATCHED_SUCCESS"
             status == obligationStatus[ObservationRow[t].obligation]
             reasons == RefundReasons(t, S, status)
             plan == PlanFor(t)
  <1>1. /\ plan.refunds # {} => triggered
        /\ triggered => plan.refunds = reasons
    <2> DEFINE isNew == t \notin observations
               a == AttemptOf(t)
               att == Snapshot(a)
    <2>1. isNew \in BOOLEAN /\ t \in S
      BY IngestionWrites
    <2>2. plan = ReduceEvidence(a, S, t, isNew, status, att)
      BY DEF PlanFor
    <2> HIDE DEF isNew, S, att, status
    <2>3. LET p == ReduceEvidence(a, S, t, isNew, status, att)
          IN  /\ p.refunds # {} => isNew /\ Kind(t, S) = "MATCHED_SUCCESS"
              /\ isNew /\ Kind(t, S) = "MATCHED_SUCCESS" => p.refunds = RefundReasons(t, S, status)
      BY <2>1, PlanRefunds
    <2> QED
      BY <2>2, <2>3 DEF isNew
  <1>2. Emit(t, plan)
    BY IngestionWrites
  <1> HIDE DEF S, plan, reasons
  <1>3. refundCases' = refundCases \cup
             (IF plan.refunds # {} /\ \A r \in refundCases : r.key # CaptureKey(t)
              THEN {RefundCase(t, why) : why \in plan.refunds} ELSE {})
    BY <1>2 DEF Emit
  <1> QED
    BY <1>1, <1>3 DEF S, reasons

LEMMA IngestionKeepsRefundsBacked ==
    ASSUME IInv, RefundsBacked, NEW t \in ObservationIds, IngestObservation(t)
    PROVE  RefundsBacked'
  <1>1. observations' = observations \cup {t}
    BY IngestionWrites DEF Stored
  <1> SUFFICES ASSUME NEW r \in refundCases'
               PROVE  \E c \in observations' :
                         /\ MatchedKind[c] = "MATCHED_SUCCESS"
                         /\ r = [key |-> CaptureKey(c), attempt |-> AttemptOf(c), reason |-> r.reason]
    BY DEF RefundsBacked
  <1>2. CASE r \in refundCases
    BY <1>1, <1>2 DEF RefundsBacked
  <1>3. CASE r \notin refundCases
    <2>1. /\ Kind(t, Reduced(t)) = "MATCHED_SUCCESS"
          /\ \E why : r = RefundCase(t, why)
      BY <1>3, IngestionRefunds
    <2> QED
      BY <1>1, <2>1 DEF Kind, RefundCase
  <1> QED
    BY <1>2, <1>3

\* An ingestion satisfies an open obligation exactly when it stores a success.
LEMMA IngestionSatisfies ==
    ASSUME IInv, NEW t \in ObservationIds, IngestObservation(t)
    PROVE  LET o == ObservationRow[t].obligation
           IN  satisfiedAt' = IF /\ obligationStatus[o] = "OPEN"
                                 /\ t \notin observations
                                 /\ Kind(t, Reduced(t)) = "MATCHED_SUCCESS"
                              THEN [satisfiedAt EXCEPT ![o] = t] ELSE satisfiedAt
  <1> DEFINE a == AttemptOf(t)
             o == ObservationRow[t].obligation
             S == Reduced(t)
             plan == PlanFor(t)
             isNew == t \notin observations
             att == Snapshot(a)
  <1>1. /\ o \in ObligationIds
        /\ ObligationOf(a) = o
        /\ t \in S
        /\ \A c \in S : Kind(c, S) = Kind(c, Stored(t))
        /\ SatisfyObligation(o, t, plan)
    BY IngestionWrites
  <1>2. plan.satisfy <=> Verdict(a, S) = "SUCCESS" /\ obligationStatus[o] = "OPEN"
    <2>1. plan = ReduceEvidence(a, S, t, isNew, obligationStatus[o], att) /\ isNew \in BOOLEAN
      BY DEF PlanFor
    <2> DEFINE status == obligationStatus[o]
    <2> HIDE DEF S, att, isNew, status, plan
    <2>2. LET p == ReduceEvidence(a, S, t, isNew, status, att)
          IN  p.satisfy <=> Verdict(a, S) = "SUCCESS" /\ status = "OPEN"
      BY <2>1, PlanSatisfies
    <2> QED
      BY <2>1, <2>2 DEF status
  <1>3. ASSUME obligationStatus[o] = "OPEN"
        PROVE  Verdict(a, S) = "SUCCESS" <=> isNew /\ Kind(t, S) = "MATCHED_SUCCESS"
    <2>1. ASSUME Verdict(a, S) = "SUCCESS"
          PROVE  isNew /\ Kind(t, S) = "MATCHED_SUCCESS"
      <3>1. PICK c \in S : Kind(c, S) = "MATCHED_SUCCESS" /\ AttemptOf(c) = a
        BY <2>1, VerdictMeaning DEF HasEvidence, OfKind, AttemptOf
      <3>2. c \notin observations
        <4> SUFFICES ASSUME c \in observations PROVE FALSE
          OBVIOUS
        <4>1. Kind(c, observations) = "MATCHED_SUCCESS"
          BY <1>1, <3>1, KindIsStable DEF Stored
        <4> QED
          BY <1>1, <1>3, <3>1, <4>1 DEF IInv, SuccessesActedOn
      <3> QED
        BY <3>1, <3>2 DEF Reduced, EvidenceFor, Stored
    <2>2. ASSUME isNew, Kind(t, S) = "MATCHED_SUCCESS"
          PROVE  Verdict(a, S) = "SUCCESS"
      BY <1>1, <2>2, VerdictMeaning DEF HasEvidence, OfKind, AttemptOf
    <2> QED
      BY <2>1, <2>2
  <1>4. obligationStatus[o] = "OPEN" => satisfiedAt[o] = Null
    BY <1>1 DEF IInv, SatisfactionIsAnnounced
  <1> HIDE DEF S, plan, a
  <1> QED
    BY <1>1, <1>2, <1>3, <1>4 DEF SatisfyObligation, obligationVars, S

LEMMA IngestionKeepsCaptures ==
    ASSUME IInv, RefundsBacked, CapturesAccountedFor, NEW t \in ObservationIds, IngestObservation(t)
    PROVE  CapturesAccountedFor'
  <1> DEFINE o == ObservationRow[t].obligation
             S == Reduced(t)
             key == CaptureKey(t)
             triggered == t \notin observations /\ Kind(t, S) = "MATCHED_SUCCESS"
             reasons == RefundReasons(t, S, obligationStatus[o])
             unknown == \A r \in refundCases : r.key # key
  <1>1. /\ o \in ObligationIds
        /\ ObligationOf(AttemptOf(t)) = o
        /\ observations' = observations \cup {t}
        /\ S = EvidenceFor(o, observations')
        /\ \A c \in S : Kind(c, S) = Kind(c, observations')
    BY IngestionWrites DEF Stored, Reduced
  <1>2. satisfiedAt' = IF obligationStatus[o] = "OPEN" /\ triggered
                       THEN [satisfiedAt EXCEPT ![o] = t] ELSE satisfiedAt
    BY IngestionSatisfies
  <1>3. /\ triggered /\ reasons # {} /\ unknown
              => refundCases' = refundCases \cup {RefundCase(t, why) : why \in reasons}
        /\ ~(triggered /\ reasons # {} /\ unknown) => refundCases' = refundCases
    BY IngestionRefunds
  <1> HIDE DEF S, reasons, unknown
  <1> SUFFICES ASSUME NEW p \in ObligationIds, ~SuccessInConflict(p)'
               PROVE  /\ Captures(p)' = SatisfyingCapture(p)' \cup RefundedCaptures(p)'
                      /\ SatisfyingCapture(p)' \cap RefundedCaptures(p)' = {}
    BY DEF CapturesAccountedFor
  <1>4. ~SuccessInConflict(p)
    BY <1>1 DEF SuccessInConflict, IntegrityConflict, EvidenceFor
  <1>5. /\ Captures(p) = SatisfyingCapture(p) \cup RefundedCaptures(p)
        /\ SatisfyingCapture(p) \cap RefundedCaptures(p) = {}
    BY <1>4 DEF CapturesAccountedFor
  <1>6. SatisfyingCapture(p)' = IF p = o /\ obligationStatus[o] = "OPEN" /\ triggered
                                THEN {key} ELSE SatisfyingCapture(p)
    BY <1>2, NullAssumption DEF SatisfyingCapture, IInv, TypeOK
  <1>7. RefundedCaptures(p)' = RefundedCaptures(p) \cup
                               (IF p = o /\ triggered /\ reasons # {} /\ unknown THEN {key} ELSE {})
    <2>1. ObligationOf(AttemptOf(t)) = p <=> p = o
      BY <1>1
    <2>2. ASSUME triggered, reasons # {}, unknown
          PROVE  RefundedCaptures(p)' = RefundedCaptures(p) \cup (IF p = o THEN {key} ELSE {})
      <3>1. refundCases' = refundCases \cup {RefundCase(t, why) : why \in reasons}
        BY <1>3, <2>2
      <3>2. \A r : r \in {RefundCase(t, why) : why \in reasons} =>
                     r.key = key /\ ObligationOf(r.attempt) = o
        BY <1>1 DEF RefundCase
      <3>3. PICK why \in reasons : RefundCase(t, why) \in refundCases'
        BY <2>2, <3>1
      <3>4. RefundCase(t, why).key = key /\ ObligationOf(RefundCase(t, why).attempt) = o
        BY <1>1 DEF RefundCase
      <3> HIDE DEF key
      <3> QED
        BY <3>1, <3>2, <3>3, <3>4 DEF RefundedCaptures
    <2>3. ASSUME ~(triggered /\ reasons # {} /\ unknown)
          PROVE  RefundedCaptures(p)' = RefundedCaptures(p)
      BY <1>3, <2>3 DEF RefundedCaptures
    <2> HIDE DEF triggered, key, o
    <2> QED
      BY <2>2, <2>3
  <1>8. Captures(p)' = Captures(p) \cup
                       (IF p = o /\ MatchedKind[t] = "MATCHED_SUCCESS" THEN {key} ELSE {})
    BY <1>1 DEF Captures, EvidenceFor
  <1>9. CASE p # o
    BY <1>5, <1>6, <1>7, <1>8, <1>9
  <1>10. CASE p = o /\ ~triggered
    <2>1. t \in S
      BY <1>1 DEF EvidenceFor
    <2>2. MatchedKind[t] = "MATCHED_SUCCESS" => t \in observations
      BY <1>1, <1>10, <2>1 DEF SuccessInConflict, Kind
    <2>3. MatchedKind[t] = "MATCHED_SUCCESS" => key \in Captures(p)
      BY <1>10, <2>2 DEF Captures, EvidenceFor
    <2> QED
      BY <1>5, <1>6, <1>7, <1>8, <1>10, <2>3
  <1>11. CASE p = o /\ triggered
    <2>1. MatchedKind[t] = "MATCHED_SUCCESS"
      BY <1>11 DEF Kind
    <2>2. \A d \in EvidenceFor(o, observations) : MatchedKind[d] = "MATCHED_SUCCESS" =>
             /\ d \in S /\ d # t
             /\ Kind(d, S) = "MATCHED_SUCCESS"
             /\ Kind(d, observations) = "MATCHED_SUCCESS"
      BY <1>1, <1>4, <1>11 DEF SuccessInConflict, Kind, EvidenceFor
    <2>3. CaptureAlreadyObserved(t, S) <=> key \in Captures(p)
      <3>1. \A c \in S : Kind(c, S) = "MATCHED_SUCCESS" /\ c # t
                => c \in EvidenceFor(o, observations) /\ MatchedKind[c] = "MATCHED_SUCCESS"
        BY <1>1 DEF Kind, EvidenceFor
      <3> QED
        BY <1>11, <2>2, <3>1 DEF CaptureAlreadyObserved, OfKind, Captures
    <2>4. obligationStatus[o] = "OPEN" => Captures(p) = {}
      <3>1. \A d \in EvidenceFor(o, observations) : MatchedKind[d] = "MATCHED_SUCCESS" =>
               obligationStatus[o] # "OPEN"
        BY <2>2 DEF IInv, SuccessesActedOn, EvidenceFiled, EvidenceFor
      <3> QED
        BY <1>11, <3>1 DEF Captures
    <2>5. key \notin Captures(p) => unknown
      <3> SUFFICES ASSUME NEW r \in refundCases, r.key = key PROVE key \in Captures(p)
        BY DEF unknown
      <3>1. PICK c \in observations : MatchedKind[c] = "MATCHED_SUCCESS" /\ r.key = CaptureKey(c)
        BY DEF RefundsBacked
      <3>2. ObservationRow[c].obligation = o
        BY <3>1, KeyNamesObligation
      <3> QED
        BY <1>11, <3>1, <3>2 DEF Captures, EvidenceFor
    <2>6. CASE obligationStatus[o] = "OPEN"
      <3>1. reasons = {}
        BY <2>6, RefundReasonsMeaning DEF reasons
      <3> QED
        BY <1>5, <1>6, <1>7, <1>8, <1>11, <2>1, <2>4, <2>6, <3>1
    <2>7. CASE obligationStatus[o] # "OPEN" /\ key \in Captures(p)
      <3>1. reasons = {}
        BY <2>3, <2>7, RefundReasonsMeaning DEF reasons
      <3> QED
        BY <1>5, <1>6, <1>7, <1>8, <1>11, <2>1, <2>7, <3>1
    <2>8. CASE obligationStatus[o] # "OPEN" /\ key \notin Captures(p)
      <3>1. obligationStatus[o] = "SATISFIED" => OtherCaptureObserved(t, S)
        <4> SUFFICES ASSUME obligationStatus[o] = "SATISFIED" PROVE OtherCaptureObserved(t, S)
          OBVIOUS
        <4> DEFINE d == satisfiedAt[o]
        <4>1. d \in observations /\ MatchedKind[d] = "MATCHED_SUCCESS" /\ ObligationOf(AttemptOf(d)) = o
          BY <1>1 DEF IInv, SatisfactionIsAnnounced
        <4>2. d \in EvidenceFor(o, observations)
          BY <4>1 DEF IInv, EvidenceFiled, EvidenceFor
        <4>3. Kind(d, S) = "MATCHED_SUCCESS" /\ d \in S
          BY <2>2, <4>1, <4>2
        <4>4. CaptureKey(d) # key
          BY <1>11, <2>8, <4>1, <4>2 DEF Captures
        <4> QED
          BY <4>3, <4>4 DEF OtherCaptureObserved, OfKind
      <3>2. obligationStatus[o] \in {"EXPIRED", "CANCELLED", "SATISFIED"}
        BY <1>1, <2>8 DEF IInv, TypeOK, ObligationStatuses
      <3>3. reasons # {}
        BY <2>3, <2>8, <3>1, <3>2, RefundReasonsMeaning DEF reasons
      <3> QED
        BY <1>5, <1>6, <1>7, <1>8, <1>11, <2>1, <2>5, <2>8, <3>3
    <2> QED
      BY <2>6, <2>7, <2>8
  <1> QED
    BY <1>9, <1>10, <1>11

LEMMA NextKeepsCaptures ==
    ASSUME IInv, RefundsBacked, CapturesAccountedFor, [Next]_vars
    PROVE  RefundsBacked' /\ CapturesAccountedFor'
  <1>1. ASSUME NEW c \in ObservationIds, IngestObservation(c)
        PROVE  RefundsBacked' /\ CapturesAccountedFor'
    BY <1>1, IngestionKeepsRefundsBacked, IngestionKeepsCaptures
  <1>2. ASSUME ~\E c \in ObservationIds : IngestObservation(c)
        PROVE  UNCHANGED <<observations, satisfiedAt, refundCases>>
    BY <1>2
    DEF Next, vars, CreateAttempt, SlaEscalation, CredentialUseDenial, ClaimReview,
        AttachEvidenceReference, RequestReadOnlyQuery, ReviewNote, CloseObligation,
        obligationVars, outboxVars
  <1> QED
    BY <1>1, <1>2, CapturesQuietStep

\* The two parts hold together: one needs the other.
LEMMA CaptureInvariant == Spec => [](RefundsBacked /\ CapturesAccountedFor)
  <1>1. Init => RefundsBacked /\ CapturesAccountedFor
    BY DEF Init, RefundsBacked, CapturesAccountedFor, Captures, EvidenceFor, SatisfyingCapture,
           RefundedCaptures
  <1>2. IInv /\ RefundsBacked /\ CapturesAccountedFor /\ [Next]_vars
           => (RefundsBacked /\ CapturesAccountedFor)'
    BY NextKeepsCaptures
  <1> QED
    BY <1>1, <1>2, Invariant, PTL DEF Spec

\* Every capture of an obligation either paid it or is due for refund, and never both, as
\* long as none of the obligation's successes came back with another body.
THEOREM CapturesAreAccountedFor == Spec => []CapturesAccountedFor
  BY CaptureInvariant, PTL

\* No refund is due for money that no matched success of the attempt shows: a refund case
\* always goes back to stored evidence.
THEOREM RefundsHaveCaptures == Spec => []RefundsBacked
  BY CaptureInvariant, PTL

-----------------------------------------------------------------------------
(* Refund facts *)

\* A refund that was announced is due: the fact shows a stored observation, and a refund
\* case holds the same money.
RefundFactsBacked ==
    \A f \in facts :
        f.type = "REFUND_DUE_DETECTED" =>
            /\ f = RefundFact(f.observation) /\ f.observation \in observations
            /\ \E r \in refundCases : r.key = f.key

\* The payment facts a plan may hold.
LEMMA PlanFacts ==
    ASSUME NEW a, NEW S, NEW t, NEW isNew, NEW status, NEW att
    PROVE  ReduceEvidence(a, S, t, isNew, status, att).facts
              \subseteq {"PAYMENT_SUCCEEDED", "PAYMENT_FAILED"}
  <1> DEFINE plan == ReduceEvidence(a, S, t, isNew, status, att)
  <1>1. plan \in {SuccessPlan(a, S, t, isNew, status, att), IntegrityConflictPlan(att),
                  MappingGapPlan(att), TerminalFailurePlan(a, S, t, isNew, att),
                  UnresolvedPlan(a, S, att)}
    BY VerdictMeaning DEF ReduceEvidence
  <1> QED
    BY <1>1
    DEF SuccessPlan, IntegrityConflictPlan, MappingGapPlan, TerminalFailurePlan, UnresolvedPlan

\* What an ingestion adds to the facts.
LEMMA IngestionAnnounces ==
    ASSUME IInv, RefundFactsBacked, NEW t \in ObservationIds, IngestObservation(t)
    PROVE  RefundFactsBacked'
  <1> DEFINE plan == PlanFor(t)
  <1>1. observations' = observations \cup {t} /\ Emit(t, plan)
    BY IngestionWrites DEF Stored
  <1> HIDE DEF plan
  <1>2. refundCases \subseteq refundCases'
    BY <1>1 DEF Emit
  <1> SUFFICES ASSUME NEW f \in facts', f.type = "REFUND_DUE_DETECTED"
               PROVE  /\ f = RefundFact(f.observation) /\ f.observation \in observations'
                      /\ \E r \in refundCases' : r.key = f.key
    BY DEF RefundFactsBacked
  <1>3. CASE f \in facts
    BY <1>1, <1>2, <1>3 DEF RefundFactsBacked
  <1>4. CASE f \in {PaymentFact(type, t) : type \in plan.facts}
    <2>1. "REFUND_DUE_DETECTED" \in plan.facts
      BY <1>4 DEF PaymentFact
    <2>2. plan.facts \subseteq {"PAYMENT_SUCCEEDED", "PAYMENT_FAILED"}
      BY PlanFacts DEF plan, PlanFor
    <2> QED
      BY <2>1, <2>2
  <1>5. CASE f = RefundFact(t) /\ plan.refunds # {}
    <2>1. f.observation = t /\ f.key = CaptureKey(t)
      BY <1>5 DEF RefundFact
    <2>2. CASE \A r \in refundCases : r.key # CaptureKey(t)
      <3>1. refundCases' = refundCases \cup {RefundCase(t, why) : why \in plan.refunds}
        BY <1>1, <1>5, <2>2 DEF Emit
      <3>2. PICK why \in plan.refunds : RefundCase(t, why) \in refundCases'
        BY <1>5, <3>1
      <3>3. RefundCase(t, why).key = CaptureKey(t)
        BY DEF RefundCase
      <3> QED
        BY <1>1, <1>5, <2>1, <3>2, <3>3
    <2>3. CASE \E r \in refundCases : r.key = CaptureKey(t)
      BY <1>1, <1>2, <1>5, <2>1, <2>3
    <2> QED
      BY <2>2, <2>3
  <1>6. \/ f \in facts
        \/ f \in {PaymentFact(type, t) : type \in plan.facts}
        \/ f = RefundFact(t) /\ plan.refunds # {}
    BY <1>1 DEF Emit
  <1> QED
    BY <1>3, <1>4, <1>5, <1>6

LEMMA NextKeepsRefundFacts ==
    ASSUME IInv, RefundFactsBacked, [Next]_vars
    PROVE  RefundFactsBacked'
  <1>1. ASSUME NEW c \in ObservationIds, IngestObservation(c)
        PROVE  RefundFactsBacked'
    BY <1>1, IngestionAnnounces
  <1>2. ASSUME ~\E c \in ObservationIds : IngestObservation(c)
        PROVE  UNCHANGED <<observations, facts, refundCases>>
    BY <1>2
    DEF Next, vars, CreateAttempt, SlaEscalation, CredentialUseDenial, ClaimReview,
        AttachEvidenceReference, RequestReadOnlyQuery, ReviewNote, CloseObligation, outboxVars
  <1>3. UNCHANGED <<observations, facts, refundCases>> => RefundFactsBacked'
    BY DEF RefundFactsBacked
  <1> QED
    BY <1>1, <1>2, <1>3

\* The outbox announces no refund that is not due: each of its refund facts has a refund
\* case for the same money and a stored observation.
THEOREM AnnouncedRefundsAreDue == Spec => []RefundFactsBacked
  <1>1. Init => RefundFactsBacked
    BY DEF Init, RefundFactsBacked
  <1>2. IInv /\ RefundFactsBacked /\ [Next]_vars => RefundFactsBacked'
    BY NextKeepsRefundFacts
  <1> QED
    BY <1>1, <1>2, Invariant, PTL DEF Spec
=============================================================================
