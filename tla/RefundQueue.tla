----------------------------- MODULE RefundQueue -----------------------------
(***************************************************************************)
(* refundDueContract.ts: the queue in which people work off the refunds    *)
(* that the evidence state machine detects, fed by its outbox.             *)
(*                                                                         *)
(* The outbox is delivered at least once and in any order; the repository  *)
(* has no dispatcher, so delivery is the environment's.  A case is named   *)
(* by the dedupe key of its fact, the capture key of the money.            *)
(***************************************************************************)
EXTENDS PaymentOrchestration

CONSTANT Horizon   \* ESCALATION_HORIZON_MS, in units of the shared clock

ASSUME HorizonAssumption == Horizon \in Nat \ {0}

VARIABLES
    cases,      \* dedupe key -> the status, the attempt and the evidence of a case
    dueIn,      \* dedupe key -> time left until the case is due for escalation
    history,    \* status transitions of the cases
    escalations \* dedupe key -> how many reliability events it caused

queueVars == <<cases, dueIn, history, escalations>>
refundVars == <<vars, queueVars>>

-----------------------------------------------------------------------------
AllowedTransitions ==
    [OPEN                    |-> {"ACKNOWLEDGED", "ESCALATED_UNRESOLVED"},
     ACKNOWLEDGED            |-> {"MERCHANT_ACTION_PENDING", "ESCALATED_UNRESOLVED"},
     MERCHANT_ACTION_PENDING |-> {"VERIFICATION_PENDING", "ESCALATED_UNRESOLVED"},
     VERIFICATION_PENDING    |-> {"VERIFIED_CLOSED", "ESCALATED_UNRESOLVED"},
     VERIFIED_CLOSED         |-> {},
     ESCALATED_UNRESOLVED    |-> {}]

CaseStatuses == DOMAIN AllowedTransitions
Settled      == {"VERIFIED_CLOSED", "ESCALATED_UNRESOLVED"}

\* Human assertions, and observations of a refund at the provider.
Evidence == {"HUMAN_ASSERTION", "PROVIDER_REFUND_OBSERVATION"}

QueueInit ==
    /\ Init
    /\ cases = <<>>
    /\ dueIn = <<>>
    /\ history = {}
    /\ escalations = <<>>

-----------------------------------------------------------------------------
\* A fact whose dedupe key has a case is dropped.
Consume(fact) ==
    LET extended(table, value) ==
            [k \in DOMAIN table \cup {fact.key} |-> IF k = fact.key THEN value ELSE table[k]]
    IN  /\ fact.key \notin DOMAIN cases
        /\ cases' = extended(cases, [status |-> "OPEN", attempt |-> AttemptOf(fact.observation),
                                     evidence |-> Null])
        /\ dueIn' = extended(dueIn, Horizon)
        /\ escalations' = extended(escalations, 0)
        /\ UNCHANGED <<vars, history>>

LogTransition(k, next) ==
    history' = history \cup {[case |-> k, from |-> cases[k].status, to |-> next]}

Transition(k, next) ==
    /\ next \in AllowedTransitions[cases[k].status]
    /\ cases' = [cases EXCEPT ![k].status = next]
    /\ LogTransition(k, next)
    /\ UNCHANGED <<vars, dueIn, escalations>>

Acknowledge(k)             == Transition(k, "ACKNOWLEDGED")
RequestMerchantAction(k)   == Transition(k, "MERCHANT_ACTION_PENDING")
MarkVerificationPending(k) == Transition(k, "VERIFICATION_PENDING")

\* Mutant of VerifyClosed: a person's word closes a case.
VerifyClosedByAnyone(k, evidence) ==
    /\ "VERIFIED_CLOSED" \in AllowedTransitions[cases[k].status]
    /\ cases' = [cases EXCEPT ![k].status = "VERIFIED_CLOSED", ![k].evidence = evidence]
    /\ LogTransition(k, "VERIFIED_CLOSED")
    /\ UNCHANGED <<vars, dueIn, escalations>>

VerifyClosed(k, evidence) ==
    /\ evidence = "PROVIDER_REFUND_OBSERVATION"
    /\ "VERIFIED_CLOSED" \in AllowedTransitions[cases[k].status]
    /\ cases' = [cases EXCEPT ![k].status = "VERIFIED_CLOSED", ![k].evidence = evidence]
    /\ LogTransition(k, "VERIFIED_CLOSED")
    /\ UNCHANGED <<vars, dueIn, escalations>>

\* Time left after the clock has gone on by "time".
TimeLeft(k, time) == IF dueIn[k] > time THEN dueIn[k] - time ELSE 0

\* Mutant of Due: only cases that nobody has touched are escalated.
DueWhenOpen(k) == cases[k].status = "OPEN" /\ TimeLeft(k, Horizon) = 0

Due(k) == cases[k].status \notin Settled /\ TimeLeft(k, Horizon) = 0

\* advanceToEscalationHorizon moves the clock by the whole horizon, then escalates every
\* case that is due and not settled.
AdvanceToEscalationHorizon ==
    LET due == {k \in DOMAIN cases : Due(k)}
    IN  /\ dueIn' = [k \in DOMAIN dueIn |-> TimeLeft(k, Horizon)]
        /\ cases' = [k \in DOMAIN cases |->
                        IF k \in due THEN [cases[k] EXCEPT !.status = "ESCALATED_UNRESOLVED"]
                                     ELSE cases[k]]
        /\ history' = history \cup
              {[case |-> k, from |-> cases[k].status, to |-> "ESCALATED_UNRESOLVED"] : k \in due}
        /\ escalations' = [k \in DOMAIN escalations |->
                              IF k \in due THEN escalations[k] + 1 ELSE escalations[k]]
        /\ UNCHANGED vars

\* The clock is passed in; whoever else holds it may move it.
Tick ==
    /\ dueIn' = [k \in DOMAIN dueIn |-> TimeLeft(k, 1)]
    /\ UNCHANGED <<vars, cases, history, escalations>>

\* Mutant of RefundFacts: the type of the event is not looked at.
AllFacts == facts

RefundFacts == {f \in facts : f.type = "REFUND_DUE_DETECTED"}

QueueNext ==
    \/ Next /\ UNCHANGED queueVars
    \/ \E f \in RefundFacts : Consume(f)
    \/ \E k \in DOMAIN cases :
          \/ Acknowledge(k)
          \/ RequestMerchantAction(k)
          \/ MarkVerificationPending(k)
          \/ \E evidence \in Evidence : VerifyClosed(k, evidence)
    \/ AdvanceToEscalationHorizon
    \/ Tick

QueueSpec == QueueInit /\ [][QueueNext]_refundVars

\* The outbox is delivered in the end, and the horizon comes again and again.  Nothing is
\* asked of the people who work on a case.
FairQueueSpec ==
    /\ QueueSpec
    /\ WF_refundVars(\E f \in RefundFacts : Consume(f))
    /\ WF_refundVars(AdvanceToEscalationHorizon)

-----------------------------------------------------------------------------

\* A case is closed on evidence of the provider and after every station of the work, or
\* escalated, which is reported once; never both, and its history says which.
CasesAreWorkedOff ==
    \A k \in DOMAIN cases :
        LET passed == {r.to : r \in {h \in history : h.case = k}}
        IN  /\ cases[k].status = "VERIFIED_CLOSED" =>
                  /\ cases[k].evidence = "PROVIDER_REFUND_OBSERVATION"
                  /\ passed = CaseStatuses \ {"OPEN", "ESCALATED_UNRESOLVED"}
            /\ escalations[k] = IF cases[k].status = "ESCALATED_UNRESOLVED" THEN 1 ELSE 0
            /\ "ESCALATED_UNRESOLVED" \in passed <=> cases[k].status = "ESCALATED_UNRESOLVED"

\* People work on refunds that are due and on nothing else the outbox brings: every case has
\* a refund case of the state machine under its key, of the same obligation.
CasesAreDue ==
    \A k \in DOMAIN cases :
        \E r \in refundCases : /\ r.key = k
                               /\ ObligationOf(r.attempt) = ObligationOf(cases[k].attempt)

\* Every refund that was detected is closed or escalated in the end, wherever the people
\* who work on it stop.
RefundsSettle ==
    \A c \in ObservationIds :
        RefundFact(c) \in facts ~>
            CaptureKey(c) \in DOMAIN cases /\ cases[CaptureKey(c)].status \in Settled
=============================================================================
