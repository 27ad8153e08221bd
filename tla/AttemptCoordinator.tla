-------------------------- MODULE AttemptCoordinator --------------------------
(***************************************************************************)
(* attemptCoordinator.ts createAttempt, await by await, over the evidence  *)
(* state machine.                                                          *)
(*                                                                         *)
(* A call locks its obligation, so calls for one obligation take turns.    *)
(* The idempotency key is the merchant's, not the obligation's: two calls  *)
(* that hold the locks of different obligations both look the key up, both *)
(* find nothing and both insert.  The unique index decides between them,   *)
(* and the loser looks the key up again after its rollback.                *)
(*                                                                         *)
(* A call is named by the attempt it would insert.  Calls with the same    *)
(* merchant and key are one request sent again, or a key used twice.       *)
(***************************************************************************)
EXTENDS PaymentOrchestration

VARIABLES
    lockedBy,   \* obligation -> the call that holds its row lock
    pc,         \* call -> the await it is at
    inserted,   \* rows inserted by transactions that have not committed
    answers,    \* call -> its AttemptCreationResult or error, and the attempt it names
    audits      \* ProviderPolicyDecisionAudit rows of CREATE_ATTEMPT

\* A free lock is held by no call.
ASSUME CallAssumption == Null \notin AttemptIds

callVars == <<lockedBy, pc, inserted, answers, audits>>
coordinatorVars == <<vars, callVars>>

-----------------------------------------------------------------------------
SameKey(a, b) == /\ AttemptRow[a].merchant = AttemptRow[b].merchant
                 /\ AttemptRow[a].key = AttemptRow[b].key

\* findRequestReplayAttempt, which sees committed rows only.
ReplaysOf(a) == {b \in created : SameKey(a, b)}

\* findUnresolvedAttemptForOwnedObligation.
UnresolvedOf(a) == {b \in AttemptsOf(ObligationOf(a)) : Unresolved(b)}

\* The two unique indexes of the attempt table, on rows that are unresolved when inserted.
IndexClash(a, b) == SameKey(a, b) \/ (ObligationOf(a) = ObligationOf(b) /\ resolvedAt[b] = Null)

InTransaction == {"FIND_REPLAY", "DECIDE", "INSERT", "COMMIT"}

CallPCs == InTransaction \cup {"IDLE", "LOCK", "FIND_REPLAY_AGAIN", "ANSWERED"}

\* AttemptCreationResult, the errors createAttempt throws, and LOST for a lost connection.
AnswerKinds ==
    {"NONE", "CREATED", "IDEMPOTENT_REPLAY", "EXISTING_UNRESOLVED", "OBLIGATION_NOT_FOUND",
     "IDEMPOTENCY_KEY_CONFLICT", "OBLIGATION_NOT_ATTEMPT_ELIGIBLE", "POLICY_DISABLED",
     "UNIQUE_CONFLICT", "LOST"}

CoordinatorInit ==
    /\ Init
    /\ lockedBy = [o \in ObligationIds |-> Null]
    /\ pc = [a \in AttemptIds |-> "IDLE"]
    /\ inserted = {}
    /\ answers = [a \in AttemptIds |-> [kind |-> "NONE", attempt |-> Null]]
    /\ audits = {}

-----------------------------------------------------------------------------
CallGoes(a, next) == pc' = [pc EXCEPT ![a] = next]

\* Mutant of Release: the row lock outlives its transaction.
KeepLock(a) == UNCHANGED lockedBy

Release(a) == lockedBy' = [lockedBy EXCEPT ![ObligationOf(a)] = Null]

Answer(a, kind, attempt) ==
    /\ answers' = [answers EXCEPT ![a] = [kind |-> kind, attempt |-> attempt]]
    /\ CallGoes(a, "ANSWERED")

Audit(a, decision, reason, attempt) ==
    audits' = audits \cup
        {[call |-> a, decision |-> decision, reason |-> reason, attempt |-> attempt]}

\* A call that writes nothing but its audit row, commits and answers.
Refuse(a, decision, reason, attempt) ==
    /\ Audit(a, decision, reason, attempt)
    /\ Answer(a, reason, attempt)
    /\ Release(a)
    /\ UNCHANGED <<vars, inserted>>

-----------------------------------------------------------------------------
Call(a) ==
    /\ pc[a] = "IDLE"
    /\ CallGoes(a, "LOCK")
    /\ UNCHANGED <<vars, lockedBy, inserted, answers, audits>>

\* SELECT ... FOR UPDATE finds no row of that merchant.
ObligationNotFound(a) ==
    /\ pc[a] = "LOCK"
    /\ ObligationRow[ObligationOf(a)].merchant # AttemptRow[a].merchant
    /\ Answer(a, "OBLIGATION_NOT_FOUND", Null)
    /\ UNCHANGED <<vars, lockedBy, inserted, audits>>

\* Mutant of LockFree: the SELECT does not lock.
NeverLocked(o) == TRUE

LockFree(o) == lockedBy[o] = Null

LockObligation(a) ==
    /\ pc[a] = "LOCK"
    /\ ObligationRow[ObligationOf(a)].merchant = AttemptRow[a].merchant
    /\ LockFree(ObligationOf(a))
    /\ lockedBy' = [lockedBy EXCEPT ![ObligationOf(a)] = a]
    /\ CallGoes(a, "FIND_REPLAY")
    /\ UNCHANGED <<vars, inserted, answers, audits>>

FindReplay(a) ==
    /\ pc[a] = "FIND_REPLAY"
    /\ \/ /\ ReplaysOf(a) = {}
          /\ CallGoes(a, "DECIDE")
          /\ UNCHANGED <<vars, lockedBy, inserted, answers, audits>>
       \/ \E replay \in ReplaysOf(a) :
             IF ObligationOf(replay) = ObligationOf(a)
             THEN Refuse(a, "NO_EXECUTION", "IDEMPOTENT_REPLAY", replay)
             ELSE /\ Answer(a, "IDEMPOTENCY_KEY_CONFLICT", Null)
                  /\ Release(a)
                  /\ UNCHANGED <<vars, inserted, audits>>

\* Eligibility, then another unresolved attempt, then the activation policy.
Decide(a) ==
    /\ pc[a] = "DECIDE"
    /\ IF ~AttemptEligible(ObligationOf(a))
       THEN Refuse(a, "NO_EXECUTION", "OBLIGATION_NOT_ATTEMPT_ELIGIBLE", Null)
       ELSE IF UnresolvedOf(a) # {}
       THEN \E b \in UnresolvedOf(a) : Refuse(a, "NO_EXECUTION", "EXISTING_UNRESOLVED", b)
       ELSE IF ~ActivationEnabled(a)
       THEN Refuse(a, "DISABLED", "POLICY_DISABLED", Null)
       ELSE /\ CallGoes(a, "INSERT")
            /\ UNCHANGED <<vars, lockedBy, inserted, answers, audits>>

\* Mutant of Insert: nothing keeps two rows with one key apart.
InsertWithoutIndex(a) ==
    /\ pc[a] = "INSERT"
    /\ inserted' = inserted \cup {a}
    /\ CallGoes(a, "COMMIT")
    /\ UNCHANGED <<vars, lockedBy, answers, audits>>

\* The insert waits for an uncommitted row it clashes with, and fails on a committed one:
\* the transaction rolls back and its lock goes.
Insert(a) ==
    /\ pc[a] = "INSERT"
    /\ ~ \E b \in inserted : IndexClash(a, b)
    /\ IF \E b \in created : IndexClash(a, b)
       THEN /\ Release(a)
            /\ CallGoes(a, "FIND_REPLAY_AGAIN")
            /\ UNCHANGED <<vars, inserted, answers, audits>>
       ELSE /\ inserted' = inserted \cup {a}
            /\ CallGoes(a, "COMMIT")
            /\ UNCHANGED <<vars, lockedBy, answers, audits>>

\* The provider order reference and the audit row go with the attempt.
Commit(a) ==
    /\ pc[a] = "COMMIT"
    /\ created' = created \cup {a}
    /\ inserted' = inserted \ {a}
    /\ Audit(a, "ENABLED", "POLICY_AUTHORIZED", a)
    /\ Answer(a, "CREATED", a)
    /\ Release(a)
    /\ UNCHANGED <<obligationVars, attemptVars, observations, outboxVars, logVars>>

FindReplayAgain(a) ==
    /\ pc[a] = "FIND_REPLAY_AGAIN"
    /\ \/ ReplaysOf(a) = {} /\ Answer(a, "UNIQUE_CONFLICT", Null)
       \/ \E replay \in ReplaysOf(a) :
             IF ObligationOf(replay) = ObligationOf(a)
             THEN Answer(a, "IDEMPOTENT_REPLAY", replay)
             ELSE Answer(a, "IDEMPOTENCY_KEY_CONFLICT", Null)
    /\ UNCHANGED <<vars, lockedBy, inserted, audits>>

\* The connection or the process is lost: the transaction rolls back.
RollBack(a) ==
    /\ pc[a] \in InTransaction
    /\ inserted' = inserted \ {a}
    /\ Release(a)
    /\ Answer(a, "LOST", Null)
    /\ UNCHANGED <<vars, audits>>

CallStep(a) ==
    \/ ObligationNotFound(a)
    \/ LockObligation(a)
    \/ FindReplay(a)
    \/ Decide(a)
    \/ Insert(a)
    \/ Commit(a)
    \/ FindReplayAgain(a)

-----------------------------------------------------------------------------
(***************************************************************************)
(* The other transactions.  Those that lock the obligation wait for it;    *)
(* the review service locks the attempt row alone.                         *)
(***************************************************************************)
OtherTransaction ==
    /\ \/ \E c \in ObservationIds :
             LockFree(ObservationRow[c].obligation) /\ IngestObservation(c)
       \/ \E a \in AttemptIds :
             \/ LockFree(ObligationOf(a)) /\ (SlaEscalation(a) \/ CredentialUseDenial(a))
             \/ ClaimReview(a)
             \/ AttachEvidenceReference(a)
             \/ RequestReadOnlyQuery(a)
       \/ \E o \in ObligationIds : \E closed \in {"EXPIRED", "CANCELLED"} :
             LockFree(o) /\ CloseObligation(o, closed)
    /\ UNCHANGED callVars

CoordinatorNext ==
    \/ \E a \in AttemptIds : Call(a) \/ CallStep(a) \/ RollBack(a)
    \/ OtherTransaction

CoordinatorSpec == CoordinatorInit /\ [][CoordinatorNext]_coordinatorVars

\* A call that can go on does: the database answers and the event loop resumes it.
FairCoordinatorSpec ==
    CoordinatorSpec /\ \A a \in AttemptIds : WF_coordinatorVars(CallStep(a))

-----------------------------------------------------------------------------

\* However the calls interleave, what they commit is what createAttempt would do in one
\* step: at the commit the obligation is still eligible and without an unresolved
\* attempt, and nobody has used the key.
ImplementsCreateAttempt == Spec

\* Requests of a merchant with one key get one attempt: all that are answered with an
\* attempt for the key are answered with the same one, only one of them is told that it
\* was created, and one that is refused as a conflict is for another obligation.
OneAttemptPerKey ==
    \A a, b \in AttemptIds :
        SameKey(a, b) =>
            /\ /\ answers[a].kind \in {"CREATED", "IDEMPOTENT_REPLAY"}
               /\ answers[b].kind \in {"CREATED", "IDEMPOTENT_REPLAY"}
               => answers[a].attempt = answers[b].attempt
            /\ answers[a].kind = "CREATED" /\ answers[b].kind = "CREATED" => a = b
            /\ answers[a].kind = "CREATED" /\ answers[b].kind = "IDEMPOTENCY_KEY_CONFLICT"
               => ObligationOf(a) # ObligationOf(b)

\* The policy audit names exactly the attempts that exist: no attempt without the
\* decision that authorised it, no such decision from a transaction that was lost.
AuditNamesAttempts ==
    created = {r.attempt : r \in {q \in audits : q.decision = "ENABLED"}}

\* A call is always answered: the row locks and the waits of the unique indexes never
\* form a cycle.
CallsAreAnswered == \A a \in AttemptIds : pc[a] = "LOCK" ~> pc[a] = "ANSWERED"
=============================================================================
