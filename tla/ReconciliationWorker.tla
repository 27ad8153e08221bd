------------------------- MODULE ReconciliationWorker -------------------------
(***************************************************************************)
(* reconciliationWorker.ts over the evidence state machine: workers that   *)
(* list the unresolved attempts, then go through their list querying the   *)
(* provider, ingesting its answer and escalating attempts past the SLA.    *)
(*                                                                         *)
(* A worker awaits between any two of its steps, so its list and the       *)
(* requests it saw go stale while other workers, webhooks and reviewers    *)
(* run transactions.  Each step below is what runs between two awaits: the *)
(* two transactions of the worker, denial and escalation, take their locks *)
(* in one step, read the row in the next and write in a third, from what   *)
(* they read.  The transactions of others are one step each, which waits   *)
(* for the locks.                                                          *)
(***************************************************************************)
EXTENDS PaymentOrchestration, FiniteSets

CONSTANTS
    Workers,             \* concurrent runs of runOnce
    RequestIds,          \* correlation ids of read-only query requests
    Policy,              \* ReconciliationPolicy, times in abstract units
    CredentialContexts,  \* what buildCredentialUseInput may come to
    QueryAnswers,        \* attempt -> the observations its status query may return
    MaxClock,            \* bound: the clock stops here
    MaxCrashes           \* bound: how many runs may be cut short from outside

\* Null marks the absence of an attempt and of a request.
ASSUME NamesAssumption == Null \notin AttemptIds /\ Null \notin RequestIds

VARIABLES
    clock,          \* deps.clock
    createdAt,      \* PaymentAttempt.createdAt
    receivedAt,     \* when the newest observation of an attempt was stored
    requestRows,    \* ReconciliationReviewHistory rows of read-only queries
    executions,     \* <<request, attempt>> -> queries sent to the provider for it
    consumptions,   \* <<request, attempt>> -> READ_ONLY_QUERY_CONSUMED rows
    abandoned,      \* the <<request, attempt>> pairs held by runs that were cut short
    run,            \* worker -> where its runOnce is
    crashes         \* how many runs were cut short from outside

timeVars    == <<clock, createdAt>>
requestVars == <<requestRows, executions, consumptions, abandoned>>
workerVars  == <<timeVars, receivedAt, requestVars, run, crashes>>
allVars     == <<vars, workerVars>>

-----------------------------------------------------------------------------
(***************************************************************************)
(* isValidPolicy, isSlaBreached, nextDueAt, decideCredentialUse.           *)
(***************************************************************************)
ValidPolicy(a) ==
    /\ Policy.approved
    /\ AttemptRow[a].provider = "MOCK"
    /\ AttemptRow[a].environment = "TEST"
    /\ Policy.merchant = AttemptRow[a].merchant
    /\ Policy.approvedAt <= Policy.effectiveFrom
    /\ clock >= Policy.effectiveFrom
    /\ clock < Policy.effectiveUntil
    /\ Policy.initialDelay > 0
    /\ Policy.cadence > 0
    /\ Policy.backoffMultiplier >= 1
    /\ Policy.maxDelay >= Policy.cadence
    /\ Policy.sla >= Policy.initialDelay
    /\ Policy.maxAutomatedQuery >= Policy.sla
    /\ Policy.evidenceHorizon >= Policy.maxAutomatedQuery

Age(a) == clock - createdAt[a]

SlaBreached(a) == Age(a) >= Policy.sla

\* Mutant of WindowExpired: the automated window never closes.
WindowNeverExpires(a) == FALSE

WindowExpired(a) == Age(a) > Policy.maxAutomatedQuery

Capped(delay) == IF delay > Policy.maxDelay THEN Policy.maxDelay ELSE delay

Delay[n \in Nat] ==
    IF n <= 1 THEN Policy.cadence ELSE Capped(Delay[n - 1] * Policy.backoffMultiplier)

\* DerivedReconciliationState.queryCount as the repository derives it in its tests: the
\* number of observations stored for the attempt, from whatever source.
QueryCount(a) == Cardinality({c \in observations : AttemptOf(c) = a})

NextDueAt(a) ==
    IF QueryCount(a) = 0
    THEN createdAt[a] + Policy.initialDelay
    ELSE receivedAt[a] + Delay[QueryCount(a)]

\* "available" is false when buildCredentialUseInput throws or returns null.
CredentialUseAllowed(use) ==
    /\ use.available
    /\ use.sameBinding
    /\ use.continuity = "PROVEN_SAME_ACCOUNT"
    /\ use.credentialState = "ACTIVE"
    /\ use.operation = "STATUS_QUERY"

-----------------------------------------------------------------------------
(***************************************************************************)
(* Read-only query requests: rows of the review history that share the     *)
(* request's correlation id.  The functions that list, claim and consume   *)
(* them are passed to the worker; the repository has them in its tests.    *)
(***************************************************************************)
Row(code, r, a) == [code |-> code, request |-> r, attempt |-> a]

Taken(r, a) == Row("CLAIMED", r, a) \in requestRows \/ Row("CONSUMED", r, a) \in requestRows

Pending(a) == {r \in RequestIds : Row("REQUESTED", r, a) \in requestRows /\ ~Taken(r, a)}

PCs == {"IDLE", "LISTED", "NEXT", "CLAIM", "RECONCILE", "DENY", "QUERY", "CONSUME", "SLA", "ESCALATE"}

\* "tx" is how far the worker's transaction is, "seen" the row that it has read.
Idle ==
    [pc |-> "IDLE", todo |-> {}, pending |-> {}, attempt |-> Null, request |-> Null, tx |-> "NONE", seen |-> Null]

WorkerInit ==
    /\ Init
    /\ clock = 0
    /\ createdAt = [a \in AttemptIds |-> 0]
    /\ receivedAt = [a \in AttemptIds |-> 0]
    /\ requestRows = {}
    /\ executions = [p \in RequestIds \X AttemptIds |-> 0]
    /\ consumptions = [p \in RequestIds \X AttemptIds |-> 0]
    /\ abandoned = {}
    /\ run = [w \in Workers |-> Idle]
    /\ crashes = 0

Held(w) == <<run[w].request, run[w].attempt>>

GoTo(w, pc) == run' = [run EXCEPT ![w].pc = pc]

\* Mutant of LockFree: nobody waits for a row lock.
NeverLocked(o) == TRUE

\* Whether the obligation and its attempts can be locked FOR UPDATE: no worker holds them.
LockFree(o) == \A w \in Workers : run[w].tx # "NONE" => ObligationOf(run[w].attempt) # o

-----------------------------------------------------------------------------
(***************************************************************************)
(* runOnce: list the attempts, list the requests, then loop.               *)
(***************************************************************************)
ListUnresolvedAttempts(w) ==
    LET listed == {a \in created : Unresolved(a)}
    IN  /\ run[w].pc = "IDLE"
        /\ listed # {}
        /\ run' = [run EXCEPT ![w].pc = "LISTED", ![w].todo = listed]
        /\ UNCHANGED <<vars, timeVars, receivedAt, requestVars, crashes>>

\* One pending request for each listed attempt that has any.
ListRequestedReadOnlyQueries(w) ==
    /\ run[w].pc = "LISTED"
    /\ \E chosen \in SUBSET [attempt : run[w].todo, request : RequestIds] :
          /\ \A p \in chosen : p.request \in Pending(p.attempt)
          /\ \A p, q \in chosen : p.attempt = q.attempt => p = q
          /\ \A a \in run[w].todo : Pending(a) # {} => \E p \in chosen : p.attempt = a
          /\ run' = [run EXCEPT ![w].pc = "NEXT", ![w].pending = chosen]
    /\ UNCHANGED <<vars, timeVars, receivedAt, requestVars, crashes>>

NextAttempt(w) ==
    /\ run[w].pc = "NEXT"
    /\ \E a \in run[w].todo :
          run' = [run EXCEPT ![w].attempt = a, ![w].todo = @ \ {a},
                             ![w].pc = IF \E p \in run[w].pending : p.attempt = a
                                       THEN "CLAIM" ELSE "RECONCILE"]
    /\ UNCHANGED <<vars, timeVars, receivedAt, requestVars, crashes>>

FinishRun(w) ==
    /\ run[w].pc = "NEXT"
    /\ run[w].todo = {}
    /\ run' = [run EXCEPT ![w] = Idle]
    /\ UNCHANGED <<vars, timeVars, receivedAt, requestVars, crashes>>

\* Mutant of ClaimReadOnlyQueryRequest: the listed request is taken without a second look.
ClaimListedRequest(w) ==
    /\ run[w].pc = "CLAIM"
    /\ \E p \in run[w].pending :
          /\ p.attempt = run[w].attempt
          /\ requestRows' = requestRows \cup {Row("CLAIMED", p.request, p.attempt)}
          /\ run' = [run EXCEPT ![w].pc = "RECONCILE", ![w].request = p.request]
    /\ UNCHANGED <<vars, timeVars, receivedAt, executions, consumptions, abandoned, crashes>>

\* A request another worker took since the listing is left to it.
ClaimReadOnlyQueryRequest(w) ==
    /\ run[w].pc = "CLAIM"
    /\ \E p \in run[w].pending :
          /\ p.attempt = run[w].attempt
          /\ IF Taken(p.request, p.attempt)
             THEN GoTo(w, "SLA") /\ UNCHANGED requestRows
             ELSE /\ requestRows' = requestRows \cup {Row("CLAIMED", p.request, p.attempt)}
                  /\ run' = [run EXCEPT ![w].pc = "RECONCILE", ![w].request = p.request]
    /\ UNCHANGED <<vars, timeVars, receivedAt, executions, consumptions, abandoned, crashes>>

-----------------------------------------------------------------------------
(***************************************************************************)
(* reconcileAttempt.  The listed snapshot was unresolved, so its own test  *)
(* of resolvedAt always passes, whatever the row says by now.              *)
(***************************************************************************)
MayQuery(w) ==
    LET a == run[w].attempt
    IN  /\ ValidPolicy(a)
        /\ ~WindowExpired(a)
        /\ run[w].request # Null \/ clock >= NextDueAt(a)

\* POLICY_DISABLED, AUTOMATED_WINDOW_EXPIRED or NOT_DUE.
SkipQuery(w) ==
    /\ run[w].pc = "RECONCILE"
    /\ ~MayQuery(w)
    /\ GoTo(w, "CONSUME")
    /\ UNCHANGED <<vars, timeVars, receivedAt, requestVars, crashes>>

StartDenial(w) ==
    /\ run[w].pc = "RECONCILE"
    /\ MayQuery(w)
    /\ \E use \in CredentialContexts : ~CredentialUseAllowed(use)
    /\ GoTo(w, "DENY")
    /\ UNCHANGED <<vars, timeVars, receivedAt, requestVars, crashes>>

SendQuery(w) ==
    /\ run[w].pc = "RECONCILE"
    /\ MayQuery(w)
    /\ \E use \in CredentialContexts : CredentialUseAllowed(use)
    /\ executions' = IF run[w].request = Null THEN executions
                     ELSE [executions EXCEPT ![Held(w)] = @ + 1]
    /\ GoTo(w, "QUERY")
    /\ UNCHANGED <<vars, timeVars, receivedAt, requestRows, consumptions, abandoned, crashes>>

\* A delivery that was stored before keeps the time of the first one.
Receive(c) ==
    /\ LockFree(ObservationRow[c].obligation)
    /\ IngestObservation(c)
    /\ receivedAt' = IF c \in observations THEN receivedAt
                     ELSE [receivedAt EXCEPT ![AttemptOf(c)] = clock]

IngestAnswer(w) ==
    /\ run[w].pc = "QUERY"
    /\ \E c \in ObservationIds : c \in QueryAnswers[run[w].attempt] /\ Receive(c)
    /\ GoTo(w, "CONSUME")
    /\ UNCHANGED <<timeVars, requestVars, crashes>>

\* ingestRawObservation turns the answer down before it reaches a transaction.
RejectAnswer(w) ==
    /\ run[w].pc = "QUERY"
    /\ GoTo(w, "CONSUME")
    /\ UNCHANGED <<vars, timeVars, receivedAt, requestVars, crashes>>

Abandon(w) ==
    /\ run' = [run EXCEPT ![w] = Idle]
    /\ abandoned' = IF run[w].request = Null THEN abandoned ELSE abandoned \cup {Held(w)}

\* queryStatus or ingestRawObservation throws: nothing catches it, so the whole run ends.
QueryFails(w) ==
    /\ run[w].pc = "QUERY"
    /\ Abandon(w)
    /\ UNCHANGED <<vars, timeVars, receivedAt, requestRows, executions, consumptions, crashes>>

\* Mutant of PersistReadOnlyQueryConsumption: only a query that was sent is recorded.
PersistSentConsumption(w) ==
    LET r == run[w].request
    IN  /\ run[w].pc = "CONSUME"
        /\ IF r = Null \/ executions[Held(w)] = 0
           THEN UNCHANGED <<requestRows, consumptions>>
           ELSE /\ requestRows' = requestRows \cup {Row("CONSUMED", r, run[w].attempt)}
                /\ consumptions' = [consumptions EXCEPT ![Held(w)] = @ + 1]
        /\ GoTo(w, "SLA")
        /\ UNCHANGED <<vars, timeVars, receivedAt, executions, abandoned, crashes>>

PersistReadOnlyQueryConsumption(w) ==
    LET r == run[w].request
    IN  /\ run[w].pc = "CONSUME"
        /\ IF r = Null
           THEN UNCHANGED <<requestRows, consumptions>>
           ELSE /\ requestRows' = requestRows \cup {Row("CONSUMED", r, run[w].attempt)}
                /\ consumptions' = [consumptions EXCEPT ![Held(w)] = @ + 1]
        /\ GoTo(w, "SLA")
        /\ UNCHANGED <<vars, timeVars, receivedAt, executions, abandoned, crashes>>

LeaveAttempt(w) ==
    run' = [run EXCEPT ![w].pc = "NEXT", ![w].attempt = Null, ![w].request = Null,
                       ![w].tx = "NONE", ![w].seen = Null]

\* The policy or the age does not ask for an escalation.
SkipEscalation(w) ==
    /\ run[w].pc = "SLA"
    /\ ~(ValidPolicy(run[w].attempt) /\ SlaBreached(run[w].attempt))
    /\ LeaveAttempt(w)
    /\ UNCHANGED <<vars, timeVars, receivedAt, requestVars, crashes>>

StartEscalation(w) ==
    /\ run[w].pc = "SLA"
    /\ ValidPolicy(run[w].attempt)
    /\ SlaBreached(run[w].attempt)
    /\ GoTo(w, "ESCALATE")
    /\ UNCHANGED <<vars, timeVars, receivedAt, requestVars, crashes>>

-----------------------------------------------------------------------------
(***************************************************************************)
(* persistCredentialUseDenial and persistSlaEscalation, await by await.    *)
(***************************************************************************)
\* lockObligation and lockAttemptsForObligation.
LockRows(w) ==
    /\ run[w].pc \in {"DENY", "ESCALATE"}
    /\ run[w].tx = "NONE"
    /\ LockFree(ObligationOf(run[w].attempt))
    /\ run' = [run EXCEPT ![w].tx = "LOCKED"]
    /\ UNCHANGED <<vars, timeVars, receivedAt, requestVars, crashes>>

ReadRow(w) ==
    /\ run[w].tx = "LOCKED"
    /\ run' = [run EXCEPT ![w].tx = "READ", ![w].seen = Snapshot(run[w].attempt)]
    /\ UNCHANGED <<vars, timeVars, receivedAt, requestVars, crashes>>

\* The row and its log rows are computed from the row that was read, not from what the row is.
WriteParked(a, seen, nextOutcome) ==
    LET nextReview == UnresolvedReview(seen.review)
    IN  /\ outcome' = [outcome EXCEPT ![a] = nextOutcome]
        /\ review' = [review EXCEPT ![a] = nextReview]
        /\ resolvedAt' = [resolvedAt EXCEPT ![a] = Null]
        /\ transitions' = IF nextOutcome = seen.outcome THEN transitions
                          ELSE transitions \cup {[attempt |-> a, prior |-> seen.outcome, next |-> nextOutcome]}
        /\ reviewHistory' = IF nextReview = seen.review THEN reviewHistory
                            ELSE reviewHistory \cup
                                 {[attempt |-> a, prior |-> seen.review, next |-> nextReview, reason |-> "STATUS"]}
        /\ UNCHANGED <<obligationVars, created, observations, outboxVars>>

\* A row that was resolved when it was read is left alone.
CommitDenial(w) ==
    LET a    == run[w].attempt
        seen == run[w].seen
    IN  /\ run[w].pc = "DENY"
        /\ run[w].tx = "READ"
        /\ IF seen.resolvedAt # Null THEN UNCHANGED vars
           ELSE /\ WriteParked(a, seen, "UNKNOWN")
                /\ attention' = attention \cup
                       {[attempt |-> a, code |-> "CREDENTIAL_SECURITY_ALERT", observation |-> Null]}
        /\ run' = [run EXCEPT ![w].pc = "CONSUME", ![w].tx = "NONE", ![w].seen = Null]
        /\ UNCHANGED <<timeVars, receivedAt, requestVars, crashes>>

CommitEscalation(w) ==
    LET seen == run[w].seen
    IN  /\ run[w].pc = "ESCALATE"
        /\ run[w].tx = "READ"
        /\ IF seen.resolvedAt # Null THEN UNCHANGED vars
           ELSE /\ WriteParked(run[w].attempt, seen, IF seen.outcome = "PENDING" THEN "UNKNOWN" ELSE seen.outcome)
                /\ UNCHANGED attention
        /\ LeaveAttempt(w)
        /\ UNCHANGED <<timeVars, receivedAt, requestVars, crashes>>

WorkerStep(w) ==
    \/ ListUnresolvedAttempts(w)
    \/ ListRequestedReadOnlyQueries(w)
    \/ NextAttempt(w)
    \/ FinishRun(w)
    \/ ClaimReadOnlyQueryRequest(w)
    \/ SkipQuery(w)
    \/ StartDenial(w)
    \/ SendQuery(w)
    \/ IngestAnswer(w)
    \/ RejectAnswer(w)
    \/ QueryFails(w)
    \/ PersistReadOnlyQueryConsumption(w)
    \/ SkipEscalation(w)
    \/ StartEscalation(w)
    \/ LockRows(w)
    \/ ReadRow(w)
    \/ CommitDenial(w)
    \/ CommitEscalation(w)

\* The process dies, or a dependency other than the query throws, between two steps; a
\* transaction that has not committed is rolled back and its locks are freed.
CutShort(w) ==
    /\ run[w].pc # "IDLE"
    /\ crashes < MaxCrashes
    /\ crashes' = crashes + 1
    /\ Abandon(w)
    /\ UNCHANGED <<vars, timeVars, receivedAt, requestRows, executions, consumptions>>

-----------------------------------------------------------------------------
(***************************************************************************)
(* The rest of the system between the worker's steps.                      *)
(***************************************************************************)
\* Bound: late enough attempts would see the clock stop before their window closes.
LastCreation == MaxClock - Policy.maxAutomatedQuery - 1

CreateNow(a) ==
    /\ clock <= LastCreation
    /\ LockFree(ObligationOf(a))
    /\ CreateAttempt(a)
    /\ createdAt' = [createdAt EXCEPT ![a] = clock]
    /\ UNCHANGED <<clock, receivedAt, requestVars, run, crashes>>

\* A reviewer may repeat a request under the same id.
RequestQuery(a, r) ==
    /\ LockFree(ObligationOf(a))
    /\ RequestReadOnlyQuery(a)
    /\ requestRows' = requestRows \cup {Row("REQUESTED", r, a)}
    /\ UNCHANGED <<timeVars, receivedAt, executions, consumptions, abandoned, run, crashes>>

\* Evidence from elsewhere, and reviewers.  AttachEvidenceReference, which only adds a
\* history row, and the closing of obligations are left to PaymentOrchestration.
OtherTransaction ==
    /\ \/ \E c \in ObservationIds : Receive(c)
       \/ \E a \in AttemptIds : LockFree(ObligationOf(a)) /\ ClaimReview(a) /\ UNCHANGED receivedAt
    /\ UNCHANGED <<timeVars, requestVars, run, crashes>>

Tick ==
    /\ clock < MaxClock
    /\ clock' = clock + 1
    /\ UNCHANGED <<vars, createdAt, receivedAt, requestVars, run, crashes>>

WorkerNext ==
    \/ \E w \in Workers : WorkerStep(w) \/ CutShort(w)
    \/ \E a \in AttemptIds : CreateNow(a)
    \/ \E a \in AttemptIds : \E r \in RequestIds : RequestQuery(a, r)
    \/ OtherTransaction
    \/ Tick

WorkerSpec == WorkerInit /\ [][WorkerNext]_allVars

\* Time passes, and runOnce is called again and again and each call goes on until it ends.
FairWorkerSpec == WorkerSpec /\ WF_allVars(Tick) /\ \A w \in Workers : WF_allVars(WorkerStep(w))

-----------------------------------------------------------------------------

\* However many workers see a reviewer's request, and however often the reviewer repeats
\* it, at most one query is sent for it and it is recorded as consumed at most once.
RequestsRunOnce ==
    \A p \in RequestIds \X AttemptIds : executions[p] <= 1 /\ consumptions[p] <= 1

\* What denial and escalation read under their locks is what they write over: with a list
\* however stale, and other workers, evidence and reviewers between any two awaits, each is
\* as good as one transaction of the evidence state machine, and does nothing to an attempt
\* that was resolved first ("a query that resolves concurrently wins and the escalation
\* becomes a no-op", persistSlaEscalation).
ImplementsOrchestration == Spec

\* A claimed request that is not consumed is in the hands of exactly one worker, or was
\* in the hands of a run that was cut short; no run that ends forgets one.
ClaimsAccountedFor ==
    \A p \in RequestIds \X AttemptIds :
        LET holders == {w \in Workers : Held(w) = p}
        IN  /\ \A v, w \in holders : v = w
            /\ Row("CLAIMED", p[1], p[2]) \in requestRows =>
                  \/ Row("CONSUMED", p[1], p[2]) \in requestRows
                  \/ holders # {}
                  \/ p \in abandoned

\* An attempt that is still unresolved when its SLA has passed comes in front of a
\* reviewer or is resolved, whether or not the provider ever answers.
OverdueIsSeen ==
    \A a \in AttemptIds :
        Unresolved(a) /\ SlaBreached(a) ~> ~Unresolved(a) \/ review[a] \in OpenReviews
=============================================================================
