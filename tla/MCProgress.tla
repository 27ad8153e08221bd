----------------------------- MODULE MCProgress -----------------------------
(***************************************************************************)
(* What must happen in the end: small instances of the refund queue, the   *)
(* worker, the coordinator and the wallet ledger, side by side.  A         *)
(* behaviour is about one of them, its part, for ever; each part has its   *)
(* own fairness, and nothing else is fair.                                 *)
(***************************************************************************)
EXTENDS RefundQueue, MCPayments

VARIABLES
    part,
    clock, createdAt, receivedAt, requestRows, executions, consumptions, abandoned, run, crashes,
    lockedBy, pc, inserted, answers, audits,
    posted, balance, at, todo, rows, holder, inserting, outbox, answer

workerVars == <<clock, createdAt, receivedAt, requestRows, executions, consumptions, abandoned, run, crashes>>
callVars == <<lockedBy, pc, inserted, answers, audits>>
ledgerVars == <<posted, balance, at, todo, rows, holder, inserting, outbox, answer>>
progressVars == <<part, vars, queueVars, workerVars, callVars, ledgerVars>>

CallsOf ==
    [a1 |-> <<"o1", "m1", "k1">>, a1Again |-> <<"o1", "m1", "k1">>, b1 |-> <<"o2", "m1", "k1">>]
ProgressAttemptRow == [a \in DOMAIN CallsOf |-> Attempt(CallsOf[a])]

\* What each part lets happen to the obligations.
Scope ==
    [refunds |-> [attempts |-> {"a1"}, evidence |-> {"a1Paid", "a1Other"}],
     sla     |-> [attempts |-> {"a1", "b1"}, evidence |-> {"a1Timeout", "a1Paid", "b1Timeout"}],
     calls   |-> [attempts |-> {"a1", "a1Again"}, evidence |-> {}],
     posts   |-> [attempts |-> {}, evidence |-> {}]]

-----------------------------------------------------------------------------
ProgressWorkers == {"w1"}
NoRequests == {}
Policy ==
    [approved |-> TRUE, merchant |-> "m1", approvedAt |-> 0, effectiveFrom |-> 0,
     effectiveUntil |-> 100, initialDelay |-> 1, cadence |-> 1, backoffMultiplier |-> 2,
     maxDelay |-> 2, sla |-> 2, maxAutomatedQuery |-> 3, evidenceHorizon |-> 9]
ActiveUse ==
    {[available |-> TRUE, sameBinding |-> TRUE, continuity |-> "PROVEN_SAME_ACCOUNT",
      credentialState |-> "ACTIVE", operation |-> "STATUS_QUERY"]}
StatusAnswers ==
    [a \in UsedAttempts |-> CASE a = "a1" -> {"a1Timeout", "a1Paid"} [] a = "b1" -> {"b1Timeout"} [] OTHER -> {}]

Worker == INSTANCE ReconciliationWorker WITH
              Workers <- ProgressWorkers, RequestIds <- NoRequests, Policy <- Policy,
              CredentialContexts <- ActiveUse, QueryAnswers <- StatusAnswers, MaxClock <- 4, MaxCrashes <- 1

Coordinator == INSTANCE AttemptCoordinator

\* A top-up, its repetition, and its reversal.
Entry(ref, hash, reversalOf, debited, credited) ==
    [ref |-> ref, hash |-> hash, scope |-> "custodial", reversalOf |-> reversalOf,
     postings |-> << [account |-> debited, direction |-> "debit", amount |-> 5],
                     [account |-> credited, direction |-> "credit", amount |-> 5] >>]
Posts == [topup |-> Entry("R1", "H1", Null, 2, 1), topupAgain |-> Entry("R1", "H1", Null, 2, 1),
          undo |-> Entry("R4", "H5", "topup", 1, 2)]
PostCalls == DOMAIN Posts
TwoAccounts == 1..2
TwoAccountRows ==
    [a \in TwoAccounts |-> [normalSide |-> IF a = 2 THEN "debit" ELSE "credit", scope |-> "custodial",
                            status |-> "active"]]

Ledger == INSTANCE WalletLedger WITH
              Calls <- PostCalls, Accounts <- TwoAccounts, Account <- TwoAccountRows, Command <- Posts, pc <- at

-----------------------------------------------------------------------------
ProgressInit ==
    /\ part \in DOMAIN Scope
    /\ QueueInit
    /\ Worker!WorkerInit
    /\ Coordinator!CoordinatorInit
    /\ Ledger!LedgerInit

Within(p) ==
    /\ created' \subseteq Scope[p].attempts /\ observations' \subseteq Scope[p].evidence
    /\ \A o \in ObligationIds \ {ObligationOf(a) : a \in Scope[p].attempts} :
          obligationStatus'[o] = obligationStatus[o]
    /\ UNCHANGED part

InRefunds(A) == part = "refunds" /\ A /\ UNCHANGED <<workerVars, callVars, ledgerVars>> /\ Within("refunds")
InSla(A)     == part = "sla" /\ A /\ UNCHANGED <<queueVars, callVars, ledgerVars>> /\ Within("sla")
InCalls(A)   ==
    /\ part = "calls" /\ A /\ UNCHANGED <<queueVars, workerVars, ledgerVars>> /\ Within("calls")
    /\ \A a \in AttemptIds \ Scope["calls"].attempts : pc'[a] = "IDLE"
InPosts(A)   == part = "posts" /\ A /\ UNCHANGED <<vars, queueVars, workerVars, callVars>> /\ Within("posts")

ProgressNext ==
    \/ InRefunds(QueueNext)
    \/ InSla(Worker!WorkerNext)
    \/ InCalls(Coordinator!CoordinatorNext)
    \/ InPosts(Ledger!LedgerNext)

\* The fairness of FairQueueSpec, FairWorkerSpec, FairCoordinatorSpec and FairLedgerSpec.
ProgressSpec ==
    /\ ProgressInit /\ [][ProgressNext]_progressVars
    /\ WF_progressVars(InRefunds(\E f \in RefundFacts : Consume(f)))
    /\ WF_progressVars(InRefunds(AdvanceToEscalationHorizon))
    /\ WF_progressVars(InSla(Worker!Tick))
    /\ \A w \in ProgressWorkers : WF_progressVars(InSla(Worker!WorkerStep(w)))
    /\ \A a \in AttemptIds : WF_progressVars(InCalls(Coordinator!CallStep(a)))
    /\ \A c \in PostCalls : WF_progressVars(InPosts(Ledger!CallStep(c)))

-----------------------------------------------------------------------------
\* ReconciliationWorker: an attempt past its SLA is seen by a reviewer or resolved.
OverdueIsSeen == Worker!OverdueIsSeen

\* AttemptCoordinator, WalletLedger: every call of createAttempt is answered, every post returns.
CallsAreAnswered == Coordinator!CallsAreAnswered /\ Ledger!CallsReturn

=============================================================================
