---------------------------- MODULE CallsAndCasesProofs ----------------------------
(***************************************************************************)
(* Theorems about what surrounds the evidence state machine: the calls of  *)
(* AttemptCoordinator, for any sets of obligations, calls and              *)
(* observations, and the cases of RefundQueue, for any facts, any order    *)
(* and repetition of their delivery, any horizon and anything people do    *)
(* with the cases.                                                         *)
(*                                                                         *)
(* The calls, interleaved await by await, implement the one-step           *)
(* createAttempt of PaymentOrchestration, and requests with one            *)
(* idempotency key get one attempt.  What a call has decided stays true    *)
(* while it holds the row lock, since everything that writes the           *)
(* obligation or resolves its attempts waits for the lock (Decided).       *)
(* Nothing protects what it found out about its key; there the unique      *)
(* index speaks: among the rows inserted and not yet committed keys are    *)
(* distinct, and none is the key of a committed row (KeysApart).           *)
(*                                                                         *)
(* CasesAreWorkedOff looks at closed and escalated cases only and is not   *)
(* inductive: a case one station away from being closed must have passed   *)
(* the stations before it.  QueueInv therefore says of every case which    *)
(* stations its history shows (Passed), and that a key without a case has  *)
(* no history, so that a new case starts with none.                        *)
(***************************************************************************)
EXTENDS AttemptCoordinator, RefundQueue, PaymentOrchestrationProofs

AnswerRecord == [kind : AnswerKinds, attempt : AttemptIds \cup {Null}]

CallsTyped ==
    /\ lockedBy \in [ObligationIds -> AttemptIds \cup {Null}]
    /\ pc \in [AttemptIds -> CallPCs]
    /\ answers \in [AttemptIds -> AnswerRecord]
    /\ inserted = {a \in AttemptIds : pc[a] = "COMMIT"}
    /\ \A a \in AttemptIds : pc[a] # "ANSWERED" => answers[a].kind = "NONE"

LocksHeld == \A a \in AttemptIds : pc[a] \in InTransaction <=> lockedBy[ObligationOf(a)] = a

\* What createAttempt checks under the lock.
MayInsert(a) ==
    /\ AttemptEligible(ObligationOf(a))
    /\ \A b \in created : ObligationOf(b) = ObligationOf(a) => resolvedAt[b] # Null
    /\ ActivationEnabled(a)

Decided ==
    \A a \in AttemptIds :
        /\ pc[a] \in InTransaction => ObligationRow[ObligationOf(a)].merchant = AttemptRow[a].merchant
        /\ pc[a] \in {"INSERT", "COMMIT"} => MayInsert(a)

KeysApart ==
    /\ \A a \in created : pc[a] = "ANSWERED"
    /\ \A a, b \in created : SameKey(a, b) => a = b
    /\ \A a \in AttemptIds : pc[a] = "COMMIT" => \A b \in created : ~SameKey(a, b)
    /\ \A a, b \in AttemptIds : pc[a] = "COMMIT" /\ pc[b] = "COMMIT" /\ SameKey(a, b) => a = b

AnswersTrue ==
    \A a \in AttemptIds :
        /\ answers[a].kind = "CREATED" => answers[a].attempt = a /\ a \in created
        /\ answers[a].kind = "IDEMPOTENT_REPLAY" =>
              /\ answers[a].attempt \in created
              /\ SameKey(a, answers[a].attempt)
        /\ answers[a].kind = "IDEMPOTENCY_KEY_CONFLICT" =>
              \E b \in created : SameKey(a, b) /\ ObligationOf(b) # ObligationOf(a)

CInv == /\ IInv
        /\ CallsTyped /\ LocksHeld /\ Decided /\ KeysApart /\ AnswersTrue /\ AuditNamesAttempts

-----------------------------------------------------------------------------
(***************************************************************************)
(* Steps.                                                                  *)
(***************************************************************************)
LEMMA CallPCsAre ==
    /\ InTransaction = {"FIND_REPLAY", "DECIDE", "INSERT", "COMMIT"}
    /\ CallPCs = {"FIND_REPLAY", "DECIDE", "INSERT", "COMMIT", "IDLE", "LOCK",
                  "FIND_REPLAY_AGAIN", "ANSWERED"}
  BY DEF InTransaction, CallPCs

\* The part of the invariant that is about calls reads the rows only through these.
QuietRows == UNCHANGED <<created, resolvedAt, obligationStatus, satisfiedAt>>

\* A call moves on without touching a row, a lock, an answer or an audit row.
LEMMA MovesOn ==
    ASSUME CInv, NEW a \in AttemptIds, NEW next,
           QuietRows, UNCHANGED <<lockedBy, inserted, answers, audits>>, CallGoes(a, next),
           \/ pc[a] = "IDLE" /\ next = "LOCK"
           \/ pc[a] = "FIND_REPLAY" /\ next = "DECIDE"
           \/ pc[a] = "DECIDE" /\ next = "INSERT" /\ MayInsert(a)
    PROVE  CallsTyped' /\ LocksHeld' /\ Decided' /\ KeysApart' /\ AnswersTrue'
  <1> USE CallPCsAre DEF CInv, QuietRows, CallGoes
  <1>1. /\ pc' \in [AttemptIds -> CallPCs]
        /\ pc'[a] = next
        /\ \A b \in AttemptIds : b # a => pc'[b] = pc[b]
    BY DEF CallsTyped
  <1>2. \A b : MayInsert(b)' <=> MayInsert(b)
    BY DEF MayInsert, AttemptEligible, ActivationEnabled
  <1>3. CallsTyped'
    BY <1>1 DEF CallsTyped
  <1>4. LocksHeld'
    BY <1>1 DEF LocksHeld
  <1>5. Decided'
    BY <1>1, <1>2 DEF Decided
  <1>6. KeysApart'
    BY <1>1 DEF KeysApart, SameKey
  <1>7. AnswersTrue'
    BY <1>1 DEF AnswersTrue, SameKey
  <1> QED
    BY <1>3, <1>4, <1>5, <1>6, <1>7

LEMMA LockObligationStep ==
    ASSUME CInv, NEW a \in AttemptIds, LockObligation(a)
    PROVE  CallsTyped' /\ LocksHeld' /\ Decided' /\ KeysApart' /\ AnswersTrue'
  <1> USE CallPCsAre, CallAssumption, RowAssumption DEF CInv, CallGoes, LockObligation, LockFree
  <1> DEFINE o == ObligationOf(a)
  <1>0. o \in ObligationIds
    BY DEF ObligationOf
  <1>1. /\ pc'[a] = "FIND_REPLAY" /\ pc' \in [AttemptIds -> CallPCs]
        /\ \A b \in AttemptIds : b # a => pc'[b] = pc[b]
        /\ lockedBy'[o] = a
        /\ lockedBy' \in [ObligationIds -> AttemptIds \cup {Null}]
        /\ \A p \in ObligationIds : p # o => lockedBy'[p] = lockedBy[p]
    BY <1>0 DEF CallsTyped
  <1>2. \A b : MayInsert(b)' <=> MayInsert(b)
    BY DEF MayInsert, AttemptEligible, ActivationEnabled, vars, obligationVars, attemptVars
  <1>3. CallsTyped'
    BY <1>1 DEF CallsTyped
  <1>4. LocksHeld'
    <2>1. \A b \in AttemptIds : ObligationOf(b) \in ObligationIds
      BY DEF ObligationOf
    <2> QED
      BY <1>0, <1>1, <2>1 DEF LocksHeld
  <1>5. Decided'
    BY <1>1, <1>2 DEF Decided
  <1>6. KeysApart'
    BY <1>1 DEF KeysApart, SameKey, vars
  <1>7. AnswersTrue'
    BY <1>1 DEF AnswersTrue, SameKey, vars
  <1> QED
    BY <1>3, <1>4, <1>5, <1>6, <1>7

\* The row is in, not committed: its key clashes with no row, committed or not.
LEMMA InsertStep ==
    ASSUME CInv, NEW a \in AttemptIds, pc[a] = "INSERT", QuietRows,
           ~ \E b \in inserted : IndexClash(a, b),
           ~ \E b \in created : IndexClash(a, b),
           inserted' = inserted \cup {a}, CallGoes(a, "COMMIT"),
           UNCHANGED <<lockedBy, answers, audits>>
    PROVE  CallsTyped' /\ LocksHeld' /\ Decided' /\ KeysApart' /\ AnswersTrue'
  <1> USE CallPCsAre DEF CInv, QuietRows, CallGoes
  <1>1. /\ pc' \in [AttemptIds -> CallPCs]
        /\ pc'[a] = "COMMIT"
        /\ \A b \in AttemptIds : b # a => pc'[b] = pc[b]
    BY DEF CallsTyped
  <1>2. \A b : MayInsert(b)' <=> MayInsert(b)
    BY DEF MayInsert, AttemptEligible, ActivationEnabled
  <1>3. CallsTyped'
    BY <1>1 DEF CallsTyped
  <1>4. LocksHeld'
    BY <1>1 DEF LocksHeld
  <1>5. Decided'
    BY <1>1, <1>2 DEF Decided
  <1>6. KeysApart'
    <2>1. \A b \in AttemptIds : pc[b] = "COMMIT" => ~SameKey(a, b)
      BY DEF CallsTyped, IndexClash
    <2>2. \A b \in created : ~SameKey(a, b)
      BY DEF IndexClash
    <2>3. \A b, c : SameKey(b, c) => SameKey(c, b)
      BY DEF SameKey
    <2> QED
      BY <1>1, <2>1, <2>2, <2>3 DEF KeysApart, SameKey
  <1>7. AnswersTrue'
    BY <1>1 DEF AnswersTrue, SameKey
  <1> QED
    BY <1>3, <1>4, <1>5, <1>6, <1>7

\* A call ends its transaction without an attempt of its own, or answers after it.
LEMMA EndsWithoutAttempt ==
    ASSUME CInv, NEW a \in AttemptIds, QuietRows,
           pc[a] \in CallPCs \ {"IDLE", "ANSWERED"},
           NEW next \in {"FIND_REPLAY_AGAIN", "ANSWERED"}, CallGoes(a, next),
           inserted' = inserted \ {a},
           IF pc[a] \in InTransaction THEN Release(a) ELSE UNCHANGED lockedBy,
           NEW r \in AnswerRecord, answers' = [answers EXCEPT ![a] = r],
           next = "FIND_REPLAY_AGAIN" => r.kind = "NONE",
           r.kind # "CREATED",
           r.kind = "IDEMPOTENT_REPLAY" => r.attempt \in created /\ SameKey(a, r.attempt),
           r.kind = "IDEMPOTENCY_KEY_CONFLICT" =>
              \E b \in created : SameKey(a, b) /\ ObligationOf(b) # ObligationOf(a)
    PROVE  CallsTyped' /\ LocksHeld' /\ Decided' /\ KeysApart' /\ AnswersTrue'
  <1> USE CallPCsAre, CallAssumption, RowAssumption DEF CInv, QuietRows, CallGoes
  <1>0. \A b \in AttemptIds : ObligationOf(b) \in ObligationIds
    BY DEF ObligationOf
  <1>1. /\ pc' \in [AttemptIds -> CallPCs]
        /\ pc'[a] = next
        /\ \A b \in AttemptIds : b # a => pc'[b] = pc[b]
        /\ answers' \in [AttemptIds -> AnswerRecord]
        /\ answers'[a] = r
        /\ \A b \in AttemptIds : b # a => answers'[b] = answers[b]
    BY DEF CallsTyped
  <1>2. \A b : MayInsert(b)' <=> MayInsert(b)
    BY DEF MayInsert, AttemptEligible, ActivationEnabled
  <1>3. lockedBy' \in [ObligationIds -> AttemptIds \cup {Null}]
    BY <1>0 DEF CallsTyped, Release
  <1>4. CallsTyped'
    BY <1>1, <1>3 DEF CallsTyped
  <1>5. LocksHeld'
    <2>1. CASE pc[a] \in InTransaction
      <3>1. lockedBy[ObligationOf(a)] = a
        BY <2>1 DEF LocksHeld
      <3>2. lockedBy' = [lockedBy EXCEPT ![ObligationOf(a)] = Null]
        BY <2>1 DEF Release
      <3> QED
        BY <1>0, <1>1, <3>1, <3>2 DEF LocksHeld, CallsTyped
    <2>2. CASE pc[a] \notin InTransaction
      BY <1>1, <2>2 DEF LocksHeld
    <2> QED
      BY <2>1, <2>2
  <1>6. Decided'
    BY <1>1, <1>2 DEF Decided
  <1>7. KeysApart'
    BY <1>1 DEF KeysApart, SameKey
  <1>8. AnswersTrue'
    BY <1>1 DEF AnswersTrue, SameKey
  <1> QED
    BY <1>4, <1>5, <1>6, <1>7, <1>8

LEMMA CommitStep ==
    ASSUME CInv, NEW a \in AttemptIds, Commit(a)
    PROVE  CallsTyped' /\ LocksHeld' /\ Decided' /\ KeysApart' /\ AnswersTrue'
  <1> USE CallPCsAre, CallAssumption, RowAssumption DEF CInv, Commit, CallGoes, Answer, Release
  <1>0. \A b \in AttemptIds : ObligationOf(b) \in ObligationIds
    BY DEF ObligationOf
  <1> DEFINE r == [kind |-> "CREATED", attempt |-> a]
  <1>r. r \in AnswerRecord /\ r.kind = "CREATED" /\ r.attempt = a
    BY DEF AnswerRecord, AnswerKinds
  <1>a. answers' = [answers EXCEPT ![a] = r]
    OBVIOUS
  <1> HIDE DEF r
  <1>1. /\ pc' \in [AttemptIds -> CallPCs]
        /\ pc'[a] = "ANSWERED"
        /\ \A b \in AttemptIds : b # a => pc'[b] = pc[b]
        /\ answers' \in [AttemptIds -> AnswerRecord]
        /\ answers'[a] = r
        /\ \A b \in AttemptIds : b # a => answers'[b] = answers[b]
    BY <1>r, <1>a DEF CallsTyped
  <1>2. lockedBy[ObligationOf(a)] = a
    BY DEF LocksHeld
  <1>3. CallsTyped'
    BY <1>0, <1>1, <1>r DEF CallsTyped
  <1>4. LocksHeld'
    BY <1>0, <1>1, <1>2 DEF LocksHeld, CallsTyped
  <1>5. Decided'
    <2>1. \A b \in AttemptIds : b # a /\ pc[b] \in InTransaction => ObligationOf(b) # ObligationOf(a)
      BY <1>2 DEF LocksHeld
    <2>2. \A b \in AttemptIds : b # a /\ pc[b] \in InTransaction /\ MayInsert(b) => MayInsert(b)'
      BY <2>1 DEF MayInsert, AttemptEligible, ActivationEnabled, obligationVars, attemptVars
    <2> QED
      BY <1>1, <2>2 DEF Decided
  <1>6. KeysApart'
    <2>1. \A b, c : SameKey(b, c) => SameKey(c, b)
      BY DEF SameKey
    <2>2. \A b \in created : ~SameKey(a, b)
      BY DEF KeysApart
    <2>3. \A b \in AttemptIds : pc[b] = "COMMIT" /\ SameKey(a, b) => a = b
      BY DEF KeysApart
    <2>4. \A b, c : SameKey(b, c)' <=> SameKey(b, c)
      BY DEF SameKey
    <2>5. created \subseteq AttemptIds
      BY DEF IInv, TypeOK
    <2> HIDE DEF SameKey
    <2> QED
      BY <1>1, <2>1, <2>2, <2>3, <2>4, <2>5 DEF KeysApart
  <1>7. AnswersTrue'
    BY <1>1, <1>r DEF AnswersTrue, SameKey
  <1> QED
    BY <1>3, <1>4, <1>5, <1>6, <1>7

\* Everybody else: an attempt stays resolved, and whoever holds a row lock finds the
\* obligation and its attempts as it left them.
LEMMA OtherStep ==
    ASSUME CInv, OtherTransaction
    PROVE  /\ Next
           /\ CallsTyped' /\ LocksHeld' /\ Decided' /\ KeysApart' /\ AnswersTrue'
           /\ AuditNamesAttempts'
  <1> USE CallPCsAre, CallAssumption, RowAssumption DEF CInv
  <1>0. UNCHANGED callVars
    BY DEF OtherTransaction
  <1>1. Next
    BY DEF OtherTransaction, Next
  <1>2. created' = created
    <2>1. \A c \in ObservationIds : IngestObservation(c) => created' = created
      BY DEF IngestObservation
    <2>2. \A a \in AttemptIds : \/ SlaEscalation(a) \/ CredentialUseDenial(a) \/ ClaimReview(a)
                                \/ AttachEvidenceReference(a) \/ RequestReadOnlyQuery(a)
                                => created' = created
      BY DEF SlaEscalation, CredentialUseDenial, ClaimReview, AttachEvidenceReference,
             RequestReadOnlyQuery, ReviewNote
    <2>3. \A o, closed : CloseObligation(o, closed) => created' = created
      BY DEF CloseObligation
    <2> QED
      BY <2>1, <2>2, <2>3 DEF OtherTransaction
  <1>3. ASSUME NEW o \in ObligationIds, lockedBy[o] # Null
        PROVE  /\ obligationStatus'[o] = obligationStatus[o] /\ satisfiedAt'[o] = satisfiedAt[o]
               /\ \A b \in AttemptIds : ObligationOf(b) = o => resolvedAt'[b] = resolvedAt[b]
    <2>1. ASSUME NEW c \in ObservationIds, IngestObservation(c), ObservationRow[c].obligation # o
          PROVE  /\ obligationStatus'[o] = obligationStatus[o] /\ satisfiedAt'[o] = satisfiedAt[o]
                 /\ \A b \in AttemptIds : ObligationOf(b) = o => resolvedAt'[b] = resolvedAt[b]
      <3> DEFINE a == ObservationRow[c].attempt
                 p == ObservationRow[c].obligation
                 plan == ReduceEvidence(a, EvidenceFor(p, observations \cup {c}), c,
                                        c \notin observations, obligationStatus[p], Snapshot(a))
      <3>1. ObligationOf(a) = p /\ PersistReduction(a, p, c, plan)
        BY <2>1 DEF IngestObservation
      <3> HIDE DEF plan
      <3>2. WriteAttempt(a, c, plan) /\ SatisfyObligation(p, c, plan)
        BY <3>1 DEF PersistReduction
      <3>3. \A b \in AttemptIds : b # a => resolvedAt'[b] = resolvedAt[b]
        BY <3>2 DEF WriteAttempt, IInv, TypeOK
      <3>4. obligationStatus'[o] = obligationStatus[o] /\ satisfiedAt'[o] = satisfiedAt[o]
        BY <3>2, <2>1 DEF SatisfyObligation, obligationVars, IInv, TypeOK
      <3> QED
        BY <2>1, <3>1, <3>3, <3>4
    <2>2. ASSUME NEW a \in AttemptIds,
                 \/ SlaEscalation(a) \/ CredentialUseDenial(a) \/ ClaimReview(a)
                 \/ AttachEvidenceReference(a) \/ RequestReadOnlyQuery(a)
          PROVE  UNCHANGED <<obligationStatus, satisfiedAt, resolvedAt>>
      BY <2>2 DEF SlaEscalation, CredentialUseDenial, ClaimReview, AttachEvidenceReference,
                  RequestReadOnlyQuery, ReviewNote, obligationVars, attemptVars
    <2>3. ASSUME NEW p \in ObligationIds, NEW closed, CloseObligation(p, closed), p # o
          PROVE  /\ obligationStatus'[o] = obligationStatus[o]
                 /\ UNCHANGED <<satisfiedAt, resolvedAt>>
      BY <2>3 DEF CloseObligation, attemptVars, IInv, TypeOK
    <2> QED
      BY <1>3, <2>1, <2>2, <2>3 DEF OtherTransaction, LockFree
  <1>4. \A a \in AttemptIds : pc[a] \in InTransaction /\ MayInsert(a) => MayInsert(a)'
    <2> SUFFICES ASSUME NEW a \in AttemptIds, pc[a] \in InTransaction, MayInsert(a)
                 PROVE  MayInsert(a)'
      OBVIOUS
    <2>1. ObligationOf(a) \in ObligationIds /\ lockedBy[ObligationOf(a)] # Null
      BY DEF ObligationOf, LocksHeld
    <2>2. created \subseteq AttemptIds
      BY DEF IInv, TypeOK
    <2> QED
      BY <1>2, <1>3, <2>1, <2>2 DEF MayInsert, AttemptEligible, ActivationEnabled
  <1>5. CallsTyped' /\ LocksHeld' /\ AuditNamesAttempts'
    BY <1>0, <1>2 DEF callVars, CallsTyped, LocksHeld, AuditNamesAttempts
  <1>6. Decided'
    BY <1>0, <1>4 DEF callVars, Decided
  <1>7. KeysApart' /\ AnswersTrue'
    BY <1>0, <1>2 DEF callVars, KeysApart, AnswersTrue, SameKey
  <1> QED
    BY <1>1, <1>5, <1>6, <1>7

LEMMA CoordinatorInitInvariant == ASSUME CoordinatorInit PROVE CInv
  <1> USE CallPCsAre, CallAssumption, RowAssumption DEF CoordinatorInit, Init
  <1>1. IInv
    BY InitInvariant
  <1>2. CallsTyped
    BY DEF CallsTyped, AnswerRecord, AnswerKinds
  <1>3. LocksHeld
    BY DEF LocksHeld, ObligationOf
  <1>4. Decided /\ KeysApart /\ AnswersTrue /\ AuditNamesAttempts
    BY DEF Decided, KeysApart, AnswersTrue, AuditNamesAttempts
  <1> QED
    BY <1>1, <1>2, <1>3, <1>4 DEF CInv

LEMMA CallStepInvariant ==
    ASSUME CInv, NEW a \in AttemptIds, Call(a) \/ CallStep(a) \/ RollBack(a)
    PROVE  /\ UNCHANGED vars \/ CreateAttempt(a)
           /\ CallsTyped' /\ LocksHeld' /\ Decided' /\ KeysApart' /\ AnswersTrue'
           /\ AuditNamesAttempts'
  <1> USE CallPCsAre DEF CInv
  <1> DEFINE Goal == /\ CallsTyped' /\ LocksHeld' /\ Decided' /\ KeysApart' /\ AnswersTrue'
                     /\ AuditNamesAttempts'
  <1>q. UNCHANGED vars => QuietRows
    BY DEF vars, obligationVars, attemptVars, QuietRows
  <1>n. a \notin inserted => inserted \ {a} = inserted
    OBVIOUS
  <1>c. created \subseteq AttemptIds /\ (pc[a] # "COMMIT" => a \notin inserted)
    BY DEF IInv, TypeOK, CallsTyped
  <1>u. ASSUME UNCHANGED <<created, audits>> PROVE AuditNamesAttempts'
    BY <1>u DEF AuditNamesAttempts
  <1>r. \A kind \in AnswerKinds, b \in AttemptIds \cup {Null} :
            [kind |-> kind, attempt |-> b] \in AnswerRecord
    BY DEF AnswerRecord
  \* A refusal leaves an audit row that authorises nothing.
  <1>f. ASSUME NEW decision \in {"NO_EXECUTION", "DISABLED"},
               NEW reason \in AnswerKinds \ {"NONE", "CREATED", "IDEMPOTENCY_KEY_CONFLICT"},
               NEW b \in AttemptIds \cup {Null}, Refuse(a, decision, reason, b),
               pc[a] \in InTransaction \ {"COMMIT"},
               reason = "IDEMPOTENT_REPLAY" => b \in created /\ SameKey(a, b)
        PROVE  UNCHANGED vars /\ Goal
    <2> DEFINE r == [kind |-> reason, attempt |-> b]
    <2>1. /\ CallGoes(a, "ANSWERED") /\ answers' = [answers EXCEPT ![a] = r]
          /\ Release(a) /\ UNCHANGED <<vars, inserted>>
      BY <1>f DEF Refuse, Answer
    <2>2. r \in AnswerRecord /\ r.kind = reason /\ r.attempt = b
      BY <1>r
    <2> HIDE DEF r
    <2>3. CallsTyped' /\ LocksHeld' /\ Decided' /\ KeysApart' /\ AnswersTrue'
      BY <1>f, <1>q, <1>n, <1>c, <2>1, <2>2, EndsWithoutAttempt
    <2>4. AuditNamesAttempts'
      BY <1>f, <2>1 DEF Refuse, Audit, AuditNamesAttempts, vars
    <2> QED
      BY <2>1, <2>3, <2>4
  \* Any other answer leaves nothing.
  <1>g. ASSUME NEW kind \in AnswerKinds \ {"NONE", "CREATED"}, NEW b \in AttemptIds \cup {Null},
               Answer(a, kind, b), pc[a] \in InTransaction \cup {"LOCK", "FIND_REPLAY_AGAIN"},
               inserted' = inserted \ {a}, UNCHANGED <<vars, audits>>,
               IF pc[a] \in InTransaction THEN Release(a) ELSE UNCHANGED lockedBy,
               kind = "IDEMPOTENT_REPLAY" => b \in created /\ SameKey(a, b),
               kind = "IDEMPOTENCY_KEY_CONFLICT" =>
                  \E d \in created : SameKey(a, d) /\ ObligationOf(d) # ObligationOf(a)
        PROVE  UNCHANGED vars /\ Goal
    <2> DEFINE r == [kind |-> kind, attempt |-> b]
    <2>1. CallGoes(a, "ANSWERED") /\ answers' = [answers EXCEPT ![a] = r]
      BY <1>g DEF Answer
    <2>2. r \in AnswerRecord /\ r.kind = kind /\ r.attempt = b
      BY <1>r
    <2> HIDE DEF r
    <2>3. CallsTyped' /\ LocksHeld' /\ Decided' /\ KeysApart' /\ AnswersTrue'
      BY <1>g, <1>q, <2>1, <2>2, EndsWithoutAttempt
    <2>4. AuditNamesAttempts'
      BY <1>g, <1>u DEF vars
    <2> QED
      BY <1>g, <2>3, <2>4
  <1>k. AnswerKinds = {"NONE", "CREATED", "IDEMPOTENT_REPLAY", "EXISTING_UNRESOLVED",
                       "OBLIGATION_NOT_FOUND", "IDEMPOTENCY_KEY_CONFLICT",
                       "OBLIGATION_NOT_ATTEMPT_ELIGIBLE", "POLICY_DISABLED",
                       "UNIQUE_CONFLICT", "LOST"}
    BY DEF AnswerKinds
  <1>s. \A b \in ReplaysOf(a) : b \in created /\ b \in AttemptIds /\ SameKey(a, b)
    BY <1>c DEF ReplaysOf, SameKey
  <1>1. CASE Call(a)
    BY <1>1, <1>q, <1>u, MovesOn DEF Call, vars
  <1>2. CASE ObligationNotFound(a)
    BY <1>2, <1>g, <1>k, <1>n, <1>c DEF ObligationNotFound
  <1>3. CASE LockObligation(a)
    BY <1>3, <1>u, LockObligationStep DEF LockObligation, vars
  <1>4. CASE FindReplay(a)
    <2>1. CASE CallGoes(a, "DECIDE") /\ UNCHANGED <<vars, lockedBy, inserted, answers, audits>>
      BY <1>4, <2>1, <1>q, <1>u, MovesOn DEF FindReplay, vars
    <2>2. ASSUME NEW b \in ReplaysOf(a), Refuse(a, "NO_EXECUTION", "IDEMPOTENT_REPLAY", b)
          PROVE  UNCHANGED vars /\ Goal
      BY <1>4, <2>2, <1>f, <1>k, <1>s DEF FindReplay
    <2>3. ASSUME NEW b \in ReplaysOf(a), ObligationOf(b) # ObligationOf(a),
                 Answer(a, "IDEMPOTENCY_KEY_CONFLICT", Null), Release(a),
                 UNCHANGED <<vars, inserted, audits>>
          PROVE  UNCHANGED vars /\ Goal
      BY <1>4, <2>3, <1>g, <1>k, <1>n, <1>c, <1>s DEF FindReplay
    <2> QED
      BY <1>4, <2>1, <2>2, <2>3 DEF FindReplay
  <1>5. CASE Decide(a)
    <2>1. ASSUME CallGoes(a, "INSERT"), UNCHANGED <<vars, lockedBy, inserted, answers, audits>>,
                 AttemptEligible(ObligationOf(a)), UnresolvedOf(a) = {}, ActivationEnabled(a)
          PROVE  UNCHANGED vars /\ Goal
      <3>1. MayInsert(a)
        BY <2>1 DEF MayInsert, UnresolvedOf, AttemptsOf, Unresolved
      <3> QED
        BY <1>5, <2>1, <3>1, <1>q, <1>u, MovesOn DEF Decide, vars
    <2>2. ASSUME NEW b \in UnresolvedOf(a), Refuse(a, "NO_EXECUTION", "EXISTING_UNRESOLVED", b)
          PROVE  UNCHANGED vars /\ Goal
      <3>1. b \in AttemptIds
        BY <1>c DEF UnresolvedOf, AttemptsOf
      <3> QED
        BY <1>5, <2>2, <3>1, <1>f, <1>k DEF Decide
    <2>3. ASSUME \/ Refuse(a, "NO_EXECUTION", "OBLIGATION_NOT_ATTEMPT_ELIGIBLE", Null)
                 \/ Refuse(a, "DISABLED", "POLICY_DISABLED", Null)
          PROVE  UNCHANGED vars /\ Goal
      BY <1>5, <2>3, <1>f, <1>k DEF Decide
    <2> QED
      BY <1>5, <2>1, <2>2, <2>3 DEF Decide
  <1>6. CASE Insert(a)
    <2>1. CASE \E b \in created : IndexClash(a, b)
      <3>1. /\ pc[a] = "INSERT" /\ Release(a) /\ CallGoes(a, "FIND_REPLAY_AGAIN")
            /\ UNCHANGED <<vars, inserted, answers, audits>>
        BY <1>6, <2>1 DEF Insert
      <3>2. /\ answers[a] \in AnswerRecord /\ answers[a].kind = "NONE"
            /\ answers' = [answers EXCEPT ![a] = answers[a]]
        BY <3>1 DEF CallsTyped
      <3>3. CallsTyped' /\ LocksHeld' /\ Decided' /\ KeysApart' /\ AnswersTrue'
        BY <3>1, <3>2, <1>q, <1>n, <1>c, EndsWithoutAttempt
      <3> QED
        BY <3>1, <3>3, <1>u DEF vars
    <2>2. CASE ~ \E b \in created : IndexClash(a, b)
      BY <1>6, <2>2, <1>q, <1>u, InsertStep DEF Insert, vars
    <2> QED
      BY <2>1, <2>2
  <1>7. CASE Commit(a)
    <2>1. CreateAttempt(a)
      <3>1. pc[a] = "COMMIT" /\ MayInsert(a)
        BY <1>7 DEF Commit, Decided
      <3>2. a \notin created /\ ~KeyUsed(a)
        BY <3>1 DEF KeysApart, KeyUsed, SameKey
      <3>3. ObligationRow[ObligationOf(a)].merchant = AttemptRow[a].merchant
        BY <3>1 DEF Decided
      <3> QED
        BY <1>7, <3>1, <3>2, <3>3 DEF Commit, CreateAttempt, MayInsert, AttemptsOf
    <2>2. AuditNamesAttempts'
      <3> DEFINE row        == [call |-> a, decision |-> "ENABLED",
                                reason |-> "POLICY_AUTHORIZED", attempt |-> a]
                 enabled(s) == {q \in s : q.decision = "ENABLED"}
      <3>1. audits' = audits \cup {row} /\ created' = created \cup {a}
        BY <1>7 DEF Commit, Audit
      <3>2. enabled(audits') = enabled(audits) \cup {row}
        BY <3>1
      <3>3. row.attempt = a
        OBVIOUS
      <3>4. created = {r.attempt : r \in enabled(audits)}
        BY DEF AuditNamesAttempts
      <3>5. created' = {r.attempt : r \in enabled(audits')}
        <4> HIDE DEF row, enabled
        <4> QED
          BY <3>1, <3>2, <3>3, <3>4
      <3> QED
        BY <3>5 DEF AuditNamesAttempts
    <2> QED
      BY <1>7, <2>1, <2>2, CommitStep
  <1>8. CASE FindReplayAgain(a)
    <2>1. /\ pc[a] = "FIND_REPLAY_AGAIN"
          /\ UNCHANGED <<vars, lockedBy, inserted, audits>>
          /\ inserted' = inserted \ {a}
      BY <1>8, <1>n, <1>c DEF FindReplayAgain
    <2>2. ASSUME NEW b \in ReplaysOf(a), Answer(a, "IDEMPOTENT_REPLAY", b)
          PROVE  UNCHANGED vars /\ Goal
      BY <2>1, <2>2, <1>g, <1>k, <1>s
    <2>3. ASSUME NEW b \in ReplaysOf(a), ObligationOf(b) # ObligationOf(a),
                 Answer(a, "IDEMPOTENCY_KEY_CONFLICT", Null)
          PROVE  UNCHANGED vars /\ Goal
      BY <2>1, <2>3, <1>g, <1>k, <1>s
    <2>4. ASSUME Answer(a, "UNIQUE_CONFLICT", Null)
          PROVE  UNCHANGED vars /\ Goal
      BY <2>1, <2>4, <1>g, <1>k
    <2> QED
      BY <1>8, <2>2, <2>3, <2>4 DEF FindReplayAgain
  <1>9. CASE RollBack(a)
    BY <1>9, <1>g, <1>k DEF RollBack
  <1> QED
    BY <1>1, <1>2, <1>3, <1>4, <1>5, <1>6, <1>7, <1>8, <1>9 DEF CallStep

LEMMA CoordinatorNextInvariant ==
    ASSUME CInv, [CoordinatorNext]_coordinatorVars
    PROVE  CInv' /\ [Next]_vars
  <1> DEFINE Goal == /\ CallsTyped' /\ LocksHeld' /\ Decided' /\ KeysApart' /\ AnswersTrue'
                     /\ AuditNamesAttempts'
  <1>1. ASSUME NEW a \in AttemptIds, Call(a) \/ CallStep(a) \/ RollBack(a)
        PROVE  [Next]_vars /\ Goal
    BY <1>1, CallStepInvariant DEF Next
  <1>2. ASSUME OtherTransaction
        PROVE  [Next]_vars /\ Goal
    BY <1>2, OtherStep
  <1>3. ASSUME UNCHANGED coordinatorVars
        PROVE  [Next]_vars /\ Goal
    <2>1. /\ UNCHANGED <<vars, callVars>>
          /\ UNCHANGED <<created, resolvedAt, obligationStatus, satisfiedAt>>
      BY <1>3 DEF coordinatorVars, vars, obligationVars, attemptVars
    <2>2. CallsTyped' /\ LocksHeld' /\ AuditNamesAttempts'
      BY <2>1 DEF callVars, CInv, CallsTyped, LocksHeld, AuditNamesAttempts
    <2>3. Decided' /\ KeysApart' /\ AnswersTrue'
      BY <2>1 DEF callVars, CInv, Decided, MayInsert, AttemptEligible, ActivationEnabled, KeysApart,
                  AnswersTrue, SameKey
    <2> QED
      BY <2>1, <2>2, <2>3
  <1>4. [Next]_vars /\ Goal
    BY <1>1, <1>2, <1>3 DEF CoordinatorNext
  <1>5. IInv'
    BY <1>4, NextInvariant DEF CInv
  <1> QED
    BY <1>4, <1>5 DEF CInv

-----------------------------------------------------------------------------
(***************************************************************************)
(* Theorems.                                                               *)
(***************************************************************************)

\* What a call has decided stays true while it holds the row lock, and keys are distinct among all rows
\* (createAttempt).
THEOREM CoordinatorInvariant == CoordinatorSpec => []CInv
  BY CoordinatorInitInvariant, CoordinatorNextInvariant, PTL DEF CoordinatorSpec

\* The calls, however interleaved and wherever they are lost, commit only what createAttempt
\* would do in one step.
THEOREM CoordinatorImplements == CoordinatorSpec => ImplementsCreateAttempt
  <1>1. CoordinatorInit => Init
    BY DEF CoordinatorInit
  <1>2. CInv /\ [CoordinatorNext]_coordinatorVars => [Next]_vars
    BY CoordinatorNextInvariant
  <1> QED
    BY <1>1, <1>2, CoordinatorInvariant, PTL
    DEF CoordinatorSpec, ImplementsCreateAttempt, Spec

\* So racing calls, too, leave an obligation at most one unresolved attempt.
THEOREM CoordinatorKeepsOneUnresolved == CoordinatorSpec => []OneUnresolvedAttempt
  BY CoordinatorImplements, AtMostOneUnresolved DEF ImplementsCreateAttempt

\* Requests of a merchant with one key get one attempt.
THEOREM KeyGetsOneAttempt == CoordinatorSpec => []OneAttemptPerKey
  <1>1. ASSUME CInv PROVE OneAttemptPerKey
    <2>1. /\ \A a, b, c : SameKey(a, b) /\ SameKey(b, c) => SameKey(a, c)
          /\ \A a, b : SameKey(a, b) => SameKey(b, a)
      BY DEF SameKey
    <2>2. \A a : SameKey(a, a)
      BY DEF SameKey
    <2> QED
      BY <1>1, <2>1, <2>2 DEF CInv, KeysApart, AnswersTrue, OneAttemptPerKey
  <1> QED
    BY <1>1, CoordinatorInvariant, PTL

\* The audit authorises exactly the attempts that exist.
THEOREM AuditIsExact == CoordinatorSpec => []AuditNamesAttempts
  <1>1. CInv => AuditNamesAttempts
    BY DEF CInv
  <1> QED
    BY <1>1, CoordinatorInvariant, PTL

-----------------------------------------------------------------------------
(* The refund queue. *)

Stations == {"OPEN", "ACKNOWLEDGED", "MERCHANT_ACTION_PENDING", "VERIFICATION_PENDING",
             "VERIFIED_CLOSED", "ESCALATED_UNRESOLVED"}

\* The stations a case has passed by the time it has a status other than escalated.
PassedBy ==
    [OPEN                    |-> {},
     ACKNOWLEDGED            |-> {"ACKNOWLEDGED"},
     MERCHANT_ACTION_PENDING |-> {"ACKNOWLEDGED", "MERCHANT_ACTION_PENDING"},
     VERIFICATION_PENDING    |-> {"ACKNOWLEDGED", "MERCHANT_ACTION_PENDING", "VERIFICATION_PENDING"},
     VERIFIED_CLOSED         |-> {"ACKNOWLEDGED", "MERCHANT_ACTION_PENDING", "VERIFICATION_PENDING",
                                  "VERIFIED_CLOSED"}]

Passed(k) == {r.to : r \in {h \in history : h.case = k}}

\* What is true of a case with a status, an escalation count and a past.
CaseIsSound(case, count, past) ==
    /\ DOMAIN case = {"status", "attempt", "evidence"}
    /\ case.status \in Stations
    /\ case.status = "VERIFIED_CLOSED" => case.evidence = "PROVIDER_REFUND_OBSERVATION"
    /\ count = IF case.status = "ESCALATED_UNRESOLVED" THEN 1 ELSE 0
    /\ IF case.status = "ESCALATED_UNRESOLVED" THEN "ESCALATED_UNRESOLVED" \in past
                                               ELSE past = PassedBy[case.status]

Tables ==
    /\ cases = [k \in DOMAIN cases |-> cases[k]]
    /\ escalations = [k \in DOMAIN cases |-> escalations[k]]

CasesSound == \A k \in DOMAIN cases : CaseIsSound(cases[k], escalations[k], Passed(k))

NoStrayHistory == \A h \in history : h.case \in DOMAIN cases

QueueInv == Tables /\ CasesSound /\ NoStrayHistory

-----------------------------------------------------------------------------
\* The statuses of the transition table, and where each leads.
LEMMA TableMeaning ==
    /\ CaseStatuses = Stations
    /\ \A s \in Stations : \A next \in AllowedTransitions[s] :
          /\ next \in Stations \ {"OPEN"}
          /\ s \notin Settled
          /\ next # "ESCALATED_UNRESOLVED" => PassedBy[next] = PassedBy[s] \cup {next}
  BY DEF CaseStatuses, Stations, AllowedTransitions, PassedBy, Settled

\* Logging a step of one case adds to its past and to no other.
LEMMA PastGrows ==
    ASSUME NEW k, NEW next, NEW from, NEW j,
           history' = history \cup {[case |-> k, from |-> from, to |-> next]}
    PROVE  Passed(j)' = Passed(j) \cup (IF j = k THEN {next} ELSE {})
  <1> DEFINE new == [case |-> k, from |-> from, to |-> next]
  <1>1. new.case = k /\ new.to = next
    OBVIOUS
  <1>2. {h \in history' : h.case = j} =
           {h \in history : h.case = j} \cup (IF j = k THEN {new} ELSE {})
    BY <1>1
  <1> HIDE DEF new
  <1> QED
    BY <1>1, <1>2 DEF Passed

\* A step of one case along the table.
LEMMA StepOfACase ==
    ASSUME QueueInv, NEW k \in DOMAIN cases, NEW next \in AllowedTransitions[cases[k].status],
           NEW case, DOMAIN case = {"status", "attempt", "evidence"}, case.status = next,
           next = "VERIFIED_CLOSED" => case.evidence = "PROVIDER_REFUND_OBSERVATION",
           next # "ESCALATED_UNRESOLVED",
           cases' = [cases EXCEPT ![k] = case], escalations' = escalations,
           history' = history \cup {[case |-> k, from |-> cases[k].status, to |-> next]}
    PROVE  QueueInv'
  <1>1. DOMAIN cases' = DOMAIN cases /\ Tables'
    BY DEF QueueInv, Tables
  <1>2. NoStrayHistory'
    BY <1>1 DEF QueueInv, NoStrayHistory
  <1>3. ASSUME NEW j \in DOMAIN cases
        PROVE  CaseIsSound(cases'[j], escalations'[j], Passed(j)')
    <2>1. CaseIsSound(cases[j], escalations[j], Passed(j))
      BY DEF QueueInv, CasesSound
    <2>2. Passed(j)' = Passed(j) \cup (IF j = k THEN {next} ELSE {})
      BY PastGrows
    <2>3. CASE j = k
      <3>1. /\ cases[k].status \in Stations /\ next \in Stations
            /\ cases[k].status # "ESCALATED_UNRESOLVED"
            /\ PassedBy[next] = PassedBy[cases[k].status] \cup {next}
        BY <2>1, <2>3, TableMeaning DEF CaseIsSound, Settled
      <3> QED
        BY <2>1, <2>2, <2>3, <3>1 DEF CaseIsSound
    <2>4. CASE j # k
      BY <2>1, <2>2, <2>4
    <2> QED
      BY <2>3, <2>4
  <1> QED
    BY <1>1, <1>2, <1>3 DEF QueueInv, CasesSound

LEMMA TransitionStep ==
    ASSUME QueueInv, NEW k \in DOMAIN cases, NEW next, next # "ESCALATED_UNRESOLVED",
           next # "VERIFIED_CLOSED", Transition(k, next)
    PROVE  QueueInv'
  <1> DEFINE case == [cases[k] EXCEPT !.status = next]
  <1>1. DOMAIN case = {"status", "attempt", "evidence"} /\ case.status = next
    BY DEF QueueInv, CasesSound, CaseIsSound
  <1>2. /\ next \in AllowedTransitions[cases[k].status]
        /\ cases' = [cases EXCEPT ![k] = case]
        /\ history' = history \cup {[case |-> k, from |-> cases[k].status, to |-> next]}
        /\ escalations' = escalations
    BY DEF Transition, LogTransition
  <1> HIDE DEF case
  <1> QED
    BY <1>1, <1>2, StepOfACase

LEMMA VerifyClosedStep ==
    ASSUME QueueInv, NEW k \in DOMAIN cases, NEW evidence, VerifyClosed(k, evidence)
    PROVE  QueueInv'
  <1> DEFINE case == [cases[k] EXCEPT !.status = "VERIFIED_CLOSED", !.evidence = evidence]
  <1>1. /\ DOMAIN case = {"status", "attempt", "evidence"}
        /\ case.status = "VERIFIED_CLOSED" /\ case.evidence = evidence
    BY DEF QueueInv, CasesSound, CaseIsSound
  <1>2. /\ evidence = "PROVIDER_REFUND_OBSERVATION"
        /\ "VERIFIED_CLOSED" \in AllowedTransitions[cases[k].status]
        /\ cases' = [cases EXCEPT ![k] = case]
        /\ history' = history \cup
              {[case |-> k, from |-> cases[k].status, to |-> "VERIFIED_CLOSED"]}
        /\ escalations' = escalations
    BY DEF VerifyClosed, LogTransition
  <1> HIDE DEF case
  <1> QED
    BY <1>1, <1>2, StepOfACase

LEMMA ConsumeStep ==
    ASSUME QueueInv, NEW fact, Consume(fact)
    PROVE  QueueInv'
  <1> DEFINE key == fact.key
             case == [status |-> "OPEN", attempt |-> AttemptOf(fact.observation), evidence |-> Null]
  <1>1. /\ key \notin DOMAIN cases
        /\ history' = history
        /\ DOMAIN cases' = DOMAIN cases \cup {key}
        /\ cases' = [k \in DOMAIN cases' |-> IF k = key THEN case ELSE cases[k]]
        /\ escalations' = [k \in DOMAIN cases' |-> IF k = key THEN 0 ELSE escalations[k]]
    BY DEF Consume, QueueInv, Tables
  <1>2. Tables'
    BY <1>1 DEF Tables
  <1>3. NoStrayHistory'
    BY <1>1 DEF QueueInv, NoStrayHistory
  <1>4. ASSUME NEW j \in DOMAIN cases'
        PROVE  CaseIsSound(cases'[j], escalations'[j], Passed(j)')
    <2>1. Passed(j)' = Passed(j)
      BY <1>1 DEF Passed
    <2>2. CASE j = key
      <3>1. Passed(j) = {}
        BY <1>1, <2>2 DEF Passed, QueueInv, NoStrayHistory
      <3> QED
        BY <1>1, <2>1, <2>2, <3>1 DEF CaseIsSound, PassedBy, Stations
    <2>3. CASE j # key
      BY <1>1, <2>1, <2>3 DEF QueueInv, CasesSound
    <2> QED
      BY <2>2, <2>3
  <1> QED
    BY <1>2, <1>3, <1>4 DEF QueueInv, CasesSound

LEMMA AdvanceStep ==
    ASSUME QueueInv, AdvanceToEscalationHorizon
    PROVE  QueueInv'
  <1> DEFINE due == {k \in DOMAIN cases : Due(k)}
  <1>1. /\ cases' = [k \in DOMAIN cases |->
                        IF k \in due THEN [cases[k] EXCEPT !.status = "ESCALATED_UNRESOLVED"]
                                     ELSE cases[k]]
        /\ history' = history \cup
              {[case |-> k, from |-> cases[k].status, to |-> "ESCALATED_UNRESOLVED"] : k \in due}
        /\ escalations' = [k \in DOMAIN escalations |->
                              IF k \in due THEN escalations[k] + 1 ELSE escalations[k]]
        /\ DOMAIN escalations = DOMAIN cases
    BY DEF AdvanceToEscalationHorizon, QueueInv, Tables
  <1>2. due \subseteq DOMAIN cases /\ \A k \in due : cases[k].status \notin Settled
    BY DEF Due
  <1> HIDE DEF due
  <1>3. Tables'
    BY <1>1 DEF Tables
  <1>4. NoStrayHistory'
    BY <1>1, <1>2 DEF QueueInv, NoStrayHistory
  <1>5. ASSUME NEW j \in DOMAIN cases
        PROVE  CaseIsSound(cases'[j], escalations'[j], Passed(j)')
    <2>1. CaseIsSound(cases[j], escalations[j], Passed(j))
      BY DEF QueueInv, CasesSound
    <2>2. CASE j \in due
      <3> DEFINE new == [case |-> j, from |-> cases[j].status, to |-> "ESCALATED_UNRESOLVED"]
      <3>1. new \in history' /\ new.case = j /\ new.to = "ESCALATED_UNRESOLVED"
        BY <1>1, <2>2
      <3>2. "ESCALATED_UNRESOLVED" \in Passed(j)'
        <4> HIDE DEF new
        <4> QED
          BY <3>1 DEF Passed
      <3>3. cases'[j] = [cases[j] EXCEPT !.status = "ESCALATED_UNRESOLVED"]
        BY <1>1, <2>2
      <3>4. escalations'[j] = 1
        BY <1>1, <1>2, <2>1, <2>2 DEF CaseIsSound, Settled
      <3> QED
        BY <2>1, <3>2, <3>3, <3>4 DEF CaseIsSound, Stations
    <2>3. CASE j \notin due
      <3>1. {h \in history' : h.case = j} = {h \in history : h.case = j}
        BY <1>1, <2>3
      <3>2. Passed(j)' = Passed(j)
        BY <3>1 DEF Passed
      <3> QED
        BY <1>1, <2>1, <2>3, <3>2
    <2> QED
      BY <2>2, <2>3
  <1> QED
    BY <1>1, <1>3, <1>4, <1>5 DEF QueueInv, CasesSound

LEMMA QueueKept ==
    ASSUME QueueInv, UNCHANGED <<cases, history, escalations>>
    PROVE  QueueInv'
  BY DEF QueueInv, Tables, CasesSound, NoStrayHistory, Passed

LEMMA QueueInitInvariant == ASSUME QueueInit PROVE QueueInv
  BY DEF QueueInit, QueueInv, Tables, CasesSound, NoStrayHistory

LEMMA QueueNextInvariant ==
    ASSUME QueueInv, [QueueNext]_refundVars
    PROVE  QueueInv'
  <1>1. ASSUME NEW f \in RefundFacts, Consume(f)
        PROVE  QueueInv'
    BY <1>1, ConsumeStep
  <1>2. ASSUME NEW k \in DOMAIN cases,
               Acknowledge(k) \/ RequestMerchantAction(k) \/ MarkVerificationPending(k)
        PROVE  QueueInv'
    BY <1>2, TransitionStep DEF Acknowledge, RequestMerchantAction, MarkVerificationPending
  <1>3. ASSUME NEW k \in DOMAIN cases, NEW evidence \in Evidence, VerifyClosed(k, evidence)
        PROVE  QueueInv'
    BY <1>3, VerifyClosedStep
  <1>4. CASE AdvanceToEscalationHorizon
    BY <1>4, AdvanceStep
  <1>5. CASE Tick \/ UNCHANGED queueVars \/ UNCHANGED refundVars
    BY <1>5, QueueKept DEF Tick, queueVars, refundVars
  <1> QED
    BY <1>1, <1>2, <1>3, <1>4, <1>5 DEF QueueNext

\* What the history, the status and the escalation count of every case say of each other.
THEOREM QueueInvariant == QueueSpec => []QueueInv
  BY QueueInitInvariant, QueueNextInvariant, PTL DEF QueueSpec

\* A case is closed on evidence of the provider after every station of the work, or
\* escalated and reported once, whatever order people and the clock come in.
THEOREM WorkedOff == QueueSpec => []CasesAreWorkedOff
  <1>1. QueueInv => CasesAreWorkedOff
    <2> SUFFICES ASSUME QueueInv, NEW k \in DOMAIN cases
                 PROVE  /\ cases[k].status = "VERIFIED_CLOSED" =>
                              /\ cases[k].evidence = "PROVIDER_REFUND_OBSERVATION"
                              /\ Passed(k) = CaseStatuses \ {"OPEN", "ESCALATED_UNRESOLVED"}
                        /\ escalations[k] = IF cases[k].status = "ESCALATED_UNRESOLVED" THEN 1 ELSE 0
                        /\ "ESCALATED_UNRESOLVED" \in Passed(k)
                              <=> cases[k].status = "ESCALATED_UNRESOLVED"
      BY DEF CasesAreWorkedOff, Passed
    <2>1. CaseIsSound(cases[k], escalations[k], Passed(k))
      BY DEF QueueInv, CasesSound
    <2>2. CaseStatuses \ {"OPEN", "ESCALATED_UNRESOLVED"} = PassedBy["VERIFIED_CLOSED"]
      BY TableMeaning DEF Stations, PassedBy
    <2>3. \A s \in Stations \ {"ESCALATED_UNRESOLVED"} : "ESCALATED_UNRESOLVED" \notin PassedBy[s]
      BY DEF Stations, PassedBy
    <2> QED
      BY <2>1, <2>2, <2>3 DEF CaseIsSound
  <1> QED
    BY <1>1, QueueInvariant, PTL

-----------------------------------------------------------------------------
(***************************************************************************)
(* The queue on top of the evidence state machine.                         *)
(***************************************************************************)

\* The queue only reads the state machine: what holds of it on its own holds with a queue.
LEMMA QueueLeavesPaymentsAlone == QueueSpec => Spec
  <1>1. QueueInit => Init
    BY DEF QueueInit
  <1>2. [QueueNext]_refundVars => [Next]_vars
    BY DEF QueueNext, refundVars, Consume, Acknowledge, RequestMerchantAction,
           MarkVerificationPending, Transition, VerifyClosed, AdvanceToEscalationHorizon, Tick
  <1> QED
    BY <1>1, <1>2, PTL DEF QueueSpec, Spec

\* Refund cases are never withdrawn.
LEMMA RefundCasesStay ==
    ASSUME IInv, [Next]_vars
    PROVE  refundCases \subseteq refundCases'
  <1>1. ASSUME NEW c \in ObservationIds, IngestObservation(c)
        PROVE  refundCases \subseteq refundCases'
    BY <1>1, IngestionWrites DEF Emit
  <1>2. ASSUME ~\E c \in ObservationIds : IngestObservation(c)
        PROVE  refundCases' = refundCases
    BY <1>2
    DEF Next, vars, CreateAttempt, SlaEscalation, CredentialUseDenial, ClaimReview,
        AttachEvidenceReference, RequestReadOnlyQuery, ReviewNote, CloseObligation, outboxVars
  <1> QED
    BY <1>1, <1>2

LEMMA CasesAreDueStep ==
    ASSUME IInv, RefundsBacked, RefundFactsBacked, CasesAreDue, [QueueNext]_refundVars
    PROVE  CasesAreDue'
  <1>1. ASSUME NEW fact \in RefundFacts, Consume(fact)
        PROVE  CasesAreDue'
    <2> DEFINE case == [status |-> "OPEN", attempt |-> AttemptOf(fact.observation), evidence |-> Null]
    <2>1. /\ DOMAIN cases' = DOMAIN cases \cup {fact.key}
          /\ \A k \in DOMAIN cases' : cases'[k] = IF k = fact.key THEN case ELSE cases[k]
          /\ refundCases' = refundCases
      BY <1>1 DEF Consume, vars, outboxVars
    <2>2. /\ fact = RefundFact(fact.observation) /\ fact.observation \in observations
          /\ \E r \in refundCases : r.key = fact.key
      BY DEF RefundFactsBacked, RefundFacts
    <2>3. PICK r \in refundCases : r.key = fact.key
      BY <2>2
    <2>4. PICK c \in observations : r = [key |-> CaptureKey(c), attempt |-> AttemptOf(c),
                                        reason |-> r.reason]
      BY DEF RefundsBacked
    <2>5. CaptureKey(c) = CaptureKey(fact.observation)
      BY <2>2, <2>3, <2>4 DEF RefundFact
    <2>6. ObligationOf(r.attempt) = ObligationOf(AttemptOf(fact.observation))
      BY <2>2, <2>4, <2>5, KeyNamesObligation DEF IInv, EvidenceFiled
    <2> QED
      BY <2>1, <2>3, <2>6 DEF CasesAreDue
  <1>2. ASSUME DOMAIN cases' = DOMAIN cases,
               \A k \in DOMAIN cases : cases'[k].attempt = cases[k].attempt,
               refundCases \subseteq refundCases'
        PROVE  CasesAreDue'
    BY <1>2 DEF CasesAreDue
  <1>3. CASE Next /\ UNCHANGED queueVars
    BY <1>2, <1>3, RefundCasesStay DEF queueVars
  <1>4. ASSUME NEW k \in DOMAIN cases, NEW next, Transition(k, next)
        PROVE  CasesAreDue'
    BY <1>2, <1>4 DEF Transition, vars, outboxVars
  <1>5. ASSUME NEW k \in DOMAIN cases, NEW evidence, VerifyClosed(k, evidence)
        PROVE  CasesAreDue'
    BY <1>2, <1>5 DEF VerifyClosed, vars, outboxVars
  <1>6. CASE AdvanceToEscalationHorizon
    BY <1>2, <1>6 DEF AdvanceToEscalationHorizon, vars, outboxVars
  <1>7. CASE Tick \/ UNCHANGED refundVars
    BY <1>2, <1>7 DEF Tick, refundVars, queueVars, vars, outboxVars
  <1> QED
    BY <1>1, <1>3, <1>4, <1>5, <1>6, <1>7
    DEF QueueNext, Acknowledge, RequestMerchantAction, MarkVerificationPending

\* People never work on a refund that no captured money stands behind: every case of the
\* queue has a refund case of the state machine under its key, of the same obligation.
THEOREM WorkedCasesAreDue == QueueSpec => []CasesAreDue
  <1>1. QueueInit => CasesAreDue
    BY DEF QueueInit, CasesAreDue
  <1>2. IInv /\ RefundsBacked /\ RefundFactsBacked /\ CasesAreDue /\ [QueueNext]_refundVars
           => CasesAreDue'
    BY CasesAreDueStep
  <1>3. QueueSpec => [](IInv /\ RefundsBacked /\ RefundFactsBacked)
    BY QueueLeavesPaymentsAlone, Invariant, RefundsHaveCaptures, AnnouncedRefundsAreDue, PTL
  <1> QED
    BY <1>1, <1>2, <1>3, PTL DEF QueueSpec
=============================================================================
