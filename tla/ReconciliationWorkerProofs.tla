---------------------- MODULE ReconciliationWorkerProofs ----------------------
(***************************************************************************)
(* Theorems about ReconciliationWorker for any number of workers, attempts *)
(* and requests.                                                           *)
(*                                                                         *)
(* First, what a worker's transaction has read under its locks is still    *)
(* the row when it writes, so its three steps amount to one transaction of *)
(* the evidence state machine, and all that is proved of that machine      *)
(* holds with any number of workers and stale lists.  Second, a request is *)
(* executed at most once: the row that claims it is the lock, and the      *)
(* invariant says who holds it and what has been done under it.            *)
(***************************************************************************)
EXTENDS ReconciliationWorker, PaymentOrchestrationProofs

Pairs == RequestIds \X AttemptIds

Claimed(p)  == Row("CLAIMED", p[1], p[2]) \in requestRows
Consumed(p) == Row("CONSUMED", p[1], p[2]) \in requestRows

RunRecord ==
    [pc : PCs, todo : SUBSET AttemptIds,
     pending : SUBSET [attempt : AttemptIds, request : RequestIds],
     attempt : AttemptIds \cup {Null}, request : RequestIds \cup {Null},
     tx : {"NONE", "LOCKED", "READ"}, seen : AttemptRecord \cup {Null}]

RunsTyped ==
    /\ run \in [Workers -> RunRecord]
    /\ executions \in [Pairs -> Nat]
    /\ consumptions \in [Pairs -> Nat]

Escalating  == {"SLA", "ESCALATE"}
WithRequest == {"RECONCILE", "DENY", "QUERY", "CONSUME"} \cup Escalating

\* A worker has a request in hand only while it works on the request's attempt, for which
\* the request is claimed; what was done under the claim follows from where the worker is.
HoldersInOrder ==
    \A w \in Workers :
        run[w].request # Null =>
            /\ run[w].pc \in WithRequest
            /\ run[w].attempt # Null
            /\ Claimed(Held(w))
            /\ run[w].pc = "RECONCILE" => executions[Held(w)] = 0
            /\ run[w].pc \notin Escalating => consumptions[Held(w)] = 0
            /\ run[w].pc \in Escalating => Consumed(Held(w))

OneHolder ==
    \A v, w \in Workers : run[v].request # Null /\ Held(v) = Held(w) => v = w

CountsBounded ==
    \A p \in Pairs :
        /\ executions[p] <= 1
        /\ consumptions[p] <= 1
        /\ ~Claimed(p) => executions[p] = 0 /\ consumptions[p] = 0

ClaimsKnown ==
    \A p \in Pairs :
        Claimed(p) => Consumed(p) \/ (\E w \in Workers : Held(w) = p) \/ p \in abandoned

RequestInv == RunsTyped /\ HoldersInOrder /\ OneHolder /\ CountsBounded /\ ClaimsKnown

-----------------------------------------------------------------------------
(***************************************************************************)
(* Steps.                                                                  *)
(***************************************************************************)

\* A worker moves on with the request it has in hand, if any, to a place where no more
\* has been done under it than before.
LEMMA MoveOn ==
    ASSUME RequestInv, NEW w \in Workers, NEW r \in RunRecord,
           run' = [run EXCEPT ![w] = r],
           UNCHANGED requestVars,
           \/ run[w].request = Null /\ r.request = Null
           \/ /\ run[w].request # Null
              /\ r.request = run[w].request /\ r.attempt = run[w].attempt
              /\ \/ run[w].pc \in {"RECONCILE", "DENY", "QUERY"} /\ r.pc \in {"DENY", "CONSUME"}
                 \/ run[w].pc \in Escalating /\ r.pc \in Escalating
           \/ run[w].pc \in Escalating /\ r.request = Null
    PROVE  RequestInv'
  <1> USE DEF RequestInv, requestVars, Escalating, WithRequest
  <1>1. RunsTyped'
    BY DEF RunsTyped
  <1>2. /\ run'[w] = r
        /\ \A v \in Workers : v # w => run'[v] = run[v]
    BY DEF RunsTyped
  <1>3. HoldersInOrder'
    BY <1>2 DEF HoldersInOrder, Held, Claimed, Consumed, RunRecord
  <1>4. OneHolder'
    BY <1>2 DEF OneHolder, Held, HoldersInOrder
  <1>5. CountsBounded'
    BY DEF CountsBounded, Claimed
  <1>6. ClaimsKnown'
    <2> SUFFICES ASSUME NEW p \in Pairs, Claimed(p), ~Consumed(p), p \notin abandoned
                 PROVE  \E v \in Workers : Held(v)' = p
      BY DEF ClaimsKnown, Claimed, Consumed
    <2>1. PICK v \in Workers : Held(v) = p
      BY DEF ClaimsKnown
    <2>2. run[v].request # Null /\ run[v].pc \notin Escalating
      BY <2>1, NamesAssumption DEF Held, Pairs, HoldersInOrder
    <2> QED
      BY <1>2, <2>1, <2>2 DEF Held
  <1> QED
    BY <1>1, <1>3, <1>4, <1>5, <1>6

\* A worker that moves its program counter only, within or out of the loop body.
LEMMA CounterMoves ==
    ASSUME RequestInv, NEW w \in Workers, NEW pc \in PCs, GoTo(w, pc), UNCHANGED requestVars,
           \/ run[w].request = Null
           \/ run[w].pc \in {"RECONCILE", "DENY", "QUERY"} /\ pc \in {"DENY", "CONSUME"}
           \/ run[w].pc \in Escalating /\ pc \in Escalating
    PROVE  RequestInv'
  <1> DEFINE r == [run[w] EXCEPT !.pc = pc]
  <1>1. run' = [run EXCEPT ![w] = r]
    BY DEF GoTo
  <1>2. run[w] \in RunRecord
    BY DEF RequestInv, RunsTyped
  <1>3. r \in RunRecord /\ r.request = run[w].request /\ r.attempt = run[w].attempt /\ r.pc = pc
    BY <1>2 DEF RunRecord
  <1> HIDE DEF r
  <1> QED
    BY <1>1, <1>3, MoveOn

LEMMA ListingStep ==
    ASSUME RequestInv, NEW w \in Workers, created \subseteq AttemptIds,
           \/ ListUnresolvedAttempts(w)
           \/ ListRequestedReadOnlyQueries(w)
           \/ NextAttempt(w)
           \/ FinishRun(w)
    PROVE  RequestInv'
  <1>1. /\ run[w] \in RunRecord
        /\ run[w].pc \in {"IDLE", "LISTED", "NEXT"}
        /\ run[w].request = Null
        /\ UNCHANGED requestVars
    BY DEF RequestInv, RunsTyped, HoldersInOrder, WithRequest, Escalating, ListUnresolvedAttempts,
           ListRequestedReadOnlyQueries, NextAttempt, FinishRun
  <1>2. CASE ListUnresolvedAttempts(w)
    <2> DEFINE r == [run[w] EXCEPT !.pc = "LISTED", !.todo = {a \in created : Unresolved(a)}]
    <2>1. run' = [run EXCEPT ![w] = r]
      BY <1>2 DEF ListUnresolvedAttempts
    <2>2. r \in RunRecord /\ r.request = Null
      BY <1>1 DEF RunRecord, PCs
    <2> HIDE DEF r
    <2> QED
      BY <1>1, <2>1, <2>2, MoveOn
  <1>3. CASE ListRequestedReadOnlyQueries(w)
    <2>1. PICK chosen \in SUBSET [attempt : run[w].todo, request : RequestIds] :
             run' = [run EXCEPT ![w].pc = "NEXT", ![w].pending = chosen]
      BY <1>3 DEF ListRequestedReadOnlyQueries
    <2> DEFINE r == [run[w] EXCEPT !.pc = "NEXT", !.pending = chosen]
    <2>2. run' = [run EXCEPT ![w] = r]
      BY <2>1
    <2>3. run[w].todo \subseteq AttemptIds
      BY <1>1 DEF RunRecord
    <2>4. chosen \subseteq [attempt : AttemptIds, request : RequestIds]
      BY <2>3
    <2>5. r \in RunRecord /\ r.request = Null
      BY <1>1, <2>4 DEF RunRecord, PCs
    <2> HIDE DEF r
    <2> QED
      BY <1>1, <2>2, <2>5, MoveOn
  <1>4. CASE NextAttempt(w)
    <2>1. PICK a \in run[w].todo :
             run' = [run EXCEPT ![w].attempt = a, ![w].todo = @ \ {a},
                                ![w].pc = IF \E p \in run[w].pending : p.attempt = a
                                          THEN "CLAIM" ELSE "RECONCILE"]
      BY <1>4 DEF NextAttempt
    <2> DEFINE pc == IF \E p \in run[w].pending : p.attempt = a THEN "CLAIM" ELSE "RECONCILE"
               r  == [run[w] EXCEPT !.attempt = a, !.todo = @ \ {a}, !.pc = pc]
    <2>2. run' = [run EXCEPT ![w] = r]
      BY <2>1
    <2>3. pc \in PCs /\ a \in AttemptIds
      BY <1>1 DEF RunRecord, PCs
    <2>4. r \in RunRecord /\ r.request = Null
      <3> HIDE DEF pc
      <3> QED
        BY <1>1, <2>3 DEF RunRecord
    <2> HIDE DEF r
    <2> QED
      BY <1>1, <2>2, <2>4, MoveOn
  <1>5. CASE FinishRun(w)
    <2>1. run' = [run EXCEPT ![w] = Idle]
      BY <1>5 DEF FinishRun
    <2>2. Idle \in RunRecord /\ Idle.request = Null
      BY DEF RunRecord, PCs, Idle
    <2> QED
      BY <1>1, <2>1, <2>2, MoveOn
  <1> QED
    BY <1>2, <1>3, <1>4, <1>5

LEMMA ClaimStep ==
    ASSUME RequestInv, NEW w \in Workers, ClaimReadOnlyQueryRequest(w)
    PROVE  RequestInv'
  <1>1. /\ run[w] \in RunRecord
        /\ run[w].pc = "CLAIM"
        /\ run[w].request = Null
    BY DEF RequestInv, RunsTyped, HoldersInOrder, WithRequest, Escalating, ClaimReadOnlyQueryRequest
  <1>2. PICK p \in run[w].pending :
           /\ p.attempt = run[w].attempt
           /\ IF Taken(p.request, p.attempt)
              THEN GoTo(w, "SLA") /\ UNCHANGED requestRows
              ELSE /\ requestRows' = requestRows \cup {Row("CLAIMED", p.request, p.attempt)}
                   /\ run' = [run EXCEPT ![w].pc = "RECONCILE", ![w].request = p.request]
    BY DEF ClaimReadOnlyQueryRequest
  <1>3. UNCHANGED <<executions, consumptions, abandoned>>
    BY DEF ClaimReadOnlyQueryRequest
  <1>4. CASE Taken(p.request, p.attempt)
    <2>1. GoTo(w, "SLA") /\ UNCHANGED requestVars /\ "SLA" \in PCs
      BY <1>2, <1>3, <1>4 DEF requestVars, PCs
    <2> QED
      BY <1>1, <2>1, CounterMoves
  <1>5. CASE ~Taken(p.request, p.attempt)
    <2> DEFINE r == [run[w] EXCEPT !.pc = "RECONCILE", !.request = p.request]
               k == <<p.request, p.attempt>>
    <2>1. p.request \in RequestIds /\ p.attempt \in AttemptIds /\ k \in Pairs
      BY <1>1, <1>2 DEF RunRecord, Pairs
    <2>2. /\ run' = [run EXCEPT ![w] = r]
          /\ requestRows' = requestRows \cup {Row("CLAIMED", p.request, p.attempt)}
      BY <1>2, <1>5
    <2>3. /\ r \in RunRecord
          /\ r.pc = "RECONCILE"
          /\ r.request = p.request
          /\ r.attempt = p.attempt
      BY <1>1, <1>2, <2>1 DEF RunRecord, PCs
    <2> HIDE DEF r
    <2>4. /\ run'[w] = r
          /\ \A v \in Workers : v # w => run'[v] = run[v]
          /\ Held(w)' = k
          /\ \A v \in Workers : v # w => Held(v)' = Held(v)
      BY <2>2, <2>3 DEF RequestInv, RunsTyped, Held
    <2>5. ~Claimed(k)
      BY <1>5 DEF Taken, Claimed
    <2>6. \A v \in Workers : run[v].request # Null => Held(v) # k
      BY <2>5 DEF RequestInv, HoldersInOrder
    <2>7. executions[k] = 0 /\ consumptions[k] = 0
      BY <2>1, <2>5 DEF RequestInv, CountsBounded
    <2>8. \A q : /\ Claimed(q) => Claimed(q)'
                 /\ Consumed(q)' <=> Consumed(q)
                 /\ Claimed(q)' => Claimed(q) \/ (q[1] = k[1] /\ q[2] = k[2])
      BY <2>2 DEF Claimed, Consumed, Row
    <2>9. Claimed(k)'
      BY <2>2 DEF Claimed
    <2>10. RunsTyped'
      BY <1>3, <2>2, <2>3 DEF RequestInv, RunsTyped
    <2>11. HoldersInOrder'
      <3> SUFFICES ASSUME NEW v \in Workers, run'[v].request # Null
                   PROVE  /\ run'[v].pc \in WithRequest
                          /\ run'[v].attempt # Null
                          /\ Claimed(Held(v))'
                          /\ run'[v].pc = "RECONCILE" => executions[Held(v)'] = 0
                          /\ run'[v].pc \notin Escalating => consumptions[Held(v)'] = 0
                          /\ run'[v].pc \in Escalating => Consumed(Held(v))'
        BY <1>3 DEF HoldersInOrder
      <3>1. CASE v = w
        BY <3>1, <2>1, <2>3, <2>4, <2>7, <2>9, NamesAssumption DEF Claimed, Consumed, WithRequest, Escalating
      <3>2. CASE v # w
        BY <3>2, <2>4, <2>8 DEF RequestInv, HoldersInOrder, Claimed, Consumed
      <3> QED
        BY <3>1, <3>2
    <2>12. OneHolder'
      BY <2>3, <2>4, <2>6 DEF RequestInv, OneHolder, Held
    <2>13. CountsBounded'
      BY <1>3, <2>8 DEF RequestInv, CountsBounded
    <2>14. ClaimsKnown'
      <3> SUFFICES ASSUME NEW q \in Pairs, Claimed(q)'
                   PROVE  Consumed(q)' \/ (\E v \in Workers : Held(v)' = q) \/ q \in abandoned
        BY <1>3 DEF ClaimsKnown
      <3>1. CASE q = k
        BY <3>1, <2>4
      <3>2. CASE q # k
        <4>1. Claimed(q)
          BY <3>2, <2>8 DEF Pairs
        <4>2. Consumed(q) \/ (\E v \in Workers : Held(v) = q) \/ q \in abandoned
          BY <4>1 DEF RequestInv, ClaimsKnown
        <4>3. Held(w) # q
          BY <1>1, NamesAssumption DEF Held, Pairs
        <4> QED
          BY <4>2, <4>3, <2>4, <2>8
      <3> QED
        BY <3>1, <3>2
    <2> QED
      BY <2>10, <2>11, <2>12, <2>13, <2>14 DEF RequestInv
  <1> QED
    BY <1>4, <1>5

\* Doing more under a claim that one worker holds: sending its query, or recording its
\* consumption.
LEMMA WorkUnderClaim ==
    ASSUME RequestInv, NEW w \in Workers, NEW pc \in PCs, GoTo(w, pc),
           run[w].request # Null,
           \/ /\ run[w].pc = "RECONCILE" /\ pc = "QUERY"
              /\ executions' = [executions EXCEPT ![Held(w)] = @ + 1]
              /\ UNCHANGED <<requestRows, consumptions, abandoned>>
           \/ /\ run[w].pc = "CONSUME" /\ pc = "SLA"
              /\ requestRows' = requestRows \cup {Row("CONSUMED", run[w].request, run[w].attempt)}
              /\ consumptions' = [consumptions EXCEPT ![Held(w)] = @ + 1]
              /\ UNCHANGED <<executions, abandoned>>
    PROVE  RequestInv'
  <1> DEFINE r == [run[w] EXCEPT !.pc = pc]
  <1>1. run[w] \in RunRecord /\ run' = [run EXCEPT ![w] = r]
    BY DEF RequestInv, RunsTyped, GoTo
  <1>2. /\ r \in RunRecord
        /\ r.request = run[w].request
        /\ r.attempt = run[w].attempt
        /\ r.pc = pc
    BY <1>1 DEF RunRecord
  <1>3. Held(w) \in Pairs /\ run[w].attempt # Null
    BY <1>1 DEF RunRecord, Pairs, Held, RequestInv, HoldersInOrder
  <1> HIDE DEF r
  <1>4. /\ run'[w] = r
        /\ \A v \in Workers : v # w => run'[v] = run[v]
        /\ \A v \in Workers : Held(v)' = Held(v) /\ run'[v].request = run[v].request
    BY <1>1, <1>2 DEF RequestInv, RunsTyped, Held
  <1>5. \A v \in Workers : run[v].request # Null /\ v # w => Held(v) # Held(w)
    BY DEF RequestInv, OneHolder
  <1>6. \A q : /\ Claimed(q)' <=> Claimed(q)
               /\ Consumed(q) => Consumed(q)'
    BY DEF Claimed, Consumed, Row
  <1>7. RunsTyped'
    BY <1>1, <1>2, <1>3 DEF RequestInv, RunsTyped
  <1>8. \A v \in Workers : run[v].request # Null => Held(v) \in Pairs
    BY DEF RequestInv, RunsTyped, RunRecord, HoldersInOrder, Held, Pairs
  <1>9. HoldersInOrder'
    <2> SUFFICES ASSUME NEW v \in Workers, run'[v].request # Null
                 PROVE  /\ run'[v].pc \in WithRequest
                        /\ run'[v].attempt # Null
                        /\ Claimed(Held(v))'
                        /\ run'[v].pc = "RECONCILE" => executions'[Held(v)'] = 0
                        /\ run'[v].pc \notin Escalating => consumptions'[Held(v)'] = 0
                        /\ run'[v].pc \in Escalating => Consumed(Held(v))'
      BY DEF HoldersInOrder
    <2>1. /\ Claimed(Held(v))
          /\ run[v].pc \in WithRequest
          /\ run[v].attempt # Null
          /\ run[v].pc = "RECONCILE" => executions[Held(v)] = 0
          /\ run[v].pc \notin Escalating => consumptions[Held(v)] = 0
          /\ run[v].pc \in Escalating => Consumed(Held(v))
      BY <1>4 DEF RequestInv, HoldersInOrder
    <2>2. Claimed(Held(v))'
      BY <2>1, <1>4, <1>6 DEF Claimed
    <2>3. CASE v = w
      <3>1. pc = "SLA" => Consumed(Held(v))'
        BY <2>3, <1>4 DEF Consumed, Held
      <3> QED
        BY <2>1, <2>2, <2>3, <3>1, <1>2, <1>3, <1>4 DEF WithRequest, Escalating
    <2>4. CASE v # w
      <3>1. Held(v) # Held(w) /\ Held(v) \in Pairs
        BY <2>4, <1>4, <1>5, <1>8
      <3>2. executions'[Held(v)] = executions[Held(v)] /\ consumptions'[Held(v)] = consumptions[Held(v)]
        BY <3>1 DEF RequestInv, RunsTyped
      <3>3. Consumed(Held(v)) => Consumed(Held(v))'
        BY <1>4, <1>6 DEF Consumed
      <3> QED
        BY <2>1, <2>2, <2>4, <3>2, <3>3, <1>4
    <2> QED
      BY <2>3, <2>4
  <1>10. OneHolder'
    BY <1>4 DEF RequestInv, OneHolder
  <1>11. CountsBounded'
    <2>1. /\ Claimed(Held(w))
          /\ run[w].pc = "RECONCILE" => executions[Held(w)] = 0
          /\ run[w].pc = "CONSUME" => consumptions[Held(w)] = 0
      BY DEF RequestInv, HoldersInOrder, Escalating
    <2> SUFFICES ASSUME NEW q \in Pairs
                 PROVE  /\ executions'[q] <= 1
                        /\ consumptions'[q] <= 1
                        /\ ~Claimed(q) => executions'[q] = 0 /\ consumptions'[q] = 0
      BY <1>6 DEF CountsBounded
    <2>2. CASE q = Held(w)
      BY <2>1, <2>2, <1>3 DEF RequestInv, RunsTyped, CountsBounded
    <2>3. CASE q # Held(w)
      BY <2>3, <1>3 DEF RequestInv, RunsTyped, CountsBounded
    <2> QED
      BY <2>2, <2>3
  <1>12. ClaimsKnown'
    BY <1>4, <1>6 DEF RequestInv, ClaimsKnown
  <1> QED
    BY <1>7, <1>9, <1>10, <1>11, <1>12 DEF RequestInv

LEMMA AbandonStep ==
    ASSUME RequestInv, NEW w \in Workers, Abandon(w),
           UNCHANGED <<requestRows, executions, consumptions>>
    PROVE  RequestInv'
  <1>1. /\ run' = [run EXCEPT ![w] = Idle]
        /\ Idle \in RunRecord
        /\ Idle.request = Null
    BY DEF Abandon, RunRecord, PCs, Idle
  <1>2. /\ run'[w].request = Null
        /\ \A v \in Workers : v # w => run'[v] = run[v] /\ Held(v)' = Held(v)
    BY <1>1 DEF RequestInv, RunsTyped, Held
  <1>3. abandoned \subseteq abandoned' /\ (run[w].request # Null => Held(w) \in abandoned')
    BY DEF Abandon
  <1>4. RunsTyped'
    BY <1>1 DEF RequestInv, RunsTyped
  <1>5. HoldersInOrder'
    BY <1>2 DEF RequestInv, HoldersInOrder, Claimed, Consumed
  <1>6. OneHolder'
    BY <1>2 DEF RequestInv, OneHolder, Held
  <1>7. CountsBounded'
    BY DEF RequestInv, CountsBounded, Claimed
  <1>8. ClaimsKnown'
    <2> SUFFICES ASSUME NEW q \in Pairs, Claimed(q), ~Consumed(q), q \notin abandoned'
                 PROVE  \E v \in Workers : Held(v)' = q
      BY DEF ClaimsKnown, Claimed, Consumed
    <2>1. PICK v \in Workers : Held(v) = q
      BY <1>3 DEF RequestInv, ClaimsKnown
    <2>2. run[v].request # Null
      BY <2>1, NamesAssumption DEF Held, Pairs
    <2> QED
      BY <1>2, <1>3, <2>1, <2>2
  <1> QED
    BY <1>4, <1>5, <1>6, <1>7, <1>8 DEF RequestInv

\* A step of anybody else leaves the claims alone; a new request adds a row of its own.
LEMMA OutsideStep ==
    ASSUME RequestInv, UNCHANGED <<run, executions, consumptions, abandoned>>,
           \/ UNCHANGED requestRows
           \/ \E r, a : requestRows' = requestRows \cup {Row("REQUESTED", r, a)}
    PROVE  RequestInv'
  <1>1. \A q : (Claimed(q)' <=> Claimed(q)) /\ (Consumed(q)' <=> Consumed(q))
    BY DEF Claimed, Consumed, Row
  <1>2. RunsTyped' /\ OneHolder' /\ CountsBounded' /\ ClaimsKnown'
    BY <1>1 DEF RequestInv, RunsTyped, OneHolder, Held, CountsBounded, ClaimsKnown
  <1>3. HoldersInOrder'
    BY <1>1 DEF RequestInv, HoldersInOrder, Held, Claimed, Consumed
  <1> QED
    BY <1>2, <1>3 DEF RequestInv

-----------------------------------------------------------------------------
(***************************************************************************)
(* The worker's transactions.                                              *)
(***************************************************************************)

\* A worker in a transaction is alone with its obligation, and the row it has read there is
\* the row.  What it goes through exists.
TransactionsAlone ==
    /\ \A w \in Workers :
          /\ run[w].todo \subseteq created
          /\ run[w].attempt # Null => run[w].attempt \in created
          /\ run[w].pc \in {"CLAIM"} \cup WithRequest => run[w].attempt # Null
          /\ run[w].tx # "NONE" => run[w].pc \in {"DENY", "ESCALATE"}
          /\ run[w].tx = "READ" => run[w].seen = Snapshot(run[w].attempt)
    /\ \A v, w \in Workers :
          run[v].tx # "NONE" /\ run[w].tx # "NONE"
              /\ ObligationOf(run[v].attempt) = ObligationOf(run[w].attempt) => v = w

WInv == RequestInv /\ IInv /\ TransactionsAlone

LEMMA WorkerInitInvariant == ASSUME WorkerInit PROVE WInv
  <1> USE DEF WorkerInit
  <1>1. /\ Idle \in RunRecord /\ Idle.request = Null /\ Idle.pc = "IDLE"
        /\ Idle.todo = {} /\ Idle.attempt = Null /\ Idle.tx = "NONE"
    BY DEF RunRecord, PCs, Idle
  <1>2. \A w \in Workers : run[w] = Idle
    OBVIOUS
  <1>3. RunsTyped /\ CountsBounded
    BY <1>1 DEF RunsTyped, CountsBounded, Pairs
  <1>4. HoldersInOrder /\ OneHolder
    BY <1>1, <1>2 DEF HoldersInOrder, OneHolder
  <1>5. ClaimsKnown
    BY DEF ClaimsKnown, Claimed
  <1>6. TransactionsAlone
    BY <1>1, <1>2 DEF TransactionsAlone, WithRequest, Escalating
  <1>7. IInv
    BY InitInvariant
  <1> QED
    BY <1>3, <1>4, <1>5, <1>6, <1>7 DEF WInv, RequestInv

\* A transaction that read an unresolved attempt writes what the evidence state machine
\* would write in one step.
LEMMA CommitMaps ==
    ASSUME WInv, NEW w \in Workers, CommitDenial(w) \/ CommitEscalation(w)
    PROVE  [Next]_vars
  <1> DEFINE a == run[w].attempt
  <1>1. /\ a \in AttemptIds /\ a \in created
        /\ run[w].seen = Snapshot(a)
    BY DEF WInv, TransactionsAlone, IInv, TypeOK, CommitDenial, CommitEscalation, WithRequest, Escalating
  <1>2. CASE UNCHANGED vars
    BY <1>2
  <1>3. CASE resolvedAt[a] = Null
    <2>1. [resolvedAt EXCEPT ![a] = Null] = resolvedAt
      BY <1>1, <1>3 DEF WInv, IInv, TypeOK
    <2>2. \A next : WriteParked(a, Snapshot(a), next) =>
             /\ ParkForReview(a, next)
             /\ UNCHANGED <<obligationVars, created, resolvedAt, observations, outboxVars>>
      BY <2>1 DEF WriteParked, ParkForReview, LogOutcome, LogReview, Snapshot
    <2>3. Unresolved(a) /\ Snapshot(a).resolvedAt = Null /\ Snapshot(a).outcome = outcome[a]
      BY <1>1, <1>3 DEF Unresolved, Snapshot
    <2>4. CommitDenial(w) => CredentialUseDenial(a)
      BY <1>1, <2>2, <2>3 DEF CommitDenial, CredentialUseDenial
    <2>5. CommitEscalation(w) => SlaEscalation(a)
      BY <1>1, <2>2, <2>3 DEF CommitEscalation, SlaEscalation
    <2> QED
      BY <1>1, <2>4, <2>5 DEF Next
  <1>4. CASE resolvedAt[a] # Null
    BY <1>1, <1>4 DEF CommitDenial, CommitEscalation, Snapshot
  <1> QED
    BY <1>3, <1>4

\* Every step is a transaction of the evidence state machine or nothing to it.
LEMMA WorkerStepMaps ==
    ASSUME WInv, [WorkerNext]_allVars
    PROVE  [Next]_vars
  <1>1. ASSUME NEW w \in Workers, WorkerStep(w) \/ CutShort(w)
        PROVE  [Next]_vars
    <2>1. CASE UNCHANGED vars
      BY <2>1
    <2>2. CASE CommitDenial(w) \/ CommitEscalation(w)
      BY <2>2, CommitMaps
    <2>3. CASE IngestAnswer(w)
      BY <2>3 DEF IngestAnswer, Receive, Next
    <2> QED
      BY <1>1, <2>1, <2>2, <2>3
      DEF WorkerStep, CutShort, ListUnresolvedAttempts, ListRequestedReadOnlyQueries, NextAttempt,
          FinishRun, ClaimReadOnlyQueryRequest, SkipQuery, StartDenial, SendQuery, RejectAnswer,
          QueryFails, PersistReadOnlyQueryConsumption, SkipEscalation, StartEscalation, LockRows, ReadRow
  <1>2. ASSUME NEW a \in AttemptIds, CreateNow(a)
        PROVE  [Next]_vars
    BY <1>2 DEF CreateNow, Next
  <1>3. ASSUME NEW a \in AttemptIds, NEW r \in RequestIds, RequestQuery(a, r)
        PROVE  [Next]_vars
    BY <1>3 DEF RequestQuery, Next
  <1>4. OtherTransaction => [Next]_vars
    BY DEF OtherTransaction, Receive, Next
  <1>5. Tick \/ UNCHANGED allVars => [Next]_vars
    BY DEF Tick, allVars
  <1> QED
    BY <1>1, <1>2, <1>3, <1>4, <1>5 DEF WorkerNext

SameRow(a) == outcome'[a] = outcome[a] /\ review'[a] = review[a] /\ resolvedAt'[a] = resolvedAt[a]

\* Somebody else's transaction changes no row that a worker has locked.
LEMMA OthersKeepTransactions ==
    ASSUME WInv, run' = run, created \subseteq created',
           \A w \in Workers : run[w].tx # "NONE" => SameRow(run[w].attempt)
    PROVE  TransactionsAlone'
  BY DEF WInv, TransactionsAlone, SameRow, Snapshot

\* One worker goes on: it locks what nobody else has locked, and what it has read is so.
LEMMA WorkerKeepsTransactions ==
    ASSUME WInv, NEW w \in Workers, NEW r \in RunRecord, run' = [run EXCEPT ![w] = r], created \subseteq created',
           r.todo \subseteq created,
           r.attempt # Null => r.attempt \in created,
           r.pc \in {"CLAIM"} \cup WithRequest => r.attempt # Null,
           r.tx # "NONE" =>
               /\ r.pc \in {"DENY", "ESCALATE"}
               /\ r.attempt = run[w].attempt
               /\ run[w].tx # "NONE" \/ LockFree(ObligationOf(run[w].attempt)),
           r.tx = "READ" => r.seen = Snapshot(run[w].attempt) /\ SameRow(run[w].attempt),
           \A v \in Workers \ {w} : run[v].tx # "NONE" => SameRow(run[v].attempt)
    PROVE  TransactionsAlone'
  <1>1. run'[w] = r /\ \A v \in Workers \ {w} : run'[v] = run[v]
    BY DEF WInv, RequestInv, RunsTyped
  <1>2. ASSUME NEW v \in Workers, NEW u \in Workers, run'[v].tx # "NONE", run'[u].tx # "NONE",
               ObligationOf(run'[v].attempt) = ObligationOf(run'[u].attempt)
        PROVE  v = u
    BY <1>1, <1>2 DEF WInv, TransactionsAlone, LockFree
  <1>3. ASSUME NEW v \in Workers
        PROVE  /\ run'[v].todo \subseteq created'
               /\ run'[v].attempt # Null => run'[v].attempt \in created'
               /\ run'[v].pc \in {"CLAIM"} \cup WithRequest => run'[v].attempt # Null
               /\ run'[v].tx # "NONE" => run'[v].pc \in {"DENY", "ESCALATE"}
               /\ run'[v].tx = "READ" => /\ run'[v].seen = Snapshot(run[v].attempt)
                                         /\ run'[v].attempt = run[v].attempt
                                         /\ SameRow(run[v].attempt)
    <2>1. CASE v = w
      BY <1>1, <2>1
    <2>2. CASE v # w
      BY <1>1, <2>2 DEF WInv, TransactionsAlone
    <2> QED
      BY <2>1, <2>2
  <1>4. \A v \in Workers : run'[v].tx = "READ" => run'[v].seen = Snapshot(run[v].attempt)'
    <2> SUFFICES ASSUME NEW v \in Workers, run'[v].tx = "READ"
                 PROVE  run'[v].seen = [outcome |-> outcome'[run'[v].attempt], review |-> review'[run'[v].attempt],
                                        resolvedAt |-> resolvedAt'[run'[v].attempt]]
      BY DEF Snapshot
    <2>1. /\ run'[v].seen = Snapshot(run[v].attempt)
          /\ run'[v].attempt = run[v].attempt
          /\ SameRow(run[v].attempt)
      BY <1>3
    <2> QED
      BY <2>1 DEF Snapshot, SameRow
  <1>5. \A v \in Workers :
           /\ run'[v].todo \subseteq created'
           /\ run'[v].attempt # Null => run'[v].attempt \in created'
           /\ run'[v].pc \in {"CLAIM"} \cup WithRequest => run'[v].attempt # Null
           /\ run'[v].tx # "NONE" => run'[v].pc \in {"DENY", "ESCALATE"}
    BY <1>3
  <1> QED
    BY <1>2, <1>4, <1>5 DEF TransactionsAlone

\* Evidence and reviewers change rows of obligations that nobody has locked.
LEMMA RowsChangeUnlocked ==
    ASSUME WInv, NEW w \in Workers, run[w].tx # "NONE",
           \/ \E c \in ObservationIds : Receive(c)
           \/ \E a \in AttemptIds : LockFree(ObligationOf(a)) /\ ClaimReview(a)
    PROVE  SameRow(run[w].attempt)
  <1>1. run[w].attempt \in AttemptIds
    BY DEF WInv, TransactionsAlone, WithRequest, Escalating, IInv, TypeOK
  <1>2. ASSUME NEW c \in ObservationIds, Receive(c)
        PROVE  SameRow(run[w].attempt)
    <2>1. run[w].attempt # AttemptOf(c)
      BY <1>2 DEF Receive, IngestObservation, LockFree, AttemptOf
    <2> QED
      BY <1>1, <1>2, <2>1 DEF Receive, IngestObservation, PersistReduction, WriteAttempt, AttemptOf,
                              SameRow, WInv, IInv, TypeOK
  <1>3. ASSUME NEW a \in AttemptIds, LockFree(ObligationOf(a)), ClaimReview(a)
        PROVE  SameRow(run[w].attempt)
    <2>1. run[w].attempt # a
      BY <1>3 DEF LockFree
    <2> QED
      BY <1>1, <1>3, <2>1 DEF ClaimReview, SameRow, WInv, IInv, TypeOK
  <1> QED
    BY <1>2, <1>3

\* A worker that writes a row leaves the rows of the other transactions alone.
LEMMA CommitsApart ==
    ASSUME WInv, NEW w \in Workers, NEW v \in Workers \ {w}, CommitDenial(w) \/ CommitEscalation(w),
           run[v].tx # "NONE"
    PROVE  SameRow(run[v].attempt)
  <1>1. /\ run[v].attempt \in AttemptIds
        /\ run[v].attempt # run[w].attempt
    BY DEF WInv, TransactionsAlone, WithRequest, Escalating, IInv, TypeOK, CommitDenial, CommitEscalation
  <1>2. \A seen, next : WriteParked(run[w].attempt, seen, next) => SameRow(run[v].attempt)
    BY <1>1 DEF WriteParked, SameRow, WInv, IInv, TypeOK
  <1>3. UNCHANGED vars => SameRow(run[v].attempt)
    BY DEF vars, attemptVars, SameRow
  <1> QED
    BY <1>2, <1>3 DEF CommitDenial, CommitEscalation

\* What a worker goes on to, step by step.
LEMMA WorkerStepKeepsTransactions ==
    ASSUME WInv, NEW w \in Workers, WorkerStep(w) \/ CutShort(w), created \subseteq created'
    PROVE  TransactionsAlone'
  <1> DEFINE a == run[w].attempt
  <1>1. /\ run \in [Workers -> RunRecord]
        /\ run[w] \in RunRecord
        /\ run[w].todo \subseteq created
        /\ run[w].pc \in {"CLAIM"} \cup WithRequest => a \in created
        /\ run[w].tx # "NONE" => run[w].pc \in {"DENY", "ESCALATE"}
    BY DEF WInv, RequestInv, RunsTyped, TransactionsAlone
  <1>2. created \subseteq AttemptIds /\ (a # Null => a \in created)
    BY DEF WInv, IInv, TypeOK, TransactionsAlone
  <1>3. ASSUME UNCHANGED vars
        PROVE  \A v \in Workers : SameRow(run[v].attempt)
    BY <1>3 DEF vars, attemptVars, SameRow
  <1>4. Idle \in RunRecord /\ Idle.todo = {} /\ Idle.attempt = Null /\ Idle.pc = "IDLE" /\ Idle.tx = "NONE"
    BY DEF RunRecord, PCs, Idle
  <1>5. CASE CutShort(w) \/ QueryFails(w) \/ FinishRun(w)
    <2>1. run' = [run EXCEPT ![w] = Idle] /\ UNCHANGED vars
      BY <1>5 DEF CutShort, QueryFails, FinishRun, Abandon
    <2> QED
      BY <1>3, <1>4, <2>1, WorkerKeepsTransactions DEF WithRequest, Escalating
  <1>6. CASE ListUnresolvedAttempts(w)
    <2> DEFINE r == [run[w] EXCEPT !.pc = "LISTED", !.todo = {b \in created : Unresolved(b)}]
    <2>1. run' = [run EXCEPT ![w] = r] /\ UNCHANGED vars /\ run[w].tx = "NONE"
      BY <1>1, <1>6 DEF ListUnresolvedAttempts
    <2>2. /\ r \in RunRecord /\ r.todo \subseteq created /\ r.attempt = a /\ r.pc = "LISTED"
          /\ r.tx = run[w].tx
      BY <1>1, <1>2 DEF RunRecord, PCs
    <2> HIDE DEF r
    <2> QED
      BY <1>2, <1>3, <2>1, <2>2, WorkerKeepsTransactions DEF WithRequest, Escalating
  <1>7. CASE ListRequestedReadOnlyQueries(w)
    <2>1. PICK chosen \in SUBSET [attempt : run[w].todo, request : RequestIds] :
             run' = [run EXCEPT ![w].pc = "NEXT", ![w].pending = chosen]
      BY <1>7 DEF ListRequestedReadOnlyQueries
    <2> DEFINE r == [run[w] EXCEPT !.pc = "NEXT", !.pending = chosen]
    <2>2. run' = [run EXCEPT ![w] = r] /\ UNCHANGED vars /\ run[w].tx = "NONE"
      BY <1>1, <1>7, <2>1 DEF ListRequestedReadOnlyQueries
    <2>3. chosen \subseteq [attempt : AttemptIds, request : RequestIds]
      BY <1>1, <1>2
    <2>4. /\ r \in RunRecord /\ r.todo = run[w].todo /\ r.attempt = a /\ r.pc = "NEXT"
          /\ r.tx = run[w].tx
      BY <1>1, <2>3 DEF RunRecord, PCs
    <2> HIDE DEF r
    <2> QED
      BY <1>1, <1>2, <1>3, <2>2, <2>4, WorkerKeepsTransactions DEF WithRequest, Escalating
  <1>8. CASE NextAttempt(w)
    <2>1. PICK b \in run[w].todo :
             run' = [run EXCEPT ![w].attempt = b, ![w].todo = @ \ {b},
                                ![w].pc = IF \E p \in run[w].pending : p.attempt = b
                                          THEN "CLAIM" ELSE "RECONCILE"]
      BY <1>8 DEF NextAttempt
    <2> DEFINE pc == IF \E p \in run[w].pending : p.attempt = b THEN "CLAIM" ELSE "RECONCILE"
               r  == [run[w] EXCEPT !.attempt = b, !.todo = @ \ {b}, !.pc = pc]
    <2>2. run' = [run EXCEPT ![w] = r] /\ UNCHANGED vars /\ run[w].tx = "NONE"
      BY <1>1, <1>8, <2>1 DEF NextAttempt
    <2>3. b \in created /\ b \in AttemptIds /\ pc \in PCs
      BY <1>1, <1>2 DEF PCs
    <2>4. /\ r \in RunRecord /\ r.todo \subseteq created /\ r.attempt = b /\ r.tx = run[w].tx
      <3> HIDE DEF pc
      <3> QED
        BY <1>1, <2>3 DEF RunRecord
    <2> HIDE DEF r
    <2> QED
      BY <1>3, <2>2, <2>3, <2>4, NamesAssumption, WorkerKeepsTransactions
  <1>9. CASE \/ SkipEscalation(w)
             \/ CommitEscalation(w)
    <2> DEFINE r == [run[w] EXCEPT !.pc = "NEXT", !.attempt = Null, !.request = Null,
                                   !.tx = "NONE", !.seen = Null]
    <2>1. run' = [run EXCEPT ![w] = r]
      BY <1>9 DEF SkipEscalation, CommitEscalation, LeaveAttempt
    <2>2. r \in RunRecord /\ r.todo = run[w].todo /\ r.attempt = Null /\ r.pc = "NEXT" /\ r.tx = "NONE"
      BY <1>1 DEF RunRecord, PCs
    <2>3. \A v \in Workers \ {w} : run[v].tx # "NONE" => SameRow(run[v].attempt)
      BY <1>3, <1>9, CommitsApart DEF SkipEscalation
    <2> HIDE DEF r
    <2> QED
      BY <1>1, <2>1, <2>2, <2>3, WorkerKeepsTransactions DEF WithRequest, Escalating
  <1>10. CASE CommitDenial(w)
    <2> DEFINE r == [run[w] EXCEPT !.pc = "CONSUME", !.tx = "NONE", !.seen = Null]
    <2>1. run' = [run EXCEPT ![w] = r] /\ a # Null
      BY <1>1, <1>10 DEF CommitDenial, WInv, TransactionsAlone, WithRequest, Escalating
    <2>2. r \in RunRecord /\ r.todo = run[w].todo /\ r.attempt = a /\ r.tx = "NONE"
      BY <1>1 DEF RunRecord, PCs
    <2>3. \A v \in Workers \ {w} : run[v].tx # "NONE" => SameRow(run[v].attempt)
      BY <1>10, CommitsApart
    <2> HIDE DEF r
    <2> QED
      BY <1>1, <1>2, <2>1, <2>2, <2>3, WorkerKeepsTransactions
  <1>11. CASE LockRows(w)
    <2> DEFINE r == [run[w] EXCEPT !.tx = "LOCKED"]
    <2>1. /\ run' = [run EXCEPT ![w] = r] /\ UNCHANGED vars
          /\ run[w].pc \in {"DENY", "ESCALATE"} /\ LockFree(ObligationOf(a))
      BY <1>11 DEF LockRows
    <2>2. /\ r \in RunRecord /\ r.todo = run[w].todo /\ r.attempt = a /\ r.pc = run[w].pc /\ r.tx = "LOCKED"
      BY <1>1 DEF RunRecord
    <2>3. a # Null
      BY <2>1 DEF WInv, TransactionsAlone, WithRequest, Escalating
    <2> HIDE DEF r
    <2> QED
      BY <1>1, <1>2, <1>3, <2>1, <2>2, <2>3, WorkerKeepsTransactions
  <1>12. CASE ReadRow(w)
    <2> DEFINE r == [run[w] EXCEPT !.tx = "READ", !.seen = Snapshot(a)]
    <2>1. /\ run' = [run EXCEPT ![w] = r] /\ UNCHANGED vars
          /\ run[w].pc \in {"DENY", "ESCALATE"} /\ run[w].tx = "LOCKED"
      BY <1>1, <1>12 DEF ReadRow
    <2>2. a # Null /\ Snapshot(a) \in AttemptRecord
      BY <1>2, <2>1 DEF WInv, TransactionsAlone, WithRequest, Escalating, IInv, AttemptsWellFormed, WellFormed
    <2>3. /\ r \in RunRecord /\ r.todo = run[w].todo /\ r.attempt = a /\ r.pc = run[w].pc
          /\ r.tx = "READ" /\ r.seen = Snapshot(a)
      <3> DEFINE row == Snapshot(a)
      <3> HIDE DEF row
      <3> QED
        BY <1>1, <2>2 DEF RunRecord, row
    <2> HIDE DEF r
    <2> QED
      BY <1>1, <1>2, <1>3, <2>1, <2>2, <2>3, WorkerKeepsTransactions
  <1>13. CASE ClaimReadOnlyQueryRequest(w)
    <2>1. PICK p \in run[w].pending :
             \/ GoTo(w, "SLA")
             \/ run' = [run EXCEPT ![w].pc = "RECONCILE", ![w].request = p.request]
      BY <1>13 DEF ClaimReadOnlyQueryRequest
    <2>2. UNCHANGED vars /\ run[w].tx = "NONE" /\ a # Null
      BY <1>1, <1>13 DEF ClaimReadOnlyQueryRequest, WInv, TransactionsAlone
    <2>3. CASE GoTo(w, "SLA")
      <3> DEFINE r == [run[w] EXCEPT !.pc = "SLA"]
      <3>1. run' = [run EXCEPT ![w] = r]
        BY <2>3 DEF GoTo
      <3>2. r \in RunRecord /\ r.todo = run[w].todo /\ r.attempt = a /\ r.tx = run[w].tx
        BY <1>1 DEF RunRecord, PCs
      <3> HIDE DEF r
      <3> QED
        BY <1>1, <1>2, <1>3, <2>2, <3>1, <3>2, WorkerKeepsTransactions
    <2>4. CASE run' = [run EXCEPT ![w].pc = "RECONCILE", ![w].request = p.request]
      <3> DEFINE r == [run[w] EXCEPT !.pc = "RECONCILE", !.request = p.request]
      <3>1. p.request \in RequestIds
        BY <1>1 DEF RunRecord
      <3>2. r \in RunRecord /\ r.todo = run[w].todo /\ r.attempt = a /\ r.tx = run[w].tx
        BY <1>1, <3>1 DEF RunRecord, PCs
      <3>3. run' = [run EXCEPT ![w] = r]
        BY <2>4
      <3> HIDE DEF r
      <3> QED
        BY <1>1, <1>2, <1>3, <2>2, <3>2, <3>3, WorkerKeepsTransactions
    <2> QED
      BY <2>1, <2>3, <2>4
  <1>14. CASE \/ SkipQuery(w) \/ StartDenial(w) \/ SendQuery(w) \/ IngestAnswer(w) \/ RejectAnswer(w)
              \/ PersistReadOnlyQueryConsumption(w) \/ StartEscalation(w)
    <2>1. PICK pc \in {"CONSUME", "DENY", "QUERY", "SLA", "ESCALATE"} : GoTo(w, pc)
      BY <1>14 DEF SkipQuery, StartDenial, SendQuery, IngestAnswer, RejectAnswer,
                   PersistReadOnlyQueryConsumption, StartEscalation
    <2>2. run[w].tx = "NONE" /\ a # Null
      <3>1. run[w].pc \in {"RECONCILE", "QUERY", "CONSUME", "SLA"}
        BY <1>14 DEF SkipQuery, StartDenial, SendQuery, IngestAnswer, RejectAnswer,
                     PersistReadOnlyQueryConsumption, StartEscalation
      <3> QED
        BY <1>1, <3>1 DEF WInv, TransactionsAlone, WithRequest, Escalating
    <2>3. \A v \in Workers \ {w} : run[v].tx # "NONE" => SameRow(run[v].attempt)
      <3>1. CASE IngestAnswer(w)
        BY <3>1, RowsChangeUnlocked DEF IngestAnswer
      <3>2. CASE UNCHANGED vars
        BY <1>3, <3>2
      <3> QED
        BY <1>14, <3>1, <3>2 DEF SkipQuery, StartDenial, SendQuery, RejectAnswer,
                                 PersistReadOnlyQueryConsumption, StartEscalation
    <2> DEFINE r == [run[w] EXCEPT !.pc = pc]
    <2>4. run' = [run EXCEPT ![w] = r]
      BY <2>1 DEF GoTo
    <2>5. r \in RunRecord /\ r.todo = run[w].todo /\ r.attempt = a /\ r.tx = run[w].tx
      BY <1>1 DEF RunRecord, PCs
    <2> HIDE DEF r
    <2> QED
      BY <1>1, <1>2, <2>2, <2>3, <2>4, <2>5, WorkerKeepsTransactions
  <1> QED
    BY <1>5, <1>6, <1>7, <1>8, <1>9, <1>10, <1>11, <1>12, <1>13, <1>14 DEF WorkerStep

LEMMA StepKeepsTransactions ==
    ASSUME WInv, [WorkerNext]_allVars, created \subseteq created'
    PROVE  TransactionsAlone'
  <1>1. ASSUME NEW w \in Workers, WorkerStep(w) \/ CutShort(w)
        PROVE  TransactionsAlone'
    BY <1>1, WorkerStepKeepsTransactions
  <1>2. CASE OtherTransaction
    BY <1>2, RowsChangeUnlocked, OthersKeepTransactions DEF OtherTransaction
  <1>3. CASE \/ \E a \in AttemptIds : CreateNow(a)
             \/ \E a \in AttemptIds : \E r \in RequestIds : RequestQuery(a, r)
             \/ Tick \/ UNCHANGED allVars
    <2>1. run' = run /\ UNCHANGED attemptVars
      BY <1>3 DEF CreateNow, CreateAttempt, RequestQuery, RequestReadOnlyQuery, ReviewNote, Tick,
                  allVars, vars, workerVars
    <2> QED
      BY <2>1, OthersKeepTransactions DEF SameRow, attemptVars
  <1> QED
    BY <1>1, <1>2, <1>3 DEF WorkerNext

\* Attempts are never deleted.
LEMMA AttemptsRemain == ASSUME IInv, [Next]_vars PROVE created \subseteq created'
  BY DEF Next, vars, CreateAttempt, SlaEscalation, CredentialUseDenial, ClaimReview, AttachEvidenceReference,
         RequestReadOnlyQuery, ReviewNote, IngestObservation, CloseObligation

LEMMA WorkerNextInvariant ==
    ASSUME WInv, [WorkerNext]_allVars
    PROVE  WInv'
  <1> SUFFICES RequestInv'
    BY WorkerStepMaps, NextInvariant, AttemptsRemain, StepKeepsTransactions DEF WInv
  <1> USE DEF WInv
  <1>0. {"DENY", "QUERY", "CONSUME", "SLA", "ESCALATE"} \subseteq PCs
    BY DEF PCs
  <1>1. ASSUME NEW w \in Workers, WorkerStep(w)
        PROVE  RequestInv'
    <2>1. CASE \/ ListUnresolvedAttempts(w) \/ ListRequestedReadOnlyQueries(w)
               \/ NextAttempt(w) \/ FinishRun(w)
      BY <2>1, ListingStep DEF IInv, TypeOK
    <2>2. CASE ClaimReadOnlyQueryRequest(w)
      BY <2>2, ClaimStep
    <2>3. CASE SkipQuery(w) \/ StartDenial(w) \/ IngestAnswer(w) \/ RejectAnswer(w)
      <3>1. /\ run[w].pc \in {"RECONCILE", "QUERY"}
            /\ GoTo(w, "CONSUME") \/ GoTo(w, "DENY")
            /\ UNCHANGED requestVars
        BY <2>3 DEF SkipQuery, StartDenial, IngestAnswer, RejectAnswer
      <3> QED
        BY <1>0, <3>1, CounterMoves
    <2>4. CASE SendQuery(w)
      <3>1. CASE run[w].request = Null
        <4>1. GoTo(w, "QUERY") /\ UNCHANGED requestVars
          BY <2>4, <3>1 DEF SendQuery, requestVars
        <4> QED
          BY <1>0, <3>1, <4>1, CounterMoves
      <3>2. CASE run[w].request # Null
        <4>1. /\ run[w].pc = "RECONCILE" /\ GoTo(w, "QUERY")
              /\ executions' = [executions EXCEPT ![Held(w)] = @ + 1]
              /\ UNCHANGED <<requestRows, consumptions, abandoned>>
          BY <2>4, <3>2 DEF SendQuery
        <4> QED
          BY <1>0, <3>2, <4>1, WorkUnderClaim
      <3> QED
        BY <3>1, <3>2
    <2>5. CASE QueryFails(w)
      BY <2>5, AbandonStep DEF QueryFails
    <2>6. CASE PersistReadOnlyQueryConsumption(w)
      <3>1. CASE run[w].request = Null
        <4>1. GoTo(w, "SLA") /\ UNCHANGED requestVars
          BY <2>6, <3>1 DEF PersistReadOnlyQueryConsumption, requestVars
        <4> QED
          BY <1>0, <3>1, <4>1, CounterMoves
      <3>2. CASE run[w].request # Null
        <4>1. /\ run[w].pc = "CONSUME" /\ GoTo(w, "SLA")
              /\ requestRows' = requestRows \cup {Row("CONSUMED", run[w].request, run[w].attempt)}
              /\ consumptions' = [consumptions EXCEPT ![Held(w)] = @ + 1]
              /\ UNCHANGED <<executions, abandoned>>
          BY <2>6, <3>2 DEF PersistReadOnlyQueryConsumption
        <4> QED
          BY <1>0, <3>2, <4>1, WorkUnderClaim
      <3> QED
        BY <3>1, <3>2
    <2>7. CASE SkipEscalation(w) \/ CommitEscalation(w)
      <3> DEFINE r == [run[w] EXCEPT !.pc = "NEXT", !.attempt = Null, !.request = Null,
                                     !.tx = "NONE", !.seen = Null]
      <3>1. /\ run[w].pc \in Escalating
            /\ run' = [run EXCEPT ![w] = r]
            /\ UNCHANGED requestVars
        BY <2>7 DEF SkipEscalation, CommitEscalation, LeaveAttempt, Escalating
      <3>2. r \in RunRecord /\ r.request = Null
        BY DEF RequestInv, RunsTyped, RunRecord, PCs
      <3> HIDE DEF r
      <3> QED
        BY <3>1, <3>2, MoveOn
    <2>8. CASE StartEscalation(w)
      BY <1>0, <2>8, CounterMoves DEF StartEscalation, Escalating
    <2>9. CASE CommitDenial(w)
      <3> DEFINE r == [run[w] EXCEPT !.pc = "CONSUME", !.tx = "NONE", !.seen = Null]
      <3>1. run' = [run EXCEPT ![w] = r] /\ UNCHANGED requestVars /\ run[w].pc = "DENY"
        BY <2>9 DEF CommitDenial
      <3>2. /\ r \in RunRecord /\ r.request = run[w].request /\ r.attempt = run[w].attempt
            /\ r.pc = "CONSUME"
        BY DEF RequestInv, RunsTyped, RunRecord, PCs
      <3> HIDE DEF r
      <3> QED
        BY <3>1, <3>2, MoveOn
    <2>10. CASE LockRows(w) \/ ReadRow(w)
      <3>1. PICK tx \in {"LOCKED", "READ"}, seen \in AttemptRecord \cup {Null} :
               run' = [run EXCEPT ![w].tx = tx, ![w].seen = seen]
        <4>1. CASE LockRows(w)
          <5>1. run' = [run EXCEPT ![w].tx = "LOCKED", ![w].seen = run[w].seen]
            BY <4>1 DEF LockRows, RequestInv, RunsTyped, RunRecord
          <5> QED
            BY <5>1 DEF RequestInv, RunsTyped, RunRecord
        <4>2. CASE ReadRow(w)
          <5>1. run[w].attempt \in AttemptIds
            BY <4>2 DEF ReadRow, TransactionsAlone, WithRequest, Escalating, IInv, TypeOK
          <5>2. Snapshot(run[w].attempt) \in AttemptRecord
            BY <5>1 DEF IInv, AttemptsWellFormed, WellFormed
          <5> QED
            BY <4>2, <5>2 DEF ReadRow
        <4> QED
          BY <2>10, <4>1, <4>2
      <3> DEFINE r == [run[w] EXCEPT !.tx = tx, !.seen = seen]
      <3>2. run' = [run EXCEPT ![w] = r] /\ UNCHANGED requestVars /\ run[w].pc \in {"DENY", "ESCALATE"}
        BY <2>10, <3>1 DEF LockRows, ReadRow, TransactionsAlone
      <3>3. /\ r \in RunRecord /\ r.request = run[w].request /\ r.attempt = run[w].attempt
            /\ r.pc = run[w].pc
        BY DEF RequestInv, RunsTyped, RunRecord
      <3> HIDE DEF r
      <3> QED
        BY <3>2, <3>3, MoveOn DEF Escalating
    <2> QED
      BY <1>1, <2>1, <2>2, <2>3, <2>4, <2>5, <2>6, <2>7, <2>8, <2>9, <2>10 DEF WorkerStep
  <1>2. ASSUME NEW w \in Workers, CutShort(w)
        PROVE  RequestInv'
    BY <1>2, AbandonStep DEF CutShort
  <1>3. CASE \/ \E a \in AttemptIds : CreateNow(a)
             \/ OtherTransaction \/ Tick \/ UNCHANGED allVars
    BY <1>3, OutsideStep DEF CreateNow, OtherTransaction, Tick, allVars, workerVars, requestVars
  <1>4. ASSUME NEW a \in AttemptIds, NEW r \in RequestIds, RequestQuery(a, r)
        PROVE  RequestInv'
    BY <1>4, OutsideStep DEF RequestQuery
  <1> QED
    BY <1>1, <1>2, <1>3, <1>4 DEF WorkerNext

-----------------------------------------------------------------------------
(***************************************************************************)
(* Theorems.                                                               *)
(***************************************************************************)

\* Each request that is under way belongs to one worker, claims and consumptions say where it is
\* (runOnce), and a worker in a transaction is alone with its obligation and has read the row as it
\* is (persistSlaEscalation, persistCredentialUseDenial).
THEOREM WorkerInvariant == WorkerSpec => []WInv
  BY WorkerInitInvariant, WorkerNextInvariant, PTL DEF WorkerSpec

\* The lock, read and write of any number of workers, with lists however stale, other people's
\* transactions between any two awaits, and runs cut short in the middle, come to transactions of
\* the evidence state machine.
THEOREM WorkerImplements == WorkerSpec => ImplementsOrchestration
  <1>1. WorkerInit => Init
    BY DEF WorkerInit
  <1>2. WInv /\ [WorkerNext]_allVars => [Next]_vars
    BY WorkerStepMaps
  <1> QED
    BY <1>1, <1>2, WorkerInvariant, PTL DEF WorkerSpec, ImplementsOrchestration, Spec

\* So with workers running, too, the CHECK constraints hold and attempts only move forward.
THEOREM WorkersKeepChecks == WorkerSpec => []DatabaseChecksHold /\ AttemptsMoveForward
  BY WorkerImplements, DatabaseAccepts, ForwardOnly DEF ImplementsOrchestration

\* A reviewer's request leads to at most one query and one consumption row.
THEOREM ExecutedOnce == WorkerSpec => []RequestsRunOnce
  <1>1. WInv => RequestsRunOnce
    BY DEF WInv, RequestInv, CountsBounded, RequestsRunOnce, Pairs
  <1> QED
    BY <1>1, WorkerInvariant, PTL

\* A claimed request is consumed, held by one worker, or was held by a run cut short.
THEOREM ClaimsTraced == WorkerSpec => []ClaimsAccountedFor
  <1>1. ASSUME WInv PROVE ClaimsAccountedFor
    <2> SUFFICES ASSUME NEW p \in Pairs
                 PROVE  LET holders == {w \in Workers : Held(w) = p}
                        IN  /\ \A v, w \in holders : v = w
                            /\ Row("CLAIMED", p[1], p[2]) \in requestRows =>
                                  \/ Row("CONSUMED", p[1], p[2]) \in requestRows
                                  \/ holders # {}
                                  \/ p \in abandoned
      BY DEF ClaimsAccountedFor, Pairs
    <2>1. \A w \in Workers : Held(w) = p => run[w].request # Null
      BY NamesAssumption DEF Held, Pairs
    <2> QED
      BY <1>1, <2>1 DEF WInv, RequestInv, OneHolder, ClaimsKnown, Claimed, Consumed
  <1> QED
    BY <1>1, WorkerInvariant, PTL
=============================================================================
