------------------------------ MODULE Settlements -----------------------------
(***************************************************************************)
(* Reconciliation runs and what they pay out: runReconciliation and        *)
(* approveSellerSettlement of reconciliation.service.ts, the finance       *)
(* approvals and penalties of finance-policy.service.ts, the imports of    *)
(* invoice lines and remittances, and releasePaymentHold.                  *)
(*                                                                         *)
(* Every action is a transaction, except the decisions on an approval:     *)
(* approve reads the approval in one statement of a READ COMMITTED         *)
(* transaction and writes it in the last; reject reads and writes it       *)
(* outside of any transaction.  A decision that has passed its checks is   *)
(* in `deciding`.  Dispute rows, which nothing else reads, audit rows and  *)
(* block notes are left out.                                               *)
(*                                                                         *)
(* A result is named by its run and by what it is of, a settlement by its  *)
(* result, and a hold by its result and its reason: createResult makes at  *)
(* most one of each.                                                       *)
(***************************************************************************)
EXTENDS ReconciliationPlan

CONSTANTS
    Orders, Shipments, Rates, Events, Policies,     \* lists of rows, fixed here
    LineImports, RemittanceImports,                 \* the rows that may be imported, each once
    Users,
    MaxRuns, MaxApprovals                           \* bounds

VARIABLES
    lines, remittances,     \* the imported rows, oldest first
    runs,                   \* the number of reconciliation runs
    results,                \* ReconciliationResult rows, with the number of lines they knew
    paymentHolds,           \* PaymentHold -> its status
    settlements,            \* SellerSettlement rows
    penalties,              \* result -> amount of its CourierPenalty
    approvals,              \* FinanceApprovalRequest rows
    deciding,               \* decisions of checkers that have passed their checks
    wallet                  \* the seller's wallet entries: [key, settlement, amount]

\* Amounts are whole, lists are lists, and nobody is no user.
ASSUME SettlementsAssumption ==
    /\ Orders \in Seq(ToSet(Orders)) /\ Shipments \in Seq(ToSet(Shipments))
    /\ \A o \in ToSet(Orders) : o.cod \in Nat
    /\ \A m \in RemittanceImports : m.amount \in Nat
    /\ Null \notin Users

imported == <<lines, remittances>>
reconciled == <<runs, results>>
settlementVars == <<imported, reconciled, paymentHolds, settlements, penalties, approvals, deciding, wallet>>

SettlementsInit ==
    /\ lines = <<>> /\ remittances = <<>> /\ runs = 0 /\ results = <<>>
    /\ paymentHolds = <<>> /\ settlements = <<>> /\ penalties = <<>>
    /\ approvals = <<>> /\ deciding = {} /\ wallet = <<>>

-----------------------------------------------------------------------------
ImportLine(line) ==
    /\ line \notin ToSet(lines)
    /\ lines' = Append(lines, line)
    /\ UNCHANGED <<remittances, reconciled, paymentHolds, settlements, penalties, approvals, deciding, wallet>>

ImportRemittance(remittance) ==
    /\ remittance \notin ToSet(remittances)
    /\ remittances' = Append(remittances, remittance)
    /\ UNCHANGED <<lines, reconciled, paymentHolds, settlements, penalties, approvals, deciding, wallet>>

\* The remittance a penalty is for: unlike the engine, the one that was remitted last, and one
\* without a date before all (the database sorts NULL first when it sorts downwards).
PenalisedRemittance(result) ==
    LET SameKey(r) == IF result.awb # Null THEN r.awb = result.awb
                      ELSE r.awb = Null /\ r.order = result.order
        mine == {r \in ToSet(remittances) : SameKey(r)}
        undated == {r \in mine : r.at = Null}
    IN  IF mine = {} THEN Null
        ELSE IF undated # {} THEN CHOOSE r \in undated : TRUE
        ELSE CHOOSE r \in mine : \A other \in mine : other.at <= r.at

PenaltyOf(result) ==
    LET remittance == PenalisedRemittance(result)
        shipment   == FirstOf(Shipments, {i \in DOMAIN Shipments : Shipments[i].order = result.order})
        policy     == FirstOf(Policies, {i \in DOMAIN Policies : Policies[i].courier = result.courier})
    IN  IF result.cod = 0 \/ Null \in {result.remitted, result.courier, remittance, shipment} THEN 0
        ELSE Penalty(shipment.deliveredAt, remittance.at, result.cod,
                     IF policy = Null THEN DefaultPolicy(result.courier) ELSE policy)

\* A penalty that comes to nothing now is left as it was.
Penalties(rows, scope) ==
    LET due == {k \in scope : PenaltyOf(rows[k].plan) > 0}
    IN  [k \in DOMAIN penalties \union due |-> IF k \in due THEN PenaltyOf(rows[k].plan) ELSE penalties[k]]

RecalculatePenalties ==
    /\ penalties' = Penalties(results, DOMAIN results)
    /\ UNCHANGED <<imported, reconciled, paymentHolds, settlements, approvals, deciding, wallet>>

\* createResult: a result that is approved gets a settlement, and every hold a row.
WithResults(plan, new) ==
    [k \in DOMAIN results \union new |->
        IF k \in new THEN [plan |-> plan[k[2]], status |-> plan[k[2]].status, known |-> Len(lines)] ELSE results[k]]
WithHolds(plan, new) ==
    [h \in DOMAIN paymentHolds \union UNION {{<<k, hold[1]>> : hold \in plan[k[2]].holds} : k \in new} |->
        IF h[1] \in new THEN "ACTIVE" ELSE paymentHolds[h]]
WithSettlements(plan, new) ==
    [k \in DOMAIN settlements \union {n \in new : plan[n[2]].status = "AUTO_APPROVED"} |->
        IF k \in new THEN [payable |-> plan[k[2]].payable, status |-> "APPROVED"] ELSE settlements[k]]

\* What a run reads.
Known == [orders |-> Orders, shipments |-> Shipments, rates |-> Rates, events |-> Events, policies |-> Policies,
          lines |-> lines, remittances |-> remittances]

RunReconciliation ==
    /\ runs < MaxRuns
    /\ runs' = runs + 1
    /\ \E plan \in {Plan(Known)} :
       LET new == {<<runs + 1, of>> : of \in DOMAIN plan}
       IN  /\ results' = WithResults(plan, new)
           /\ paymentHolds' = WithHolds(plan, new)
           /\ settlements' = WithSettlements(plan, new)
           /\ penalties' = Penalties(results', new)
    /\ UNCHANGED <<imported, approvals, deciding, wallet>>

\* releasePaymentHold does not look at the status.
ReleaseHold(h) ==
    /\ h \in DOMAIN paymentHolds
    /\ paymentHolds' = [paymentHolds EXCEPT ![h] = "RELEASED"]
    /\ UNCHANGED <<imported, reconciled, settlements, penalties, approvals, deciding, wallet>>

-----------------------------------------------------------------------------

\* The wallet takes a key once.
Credited(key, s) ==
    IF \E e \in ToSet(wallet) : e.key = key THEN wallet
    ELSE Append(wallet, [key |-> key, settlement |-> s, amount |-> settlements[s].payable])

\* Settles and credits a settlement with the key of what released it, in one transaction: the
\* wallet takes positive amounts only, and a payable of nothing or less rolls everything back.
PayOut(key, s) ==
    /\ settlements[s].payable > 0
    /\ settlements' = [settlements EXCEPT ![s].status = "SETTLED"]
    /\ wallet' = Credited(key, s)
    /\ results' = [results EXCEPT ![s].status = "SETTLED"]

ApproveSettlement(s) ==
    /\ s \in DOMAIN settlements
    /\ settlements[s].status # "BLOCKED"
    /\ PayOut(<<s, 0>>, s)
    /\ UNCHANGED <<imported, runs, paymentHolds, penalties, approvals, deciding>>

\* What an approval can be asked for.
Targets ==
    {[type |-> "PAYMENT_HOLD_RELEASE", row |-> h] : h \in {i \in DOMAIN paymentHolds : paymentHolds[i] = "ACTIVE"}}
        \union {[type |-> "SELLER_SETTLEMENT", row |-> s] :
                   s \in {i \in DOMAIN settlements : settlements[i].status # "BLOCKED"}}

CreateApproval(target, maker) ==
    /\ Len(approvals) < MaxApprovals
    /\ approvals' = Append(approvals, [target |-> target, maker |-> maker, checker |-> Null, status |-> "PENDING"])
    /\ UNCHANGED <<imported, reconciled, paymentHolds, settlements, penalties, deciding, wallet>>

\* Mutant of MayDecide: makers may check their own requests.
MayDecideOwn(a, checker) == approvals[a].status = "PENDING"

MayDecide(a, checker) ==
    /\ approvals[a].status = "PENDING"
    /\ approvals[a].maker # checker

StartDecision(a, checker, verdict) ==
    /\ MayDecide(a, checker)
    /\ deciding' = deciding \union {[approval |-> a, checker |-> checker, verdict |-> verdict]}
    /\ UNCHANGED <<imported, reconciled, paymentHolds, settlements, penalties, approvals, wallet>>

Decided(d) ==
    /\ approvals' = [approvals EXCEPT ![d.approval].status = d.verdict, ![d.approval].checker = d.checker]
    /\ deciding' = deciding \ {d}

\* What an approved request does, and the approval, in one transaction; the status of the hold
\* is not looked at again.
CommitApproval(d) ==
    LET target == approvals[d.approval].target
    IN  /\ d.verdict = "APPROVED"
        /\ Decided(d)
        /\ \/ /\ target.type = "PAYMENT_HOLD_RELEASE"
              /\ paymentHolds' = [paymentHolds EXCEPT ![target.row] = "RELEASED"]
              /\ UNCHANGED <<results, settlements, wallet>>
           \/ /\ target.type = "SELLER_SETTLEMENT"
              /\ settlements[target.row].status # "BLOCKED"
              /\ PayOut(<<target.row, d.approval>>, target.row)
              /\ UNCHANGED paymentHolds
        /\ UNCHANGED <<imported, runs, penalties>>

WriteRejection(d) ==
    /\ d.verdict = "REJECTED"
    /\ Decided(d)
    /\ UNCHANGED <<imported, reconciled, paymentHolds, settlements, penalties, wallet>>

\* The request is lost, or its transaction rolled back.
DropDecision(d) ==
    /\ deciding' = deciding \ {d}
    /\ UNCHANGED <<imported, reconciled, paymentHolds, settlements, penalties, approvals, wallet>>

SettlementsNext ==
    \/ \E line \in LineImports : ImportLine(line)
    \/ \E remittance \in RemittanceImports : ImportRemittance(remittance)
    \/ RunReconciliation \/ RecalculatePenalties
    \/ \E h \in DOMAIN paymentHolds : ReleaseHold(h)
    \/ \E s \in DOMAIN settlements : ApproveSettlement(s)
    \/ \E target \in Targets, maker \in Users : CreateApproval(target, maker)
    \/ \E a \in DOMAIN approvals, checker \in Users, verdict \in {"APPROVED", "REJECTED"} :
          StartDecision(a, checker, verdict)
    \/ \E d \in deciding : CommitApproval(d) \/ WriteRejection(d) \/ DropDecision(d)

SettlementsSpec == SettlementsInit /\ [][SettlementsNext]_settlementVars

-----------------------------------------------------------------------------
\* A remittance is for an order that it names, or whose shipment has its waybill.
RemittedFor(m, order) ==
    \E o \in ToSet(Orders) :
        /\ o.id = order
        /\ \/ m.order = o.id \/ m.ext = o.ext
           \/ m.awb # Null /\ \E shipment \in ToSet(Shipments) : shipment.order = o.id /\ shipment.awb = m.awb

(***************************************************************************)
(* A seller is only paid for a COD order whose cash the courier has        *)
(* remitted, up to the tolerance, and gets it less the charge              *)
(* (buildMatchedResult: the settlement is blocked until COD is             *)
(* reconciled); a waybill billed more than once is not settled by a run    *)
(* that sees it, and exactly the results without a dispute are settled     *)
(* (buildReconciliationPlan, resultStatus).                                *)
(***************************************************************************)
SettlementsAreFunded ==
    /\ DOMAIN settlements = {k \in DOMAIN results : results[k].plan.disputes = {}}
    /\ \A k \in DOMAIN settlements :
        LET r == results[k].plan
        IN  /\ \E i \in 1..results[k].known :
                  /\ k[2] = <<"line", i>>
                  /\ \A j \in 1..results[k].known \ {i} : lines[i].awb = Null \/ lines[j].awb # lines[i].awb
            /\ r.cod > 0 =>
                  \E m \in ToSet(remittances) :
                      /\ RemittedFor(m, r.order)
                      /\ m.amount >= r.cod - Tolerance
                      /\ settlements[k].payable = m.amount - r.charge

(***************************************************************************)
(* What is settled and what the wallet was credited with say the same:     *)
(* every settlement that is SETTLED has a credit in its amount, which is   *)
(* more than nothing, and every credit is of a SETTLED settlement; a       *)
(* credit with the key of an approval is of an approval for that           *)
(* settlement, which somebody else than its maker has decided, and an      *)
(* approval that ended APPROVED has its credit, whoever else decided it    *)
(* meanwhile (approveFinanceApprovalRequest).  A direct release            *)
(* (approveSellerSettlement) has no second user, and one settlement may be *)
(* credited directly and by each of its approvals.                         *)
(***************************************************************************)
CreditsAreAuthorised ==
    /\ \A s \in DOMAIN settlements :
          settlements[s].status = "SETTLED" => \E e \in ToSet(wallet) : e.settlement = s
    /\ \A e \in ToSet(wallet) :
          /\ settlements[e.settlement].status = "SETTLED" /\ results[e.settlement].status = "SETTLED"
          /\ e.amount = settlements[e.settlement].payable /\ e.amount > 0
          /\ e.key[2] # 0 =>
                LET a == approvals[e.key[2]]
                IN  a.status # "PENDING" /\ a.checker \notin {a.maker, Null}
                      /\ a.target = [type |-> "SELLER_SETTLEMENT", row |-> e.settlement]
    /\ \A i \in DOMAIN approvals :
          approvals[i].status = "APPROVED" /\ approvals[i].target.type = "SELLER_SETTLEMENT" =>
              \E e \in ToSet(wallet) : e.key = <<approvals[i].target.row, i>>

===============================================================================
