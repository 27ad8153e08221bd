-------------------------- MODULE ReconciliationPlan --------------------------
(***************************************************************************)
(* The pure part of reconciliation: buildReconciliationPlan of             *)
(* reconciliation-engine.ts and calculateCodDelayPenalty of                *)
(* finance-policy.service.ts.  Money is in hundredths, time in days, and a *)
(* field that is not given is Null.  The words of an event are abstracted  *)
(* to the signals the engine looks for in them, "RTO" and "FAKE"; the      *)
(* weight of a line is the charged one.  Disputes and holds are sets of    *)
(* pairs of a type and an amount: a result has one of a type at most.      *)
(***************************************************************************)
EXTENDS Integers, SequencesExt, NoValue

Tolerance == 1              \* MONEY_TOLERANCE
DefaultSlaDays == 7         \* COD_REMITTANCE_SLA_DAYS

\* find: of some places of a list, what stands at the first.
Smallest(places) == CHOOSE i \in places : \A j \in places : i <= j
FirstOf(rows, places) == IF places = {} THEN Null ELSE rows[Smallest(places)]

Given(value, default) == IF value = Null THEN default ELSE value
Positive(n) == IF n > 0 THEN n ELSE 0
Percent(amount, rate) == (amount * rate + 50) \div 100
Total(claims) == MapThenSumSet(LAMBDA claim : claim[2], claims)

-----------------------------------------------------------------------------
\* findOrderForLine: by waybill, then by order id, then by the seller's own number.
ShipmentOf(order, shipments) == FirstOf(shipments, {i \in DOMAIN shipments : shipments[i].order = order.id})

FindOrder(line, orders, shipments) ==
    LET byAwb   == {i \in DOMAIN shipments : line.awb # Null /\ shipments[i].awb = line.awb}
        byId    == {i \in DOMAIN orders : line.order # Null /\ orders[i].id = line.order}
        byExt   == {i \in DOMAIN orders : line.ext # Null /\ orders[i].ext = line.ext}
        shipped == {i \in DOMAIN orders : orders[i].id = FirstOf(shipments, byAwb).order}
    IN  FirstOf(orders, IF byAwb # {} THEN shipped ELSE IF byId # {} THEN byId ELSE byExt)

\* The remittances of an order are not added up: the oldest that names its waybill counts, else
\* the oldest that names the order.
FindRemittance(order, shipment, remittances) ==
    LET awb   == IF shipment = Null THEN Null ELSE shipment.awb
        byAwb == {i \in DOMAIN remittances : awb # Null /\ remittances[i].awb = awb}
        byId  == {i \in DOMAIN remittances : remittances[i].order = order.id}
        byExt == {i \in DOMAIN remittances : remittances[i].ext = order.ext}
    IN  FirstOf(remittances, IF byAwb # {} THEN byAwb ELSE IF byId # {} THEN byId ELSE byExt)

SignalsFor(awb, order, courier, events) ==
    {events[i].signal : i \in {j \in DOMAIN events :
        /\ courier = Null \/ events[j].courier \in {Null, courier}
        /\ (awb # Null /\ events[j].awb = awb) \/ events[j].order = order.id}}

RateFor(courier, zone, weight, rates) ==
    FirstOf(rates, {i \in DOMAIN rates :
        /\ courier \in {Null, rates[i].courier} /\ zone \in {Null, rates[i].zone}
        /\ rates[i].minWeight <= weight /\ weight <= rates[i].maxWeight})

\* calculateExpectedCourierCharge: the tax is on the freight, the return freight and the COD fee.
ExpectedCharge(order, weight, rto, rate) ==
    LET blocks   == (Positive(weight - rate.minWeight) + 499) \div 500
        subtotal == rate.base + blocks * rate.additional + (IF rto THEN rate.rto ELSE 0)
                        + (IF order.mode = "COD" THEN rate.codFee ELSE 0)
    IN  subtotal + Percent(subtotal, rate.gst)

\* isDeliveredAtLate
Late(remittance, shipment, slaDays) ==
    /\ remittance # Null /\ shipment # Null
    /\ remittance.at # Null /\ shipment.deliveredAt # Null
    /\ remittance.at - shipment.deliveredAt > Positive(slaDays)

-----------------------------------------------------------------------------

\* resultStatus: the first dispute of this list decides.
Precedence ==
    << <<"DUPLICATE_BILLING", "DUPLICATE_BILLING">>, <<"UNKNOWN_AWB", "MANUAL_REVIEW">>,
       <<"RTO_CHARGE_ISSUE", "RTO_CHARGE_REVIEW">>, <<"FAKE_ATTEMPT_NDR_ISSUE", "FAKE_ATTEMPT_REVIEW">>,
       <<"WEIGHT_DISPUTE", "WEIGHT_DISPUTE">>, <<"ZONE_DISPUTE", "ZONE_DISPUTE">>,
       <<"COD_SHORTFALL", "COD_SHORTFALL">>, <<"COD_DELAY", "COD_DELAYED">>,
       <<"INVOICE_MISMATCH", "INVOICE_MISMATCH">> >>

Ranked(disputes) == {i \in DOMAIN Precedence : \E d \in disputes : d[1] = Precedence[i][1]}

\* Mutant of ResultStatus: only the invoice is looked at.
ResultStatusOfInvoice(disputes, holds) ==
    IF Ranked(disputes) \intersect 1..6 # {} THEN Precedence[Smallest(Ranked(disputes))][2] ELSE "AUTO_APPROVED"

ResultStatus(disputes, holds) ==
    IF Ranked(disputes) # {} THEN Precedence[Smallest(Ranked(disputes))][2]
    ELSE IF holds # {} THEN "PAYMENT_HOLD" ELSE "AUTO_APPROVED"

When(condition, type, amount) == IF condition THEN {<<type, amount>>} ELSE {}

\* No line, and no shipment.
NoLine == [awb |-> Null, courier |-> Null, weight |-> Null, zone |-> Null, rto |-> 0, total |-> Null]
NoShipment == [awb |-> Null, courier |-> Null, weight |-> Null, zone |-> Null, rto |-> FALSE]

\* What is known of a parcel: the line goes before the shipment.
Parcel(order, billed, shipped, in) ==
    LET awb     == Given(billed.awb, shipped.awb)
        courier == Given(billed.courier, shipped.courier)
        signals == SignalsFor(awb, order, courier, in.events)
    IN  [awb |-> awb, courier |-> courier, zone |-> Given(billed.zone, shipped.zone),
         weight |-> Given(billed.weight, Given(shipped.weight, Given(order.weight, 500))),
         fake |-> "FAKE" \in signals, rto |-> order.rto \/ shipped.rto \/ "RTO" \in signals]

\* What the parcel should have cost, nothing without a rate, and what the invoice asks for it.
Pricing(order, parcel, invoiced, rates) ==
    LET rate   == RateFor(parcel.courier, parcel.zone, parcel.weight, rates)
        charge == IF rate = Null THEN 0 ELSE ExpectedCharge(order, parcel.weight, parcel.rto, rate)
    IN  [priced |-> rate # Null, charge |-> charge, invoiced |-> Given(invoiced, 0),
         amount |-> Given(invoiced, charge), over |-> Positive(Given(invoiced, 0) - charge),
         mismatch |-> invoiced # Null /\ invoiced - charge \notin (-Tolerance)..Tolerance]

\* The cash on delivery that is due, that came in, and what is wrong with it.
Cash(order, shipment, remittance, policy) ==
    LET cod      == IF order.mode = "COD" THEN order.cod ELSE 0
        remitted == IF remittance = Null THEN Null ELSE remittance.amount
        pending  == Positive(cod - Given(remitted, 0))
    IN  [cod |-> cod, remitted |-> remitted, pending |-> pending, missing |-> cod > 0 /\ remitted = Null,
         short |-> ~(cod > 0 /\ remitted = Null) /\ pending > Tolerance,
         late |-> cod > 0 /\ Late(remittance, shipment, IF policy = Null THEN DefaultSlaDays ELSE policy.slaDays)]

Differ(a, b) == Null \notin {a, b} /\ a # b

\* The disputes and holds of a matched order.
DisputesOf(duplicate, billed, shipped, parcel, money, cash) ==
    When(duplicate, "DUPLICATE_BILLING", money.amount)
        \union When(~money.priced, "INVOICE_MISMATCH", money.invoiced)
        \union When(money.priced /\ money.mismatch, "INVOICE_MISMATCH",
                IF money.over > 0 THEN money.over ELSE money.charge - money.invoiced)
        \union When(Differ(billed.weight, shipped.weight) /\ billed.weight > shipped.weight, "WEIGHT_DISPUTE", money.over)
        \union When(Differ(billed.zone, shipped.zone), "ZONE_DISPUTE", money.over)
        \union When(billed.rto > 0 /\ ~parcel.rto, "RTO_CHARGE_ISSUE", billed.rto)
        \union When(parcel.fake, "FAKE_ATTEMPT_NDR_ISSUE", money.charge)
        \union When(cash.missing \/ cash.short, "COD_SHORTFALL", cash.pending)
        \union When(cash.late, "COD_DELAY", cash.pending)

HoldsOf(duplicate, billed, parcel, money, cash) ==
    When(duplicate, "DUPLICATE_BILLING", money.amount)
        \union When(billed.rto > 0 /\ ~parcel.rto, "RTO_CHARGE_ISSUE", billed.rto)
        \union When(cash.missing, "MISSING_REMITTANCE", cash.pending)
        \union When(cash.short, "COD_SHORTFALL", cash.pending)
        \union When(cash.late, "COD_DELAYED", cash.cod)

\* The result that is stored.
Result(order, parcel, money, cash, disputes, holds, status) ==
    [order |-> order.id, awb |-> parcel.awb, courier |-> parcel.courier, status |-> status,
     charge |-> money.charge, cod |-> cash.cod, remitted |-> cash.remitted,
     payable |-> Given(cash.remitted, 0) - money.charge,
     courierPayable |-> IF status = "AUTO_APPROVED" THEN money.amount
                        ELSE Positive(money.amount - Total(disputes) - cash.pending),
     disputes |-> disputes, holds |-> holds]

Judged(order, duplicate, billed, shipped, parcel, money, cash) ==
    LET disputes == DisputesOf(duplicate, billed, shipped, parcel, money, cash)
        holds    == HoldsOf(duplicate, billed, parcel, money, cash)
    IN  Result(order, parcel, money, cash, disputes, holds, ResultStatus(disputes, holds))

(***************************************************************************)
(* buildMatchedResult: what is known of an order, as the plan for one of   *)
(* its invoice lines, or for NoLine.                                       *)
(***************************************************************************)
MatchedResult(order, line, duplicate, in) ==
    LET shipment == ShipmentOf(order, in.shipments)
        shipped  == IF shipment = Null THEN NoShipment ELSE shipment
        parcel   == Parcel(order, line, shipped, in)
        policy   == FirstOf(in.policies, {i \in DOMAIN in.policies : in.policies[i].courier = parcel.courier})
    IN  Judged(order, duplicate, line, shipped, parcel, Pricing(order, parcel, line.total, in.rates),
               Cash(order, shipment, FindRemittance(order, shipment, in.remittances), policy))

\* buildUnknownLineResult
UnknownResult(line, duplicate) ==
    LET disputes == {<<"UNKNOWN_AWB", line.total>>} \union When(duplicate, "DUPLICATE_BILLING", line.total)
    IN  [order |-> line.order, awb |-> line.awb, courier |-> line.courier,
         status |-> ResultStatus(disputes, {}), charge |-> 0, cod |-> 0, remitted |-> Null,
         payable |-> 0, courierPayable |-> 0, disputes |-> disputes,
         holds |-> {<<"UNKNOWN_AWB", line.total>>}]

Duplicate(line, lines) ==
    line.awb # Null /\ \E i, j \in DOMAIN lines : i # j /\ lines[i].awb = line.awb /\ lines[j].awb = line.awb

LineResult(line, in) ==
    LET order == FindOrder(line, in.orders, in.shipments)
        again == Duplicate(line, in.lines)
    IN  IF order = Null THEN UnknownResult(line, again) ELSE MatchedResult(order, line, again, in)

OrderResult(order, in) == MatchedResult(order, NoLine, FALSE, in)

\* A COD order no line was found for only gets a result when something is wrong with it.
OrdersLeft(in) ==
    {i \in DOMAIN in.orders :
        /\ in.orders[i].mode = "COD"
        /\ \A j \in DOMAIN in.lines : LineResult(in.lines[j], in).order # in.orders[i].id
        /\ OrderResult(in.orders[i], in).status # "AUTO_APPROVED"}

\* The results, by what they are of: a line or an order, and where it stands among them.
Plan(in) ==
    [of \in {<<"line", i>> : i \in DOMAIN in.lines} \union {<<"order", i>> : i \in OrdersLeft(in)} |->
        IF of[1] = "line" THEN LineResult(in.lines[of[2]], in) ELSE OrderResult(in.orders[of[2]], in)]

-----------------------------------------------------------------------------
\* calculateCodDelayPenalty; the policy is that of the courier, or defaultPolicy.
DefaultPolicy(courier) ==
    [courier |-> courier, slaDays |-> 7, graceDays |-> 0, bps |-> 50, fixed |-> 0, most |-> Null]

Penalty(deliveredAt, remittedAt, base, policy) ==
    LET days     == IF Null \in {deliveredAt, remittedAt} THEN 0
                    ELSE Positive(Positive(remittedAt - deliveredAt) - policy.slaDays - policy.graceDays)
        uncapped == policy.fixed + (base * policy.bps * days + 5000) \div 10000
    IN  IF days = 0 THEN 0
        ELSE IF policy.most # Null /\ policy.most < uncapped THEN policy.most ELSE uncapped
===============================================================================
