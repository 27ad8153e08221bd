----------------------------- MODULE CheckoutQuote -----------------------------
(***************************************************************************)
(* The arithmetic of checkout-quote.service.ts: what a cart of a total     *)
(* costs in each of the three modes, under the rules of a merchant.        *)
(* Amounts are minor units; labels, reasons and badges are left out, and a *)
(* pincode is a model value.                                               *)
(***************************************************************************)
EXTENDS Integers, NoValue

Modes == {"prepaid", "partial_cod", "full_cod"}      \* CHECKOUT_MODES

\* clamp: the upper bound is applied last and wins.
Clamp(amount, low, high) ==
    LET raised == IF low # Null /\ amount < low THEN low ELSE amount
    IN  IF high # Null /\ raised > high THEN high ELSE raised

Charge(rule, base) ==
    Clamp(IF rule.type = "flat" THEN rule.value ELSE (base * rule.value) \div 10000, rule.min, rule.max)

\* Mutant of Discount: a minimum above the cart is not cut down to it.
DiscountAsGiven(rules, cart) == IF cart > 0 THEN Charge(rules.discount, cart) ELSE 0

Discount(rules, cart) == IF cart > 0 THEN Clamp(Charge(rules.discount, cart), Null, cart) ELSE 0

CodFee(rules, cart) ==
    IF rules.waiveAbove # Null /\ cart >= rules.waiveAbove THEN 0 ELSE Charge(rules.fee, cart)

Advance(rules, cart) == Clamp(Charge(rules.advance, cart), Null, cart)

CodAvailable(rules, cart, pincode) ==
    /\ cart > 0 /\ rules.codEnabled
    /\ cart >= rules.codMin /\ (rules.codMax = Null \/ cart <= rules.codMax)
    /\ pincode \notin rules.blocked

ForcesAdvance(rules, pincode) == pincode \in rules.risky /\ rules.forceAdvance

\* computeCheckoutQuote.
Options(rules, cart, pincode) ==
    LET fee        == CodFee(rules, cart)
        partialFee == IF rules.waivePartialFee THEN 0 ELSE fee
    IN  [mode \in Modes |->
          CASE mode = "prepaid" ->
                 [available |-> cart > 0, discount |-> Discount(rules, cart), fee |-> 0,
                  payNow |-> cart - Discount(rules, cart), payOnDelivery |-> 0,
                  total |-> cart - Discount(rules, cart)]
            [] mode = "full_cod" ->
                 [available |-> CodAvailable(rules, cart, pincode) /\ ~ForcesAdvance(rules, pincode),
                  discount |-> 0, fee |-> fee, payNow |-> 0, payOnDelivery |-> cart + fee,
                  total |-> cart + fee]
            [] OTHER ->
                 [available |-> /\ CodAvailable(rules, cart, pincode)
                                /\ rules.partialEnabled /\ cart >= rules.partialMin,
                  discount |-> 0, fee |-> partialFee, payNow |-> Advance(rules, cart),
                  payOnDelivery |-> cart - Advance(rules, cart) + partialFee,
                  total |-> cart + partialFee]]

-----------------------------------------------------------------------------
\* validateCheckoutRules: percentages are within a hundred; the bounds of a charge are not compared.
ValidCharge(rule) == rule.type = "percent_bps" => rule.value \in 0..10000
ValidRules(rules) == ValidCharge(rules.fee) /\ ValidCharge(rules.advance) /\ ValidCharge(rules.discount)

\* What parseMinorUnit lets through: an amount is never negative.
ChargeRule == [type : {"flat", "percent_bps"}, value : Nat, min : Nat \union {Null}, max : Nat \union {Null}]
=============================================================================
