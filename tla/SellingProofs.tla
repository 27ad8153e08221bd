----------------------------- MODULE SellingProofs -----------------------------
(***************************************************************************)
(* For any requests that overlap and any calls cut short: quotes add up,   *)
(* the setting points at an active version, orders are confirmed once and  *)
(* paid for before goods leave (CheckoutRules, Checkout), a key enters its *)
(* route once (IdempotentRequests), and no platform order is lost as a     *)
(* duplicate (PlatformImports).  No row is locked in any of them: each     *)
(* invariant says what a call may still rely on of what it has read.       *)
(***************************************************************************)
EXTENDS CheckoutRules, Checkout, IdempotentRequests, PlatformImports, SequenceTheorems, WellFoundedInduction, TLAPS

-----------------------------------------------------------------------------
(* CheckoutQuote: the arithmetic of a quote. *)

\* A charge under parsed rules is a natural number, whatever its bounds (calculateCharge).
LEMMA ChargeIsNatural ==
    ASSUME NEW rule \in ChargeRule, NEW base \in Nat, Null \notin Nat
    PROVE  Charge(rule, base) \in Nat
<1>1. base * rule.value \in Nat
    BY DEF ChargeRule
<1>2. (base * rule.value) \div 10000 \in Nat
    BY <1>1
<1>3. PICK amount \in Nat : amount = IF rule.type = "flat" THEN rule.value ELSE (base * rule.value) \div 10000
    BY <1>2 DEF ChargeRule
<1>4. Clamp(amount, rule.min, rule.max) \in Nat
    BY DEF Clamp, ChargeRule
<1> QED BY <1>3, <1>4 DEF Charge

\* What is cut down to the cart is no more than the cart.
LEMMA CutToCart ==
    ASSUME NEW amount \in Nat, NEW cart \in Nat, Null \notin Nat
    PROVE  Clamp(amount, Null, cart) \in 0..cart
BY DEF Clamp

\* The parts of a quote that its options are put together from.
LEMMA PartsOfAQuote ==
    ASSUME NEW rules, {rules.fee, rules.advance, rules.discount} \subseteq ChargeRule,
           NEW cart \in Nat, Null \notin Nat
    PROVE  /\ Discount(rules, cart) \in 0..cart
           /\ Advance(rules, cart) \in 0..cart
           /\ CodFee(rules, cart) \in Nat
<1>1. Charge(rules.fee, cart) \in Nat /\ Charge(rules.advance, cart) \in Nat /\ Charge(rules.discount, cart) \in Nat
    BY ChargeIsNatural
<1> QED BY <1>1, CutToCart DEF Discount, Advance, CodFee

AddsUp(cart, o) ==
    /\ o.payNow + o.payOnDelivery = o.total
    /\ o.total = cart + o.fee - o.discount
    /\ o.payNow >= 0 /\ o.payOnDelivery >= 0

\* Every option computeCheckoutQuote returns for parsed rules and a cart adds up.
THEOREM OptionsAddUp ==
    ASSUME NEW rules, {rules.fee, rules.advance, rules.discount} \subseteq ChargeRule,
           NEW cart \in Nat, NEW pincode, NEW mode \in Modes, Null \notin Nat
    PROVE  AddsUp(cart, Options(rules, cart, pincode)[mode])
<1> DEFINE fee == CodFee(rules, cart)
           partialFee == IF rules.waivePartialFee THEN 0 ELSE fee
           discount == Discount(rules, cart)
           advance == Advance(rules, cart)
<1>1. fee \in Nat /\ partialFee \in Nat /\ discount \in 0..cart /\ advance \in 0..cart
    BY PartsOfAQuote
<1> HIDE DEF fee, partialFee, discount, advance
<1>2. CASE mode = "prepaid"
  <2>1. /\ Options(rules, cart, pincode)[mode].payNow = cart - discount
        /\ Options(rules, cart, pincode)[mode].payOnDelivery = 0
        /\ Options(rules, cart, pincode)[mode].total = cart - discount
        /\ Options(rules, cart, pincode)[mode].fee = 0
        /\ Options(rules, cart, pincode)[mode].discount = discount
    BY <1>2 DEF Options, discount, Modes
  <2> QED BY <1>1, <2>1 DEF AddsUp
<1>3. CASE mode = "full_cod"
  <2>1. /\ Options(rules, cart, pincode)[mode].payNow = 0
        /\ Options(rules, cart, pincode)[mode].payOnDelivery = cart + fee
        /\ Options(rules, cart, pincode)[mode].total = cart + fee
        /\ Options(rules, cart, pincode)[mode].fee = fee
        /\ Options(rules, cart, pincode)[mode].discount = 0
    BY <1>3 DEF Options, fee, Modes
  <2> QED BY <1>1, <2>1 DEF AddsUp
<1>4. CASE mode = "partial_cod"
  <2>1. /\ Options(rules, cart, pincode)[mode].payNow = advance
        /\ Options(rules, cart, pincode)[mode].payOnDelivery = cart - advance + partialFee
        /\ Options(rules, cart, pincode)[mode].total = cart + partialFee
        /\ Options(rules, cart, pincode)[mode].fee = partialFee
        /\ Options(rules, cart, pincode)[mode].discount = 0
    BY <1>4 DEF Options, advance, partialFee, fee, Modes
  <2> QED BY <1>1, <2>1 DEF AddsUp
<1> QED BY <1>2, <1>3, <1>4 DEF Modes

-----------------------------------------------------------------------------
(* CheckoutRules. *)

KnownRules == RuleSets \union {DefaultRules}
VersionRow == [rules : RuleSets, status : {"active", "retired"}]
EditRow == [rules : RuleSets, active : SUBSET Nat]
RequestRow == [version : Nat \union {Null}, rules : KnownRules, cart : Carts, pincode : Pincodes]

\* A quote is what the rules of some version make of its cart.
IsQuoted(q) ==
    /\ q.cart \in Carts
    /\ \E rules \in KnownRules, pincode \in Pincodes : q.options = Options(rules, q.cart, pincode)

RulesTypeOK ==
    /\ versions \in Seq(VersionRow)
    /\ setting \in DOMAIN versions \union {Null}
    /\ edits \in [Editors -> EditRow \union {Null}]
    /\ requests \in [Shoppers -> RequestRow \union {Null}]
    /\ \A q \in quotes : IsQuoted(q)

\* What an edit has seen active are versions there are: it never retires the one it adds.
EditsKnowTheirVersions ==
    \A e \in Editors : edits[e] # Null => edits[e].active \subseteq DOMAIN versions

RulesInv == RulesTypeOK /\ EditsKnowTheirVersions /\ SettingIsActive

LEMMA VersionIsARow ==
    ASSUME RulesInv, NEW v \in DOMAIN versions
    PROVE  versions[v] \in VersionRow /\ versions[v].rules \in RuleSets
<1>1. versions \in Seq(VersionRow)
    BY DEF RulesInv, RulesTypeOK
<1>2. v \in 1..Len(versions)
    BY <1>1
<1>3. versions[v] \in VersionRow
    BY <1>1, <1>2
<1> QED BY <1>3 DEF VersionRow

LEMMA RulesInvInit == RulesInit => RulesInv
BY DEF RulesInit, RulesInv, RulesTypeOK, EditsKnowTheirVersions, SettingIsActive

LEMMA BeginEditKeepsRulesInv ==
    ASSUME RulesInv, NEW e \in Editors, NEW rules \in RuleSets, BeginEdit(e, rules)
    PROVE  RulesInv'
<1> DEFINE new == [rules |-> rules, active |-> Active]
<1>1. Active \subseteq DOMAIN versions /\ DOMAIN versions \subseteq Nat
    BY DEF Active, RulesInv, RulesTypeOK
<1>2. new \in EditRow
    BY <1>1 DEF EditRow
<1>3. /\ edits' \in [Editors -> EditRow \union {Null}]
      /\ \A f \in Editors : edits'[f] = IF f = e THEN new ELSE edits[f]
    BY <1>2 DEF BeginEdit, RulesInv, RulesTypeOK
<1>4. UNCHANGED <<versions, setting, requests, quotes>>
    BY DEF BeginEdit
<1>5. RulesTypeOK' /\ SettingIsActive'
    BY <1>3, <1>4 DEF RulesInv, RulesTypeOK, SettingIsActive, IsQuoted
<1>6. EditsKnowTheirVersions'
    BY <1>1, <1>3, <1>4 DEF RulesInv, EditsKnowTheirVersions
<1> QED BY <1>5, <1>6 DEF RulesInv

\* A commit retires what it has seen, and the version it adds is none of them.
LEMMA CommitEditKeepsRulesInv ==
    ASSUME RulesInv, NEW e \in Editors, CommitEdit(e)
    PROVE  RulesInv'
<1> DEFINE row == [rules |-> edits[e].rules, status |-> "active"]
           added == Append(versions, row)
           n == Len(versions) + 1
<1>1. edits[e] \in EditRow /\ edits[e].active \subseteq DOMAIN versions
    BY DEF CommitEdit, RulesInv, RulesTypeOK, EditsKnowTheirVersions
<1>2. row \in VersionRow
    BY <1>1 DEF EditRow, VersionRow
<1>3. versions \in Seq(VersionRow) /\ DOMAIN versions = 1..Len(versions) /\ Len(versions) \in Nat
    BY DEF RulesInv, RulesTypeOK
<1>4. /\ added \in Seq(VersionRow) /\ DOMAIN added = 1..n
      /\ \A v \in 1..n : added[v] \in VersionRow /\ added[v] = IF v = n THEN row ELSE versions[v]
    BY <1>2, <1>3
<1>5. versions' = Retired(added, edits[e].active)
    BY DEF CommitEdit
<1> HIDE DEF added
<1>6. /\ versions' = [v \in 1..n |-> IF v \in edits[e].active THEN [added[v] EXCEPT !.status = "retired"]
                                    ELSE added[v]]
    BY <1>4, <1>5 DEF Retired
<1>7. \A v \in 1..n : [added[v] EXCEPT !.status = "retired"] \in VersionRow
    BY <1>4 DEF VersionRow
<1>8. versions' \in Seq(VersionRow) /\ Len(versions') = n /\ DOMAIN versions' = 1..n
    BY <1>3, <1>4, <1>6, <1>7
<1>9. n \notin edits[e].active
    BY <1>1, <1>3
<1>10. versions'[n] = row /\ setting' = n /\ n \in 1..n
    BY <1>3, <1>4, <1>6, <1>8, <1>9 DEF CommitEdit
<1>11. /\ edits' \in [Editors -> EditRow \union {Null}]
       /\ \A f \in Editors : edits'[f] \in {edits[f], Null}
       /\ UNCHANGED <<requests, quotes>>
    BY DEF CommitEdit, RulesInv, RulesTypeOK
<1>12. RulesTypeOK'
    BY <1>8, <1>10, <1>11 DEF RulesInv, RulesTypeOK, IsQuoted
<1>13. EditsKnowTheirVersions'
    BY <1>3, <1>8, <1>11 DEF RulesInv, EditsKnowTheirVersions
<1>14. SettingIsActive'
    BY <1>10 DEF SettingIsActive
<1> QED BY <1>12, <1>13, <1>14 DEF RulesInv

LEMMA RequestQuoteKeepsRulesInv ==
    ASSUME RulesInv, NEW s \in Shoppers, NEW cart \in Carts, NEW pincode \in Pincodes,
           RequestQuote(s, cart, pincode)
    PROVE  RulesInv'
<1> DEFINE new == [version |-> setting, rules |-> ActiveRules, cart |-> cart, pincode |-> pincode]
<1>1. ActiveRules \in KnownRules
  <2>1. setting # Null => versions[setting].rules \in RuleSets
    BY VersionIsARow DEF RulesInv, RulesTypeOK
  <2> QED BY <2>1 DEF ActiveRules, KnownRules
<1>2. new \in RequestRow
    BY <1>1 DEF RequestRow, RulesInv, RulesTypeOK
<1>3. requests' \in [Shoppers -> RequestRow \union {Null}] /\ UNCHANGED <<versions, setting, edits, quotes>>
    BY <1>2 DEF RequestQuote, RulesInv, RulesTypeOK
<1> QED BY <1>3 DEF RulesInv, RulesTypeOK, EditsKnowTheirVersions, SettingIsActive, IsQuoted

LEMMA CreateQuoteKeepsRulesInv ==
    ASSUME RulesInv, NEW s \in Shoppers, CreateQuote(s)
    PROVE  RulesInv'
<1> DEFINE r == requests[s]
           quote == [version |-> r.version, cart |-> r.cart, pincode |-> r.pincode,
                     options |-> Options(r.rules, r.cart, r.pincode)]
<1>1. r \in RequestRow
    BY DEF CreateQuote, RulesInv, RulesTypeOK
<1>2. IsQuoted(quote)
    BY <1>1 DEF IsQuoted, RequestRow
<1>3. quotes' = quotes \union {quote}
    BY DEF CreateQuote
<1> HIDE DEF quote
<1>4. \A q \in quotes' : IsQuoted(q)
    BY <1>2, <1>3 DEF RulesInv, RulesTypeOK
<1>5. requests' \in [Shoppers -> RequestRow \union {Null}] /\ UNCHANGED <<versions, setting, edits>>
    BY DEF CreateQuote, RulesInv, RulesTypeOK
<1> QED BY <1>4, <1>5 DEF RulesInv, RulesTypeOK, EditsKnowTheirVersions, SettingIsActive, IsQuoted

LEMMA RulesInvNext == RulesInv /\ [RulesNext]_rulesVars => RulesInv'
<1> SUFFICES ASSUME RulesInv, [RulesNext]_rulesVars PROVE RulesInv'
    OBVIOUS
<1>1. ASSUME NEW e \in Editors, NEW rules \in RuleSets, UpdateRules(e, rules) PROVE RulesInv'
    BY <1>1, BeginEditKeepsRulesInv DEF UpdateRules
<1>2. ASSUME NEW e \in Editors, NEW v \in DOMAIN versions, RollbackRules(e, v) PROVE RulesInv'
  <2>1. versions[v].rules \in RuleSets
    BY VersionIsARow
  <2> QED BY <1>2, <2>1, BeginEditKeepsRulesInv DEF RollbackRules
<1>3. ASSUME NEW e \in Editors, CommitEdit(e) PROVE RulesInv'
    BY <1>3, CommitEditKeepsRulesInv
<1>4. ASSUME NEW s \in Shoppers, NEW cart \in Carts, NEW pincode \in Pincodes, RequestQuote(s, cart, pincode)
      PROVE RulesInv'
    BY <1>4, RequestQuoteKeepsRulesInv
<1>5. ASSUME NEW s \in Shoppers, CreateQuote(s) PROVE RulesInv'
    BY <1>5, CreateQuoteKeepsRulesInv
<1>6. CASE UNCHANGED rulesVars
    BY <1>6 DEF rulesVars, RulesInv, RulesTypeOK, EditsKnowTheirVersions, SettingIsActive, IsQuoted
<1> QED BY <1>1, <1>2, <1>3, <1>4, <1>5, <1>6 DEF RulesNext

\* Rules and quotes are of their types, and a quote is what the rules of some version make of its
\* cart (updateRules, rollbackRules, createQuote).
THEOREM RulesInvariance == RulesSpec => []RulesInv
BY RulesInvInit, RulesInvNext, PTL DEF RulesSpec

\* The version the setting points at is active, whichever updates and rollbacks overlap
\* (updateRules, rollbackRules).
THEOREM SettingStaysActive == RulesSpec => []SettingIsActive
<1>1. RulesInv => SettingIsActive
    BY DEF RulesInv
<1> QED BY <1>1, RulesInvariance, PTL

\* Every quote that is ever created adds up, in every mode (computeCheckoutQuote, createQuote).
THEOREM QuotesAlwaysAddUp == RulesSpec => []QuotesAddUp
<1>1. ASSUME RulesInv PROVE QuotesAddUp
  <2>1. ASSUME NEW q \in quotes, NEW mode \in Modes PROVE AddsUp(q.cart, q.options[mode])
    <3>1. PICK rules \in KnownRules, pincode \in Pincodes : q.options = Options(rules, q.cart, pincode)
        BY <1>1 DEF RulesInv, RulesTypeOK, IsQuoted
    <3>2. q.cart \in Nat /\ Null \notin Nat
        BY <1>1, RulesAssumption DEF RulesInv, RulesTypeOK, IsQuoted
    <3>3. {rules.fee, rules.advance, rules.discount} \subseteq ChargeRule
        BY RulesAssumption DEF KnownRules
    <3> QED BY <3>1, <3>2, <3>3, OptionsAddUp
  <2> QED BY <2>1 DEF QuotesAddUp, AddsUp
<1> QED BY <1>1, RulesInvariance, PTL

-----------------------------------------------------------------------------
(* Checkout: the books, bags of entries. *)

IsBook(b) == b = [e \in DOMAIN b |-> b[e]] /\ \A e \in DOMAIN b : b[e] \in Nat
Count(b, e) == IF e \in DOMAIN b THEN b[e] ELSE 0

LEMMA EntryIsABook ==
    ASSUME NEW type, NEW amount
    PROVE  /\ IsBook(Entry(type, amount))
           /\ \A e : Count(Entry(type, amount), e) = IF e = <<type, amount>> THEN 1 ELSE 0
BY DEF IsBook, Count, Entry, SetToBag

LEMMA EmptyBagIsABook == IsBook(EmptyBag) /\ \A e : Count(EmptyBag, e) = 0
BY DEF IsBook, Count, EmptyBag, SetToBag

\* Books that are added up count what both count.
LEMMA CountOfASum ==
    ASSUME NEW a, NEW b, IsBook(a), IsBook(b)
    PROVE  IsBook(a (+) b) /\ \A e : Count(a (+) b, e) = Count(a, e) + Count(b, e)
BY DEF IsBook, Count, (+)

LEMMA CountIsNatural == ASSUME NEW b, IsBook(b), NEW e PROVE Count(b, e) \in Nat
BY DEF IsBook, Count

-----------------------------------------------------------------------------
(* Checkout: the calls. *)

IsCall(x) == x = [request |-> x.request, at |-> x.at, seen |-> x.seen, answer |-> x.answer]

CallsTyped ==
    /\ calls = [c \in Calls |-> calls[c]]
    /\ \A c \in Calls : /\ IsCall(calls[c])
                         /\ Request(c) \in MayRequest[c]
                         /\ calls[c].at \in {"new", "execute", "commit", "done"}

EventNames ==
    {"order_placed", "payment_attempt_started", "payment_succeeded", "checkout_abandoned",
     "payment_failed:PAYMENT_CAPTURE_FAILED", "payment_failed:CHECKOUT_PAYMENT_REFUND_DUE"}

RowsTyped ==
    /\ orders \in [Calls -> OrderRow \union {Null}]
    /\ payments \in [Calls -> {"created", "initiated", "failed", "captured", "refund_due", Null}]
    /\ books = [o \in Calls |-> books[o]] /\ \A o \in Calls : IsBook(books[o])
    /\ events \in [Calls -> SUBSET EventNames]
    /\ session \in [Calls -> {"STARTED", "COMPLETED", "ABANDONED", Null}]

CheckoutTypeOK == CallsTyped /\ RowsTyped

\* Only call c has moved, to `at`, with what it has seen.
MovesTo(c, stage, seen) ==
    /\ CallsTyped'
    /\ calls'[c].at = stage /\ calls'[c].seen = seen
    /\ \A d \in Calls : calls'[d].request = calls[d].request /\ (d # c => calls'[d] = calls[d])

\* A call that goes on changes its own row only.
LEMMA CallGoesOn ==
    ASSUME CallsTyped, NEW c \in Calls, NEW stage \in {"execute", "commit"}, NEW seen, Has(c, stage, seen)
    PROVE  MovesTo(c, stage, seen)
<1>1. /\ calls' = [d \in Calls |-> calls'[d]]
      /\ \A d \in Calls : d # c => calls'[d] = calls[d]
      /\ calls'[c] = [[calls[c] EXCEPT !.at = stage] EXCEPT !.seen = seen]
    BY DEF CallsTyped, Has
<1>2. IsCall(calls[c]) /\ calls[c].request \in MayRequest[c]
    BY DEF CallsTyped, Request
<1>3. calls'[c] = [request |-> calls[c].request, at |-> stage, seen |-> seen, answer |-> calls[c].answer]
    BY <1>1, <1>2 DEF IsCall
<1>4. IsCall(calls[c])' /\ calls'[c].request \in MayRequest[c] /\ calls'[c].at = stage /\ calls'[c].seen = seen
    BY <1>2, <1>3 DEF IsCall
<1>5. \A d \in Calls : calls'[d].request = calls[d].request
    BY <1>1, <1>3
<1>6. CallsTyped'
    BY <1>1, <1>4, <1>5 DEF CallsTyped, Request, IsCall
<1> QED BY <1>1, <1>4, <1>5, <1>6 DEF MovesTo

\* A call that is answered changes its own row only, and is done.
LEMMA CallIsAnswered ==
    ASSUME CallsTyped, NEW c \in Calls, NEW answer, Answered(c, answer)
    PROVE  MovesTo(c, "done", Null)
<1>1. /\ calls' = [d \in Calls |-> calls'[d]]
      /\ \A d \in Calls : d # c => calls'[d] = calls[d]
      /\ calls'[c] = [[[calls[c] EXCEPT !.at = "done"] EXCEPT !.seen = Null] EXCEPT !.answer = answer]
    BY DEF CallsTyped, Answered
<1>2. IsCall(calls[c]) /\ calls[c].request \in MayRequest[c]
    BY DEF CallsTyped, Request
<1>3. calls'[c] = [request |-> calls[c].request, at |-> "done", seen |-> Null, answer |-> answer]
    BY <1>1, <1>2 DEF IsCall
<1>4. IsCall(calls[c])' /\ calls'[c].request \in MayRequest[c] /\ calls'[c].at = "done" /\ calls'[c].seen = Null
    BY <1>2, <1>3 DEF IsCall
<1>5. \A d \in Calls : calls'[d].request = calls[d].request
    BY <1>1, <1>3
<1>6. CallsTyped'
    BY <1>1, <1>4, <1>5 DEF CallsTyped, Request, IsCall
<1> QED BY <1>1, <1>4, <1>5, <1>6 DEF MovesTo

-----------------------------------------------------------------------------
(* Checkout: the invariant. *)

SentOut == {"confirmed", "packed", "shipped", "delivered"}

\* An amount that is shown as captured is in the books of the order.
Backed(o, amount) == amount \in Nat /\ (amount > 0 => Count(books[o], <<"captured", amount>>) > 0)

PaidFor(o) ==
    /\ orders[o].state \in SentOut => Backed(o, orders[o].payNow)
    /\ Backed(o, orders[o].advancePaid)
    /\ orders[o].state = "delivered" /\ orders[o].payOnDelivery > 0 =>
           /\ orders[o].cod = "collected"
           /\ Count(books[o], <<"cod_collected", orders[o].payOnDelivery>>) > 0

\* The books confirm an order that owes something only with the event of its payment.
Confirmed(o) == Count(books[o], <<"order_confirmed", orders[o].total>>)
ConfirmedWithItsEvent(o) ==
    /\ Confirmed(o) <= 1
    /\ orders[o].payNow > 0 /\ "payment_succeeded" \notin events[o] => Confirmed(o) = 0

\* An order was created by an answered call, which has left its key.
Keyed(o) ==
    /\ Request(o).op = "order" /\ calls[o].at = "done"
    /\ KeysOf(Request(o)) # {}

\* What a call that is about to commit has read is still so: amounts do not change, and what was
\* captured stays so.
ReadQuoteOf(c) == Request(c).op = "order" => calls[c].seen = Quotes[Request(c).quote][Request(c).mode]
ReadPaymentOf(c) ==
    Request(c).op \in {"initiate", "complete"} =>
        Request(c).order \in Placed /\ orders[Request(c).order].payNow > 0
ReadAdvanceOf(c) == Request(c).op = "complete" => Backed(Request(c).order, calls[c].seen.advancePaid)
ReadOrderOf(c) ==
    Request(c).op = "transition" =>
        LET o    == Request(c).order
            seen == calls[c].seen
        IN  /\ o \in Placed /\ seen \in OrderRow
            /\ seen.payNow = orders[o].payNow /\ seen.payOnDelivery = orders[o].payOnDelivery
            /\ seen.state \in SentOut => Backed(o, seen.payNow)
            /\ MayMove(seen.state, Request(c).to)
            /\ Request(c).to = "delivered" => ~CollectionRefused(seen, Request(c))

InFlight(c) ==
    calls[c].at = "commit" => ReadQuoteOf(c) /\ ReadPaymentOf(c) /\ ReadAdvanceOf(c) /\ ReadOrderOf(c)

OrdersSound == \A o \in Placed : PaidFor(o) /\ ConfirmedWithItsEvent(o) /\ Keyed(o)
PaymentsAreOwed == \A o \in Calls : payments[o] # Null => o \in Placed /\ orders[o].payNow > 0
CallsInFlight == \A c \in Calls : InFlight(c)

OneOrderPerKey == \A o, p \in Placed : Request(o).key = Request(p).key => o = p

CheckoutInv == CheckoutTypeOK /\ OrdersSound /\ PaymentsAreOwed /\ CallsInFlight /\ OneOrderPerKey

-----------------------------------------------------------------------------
(* Checkout: what a step does to the rows. *)

\* Placed orders stay, with their amounts, and nothing leaves their books.
RowsGrow ==
    \A o \in Placed :
        /\ o \in Placed'
        /\ orders'[o].payNow = orders[o].payNow /\ orders'[o].payOnDelivery = orders[o].payOnDelivery
        /\ orders'[o].total = orders[o].total
        /\ \A e : Count(books'[o], e) >= Count(books[o], e)

LEMMA PlacedIsARow == ASSUME RowsTyped, NEW o \in Placed PROVE o \in Calls /\ orders[o] \in OrderRow
BY DEF RowsTyped, Placed

\* A captured payment stays in the books.
LEMMA BackedStays ==
    ASSUME RowsTyped, RowsTyped', RowsGrow, NEW o \in Placed, NEW amount, Backed(o, amount)
    PROVE  Backed(o, amount)'
<1>1. /\ Count(books[o], <<"captured", amount>>) \in Nat /\ Count(books'[o], <<"captured", amount>>) \in Nat
      /\ Count(books'[o], <<"captured", amount>>) >= Count(books[o], <<"captured", amount>>)
    BY CountIsNatural, PlacedIsARow DEF RowsGrow, RowsTyped
<1> QED BY <1>1 DEF Backed

\* A call that stands still has still read what it has.
LEMMA InFlightStays ==
    ASSUME CheckoutTypeOK, RowsTyped', RowsGrow, NEW c \in Calls, InFlight(c), calls'[c] = calls[c]
    PROVE  InFlight(c)'
<1> SUFFICES ASSUME calls'[c].at = "commit"
             PROVE  (ReadQuoteOf(c) /\ ReadPaymentOf(c) /\ ReadAdvanceOf(c) /\ ReadOrderOf(c))'
    BY DEF InFlight
<1>1. ReadQuoteOf(c) /\ ReadPaymentOf(c) /\ ReadAdvanceOf(c) /\ ReadOrderOf(c) /\ Request(c)' = Request(c)
    BY DEF InFlight, Request
<1>2. ReadQuoteOf(c)'
    BY <1>1 DEF ReadQuoteOf
<1>3. ReadPaymentOf(c)'
    BY <1>1 DEF ReadPaymentOf, RowsGrow
<1>4. ReadAdvanceOf(c)'
  <2> SUFFICES ASSUME Request(c).op = "complete" PROVE Backed(Request(c).order, calls[c].seen.advancePaid)'
      BY <1>1 DEF ReadAdvanceOf
  <2>1. Request(c).order \in Placed /\ Backed(Request(c).order, calls[c].seen.advancePaid)
      BY <1>1 DEF ReadAdvanceOf, ReadPaymentOf
  <2>2. PICK o, amount : o = Request(c).order /\ amount = calls[c].seen.advancePaid
      OBVIOUS
  <2>3. Backed(o, amount)'
      BY <2>1, <2>2, BackedStays DEF CheckoutTypeOK
  <2> QED BY <1>1, <2>2, <2>3 DEF Backed
<1>5. ReadOrderOf(c)'
  <2> SUFFICES ASSUME Request(c).op = "transition" PROVE ReadOrderOf(c)'
      BY <1>1 DEF ReadOrderOf
  <2>1. PICK o, seen : o = Request(c).order /\ seen = calls[c].seen
      OBVIOUS
  <2>2. /\ o \in Placed /\ seen \in OrderRow
        /\ seen.payNow = orders[o].payNow /\ seen.payOnDelivery = orders[o].payOnDelivery
        /\ seen.state \in SentOut => Backed(o, seen.payNow)
        /\ MayMove(seen.state, Request(c).to)
        /\ Request(c).to = "delivered" => ~CollectionRefused(seen, Request(c))
      BY <1>1, <2>1 DEF ReadOrderOf
  <2>3. PICK amount : amount = seen.payNow
      OBVIOUS
  <2>4. seen.state \in SentOut => Backed(o, amount)'
      BY <2>2, <2>3, BackedStays DEF CheckoutTypeOK
  <2>5. /\ o \in Placed' /\ orders'[o].payNow = orders[o].payNow
        /\ orders'[o].payOnDelivery = orders[o].payOnDelivery
      BY <2>2 DEF RowsGrow
  <2>6. seen.state \in SentOut => Backed(o, seen.payNow)'
      BY <2>3, <2>4 DEF Backed
  <2> QED BY <1>1, <2>1, <2>2, <2>5, <2>6 DEF ReadOrderOf, Backed
<1> QED BY <1>2, <1>3, <1>4, <1>5

\* A step that leaves orders and books alone.
LEMMA RowsStay == ASSUME RowsTyped, UNCHANGED <<orders, books>> PROVE RowsGrow
<1>1. \A o \in Placed : \A e : Count(books[o], e) \in Nat
    BY CountIsNatural, PlacedIsARow DEF RowsTyped
<1> QED BY <1>1 DEF RowsGrow, Placed, Count

\* An order a step leaves alone, its events growing at most by others than that of its payment.
LEMMA OrderStaysSound ==
    ASSUME CallsTyped, NEW o \in Placed, PaidFor(o), ConfirmedWithItsEvent(o), Keyed(o),
           orders'[o] = orders[o], books'[o] = books[o],
           "payment_succeeded" \in events[o] => "payment_succeeded" \in events'[o],
           keys \subseteq keys', calls'[o].request = calls[o].request, calls'[o].at = calls[o].at
    PROVE  (PaidFor(o) /\ ConfirmedWithItsEvent(o) /\ Keyed(o))'
<1>1. PaidFor(o)'
    BY DEF PaidFor, Backed, Count
<1>2. ConfirmedWithItsEvent(o)'
    BY DEF ConfirmedWithItsEvent, Confirmed, Count
<1>3. Keyed(o)'
    BY DEF Keyed, KeysOf, Request
<1> QED BY <1>1, <1>2, <1>3

-----------------------------------------------------------------------------
(* Checkout: every step of a call keeps the invariant, if the orders it touches stay sound. *)

\* What a step has to show: of the rows it touches what OrdersSound and the other calls need, of the
\* others that it leaves them alone.
LEMMA StepKeepsInv ==
    ASSUME CheckoutInv, NEW c \in Calls, calls[c].at # "done", NEW stage, NEW seen, MovesTo(c, stage, seen),
           RowsTyped', RowsGrow, keys \subseteq keys', PaymentsAreOwed', InFlight(c)', OneOrderPerKey',
           NEW Touched,
           \A o \in Placed' : o \notin Touched =>
               /\ o \in Placed /\ orders'[o] = orders[o] /\ books'[o] = books[o]
               /\ "payment_succeeded" \in events[o] => "payment_succeeded" \in events'[o],
           \A o \in Placed' : o \in Touched => (PaidFor(o) /\ ConfirmedWithItsEvent(o) /\ Keyed(o))'
    PROVE  CheckoutInv'
<1>1. CheckoutTypeOK'
    BY DEF MovesTo, CheckoutTypeOK
<1>2. OrdersSound'
  <2> SUFFICES ASSUME NEW o \in Placed', o \notin Touched
               PROVE  (PaidFor(o) /\ ConfirmedWithItsEvent(o) /\ Keyed(o))'
      BY DEF OrdersSound
  <2>1. o \in Placed /\ PaidFor(o) /\ ConfirmedWithItsEvent(o) /\ Keyed(o)
      BY DEF CheckoutInv, OrdersSound
  <2>2. o \in Calls /\ o # c
      BY <2>1 DEF Keyed, Placed
  <2>3. calls'[o] = calls[o]
      BY <2>2 DEF MovesTo
  <2> QED BY <2>1, <2>3, OrderStaysSound DEF CheckoutInv, CheckoutTypeOK
<1>3. CallsInFlight'
  <2> SUFFICES ASSUME NEW d \in Calls, d # c PROVE InFlight(d)'
      BY DEF CallsInFlight
  <2>1. calls'[d] = calls[d] /\ InFlight(d)
      BY DEF MovesTo, CheckoutInv, CallsInFlight
  <2> QED BY <2>1, InFlightStays DEF CheckoutInv
<1> QED BY <1>1, <1>2, <1>3 DEF CheckoutInv

\* A step that creates no order.
LEMMA KeysStayApart ==
    ASSUME OneOrderPerKey, NEW c, NEW stage, NEW seen, MovesTo(c, stage, seen), Placed' = Placed
    PROVE  OneOrderPerKey'
<1>1. \A o \in Placed : Request(o)' = Request(o)
    BY DEF Placed, MovesTo, Request
<1> QED BY <1>1 DEF OneOrderPerKey

\* A step that writes neither orders nor books.
LEMMA QuietStepKeepsInv ==
    ASSUME CheckoutInv, NEW c \in Calls, calls[c].at # "done", NEW stage, NEW seen, MovesTo(c, stage, seen),
           UNCHANGED <<orders, books>>, RowsTyped',
           \A o \in Calls : events[o] \subseteq events'[o],
           keys \subseteq keys',
           \A o \in Calls : payments'[o] # Null => payments[o] # Null \/ (o \in Placed /\ orders[o].payNow > 0),
           InFlight(c)'
    PROVE  CheckoutInv'
<1>1. RowsGrow
    BY RowsStay DEF CheckoutInv, CheckoutTypeOK
<1>2. Placed' = Placed
    BY DEF Placed
<1>3. PaymentsAreOwed'
    BY <1>2 DEF CheckoutInv, PaymentsAreOwed
<1>4. PICK Touched : Touched = {}
    OBVIOUS
<1>5. \A o \in Placed' : o \notin Touched =>
          /\ o \in Placed /\ orders'[o] = orders[o] /\ books'[o] = books[o]
          /\ "payment_succeeded" \in events[o] => "payment_succeeded" \in events'[o]
    BY <1>2 DEF Placed
<1>6. \A o \in Placed' : o \in Touched => (PaidFor(o) /\ ConfirmedWithItsEvent(o) /\ Keyed(o))'
    BY <1>4
<1>7. OneOrderPerKey'
    BY <1>2, KeysStayApart DEF CheckoutInv
<1> QED BY <1>1, <1>3, <1>5, <1>6, <1>7, StepKeepsInv

\* A call that fails, is replayed, or only reads.
LEMMA OnlyMovesKeepsInv ==
    ASSUME CheckoutInv, NEW c \in Calls, calls[c].at # "done", NEW stage, NEW seen, MovesTo(c, stage, seen),
           UNCHANGED rows, InFlight(c)'
    PROVE  CheckoutInv'
<1>1. RowsTyped' /\ \A o \in Calls : events[o] \subseteq events'[o]
    BY DEF rows, CheckoutInv, CheckoutTypeOK, RowsTyped
<1>2. UNCHANGED <<orders, books>> /\ payments' = payments /\ keys \subseteq keys'
    BY DEF rows
<1>3. \A o \in Calls : payments'[o] # Null => payments[o] # Null \/ (o \in Placed /\ orders[o].payNow > 0)
    BY <1>2
<1> QED BY <1>1, <1>2, <1>3, QuietStepKeepsInv

LEMMA FailingKeepsInv ==
    ASSUME CheckoutInv, NEW c \in Calls, calls[c].at # "done", NEW code, Fails(c, code)
    PROVE  CheckoutInv'
<1>1. MovesTo(c, "done", Null) /\ UNCHANGED rows
    BY CallIsAnswered DEF Fails, CheckoutInv, CheckoutTypeOK
<1>2. InFlight(c)'
    BY <1>1 DEF MovesTo, InFlight
<1> QED BY <1>1, <1>2, OnlyMovesKeepsInv

LEMMA ReadingKeepsInv ==
    ASSUME CheckoutInv, NEW c \in Calls, calls[c].at # "done", NEW stage \in {"execute", "commit"}, NEW seen,
           Has(c, stage, seen), UNCHANGED rows, InFlight(c)'
    PROVE  CheckoutInv'
<1>1. MovesTo(c, stage, seen)
    BY CallGoesOn DEF CheckoutInv, CheckoutTypeOK
<1> QED BY <1>1, OnlyMovesKeepsInv

LEMMA LookUpKeyKeepsInv == ASSUME CheckoutInv, NEW c \in Calls, LookUpKey(c) PROVE CheckoutInv'
<1>1. calls[c].at = "new"
    BY DEF LookUpKey
<1>2. CASE KeysOf(Request(c)) # {}
    BY <1>1, <1>2, FailingKeepsInv DEF LookUpKey, Replay
<1>3. CASE KeysOf(Request(c)) = {}
  <2>1. Has(c, "execute", Null) /\ UNCHANGED rows
      BY <1>3 DEF LookUpKey
  <2>2. InFlight(c)'
      BY <2>1, CallGoesOn DEF InFlight, MovesTo, CheckoutInv, CheckoutTypeOK
  <2> QED BY <1>1, <2>1, <2>2, ReadingKeepsInv
<1> QED BY <1>2, <1>3

LEMMA LoseKeyKeepsInv == ASSUME CheckoutInv, NEW c \in Calls, LoseKey(c) PROVE CheckoutInv'
BY FailingKeepsInv DEF LoseKey, Replay

LEMMA AbortOnEventKeepsInv == ASSUME CheckoutInv, NEW c \in Calls, AbortOnEvent(c) PROVE CheckoutInv'
BY FailingKeepsInv DEF AbortOnEvent

LEMMA ReadQuoteKeepsInv == ASSUME CheckoutInv, NEW c \in Calls, ReadQuote(c) PROVE CheckoutInv'
<1> DEFINE option == Quotes[Request(c).quote][Request(c).mode]
<1>1. Request(c).op = "order" /\ calls[c].at = "execute"
    BY DEF ReadQuote, Is
<1>2. CASE \E code : Fails(c, code)
    BY <1>1, <1>2, FailingKeepsInv
<1>3. CASE Has(c, "commit", option) /\ UNCHANGED rows
  <2>1. MovesTo(c, "commit", option)
      BY <1>3, CallGoesOn DEF CheckoutInv, CheckoutTypeOK
  <2>2. Request(c)' = Request(c) /\ calls'[c].seen = option
      BY <2>1 DEF MovesTo, Request
  <2>3. InFlight(c)'
      BY <1>1, <2>2 DEF InFlight, ReadQuoteOf, ReadPaymentOf, ReadAdvanceOf, ReadOrderOf
  <2> QED BY <1>1, <1>3, <2>3, ReadingKeepsInv
<1> QED BY <1>2, <1>3 DEF ReadQuote

LEMMA ReadInitiateKeepsInv == ASSUME CheckoutInv, NEW c \in Calls, ReadInitiate(c) PROVE CheckoutInv'
<1> DEFINE o == Request(c).order
           seen == [payment |-> "created"]
<1>1. Request(c).op = "initiate" /\ calls[c].at = "new" /\ payments[o] # Null
    BY DEF ReadInitiate, Is
<1>2. CASE \E code : Fails(c, code)
    BY <1>1, <1>2, FailingKeepsInv
<1>3. CASE Has(c, "commit", seen) /\ UNCHANGED rows
  <2>1. MovesTo(c, "commit", seen) /\ UNCHANGED orders
      BY <1>3, CallGoesOn DEF CheckoutInv, CheckoutTypeOK, rows
  <2>2. Request(c)' = Request(c) /\ Placed' = Placed
      BY <2>1 DEF MovesTo, Request, Placed
  <2>3. o \in Placed /\ orders[o].payNow > 0
      BY <1>1, CheckoutAssumption DEF CheckoutInv, PaymentsAreOwed, CheckoutTypeOK, CallsTyped
  <2>4. InFlight(c)'
      BY <1>1, <2>1, <2>2, <2>3 DEF InFlight, ReadQuoteOf, ReadPaymentOf, ReadAdvanceOf, ReadOrderOf
  <2> QED BY <1>1, <1>3, <2>4, ReadingKeepsInv
<1> QED BY <1>2, <1>3 DEF ReadInitiate

LEMMA ReadCaptureKeepsInv == ASSUME CheckoutInv, NEW c \in Calls, ReadCapture(c) PROVE CheckoutInv'
<1> DEFINE o == Request(c).order
           seen == [payment |-> payments[o], state |-> orders[o].state, advancePaid |-> orders[o].advancePaid]
<1>1. Request(c).op = "complete" /\ calls[c].at = "execute" /\ payments[o] # Null
    BY DEF ReadCapture, Is
<1>2. Has(c, "commit", seen) /\ UNCHANGED rows
    BY DEF ReadCapture
<1>3. MovesTo(c, "commit", seen) /\ UNCHANGED <<orders, books>>
    BY <1>2, CallGoesOn DEF CheckoutInv, CheckoutTypeOK, rows
<1>4. Request(c)' = Request(c) /\ Placed' = Placed /\ calls'[c].seen.advancePaid = orders[o].advancePaid
    BY <1>3 DEF MovesTo, Request, Placed
<1>5. o \in Placed /\ orders[o].payNow > 0
    BY <1>1, CheckoutAssumption DEF CheckoutInv, PaymentsAreOwed, CheckoutTypeOK, CallsTyped
<1>6. Backed(o, orders[o].advancePaid)
    BY <1>5 DEF CheckoutInv, OrdersSound, PaidFor
<1>7. ReadAdvanceOf(c)'
    BY <1>3, <1>4, <1>6 DEF ReadAdvanceOf, Backed, Count
<1>8. InFlight(c)'
    BY <1>1, <1>3, <1>4, <1>5, <1>7 DEF InFlight, ReadQuoteOf, ReadPaymentOf, ReadOrderOf
<1> QED BY <1>1, <1>2, <1>8, ReadingKeepsInv

LEMMA ReadTransitionKeepsInv == ASSUME CheckoutInv, NEW c \in Calls, ReadTransition(c) PROVE CheckoutInv'
<1> DEFINE o == Request(c).order
           seen == orders[o]
<1>1. Request(c).op = "transition" /\ calls[c].at = "new" /\ orders[o] # Null
    BY DEF ReadTransition, Is
<1>2. CASE \E code : Fails(c, code)
    BY <1>1, <1>2, FailingKeepsInv
<1>3. CASE /\ MayMove(seen.state, Request(c).to)
           /\ Request(c).to = "delivered" => ~CollectionRefused(seen, Request(c))
           /\ Has(c, "commit", seen) /\ UNCHANGED rows
  <2>1. MovesTo(c, "commit", seen) /\ UNCHANGED <<orders, books>>
      BY <1>3, CallGoesOn DEF CheckoutInv, CheckoutTypeOK, rows
  <2>2. Request(c)' = Request(c) /\ Placed' = Placed /\ calls'[c].seen = seen
      BY <2>1 DEF MovesTo, Request, Placed
  <2>3. o \in Placed
      BY <1>1, CheckoutAssumption DEF CheckoutInv, CheckoutTypeOK, CallsTyped, Placed
  <2>4. seen \in OrderRow /\ (seen.state \in SentOut => Backed(o, seen.payNow))
      BY <2>3, PlacedIsARow DEF CheckoutInv, CheckoutTypeOK, OrdersSound, PaidFor
  <2>5. ReadOrderOf(c)'
      BY <1>3, <2>1, <2>2, <2>3, <2>4 DEF ReadOrderOf, Backed, Count
  <2>6. InFlight(c)'
      BY <1>1, <2>2, <2>5 DEF InFlight, ReadQuoteOf, ReadPaymentOf, ReadAdvanceOf
  <2> QED BY <1>1, <1>3, <2>6, ReadingKeepsInv
<1> QED BY <1>2, <1>3 DEF ReadTransition

LEMMA ScanKeepsInv == ASSUME CheckoutInv, NEW c \in Calls, Scan(c) PROVE CheckoutInv'
<1> DEFINE seen == [overdue |-> {o \in Calls : orders[o] # Null /\ Eligible(o)}]
<1>1. Request(c).op = "abandon" /\ calls[c].at = "new" /\ Has(c, "commit", seen) /\ UNCHANGED rows
    BY DEF Scan, Is
<1> HIDE DEF seen
<1>2. Request(c)' = Request(c)
    BY <1>1, CallGoesOn DEF CheckoutInv, CheckoutTypeOK, MovesTo, Request
<1>3. InFlight(c)'
    BY <1>1, <1>2 DEF InFlight, ReadQuoteOf, ReadPaymentOf, ReadAdvanceOf, ReadOrderOf
<1> QED BY <1>1, <1>3, ReadingKeepsInv

\* Recording a telemetry event adds it and keeps the others.
LEMMA RecordIsTyped ==
    ASSUME RowsTyped, NEW o \in Calls, NEW event \in EventNames, NEW status \in {"STARTED", "COMPLETED", "ABANDONED"},
           Record(o, event, status)
    PROVE  /\ events' \in [Calls -> SUBSET EventNames]
           /\ session' \in [Calls -> {"STARTED", "COMPLETED", "ABANDONED", Null}]
           /\ \A p \in Calls : events[p] \subseteq events'[p]
           /\ event \in events'[o]
           /\ \A p \in Calls : p # o => events'[p] = events[p]
BY DEF RowsTyped, Record

\* A step that writes a payment and an event, and neither orders nor books.
LEMMA PaymentIsTyped ==
    ASSUME RowsTyped, NEW o \in Calls,
           NEW status \in {"created", "initiated", "failed", "captured", "refund_due", Null},
           payments' = [payments EXCEPT ![o] = status]
    PROVE  payments' \in [Calls -> {"created", "initiated", "failed", "captured", "refund_due", Null}]
BY DEF RowsTyped

LEMMA QuietRowsAreTyped ==
    ASSUME RowsTyped, UNCHANGED <<orders, books>>,
           payments' \in [Calls -> {"created", "initiated", "failed", "captured", "refund_due", Null}],
           events' \in [Calls -> SUBSET EventNames],
           session' \in [Calls -> {"STARTED", "COMPLETED", "ABANDONED", Null}]
    PROVE  RowsTyped'
<1>1. books' = [o \in Calls |-> books'[o]] /\ \A o \in Calls : IsBook(books'[o])
    BY DEF RowsTyped
<1> QED BY <1>1 DEF RowsTyped, IsBook

\* A payment call that is about to commit has read an order that was placed and owes something.
LEMMA OpOfAPayment ==
    ASSUME CheckoutInv, NEW c \in Calls, calls[c].at = "commit", Request(c).op \in {"initiate", "complete"}
    PROVE  /\ Request(c).order \in Placed /\ Request(c).order \in Calls
           /\ orders[Request(c).order] \in OrderRow /\ orders[Request(c).order].payNow > 0
BY PlacedIsARow DEF CheckoutInv, CheckoutTypeOK, CallsInFlight, InFlight, ReadPaymentOf

LEMMA InitiateKeepsInv == ASSUME CheckoutInv, NEW c \in Calls, Initiate(c) PROVE CheckoutInv'
<1> DEFINE o == Request(c).order
<1>1. Request(c).op = "initiate" /\ calls[c].at = "commit"
    BY DEF Initiate, Is
<1>2. o \in Placed /\ o \in Calls /\ orders[o].payNow > 0
    BY <1>1, OpOfAPayment
<1>3. MovesTo(c, "done", Null)
    BY CallIsAnswered DEF Initiate, CheckoutInv, CheckoutTypeOK
<1>4. Record(o, "payment_attempt_started", "STARTED") /\ payments' = [payments EXCEPT ![o] = "initiated"]
    BY DEF Initiate
<1>5. UNCHANGED <<orders, books>> /\ keys \subseteq keys'
    BY DEF Initiate
<1>6. RowsTyped' /\ \A p \in Calls : events[p] \subseteq events'[p]
    BY <1>2, <1>4, <1>5, RecordIsTyped, PaymentIsTyped, QuietRowsAreTyped DEF EventNames, CheckoutInv, CheckoutTypeOK
<1>7. \A p \in Calls : payments'[p] # Null => payments[p] # Null \/ (p \in Placed /\ orders[p].payNow > 0)
    BY <1>2, <1>4 DEF CheckoutInv, CheckoutTypeOK, RowsTyped
<1>8. InFlight(c)'
    BY <1>3 DEF MovesTo, InFlight
<1> QED BY <1>1, <1>3, <1>5, <1>6, <1>7, <1>8, QuietStepKeepsInv

\* What the branches of captureInTransaction have in common.
LEMMA CommitsMoves ==
    ASSUME CheckoutInv, NEW c \in Calls, NEW branch, Commits(c, branch)
    PROVE  /\ Request(c).op = "complete" /\ calls[c].at = "commit"
           /\ MovesTo(c, "done", Null) /\ InFlight(c)' /\ keys \subseteq keys'
           /\ Request(c).order \in Placed /\ Request(c).order \in Calls
           /\ orders[Request(c).order] \in OrderRow /\ orders[Request(c).order].payNow > 0
           /\ EventOf(branch) \notin events[Request(c).order]
<1>1. Request(c).op = "complete" /\ calls[c].at = "commit" /\ Answered(c, branch)
    BY DEF Commits, Is
<1>2. MovesTo(c, "done", Null)
    BY <1>1, CallIsAnswered DEF CheckoutInv, CheckoutTypeOK
<1>3. InFlight(c)'
    BY <1>2 DEF MovesTo, InFlight
<1>4. keys \subseteq keys' /\ EventOf(branch) \notin events[Request(c).order]
    BY DEF Commits, PersistKey, Recordable
<1> QED BY <1>1, <1>2, <1>3, <1>4, OpOfAPayment

LEMMA AlreadyCapturedKeepsInv == ASSUME CheckoutInv, NEW c \in Calls, AlreadyCaptured(c) PROVE CheckoutInv'
<1>1. /\ calls[c].at = "commit" /\ MovesTo(c, "done", Null) /\ InFlight(c)' /\ keys \subseteq keys'
    BY CommitsMoves DEF AlreadyCaptured
<1>2. UNCHANGED <<orders, payments, books, events, session>>
    BY DEF AlreadyCaptured
<1>3. RowsTyped' /\ \A p \in Calls : events[p] \subseteq events'[p]
    BY <1>2 DEF CheckoutInv, CheckoutTypeOK, RowsTyped
<1>4. \A p \in Calls : payments'[p] # Null => payments[p] # Null \/ (p \in Placed /\ orders[p].payNow > 0)
    BY <1>2
<1> QED BY <1>1, <1>2, <1>3, <1>4, QuietStepKeepsInv

LEMMA FailPaymentKeepsInv == ASSUME CheckoutInv, NEW c \in Calls, FailPayment(c) PROVE CheckoutInv'
<1> DEFINE o == Request(c).order
<1>1. /\ calls[c].at = "commit" /\ MovesTo(c, "done", Null) /\ InFlight(c)' /\ keys \subseteq keys'
      /\ o \in Placed /\ o \in Calls /\ orders[o].payNow > 0
    BY CommitsMoves DEF FailPayment
<1>2. Record(o, EventOf("failed"), "STARTED") /\ payments' = [payments EXCEPT ![o] = "failed"]
    BY DEF FailPayment
<1>3. UNCHANGED <<orders, books>>
    BY DEF FailPayment
<1>4. EventOf("failed") \in EventNames
    BY DEF EventOf, EventNames
<1>5. RowsTyped' /\ \A p \in Calls : events[p] \subseteq events'[p]
    BY <1>1, <1>2, <1>3, <1>4, RecordIsTyped, PaymentIsTyped, QuietRowsAreTyped DEF EventNames, CheckoutInv, CheckoutTypeOK
<1>6. \A p \in Calls : payments'[p] # Null => payments[p] # Null \/ (p \in Placed /\ orders[p].payNow > 0)
    BY <1>1, <1>2 DEF CheckoutInv, CheckoutTypeOK, RowsTyped
<1> QED BY <1>1, <1>3, <1>5, <1>6, QuietStepKeepsInv

LEMMA WriteAbandonmentKeepsInv ==
    ASSUME CheckoutInv, NEW c \in Calls, NEW o \in Calls, WriteAbandonment(c, o)
    PROVE  CheckoutInv'
<1> DEFINE left == [overdue |-> calls[c].seen.overdue \ {o}]
<1>1. Request(c).op = "abandon" /\ calls[c].at = "commit"
    BY DEF WriteAbandonment, Is
<1>2. CASE ~Recordable(o, "checkout_abandoned")
    BY <1>1, <1>2, FailingKeepsInv DEF WriteAbandonment
<1>3. CASE Recordable(o, "checkout_abandoned")
  <2>1. /\ Record(o, "checkout_abandoned", "ABANDONED") /\ Has(c, "commit", left)
        /\ UNCHANGED <<orders, payments, books, keys, expired>>
      BY <1>3 DEF WriteAbandonment
  <2> HIDE DEF left
  <2>2. MovesTo(c, "commit", left)
      BY <2>1, CallGoesOn DEF CheckoutInv, CheckoutTypeOK
  <2>3. RowsTyped' /\ \A p \in Calls : events[p] \subseteq events'[p]
    <3>1. /\ events' \in [Calls -> SUBSET EventNames] /\ \A p \in Calls : events[p] \subseteq events'[p]
          /\ session' \in [Calls -> {"STARTED", "COMPLETED", "ABANDONED", Null}]
        BY <2>1, RecordIsTyped DEF EventNames, CheckoutInv, CheckoutTypeOK
    <3>2. payments' \in [Calls -> {"created", "initiated", "failed", "captured", "refund_due", Null}]
        BY <2>1 DEF CheckoutInv, CheckoutTypeOK, RowsTyped
    <3> QED BY <2>1, <3>1, <3>2, QuietRowsAreTyped DEF CheckoutInv, CheckoutTypeOK
  <2>4. Request(c)' = Request(c)
      BY <2>2 DEF MovesTo, Request
  <2>5. InFlight(c)'
      BY <1>1, <2>4 DEF InFlight, ReadQuoteOf, ReadPaymentOf, ReadAdvanceOf, ReadOrderOf
  <2>6. \A p \in Calls : payments'[p] # Null => payments[p] # Null \/ (p \in Placed /\ orders[p].payNow > 0)
      BY <2>1
  <2> QED BY <1>1, <2>1, <2>2, <2>3, <2>5, <2>6, QuietStepKeepsInv
<1> QED BY <1>2, <1>3

LEMMA ExpireQuoteKeepsInv == ASSUME CheckoutInv, NEW q, ExpireQuote(q) PROVE CheckoutInv'
<1>1. UNCHANGED <<orders, payments, books, events, session, keys, calls>>
    BY DEF ExpireQuote, rows
<1>2. CheckoutTypeOK'
    BY <1>1 DEF CheckoutInv, CheckoutTypeOK, CallsTyped, RowsTyped, Request, IsCall
<1>3. Placed' = Placed /\ RowsGrow
    BY <1>1, RowsStay DEF Placed, CheckoutInv, CheckoutTypeOK
<1>4. OrdersSound'
    BY <1>1, <1>3, OrderStaysSound DEF CheckoutInv, OrdersSound, CheckoutTypeOK
<1>5. CallsInFlight'
    BY <1>1, <1>2, <1>3, InFlightStays DEF CheckoutInv, CallsInFlight, CheckoutTypeOK
<1>6. OneOrderPerKey'
    BY <1>1, <1>3 DEF CheckoutInv, OneOrderPerKey, Request
<1> QED BY <1>1, <1>2, <1>3, <1>4, <1>5, <1>6 DEF CheckoutInv, PaymentsAreOwed

-----------------------------------------------------------------------------
(* Checkout: the steps that write an order and its books. *)

\* One placed order gets another state, cash or advance, and entries in its books.
LEMMA OrderIsRewritten ==
    ASSUME CheckoutInv, NEW o \in Placed, NEW row \in OrderRow, NEW b, IsBook(b),
           row.payNow = orders[o].payNow, row.payOnDelivery = orders[o].payOnDelivery, row.total = orders[o].total,
           \A e : Count(b, e) >= Count(books[o], e),
           orders' = [orders EXCEPT ![o] = row], books' = [books EXCEPT ![o] = b]
    PROVE  /\ orders' \in [Calls -> OrderRow \union {Null}]
           /\ books' = [p \in Calls |-> books'[p]] /\ \A p \in Calls : IsBook(books'[p])
           /\ RowsGrow /\ Placed' = Placed /\ orders'[o] = row /\ books'[o] = b
           /\ \A p \in Placed : p # o => orders'[p] = orders[p] /\ books'[p] = books[p]
<1>1. /\ o \in Calls /\ orders \in [Calls -> OrderRow \union {Null}] /\ Null \notin OrderRow
      /\ books = [p \in Calls |-> books[p]] /\ \A p \in Calls : IsBook(books[p])
    BY CheckoutAssumption DEF CheckoutInv, CheckoutTypeOK, RowsTyped, Placed
<1>2. /\ books' = [p \in Calls |-> books'[p]] /\ books'[o] = b
      /\ \A p \in Calls : p # o => books'[p] = books[p]
    BY <1>1
<1>3. \A p \in Calls : IsBook(books'[p])
    BY <1>1, <1>2
<1>4. /\ orders' \in [Calls -> OrderRow \union {Null}] /\ orders'[o] = row
      /\ \A p \in Calls : p # o => orders'[p] = orders[p]
    BY <1>1
<1>5. Placed' = Placed
    BY <1>1, <1>4 DEF Placed
<1>6. \A p \in Placed : \A e : Count(books'[p], e) >= Count(books[p], e)
  <2> SUFFICES ASSUME NEW p \in Placed, NEW e PROVE Count(books'[p], e) >= Count(books[p], e)
      OBVIOUS
  <2>1. p \in Calls /\ Count(books[p], e) \in Nat
      BY <1>1, CountIsNatural DEF Placed
  <2> QED BY <1>2, <2>1
<1>7. RowsGrow
    BY <1>4, <1>5, <1>6 DEF RowsGrow, Placed
<1> QED BY <1>2, <1>3, <1>4, <1>5, <1>7 DEF Placed

\* A call rewrites one order: the rest of the invariant follows once that order is sound.
LEMMA RewritingKeepsInv ==
    ASSUME CheckoutInv, NEW c \in Calls, calls[c].at # "done", MovesTo(c, "done", Null),
           RowsTyped', RowsGrow, keys \subseteq keys', Placed' = Placed, NEW o \in Placed,
           \A p \in Calls : events[p] \subseteq events'[p],
           \A p \in Calls : payments'[p] # Null => payments[p] # Null \/ (p = o /\ orders[o].payNow > 0),
           \A p \in Placed : p # o => orders'[p] = orders[p] /\ books'[p] = books[p],
           PaidFor(o)', ConfirmedWithItsEvent(o)'
    PROVE  CheckoutInv'
<1>1. PaymentsAreOwed'
    BY DEF CheckoutInv, PaymentsAreOwed, RowsGrow
<1>2. OneOrderPerKey'
    BY KeysStayApart DEF CheckoutInv
<1>3. InFlight(c)'
    BY DEF InFlight, MovesTo
<1>4. Keyed(o)'
  <2>1. Keyed(o) /\ o \in Calls
      BY DEF CheckoutInv, OrdersSound, Placed
  <2>2. o # c
      BY <2>1 DEF Keyed
  <2> QED BY <2>1, <2>2 DEF Keyed, KeysOf, MovesTo, Request
<1>5. PICK Touched : Touched = {o}
    OBVIOUS
<1>6. \A p \in Placed' : p \notin Touched =>
          /\ p \in Placed /\ orders'[p] = orders[p] /\ books'[p] = books[p]
          /\ "payment_succeeded" \in events[p] => "payment_succeeded" \in events'[p]
    BY <1>5 DEF Placed
<1>7. \A p \in Placed' : p \in Touched => (PaidFor(p) /\ ConfirmedWithItsEvent(p) /\ Keyed(p))'
    BY <1>4, <1>5
<1> QED BY <1>1, <1>2, <1>3, <1>6, <1>7, StepKeepsInv

\* What the invariant says of one order.
LEMMA OrderIsSound ==
    ASSUME CheckoutInv, NEW o \in Placed
    PROVE  /\ o \in Calls /\ orders[o] \in OrderRow /\ PaidFor(o) /\ ConfirmedWithItsEvent(o)
           /\ \A e : Count(books[o], e) \in Nat
BY PlacedIsARow, CountIsNatural DEF CheckoutInv, CheckoutTypeOK, OrdersSound, RowsTyped

\* What captureInTransaction adds to the books of an order: the captured amount and one entry more.
LEMMA CapturedBooks ==
    ASSUME CheckoutInv, NEW o \in Placed, NEW type \in {"payment_refund_due", "order_confirmed"}, NEW amount,
           NEW b, b = books[o] (+) Captured(o) (+) Entry(type, amount)
    PROVE  /\ IsBook(b) /\ \A e : Count(b, e) >= Count(books[o], e)
           /\ Count(b, <<"captured", orders[o].payNow>>) > 0
           /\ \A total : Count(b, <<"order_confirmed", total>>) =
                  Count(books[o], <<"order_confirmed", total>>) +
                      (IF <<"order_confirmed", total>> = <<type, amount>> THEN 1 ELSE 0)
<1> DEFINE a == books[o] (+) Captured(o)
<1>1. IsBook(books[o]) /\ \A e : Count(books[o], e) \in Nat
    BY OrderIsSound DEF CheckoutInv, CheckoutTypeOK, RowsTyped
<1>2. /\ IsBook(Captured(o))
      /\ \A e : Count(Captured(o), e) = IF e = <<"captured", orders[o].payNow>> THEN 1 ELSE 0
    BY EntryIsABook DEF Captured
<1>3. IsBook(a) /\ \A e : Count(a, e) = Count(books[o], e) + Count(Captured(o), e)
    BY <1>1, <1>2, CountOfASum
<1>4. /\ IsBook(Entry(type, amount))
      /\ \A e : Count(Entry(type, amount), e) = IF e = <<type, amount>> THEN 1 ELSE 0
    BY EntryIsABook
<1>5. IsBook(b) /\ \A e : Count(b, e) = Count(a, e) + Count(Entry(type, amount), e)
    BY <1>3, <1>4, CountOfASum
<1> HIDE DEF a
<1>6. \A e : Count(b, e) = Count(books[o], e) + (IF e = <<"captured", orders[o].payNow>> THEN 1 ELSE 0)
                                              + (IF e = <<type, amount>> THEN 1 ELSE 0)
    BY <1>2, <1>3, <1>4, <1>5
<1>7. \A e : Count(b, e) >= Count(books[o], e)
    BY <1>1, <1>6
<1>8. Count(b, <<"captured", orders[o].payNow>>) > 0
    BY <1>1, <1>6
<1>9. \A total : Count(b, <<"order_confirmed", total>>) =
          Count(books[o], <<"order_confirmed", total>>) +
              (IF <<"order_confirmed", total>> = <<type, amount>> THEN 1 ELSE 0)
    BY <1>1, <1>6
<1> QED BY <1>5, <1>7, <1>8, <1>9

LEMMA CaptureLateKeepsInv == ASSUME CheckoutInv, NEW c \in Calls, CaptureLate(c) PROVE CheckoutInv'
<1>1. PICK o \in Placed : o = Request(c).order
    BY CommitsMoves DEF CaptureLate
<1>2. PICK row : row = [orders[o] EXCEPT !.state = "refund_due"]
    OBVIOUS
<1>3. PICK b : b = books[o] (+) Captured(o) (+) Entry("payment_refund_due", orders[o].payNow)
    OBVIOUS
<1>4. /\ calls[c].at = "commit" /\ MovesTo(c, "done", Null) /\ keys \subseteq keys'
      /\ o \in Calls /\ orders[o].payNow > 0
    BY <1>1, CommitsMoves DEF CaptureLate
<1>5. /\ orders[o] \in OrderRow /\ PaidFor(o) /\ ConfirmedWithItsEvent(o)
      /\ \A e : Count(books[o], e) \in Nat
    BY <1>1, OrderIsSound
<1>6. /\ row \in OrderRow /\ row.state = "refund_due" /\ row.payNow = orders[o].payNow
      /\ row.payOnDelivery = orders[o].payOnDelivery /\ row.total = orders[o].total
      /\ row.advancePaid = orders[o].advancePaid
    BY <1>2, <1>5 DEF OrderRow
<1>7. /\ IsBook(b) /\ \A e : Count(b, e) >= Count(books[o], e)
      /\ \A total : Count(b, <<"order_confirmed", total>>) = Count(books[o], <<"order_confirmed", total>>)
  <2>1. PICK type \in {"payment_refund_due", "order_confirmed"}, amount \in {orders[o].payNow} :
            type = "payment_refund_due"
      OBVIOUS
  <2>2. b = books[o] (+) Captured(o) (+) Entry(type, amount)
      BY <1>3, <2>1
  <2>3. /\ IsBook(b) /\ \A e : Count(b, e) >= Count(books[o], e)
        /\ Count(b, <<"captured", orders[o].payNow>>) > 0
        /\ \A total : Count(b, <<"order_confirmed", total>>) =
               Count(books[o], <<"order_confirmed", total>>) +
                   (IF <<"order_confirmed", total>> = <<type, amount>> THEN 1 ELSE 0)
      BY <2>1, <2>2, CapturedBooks
  <2> QED BY <1>5, <2>1, <2>3
<1>8. orders' = [orders EXCEPT ![o] = row] /\ books' = [books EXCEPT ![o] = b]
    BY <1>1, <1>2, <1>3 DEF CaptureLate
<1>9. /\ payments' = [payments EXCEPT ![o] = "refund_due"]
      /\ Record(o, EventOf("late"), "STARTED") /\ EventOf("late") \in EventNames
    BY <1>1 DEF CaptureLate, EventOf, EventNames
<1>10. /\ orders' \in [Calls -> OrderRow \union {Null}]
       /\ books' = [p \in Calls |-> books'[p]] /\ \A p \in Calls : IsBook(books'[p])
       /\ RowsGrow /\ Placed' = Placed /\ orders'[o] = row /\ books'[o] = b
       /\ \A p \in Placed : p # o => orders'[p] = orders[p] /\ books'[p] = books[p]
    BY <1>6, <1>7, <1>8, OrderIsRewritten
<1>11. /\ events' \in [Calls -> SUBSET EventNames]
       /\ session' \in [Calls -> {"STARTED", "COMPLETED", "ABANDONED", Null}]
       /\ \A p \in Calls : events[p] \subseteq events'[p]
       /\ payments' \in [Calls -> {"created", "initiated", "failed", "captured", "refund_due", Null}]
    BY <1>4, <1>9, RecordIsTyped, PaymentIsTyped DEF CheckoutInv, CheckoutTypeOK
<1>12. RowsTyped'
    BY <1>10, <1>11 DEF RowsTyped, IsBook
<1>13. \A p \in Calls : payments'[p] # Null => payments[p] # Null \/ (p = o /\ orders[o].payNow > 0)
    BY <1>4, <1>9 DEF CheckoutInv, CheckoutTypeOK, RowsTyped
<1>14. PaidFor(o)'
  <2>1. PICK amount : amount = row.advancePaid
      OBVIOUS
  <2>2. Backed(o, amount)'
      BY <1>5, <1>6, <1>10, <2>1, BackedStays, <1>12 DEF PaidFor, CheckoutInv, CheckoutTypeOK
  <2> QED BY <1>6, <1>10, <2>1, <2>2 DEF PaidFor, Backed, SentOut
<1>15. ConfirmedWithItsEvent(o)'
    BY <1>4, <1>5, <1>6, <1>7, <1>10, <1>11 DEF ConfirmedWithItsEvent, Confirmed
<1> QED BY <1>4, <1>10, <1>11, <1>12, <1>13, <1>14, <1>15, RewritingKeepsInv

LEMMA CaptureKeepsInv == ASSUME CheckoutInv, NEW c \in Calls, Capture(c) PROVE CheckoutInv'
<1>1. PICK o \in Placed : o = Request(c).order
    BY CommitsMoves DEF Capture
<1>2. PICK advance : advance = IF orders[o].mode = "partial_cod" THEN orders[o].payNow
                               ELSE calls[c].seen.advancePaid
    OBVIOUS
<1>3. PICK row : row = [orders[o] EXCEPT !.state = "confirmed", !.advancePaid = advance]
    OBVIOUS
<1>4. PICK b : b = books[o] (+) Captured(o) (+) Entry("order_confirmed", orders[o].total)
    OBVIOUS
<1>5. /\ calls[c].at = "commit" /\ MovesTo(c, "done", Null) /\ keys \subseteq keys'
      /\ o \in Calls /\ orders[o].payNow > 0 /\ "payment_succeeded" \notin events[o]
    BY <1>1, CommitsMoves DEF Capture, EventOf
<1>6. /\ orders[o] \in OrderRow /\ PaidFor(o) /\ ConfirmedWithItsEvent(o)
      /\ \A e : Count(books[o], e) \in Nat
    BY <1>1, OrderIsSound
<1>7. /\ IsBook(b) /\ \A e : Count(b, e) >= Count(books[o], e)
      /\ Count(b, <<"captured", orders[o].payNow>>) > 0
      /\ Count(b, <<"order_confirmed", orders[o].total>>) =
             Count(books[o], <<"order_confirmed", orders[o].total>>) + 1
  <2>1. PICK type \in {"payment_refund_due", "order_confirmed"}, amount \in {orders[o].total} :
            type = "order_confirmed"
      OBVIOUS
  <2>2. b = books[o] (+) Captured(o) (+) Entry(type, amount)
      BY <1>4, <2>1
  <2>3. /\ IsBook(b) /\ \A e : Count(b, e) >= Count(books[o], e)
        /\ Count(b, <<"captured", orders[o].payNow>>) > 0
        /\ \A total : Count(b, <<"order_confirmed", total>>) =
               Count(books[o], <<"order_confirmed", total>>) +
                   (IF <<"order_confirmed", total>> = <<type, amount>> THEN 1 ELSE 0)
      BY <2>1, <2>2, CapturedBooks
  <2> QED BY <1>6, <2>1, <2>3
<1>8. Backed(o, calls[c].seen.advancePaid)
    BY <1>1, <1>5, CommitsMoves DEF Capture, CheckoutInv, CallsInFlight, InFlight, ReadAdvanceOf
<1>9. advance \in Nat
    BY <1>2, <1>6, <1>8 DEF Backed, OrderRow
<1>10. /\ row \in OrderRow /\ row.state = "confirmed" /\ row.payNow = orders[o].payNow
       /\ row.payOnDelivery = orders[o].payOnDelivery /\ row.total = orders[o].total
       /\ row.advancePaid = advance
    BY <1>3, <1>6, <1>9 DEF OrderRow
<1>11. orders' = [orders EXCEPT ![o] = row] /\ books' = [books EXCEPT ![o] = b]
    BY <1>1, <1>2, <1>3, <1>4 DEF Capture
<1>12. /\ payments' = [payments EXCEPT ![o] = "captured"]
       /\ Record(o, EventOf("captured"), "COMPLETED") /\ EventOf("captured") \in EventNames
       /\ EventOf("captured") = "payment_succeeded"
    BY <1>1 DEF Capture, EventOf, EventNames
<1>13. /\ orders' \in [Calls -> OrderRow \union {Null}]
       /\ books' = [p \in Calls |-> books'[p]] /\ \A p \in Calls : IsBook(books'[p])
       /\ RowsGrow /\ Placed' = Placed /\ orders'[o] = row /\ books'[o] = b
       /\ \A p \in Placed : p # o => orders'[p] = orders[p] /\ books'[p] = books[p]
    BY <1>7, <1>10, <1>11, OrderIsRewritten
<1>14. /\ events' \in [Calls -> SUBSET EventNames]
       /\ session' \in [Calls -> {"STARTED", "COMPLETED", "ABANDONED", Null}]
       /\ \A p \in Calls : events[p] \subseteq events'[p]
       /\ EventOf("captured") \in events'[o]
       /\ payments' \in [Calls -> {"created", "initiated", "failed", "captured", "refund_due", Null}]
    BY <1>5, <1>12, RecordIsTyped, PaymentIsTyped DEF CheckoutInv, CheckoutTypeOK
<1>15. RowsTyped'
    BY <1>13, <1>14 DEF RowsTyped, IsBook
<1>16. \A p \in Calls : payments'[p] # Null => payments[p] # Null \/ (p = o /\ orders[o].payNow > 0)
    BY <1>5, <1>12 DEF CheckoutInv, CheckoutTypeOK, RowsTyped
<1>17. PaidFor(o)'
  <2>1. PICK amount : amount = row.payNow
      OBVIOUS
  <2>2. Backed(o, amount)'
      BY <1>6, <1>7, <1>10, <1>13, <2>1 DEF Backed, OrderRow
  <2>3. PICK seen : seen = calls[c].seen.advancePaid
      OBVIOUS
  <2>4. Backed(o, seen)'
      BY <1>1, <1>8, <1>13, <1>15, <2>3, BackedStays DEF CheckoutInv, CheckoutTypeOK
  <2>5. advance = amount \/ advance = seen
      BY <1>2, <1>10, <2>1, <2>3
  <2>6. Backed(o, advance)'
      BY <2>2, <2>4, <2>5
  <2> QED BY <1>10, <1>13, <2>1, <2>2, <2>6 DEF PaidFor, Backed, SentOut
<1>18. ConfirmedWithItsEvent(o)'
    BY <1>5, <1>6, <1>7, <1>10, <1>12, <1>13, <1>14 DEF ConfirmedWithItsEvent, Confirmed
<1> QED BY <1>5, <1>13, <1>14, <1>15, <1>16, <1>17, <1>18, RewritingKeepsInv

LEMMA CommitTransitionKeepsInv ==
    ASSUME CheckoutInv, NEW c \in Calls, CommitTransition(c)
    PROVE  CheckoutInv'
<1>1. Request(c).op = "transition" /\ calls[c].at = "commit"
    BY DEF CommitTransition, Is
<1>2. PICK o, seen, to, collected :
          o = Request(c).order /\ seen = calls[c].seen /\ to = Request(c).to /\ collected = Request(c).collected
    OBVIOUS
<1>3. /\ o \in Placed /\ seen \in OrderRow
      /\ seen.payNow = orders[o].payNow /\ seen.payOnDelivery = orders[o].payOnDelivery
      /\ seen.state \in SentOut => Backed(o, seen.payNow)
      /\ MayMove(seen.state, to)
      /\ to = "delivered" => (seen.payOnDelivery > 0 => collected = seen.payOnDelivery)
    BY <1>1, <1>2 DEF CheckoutInv, CallsInFlight, InFlight, ReadOrderOf, CollectionRefused
<1>4. PICK cash : cash = IF to = "delivered" /\ seen.payOnDelivery > 0 THEN "collected" ELSE orders[o].cod
    OBVIOUS
<1>5. PICK row : row = [orders[o] EXCEPT !.state = to, !.cod = cash]
    OBVIOUS
<1>6. PICK last : last = IF to = "delivered" /\ seen.payOnDelivery > 0 THEN Entry("cod_collected", collected)
                         ELSE EmptyBag
    OBVIOUS
<1>7. PICK b : b = books[o] (+) Entry("moved", to) (+) last
    OBVIOUS
<1>8. /\ o \in Calls /\ orders[o] \in OrderRow /\ PaidFor(o) /\ ConfirmedWithItsEvent(o)
      /\ \A e : Count(books[o], e) \in Nat
    BY <1>3, OrderIsSound
<1>9. /\ orders' = [orders EXCEPT ![o] = row] /\ books' = [books EXCEPT ![o] = b]
      /\ UNCHANGED <<payments, events, session, keys>>
    BY <1>2, <1>4, <1>5, <1>6, <1>7 DEF CommitTransition
<1>10. MovesTo(c, "done", Null)
    BY CallIsAnswered DEF CommitTransition, CheckoutInv, CheckoutTypeOK
<1>11. /\ to \in {"packed", "shipped", "delivered", "cancelled", "expired", "refund_due"}
       /\ to \in SentOut => Backed(o, seen.payNow)
    BY <1>3 DEF MayMove, SentOut, Terminal, Pending
<1>12. cash \in {"none", "pending", "collected"}
    BY <1>4, <1>8 DEF OrderRow
<1>13. /\ row \in OrderRow /\ row.state = to /\ row.cod = cash /\ row.payNow = orders[o].payNow
       /\ row.payOnDelivery = orders[o].payOnDelivery /\ row.total = orders[o].total
       /\ row.advancePaid = orders[o].advancePaid
    BY <1>5, <1>8, <1>11, <1>12 DEF OrderRow
<1>14. /\ IsBook(b) /\ \A e : Count(b, e) >= Count(books[o], e)
       /\ \A total : Count(b, <<"order_confirmed", total>>) = Count(books[o], <<"order_confirmed", total>>)
       /\ (to = "delivered" /\ seen.payOnDelivery > 0 => Count(b, <<"cod_collected", collected>>) > 0)
  <2>1. PICK a : a = books[o] (+) Entry("moved", to)
      OBVIOUS
  <2>2. IsBook(books[o])
      BY <1>8 DEF CheckoutInv, CheckoutTypeOK, RowsTyped
  <2>3. /\ IsBook(Entry("moved", to))
        /\ \A e : Count(Entry("moved", to), e) = IF e = <<"moved", to>> THEN 1 ELSE 0
      BY EntryIsABook
  <2>4. IsBook(a) /\ \A e : Count(a, e) = Count(books[o], e) + Count(Entry("moved", to), e)
      BY <2>1, <2>2, <2>3, CountOfASum
  <2>5. /\ IsBook(last)
        /\ \A e : Count(last, e) = IF /\ to = "delivered" /\ seen.payOnDelivery > 0
                                      /\ e = <<"cod_collected", collected>> THEN 1 ELSE 0
      BY <1>6, EntryIsABook, EmptyBagIsABook
  <2>6. b = a (+) last
      BY <1>7, <2>1
  <2>7. IsBook(b) /\ \A e : Count(b, e) = Count(a, e) + Count(last, e)
      BY <2>4, <2>5, <2>6, CountOfASum
  <2>8. \A e : Count(b, e) = Count(books[o], e) + (IF e = <<"moved", to>> THEN 1 ELSE 0) + Count(last, e)
      BY <2>3, <2>4, <2>7
  <2>9. /\ \A e : Count(b, e) >= Count(books[o], e)
        /\ \A total : Count(b, <<"order_confirmed", total>>) = Count(books[o], <<"order_confirmed", total>>)
      BY <1>8, <2>5, <2>8
  <2>10. to = "delivered" /\ seen.payOnDelivery > 0 => Count(b, <<"cod_collected", collected>>) > 0
      BY <1>8, <2>5, <2>8
  <2> QED BY <2>7, <2>9, <2>10
<1>15. /\ orders' \in [Calls -> OrderRow \union {Null}]
       /\ books' = [p \in Calls |-> books'[p]] /\ \A p \in Calls : IsBook(books'[p])
       /\ RowsGrow /\ Placed' = Placed /\ orders'[o] = row /\ books'[o] = b
       /\ \A p \in Placed : p # o => orders'[p] = orders[p] /\ books'[p] = books[p]
    BY <1>3, <1>9, <1>13, <1>14, OrderIsRewritten
<1>16. RowsTyped'
    BY <1>9, <1>15 DEF RowsTyped, IsBook, CheckoutInv, CheckoutTypeOK
<1>17. /\ \A p \in Calls : events[p] \subseteq events'[p]
       /\ \A p \in Calls : payments'[p] # Null => payments[p] # Null \/ (p = o /\ orders[o].payNow > 0)
       /\ keys \subseteq keys'
  <2>1. events' = events /\ payments' = payments /\ keys' = keys
      BY <1>9
  <2>2. \A p \in Calls : events[p] \subseteq events'[p]
      BY <2>1
  <2>3. \A p \in Calls : payments'[p] # Null => payments[p] # Null
      BY <2>1
  <2> QED BY <2>1, <2>2, <2>3
<1>18. PaidFor(o)'
  <2>1. PICK owed, advance : owed = row.payNow /\ advance = row.advancePaid
      OBVIOUS
  <2>2. to \in SentOut => Backed(o, owed)'
      BY <1>3, <1>11, <1>13, <1>15, <1>16, <2>1, BackedStays DEF CheckoutInv, CheckoutTypeOK
  <2>3. Backed(o, advance)'
      BY <1>3, <1>8, <1>13, <1>15, <1>16, <2>1, BackedStays DEF PaidFor, CheckoutInv, CheckoutTypeOK
  <2>4. to = "delivered" /\ row.payOnDelivery > 0 =>
            row.cod = "collected" /\ Count(b, <<"cod_collected", row.payOnDelivery>>) > 0
      BY <1>3, <1>4, <1>13, <1>14
  <2> QED BY <1>13, <1>15, <2>1, <2>2, <2>3, <2>4 DEF PaidFor, Backed
<1>19. ConfirmedWithItsEvent(o)'
    BY <1>8, <1>9, <1>13, <1>14, <1>15 DEF ConfirmedWithItsEvent, Confirmed
<1> QED BY <1>1, <1>3, <1>10, <1>15, <1>16, <1>17, <1>18, <1>19, RewritingKeepsInv

LEMMA CreateOrderKeepsInv == ASSUME CheckoutInv, NEW c \in Calls, CreateOrder(c) PROVE CheckoutInv'
<1>1. Request(c).op = "order" /\ calls[c].at = "commit" /\ Answered(c, c)
    BY DEF CreateOrder, Is
<1>2. MovesTo(c, "done", Null)
    BY <1>1, CallIsAnswered DEF CheckoutInv, CheckoutTypeOK
<1>3. PICK option, r, q, mode :
          option = calls[c].seen /\ r = Request(c) /\ q = Request(c).quote /\ mode = Request(c).mode
    OBVIOUS
<1>4. q \in DOMAIN Quotes /\ mode \in Modes /\ option = Quotes[q][mode]
    BY <1>1, <1>3, CheckoutAssumption
       DEF CheckoutInv, CheckoutTypeOK, CallsTyped, CallsInFlight, InFlight, ReadQuoteOf
<1>5. /\ option.payNow \in Nat /\ option.payOnDelivery \in Nat /\ option.total \in Nat
      /\ mode = "full_cod" => option.payNow = 0
    BY <1>4, CheckoutAssumption
<1>6. PICK row : row = [quote |-> q, mode |-> mode, state |-> InitialState(mode),
                        payNow |-> option.payNow, payOnDelivery |-> option.payOnDelivery,
                        total |-> option.total, advancePaid |-> 0,
                        cod |-> IF option.payOnDelivery > 0 THEN "pending" ELSE "none"]
    OBVIOUS
<1>7. PICK b : b = Entry("checkout_order_created", option.total) (+)
                       (IF option.payNow > 0 THEN Entry("payment_intent_created", option.payNow)
                        ELSE Entry("order_confirmed", option.total))
    OBVIOUS
<1>8. PICK payment, status : /\ payment = IF option.payNow > 0 THEN "created" ELSE Null
                             /\ status = IF option.payNow > 0 THEN "STARTED" ELSE "COMPLETED"
    OBVIOUS
<1>9. /\ orders' = [orders EXCEPT ![c] = row] /\ payments' = [payments EXCEPT ![c] = payment]
      /\ books' = [books EXCEPT ![c] = b] /\ session' = [session EXCEPT ![c] = status]
      /\ events' = [events EXCEPT ![c] = {"order_placed"}]
      /\ KeysOf(r) = {} /\ PersistKey(c, c)
    BY <1>3, <1>6, <1>7, <1>8 DEF CreateOrder, KeyIsFree
<1>10. InitialState(mode) \in {"confirmed", "pending_advance", "pending_payment"} /\
       (InitialState(mode) = "confirmed" => mode = "full_cod")
    BY <1>4 DEF InitialState, Modes
<1>11. /\ row \in OrderRow /\ row.state = InitialState(mode) /\ row.payNow = option.payNow
       /\ row.total = option.total /\ row.advancePaid = 0
    BY <1>4, <1>5, <1>6, <1>10 DEF OrderRow
<1>12. IsBook(b) /\ \A e : Count(b, e) = (IF e = <<"checkout_order_created", option.total>> THEN 1 ELSE 0)
           + (IF e = (IF option.payNow > 0 THEN <<"payment_intent_created", option.payNow>>
                      ELSE <<"order_confirmed", option.total>>) THEN 1 ELSE 0)
  <2>1. PICK x : x = IF option.payNow > 0 THEN Entry("payment_intent_created", option.payNow)
                     ELSE Entry("order_confirmed", option.total)
      OBVIOUS
  <2>2. /\ IsBook(x)
        /\ \A e : Count(x, e) = IF e = (IF option.payNow > 0 THEN <<"payment_intent_created", option.payNow>>
                                        ELSE <<"order_confirmed", option.total>>) THEN 1 ELSE 0
      BY <2>1, EntryIsABook
  <2>3. PICK a : a = Entry("checkout_order_created", option.total)
      OBVIOUS
  <2>4. IsBook(a) /\ \A e : Count(a, e) = IF e = <<"checkout_order_created", option.total>> THEN 1 ELSE 0
      BY <2>3, EntryIsABook
  <2>5. b = a (+) x
      BY <1>7, <2>1, <2>3
  <2> QED BY <2>2, <2>4, <2>5, CountOfASum
<1>13. /\ c \notin Placed /\ Null \notin OrderRow
       /\ \A o \in Placed : o \in Calls /\ o # c
    BY <1>1, CheckoutAssumption DEF CheckoutInv, OrdersSound, Keyed, Placed
<1>14. RowsTyped
    BY DEF CheckoutInv, CheckoutTypeOK
<1>15. /\ orders' \in [Calls -> OrderRow \union {Null}] /\ orders'[c] = row
       /\ \A o \in Calls : o # c => orders'[o] = orders[o]
    BY <1>9, <1>11, <1>14 DEF RowsTyped
<1>16. /\ books' = [o \in Calls |-> books'[o]] /\ books'[c] = b
       /\ \A o \in Calls : o # c => books'[o] = books[o]
    BY <1>9, <1>14 DEF RowsTyped
<1>17. /\ payments' \in [Calls -> {"created", "initiated", "failed", "captured", "refund_due", Null}]
       /\ payments'[c] = payment /\ \A o \in Calls : o # c => payments'[o] = payments[o]
    BY <1>8, <1>9, <1>14 DEF RowsTyped
<1>18. /\ events' \in [Calls -> SUBSET EventNames]
       /\ \A o \in Calls : o # c => events'[o] = events[o]
    BY <1>9, <1>14 DEF RowsTyped, EventNames
<1>19. session' \in [Calls -> {"STARTED", "COMPLETED", "ABANDONED", Null}]
    BY <1>8, <1>9, <1>14 DEF RowsTyped
<1>20. RowsTyped'
  <2>1. \A o \in Calls : IsBook(books[o])' 
      BY <1>12, <1>14, <1>16 DEF RowsTyped, IsBook
  <2> QED BY <1>15, <1>16, <1>17, <1>18, <1>19, <2>1 DEF RowsTyped, IsBook
<1>21. Placed' = Placed \union {c}
    BY <1>11, <1>13, <1>15 DEF Placed
<1>22. RowsGrow
  <2>1. \A o \in Placed : \A e : Count(books[o], e) \in Nat /\ books'[o] = books[o]
      BY <1>13, <1>14, <1>16, CountIsNatural DEF RowsTyped
  <2>2. \A o \in Placed : \A e : Count(books'[o], e) >= Count(books[o], e)
      BY <2>1
  <2> QED BY <1>13, <1>15, <1>21, <2>2 DEF RowsGrow
<1>23. keys \subseteq keys' /\ KeysOf(Request(c))' # {}
  <2>1. Request(c)' = Request(c)
      BY <1>2 DEF MovesTo, Request
  <2>2. PICK k : k = [op |-> Operation(Request(c)), key |-> Request(c).key,
                      request |-> Request(c), pointer |-> c]
      OBVIOUS
  <2>3. keys' = keys \union {k} /\ k.op = Operation(Request(c)) /\ k.key = Request(c).key
      BY <1>9, <2>2 DEF PersistKey
  <2> QED BY <2>1, <2>3 DEF KeysOf, Operation
<1>24. PaymentsAreOwed'
  <2>1. payments'[c] # Null => option.payNow > 0
      BY <1>8, <1>17
  <2> QED BY <1>11, <1>13, <1>15, <1>17, <1>21, <2>1 DEF CheckoutInv, PaymentsAreOwed
<1>25. InFlight(c)'
    BY <1>2 DEF InFlight, MovesTo
<1>26. OneOrderPerKey'
  <2>1. \A o \in Calls : Request(o)' = Request(o)
      BY <1>2 DEF MovesTo, Request
  <2>2. ASSUME NEW o \in Placed PROVE Request(o).key # r.key
    <3>1. Request(o).op = "order" /\ KeysOf(Request(o)) # {}
        BY DEF CheckoutInv, OrdersSound, Keyed
    <3>2. PICK k \in keys : k.op = Operation(Request(o)) /\ k.key = Request(o).key
        BY <3>1 DEF KeysOf
    <3>3. Operation(Request(o)) = Operation(r)
        BY <1>1, <1>3, <3>1 DEF Operation
    <3> QED BY <1>9, <3>2, <3>3 DEF KeysOf
  <2> QED BY <1>3, <1>13, <1>21, <2>1, <2>2 DEF CheckoutInv, OneOrderPerKey
<1>27. (PaidFor(c) /\ ConfirmedWithItsEvent(c) /\ Keyed(c))'
  <2>1. PaidFor(c)'
      BY <1>5, <1>10, <1>11, <1>15 DEF PaidFor, Backed, SentOut
  <2>2. ConfirmedWithItsEvent(c)'
    <3>1. /\ Count(b, <<"order_confirmed", option.total>>) <= 1
          /\ option.payNow > 0 => Count(b, <<"order_confirmed", option.total>>) = 0
        BY <1>12
    <3> QED BY <1>11, <1>15, <1>16, <3>1 DEF ConfirmedWithItsEvent, Confirmed
  <2>3. Keyed(c)'
      BY <1>1, <1>2, <1>23 DEF Keyed, MovesTo, Request
  <2> QED BY <2>1, <2>2, <2>3
<1>28. PICK Touched : Touched = {c}
    OBVIOUS
<1>29. \A o \in Placed' : o \notin Touched =>
           /\ o \in Placed /\ orders'[o] = orders[o] /\ books'[o] = books[o]
           /\ "payment_succeeded" \in events[o] => "payment_succeeded" \in events'[o]
    BY <1>13, <1>15, <1>16, <1>18, <1>21, <1>28
<1>30. \A o \in Placed' : o \in Touched => (PaidFor(o) /\ ConfirmedWithItsEvent(o) /\ Keyed(o))'
    BY <1>27, <1>28
<1> QED BY <1>1, <1>2, <1>20, <1>22, <1>23, <1>24, <1>25, <1>26, <1>29, <1>30, StepKeepsInv

-----------------------------------------------------------------------------
(* Checkout: the theorems. *)

LEMMA CheckoutInvInit == CheckoutInit => CheckoutInv
<1> SUFFICES ASSUME CheckoutInit PROVE CheckoutInv
    OBVIOUS
<1>1. Placed = {}
    BY DEF CheckoutInit, Placed
<1>2. /\ calls = [c \in Calls |-> calls[c]]
      /\ \A c \in Calls : IsCall(calls[c]) /\ calls[c].at = "new" /\ calls[c].request \in MayRequest[c]
    BY DEF CheckoutInit, IsCall
<1>3. RowsTyped
    BY EmptyBagIsABook DEF CheckoutInit, RowsTyped
<1> QED BY <1>1, <1>2, <1>3
        DEF CheckoutInit, CheckoutInv, CheckoutTypeOK, CallsTyped, Request, OrdersSound, PaymentsAreOwed,
            CallsInFlight, InFlight, OneOrderPerKey

LEMMA CheckoutInvNext == CheckoutInv /\ [CheckoutNext]_checkoutVars => CheckoutInv'
<1> SUFFICES ASSUME CheckoutInv, [CheckoutNext]_checkoutVars PROVE CheckoutInv'
    OBVIOUS
<1>1. ASSUME NEW c \in Calls, LookUpKey(c) \/ LoseKey(c) \/ AbortOnEvent(c) PROVE CheckoutInv'
    BY <1>1, LookUpKeyKeepsInv, LoseKeyKeepsInv, AbortOnEventKeepsInv
<1>2. ASSUME NEW c \in Calls, ReadQuote(c) \/ CreateOrder(c) PROVE CheckoutInv'
    BY <1>2, ReadQuoteKeepsInv, CreateOrderKeepsInv
<1>3. ASSUME NEW c \in Calls, ReadInitiate(c) \/ Initiate(c) PROVE CheckoutInv'
    BY <1>3, ReadInitiateKeepsInv, InitiateKeepsInv
<1>4. ASSUME NEW c \in Calls,
             ReadCapture(c) \/ AlreadyCaptured(c) \/ FailPayment(c) \/ CaptureLate(c) \/ Capture(c)
      PROVE  CheckoutInv'
    BY <1>4, ReadCaptureKeepsInv, AlreadyCapturedKeepsInv, FailPaymentKeepsInv, CaptureLateKeepsInv,
       CaptureKeepsInv
<1>5. ASSUME NEW c \in Calls, ReadTransition(c) \/ CommitTransition(c) PROVE CheckoutInv'
    BY <1>5, ReadTransitionKeepsInv, CommitTransitionKeepsInv
<1>6. ASSUME NEW c \in Calls, Scan(c) \/ \E o \in Calls : WriteAbandonment(c, o) PROVE CheckoutInv'
    BY <1>6, ScanKeepsInv, WriteAbandonmentKeepsInv
<1>7. ASSUME NEW q \in DOMAIN Quotes, ExpireQuote(q) PROVE CheckoutInv'
    BY <1>7, ExpireQuoteKeepsInv
<1>8. CASE UNCHANGED checkoutVars
  <2>1. UNCHANGED <<orders, payments, books, events, session, keys, calls>>
      BY <1>8 DEF checkoutVars
  <2>2. CheckoutTypeOK'
      BY <2>1 DEF CheckoutInv, CheckoutTypeOK, CallsTyped, RowsTyped, Request, IsCall
  <2>3. Placed' = Placed /\ RowsGrow
      BY <2>1, RowsStay DEF Placed, CheckoutInv, CheckoutTypeOK
  <2>4. OrdersSound'
      BY <2>1, <2>3, OrderStaysSound DEF CheckoutInv, OrdersSound, CheckoutTypeOK
  <2>5. CallsInFlight'
      BY <2>1, <2>2, <2>3, InFlightStays DEF CheckoutInv, CallsInFlight, CheckoutTypeOK
  <2>6. OneOrderPerKey'
      BY <2>1, <2>3 DEF CheckoutInv, OneOrderPerKey, Request
  <2> QED BY <2>1, <2>2, <2>3, <2>4, <2>5, <2>6 DEF CheckoutInv, PaymentsAreOwed
<1> QED BY <1>1, <1>2, <1>3, <1>4, <1>5, <1>6, <1>7, <1>8 DEF CheckoutNext

\* Rows and calls are of their types, payments are for orders that owe something at once, the books
\* of every order show what its state and its advance claim, and what a request that is about to
\* commit has read is still so (checkout-order.service.ts, checkout-payment.service.ts,
\* checkout-admin.service.ts).
THEOREM CheckoutInvariance == CheckoutSpec => []CheckoutInv
BY CheckoutInvInit, CheckoutInvNext, PTL DEF CheckoutSpec

\* Goods go out only against a captured payment, the advance shown is in the books, and a delivery
\* has its cash collected in full (captureInTransaction, transitionOrder).
THEOREM GoodsAreAlwaysPaidFor == CheckoutSpec => []GoodsArePaidFor
<1>1. CheckoutInv => GoodsArePaidFor
    BY DEF CheckoutInv, OrdersSound, PaidFor, Backed, SentOut, Count, Times, GoodsArePaidFor
<1> QED BY <1>1, CheckoutInvariance, PTL

\* A key creates one order and the books confirm an order at most once, whatever requests run side
\* by side (withIdempotency, recordEvent, captureInTransaction).
THEOREM OrdersAreConfirmedOnce == CheckoutSpec => []ConfirmedOnce
<1>1. CheckoutInv => ConfirmedOnce
    BY DEF CheckoutInv, OrdersSound, ConfirmedWithItsEvent, Confirmed, Count, Times, OneOrderPerKey,
           ConfirmedOnce
<1> QED BY <1>1, CheckoutInvariance, PTL

-----------------------------------------------------------------------------
(* IdempotentRequests: a key without a row has no call in the route and none that was answered. *)

Untouched(d) == at[d] \notin {"handler", "created"} /\ answers[d] = Null

RequestsInv ==
    /\ stored = [k \in Keys |-> stored[k]]
    /\ at = [d \in Posts |-> at[d]] /\ answers = [d \in Posts |-> answers[d]]
    /\ \A d \in Posts : stored[KeyOf[d]] = Null => Untouched(d)

LEMMA RequestsInvInit == RequestsInit => RequestsInv
BY RequestsAssumption DEF RequestsInit, RequestsInv, Untouched

LEMMA RequestStepKeepsInv == ASSUME RequestsInv, NEW c \in Posts, Step(c) PROVE RequestsInv'
<1>1. KeyOf[c] \in Keys /\ \A d \in Posts : KeyOf[d] \in Keys
    BY RequestsAssumption
<1>2. CASE FindKey(c) \/ LoseRace(c)
  <2>1. stored' = stored /\ \A d \in Posts : d # c => at'[d] = at[d] /\ answers'[d] = answers[d]
      BY <1>2 DEF FindKey, LoseRace, Answer, RequestsInv
  <2>2. at' = [d \in Posts |-> at'[d]] /\ answers' = [d \in Posts |-> answers'[d]]
      BY <1>2 DEF FindKey, LoseRace, Answer, RequestsInv
  <2>3. stored[KeyOf[c]] = Null => Untouched(c)'
      BY <1>2 DEF FindKey, LoseRace, Answer, IsResponse, MayInsert, RequestsInv, Untouched
  <2> QED BY <2>1, <2>2, <2>3 DEF RequestsInv, Untouched
<1>3. CASE InsertKey(c)
  <2>1. /\ stored' = [k \in Keys |-> stored'[k]] /\ stored'[KeyOf[c]] # Null
        /\ \A k \in Keys : stored'[k] = Null => stored[k] = Null
      BY <1>1, <1>3, RequestsAssumption DEF InsertKey, RequestsInv
  <2>2. /\ at' = [d \in Posts |-> at'[d]] /\ answers' = answers
        /\ \A d \in Posts : d # c => at'[d] = at[d]
      BY <1>3 DEF InsertKey, RequestsInv
  <2> QED BY <1>1, <2>1, <2>2 DEF RequestsInv, Untouched
<1>4. CASE PlaceOrder(c) \/ Respond(c)
  <2>1. at[c] \in {"handler", "created"} /\ stored' = stored
      BY <1>4 DEF PlaceOrder, Respond
  <2>2. stored[KeyOf[c]] # Null
      BY <2>1 DEF RequestsInv, Untouched
  <2>3. /\ at' = [d \in Posts |-> at'[d]] /\ answers' = [d \in Posts |-> answers'[d]]
        /\ \A d \in Posts : d # c => at'[d] = at[d] /\ answers'[d] = answers[d]
      BY <1>4 DEF PlaceOrder, Respond, Answer, RequestsInv
  <2> QED BY <2>1, <2>2, <2>3 DEF RequestsInv, Untouched
<1>5. CASE StoreResponse(c)
  <2>1. /\ stored' = [k \in Keys |-> stored'[k]] /\ at' = at /\ answers' = answers
        /\ \A k \in Keys : stored'[k] = Null => stored[k] = Null
      BY <1>1, <1>5 DEF StoreResponse, RequestsInv
  <2> QED BY <1>1, <2>1 DEF RequestsInv, Untouched
<1> QED BY <1>2, <1>3, <1>4, <1>5 DEF Step

LEMMA RequestsInvNext == RequestsInv /\ [RequestsNext]_requestVars => RequestsInv'
<1> SUFFICES ASSUME RequestsInv, [RequestsNext]_requestVars PROVE RequestsInv'
    OBVIOUS
<1>1. CASE EndProcess
  <2>1. /\ stored' = stored /\ answers' = answers
        /\ at' = [d \in Posts |-> at'[d]] /\ \A d \in Posts : at'[d] \in {"new", "done"}
      BY <1>1 DEF EndProcess
  <2> QED BY <2>1 DEF RequestsInv, Untouched
<1>2. CASE UNCHANGED requestVars
    BY <1>2 DEF requestVars, RequestsInv, Untouched
<1> QED BY <1>1, <1>2, RequestStepKeepsInv DEF RequestsNext

\* A key is taken before the route is entered under it, and stays taken (requireIdempotency).
THEOREM RequestsInvariance == RequestsSpec => []RequestsInv
BY RequestsInvInit, RequestsInvNext, PTL DEF RequestsSpec

\* The route is entered at most once for a key, whatever crashes in between (requireIdempotency).
THEOREM KeysEnterTheRouteOnce == RequestsSpec => OneRunPerKey
<1>1. RequestsInv /\ [RequestsNext]_requestVars =>
          [\A c, d \in Posts :
              at[c] # "handler" /\ at'[c] = "handler" /\ c # d /\ KeyOf[c] = KeyOf[d] =>
                  at[d] \notin {"handler", "created"} /\ answers[d] = Null]_requestVars
  <2> SUFFICES ASSUME RequestsInv, RequestsNext, NEW c \in Posts, NEW d \in Posts,
                      at[c] # "handler", at'[c] = "handler", KeyOf[c] = KeyOf[d]
               PROVE  Untouched(d)
      BY DEF Untouched
  <2>1. ~EndProcess
      BY DEF EndProcess
  <2>2. PICK e \in Posts : Step(e)
      BY <2>1 DEF RequestsNext
  <2>3. InsertKey(e) /\ e = c
      BY <2>2 DEF Step, FindKey, InsertKey, LoseRace, PlaceOrder, Respond, StoreResponse, Answer, RequestsInv
  <2>4. stored[KeyOf[c]] = Null
      BY <2>3 DEF InsertKey, MayInsert
  <2> QED BY <2>4 DEF RequestsInv
<1> QED BY <1>1, RequestsInvariance, PTL DEF RequestsSpec, OneRunPerKey

-----------------------------------------------------------------------------
(* PlatformImports: tables, lists of rows of any kind. *)

IsList(s) == s \in Seq({s[i] : i \in DOMAIN s})

LEMMA ListIsIndexed == ASSUME NEW s, IsList(s) PROVE Len(s) \in Nat /\ DOMAIN s = 1..Len(s)
BY DEF IsList

LEMMA ListGrows ==
    ASSUME NEW s, IsList(s), NEW e
    PROVE  /\ IsList(Append(s, e)) /\ DOMAIN Append(s, e) = 1..(Len(s) + 1)
           /\ \A i \in DOMAIN s : i \in DOMAIN Append(s, e) /\ Append(s, e)[i] = s[i]
           /\ \A i \in DOMAIN Append(s, e) : i \notin DOMAIN s => Append(s, e)[i] = e
<1> DEFINE S == {s[i] : i \in DOMAIN s} \union {e}
           t == Append(s, e)
<1>1. Len(s) \in Nat /\ DOMAIN s = 1..Len(s) /\ s \in Seq(S)
    BY ListIsIndexed DEF IsList
<1>2. /\ t \in Seq(S) /\ Len(t) = Len(s) + 1 /\ DOMAIN t = 1..(Len(s) + 1)
      /\ \A i \in 1..Len(s) : t[i] = s[i]
      /\ t[Len(s) + 1] = e
    BY <1>1
<1>3. t \in Seq({t[i] : i \in DOMAIN t})
    BY <1>1, <1>2
<1> QED BY <1>1, <1>2, <1>3 DEF IsList

LEMMA ListIsRewritten ==
    ASSUME NEW s, IsList(s), NEW i \in DOMAIN s, NEW e
    PROVE  /\ IsList([s EXCEPT ![i] = e]) /\ DOMAIN [s EXCEPT ![i] = e] = DOMAIN s
           /\ [s EXCEPT ![i] = e][i] = e
           /\ \A k \in DOMAIN s : k # i => [s EXCEPT ![i] = e][k] = s[k]
<1> DEFINE S == {s[k] : k \in DOMAIN s} \union {e}
           t == [s EXCEPT ![i] = e]
<1>1. Len(s) \in Nat /\ DOMAIN s = 1..Len(s) /\ s \in Seq(S) /\ e \in S
    BY ListIsIndexed DEF IsList
<1>2. t \in Seq(S) /\ Len(t) = Len(s)
    BY <1>1, ExceptSeq
<1>3. DOMAIN t = DOMAIN s /\ t[i] = e /\ \A k \in DOMAIN s : k # i => t[k] = s[k]
    BY <1>1
<1> HIDE DEF t
<1>4. t \in Seq({t[k] : k \in DOMAIN t})
    BY <1>1, <1>2
<1> QED BY <1>3, <1>4 DEF IsList, t

-----------------------------------------------------------------------------
(* PlatformImports: the invariant. *)

IsItem(x) == x = [job |-> x.job, order |-> x.order, status |-> x.status, error |-> x.error,
                  converted |-> x.converted]
IsImport(x) == x = [order |-> x.order, converted |-> x.converted]
IsWork(x) == x = [pc |-> x.pc, job |-> x.job, todo |-> x.todo, seen |-> x.seen, found |-> x.found,
                  listed |-> x.listed, at |-> x.at, next |-> x.next, more |-> x.more, event |-> x.event,
                  item |-> x.item]

ItemsTyped == IsList(items) /\ \A i \in DOMAIN items : IsItem(items[i])
ImportsTyped == IsList(imports) /\ \A i \in DOMAIN imports : IsImport(imports[i])
WorkTyped == work = [w \in Workers |-> work[w]] /\ \A w \in Workers : IsWork(work[w])

\* An order that is imported, or has an item that is not a duplicate.
Covered(order) ==
    \/ HasImport(order)
    \/ \E k \in DOMAIN items : items[k].order = order /\ items[k].status # "DUPLICATE"

\* A call that is about to write a duplicate has seen what it is a duplicate of; the items it goes
\* through are there, and a conversion is of an item that was not a duplicate.
FoundIsCovered(w) == At(w, "CREATE") /\ work[w].found => Covered(OrderIn[Head(work[w].todo)])
ListIsThere(w) ==
    /\ work[w].listed \in SUBSET DOMAIN items
    /\ work[w].pc \in {"MARK_DUPLICATE", "IMPORT", "MARK_IMPORTED"} => work[w].listed # {}
    /\ At(w, "MARK_DUPLICATE") => HasImport(items[Current(w)].order)
ConvertsAnOriginal(w) ==
    work[w].pc \in {"ORDER", "ORDER_IMPORT", "WRITE_IMPORT", "ITEM"} =>
        work[w].at \in DOMAIN items /\ work[w].item.status # "DUPLICATE"
CallIsSound(w) == FoundIsCovered(w) /\ ListIsThere(w) /\ ConvertsAnOriginal(w)

PlatformInv ==
    /\ ItemsTyped /\ ImportsTyped /\ WorkTyped /\ DuplicatesHaveAnOriginal
    /\ \A w \in Workers : CallIsSound(w)

\* Items and imports stay, of the same orders, and an item becomes a duplicate only of an import.
ImportsGrow ==
    /\ \A i \in DOMAIN items :
           /\ i \in DOMAIN items' /\ items'[i].order = items[i].order
           /\ items'[i].status = "DUPLICATE" => items[i].status = "DUPLICATE" \/ HasImport(items[i].order)
    /\ \A order : HasImport(order) => HasImport(order)'

LEMMA CoveredStays == ASSUME ImportsGrow, NEW order, Covered(order) PROVE Covered(order)'
BY DEF ImportsGrow, Covered

LEMMA SmallestNumber ==
    ASSUME NEW S \in SUBSET Nat, S # {}
    PROVE  \E n \in S : \A m \in S : n <= m
<1>1. \A m, n \in Nat : <<m, n>> \in OpToRel(<, Nat) <=> m < n
    BY DEF OpToRel
<1>2. PICK n \in S : \A m \in S : <<m, n>> \notin OpToRel(<, Nat)
    BY NatLessThanWellFounded, WFMin
<1>3. \A m \in S : ~(m < n)
    BY <1>1, <1>2
<1> QED BY <1>3

\* The item in hand is one of those the call has listed.
LEMMA CurrentIsListed ==
    ASSUME ItemsTyped, NEW w, work[w].listed \in SUBSET DOMAIN items, work[w].listed # {}
    PROVE  Current(w) \in work[w].listed /\ Current(w) \in DOMAIN items
<1>1. work[w].listed \in SUBSET Nat
    BY ListIsIndexed DEF ItemsTyped
<1>2. PICK i \in work[w].listed : \A k \in work[w].listed : i <= k
    BY <1>1, SmallestNumber
<1> QED BY <1>2 DEF Current

\* A step of others leaves what a call has found as it is.
LEMMA SoundCallsStay ==
    ASSUME ItemsTyped, ImportsGrow, NEW w \in Workers, CallIsSound(w), work'[w] = work[w]
    PROVE  CallIsSound(w)'
<1>1. Current(w)' = Current(w)
    BY DEF Current
<1>2. PICK order : order = OrderIn[Head(work[w].todo)]
    OBVIOUS
<1>3. FoundIsCovered(w)'
    BY <1>2, CoveredStays DEF CallIsSound, FoundIsCovered, At, Covered
<1>4. /\ work'[w].listed \in SUBSET DOMAIN items'
      /\ work'[w].pc \in {"MARK_DUPLICATE", "IMPORT", "MARK_IMPORTED"} => work'[w].listed # {}
    BY DEF CallIsSound, ListIsThere, ImportsGrow
<1>5. ConvertsAnOriginal(w)'
    BY DEF CallIsSound, ConvertsAnOriginal, ImportsGrow
<1>6. At(w, "MARK_DUPLICATE")' => HasImport(items[Current(w)].order)'
  <2>1. PICK i, o : i = Current(w) /\ o = items[Current(w)].order
      OBVIOUS
  <2>2. At(w, "MARK_DUPLICATE") => HasImport(o)'
      BY <2>1 DEF CallIsSound, ListIsThere, ImportsGrow
  <2>3. At(w, "MARK_DUPLICATE") => i \in DOMAIN items
      BY <2>1, CurrentIsListed DEF CallIsSound, ListIsThere, At
  <2>4. At(w, "MARK_DUPLICATE") => items'[i].order = o
      BY <2>1, <2>3 DEF ImportsGrow
  <2> QED BY <1>1, <2>1, <2>2, <2>4 DEF At
<1> QED BY <1>3, <1>4, <1>5, <1>6 DEF CallIsSound, ListIsThere

\* A step of one call.
LEMMA CallStepKeepsInv ==
    ASSUME PlatformInv, NEW w \in Workers, \A v \in Workers : v # w => work'[v] = work[v],
           ItemsTyped', ImportsTyped', WorkTyped', ImportsGrow, CallIsSound(w)',
           \A i \in DOMAIN items' : i \notin DOMAIN items =>
               items'[i].order = Null \/ items'[i].status # "DUPLICATE" \/ Covered(items'[i].order)
    PROVE  PlatformInv'
<1>1. \A v \in Workers : CallIsSound(v)'
    BY SoundCallsStay DEF PlatformInv
<1>2. DuplicatesHaveAnOriginal'
  <2> SUFFICES ASSUME NEW i \in DOMAIN items', items'[i].order # Null, items'[i].status = "DUPLICATE"
               PROVE  Covered(items[i].order)'
      BY DEF DuplicatesHaveAnOriginal, Covered
  <2>1. PICK order : order = items'[i].order
      OBVIOUS
  <2>2. Covered(order)
      BY <2>1 DEF PlatformInv, DuplicatesHaveAnOriginal, Covered, ImportsGrow
  <2>3. Covered(order)'
      BY <2>2, CoveredStays
  <2> QED BY <2>1, <2>3 DEF Covered
<1> QED BY <1>1, <1>2 DEF PlatformInv

LEMMA CallMoves ==
    ASSUME WorkTyped, NEW w \in Workers, NEW call, IsWork(call), work' = [work EXCEPT ![w] = call]
    PROVE  WorkTyped' /\ work'[w] = call /\ \A v \in Workers : v # w => work'[v] = work[v]
<1>1. /\ work' = [v \in Workers |-> work'[v]] /\ work'[w] = call
      /\ \A v \in Workers : v # w => work'[v] = work[v]
    BY DEF WorkTyped
<1>2. \A v \in Workers : IsWork(work'[v])
    BY <1>1 DEF WorkTyped
<1> QED BY <1>1, <1>2 DEF WorkTyped, IsWork

\* A step that writes neither items nor imports.
LEMMA TablesStay ==
    ASSUME PlatformInv, UNCHANGED <<items, imports>>
    PROVE  ItemsTyped' /\ ImportsTyped' /\ ImportsGrow
BY DEF PlatformInv, ItemsTyped, ImportsTyped, ImportsGrow, HasImport, IsItem, IsImport

\* A call goes on to where it neither writes a duplicate nor goes through items nor converts one.
Idling(call) ==
    /\ call.pc \notin {"CREATE", "MARK_DUPLICATE", "IMPORT", "MARK_IMPORTED",
                     "ORDER", "ORDER_IMPORT", "WRITE_IMPORT", "ITEM"}
    /\ call.listed \in SUBSET DOMAIN items

LEMMA IdlingIsSound ==
    ASSUME NEW w \in Workers, Idling(work'[w]), DOMAIN items' = DOMAIN items
    PROVE  CallIsSound(w)'
BY DEF Idling, CallIsSound, FoundIsCovered, ListIsThere, ConvertsAnOriginal, At

LEMMA IdlingKeepsInv ==
    ASSUME PlatformInv, NEW w \in Workers, NEW call, IsWork(call), Idling(call),
           work' = [work EXCEPT ![w] = call], UNCHANGED <<items, imports>>
    PROVE  PlatformInv'
<1>1. WorkTyped' /\ work'[w] = call /\ \A v \in Workers : v # w => work'[v] = work[v]
    BY CallMoves DEF PlatformInv
<1>2. CallIsSound(w)'
    BY <1>1, IdlingIsSound
<1> QED BY <1>1, <1>2, TablesStay, CallStepKeepsInv

\* The steps that neither import an order nor change what an item is.
LEMMA QuietStepKeepsImports ==
    ASSUME PlatformInv, NEW w \in Workers,
           \/ RefreshJob(w) \/ EventStaged(w) \/ CancelJob(w) \/ StartRun(w) \/ FinishRun(w)
           \/ Fetch(w) \/ FailRead(w) \/ FinishItems(w) \/ FindCursor(w) \/ WriteCursor(w)
           \/ RecordConversion(w) \/ Fail(w) \/ EndCall(w) \/ ListItems(w)
    PROVE  PlatformInv'
<1>1. IsWork(work[w]) /\ work[w].listed \in SUBSET DOMAIN items
    BY DEF PlatformInv, WorkTyped, CallIsSound, ListIsThere
<1>2. UNCHANGED <<items, imports>>
    BY DEF RefreshJob, EventStaged, CancelJob, StartRun, FinishRun, Fetch, FailRead, FinishItems, FindCursor,
           WriteCursor, RecordConversion, Fail, EndCall, ListItems
<1>3. CASE Done(w)
  <2>1. IsWork(NoCall) /\ Idling(NoCall)
      BY DEF IsWork, NoCall, Idling
  <2> QED BY <1>2, <1>3, <2>1, IdlingKeepsInv DEF Done
<1>4. ASSUME NEW pc \in {"STAGED", "FETCH", "LIST", "FINISH", "FIND_CURSOR", "READ_FAILED"}, Goto(w, pc)
      PROVE  PlatformInv'
  <2>1. PICK call : call = [work[w] EXCEPT !.pc = pc]
      OBVIOUS
  <2>2. IsWork(call) /\ Idling(call)
      BY <1>1, <2>1 DEF IsWork, Idling
  <2>3. work' = [work EXCEPT ![w] = call]
      BY <1>4, <2>1 DEF Goto
  <2> QED BY <1>2, <2>2, <2>3, IdlingKeepsInv
<1>5. CASE Fetch(w)
  <2>1. PICK todo, more, next : work' = [work EXCEPT ![w].pc = "CHECK", ![w].todo = todo, ![w].more = more,
                                                     ![w].next = next]
      BY <1>5 DEF Fetch
  <2>2. PICK call : call = [work[w] EXCEPT !.pc = "CHECK", !.todo = todo, !.more = more, !.next = next]
      OBVIOUS
  <2>3. IsWork(call) /\ Idling(call)
      BY <1>1, <2>2 DEF IsWork, Idling
  <2>4. work' = [work EXCEPT ![w] = call]
      BY <2>1, <2>2
  <2> QED BY <1>2, <2>3, <2>4, IdlingKeepsInv
<1>6. CASE FailRead(w)
  <2>1. PICK next : work' = [work EXCEPT ![w].pc = "FIND_CURSOR", ![w].next = next, ![w].more = FALSE,
                                         ![w].found = TRUE]
      BY <1>6 DEF FailRead
  <2>2. PICK call : call = [work[w] EXCEPT !.pc = "FIND_CURSOR", !.next = next, !.more = FALSE, !.found = TRUE]
      OBVIOUS
  <2>3. IsWork(call) /\ Idling(call)
      BY <1>1, <2>2 DEF IsWork, Idling
  <2>4. work' = [work EXCEPT ![w] = call]
      BY <2>1, <2>2
  <2> QED BY <1>2, <2>3, <2>4, IdlingKeepsInv
<1>7. CASE FindCursor(w)
  <2>1. PICK call : call = [work[w] EXCEPT !.pc = "WRITE_CURSOR", !.at = latest]
      OBVIOUS
  <2>2. IsWork(call) /\ Idling(call)
      BY <1>1, <2>1 DEF IsWork, Idling
  <2>3. work' = [work EXCEPT ![w] = call]
      BY <1>7, <2>1 DEF FindCursor
  <2> QED BY <1>2, <2>2, <2>3, IdlingKeepsInv
<1>8. CASE ListItems(w)
  <2>1. PICK listed : /\ listed = {i \in JobItems(work[w].job) : items[i].status = "MAPPED"}
                      /\ work' = [work EXCEPT ![w].pc = "LOOKUP", ![w].listed = listed]
      BY <1>8 DEF ListItems
  <2>2. listed \in SUBSET DOMAIN items
      BY <2>1 DEF JobItems
  <2>3. PICK call : call = [work[w] EXCEPT !.pc = "LOOKUP", !.listed = listed]
      OBVIOUS
  <2>4. IsWork(call) /\ Idling(call)
      BY <1>1, <2>2, <2>3 DEF IsWork, Idling
  <2>5. work' = [work EXCEPT ![w] = call]
      BY <2>1, <2>3
  <2> QED BY <1>2, <2>4, <2>5, IdlingKeepsInv
<1>9. CASE StartRun(w)
  <2>1. PICK pc \in {"FETCH", "LIST", "FINISH"} : Goto(w, pc)
      BY <1>9 DEF StartRun
  <2> QED BY <1>4, <2>1
<1> QED BY <1>3, <1>4, <1>5, <1>6, <1>7, <1>8, <1>9
        DEF RefreshJob, EventStaged, CancelJob, FinishRun, FinishItems, WriteCursor, RecordConversion, Fail, EndCall

\* The beginnings of the calls.
LEMMA NewCallsKeepImports ==
    ASSUME PlatformInv, NEW w \in Workers,
           \/ \E mode, payloads : CreateJob(w, mode, payloads)
           \/ \E e : StageEvent(w, e)
           \/ \E j : CheckCancel(w, j) \/ CheckRun(w, j)
           \/ \E c : ContinueCursor(w, c)
    PROVE  PlatformInv'
<1>1. UNCHANGED <<items, imports>>
    BY DEF CreateJob, StageEvent, CheckCancel, CheckRun, ContinueCursor
<1>2. CASE work' = work
  <2>1. \A v \in Workers : work'[v] = work[v]
      BY <1>2
  <2>2. WorkTyped'
      BY <1>2 DEF PlatformInv, WorkTyped, IsWork
  <2> QED BY <1>1, <2>1, <2>2, TablesStay, SoundCallsStay, CallStepKeepsInv DEF PlatformInv
<1>3. ASSUME NEW job, NEW pc \in {"CANCEL", "RUN"}, NEW call, call = [NoCall EXCEPT !.pc = pc, !.job = job]
      PROVE  IsWork(call) /\ Idling(call)
    BY <1>3 DEF NoCall, IsWork, Idling
<1>4. ASSUME NEW call, IsWork(call) /\ Idling(call), work' = [work EXCEPT ![w] = call] PROVE PlatformInv'
    BY <1>1, <1>4, IdlingKeepsInv
<1>5. ASSUME NEW mode, NEW payloads, CreateJob(w, mode, payloads), mode # "READ" PROVE PlatformInv'
  <2>1. PICK call : call = [NoCall EXCEPT !.pc = "CHECK", !.job = Len(jobs) + 1, !.todo = payloads]
      OBVIOUS
  <2>2. IsWork(call) /\ Idling(call)
      BY <2>1 DEF NoCall, IsWork, Idling
  <2>3. work' = [work EXCEPT ![w] = call]
      BY <1>5, <2>1 DEF CreateJob
  <2> QED BY <1>4, <2>2, <2>3
<1>6. ASSUME NEW mode, NEW payloads, CreateJob(w, mode, payloads), mode = "READ" PROVE PlatformInv'
    BY <1>2, <1>6 DEF CreateJob
<1>7. ASSUME NEW e, StageEvent(w, e) PROVE PlatformInv'
  <2>1. PICK call : call = [NoCall EXCEPT !.pc = "CHECK", !.job = Len(jobs) + 1, !.todo = <<EventPayload[e]>>,
                                          !.event = e]
      OBVIOUS
  <2>2. IsWork(call) /\ Idling(call)
      BY <2>1 DEF NoCall, IsWork, Idling
  <2>3. work' = [work EXCEPT ![w] = call]
      BY <1>7, <2>1 DEF StageEvent
  <2> QED BY <1>4, <2>2, <2>3
<1>8. ASSUME NEW j, NEW pc \in {"CANCEL", "RUN"}, work' = [work EXCEPT ![w] = [NoCall EXCEPT !.pc = pc, !.job = j]]
      PROVE  PlatformInv'
  <2>1. PICK call : call = [NoCall EXCEPT !.pc = pc, !.job = j]
      OBVIOUS
  <2> QED BY <1>3, <1>4, <1>8, <2>1
<1>9. ASSUME NEW j, CheckCancel(w, j) \/ CheckRun(w, j) PROVE PlatformInv'
    BY <1>8, <1>9 DEF CheckCancel, CheckRun
<1>10. ASSUME NEW c, ContinueCursor(w, c) PROVE PlatformInv'
    BY <1>8, <1>10 DEF ContinueCursor
<1> QED BY <1>5, <1>6, <1>7, <1>9, <1>10

LEMMA CheckItemKeepsInv == ASSUME PlatformInv, NEW w \in Workers, CheckItem(w) PROVE PlatformInv'
<1>1. IsWork(work[w]) /\ work[w].listed \in SUBSET DOMAIN items
    BY DEF PlatformInv, WorkTyped, CallIsSound, ListIsThere
<1>2. PICK order, found : /\ order = OrderIn[Head(work[w].todo)]
                          /\ found = (order # Null /\ KnownElsewhere(work[w].job, order))
    OBVIOUS
<1>3. PICK call : call = [work[w] EXCEPT !.pc = "CREATE", !.found = found]
    OBVIOUS
<1>4. /\ IsWork(call) /\ call.pc = "CREATE" /\ call.found = found /\ call.todo = work[w].todo
      /\ call.listed = work[w].listed
    BY <1>1, <1>3 DEF IsWork
<1>5. work' = [work EXCEPT ![w] = call] /\ UNCHANGED <<items, imports>>
    BY <1>2, <1>3 DEF CheckItem
<1>6. WorkTyped' /\ work'[w] = call /\ \A v \in Workers : v # w => work'[v] = work[v]
    BY <1>4, <1>5, CallMoves DEF PlatformInv
<1>7. found => Covered(order)
    BY <1>2 DEF KnownElsewhere, PlatformInv, DuplicatesHaveAnOriginal, Covered
<1>8. FoundIsCovered(w)'
    BY <1>2, <1>4, <1>5, <1>6, <1>7 DEF FoundIsCovered, At, Covered, HasImport
<1>9. CallIsSound(w)'
    BY <1>1, <1>4, <1>5, <1>6, <1>8 DEF CallIsSound, ListIsThere, ConvertsAnOriginal, At
<1> QED BY <1>5, <1>6, <1>9, TablesStay, CallStepKeepsInv

\* An item is created.
LEMMA CreateItemKeepsInv == ASSUME PlatformInv, NEW w \in Workers, CreateItem(w) PROVE PlatformInv'
<1>1. IsWork(work[w]) /\ work[w].listed \in SUBSET DOMAIN items /\ At(w, "CREATE")
    BY DEF PlatformInv, WorkTyped, CallIsSound, ListIsThere, CreateItem
<1>2. PICK item : item = NewItem(w)
    OBVIOUS
<1>3. IsItem(item) /\ (item.order = Null \/ item.status # "DUPLICATE" \/ Covered(item.order))
  <2>1. work[w].found => Covered(OrderIn[Head(work[w].todo)])
      BY <1>1 DEF PlatformInv, CallIsSound, FoundIsCovered
  <2> QED BY <1>2, <2>1 DEF NewItem, IsItem
<1>4. /\ items' = Append(items, item) /\ IsList(items)
      /\ \A i \in DOMAIN items : IsItem(items[i])
    BY <1>2 DEF CreateItem, PlatformInv, ItemsTyped
<1>5. /\ IsList(items') /\ \A i \in DOMAIN items : i \in DOMAIN items' /\ items'[i] = items[i]
      /\ \A i \in DOMAIN items' : i \notin DOMAIN items => items'[i] = item
    BY <1>4, ListGrows
<1>6. ItemsTyped'
    BY <1>3, <1>4, <1>5 DEF ItemsTyped, IsItem
<1>7. ImportsTyped' /\ ImportsGrow
    BY <1>5 DEF CreateItem, PlatformInv, ImportsTyped, IsImport, ImportsGrow, HasImport
<1>8. PICK call : call = [work[w] EXCEPT !.pc = "CHECK", !.todo = Tail(work[w].todo),
                                         !.seen = work[w].seen \union {Head(work[w].todo)}, !.found = FALSE]
    OBVIOUS
<1>9. IsWork(call) /\ Idling(call) /\ call.listed \in SUBSET DOMAIN items /\ call.pc = "CHECK"
    BY <1>1, <1>8 DEF IsWork, Idling
<1>10. work' = [work EXCEPT ![w] = call]
    BY <1>8 DEF CreateItem
<1>11. WorkTyped' /\ work'[w] = call /\ \A v \in Workers : v # w => work'[v] = work[v]
    BY <1>9, <1>10, CallMoves DEF PlatformInv
<1>12. CallIsSound(w)'
    BY <1>5, <1>9, <1>11 DEF CallIsSound, FoundIsCovered, ListIsThere, ConvertsAnOriginal, At
<1>13. \A i \in DOMAIN items' : i \notin DOMAIN items =>
           items'[i].order = Null \/ items'[i].status # "DUPLICATE" \/ Covered(items'[i].order)
    BY <1>3, <1>5
<1> QED BY <1>6, <1>7, <1>11, <1>12, <1>13, CallStepKeepsInv

LEMMA LookUpImportKeepsInv == ASSUME PlatformInv, NEW w \in Workers, LookUpImport(w) PROVE PlatformInv'
<1>1. IsWork(work[w]) /\ work[w].listed \in SUBSET DOMAIN items /\ work[w].listed # {}
    BY DEF PlatformInv, WorkTyped, CallIsSound, ListIsThere, LookUpImport
<1>2. PICK pc : pc = IF HasImport(items[Current(w)].order) THEN "MARK_DUPLICATE" ELSE "IMPORT"
    OBVIOUS
<1>3. PICK call : call = [work[w] EXCEPT !.pc = pc]
    OBVIOUS
<1>4. IsWork(call) /\ call.pc = pc /\ call.listed = work[w].listed
    BY <1>1, <1>3 DEF IsWork
<1>5. work' = [work EXCEPT ![w] = call] /\ UNCHANGED <<items, imports>>
    BY <1>2, <1>3 DEF LookUpImport, Goto
<1>6. WorkTyped' /\ work'[w] = call /\ \A v \in Workers : v # w => work'[v] = work[v]
    BY <1>4, <1>5, CallMoves DEF PlatformInv
<1>7. Current(w)' = Current(w)
    BY <1>4, <1>6 DEF Current
<1>8. pc = "MARK_DUPLICATE" => HasImport(items[Current(w)].order)'
    BY <1>2, <1>5, <1>7 DEF HasImport
<1>9. CallIsSound(w)'
    BY <1>1, <1>2, <1>4, <1>5, <1>6, <1>8 DEF CallIsSound, FoundIsCovered, ListIsThere, ConvertsAnOriginal, At
<1> QED BY <1>5, <1>6, <1>9, TablesStay, CallStepKeepsInv

\* The item a call has come to gets another status.
LEMMA NextListedKeepsInv ==
    ASSUME PlatformInv, NEW w \in Workers, work[w].listed # {}, NextListed(w), UNCHANGED imports,
           NEW item, IsItem(item), item.order = items[Current(w)].order,
           item.status = "DUPLICATE" => HasImport(items[Current(w)].order),
           items' = [items EXCEPT ![Current(w)] = item]
    PROVE  PlatformInv'
<1>1. IsWork(work[w]) /\ work[w].listed \in SUBSET DOMAIN items
    BY DEF PlatformInv, WorkTyped, CallIsSound, ListIsThere
<1>2. PICK i \in DOMAIN items : i = Current(w)
    BY <1>1, CurrentIsListed DEF PlatformInv
<1>3. IsList(items) /\ \A k \in DOMAIN items : IsItem(items[k])
    BY DEF PlatformInv, ItemsTyped
<1>4. /\ IsList(items') /\ DOMAIN items' = DOMAIN items /\ items'[i] = item
      /\ \A k \in DOMAIN items : k # i => items'[k] = items[k]
    BY <1>2, <1>3, ListIsRewritten
<1>5. ItemsTyped'
    BY <1>3, <1>4 DEF ItemsTyped, IsItem
<1>6. ImportsTyped' /\ ImportsGrow
    BY <1>2, <1>4 DEF PlatformInv, ImportsTyped, IsImport, ImportsGrow, HasImport
<1>7. PICK call : call = [work[w] EXCEPT !.pc = "LOOKUP", !.listed = work[w].listed \ {Current(w)}]
    OBVIOUS
<1>8. IsWork(call) /\ Idling(call)
    BY <1>1, <1>7 DEF IsWork, Idling
<1>9. work' = [work EXCEPT ![w] = call]
    BY <1>7 DEF NextListed
<1>10. WorkTyped' /\ work'[w] = call /\ \A v \in Workers : v # w => work'[v] = work[v]
    BY <1>8, <1>9, CallMoves DEF PlatformInv
<1>11. CallIsSound(w)'
    BY <1>4, <1>8, <1>10, IdlingIsSound
<1> QED BY <1>4, <1>5, <1>6, <1>10, <1>11, CallStepKeepsInv

\* An item is marked a duplicate only when an import of its order is known.
LEMMA MarkingKeepsInv ==
    ASSUME PlatformInv, NEW w \in Workers, MarkDuplicate(w) \/ MarkImported(w)
    PROVE  PlatformInv'
<1>1. work[w].listed # {} /\ NextListed(w) /\ UNCHANGED imports
    BY DEF MarkDuplicate, MarkImported, PlatformInv, CallIsSound, ListIsThere, At
<1>2. IsItem(items[Current(w)])
    BY <1>1, CurrentIsListed DEF PlatformInv, ItemsTyped, CallIsSound, ListIsThere
<1>3. CASE MarkDuplicate(w)
  <2>1. PICK item : item = [items[Current(w)] EXCEPT !.status = "DUPLICATE", !.error = TRUE]
      OBVIOUS
  <2>2. IsItem(item) /\ item.order = items[Current(w)].order
      BY <1>2, <2>1 DEF IsItem
  <2>3. items' = [items EXCEPT ![Current(w)] = item]
      BY <1>3, <2>1 DEF MarkDuplicate
  <2>4. HasImport(items[Current(w)].order)
      BY <1>3 DEF MarkDuplicate, PlatformInv, CallIsSound, ListIsThere
  <2> QED BY <1>1, <2>2, <2>3, <2>4, NextListedKeepsInv
<1>4. CASE MarkImported(w)
  <2>1. PICK item : item = [items[Current(w)] EXCEPT !.status = "IMPORTED", !.error = FALSE]
      OBVIOUS
  <2>2. IsItem(item) /\ item.order = items[Current(w)].order /\ item.status = "IMPORTED"
      BY <1>2, <2>1 DEF IsItem
  <2>3. items' = [items EXCEPT ![Current(w)] = item]
      BY <1>4, <2>1 DEF MarkImported
  <2> QED BY <1>1, <2>2, <2>3, NextListedKeepsInv
<1> QED BY <1>3, <1>4

\* An import is added or changed; a call goes on to write or to convert its item.
LEMMA ImportGrowsByRow ==
    ASSUME PlatformInv, UNCHANGED items, NEW row, IsImport(row),
           \/ imports' = Append(imports, row)
           \/ \E i \in DOMAIN imports : row.order = imports[i].order /\ imports' = [imports EXCEPT ![i] = row]
    PROVE  ItemsTyped' /\ ImportsTyped' /\ ImportsGrow
<1>1. IsList(imports) /\ \A k \in DOMAIN imports : IsImport(imports[k])
    BY DEF PlatformInv, ImportsTyped
<1>2. /\ IsList(imports') /\ \A k \in DOMAIN imports' : IsImport(imports'[k])
      /\ \A k \in DOMAIN imports : k \in DOMAIN imports' /\ imports'[k].order = imports[k].order
  <2>1. CASE imports' = Append(imports, row)
    <3>1. /\ IsList(imports') /\ \A k \in DOMAIN imports : k \in DOMAIN imports' /\ imports'[k] = imports[k]
          /\ \A k \in DOMAIN imports' : k \notin DOMAIN imports => imports'[k] = row
        BY <1>1, <2>1, ListGrows
    <3> QED BY <1>1, <3>1
  <2>2. ASSUME NEW i \in DOMAIN imports, row.order = imports[i].order, imports' = [imports EXCEPT ![i] = row]
        PROVE  /\ IsList(imports') /\ \A k \in DOMAIN imports' : IsImport(imports'[k])
               /\ \A k \in DOMAIN imports : k \in DOMAIN imports' /\ imports'[k].order = imports[k].order
    <3>1. /\ IsList(imports') /\ DOMAIN imports' = DOMAIN imports /\ imports'[i] = row
          /\ \A k \in DOMAIN imports : k # i => imports'[k] = imports[k]
        BY <1>1, <2>2, ListIsRewritten
    <3> QED BY <1>1, <2>2, <3>1
  <2> QED BY <2>1, <2>2
<1>3. ImportsTyped'
    BY <1>2 DEF ImportsTyped, IsImport
<1>4. \A order : HasImport(order) => HasImport(order)'
    BY <1>2 DEF HasImport
<1>5. ItemsTyped'
    BY DEF PlatformInv, ItemsTyped, IsItem
<1> QED BY <1>3, <1>4, <1>5 DEF ImportsGrow

LEMMA WritingStepKeepsInv ==
    ASSUME PlatformInv, NEW w \in Workers, UNCHANGED items, ItemsTyped', ImportsTyped', ImportsGrow,
           NEW pc, Goto(w, pc),
           \/ pc = "MARK_IMPORTED" /\ work[w].listed # {}
           \/ pc \in {"ORDER_IMPORT", "ITEM"} /\ work[w].pc \in {"ORDER", "WRITE_IMPORT"}
    PROVE  PlatformInv'
<1>1. /\ IsWork(work[w]) /\ work[w].listed \in SUBSET DOMAIN items
      /\ pc # "MARK_IMPORTED" => work[w].at \in DOMAIN items /\ work[w].item.status # "DUPLICATE"
    BY DEF PlatformInv, WorkTyped, CallIsSound, ListIsThere, ConvertsAnOriginal
<1>2. PICK call : call = [work[w] EXCEPT !.pc = pc]
    OBVIOUS
<1>3. /\ IsWork(call) /\ call.pc = pc /\ call.listed = work[w].listed
      /\ call.at = work[w].at /\ call.item = work[w].item
    BY <1>1, <1>2 DEF IsWork
<1>4. work' = [work EXCEPT ![w] = call]
    BY <1>2 DEF Goto
<1>5. WorkTyped' /\ work'[w] = call /\ \A v \in Workers : v # w => work'[v] = work[v]
    BY <1>3, <1>4, CallMoves DEF PlatformInv
<1>6. CallIsSound(w)'
    BY <1>1, <1>3, <1>5 DEF CallIsSound, FoundIsCovered, ListIsThere, ConvertsAnOriginal, At
<1> QED BY <1>5, <1>6, CallStepKeepsInv

LEMMA ImportOrderKeepsInv == ASSUME PlatformInv, NEW w \in Workers, ImportOrder(w) PROVE PlatformInv'
<1>1. PICK row : row = [order |-> items[Current(w)].order, converted |-> FALSE]
    OBVIOUS
<1>2. IsImport(row) /\ imports' = Append(imports, row) /\ UNCHANGED items
    BY <1>1 DEF IsImport, ImportOrder
<1>3. work[w].listed # {} /\ Goto(w, "MARK_IMPORTED")
    BY DEF ImportOrder, PlatformInv, CallIsSound, ListIsThere, At
<1> QED BY <1>2, <1>3, ImportGrowsByRow, WritingStepKeepsInv

LEMMA ConvertOrderKeepsInv == ASSUME PlatformInv, NEW w \in Workers, ConvertOrder(w) PROVE PlatformInv'
<1>1. UNCHANGED <<items, imports>> /\ work[w].pc = "ORDER"
    BY DEF ConvertOrder, At
<1>2. CASE Goto(w, "ORDER_IMPORT")
    BY <1>1, <1>2, TablesStay, WritingStepKeepsInv
<1>3. CASE Done(w)
  <2>1. IsWork(NoCall) /\ Idling(NoCall)
      BY DEF IsWork, NoCall, Idling
  <2> QED BY <1>1, <1>3, <2>1, IdlingKeepsInv DEF Done
<1> QED BY <1>2, <1>3 DEF ConvertOrder

LEMMA FindImportKeepsInv == ASSUME PlatformInv, NEW w \in Workers, FindImport(w) PROVE PlatformInv'
<1>1. PICK pos : work' = [work EXCEPT ![w].pc = "WRITE_IMPORT", ![w].next = pos]
    BY DEF FindImport
<1>2. UNCHANGED <<items, imports>> /\ work[w].pc = "ORDER_IMPORT"
    BY DEF FindImport, At
<1>3. /\ IsWork(work[w]) /\ work[w].listed \in SUBSET DOMAIN items
      /\ work[w].at \in DOMAIN items /\ work[w].item.status # "DUPLICATE"
    BY <1>2 DEF PlatformInv, WorkTyped, CallIsSound, ListIsThere, ConvertsAnOriginal
<1>4. PICK call : call = [work[w] EXCEPT !.pc = "WRITE_IMPORT", !.next = pos]
    OBVIOUS
<1>5. /\ IsWork(call) /\ call.pc = "WRITE_IMPORT" /\ call.listed = work[w].listed
      /\ call.at = work[w].at /\ call.item = work[w].item
    BY <1>3, <1>4 DEF IsWork
<1>6. work' = [work EXCEPT ![w] = call]
    BY <1>1, <1>4
<1>7. WorkTyped' /\ work'[w] = call /\ \A v \in Workers : v # w => work'[v] = work[v]
    BY <1>5, <1>6, CallMoves DEF PlatformInv
<1>8. CallIsSound(w)'
    BY <1>2, <1>3, <1>5, <1>7 DEF CallIsSound, FoundIsCovered, ListIsThere, ConvertsAnOriginal, At
<1> QED BY <1>2, <1>7, <1>8, TablesStay, CallStepKeepsInv

\* A second import may be created, and the one that was found is only marked: no order loses its import.
LEMMA WriteImportKeepsInv == ASSUME PlatformInv, NEW w \in Workers, WriteImport(w) PROVE PlatformInv'
<1>1. UNCHANGED items /\ work[w].pc = "WRITE_IMPORT" /\ Goto(w, "ITEM")
    BY DEF WriteImport, At
<1>2. PICK pos : pos = work[w].next
    OBVIOUS
<1>3. CASE pos = 0
  <2>1. PICK row : row = [order |-> work[w].item.order, converted |-> TRUE]
      OBVIOUS
  <2>2. IsImport(row) /\ imports' = Append(imports, row)
      BY <1>2, <1>3, <2>1 DEF IsImport, WriteImport
  <2> QED BY <1>1, <2>2, ImportGrowsByRow, WritingStepKeepsInv
<1>4. CASE pos # 0 /\ pos \in DOMAIN imports
  <2>1. PICK row : row = [imports[pos] EXCEPT !.converted = TRUE]
      OBVIOUS
  <2>2. IsImport(imports[pos])
      BY <1>4 DEF PlatformInv, ImportsTyped
  <2>3. IsImport(row) /\ row.order = imports[pos].order
      BY <2>1, <2>2 DEF IsImport
  <2>4. imports' = [imports EXCEPT ![pos] = row]
      BY <1>2, <1>4, <2>1 DEF WriteImport
  <2> QED BY <1>1, <1>4, <2>3, <2>4, ImportGrowsByRow, WritingStepKeepsInv
<1>5. CASE pos # 0 /\ pos \notin DOMAIN imports
  <2>1. imports' = [imports EXCEPT ![pos].converted = TRUE]
      BY <1>2, <1>5 DEF WriteImport
  <2>2. imports = [i \in DOMAIN imports |-> imports[i]]
      BY DEF PlatformInv, ImportsTyped, IsList
  <2>3. UNCHANGED imports
      BY <1>5, <2>1, <2>2
  <2> QED BY <1>1, <2>3, TablesStay, WritingStepKeepsInv
<1> QED BY <1>3, <1>4, <1>5

LEMMA CheckConvertKeepsInv ==
    ASSUME PlatformInv, NEW w \in Workers, NEW i \in DOMAIN items, CheckConvert(w, i)
    PROVE  PlatformInv'
<1>1. PICK call : call = [NoCall EXCEPT !.pc = "ORDER", !.at = i, !.item = items[i]]
    OBVIOUS
<1>2. /\ IsWork(call) /\ call.pc = "ORDER" /\ call.listed = {} /\ call.at = i /\ call.item = items[i]
    BY <1>1 DEF NoCall, IsWork
<1>3. work' = [work EXCEPT ![w] = call] /\ UNCHANGED <<items, imports>> /\ items[i].status # "DUPLICATE"
    BY <1>1 DEF CheckConvert, Convertible
<1>4. WorkTyped' /\ work'[w] = call /\ \A v \in Workers : v # w => work'[v] = work[v]
    BY <1>2, <1>3, CallMoves DEF PlatformInv
<1>5. CallIsSound(w)'
    BY <1>2, <1>3, <1>4 DEF CallIsSound, FoundIsCovered, ListIsThere, ConvertsAnOriginal, At
<1> QED BY <1>3, <1>4, <1>5, TablesStay, CallStepKeepsInv

LEMMA UpdateItemKeepsInv == ASSUME PlatformInv, NEW w \in Workers, UpdateItem(w) PROVE PlatformInv'
<1>1. PICK i \in DOMAIN items : i = work[w].at /\ work[w].item.status # "DUPLICATE"
    BY DEF UpdateItem, At, PlatformInv, CallIsSound, ConvertsAnOriginal
<1>2. PICK status : status = IF work[w].item.status = "MAPPED" THEN "IMPORTED" ELSE work[w].item.status
    OBVIOUS
<1>3. PICK item : item = [items[i] EXCEPT !.converted = TRUE, !.status = status]
    OBVIOUS
<1>4. /\ IsList(items) /\ IsItem(items[i])
      /\ \A k \in DOMAIN items : IsItem(items[k])
    BY DEF PlatformInv, ItemsTyped
<1>5. IsItem(item) /\ item.order = items[i].order /\ item.status # "DUPLICATE"
    BY <1>1, <1>2, <1>3, <1>4 DEF IsItem
<1>6. items' = [items EXCEPT ![i] = item] /\ UNCHANGED imports /\ Goto(w, "CONVERSION")
    BY <1>1, <1>2, <1>3 DEF UpdateItem
<1>7. /\ IsList(items') /\ DOMAIN items' = DOMAIN items /\ items'[i] = item
      /\ \A k \in DOMAIN items : k # i => items'[k] = items[k]
    BY <1>4, <1>6, ListIsRewritten
<1>8. ItemsTyped'
    BY <1>4, <1>5, <1>7 DEF ItemsTyped, IsItem
<1>9. ImportsTyped' /\ ImportsGrow
    BY <1>5, <1>6, <1>7 DEF PlatformInv, ImportsTyped, IsImport, ImportsGrow, HasImport
<1>10. PICK call : call = [work[w] EXCEPT !.pc = "CONVERSION"]
    OBVIOUS
<1>11. IsWork(call) /\ Idling(call)
    BY <1>10 DEF IsWork, Idling, PlatformInv, WorkTyped, CallIsSound, ListIsThere
<1>12. work' = [work EXCEPT ![w] = call]
    BY <1>6, <1>10 DEF Goto
<1>13. WorkTyped' /\ work'[w] = call /\ \A v \in Workers : v # w => work'[v] = work[v]
    BY <1>11, <1>12, CallMoves DEF PlatformInv
<1>14. CallIsSound(w)'
    BY <1>7, <1>11, <1>13, IdlingIsSound
<1> QED BY <1>7, <1>8, <1>9, <1>13, <1>14, CallStepKeepsInv

LEMMA PlatformInvInit == PlatformInit => PlatformInv
<1> SUFFICES ASSUME PlatformInit PROVE PlatformInv
    OBVIOUS
<1>1. IsList(<<>>) /\ DOMAIN <<>> = {}
    BY DEF IsList
<1>2. ItemsTyped /\ ImportsTyped /\ DuplicatesHaveAnOriginal
    BY <1>1 DEF PlatformInit, ItemsTyped, ImportsTyped, DuplicatesHaveAnOriginal
<1>3. IsWork(NoCall) /\ Idling(NoCall)
    BY DEF NoCall, IsWork, Idling
<1>4. WorkTyped /\ \A w \in Workers : Idling(work[w])
    BY <1>3 DEF PlatformInit, WorkTyped
<1>5. \A w \in Workers : CallIsSound(w)
    BY <1>4 DEF Idling, CallIsSound, FoundIsCovered, ListIsThere, ConvertsAnOriginal, At
<1> QED BY <1>2, <1>4, <1>5 DEF PlatformInv

LEMMA PlatformInvNext == PlatformInv /\ [PlatformNext]_platformVars => PlatformInv'
<1> SUFFICES ASSUME PlatformInv, [PlatformNext]_platformVars PROVE PlatformInv'
    OBVIOUS
<1>1. ASSUME NEW w \in Workers, JobStep(w) \/ ReadStep(w) \/ ConvertStep(w) \/ Fail(w) \/ EndCall(w)
      PROVE  PlatformInv'
    BY <1>1, QuietStepKeepsImports, CheckItemKeepsInv, CreateItemKeepsInv, LookUpImportKeepsInv,
       MarkingKeepsInv, ImportOrderKeepsInv, ConvertOrderKeepsInv, FindImportKeepsInv, WriteImportKeepsInv,
       UpdateItemKeepsInv
       DEF JobStep, ReadStep, ConvertStep
<1>2. ASSUME NEW w \in Workers,
             \/ \E m \in JobModes, p \in Posted : CreateJob(w, m, p)
             \/ \E e \in Events : StageEvent(w, e)
             \/ \E j \in DOMAIN jobs : CheckCancel(w, j) \/ CheckRun(w, j)
             \/ \E c \in DOMAIN cursors : ContinueCursor(w, c)
      PROVE  PlatformInv'
    BY <1>2, NewCallsKeepImports
<1>3. CASE \E c \in DOMAIN cursors : ResetCursor(c)
  <2>1. UNCHANGED <<items, imports, work>>
      BY <1>3 DEF ResetCursor
  <2> QED BY <2>1, TablesStay, SoundCallsStay
          DEF PlatformInv, WorkTyped, IsWork, DuplicatesHaveAnOriginal, HasImport
<1>4. ASSUME NEW w \in Workers, NEW i \in DOMAIN items, CheckConvert(w, i) PROVE PlatformInv'
    BY <1>4, CheckConvertKeepsInv
<1>5. CASE UNCHANGED platformVars
  <2>1. UNCHANGED <<items, imports, work>>
      BY <1>5 DEF platformVars
  <2> QED BY <2>1, TablesStay, SoundCallsStay
          DEF PlatformInv, WorkTyped, IsWork, DuplicatesHaveAnOriginal, HasImport
<1> QED BY <1>1, <1>2, <1>3, <1>4, <1>5 DEF PlatformNext

\* Items and imports are rows of their tables, a call that is about to write a duplicate has seen
\* what it is a duplicate of, and a conversion is of an item that was none
\* (createMappedOrDuplicateItem, runPlatformImportJobFoundation, convertPlatformImportItem).
THEOREM PlatformInvariance == PlatformSpec => []PlatformInv
BY PlatformInvInit, PlatformInvNext, PTL DEF PlatformSpec

\* No order is lost to the search for duplicates (createMappedOrDuplicateItem).
THEOREM NoOrderIsLost == PlatformSpec => []DuplicatesHaveAnOriginal
<1>1. PlatformInv => DuplicatesHaveAnOriginal
    BY DEF PlatformInv
<1> QED BY <1>1, PlatformInvariance, PTL
===============================================================================
