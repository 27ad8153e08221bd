------------------------------- MODULE Checkout --------------------------------
(***************************************************************************)
(* The buyer's orders and payments (checkout-order.service.ts and          *)
(* checkout-payment.service.ts), the administrator's lifecycle             *)
(* (checkout-admin.service.ts) and the abandonment worker                  *)
(* (checkout-telemetry-abandonment.worker.ts).                             *)
(*                                                                         *)
(* Every request runs beside the others in up to three steps: it looks its *)
(* idempotency key up, its transaction reads the rows, and the transaction *)
(* commits.  No row is locked when it is read and no update is             *)
(* conditional, so a commit acts on what was read.  Only unique indexes    *)
(* are checked at the commit: that of the idempotency keys and that of the *)
(* telemetry events.  An event that is already there aborts the whole      *)
(* transaction, since Postgres answers nothing more in it once an insert   *)
(* has failed: the row recordEvent looks up afterwards is never found.     *)
(*                                                                         *)
(* An order is named after the request that creates it, and has at most    *)
(* one payment.  Its books hold the accounting events; timeline and audit  *)
(* rows are written beside them and are left out, except for the timeline  *)
(* of a transition, which its accounting event stands for.  Payment        *)
(* attempts, failures and buyer tokens are left out.                       *)
(***************************************************************************)
EXTENDS CheckoutQuote, FiniteSets, Bags

CONSTANTS
    Calls,         \* the requests made; one of them is made once
    MayRequest,    \* what each may ask for
    Quotes         \* the options of each quote

\* A CheckoutOrder row.
OrderRow ==
    [quote : DOMAIN Quotes, mode : Modes, payNow : Nat, payOnDelivery : Nat, total : Nat, advancePaid : Nat,
     state : {"pending_payment", "pending_advance", "confirmed", "packed", "shipped", "delivered",
              "cancelled", "expired", "refund_due"},
     cod : {"none", "pending", "collected"}]

\* Amounts of a quote are not negative and full COD owes nothing at once (computeCheckoutQuote),
\* requests have been parsed by the routes, and what is not there is no row.
ASSUME CheckoutAssumption ==
    /\ \A q \in DOMAIN Quotes, mode \in Modes :
           /\ {Quotes[q][mode].payNow, Quotes[q][mode].payOnDelivery, Quotes[q][mode].total} \subseteq Nat
           /\ mode = "full_cod" => Quotes[q][mode].payNow = 0
    /\ \A c \in Calls : \A r \in MayRequest[c] :
           /\ r.op \in {"order", "initiate", "complete", "transition", "abandon"}
           /\ r.op = "order" => r.quote \in DOMAIN Quotes /\ r.mode \in Modes
           /\ r.op \in {"initiate", "complete", "transition"} => r.order \in Calls
    /\ Null \notin OrderRow

VARIABLES
    orders,        \* CheckoutOrder rows by the call that created them, or Null
    payments,      \* the state of the order's CheckoutPayment, or Null
    books,         \* the order's CheckoutAccountingEvent rows, a bag
    events,        \* the keys of the order's CheckoutTelemetryEvent rows
    session,       \* the status of the order's CheckoutTelemetrySession, or Null
    keys,          \* CheckoutIdempotencyKey rows
    expired,       \* the quotes whose time has run out
    calls          \* what each call asks for, where it stands and what it has read

checkoutVars == <<orders, payments, books, events, session, keys, expired, calls>>
rows == <<orders, payments, books, events, session, keys>>

CheckoutInit ==
    /\ orders = [o \in Calls |-> Null] /\ payments = [o \in Calls |-> Null]
    /\ books = [o \in Calls |-> EmptyBag] /\ events = [o \in Calls |-> {}]
    /\ session = [o \in Calls |-> Null] /\ keys = {} /\ expired = {}
    /\ calls \in [Calls -> {[request |-> r, at |-> "new", seen |-> Null, answer |-> Null] :
                                r \in UNION {MayRequest[c] : c \in Calls}}]
    /\ \A c \in Calls : calls[c].request \in MayRequest[c]

Entry(type, amount) == SetToBag({<<type, amount>>})
Captured(o) == Entry("captured", orders[o].payNow)
Request(c) == calls[c].request
Answered(c, answer) ==
    calls' = [calls EXCEPT ![c].at = "done", ![c].seen = Null, ![c].answer = answer]
Has(c, at, seen) == calls' = [calls EXCEPT ![c].at = at, ![c].seen = seen]
Is(c, op, at) == Request(c).op = op /\ calls[c].at = at
Fails(c, code) == Answered(c, code) /\ UNCHANGED <<rows, expired>>

-----------------------------------------------------------------------------
(* withIdempotency: the key is looked up before the transaction, and its row is written in it.   *)

Operation(r) == <<r.op, IF r.op = "order" THEN Null ELSE r.order>>
KeysOf(r) == {k \in keys : k.op = Operation(r) /\ k.key = r.key}

\* What hydrate answers with is the stored pointer.
Replay(c, r) ==
    LET k == CHOOSE k \in KeysOf(r) : TRUE
    IN  Fails(c, IF k.request = r THEN k.pointer ELSE "IDEMPOTENCY_CONFLICT")

Arrived(r) == r.op # "order" => orders[r.order] # Null

LookUpKey(c) ==
    LET r == Request(c)
    IN  /\ r.op \in {"order", "complete"} /\ calls[c].at = "new" /\ Arrived(r)
        /\ IF KeysOf(r) # {} THEN Replay(c, r)
           ELSE Has(c, "execute", Null) /\ UNCHANGED <<rows, expired>>

KeyIsFree(r) == KeysOf(r) = {}

PersistKey(c, pointer) ==
    keys' = keys \union {[op |-> Operation(Request(c)), key |-> Request(c).key,
                          request |-> Request(c), pointer |-> pointer]}

-----------------------------------------------------------------------------
(* createOrderFromQuote.                                                   *)

ReadQuote(c) ==
    /\ Is(c, "order", "execute")
    /\ LET r == Request(c)
       IN  IF r.quote \in expired THEN Fails(c, "CHECKOUT_QUOTE_EXPIRED")
           ELSE IF ~Quotes[r.quote][r.mode].available THEN Fails(c, "CHECKOUT_MODE_UNAVAILABLE")
           ELSE Has(c, "commit", Quotes[r.quote][r.mode]) /\ UNCHANGED <<rows, expired>>

InitialState(mode) ==
    CASE mode = "full_cod" -> "confirmed" [] mode = "partial_cod" -> "pending_advance"
      [] OTHER -> "pending_payment"

CreateOrder(c) ==
    /\ Is(c, "order", "commit") /\ KeyIsFree(Request(c))
    /\ LET option == calls[c].seen
           mode   == Request(c).mode
       IN  /\ orders' = [orders EXCEPT ![c] =
                 [quote |-> Request(c).quote, mode |-> mode, state |-> InitialState(mode),
                  payNow |-> option.payNow, payOnDelivery |-> option.payOnDelivery,
                  total |-> option.total, advancePaid |-> 0,
                  cod |-> IF option.payOnDelivery > 0 THEN "pending" ELSE "none"]]
           /\ payments' = [payments EXCEPT ![c] = IF option.payNow > 0 THEN "created" ELSE Null]
           /\ books' = [books EXCEPT ![c] =
                 Entry("checkout_order_created", option.total) (+)
                 (IF option.payNow > 0 THEN Entry("payment_intent_created", option.payNow)
                  ELSE Entry("order_confirmed", option.total))]
           /\ session' = [session EXCEPT ![c] = IF option.payNow > 0 THEN "STARTED" ELSE "COMPLETED"]
    /\ events' = [events EXCEPT ![c] = {"order_placed"}]
    /\ PersistKey(c, c) /\ Answered(c, c) /\ UNCHANGED expired

ExpireQuote(q) ==
    /\ q \notin expired /\ expired' = expired \union {q} /\ UNCHANGED <<rows, calls>>

-----------------------------------------------------------------------------
(* Payments.                                                               *)

\* Mutant of Recordable: telemetry events have no unique index.
RecordableTwice(o, event) == TRUE

Recordable(o, event) == event \notin events[o]

Record(o, event, status) ==
    /\ events' = [events EXCEPT ![o] = @ \union {event}]
    /\ session' = [session EXCEPT ![o] = status]

\* initiatePayment: the payment is read before the transaction.
ReadInitiate(c) ==
    LET o == Request(c).order
    IN  /\ Is(c, "initiate", "new") /\ orders[o] # Null /\ payments[o] # Null
        /\ IF payments[o] = "created" THEN Has(c, "commit", [payment |-> "created"]) /\ UNCHANGED <<rows, expired>>
           ELSE Fails(c, payments[o])

Initiate(c) ==
    LET o == Request(c).order
    IN  /\ Is(c, "initiate", "commit") /\ Recordable(o, "payment_attempt_started")
        /\ payments' = [payments EXCEPT ![o] = "initiated"]
        /\ Record(o, "payment_attempt_started", "STARTED")
        /\ Answered(c, "initiated") /\ UNCHANGED <<orders, books, keys, expired>>

\* captureInTransaction: what it does is decided by the rows as it reads them.
ReadCapture(c) ==
    LET o == Request(c).order
    IN  /\ Is(c, "complete", "execute") /\ payments[o] # Null
        /\ Has(c, "commit", [payment |-> payments[o], state |-> orders[o].state,
                             advancePaid |-> orders[o].advancePaid])
        /\ UNCHANGED <<rows, expired>>

Branch(c) ==
    IF calls[c].seen.payment \in {"captured", "refund_due"} THEN "already"
    ELSE IF Request(c).outcome = "failure" THEN "failed"
    ELSE IF calls[c].seen.state \in {"cancelled", "expired", "refund_due"} THEN "late"
    ELSE "captured"

EventOf(branch) ==
    CASE branch = "failed" -> "payment_failed:PAYMENT_CAPTURE_FAILED"
      [] branch = "late"   -> "payment_failed:CHECKOUT_PAYMENT_REFUND_DUE"
      [] branch = "captured" -> "payment_succeeded"
      [] OTHER -> "none"

Commits(c, branch) ==
    /\ Is(c, "complete", "commit") /\ Branch(c) = branch /\ KeyIsFree(Request(c))
    /\ Recordable(Request(c).order, EventOf(branch))
    /\ PersistKey(c, branch) /\ Answered(c, branch) /\ UNCHANGED expired

AlreadyCaptured(c) ==
    Commits(c, "already") /\ UNCHANGED <<orders, payments, books, events, session>>

FailPayment(c) ==
    LET o == Request(c).order
    IN  /\ Commits(c, "failed")
        /\ payments' = [payments EXCEPT ![o] = "failed"]
        /\ Record(o, EventOf("failed"), "STARTED")
        /\ UNCHANGED <<orders, books>>

CaptureLate(c) ==
    LET o == Request(c).order
    IN  /\ Commits(c, "late")
        /\ payments' = [payments EXCEPT ![o] = "refund_due"]
        /\ orders' = [orders EXCEPT ![o].state = "refund_due"]
        /\ books' = [books EXCEPT ![o] = @ (+) Captured(o) (+)
                                         Entry("payment_refund_due", orders[o].payNow)]
        /\ Record(o, EventOf("late"), "STARTED")

Capture(c) ==
    LET o == Request(c).order
    IN  /\ Commits(c, "captured")
        /\ payments' = [payments EXCEPT ![o] = "captured"]
        /\ orders' = [orders EXCEPT ![o].state = "confirmed",
                        ![o].advancePaid = IF orders[o].mode = "partial_cod" THEN orders[o].payNow
                                           ELSE calls[c].seen.advancePaid]
        /\ books' = [books EXCEPT ![o] = @ (+) Captured(o) (+)
                                         Entry("order_confirmed", orders[o].total)]
        /\ Record(o, EventOf("captured"), "COMPLETED")

\* The event is there already: the transaction is rolled back and the request fails.
AbortOnEvent(c) ==
    LET event == IF Request(c).op = "initiate" THEN "payment_attempt_started" ELSE EventOf(Branch(c))
    IN  /\ Request(c).op \in {"initiate", "complete"} /\ calls[c].at = "commit"
        /\ ~Recordable(Request(c).order, event) /\ Fails(c, "error")

\* The key, written last, is there already: the transaction is rolled back and the key read again.
LoseKey(c) ==
    /\ Request(c).op \in {"order", "complete"} /\ calls[c].at = "commit"
    /\ ~KeyIsFree(Request(c))
    /\ Request(c).op = "complete" => Recordable(Request(c).order, EventOf(Branch(c)))
    /\ Replay(c, Request(c))

-----------------------------------------------------------------------------
(* transitionOrder.                                                        *)

Terminal == {"cancelled", "expired", "refund_due"}
Pending == {"pending_payment", "pending_advance"}

\* Mutant of MayMove: an order is packed before it is paid.
MayMoveUnpaid(from, to) ==
    \/ to = "cancelled" /\ from \in {"confirmed", "packed", "shipped"} \union Pending
    \/ to = "expired" /\ from \in {"confirmed"} \union Pending
    \/ to = "refund_due" /\ from \notin Terminal \union {"delivered"}
    \/ <<from, to>> \in {<<"confirmed", "packed">>, <<"packed", "shipped">>, <<"shipped", "delivered">>}
    \/ from \in Pending /\ to = "packed"

\* assertLifecycleTransition.
MayMove(from, to) ==
    \/ to = "cancelled" /\ from \in {"confirmed", "packed", "shipped"} \union Pending
    \/ to = "expired" /\ from \in {"confirmed"} \union Pending
    \/ to = "refund_due" /\ from \notin Terminal \union {"delivered"}
    \/ <<from, to>> \in {<<"confirmed", "packed">>, <<"packed", "shipped">>, <<"shipped", "delivered">>}

\* normalizeCodCollection: a delivery that has money to collect names the whole amount.
CollectionRefused(order, r) == order.payOnDelivery > 0 /\ r.collected # order.payOnDelivery

ReadTransition(c) ==
    LET r == Request(c)
        order == orders[r.order]
    IN  /\ Is(c, "transition", "new") /\ order # Null
        /\ IF order.state = r.to THEN Fails(c, "idempotent")
           ELSE IF ~MayMove(order.state, r.to) THEN Fails(c, "CHECKOUT_ORDER_TRANSITION_INVALID")
           ELSE IF r.to = "delivered" /\ CollectionRefused(order, r)
                THEN Fails(c, "CHECKOUT_COD_COLLECTION_REFUSED")
           ELSE Has(c, "commit", order) /\ UNCHANGED <<rows, expired>>

CommitTransition(c) ==
    LET r == Request(c)
        collects == r.to = "delivered" /\ calls[c].seen.payOnDelivery > 0
    IN  /\ Is(c, "transition", "commit")
        /\ orders' = [orders EXCEPT ![r.order].state = r.to,
                                    ![r.order].cod = IF collects THEN "collected" ELSE @]
        /\ books' = [books EXCEPT ![r.order] = @ (+) Entry("moved", r.to) (+)
                       (IF collects THEN Entry("cod_collected", r.collected) ELSE EmptyBag)]
        /\ Answered(c, "moved") /\ UNCHANGED <<payments, events, session, keys, expired>>

-----------------------------------------------------------------------------
(* scanCheckoutTelemetryAbandonment: the sessions are judged first, then written one by one.     *)

Eligible(o) ==
    /\ session[o] = "STARTED" /\ events[o] \intersect {"payment_succeeded", "checkout_abandoned"} = {}
    /\ payments[o] \notin {"captured", "refund_due"}

Scan(c) ==
    /\ Is(c, "abandon", "new")
    /\ Has(c, "commit", [overdue |-> {o \in Calls : orders[o] # Null /\ Eligible(o)}])
    /\ UNCHANGED <<rows, expired>>

\* One candidate's transaction; if its event is there already, the run fails.
WriteAbandonment(c, o) ==
    /\ Is(c, "abandon", "commit") /\ o \in calls[c].seen.overdue
    /\ IF Recordable(o, "checkout_abandoned")
       THEN /\ Record(o, "checkout_abandoned", "ABANDONED")
            /\ Has(c, "commit", [overdue |-> calls[c].seen.overdue \ {o}])
            /\ UNCHANGED <<orders, payments, books, keys, expired>>
       ELSE Fails(c, "error")

CheckoutNext ==
    \/ \E c \in Calls :
         \/ LookUpKey(c) \/ LoseKey(c)
         \/ ReadQuote(c) \/ CreateOrder(c)
         \/ ReadInitiate(c) \/ Initiate(c)
         \/ ReadCapture(c) \/ AlreadyCaptured(c) \/ FailPayment(c) \/ CaptureLate(c) \/ Capture(c)
         \/ AbortOnEvent(c)
         \/ ReadTransition(c) \/ CommitTransition(c)
         \/ Scan(c) \/ \E o \in Calls : WriteAbandonment(c, o)
    \/ \E q \in DOMAIN Quotes : ExpireQuote(q)

CheckoutSpec == CheckoutInit /\ [][CheckoutNext]_checkoutVars

-----------------------------------------------------------------------------
Times(o, entry) == IF entry \in DOMAIN books[o] THEN books[o][entry] ELSE 0
Placed == {o \in Calls : orders[o] # Null}

\* An order that owes something before it is delivered goes out only when that was captured, the
\* advance it shows is the one in its books, and what was delivered has its cash collected in full
\* (captureInTransaction, transitionOrder, normalizeCodCollection).
GoodsArePaidFor ==
    \A o \in Placed :
        /\ orders[o].state \in {"confirmed", "packed", "shipped", "delivered"} /\ orders[o].payNow > 0 =>
               Times(o, <<"captured", orders[o].payNow>>) > 0
        /\ orders[o].advancePaid > 0 => Times(o, <<"captured", orders[o].advancePaid>>) > 0
        /\ orders[o].state = "delivered" /\ orders[o].payOnDelivery > 0 =>
               orders[o].cod = "collected" /\ Times(o, <<"cod_collected", orders[o].payOnDelivery>>) > 0

\* A purchase is entered once: a key creates one order however many requests with it run side by
\* side (withIdempotency), and the books confirm an order at most once, whatever keys its captures
\* carry and whatever else was read as pending meanwhile (the telemetry event stops the second).
ConfirmedOnce ==
    /\ \A o, p \in Placed : Request(o).key = Request(p).key => o = p
    /\ \A o \in Placed : Times(o, <<"order_confirmed", orders[o].total>>) <= 1

=============================================================================
