---------------------------- MODULE AutopilotProofs ----------------------------
(***************************************************************************)
(* What overlapping dispatches and callbacks keep, for any number of       *)
(* events and callers: the ledger counts each log once, attempts stay near *)
(* their limit, and messages to repeat buyers near the cap of the month.   *)
(***************************************************************************)
EXTENDS Autopilot, FiniteSetTheorems, TLAPS

PlainKinds == {"digest", "marketing", "router"}

Places == {"IDLE", "READ", "SKIP", "ALLOWED", "SEND", "POST", "ANSWERED", "MARK", "CANCEL", "FAIL", "FAILING",
           "NEXT", "CREATE", "COUNT"}

Statuses == {"NONE", "QUEUED", "PROCESSING", "DISPATCHED", "PROCESSED", "FAILED", "CANCELLED"}
EventRecord == [status : Statuses, attempts : Nat, wait : BOOLEAN]

Run == [event : Events, channels : SUBSET Channels]

Fields == {"pc", "event", "run", "todo", "attempts", "ok", "first", "unlogged", "uncounted"}

\* A call that has begun is about an event.  It counts the logs that it has created before it goes on, and no
\* log is about the month of a buyer.
Proper(call) ==
    /\ DOMAIN call = Fields
    /\ call.pc \in Places /\ call.todo \subseteq Channels /\ call.attempts \in Nat
    /\ call.pc # "IDLE" => call.event \in Events
    /\ IsFiniteSet(call.uncounted)
    /\ call.pc \notin {"SKIP", "COUNT"} => call.uncounted = {}
    /\ call.pc = "COUNT" => \A l, m \in call.uncounted : l = m
    /\ \A l \in call.unlogged \union call.uncounted : l.subject.as # "month"

CallsTyped == DOMAIN work = Workers /\ (\A w \in Workers : Proper(work[w])) /\ work = [w \in Workers |-> work[w]]

StoreTyped ==
    /\ event \in [Events -> EventRecord]
    /\ \A k : Count(k) \in Nat
    /\ IsFiniteSet(logs)
    /\ runs \in Seq(Run)
    /\ faults \in Nat

Typed == StoreTyped /\ CallsTyped

\* Before the attempt of a call is recorded.
Early == {"READ", "SKIP", "ALLOWED", "SEND"}

\* Between the plan and the reservation, and from there until the engine is posted to.
Asking == {"SKIP", "ALLOWED"}
Sending == {"SEND", "POST"}

Alone(w) == \A v \in Workers \ {w} : work'[v] = work[v]

\* What most steps leave alone: the logs and what is counted of them...
BooksQuiet ==
    /\ logs' = logs /\ faults' >= faults
    /\ \A k : k.subject.as # "month" => Count(k)' = Count(k)
    /\ \A w \in Workers : work'[w].uncounted = work[w].uncounted

\* ...the attempts, and who is about to make one...
StaysEarly(w) ==
    work'[w].pc \in Early =>
        /\ work[w].pc \in Early /\ work'[w].event = work[w].event /\ work'[w].attempts = work[w].attempts
        /\ work'[w].pc = "SEND" => work[w].pc = "SEND" \/ ~OutOfAttempts(w)
AttemptsQuiet ==
    /\ \A e \in Events : event'[e].attempts = event[e].attempts
    /\ \A w \in Workers : StaysEarly(w)

\* ...and the months, the runs, and who is about to start one.
MonthRow(of, c) == Count(Key([as |-> "month", of |-> of], c))
StaysIn(w, places) ==
    work'[w].pc \in places =>
        work[w].pc \in places /\ work'[w].event = work[w].event /\ work'[w].todo = work[w].todo
MonthQuiet ==
    /\ runs' = runs /\ faults' >= faults
    /\ \A of, c : MonthRow(of, c)' = MonthRow(of, c)
    /\ \A w \in Workers : StaysIn(w, Asking) /\ StaysIn(w, Sending)

Quiet == BooksQuiet /\ AttemptsQuiet /\ MonthQuiet

\* The steps that do more, with the logs...
Logs(w, l) ==
    /\ Alone(w) /\ faults' = faults /\ \A k : Count(k)' = Count(k)
    /\ l \notin logs /\ logs' = logs \union {l}
    /\ work'[w].uncounted = work[w].uncounted \union {l}
Counts(w, l) ==
    /\ Alone(w) /\ faults' = faults /\ logs' = logs
    /\ l \in work[w].uncounted /\ work'[w].uncounted = work[w].uncounted \ {l}
    /\ \A k : Count(k)' = Count(k) + (IF k = KeyOf(l) THEN 1 ELSE 0)
Loses(w) ==
    /\ Alone(w) /\ logs' = logs /\ \A k : Count(k)' = Count(k)
    /\ work'[w].uncounted \subseteq work[w].uncounted
    /\ faults + Cardinality(work[w].uncounted \ work'[w].uncounted) <= faults'

\* ...with the attempts...
Reads(w, e) ==
    /\ Alone(w) /\ \A d \in Events : event'[d].attempts = event[d].attempts
    /\ work'[w].pc = "READ" /\ work'[w].event = e /\ work'[w].attempts = event[e].attempts
Tries(w) ==
    /\ Alone(w) /\ work[w].pc = "SEND" /\ work'[w].pc = "POST" /\ work[w].event \in Events
    /\ \A e \in Events : event'[e].attempts = event[e].attempts + (IF e = work[w].event THEN 1 ELSE 0)

\* ...and with the months.
Plans(w) ==
    /\ Alone(w) /\ runs' = runs /\ faults' = faults /\ \A of, c : MonthRow(of, c)' = MonthRow(of, c)
    /\ work[w].pc = "READ" /\ work'[w].pc \notin Sending /\ work'[w].event = work[w].event
    /\ work[w].event \in Events /\ work'[w].todo = PlanFor(work[w].event).allowed
Reserves(w) ==
    /\ Alone(w) /\ runs' = runs
    /\ work[w].pc = "ALLOWED" /\ work'[w].pc = "SEND"
    /\ work'[w].event = work[w].event /\ work'[w].todo = work[w].todo
    /\ \E failed \in SUBSET Counted(work[w].event, work[w].todo) :
          /\ faults' = faults + Cardinality(failed)
          /\ \A of, c : MonthRow(of, c)' = MonthRow(of, c) +
                (IF Whom[work[w].event] = of /\ c \in Counted(work[w].event, work[w].todo) \ failed THEN 1 ELSE 0)
Posts(w) ==
    /\ Alone(w) /\ faults' >= faults /\ \A of, c : MonthRow(of, c)' = MonthRow(of, c)
    /\ work[w].pc = "POST" /\ work'[w].pc \notin Asking \union Sending
    /\ runs' = Append(runs, [event |-> work[w].event, channels |-> work[w].todo])

BooksStep == BooksQuiet \/ \E w \in Workers : Loses(w) \/ \E l : Logs(w, l) \/ Counts(w, l)
AttemptsStep == AttemptsQuiet \/ \E w \in Workers : Tries(w) \/ \E e \in Events : Reads(w, e)
MonthStep == MonthQuiet \/ \E w \in Workers : Plans(w) \/ Reserves(w) \/ Posts(w)

Step == BooksStep /\ AttemptsStep /\ MonthStep

-----------------------------------------------------------------------------
(***************************************************************************)
(* The plans.                                                              *)
(***************************************************************************)
LEMMA MarketingKeepsOut ==
    ASSUME NEW s, NEW plan \in {CartPlan(s), RepeatPlan(s)}
    PROVE  plan.allowed \subseteq MarketingAllowed(s)
BY DEF CartPlan, RepeatPlan, AllSkipped, MarketingPlan, Plan

LEMMA FinanceGoesByMail ==
    ASSUME NEW s
    PROVE  FinancePlan(s).allowed \subseteq {"EMAIL"}
BY DEF FinancePlan, Controlled, AllSkipped, EmailPlan, Plan

LEMMA AlertsGoByMail ==
    ASSUME NEW s, NEW plan \in {PickupPlan(s), SlaPlan(s), ScanPlan(s), PartnerDigestPlan(s)}
    PROVE  plan.allowed \subseteq {"EMAIL"}
BY DEF PickupPlan, SlaPlan, ScanPlan, PartnerDigestPlan, CourierAlertPlan, Controlled, AllSkipped, EmailPlan, Plan

LEMMA PlansUseChannels ==
    ASSUME NEW e \in Events
    PROVE  PlanFor(e).allowed \subseteq Channels
<1> USE DEF PlainKinds
<1>1. Kind[e] \in Kinds \union PlainKinds /\ Situation[e] \in Read
    BY AutopilotAssumption
<1>2. Seen(e).on \subseteq Channels
    BY <1>1 DEF Seen, Read
<1>3. CASE Kind[e] \in PlainKinds
    BY <1>3 DEF PlanFor, PlainPlan, Plan, Channels
<1>4. CASE Kind[e] \in {"cart", "repeat"}
    <2>1. PlanFor(e) \in {CartPlan(Seen(e)), RepeatPlan(Seen(e))}
        BY <1>4 DEF PlanFor, PlanOf
    <2> QED BY <1>2, <2>1, MarketingKeepsOut DEF MarketingAllowed
<1>5. CASE Kind[e] \in {"cod", "settlement", "invoice"}
    <2>1. PlanFor(e) = FinancePlan(Seen(e))
        BY <1>5 DEF PlanFor, PlanOf, CodPlan, SettlementPlan, InvoicePlan
    <2> QED BY <2>1, FinanceGoesByMail DEF Channels
<1>6. CASE Kind[e] \in {"pickup", "sla", "scan", "partnerDigest"}
    <2>1. PlanFor(e) \in {PickupPlan(Seen(e)), SlaPlan(Seen(e)), ScanPlan(Seen(e)), PartnerDigestPlan(Seen(e))}
        BY <1>6 DEF PlanFor, PlanOf
    <2> QED BY <2>1, AlertsGoByMail DEF Channels
<1>7. CASE Kind[e] = "notice"
    <2>1. PlanFor(e) = NoticePlan(Seen(e))
        BY <1>7 DEF PlanFor, PlanOf
    <2> QED BY <2>1 DEF NoticePlan, Plan, Channels
<1> QED BY <1>1, <1>3, <1>4, <1>5, <1>6, <1>7 DEF Kinds

\* What a plan for a repeat buyer leaves out.
LEMMA FullMonthsAreLeftOut ==
    ASSUME NEW e \in Events, Kind[e] = "repeat"
    PROVE  PlanFor(e).allowed \intersect MonthFull(e) = {}
<1>1. Situation[e] \in Read
    BY AutopilotAssumption
<1>2. Seen(e).capped = MonthFull(e)
    BY <1>1 DEF Seen, Read, Capped
<1>3. PlanFor(e) = RepeatPlan(Seen(e))
    BY DEF PlanFor, PlanOf
<1> QED BY <1>2, <1>3, MarketingKeepsOut DEF MarketingAllowed

-----------------------------------------------------------------------------
(***************************************************************************)
(* What steps do to the calls and the stores.                              *)
(***************************************************************************)
LEMMA NoCallIsProper ==
    /\ Proper(NoCall) /\ NoCall.pc = "IDLE" /\ NoCall.uncounted = {}
BY FS_EmptySet DEF Proper, NoCall, Fields, Places

LEMMA CallMoves ==
    ASSUME CallsTyped, NEW w \in Workers, NEW call, Proper(call), work' = [work EXCEPT ![w] = call]
    PROVE  CallsTyped' /\ work'[w] = call /\ Alone(w)
BY DEF CallsTyped, Alone

LEMMA CallsStay ==
    ASSUME CallsTyped, UNCHANGED work
    PROVE  CallsTyped' /\ \A w \in Workers : work'[w] = work[w]
BY DEF CallsTyped

\* Most steps only move the program counter of a call.
MovesTo(w, pc) ==
    /\ Alone(w)
    /\ work'[w].pc = pc /\ work'[w].event = work[w].event /\ work'[w].todo = work[w].todo
    /\ work'[w].attempts = work[w].attempts /\ work'[w].uncounted = work[w].uncounted

LEMMA CallGoesTo ==
    ASSUME CallsTyped, NEW w \in Workers, NEW pc \in Places \ {"IDLE"}, Goto(w, pc),
           work[w].pc # "IDLE", work[w].uncounted = {}
    PROVE  CallsTyped' /\ MovesTo(w, pc)
<1> DEFINE call == [work[w] EXCEPT !.pc = pc]
<1>1. work' = [work EXCEPT ![w] = call]
    BY DEF Goto
<1>2. Proper(work[w])
    BY DEF CallsTyped
<1>3. /\ DOMAIN call = Fields /\ call.pc = pc /\ call.event = work[w].event /\ call.todo = work[w].todo
      /\ call.attempts = work[w].attempts /\ call.unlogged = work[w].unlogged /\ call.uncounted = work[w].uncounted
    BY <1>2 DEF Proper, Fields
<1> HIDE DEF call
<1>4. Proper(call)
    BY <1>2, <1>3 DEF Proper
<1> QED BY <1>1, <1>3, <1>4, CallMoves DEF MovesTo

\* A call that goes where it neither asks nor sends.
LEMMA MovesQuietly ==
    ASSUME NEW w \in Workers, NEW pc \in Places \ (Early \union Asking \union Sending), MovesTo(w, pc)
    PROVE  /\ \A v \in Workers : work'[v].uncounted = work[v].uncounted
           /\ \A v \in Workers : StaysEarly(v) /\ StaysIn(v, Asking) /\ StaysIn(v, Sending)
BY DEF MovesTo, Alone, StaysEarly, StaysIn, Early

LEMMA CallEnds ==
    ASSUME CallsTyped, NEW w \in Workers, Done(w)
    PROVE  /\ CallsTyped' /\ Alone(w) /\ work'[w].pc = "IDLE" /\ work'[w].uncounted = {}
           /\ \A v \in Workers : StaysEarly(v) /\ StaysIn(v, Asking) /\ StaysIn(v, Sending)
<1>1. CallsTyped' /\ Alone(w) /\ work'[w] = NoCall
    BY NoCallIsProper, CallMoves DEF Done
<1> QED BY <1>1, NoCallIsProper DEF Alone, StaysEarly, StaysIn, Early, Asking, Sending

LEMMA UncountedNothing ==
    ASSUME CallsTyped, NEW w \in Workers, work[w].pc \notin {"SKIP", "COUNT"}
    PROVE  work[w].uncounted = {}
BY DEF CallsTyped, Proper

\* Nothing is stored.
LEMMA StoreStays ==
    ASSUME StoreTyped, UNCHANGED <<event, ledger, logs, optOuts, runs, faults>>
    PROVE  /\ StoreTyped'
           /\ logs' = logs /\ faults' = faults /\ faults' >= faults /\ runs' = runs
           /\ \A k : Count(k)' = Count(k)
           /\ \A of, c : MonthRow(of, c)' = MonthRow(of, c)
           /\ \A e \in Events : event'[e].attempts = event[e].attempts
<1>1. (\A k : Count(k)' = Count(k)) /\ \A of, c : MonthRow(of, c)' = MonthRow(of, c)
    BY DEF Count, MonthRow
<1> QED BY <1>1 DEF StoreTyped

LEMMA EventsMove ==
    ASSUME StoreTyped, NEW e \in Events, NEW status \in Statuses, NEW wait \in BOOLEAN, SetStatus(e, status, wait),
           UNCHANGED <<ledger, logs, optOuts, runs, faults>>
    PROVE  /\ StoreTyped'
           /\ logs' = logs /\ faults' = faults /\ faults' >= faults /\ runs' = runs
           /\ \A k : Count(k)' = Count(k)
           /\ \A of, c : MonthRow(of, c)' = MonthRow(of, c)
           /\ \A d \in Events : event'[d].attempts = event[d].attempts
<1>1. /\ event' \in [Events -> EventRecord]
      /\ \A d \in Events : event'[d].attempts = event[d].attempts
    BY DEF SetStatus, StoreTyped, EventRecord
<1>2. (\A k : Count(k)' = Count(k)) /\ \A of, c : MonthRow(of, c)' = MonthRow(of, c)
    BY DEF Count, MonthRow
<1> QED BY <1>1, <1>2 DEF StoreTyped

LEMMA RowsCountUp ==
    ASSUME \A k : Count(k) \in Nat, NEW keys, CountUp(keys)
    PROVE  \A k : Count(k)' = Count(k) + (IF k \in keys THEN 1 ELSE 0)
<1> SUFFICES ASSUME NEW k PROVE Count(k)' = Count(k) + (IF k \in keys THEN 1 ELSE 0)
    OBVIOUS
<1>1. ledger' = [j \in DOMAIN ledger \union keys |-> Count(j) + (IF j \in keys THEN 1 ELSE 0)]
    BY DEF CountUp
<1>2. CASE k \in DOMAIN ledger \union keys
    BY <1>1, <1>2 DEF Count
<1>3. CASE k \notin DOMAIN ledger \union keys
    BY <1>1, <1>3 DEF Count
<1> QED BY <1>2, <1>3

-----------------------------------------------------------------------------
(***************************************************************************)
(* The steps, action by action.                                            *)
(***************************************************************************)
LEMMA QuietIsAStep == ASSUME Quiet PROVE Step
BY DEF Quiet, Step, BooksStep, AttemptsStep, MonthStep

\* The calls do not move.
LEMMA EventSteps ==
    ASSUME Typed, NEW e \in Events, Emit(e) \/ Elapse(e) \/ \E w \in Workers : Retry(w, e)
    PROVE  Typed' /\ Step
<1>1. /\ \E status \in Statuses, wait \in BOOLEAN : SetStatus(e, status, wait)
      /\ UNCHANGED <<ledger, logs, optOuts, runs, work, faults>>
    <2>1. CASE Emit(e) \/ \E w \in Workers : Retry(w, e)
        <3>1. SetStatus(e, "QUEUED", FALSE) /\ UNCHANGED <<ledger, logs, optOuts, runs, work, faults>>
            BY <2>1 DEF Emit, Retry
        <3>2. "QUEUED" \in Statuses /\ FALSE \in BOOLEAN
            BY DEF Statuses
        <3> QED BY <3>1, <3>2
    <2>2. CASE Elapse(e)
        <3>1. SetStatus(e, event[e].status, FALSE) /\ event[e].status \in Statuses
            BY <2>2 DEF Elapse, SetStatus, Typed, StoreTyped, EventRecord
        <3>2. UNCHANGED <<ledger, logs, optOuts, runs, work, faults>>
            BY <2>2 DEF Elapse
        <3> QED BY <3>1, <3>2
    <2> QED BY <2>1, <2>2
<1>2. CallsTyped' /\ \A w \in Workers : work'[w] = work[w]
    BY <1>1, CallsStay DEF Typed
<1>3. PICK status \in Statuses, wait \in BOOLEAN : SetStatus(e, status, wait)
    BY <1>1
<1>4. /\ StoreTyped'
      /\ logs' = logs /\ faults' >= faults /\ runs' = runs
      /\ \A k : Count(k)' = Count(k)
      /\ \A of, c : MonthRow(of, c)' = MonthRow(of, c)
      /\ \A d \in Events : event'[d].attempts = event[d].attempts
    BY <1>1, <1>3, EventsMove DEF Typed
<1>5. Quiet
    BY <1>2, <1>4 DEF Quiet, BooksQuiet, AttemptsQuiet, MonthQuiet, StaysEarly, StaysIn
<1> QED BY <1>2, <1>4, <1>5, QuietIsAStep DEF Typed

\* A call that ends with a status of its event.
LEMMA StatusSteps ==
    ASSUME Typed, NEW w \in Workers,
           \/ PutBack(w) \/ MarkDispatched(w) \/ Cancel(w) \/ MarkFailed(w)
           \/ \E url \in Urls : Unconfigured(w, url)
           \/ EndCallback(w) /\ Done(w)
    PROVE  Typed' /\ Step
<1> DEFINE e == work[w].event
<1>1. /\ Done(w) /\ work[w].pc \notin {"IDLE", "SKIP", "COUNT"}
      /\ UNCHANGED <<ledger, logs, optOuts, runs, faults>>
    BY DEF PutBack, MarkDispatched, Cancel, MarkFailed, Unconfigured, EndCallback, At
<1>2. e \in Events /\ work[w].uncounted = {} /\ work[w].attempts \in Nat
    BY <1>1 DEF Typed, CallsTyped, Proper
<1>3. event \in [Events -> EventRecord]
    BY DEF Typed, StoreTyped
<1> USE DEF Statuses, EventRecord
<1>4. UNCHANGED event \/ \E status \in Statuses, wait \in BOOLEAN : SetStatus(e, status, wait)
    <2>1. CASE PutBack(w)
        BY <2>1 DEF PutBack
    <2>2. CASE MarkDispatched(w)
        <3>1. SetStatus(e, "DISPATCHED", event[e].wait) \/ UNCHANGED event
            BY <1>2, <1>3, <2>2 DEF MarkDispatched, SetStatus
        <3> QED BY <1>2, <1>3, <3>1
    <2>3. CASE Cancel(w)
        <3>1. SetStatus(e, "CANCELLED", event[e].wait)
            BY <1>2, <1>3, <2>3 DEF Cancel, SetStatus
        <3> QED BY <1>2, <1>3, <3>1
    <2>4. CASE MarkFailed(w)
        <3>1. PICK limit : SetStatus(e, "FAILED", work[w].attempts < limit)
            BY <2>4 DEF MarkFailed
        <3>2. (work[w].attempts < limit) \in BOOLEAN
            OBVIOUS
        <3> QED BY <3>1, <3>2
    <2>5. CASE \E url \in Urls : Unconfigured(w, url)
        <3>1. PICK url : Unconfigured(w, url)
            BY <2>5
        <3>2. SetStatus(e, IF url = "disabled" THEN "QUEUED" ELSE "FAILED", url = "missing")
            BY <3>1 DEF Unconfigured
        <3> QED BY <3>2
    <2>6. CASE EndCallback(w)
        <3>1. \/ UNCHANGED event
              \/ event' = [event EXCEPT ![e].status = "PROCESSED"]
            BY <2>6 DEF EndCallback
        <3>2. SetStatus(e, "PROCESSED", event[e].wait) \/ UNCHANGED event
            BY <1>2, <1>3, <3>1 DEF SetStatus
        <3> QED BY <1>2, <1>3, <3>2
    <2> QED BY <2>1, <2>2, <2>3, <2>4, <2>5, <2>6
<1>5. /\ StoreTyped'
      /\ logs' = logs /\ faults' >= faults /\ runs' = runs
      /\ \A k : Count(k)' = Count(k)
      /\ \A of, c : MonthRow(of, c)' = MonthRow(of, c)
      /\ \A d \in Events : event'[d].attempts = event[d].attempts
    <2>1. CASE UNCHANGED event
        BY <1>1, <2>1, StoreStays DEF Typed
    <2>2. CASE \E status \in Statuses, wait \in BOOLEAN : SetStatus(e, status, wait)
        BY <1>1, <1>2, <2>2, EventsMove DEF Typed
    <2> QED BY <1>4, <2>1, <2>2
<1>6. /\ CallsTyped' /\ Alone(w) /\ work'[w].uncounted = {}
      /\ \A v \in Workers : StaysEarly(v) /\ StaysIn(v, Asking) /\ StaysIn(v, Sending)
    BY <1>1, CallEnds DEF Typed
<1>7. Quiet
    BY <1>2, <1>5, <1>6 DEF Quiet, BooksQuiet, AttemptsQuiet, MonthQuiet, Alone
<1> QED BY <1>5, <1>6, <1>7, QuietIsAStep DEF Typed

\* A call that is turned away, or has nothing more to log.
LEMMA TurnSteps ==
    ASSUME Typed, NEW w \in Workers,
           \/ FindPaused(w) \/ FindCapped(w) \/ FindOutOfAttempts(w) \/ FailPost(w)
           \/ EndCallback(w) /\ Goto(w, "FAIL")
    PROVE  Typed' /\ Step
<1>1. PICK pc \in {"CANCEL", "FAIL"} : Goto(w, pc)
    BY DEF FindPaused, FindCapped, FindOutOfAttempts, FailPost
<1>2. /\ work[w].pc \notin {"IDLE", "SKIP", "COUNT"}
      /\ UNCHANGED <<ledger, logs, optOuts, runs>>
      /\ faults' = faults \/ faults' = faults + 1
    BY DEF FindPaused, FindCapped, FindOutOfAttempts, FailPost, EndCallback, At
<1>3. UNCHANGED event
    <2>1. CASE EndCallback(w) /\ Goto(w, "FAIL")
        <3>1. CASE work[w].ok
            <4>1. work' = [work EXCEPT ![w] = NoCall] /\ work' = [work EXCEPT ![w].pc = "FAIL"]
                BY <2>1, <3>1 DEF EndCallback, Done, Goto
            <4>2. w \in DOMAIN work /\ DOMAIN work[w] = Fields
                BY DEF Typed, CallsTyped, Proper
            <4>3. work'[w].pc = "IDLE" /\ work'[w].pc = "FAIL"
                BY <4>1, <4>2, NoCallIsProper DEF Fields
            <4> QED BY <4>3
        <3>2. CASE ~work[w].ok
            BY <2>1, <3>2 DEF EndCallback
        <3> QED BY <3>1, <3>2
    <2> QED BY <2>1 DEF FindPaused, FindCapped, FindOutOfAttempts, FailPost
<1>4. pc \in Places \ {"IDLE"} /\ pc \in Places \ (Early \union Asking \union Sending)
    BY DEF Places, Early, Asking, Sending
<1>5. CallsTyped' /\ MovesTo(w, pc)
    BY <1>1, <1>2, <1>4, UncountedNothing, CallGoesTo DEF Typed
<1>6. /\ \A v \in Workers : work'[v].uncounted = work[v].uncounted
      /\ \A v \in Workers : StaysEarly(v) /\ StaysIn(v, Asking) /\ StaysIn(v, Sending)
    BY <1>4, <1>5, MovesQuietly
<1>7. /\ StoreTyped' /\ faults' >= faults
      /\ \A k : Count(k)' = Count(k)
      /\ \A of, c : MonthRow(of, c)' = MonthRow(of, c)
      /\ \A d \in Events : event'[d].attempts = event[d].attempts
    BY <1>2, <1>3 DEF Typed, StoreTyped, Count, MonthRow
<1>8. Quiet
    BY <1>2, <1>6, <1>7 DEF Quiet, BooksQuiet, AttemptsQuiet, MonthQuiet
<1> QED BY <1>5, <1>7, <1>8, QuietIsAStep DEF Typed

\* A call that turns to something else, and stores nothing.
LEMMA CallTurns ==
    ASSUME Typed, NEW w \in Workers, NEW call, Proper(call), work' = [work EXCEPT ![w] = call],
           call.pc \notin Early \union Asking \union Sending, call.uncounted = work[w].uncounted,
           UNCHANGED <<event, ledger, logs, optOuts, runs, faults>>
    PROVE  Typed' /\ Step
<1>1. CallsTyped' /\ work'[w] = call /\ Alone(w)
    BY CallMoves DEF Typed
<1>2. /\ StoreTyped'
      /\ logs' = logs /\ faults' >= faults /\ runs' = runs
      /\ \A k : Count(k)' = Count(k)
      /\ \A of, c : MonthRow(of, c)' = MonthRow(of, c)
      /\ \A d \in Events : event'[d].attempts = event[d].attempts
    BY StoreStays DEF Typed
<1>3. Quiet
    BY <1>1, <1>2 DEF Quiet, BooksQuiet, AttemptsQuiet, MonthQuiet, Alone, StaysEarly, StaysIn
<1> QED BY <1>1, <1>2, <1>3, QuietIsAStep DEF Typed

LEMMA AnswerSteps ==
    ASSUME Typed, NEW w \in Workers, ReadStatus(w) \/ ReadAttempts(w)
    PROVE  Typed' /\ Step
<1>1. Proper(work[w])
    BY DEF Typed, CallsTyped
<1>2. work[w].pc \in {"ANSWERED", "FAIL"} /\ UNCHANGED <<event, ledger, logs, optOuts, runs, faults>>
    BY DEF ReadStatus, ReadAttempts, At
<1>3. work[w].event \in Events /\ work[w].uncounted = {}
    BY <1>1, <1>2 DEF Proper
<1>4. PICK call : /\ work' = [work EXCEPT ![w] = call]
                  /\ DOMAIN call = Fields
                  /\ call.pc \in {"MARK", "FAILING"} /\ call.event = work[w].event /\ call.todo = work[w].todo
                  /\ call.attempts \in Nat
                  /\ call.unlogged = work[w].unlogged /\ call.uncounted = work[w].uncounted
    <2>1. CASE ReadStatus(w)
        <3> DEFINE call == [work[w] EXCEPT !.pc = "MARK", !.first = event[work[w].event].status = "PROCESSING"]
        <3>1. work' = [work EXCEPT ![w] = call]
            BY <2>1 DEF ReadStatus, Typed, CallsTyped
        <3>2. /\ DOMAIN call = Fields
              /\ call.pc = "MARK" /\ call.event = work[w].event /\ call.todo = work[w].todo
              /\ call.attempts = work[w].attempts
              /\ call.unlogged = work[w].unlogged /\ call.uncounted = work[w].uncounted
            BY <1>1 DEF Proper, Fields
        <3> HIDE DEF call
        <3> QED BY <1>1, <3>1, <3>2 DEF Proper
    <2>2. CASE ReadAttempts(w)
        <3> DEFINE call == [work[w] EXCEPT !.pc = "FAILING", !.attempts = event[work[w].event].attempts]
        <3>1. work' = [work EXCEPT ![w] = call]
            BY <2>2 DEF ReadAttempts, Typed, CallsTyped
        <3>2. event[work[w].event].attempts \in Nat
            BY <1>3 DEF Typed, StoreTyped, EventRecord
        <3>3. /\ DOMAIN call = Fields
              /\ call.pc = "FAILING" /\ call.event = work[w].event /\ call.todo = work[w].todo
              /\ call.attempts = event[work[w].event].attempts
              /\ call.unlogged = work[w].unlogged /\ call.uncounted = work[w].uncounted
            BY <1>1 DEF Proper, Fields
        <3> HIDE DEF call
        <3> QED BY <3>1, <3>2, <3>3
    <2> QED BY <2>1, <2>2
<1>5. Proper(call) /\ call.pc \notin Early \union Asking \union Sending
    BY <1>1, <1>3, <1>4 DEF Proper, Places, Early, Asking, Sending
<1> QED BY <1>2, <1>4, <1>5, CallTurns

LEMMA CallbackBegins ==
    ASSUME Typed, NEW w \in Workers, NEW r \in DOMAIN runs, NEW ok \in BOOLEAN, StartCallback(w, r, ok)
    PROVE  Typed' /\ Step
<1> DEFINE call == [NoCall EXCEPT !.pc = "NEXT", !.event = runs[r].event, !.run = r, !.ok = ok,
                        !.todo = runs[r].channels, !.first = event[runs[r].event].status # "PROCESSED"]
<1>1. /\ work[w].pc = "IDLE" /\ work' = [work EXCEPT ![w] = call]
      /\ UNCHANGED <<event, ledger, logs, optOuts, runs, faults>>
    BY DEF StartCallback, At
<1>2. runs[r].event \in Events /\ runs[r].channels \subseteq Channels
    <2>1. runs \in Seq(Run)
        BY DEF Typed, StoreTyped
    <2>2. runs[r] \in Run
        BY <2>1
    <2> QED BY <2>2 DEF Run
<1>3. /\ DOMAIN call = Fields /\ call.pc = "NEXT" /\ call.event = runs[r].event /\ call.todo = runs[r].channels
      /\ call.attempts = 0 /\ call.unlogged = {} /\ call.uncounted = {}
    BY DEF NoCall, Fields
<1> HIDE DEF call
<1>4. Proper(call) /\ call.pc \notin Early \union Asking \union Sending
    BY <1>2, <1>3, FS_EmptySet DEF Proper, Places, Early, Asking, Sending
<1>5. work[w].uncounted = {}
    BY <1>1, UncountedNothing DEF Typed
<1> QED BY <1>1, <1>3, <1>4, <1>5, CallTurns

LEMMA LookSteps ==
    ASSUME Typed, NEW w \in Workers, NEW c \in Channels, NEW as \in Recipients, LookForLog(w, c, as)
    PROVE  Typed' /\ Step
<1> DEFINE log == MessageLog(w, c, as)
           there == Logged(log)
           call == [work[w] EXCEPT !.pc = IF there THEN "NEXT" ELSE "CREATE", !.todo = @ \ {c},
                                   !.unlogged = IF there THEN {} ELSE {log}]
<1>1. work[w].pc = "NEXT" /\ UNCHANGED <<event, ledger, logs, optOuts, runs, faults>>
    BY DEF LookForLog, At
<1>2. Proper(work[w])
    BY DEF Typed, CallsTyped
<1>3. log.subject.as # "month"
    BY AutopilotAssumption DEF MessageLog, Subject, Address
<1> HIDE DEF log, there
<1>4. work' = [work EXCEPT ![w] = call]
    BY DEF LookForLog, Typed, CallsTyped, log, there
<1>5. /\ DOMAIN call = Fields /\ call.pc \in {"NEXT", "CREATE"} /\ call.event = work[w].event
      /\ call.todo = work[w].todo \ {c} /\ call.attempts = work[w].attempts
      /\ call.unlogged \subseteq {log} /\ call.uncounted = work[w].uncounted
    BY <1>2 DEF Proper, Fields
<1> HIDE DEF call
<1>6. Proper(call) /\ call.pc \notin Early \union Asking \union Sending
    BY <1>1, <1>2, <1>3, <1>5 DEF Proper, Places, Early, Asking, Sending
<1> QED BY <1>1, <1>4, <1>5, <1>6, CallTurns

LEMMA ReadSteps ==
    ASSUME Typed, NEW w \in Workers, NEW e \in Events, ReadEvent(w, e)
    PROVE  Typed' /\ Step
<1> DEFINE call == [NoCall EXCEPT !.pc = "READ", !.event = e, !.attempts = event[e].attempts]
<1>1. /\ work[w].pc = "IDLE" /\ work' = [work EXCEPT ![w] = call]
      /\ UNCHANGED <<event, ledger, logs, optOuts, runs, faults>>
    BY DEF ReadEvent, At
<1>2. event[e].attempts \in Nat
    BY DEF Typed, StoreTyped, EventRecord
<1>3. /\ DOMAIN call = Fields /\ call.pc = "READ" /\ call.event = e /\ call.todo = {}
      /\ call.attempts = event[e].attempts /\ call.unlogged = {} /\ call.uncounted = {}
    BY DEF NoCall, Fields
<1> HIDE DEF call
<1>4. Proper(call)
    BY <1>2, <1>3, FS_EmptySet DEF Proper, Places
<1>5. work[w].uncounted = {}
    BY <1>1, UncountedNothing DEF Typed
<1>6. CallsTyped' /\ work'[w] = call /\ Alone(w)
    BY <1>1, <1>4, CallMoves DEF Typed
<1>7. /\ StoreTyped'
      /\ logs' = logs /\ faults' >= faults /\ runs' = runs
      /\ \A k : Count(k)' = Count(k)
      /\ \A of, c : MonthRow(of, c)' = MonthRow(of, c)
      /\ \A d \in Events : event'[d].attempts = event[d].attempts
    BY <1>1, StoreStays DEF Typed
<1>8. BooksQuiet /\ Reads(w, e) /\ MonthQuiet
    BY <1>3, <1>5, <1>6, <1>7 DEF BooksQuiet, Reads, MonthQuiet, Alone, StaysIn, Asking, Sending
<1> QED BY <1>6, <1>7, <1>8 DEF Typed, Step, BooksStep, AttemptsStep, MonthStep

LEMMA AttemptSteps ==
    ASSUME Typed, NEW w \in Workers, StartDispatch(w)
    PROVE  Typed' /\ Step
<1> DEFINE e == work[w].event
<1>1. /\ work[w].pc = "SEND" /\ Goto(w, "POST")
      /\ event' = [event EXCEPT ![e].status = "PROCESSING", ![e].attempts = @ + 1]
      /\ UNCHANGED <<ledger, logs, optOuts, runs, faults>>
    BY DEF StartDispatch, At
<1>2. e \in Events
    BY <1>1 DEF Typed, CallsTyped, Proper
<1>3. CallsTyped' /\ MovesTo(w, "POST")
    BY <1>1, UncountedNothing, CallGoesTo DEF Typed, Places
<1>4. /\ event' \in [Events -> EventRecord]
      /\ \A d \in Events : event'[d].attempts = event[d].attempts + (IF d = e THEN 1 ELSE 0)
    <2>1. event \in [Events -> EventRecord]
        BY DEF Typed, StoreTyped
    <2>2. "PROCESSING" \in Statuses
        BY DEF Statuses
    <2> HIDE DEF e
    <2>3. event' = [event EXCEPT ![e] = [status |-> "PROCESSING", attempts |-> event[e].attempts + 1, wait |-> event[e].wait]]
        BY <1>1, <1>2, <2>1 DEF EventRecord
    <2> QED BY <1>2, <2>1, <2>2, <2>3 DEF EventRecord
<1>5. /\ StoreTyped'
      /\ \A k : Count(k)' = Count(k)
      /\ \A of, c : MonthRow(of, c)' = MonthRow(of, c)
    BY <1>1, <1>4 DEF Typed, StoreTyped, Count, MonthRow
<1>6. faults' >= faults
    BY <1>1 DEF Typed, StoreTyped
<1>7. BooksQuiet /\ Tries(w) /\ MonthQuiet
    BY <1>1, <1>2, <1>3, <1>4, <1>5, <1>6
    DEF BooksQuiet, Tries, MonthQuiet, MovesTo, Alone, StaysIn, Asking, Sending
<1> QED BY <1>3, <1>5, <1>7 DEF Typed, Step, BooksStep, AttemptsStep, MonthStep

LEMMA PlanSteps ==
    ASSUME Typed, NEW w \in Workers, MakePlan(w)
    PROVE  Typed' /\ Step
<1> DEFINE e == work[w].event
           allowed == PlanFor(e).allowed
           skips == SkipLogs(e)
           call == [work[w] EXCEPT !.pc = IF skips = {} THEN Verdict(allowed) ELSE "SKIP", !.todo = allowed,
                                   !.unlogged = skips]
<1>1. work[w].pc = "READ" /\ UNCHANGED <<event, ledger, logs, optOuts, runs, faults>>
    BY DEF MakePlan, At
<1>2. Proper(work[w]) /\ e \in Events /\ work[w].uncounted = {}
    BY <1>1 DEF Typed, CallsTyped, Proper
<1>3. allowed \subseteq Channels
    BY <1>2, PlansUseChannels
<1>4. \A l \in skips : l.subject.as # "month"
    <2>1. PICK as \in {"ref", "phone", "event"} :
            skips = {[event |-> e, run |-> 0, channel |-> skip.channel, reason |-> skip.reason, subject |-> Subject(as, e)] :
                        skip \in PlanFor(e).skipped}
        BY DEF SkipLogs
    <2> HIDE DEF skips
    <2> SUFFICES ASSUME NEW l \in skips PROVE l.subject.as # "month"
        OBVIOUS
    <2>2. l.subject = Subject(as, e)
        <3>1. PICK skip : l = [event |-> e, run |-> 0, channel |-> skip.channel, reason |-> skip.reason,
                               subject |-> Subject(as, e)]
            BY <2>1
        <3> QED BY <3>1
    <2>3. Subject(as, e).as = as
        BY DEF Subject
    <2> QED BY <2>2, <2>3
<1> HIDE DEF allowed, skips
<1>5. work' = [work EXCEPT ![w] = call]
    BY DEF MakePlan, Typed, CallsTyped, allowed, skips
<1>6. /\ DOMAIN call = Fields /\ call.pc \in {"SKIP", "CANCEL", "ALLOWED"} /\ call.event = e
      /\ call.todo = allowed /\ call.attempts = work[w].attempts
      /\ call.unlogged = skips /\ call.uncounted = work[w].uncounted
    BY <1>2 DEF Proper, Fields, Verdict
<1> HIDE DEF call
<1>7. Proper(call)
    BY <1>2, <1>3, <1>4, <1>6 DEF Proper, Places
<1>8. CallsTyped' /\ work'[w] = call /\ Alone(w)
    BY <1>5, <1>7, CallMoves DEF Typed
<1>9. /\ StoreTyped'
      /\ logs' = logs /\ faults' = faults /\ faults' >= faults /\ runs' = runs
      /\ \A k : Count(k)' = Count(k)
      /\ \A of, c : MonthRow(of, c)' = MonthRow(of, c)
      /\ \A d \in Events : event'[d].attempts = event[d].attempts
    BY <1>1, StoreStays DEF Typed
<1>10. BooksQuiet /\ AttemptsQuiet
    BY <1>1, <1>2, <1>6, <1>8, <1>9 DEF BooksQuiet, AttemptsQuiet, Alone, StaysEarly, Early
<1>11. Plans(w)
    BY <1>1, <1>2, <1>6, <1>8, <1>9 DEF Plans, Sending, allowed
<1> QED BY <1>8, <1>9, <1>10, <1>11 DEF Typed, Step, BooksStep, AttemptsStep, MonthStep

LEMMA SkipsEnd ==
    ASSUME Typed, NEW w \in Workers, EndSkips(w)
    PROVE  Typed' /\ Step
<1>1. PICK pc \in {"CANCEL", "ALLOWED"} : Goto(w, pc)
    BY DEF EndSkips, Verdict
<1>2. /\ work[w].pc = "SKIP" /\ work[w].uncounted = {}
      /\ UNCHANGED <<event, ledger, logs, optOuts, runs, faults>>
    BY DEF EndSkips, At
<1>3. CallsTyped' /\ MovesTo(w, pc)
    BY <1>2, <1>1, CallGoesTo DEF Typed, Places
<1>4. /\ StoreTyped'
      /\ logs' = logs /\ faults' >= faults /\ runs' = runs
      /\ \A k : Count(k)' = Count(k)
      /\ \A of, c : MonthRow(of, c)' = MonthRow(of, c)
      /\ \A d \in Events : event'[d].attempts = event[d].attempts
    BY <1>2, StoreStays DEF Typed
<1>5. Quiet
    BY <1>2, <1>3, <1>4 DEF Quiet, BooksQuiet, AttemptsQuiet, MonthQuiet, MovesTo, Alone, StaysEarly, StaysIn,
        Early, Asking, Sending
<1> QED BY <1>3, <1>4, <1>5, QuietIsAStep DEF Typed

\* A step that only has to do with the logs of a call: it stays where it is, or goes where it neither asks nor sends.
LEMMA LogMoves ==
    ASSUME Typed, NEW w \in Workers, NEW call, Proper(call), work' = [work EXCEPT ![w] = call],
           \/ call.pc = work[w].pc /\ call.event = work[w].event /\ call.todo = work[w].todo
                 /\ call.attempts = work[w].attempts
           \/ call.pc \notin Early \union Asking \union Sending,
           \A e \in Events : event'[e].attempts = event[e].attempts,
           runs' = runs, faults' >= faults, \A of, c : MonthRow(of, c)' = MonthRow(of, c)
    PROVE  CallsTyped' /\ work'[w] = call /\ Alone(w) /\ AttemptsQuiet /\ MonthQuiet
<1>1. CallsTyped' /\ work'[w] = call /\ Alone(w)
    BY CallMoves DEF Typed
<1> QED BY <1>1 DEF AttemptsQuiet, MonthQuiet, Alone, StaysEarly, StaysIn

\* A log is created, or is there already.
LEMMA CreationSteps ==
    ASSUME Typed, NEW w \in Workers, NEW l \in work[w].unlogged, LogSkip(w, l) \/ CreateLog(w, l)
    PROVE  Typed' /\ Step
<1>1. work[w].pc \in {"SKIP", "CREATE"} /\ UNCHANGED <<event, ledger, optOuts, runs, faults>>
    BY DEF LogSkip, CreateLog, At
<1>2. Proper(work[w])
    BY DEF Typed, CallsTyped
<1>3. work[w].event \in Events /\ l.subject.as # "month" /\ IsFiniteSet(work[w].uncounted)
    BY <1>1, <1>2 DEF Proper
<1>4. /\ faults' = faults /\ faults' >= faults /\ runs' = runs
      /\ \A k : Count(k)' = Count(k)
      /\ \A of, c : MonthRow(of, c)' = MonthRow(of, c)
      /\ \A d \in Events : event'[d].attempts = event[d].attempts
    BY <1>1 DEF Typed, StoreTyped, Count, MonthRow
<1>5. CASE Logged(l) /\ CreateLog(w, l)
    <2>1. Done(w) /\ UNCHANGED logs
        BY <1>5 DEF CreateLog
    <2>2. work[w].uncounted = {}
        BY <1>1, <1>2, <1>5 DEF CreateLog, At, Proper
    <2>3. /\ CallsTyped' /\ Alone(w) /\ work'[w].uncounted = {}
          /\ \A v \in Workers : StaysEarly(v) /\ StaysIn(v, Asking) /\ StaysIn(v, Sending)
        BY <2>1, CallEnds DEF Typed
    <2>4. Quiet
        BY <1>4, <2>1, <2>2, <2>3 DEF Quiet, BooksQuiet, AttemptsQuiet, MonthQuiet, Alone
    <2>5. StoreTyped'
        BY <1>1, <2>1, StoreStays DEF Typed
    <2> QED BY <2>3, <2>4, <2>5, QuietIsAStep DEF Typed
<1>6. CASE Logged(l) /\ LogSkip(w, l)
    <2> DEFINE call == [work[w] EXCEPT !.unlogged = @ \ {l}]
    <2>1. logs' = logs /\ work' = [work EXCEPT ![w] = call]
        <3>1. logs' = logs /\ work' = [work EXCEPT ![w].unlogged = @ \ {l}, ![w].uncounted = @]
            BY <1>6 DEF LogSkip
        <3>2. w \in DOMAIN work /\ DOMAIN work[w] = Fields
            BY <1>2 DEF Typed, CallsTyped, Proper
        <3>3. [work[w] EXCEPT !.unlogged = @ \ {l}, !.uncounted = @] = call
            BY <1>2 DEF Proper, Fields
        <3> QED BY <3>1, <3>2, <3>3
    <2>2. /\ DOMAIN call = Fields /\ call.pc = work[w].pc /\ call.event = work[w].event /\ call.todo = work[w].todo
          /\ call.attempts = work[w].attempts
          /\ call.unlogged = work[w].unlogged \ {l} /\ call.uncounted = work[w].uncounted
        BY <1>2 DEF Proper, Fields
    <2> HIDE DEF call
    <2>3. Proper(call)
        BY <1>2, <2>2 DEF Proper
    <2>4. CallsTyped' /\ work'[w] = call /\ Alone(w) /\ AttemptsQuiet /\ MonthQuiet
        BY <1>4, <2>1, <2>2, <2>3, LogMoves
    <2>5. BooksQuiet /\ StoreTyped'
        BY <1>1, <1>4, <2>1, <2>2, <2>4, StoreStays DEF BooksQuiet, Alone, Typed
    <2> QED BY <2>4, <2>5, QuietIsAStep DEF Quiet, Typed
<1>7. CASE ~Logged(l)
    <2>1. PICK call : /\ work' = [work EXCEPT ![w] = call]
                      /\ DOMAIN call = Fields /\ call.event = work[w].event
                      /\ call.todo = work[w].todo /\ call.attempts = work[w].attempts
                      /\ call.unlogged \subseteq work[w].unlogged /\ call.uncounted = work[w].uncounted \union {l}
                      /\ \/ call.pc = "SKIP" /\ work[w].pc = "SKIP"
                         \/ call.pc = "COUNT" /\ work[w].uncounted = {}
        <3>1. CASE LogSkip(w, l)
            <4> DEFINE call == [work[w] EXCEPT !.unlogged = @ \ {l}, !.uncounted = @ \union {l}]
            <4>1. work' = [work EXCEPT ![w] = call] /\ work[w].pc = "SKIP"
                BY <1>7, <3>1 DEF LogSkip, Typed, CallsTyped, At
            <4>2. /\ DOMAIN call = Fields /\ call.pc = work[w].pc /\ call.event = work[w].event
                  /\ call.todo = work[w].todo /\ call.attempts = work[w].attempts
                  /\ call.unlogged = work[w].unlogged \ {l} /\ call.uncounted = work[w].uncounted \union {l}
                BY <1>2 DEF Proper, Fields
            <4> HIDE DEF call
            <4> QED BY <4>1, <4>2
        <3>2. CASE CreateLog(w, l)
            <4> DEFINE call == [work[w] EXCEPT !.pc = "COUNT", !.unlogged = {}, !.uncounted = {l}]
            <4>1. work' = [work EXCEPT ![w] = call] /\ work[w].uncounted = {}
                BY <1>2, <1>7, <3>2 DEF CreateLog, Typed, CallsTyped, At, Proper
            <4>2. /\ DOMAIN call = Fields /\ call.pc = "COUNT" /\ call.event = work[w].event
                  /\ call.todo = work[w].todo /\ call.attempts = work[w].attempts
                  /\ call.unlogged = {} /\ call.uncounted = {l}
                BY <1>2 DEF Proper, Fields
            <4> HIDE DEF call
            <4> QED BY <4>1, <4>2
        <3> QED BY <3>1, <3>2
    <2>2. Proper(call)
        <3>1. IsFiniteSet(call.uncounted)
            BY <1>3, <2>1, FS_AddElement
        <3> QED BY <1>1, <1>2, <1>3, <2>1, <3>1 DEF Proper, Places
    <2>3. \/ call.pc = work[w].pc
          \/ call.pc \notin Early \union Asking \union Sending
        BY <2>1 DEF Early, Asking, Sending
    <2>4. CallsTyped' /\ work'[w] = call /\ Alone(w) /\ AttemptsQuiet /\ MonthQuiet
        BY <1>4, <2>1, <2>2, <2>3, LogMoves
    <2>5. l \notin logs /\ logs' = logs \union {l}
        BY <1>7 DEF Logged, SameLog, LogSkip, CreateLog
    <2>6. Logs(w, l)
        BY <1>4, <2>1, <2>4, <2>5 DEF Logs
    <2>7. StoreTyped'
        <3>1. IsFiniteSet(logs')
            BY <2>5, FS_AddElement DEF Typed, StoreTyped
        <3> QED BY <1>1, <1>4, <3>1 DEF Typed, StoreTyped
    <2> QED BY <2>4, <2>6, <2>7 DEF Typed, Step, BooksStep, AttemptsStep, MonthStep
<1> QED BY <1>5, <1>6, <1>7

\* A log that was created is counted.
LEMMA CountingSteps ==
    ASSUME Typed, NEW w \in Workers, NEW l \in work[w].uncounted, CountLog(w, l)
    PROVE  Typed' /\ Step
<1> DEFINE call == [work[w] EXCEPT !.pc = IF @ = "COUNT" THEN "NEXT" ELSE @, !.uncounted = @ \ {l}]
<1>1. CountUp({KeyOf(l)}) /\ UNCHANGED <<event, logs, optOuts, runs, faults>>
    BY DEF CountLog
<1>2. Proper(work[w])
    BY DEF Typed, CallsTyped
<1>3. work[w].pc \in {"SKIP", "COUNT"} /\ work[w].event \in Events /\ l.subject.as # "month"
    BY <1>2 DEF Proper
<1>4. work' = [work EXCEPT ![w] = call]
    BY DEF CountLog, Typed, CallsTyped
<1>5. /\ DOMAIN call = Fields /\ call.pc = (IF work[w].pc = "COUNT" THEN "NEXT" ELSE work[w].pc)
      /\ call.event = work[w].event /\ call.todo = work[w].todo /\ call.attempts = work[w].attempts
      /\ call.unlogged = work[w].unlogged /\ call.uncounted = work[w].uncounted \ {l}
    BY <1>2 DEF Proper, Fields
<1> HIDE DEF call
<1>6. Proper(call)
    <2>1. IsFiniteSet(call.uncounted)
        BY <1>2, <1>5, FS_RemoveElement DEF Proper
    <2>2. work[w].pc = "COUNT" => call.uncounted = {}
        BY <1>2, <1>5 DEF Proper
    <2> QED BY <1>2, <1>3, <1>5, <2>1, <2>2 DEF Proper, Places
<1>7. \A k : Count(k)' = Count(k) + (IF k = KeyOf(l) THEN 1 ELSE 0)
    BY <1>1, RowsCountUp DEF Typed, StoreTyped
<1>8. \A of, c : MonthRow(of, c)' = MonthRow(of, c)
    <2> SUFFICES ASSUME NEW of, NEW c PROVE MonthRow(of, c)' = MonthRow(of, c)
        OBVIOUS
    <2> DEFINE key == Key([as |-> "month", of |-> of], c)
    <2>1. key # KeyOf(l)
        <3>1. key.subject.as = "month" /\ KeyOf(l).subject.as = l.subject.as
            BY DEF Key, KeyOf
        <3> QED BY <1>3, <3>1
    <2> HIDE DEF key
    <2>2. Count(key)' = Count(key)
        BY <1>7, <2>1 DEF Typed, StoreTyped
    <2> QED BY <2>2 DEF MonthRow, key
<1>9. /\ faults' = faults /\ faults' >= faults /\ runs' = runs /\ logs' = logs
      /\ \A d \in Events : event'[d].attempts = event[d].attempts
    BY <1>1 DEF Typed, StoreTyped
<1>10. \/ call.pc = work[w].pc
       \/ call.pc \notin Early \union Asking \union Sending
    BY <1>5 DEF Early, Asking, Sending
<1>11. CallsTyped' /\ work'[w] = call /\ Alone(w) /\ AttemptsQuiet /\ MonthQuiet
    BY <1>4, <1>5, <1>6, <1>8, <1>9, <1>10, LogMoves
<1>12. Counts(w, l)
    BY <1>5, <1>7, <1>9, <1>11 DEF Counts
<1>13. StoreTyped'
    <2>1. \A k : Count(k)' \in Nat
        <3> SUFFICES ASSUME NEW k PROVE Count(k)' \in Nat
            OBVIOUS
        <3>1. Count(k) \in Nat /\ Count(k)' = Count(k) + (IF k = KeyOf(l) THEN 1 ELSE 0)
            BY <1>7 DEF Typed, StoreTyped
        <3> QED BY <3>1
    <2> QED BY <1>1, <2>1 DEF Typed, StoreTyped
<1> QED BY <1>11, <1>12, <1>13 DEF Typed, Step, BooksStep, AttemptsStep, MonthStep

\* A skip, or all that a call has not counted, is lost.
LEMMA LossSteps ==
    ASSUME Typed, NEW w \in Workers, Crash(w) \/ \E l : LoseSkip(w, l)
    PROVE  Typed' /\ Step
<1>1. UNCHANGED <<event, ledger, logs, optOuts, runs>>
    BY DEF Crash, LoseSkip
<1>2. Proper(work[w]) /\ IsFiniteSet(work[w].uncounted)
    BY DEF Typed, CallsTyped, Proper
<1>3. /\ runs' = runs /\ logs' = logs
      /\ \A k : Count(k)' = Count(k)
      /\ \A of, c : MonthRow(of, c)' = MonthRow(of, c)
      /\ \A d \in Events : event'[d].attempts = event[d].attempts
    BY <1>1 DEF Count, MonthRow
<1>4. Cardinality({}) = 0 /\ Cardinality(work[w].uncounted) \in Nat /\ faults \in Nat
    BY <1>2, FS_EmptySet, FS_CardinalityType DEF Typed, StoreTyped
<1>5. CASE Crash(w)
    <2>1. /\ Done(w)
          /\ faults' = faults + (IF work[w].uncounted = {} THEN 1 ELSE Cardinality(work[w].uncounted))
        BY <1>5 DEF Crash
    <2>2. /\ CallsTyped' /\ Alone(w) /\ work'[w].uncounted = {}
          /\ \A v \in Workers : StaysEarly(v) /\ StaysIn(v, Asking) /\ StaysIn(v, Sending)
        BY <2>1, CallEnds DEF Typed
    <2>3. work[w].uncounted \ work'[w].uncounted = work[w].uncounted
        BY <2>2
    <2>4. faults' \in Nat /\ faults' >= faults /\ faults + Cardinality(work[w].uncounted) <= faults'
        <3>1. CASE work[w].uncounted = {}
            BY <1>4, <2>1, <3>1
        <3>2. CASE work[w].uncounted # {}
            BY <1>4, <2>1, <3>2
        <3> QED BY <3>1, <3>2
    <2>5. Loses(w) /\ AttemptsQuiet /\ MonthQuiet
        BY <1>3, <2>2, <2>3, <2>4 DEF Loses, AttemptsQuiet, MonthQuiet
    <2>6. StoreTyped'
        BY <1>1, <1>3, <2>4 DEF Typed, StoreTyped
    <2> QED BY <2>2, <2>5, <2>6 DEF Typed, Step, BooksStep, AttemptsStep, MonthStep
<1>6. ASSUME NEW l, LoseSkip(w, l)
      PROVE  Typed' /\ Step
    <2> DEFINE call == [work[w] EXCEPT !.unlogged = @ \ {l}, !.uncounted = @ \ {l}]
    <2>1. work' = [work EXCEPT ![w] = call] /\ faults' = faults + 1 /\ work[w].pc = "SKIP"
        <3>1. work' = [work EXCEPT ![w] = call]
            BY <1>6 DEF LoseSkip, Typed, CallsTyped
        <3> QED BY <1>6, <3>1 DEF LoseSkip, At
    <2>2. /\ DOMAIN call = Fields /\ call.pc = work[w].pc /\ call.event = work[w].event /\ call.todo = work[w].todo
          /\ call.attempts = work[w].attempts
          /\ call.unlogged = work[w].unlogged \ {l} /\ call.uncounted = work[w].uncounted \ {l}
        BY <1>2 DEF Proper, Fields
    <2> HIDE DEF call
    <2>3. Proper(call)
        <3>1. IsFiniteSet(call.uncounted)
            BY <1>2, <2>2, FS_Subset
        <3> QED BY <1>2, <2>1, <2>2, <3>1 DEF Proper
    <2>4. faults' \in Nat /\ faults' >= faults
        BY <1>4, <2>1
    <2>5. CallsTyped' /\ work'[w] = call /\ Alone(w) /\ AttemptsQuiet /\ MonthQuiet
        BY <1>3, <2>1, <2>2, <2>3, <2>4, LogMoves
    <2>6. Cardinality(work[w].uncounted \ work'[w].uncounted) <= 1
          /\ Cardinality(work[w].uncounted \ work'[w].uncounted) \in Nat
        <3>1. work[w].uncounted \ work'[w].uncounted \subseteq {l}
            BY <2>2, <2>5
        <3>2. IsFiniteSet({l}) /\ Cardinality({l}) = 1
            BY FS_Singleton
        <3> QED BY <3>1, <3>2, FS_Subset, FS_CardinalityType
    <2>7. Loses(w)
        BY <1>3, <1>4, <2>1, <2>2, <2>5, <2>6 DEF Loses
    <2>8. StoreTyped'
        BY <1>1, <1>3, <2>4 DEF Typed, StoreTyped
    <2> QED BY <2>5, <2>7, <2>8 DEF Typed, Step, BooksStep, AttemptsStep, MonthStep
<1> QED BY <1>5, <1>6

LEMMA ReserveSteps ==
    ASSUME Typed, NEW w \in Workers, Reserve(w)
    PROVE  Typed' /\ Step
<1> DEFINE e == work[w].event
           counted == Counted(e, work[w].todo)
<1>1. /\ work[w].pc = "ALLOWED" /\ ~OutOfAttempts(w) /\ Goto(w, "SEND")
      /\ UNCHANGED <<event, logs, optOuts, runs>>
    BY DEF Reserve, At
<1>2. PICK failed \in SUBSET counted :
            /\ faults' = faults + Cardinality(failed)
            /\ CountUp({Key(Subject("month", e), c) : c \in counted \ failed})
    BY DEF Reserve
<1> DEFINE keys == {Key(Subject("month", e), c) : c \in counted \ failed}
<1>3. Proper(work[w]) /\ work[w].uncounted = {}
    BY <1>1 DEF Typed, CallsTyped, Proper
<1>4. faults' \in Nat /\ faults' >= faults
    <2>1. failed \subseteq Channels
        BY <1>3 DEF Counted, Proper
    <2>2. IsFiniteSet(Channels)
        <3>1. IsFiniteSet({"EMAIL"}) /\ Channels = {"EMAIL"} \union {"WHATSAPP"}
            BY FS_Singleton DEF Channels
        <3> QED BY <3>1, FS_AddElement
    <2>3. Cardinality(failed) \in Nat
        BY <2>1, <2>2, FS_Subset, FS_CardinalityType
    <2> QED BY <1>2, <2>3 DEF Typed, StoreTyped
<1>5. CallsTyped' /\ MovesTo(w, "SEND")
    BY <1>1, <1>3, CallGoesTo DEF Typed, Places
<1>6. \A k : Count(k) \in Nat /\ Count(k)' = Count(k) + (IF k \in keys THEN 1 ELSE 0)
    <2>1. CountUp(keys)
        BY <1>2
    <2> HIDE DEF keys
    <2> QED BY <2>1, RowsCountUp DEF Typed, StoreTyped
<1>7. \A k : k.subject.as # "month" => Count(k)' = Count(k)
    <2> SUFFICES ASSUME NEW k, k.subject.as # "month" PROVE Count(k)' = Count(k)
        OBVIOUS
    <2>1. k \notin keys
        BY DEF Key, Subject
    <2> HIDE DEF keys
    <2> QED BY <1>6, <2>1
<1>8. ASSUME NEW of, NEW c
      PROVE  MonthRow(of, c)' = MonthRow(of, c) + (IF Whom[e] = of /\ c \in counted \ failed THEN 1 ELSE 0)
    <2> DEFINE key == Key([as |-> "month", of |-> of], c)
    <2>1. key \in keys <=> Whom[e] = of /\ c \in counted \ failed
        <3>1. \A d : Key(Subject("month", e), d) = key <=> Whom[e] = of /\ d = c
            BY DEF Key, Subject
        <3> HIDE DEF key
        <3> QED BY <3>1
    <2> HIDE DEF key, keys, counted
    <2>2. Count(key)' = Count(key) + (IF Whom[e] = of /\ c \in counted \ failed THEN 1 ELSE 0)
        BY <1>6, <2>1
    <2> QED BY <2>2 DEF MonthRow, key
<1>9. StoreTyped'
    <2>1. \A k : Count(k)' \in Nat
        <3> SUFFICES ASSUME NEW k PROVE Count(k)' \in Nat
            OBVIOUS
        <3> HIDE DEF keys
        <3>1. Count(k) \in Nat /\ Count(k)' = Count(k) + (IF k \in keys THEN 1 ELSE 0)
            BY <1>6
        <3> QED BY <3>1
    <2> QED BY <1>1, <1>4, <2>1 DEF Typed, StoreTyped
<1>10. BooksQuiet /\ AttemptsQuiet
    BY <1>1, <1>4, <1>5, <1>7 DEF BooksQuiet, AttemptsQuiet, MovesTo, Alone, StaysEarly, Early
<1>11. Reserves(w)
    <2> HIDE DEF keys
    <2> QED BY <1>1, <1>2, <1>5, <1>8 DEF Reserves, MovesTo
<1> QED BY <1>5, <1>9, <1>10, <1>11 DEF Typed, Step, BooksStep, AttemptsStep, MonthStep

LEMMA PostSteps ==
    ASSUME Typed, NEW w \in Workers, Post(w)
    PROVE  Typed' /\ Step
<1> DEFINE run == [event |-> work[w].event, channels |-> work[w].todo]
<1>1. /\ work[w].pc = "POST" /\ runs' = Append(runs, run)
      /\ faults' = faults \/ faults' = faults + 1
      /\ UNCHANGED <<event, ledger, logs, optOuts>>
    BY DEF Post, At
<1>2. PICK pc \in {"ANSWERED", "FAIL"} : Goto(w, pc)
    BY DEF Post
<1>3. run \in Run
    BY <1>1 DEF Typed, CallsTyped, Proper, Run
<1>4. pc \in Places \ {"IDLE"} /\ pc \in Places \ (Early \union Asking \union Sending)
    BY DEF Places, Early, Asking, Sending
<1>5. CallsTyped' /\ MovesTo(w, pc)
    BY <1>1, <1>2, <1>4, UncountedNothing, CallGoesTo DEF Typed
<1>6. /\ \A k : Count(k)' = Count(k)
      /\ \A of, c : MonthRow(of, c)' = MonthRow(of, c)
    BY <1>1 DEF Count, MonthRow
<1>7. StoreTyped' /\ faults' >= faults
    <2> HIDE DEF run
    <2>1. runs' \in Seq(Run)
        BY <1>1, <1>3 DEF Typed, StoreTyped
    <2> QED BY <1>1, <1>6, <2>1 DEF Typed, StoreTyped
<1>8. BooksQuiet /\ AttemptsQuiet
    BY <1>1, <1>4, <1>5, <1>6, <1>7, MovesQuietly DEF BooksQuiet, AttemptsQuiet
<1>9. Posts(w)
    BY <1>1, <1>4, <1>5, <1>6, <1>7 DEF Posts, MovesTo
<1> QED BY <1>5, <1>7, <1>8, <1>9 DEF Typed, Step, BooksStep, AttemptsStep, MonthStep

LEMMA StopSteps ==
    ASSUME Typed, NEW l \in logs, NEW given \in BOOLEAN, Stop(l, given)
    PROVE  Typed' /\ Step
<1>1. UNCHANGED <<event, ledger, logs, runs, work, faults>>
    BY DEF Stop
<1>2. CallsTyped' /\ \A w \in Workers : work'[w] = work[w]
    BY <1>1, CallsStay DEF Typed
<1>3. (\A k : Count(k)' = Count(k)) /\ \A of, c : MonthRow(of, c)' = MonthRow(of, c)
    BY <1>1 DEF Count, MonthRow
<1>4. StoreTyped' /\ faults' >= faults
    BY <1>1, <1>3 DEF Typed, StoreTyped
<1>5. Quiet
    BY <1>1, <1>2, <1>3, <1>4 DEF Quiet, BooksQuiet, AttemptsQuiet, MonthQuiet, StaysEarly, StaysIn
<1> QED BY <1>2, <1>4, <1>5, QuietIsAStep DEF Typed

LEMMA AllSteps ==
    ASSUME Typed, [ApNext]_apVars
    PROVE  Typed' /\ Step
<1>1. CASE \E e \in Events : Emit(e) \/ Elapse(e)
    BY <1>1, EventSteps
<1>2. ASSUME NEW w \in Workers, Dispatch(w)
      PROVE  Typed' /\ Step
    BY <1>2, ReadSteps, EventSteps, TurnSteps, PlanSteps, CreationSteps, LossSteps, SkipsEnd, StatusSteps,
       ReserveSteps, AttemptSteps, PostSteps, AnswerSteps
    DEF Dispatch, LogSkip
<1>3. ASSUME NEW w \in Workers, Callback(w)
      PROVE  Typed' /\ Step
    <2>1. CASE EndCallback(w)
        <3>1. Done(w) \/ Goto(w, "FAIL")
            BY <2>1 DEF EndCallback
        <3> QED BY <2>1, <3>1, StatusSteps, TurnSteps
    <2> QED BY <1>3, <2>1, CallbackBegins, LookSteps, CreationSteps DEF Callback
<1>4. ASSUME NEW l \in logs, NEW given \in BOOLEAN, Stop(l, given)
      PROVE  Typed' /\ Step
    BY <1>4, StopSteps
<1>5. CASE UNCHANGED apVars
    <2>1. UNCHANGED <<event, ledger, logs, optOuts, runs, work, faults>>
        BY <1>5 DEF apVars
    <2>2. CallsTyped' /\ \A w \in Workers : work'[w] = work[w]
        BY <2>1, CallsStay DEF Typed
    <2>3. Quiet /\ StoreTyped'
        BY <2>1, <2>2, StoreStays DEF Typed, Quiet, BooksQuiet, AttemptsQuiet, MonthQuiet, StaysEarly, StaysIn
    <2> QED BY <2>2, <2>3, QuietIsAStep DEF Typed
<1> QED BY <1>1, <1>2, <1>3, <1>4, <1>5, LossSteps, CountingSteps DEF ApNext

LEMMA TypedAtFirst == ApInit => Typed
<1> SUFFICES ASSUME ApInit PROVE Typed
    OBVIOUS
<1>1. IsFiniteSet(logs)
    BY FS_EmptySet DEF ApInit
<1>2. event \in [Events -> EventRecord]
    BY DEF ApInit, Statuses, EventRecord
<1>3. \A k : Count(k) = 0
    BY DEF ApInit, Count
<1>4. CallsTyped
    BY NoCallIsProper DEF ApInit, CallsTyped
<1>5. runs \in Seq(Run) /\ faults \in Nat
    BY DEF ApInit
<1> QED BY <1>1, <1>2, <1>3, <1>4, <1>5 DEF Typed, StoreTyped

\* Calls are about events, they count the logs that they create before they go on, and no log takes from the month
\* of a buyer (dispatchAutomationEvent, handleAutomationCallback, logCommunication).
THEOREM AutopilotInvariant == ApSpec => []Typed
<1>1. Typed /\ [ApNext]_apVars => Typed'
    BY AllSteps
<1> QED BY <1>1, TypedAtFirst, PTL DEF ApSpec

-----------------------------------------------------------------------------
(***************************************************************************)
(* The ledger counts each log once.                                        *)
(***************************************************************************)
LEMMA OneMoreOrLess ==
    ASSUME NEW S, IsFiniteSet(S), NEW x
    PROVE  /\ IsFiniteSet(S \union {x}) /\ IsFiniteSet(S \ {x})
           /\ Cardinality(S) \in Nat
           /\ x \notin S => Cardinality(S \union {x}) = Cardinality(S) + 1
           /\ x \in S => Cardinality(S \ {x}) = Cardinality(S) - 1
BY FS_AddElement, FS_RemoveElement, FS_CardinalityType

LEMMA Fewer ==
    ASSUME NEW S, IsFiniteSet(S), NEW T \in SUBSET S
    PROVE  /\ IsFiniteSet(T) /\ Cardinality(T) \in Nat /\ Cardinality(S) \in Nat
           /\ Cardinality(T) <= Cardinality(S)
BY FS_Subset, FS_CardinalityType

Settled(key) == {l \in logs : KeyOf(l) = key /\ \A w \in Workers : l \notin work[w].uncounted}

\* What a call has not counted has been created, and by no other call.
Apart ==
    /\ \A w \in Workers : work[w].uncounted \subseteq logs
    /\ \A v, w \in Workers : v # w => work[v].uncounted \intersect work[w].uncounted = {}

Balanced ==
    \A key : key.subject.as # "month" =>
        Count(key) <= Cardinality(Settled(key)) /\ Cardinality(Settled(key)) <= Count(key) + faults

LEMMA ApartKept ==
    ASSUME Typed, Apart, Step
    PROVE  Apart'
<1>1. CASE BooksQuiet
    BY <1>1 DEF BooksQuiet, Apart
<1>2. CASE \E w \in Workers : Loses(w)
    BY <1>2 DEF Loses, Alone, Apart
<1>3. CASE \E w \in Workers : \E l : Logs(w, l)
    BY <1>3 DEF Logs, Alone, Apart
<1>4. CASE \E w \in Workers : \E l : Counts(w, l)
    BY <1>4 DEF Counts, Alone, Apart
<1> QED BY <1>1, <1>2, <1>3, <1>4 DEF Step, BooksStep

LEMMA BalanceKept ==
    ASSUME Typed, Typed', Apart, Balanced, Step
    PROVE  Balanced'
<1> SUFFICES ASSUME NEW key, key.subject.as # "month"
    PROVE  /\ Count(key)' <= Cardinality(Settled(key)')
           /\ Cardinality(Settled(key)') <= Count(key)' + faults'
    BY DEF Balanced
<1> DEFINE settled == Settled(key)
           count == Count(key)
<1>1. count <= Cardinality(settled) /\ Cardinality(settled) <= count + faults
    BY DEF Balanced
<1>2. IsFiniteSet(settled) /\ Cardinality(settled) \in Nat /\ count \in Nat /\ faults \in Nat /\ faults' \in Nat
    <2>1. settled \subseteq logs
        BY DEF Settled
    <2> QED BY <2>1, FS_Subset, FS_CardinalityType DEF Typed, StoreTyped
<1>3. ASSUME BooksQuiet
      PROVE  settled' = settled /\ count' = count /\ faults' >= faults
    BY <1>3 DEF BooksQuiet, Settled
<1>4. ASSUME NEW w \in Workers, NEW l, Logs(w, l)
      PROVE  settled' = settled /\ count' = count /\ faults' = faults
    <2>1. /\ Alone(w) /\ count' = count /\ faults' = faults /\ l \notin logs /\ logs' = logs \union {l}
          /\ work'[w].uncounted = work[w].uncounted \union {l}
        BY <1>4 DEF Logs
    <2>2. settled' = settled
        BY <2>1 DEF Settled, Alone
    <2> QED BY <2>1, <2>2
<1>5. ASSUME NEW w \in Workers, NEW l, Counts(w, l)
      PROVE  /\ faults' = faults
             /\ \/ settled' = settled /\ count' = count
                \/ count' = count + 1 /\ Cardinality(settled') = Cardinality(settled) + 1
    <2>1. /\ Alone(w) /\ faults' = faults /\ logs' = logs
          /\ l \in work[w].uncounted /\ work'[w].uncounted = work[w].uncounted \ {l}
          /\ count' = count + (IF key = KeyOf(l) THEN 1 ELSE 0)
        BY <1>5 DEF Counts
    <2>2. l \in logs /\ \A v \in Workers \ {w} : l \notin work'[v].uncounted
        BY <2>1 DEF Apart, Alone
    <2>3. CASE key = KeyOf(l)
        <3>1. settled' = settled \union {l} /\ l \notin settled
            BY <2>1, <2>2, <2>3 DEF Settled, Alone
        <3> HIDE DEF settled, count
        <3> QED BY <1>2, <2>1, <2>3, <3>1, OneMoreOrLess
    <2>4. CASE key # KeyOf(l)
        <3>1. settled' = settled
            BY <2>1, <2>2, <2>4 DEF Settled, Alone
        <3> HIDE DEF settled, count
        <3> QED BY <1>2, <2>1, <2>4, <3>1
    <2> QED BY <2>3, <2>4
<1>6. ASSUME NEW w \in Workers, Loses(w)
      PROVE  /\ count' = count
             /\ Cardinality(settled') \in Nat
             /\ Cardinality(settled) <= Cardinality(settled')
             /\ Cardinality(settled') <= Cardinality(settled) + (faults' - faults)
    <2> DEFINE lost == work[w].uncounted \ work'[w].uncounted
               more == {l \in lost : KeyOf(l) = key}
    <2>1. /\ Alone(w) /\ logs' = logs /\ count' = count
          /\ work'[w].uncounted \subseteq work[w].uncounted
          /\ faults + Cardinality(lost) <= faults'
        BY <1>6 DEF Loses
    <2>2. lost \subseteq logs /\ \A l \in lost : \A v \in Workers : l \notin work'[v].uncounted
        BY <2>1 DEF Apart, Alone
    <2>3. settled' = settled \union more
        <3>1. ASSUME NEW l \in settled PROVE l \in settled'
            BY <2>1, <3>1 DEF Settled, Alone
        <3>2. ASSUME NEW l \in more PROVE l \in settled'
            BY <2>1, <2>2, <3>2 DEF Settled
        <3>3. ASSUME NEW l \in settled', l \notin settled PROVE l \in more
            BY <2>1, <3>3 DEF Settled, Alone
        <3> HIDE DEF settled, more
        <3> QED BY <3>1, <3>2, <3>3
    <2>4. IsFiniteSet(lost)
        <3>1. IsFiniteSet(work[w].uncounted)
            BY DEF Typed, CallsTyped, Proper
        <3> QED BY <3>1, FS_Subset
    <2> HIDE DEF settled, lost, count
    <2>5. /\ IsFiniteSet(more) /\ Cardinality(more) \in Nat /\ Cardinality(lost) \in Nat
          /\ Cardinality(more) <= Cardinality(lost)
        BY <2>4, Fewer
    <2> HIDE DEF more
    <2>6. IsFiniteSet(settled') /\ settled \subseteq settled'
        BY <1>2, <2>3, <2>5, FS_Union
    <2>7. Cardinality(settled') <= Cardinality(settled) + Cardinality(more)
        <3>1. Cardinality(settled \union more) =
                    Cardinality(settled) + Cardinality(more) - Cardinality(settled \intersect more)
            BY <1>2, <2>5, FS_Union
        <3>2. Cardinality(settled \intersect more) \in Nat
            BY <1>2, FS_Intersection, FS_CardinalityType
        <3> QED BY <1>2, <2>3, <2>5, <3>1, <3>2
    <2>8. Cardinality(settled') \in Nat /\ Cardinality(settled) <= Cardinality(settled')
        BY <2>6, Fewer
    <2> QED BY <1>2, <2>1, <2>5, <2>7, <2>8
<1> HIDE DEF settled, count
<1>7. count' <= Cardinality(settled') /\ Cardinality(settled') <= count' + faults'
    <2>1. CASE BooksQuiet
        BY <1>1, <1>2, <1>3, <2>1
    <2>2. ASSUME NEW w \in Workers, NEW l, Logs(w, l) \/ Counts(w, l)
          PROVE  count' <= Cardinality(settled') /\ Cardinality(settled') <= count' + faults'
        BY <1>1, <1>2, <1>4, <1>5, <2>2
    <2>3. ASSUME NEW w \in Workers, Loses(w)
          PROVE  count' <= Cardinality(settled') /\ Cardinality(settled') <= count' + faults'
        BY <1>1, <1>2, <1>6, <2>3
    <2> QED BY <2>1, <2>2, <2>3 DEF Step, BooksStep
<1> QED BY <1>7 DEF settled, count

LEMMA BalancedAtFirst == ApInit => Apart /\ Balanced
<1> SUFFICES ASSUME ApInit PROVE Apart /\ Balanced
    OBVIOUS
<1>1. \A w \in Workers : work[w].uncounted = {}
    BY NoCallIsProper DEF ApInit
<1>2. \A key : Settled(key) = {} /\ Count(key) = 0
    BY DEF ApInit, Settled, Count
<1>3. faults = 0
    BY DEF ApInit
<1> QED BY <1>1, <1>2, <1>3, FS_EmptySet DEF Apart, Balanced

\* The counts by which the caps of a day refuse are the numbers of logs under a recipient, a stand-in or the sender,
\* of messages and of skips: a callback that is delivered twice, at the same time or later, and a plan that is made
\* again add nothing, and what is missing is being counted or was lost with a call that failed (logCommunication).
THEOREM LedgerCounts == ApSpec => []LedgerCountsLogs
<1>1. Typed /\ Apart /\ Balanced /\ [ApNext]_apVars => (Typed /\ Apart /\ Balanced)'
    BY AllSteps, ApartKept, BalanceKept
<1>2. Balanced => LedgerCountsLogs
    BY DEF Balanced, LedgerCountsLogs, Settled
<1> QED BY <1>1, <1>2, TypedAtFirst, BalancedAtFirst, PTL DEF ApSpec

-----------------------------------------------------------------------------
(***************************************************************************)
(* Attempts.                                                               *)
(***************************************************************************)
\* The calls that read the event while it had attempts left, and have not made theirs yet.
Late(e) == {w \in Workers : work[w].event = e /\ work[w].pc \in Early /\ work[w].attempts < RetryLimit}

\* Once the limit is reached every further attempt is that of a late call, and there is none for the call
\* that reached it.
AttemptsKept ==
    /\ \A w \in Workers : work[w].pc = "SEND" => work[w].attempts < RetryLimit
    /\ \A e \in Events :
            event[e].attempts >= RetryLimit
                => event[e].attempts + Cardinality(Late(e)) <= RetryLimit + Cardinality(Workers) - 1

\* Where no attempt is made, only calls that find attempts left join the late ones.
LEMMA NoneJoinsLate ==
    ASSUME Typed, AttemptsKept, \A e \in Events : event'[e].attempts = event[e].attempts,
           \A w \in Workers : work'[w].pc = "SEND" => work'[w].attempts < RetryLimit,
           \A e \in Events : event[e].attempts >= RetryLimit => Late(e)' \subseteq Late(e)
    PROVE  AttemptsKept'
<1> SUFFICES ASSUME NEW e \in Events, event'[e].attempts >= RetryLimit
    PROVE  event'[e].attempts + Cardinality(Late(e)') <= RetryLimit + Cardinality(Workers) - 1
    BY DEF AttemptsKept
<1>1. event'[e].attempts = event[e].attempts /\ event[e].attempts \in Nat
    BY DEF Typed, StoreTyped, EventRecord
<1>2. Late(e)' \subseteq Late(e) /\ Late(e) \subseteq Workers
    BY <1>1 DEF Late
<1> DEFINE before == Late(e)
           after == Late(e)'
<1> HIDE DEF before, after
<1>3. /\ Cardinality(after) \in Nat /\ Cardinality(before) \in Nat /\ Cardinality(Workers) \in Nat
      /\ Cardinality(after) <= Cardinality(before)
    BY <1>2, Fewer, AutopilotAssumption DEF before, after
<1>4. event[e].attempts + Cardinality(before) <= RetryLimit + Cardinality(Workers) - 1
    BY <1>1 DEF AttemptsKept, before
<1>5. event'[e].attempts + Cardinality(after) <= RetryLimit + Cardinality(Workers) - 1
    BY <1>1, <1>3, <1>4, AutopilotAssumption
<1> QED BY <1>5 DEF after

LEMMA OneAttempt ==
    ASSUME Typed, AttemptsKept, NEW w \in Workers, Tries(w)
    PROVE  AttemptsKept'
<1> DEFINE e == work[w].event
<1>1. /\ Alone(w) /\ work[w].pc = "SEND" /\ work'[w].pc = "POST" /\ e \in Events
      /\ \A d \in Events : event'[d].attempts = event[d].attempts + (IF d = e THEN 1 ELSE 0)
    BY DEF Tries
<1>2. \A d \in Events : event[d].attempts \in Nat
    BY DEF Typed, StoreTyped, EventRecord
<1>3. \A v \in Workers : work'[v].pc = "SEND" => work'[v].attempts < RetryLimit
    BY <1>1 DEF Alone, AttemptsKept
<1>4. \A d \in Events : Late(d)' \subseteq Late(d) \ {w} /\ Late(d) \subseteq Workers
    BY <1>1 DEF Late, Alone, Early
<1>5. w \in Late(e)
    BY <1>1 DEF Late, Early, AttemptsKept
<1> SUFFICES ASSUME NEW d \in Events, event'[d].attempts >= RetryLimit
    PROVE  event'[d].attempts + Cardinality(Late(d)') <= RetryLimit + Cardinality(Workers) - 1
    BY <1>3 DEF AttemptsKept
<1> DEFINE before == Late(d)
           after == Late(d)'
           rest == before \ {w}
           others == Workers \ {w}
<1>6. /\ after \subseteq rest /\ rest \subseteq before /\ rest \subseteq others
      /\ before \subseteq Workers
    BY <1>4
<1>7. event[d].attempts >= RetryLimit =>
          event[d].attempts + Cardinality(before) <= RetryLimit + Cardinality(Workers) - 1
    BY DEF AttemptsKept
<1>8. d = e => w \in before
    BY <1>5
<1> HIDE DEF before, after
<1>9. IsFiniteSet(Workers) /\ IsFiniteSet(before) /\ IsFiniteSet(rest) /\ IsFiniteSet(others)
    BY <1>6, Fewer, AutopilotAssumption
<1>10. /\ Cardinality(after) \in Nat /\ Cardinality(before) \in Nat /\ Cardinality(Workers) \in Nat
       /\ Cardinality(after) <= Cardinality(rest) /\ Cardinality(rest) <= Cardinality(before)
       /\ Cardinality(rest) <= Cardinality(others) /\ Cardinality(rest) \in Nat
    BY <1>6, <1>9, Fewer
<1>11. Cardinality(others) = Cardinality(Workers) - 1 /\ (w \in before => Cardinality(rest) = Cardinality(before) - 1)
    BY <1>9, OneMoreOrLess
<1> HIDE DEF rest, others
<1>12. event'[d].attempts + Cardinality(after) <= RetryLimit + Cardinality(Workers) - 1
    <2>1. CASE d = e
        BY <1>1, <1>2, <1>7, <1>8, <1>10, <1>11, <2>1, AutopilotAssumption
    <2>2. CASE d # e
        BY <1>1, <1>2, <1>7, <1>10, <2>2, AutopilotAssumption
    <2> QED BY <2>1, <2>2
<1> QED BY <1>12 DEF after

LEMMA AttemptsStayKept ==
    ASSUME Typed, AttemptsKept, Step
    PROVE  AttemptsKept'
<1>1. CASE AttemptsQuiet
    <2>1. \A w \in Workers : work'[w].pc = "SEND" => work'[w].attempts < RetryLimit
        <3> SUFFICES ASSUME NEW w \in Workers, work'[w].pc = "SEND" PROVE work'[w].attempts < RetryLimit
            OBVIOUS
        <3>1. /\ work'[w].attempts = work[w].attempts
              /\ work[w].pc = "SEND" \/ ~OutOfAttempts(w)
            BY <1>1 DEF AttemptsQuiet, StaysEarly, Early
        <3>2. work[w].attempts \in Nat
            BY DEF Typed, CallsTyped, Proper
        <3> QED BY <3>1, <3>2, AutopilotAssumption DEF AttemptsKept, OutOfAttempts
    <2>2. \A e \in Events : Late(e)' \subseteq Late(e)
        BY <1>1 DEF AttemptsQuiet, StaysEarly, Late
    <2> QED BY <1>1, <2>1, <2>2, NoneJoinsLate DEF AttemptsQuiet
<1>2. ASSUME NEW w \in Workers, NEW e \in Events, Reads(w, e)
      PROVE  AttemptsKept'
    <2>1. /\ Alone(w) /\ work'[w].pc = "READ" /\ work'[w].event = e
          /\ \A d \in Events : event'[d].attempts = event[d].attempts
          /\ work'[w].attempts = event[e].attempts
        BY <1>2 DEF Reads
    <2>2. event[e].attempts \in Nat
        BY DEF Typed, StoreTyped, EventRecord
    <2>3. \A v \in Workers : work'[v].pc = "SEND" => work'[v].attempts < RetryLimit
        BY <2>1 DEF Alone, AttemptsKept
    <2>4. \A d \in Events : event[d].attempts >= RetryLimit => Late(d)' \subseteq Late(d)
        BY <2>1, <2>2, AutopilotAssumption DEF Alone, Late
    <2> QED BY <2>1, <2>3, <2>4, NoneJoinsLate
<1> QED BY <1>1, <1>2, OneAttempt DEF Step, AttemptsStep

LEMMA AttemptsKeptAtFirst == ApInit => AttemptsKept
<1> SUFFICES ASSUME ApInit PROVE AttemptsKept
    OBVIOUS
<1>1. \A e \in Events : Late(e) = {} /\ event[e].attempts = 0
    BY DEF ApInit, Late, NoCall, Early
<1>2. \A w \in Workers : work[w].pc # "SEND"
    BY DEF ApInit, NoCall
<1>3. Cardinality(Workers) \in Nat /\ Cardinality(Workers) # 0
    BY AutopilotAssumption, FS_EmptySet, FS_CardinalityType
<1>4. ASSUME NEW e \in Events
      PROVE  event[e].attempts + Cardinality(Late(e)) <= RetryLimit + Cardinality(Workers) - 1
    <2>1. Cardinality(Late(e)) = 0
        BY <1>1, FS_EmptySet
    <2> QED BY <1>1, <1>3, <2>1, AutopilotAssumption
<1> QED BY <1>2, <1>4 DEF AttemptsKept

\* However many calls overlap, those that read the event before its attempts were used up are all that can
\* exceed the limit: there is one attempt less than callers beyond it (dispatchAutomationEvent).
THEOREM AttemptsHaveALimit == ApSpec => []AttemptsAreLimited
<1>1. Typed /\ AttemptsKept /\ [ApNext]_apVars => (Typed /\ AttemptsKept)'
    BY AllSteps, AttemptsStayKept
<1>2. Typed /\ AttemptsKept => AttemptsAreLimited
    <2> SUFFICES ASSUME Typed, AttemptsKept, NEW e \in Events
        PROVE  event[e].attempts <= RetryLimit + Cardinality(Workers) - 1
        BY DEF AttemptsAreLimited
    <2>1. Late(e) \subseteq Workers /\ event[e].attempts \in Nat
        BY DEF Late, Typed, StoreTyped, EventRecord
    <2>2. Cardinality(Late(e)) \in Nat /\ Cardinality(Workers) \in Nat /\ Cardinality(Workers) # 0
        BY <2>1, Fewer, AutopilotAssumption, FS_EmptySet
    <2>3. event[e].attempts >= RetryLimit
            => event[e].attempts + Cardinality(Late(e)) <= RetryLimit + Cardinality(Workers) - 1
        BY DEF AttemptsKept
    <2> QED BY <2>1, <2>2, <2>3, AutopilotAssumption
<1> QED BY <1>1, <1>2, TypedAtFirst, AttemptsKeptAtFirst, PTL DEF ApSpec

-----------------------------------------------------------------------------
(***************************************************************************)
(* Messages to repeat buyers.                                              *)
(***************************************************************************)
\* The calls that are about to reserve a message of the month, and those that have and not sent it yet.
Wants(w, of, c) == Kind[work[w].event] = "repeat" /\ Whom[work[w].event] = of /\ c \in work[w].todo
Pending(of, c) == {w \in Workers : work[w].pc \in Asking /\ Wants(w, of, c)}
Reserved(of, c) == {w \in Workers : work[w].pc \in Sending /\ Wants(w, of, c)}

\* Once the month is full every further reservation is that of a pending call, and there is none for the call
\* that filled it.  A run had its reservation, or lost it.
MonthKept ==
    \A of, c :
        /\ MonthRow(of, c) >= WorkflowCap
                => MonthRow(of, c) + Cardinality(Pending(of, c)) <= WorkflowCap + Cardinality(Workers) - 1
        /\ Cardinality(RunsOf(of, c)) + Cardinality(Reserved(of, c)) <= MonthRow(of, c) + faults

LEMMA RunsAreFinite ==
    ASSUME Typed, NEW of, NEW c
    PROVE  IsFiniteSet(RunsOf(of, c)) /\ Cardinality(RunsOf(of, c)) \in Nat
<1>1. Len(runs) \in Nat /\ DOMAIN runs = 1..Len(runs)
    BY DEF Typed, StoreTyped
<1>2. IsFiniteSet(1..Len(runs))
    BY <1>1, FS_Interval
<1> QED BY <1>1, <1>2, FS_Subset, FS_CardinalityType DEF RunsOf

LEMMA MonthStaysKept ==
    ASSUME Typed, Typed', MonthKept, Step
    PROVE  MonthKept'
<1> SUFFICES ASSUME NEW of, NEW c
    PROVE  /\ MonthRow(of, c)' >= WorkflowCap
                => MonthRow(of, c)' + Cardinality(Pending(of, c)') <= WorkflowCap + Cardinality(Workers) - 1
           /\ Cardinality(RunsOf(of, c)') + Cardinality(Reserved(of, c)') <= MonthRow(of, c)' + faults'
    BY DEF MonthKept
<1> DEFINE row == MonthRow(of, c)
           pending == Pending(of, c)
           reserved == Reserved(of, c)
           started == RunsOf(of, c)
           bound == WorkflowCap + Cardinality(Workers) - 1
<1>1. /\ row >= WorkflowCap => row + Cardinality(pending) <= bound
      /\ Cardinality(started) + Cardinality(reserved) <= row + faults
    BY DEF MonthKept
<1>2. pending \subseteq Workers /\ reserved \subseteq Workers /\ pending' \subseteq Workers /\ reserved' \subseteq Workers
    BY DEF Pending, Reserved
<1>3. /\ row \in Nat /\ row' \in Nat /\ faults \in Nat /\ faults' \in Nat
      /\ WorkflowCap \in Nat /\ IsFiniteSet(Workers) /\ IsFiniteSet(started) /\ Cardinality(started) \in Nat
    BY RunsAreFinite, AutopilotAssumption DEF Typed, StoreTyped, MonthRow
<1>4. started' = started \/ runs' # runs
    BY DEF RunsOf
<1>5. ASSUME MonthQuiet
      PROVE  row' = row /\ faults' >= faults /\ started' = started /\ pending' \subseteq pending /\ reserved' \subseteq reserved
    BY <1>4, <1>5 DEF MonthQuiet, StaysIn, Pending, Reserved, Wants
<1>6. ASSUME NEW w \in Workers, Plans(w)
      PROVE  /\ row' = row /\ faults' = faults /\ started' = started /\ reserved' \subseteq reserved
             /\ row >= WorkflowCap => pending' \subseteq pending
    <2> DEFINE e == work[w].event
    <2>1. /\ Alone(w) /\ row' = row /\ faults' = faults /\ started' = started
          /\ work'[w].pc \notin Sending /\ work'[w].event = e /\ e \in Events
          /\ work'[w].todo = PlanFor(e).allowed
        BY <1>4, <1>6 DEF Plans
    <2>2. reserved' \subseteq reserved
        BY <2>1 DEF Reserved, Wants, Alone
    <2>3. ASSUME row >= WorkflowCap, w \in pending' PROVE FALSE
        <3>1. Kind[e] = "repeat" /\ Whom[e] = of /\ c \in PlanFor(e).allowed
            BY <2>1, <2>3 DEF Pending, Wants
        <3>2. c \in Channels
            BY <2>1, <3>1, PlansUseChannels
        <3>3. Subject("month", e) = [as |-> "month", of |-> of]
            BY <3>1 DEF Subject
        <3>4. c \in MonthFull(e)
            BY <2>3, <3>2, <3>3 DEF MonthFull, MonthRow
        <3> QED BY <2>1, <3>1, <3>4, FullMonthsAreLeftOut
    <2>4. row >= WorkflowCap => pending' \subseteq pending
        BY <2>1, <2>3 DEF Pending, Wants, Alone
    <2> QED BY <2>1, <2>2, <2>4
<1>7. ASSUME NEW w \in Workers, Reserves(w)
      PROVE  /\ started' = started /\ pending' = pending \ {w}
             /\ \/ w \in pending /\ row' = row + 1 /\ faults' >= faults /\ reserved' \subseteq reserved \union {w}
                \/ row' = row /\ faults' >= faults + 1 /\ reserved' \subseteq reserved \union {w}
                \/ row' = row /\ faults' >= faults /\ reserved' \subseteq reserved
    <2> DEFINE e == work[w].event
    <2>1. /\ Alone(w) /\ started' = started
          /\ work[w].pc = "ALLOWED" /\ work'[w].pc = "SEND" /\ work'[w].event = e /\ work'[w].todo = work[w].todo
        BY <1>4, <1>7 DEF Reserves
    <2>2. PICK failed \in SUBSET Counted(e, work[w].todo) :
            /\ faults' = faults + Cardinality(failed)
            /\ row' = row + (IF Whom[e] = of /\ c \in Counted(e, work[w].todo) \ failed THEN 1 ELSE 0)
        BY <1>7 DEF Reserves
    <2>3. pending' = pending \ {w}
        BY <2>1 DEF Pending, Wants, Alone, Asking
    <2>4. /\ reserved' \subseteq reserved \union {w}
          /\ ~Wants(w, of, c) => reserved' \subseteq reserved
        BY <2>1 DEF Reserved, Wants, Alone
    <2>5. Wants(w, of, c) <=> Whom[e] = of /\ c \in Counted(e, work[w].todo)
        BY DEF Wants, Counted
    <2>6. IsFiniteSet(failed) /\ Cardinality(failed) \in Nat
        <3>1. failed \subseteq Channels
            BY DEF Counted, Typed, CallsTyped, Proper
        <3>2. IsFiniteSet(Channels)
            <4>1. IsFiniteSet({"EMAIL"}) /\ Channels = {"EMAIL"} \union {"WHATSAPP"}
                BY FS_Singleton DEF Channels
            <4> QED BY <4>1, FS_AddElement
        <3> QED BY <3>1, <3>2, Fewer
    <2>7. CASE ~Wants(w, of, c)
        <3> HIDE DEF row
        <3> QED BY <1>3, <2>1, <2>2, <2>3, <2>4, <2>5, <2>6, <2>7
    <2>8. CASE Wants(w, of, c) /\ c \notin failed
        <3>1. w \in pending
            BY <2>1, <2>8 DEF Pending, Asking
        <3> HIDE DEF row
        <3> QED BY <1>3, <2>1, <2>2, <2>3, <2>4, <2>5, <2>6, <2>8, <3>1
    <2>9. CASE Wants(w, of, c) /\ c \in failed
        <3>1. Cardinality(failed) # 0
            BY <2>6, <2>9, FS_EmptySet
        <3> HIDE DEF row
        <3> QED BY <1>3, <2>1, <2>2, <2>3, <2>4, <2>5, <2>6, <2>9, <3>1
    <2> QED BY <2>7, <2>8, <2>9
<1>8. ASSUME NEW w \in Workers, Posts(w)
      PROVE  /\ row' = row /\ faults' >= faults /\ pending' \subseteq pending
             /\ \/ started' = started /\ reserved' \subseteq reserved
                \/ Cardinality(started') = Cardinality(started) + 1 /\ w \in reserved /\ reserved' \subseteq reserved \ {w}
    <2> DEFINE run == [event |-> work[w].event, channels |-> work[w].todo]
    <2>1. /\ Alone(w) /\ row' = row /\ faults' >= faults
          /\ work[w].pc = "POST" /\ work'[w].pc \notin Asking \union Sending
          /\ runs' = Append(runs, run)
        BY <1>8 DEF Posts
    <2>2. pending' \subseteq pending /\ reserved' \subseteq reserved \ {w}
        BY <2>1 DEF Pending, Reserved, Wants, Alone
    <2>3. /\ Len(runs) \in Nat /\ DOMAIN runs = 1..Len(runs) /\ DOMAIN runs' = 1..(Len(runs) + 1)
          /\ runs'[Len(runs) + 1] = run /\ \A r \in DOMAIN runs : runs'[r] = runs[r]
        <3> HIDE DEF run
        <3> QED BY <2>1 DEF Typed, StoreTyped
    <2>4. CASE Wants(w, of, c)
        <3>1. started' = started \union {Len(runs) + 1} /\ Len(runs) + 1 \notin started
            BY <2>3, <2>4 DEF RunsOf, Wants
        <3>2. w \in reserved
            BY <2>1, <2>4 DEF Reserved, Sending
        <3> HIDE DEF started
        <3> QED BY <1>3, <2>1, <2>2, <3>1, <3>2, OneMoreOrLess
    <2>5. CASE ~Wants(w, of, c)
        <3>1. started' = started
            BY <2>3, <2>5 DEF RunsOf, Wants
        <3> QED BY <2>1, <2>2, <3>1
    <2> QED BY <2>4, <2>5
<1> HIDE DEF row, pending, reserved, started
<1>9. /\ Cardinality(pending) \in Nat /\ Cardinality(pending') \in Nat /\ Cardinality(reserved) \in Nat
      /\ Cardinality(reserved') \in Nat /\ Cardinality(Workers) \in Nat /\ IsFiniteSet(pending) /\ IsFiniteSet(reserved)
    BY <1>2, <1>3, Fewer
<1>10. /\ row' >= WorkflowCap => row' + Cardinality(pending') <= bound
       /\ Cardinality(started') + Cardinality(reserved') <= row' + faults'
    <2>1. CASE MonthQuiet
        <3>1. Cardinality(pending') <= Cardinality(pending) /\ Cardinality(reserved') <= Cardinality(reserved)
            BY <1>5, <1>9, <2>1, Fewer
        <3> QED BY <1>1, <1>3, <1>5, <1>9, <2>1, <3>1
    <2>2. ASSUME NEW w \in Workers, Plans(w)
          PROVE  /\ row' >= WorkflowCap => row' + Cardinality(pending') <= bound
                 /\ Cardinality(started') + Cardinality(reserved') <= row' + faults'
        <3>1. /\ row >= WorkflowCap => Cardinality(pending') <= Cardinality(pending)
              /\ Cardinality(reserved') <= Cardinality(reserved)
            BY <1>6, <1>9, <2>2, Fewer
        <3> QED BY <1>1, <1>3, <1>6, <1>9, <2>2, <3>1
    <2>3. ASSUME NEW w \in Workers, Reserves(w)
          PROVE  /\ row' >= WorkflowCap => row' + Cardinality(pending') <= bound
                 /\ Cardinality(started') + Cardinality(reserved') <= row' + faults'
        <3> DEFINE others == Workers \ {w}
        <3>1. IsFiniteSet(others) /\ Cardinality(others) = Cardinality(Workers) - 1
            BY <1>3, OneMoreOrLess
        <3>2. pending \ {w} \subseteq others /\ pending \ {w} \subseteq pending
            BY <1>2
        <3> HIDE DEF others
        <3>3. /\ Cardinality(pending') <= Cardinality(others) /\ Cardinality(pending') <= Cardinality(pending)
              /\ w \in pending => Cardinality(pending') = Cardinality(pending) - 1
            BY <1>7, <1>9, <2>3, <3>1, <3>2, Fewer, OneMoreOrLess
        <3>4. /\ reserved' \subseteq reserved \union {w} => Cardinality(reserved') <= Cardinality(reserved) + 1
              /\ reserved' \subseteq reserved => Cardinality(reserved') <= Cardinality(reserved)
            <4>1. /\ IsFiniteSet(reserved \union {w})
                  /\ Cardinality(reserved \union {w}) = Cardinality(reserved) \/ Cardinality(reserved \union {w}) = Cardinality(reserved) + 1
                <5>1. w \in reserved => reserved \union {w} = reserved
                    OBVIOUS
                <5> QED BY <1>9, <5>1, OneMoreOrLess
            <4> QED BY <1>9, <4>1, Fewer
        <3>5. Cardinality(started') + Cardinality(reserved') <= row' + faults'
            BY <1>1, <1>3, <1>7, <1>9, <2>3, <3>4
        <3>6. row' >= WorkflowCap => row' + Cardinality(pending') <= bound
            <4>1. \/ row' = row
                  \/ w \in pending /\ row' = row + 1
                BY <1>7, <2>3
            <4> QED BY <1>1, <1>3, <1>9, <3>1, <3>3, <4>1
        <3> QED BY <3>5, <3>6
    <2>4. ASSUME NEW w \in Workers, Posts(w)
          PROVE  /\ row' >= WorkflowCap => row' + Cardinality(pending') <= bound
                 /\ Cardinality(started') + Cardinality(reserved') <= row' + faults'
        <3>1. Cardinality(pending') <= Cardinality(pending)
            BY <1>8, <1>9, <2>4, Fewer
        <3>2. /\ w \in reserved => IsFiniteSet(reserved \ {w}) /\ Cardinality(reserved \ {w}) = Cardinality(reserved) - 1
              /\ reserved' \subseteq reserved \ {w} /\ w \in reserved => Cardinality(reserved') <= Cardinality(reserved) - 1
              /\ reserved' \subseteq reserved => Cardinality(reserved') <= Cardinality(reserved)
            <4>1. IsFiniteSet(reserved \ {w}) /\ (w \in reserved => Cardinality(reserved \ {w}) = Cardinality(reserved) - 1)
                BY <1>9, OneMoreOrLess
            <4> QED BY <1>9, <4>1, Fewer
        <3> QED BY <1>1, <1>3, <1>8, <1>9, <2>4, <3>1, <3>2
    <2> QED BY <2>1, <2>2, <2>3, <2>4 DEF Step, MonthStep
<1> QED BY <1>10 DEF row, pending, reserved, started

LEMMA MonthKeptAtFirst == ApInit => MonthKept
<1> SUFFICES ASSUME ApInit PROVE MonthKept
    OBVIOUS
<1>1. \A of, c : Pending(of, c) = {} /\ Reserved(of, c) = {} /\ RunsOf(of, c) = {}
    BY NoCallIsProper DEF ApInit, Pending, Reserved, RunsOf, Asking, Sending
<1>2. \A of, c : MonthRow(of, c) = 0
    BY DEF ApInit, MonthRow, Count
<1>3. Cardinality(Workers) \in Nat /\ Cardinality(Workers) # 0 /\ faults = 0
    BY AutopilotAssumption, FS_EmptySet, FS_CardinalityType DEF ApInit
<1>4. Cardinality({}) = 0
    BY FS_EmptySet
<1>5. ASSUME NEW of, NEW c
      PROVE  /\ MonthRow(of, c) + Cardinality(Pending(of, c)) <= WorkflowCap + Cardinality(Workers) - 1
                    \/ MonthRow(of, c) < WorkflowCap
             /\ Cardinality(RunsOf(of, c)) + Cardinality(Reserved(of, c)) <= MonthRow(of, c) + faults
    <2>1. Cardinality(Pending(of, c)) = 0 /\ Cardinality(Reserved(of, c)) = 0 /\ Cardinality(RunsOf(of, c)) = 0
        BY <1>1, <1>4
    <2> QED BY <1>2, <1>3, <2>1, AutopilotAssumption
<1>6. \A of, c : MonthRow(of, c) < WorkflowCap => ~(MonthRow(of, c) >= WorkflowCap)
    BY <1>2, AutopilotAssumption
<1> QED BY <1>5, <1>6 DEF MonthKept

\* However many calls and retries of a buyer's events overlap, no more messages go out by a channel than the month
\* allows, but for one less than callers, that had read the ledger before it was full, and for reservations that were
\* lost (checkRepeatBuyerMonthlyFrequency, reserveRepeatBuyerMonthlyFrequency).
THEOREM MonthlyCapIsKept == ApSpec => []MonthlyCapHolds
<1>1. Typed /\ MonthKept /\ [ApNext]_apVars => (Typed /\ MonthKept)'
    BY AllSteps, MonthStaysKept
<1>2. Typed /\ MonthKept => MonthlyCapHolds
    <2> SUFFICES ASSUME Typed, MonthKept, NEW of, NEW c
        PROVE  Cardinality(RunsOf(of, c)) <= WorkflowCap + Cardinality(Workers) - 1 + faults
        BY DEF MonthlyCapHolds
    <2> DEFINE row == MonthRow(of, c)
               pending == Pending(of, c)
               reserved == Reserved(of, c)
               started == RunsOf(of, c)
    <2>1. /\ row >= WorkflowCap => row + Cardinality(pending) <= WorkflowCap + Cardinality(Workers) - 1
          /\ Cardinality(started) + Cardinality(reserved) <= row + faults
        BY DEF MonthKept
    <2>2. row \in Nat /\ faults \in Nat /\ Cardinality(started) \in Nat
        BY RunsAreFinite DEF Typed, StoreTyped, MonthRow
    <2>3. pending \subseteq Workers /\ reserved \subseteq Workers
        BY DEF Pending, Reserved
    <2> HIDE DEF row, pending, reserved, started
    <2>4. /\ Cardinality(pending) \in Nat /\ Cardinality(reserved) \in Nat
          /\ Cardinality(Workers) \in Nat /\ Cardinality(Workers) # 0
        BY <2>3, Fewer, AutopilotAssumption, FS_EmptySet
    <2>5. Cardinality(started) <= WorkflowCap + Cardinality(Workers) - 1 + faults
        BY <2>1, <2>2, <2>4, AutopilotAssumption
    <2> QED BY <2>5 DEF started
<1> QED BY <1>1, <1>2, TypedAtFirst, MonthKeptAtFirst, PTL DEF ApSpec
=============================================================================
