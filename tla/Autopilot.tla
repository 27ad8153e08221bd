-------------------------------- MODULE Autopilot --------------------------------
(***************************************************************************)
(* The life of automation events: emission, dispatch to the workflow       *)
(* engine, the callbacks of its runs, the answers of the WhatsApp provider *)
(* and the retry of an operator.  One merchant; the ledger's windows (a    *)
(* day, a month) do not end.  Nothing runs in a transaction: a dispatch    *)
(* reads, plans, reserves and posts in steps of its own.                   *)
(***************************************************************************)
EXTENDS AutopilotPlan, Integers, Sequences

CONSTANTS
    Events,         \* emitted events
    Kind,           \* event -> a kind of AutopilotPlan, "digest" (merchant), "marketing" or "router"
    Situation,      \* event -> what its plan reads, but for opt-outs and caps
    Whom,           \* event -> the buyer, cart or merchant it is about
    MarketingSubject,   \* event -> whom getMarketingSubject finds: "phone", "mail", "ref" or "none"
    Recipients,     \* whom a result can name: subset of {"own", "sender", "ref"}
    Workers,        \* concurrent calls
    Urls,           \* states of the dispatch address met: subset of {"set", "disabled", "missing"}
    RetryLimit,     \* retryLimit of the workflow
    DailyCap,       \* dailyBuyerMessageCap
    WorkflowCap,    \* frequencyCap of the workflow, or the monthly maximum
    MaxRuns, MaxCalls, MaxRetries, MaxFaults    \* bounds

ASSUME AutopilotAssumption ==
    /\ IsFiniteSet(Workers) /\ Workers # {}
    /\ RetryLimit \in Nat /\ WorkflowCap \in Nat
    /\ Kind \in [Events -> Kinds \union {"digest", "marketing", "router"}]
    /\ Situation \in [Events -> Read]
    /\ MarketingSubject \in [Events -> {"phone", "mail", "ref", "none"}]
    /\ Recipients \subseteq {"own", "sender", "ref"}

VARIABLES
    event,      \* AutomationEvent: [status, attempts, wait]; wait: nextAttemptAt lies ahead
    ledger,     \* AutomationFrequencyLedger: key -> count, of the rows there are
    logs,       \* CommunicationLog: set of [event, run, channel, reason, subject]; a skip has no run
    optOuts,    \* AutomationOptOut: set of <<subject, channel>>
    runs,       \* runs of the workflow engine: sequence of [event, channels]
    work,       \* worker -> the call it is in
    calls, retries, faults

apVars == <<event, ledger, logs, optOuts, runs, work, calls, retries, faults>>

\* Whom a row is about: the "phone" or "mail" of whom the event is about, a stand-in for both
\* ("ref": buyer:..., cart:...; "event": event:...), the "sender" of the shop; "cart" is
\* abandoned-checkout:..., "month" repeat-buyer:... in a month.
Subject(as, e) ==
    [as |-> as, of |-> CASE as = "sender" -> "shop" [] as = "event" -> e [] OTHER -> Whom[e]]
Key(subject, c) == [subject |-> subject, channel |-> c]

Address(c) == IF c = "WHATSAPP" THEN "phone" ELSE "mail"

\* The idempotency key of a log is its message, or its event, channel and reason to be skipped.
SameLog(l, m) == l.event = m.event /\ l.run = m.run /\ l.channel = m.channel /\ l.reason = m.reason
Logged(l) == \E m \in logs : SameLog(l, m)
KeyOf(l) == Key(l.subject, l.channel)

Count(key) == IF key \in DOMAIN ledger THEN ledger[key] ELSE 0
CountUp(keys) == ledger' = [k \in DOMAIN ledger \union keys |-> Count(k) + (IF k \in keys THEN 1 ELSE 0)]

\* unlogged, uncounted: the logs that logCommunication is about to create, and then to count.
NoCall == [pc |-> "IDLE", event |-> "none", run |-> 0, todo |-> {}, attempts |-> 0, ok |-> FALSE, first |-> FALSE,
           unlogged |-> {}, uncounted |-> {}]

ApInit ==
    /\ event = [e \in Events |-> [status |-> "NONE", attempts |-> 0, wait |-> FALSE]]
    /\ ledger = <<>> /\ logs = {} /\ optOuts = {} /\ runs = <<>>
    /\ work = [w \in Workers |-> NoCall]
    /\ calls = 0 /\ retries = 0 /\ faults = 0

At(w, pc) == work[w].pc = pc
Goto(w, pc) == work' = [work EXCEPT ![w].pc = pc]
Done(w) == work' = [work EXCEPT ![w] = NoCall]
SetStatus(e, status, wait) == event' = [event EXCEPT ![e].status = status, ![e].wait = wait]

-----------------------------------------------------------------------------
(* Emission, and the passing of nextAttemptAt *)

\* emitAutomationEvent: an upsert; emitted again, an event only gets its payload anew.
Emit(e) ==
    /\ event[e].status = "NONE"
    /\ SetStatus(e, "QUEUED", FALSE)
    /\ UNCHANGED <<ledger, logs, optOuts, runs, work, calls, retries, faults>>

Elapse(e) ==
    /\ event[e].wait
    /\ event' = [event EXCEPT ![e].wait = FALSE]
    /\ UNCHANGED <<ledger, logs, optOuts, runs, work, calls, retries, faults>>

-----------------------------------------------------------------------------
(* dispatchAutomationEvent *)

Dispatchable(e) == event[e].status \in {"QUEUED", "FAILED"} /\ ~event[e].wait

ReadEvent(w, e) ==
    /\ At(w, "IDLE") /\ Dispatchable(e) /\ Len(runs) < MaxRuns
    /\ work' = [work EXCEPT ![w] = [NoCall EXCEPT !.pc = "READ", !.event = e, !.attempts = event[e].attempts]]
    /\ UNCHANGED <<event, ledger, logs, optOuts, runs, calls, retries, faults>>

\* Whom consent is asked of and, but for carts and repeat buyers, the cap is kept for: plain
\* marketing finds one subject for whatever channel.
Asked(e, c) == Subject(CASE Kind[e] = "digest" -> "mail" [] Kind[e] = "marketing" -> MarketingSubject[e]
                         [] OTHER -> Address(c), e)

\* checkConsent
OptedOut(e) == {c \in Channels : <<Asked(e, c), c>> \in optOuts}

\* checkFrequencyCap and checkRepeatBuyerMonthlyFrequency
MonthFull(e) == {c \in Channels : Count(Key(Subject("month", e), c)) >= WorkflowCap}
CartFull(e) ==
    {c \in Channels : Count(Key(Subject("cart", e), c)) >= DailyCap \/ Count(Key(Subject("cart", e), c)) >= WorkflowCap}
DayFull(e) == {c \in Channels : Count(Key(Asked(e, c), c)) >= DailyCap}

Capped(e) == CASE Kind[e] = "repeat" -> MonthFull(e) [] Kind[e] = "cart" -> CartFull(e) [] OTHER -> DayFull(e)

Seen(e) == [Situation[e] EXCEPT !.optedOut = OptedOut(e), !.capped = Capped(e)]

Planned(e) == Kind[e] \in Kinds
\* The merchant's digest and plain marketing ask for consent where there is somebody to ask.
Checked(e) ==
    \/ Kind[e] = "digest" /\ "EMAIL" \in Situation[e].to
    \/ Kind[e] = "marketing" /\ MarketingSubject[e] # "none"

PlainPlan(e, c) == Plan(IF Checked(e) /\ c \in OptedOut(e) THEN {} ELSE {c}, {})

\* The digest goes by mail; plain marketing and router events by the first channel of the workflow.
PlanFor(e) ==
    CASE Kind[e] = "digest" -> PlainPlan(e, "EMAIL")
      [] Kind[e] \in {"marketing", "router"} -> PlainPlan(e, "WHATSAPP")
      [] OTHER -> PlanOf(Kind[e], Seen(e))

Held(e) == IF Planned(e) THEN HeldInQuietHours(Kind[e], Seen(e)) ELSE Checked(e)

\* The skips of a plan are logged under a stand-in, those of a notice under the phone if there is one.
SkipLogs(e) ==
    LET as == IF Kind[e] # "notice" THEN "ref" ELSE IF "WHATSAPP" \in Situation[e].to THEN "phone" ELSE "event"
    IN  {[event |-> e, run |-> 0, channel |-> skip.channel, reason |-> skip.reason, subject |-> Subject(as, e)] :
            skip \in PlanFor(e).skipped}

\* Autopilot, the workflow or its control is switched off.
FindPaused(w) ==
    /\ At(w, "READ")
    /\ Goto(w, "CANCEL")
    /\ UNCHANGED <<event, ledger, logs, optOuts, runs, calls, retries, faults>>

\* The digest asks consent, hours and cap before it looks at the attempts, the other kinds after.
AsksFirst(e) == Kind[e] = "digest"

\* Mutant of OutOfAttempts: the limit itself still counts as an attempt left.
OutOfAttemptsLate(w) == work[w].attempts > RetryLimit

OutOfAttempts(w) == work[w].attempts >= RetryLimit

\* Plain events meet the daily cap after the quiet hours.
CapRefuses(w) == Checked(work[w].event) /\ work[w].todo \intersect Capped(work[w].event) # {}

FindCapped(w) ==
    /\ At(w, "ALLOWED") /\ CapRefuses(w)
    /\ Goto(w, "CANCEL")
    /\ UNCHANGED <<event, ledger, logs, optOuts, runs, calls, retries, faults>>

FindOutOfAttempts(w) ==
    /\ OutOfAttempts(w)
    /\ IF AsksFirst(work[w].event) THEN At(w, "ALLOWED") /\ ~CapRefuses(w) ELSE At(w, "READ")
    /\ Goto(w, "FAIL")
    /\ UNCHANGED <<event, ledger, logs, optOuts, runs, calls, retries, faults>>

Verdict(channels) == IF channels = {} THEN "CANCEL" ELSE "ALLOWED"

MakePlan(w) ==
    LET e == work[w].event
        allowed == PlanFor(e).allowed
        skips == SkipLogs(e)
    IN  /\ At(w, "READ")
        /\ OutOfAttempts(w) => AsksFirst(e)
        /\ work' = [work EXCEPT ![w].pc = IF skips = {} THEN Verdict(allowed) ELSE "SKIP", ![w].todo = allowed,
                                ![w].unlogged = skips]
        /\ UNCHANGED <<event, ledger, logs, optOuts, runs, calls, retries, faults>>

\* logCommunication of a skip: the skips of a plan are logged side by side.
LogSkip(w, l) ==
    /\ At(w, "SKIP") /\ l \in work[w].unlogged
    /\ logs' = IF Logged(l) THEN logs ELSE logs \union {l}
    /\ work' = [work EXCEPT ![w].unlogged = @ \ {l}, ![w].uncounted = IF Logged(l) THEN @ ELSE @ \union {l}]
    /\ UNCHANGED <<event, ledger, optOuts, runs, calls, retries, faults>>

\* It fails before or after the log is there, and the failure is swallowed.
LoseSkip(w, l) ==
    /\ At(w, "SKIP") /\ l \in work[w].unlogged \union work[w].uncounted /\ faults < MaxFaults
    /\ work' = [work EXCEPT ![w].unlogged = @ \ {l}, ![w].uncounted = @ \ {l}]
    /\ faults' = faults + 1
    /\ UNCHANGED <<event, ledger, logs, optOuts, runs, calls, retries>>

EndSkips(w) ==
    /\ At(w, "SKIP") /\ work[w].unlogged = {} /\ work[w].uncounted = {}
    /\ Goto(w, Verdict(work[w].todo))
    /\ UNCHANGED <<event, ledger, logs, optOuts, runs, calls, retries, faults>>

\* Quiet hours that are respected: the event is put back for an hour.
PutBack(w) ==
    /\ At(w, "ALLOWED") /\ Held(work[w].event)
    /\ SetStatus(work[w].event, "QUEUED", TRUE)
    /\ Done(w)
    /\ UNCHANGED <<ledger, logs, optOuts, runs, calls, retries, faults>>

\* Mutant of Counted: nothing is reserved.
CountedNever(e, channels) == {}

Counted(e, channels) == IF Kind[e] = "repeat" THEN channels ELSE {}

\* reserveRepeatBuyerMonthlyFrequency for each channel; a failure is swallowed.
Reserve(w) ==
    LET e == work[w].event
    IN  /\ At(w, "ALLOWED") /\ ~OutOfAttempts(w) /\ ~CapRefuses(w)
        /\ \E failed \in SUBSET Counted(e, work[w].todo) :
              /\ faults + Cardinality(failed) <= MaxFaults
              /\ faults' = faults + Cardinality(failed)
              /\ CountUp({Key(Subject("month", e), c) : c \in Counted(e, work[w].todo) \ failed})
        /\ Goto(w, "SEND")
        /\ UNCHANGED <<event, logs, optOuts, runs, calls, retries>>

\* No dispatch address: disabled leaves the event queued, a missing or malformed one fails it.
Unconfigured(w, url) ==
    /\ At(w, "SEND") /\ url # "set"
    /\ SetStatus(work[w].event, IF url = "disabled" THEN "QUEUED" ELSE "FAILED", url = "missing")
    /\ Done(w)
    /\ UNCHANGED <<ledger, logs, optOuts, runs, calls, retries, faults>>

StartDispatch(w) ==
    LET e == work[w].event
    IN  /\ At(w, "SEND")
        /\ event' = [event EXCEPT ![e].status = "PROCESSING", ![e].attempts = @ + 1]
        /\ Goto(w, "POST")
        /\ UNCHANGED <<ledger, logs, optOuts, runs, calls, retries, faults>>

\* The engine starts a run; it may answer too late.
Post(w) ==
    LET e == work[w].event
    IN  /\ At(w, "POST") /\ Len(runs) < MaxRuns
        /\ runs' = Append(runs, [event |-> e, channels |-> work[w].todo])
        /\ \/ Goto(w, "ANSWERED") /\ UNCHANGED faults
           \/ Goto(w, "FAIL") /\ faults < MaxFaults /\ faults' = faults + 1
        /\ UNCHANGED <<event, ledger, logs, optOuts, calls, retries>>

\* The engine refuses, or is not reached.
FailPost(w) ==
    /\ At(w, "POST") /\ faults < MaxFaults
    /\ Goto(w, "FAIL") /\ faults' = faults + 1
    /\ UNCHANGED <<event, ledger, logs, optOuts, runs, calls, retries>>

ReadStatus(w) ==
    /\ At(w, "ANSWERED")
    /\ work' = [work EXCEPT ![w].pc = "MARK", ![w].first = event[work[w].event].status = "PROCESSING"]
    /\ UNCHANGED <<event, ledger, logs, optOuts, runs, calls, retries, faults>>

MarkDispatched(w) ==
    /\ At(w, "MARK")
    /\ event' = IF work[w].first THEN [event EXCEPT ![work[w].event].status = "DISPATCHED"] ELSE event
    /\ Done(w)
    /\ UNCHANGED <<ledger, logs, optOuts, runs, calls, retries, faults>>

Cancel(w) ==
    /\ At(w, "CANCEL")
    /\ event' = [event EXCEPT ![work[w].event].status = "CANCELLED"]
    /\ Done(w)
    /\ UNCHANGED <<ledger, logs, optOuts, runs, calls, retries, faults>>

\* markAutomationEventFailed reads the attempts and then writes; past them there is no wait.
ReadAttempts(w) ==
    /\ At(w, "FAIL")
    /\ work' = [work EXCEPT ![w].pc = "FAILING", ![w].attempts = event[work[w].event].attempts]
    /\ UNCHANGED <<event, ledger, logs, optOuts, runs, calls, retries, faults>>

MarkFailed(w) ==
    LET limit == IF work[w].run # 0 THEN 3 ELSE RetryLimit
    IN  /\ At(w, "FAILING")
        /\ SetStatus(work[w].event, "FAILED", work[w].attempts < limit)
        /\ Done(w)
        /\ UNCHANGED <<ledger, logs, optOuts, runs, calls, retries, faults>>

\* retryAutomationEvent: queued again whatever has become of it, and dispatched.
Retry(w, e) ==
    /\ At(w, "IDLE") /\ event[e].status # "NONE" /\ retries < MaxRetries
    /\ SetStatus(e, "QUEUED", FALSE)
    /\ retries' = retries + 1
    /\ UNCHANGED <<ledger, logs, optOuts, runs, work, calls, faults>>

-----------------------------------------------------------------------------
(* handleAutomationCallback: the results of a run, logged one by one *)

StartCallback(w, r, ok) ==
    /\ At(w, "IDLE") /\ calls < MaxCalls
    /\ calls' = calls + 1
    /\ work' = [work EXCEPT ![w] = [NoCall EXCEPT !.pc = "NEXT", !.event = runs[r].event, !.run = r, !.ok = ok,
                    !.todo = runs[r].channels, !.first = event[runs[r].event].status # "PROCESSED"]]
    /\ UNCHANGED <<event, ledger, logs, optOuts, runs, retries, faults>>

\* The message of a run by a channel, logged under the recipient that the result names, else
\* the sender, else a stand-in.
MessageLog(w, c, as) ==
    [event |-> work[w].event, run |-> work[w].run, channel |-> c, reason |-> "MESSAGE",
     subject |-> Subject(IF as = "own" THEN Address(c) ELSE as, work[w].event)]

LookForLog(w, c, as) ==
    LET log == MessageLog(w, c, as)
    IN  /\ At(w, "NEXT") /\ c \in work[w].todo
        /\ work' = [work EXCEPT ![w].pc = IF Logged(log) THEN "NEXT" ELSE "CREATE", ![w].todo = @ \ {c},
                                ![w].unlogged = IF Logged(log) THEN {} ELSE {log}]
        /\ UNCHANGED <<event, ledger, logs, optOuts, runs, calls, retries, faults>>

\* Mutant of CreateLog: a log that is there already is counted once more.
CreateOrCount(w, l) ==
    /\ At(w, "CREATE") /\ l \in work[w].unlogged
    /\ work' = [work EXCEPT ![w].pc = "COUNT", ![w].unlogged = {}, ![w].uncounted = {l}]
    /\ logs' = IF Logged(l) THEN logs ELSE logs \union {l}
    /\ UNCHANGED <<event, ledger, optOuts, runs, calls, retries, faults>>

\* The key is unique: the second creation throws, and the callback is answered with an error.
CreateLog(w, l) ==
    /\ At(w, "CREATE") /\ l \in work[w].unlogged
    /\ IF Logged(l)
       THEN Done(w) /\ UNCHANGED logs
       ELSE /\ work' = [work EXCEPT ![w].pc = "COUNT", ![w].unlogged = {}, ![w].uncounted = {l}]
            /\ logs' = logs \union {l}
    /\ UNCHANGED <<event, ledger, optOuts, runs, calls, retries, faults>>

\* The ledger counts a log that was created, of a message or of a skip.
CountLog(w, l) ==
    /\ l \in work[w].uncounted
    /\ CountUp({KeyOf(l)})
    /\ work' = [work EXCEPT ![w].pc = IF @ = "COUNT" THEN "NEXT" ELSE @, ![w].uncounted = @ \ {l}]
    /\ UNCHANGED <<event, logs, optOuts, runs, calls, retries, faults>>

\* markAutomationEventProcessed unless the event had been processed when the callback came in; a failed
\* run fails the event whatever it is.
EndCallback(w) ==
    /\ At(w, "NEXT") /\ work[w].todo = {}
    /\ IF work[w].ok
       THEN /\ event' = IF work[w].first THEN [event EXCEPT ![work[w].event].status = "PROCESSED"] ELSE event
            /\ Done(w)
       ELSE Goto(w, "FAIL") /\ UNCHANGED event
    /\ UNCHANGED <<ledger, logs, optOuts, runs, calls, retries, faults>>

\* handleWhatsappProviderCallback with a STOP: filed under the recipient of the call, else of the log.
Stop(l, given) ==
    /\ l \in logs /\ l.run # 0 /\ l.channel = "WHATSAPP"
    /\ optOuts' = optOuts \union {<<IF given THEN Subject("phone", l.event) ELSE l.subject, "WHATSAPP">>}
    /\ UNCHANGED <<event, ledger, logs, runs, work, calls, retries, faults>>

\* The process of a call ends; each log that it leaves uncounted is a fault.
Crash(w) ==
    LET cost == IF work[w].uncounted = {} THEN 1 ELSE Cardinality(work[w].uncounted)
    IN  /\ ~At(w, "IDLE") /\ faults + cost <= MaxFaults
        /\ faults' = faults + cost
        /\ Done(w)
        /\ UNCHANGED <<event, ledger, logs, optOuts, runs, calls, retries>>

Dispatch(w) ==
    \/ \E e \in Events : ReadEvent(w, e) \/ Retry(w, e)
    \/ FindPaused(w) \/ FindOutOfAttempts(w) \/ MakePlan(w) \/ PutBack(w) \/ FindCapped(w) \/ Reserve(w)
    \/ \E l \in work[w].unlogged \union work[w].uncounted : LogSkip(w, l) \/ LoseSkip(w, l)
    \/ EndSkips(w)
    \/ \E url \in Urls : Unconfigured(w, url)
    \/ "set" \in Urls /\ StartDispatch(w)
    \/ Post(w) \/ FailPost(w) \/ ReadStatus(w) \/ MarkDispatched(w) \/ Cancel(w)
    \/ ReadAttempts(w) \/ MarkFailed(w)

Callback(w) ==
    \/ \E r \in DOMAIN runs, ok \in BOOLEAN : StartCallback(w, r, ok)
    \/ \E c \in Channels, as \in Recipients : LookForLog(w, c, as)
    \/ \E l \in work[w].unlogged : CreateLog(w, l)
    \/ EndCallback(w)

ApNext ==
    \/ \E e \in Events : Emit(e) \/ Elapse(e)
    \/ \E w \in Workers : Dispatch(w) \/ Callback(w) \/ Crash(w) \/ \E l \in work[w].uncounted : CountLog(w, l)
    \/ \E l \in logs, given \in BOOLEAN : Stop(l, given)

ApSpec == ApInit /\ [][ApNext]_apVars

-----------------------------------------------------------------------------
(* Properties *)

\* However many calls and callbacks of one event overlap, its run is not tried more often than the limit of the
\* workflow, but for the calls that had read the event before another one started it (dispatchAutomationEvent).
AttemptsAreLimited ==
    \A e \in Events : event[e].attempts <= RetryLimit + Cardinality(Workers) - 1

\* A repeat buyer is written to by a channel as often as the month allows, but for the calls that had read the
\* ledger before another one reserved its message, and for reservations that failed: whichever of the buyer's
\* events, retries and overlapping calls the messages are of (checkRepeatBuyerMonthlyFrequency,
\* reserveRepeatBuyerMonthlyFrequency).
RunsOf(of, c) ==
    {r \in DOMAIN runs : Kind[runs[r].event] = "repeat" /\ Whom[runs[r].event] = of /\ c \in runs[r].channels}
MonthlyCapHolds ==
    \A of \in {Whom[e] : e \in Events}, c \in Channels :
        Cardinality(RunsOf(of, c)) <= WorkflowCap + Cardinality(Workers) - 1 + faults

\* The ledger that the daily cap reads counts each log once, of a message and of a skip alike, under whomever it
\* was logged: callbacks that are delivered twice, at the same time or after another, and plans that are made again
\* add nothing.  Only what a call has not counted yet, or never will because it failed, is missing (logCommunication).
LedgerCountsLogs ==
    \A key \in DOMAIN ledger \union {KeyOf(l) : l \in logs} :
        LET settled == {l \in logs : KeyOf(l) = key /\ \A w \in Workers : l \notin work[w].uncounted}
        IN  key.subject.as # "month" =>
                Count(key) <= Cardinality(settled) /\ Cardinality(settled) <= Count(key) + faults

\* An event whose callback was completed is not set back by the answer of the dispatch that started its run.
CompletedEventsStay ==
    [][\A e \in Events : event[e].status = "PROCESSED" => event'[e].status # "DISPATCHED"]_apVars
=============================================================================
