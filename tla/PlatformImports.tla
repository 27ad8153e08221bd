---------------------------- MODULE PlatformImports ----------------------------
(***************************************************************************)
(* Orders read from the store platforms: import jobs and their items, the  *)
(* continuation cursor of a connection, the conversion of items into       *)
(* orders, and the webhook events that are staged as jobs.  One merchant   *)
(* with one usable connection; nothing here runs in a transaction, so      *)
(* every database call is a step of its own.                               *)
(***************************************************************************)
EXTENDS Integers, Sequences, FiniteSets, NoValue

CONSTANTS
    Payloads,   \* order payloads of the platform
    OrderIn,    \* payload -> the external order id it maps to, or Null when it does not map
    Pages,      \* the pages of a read-only fetch: sequence of sequences of payloads
    Posted,     \* the payloads a job can be created with: set of sequences
    JobModes,   \* modes that jobs are created in
    Events,     \* verified webhook deliveries; each stages the payload EventPayload
    EventPayload,
    Workers,    \* concurrent calls of the services
    MaxJobs, MaxItems, MaxFaults    \* bounds; no run starts once there are MaxItems items

VARIABLES
    jobs,           \* platform_import_jobs: sequence of [mode, status, cursor]
    items,          \* platform_import_items: sequence of [job, order, status, error, converted]
    imports,        \* platform_order_imports: sequence of [order, converted]
    cursors,        \* platform_import_cursors: sequence of [page, more]
    latest,         \* the cursor with the greatest updatedAt, or 0
    ordersMade,     \* external order ids with an order; unique per merchant
    conversions,    \* platform_import_conversions: set of [item, order]
    deliveries,     \* event -> [status, job]
    work,           \* worker -> the call it is in
    faults

platformVars == <<jobs, items, imports, cursors, latest, ordersMade, conversions, deliveries, work, faults>>

NoCall == [pc |-> "IDLE", job |-> 0, todo |-> <<>>, seen |-> {}, found |-> FALSE, listed |-> {}, at |-> 0,
           next |-> 0, more |-> FALSE, event |-> Null, item |-> Null]

PlatformInit ==
    /\ jobs = <<>> /\ items = <<>> /\ imports = <<>>
    /\ cursors = <<>> /\ latest = 0
    /\ ordersMade = {} /\ conversions = {}
    /\ deliveries = [e \in Events |-> [status |-> "VERIFIED", job |-> 0]]
    /\ work = [w \in Workers |-> NoCall]
    /\ faults = 0

At(w, pc) == work[w].pc = pc
Goto(w, pc) == work' = [work EXCEPT ![w].pc = pc]
Done(w) == work' = [work EXCEPT ![w] = NoCall]

terminalJobStatuses == {"COMPLETED", "FAILED", "CANCELLED"}
HasImport(order) == \E i \in DOMAIN imports : imports[i].order = order
JobItems(j) == {i \in DOMAIN items : items[i].job = j}

-----------------------------------------------------------------------------
(* Creating a job and its items *)

NewJob(mode, cursor) == [mode |-> mode, status |-> "QUEUED", cursor |-> cursor]

\* createPlatformImportJob; a read-only fetch takes its payloads when it runs.
CreateJob(w, mode, payloads) ==
    /\ At(w, "IDLE") /\ Len(jobs) < MaxJobs
    /\ jobs' = Append(jobs, NewJob(mode, 0))
    /\ work' = IF mode = "READ" THEN work
               ELSE [work EXCEPT ![w] = [NoCall EXCEPT !.pc = "CHECK", !.job = Len(jobs) + 1, !.todo = payloads]]
    /\ UNCHANGED <<items, imports, cursors, latest, ordersMade, conversions, deliveries, faults>>

\* The lookups of createMappedOrDuplicateItem: an import of the order, or an item of another job.
KnownElsewhere(j, order) ==
    HasImport(order) \/ \E i \in DOMAIN items : items[i].order = order /\ items[i].job # j

CheckItem(w) ==
    /\ At(w, "CHECK") /\ work[w].todo # <<>>
    /\ LET order == OrderIn[Head(work[w].todo)]
       IN  work' = [work EXCEPT ![w].pc = "CREATE", ![w].found = order # Null /\ KnownElsewhere(work[w].job, order)]
    /\ UNCHANGED <<jobs, items, imports, cursors, latest, ordersMade, conversions, deliveries, faults>>

NewItem(w) ==
    LET payload == Head(work[w].todo)
        item(order, status) == [job |-> work[w].job, order |-> order, status |-> status,
                                error |-> status # "MAPPED", converted |-> FALSE]
    IN  CASE payload \in work[w].seen -> item(Null, "DUPLICATE")
          [] payload \notin work[w].seen /\ OrderIn[payload] = Null -> item(Null, "FAILED")
          [] OTHER -> item(OrderIn[payload], IF work[w].found THEN "DUPLICATE" ELSE "MAPPED")

CreateItem(w) ==
    /\ At(w, "CREATE")
    /\ items' = Append(items, NewItem(w))
    /\ work' = [work EXCEPT ![w].pc = "CHECK", ![w].todo = Tail(@), ![w].seen = @ \cup {Head(work[w].todo)},
                            ![w].found = FALSE]
    /\ UNCHANGED <<jobs, imports, cursors, latest, ordersMade, conversions, deliveries, faults>>

\* refreshJobCounts writes the status that the job had when it was created.
RefreshJob(w) ==
    /\ At(w, "CHECK") /\ work[w].todo = <<>> /\ jobs[work[w].job].mode # "READ"
    /\ jobs' = [jobs EXCEPT ![work[w].job].status = "QUEUED"]
    /\ IF work[w].event = Null THEN Done(w) ELSE Goto(w, "STAGED")
    /\ UNCHANGED <<items, imports, cursors, latest, ordersMade, conversions, deliveries, faults>>

-----------------------------------------------------------------------------
(* Webhook events *)

\* stagePlatformWebhookEventImport: a dry-run job with the payload of a verified event.
StageEvent(w, e) ==
    /\ At(w, "IDLE") /\ Len(jobs) < MaxJobs
    /\ deliveries[e].status = "VERIFIED"
    /\ jobs' = Append(jobs, NewJob("DRY_RUN", 0))
    /\ work' = [work EXCEPT ![w] = [NoCall EXCEPT !.pc = "CHECK", !.job = Len(jobs) + 1,
                                                  !.todo = <<EventPayload[e]>>, !.event = e]]
    /\ UNCHANGED <<items, imports, cursors, latest, ordersMade, conversions, deliveries, faults>>

EventStaged(w) ==
    /\ At(w, "STAGED")
    /\ deliveries' = [deliveries EXCEPT ![work[w].event] = [status |-> "STAGED_FOR_IMPORT", job |-> work[w].job]]
    /\ Done(w)
    /\ UNCHANGED <<jobs, items, imports, cursors, latest, ordersMade, conversions, faults>>

-----------------------------------------------------------------------------
(* Cancelling and running a job *)

CheckCancel(w, j) ==
    /\ At(w, "IDLE") /\ jobs[j].status \notin terminalJobStatuses
    /\ work' = [work EXCEPT ![w] = [NoCall EXCEPT !.pc = "CANCEL", !.job = j]]
    /\ UNCHANGED <<jobs, items, imports, cursors, latest, ordersMade, conversions, deliveries, faults>>

CancelJob(w) ==
    /\ At(w, "CANCEL")
    /\ jobs' = [jobs EXCEPT ![work[w].job].status = "CANCELLED"]
    /\ Done(w)
    /\ UNCHANGED <<items, imports, cursors, latest, ordersMade, conversions, deliveries, faults>>

CheckRun(w, j) ==
    /\ At(w, "IDLE") /\ Len(items) < MaxItems
    /\ jobs[j].status \notin terminalJobStatuses
    /\ work' = [work EXCEPT ![w] = [NoCall EXCEPT !.pc = "RUN", !.job = j]]
    /\ UNCHANGED <<jobs, items, imports, cursors, latest, ordersMade, conversions, deliveries, faults>>

\* The job is running, whatever became of it since it was read.
StartRun(w) ==
    /\ At(w, "RUN")
    /\ jobs' = [jobs EXCEPT ![work[w].job].status = "RUNNING"]
    /\ Goto(w, CASE jobs[work[w].job].mode = "READ"    -> "FETCH"
                 [] jobs[work[w].job].mode = "IMPORT"  -> "LIST"
                 [] OTHER -> "FINISH")
    /\ UNCHANGED <<items, imports, cursors, latest, ordersMade, conversions, deliveries, faults>>

\* The mapped items of an import job, as they are now; they are gone through as they were created.
ListItems(w) ==
    /\ At(w, "LIST")
    /\ work' = [work EXCEPT ![w].pc = "LOOKUP",
                            ![w].listed = {i \in JobItems(work[w].job) : items[i].status = "MAPPED"}]
    /\ UNCHANGED <<jobs, items, imports, cursors, latest, ordersMade, conversions, deliveries, faults>>

Current(w) == CHOOSE i \in work[w].listed : \A k \in work[w].listed : i <= k
NextListed(w) == work' = [work EXCEPT ![w].pc = "LOOKUP", ![w].listed = @ \ {Current(w)}]

\* Mutant of LookUpImport: the order's items in other jobs count as well.
LookUpAnyItem(w) ==
    /\ At(w, "LOOKUP") /\ work[w].listed # {}
    /\ Goto(w, IF KnownElsewhere(work[w].job, items[Current(w)].order) THEN "MARK_DUPLICATE" ELSE "IMPORT")
    /\ UNCHANGED <<jobs, items, imports, cursors, latest, ordersMade, conversions, deliveries, faults>>

LookUpImport(w) ==
    /\ At(w, "LOOKUP") /\ work[w].listed # {}
    /\ Goto(w, IF HasImport(items[Current(w)].order) THEN "MARK_DUPLICATE" ELSE "IMPORT")
    /\ UNCHANGED <<jobs, items, imports, cursors, latest, ordersMade, conversions, deliveries, faults>>

MarkDuplicate(w) ==
    /\ At(w, "MARK_DUPLICATE")
    /\ items' = [items EXCEPT ![Current(w)].status = "DUPLICATE", ![Current(w)].error = TRUE]
    /\ NextListed(w)
    /\ UNCHANGED <<jobs, imports, cursors, latest, ordersMade, conversions, deliveries, faults>>

ImportOrder(w) ==
    /\ At(w, "IMPORT")
    /\ imports' = Append(imports, [order |-> items[Current(w)].order, converted |-> FALSE])
    /\ Goto(w, "MARK_IMPORTED")
    /\ UNCHANGED <<jobs, items, cursors, latest, ordersMade, conversions, deliveries, faults>>

MarkImported(w) ==
    /\ At(w, "MARK_IMPORTED")
    /\ items' = [items EXCEPT ![Current(w)].status = "IMPORTED", ![Current(w)].error = FALSE]
    /\ NextListed(w)
    /\ UNCHANGED <<jobs, imports, cursors, latest, ordersMade, conversions, deliveries, faults>>

\* finalImportJobStatus, finalReadFetchStatus
FinalStatus(j) ==
    IF JobItems(j) # {} /\ \A i \in JobItems(j) : items[i].status = "FAILED" THEN "FAILED" ELSE "COMPLETED"

FinishRun(w) ==
    /\ At(w, "FINISH") \/ (At(w, "LOOKUP") /\ work[w].listed = {})
    /\ jobs' = [jobs EXCEPT ![work[w].job].status = FinalStatus(work[w].job)]
    /\ Done(w)
    /\ UNCHANGED <<items, imports, cursors, latest, ordersMade, conversions, deliveries, faults>>

-----------------------------------------------------------------------------
(* Read-only fetches and the cursor *)

PageOf(j) == IF jobs[j].cursor = 0 THEN 1 ELSE jobs[j].cursor

\* fetchPlatformOrdersReadOnly: a page, and the cursor of the next one if there is one.
Fetch(w) ==
    /\ At(w, "FETCH")
    /\ LET page == PageOf(work[w].job)
       IN  work' = [work EXCEPT ![w].pc = "CHECK", ![w].todo = Pages[page], ![w].more = page < Len(Pages),
                                ![w].next = IF page < Len(Pages) THEN page + 1 ELSE 0]
    /\ UNCHANGED <<jobs, items, imports, cursors, latest, ordersMade, conversions, deliveries, faults>>

\* The fetch, or the writing of its items, fails: the job does, and its cursor is offered again.
FailRead(w) ==
    /\ At(w, "READ_FAILED")
    /\ jobs' = [jobs EXCEPT ![work[w].job].status = "FAILED"]
    /\ work' = [work EXCEPT ![w].pc = "FIND_CURSOR", ![w].next = jobs[work[w].job].cursor, ![w].more = FALSE,
                            ![w].found = TRUE]
    /\ UNCHANGED <<items, imports, cursors, latest, ordersMade, conversions, deliveries, faults>>

FinishItems(w) ==
    /\ At(w, "CHECK") /\ work[w].todo = <<>> /\ jobs[work[w].job].mode = "READ"
    /\ Goto(w, "FIND_CURSOR")
    /\ UNCHANGED <<jobs, items, imports, cursors, latest, ordersMade, conversions, deliveries, faults>>

\* upsertReadFetchCursor: the connection's latest cursor is looked up ...
FindCursor(w) ==
    /\ At(w, "FIND_CURSOR")
    /\ work' = [work EXCEPT ![w].pc = "WRITE_CURSOR", ![w].at = latest]
    /\ UNCHANGED <<jobs, items, imports, cursors, latest, ordersMade, conversions, deliveries, faults>>

\* ... and written, or created when there was none.  `found` tells a failed read.
WriteCursor(w) ==
    /\ At(w, "WRITE_CURSOR")
    /\ LET cursor == [page |-> work[w].next, more |-> work[w].more]
           at == work[w].at
       IN  /\ cursors' = IF at = 0 THEN Append(cursors, cursor) ELSE [cursors EXCEPT ![at] = cursor]
           /\ latest' = IF at = 0 THEN Len(cursors) + 1 ELSE at
    /\ IF work[w].found THEN Done(w) ELSE Goto(w, "FINISH")
    /\ UNCHANGED <<jobs, items, imports, ordersMade, conversions, deliveries, faults>>

\* createAndRunNextPageJob refuses a cursor that has no more.
Continuable(c) == cursors[c].more /\ cursors[c].page # 0

ContinueCursor(w, c) ==
    /\ At(w, "IDLE") /\ Len(jobs) < MaxJobs /\ Continuable(c)
    /\ jobs' = Append(jobs, NewJob("READ", cursors[c].page))
    /\ work' = [work EXCEPT ![w] = [NoCall EXCEPT !.pc = "RUN", !.job = Len(jobs) + 1]]
    /\ UNCHANGED <<items, imports, cursors, latest, ordersMade, conversions, deliveries, faults>>

ResetCursor(c) ==
    /\ cursors' = [cursors EXCEPT ![c] = [page |-> 0, more |-> FALSE]]
    /\ latest' = c
    /\ UNCHANGED <<jobs, items, imports, ordersMade, conversions, deliveries, work, faults>>

-----------------------------------------------------------------------------
(* Conversion *)

Converted(i) == \E c \in conversions : c.item = i
ConvertedSibling(i) ==
    \E c \in conversions : c.item # i /\ items[c.item].order = items[i].order

\* evaluatePlatformImportConversionEligibility, for payloads that have all an order needs.
Convertible(i) ==
    /\ ~Converted(i) /\ ~items[i].converted
    /\ items[i].order # Null
    /\ items[i].status \in {"MAPPED", "IMPORTED"} /\ ~items[i].error

\* The reads of convertPlatformImportItem; the item is not read again.
CheckConvert(w, i) ==
    /\ At(w, "IDLE") /\ Convertible(i)
    /\ items[i].order \notin ordersMade /\ ~ConvertedSibling(i)
    /\ work' = [work EXCEPT ![w] = [NoCall EXCEPT !.pc = "ORDER", !.at = i, !.item = items[i]]]
    /\ UNCHANGED <<jobs, items, imports, cursors, latest, ordersMade, conversions, deliveries, faults>>

\* (merchantId, externalOrderId) is unique.
MayCreateOrder(order) == order \notin ordersMade

ConvertOrder(w) ==
    /\ At(w, "ORDER")
    /\ LET order == work[w].item.order
       IN  \/ /\ MayCreateOrder(order)
              /\ ordersMade' = ordersMade \cup {order}
              /\ Goto(w, "ORDER_IMPORT")
           \/ /\ ~MayCreateOrder(order)
              /\ Done(w)
              /\ UNCHANGED ordersMade
    /\ UNCHANGED <<jobs, items, imports, cursors, latest, conversions, deliveries, faults>>

\* ensurePlatformOrderImport: an import of the order is looked for (`next`, 0 when there is none) ...
FindImport(w) ==
    /\ At(w, "ORDER_IMPORT")
    /\ LET known == {i \in DOMAIN imports : imports[i].order = work[w].item.order}
       IN  \E at \in IF known = {} THEN {0} ELSE known :
               work' = [work EXCEPT ![w].pc = "WRITE_IMPORT", ![w].next = at]
    /\ UNCHANGED <<jobs, items, imports, cursors, latest, ordersMade, conversions, deliveries, faults>>

\* ... and updated, or created: nothing keeps a second import of the order out.
WriteImport(w) ==
    /\ At(w, "WRITE_IMPORT")
    /\ imports' = IF work[w].next = 0
                  THEN Append(imports, [order |-> work[w].item.order, converted |-> TRUE])
                  ELSE [imports EXCEPT ![work[w].next].converted = TRUE]
    /\ Goto(w, "ITEM")
    /\ UNCHANGED <<jobs, items, cursors, latest, ordersMade, conversions, deliveries, faults>>

UpdateItem(w) ==
    /\ At(w, "ITEM")
    /\ items' = [items EXCEPT ![work[w].at].converted = TRUE,
                              ![work[w].at].status = IF work[w].item.status = "MAPPED" THEN "IMPORTED"
                                                     ELSE work[w].item.status]
    /\ Goto(w, "CONVERSION")
    /\ UNCHANGED <<jobs, imports, cursors, latest, ordersMade, conversions, deliveries, faults>>

RecordConversion(w) ==
    /\ At(w, "CONVERSION")
    /\ conversions' = conversions \cup {[item |-> work[w].at, order |-> work[w].item.order]}
    /\ Done(w)
    /\ UNCHANGED <<jobs, items, imports, cursors, latest, ordersMade, deliveries, faults>>

-----------------------------------------------------------------------------
\* A call of a worker fails; a read-only fetch records that, any other call ends.
Reading(w) == work[w].pc \in {"FETCH", "CHECK", "CREATE", "FIND_CURSOR"} /\ jobs[work[w].job].mode = "READ"
                 /\ ~work[w].found

Fail(w) ==
    /\ ~At(w, "IDLE") /\ faults < MaxFaults
    /\ faults' = faults + 1
    /\ IF Reading(w) THEN Goto(w, "READ_FAILED") ELSE Done(w)
    /\ UNCHANGED <<jobs, items, imports, cursors, latest, ordersMade, conversions, deliveries>>

\* The process ends.
EndCall(w) ==
    /\ ~At(w, "IDLE") /\ faults < MaxFaults
    /\ faults' = faults + 1
    /\ Done(w)
    /\ UNCHANGED <<jobs, items, imports, cursors, latest, ordersMade, conversions, deliveries>>

-----------------------------------------------------------------------------
JobStep(w) ==
    \/ CheckItem(w) \/ CreateItem(w) \/ RefreshJob(w) \/ EventStaged(w) \/ CancelJob(w) \/ StartRun(w)
    \/ ListItems(w) \/ LookUpImport(w) \/ MarkDuplicate(w) \/ ImportOrder(w) \/ MarkImported(w) \/ FinishRun(w)

ReadStep(w) == Fetch(w) \/ FailRead(w) \/ FinishItems(w) \/ FindCursor(w) \/ WriteCursor(w)

ConvertStep(w) == ConvertOrder(w) \/ FindImport(w) \/ WriteImport(w) \/ UpdateItem(w) \/ RecordConversion(w)

PlatformNext ==
    \/ \E w \in Workers : JobStep(w) \/ ReadStep(w) \/ ConvertStep(w) \/ Fail(w) \/ EndCall(w)
    \/ \E w \in Workers, m \in JobModes, p \in Posted : CreateJob(w, m, p)
    \/ \E w \in Workers, e \in Events : StageEvent(w, e)
    \/ \E w \in Workers : \E j \in DOMAIN jobs : CheckCancel(w, j) \/ CheckRun(w, j)
    \/ \E w \in Workers : \E c \in DOMAIN cursors : ContinueCursor(w, c)
    \/ \E c \in DOMAIN cursors : ResetCursor(c)
    \/ \E w \in Workers : \E i \in DOMAIN items : CheckConvert(w, i)

PlatformSpec == PlatformInit /\ [][PlatformNext]_platformVars

-----------------------------------------------------------------------------

(***************************************************************************)
(* No order is lost to the search for duplicates: whoever marks an item as *)
(* a duplicate of another job's, that order is imported or has an item     *)
(* that is not a duplicate, however jobs, webhooks and conversions overlap *)
(* (createMappedOrDuplicateItem, runPlatformImportJobFoundation).          *)
(***************************************************************************)
DuplicatesHaveAnOriginal ==
    \A i \in DOMAIN items : items[i].order # Null /\ items[i].status = "DUPLICATE" =>
        \/ HasImport(items[i].order)
        \/ \E k \in DOMAIN items : items[k].order = items[i].order /\ items[k].status # "DUPLICATE"

=============================================================================
