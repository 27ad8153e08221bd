---------------------------- MODULE ShadowImports ----------------------------
(***************************************************************************)
(* The import pipeline of one courier file: staging its rows, posting them *)
(* to the shadow ledger, planning, approving and applying corrections, and *)
(* the tie-out of the recovery report.  postEntry is one step here, as     *)
(* WalletLedger shows; everything between two database calls interleaves.  *)
(***************************************************************************)
EXTENDS CorrectionPlan, FiniteSetsExt

CONSTANTS
    Principals,     \* who runs a command; each runs one at a time
    Posters,        \* those of them who post rows
    Planners,       \* those of them who plan corrections
    StagedWith,     \* the versions a file is staged with; a correction takes any
    Resolvers,      \* whether a plan is made with a shipment resolver
    MaxStagings, MaxBatches, MaxFaults

VARIABLES
    rows,       \* the staging_rows of the file, in the order of rowNo
    stagings,   \* how often the rows have been replaced
    journal,    \* the shadow journal_entries
    batches,    \* the import_correction_batches of the file, with their items
    approvals,  \* approveCorrectionBatch between its checks and its update: <<batch, approver>>
    posting,    \* principal -> its postReadyRowsForFile: [pc, rows, at, code]
    applying,   \* principal -> its applyCorrectionBatch: [pc, batch, todo, at, item, whole, code]
    faults

importVars == <<rows, stagings, journal, batches, approvals, posting, applying, faults>>

-----------------------------------------------------------------------------
(* Entries *)

Ref(kind, of, item) == [kind |-> kind, of |-> of, item |-> item]
SourceRef(row) == Ref("IMP", row.id[1], row.id[2])

Entry(ref, row, by, reverses) ==
    [ref |-> ref, event |-> row.event, amount |-> Magnitude(row.amount), by |-> by, reverses |-> reverses]

HasEntry(ref) == \E e \in journal : e.ref = ref
EntryOf(ref) == CHOOSE e \in journal : e.ref = ref
IsReversed(ref) == \E e \in journal : e.reverses = ref

\* Events whose amount may be negative in the file.
SignedEvents == {"shipment_refund", "weight_dispute_credit"}

\* mapStagingRowToShadowLedgerCommand accepts the row.
Mappable(row) ==
    /\ row.status \in {"validated", "resolved", "ready_for_posting"}
    /\ row.shipment # Null /\ row.event \in MappedEvents
    /\ row.amount # 0
    /\ row.amount < 0 => row.event \in SignedEvents

\* What an entry moves into the seller's dispute_hold account.
HoldImpact(e) ==
    LET sign == IF e.reverses = NoRef THEN 1 ELSE -1
    IN  CASE e.event = "weight_dispute_debit"  -> sign * e.amount
          [] e.event = "weight_dispute_credit" -> -sign * e.amount
          [] OTHER -> 0
HoldBalance == MapThenSumSet(HoldImpact, journal)

\* postEntry of a command: created, replayed for the same command (createdBy is part of its hash), or
\* refused for another.
CanPost(ref, by) == HasEntry(ref) => EntryOf(ref).by = by
Post(entry) == journal' = IF HasEntry(entry.ref) THEN journal ELSE journal \cup {entry}

-----------------------------------------------------------------------------
(* Staging and posting *)

\* What persistPlan stores of an item of the plan.
StoredItem(item) ==
    [action |-> item.action, old |-> item.old, new |-> item.new, status |-> "planned", error |-> Null,
     reversal |-> NoRef, corrected |-> NoRef]

IdlePosting == [pc |-> "IDLE", rows |-> <<>>, at |-> 0, code |-> Null]
IdleApply == [pc |-> "IDLE", batch |-> 0, todo |-> {}, at |-> 0,
              item |-> StoredItem(Item("no_change", NoRow, NoRow)), whole |-> TRUE, code |-> Null]

ImportsInit ==
    /\ rows = <<>> /\ stagings = 0
    /\ journal = {}
    /\ batches = <<>> /\ approvals = {}
    /\ posting = [p \in Principals |-> IdlePosting]
    /\ applying = [p \in Principals |-> IdleApply]
    /\ faults = 0

\* runImportAndStage: landFile returns the file that is there, replaceRows gives every line a new row,
\* with an id of its own.
Stage(version) ==
    /\ stagings < MaxStagings
    /\ stagings' = stagings + 1
    /\ rows' = LET parsed == Parse(version, TRUE)
               IN  [l \in DOMAIN parsed |-> [AsNew(parsed[l]) EXCEPT !.id = <<stagings + 1, l>>]]
    /\ UNCHANGED <<journal, batches, approvals, posting, applying, faults>>

StartPosting(p) ==
    /\ p \in Posters
    /\ posting[p].pc = "IDLE" /\ applying[p].pc = "IDLE" /\ rows # <<>>
    /\ posting' = [posting EXCEPT ![p] = [pc |-> "ROW", rows |-> rows, at |-> 1, code |-> Null]]
    /\ UNCHANGED <<rows, stagings, journal, batches, approvals, applying, faults>>

RowAt(p) == posting[p].rows[posting[p].at]
RowStep(p, pc, code) == posting' = [posting EXCEPT ![p].pc = pc, ![p].code = code]

\* The next row, or the end of the run.
NextRow(p) ==
    posting' = [posting EXCEPT ![p] = IF @.at = Len(@.rows) THEN IdlePosting
                                      ELSE [@ EXCEPT !.pc = "ROW", !.at = @ + 1, !.code = Null]]

\* shouldSkipRow
Skipped(row) == row.ref # NoRef \/ row.status \notin {"validated", "resolved", "ready_for_posting"}

SkipRow(p) ==
    /\ posting[p].pc = "ROW" /\ Skipped(RowAt(p))
    /\ NextRow(p)
    /\ UNCHANGED <<rows, stagings, journal, batches, approvals, applying, faults>>

\* The mapping, and the hold a release is checked against.
MapRow(p) ==
    /\ posting[p].pc = "ROW" /\ ~Skipped(RowAt(p))
    /\ LET row == RowAt(p)
           held == row.event = "weight_dispute_credit" => HoldBalance >= Magnitude(row.amount)
       IN  CASE ~Mappable(row)         -> RowStep(p, "FAIL", "UNPOSTABLE")
             [] Mappable(row) /\ ~held -> RowStep(p, "FAIL", "INSUFFICIENT_DISPUTE_HOLD")
             [] OTHER                  -> RowStep(p, "POST", Null)
    /\ UNCHANGED <<rows, stagings, journal, batches, approvals, applying, faults>>

PostRow(p) ==
    /\ posting[p].pc = "POST"
    /\ LET entry == Entry(SourceRef(RowAt(p)), RowAt(p), p, NoRef)
       IN  \/ /\ CanPost(entry.ref, p)
              /\ Post(entry)
              /\ RowStep(p, "MARK", Null)
           \/ /\ ~CanPost(entry.ref, p)
              /\ RowStep(p, "FAIL", "LEDGER_POST_CONFLICT")
              /\ UNCHANGED journal
    /\ UNCHANGED <<rows, stagings, batches, approvals, applying, faults>>

StillStaged(p) == posting[p].at \in DOMAIN rows /\ rows[posting[p].at].id = RowAt(p).id

\* stagingRow.update throws for a row that has been replaced.
MarkRow(p) ==
    /\ posting[p].pc = "MARK"
    /\ \/ /\ StillStaged(p)
          /\ rows' = [rows EXCEPT ![posting[p].at].ref = SourceRef(RowAt(p))]
          /\ NextRow(p)
       \/ /\ ~StillStaged(p)
          /\ RowStep(p, "FAIL", "LEDGER_POST_FAILED")
          /\ UNCHANGED rows
    /\ UNCHANGED <<stagings, journal, batches, approvals, applying, faults>>

\* The handler of a row's error; when its own update throws, the run is over.
FailRow(p) ==
    /\ posting[p].pc = "FAIL"
    /\ \/ /\ StillStaged(p)
          /\ rows' = [rows EXCEPT ![posting[p].at].status = "exception", ![posting[p].at].code = posting[p].code]
          /\ NextRow(p)
       \/ /\ ~StillStaged(p)
          /\ posting' = [posting EXCEPT ![p] = IdlePosting]
          /\ UNCHANGED rows
    /\ UNCHANGED <<stagings, journal, batches, approvals, applying, faults>>

\* A database call of the row fails: before anything was written, or after.
RowFault(p) ==
    /\ faults < MaxFaults /\ posting[p].pc \in {"POST", "MARK"}
    /\ faults' = faults + 1
    /\ RowStep(p, "FAIL", "LEDGER_POST_FAILED")
    /\ UNCHANGED <<rows, stagings, journal, batches, approvals, applying>>

-----------------------------------------------------------------------------
(* Corrections *)

\* planCorrection with persistPlan: the plan is a function of the rows it has read.
Plan(p, version, withResolver) ==
    /\ rows # <<>> /\ Len(batches) < MaxBatches
    /\ LET plan == DiffRows(rows, Parse(version, withResolver))
       IN  batches' = Append(batches, [status |-> "planned", by |-> p, version |-> version,
                                       resolved |-> withResolver,
                                       items |-> [i \in DOMAIN plan |-> StoredItem(plan[i])]])
    /\ UNCHANGED <<rows, stagings, journal, approvals, posting, applying, faults>>

Blocked(batch) ==
    \E i \in DOMAIN batch.items : /\ batch.items[i].action \in {"ambiguous_match", "unmatched_old_row"}
                                  /\ batch.items[i].status \notin {"skipped", "cancelled"}

CheckApproval(p, b) ==
    /\ batches[b].status = "planned" /\ batches[b].by # p /\ ~Blocked(batches[b])
    /\ approvals' = approvals \cup {<<b, p>>}
    /\ UNCHANGED <<rows, stagings, journal, batches, posting, applying, faults>>

WriteApproval(p, b) ==
    /\ <<b, p>> \in approvals
    /\ approvals' = approvals \ {<<b, p>>}
    /\ batches' = [batches EXCEPT ![b].status = "approved"]
    /\ UNCHANGED <<rows, stagings, journal, posting, applying, faults>>

Applicable(batch) == batch.status \in {"approved", "failed"}

StartApply(p, b) ==
    /\ posting[p].pc = "IDLE" /\ applying[p].pc = "IDLE"
    /\ Applicable(batches[b]) /\ ~Blocked(batches[b])
    /\ applying' = [applying EXCEPT ![p] = [IdleApply EXCEPT !.pc = "ITEM", !.batch = b,
                                                             !.todo = DOMAIN batches[b].items]]
    /\ UNCHANGED <<rows, stagings, journal, batches, approvals, posting, faults>>

ApplyStep(p, pc, code) == applying' = [applying EXCEPT ![p].pc = pc, ![p].code = code]
ItemRef(p, kind) == Ref(kind, applying[p].batch, applying[p].at)

\* The item is done with, for better or worse.
NextItem(p, ok) ==
    applying' = [applying EXCEPT ![p].pc = "ITEM", ![p].code = Null, ![p].whole = @ /\ ok]

\* updateItem: `change` of the row as it is now.
UpdateItem(p, change(_)) == batches' = [batches EXCEPT ![applying[p].batch].items[applying[p].at] = change(@)]

\* assertItemApplyable and the action of the item; the rows of one plan share their createdAt, so the
\* items come in the order of random ids.  A batch that another run has finished ends this one.
FreshItem(p, i) ==
    LET batch == batches[applying[p].batch]
        fresh == batch.items[i]
        first == CASE fresh.action \in {"no_change", "still_exception"} -> "SKIP"
                   [] fresh.action = "post_new"                         -> "CORRECT"
                   [] OTHER                                             -> "REVERSE"
    IN  /\ applying[p].pc = "ITEM" /\ i \in applying[p].todo
        /\ \/ /\ ~Applicable(batch)
              /\ applying' = [applying EXCEPT ![p] = IdleApply]
           \/ /\ Applicable(batch) /\ fresh.status \in {"applied", "skipped"}
              /\ applying' = [applying EXCEPT ![p].todo = @ \ {i}]
           \/ /\ Applicable(batch) /\ fresh.status \notin {"applied", "skipped"}
              /\ applying' = [applying EXCEPT ![p].todo = @ \ {i}, ![p].at = i, ![p].item = fresh, ![p].pc = first]
        /\ UNCHANGED <<rows, stagings, journal, batches, approvals, posting, faults>>

SkipItem(p) ==
    /\ applying[p].pc = "SKIP"
    /\ UpdateItem(p, LAMBDA item : [item EXCEPT !.status = "skipped", !.error = Null])
    /\ NextItem(p, TRUE)
    /\ UNCHANGED <<rows, stagings, journal, approvals, posting, faults>>

\* assertTargetEntryCurrent
TargetIsCurrent(item) ==
    LET target == item.old.ref
    IN  /\ HasEntry(target)
        /\ EntryOf(target).reverses = NoRef
        /\ EntryOf(target).event = item.old.event /\ EntryOf(target).amount = Magnitude(item.old.amount)

\* ensureReversal up to postEntry: a stored reversal must be the one this principal would post.
CheckReversal(p) ==
    /\ applying[p].pc = "REVERSE"
    /\ LET item == applying[p].item
           stored == item.reversal
       IN  CASE ~TargetIsCurrent(item) -> ApplyStep(p, "FAIL", "TARGET_ENTRY_CHANGED")
             [] TargetIsCurrent(item) /\ stored # NoRef ->
                    IF HasEntry(stored) /\ EntryOf(stored).reverses = item.old.ref /\ EntryOf(stored).by = p
                    THEN ApplyStep(p, "MARK_REVERSAL", Null)
                    ELSE ApplyStep(p, "FAIL", "TARGET_ENTRY_CHANGED")
             [] TargetIsCurrent(item) /\ stored = NoRef /\ IsReversed(item.old.ref) ->
                    ApplyStep(p, "FAIL", "TARGET_ALREADY_REVERSED")
             [] OTHER -> ApplyStep(p, "POST_REVERSAL", Null)
    /\ UNCHANGED <<rows, stagings, journal, batches, approvals, posting, faults>>

\* Mutant of PostReversal: the reversal is left out, the item is marked.
PostReversalNever(p) ==
    /\ applying[p].pc = "POST_REVERSAL"
    /\ ApplyStep(p, "MARK_REVERSAL", Null)
    /\ UNCHANGED <<rows, stagings, journal, batches, approvals, posting, faults>>

\* postReversalOrRecover: je_single_reversal_idx refuses a second reversal of the entry.
PostReversal(p) ==
    /\ applying[p].pc = "POST_REVERSAL"
    /\ LET target == EntryOf(applying[p].item.old.ref)
           entry == [ref |-> ItemRef(p, "REV"), event |-> target.event, amount |-> target.amount, by |-> p,
                     reverses |-> target.ref]
       IN  CASE ~CanPost(entry.ref, p) ->
                    ApplyStep(p, "FAIL", "LEDGER_ENTRY_REF_CONFLICT") /\ UNCHANGED journal
             [] CanPost(entry.ref, p) /\ ~HasEntry(entry.ref) /\ IsReversed(target.ref) ->
                    ApplyStep(p, "FAIL", "REVERSAL_UNIQUE_CONFLICT") /\ UNCHANGED journal
             [] OTHER -> Post(entry) /\ ApplyStep(p, "MARK_REVERSAL", Null)
    /\ UNCHANGED <<rows, stagings, batches, approvals, posting, faults>>

\* The reversal is recorded; a reverse_only item is applied with that.
MarkReversal(p) ==
    /\ applying[p].pc = "MARK_REVERSAL"
    /\ LET item == applying[p].item
           only == item.action = "reverse_only"
           marked(now) == [now EXCEPT !.reversal = ItemRef(p, "REV"), !.error = Null,
                                      !.status = IF only THEN "applied" ELSE item.status]
       IN  /\ UpdateItem(p, marked)
           /\ IF only THEN NextItem(p, TRUE)
              ELSE applying' = [applying EXCEPT ![p].pc = "CORRECT", ![p].code = Null,
                       ![p].item = marked(batches[applying[p].batch].items[applying[p].at])]
    /\ UNCHANGED <<rows, stagings, journal, approvals, posting, faults>>

CorrectedKind(item) == IF item.action = "post_new" THEN "NEW" ELSE "FIX"

\* Mutant of CorrectedRow: the row is posted as it was.
CorrectedRowAsItWas(item) ==
    LET row == IF item.old = NoRow THEN item.new ELSE item.old
    IN  [row EXCEPT !.amount = Magnitude(row.amount)]

\* The row that correctedCommand maps: the plan's diff has amounts without their sign.
CorrectedRow(item) == [item.new EXCEPT !.amount = Magnitude(item.new.amount)]

\* ensureCorrectedPosting up to its update.
PostCorrected(p) ==
    /\ applying[p].pc = "CORRECT"
    /\ LET item == applying[p].item
           row == CorrectedRow(item)
           entry == Entry(ItemRef(p, CorrectedKind(item)), row, p, NoRef)
       IN  CASE item.corrected # NoRef -> ApplyStep(p, "MARK_CORRECTED", Null) /\ UNCHANGED journal
             [] item.corrected = NoRef /\ ~Mappable(row) ->
                    ApplyStep(p, "FAIL", "UNPOSTABLE") /\ UNCHANGED journal
             [] item.corrected = NoRef /\ Mappable(row) /\ ~CanPost(entry.ref, p) ->
                    ApplyStep(p, "FAIL", "LEDGER_ENTRY_REF_CONFLICT") /\ UNCHANGED journal
             [] OTHER -> Post(entry) /\ ApplyStep(p, "MARK_CORRECTED", Null)
    /\ UNCHANGED <<rows, stagings, batches, approvals, posting, faults>>

MarkCorrected(p) ==
    /\ applying[p].pc = "MARK_CORRECTED"
    /\ UpdateItem(p, LAMBDA now : [now EXCEPT !.corrected = ItemRef(p, CorrectedKind(now)),
                                              !.status = "applied", !.error = Null])
    /\ NextItem(p, TRUE)
    /\ UNCHANGED <<rows, stagings, journal, approvals, posting, faults>>

FailItem(p) ==
    /\ applying[p].pc = "FAIL"
    /\ UpdateItem(p, LAMBDA now : [now EXCEPT !.status = "failed", !.error = applying[p].code])
    /\ NextItem(p, FALSE)
    /\ UNCHANGED <<rows, stagings, journal, approvals, posting, faults>>

FinishApply(p) ==
    /\ applying[p].pc = "ITEM" /\ applying[p].todo = {}
    /\ batches' = [batches EXCEPT ![applying[p].batch].status =
                       IF applying[p].whole THEN "applied" ELSE "failed"]
    /\ applying' = [applying EXCEPT ![p] = IdleApply]
    /\ UNCHANGED <<rows, stagings, journal, approvals, posting, faults>>

\* A database call of the item fails and is recorded as the item's failure.
ItemFault(p) ==
    /\ faults < MaxFaults
    /\ applying[p].pc \in {"SKIP", "REVERSE", "POST_REVERSAL", "MARK_REVERSAL", "CORRECT", "MARK_CORRECTED"}
    /\ faults' = faults + 1
    /\ ApplyStep(p, "FAIL", "DATABASE")
    /\ UNCHANGED <<rows, stagings, journal, batches, approvals, posting>>

\* The process of a command ends.
Crash(p) ==
    /\ faults < MaxFaults
    /\ posting[p].pc # "IDLE" \/ applying[p].pc # "IDLE"
    /\ faults' = faults + 1
    /\ posting' = [posting EXCEPT ![p] = IdlePosting]
    /\ applying' = [applying EXCEPT ![p] = IdleApply]
    /\ UNCHANGED <<rows, stagings, journal, batches, approvals>>

-----------------------------------------------------------------------------
PostingStep(p) == SkipRow(p) \/ MapRow(p) \/ PostRow(p) \/ MarkRow(p) \/ FailRow(p) \/ RowFault(p)

ApplyingStep(p) ==
    \/ SkipItem(p) \/ CheckReversal(p) \/ PostReversal(p) \/ MarkReversal(p) \/ PostCorrected(p)
    \/ MarkCorrected(p) \/ FailItem(p) \/ FinishApply(p) \/ ItemFault(p)
    \/ \E i \in applying[p].todo : FreshItem(p, i)

BatchStep(p, b) == CheckApproval(p, b) \/ WriteApproval(p, b) \/ StartApply(p, b)

ImportsNext ==
    \/ \E v \in StagedWith : Stage(v)
    \/ \E p \in Principals : StartPosting(p) \/ PostingStep(p) \/ ApplyingStep(p) \/ Crash(p)
    \/ \E p \in Planners, v \in Versions, r \in Resolvers : Plan(p, v, r)
    \/ \E p \in Principals : \E b \in DOMAIN batches : BatchStep(p, b)

ImportsSpec == ImportsInit /\ [][ImportsNext]_importVars

-----------------------------------------------------------------------------
(* The recovery report *)

\* The entries the report adds up: those of the rows that are marked.
Included == {e \in journal : \E i \in DOMAIN rows : rows[i].ref = e.ref}

\* Only the entries of postReadyRowsForFile name the file in their metadata.
NamesFile(e) == e.ref.kind = "IMP"

\* Mutant of TiesOut: entries without a row are not counted.
TiesOutByRows == \A i \in DOMAIN rows : rows[i].ref # NoRef => \E e \in Included : e.ref = rows[i].ref

\* tieOut without a blocking issue: marked rows have entries, the file's entries have marked rows.
TiesOut ==
    /\ \A i \in DOMAIN rows : rows[i].ref # NoRef => \E e \in Included : e.ref = rows[i].ref
    /\ \A e \in journal : NamesFile(e) => e \in Included

-----------------------------------------------------------------------------

\* The line of the file that the entry of a staged row was posted for.
LineOf(e) == e.ref.item

(***************************************************************************)
(* A report that ships counts no line of the file twice, although staging  *)
(* the file again gives posted lines new rows that are posted once more    *)
(* (replaceRows, postReadyRowsForFile, reportBlockingIssues).              *)
(***************************************************************************)
ShippedLinesCountOnce ==
    TiesOut => \A d, e \in journal : NamesFile(d) /\ NamesFile(e) /\ LineOf(d) = LineOf(e) => d = e

(***************************************************************************)
(* An applied item has its entries, a correction is never posted before    *)
(* the entry it replaces is reversed, and an applied batch has posted all  *)
(* it planned, however two runs of it overtake each other (applyItem).     *)
(***************************************************************************)
AppliedItemsArePosted ==
    \A b \in DOMAIN batches : \A i \in DOMAIN batches[b].items :
        LET item == batches[b].items[i]
            reversed == HasEntry(Ref("REV", b, i)) /\ EntryOf(Ref("REV", b, i)).reverses = item.old.ref
        IN  /\ item.status = "applied" \/ batches[b].status = "applied" =>
                   /\ item.action \in {"reverse_only", "reverse_and_repost"} => reversed
                   /\ item.action \in {"post_new", "reverse_and_repost"} => HasEntry(Ref(CorrectedKind(item), b, i))
            /\ HasEntry(Ref("FIX", b, i)) => reversed

\* Entries that stand: neither reversed nor a reversal.
Standing == {e \in journal : e.reverses = NoRef /\ ~IsReversed(e.ref)}

(***************************************************************************)
(* When the one correction of a file is applied, what stands in the ledger *)
(* is what the new version reads in the file.  The plan must not hold a    *)
(* post_new for a row that is staged already, and the rows must not have   *)
(* been replaced: see README.                                              *)
(***************************************************************************)
CorrectionsReachTheReading ==
    (/\ stagings = 1 /\ Len(batches) = 1
     /\ batches[1].status = "applied"
     /\ \A i \in DOMAIN batches[1].items :
            batches[1].items[i].action = "post_new" => batches[1].items[i].old = NoRow)
    =>
    LET read == Parse(batches[1].version, batches[1].resolved)
    IN  \A event \in MappedEvents : \A amount \in {e.amount : e \in journal} \cup {Magnitude(read[l].amount) : l \in DOMAIN read} :
            Cardinality({e \in Standing : e.event = event /\ e.amount = amount}) =
            Cardinality({l \in DOMAIN read : /\ Postable(read[l]) /\ read[l].event = event
                                             /\ Magnitude(read[l].amount) = amount})
=============================================================================
