-------------------------- MODULE ShadowImportsProofs --------------------------
(***************************************************************************)
(* For any runs of posting, planning and applying, with failures and       *)
(* crashes: an applied correction has its entries, and a report that ships *)
(* counts no line twice.                                                   *)
(***************************************************************************)
EXTENDS ShadowImports, TLAPS

ItemOf(b, i) == batches[b].items[i]
ApplyPCs == {"IDLE", "ITEM", "SKIP", "REVERSE", "POST_REVERSAL", "MARK_REVERSAL", "CORRECT", "MARK_CORRECTED",
             "FAIL"}
NotReversing == {"no_change", "still_exception", "post_new"}

\* The fields of the rows.
EntryFields == {"ref", "event", "amount", "by", "reverses"}
ItemFields == {"action", "old", "new", "status", "error", "reversal", "corrected"}
BatchFields == {"status", "by", "version", "resolved", "items"}
ApplyFields == {"pc", "batch", "todo", "at", "item", "whole", "code"}

BatchesHaveFields ==
    /\ batches \in Seq({batches[b] : b \in DOMAIN batches})
    /\ \A b \in DOMAIN batches :
          /\ BatchFields \subseteq DOMAIN batches[b]
          /\ \A i \in DOMAIN batches[b].items : ItemFields \subseteq DOMAIN ItemOf(b, i)

RowsHaveFields ==
    /\ \A e \in journal : EntryFields \subseteq DOMAIN e
    /\ BatchesHaveFields
    /\ DOMAIN applying = Principals
    /\ \A p \in Principals : /\ ApplyFields \subseteq DOMAIN applying[p]
                             /\ ItemFields \subseteq DOMAIN applying[p].item
                             /\ applying[p].pc \in ApplyPCs

\* One entry per entryRef.
RefsAreUnique == \A d, e \in journal : d.ref = e.ref => d = e

\* The entry that the item corrects has been reversed for it.
Reversed(b, i) ==
    HasEntry(Ref("REV", b, i)) /\ EntryOf(Ref("REV", b, i)).reverses = ItemOf(b, i).old.ref

\* Everything the item plans is in the ledger.
Complete(b, i) ==
    /\ ItemOf(b, i).action \in {"reverse_only", "reverse_and_repost"} => Reversed(b, i)
    /\ ItemOf(b, i).action \in {"post_new", "reverse_and_repost"} => HasEntry(Ref(CorrectedKind(ItemOf(b, i)), b, i))

\* Entries of corrections belong to an item, and a corrected one comes after the reversal.
EntriesHaveItems ==
    \A e \in journal :
        /\ e.ref.kind \in {"REV", "FIX"} =>
               e.ref.of \in DOMAIN batches /\ e.ref.item \in DOMAIN batches[e.ref.of].items
        /\ e.ref.kind = "REV" => e.reverses = ItemOf(e.ref.of, e.ref.item).old.ref
        /\ e.ref.kind = "FIX" => Reversed(e.ref.of, e.ref.item)

\* What a stored item tells of the ledger.
ItemTells(item, b, i) ==
    /\ item.action = ItemOf(b, i).action /\ item.old = ItemOf(b, i).old
    /\ item.reversal \in {NoRef, Ref("REV", b, i)}
    /\ item.corrected # NoRef => HasEntry(Ref(CorrectedKind(item), b, i))

ItemsTell ==
    \A b \in DOMAIN batches : \A i \in DOMAIN batches[b].items :
        /\ ItemTells(ItemOf(b, i), b, i)
        /\ ItemOf(b, i).status = "applied" => Complete(b, i)
        /\ ItemOf(b, i).status = "skipped" => ItemOf(b, i).action \in {"no_change", "still_exception"}

\* What a run that applies a batch knows at its place in the code.
ApplierKnows(p) ==
    LET run == applying[p]
        b == run.batch
        i == run.at
    IN  /\ run.pc # "IDLE" => b \in DOMAIN batches /\ run.todo \subseteq DOMAIN batches[b].items
        /\ run.pc \notin {"IDLE", "ITEM"} => /\ i \in DOMAIN batches[b].items
                                             /\ ItemTells(run.item, b, i)
                                             /\ run.item.status \notin {"applied", "skipped"}
        /\ run.pc = "SKIP" => run.item.action \in {"no_change", "still_exception"}
        /\ run.pc \in {"REVERSE", "POST_REVERSAL", "MARK_REVERSAL"} => run.item.action \notin NotReversing
        /\ run.pc = "POST_REVERSAL" => HasEntry(run.item.old.ref)
        /\ run.pc = "MARK_REVERSAL" => Reversed(b, i)
        /\ run.pc \in {"CORRECT", "MARK_CORRECTED"} =>
               /\ run.item.action \notin {"no_change", "still_exception", "reverse_only"}
               /\ run.item.action # "post_new" => Reversed(b, i)
        /\ run.pc = "MARK_CORRECTED" => HasEntry(Ref(CorrectedKind(run.item), b, i))
        /\ run.pc # "IDLE" /\ run.whole =>
               \A k \in DOMAIN batches[b].items \ run.todo :
                   Complete(b, k) \/ (k = i /\ run.pc # "ITEM")

AppliersKnow == \A p \in Principals : ApplierKnows(p)

BatchesComplete ==
    \A b \in DOMAIN batches :
        batches[b].status = "applied" => \A i \in DOMAIN batches[b].items : Complete(b, i)

ImportsInv ==
    /\ RowsHaveFields /\ RefsAreUnique /\ EntriesHaveItems
    /\ ItemsTell /\ AppliersKnow /\ BatchesComplete

-----------------------------------------------------------------------------
(***************************************************************************)
(* The ledger only grows, and items keep what they plan: so what has been  *)
(* said of them stays true.                                                *)
(***************************************************************************)
LEMMA EntryFound ==
    ASSUME NEW ref, HasEntry(ref)
    PROVE  EntryOf(ref) \in journal /\ EntryOf(ref).ref = ref
BY DEF HasEntry, EntryOf

LEMMA TheEntry ==
    ASSUME RefsAreUnique, NEW e \in journal
    PROVE  HasEntry(e.ref) /\ EntryOf(e.ref) = e
<1>1. HasEntry(e.ref)
    BY DEF HasEntry
<1> QED BY <1>1, EntryFound DEF RefsAreUnique

\* A step that forgets no entry and no item.
Keeps ==
    /\ journal \subseteq journal'
    /\ \A b \in DOMAIN batches :
          /\ b \in DOMAIN batches'
          /\ DOMAIN batches'[b].items = DOMAIN batches[b].items
          /\ \A i \in DOMAIN batches[b].items :
                /\ batches'[b].items[i].action = batches[b].items[i].action
                /\ batches'[b].items[i].old = batches[b].items[i].old

LEMMA EntriesStay ==
    ASSUME RefsAreUnique, RefsAreUnique', journal \subseteq journal', NEW ref, HasEntry(ref)
    PROVE  HasEntry(ref)' /\ EntryOf(ref)' = EntryOf(ref)
<1>1. EntryOf(ref) \in journal' /\ EntryOf(ref).ref = ref
    BY EntryFound
<1>2. HasEntry(ref)'
    BY <1>1 DEF HasEntry
<1>3. EntryOf(ref)' \in journal' /\ (EntryOf(ref)').ref = ref
    BY <1>2 DEF HasEntry, EntryOf
<1> QED BY <1>1, <1>2, <1>3 DEF RefsAreUnique

LEMMA ReversedStays ==
    ASSUME RefsAreUnique, RefsAreUnique', Keeps, NEW b \in DOMAIN batches, NEW i \in DOMAIN batches[b].items,
           Reversed(b, i)
    PROVE  Reversed(b, i)'
<1>1. /\ HasEntry(Ref("REV", b, i))' /\ EntryOf(Ref("REV", b, i))' = EntryOf(Ref("REV", b, i))
    BY EntriesStay DEF Reversed, Keeps
<1> QED BY <1>1 DEF Reversed, Keeps, ItemOf

LEMMA CompleteStays ==
    ASSUME RefsAreUnique, RefsAreUnique', Keeps, NEW b \in DOMAIN batches, NEW i \in DOMAIN batches[b].items,
           Complete(b, i)
    PROVE  Complete(b, i)'
<1>1. ItemOf(b, i)'.action = ItemOf(b, i).action
    BY DEF Keeps, ItemOf
<1>2. CorrectedKind(ItemOf(b, i))' = CorrectedKind(ItemOf(b, i))
    BY <1>1 DEF CorrectedKind
<1>3. ItemOf(b, i).action \in {"reverse_only", "reverse_and_repost"} => Reversed(b, i)'
    BY ReversedStays DEF Complete
<1>4. ItemOf(b, i).action \in {"post_new", "reverse_and_repost"} =>
          HasEntry(Ref(CorrectedKind(ItemOf(b, i)), b, i))'
    <2> SUFFICES ASSUME ItemOf(b, i).action \in {"post_new", "reverse_and_repost"}
                 PROVE  HasEntry(Ref(CorrectedKind(ItemOf(b, i)), b, i))'
        OBVIOUS
    <2> DEFINE ref == Ref(CorrectedKind(ItemOf(b, i)), b, i)
    <2>1. HasEntry(ref)
        BY DEF Complete
    <2>2. ref' = ref
        BY <1>2 DEF Ref
    <2>3. \E e \in journal : e.ref = ref
        BY <2>1 DEF HasEntry
    <2> QED BY <2>2, <2>3 DEF HasEntry, Keeps
<1> QED BY <1>1, <1>3, <1>4 DEF Complete

LEMMA TellsStays ==
    ASSUME Keeps, NEW b \in DOMAIN batches, NEW i \in DOMAIN batches[b].items,
           NEW item, ItemTells(item, b, i)
    PROVE  /\ item.action = ItemOf(b, i)'.action /\ item.old = ItemOf(b, i)'.old
           /\ item.reversal \in {NoRef, Ref("REV", b, i)}
           /\ item.corrected # NoRef => \E e \in journal' : e.ref = Ref(CorrectedKind(item), b, i)
BY DEF Keeps, ItemTells, ItemOf, HasEntry

LEMMA KnowsStays ==
    ASSUME RefsAreUnique, RefsAreUnique', Keeps, NEW p \in Principals, ApplierKnows(p),
           applying'[p] = applying[p]
    PROVE  ApplierKnows(p)'
<1> DEFINE run == applying[p]
           b == run.batch
           i == run.at
<1>1. run' = run /\ b' = b /\ i' = i
    OBVIOUS
<1>2. run.pc # "IDLE" => b \in DOMAIN batches /\ run.todo \subseteq DOMAIN batches[b].items
    BY DEF ApplierKnows
<1>3. run.pc # "IDLE" => b \in DOMAIN batches' /\ DOMAIN batches'[b].items = DOMAIN batches[b].items
    BY <1>2 DEF Keeps
<1>4. run.pc \notin {"IDLE", "ITEM"} =>
          /\ i \in DOMAIN batches[b].items /\ ItemTells(run.item, b, i)
          /\ run.item.status \notin {"applied", "skipped"}
    BY DEF ApplierKnows
<1>5. run.pc \notin {"IDLE", "ITEM"} => ItemTells(run.item, b, i)'
    <2> SUFFICES ASSUME run.pc \notin {"IDLE", "ITEM"} PROVE ItemTells(run.item, b, i)'
        OBVIOUS
    <2> HIDE DEF run, b, i
    <2> QED BY <1>1, <1>2, <1>4, TellsStays DEF ItemTells, HasEntry, CorrectedKind, Ref, ItemOf, NoRef
<1>6. run.pc = "SKIP" => run.item.action \in {"no_change", "still_exception"}
    BY DEF ApplierKnows
<1>7. run.pc \in {"REVERSE", "POST_REVERSAL", "MARK_REVERSAL"} => run.item.action \notin NotReversing
    BY DEF ApplierKnows
<1>8. run.pc = "POST_REVERSAL" => HasEntry(run.item.old.ref)'
    <2>1. run.pc = "POST_REVERSAL" => HasEntry(run.item.old.ref)
        BY DEF ApplierKnows
    <2> QED BY <1>1, <2>1 DEF HasEntry, Keeps
<1>9. run.pc = "MARK_REVERSAL" => Reversed(b, i)'
    <2>1. run.pc = "MARK_REVERSAL" => Reversed(b, i)
        BY DEF ApplierKnows
    <2> HIDE DEF run, b, i
    <2>2. run.pc = "MARK_REVERSAL" => \E c \in DOMAIN batches : \E k \in DOMAIN batches[c].items :
              c = b /\ k = i /\ Reversed(c, k)'
        BY <1>2, <1>4, <2>1, ReversedStays
    <2> QED BY <1>1, <2>2 DEF Reversed, ItemOf, Ref
<1>10. run.pc \in {"CORRECT", "MARK_CORRECTED"} =>
           /\ run.item.action \notin {"no_change", "still_exception", "reverse_only"}
           /\ run.item.action # "post_new" => Reversed(b, i)'
    <2>1. run.pc \in {"CORRECT", "MARK_CORRECTED"} =>
              /\ run.item.action \notin {"no_change", "still_exception", "reverse_only"}
              /\ run.item.action # "post_new" => Reversed(b, i)
        BY DEF ApplierKnows
    <2> HIDE DEF run, b, i
    <2>2. run.pc \in {"CORRECT", "MARK_CORRECTED"} /\ run.item.action # "post_new" =>
              \E c \in DOMAIN batches : \E k \in DOMAIN batches[c].items : c = b /\ k = i /\ Reversed(c, k)'
        BY <1>2, <1>4, <2>1, ReversedStays
    <2> QED BY <1>1, <2>1, <2>2 DEF Reversed, ItemOf, Ref
<1>11. run.pc = "MARK_CORRECTED" => HasEntry(Ref(CorrectedKind(run.item), b, i))'
    <2>1. run.pc = "MARK_CORRECTED" => HasEntry(Ref(CorrectedKind(run.item), b, i))
        BY DEF ApplierKnows
    <2> QED BY <1>1, <2>1 DEF HasEntry, Keeps, Ref, CorrectedKind
<1>12. run.pc # "IDLE" /\ run.whole =>
           \A k \in DOMAIN batches'[b].items \ run.todo : Complete(b, k)' \/ (k = i /\ run.pc # "ITEM")
    <2>1. run.pc # "IDLE" /\ run.whole =>
              \A k \in DOMAIN batches[b].items \ run.todo : Complete(b, k) \/ (k = i /\ run.pc # "ITEM")
        BY DEF ApplierKnows
    <2> SUFFICES ASSUME run.pc # "IDLE", run.whole, NEW k \in DOMAIN batches'[b].items \ run.todo,
                        ~(k = i /\ run.pc # "ITEM")
                 PROVE  Complete(b, k)'
        OBVIOUS
    <2> HIDE DEF run, b, i
    <2>2. k \in DOMAIN batches[b].items /\ Complete(b, k)
        BY <1>3, <2>1
    <2>3. \E c \in DOMAIN batches : c = b /\ Complete(c, k)'
        BY <1>2, <2>2, CompleteStays
    <2> QED BY <1>1, <2>3 DEF Complete, Reversed, ItemOf, Ref, CorrectedKind
<1> QED BY <1>1, <1>2, <1>3, <1>4, <1>5, <1>6, <1>7, <1>8, <1>9, <1>10, <1>11, <1>12 DEF ApplierKnows

LEMMA ItemsTellStays ==
    ASSUME RefsAreUnique, RefsAreUnique', Keeps, ItemsTell, UNCHANGED batches
    PROVE  ItemsTell'
<1> SUFFICES ASSUME NEW b \in DOMAIN batches, NEW i \in DOMAIN batches[b].items
             PROVE  /\ ItemTells(ItemOf(b, i), b, i)'
                    /\ ItemOf(b, i)'.status = "applied" => Complete(b, i)'
                    /\ ItemOf(b, i)'.status = "skipped" => ItemOf(b, i)'.action \in {"no_change", "still_exception"}
    BY DEF ItemsTell
<1>1. ItemOf(b, i)' = ItemOf(b, i)
    BY DEF ItemOf
<1>2. /\ ItemTells(ItemOf(b, i), b, i)
      /\ ItemOf(b, i).status = "applied" => Complete(b, i)
      /\ ItemOf(b, i).status = "skipped" => ItemOf(b, i).action \in {"no_change", "still_exception"}
    BY DEF ItemsTell
<1>3. ItemTells(ItemOf(b, i), b, i)'
    BY <1>1, <1>2, TellsStays DEF ItemTells, HasEntry, CorrectedKind, Ref, NoRef
<1>4. Complete(b, i) => Complete(b, i)'
    BY CompleteStays
<1> QED BY <1>1, <1>2, <1>3, <1>4

LEMMA BatchesStayComplete ==
    ASSUME RefsAreUnique, RefsAreUnique', Keeps, BatchesComplete,
           DOMAIN batches' = DOMAIN batches,
           \A b \in DOMAIN batches : batches'[b].status = "applied" => batches[b].status = "applied"
    PROVE  BatchesComplete'
<1> SUFFICES ASSUME NEW b \in DOMAIN batches, batches'[b].status = "applied",
                    NEW i \in DOMAIN batches[b].items
             PROVE  Complete(b, i)'
    BY DEF BatchesComplete, Keeps
<1> QED BY CompleteStays DEF BatchesComplete

\* A step of one run that moves no batch: the ledger may get an entry.
LEMMA RunMoves ==
    ASSUME ImportsInv, NEW p \in Principals, UNCHANGED batches, journal \subseteq journal',
           \A e \in journal' : EntryFields \subseteq DOMAIN e,
           RefsAreUnique', EntriesHaveItems',
           DOMAIN applying' = Principals, \A q \in Principals \ {p} : applying'[q] = applying[q],
           ApplyFields \subseteq DOMAIN applying'[p], ItemFields \subseteq DOMAIN applying'[p].item,
           applying'[p].pc \in ApplyPCs,
           ApplierKnows(p)'
    PROVE  ImportsInv'
<1>1. Keeps
    BY DEF Keeps
<1>2. RowsHaveFields'
    BY DEF ImportsInv, RowsHaveFields, BatchesHaveFields, ItemOf
<1>3. ItemsTell'
    BY <1>1, ItemsTellStays DEF ImportsInv
<1>4. AppliersKnow'
    BY <1>1, KnowsStays DEF ImportsInv, AppliersKnow
<1>5. BatchesComplete'
    BY <1>1, BatchesStayComplete DEF ImportsInv
<1> QED BY <1>2, <1>3, <1>4, <1>5 DEF ImportsInv

\* Nothing of the ledger and of the batches changes.
LEMMA EntriesUnchanged ==
    ASSUME ImportsInv, UNCHANGED <<journal, batches>>
    PROVE  /\ RefsAreUnique' /\ EntriesHaveItems' /\ Keeps
           /\ \A e \in journal' : EntryFields \subseteq DOMAIN e
BY DEF ImportsInv, RefsAreUnique, EntriesHaveItems, Keeps, RowsHaveFields, Reversed, HasEntry, EntryOf,
       ItemOf, Ref

\* A step that concerns no correction.
LEMMA NothingApplied ==
    ASSUME ImportsInv, UNCHANGED <<journal, batches, applying>>
    PROVE  ImportsInv'
<1>1. /\ RefsAreUnique' /\ EntriesHaveItems' /\ Keeps
    BY EntriesUnchanged
<1>2. RowsHaveFields'
    BY DEF ImportsInv, RowsHaveFields, BatchesHaveFields, ItemOf
<1>3. ItemsTell' /\ BatchesComplete'
    BY <1>1, ItemsTellStays, BatchesStayComplete DEF ImportsInv
<1>4. AppliersKnow'
    BY <1>1, KnowsStays DEF ImportsInv, AppliersKnow
<1> QED BY <1>1, <1>2, <1>3, <1>4 DEF ImportsInv

\* An entry is posted under a reference of its own, or was there.
LEMMA Posts ==
    ASSUME ImportsInv, NEW entry, EntryFields \subseteq DOMAIN entry, Post(entry)
    PROVE  /\ journal \subseteq journal' /\ journal' \subseteq journal \cup {entry}
           /\ RefsAreUnique' /\ \A e \in journal' : EntryFields \subseteq DOMAIN e
           /\ \E e \in journal' : e.ref = entry.ref
BY DEF ImportsInv, RefsAreUnique, RowsHaveFields, Post, HasEntry

\* The new entry belongs to an item, and comes after its reversal if it corrects one.
LEMMA EntriesStayWithItems ==
    ASSUME ImportsInv, UNCHANGED batches, journal \subseteq journal', RefsAreUnique',
           NEW entry, journal' \subseteq journal \cup {entry},
           entry.ref.kind \in {"REV", "FIX"} =>
               entry.ref.of \in DOMAIN batches /\ entry.ref.item \in DOMAIN batches[entry.ref.of].items,
           entry.ref.kind = "REV" => entry.reverses = ItemOf(entry.ref.of, entry.ref.item).old.ref,
           entry.ref.kind = "FIX" => Reversed(entry.ref.of, entry.ref.item)
    PROVE  EntriesHaveItems'
<1>1. Keeps
    BY DEF Keeps
<1>2. ASSUME NEW e \in journal'
      PROVE  /\ e.ref.kind \in {"REV", "FIX"} =>
                    e.ref.of \in DOMAIN batches /\ e.ref.item \in DOMAIN batches[e.ref.of].items
             /\ e.ref.kind = "REV" => e.reverses = ItemOf(e.ref.of, e.ref.item).old.ref
             /\ e.ref.kind = "FIX" => Reversed(e.ref.of, e.ref.item)
    BY DEF ImportsInv, EntriesHaveItems
<1>3. ASSUME NEW e \in journal', e.ref.kind = "FIX"
      PROVE  Reversed(e.ref.of, e.ref.item)'
    <2>1. \E b \in DOMAIN batches : \E i \in DOMAIN batches[b].items :
              b = e.ref.of /\ i = e.ref.item /\ Reversed(b, i)'
        BY <1>1, <1>2, <1>3, ReversedStays DEF ImportsInv
    <2> QED BY <2>1
<1> QED BY <1>2, <1>3 DEF EntriesHaveItems, ItemOf

-----------------------------------------------------------------------------
(***************************************************************************)
(* What the steps of a run make of its record.                             *)
(***************************************************************************)
LEMMA IdleFields ==
    /\ ApplyFields \subseteq DOMAIN IdleApply /\ ItemFields \subseteq DOMAIN IdleApply.item
    /\ IdleApply.pc = "IDLE" /\ IdleApply.whole = TRUE
BY DEF IdleApply, StoredItem, ApplyFields, ItemFields

LEMMA ApplyStepIs ==
    ASSUME RowsHaveFields, NEW p \in Principals, NEW pc \in ApplyPCs, NEW code, ApplyStep(p, pc, code)
    PROVE  /\ DOMAIN applying' = Principals /\ \A q \in Principals \ {p} : applying'[q] = applying[q]
           /\ ApplyFields \subseteq DOMAIN applying'[p] /\ ItemFields \subseteq DOMAIN applying'[p].item
           /\ applying'[p].pc = pc /\ applying'[p].batch = applying[p].batch
           /\ applying'[p].todo = applying[p].todo /\ applying'[p].at = applying[p].at
           /\ applying'[p].item = applying[p].item /\ applying'[p].whole = applying[p].whole
BY DEF RowsHaveFields, ApplyStep, ApplyFields

LEMMA NextItemIs ==
    ASSUME RowsHaveFields, NEW p \in Principals, NEW ok, NextItem(p, ok)
    PROVE  /\ DOMAIN applying' = Principals /\ \A q \in Principals \ {p} : applying'[q] = applying[q]
           /\ ApplyFields \subseteq DOMAIN applying'[p] /\ ItemFields \subseteq DOMAIN applying'[p].item
           /\ applying'[p].pc = "ITEM" /\ applying'[p].batch = applying[p].batch
           /\ applying'[p].todo = applying[p].todo /\ applying'[p].at = applying[p].at
           /\ applying'[p].item = applying[p].item /\ applying'[p].whole = (applying[p].whole /\ ok)
BY DEF RowsHaveFields, NextItem, ApplyFields

LEMMA BecomesIdle ==
    ASSUME RowsHaveFields, NEW p \in Principals, applying' = [applying EXCEPT ![p] = IdleApply]
    PROVE  /\ DOMAIN applying' = Principals /\ \A q \in Principals \ {p} : applying'[q] = applying[q]
           /\ ApplyFields \subseteq DOMAIN applying'[p] /\ ItemFields \subseteq DOMAIN applying'[p].item
           /\ applying'[p].pc = "IDLE"
           /\ ApplierKnows(p)'
<1>1. /\ DOMAIN applying' = Principals /\ \A q \in Principals \ {p} : applying'[q] = applying[q]
      /\ applying'[p] = IdleApply
    BY DEF RowsHaveFields
<1> QED BY <1>1, IdleFields DEF ApplierKnows

\* What a run knows when it has come to an item's step, spelled out for the steps below.
LEMMA KnowsOf ==
    ASSUME ImportsInv, NEW p \in Principals, applying[p].pc \notin {"IDLE", "ITEM"}
    PROVE  /\ applying[p].batch \in DOMAIN batches
           /\ applying[p].at \in DOMAIN batches[applying[p].batch].items
           /\ applying[p].todo \subseteq DOMAIN batches[applying[p].batch].items
           /\ ItemTells(applying[p].item, applying[p].batch, applying[p].at)
           /\ applying[p].item.status \notin {"applied", "skipped"}
           /\ applying[p].whole =>
                  \A k \in DOMAIN batches[applying[p].batch].items \ applying[p].todo :
                      Complete(applying[p].batch, k) \/ k = applying[p].at
BY DEF ImportsInv, AppliersKnow, ApplierKnows

\* The run goes on with its item: what it knew of the batch stays, whatever was posted.
LEMMA GoesOn ==
    ASSUME ImportsInv, RefsAreUnique', Keeps, NEW p \in Principals,
           applying[p].pc \notin {"IDLE", "ITEM"},
           applying'[p].pc \notin {"IDLE", "ITEM"},
           applying'[p].batch = applying[p].batch, applying'[p].at = applying[p].at,
           applying'[p].todo = applying[p].todo, applying'[p].whole = applying[p].whole,
           applying'[p].item = applying[p].item,
           NEW b, NEW i, NEW item, b = applying[p].batch, i = applying[p].at, item = applying[p].item,
           applying'[p].pc = "SKIP" => item.action \in {"no_change", "still_exception"},
           applying'[p].pc \in {"REVERSE", "POST_REVERSAL", "MARK_REVERSAL"} => item.action \notin NotReversing,
           applying'[p].pc = "POST_REVERSAL" => HasEntry(item.old.ref)',
           applying'[p].pc = "MARK_REVERSAL" => Reversed(b, i)',
           applying'[p].pc \in {"CORRECT", "MARK_CORRECTED"} =>
               /\ item.action \notin {"no_change", "still_exception", "reverse_only"}
               /\ item.action # "post_new" => Reversed(b, i)',
           applying'[p].pc = "MARK_CORRECTED" => HasEntry(Ref(CorrectedKind(item), b, i))'
    PROVE  ApplierKnows(p)'
<1>1. /\ b \in DOMAIN batches /\ i \in DOMAIN batches[b].items
      /\ applying[p].todo \subseteq DOMAIN batches[b].items
      /\ ItemTells(item, b, i) /\ item.status \notin {"applied", "skipped"}
      /\ applying[p].whole => \A k \in DOMAIN batches[b].items \ applying[p].todo : Complete(b, k) \/ k = i
    BY KnowsOf
<1>2. b \in DOMAIN batches' /\ DOMAIN batches'[b].items = DOMAIN batches[b].items
    BY <1>1 DEF Keeps
<1>3. ItemTells(item, b, i)'
    BY <1>1, TellsStays DEF ItemTells, HasEntry
<1>4. applying[p].whole =>
          \A k \in DOMAIN batches'[b].items \ applying[p].todo : Complete(b, k)' \/ k = i
    <2>1. ASSUME NEW k \in DOMAIN batches[b].items, Complete(b, k) PROVE Complete(b, k)'
        BY <1>1, <2>1, CompleteStays DEF ImportsInv
    <2> QED BY <1>1, <1>2, <2>1
<1>5. b = applying'[p].batch /\ i = applying'[p].at /\ item = applying'[p].item
    OBVIOUS
<1> QED BY <1>1, <1>2, <1>3, <1>4, <1>5 DEF ApplierKnows

-----------------------------------------------------------------------------
(***************************************************************************)
(* The steps of a run that change no batch.                                *)
(***************************************************************************)

\* An item fails, for whatever reason, and its run goes on to record that.
LEMMA Fails ==
    ASSUME ImportsInv, NEW p \in Principals, NEW code, ApplyStep(p, "FAIL", code),
           applying[p].pc \notin {"IDLE", "ITEM"}, UNCHANGED <<journal, batches>>
    PROVE  ImportsInv'
<1>1. /\ DOMAIN applying' = Principals /\ \A q \in Principals \ {p} : applying'[q] = applying[q]
      /\ ApplyFields \subseteq DOMAIN applying'[p] /\ ItemFields \subseteq DOMAIN applying'[p].item
      /\ applying'[p].pc = "FAIL" /\ applying'[p].batch = applying[p].batch
      /\ applying'[p].todo = applying[p].todo /\ applying'[p].at = applying[p].at
      /\ applying'[p].item = applying[p].item /\ applying'[p].whole = applying[p].whole
    BY ApplyStepIs DEF ImportsInv, ApplyPCs
<1>2. /\ RefsAreUnique' /\ EntriesHaveItems' /\ Keeps /\ \A e \in journal' : EntryFields \subseteq DOMAIN e
    BY EntriesUnchanged
<1>3. ApplierKnows(p)'
    BY <1>1, <1>2, GoesOn
<1> QED BY <1>1, <1>2, <1>3, RunMoves DEF ApplyPCs

LEMMA PostRowInv == ASSUME ImportsInv, NEW p \in Principals, PostRow(p) PROVE ImportsInv'
<1>1. /\ UNCHANGED <<batches, applying>>
      /\ \/ UNCHANGED journal
         \/ \E entry : /\ EntryFields \subseteq DOMAIN entry /\ entry.ref.kind = "IMP" /\ Post(entry)
    BY DEF PostRow, Entry, SourceRef, Ref, EntryFields
<1>2. CASE UNCHANGED journal
    BY <1>1, <1>2, NothingApplied
<1>3. ASSUME NEW entry, EntryFields \subseteq DOMAIN entry, entry.ref.kind = "IMP", Post(entry)
      PROVE  ImportsInv'
    <2>1. /\ journal \subseteq journal' /\ journal' \subseteq journal \cup {entry}
          /\ RefsAreUnique' /\ \A e \in journal' : EntryFields \subseteq DOMAIN e
        BY <1>3, Posts
    <2>2. EntriesHaveItems'
        BY <1>1, <1>3, <2>1, EntriesStayWithItems
    <2>3. ApplierKnows(p)'
        BY <1>1, <2>1, KnowsStays DEF ImportsInv, AppliersKnow, Keeps
    <2>4. /\ DOMAIN applying' = Principals /\ applying' = applying
          /\ ApplyFields \subseteq DOMAIN applying[p] /\ ItemFields \subseteq DOMAIN applying[p].item
          /\ applying[p].pc \in ApplyPCs
        BY <1>1 DEF ImportsInv, RowsHaveFields, BatchesHaveFields
    <2> QED BY <1>1, <2>1, <2>2, <2>3, <2>4, RunMoves
<1> QED BY <1>1, <1>2, <1>3

LEMMA StartApplyInv ==
    ASSUME ImportsInv, NEW p \in Principals, NEW b \in DOMAIN batches, StartApply(p, b)
    PROVE  ImportsInv'
<1> DEFINE run == [IdleApply EXCEPT !.pc = "ITEM", !.batch = b, !.todo = DOMAIN batches[b].items]
<1>1. /\ ApplyFields \subseteq DOMAIN run /\ ItemFields \subseteq DOMAIN run.item
      /\ run.pc = "ITEM" /\ run.batch = b /\ run.todo = DOMAIN batches[b].items
    BY DEF IdleApply, StoredItem, ApplyFields, ItemFields
<1>2. UNCHANGED <<journal, batches>> /\ applying' = [applying EXCEPT ![p] = run]
    BY DEF StartApply
<1> HIDE DEF run
<1>3. /\ DOMAIN applying' = Principals /\ \A q \in Principals \ {p} : applying'[q] = applying[q]
      /\ applying'[p] = run
    BY <1>2 DEF ImportsInv, RowsHaveFields, BatchesHaveFields
<1>4. ApplierKnows(p)'
    BY <1>1, <1>2, <1>3 DEF ApplierKnows
<1>5. /\ RefsAreUnique' /\ EntriesHaveItems' /\ \A e \in journal' : EntryFields \subseteq DOMAIN e
    BY <1>2, EntriesUnchanged
<1> QED BY <1>1, <1>2, <1>3, <1>4, <1>5, RunMoves DEF ApplyPCs

\* The first step of the item's action, and the items that need none.
LEMMA FreshItemInv ==
    ASSUME ImportsInv, NEW p \in Principals, NEW i \in applying[p].todo, FreshItem(p, i)
    PROVE  ImportsInv'
<1>0. PICK b : b = applying[p].batch
    OBVIOUS
<1> DEFINE fresh == ItemOf(b, i)
           first == CASE fresh.action \in {"no_change", "still_exception"} -> "SKIP"
                      [] fresh.action = "post_new"                         -> "CORRECT"
                      [] OTHER                                             -> "REVERSE"
           rest == applying[p].todo \ {i}
<1>1. /\ applying[p].pc = "ITEM" /\ UNCHANGED <<journal, batches>>
      /\ b \in DOMAIN batches /\ applying[p].todo \subseteq DOMAIN batches[b].items
      /\ applying[p].whole => \A k \in DOMAIN batches[b].items \ applying[p].todo : Complete(b, k)
    BY <1>0 DEF FreshItem, ImportsInv, AppliersKnow, ApplierKnows
<1>2. /\ RefsAreUnique' /\ EntriesHaveItems' /\ Keeps /\ \A e \in journal' : EntryFields \subseteq DOMAIN e
    BY <1>1, EntriesUnchanged
<1>3. /\ i \in DOMAIN batches[b].items /\ ItemTells(fresh, b, i) /\ ItemFields \subseteq DOMAIN fresh
      /\ fresh.status = "applied" => Complete(b, i)
      /\ fresh.status = "skipped" => fresh.action \in {"no_change", "still_exception"}
    BY <1>1 DEF ImportsInv, ItemsTell, RowsHaveFields, BatchesHaveFields
<1>4. /\ DOMAIN applying = Principals /\ ApplyFields \subseteq DOMAIN applying[p]
      /\ ItemFields \subseteq DOMAIN applying[p].item
    BY DEF ImportsInv, RowsHaveFields
<1>5. \/ applying' = [applying EXCEPT ![p] = IdleApply]
      \/ /\ fresh.status \in {"applied", "skipped"}
         /\ applying' = [applying EXCEPT ![p].todo = @ \ {i}]
      \/ /\ fresh.status \notin {"applied", "skipped"}
         /\ applying' = [applying EXCEPT ![p].todo = @ \ {i}, ![p].at = i, ![p].item = fresh, ![p].pc = first]
    BY <1>0 DEF FreshItem, ItemOf
<1>6. CASE applying' = [applying EXCEPT ![p] = IdleApply]
    BY <1>1, <1>2, <1>6, BecomesIdle, RunMoves DEF ImportsInv, ApplyPCs
<1>7. /\ first \in {"SKIP", "CORRECT", "REVERSE"}
      /\ first = "SKIP" => fresh.action \in {"no_change", "still_exception"}
      /\ first = "REVERSE" => fresh.action \notin NotReversing
      /\ first = "CORRECT" => fresh.action = "post_new"
    BY DEF NotReversing
<1> HIDE DEF fresh, first
<1>8. CASE /\ fresh.status \in {"applied", "skipped"}
           /\ applying' = [applying EXCEPT ![p].todo = @ \ {i}]
    <2>1. /\ DOMAIN applying' = Principals /\ \A q \in Principals \ {p} : applying'[q] = applying[q]
          /\ ApplyFields \subseteq DOMAIN applying'[p] /\ ItemFields \subseteq DOMAIN applying'[p].item
          /\ applying'[p].pc = "ITEM" /\ applying'[p].batch = b /\ applying'[p].todo = rest
          /\ applying'[p].whole = applying[p].whole
        BY <1>0, <1>1, <1>4, <1>8 DEF ApplyFields
    <2>2. Complete(b, i)
        BY <1>3, <1>8 DEF Complete, fresh
    <2>3. applying'[p].whole => \A k \in DOMAIN batches'[b].items \ rest : Complete(b, k)'
        BY <1>1, <1>2, <1>3, <2>1, <2>2, CompleteStays DEF ImportsInv
    <2>4. ApplierKnows(p)'
        BY <1>1, <2>1, <2>3 DEF ApplierKnows
    <2> QED BY <1>1, <1>2, <2>1, <2>4, RunMoves DEF ApplyPCs
<1>9. CASE /\ fresh.status \notin {"applied", "skipped"}
           /\ applying' = [applying EXCEPT ![p].todo = @ \ {i}, ![p].at = i, ![p].item = fresh, ![p].pc = first]
    <2>1. /\ DOMAIN applying' = Principals /\ \A q \in Principals \ {p} : applying'[q] = applying[q]
          /\ ApplyFields \subseteq DOMAIN applying'[p] /\ applying'[p].item = fresh
          /\ applying'[p].pc = first /\ applying'[p].batch = b /\ applying'[p].todo = rest
          /\ applying'[p].at = i /\ applying'[p].whole = applying[p].whole
        BY <1>0, <1>1, <1>4, <1>9 DEF ApplyFields
    <2>2. PICK item : item = fresh
        OBVIOUS
    <2>3. ItemTells(item, b, i)'
        BY <1>1, <1>2, <1>3, <2>2, TellsStays DEF ItemTells, HasEntry
    <2>4. applying'[p].whole => \A k \in DOMAIN batches'[b].items \ rest : Complete(b, k)' \/ k = i
        BY <1>1, <1>2, <1>3, <2>1, CompleteStays DEF ImportsInv
    <2>5. ApplierKnows(p)'
        BY <1>1, <1>3, <1>7, <1>9, <2>1, <2>2, <2>3, <2>4 DEF ApplierKnows
    <2> QED BY <1>1, <1>2, <1>3, <1>7, <2>1, <2>5, RunMoves DEF ApplyPCs
<1> QED BY <1>5, <1>6, <1>8, <1>9

\* The run goes on with its item, in a step that posts nothing or an entry of that item.
LEMMA RunGoesOn ==
    ASSUME ImportsInv, NEW p \in Principals, NEW pc \in ApplyPCs \ {"IDLE", "ITEM"}, NEW code,
           ApplyStep(p, pc, code), applying[p].pc \notin {"IDLE", "ITEM"}, UNCHANGED batches,
           journal \subseteq journal', RefsAreUnique', EntriesHaveItems',
           \A e \in journal' : EntryFields \subseteq DOMAIN e,
           NEW b, NEW i, NEW item, b = applying[p].batch, i = applying[p].at, item = applying[p].item,
           pc = "SKIP" => item.action \in {"no_change", "still_exception"},
           pc \in {"REVERSE", "POST_REVERSAL", "MARK_REVERSAL"} => item.action \notin NotReversing,
           pc = "POST_REVERSAL" => HasEntry(item.old.ref)',
           pc = "MARK_REVERSAL" => Reversed(b, i)',
           pc \in {"CORRECT", "MARK_CORRECTED"} =>
               /\ item.action \notin {"no_change", "still_exception", "reverse_only"}
               /\ item.action # "post_new" => Reversed(b, i)',
           pc = "MARK_CORRECTED" => HasEntry(Ref(CorrectedKind(item), b, i))'
    PROVE  ImportsInv'
<1>1. /\ DOMAIN applying' = Principals /\ \A q \in Principals \ {p} : applying'[q] = applying[q]
      /\ ApplyFields \subseteq DOMAIN applying'[p] /\ ItemFields \subseteq DOMAIN applying'[p].item
      /\ applying'[p].pc = pc /\ applying'[p].batch = applying[p].batch
      /\ applying'[p].todo = applying[p].todo /\ applying'[p].at = applying[p].at
      /\ applying'[p].item = applying[p].item /\ applying'[p].whole = applying[p].whole
    BY ApplyStepIs DEF ImportsInv
<1>2. Keeps
    BY DEF Keeps
<1>3. ApplierKnows(p)'
    BY <1>1, <1>2, GoesOn
<1> QED BY <1>1, <1>3, RunMoves

LEMMA CheckReversalInv ==
    ASSUME ImportsInv, NEW p \in Principals, CheckReversal(p)
    PROVE  ImportsInv'
<1>0. PICK b, i, item : b = applying[p].batch /\ i = applying[p].at /\ item = applying[p].item
    OBVIOUS
<1>1. /\ applying[p].pc = "REVERSE" /\ UNCHANGED <<journal, batches>>
      /\ item.action \notin NotReversing
    BY <1>0 DEF CheckReversal, ImportsInv, AppliersKnow, ApplierKnows
<1>2. /\ b \in DOMAIN batches /\ i \in DOMAIN batches[b].items /\ ItemTells(item, b, i)
    BY <1>0, <1>1, KnowsOf
<1>3. /\ RefsAreUnique' /\ EntriesHaveItems' /\ \A e \in journal' : EntryFields \subseteq DOMAIN e
    BY <1>1, EntriesUnchanged
<1>4. \/ \E code : ApplyStep(p, "FAIL", code)
      \/ /\ ApplyStep(p, "MARK_REVERSAL", Null)
         /\ item.reversal # NoRef /\ HasEntry(item.reversal) /\ EntryOf(item.reversal).reverses = item.old.ref
      \/ ApplyStep(p, "POST_REVERSAL", Null) /\ HasEntry(item.old.ref)
    <2>1. CASE ~TargetIsCurrent(item)
        BY <1>0, <2>1 DEF CheckReversal
    <2>2. CASE TargetIsCurrent(item) /\ item.reversal # NoRef
        BY <1>0, <2>2 DEF CheckReversal
    <2>3. CASE TargetIsCurrent(item) /\ item.reversal = NoRef /\ IsReversed(item.old.ref)
        BY <1>0, <2>3 DEF CheckReversal
    <2>4. CASE TargetIsCurrent(item) /\ item.reversal = NoRef /\ ~IsReversed(item.old.ref)
        BY <1>0, <2>4 DEF CheckReversal, TargetIsCurrent
    <2> QED BY <2>1, <2>2, <2>3, <2>4
<1>5. CASE \E code : ApplyStep(p, "FAIL", code)
    BY <1>1, <1>5, Fails
<1>6. CASE /\ ApplyStep(p, "MARK_REVERSAL", Null)
           /\ item.reversal # NoRef /\ HasEntry(item.reversal) /\ EntryOf(item.reversal).reverses = item.old.ref
    <2>1. item.reversal = Ref("REV", b, i) /\ item.old = ItemOf(b, i).old
        BY <1>2, <1>6 DEF ItemTells
    <2>2. Reversed(b, i)'
        BY <1>1, <1>6, <2>1 DEF Reversed, HasEntry, EntryOf, ItemOf
    <2> QED BY <1>0, <1>1, <1>3, <1>6, <2>2, RunGoesOn DEF ApplyPCs
<1>7. CASE ApplyStep(p, "POST_REVERSAL", Null) /\ HasEntry(item.old.ref)
    <2>1. HasEntry(item.old.ref)'
        BY <1>1, <1>7 DEF HasEntry
    <2> QED BY <1>0, <1>1, <1>3, <1>7, <2>1, RunGoesOn DEF ApplyPCs
<1> QED BY <1>4, <1>5, <1>6, <1>7

LEMMA PostReversalInv ==
    ASSUME ImportsInv, NEW p \in Principals, PostReversal(p)
    PROVE  ImportsInv'
<1>0. PICK b, i, item : b = applying[p].batch /\ i = applying[p].at /\ item = applying[p].item
    OBVIOUS
<1>1. /\ applying[p].pc = "POST_REVERSAL" /\ UNCHANGED batches
      /\ item.action \notin NotReversing /\ HasEntry(item.old.ref)
    BY <1>0 DEF PostReversal, ImportsInv, AppliersKnow, ApplierKnows
<1>2. /\ b \in DOMAIN batches /\ i \in DOMAIN batches[b].items /\ item.old = ItemOf(b, i).old
    BY <1>0, <1>1, KnowsOf DEF ItemTells
<1>3. PICK target : target = EntryOf(item.old.ref) /\ target.ref = item.old.ref
    BY <1>1, EntryFound
<1> DEFINE entry == [ref |-> Ref("REV", b, i), event |-> target.event, amount |-> target.amount, by |-> p,
                     reverses |-> target.ref]
<1>4. \/ UNCHANGED journal /\ \E code : ApplyStep(p, "FAIL", code)
      \/ Post(entry) /\ ApplyStep(p, "MARK_REVERSAL", Null)
    <2>1. entry.ref = Ref("REV", b, i) /\ ItemRef(p, "REV") = Ref("REV", b, i)
        BY <1>0 DEF ItemRef
    <2>2. CASE ~CanPost(entry.ref, p)
        BY <1>0, <1>3, <2>1, <2>2 DEF PostReversal
    <2>3. CASE CanPost(entry.ref, p) /\ ~HasEntry(entry.ref) /\ IsReversed(target.ref)
        BY <1>0, <1>3, <2>1, <2>3 DEF PostReversal
    <2>4. CASE CanPost(entry.ref, p) /\ ~(~HasEntry(entry.ref) /\ IsReversed(target.ref))
        BY <1>0, <1>3, <2>1, <2>4 DEF PostReversal
    <2> QED BY <2>2, <2>3, <2>4
<1>5. CASE UNCHANGED journal /\ \E code : ApplyStep(p, "FAIL", code)
    BY <1>1, <1>5, Fails
<1>6. CASE Post(entry) /\ ApplyStep(p, "MARK_REVERSAL", Null)
    <2>1. /\ EntryFields \subseteq DOMAIN entry /\ entry.ref = Ref("REV", b, i)
          /\ entry.ref.kind = "REV" /\ entry.ref.of = b /\ entry.ref.item = i
          /\ entry.reverses = ItemOf(b, i).old.ref
        BY <1>2, <1>3 DEF EntryFields, Ref
    <2> HIDE DEF entry
    <2>2. /\ journal \subseteq journal' /\ journal' \subseteq journal \cup {entry}
          /\ RefsAreUnique' /\ \A e \in journal' : EntryFields \subseteq DOMAIN e
          /\ \E e \in journal' : e.ref = Ref("REV", b, i)
        BY <1>6, <2>1, Posts
    <2>3. EntriesHaveItems'
        BY <1>1, <1>2, <2>1, <2>2, EntriesStayWithItems
    <2>4. PICK e \in journal' : e = EntryOf(Ref("REV", b, i))' /\ e.ref = Ref("REV", b, i)
        BY <2>2 DEF EntryOf
    <2>5. e.ref.kind = "REV" /\ e.ref.of = b /\ e.ref.item = i
        BY <2>4 DEF Ref
    <2>6. e.reverses = ItemOf(b, i)'.old.ref
        BY <2>3, <2>5 DEF EntriesHaveItems
    <2>7. Reversed(b, i)'
        BY <2>2, <2>4, <2>6 DEF Reversed, HasEntry
    <2> QED BY <1>0, <1>1, <1>6, <2>2, <2>3, <2>7, RunGoesOn DEF ApplyPCs
<1> QED BY <1>4, <1>5, <1>6

LEMMA PostCorrectedInv ==
    ASSUME ImportsInv, NEW p \in Principals, PostCorrected(p)
    PROVE  ImportsInv'
<1>0. PICK b, i, item : b = applying[p].batch /\ i = applying[p].at /\ item = applying[p].item
    OBVIOUS
<1>1. /\ applying[p].pc = "CORRECT" /\ UNCHANGED batches
      /\ item.action \notin {"no_change", "still_exception", "reverse_only"}
      /\ item.action # "post_new" => Reversed(b, i)
    BY <1>0 DEF PostCorrected, ImportsInv, AppliersKnow, ApplierKnows
<1>2. /\ b \in DOMAIN batches /\ i \in DOMAIN batches[b].items /\ ItemTells(item, b, i)
    BY <1>0, <1>1, KnowsOf
<1>3. PICK entry : entry = Entry(Ref(CorrectedKind(item), b, i), CorrectedRow(item), p, NoRef)
    OBVIOUS
<1>4. \/ UNCHANGED journal /\ \E code : ApplyStep(p, "FAIL", code)
      \/ UNCHANGED journal /\ ApplyStep(p, "MARK_CORRECTED", Null) /\ item.corrected # NoRef
      \/ Post(entry) /\ ApplyStep(p, "MARK_CORRECTED", Null)
    <2>1. entry = Entry(ItemRef(p, CorrectedKind(item)), CorrectedRow(item), p, NoRef)
        BY <1>0, <1>3 DEF ItemRef
    <2>2. CASE item.corrected # NoRef
        BY <1>0, <2>1, <2>2 DEF PostCorrected
    <2>3. CASE item.corrected = NoRef /\ ~Mappable(CorrectedRow(item))
        BY <1>0, <2>1, <2>3 DEF PostCorrected
    <2>4. CASE item.corrected = NoRef /\ Mappable(CorrectedRow(item)) /\ ~CanPost(entry.ref, p)
        BY <1>0, <2>1, <2>4 DEF PostCorrected
    <2>5. CASE item.corrected = NoRef /\ Mappable(CorrectedRow(item)) /\ CanPost(entry.ref, p)
        BY <1>0, <2>1, <2>5 DEF PostCorrected
    <2> QED BY <2>2, <2>3, <2>4, <2>5
<1>5. CASE UNCHANGED journal /\ \E code : ApplyStep(p, "FAIL", code)
    BY <1>1, <1>5, Fails
<1>6. CASE UNCHANGED journal /\ ApplyStep(p, "MARK_CORRECTED", Null) /\ item.corrected # NoRef
    <2>1. /\ RefsAreUnique' /\ EntriesHaveItems' /\ \A e \in journal' : EntryFields \subseteq DOMAIN e
        BY <1>1, <1>6, EntriesUnchanged
    <2>2. /\ HasEntry(Ref(CorrectedKind(item), b, i))'
          /\ Reversed(b, i) => Reversed(b, i)'
        BY <1>1, <1>2, <1>6 DEF ItemTells, HasEntry, Reversed, EntryOf, ItemOf
    <2> QED BY <1>0, <1>1, <1>6, <2>1, <2>2, RunGoesOn DEF ApplyPCs
<1>7. CASE Post(entry) /\ ApplyStep(p, "MARK_CORRECTED", Null)
    <2>1. /\ EntryFields \subseteq DOMAIN entry /\ entry.ref = Ref(CorrectedKind(item), b, i)
          /\ entry.ref.kind = CorrectedKind(item) /\ entry.ref.of = b /\ entry.ref.item = i
        BY <1>3 DEF EntryFields, Entry, Ref
    <2>2. /\ entry.ref.kind # "REV"
          /\ entry.ref.kind = "FIX" => item.action # "post_new"
        BY <2>1 DEF CorrectedKind
    <2>3. /\ journal \subseteq journal' /\ journal' \subseteq journal \cup {entry}
          /\ RefsAreUnique' /\ \A e \in journal' : EntryFields \subseteq DOMAIN e
          /\ \E e \in journal' : e.ref = Ref(CorrectedKind(item), b, i)
        BY <1>7, <2>1, Posts
    <2>4. EntriesHaveItems'
        BY <1>1, <1>2, <2>1, <2>2, <2>3, EntriesStayWithItems
    <2>5. HasEntry(Ref(CorrectedKind(item), b, i))'
        BY <2>3 DEF HasEntry
    <2>6. Reversed(b, i) => Reversed(b, i)'
        <3>1. Keeps
            BY <1>1, <2>3 DEF Keeps
        <3> QED BY <1>2, <2>3, <3>1, ReversedStays DEF ImportsInv
    <2> QED BY <1>0, <1>1, <1>7, <2>3, <2>4, <2>5, <2>6, RunGoesOn DEF ApplyPCs
<1> QED BY <1>4, <1>5, <1>6, <1>7

LEMMA CrashInv ==
    ASSUME ImportsInv, NEW p \in Principals, Crash(p)
    PROVE  ImportsInv'
<1>1. UNCHANGED <<journal, batches>> /\ applying' = [applying EXCEPT ![p] = IdleApply]
    BY DEF Crash
<1>2. /\ RefsAreUnique' /\ EntriesHaveItems' /\ \A e \in journal' : EntryFields \subseteq DOMAIN e
    BY <1>1, EntriesUnchanged
<1> QED BY <1>1, <1>2, BecomesIdle, RunMoves DEF ImportsInv, ApplyPCs

LEMMA ItemFaultInv ==
    ASSUME ImportsInv, NEW p \in Principals, ItemFault(p)
    PROVE  ImportsInv'
<1>1. /\ ApplyStep(p, "FAIL", "DATABASE") /\ UNCHANGED <<journal, batches>>
      /\ applying[p].pc \notin {"IDLE", "ITEM"}
    BY DEF ItemFault
<1> QED BY <1>1, Fails

-----------------------------------------------------------------------------
(***************************************************************************)
(* The steps that change a batch or one of its items.                      *)
(***************************************************************************)

\* The ledger is as it was, and items keep what they plan.
LEMMA EntriesKeepItems ==
    ASSUME ImportsInv, UNCHANGED journal, Keeps
    PROVE  RefsAreUnique' /\ EntriesHaveItems'
<1>1. RefsAreUnique'
    BY DEF ImportsInv, RefsAreUnique
<1>2. ASSUME NEW e \in journal
      PROVE  /\ e.ref.kind \in {"REV", "FIX"} =>
                    e.ref.of \in DOMAIN batches /\ e.ref.item \in DOMAIN batches[e.ref.of].items
             /\ e.ref.kind = "REV" => e.reverses = ItemOf(e.ref.of, e.ref.item).old.ref
             /\ e.ref.kind = "FIX" => Reversed(e.ref.of, e.ref.item)
    BY DEF ImportsInv, EntriesHaveItems
<1>3. ASSUME NEW e \in journal, e.ref.kind = "FIX"
      PROVE  Reversed(e.ref.of, e.ref.item)'
    <2>1. \E b \in DOMAIN batches : \E i \in DOMAIN batches[b].items :
              b = e.ref.of /\ i = e.ref.item /\ Reversed(b, i)'
        BY <1>1, <1>2, <1>3, ReversedStays DEF ImportsInv
    <2> QED BY <2>1
<1>4. ASSUME NEW e \in journal, e.ref.kind \in {"REV", "FIX"}
      PROVE  /\ e.ref.of \in DOMAIN batches' /\ e.ref.item \in DOMAIN batches'[e.ref.of].items
             /\ ItemOf(e.ref.of, e.ref.item)'.old = ItemOf(e.ref.of, e.ref.item).old
    BY <1>2, <1>4 DEF Keeps, ItemOf
<1> QED BY <1>1, <1>2, <1>3, <1>4 DEF EntriesHaveItems

LEMMA FunctionIsSequence ==
    ASSUME NEW S, NEW n \in Nat, NEW f \in [1..n -> S]
    PROVE  f \in Seq(S)
OBVIOUS

LEMMA SequenceOfItsElements ==
    ASSUME NEW S, NEW s \in Seq(S)
    PROVE  s \in Seq({s[c] : c \in DOMAIN s})
<1>1. PICK n \in Nat : n = Len(s) /\ s \in [1..n -> S]
    OBVIOUS
<1>2. PICK T : T = {s[c] : c \in DOMAIN s}
    OBVIOUS
<1>3. s \in [1..n -> T]
    BY <1>1, <1>2
<1> QED BY <1>1, <1>2, <1>3, FunctionIsSequence

\* A batch gets a status; the others stay as they are.
LEMMA StatusChanges ==
    ASSUME RowsHaveFields, UNCHANGED journal, NEW b \in DOMAIN batches, NEW status,
           batches' = [batches EXCEPT ![b].status = status]
    PROVE  /\ DOMAIN batches' = DOMAIN batches /\ Keeps
           /\ batches' \in Seq({batches'[c] : c \in DOMAIN batches'})
           /\ batches'[b].status = status
           /\ \A c \in DOMAIN batches \ {b} : batches'[c] = batches[c]
           /\ \A c \in DOMAIN batches :
                 BatchFields \subseteq DOMAIN batches'[c] /\ batches'[c].items = batches[c].items
<1>1. /\ DOMAIN batches' = DOMAIN batches
      /\ \A c \in DOMAIN batches \ {b} : batches'[c] = batches[c]
      /\ batches'[b] = [batches[b] EXCEPT !.status = status]
    BY DEF RowsHaveFields, BatchesHaveFields
<1>2. batches'[b].status = status /\ batches'[b].items = batches[b].items
      /\ BatchFields \subseteq DOMAIN batches'[b]
    BY <1>1 DEF RowsHaveFields, BatchesHaveFields, BatchFields
<1>3. batches' \in Seq({batches'[c] : c \in DOMAIN batches'})
    <2>1. Len(batches) \in Nat /\ DOMAIN batches = 1..Len(batches)
        BY DEF RowsHaveFields, BatchesHaveFields
    <2>2. batches' = [c \in 1..Len(batches) |-> batches'[c]]
        BY <1>1, <2>1
    <2>3. PICK S : S = {batches'[c] : c \in DOMAIN batches'}
        OBVIOUS
    <2>4. \A c \in 1..Len(batches) : batches'[c] \in S
        BY <1>1, <2>1, <2>3
    <2>5. PICK n \in Nat : n = Len(batches)
        BY <2>1
    <2>6. batches' \in [1..n -> S]
        BY <2>2, <2>4, <2>5
    <2>7. batches' \in Seq(S)
        BY <2>5, <2>6, FunctionIsSequence
    <2> QED BY <2>3, <2>7
<1>4. Keeps
    BY <1>1, <1>2 DEF Keeps
<1> QED BY <1>1, <1>2, <1>3, <1>4 DEF RowsHaveFields, BatchesHaveFields

\* A batch that gets a status is complete when that is "applied".
LEMMA StatusInv ==
    ASSUME ImportsInv, UNCHANGED journal, NEW b \in DOMAIN batches, NEW status,
           batches' = [batches EXCEPT ![b].status = status],
           status = "applied" => \A i \in DOMAIN batches[b].items : Complete(b, i)
    PROVE  /\ Keeps /\ RefsAreUnique' /\ EntriesHaveItems' /\ ItemsTell' /\ BatchesComplete'
           /\ BatchesHaveFields'
<1>1. /\ DOMAIN batches' = DOMAIN batches /\ Keeps
      /\ batches' \in Seq({batches'[c] : c \in DOMAIN batches'})
      /\ batches'[b].status = status
      /\ \A c \in DOMAIN batches \ {b} : batches'[c] = batches[c]
      /\ \A c \in DOMAIN batches :
            BatchFields \subseteq DOMAIN batches'[c] /\ batches'[c].items = batches[c].items
    BY StatusChanges DEF ImportsInv
<1>2. RefsAreUnique' /\ EntriesHaveItems'
    BY <1>1, EntriesKeepItems
<1>3. ASSUME NEW c \in DOMAIN batches, NEW i \in DOMAIN batches[c].items
      PROVE  /\ ItemOf(c, i)' = ItemOf(c, i)
             /\ Complete(c, i) => Complete(c, i)'
    BY <1>1, <1>2, CompleteStays DEF ImportsInv, ItemOf
<1>4. ItemsTell'
    <2> SUFFICES ASSUME NEW c \in DOMAIN batches, NEW i \in DOMAIN batches[c].items
                 PROVE  /\ ItemTells(ItemOf(c, i), c, i)'
                        /\ ItemOf(c, i)'.status = "applied" => Complete(c, i)'
                        /\ ItemOf(c, i)'.status = "skipped" =>
                               ItemOf(c, i)'.action \in {"no_change", "still_exception"}
        BY <1>1 DEF ItemsTell
    <2>1. /\ ItemTells(ItemOf(c, i), c, i)
          /\ ItemOf(c, i).status = "applied" => Complete(c, i)
          /\ ItemOf(c, i).status = "skipped" => ItemOf(c, i).action \in {"no_change", "still_exception"}
        BY DEF ImportsInv, ItemsTell
    <2>2. ItemTells(ItemOf(c, i), c, i)'
        BY <1>1, <1>3, <2>1, TellsStays DEF ItemTells, HasEntry, CorrectedKind, Ref, NoRef
    <2> QED BY <1>3, <2>1, <2>2
<1>5. BatchesComplete'
    <2> SUFFICES ASSUME NEW c \in DOMAIN batches, batches'[c].status = "applied",
                        NEW i \in DOMAIN batches[c].items
                 PROVE  Complete(c, i)'
        BY <1>1 DEF BatchesComplete
    <2>1. Complete(c, i)
        BY <1>1 DEF ImportsInv, BatchesComplete
    <2> QED BY <1>3, <2>1
<1>6. ASSUME NEW c \in DOMAIN batches', NEW i \in DOMAIN batches'[c].items
      PROVE  ItemFields \subseteq DOMAIN ItemOf(c, i)'
    <2>1. c \in DOMAIN batches /\ i \in DOMAIN batches[c].items
        BY <1>1
    <2>2. ItemFields \subseteq DOMAIN ItemOf(c, i)
        BY <2>1 DEF ImportsInv, RowsHaveFields, BatchesHaveFields
    <2> QED BY <1>3, <2>1, <2>2
<1>7. BatchesHaveFields'
    BY <1>1, <1>6 DEF BatchesHaveFields
<1> QED BY <1>1, <1>2, <1>4, <1>5, <1>7

LEMMA WriteApprovalInv ==
    ASSUME ImportsInv, NEW p \in Principals, NEW b \in DOMAIN batches, WriteApproval(p, b)
    PROVE  ImportsInv'
<1>1. UNCHANGED <<journal, applying>> /\ batches' = [batches EXCEPT ![b].status = "approved"]
    BY DEF WriteApproval
<1>2. PICK status : status = "approved"
    OBVIOUS
<1>3. /\ Keeps /\ RefsAreUnique' /\ EntriesHaveItems' /\ ItemsTell' /\ BatchesComplete'
      /\ BatchesHaveFields'
    BY <1>1, <1>2, StatusInv
<1>4. RowsHaveFields'
    BY <1>1, <1>3 DEF ImportsInv, RowsHaveFields
<1>5. AppliersKnow'
    BY <1>1, <1>3, KnowsStays DEF ImportsInv, AppliersKnow
<1> QED BY <1>3, <1>4, <1>5 DEF ImportsInv

LEMMA FinishApplyInv ==
    ASSUME ImportsInv, NEW p \in Principals, FinishApply(p)
    PROVE  ImportsInv'
<1>0. PICK b, status : b = applying[p].batch /\ status = IF applying[p].whole THEN "applied" ELSE "failed"
    OBVIOUS
<1>1. /\ UNCHANGED journal /\ batches' = [batches EXCEPT ![b].status = status]
      /\ applying' = [applying EXCEPT ![p] = IdleApply]
      /\ applying[p].pc = "ITEM" /\ applying[p].todo = {}
    BY <1>0 DEF FinishApply
<1>2. /\ b \in DOMAIN batches
      /\ status = "applied" => \A i \in DOMAIN batches[b].items : Complete(b, i)
    BY <1>0, <1>1 DEF ImportsInv, AppliersKnow, ApplierKnows
<1>3. /\ Keeps /\ RefsAreUnique' /\ EntriesHaveItems' /\ ItemsTell' /\ BatchesComplete'
      /\ BatchesHaveFields'
    BY <1>1, <1>2, StatusInv
<1>4. /\ DOMAIN applying' = Principals /\ \A q \in Principals \ {p} : applying'[q] = applying[q]
      /\ ApplyFields \subseteq DOMAIN applying'[p] /\ ItemFields \subseteq DOMAIN applying'[p].item
      /\ applying'[p].pc = "IDLE" /\ ApplierKnows(p)'
    BY <1>1, BecomesIdle DEF ImportsInv
<1>5. RowsHaveFields'
    BY <1>1, <1>3, <1>4 DEF ImportsInv, RowsHaveFields, ApplyPCs
<1>6. AppliersKnow'
    BY <1>3, <1>4, KnowsStays DEF ImportsInv, AppliersKnow
<1> QED BY <1>3, <1>5, <1>6 DEF ImportsInv

\* What may be written of an item: it plans what it planned, and tells nothing that is not so.
MayBecome(b, i, row) ==
    /\ ItemFields \subseteq DOMAIN row
    /\ row.action = ItemOf(b, i).action /\ row.old = ItemOf(b, i).old
    /\ row.reversal \in {NoRef, Ref("REV", b, i)}
    /\ row.corrected # NoRef => HasEntry(Ref(CorrectedKind(row), b, i))
    /\ row.status = "applied" => Complete(b, i)
    /\ row.status = "skipped" => row.action \in {"no_change", "still_exception"}

LEMMA ItemChanges ==
    ASSUME ImportsInv, UNCHANGED journal,
           NEW b \in DOMAIN batches, NEW i \in DOMAIN batches[b].items, NEW row,
           batches' = [batches EXCEPT ![b].items[i] = row],
           MayBecome(b, i, row)
    PROVE  /\ Keeps /\ RefsAreUnique' /\ EntriesHaveItems' /\ ItemsTell' /\ BatchesComplete'
           /\ BatchesHaveFields'
           /\ batches'[b].items[i] = row
<1>1. /\ DOMAIN batches' = DOMAIN batches
      /\ \A c \in DOMAIN batches \ {b} : batches'[c] = batches[c]
      /\ batches'[b] = [batches[b] EXCEPT !.items[i] = row]
    BY DEF ImportsInv, RowsHaveFields, BatchesHaveFields
<1>2. /\ BatchFields \subseteq DOMAIN batches'[b]
      /\ batches'[b].items = [batches[b].items EXCEPT ![i] = row]
      /\ batches'[b].status = batches[b].status
    BY <1>1 DEF ImportsInv, RowsHaveFields, BatchesHaveFields, BatchFields
<1>3. /\ DOMAIN batches'[b].items = DOMAIN batches[b].items
      /\ batches'[b].items[i] = row
      /\ \A k \in DOMAIN batches[b].items \ {i} : batches'[b].items[k] = batches[b].items[k]
    BY <1>2
<1>4. batches' \in Seq({batches'[c] : c \in DOMAIN batches'})
    <2>1. PICK n \in Nat : n = Len(batches) /\ DOMAIN batches = 1..n
        BY DEF ImportsInv, RowsHaveFields, BatchesHaveFields
    <2>2. batches' = [c \in 1..n |-> batches'[c]]
        BY <1>1, <2>1
    <2>3. PICK S : S = {batches'[c] : c \in DOMAIN batches'}
        OBVIOUS
    <2>4. \A c \in 1..n : batches'[c] \in S
        BY <1>1, <2>1, <2>3
    <2>5. batches' \in [1..n -> S]
        BY <2>2, <2>4
    <2>6. batches' \in Seq(S)
        BY <2>1, <2>5, FunctionIsSequence
    <2> QED BY <2>3, <2>6
<1>5. ASSUME NEW c \in DOMAIN batches, NEW k \in DOMAIN batches[c].items
      PROVE  /\ c \in DOMAIN batches' /\ DOMAIN batches'[c].items = DOMAIN batches[c].items
             /\ ItemOf(c, k)' = IF c = b /\ k = i THEN row ELSE ItemOf(c, k)
    BY <1>1, <1>3 DEF ItemOf
<1>6. \A c \in DOMAIN batches :
          BatchFields \subseteq DOMAIN batches'[c] /\ DOMAIN batches'[c].items = DOMAIN batches[c].items
    BY <1>1, <1>2, <1>3 DEF ImportsInv, RowsHaveFields, BatchesHaveFields
<1>7. Keeps
    BY <1>1, <1>5, <1>6 DEF Keeps, ItemOf, MayBecome
<1>8. RefsAreUnique' /\ EntriesHaveItems'
    BY <1>7, EntriesKeepItems
<1>9. ASSUME NEW c \in DOMAIN batches, NEW k \in DOMAIN batches[c].items, Complete(c, k)
      PROVE  Complete(c, k)'
    BY <1>7, <1>8, <1>9, CompleteStays DEF ImportsInv
<1>10. ItemsTell'
    <2> SUFFICES ASSUME NEW c \in DOMAIN batches, NEW k \in DOMAIN batches[c].items
                 PROVE  /\ ItemTells(ItemOf(c, k), c, k)'
                        /\ ItemOf(c, k)'.status = "applied" => Complete(c, k)'
                        /\ ItemOf(c, k)'.status = "skipped" =>
                               ItemOf(c, k)'.action \in {"no_change", "still_exception"}
        BY <1>1, <1>6 DEF ItemsTell
    <2>1. CASE c = b /\ k = i
        <3>1. ItemOf(c, k)' = row
            BY <1>5, <2>1
        <3>2. ItemTells(row, c, k)
            BY <2>1 DEF ItemTells, MayBecome
        <3>3. ItemTells(ItemOf(c, k), c, k)'
            BY <1>7, <3>1, <3>2, TellsStays DEF ItemTells, HasEntry, CorrectedKind, Ref, NoRef
        <3> QED BY <1>9, <2>1, <3>1, <3>3 DEF MayBecome
    <2>2. CASE ~(c = b /\ k = i)
        <3>1. ItemOf(c, k)' = ItemOf(c, k)
            BY <1>5, <2>2
        <3>2. /\ ItemTells(ItemOf(c, k), c, k)
              /\ ItemOf(c, k).status = "applied" => Complete(c, k)
              /\ ItemOf(c, k).status = "skipped" => ItemOf(c, k).action \in {"no_change", "still_exception"}
            BY DEF ImportsInv, ItemsTell
        <3>3. ItemTells(ItemOf(c, k), c, k)'
            BY <1>7, <3>1, <3>2, TellsStays DEF ItemTells, HasEntry, CorrectedKind, Ref, NoRef
        <3> QED BY <1>9, <3>1, <3>2, <3>3
    <2> QED BY <2>1, <2>2
<1>11. BatchesComplete'
    <2>1. \A c \in DOMAIN batches : batches'[c].status = "applied" => batches[c].status = "applied"
        BY <1>1, <1>2
    <2> QED BY <1>1, <1>7, <1>8, <2>1, BatchesStayComplete DEF ImportsInv
<1>12. ASSUME NEW c \in DOMAIN batches', NEW k \in DOMAIN batches'[c].items
       PROVE  ItemFields \subseteq DOMAIN ItemOf(c, k)'
    <2>1. c \in DOMAIN batches /\ k \in DOMAIN batches[c].items
        BY <1>1, <1>6
    <2>2. ItemFields \subseteq DOMAIN ItemOf(c, k)
        BY <2>1 DEF ImportsInv, RowsHaveFields, BatchesHaveFields
    <2> QED BY <1>5, <2>1, <2>2 DEF MayBecome
<1>13. BatchesHaveFields'
    BY <1>1, <1>4, <1>6, <1>12 DEF BatchesHaveFields
<1> QED BY <1>3, <1>7, <1>8, <1>10, <1>11, <1>13

\* The run is done with its item: when all went well, the item is complete.
LEMMA ItemDoneInv ==
    ASSUME ImportsInv, UNCHANGED journal, NEW p \in Principals, applying[p].pc \notin {"IDLE", "ITEM"},
           NEW ok \in BOOLEAN, NextItem(p, ok),
           NEW b, NEW i, b = applying[p].batch, i = applying[p].at, NEW row,
           batches' = [batches EXCEPT ![b].items[i] = row],
           MayBecome(b, i, row),
           ok => Complete(b, i)
    PROVE  ImportsInv'
<1>1. /\ b \in DOMAIN batches /\ i \in DOMAIN batches[b].items
      /\ applying[p].todo \subseteq DOMAIN batches[b].items
      /\ applying[p].whole =>
             \A k \in DOMAIN batches[b].items \ applying[p].todo : Complete(b, k) \/ k = i
    BY KnowsOf
<1>2. /\ Keeps /\ RefsAreUnique' /\ EntriesHaveItems' /\ ItemsTell' /\ BatchesComplete'
      /\ BatchesHaveFields'
    BY <1>1, ItemChanges
<1>3. /\ DOMAIN applying' = Principals /\ \A q \in Principals \ {p} : applying'[q] = applying[q]
      /\ ApplyFields \subseteq DOMAIN applying'[p] /\ ItemFields \subseteq DOMAIN applying'[p].item
      /\ applying'[p].pc = "ITEM" /\ applying'[p].batch = b
      /\ applying'[p].todo = applying[p].todo /\ applying'[p].at = i
      /\ applying'[p].whole = (applying[p].whole /\ ok)
    BY NextItemIs DEF ImportsInv
<1>4. RowsHaveFields'
    BY <1>2, <1>3 DEF ImportsInv, RowsHaveFields, ApplyPCs
<1>5. b \in DOMAIN batches' /\ DOMAIN batches'[b].items = DOMAIN batches[b].items
    BY <1>1, <1>2 DEF Keeps
<1>6. applying'[p].whole => \A k \in DOMAIN batches'[b].items \ applying'[p].todo : Complete(b, k)'
    <2>1. ASSUME NEW k \in DOMAIN batches[b].items, Complete(b, k) PROVE Complete(b, k)'
        BY <1>1, <1>2, <2>1, CompleteStays DEF ImportsInv
    <2> QED BY <1>1, <1>3, <1>5, <2>1
<1>7. ApplierKnows(p)'
    BY <1>1, <1>3, <1>5, <1>6 DEF ApplierKnows
<1>8. AppliersKnow'
    BY <1>2, <1>3, <1>7, KnowsStays DEF ImportsInv, AppliersKnow
<1> QED BY <1>2, <1>4, <1>8 DEF ImportsInv

LEMMA SkipItemInv ==
    ASSUME ImportsInv, NEW p \in Principals, SkipItem(p)
    PROVE  ImportsInv'
<1>0. PICK b, i, item : b = applying[p].batch /\ i = applying[p].at /\ item = ItemOf(b, i)
    OBVIOUS
<1> DEFINE row == [item EXCEPT !.status = "skipped", !.error = Null]
<1>1. /\ applying[p].pc = "SKIP" /\ NextItem(p, TRUE) /\ UNCHANGED journal
      /\ batches' = [batches EXCEPT ![b].items[i] = [@ EXCEPT !.status = "skipped", !.error = Null]]
    BY <1>0 DEF SkipItem, UpdateItem
<1>2. /\ b \in DOMAIN batches /\ i \in DOMAIN batches[b].items
      /\ ItemFields \subseteq DOMAIN item /\ ItemTells(item, b, i)
      /\ item.action \in {"no_change", "still_exception"}
    BY <1>0, <1>1, KnowsOf DEF ImportsInv, RowsHaveFields, BatchesHaveFields, ItemsTell, AppliersKnow,
       ApplierKnows, ItemTells
<1>3. /\ ItemFields \subseteq DOMAIN row /\ row.action = item.action /\ row.old = item.old
      /\ row.reversal = item.reversal /\ row.corrected = item.corrected /\ row.status = "skipped"
    BY <1>2 DEF ItemFields
<1>4. batches' = [batches EXCEPT ![b].items[i] = row]
    BY <1>0, <1>1 DEF ItemOf
<1> HIDE DEF row
<1>5. Complete(b, i)
    BY <1>0, <1>2 DEF Complete
<1>6. row.corrected # NoRef => HasEntry(Ref(CorrectedKind(row), b, i))
    BY <1>2, <1>3 DEF ItemTells, CorrectedKind
<1>7. row.reversal \in {NoRef, Ref("REV", b, i)}
    BY <1>2, <1>3 DEF ItemTells
<1>8. MayBecome(b, i, row)
    BY <1>0, <1>2, <1>3, <1>6, <1>7 DEF MayBecome
<1> QED BY <1>0, <1>1, <1>4, <1>5, <1>8, ItemDoneInv

LEMMA FailItemInv ==
    ASSUME ImportsInv, NEW p \in Principals, FailItem(p)
    PROVE  ImportsInv'
<1>0. PICK b, i, item, code : /\ b = applying[p].batch /\ i = applying[p].at /\ item = ItemOf(b, i)
                              /\ code = applying[p].code
    OBVIOUS
<1> DEFINE row == [item EXCEPT !.status = "failed", !.error = code]
<1>1. /\ applying[p].pc = "FAIL" /\ NextItem(p, FALSE) /\ UNCHANGED journal
      /\ batches' = [batches EXCEPT ![b].items[i] = [@ EXCEPT !.status = "failed", !.error = code]]
    BY <1>0 DEF FailItem, UpdateItem
<1>2. /\ b \in DOMAIN batches /\ i \in DOMAIN batches[b].items
      /\ ItemFields \subseteq DOMAIN item /\ ItemTells(item, b, i)
    BY <1>0, <1>1, KnowsOf DEF ImportsInv, RowsHaveFields, BatchesHaveFields, ItemsTell
<1>3. /\ ItemFields \subseteq DOMAIN row /\ row.action = item.action /\ row.old = item.old
      /\ row.reversal = item.reversal /\ row.corrected = item.corrected /\ row.status = "failed"
    BY <1>2 DEF ItemFields
<1>4. batches' = [batches EXCEPT ![b].items[i] = row]
    BY <1>0, <1>1 DEF ItemOf
<1> HIDE DEF row
<1>5. row.corrected # NoRef => HasEntry(Ref(CorrectedKind(row), b, i))
    BY <1>2, <1>3 DEF ItemTells, CorrectedKind
<1>6. row.reversal \in {NoRef, Ref("REV", b, i)}
    BY <1>2, <1>3 DEF ItemTells
<1>7. MayBecome(b, i, row)
    BY <1>0, <1>2, <1>3, <1>5, <1>6 DEF MayBecome
<1> QED BY <1>0, <1>1, <1>4, <1>7, ItemDoneInv

LEMMA MarkCorrectedInv ==
    ASSUME ImportsInv, NEW p \in Principals, MarkCorrected(p)
    PROVE  ImportsInv'
<1>0. PICK b, i, item : b = applying[p].batch /\ i = applying[p].at /\ item = ItemOf(b, i)
    OBVIOUS
<1> DEFINE ref == Ref(CorrectedKind(item), b, i)
           row == [item EXCEPT !.corrected = ref, !.status = "applied", !.error = Null]
<1>1. /\ applying[p].pc = "MARK_CORRECTED" /\ NextItem(p, TRUE) /\ UNCHANGED journal
      /\ batches' = [batches EXCEPT ![b].items[i] = row]
    BY <1>0 DEF MarkCorrected, UpdateItem, ItemRef, ItemOf
<1>2. /\ b \in DOMAIN batches /\ i \in DOMAIN batches[b].items
      /\ ItemFields \subseteq DOMAIN item /\ ItemTells(item, b, i)
      /\ applying[p].item.action = item.action
    BY <1>0, <1>1, KnowsOf DEF ImportsInv, RowsHaveFields, BatchesHaveFields, ItemsTell, ItemTells
<1>3. /\ item.action \notin {"no_change", "still_exception", "reverse_only"}
      /\ item.action # "post_new" => Reversed(b, i)
      /\ HasEntry(ref)
    BY <1>0, <1>1, <1>2 DEF ImportsInv, AppliersKnow, ApplierKnows, CorrectedKind
<1>4. /\ ItemFields \subseteq DOMAIN row /\ row.action = item.action /\ row.old = item.old
      /\ row.reversal = item.reversal /\ row.corrected = ref /\ row.status = "applied"
    BY <1>2 DEF ItemFields
<1>5. Complete(b, i)
    BY <1>0, <1>3 DEF Complete
<1> HIDE DEF row
<1>6. HasEntry(Ref(CorrectedKind(row), b, i))
    BY <1>3, <1>4 DEF CorrectedKind
<1>7. row.reversal \in {NoRef, Ref("REV", b, i)}
    BY <1>2, <1>4 DEF ItemTells
<1>8. MayBecome(b, i, row)
    BY <1>0, <1>2, <1>4, <1>5, <1>6, <1>7 DEF MayBecome
<1> QED BY <1>0, <1>1, <1>5, <1>8, ItemDoneInv

LEMMA MarkReversalInv ==
    ASSUME ImportsInv, NEW p \in Principals, MarkReversal(p)
    PROVE  ImportsInv'
<1>0. PICK b, i, item, now : /\ b = applying[p].batch /\ i = applying[p].at
                             /\ item = applying[p].item /\ now = ItemOf(b, i)
    OBVIOUS
<1>1. PICK status : status = IF item.action = "reverse_only" THEN "applied" ELSE item.status
    OBVIOUS
<1>2. PICK row : row = [now EXCEPT !.reversal = Ref("REV", b, i), !.error = Null, !.status = status]
    OBVIOUS
<1>3. /\ applying[p].pc = "MARK_REVERSAL" /\ UNCHANGED journal
      /\ batches' = [batches EXCEPT ![b].items[i] = row]
      /\ IF item.action = "reverse_only" THEN NextItem(p, TRUE)
         ELSE applying' = [applying EXCEPT ![p].pc = "CORRECT", ![p].code = Null, ![p].item = row]
    BY <1>0, <1>1, <1>2 DEF MarkReversal, UpdateItem, ItemRef, ItemOf
<1>4. /\ b \in DOMAIN batches /\ i \in DOMAIN batches[b].items
      /\ applying[p].todo \subseteq DOMAIN batches[b].items
      /\ ItemFields \subseteq DOMAIN now /\ ItemTells(now, b, i) /\ ItemTells(item, b, i)
      /\ item.action = now.action /\ item.status \notin {"applied", "skipped"}
      /\ applying[p].whole =>
             \A k \in DOMAIN batches[b].items \ applying[p].todo : Complete(b, k) \/ k = i
    BY <1>0, <1>3, KnowsOf DEF ImportsInv, RowsHaveFields, BatchesHaveFields, ItemsTell, ItemTells
<1>5. item.action \notin NotReversing /\ Reversed(b, i)
    BY <1>0, <1>3 DEF ImportsInv, AppliersKnow, ApplierKnows
<1>6. /\ ItemFields \subseteq DOMAIN row /\ row.action = now.action /\ row.old = now.old
      /\ row.reversal = Ref("REV", b, i) /\ row.corrected = now.corrected /\ row.status = status
    BY <1>4, <1>2 DEF ItemFields
<1>7. row.corrected # NoRef => HasEntry(Ref(CorrectedKind(row), b, i))
    BY <1>4, <1>6 DEF ItemTells, CorrectedKind
<1>8. row.status = "applied" => Complete(b, i)
    BY <1>0, <1>4, <1>5, <1>6, <1>1 DEF Complete
<1>9. row.status # "skipped"
    BY <1>4, <1>6, <1>1
<1>10. MayBecome(b, i, row)
    BY <1>0, <1>4, <1>6, <1>7, <1>8, <1>9 DEF MayBecome
<1>11. CASE item.action = "reverse_only"
    <2>1. Complete(b, i)
        BY <1>6, <1>8, <1>11, <1>1
    <2> QED BY <1>0, <1>3, <1>11, <1>10, <2>1, ItemDoneInv
<1>12. CASE item.action # "reverse_only"
    <2>1. /\ Keeps /\ RefsAreUnique' /\ EntriesHaveItems' /\ ItemsTell' /\ BatchesComplete'
          /\ BatchesHaveFields'
          /\ batches'[b].items[i] = row
        BY <1>3, <1>4, <1>10, ItemChanges
    <2>2. /\ DOMAIN applying' = Principals /\ \A q \in Principals \ {p} : applying'[q] = applying[q]
          /\ ApplyFields \subseteq DOMAIN applying'[p] /\ applying'[p].item = row
          /\ applying'[p].pc = "CORRECT" /\ applying'[p].batch = b
          /\ applying'[p].todo = applying[p].todo /\ applying'[p].at = i
          /\ applying'[p].whole = applying[p].whole
        BY <1>0, <1>3, <1>12 DEF ImportsInv, RowsHaveFields, BatchesHaveFields, ApplyFields
    <2>3. RowsHaveFields'
        BY <1>3, <1>6, <2>1, <2>2 DEF ImportsInv, RowsHaveFields, ApplyPCs
    <2>4. b \in DOMAIN batches' /\ DOMAIN batches'[b].items = DOMAIN batches[b].items
        BY <1>4, <2>1 DEF Keeps
    <2>5. ItemTells(row, b, i)'
        <3>1. ItemOf(b, i)' = row
            BY <2>1 DEF ItemOf
        <3>2. ItemTells(ItemOf(b, i), b, i)'
            BY <1>4, <2>1, <2>4 DEF ItemsTell
        <3> QED BY <3>1, <3>2
    <2>6. Reversed(b, i)'
        BY <1>4, <1>5, <2>1, ReversedStays DEF ImportsInv
    <2>7. applying'[p].whole =>
              \A k \in DOMAIN batches'[b].items \ applying'[p].todo : Complete(b, k)' \/ k = i
        <3>1. ASSUME NEW k \in DOMAIN batches[b].items, Complete(b, k) PROVE Complete(b, k)'
            BY <1>4, <2>1, <3>1, CompleteStays DEF ImportsInv
        <3> QED BY <1>4, <2>2, <2>4, <3>1
    <2>8. /\ row.status \notin {"applied", "skipped"}
          /\ row.action \notin {"no_change", "still_exception", "reverse_only"}
        BY <1>4, <1>5, <1>6, <1>12, <1>1 DEF NotReversing
    <2>9. ApplierKnows(p)'
        BY <1>4, <2>2, <2>4, <2>5, <2>6, <2>7, <2>8 DEF ApplierKnows
    <2>10. AppliersKnow'
        BY <2>1, <2>2, <2>9, KnowsStays DEF ImportsInv, AppliersKnow
    <2> QED BY <2>1, <2>3, <2>10 DEF ImportsInv
<1> QED BY <1>11, <1>12

\* A plan comes after the batches that are there; no entry belongs to it yet.
LEMMA PlanInv ==
    ASSUME ImportsInv, NEW p, NEW version, NEW withResolver, Plan(p, version, withResolver)
    PROVE  ImportsInv'
<1>1. PICK plan : plan = DiffRows(rows, Parse(version, withResolver))
    OBVIOUS
<1>2. PICK items : items = [i \in DOMAIN plan |-> StoredItem(plan[i])]
    OBVIOUS
<1>3. PICK batch : batch = [status |-> "planned", by |-> p, version |-> version, resolved |-> withResolver,
                            items |-> items]
    OBVIOUS
<1>4. batches' = Append(batches, batch) /\ UNCHANGED <<journal, applying>>
    BY <1>1, <1>2, <1>3 DEF Plan
<1>5. BatchFields \subseteq DOMAIN batch /\ batch.items = items /\ batch.status = "planned"
    BY <1>3 DEF BatchFields
<1>6. ASSUME NEW i \in DOMAIN items
      PROVE  /\ ItemFields \subseteq DOMAIN items[i] /\ items[i].status = "planned"
             /\ items[i].reversal = NoRef /\ items[i].corrected = NoRef
    BY <1>2 DEF StoredItem, ItemFields
<1>7. PICK n \in Nat : n = Len(batches) /\ DOMAIN batches = 1..n
    BY DEF ImportsInv, RowsHaveFields, BatchesHaveFields
<1>8. PICK S : batches \in Seq(S) /\ batch \in S
    <2>1. PICK T : batches \in Seq(T)
        BY DEF ImportsInv, RowsHaveFields, BatchesHaveFields
    <2>2. batches \in Seq(T \cup {batch})
        BY <2>1
    <2> QED BY <2>2
<1>9. /\ Append(batches, batch) \in Seq(S) /\ Len(Append(batches, batch)) = n + 1
      /\ Append(batches, batch)[n + 1] = batch
      /\ \A c \in 1..n : Append(batches, batch)[c] = batches[c]
    BY <1>7, <1>8
<1>10. /\ DOMAIN batches' = 1..(n + 1) /\ batches'[n + 1] = batch
       /\ \A c \in DOMAIN batches : c \in DOMAIN batches' /\ batches'[c] = batches[c] /\ c # n + 1
       /\ \A c \in DOMAIN batches' : c = n + 1 \/ c \in DOMAIN batches
    BY <1>4, <1>7, <1>9
<1>11. batches' \in Seq({batches'[c] : c \in DOMAIN batches'})
    BY <1>4, <1>9, SequenceOfItsElements
<1>12. Keeps
    BY <1>4, <1>10 DEF Keeps
<1>13. RefsAreUnique' /\ EntriesHaveItems'
    BY <1>4, <1>12, EntriesKeepItems
<1>14. RowsHaveFields'
    <2>1. ASSUME NEW c \in DOMAIN batches'
          PROVE  /\ BatchFields \subseteq DOMAIN batches'[c]
                 /\ \A i \in DOMAIN batches'[c].items : ItemFields \subseteq DOMAIN batches'[c].items[i]
        <3>1. CASE c = n + 1
            BY <1>5, <1>6, <1>10, <3>1
        <3>2. CASE c \in DOMAIN batches
            BY <1>10, <3>2 DEF ImportsInv, RowsHaveFields, BatchesHaveFields, ItemOf
        <3> QED BY <1>10, <3>1, <3>2
    <2> QED BY <1>4, <1>11, <2>1 DEF ImportsInv, RowsHaveFields, BatchesHaveFields, ItemOf
<1>15. ItemsTell'
    <2> SUFFICES ASSUME NEW c \in DOMAIN batches', NEW i \in DOMAIN batches'[c].items
                 PROVE  /\ ItemTells(ItemOf(c, i), c, i)'
                        /\ ItemOf(c, i)'.status = "applied" => Complete(c, i)'
                        /\ ItemOf(c, i)'.status = "skipped" =>
                               ItemOf(c, i)'.action \in {"no_change", "still_exception"}
        BY DEF ItemsTell
    <2>1. CASE c = n + 1
        <3>1. /\ ItemOf(c, i)'.status = "planned"
              /\ ItemOf(c, i)'.reversal = NoRef /\ ItemOf(c, i)'.corrected = NoRef
            BY <1>5, <1>6, <1>10, <2>1 DEF ItemOf
        <3> QED BY <3>1 DEF ItemTells, NoRef
    <2>2. CASE c \in DOMAIN batches
        <3>1. i \in DOMAIN batches[c].items /\ ItemOf(c, i)' = ItemOf(c, i)
            BY <1>10, <2>2 DEF ItemOf
        <3>2. /\ ItemTells(ItemOf(c, i), c, i)
              /\ ItemOf(c, i).status = "applied" => Complete(c, i)
              /\ ItemOf(c, i).status = "skipped" => ItemOf(c, i).action \in {"no_change", "still_exception"}
            BY <2>2, <3>1 DEF ImportsInv, ItemsTell
        <3>3. ItemTells(ItemOf(c, i), c, i)'
            BY <1>12, <2>2, <3>1, <3>2, TellsStays DEF ItemTells, HasEntry, CorrectedKind, Ref, NoRef
        <3>4. Complete(c, i) => Complete(c, i)'
            BY <1>12, <1>13, <2>2, <3>1, CompleteStays DEF ImportsInv
        <3> QED BY <3>1, <3>2, <3>3, <3>4
    <2> QED BY <1>10, <2>1, <2>2
<1>16. AppliersKnow'
    BY <1>4, <1>12, <1>13, KnowsStays DEF ImportsInv, AppliersKnow
<1>17. BatchesComplete'
    <2> SUFFICES ASSUME NEW c \in DOMAIN batches', batches'[c].status = "applied",
                        NEW i \in DOMAIN batches'[c].items
                 PROVE  Complete(c, i)'
        BY DEF BatchesComplete
    <2>1. c \in DOMAIN batches /\ batches'[c] = batches[c]
        BY <1>5, <1>10
    <2>2. Complete(c, i)
        BY <2>1 DEF ImportsInv, BatchesComplete
    <2> QED BY <1>12, <1>13, <2>1, <2>2, CompleteStays DEF ImportsInv
<1> QED BY <1>13, <1>14, <1>15, <1>16, <1>17 DEF ImportsInv

-----------------------------------------------------------------------------
LEMMA InitInv == ImportsInit => ImportsInv
<1> SUFFICES ASSUME ImportsInit PROVE ImportsInv
    OBVIOUS
<1>1. RowsHaveFields
    BY IdleFields DEF ImportsInit, RowsHaveFields, BatchesHaveFields, ApplyPCs
<1>2. RefsAreUnique /\ EntriesHaveItems /\ ItemsTell /\ BatchesComplete
    BY DEF ImportsInit, RefsAreUnique, EntriesHaveItems, ItemsTell, BatchesComplete
<1>3. AppliersKnow
    BY IdleFields DEF ImportsInit, AppliersKnow, ApplierKnows
<1> QED BY <1>1, <1>2, <1>3 DEF ImportsInv

LEMMA NextInv == ImportsInv /\ [ImportsNext]_importVars => ImportsInv'
<1> SUFFICES ASSUME ImportsInv, [ImportsNext]_importVars PROVE ImportsInv'
    OBVIOUS
<1>1. CASE UNCHANGED importVars
    BY <1>1, NothingApplied DEF importVars
<1>2. ASSUME NEW v, Stage(v) PROVE ImportsInv'
    BY <1>2, NothingApplied DEF Stage
<1>3. ASSUME NEW p, StartPosting(p) PROVE ImportsInv'
    BY <1>3, NothingApplied DEF StartPosting
<1>4. ASSUME NEW p \in Principals, PostingStep(p) PROVE ImportsInv'
    <2>1. CASE PostRow(p)
        BY <2>1, PostRowInv
    <2>2. CASE SkipRow(p) \/ MapRow(p) \/ MarkRow(p) \/ FailRow(p) \/ RowFault(p)
        <3>1. UNCHANGED <<journal, batches, applying>>
            BY <2>2 DEF SkipRow, MapRow, MarkRow, FailRow, RowFault
        <3> QED BY <3>1, NothingApplied
    <2> QED BY <1>4, <2>1, <2>2 DEF PostingStep
<1>5. ASSUME NEW p \in Principals, ApplyingStep(p) PROVE ImportsInv'
    BY <1>5, SkipItemInv, CheckReversalInv, PostReversalInv, MarkReversalInv, PostCorrectedInv,
       MarkCorrectedInv, FailItemInv, FinishApplyInv, ItemFaultInv, FreshItemInv DEF ApplyingStep
<1>6. ASSUME NEW p \in Principals, Crash(p) PROVE ImportsInv'
    BY <1>6, CrashInv
<1>7. ASSUME NEW p, NEW v, NEW r, Plan(p, v, r) PROVE ImportsInv'
    BY <1>7, PlanInv
<1>8. ASSUME NEW p \in Principals, NEW b \in DOMAIN batches, BatchStep(p, b) PROVE ImportsInv'
    <2>1. CASE CheckApproval(p, b)
        BY <2>1, NothingApplied DEF CheckApproval
    <2> QED BY <1>8, <2>1, WriteApprovalInv, StartApplyInv DEF BatchStep
<1> QED BY <1>1, <1>2, <1>3, <1>4, <1>5, <1>6, <1>7, <1>8 DEF ImportsNext

(***************************************************************************)
(* However posting, planning and applying interleave, fail and crash:      *)
(* references are unique, correction entries belong to an item and a       *)
(* correction follows its reversal, and what the items, batches and runs   *)
(* of applyCorrectionBatch tell of the ledger is so.                       *)
(***************************************************************************)
THEOREM ImportsInvariant == ImportsSpec => []ImportsInv
<1>1. ImportsInit => ImportsInv
    BY InitInv
<1>2. ImportsInv /\ [ImportsNext]_importVars => ImportsInv'
    BY NextInv
<1> QED BY <1>1, <1>2, PTL DEF ImportsSpec

LEMMA InvIsPosted == ImportsInv => AppliedItemsArePosted
<1> SUFFICES ASSUME ImportsInv, NEW b \in DOMAIN batches, NEW i \in DOMAIN batches[b].items
             PROVE  /\ ItemOf(b, i).status = "applied" \/ batches[b].status = "applied" => Complete(b, i)
                    /\ HasEntry(Ref("FIX", b, i)) => Reversed(b, i)
    BY DEF AppliedItemsArePosted, ItemOf, Complete, Reversed
<1>1. ItemOf(b, i).status = "applied" \/ batches[b].status = "applied" => Complete(b, i)
    BY DEF ImportsInv, ItemsTell, BatchesComplete
<1>2. ASSUME HasEntry(Ref("FIX", b, i)) PROVE Reversed(b, i)
    <2>1. PICK e \in journal : e.ref = Ref("FIX", b, i)
        BY <1>2 DEF HasEntry
    <2>2. e.ref.kind = "FIX" /\ e.ref.of = b /\ e.ref.item = i
        BY <2>1 DEF Ref
    <2> QED BY <2>2 DEF ImportsInv, EntriesHaveItems
<1> QED BY <1>1, <1>2

(***************************************************************************)
(* An applied item, and every item of an applied batch, has its reversal   *)
(* and its corrected entry in the ledger, and a corrected entry is never   *)
(* without the reversal of what it corrects (applyItem, ensureReversal,    *)
(* ensureCorrectedPosting), for any number of runs, failures and crashes.  *)
(***************************************************************************)
THEOREM AppliedArePosted == ImportsSpec => []AppliedItemsArePosted
BY ImportsInvariant, InvIsPosted, PTL

-----------------------------------------------------------------------------
(***************************************************************************)
(* The rows of a staging know their line, and are marked with no entry but *)
(* their own.                                                              *)
(***************************************************************************)
RowFields == {"id", "ref", "status", "code"}

RowsNameLines ==
    \A i \in DOMAIN rows :
        /\ RowFields \subseteq DOMAIN rows[i]
        /\ rows[i].id[2] = i
        /\ rows[i].ref \in {NoRef, SourceRef(rows[i])}

LEMMA RowsNameLinesInv == ImportsSpec => []RowsNameLines
<1>1. ImportsInit => RowsNameLines
    BY DEF ImportsInit, RowsNameLines
<1>2. RowsNameLines /\ [ImportsNext]_importVars => RowsNameLines'
    <2> SUFFICES ASSUME RowsNameLines, [ImportsNext]_importVars PROVE RowsNameLines'
        OBVIOUS
    <2>1. CASE UNCHANGED rows
        BY <2>1 DEF RowsNameLines, SourceRef, Ref
    <2>2. ASSUME NEW v, Stage(v) PROVE RowsNameLines'
        <3>1. PICK parsed : rows' = [l \in DOMAIN parsed |->
                                        [AsNew(parsed[l]) EXCEPT !.id = <<stagings + 1, l>>]]
            BY <2>2 DEF Stage
        <3>2. ASSUME NEW l \in DOMAIN parsed
              PROVE  /\ RowFields \subseteq DOMAIN rows'[l]
                     /\ rows'[l].id = <<stagings + 1, l>> /\ rows'[l].ref = NoRef
            BY <3>1 DEF AsNew, NoRow, RowFields
        <3> QED BY <3>1, <3>2 DEF RowsNameLines
    <2>3. ASSUME NEW p, MarkRow(p) PROVE RowsNameLines'
        <3>1. CASE UNCHANGED rows
            BY <2>1, <3>1
        <3>2. CASE StillStaged(p) /\ rows' = [rows EXCEPT ![posting[p].at].ref = SourceRef(RowAt(p))]
            <4>1. PICK at \in DOMAIN rows : at = posting[p].at /\ rows[at].id = RowAt(p).id
                BY <3>2 DEF StillStaged
            <4>2. SourceRef(RowAt(p)) = SourceRef(rows[at])
                BY <4>1 DEF SourceRef
            <4>3. PICK ref : ref = SourceRef(rows[at]) /\ rows' = [rows EXCEPT ![at].ref = ref]
                BY <3>2, <4>1, <4>2
            <4>4. /\ DOMAIN rows' = DOMAIN rows
                  /\ \A i \in DOMAIN rows : i # at => rows'[i] = rows[i]
                  /\ RowFields \subseteq DOMAIN rows'[at]
                  /\ rows'[at].id = rows[at].id /\ rows'[at].ref = ref
                BY <4>3 DEF RowsNameLines, RowFields
            <4> QED BY <4>3, <4>4 DEF RowsNameLines, SourceRef
        <3> QED BY <2>3, <3>1, <3>2 DEF MarkRow
    <2>4. ASSUME NEW p, FailRow(p) PROVE RowsNameLines'
        <3>1. CASE UNCHANGED rows
            BY <2>1, <3>1
        <3>2. CASE /\ StillStaged(p)
                   /\ rows' = [rows EXCEPT ![posting[p].at].status = "exception",
                                           ![posting[p].at].code = posting[p].code]
            <4>1. PICK at \in DOMAIN rows : at = posting[p].at
                BY <3>2 DEF StillStaged
            <4>2. /\ DOMAIN rows' = DOMAIN rows
                  /\ \A i \in DOMAIN rows : i # at => rows'[i] = rows[i]
                  /\ RowFields \subseteq DOMAIN rows'[at]
                  /\ rows'[at].id = rows[at].id /\ rows'[at].ref = rows[at].ref
                BY <3>2, <4>1 DEF RowsNameLines, RowFields
            <4> QED BY <4>2 DEF RowsNameLines, SourceRef
        <3> QED BY <2>4, <3>1, <3>2 DEF FailRow
    <2>5. CASE UNCHANGED importVars
        BY <2>1, <2>5 DEF importVars
    <2>6. ASSUME NEW p, PostingStep(p) PROVE RowsNameLines'
        <3>1. CASE SkipRow(p) \/ MapRow(p) \/ PostRow(p) \/ RowFault(p)
            BY <2>1, <3>1 DEF SkipRow, MapRow, PostRow, RowFault
        <3> QED BY <2>3, <2>4, <2>6, <3>1 DEF PostingStep
    <2>7. ASSUME NEW p, ApplyingStep(p) PROVE UNCHANGED rows
        BY <2>7 DEF ApplyingStep, SkipItem, CheckReversal, PostReversal, MarkReversal, PostCorrected,
                    MarkCorrected, FailItem, FinishApply, ItemFault, FreshItem
    <2>8. ASSUME NEW p, StartPosting(p) \/ Crash(p) PROVE UNCHANGED rows
        BY <2>8 DEF StartPosting, Crash
    <2>9. ASSUME NEW p, NEW v, NEW r, Plan(p, v, r) PROVE UNCHANGED rows
        BY <2>9 DEF Plan
    <2>10. ASSUME NEW p, NEW b, BatchStep(p, b) PROVE UNCHANGED rows
        BY <2>10 DEF BatchStep, CheckApproval, WriteApproval, StartApply
    <2> QED BY <2>1, <2>2, <2>5, <2>6, <2>7, <2>8, <2>9, <2>10 DEF ImportsNext
<1> QED BY <1>1, <1>2, PTL DEF ImportsSpec

(***************************************************************************)
(* A recovery report that ships counts no line of the file twice, however  *)
(* often the file has been staged and its rows posted: an entry that ties  *)
(* out is that of the line's present row, and that has one                 *)
(* (reportBlockingIssues, replaceRows).                                    *)
(***************************************************************************)
THEOREM LinesCountOnce == ImportsSpec => []ShippedLinesCountOnce
<1>1. RefsAreUnique /\ RowsNameLines => ShippedLinesCountOnce
    <2> SUFFICES ASSUME RefsAreUnique, RowsNameLines, TiesOut,
                        NEW d \in journal, NEW e \in journal,
                        NamesFile(d), NamesFile(e), LineOf(d) = LineOf(e)
                 PROVE  d = e
        BY DEF ShippedLinesCountOnce
    <2>1. ASSUME NEW f \in journal, NamesFile(f)
          PROVE  \E i \in DOMAIN rows : f.ref = SourceRef(rows[i]) /\ i = LineOf(f)
        <3>1. PICK i \in DOMAIN rows : rows[i].ref = f.ref
            BY <2>1 DEF TiesOut, Included
        <3>2. rows[i].ref # NoRef
            BY <2>1, <3>1 DEF NamesFile, NoRef
        <3>3. f.ref = SourceRef(rows[i]) /\ rows[i].id[2] = i
            BY <3>1, <3>2 DEF RowsNameLines
        <3> QED BY <3>3 DEF LineOf, SourceRef, Ref
    <2>2. d.ref = e.ref
        BY <2>1
    <2> QED BY <2>2 DEF RefsAreUnique
<1> QED BY <1>1, ImportsInvariant, RowsNameLinesInv, PTL DEF ImportsInv
=============================================================================
