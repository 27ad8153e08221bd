---------------------------- MODULE CorrectionPlan ----------------------------
(***************************************************************************)
(* diffRows of import-correction-planner.service.ts: what has to be        *)
(* reversed and posted when a file that is staged as `old` is read as      *)
(* `new`.                                                                  *)
(***************************************************************************)
EXTENDS ImportParsing, SequencesExt

NoRef == [kind |-> "NONE", of |-> 0, item |-> 0]

Magnitude(n) == IF n < 0 THEN -n ELSE n

Charges == {"freight_charged", "rto_freight_charged", "return_freight_charged"}
MappedEvents == Charges \cup {"shipment_refund", "weight_dispute_debit", "weight_dispute_credit",
                              "cod_collected", "cod_remitted"}

\* correctionRowFingerprint: `detail` stands for the dates, codes and categories; amounts lose their
\* sign.
Fingerprint(row) ==
    [row |-> ParsedRow(row.status, row.code, row.event, row.shipment, Magnitude(row.amount), row.detail)]

\* isPostableRow
Postable(row) ==
    /\ row.status \in {"parsed", "resolved", "validated", "ready_for_posting", "posted"}
    /\ row.shipment # Null
    /\ row.event \in MappedEvents
    /\ row.amount # 0

WasPosted(oldRow) == oldRow.ref # NoRef
SameShipment(a, b) == a.shipment # Null /\ a.shipment = b.shipment
SameSemantics(a, b) == SameShipment(a, b) /\ a.event # Null /\ a.event = b.event

NoRow == [id |-> <<0, 0>>, ref |-> NoRef, status |-> Null, code |-> Null, event |-> Null, shipment |-> Null,
          amount |-> 0, detail |-> Null]
AsNew(row) == [NoRow EXCEPT !.status = row.status, !.code = row.code, !.event = row.event,
                            !.shipment = row.shipment, !.amount = row.amount, !.detail = row.detail]

\* createItem
Item(action, oldRow, newRow) == [action |-> action, old |-> oldRow, new |-> newRow]

\* The first pass: rows that read as before; several rows that read the same are not told apart.
ByFingerprint(old, new) ==
    LET like(rows, i) == {k \in DOMAIN rows : Fingerprint(rows[k]) = Fingerprint(old[i])}
        places == {i \in DOMAIN old : like(new, i) # {}}
        first(i) == \A k \in like(old, i) : i <= k
        alone(i) == like(old, i) = {i} /\ \E j \in DOMAIN new : like(new, i) = {j}
        item(i) ==
            LET newRow == AsNew(new[CHOOSE j \in like(new, i) : \A k \in like(new, i) : j <= k])
            IN  Item(CASE ~alone(i) -> "ambiguous_match"
                       [] alone(i) /\ WasPosted(old[i]) -> "no_change"
                       [] alone(i) /\ ~WasPosted(old[i]) /\ ~Postable(newRow) -> "still_exception"
                       [] OTHER -> "post_new", old[i], newRow)
    IN  [items |-> FoldLeft(LAMBDA items, i : IF i \in places /\ first(i) THEN Append(items, item(i)) ELSE items,
                            <<>>, [i \in DOMAIN old |-> i]),
         old |-> places,
         new |-> UNION {like(new, i) : i \in places}]

\* The second pass: posted rows that read otherwise, the same event of the shipment before any other.
PostedRow(acc, old, new, i) ==
    LET free == {j \in DOMAIN new \ acc.new : Postable(new[j])}
        semantic == {j \in free : SameSemantics(old[i], new[j])}
        candidates == IF semantic # {} THEN semantic ELSE {j \in free : SameShipment(old[i], new[j])}
        first == CHOOSE j \in candidates : \A k \in candidates : j <= k
    IN  [acc EXCEPT
            !.new = @ \cup candidates,
            !.items = Append(@, CASE candidates = {} -> Item("reverse_only", old[i], NoRow)
                                  [] candidates # {} /\ candidates = {first} ->
                                         Item("reverse_and_repost", old[i], AsNew(new[first]))
                                  [] OTHER -> Item("ambiguous_match", old[i], AsNew(new[first])))]

\* The third pass: rows that were never posted and read otherwise.
UnpostedRow(acc, old, new, i) ==
    LET free == DOMAIN new \ acc.new
        only(set) == \E j \in free : set = {j}
        semantic == {j \in free : SameSemantics(old[i], new[j])}
        shipment == {j \in free : SameShipment(old[i], new[j])}
        match == CASE only(semantic) -> semantic
                   [] ~only(semantic) /\ only(shipment) -> shipment
                   [] OTHER -> {}
        unpostable == {j \in match : ~Postable(new[j])}
    IN  [acc EXCEPT
            !.new = @ \cup unpostable,
            !.items = Append(@, IF unpostable = {} THEN Item("unmatched_old_row", old[i], NoRow)
                                ELSE Item("still_exception", old[i], AsNew(new[CHOOSE j \in unpostable : TRUE])))]

DiffRows(old, new) ==
    LET first == ByFingerprint(old, new)
        rest(posted) == SelectSeq([i \in DOMAIN old |-> i],
                                  LAMBDA i : i \notin first.old /\ WasPosted(old[i]) = posted)
        second == FoldLeft(LAMBDA acc, i : PostedRow(acc, old, new, i), first, rest(TRUE))
        third == FoldLeft(LAMBDA acc, i : UnpostedRow(acc, old, new, i), second, rest(FALSE))
        left == SelectSeq([j \in DOMAIN new |-> j], LAMBDA j : j \notin third.new)
    IN  third.items \o [k \in DOMAIN left |->
            Item(IF Postable(new[left[k]]) THEN "post_new" ELSE "still_exception", NoRow, AsNew(new[left[k]]))]
=============================================================================
