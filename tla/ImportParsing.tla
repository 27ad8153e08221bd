----------------------------- MODULE ImportParsing -----------------------------
(***************************************************************************)
(* What a format pack version makes of the lines of a courier's file:      *)
(* dryRunParseCsv of format-pack-parser.service.ts.  Headers, transforms   *)
(* and charge-code tables are abstracted to the cells a version reads in a *)
(* line.                                                                   *)
(***************************************************************************)
EXTENDS Integers, Sequences

CONSTANTS
    Versions,   \* format pack versions
    Cells,      \* version -> sequence of the lines' [skip, error, event, amount, detail, extRef, shipment, key]
    Null        \* absent

\* A staging row before it has an id.
ParsedRow(status, code, event, shipment, amount, detail) ==
    [status |-> status, code |-> code, event |-> event, shipment |-> shipment, amount |-> amount,
     detail |-> detail]

\* A row that fails keeps its event class and loses what was parsed.
ExceptionRow(cells, code) == ParsedRow("exception", code, cells.event, Null, 0, Null)

\* One turn of the row loop: cells.shipment is what the resolver, if one is given, finds for extRef.
ParseLine(cells, withResolver) ==
    LET row(status, shipment) ==
            ParsedRow(status, Null, cells.event, shipment, cells.amount, cells.detail)
    IN  CASE cells.skip # Null -> ParsedRow("skipped", cells.skip, Null, Null, 0, Null)
          [] cells.skip = Null /\ cells.error # Null -> ExceptionRow(cells, cells.error)
          [] cells.skip = Null /\ cells.error = Null /\ cells.amount = 0 /\ cells.event # "unknown" ->
                 ExceptionRow(cells, "ZERO_AMOUNT")
          [] OTHER ->
                 IF cells.extRef = Null THEN row("parsed", Null)
                 ELSE IF ~withResolver THEN row("validated", Null)
                 ELSE IF cells.shipment = Null THEN ExceptionRow(cells, "UNRESOLVED_SHIPMENT")
                 ELSE row("resolved", cells.shipment)

\* applyDuplicateDetection: the first good row of a key wins, the later ones keep what was parsed.
Parse(version, withResolver) ==
    LET lines == Cells[version]
        parsed == [l \in DOMAIN lines |-> ParseLine(lines[l], withResolver)]
        good(l) == parsed[l].status \notin {"exception", "skipped"}
        duplicate(l) == /\ good(l) /\ lines[l].key # Null
                        /\ \E k \in 1..(l - 1) : good(k) /\ lines[k].key = lines[l].key
    IN  [l \in DOMAIN lines |->
            IF duplicate(l) THEN [parsed[l] EXCEPT !.status = "exception", !.code = "AMBIGUOUS_DUPLICATE"]
                            ELSE parsed[l]]
=============================================================================
