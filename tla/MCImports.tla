------------------------------ MODULE MCImports ------------------------------
(***************************************************************************)
(* Instances of ShadowImports: two runs post and stage one file again; two *)
(* runs post a hold and its release; a correction of a file.  A behaviour  *)
(* is about one of them, its part, for ever.                               *)
(***************************************************************************)
EXTENDS ShadowImports

VARIABLE part

Line(event, amount, shipment) ==
    [skip |-> Null, error |-> Null, event |-> event, amount |-> amount, detail |-> Null, extRef |-> "ref",
     shipment |-> shipment, key |-> Null]
SkippedLine == [Line(Null, 0, Null) EXCEPT !.skip = "SUBTOTAL_ROW"]

\* A hold, its release and a freight charge; the corrections of a hold and a charge, and of a
\* charge alone.
MCCells ==
    [ released |-> <<Line("weight_dispute_debit", 5, "s1"), Line("weight_dispute_credit", -5, "s1"),
                     Line("freight_charged", 3, "s2")>>,
      held     |-> <<Line("weight_dispute_debit", 5, "s1"), Line("freight_charged", 3, "s2")>>,
      settled  |-> <<SkippedLine, Line("freight_charged", 4, "s2")>>,
      charged  |-> <<Line("freight_charged", 3, "s2")>>,
      raised   |-> <<Line("freight_charged", 4, "s2")>> ]

Staged(version) == {version}
One == {"usr_1"}
NoOne == {}

Rows == INSTANCE ShadowImports WITH
            Versions <- Staged("held"), StagedWith <- Staged("held"), Posters <- Principals, Planners <- NoOne,
            MaxBatches <- 0
Releases == INSTANCE ShadowImports WITH
            Versions <- Staged("released"), StagedWith <- Staged("released"), Posters <- Principals, Planners <- NoOne,
            MaxStagings <- 1, MaxBatches <- 0
Growths == INSTANCE ShadowImports WITH StagedWith <- Staged("settled"), MaxStagings <- 1, MaxFaults <- 1
Raises == INSTANCE ShadowImports WITH
            Versions <- {"charged", "raised"}, StagedWith <- Staged("charged"),
            MaxStagings <- 1
Whole == INSTANCE ShadowImports WITH MaxStagings <- 1, MaxFaults <- 0

MCInit ==
    /\ part \in {"rows", "releases", "growths", "raises", "whole"}
    /\ ImportsInit

MCNext ==
    /\ \/ part = "rows" /\ Rows!ImportsNext
       \/ part = "releases" /\ Releases!ImportsNext
       \/ part = "growths" /\ Growths!ImportsNext
       \/ part = "raises" /\ Raises!ImportsNext
       \/ part = "whole" /\ Whole!ImportsNext
    /\ UNCHANGED part

MCSpec == MCInit /\ [][MCNext]_<<part, importVars>>
=============================================================================
