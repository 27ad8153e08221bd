------------------------------ MODULE MCPayouts ------------------------------
(***************************************************************************)
(* Instances of ClosedLoopWallet, of SellerWallet and of Settlements, over *)
(* ordinary and over odd rows.  A behaviour is about one of them, its      *)
(* part, for ever.                                                         *)
(***************************************************************************)
EXTENDS ClosedLoopWallet, SellerWallet, Settlements, TLC

VARIABLE part

-----------------------------------------------------------------------------
(* The wallet: the seller's shipping balance (1), gateway clearing (2), a courier's payable (3). *)
WalletAccounts == 1..3
WalletAccount ==
    [a \in WalletAccounts |-> [normalSide |-> IF a = 2 THEN "debit" ELSE "credit", scope |-> "custodial",
                               status |-> "active"]]

\* call -> <<kind, subject, hold, amount, the other account, user>>
WalletRow ==
    [ intent |-> <<"intent", "T1", "T1", 5, 2, "u">>,
      topup |-> <<"topup", "T1", "T1", 5, 2, "u">>,
      topupAgain |-> <<"topup", "T1", "T1", 5, 2, "u">>,
      topupByOther |-> <<"topup", "T1", "T1", 5, 2, "v">>,
      intentOther |-> <<"intent", "T1", "T1", 6, 2, "u">>,
      hold |-> <<"hold", "S1", "S1", 4, 3, "u">>,
      holdMore |-> <<"hold", "S1", "S1", 5, 3, "u">>,
      holdNext |-> <<"hold", "S2", "S2", 3, 3, "u">>,
      capture |-> <<"capture", "S1", "S1", 3, 3, "u">>,
      captureOver |-> <<"capture", "S1", "S1", 5, 3, "u">>,
      refund |-> <<"refund", "S1", "S1", 2, 3, "u">> ]

WalletOp ==
    [c \in DOMAIN WalletRow |->
        [kind |-> WalletRow[c][1], wallet |-> 1, subject |-> WalletRow[c][2], hold |-> WalletRow[c][3],
         amount |-> WalletRow[c][4], contra |-> WalletRow[c][5], user |-> WalletRow[c][6]]]
WalletCalls == DOMAIN WalletRow

-----------------------------------------------------------------------------
(* Settlements: a COD order with a shipment that was delivered on day 1, a prepaid one, and one *)
(* that came back.                                                                              *)
Order(id, mode, cod, rto) == [id |-> id, ext |-> "x" \o id, mode |-> mode, cod |-> cod, weight |-> 500, rto |-> rto]
MCOrders == <<Order("o1", "COD", 1000, FALSE), Order("o2", "PREPAID", 0, FALSE), Order("o3", "COD", 800, TRUE)>>
MCTwoOrders == SubSeq(MCOrders, 1, 2)

Shipment(order, awb, deliveredAt) ==
    [order |-> order, courier |-> "c", awb |-> awb, weight |-> 500, zone |-> "A", rto |-> FALSE,
     deliveredAt |-> deliveredAt]
MCShipments == <<Shipment("o1", "w1", 1), Shipment("o2", "w2", 1)>>

MCRates == << [courier |-> "c", zone |-> "A", minWeight |-> 500, maxWeight |-> 5000, base |-> 100,
               additional |-> 40, rto |-> 60, codFee |-> 20, gst |-> 18] >>
MCEvents == << [awb |-> "w2", order |-> Null, courier |-> "c", signal |-> "FAKE"] >>
MCNoEvents == <<>>
MCPolicies == << [courier |-> "c", slaDays |-> 5, graceDays |-> 1, bps |-> 50, fixed |-> 10, most |-> 40] >>

Invoiced(id, awb, order, weight, rto, total) ==
    [id |-> id, awb |-> awb, order |-> order, ext |-> Null, courier |-> "c", weight |-> weight, zone |-> "A",
     rto |-> rto, total |-> total]
\* the charge of o1 is 142, that of o2 118
MCLines ==
    { Invoiced("exact", "w1", "o1", 500, 0, 142), Invoiced("again", "w1", "o1", 500, 0, 142),
      Invoiced("prepaid", Null, "o2", 500, 0, 118), Invoiced("heavy", Null, "o1", 900, 0, 189),
      Invoiced("returned", "w2", Null, 500, 60, 118), Invoiced("unknown", "w9", Null, 500, 0, 50) }
MCPlanLines == {l \in MCLines : l.id \in {"exact", "again", "prepaid", "heavy"}}
MCOddLines == {l \in MCLines : l.id \in {"prepaid", "returned", "unknown"}}

Remittance(id, awb, order, amount, at) ==
    [id |-> id, awb |-> awb, order |-> order, ext |-> Null, amount |-> amount, at |-> at]
MCRemittances ==
    { Remittance("full", "w1", Null, 1000, 4), Remittance("part", "w1", Null, 700, 7),
      Remittance("late", "w1", Null, 1000, 10) }
MCOddRemittances == { Remittance("returned", Null, "o3", 800, 4) }

MCUsers == {"ann", "ben"}
NoUsers == {}

Odd == INSTANCE Settlements WITH
           Orders <- MCOrders, Shipments <- MCShipments, Rates <- MCRates, Events <- MCEvents,
           Policies <- MCPolicies, LineImports <- MCOddLines, RemittanceImports <- MCOddRemittances,
           Users <- NoUsers, MaxRuns <- 1, MaxApprovals <- 0

-----------------------------------------------------------------------------
(* The seller wallet. *)
\* call -> <<direction, amount, idempotency key, key of the entry to reverse>>
SellerRow ==
    [ credit |-> <<"CREDIT", 5, "k1", Null>>,
      creditAgain |-> <<"CREDIT", 5, "k1", Null>>,
      debit |-> <<"DEBIT", 3, "k2", Null>>,
      hold |-> <<"HOLD", 2, "k4", Null>>,
      release |-> <<"RELEASE", 2, "k5", Null>>,
      undo |-> <<"REVERSAL", 3, "k6", "k2">>,
      undoAgain |-> <<"REVERSAL", 3, "k6", "k2">> ]

MCSellerOp ==
    [c \in DOMAIN SellerRow |->
        [direction |-> SellerRow[c][1], amount |-> SellerRow[c][2], key |-> SellerRow[c][3], target |-> SellerRow[c][4]]]
MCSellerCalls == DOMAIN SellerRow

-----------------------------------------------------------------------------
MCInit ==
    /\ part \in {"wallet", "seller", "settlements", "odd"}
    /\ WalletInit /\ SellerWalletInit /\ SettlementsInit

WalletPart ==
    /\ part = "wallet" /\ WalletNext
    /\ UNCHANGED <<part, settlementVars, sellerWalletVars>>
SellerPart ==
    /\ part = "seller" /\ SellerWalletNext
    /\ UNCHANGED <<part, walletVars, settlementVars>>
SettlementsPart ==
    /\ \/ part = "settlements" /\ SettlementsNext
       \/ part = "odd" /\ Odd!SettlementsNext
    /\ UNCHANGED <<part, walletVars, sellerWalletVars>>

MCNext == WalletPart \/ SellerPart \/ SettlementsPart
MCSpec == MCInit /\ [][MCNext]_<<part, walletVars, settlementVars, sellerWalletVars>>

\* Which calls of the wallet may run side by side.
WalletScenarios ==
    { {"intent", "intentOther", "topup", "refund"}, {"intent", "topup", "topupAgain", "topupByOther"},
      {"intent", "topup", "hold", "holdMore", "capture", "captureOver"} }

\* What happens to the ordinary rows: settlements are planned from what couriers report, or
\* planned and paid out, or planned with a payable below nothing (the charge of a prepaid order).
Scenarios ==
    { [lines |-> {"exact", "again", "heavy"}, remittances |-> {"full", "late"}, runs |-> 1, approvals |-> 0],
      [lines |-> {"prepaid", "heavy"}, remittances |-> {"part", "late"}, runs |-> 1, approvals |-> 0],
      [lines |-> {"prepaid"}, remittances |-> {}, runs |-> 1, approvals |-> 1],
      [lines |-> {"exact"}, remittances |-> {"full"}, runs |-> 2, approvals |-> 2] }

InAScenario ==
    \/ /\ part = "wallet"
       /\ \E s \in WalletScenarios : {c \in Calls : pc[c] # "IDLE"} \subseteq s
    \/ /\ part = "settlements"
       /\ \E s \in Scenarios :
              /\ {lines[i].id : i \in DOMAIN lines} \subseteq s.lines
              /\ {remittances[i].id : i \in DOMAIN remittances} \subseteq s.remittances
              /\ runs <= s.runs /\ Len(approvals) <= s.approvals
    \/ part \in {"seller", "odd"}

\* Two shipments are held at once against one top-up.
TwoHolds == part = "wallet" /\ {c \in Calls : pc[c] # "IDLE"} \subseteq {"intent", "topup", "hold", "holdNext"}

=============================================================================
