------------------------------- MODULE MCLedger -------------------------------
(***************************************************************************)
(* An instance of WalletLedger: the calls of a scenario run side by side.  *)
(***************************************************************************)
EXTENDS WalletLedger, TLC

(* The ledger: a seller's shipping balance (1), the gateway clearing account (2), a courier's *)
(* payable account (3), and an account of the shadow scope (4).                               *)
MCAccounts == 1..4
MCAccount ==
    [a \in MCAccounts |-> [normalSide |-> IF a = 2 THEN "debit" ELSE "credit",
                           scope      |-> IF a = 4 THEN "shadow" ELSE "custodial",
                           status     |-> "active"]]

\* call -> <<ref, hash, reversalOf, debited account and amount, credited account and amount>>
MCRow ==
    [ topup |-> <<"R1", "H1", Null, 2, 5, 1, 5>>,
      topupAgain |-> <<"R1", "H1", Null, 2, 5, 1, 5>>,
      topupOther |-> <<"R1", "H2", Null, 2, 4, 1, 4>>,
      charge |-> <<"R2", "H3", Null, 1, 3, 3, 3>>,
      refund |-> <<"R3", "H4", Null, 3, 2, 1, 2>>,
      undo |-> <<"R4", "H5", "topup", 1, 5, 2, 5>>,
      undoAgain |-> <<"R5", "H6", "topup", 1, 5, 2, 5>>,
      skewed |-> <<"R6", "H7", Null, 2, 5, 1, 4>>,
      crossed |-> <<"R8", "H9", Null, 2, 5, 4, 5>> ]

MCCommand ==
    [c \in DOMAIN MCRow |->
        [ref |-> MCRow[c][1], hash |-> MCRow[c][2], scope |-> "custodial", reversalOf |-> MCRow[c][3],
         postings |-> << [account |-> MCRow[c][4], direction |-> "debit", amount |-> MCRow[c][5]],
                         [account |-> MCRow[c][6], direction |-> "credit", amount |-> MCRow[c][7]] >>]]

\* Which calls may run side by side.
LedgerScenarios ==
    { {"topup", "charge", "skewed", "crossed", "undo"}, {"topup", "topupOther", "undo", "undoAgain"},
      {"topup", "topupAgain", "undo"}, {"charge", "refund"} }

InALedgerScenario == \E s \in LedgerScenarios : {c \in Calls : pc[c] # "IDLE"} \subseteq s

MCSpec == LedgerInit /\ [][LedgerNext /\ InALedgerScenario']_ledgerVars
===============================================================================
