--------------------------- MODULE ClosedLoopWallet ---------------------------
(***************************************************************************)
(* Topups, shipment holds, captures and refunds of the closed loop wallet  *)
(* (w1-closed-loop-wallet.service.ts), one action per await.  Money moves  *)
(* only through postEntry, taken here as LedgerBook promises it; intents   *)
(* and holds are rows of their own, written before or after the post.      *)
(***************************************************************************)
EXTENDS Integers, FiniteSetsExt, NoValue

CONSTANTS
    Calls,      \* calls of the wallet's services; a call posts at most one entry
    Op,         \* call -> [kind, wallet, subject, hold, amount, contra, user]
    Accounts,   \* see LedgerCommands
    Account

VARIABLES
    posted, balance, reply,     \* the book, see LedgerBook
    intents,    \* topupRef -> Null or [wallet, amount, entry]
    holds,      \* shipment -> Null or [wallet, amount, status, entry]
    pc,         \* call -> the await it is at
    seen,       \* call -> what it has read of the balance
    answer      \* call -> what it returned or threw

\* Amounts are whole paise, and a row of the database is never null.
ASSUME WalletAssumption ==
    /\ Null \notin Calls
    /\ \A c \in Calls : Op[c].amount \in Int
    /\ \A c \in Calls, e \in Calls \cup {Null} :
           /\ Null # [wallet |-> Op[c].wallet, amount |-> Op[c].amount, entry |-> e]
           /\ \A status \in {"active", "captured"} :
                  Null # [wallet |-> Op[c].wallet, amount |-> Op[c].amount, status |-> status, entry |-> e]

book == <<posted, balance, reply>>
walletVars == <<book, intents, holds, pc, seen, answer>>

-----------------------------------------------------------------------------
\* entryRef: the topup; the shipment, the hold and the amount; the shipment and the amount.
EntryRef(c) ==
    CASE Op[c].kind = "capture" -> <<"CAP", Op[c].subject, Op[c].hold, Op[c].amount>>
      [] Op[c].kind = "refund"  -> <<"REF", Op[c].subject, Op[c].amount>>
      [] OTHER                  -> <<"TOP", Op[c].subject>>

\* Captures debit the seller's shipping balance; topups and refunds credit it.
Post(account, direction, amount) == [account |-> account, direction |-> direction, amount |-> amount]
PostingsOf(c) ==
    LET mine == IF Op[c].kind = "capture" THEN "debit" ELSE "credit"
        other == IF Op[c].kind = "capture" THEN "credit" ELSE "debit"
    IN  << Post(Op[c].wallet, mine, Op[c].amount), Post(Op[c].contra, other, Op[c].amount) >>

\* The commandHash covers the whole command, who gave it included.
Posting(c) ==
    [ref |-> EntryRef(c), scope |-> "custodial", reversalOf |-> Null, postings |-> PostingsOf(c),
     hash |-> <<EntryRef(c), PostingsOf(c), Op[c].user>>]

Commands == [c \in Calls |-> Posting(c)]

Ledger == INSTANCE LedgerCommands WITH Command <- Commands

Postable == {c \in Calls : Ledger!Valid(c) /\ Ledger!AccountsPostable(c)}
Amounts == [c \in Calls |-> [a \in Accounts |-> Ledger!Impact(c, a)]]

Book == INSTANCE LedgerBook WITH Command <- Commands

Subjects == {Op[c].subject : c \in Calls} \cup {Op[c].hold : c \in Calls}
Active(w) == {s \in Subjects : holds[s] # Null /\ holds[s].wallet = w /\ holds[s].status = "active"}

\* heldMinor
Held(w) == MapThenSumSet(LAMBDA s : holds[s].amount, Active(w))

-----------------------------------------------------------------------------
WalletInit ==
    /\ Book!BookInit
    /\ intents = [s \in Subjects |-> Null]
    /\ holds = [s \in Subjects |-> Null]
    /\ pc = [c \in Calls |-> "IDLE"]
    /\ seen = [c \in Calls |-> 0]
    /\ answer = [c \in Calls |-> "NONE"]

GoTo(c, place) == pc' = [pc EXCEPT ![c] = place]

Finish(c, kind) ==
    /\ GoTo(c, "DONE")
    /\ answer' = [answer EXCEPT ![c] = kind]

\* postEntry is called; the call goes on when the ledger replies.
AskLedger(c) ==
    /\ GoTo(c, "POST")
    /\ Book!Ask(c)
    /\ UNCHANGED <<intents, holds, seen, answer>>

Call(c) ==
    /\ pc[c] = "IDLE"
    /\ GoTo(c, "FIND")
    /\ UNCHANGED <<book, intents, holds, seen, answer>>

-----------------------------------------------------------------------------
(***************************************************************************)
(* createSandboxTopupIntent and confirmSandboxTopup.                       *)
(***************************************************************************)
IntentMatches(c) ==
    LET intent == intents[Op[c].subject]
    IN  intent # Null /\ intent.wallet = Op[c].wallet /\ intent.amount = Op[c].amount

FindOrCreateIntent(c) ==
    /\ Op[c].kind = "intent" /\ pc[c] = "FIND"
    /\ \/ /\ intents[Op[c].subject] = Null
          /\ GoTo(c, "CREATE")
          /\ UNCHANGED answer
       \/ /\ intents[Op[c].subject] # Null
          /\ Finish(c, IF IntentMatches(c) THEN "DONE" ELSE "CONFLICT")
    /\ UNCHANGED <<book, intents, holds, seen>>

\* The row is created, or its unique topupRef is taken by now and the call fails.
CreateIntent(c) ==
    /\ Op[c].kind = "intent" /\ pc[c] = "CREATE"
    /\ \/ /\ intents[Op[c].subject] = Null
          /\ intents' = [intents EXCEPT ![Op[c].subject] =
                            [wallet |-> Op[c].wallet, amount |-> Op[c].amount, entry |-> Null]]
          /\ Finish(c, "DONE")
       \/ /\ intents[Op[c].subject] # Null
          /\ Finish(c, "FAILED")
          /\ UNCHANGED intents
    /\ UNCHANGED <<book, holds, seen>>

FindIntent(c) ==
    /\ Op[c].kind = "topup" /\ pc[c] = "FIND"
    /\ LET intent == intents[Op[c].subject]
       IN  \/ /\ IntentMatches(c) /\ intent.entry = Null
              /\ AskLedger(c)
           \/ /\ IntentMatches(c) => intent.entry # Null
              /\ Finish(c, IF intent = Null THEN "NOT_FOUND"
                           ELSE IF IntentMatches(c) THEN "DONE" ELSE "CONFLICT")
              /\ UNCHANGED <<book, intents, holds, seen>>

\* Mutant of ConfirmIntent: the intent names the caller's command, not the entry of the ledger.
ConfirmIntentByCall(c) ==
    /\ Op[c].kind = "topup" /\ pc[c] = "POSTED"
    /\ intents' = [intents EXCEPT ![Op[c].subject].entry = c]
    /\ Finish(c, "DONE")
    /\ UNCHANGED <<book, holds, seen>>

ConfirmIntent(c) ==
    /\ Op[c].kind = "topup" /\ pc[c] = "POSTED"
    /\ intents' = [intents EXCEPT ![Op[c].subject].entry = reply[c].entry]
    /\ Finish(c, "DONE")
    /\ UNCHANGED <<book, holds, seen>>

-----------------------------------------------------------------------------
(***************************************************************************)
(* placeShipmentEstimateHold: the hold of the shipment, the posted and the *)
(* held amount are read one after the other, without a lock.               *)
(***************************************************************************)
FindHold(c) ==
    /\ Op[c].kind = "hold" /\ pc[c] = "FIND"
    /\ LET hold == holds[Op[c].subject]
       IN  \/ /\ hold = Null /\ Account[Op[c].wallet].status = "active"
              /\ GoTo(c, "READ_POSTED")
              /\ UNCHANGED answer
           \/ /\ hold # Null \/ Account[Op[c].wallet].status # "active"
              /\ Finish(c, IF Account[Op[c].wallet].status # "active" THEN "REFUSED"
                           ELSE IF hold.amount = Op[c].amount THEN "DONE" ELSE "CONFLICT")
    /\ UNCHANGED <<book, intents, holds, seen>>

ReadPosted(c) ==
    /\ pc[c] = "READ_POSTED"
    /\ seen' = [seen EXCEPT ![c] = balance[Op[c].wallet]]
    /\ GoTo(c, "READ_HELD")
    /\ UNCHANGED <<book, intents, holds, answer>>

ReadHeld(c) ==
    /\ pc[c] = "READ_HELD"
    /\ LET available == seen[c] - Held(Op[c].wallet)
       IN  \/ /\ available >= Op[c].amount
              /\ GoTo(c, "CREATE")
              /\ UNCHANGED answer
           \/ /\ available < Op[c].amount
              /\ Finish(c, "REFUSED")
    /\ UNCHANGED <<book, intents, holds, seen>>

NewHold(c) == [wallet |-> Op[c].wallet, amount |-> Op[c].amount, status |-> "active", entry |-> Null]

\* The row is created, or its unique holdRef is taken by now and the call fails.
CreateHold(c) ==
    /\ Op[c].kind = "hold" /\ pc[c] = "CREATE"
    /\ \/ /\ holds[Op[c].subject] = Null
          /\ holds' = [holds EXCEPT ![Op[c].subject] = NewHold(c)]
          /\ Finish(c, "DONE")
       \/ /\ holds[Op[c].subject] # Null
          /\ Finish(c, "FAILED")
          /\ UNCHANGED holds
    /\ UNCHANGED <<book, intents, seen>>

-----------------------------------------------------------------------------
(***************************************************************************)
(* captureShipmentCharge and postShipmentRefund.                           *)
(***************************************************************************)
FindCharge(c) ==
    /\ Op[c].kind = "capture" /\ pc[c] = "FIND"
    /\ \/ /\ \E b \in posted : EntryRef(b) = EntryRef(c)
          /\ Finish(c, "DONE")
       \/ /\ \A b \in posted : EntryRef(b) # EntryRef(c)
          /\ GoTo(c, "FIND_HOLD")
          /\ UNCHANGED answer
    /\ UNCHANGED <<book, intents, holds, seen>>

MayCapture(c) ==
    LET hold == holds[Op[c].hold]
    IN  hold # Null /\ hold.wallet = Op[c].wallet /\ hold.status = "active" /\ hold.amount >= Op[c].amount

CheckHold(c) ==
    /\ pc[c] = "FIND_HOLD"
    /\ \/ /\ MayCapture(c)
          /\ AskLedger(c)
       \/ /\ ~MayCapture(c)
          /\ Finish(c, "REFUSED")
          /\ UNCHANGED <<book, intents, holds, seen>>

CaptureHold(c) ==
    /\ Op[c].kind = "capture" /\ pc[c] = "POSTED"
    /\ holds' = [holds EXCEPT ![Op[c].hold] = [@ EXCEPT !.status = "captured", !.entry = reply[c].entry]]
    /\ Finish(c, "DONE")
    /\ UNCHANGED <<book, intents, seen>>

StartRefund(c) ==
    /\ Op[c].kind = "refund" /\ pc[c] = "FIND"
    /\ AskLedger(c)

FinishRefund(c) ==
    /\ Op[c].kind = "refund" /\ pc[c] = "POSTED"
    /\ Finish(c, "DONE")
    /\ UNCHANGED <<book, intents, holds, seen>>

-----------------------------------------------------------------------------
\* The ledger's steps for a call.
LedgerStep(c) ==
    /\ Book!Enter(c) \/ Book!Respond(c)
    /\ UNCHANGED <<intents, holds, pc, seen, answer>>

\* Mutant of TakeReply: the outcome of the post is not looked at.
TakeAnyReply(c) ==
    /\ pc[c] = "POST" /\ reply[c].kind # "PENDING"
    /\ GoTo(c, "POSTED")
    /\ UNCHANGED <<book, intents, holds, seen, answer>>

\* postEntry has returned an entry, or thrown.
TakeReply(c) ==
    /\ pc[c] = "POST" /\ reply[c].kind # "PENDING"
    /\ \/ /\ reply[c].kind \in {"POSTED", "REPLAYED"}
          /\ GoTo(c, "POSTED")
          /\ UNCHANGED answer
       \/ /\ reply[c].kind \notin {"POSTED", "REPLAYED"}
          /\ Finish(c, "FAILED")
    /\ UNCHANGED <<book, intents, holds, seen>>

\* The process ends or a statement fails.
Crash(c) ==
    /\ pc[c] \notin {"IDLE", "DONE"}
    /\ Finish(c, "FAILED")
    /\ UNCHANGED <<book, intents, holds, seen>>

CallStep(c) ==
    \/ FindOrCreateIntent(c) \/ CreateIntent(c) \/ FindIntent(c) \/ ConfirmIntent(c)
    \/ FindHold(c) \/ ReadPosted(c) \/ ReadHeld(c) \/ CreateHold(c)
    \/ FindCharge(c) \/ CheckHold(c) \/ CaptureHold(c) \/ StartRefund(c) \/ FinishRefund(c)
    \/ TakeReply(c)

WalletNext == \E c \in Calls : Call(c) \/ CallStep(c) \/ LedgerStep(c) \/ Crash(c)

WalletSpec == WalletInit /\ [][WalletNext]_walletVars

-----------------------------------------------------------------------------
Charges(s) == {b \in posted : Op[b].kind = "capture" /\ Op[b].hold = s}

(***************************************************************************)
(* A confirmed intent names the one entry that credited its seller with    *)
(* its amount, whoever confirmed it and however often (confirmSandboxTopup)*)
(***************************************************************************)
ConfirmedIntentsAreCredited ==
    \A s \in Subjects :
        intents[s] # Null /\ intents[s].entry # Null =>
            /\ {b \in posted : Op[b].kind = "topup" /\ Op[b].subject = s} = {intents[s].entry}
            /\ Op[intents[s].entry].wallet = intents[s].wallet
            /\ Op[intents[s].entry].amount = intents[s].amount

(***************************************************************************)
(* Every charge was covered by its hold when it was made: the hold is      *)
(* captured, or the call that made the charge has yet to capture it or was *)
(* cut short; and a captured hold was charged (captureShipmentCharge).     *)
(***************************************************************************)
ChargesAccountedFor ==
    \A s \in Subjects :
        /\ \A b \in Charges(s) :
              /\ holds[s] # Null /\ Op[b].amount <= holds[s].amount
              /\ holds[s].status = "captured" \/ pc[b] \in {"POST", "POSTED"} \/ answer[b] = "FAILED"
        /\ holds[s] # Null /\ holds[s].status = "captured" => holds[s].entry \in Charges(s)

(***************************************************************************)
(* Holds are covered by the balance, counting a charged hold only for what *)
(* is left of it: a hold is refused when the available balance is less     *)
(* (placeShipmentEstimateHold).                                            *)
(***************************************************************************)
Charged(s) == MapThenSumSet(LAMBDA b : Op[b].amount, Charges(s))
HoldsAreCovered ==
    \A w \in Accounts :
        balance[w] >= MapThenSumSet(LAMBDA s : holds[s].amount - Charged(s), Active(w))
=============================================================================
