----------------------------- MODULE PayoutsProofs -----------------------------
(***************************************************************************)
(* For any calls of the closed loop wallet, in any interleaving and with   *)
(* crashes anywhere: its rows agree with the entries of the ledger book.   *)
(* For any calls of the seller's wallet: a reversed entry is undone, once. *)
(* For any orders, imports, runs and decisions: what is settled has been   *)
(* remitted and billed once, and each credit was authorised.               *)
(***************************************************************************)
EXTENDS ClosedLoopWallet, SellerWallet, Settlements, SequenceTheorems, WellFoundedInduction, TLAPS

Posters == {"topup", "capture", "refund"}
Places == {"IDLE", "FIND", "CREATE", "READ_POSTED", "READ_HELD", "FIND_HOLD", "POST", "POSTED", "DONE"}
Answers == {"NONE", "DONE", "CONFLICT", "FAILED", "NOT_FOUND", "REFUSED"}

\* The rows that some call asks for.
IntentRow(c, e) == [wallet |-> Op[c].wallet, amount |-> Op[c].amount, entry |-> e]
HoldRow(c, status, e) == [wallet |-> Op[c].wallet, amount |-> Op[c].amount, status |-> status, entry |-> e]
IntentRows == {IntentRow(c, e) : c \in Calls, e \in Calls \cup {Null}}
HoldRows == {HoldRow(c, status, e) : c \in Calls, status \in {"active", "captured"}, e \in Calls \cup {Null}}

WalletTypeOK ==
    /\ posted \subseteq Calls
    /\ reply \in [Calls -> Book!Replies]
    /\ intents \in [Subjects -> IntentRows \cup {Null}]
    /\ holds \in [Subjects -> HoldRows \cup {Null}]
    /\ pc \in [Calls -> Places]
    /\ answer \in [Calls -> Answers]

SameCommand(b, c) == EntryRef(b) = EntryRef(c) /\ PostingsOf(b) = PostingsOf(c)

\* Only some calls post, one entry per reference, and the ledger's answers name the entry of the command.
BookAgrees ==
    /\ \A b, c \in posted : EntryRef(b) = EntryRef(c) => b = c
    /\ \A c \in Calls :
          /\ reply[c].kind # "NONE" => Op[c].kind \in Posters
          /\ c \in posted => reply[c].kind # "NONE"
          /\ reply[c].kind \in {"POSTED", "REPLAYED"} => reply[c].entry \in posted /\ SameCommand(reply[c].entry, c)

\* Where a call is tells what the ledger was asked, and what it answered.
PlacesAgree ==
    \A c \in Calls :
        /\ pc[c] = "FIND_HOLD" => Op[c].kind = "capture"
        /\ pc[c] \in {"POST", "POSTED"} => reply[c].kind # "NONE"
        /\ pc[c] = "POSTED" => reply[c].kind \in {"POSTED", "REPLAYED"}
        /\ answer[c] = "FAILED" => pc[c] = "DONE"

\* A topup that has been asked for has its intent, and a confirmed intent its entry.
IntentsAgree ==
    /\ \A c \in Calls : Op[c].kind = "topup" /\ reply[c].kind # "NONE" => IntentMatches(c)
    /\ \A s \in Subjects :
          intents[s] # Null /\ intents[s].entry # Null =>
              /\ intents[s].entry \in posted
              /\ LET e == intents[s].entry
                 IN  /\ Op[e].kind = "topup" /\ Op[e].subject = s
                     /\ Op[e].wallet = intents[s].wallet /\ Op[e].amount = intents[s].amount

\* A charge that has been asked for was covered, and is captured unless its call still has to or failed.
HoldsAgree ==
    /\ \A c \in Calls :
          Op[c].kind = "capture" /\ reply[c].kind # "NONE" =>
              /\ holds[Op[c].hold] # Null /\ Op[c].amount <= holds[Op[c].hold].amount
              /\ holds[Op[c].hold].status = "captured" \/ pc[c] \in {"POST", "POSTED"} \/ answer[c] = "FAILED"
    /\ \A s \in Subjects :
          holds[s] # Null /\ holds[s].status = "captured" => holds[s].entry \in Charges(s)

WalletInv == WalletTypeOK /\ BookAgrees /\ PlacesAgree /\ IntentsAgree /\ HoldsAgree

-----------------------------------------------------------------------------
LEMMA WalletInitInv == WalletInit => WalletInv
<1> SUFFICES ASSUME WalletInit PROVE WalletInv
    OBVIOUS
<1> USE WalletAssumption DEF WalletInit, Book!BookInit
<1>1. WalletTypeOK
    BY DEF WalletTypeOK, Book!Replies, Book!ReplyKinds, Places, Answers
<1>2. BookAgrees /\ PlacesAgree /\ IntentsAgree /\ HoldsAgree
    BY DEF BookAgrees, PlacesAgree, IntentsAgree, HoldsAgree
<1> QED BY <1>1, <1>2 DEF WalletInv

\* Commands under one reference are of one kind and about the same rows.
LEMMA SameReference ==
    ASSUME NEW b \in Calls, NEW c \in Calls, Op[b].kind \in Posters, EntryRef(b) = EntryRef(c)
    PROVE  /\ Op[c].kind = "topup" => Op[b].kind = "topup" /\ Op[b].subject = Op[c].subject
           /\ Op[c].kind = "capture" => Op[b].kind = "capture" /\ Op[b].hold = Op[c].hold
<1>1. ASSUME NEW d \in Calls
      PROVE  /\ Op[d].kind = "capture" => EntryRef(d) = <<"CAP", Op[d].subject, Op[d].hold, Op[d].amount>>
             /\ Op[d].kind = "refund" => EntryRef(d) = <<"REF", Op[d].subject, Op[d].amount>>
             /\ Op[d].kind = "topup" => EntryRef(d) = <<"TOP", Op[d].subject>>
    BY DEF EntryRef
<1>2. CASE Op[c].kind = "topup"
    <2>1. EntryRef(c)[1] = "TOP" /\ EntryRef(c)[2] = Op[c].subject
        BY <1>1, <1>2
    <2>2. Op[b].kind = "topup"
        BY <1>1, <2>1 DEF Posters
    <2> QED BY <1>1, <1>2, <2>1, <2>2
<1>3. CASE Op[c].kind = "capture"
    <2>1. EntryRef(c)[1] = "CAP" /\ EntryRef(c)[3] = Op[c].hold
        BY <1>1, <1>3
    <2>2. Op[b].kind = "capture"
        BY <1>1, <2>1 DEF Posters
    <2> QED BY <1>1, <1>3, <2>1, <2>2
<1> QED BY <1>2, <1>3

\* Equal postings move the same amount of the same wallet.
LEMMA SamePostings ==
    ASSUME NEW b \in Calls, NEW c \in Calls, Op[b].kind = Op[c].kind, PostingsOf(b) = PostingsOf(c)
    PROVE  Op[b].wallet = Op[c].wallet /\ Op[b].amount = Op[c].amount
<1>1. \A d \in Calls : PostingsOf(d)[1].account = Op[d].wallet /\ PostingsOf(d)[1].amount = Op[d].amount
    BY DEF PostingsOf, Post
<1> QED BY <1>1

LEMMA EntryOfTheCommand ==
    ASSUME NEW b \in Calls, NEW c \in Calls, Op[b].kind \in Posters, SameCommand(b, c)
    PROVE  /\ Op[c].kind = "topup" => /\ Op[b].kind = "topup" /\ Op[b].subject = Op[c].subject
                                      /\ Op[b].wallet = Op[c].wallet /\ Op[b].amount = Op[c].amount
           /\ Op[c].kind = "capture" => Op[b].kind = "capture" /\ Op[b].hold = Op[c].hold
BY SameReference, SamePostings DEF SameCommand

LEMMA SubjectsOfCalls == \A c \in Calls : Op[c].subject \in Subjects /\ Op[c].hold \in Subjects
BY DEF Subjects

LEMMA NewRows ==
    ASSUME NEW c \in Calls
    PROVE  /\ IntentRow(c, Null) \in IntentRows /\ IntentRow(c, Null) # Null
           /\ HoldRow(c, "active", Null) \in HoldRows /\ HoldRow(c, "active", Null) # Null
BY WalletAssumption DEF IntentRow, HoldRow, IntentRows, HoldRows

LEMMA ConfirmedRow ==
    ASSUME NEW row \in IntentRows, NEW e \in Calls
    PROVE  LET confirmed == [row EXCEPT !.entry = e]
           IN  /\ confirmed \in IntentRows /\ confirmed # Null
               /\ confirmed.wallet = row.wallet /\ confirmed.amount = row.amount /\ confirmed.entry = e
<1>1. PICK c \in Calls, d \in Calls \cup {Null} : row = IntentRow(c, d)
    BY DEF IntentRows
<1>2. [row EXCEPT !.entry = e] = IntentRow(c, e)
    BY <1>1 DEF IntentRow
<1>3. IntentRow(c, e) \in IntentRows /\ IntentRow(c, e) # Null
    BY WalletAssumption DEF IntentRow, IntentRows
<1> QED BY <1>1, <1>2, <1>3 DEF IntentRow

LEMMA CapturedRow ==
    ASSUME NEW row \in HoldRows, NEW e \in Calls
    PROVE  LET captured == [row EXCEPT !.status = "captured", !.entry = e]
           IN  /\ captured \in HoldRows /\ captured # Null
               /\ captured.amount = row.amount /\ captured.status = "captured" /\ captured.entry = e
<1>1. PICK c \in Calls, status \in {"active", "captured"}, d \in Calls \cup {Null} : row = HoldRow(c, status, d)
    BY DEF HoldRows
<1>2. row = [wallet |-> Op[c].wallet, amount |-> Op[c].amount, status |-> status, entry |-> d]
    BY <1>1 DEF HoldRow
<1>3. [row EXCEPT !.status = "captured", !.entry = e]
         = [wallet |-> Op[c].wallet, amount |-> Op[c].amount, status |-> "captured", entry |-> e]
    <2>1. [row EXCEPT !.status = "captured"]
             = [wallet |-> Op[c].wallet, amount |-> Op[c].amount, status |-> "captured", entry |-> d]
        BY <1>2
    <2>2. [row EXCEPT !.status = "captured", !.entry = e] = [[row EXCEPT !.status = "captured"] EXCEPT !.entry = e]
        OBVIOUS
    <2>3. ASSUME NEW r, r = [wallet |-> Op[c].wallet, amount |-> Op[c].amount, status |-> "captured", entry |-> d]
          PROVE  [r EXCEPT !.entry = e]
                    = [wallet |-> Op[c].wallet, amount |-> Op[c].amount, status |-> "captured", entry |-> e]
        BY <2>3
    <2> QED BY <2>1, <2>2, <2>3
<1>4. HoldRow(c, "captured", e) \in HoldRows /\ HoldRow(c, "captured", e) # Null
    BY WalletAssumption DEF HoldRow, HoldRows
<1> QED BY <1>2, <1>3, <1>4 DEF HoldRow

LEMMA HeldAmounts == \A row \in HoldRows : row.amount \in Int
BY WalletAssumption DEF HoldRows, HoldRow

-----------------------------------------------------------------------------
\* A call that only moves on: it has not entered the ledger, or has its answer from it.
LEMMA MovesOn ==
    ASSUME WalletInv, NEW c \in Calls, NEW p \in Places,
           UNCHANGED <<book, intents, holds>>, pc[c] # "DONE",
           GoTo(c, p),
           \/ answer' = answer
           \/ p = "DONE" /\ \E kind \in Answers : answer' = [answer EXCEPT ![c] = kind],
           p = "FIND_HOLD" => Op[c].kind = "capture",
           p # "POST",
           p = "POSTED" => pc[c] = "POST" /\ reply[c].kind \in {"POSTED", "REPLAYED"},
           Op[c].kind = "capture" /\ pc[c] \in {"POST", "POSTED"} => p = "POSTED" \/ answer'[c] = "FAILED"
    PROVE  WalletInv'
<1> USE DEF WalletInv, GoTo
<1>1. /\ posted' = posted /\ reply' = reply /\ intents' = intents /\ holds' = holds
      /\ pc'[c] = p /\ \A d \in Calls \ {c} : pc'[d] = pc[d] /\ answer'[d] = answer[d]
      /\ answer'[c] = answer[c] \/ p = "DONE"
    BY DEF book, WalletTypeOK
<1>2. WalletTypeOK'
    BY <1>1 DEF WalletTypeOK
<1>3. BookAgrees'
    BY <1>1 DEF BookAgrees, SameCommand
<1>4. PlacesAgree'
    BY <1>1 DEF PlacesAgree
<1>5. IntentsAgree'
    BY <1>1 DEF IntentsAgree, IntentMatches
<1>6. HoldsAgree'
    BY <1>1 DEF HoldsAgree, PlacesAgree, Charges
<1> QED BY <1>2, <1>3, <1>4, <1>5, <1>6

\* The ledger is asked for a topup with its intent, a charge with its hold, or a refund.
LEMMA Asks ==
    ASSUME WalletInv, NEW c \in Calls, AskLedger(c), pc[c] # "DONE", Op[c].kind \in Posters,
           Op[c].kind = "topup" => IntentMatches(c),
           Op[c].kind = "capture" => MayCapture(c)
    PROVE  WalletInv'
<1> USE DEF WalletInv, AskLedger, GoTo, Book!Ask
<1>1. /\ posted' = posted /\ intents' = intents /\ holds' = holds /\ answer' = answer
      /\ reply[c].kind = "NONE" /\ reply'[c] = [kind |-> "PENDING", entry |-> Null]
      /\ pc'[c] = "POST" /\ \A d \in Calls \ {c} : pc'[d] = pc[d] /\ reply'[d] = reply[d]
    BY DEF WalletTypeOK
<1>2. WalletTypeOK'
    BY <1>1 DEF WalletTypeOK, Places, Book!Replies, Book!ReplyKinds
<1>3. BookAgrees'
    BY <1>1 DEF BookAgrees, SameCommand
<1>4. PlacesAgree'
    BY <1>1 DEF PlacesAgree
<1>5. IntentsAgree'
    BY <1>1 DEF IntentsAgree, IntentMatches
<1>6. HoldsAgree'
    <2>1. Op[c].kind = "capture" => /\ holds[Op[c].hold] # Null
                                    /\ Op[c].amount <= holds[Op[c].hold].amount
        BY SubjectsOfCalls, HeldAmounts, WalletAssumption DEF MayCapture, WalletTypeOK
    <2> QED BY <1>1, <2>1 DEF HoldsAgree, Charges
<1> QED BY <1>2, <1>3, <1>4, <1>5, <1>6

\* An entry comes under a reference of its own, so what is confirmed or captured keeps its entry.
LEMMA Enters ==
    ASSUME WalletInv, NEW c \in Calls, Book!Enter(c), UNCHANGED <<intents, holds, pc, seen, answer>>
    PROVE  WalletInv'
<1> USE DEF WalletInv, Book!Enter
<1>1. /\ posted' = posted \cup {c} /\ reply' = reply /\ reply[c].kind = "PENDING"
      /\ \A b \in posted : EntryRef(b) # EntryRef(c)
    BY DEF Book!Clash, Book!SameRef, Commands, Posting, WalletTypeOK
<1>2. WalletTypeOK'
    BY <1>1 DEF WalletTypeOK
<1>3. BookAgrees'
    BY <1>1 DEF BookAgrees, SameCommand
<1>4. PlacesAgree'
    BY <1>1 DEF PlacesAgree
<1>5. IntentsAgree'
    BY <1>1 DEF IntentsAgree, IntentMatches
<1>6. HoldsAgree'
    BY <1>1 DEF HoldsAgree, Charges
<1> QED BY <1>2, <1>3, <1>4, <1>5, <1>6

\* The ledger answers with an entry only when it is the one of the command.
LEMMA Responds ==
    ASSUME WalletInv, NEW c \in Calls, Book!Respond(c), UNCHANGED <<intents, holds, pc, seen, answer>>
    PROVE  WalletInv'
<1> USE DEF WalletInv, Book!Respond
<1>1. PICK r \in Book!Replies : Book!Truthful(c, r) /\ reply' = [reply EXCEPT ![c] = r]
    OBVIOUS
<1>2. /\ posted' = posted /\ reply[c].kind = "PENDING" /\ reply'[c] = r
      /\ \A d \in Calls \ {c} : reply'[d] = reply[d]
    BY <1>1 DEF WalletTypeOK
<1>3. /\ r.kind \notin {"NONE", "PENDING"}
      /\ r.kind \in {"POSTED", "REPLAYED"} => r.entry \in posted /\ SameCommand(r.entry, c)
    <2>1. CASE r.kind = "POSTED"
        BY <1>1, <2>1 DEF Book!Truthful, SameCommand
    <2>2. CASE r.kind = "REPLAYED"
        <3>1. /\ r.entry \in posted /\ Commands[c].ref = Commands[r.entry].ref
              /\ Commands[c].hash = Commands[r.entry].hash
            BY <1>1, <2>2 DEF Book!Truthful, Book!SameRef, Book!SameHash
        <3>2. EntryRef(c) = EntryRef(r.entry) /\ PostingsOf(c) = PostingsOf(r.entry)
            BY <3>1 DEF Commands, Posting, WalletTypeOK
        <3> QED BY <2>2, <3>1, <3>2 DEF SameCommand
    <2>3. CASE r.kind \notin {"POSTED", "REPLAYED"}
        BY <1>1, <2>3 DEF Book!Truthful
    <2> QED BY <2>1, <2>2, <2>3
<1>4. WalletTypeOK'
    BY <1>1, <1>2 DEF WalletTypeOK
<1>5. BookAgrees'
    BY <1>2, <1>3 DEF BookAgrees, SameCommand
<1>6. PlacesAgree'
    BY <1>2, <1>3 DEF PlacesAgree
<1>7. IntentsAgree'
    BY <1>2 DEF IntentsAgree, IntentMatches
<1>8. HoldsAgree'
    BY <1>2 DEF HoldsAgree, Charges
<1> QED BY <1>4, <1>5, <1>6, <1>7, <1>8

-----------------------------------------------------------------------------
(***************************************************************************)
(* Rows are written: an intent, a hold, and what has been posted for them. *)
(***************************************************************************)
LEMMA CreatesIntent ==
    ASSUME WalletInv, NEW c \in Calls, CreateIntent(c), intents[Op[c].subject] = Null
    PROVE  WalletInv'
<1> USE DEF WalletInv
<1>1. /\ posted' = posted /\ reply' = reply /\ holds' = holds
      /\ pc[c] = "CREATE" /\ pc'[c] = "DONE"
      /\ \A d \in Calls \ {c} : pc'[d] = pc[d] /\ answer'[d] = answer[d]
      /\ intents'[Op[c].subject] = IntentRow(c, Null)
      /\ \A s \in Subjects \ {Op[c].subject} : intents'[s] = intents[s]
      /\ pc' \in [Calls -> Places] /\ answer' \in [Calls -> Answers]
      /\ DOMAIN intents' = Subjects /\ intents' = [s \in Subjects |-> intents'[s]]
    BY SubjectsOfCalls DEF CreateIntent, Finish, GoTo, book, WalletTypeOK, IntentRow, Places, Answers
<1>2. WalletTypeOK'
    BY <1>1, NewRows DEF WalletTypeOK
<1>3. BookAgrees'
    BY <1>1 DEF BookAgrees, SameCommand
<1>4. PlacesAgree'
    BY <1>1 DEF PlacesAgree
<1>5. IntentsAgree'
    BY <1>1, NewRows, SubjectsOfCalls DEF IntentsAgree, IntentMatches, IntentRow
<1>6. HoldsAgree'
    BY <1>1 DEF HoldsAgree, PlacesAgree, Charges, Posters
<1> QED BY <1>2, <1>3, <1>4, <1>5, <1>6

LEMMA Confirms ==
    ASSUME WalletInv, NEW c \in Calls, ConfirmIntent(c)
    PROVE  WalletInv'
<1> USE DEF WalletInv
<1> DEFINE s == Op[c].subject
           e == reply[c].entry
<1>1. /\ posted' = posted /\ reply' = reply /\ holds' = holds
      /\ pc[c] = "POSTED" /\ pc'[c] = "DONE" /\ Op[c].kind = "topup"
      /\ \A d \in Calls \ {c} : pc'[d] = pc[d] /\ answer'[d] = answer[d]
    BY DEF ConfirmIntent, Finish, GoTo, book, WalletTypeOK
<1>2. /\ e \in posted /\ e \in Calls /\ Op[e].kind = "topup" /\ Op[e].subject = s
      /\ Op[e].wallet = Op[c].wallet /\ Op[e].amount = Op[c].amount
    BY <1>1, EntryOfTheCommand DEF BookAgrees, PlacesAgree, WalletTypeOK
<1>3. intents[s] \in IntentRows /\ intents[s].wallet = Op[c].wallet /\ intents[s].amount = Op[c].amount
    BY <1>1, SubjectsOfCalls DEF IntentsAgree, IntentMatches, PlacesAgree, WalletTypeOK
<1>4. /\ intents'[s] = [intents[s] EXCEPT !.entry = e]
      /\ \A t \in Subjects \ {s} : intents'[t] = intents[t]
      /\ pc' \in [Calls -> Places] /\ answer' \in [Calls -> Answers]
      /\ DOMAIN intents' = Subjects /\ intents' = [t \in Subjects |-> intents'[t]]
    BY SubjectsOfCalls DEF ConfirmIntent, Finish, GoTo, WalletTypeOK, Places, Answers
<1> HIDE DEF s, e
<1>5. /\ intents'[s] \in IntentRows /\ intents'[s] # Null /\ intents'[s].entry = e
      /\ intents'[s].wallet = Op[c].wallet /\ intents'[s].amount = Op[c].amount
    BY <1>2, <1>3, <1>4, ConfirmedRow
<1>6. WalletTypeOK'
    BY <1>1, <1>4, <1>5 DEF WalletTypeOK
<1>7. BookAgrees'
    BY <1>1 DEF BookAgrees, SameCommand
<1>8. PlacesAgree'
    BY <1>1 DEF PlacesAgree
<1>9. IntentsAgree'
    <2>1. ASSUME NEW d \in Calls, Op[d].kind = "topup", reply[d].kind # "NONE"
          PROVE  IntentMatches(d)'
        <3>1. intents[Op[d].subject] # Null /\ IntentMatches(d)
            BY <2>1 DEF IntentsAgree, IntentMatches
        <3> QED BY <1>3, <1>4, <1>5, <3>1, SubjectsOfCalls DEF IntentMatches
    <2>2. ASSUME NEW t \in Subjects, intents'[t] # Null, intents'[t].entry # Null
          PROVE  /\ intents'[t].entry \in posted'
                 /\ LET f == intents'[t].entry
                    IN  /\ Op[f].kind = "topup" /\ Op[f].subject = t
                        /\ Op[f].wallet = intents'[t].wallet /\ Op[f].amount = intents'[t].amount
        <3>1. CASE t = s
            BY <1>1, <1>2, <1>5, <3>1
        <3>2. CASE t # s
            BY <1>1, <1>4, <2>2, <3>2 DEF IntentsAgree
        <3> QED BY <3>1, <3>2
    <2> QED BY <1>1, <2>1, <2>2 DEF IntentsAgree
<1>10. HoldsAgree'
    BY <1>1 DEF HoldsAgree, PlacesAgree, Charges
<1> QED BY <1>6, <1>7, <1>8, <1>9, <1>10

LEMMA CreatesHold ==
    ASSUME WalletInv, NEW c \in Calls, CreateHold(c), holds[Op[c].subject] = Null
    PROVE  WalletInv'
<1> USE DEF WalletInv
<1>1. /\ posted' = posted /\ reply' = reply /\ intents' = intents
      /\ pc[c] = "CREATE" /\ pc'[c] = "DONE" /\ Op[c].kind = "hold"
      /\ \A d \in Calls \ {c} : pc'[d] = pc[d] /\ answer'[d] = answer[d]
      /\ holds'[Op[c].subject] = HoldRow(c, "active", Null)
      /\ \A s \in Subjects \ {Op[c].subject} : holds'[s] = holds[s]
      /\ pc' \in [Calls -> Places] /\ answer' \in [Calls -> Answers]
      /\ DOMAIN holds' = Subjects /\ holds' = [s \in Subjects |-> holds'[s]]
    BY SubjectsOfCalls DEF CreateHold, Finish, GoTo, book, WalletTypeOK, HoldRow, NewHold, Places, Answers
<1>2. WalletTypeOK'
    BY <1>1, NewRows DEF WalletTypeOK
<1>3. BookAgrees'
    BY <1>1 DEF BookAgrees, SameCommand
<1>4. PlacesAgree'
    BY <1>1 DEF PlacesAgree
<1>5. IntentsAgree'
    BY <1>1 DEF IntentsAgree, IntentMatches
<1>6. HoldsAgree'
    BY <1>1, NewRows, SubjectsOfCalls DEF HoldsAgree, PlacesAgree, Charges, HoldRow
<1> QED BY <1>2, <1>3, <1>4, <1>5, <1>6

LEMMA CapturesTheHold ==
    ASSUME WalletInv, NEW c \in Calls, CaptureHold(c)
    PROVE  WalletInv'
<1> USE DEF WalletInv
<1> DEFINE s == Op[c].hold
           e == reply[c].entry
<1>1. /\ posted' = posted /\ reply' = reply /\ intents' = intents
      /\ pc[c] = "POSTED" /\ pc'[c] = "DONE" /\ Op[c].kind = "capture"
      /\ \A d \in Calls \ {c} : pc'[d] = pc[d] /\ answer'[d] = answer[d]
    BY DEF CaptureHold, Finish, GoTo, book, WalletTypeOK
<1>2. e \in posted /\ e \in Calls /\ Op[e].kind = "capture" /\ Op[e].hold = s
    BY <1>1, EntryOfTheCommand DEF BookAgrees, PlacesAgree, WalletTypeOK
<1>3. holds[s] \in HoldRows
    BY <1>1, SubjectsOfCalls DEF HoldsAgree, PlacesAgree, WalletTypeOK
<1>4. /\ holds'[s] = [holds[s] EXCEPT !.status = "captured", !.entry = e]
      /\ \A t \in Subjects \ {s} : holds'[t] = holds[t]
      /\ pc' \in [Calls -> Places] /\ answer' \in [Calls -> Answers]
      /\ DOMAIN holds' = Subjects /\ holds' = [t \in Subjects |-> holds'[t]]
    BY SubjectsOfCalls DEF CaptureHold, Finish, GoTo, WalletTypeOK, Places, Answers
<1> HIDE DEF s, e
<1>5. /\ holds'[s] \in HoldRows /\ holds'[s] # Null /\ holds'[s].entry = e
      /\ holds'[s].status = "captured" /\ holds'[s].amount = holds[s].amount
    <2>1. LET captured == [holds[s] EXCEPT !.status = "captured", !.entry = e]
          IN  /\ captured \in HoldRows /\ captured # Null
              /\ captured.amount = holds[s].amount /\ captured.status = "captured" /\ captured.entry = e
        BY <1>2, <1>3, CapturedRow
    <2> QED BY <1>4, <2>1
<1>6. WalletTypeOK'
    BY <1>1, <1>4, <1>5 DEF WalletTypeOK
<1>7. BookAgrees'
    BY <1>1 DEF BookAgrees, SameCommand
<1>8. PlacesAgree'
    BY <1>1 DEF PlacesAgree
<1>9. IntentsAgree'
    BY <1>1 DEF IntentsAgree, IntentMatches
<1>10. HoldsAgree'
    <2>1. ASSUME NEW d \in Calls, Op[d].kind = "capture", reply[d].kind # "NONE"
          PROVE  /\ holds'[Op[d].hold] # Null /\ Op[d].amount <= holds'[Op[d].hold].amount
                 /\ \/ holds'[Op[d].hold].status = "captured"
                    \/ pc'[d] \in {"POST", "POSTED"} \/ answer'[d] = "FAILED"
        <3>1. /\ holds[Op[d].hold] # Null /\ Op[d].amount <= holds[Op[d].hold].amount
              /\ \/ holds[Op[d].hold].status = "captured"
                 \/ pc[d] \in {"POST", "POSTED"} \/ answer[d] = "FAILED"
            BY <2>1 DEF HoldsAgree
        <3>2. CASE Op[d].hold = s
            BY <1>5, <3>1, <3>2
        <3>3. CASE Op[d].hold # s
            <4>1. holds'[Op[d].hold] = holds[Op[d].hold]
                BY <1>4, <3>3, SubjectsOfCalls
            <4>2. d # c
                BY <3>3 DEF s
            <4> QED BY <1>1, <3>1, <4>1, <4>2
        <3> QED BY <3>2, <3>3
    <2>2. ASSUME NEW t \in Subjects, holds'[t] # Null, holds'[t].status = "captured"
          PROVE  holds'[t].entry \in Charges(t)'
        <3>1. CASE t = s
            BY <1>1, <1>2, <1>5, <3>1 DEF Charges
        <3>2. CASE t # s
            BY <1>1, <1>4, <2>2, <3>2 DEF HoldsAgree, Charges
        <3> QED BY <3>1, <3>2
    <2> QED BY <1>1, <2>1, <2>2 DEF HoldsAgree
<1> QED BY <1>6, <1>7, <1>8, <1>9, <1>10

-----------------------------------------------------------------------------
LEMMA WalletStepInv ==
    ASSUME WalletInv, NEW c \in Calls, CallStep(c)
    PROVE  WalletInv'
<1> USE DEF WalletInv
<1>1. CASE FindOrCreateIntent(c)
    BY <1>1, MovesOn DEF FindOrCreateIntent, Finish, GoTo, Places, Answers
<1>2. CASE CreateIntent(c)
    BY <1>2, CreatesIntent, MovesOn DEF CreateIntent, Finish, GoTo, Places, Answers
<1>3. CASE FindIntent(c)
    BY <1>3, Asks, MovesOn DEF FindIntent, Finish, GoTo, Places, Answers, Posters
<1>4. CASE ConfirmIntent(c)
    BY <1>4, Confirms
<1>5. CASE FindHold(c)
    BY <1>5, MovesOn DEF FindHold, Finish, GoTo, Places, Answers
<1>6. CASE ReadPosted(c)
    BY <1>6, MovesOn DEF ReadPosted, GoTo, Places
<1>7. CASE ReadHeld(c)
    BY <1>7, MovesOn DEF ReadHeld, Finish, GoTo, Places, Answers
<1>8. CASE CreateHold(c)
    BY <1>8, CreatesHold, MovesOn DEF CreateHold, Finish, GoTo, Places, Answers
<1>9. CASE FindCharge(c)
    BY <1>9, MovesOn DEF FindCharge, Finish, GoTo, Places, Answers
<1>10. CASE CheckHold(c)
    BY <1>10, Asks, MovesOn DEF CheckHold, PlacesAgree, Finish, GoTo, Places, Answers, Posters
<1>11. CASE CaptureHold(c)
    BY <1>11, CapturesTheHold
<1>12. CASE StartRefund(c)
    BY <1>12, Asks DEF StartRefund, Posters
<1>13. CASE FinishRefund(c)
    BY <1>13, MovesOn DEF FinishRefund, Finish, GoTo, Places, Answers
<1>14. CASE TakeReply(c)
    <2>1. CASE reply[c].kind \in {"POSTED", "REPLAYED"}
        BY <1>14, <2>1, MovesOn DEF TakeReply, GoTo, Places
    <2>2. CASE reply[c].kind \notin {"POSTED", "REPLAYED"}
        <3>1. answer'[c] = "FAILED"
            BY <1>14, <2>2 DEF TakeReply, Finish, WalletTypeOK
        <3> QED BY <1>14, <2>2, <3>1, MovesOn DEF TakeReply, Finish, GoTo, Places, Answers
    <2> QED BY <2>1, <2>2
<1> QED BY <1>1, <1>2, <1>3, <1>4, <1>5, <1>6, <1>7, <1>8, <1>9, <1>10, <1>11, <1>12, <1>13, <1>14
        DEF CallStep

LEMMA WalletNextInv == WalletInv /\ [WalletNext]_walletVars => WalletInv'
<1> SUFFICES ASSUME WalletInv, [WalletNext]_walletVars PROVE WalletInv'
    OBVIOUS
<1>1. ASSUME NEW c \in Calls, Call(c) PROVE WalletInv'
    BY <1>1, MovesOn DEF Call, GoTo, Places
<1>2. ASSUME NEW c \in Calls, CallStep(c) PROVE WalletInv'
    BY <1>2, WalletStepInv
<1>3. ASSUME NEW c \in Calls, LedgerStep(c) PROVE WalletInv'
    BY <1>3, Enters, Responds DEF LedgerStep
<1>4. ASSUME NEW c \in Calls, Crash(c) PROVE WalletInv'
    <2>1. answer'[c] = "FAILED"
        BY <1>4 DEF Crash, Finish, WalletInv, WalletTypeOK
    <2> QED BY <1>4, <2>1, MovesOn DEF Crash, Finish, GoTo, Places, Answers
<1>5. CASE UNCHANGED walletVars
    <2> USE <1>5 DEF walletVars, book
    <2>1. WalletTypeOK' /\ BookAgrees' /\ PlacesAgree'
        BY DEF WalletInv, WalletTypeOK, BookAgrees, PlacesAgree, SameCommand
    <2>2. IntentsAgree' /\ HoldsAgree'
        BY DEF WalletInv, IntentsAgree, HoldsAgree, IntentMatches, Charges
    <2> QED BY <2>1, <2>2 DEF WalletInv
<1> QED BY <1>1, <1>2, <1>3, <1>4, <1>5 DEF WalletNext

-----------------------------------------------------------------------------
\* What every interleaving of the wallet's calls keeps: the rows and the entries agree, and each
\* call knows of the ledger what its place in the code says.
THEOREM WalletInvariant == WalletSpec => []WalletInv
  BY WalletInitInv, WalletNextInv, PTL DEF WalletSpec

\* A confirmed intent names the only entry that credited its topup, with its wallet and amount,
\* whoever confirmed it and wherever calls were cut short (confirmSandboxTopup).
THEOREM ConfirmedAreCredited == WalletSpec => []ConfirmedIntentsAreCredited
  <1>1. WalletInv => ConfirmedIntentsAreCredited
    <2> SUFFICES ASSUME WalletInv, NEW s \in Subjects, intents[s] # Null, intents[s].entry # Null
                 PROVE  /\ {b \in posted : Op[b].kind = "topup" /\ Op[b].subject = s} = {intents[s].entry}
                        /\ Op[intents[s].entry].wallet = intents[s].wallet
                        /\ Op[intents[s].entry].amount = intents[s].amount
        BY DEF ConfirmedIntentsAreCredited
    <2> DEFINE e == intents[s].entry
    <2>1. /\ e \in posted /\ Op[e].kind = "topup" /\ Op[e].subject = s
          /\ Op[e].wallet = intents[s].wallet /\ Op[e].amount = intents[s].amount
        BY DEF WalletInv, IntentsAgree
    <2>2. ASSUME NEW b \in posted, Op[b].kind = "topup", Op[b].subject = s PROVE b = e
        <3>1. EntryRef(b) = EntryRef(e)
            BY <2>1, <2>2 DEF EntryRef
        <3> QED BY <2>1, <3>1 DEF WalletInv, BookAgrees
    <2> QED BY <2>1, <2>2
  <1> QED BY <1>1, WalletInvariant, PTL

\* A charge was covered by its hold, which is captured unless its call still has to or was cut
\* short; a captured hold was charged (captureShipmentCharge).
THEOREM ChargesAreCovered == WalletSpec => []ChargesAccountedFor
  <1>1. WalletInv => ChargesAccountedFor
    <2> SUFFICES ASSUME WalletInv, NEW s \in Subjects
                 PROVE  /\ \A b \in Charges(s) :
                              /\ holds[s] # Null /\ Op[b].amount <= holds[s].amount
                              /\ \/ holds[s].status = "captured"
                                 \/ pc[b] \in {"POST", "POSTED"} \/ answer[b] = "FAILED"
                        /\ holds[s] # Null /\ holds[s].status = "captured" => holds[s].entry \in Charges(s)
        BY DEF ChargesAccountedFor
    <2>1. ASSUME NEW b \in Charges(s)
          PROVE  b \in Calls /\ Op[b].kind = "capture" /\ Op[b].hold = s /\ reply[b].kind # "NONE"
        BY DEF Charges, WalletInv, WalletTypeOK, BookAgrees
    <2> QED BY <2>1 DEF WalletInv, HoldsAgree
  <1> QED BY <1>1, WalletInvariant, PTL
-----------------------------------------------------------------------------
(* The seller's wallet.  ReversedEntriesAreUndone says nothing of a reversal *)
(* that has found its original and not marked it yet.  SellerInv adds that   *)
(* every entry is the entry of a call, that each reversal among them undoes  *)
(* the entry it names, and that a reversal past its first look has one.      *)

Amount == [current : Int, hold : Int]
Keys == {SellerOp[c].key : c \in SellerCalls}
EntryRow ==
    [key : Keys, direction : Directions, target : {SellerOp[c].target : c \in SellerCalls}, impact : Amount,
     reversedBy : Keys \cup {Null}]

SellerTypeOK ==
    /\ entries \in Seq(EntryRow)
    /\ place \in [SellerCalls -> {"IDLE", "FIND_ORIGINAL", "FIND_KEY", "READ_BALANCE", "INSERT", "DONE"}]

OneEntryPerKey == \A i, j \in DOMAIN entries : entries[i].key = entries[j].key => i = j

EntriesHaveCalls ==
    \A i \in DOMAIN entries : \E c \in SellerCalls :
        /\ entries[i].key = SellerOp[c].key /\ entries[i].direction = SellerOp[c].direction
        /\ entries[i].target = SellerOp[c].target

\* Entry j undoes entry i.
UndoneBy(i, j) ==
    /\ entries[j].target = entries[i].key
    /\ entries[j].impact.current = -entries[i].impact.current
    /\ entries[j].impact.hold = -entries[i].impact.hold

ReversalsUndo ==
    \A j \in DOMAIN entries :
        entries[j].direction = "REVERSAL" => \E i \in DOMAIN entries : UndoneBy(i, j)

MarksAreReversals ==
    \A i \in DOMAIN entries : entries[i].reversedBy # Null =>
        \E j \in DOMAIN entries : entries[j].key = entries[i].reversedBy /\ UndoneBy(i, j)

OriginalsFound ==
    \A c \in SellerCalls :
        Undoes(c) /\ place[c] \in {"FIND_KEY", "READ_BALANCE", "INSERT"} => HasKey(SellerOp[c].target)

SellerInv ==
    SellerTypeOK /\ OneEntryPerKey /\ EntriesHaveCalls /\ ReversalsUndo /\ MarksAreReversals /\ OriginalsFound

LEMMA EntriesAreRows ==
    ASSUME SellerTypeOK, NEW i \in DOMAIN entries
    PROVE  entries[i] \in EntryRow
  BY DEF SellerTypeOK

\* What CHOOSE finds under a key that is there.
LEMMA PlaceIsFound ==
    ASSUME NEW key, HasKey(key)
    PROVE  PlaceOf(key) \in DOMAIN entries /\ entries[PlaceOf(key)].key = key
  BY DEF HasKey, PlaceOf

\* The entry of a call is a row, and undoes its original if the call is a reversal.
LEMMA EntryOfCall ==
    ASSUME SellerTypeOK, NEW c \in SellerCalls, Undoes(c) => HasKey(SellerOp[c].target)
    PROVE  /\ Entry(c) \in EntryRow
           /\ Undoes(c) => \E i \in DOMAIN entries :
                 /\ entries[i].key = SellerOp[c].target
                 /\ Entry(c).impact.current = -entries[i].impact.current
                 /\ Entry(c).impact.hold = -entries[i].impact.hold
<1>1. ImpactOf(c) \in Amount /\ (Undoes(c) => \E i \in DOMAIN entries :
          /\ entries[i].key = SellerOp[c].target
          /\ ImpactOf(c).current = -entries[i].impact.current
          /\ ImpactOf(c).hold = -entries[i].impact.hold)
  <2>1. CASE Undoes(c)
    <3> DEFINE i == PlaceOf(SellerOp[c].target)
    <3>1. i \in DOMAIN entries /\ entries[i].key = SellerOp[c].target
        BY <2>1, PlaceIsFound
    <3>2. entries[i].impact \in Amount
        BY <3>1, EntriesAreRows DEF EntryRow
    <3>3. ImpactOf(c) = [current |-> -entries[i].impact.current, hold |-> -entries[i].impact.hold]
        BY <2>1 DEF ImpactOf
    <3> HIDE DEF i
    <3>4. /\ ImpactOf(c) \in Amount /\ ImpactOf(c).current = -entries[i].impact.current
          /\ ImpactOf(c).hold = -entries[i].impact.hold
        BY <3>2, <3>3 DEF Amount
    <3> QED BY <3>1, <3>4
  <2>2. CASE ~Undoes(c)
    <3>1. /\ SellerOp[c].direction \in {"CREDIT", "DEBIT", "HOLD", "RELEASE"}
          /\ SellerOp[c].amount \in Nat
        BY <2>2, SellerAssumption DEF Undoes, Directions
    <3>2. ImpactOf(c) = DefaultImpact(SellerOp[c].direction, SellerOp[c].amount)
        BY <2>2 DEF ImpactOf
    <3>3. ImpactOf(c) \in Amount
        BY <3>1, <3>2 DEF DefaultImpact, Amount
    <3> QED BY <2>2, <3>3
  <2> QED BY <2>1, <2>2
<1>2. /\ Entry(c).impact = ImpactOf(c) /\ Entry(c).reversedBy = Null
      /\ SellerOp[c].key \in Keys /\ SellerOp[c].direction \in Directions
    BY SellerAssumption DEF Entry, Keys
<1>3. Entry(c) \in EntryRow
    BY <1>1, <1>2 DEF Entry, EntryRow
<1> QED BY <1>1, <1>2, <1>3

\* Marking touches nothing but the marks, and those only of the original of a reversal.
LEMMA MarkedRows ==
    ASSUME SellerTypeOK, NEW c \in SellerCalls
    PROVE  /\ Marked(c) \in Seq(EntryRow) /\ DOMAIN Marked(c) = DOMAIN entries
           /\ Len(Marked(c)) = Len(entries)
           /\ \A i \in DOMAIN entries :
                /\ Marked(c)[i].key = entries[i].key /\ Marked(c)[i].direction = entries[i].direction
                /\ Marked(c)[i].target = entries[i].target /\ Marked(c)[i].impact = entries[i].impact
                /\ \/ Marked(c)[i].reversedBy = entries[i].reversedBy
                   \/ /\ Undoes(c) /\ entries[i].key = SellerOp[c].target
                      /\ Marked(c)[i].reversedBy = SellerOp[c].key
<1>1. entries \in Seq(EntryRow) /\ DOMAIN entries = 1..Len(entries) /\ Len(entries) \in Nat
    BY DEF SellerTypeOK
<1>2. ASSUME NEW i \in DOMAIN entries
      PROVE  /\ Marked(c)[i] \in EntryRow
             /\ Marked(c)[i].key = entries[i].key /\ Marked(c)[i].direction = entries[i].direction
             /\ Marked(c)[i].target = entries[i].target /\ Marked(c)[i].impact = entries[i].impact
             /\ \/ Marked(c)[i].reversedBy = entries[i].reversedBy
                \/ /\ Undoes(c) /\ entries[i].key = SellerOp[c].target
                   /\ Marked(c)[i].reversedBy = SellerOp[c].key
  <2>1. PICK row \in EntryRow : row = entries[i]
      BY EntriesAreRows
  <2>2. SellerOp[c].key \in Keys
      BY DEF Keys
  <2>3. CASE Undoes(c) /\ entries[i].key = SellerOp[c].target
    <3>1. Marked(c)[i] = [row EXCEPT !.reversedBy = SellerOp[c].key]
        BY <2>1, <2>3 DEF Marked
    <3> QED BY <2>1, <2>2, <2>3, <3>1 DEF EntryRow
  <2>4. CASE ~(Undoes(c) /\ entries[i].key = SellerOp[c].target)
    <3>1. Marked(c)[i] = row
        BY <2>1, <2>4 DEF Marked
    <3> QED BY <2>1, <3>1
  <2> QED BY <2>3, <2>4
<1>3. Marked(c) = [i \in 1..Len(entries) |-> Marked(c)[i]]
    BY <1>1 DEF Marked
<1>4. Marked(c) \in [1..Len(entries) -> EntryRow]
    BY <1>1, <1>2, <1>3
<1>5. Marked(c) \in Seq(EntryRow) /\ Len(Marked(c)) = Len(entries) /\ DOMAIN Marked(c) = DOMAIN entries
    BY <1>1, <1>4
<1> QED BY <1>2, <1>5

\* A statement that writes: the rows there were keep all but their marks, the marks it sets are those
\* of the original of its call, and a row it adds is the entry of its call.
LEMMA WritesKeepRows ==
    ASSUME SellerInv, NEW c \in SellerCalls, Undoes(c) => HasKey(SellerOp[c].target),
           entries' \in Seq(EntryRow), DOMAIN entries \subseteq DOMAIN entries',
           \A i \in DOMAIN entries :
                /\ entries'[i].key = entries[i].key /\ entries'[i].direction = entries[i].direction
                /\ entries'[i].target = entries[i].target /\ entries'[i].impact = entries[i].impact
                /\ \/ entries'[i].reversedBy = entries[i].reversedBy
                   \/ /\ Undoes(c) /\ entries[i].key = SellerOp[c].target
                      /\ entries'[i].reversedBy = SellerOp[c].key,
           \A i, j \in DOMAIN entries' \ DOMAIN entries : i = j,
           \A i \in DOMAIN entries' \ DOMAIN entries : ~HasKey(SellerOp[c].key) /\ entries'[i] = Entry(c),
           \E i \in DOMAIN entries' : entries'[i].key = SellerOp[c].key
    PROVE  OneEntryPerKey' /\ EntriesHaveCalls' /\ ReversalsUndo' /\ MarksAreReversals'
<1> DEFINE old == DOMAIN entries
           new == DOMAIN entries' \ DOMAIN entries
<1>1. /\ Entry(c).key = SellerOp[c].key /\ Entry(c).direction = SellerOp[c].direction
      /\ Entry(c).target = SellerOp[c].target /\ Entry(c).reversedBy = Null
    BY DEF Entry
<1>2. \A i, j \in old : UndoneBy(i, j) => UndoneBy(i, j)'
    BY DEF UndoneBy
<1>3. OneEntryPerKey'
  <2> SUFFICES ASSUME NEW i \in DOMAIN entries', NEW j \in DOMAIN entries', entries'[i].key = entries'[j].key
               PROVE  i = j
      BY DEF OneEntryPerKey
  <2>1. CASE i \in old /\ j \in old
      BY <2>1 DEF SellerInv, OneEntryPerKey
  <2>2. CASE i \in new /\ j \in new
      BY <2>2
  <2>3. CASE i \in old /\ j \in new
      BY <1>1, <2>3 DEF HasKey
  <2>4. CASE i \in new /\ j \in old
      BY <1>1, <2>4 DEF HasKey
  <2> QED BY <2>1, <2>2, <2>3, <2>4
<1>4. EntriesHaveCalls'
  <2> SUFFICES ASSUME NEW i \in DOMAIN entries'
               PROVE  \E d \in SellerCalls :
                        /\ entries'[i].key = SellerOp[d].key /\ entries'[i].direction = SellerOp[d].direction
                        /\ entries'[i].target = SellerOp[d].target
      BY DEF EntriesHaveCalls
  <2>1. CASE i \in old
    <3>1. PICK d \in SellerCalls :
              /\ entries[i].key = SellerOp[d].key /\ entries[i].direction = SellerOp[d].direction
              /\ entries[i].target = SellerOp[d].target
        BY <2>1 DEF SellerInv, EntriesHaveCalls
    <3> QED BY <2>1, <3>1
  <2>2. CASE i \in new
      BY <1>1, <2>2
  <2> QED BY <2>1, <2>2
<1>5. ReversalsUndo'
  <2> SUFFICES ASSUME NEW j \in DOMAIN entries', entries'[j].direction = "REVERSAL"
               PROVE  \E i \in DOMAIN entries' : UndoneBy(i, j)'
      BY DEF ReversalsUndo
  <2>1. CASE j \in old
    <3>1. PICK i \in old : UndoneBy(i, j)
        BY <2>1 DEF SellerInv, ReversalsUndo
    <3> QED BY <1>2, <2>1, <3>1
  <2>2. CASE j \in new
    <3>1. Undoes(c)
        BY <1>1, <2>2 DEF Undoes
    <3>2. PICK i \in old :
              /\ entries[i].key = SellerOp[c].target
              /\ Entry(c).impact.current = -entries[i].impact.current
              /\ Entry(c).impact.hold = -entries[i].impact.hold
        BY <3>1, EntryOfCall DEF SellerInv
    <3>3. UndoneBy(i, j)'
        BY <1>1, <2>2, <3>2 DEF UndoneBy
    <3> QED BY <3>2, <3>3
  <2> QED BY <2>1, <2>2
<1>6. MarksAreReversals'
  <2> SUFFICES ASSUME NEW i \in DOMAIN entries', entries'[i].reversedBy # Null
               PROVE  \E j \in DOMAIN entries' : entries'[j].key = entries'[i].reversedBy /\ UndoneBy(i, j)'
      BY DEF MarksAreReversals
  <2>1. i \in old
      BY <1>1
  <2>2. CASE entries'[i].reversedBy = entries[i].reversedBy
    <3>1. PICK j \in old : entries[j].key = entries[i].reversedBy /\ UndoneBy(i, j)
        BY <2>1, <2>2 DEF SellerInv, MarksAreReversals
    <3> QED BY <1>2, <2>1, <2>2, <3>1
  <2>3. CASE Undoes(c) /\ entries[i].key = SellerOp[c].target /\ entries'[i].reversedBy = SellerOp[c].key
    <3>1. PICK j \in DOMAIN entries' : entries'[j].key = SellerOp[c].key
        OBVIOUS
    <3>2. PICK d \in SellerCalls :
              /\ entries'[j].key = SellerOp[d].key /\ entries'[j].direction = SellerOp[d].direction
              /\ entries'[j].target = SellerOp[d].target
        BY <1>4 DEF EntriesHaveCalls
    <3>3. entries'[j].direction = "REVERSAL" /\ entries'[j].target = SellerOp[c].target
      <4>1. SellerOp[d].key = SellerOp[c].key
          BY <3>1, <3>2
      <4>2. Undoes(d) /\ SellerOp[d].target = SellerOp[c].target
          BY <2>3, <4>1, SellerAssumption
      <4> QED BY <3>2, <4>2 DEF Undoes
    <3>4. PICK h \in DOMAIN entries' : UndoneBy(h, j)'
        BY <1>5, <3>3 DEF ReversalsUndo
    <3>5. entries'[h].key = entries'[i].key
        BY <2>1, <2>3, <3>3, <3>4 DEF UndoneBy
    <3>6. h = i
        BY <1>3, <3>5 DEF OneEntryPerKey
    <3> QED BY <2>3, <3>1, <3>4, <3>6
  <2> QED BY <2>1, <2>2, <2>3
<1> QED BY <1>3, <1>4, <1>5, <1>6

\* A call moves on: where reversals are past their first look, originals stay found.
LEMMA OriginalsStayFound ==
    ASSUME SellerInv, NEW c \in SellerCalls, NEW next, MoveTo(c, next),
           \A key : HasKey(key) => HasKey(key)',
           Undoes(c) /\ next \in {"FIND_KEY", "READ_BALANCE", "INSERT"} => HasKey(SellerOp[c].target)
    PROVE  OriginalsFound'
<1> SUFFICES ASSUME NEW d \in SellerCalls, Undoes(d), place'[d] \in {"FIND_KEY", "READ_BALANCE", "INSERT"}
             PROVE  HasKey(SellerOp[d].target)'
    BY DEF OriginalsFound, Undoes
<1>1. place \in [SellerCalls -> {"IDLE", "FIND_ORIGINAL", "FIND_KEY", "READ_BALANCE", "INSERT", "DONE"}]
    BY DEF SellerInv, SellerTypeOK
<1>2. HasKey(SellerOp[d].target)
  <2>1. CASE d = c
      BY <1>1, <2>1 DEF MoveTo
  <2>2. CASE d # c
    <3>1. place'[d] = place[d]
        BY <1>1, <2>2 DEF MoveTo
    <3> QED BY <3>1 DEF SellerInv, OriginalsFound
  <2> QED BY <2>1, <2>2
<1>3. \A key : HasKey(key) => (\E i \in DOMAIN entries' : entries'[i].key = key)
    BY DEF HasKey
<1> QED BY <1>2, <1>3 DEF HasKey

LEMMA SellerInvInit == SellerWalletInit => SellerInv
BY DEF SellerWalletInit, SellerInv, SellerTypeOK, OneEntryPerKey, EntriesHaveCalls, ReversalsUndo,
       MarksAreReversals, OriginalsFound

\* A call that writes nothing, the transaction that is rolled back included.
LEMMA ReadsKeepSellerInv ==
    ASSUME SellerInv, NEW c \in SellerCalls,
           NEW next \in {"IDLE", "FIND_ORIGINAL", "FIND_KEY", "READ_BALANCE", "INSERT", "DONE"},
           MoveTo(c, next), UNCHANGED entries,
           Undoes(c) /\ next \in {"FIND_KEY", "READ_BALANCE", "INSERT"} => HasKey(SellerOp[c].target)
    PROVE  SellerInv'
<1>1. OriginalsFound'
    BY OriginalsStayFound DEF HasKey
<1>2. SellerTypeOK'
    BY DEF SellerInv, SellerTypeOK, MoveTo
<1>3. OneEntryPerKey' /\ EntriesHaveCalls' /\ ReversalsUndo' /\ MarksAreReversals'
    BY DEF SellerInv, OneEntryPerKey, EntriesHaveCalls, ReversalsUndo, MarksAreReversals, UndoneBy
<1> QED BY <1>1, <1>2, <1>3 DEF SellerInv

\* A repeated call writes nothing but the mark of a reversal that is already there.
LEMMA FindKeyKeepsSellerInv ==
    ASSUME SellerInv, NEW c \in SellerCalls, FindKey(c)
    PROVE  SellerInv'
<1>1. Undoes(c) => HasKey(SellerOp[c].target)
    BY DEF FindKey, SellerInv, OriginalsFound
<1>2. CASE ~HasKey(SellerOp[c].key) /\ MoveTo(c, "READ_BALANCE") /\ UNCHANGED entries
    BY <1>1, <1>2, ReadsKeepSellerInv
<1>3. CASE HasKey(SellerOp[c].key) /\ entries' = Marked(c) /\ EndWith(c, "REPLAYED")
  <2>1. /\ entries' \in Seq(EntryRow) /\ DOMAIN entries' = DOMAIN entries
        /\ \A i \in DOMAIN entries :
             /\ entries'[i].key = entries[i].key /\ entries'[i].direction = entries[i].direction
             /\ entries'[i].target = entries[i].target /\ entries'[i].impact = entries[i].impact
             /\ \/ entries'[i].reversedBy = entries[i].reversedBy
                \/ /\ Undoes(c) /\ entries[i].key = SellerOp[c].target
                   /\ entries'[i].reversedBy = SellerOp[c].key
      BY <1>3, MarkedRows DEF SellerInv
  <2>2. \E i \in DOMAIN entries' : entries'[i].key = SellerOp[c].key
      BY <1>3, <2>1 DEF HasKey
  <2>3. OneEntryPerKey' /\ EntriesHaveCalls' /\ ReversalsUndo' /\ MarksAreReversals'
      BY <1>1, <2>1, <2>2, WritesKeepRows
  <2>4. MoveTo(c, "DONE")
      BY <1>3 DEF EndWith
  <2>5. \A key : HasKey(key) => HasKey(key)'
      BY <2>1 DEF HasKey
  <2>6. OriginalsFound'
      BY <2>4, <2>5, OriginalsStayFound
  <2>7. SellerTypeOK'
      BY <2>1, <2>4 DEF SellerInv, SellerTypeOK, MoveTo
  <2> QED BY <2>3, <2>6, <2>7 DEF SellerInv
<1> QED BY <1>2, <1>3 DEF FindKey

\* An entry that is inserted has a new key, and undoes what it marks.
LEMMA InsertKeepsSellerInv ==
    ASSUME SellerInv, NEW c \in SellerCalls, InsertEntry(c)
    PROVE  SellerInv'
<1>1. Undoes(c) => HasKey(SellerOp[c].target)
    BY DEF InsertEntry, SellerInv, OriginalsFound
<1>2. CASE UNCHANGED entries /\ EndWith(c, "FAILED")
    BY <1>1, <1>2, ReadsKeepSellerInv DEF EndWith
<1>3. CASE ~HasKey(SellerOp[c].key) /\ entries' = Append(Marked(c), Entry(c)) /\ EndWith(c, "POSTED")
  <2> DEFINE rows == Marked(c)
             row == Entry(c)
  <2>1. /\ rows \in Seq(EntryRow) /\ DOMAIN rows = DOMAIN entries
        /\ \A i \in DOMAIN entries :
             /\ rows[i].key = entries[i].key /\ rows[i].direction = entries[i].direction
             /\ rows[i].target = entries[i].target /\ rows[i].impact = entries[i].impact
             /\ \/ rows[i].reversedBy = entries[i].reversedBy
                \/ /\ Undoes(c) /\ entries[i].key = SellerOp[c].target
                   /\ rows[i].reversedBy = SellerOp[c].key
      BY MarkedRows DEF SellerInv
  <2>2. row \in EntryRow
      BY <1>1, EntryOfCall DEF SellerInv
  <2>3. row.key = SellerOp[c].key
      BY DEF Entry
  <2>4. entries' = Append(rows, row)
      BY <1>3
  <2> HIDE DEF rows, row
  <2>5. /\ entries' \in Seq(EntryRow)
        /\ DOMAIN entries' = DOMAIN entries \cup {Len(rows) + 1} /\ Len(rows) + 1 \notin DOMAIN entries
        /\ entries'[Len(rows) + 1] = row
        /\ \A i \in DOMAIN entries : entries'[i] = rows[i]
    <3>1. Len(rows) \in Nat /\ DOMAIN rows = 1..Len(rows)
        BY <2>1
    <3>2. /\ entries' \in Seq(EntryRow) /\ Len(entries') = Len(rows) + 1
          /\ \A i \in 1..Len(rows) : entries'[i] = rows[i]
          /\ entries'[Len(rows) + 1] = row
        BY <2>1, <2>2, <2>4, AppendProperties
    <3>3. DOMAIN entries' = 1..(Len(rows) + 1)
        BY <3>2
    <3> QED BY <2>1, <3>1, <3>2, <3>3
  <2>6. \A i \in DOMAIN entries :
             /\ entries'[i].key = entries[i].key /\ entries'[i].direction = entries[i].direction
             /\ entries'[i].target = entries[i].target /\ entries'[i].impact = entries[i].impact
             /\ \/ entries'[i].reversedBy = entries[i].reversedBy
                \/ /\ Undoes(c) /\ entries[i].key = SellerOp[c].target
                   /\ entries'[i].reversedBy = SellerOp[c].key
      BY <2>1, <2>5
  <2>7. /\ \A i, j \in DOMAIN entries' \ DOMAIN entries : i = j
        /\ \A i \in DOMAIN entries' \ DOMAIN entries : ~HasKey(SellerOp[c].key) /\ entries'[i] = Entry(c)
        /\ \E i \in DOMAIN entries' : entries'[i].key = SellerOp[c].key
        /\ DOMAIN entries \subseteq DOMAIN entries'
      BY <1>3, <2>3, <2>5 DEF row
  <2>8. OneEntryPerKey' /\ EntriesHaveCalls' /\ ReversalsUndo' /\ MarksAreReversals'
      BY <1>1, <2>5, <2>6, <2>7, WritesKeepRows
  <2>9. MoveTo(c, "DONE")
      BY <1>3 DEF EndWith
  <2>10. \A key : HasKey(key) => HasKey(key)'
      BY <2>6, <2>7 DEF HasKey
  <2>11. OriginalsFound'
      BY <2>9, <2>10, OriginalsStayFound
  <2>12. SellerTypeOK'
      BY <2>5, <2>9 DEF SellerInv, SellerTypeOK, MoveTo
  <2> QED BY <2>8, <2>11, <2>12 DEF SellerInv
<1> QED BY <1>2, <1>3 DEF InsertEntry

LEMMA SellerInvNext == SellerInv /\ [SellerWalletNext]_sellerWalletVars => SellerInv'
<1> SUFFICES ASSUME SellerInv, [SellerWalletNext]_sellerWalletVars PROVE SellerInv'
    OBVIOUS
<1>1. ASSUME NEW c \in SellerCalls, StartCall(c) PROVE SellerInv'
  <2>1. PICK next \in {"FIND_ORIGINAL", "FIND_KEY"} : MoveTo(c, next) /\ (next = "FIND_KEY" => ~Undoes(c))
      BY <1>1 DEF StartCall
  <2> QED BY <1>1, <2>1, ReadsKeepSellerInv DEF StartCall
<1>2. ASSUME NEW c \in SellerCalls, FindOriginal(c) PROVE SellerInv'
  <2>1. CASE MayReverse(SellerOp[c].target) /\ MoveTo(c, "FIND_KEY")
      BY <1>2, <2>1, ReadsKeepSellerInv DEF FindOriginal, MayReverse
  <2>2. CASE EndWith(c, "REFUSED")
      BY <1>2, <2>2, ReadsKeepSellerInv DEF FindOriginal, EndWith
  <2> QED BY <1>2, <2>1, <2>2 DEF FindOriginal
<1>3. ASSUME NEW c \in SellerCalls, ReadBalance(c) PROVE SellerInv'
  <2>1. Undoes(c) => HasKey(SellerOp[c].target)
      BY <1>3 DEF ReadBalance, SellerInv, OriginalsFound
  <2>2. UNCHANGED entries /\ \E next \in {"INSERT", "DONE"} : MoveTo(c, next)
      BY <1>3 DEF ReadBalance, EndWith
  <2> QED BY <2>1, <2>2, ReadsKeepSellerInv
<1>4. ASSUME NEW c \in SellerCalls, RollBack(c) PROVE SellerInv'
    BY <1>4, ReadsKeepSellerInv DEF RollBack, EndWith
<1>5. CASE UNCHANGED sellerWalletVars
    BY <1>5 DEF sellerWalletVars, SellerInv, SellerTypeOK, OneEntryPerKey, EntriesHaveCalls, ReversalsUndo,
                MarksAreReversals, UndoneBy, OriginalsFound, HasKey
<1> QED BY <1>1, <1>2, <1>3, <1>4, <1>5, FindKeyKeepsSellerInv, InsertKeepsSellerInv DEF SellerWalletNext

\* Every entry is the entry of a call, reversals undo what they name, and what is marked as reversed
\* is marked with such a reversal (appendLedgerEntry, reverse).
THEOREM SellerWalletInvariant == SellerWalletSpec => []SellerInv
BY SellerInvInit, SellerInvNext, PTL DEF SellerWalletSpec

\* A key moves money once, and what is marked as reversed has been undone, for any number of calls of
\* the seller's wallet in any interleaving, repeated, refused or rolled back (appendLedgerEntry,
\* reverse).
THEOREM ReversedMeansUndone == SellerWalletSpec => []ReversedEntriesAreUndone
<1>1. SellerInv => ReversedEntriesAreUndone
  <2> SUFFICES ASSUME SellerInv, NEW i \in DOMAIN entries
               PROVE  /\ \A j \in DOMAIN entries : entries[j].key = entries[i].key => i = j
                      /\ entries[i].reversedBy # Null =>
                            \E j \in DOMAIN entries :
                                /\ entries[j].key = entries[i].reversedBy /\ entries[j].target = entries[i].key
                                /\ entries[j].impact.current = -entries[i].impact.current
                                /\ entries[j].impact.hold = -entries[i].impact.hold
      BY DEF ReversedEntriesAreUndone
  <2>1. \A j \in DOMAIN entries : entries[j].key = entries[i].key => i = j
      BY DEF SellerInv, OneEntryPerKey
  <2>2. entries[i].reversedBy # Null =>
            \E j \in DOMAIN entries : entries[j].key = entries[i].reversedBy /\ UndoneBy(i, j)
      BY DEF SellerInv, MarksAreReversals
  <2> QED BY <2>1, <2>2 DEF UndoneBy
<1> QED BY <1>1, SellerWalletInvariant, PTL

-----------------------------------------------------------------------------
(* Settlements: first what a plan says, whatever orders, rates, events and   *)
(* remittances it is made of.                                                *)

\* Of some places of a list one is the first.
LEMMA SmallestIsAPlace ==
    ASSUME NEW places \in SUBSET Nat, places # {}
    PROVE  Smallest(places) \in places
<1>1. \A m, n \in Nat : <<m, n>> \in OpToRel(<, Nat) <=> m < n
    BY DEF OpToRel
<1>2. PICK n \in places : \A m \in places : <<m, n>> \notin OpToRel(<, Nat)
    BY NatLessThanWellFounded, WFMin
<1>3. \A m \in places : m \in Nat /\ n \in Nat /\ ~(m < n)
    BY <1>1, <1>2
<1>4. \A m \in places : n <= m
    BY <1>3
<1> QED BY <1>4 DEF Smallest

\* What FirstOf finds stands in the list, at one of the places asked for.
LEMMA FoundIsAPlace ==
    ASSUME NEW rows, NEW places, DOMAIN rows \subseteq Nat, places \subseteq DOMAIN rows,
           FirstOf(rows, places) # Null
    PROVE  \E i \in places : FirstOf(rows, places) = rows[i]
  BY SmallestIsAPlace DEF FirstOf

\* The order found for a line is one of the orders.
LEMMA OrderIsFound ==
    ASSUME NEW line, NEW orders, NEW shipments, DOMAIN orders \subseteq Nat,
           FindOrder(line, orders, shipments) # Null
    PROVE  \E i \in DOMAIN orders : FindOrder(line, orders, shipments) = orders[i]
<1>1. PICK places : places \subseteq DOMAIN orders /\ FindOrder(line, orders, shipments) = FirstOf(orders, places)
    BY DEF FindOrder
<1> QED BY <1>1, FoundIsAPlace

\* A remittance is for an order that it names, or whose shipment has its waybill.
IsFor(m, order, shipment) ==
    \/ m.order = order.id \/ m.ext = order.ext
    \/ m.awb # Null /\ shipment # Null /\ shipment.awb = m.awb

\* The remittance found for an order is one of the remittances, and names the order or its waybill.
LEMMA RemittanceIsFound ==
    ASSUME NEW order, NEW shipment, NEW remittances_, DOMAIN remittances_ \subseteq Nat,
           FindRemittance(order, shipment, remittances_) # Null
    PROVE  \E i \in DOMAIN remittances_ :
               /\ FindRemittance(order, shipment, remittances_) = remittances_[i]
               /\ IsFor(remittances_[i], order, shipment)
<1>1. PICK places :
          /\ places \subseteq DOMAIN remittances_
          /\ FindRemittance(order, shipment, remittances_) = FirstOf(remittances_, places)
          /\ \A i \in places : IsFor(remittances_[i], order, shipment)
  <2> DEFINE awb   == IF shipment = Null THEN Null ELSE shipment.awb
             byAwb == {i \in DOMAIN remittances_ : awb # Null /\ remittances_[i].awb = awb}
             byId  == {i \in DOMAIN remittances_ : remittances_[i].order = order.id}
             byExt == {i \in DOMAIN remittances_ : remittances_[i].ext = order.ext}
             places == IF byAwb # {} THEN byAwb ELSE IF byId # {} THEN byId ELSE byExt
  <2>1. FindRemittance(order, shipment, remittances_) = FirstOf(remittances_, places)
      BY DEF FindRemittance
  <2>2. \A i \in byAwb : IsFor(remittances_[i], order, shipment)
      BY DEF IsFor
  <2>3. \A i \in byId \cup byExt : IsFor(remittances_[i], order, shipment)
      BY DEF IsFor
  <2>4. places \subseteq DOMAIN remittances_ /\ places \subseteq byAwb \cup byId \cup byExt
      OBVIOUS
  <2> HIDE DEF places, byAwb, byId, byExt
  <2> QED BY <2>1, <2>2, <2>3, <2>4
<1> QED BY <1>1, FoundIsAPlace

\* Every dispute has a rank, so a result without a status of its own has none.
DisputeTypes ==
    {"DUPLICATE_BILLING", "UNKNOWN_AWB", "RTO_CHARGE_ISSUE", "FAKE_ATTEMPT_NDR_ISSUE", "WEIGHT_DISPUTE",
     "ZONE_DISPUTE", "COD_SHORTFALL", "COD_DELAY", "INVOICE_MISMATCH"}

\* Every type of dispute has a rank, and none of them means approval.
LEMMA RanksOfDisputes ==
    /\ DOMAIN Precedence \subseteq Nat
    /\ \A t \in DisputeTypes : \E i \in DOMAIN Precedence : Precedence[i][1] = t
    /\ \A i \in DOMAIN Precedence : Precedence[i][2] # "AUTO_APPROVED"
<1>1. DOMAIN Precedence = 1..9
    BY DEF Precedence
<1>2. /\ Precedence[1] = <<"DUPLICATE_BILLING", "DUPLICATE_BILLING">>
      /\ Precedence[2] = <<"UNKNOWN_AWB", "MANUAL_REVIEW">>
      /\ Precedence[3] = <<"RTO_CHARGE_ISSUE", "RTO_CHARGE_REVIEW">>
      /\ Precedence[4] = <<"FAKE_ATTEMPT_NDR_ISSUE", "FAKE_ATTEMPT_REVIEW">>
      /\ Precedence[5] = <<"WEIGHT_DISPUTE", "WEIGHT_DISPUTE">>
      /\ Precedence[6] = <<"ZONE_DISPUTE", "ZONE_DISPUTE">>
      /\ Precedence[7] = <<"COD_SHORTFALL", "COD_SHORTFALL">>
      /\ Precedence[8] = <<"COD_DELAY", "COD_DELAYED">>
      /\ Precedence[9] = <<"INVOICE_MISMATCH", "INVOICE_MISMATCH">>
    BY DEF Precedence
<1>3. \A i \in 1..9 : i \in {1, 2, 3, 4, 5, 6, 7, 8, 9}
    OBVIOUS
<1>4. \A i \in DOMAIN Precedence : Precedence[i][2] # "AUTO_APPROVED"
    BY <1>1, <1>2, <1>3
<1>5. \A t \in DisputeTypes : \E i \in 1..9 : Precedence[i][1] = t
  <2> SUFFICES ASSUME NEW t \in DisputeTypes PROVE \E i \in 1..9 : Precedence[i][1] = t
      OBVIOUS
  <2>1. /\ Precedence[1][1] = "DUPLICATE_BILLING" /\ Precedence[2][1] = "UNKNOWN_AWB"
        /\ Precedence[3][1] = "RTO_CHARGE_ISSUE" /\ Precedence[4][1] = "FAKE_ATTEMPT_NDR_ISSUE"
        /\ Precedence[5][1] = "WEIGHT_DISPUTE" /\ Precedence[6][1] = "ZONE_DISPUTE"
        /\ Precedence[7][1] = "COD_SHORTFALL" /\ Precedence[8][1] = "COD_DELAY"
        /\ Precedence[9][1] = "INVOICE_MISMATCH"
      BY <1>2
  <2>2. 1 \in 1..9 /\ 2 \in 1..9 /\ 3 \in 1..9 /\ 4 \in 1..9 /\ 5 \in 1..9 /\ 6 \in 1..9 /\ 7 \in 1..9
        /\ 8 \in 1..9 /\ 9 \in 1..9
      OBVIOUS
  <2> QED BY <2>1, <2>2 DEF DisputeTypes
<1> QED BY <1>1, <1>4, <1>5

\* A result is approved exactly when nothing is disputed.
LEMMA ApprovedMeansUndisputed ==
    ASSUME NEW disputes, NEW holds_, \A d \in disputes : d[1] \in DisputeTypes, disputes = {} => holds_ = {}
    PROVE  ResultStatus(disputes, holds_) = "AUTO_APPROVED" <=> disputes = {}
<1>1. CASE disputes = {}
    BY <1>1 DEF ResultStatus, Ranked
<1>2. CASE disputes # {}
  <2>1. Ranked(disputes) # {} /\ Ranked(disputes) \subseteq DOMAIN Precedence
      BY <1>2, RanksOfDisputes DEF Ranked
  <2>2. Smallest(Ranked(disputes)) \in DOMAIN Precedence
      BY <2>1, RanksOfDisputes, SmallestIsAPlace
  <2>3. ResultStatus(disputes, holds_) = Precedence[Smallest(Ranked(disputes))][2]
      BY <2>1 DEF ResultStatus
  <2> QED BY <1>2, <2>2, <2>3, RanksOfDisputes
<1> QED BY <1>1, <1>2

\* Disputes are of the types that are ranked, nothing is held without one, and without one the line is
\* billed once and the cash has come in.
LEMMA DisputesAreRanked ==
    ASSUME NEW duplicate \in BOOLEAN, NEW billed, NEW shipped, NEW parcel, NEW money, NEW cash,
           cash.missing \in BOOLEAN, cash.short \in BOOLEAN, cash.late \in BOOLEAN, parcel.rto \in BOOLEAN
    PROVE  /\ \A d \in DisputesOf(duplicate, billed, shipped, parcel, money, cash) : d[1] \in DisputeTypes
           /\ DisputesOf(duplicate, billed, shipped, parcel, money, cash) = {} =>
                 /\ HoldsOf(duplicate, billed, parcel, money, cash) = {}
                 /\ ~duplicate /\ ~cash.missing /\ ~cash.short
<1>1. \A condition, type, amount : \A d \in When(condition, type, amount) : d[1] = type
    BY DEF When
<1>2. \A condition \in BOOLEAN : \A type, amount : When(condition, type, amount) = {} <=> ~condition
    BY DEF When
<1>3. \A d \in DisputesOf(duplicate, billed, shipped, parcel, money, cash) : d[1] \in DisputeTypes
    BY <1>1 DEF DisputesOf, DisputeTypes
<1>4. ASSUME DisputesOf(duplicate, billed, shipped, parcel, money, cash) = {}
      PROVE  /\ HoldsOf(duplicate, billed, parcel, money, cash) = {}
             /\ ~duplicate /\ ~cash.missing /\ ~cash.short
  <2> DEFINE returned == billed.rto > 0 /\ ~parcel.rto
             unpaid   == cash.missing \/ cash.short
  <2>1. /\ When(duplicate, "DUPLICATE_BILLING", money.amount) = {}
        /\ When(returned, "RTO_CHARGE_ISSUE", billed.rto) = {}
        /\ When(unpaid, "COD_SHORTFALL", cash.pending) = {}
        /\ When(cash.late, "COD_DELAY", cash.pending) = {}
      BY <1>4 DEF DisputesOf
  <2>2. returned \in BOOLEAN /\ unpaid \in BOOLEAN
      OBVIOUS
  <2> HIDE DEF returned, unpaid
  <2>3. ~duplicate /\ ~returned /\ ~unpaid /\ ~cash.late
      BY <1>2, <2>1, <2>2
  <2>4. ~cash.missing /\ ~cash.short
      BY <2>3 DEF unpaid
  <2>5. /\ When(duplicate, "DUPLICATE_BILLING", money.amount) = {}
        /\ When(returned, "RTO_CHARGE_ISSUE", billed.rto) = {}
        /\ When(cash.missing, "MISSING_REMITTANCE", cash.pending) = {}
        /\ When(cash.short, "COD_SHORTFALL", cash.pending) = {}
        /\ When(cash.late, "COD_DELAYED", cash.cod) = {}
      BY <1>2, <2>2, <2>3, <2>4
  <2>6. HoldsOf(duplicate, billed, parcel, money, cash) = {}
      BY <2>5 DEF HoldsOf, returned
  <2> QED BY <2>3, <2>4, <2>6
<1> QED BY <1>3, <1>4

-----------------------------------------------------------------------------
\* A result says whether it was approved by having no dispute, and is approved only for cash that came.
ResultIsSound(r, duplicate, money, in) ==
    /\ r.status = "AUTO_APPROVED" <=> r.disputes = {}
    /\ r.disputes = {} => ~duplicate
    /\ r.disputes = {} /\ r.cod > 0 =>
          \E i \in DOMAIN in.remittances :
              /\ \E o \in money : r.order = o.id /\ IsFor(in.remittances[i], o, ShipmentOf(o, in.shipments))
              /\ in.remittances[i].amount >= r.cod - Tolerance
              /\ r.payable = in.remittances[i].amount - r.charge

\* What buildMatchedResult makes of an order (reconciliation-engine.ts).
LEMMA MatchedResultIsSound ==
    ASSUME NEW order, NEW line, NEW duplicate \in BOOLEAN, NEW in,
           DOMAIN in.remittances \subseteq Nat, order.cod \in Nat,
           \A i \in DOMAIN in.remittances : in.remittances[i].amount \in Nat
    PROVE  /\ MatchedResult(order, line, duplicate, in).order = order.id
           /\ ResultIsSound(MatchedResult(order, line, duplicate, in), duplicate, {order}, in)
<1> DEFINE shipment == ShipmentOf(order, in.shipments)
           shipped  == IF shipment = Null THEN NoShipment ELSE shipment
           parcel   == Parcel(order, line, shipped, in)
           policy   == FirstOf(in.policies, {i \in DOMAIN in.policies : in.policies[i].courier = parcel.courier})
           money    == Pricing(order, parcel, line.total, in.rates)
           found    == FindRemittance(order, shipment, in.remittances)
           cash     == Cash(order, shipment, found, policy)
           disputes == DisputesOf(duplicate, line, shipped, parcel, money, cash)
           held     == HoldsOf(duplicate, line, parcel, money, cash)
           result   == MatchedResult(order, line, duplicate, in)
<1>1. result = Result(order, parcel, money, cash, disputes, held, ResultStatus(disputes, held))
    BY DEF MatchedResult, Judged
<1>2. /\ result.order = order.id /\ result.disputes = disputes /\ result.cod = cash.cod
      /\ result.status = ResultStatus(disputes, held) /\ result.charge = money.charge
      /\ result.payable = Given(cash.remitted, 0) - money.charge
  <2> HIDE DEF result, disputes, held, cash, money, parcel
  <2> QED BY <1>1 DEF Result
<1>3. parcel.rto \in BOOLEAN
    BY DEF Parcel
<1>4. /\ cash.cod = (IF order.mode = "COD" THEN order.cod ELSE 0)
      /\ cash.remitted = (IF found = Null THEN Null ELSE found.amount)
      /\ cash.missing = (cash.cod > 0 /\ cash.remitted = Null)
      /\ cash.short = (~(cash.cod > 0 /\ cash.remitted = Null)
                           /\ Positive(cash.cod - Given(cash.remitted, 0)) > Tolerance)
      /\ cash.late \in BOOLEAN
  <2> HIDE DEF found, policy, shipment
  <2> QED BY DEF Cash, Late
<1>5. /\ \A i \in DOMAIN in.remittances : in.remittances[i].amount \in Nat
      /\ found # Null => \E i \in DOMAIN in.remittances :
             found = in.remittances[i] /\ IsFor(in.remittances[i], order, shipment)
    BY RemittanceIsFound
<1> HIDE DEF shipment, parcel, policy, money, found, cash, result
<1>6. cash.missing \in BOOLEAN /\ cash.short \in BOOLEAN /\ cash.late \in BOOLEAN
    BY <1>4
<1>7. /\ \A d \in disputes : d[1] \in DisputeTypes
      /\ disputes = {} => held = {} /\ ~duplicate /\ ~cash.missing /\ ~cash.short
    BY <1>3, <1>6, DisputesAreRanked
<1> HIDE DEF disputes, held
<1>8. result.status = "AUTO_APPROVED" <=> result.disputes = {}
    BY <1>2, <1>7, ApprovedMeansUndisputed
<1>9. ASSUME result.disputes = {}, result.cod > 0
      PROVE  \E i \in DOMAIN in.remittances :
                 /\ IsFor(in.remittances[i], order, shipment)
                 /\ in.remittances[i].amount >= result.cod - Tolerance
                 /\ result.payable = in.remittances[i].amount - result.charge
  <2>1. ~cash.missing /\ ~cash.short
      BY <1>2, <1>7, <1>9
  <2>2. cash.remitted # Null /\ found # Null /\ cash.remitted = found.amount
      BY <1>2, <1>4, <1>9, <2>1
  <2>3. PICK i \in DOMAIN in.remittances : found = in.remittances[i] /\ IsFor(in.remittances[i], order, shipment)
      BY <1>5, <2>2
  <2>4. found.amount \in Nat /\ cash.cod \in Nat
      BY <1>4, <1>5, <2>3
  <2>5. Given(cash.remitted, 0) = found.amount
      BY <2>2 DEF Given
  <2>6. ~(Positive(cash.cod - found.amount) > Tolerance)
      BY <1>4, <2>1, <2>2, <2>5
  <2>7. found.amount >= cash.cod - Tolerance
      BY <2>4, <2>6 DEF Positive, Tolerance
  <2> QED BY <1>2, <2>3, <2>5, <2>7
<1>10. ResultIsSound(result, duplicate, {order}, in)
    BY <1>2, <1>7, <1>8, <1>9 DEF ResultIsSound, shipment
<1> QED BY <1>2, <1>10 DEF result

\* A table is a list of rows of any kind.
IsList(s) == s \in Seq(ToSet(s))

\* What has been imported: whole amounts.
ImportsTyped ==
    /\ IsList(lines) /\ IsList(remittances)
    /\ \A i \in DOMAIN remittances : remittances[i].amount \in Nat

\* No line of the first n but this one is for the waybill of line i.
BilledOnce(i, n) == \A j \in 1..n \ {i} : lines[i].awb = Null \/ lines[j].awb # lines[i].awb

\* The cash of an order has come, and what is to be paid out is that less the charge.
CashIsHere(r) ==
    \E m \in ToSet(remittances) :
        /\ RemittedFor(m, r.order) /\ m.amount >= r.cod - Tolerance
        /\ r.payable = m.amount - r.charge

\* A remittance the engine takes for an order's is for that order.
LEMMA RemittanceNamesItsOrder ==
    ASSUME NEW m, NEW o \in ToSet(Orders), IsFor(m, o, ShipmentOf(o, Shipments))
    PROVE  RemittedFor(m, o.id)
<1>1. CASE m.order = o.id \/ m.ext = o.ext
    BY <1>1 DEF RemittedFor
<1>2. CASE m.awb # Null /\ ShipmentOf(o, Shipments) # Null /\ ShipmentOf(o, Shipments).awb = m.awb
  <2>1. DOMAIN Shipments \subseteq Nat
      BY SettlementsAssumption
  <2> DEFINE places == {i \in DOMAIN Shipments : Shipments[i].order = o.id}
  <2>4. ShipmentOf(o, Shipments) = FirstOf(Shipments, places) /\ places \subseteq DOMAIN Shipments
      BY DEF ShipmentOf
  <2>5. \A i \in places : i \in DOMAIN Shipments /\ Shipments[i].order = o.id
      OBVIOUS
  <2> HIDE DEF places
  <2>2. PICK i \in DOMAIN Shipments : ShipmentOf(o, Shipments) = Shipments[i] /\ Shipments[i].order = o.id
      BY <1>2, <2>1, <2>4, <2>5, FoundIsAPlace
  <2>3. Shipments[i] \in ToSet(Shipments)
      BY DEF ToSet
  <2> QED BY <1>2, <2>2, <2>3 DEF RemittedFor
<1> QED BY <1>1, <1>2 DEF IsFor

\* Every result of a plan: approved without a dispute only, and then for a line that is billed once and
\* an order whose cash has come (buildReconciliationPlan).
LEMMA PlannedIsSound ==
    ASSUME ImportsTyped, NEW of \in DOMAIN Plan(Known), NEW r, r = Plan(Known)[of]
    PROVE  /\ r.status = "AUTO_APPROVED" <=> r.disputes = {}
           /\ r.disputes = {} => \E i \in DOMAIN lines : of = <<"line", i>> /\ BilledOnce(i, Len(lines))
           /\ r.disputes = {} /\ r.cod > 0 => CashIsHere(r)
<1> DEFINE in == Known
<1>1. /\ in.orders = Orders /\ in.shipments = Shipments /\ in.lines = lines /\ in.remittances = remittances
    BY DEF Known
<1>2. /\ DOMAIN remittances \subseteq Nat /\ DOMAIN Orders \subseteq Nat
      /\ DOMAIN lines = 1..Len(lines) /\ Len(lines) \in Nat
      /\ \A i \in DOMAIN remittances : remittances[i].amount \in Nat
      /\ \A i \in DOMAIN Orders : Orders[i] \in ToSet(Orders) /\ Orders[i].cod \in Nat
    BY SettlementsAssumption DEF ImportsTyped, IsList, ToSet
<1> HIDE DEF in
<1>3. ASSUME NEW o \in ToSet(Orders), NEW line, NEW duplicate \in BOOLEAN,
             NEW matched, matched = MatchedResult(o, line, duplicate, in)
      PROVE  /\ matched.status = "AUTO_APPROVED" <=> matched.disputes = {}
             /\ matched.disputes = {} => ~duplicate
             /\ matched.disputes = {} /\ matched.cod > 0 => CashIsHere(matched)
  <2>1. ResultIsSound(matched, duplicate, {o}, in)
    <3>1. o.cod \in Nat
        BY SettlementsAssumption
    <3> QED BY <1>1, <1>2, <1>3, <3>1, MatchedResultIsSound
  <2>2. ASSUME matched.disputes = {}, matched.cod > 0 PROVE CashIsHere(matched)
    <3>1. PICK i \in DOMAIN remittances :
              /\ matched.order = o.id /\ IsFor(remittances[i], o, ShipmentOf(o, Shipments))
              /\ remittances[i].amount >= matched.cod - Tolerance
              /\ matched.payable = remittances[i].amount - matched.charge
        BY <1>1, <2>1, <2>2 DEF ResultIsSound
    <3>2. remittances[i] \in ToSet(remittances)
        BY DEF ToSet
    <3> QED BY <3>1, <3>2, RemittanceNamesItsOrder DEF CashIsHere
  <2> QED BY <2>1, <2>2 DEF ResultIsSound
<1>4. \/ \E i \in DOMAIN lines : of = <<"line", i>> /\ r = LineResult(lines[i], in)
      \/ \E i \in DOMAIN Orders : r = OrderResult(Orders[i], in) /\ r.status # "AUTO_APPROVED"
    BY <1>1 DEF in, Plan, OrdersLeft
<1>5. CASE \E i \in DOMAIN lines : of = <<"line", i>> /\ r = LineResult(lines[i], in)
  <2>1. PICK i \in DOMAIN lines : of = <<"line", i>> /\ r = LineResult(lines[i], in)
      BY <1>5
  <2> DEFINE again == Duplicate(lines[i], lines)
             o     == FindOrder(lines[i], Orders, Shipments)
  <2>2. r = IF o = Null THEN UnknownResult(lines[i], again) ELSE MatchedResult(o, lines[i], again, in)
      BY <1>1, <2>1 DEF LineResult
  <2>3. again \in BOOLEAN
      BY DEF Duplicate
  <2>4. ASSUME ~again PROVE BilledOnce(i, Len(lines))
      BY <1>2, <2>4 DEF Duplicate, BilledOnce
  <2>5. o # Null => o \in ToSet(Orders)
      BY <1>2, OrderIsFound
  <2> HIDE DEF again, o
  <2>6. CASE o = Null
    <3> DEFINE disputes == {<<"UNKNOWN_AWB", lines[i].total>>}
                               \union When(again, "DUPLICATE_BILLING", lines[i].total)
    <3>1. r.disputes = disputes /\ r.status = ResultStatus(disputes, {})
        BY <2>2, <2>6 DEF UnknownResult
    <3>3. \A d \in When(again, "DUPLICATE_BILLING", lines[i].total) : d[1] = "DUPLICATE_BILLING"
        BY DEF When
    <3> DEFINE unknown == <<"UNKNOWN_AWB", lines[i].total>>
    <3>4. unknown[1] = "UNKNOWN_AWB"
        OBVIOUS
    <3>5. unknown \in disputes /\ \A d \in disputes :
              d = unknown \/ d \in When(again, "DUPLICATE_BILLING", lines[i].total)
        OBVIOUS
    <3> HIDE DEF unknown, disputes
    <3>6. \A d \in disputes : d[1] = "UNKNOWN_AWB" \/ d[1] = "DUPLICATE_BILLING"
        BY <3>3, <3>4, <3>5
    <3>2. disputes # {} /\ \A d \in disputes : d[1] \in DisputeTypes
        BY <3>5, <3>6 DEF DisputeTypes
    <3> QED BY <3>1, <3>2, ApprovedMeansUndisputed
  <2>7. CASE o # Null
    <3>1. /\ r.status = "AUTO_APPROVED" <=> r.disputes = {}
          /\ r.disputes = {} => ~again
          /\ r.disputes = {} /\ r.cod > 0 => CashIsHere(r)
        BY <1>3, <2>2, <2>3, <2>5, <2>7
    <3> QED BY <2>1, <2>4, <3>1
  <2> QED BY <2>6, <2>7
<1>6. CASE \E i \in DOMAIN Orders : r = OrderResult(Orders[i], in) /\ r.status # "AUTO_APPROVED"
  <2>1. PICK i \in DOMAIN Orders : r = OrderResult(Orders[i], in) /\ r.status # "AUTO_APPROVED"
      BY <1>6
  <2>2. r = MatchedResult(Orders[i], NoLine, FALSE, in) /\ Orders[i] \in ToSet(Orders)
      BY <1>2, <2>1 DEF OrderResult
  <2> QED BY <1>3, <2>1, <2>2
<1> QED BY <1>4, <1>5, <1>6

-----------------------------------------------------------------------------
(* Settlements: the invariant. *)

IsResult(r) == r = [plan |-> r.plan, status |-> r.status, known |-> r.known]
IsSettlement(s) == s = [payable |-> s.payable, status |-> s.status]
IsApproval(a) == a = [target |-> a.target, maker |-> a.maker, checker |-> a.checker, status |-> a.status]

\* What a settlement rests on: a line that is billed once among the first n, and cash that has come.
Backed(of, r, n) ==
    /\ \E i \in 1..n : of = <<"line", i>> /\ BilledOnce(i, n)
    /\ r.cod > 0 => CashIsHere(r)

\* The runs are counted, and a result is of one of them.
ResultsTyped ==
    /\ runs \in Nat
    /\ \A k \in DOMAIN results :
          IsResult(results[k]) /\ k[1] \in 1..runs /\ results[k].known \in 0..Len(lines)

\* There is a settlement for every result without a dispute.
SettlementsFollow ==
    /\ DOMAIN settlements = {k \in DOMAIN results : results[k].plan.disputes = {}}
    /\ \A k \in DOMAIN settlements :
          /\ IsSettlement(settlements[k]) /\ settlements[k].payable = results[k].plan.payable
          /\ Backed(k[2], results[k].plan, results[k].known)

ApprovalRow(a) ==
    /\ IsApproval(a)
    /\ a.status # "PENDING" => a.checker \notin {a.maker, Null}
    /\ a.target = [type |-> a.target.type, row |-> a.target.row]
    /\ a.target.type = "SELLER_SETTLEMENT" => a.target.row \in DOMAIN settlements
ApprovalsInv == IsList(approvals) /\ \A a \in DOMAIN approvals : ApprovalRow(approvals[a])

DecisionRow(d) ==
    /\ d.approval \in DOMAIN approvals /\ d.verdict \in {"APPROVED", "REJECTED"}
    /\ d.checker \in Users /\ d.checker # approvals[d.approval].maker
DecidingInv == \A d \in deciding : DecisionRow(d)

AuthorisedBy(a, s) ==
    /\ a.status # "PENDING" /\ a.checker \notin {a.maker, Null}
    /\ a.target = [type |-> "SELLER_SETTLEMENT", row |-> s]
Paid(s) == s \in DOMAIN settlements /\ settlements[s].status = "SETTLED" /\ results[s].status = "SETTLED"
CreditRow(e) ==
    /\ Paid(e.settlement) /\ e.amount = settlements[e.settlement].payable
    /\ e.amount > 0 /\ e.key[1] = e.settlement
    /\ e.key[2] # 0 => e.key[2] \in DOMAIN approvals /\ AuthorisedBy(approvals[e.key[2]], e.settlement)

\* What must have been credited: what is settled, and what was approved.
Settled(s) == s \in DOMAIN settlements /\ settlements[s].status = "SETTLED"
Granted(a, s) ==
    a \in DOMAIN approvals /\ approvals[a].status = "APPROVED"
        /\ approvals[a].target = [type |-> "SELLER_SETTLEMENT", row |-> s]
CreditsInv ==
    /\ IsList(wallet)
    /\ \A i \in DOMAIN wallet : CreditRow(wallet[i])
    /\ \A s : Settled(s) => \E i \in DOMAIN wallet : wallet[i].settlement = s
    /\ \A a, s : Granted(a, s) => \E i \in DOMAIN wallet : wallet[i].key = <<s, a>>

\* Everything the settlements keep true.
SettlementsInv ==
    ImportsTyped /\ ResultsTyped /\ SettlementsFollow /\ ApprovalsInv /\ DecidingInv /\ CreditsInv

-----------------------------------------------------------------------------
(* Lists, and what a step leaves of their rows. *)

LEMMA ListIsIndexed == ASSUME NEW s, IsList(s) PROVE Len(s) \in Nat /\ DOMAIN s = 1..Len(s)
BY DEF IsList

\* A list that is appended to keeps its elements.
LEMMA ListGrows ==
    ASSUME NEW s, IsList(s), NEW e
    PROVE  /\ IsList(Append(s, e)) /\ DOMAIN Append(s, e) = 1..(Len(s) + 1) /\ Len(Append(s, e)) = Len(s) + 1
           /\ \A i \in DOMAIN s : i \in DOMAIN Append(s, e) /\ Append(s, e)[i] = s[i]
           /\ \A i \in DOMAIN Append(s, e) : i \notin DOMAIN s => i = Len(s) + 1 /\ Append(s, e)[i] = e
<1> DEFINE S == ToSet(s) \union {e}
           t == Append(s, e)
<1>1. Len(s) \in Nat /\ DOMAIN s = 1..Len(s) /\ s \in Seq(S)
    BY ListIsIndexed DEF IsList
<1>2. /\ t \in Seq(S) /\ Len(t) = Len(s) + 1 /\ DOMAIN t = 1..(Len(s) + 1)
      /\ \A i \in 1..Len(s) : t[i] = s[i]
      /\ t[Len(s) + 1] = e
    BY <1>1
<1>3. t \in Seq({t[i] : i \in DOMAIN t})
    BY <1>1, <1>2
<1> QED BY <1>1, <1>2, <1>3 DEF IsList, ToSet

\* A list with one of its elements replaced.
LEMMA ListIsRewritten ==
    ASSUME NEW s, IsList(s), NEW i \in DOMAIN s, NEW e
    PROVE  /\ IsList([s EXCEPT ![i] = e]) /\ DOMAIN [s EXCEPT ![i] = e] = DOMAIN s
           /\ [s EXCEPT ![i] = e][i] = e
           /\ \A k \in DOMAIN s : k # i => [s EXCEPT ![i] = e][k] = s[k]
<1> DEFINE S == ToSet(s) \union {e}
           t == [s EXCEPT ![i] = e]
<1>1. Len(s) \in Nat /\ DOMAIN s = 1..Len(s) /\ s \in Seq(S) /\ e \in S
    BY ListIsIndexed DEF IsList
<1>2. t \in Seq(S) /\ Len(t) = Len(s)
    BY <1>1, ExceptSeq
<1>3. DOMAIN t = DOMAIN s /\ t[i] = e /\ \A k \in DOMAIN s : k # i => t[k] = s[k]
    BY <1>1
<1> HIDE DEF t
<1>4. t \in Seq({t[k] : k \in DOMAIN t})
    BY <1>1, <1>2
<1> QED BY <1>3, <1>4 DEF IsList, ToSet, t

\* What has been imported is never taken back.
MoreIsKnown ==
    /\ lines' = lines \/ \E line : lines' = Append(lines, line)
    /\ remittances' = remittances \/ \E m : remittances' = Append(remittances, m)

\* What a settlement rests on stays: lines and remittances are only added.
LEMMA BackedStays ==
    ASSUME ImportsTyped, MoreIsKnown, NEW of, NEW r, NEW n \in 0..Len(lines), Backed(of, r, n)
    PROVE  Backed(of, r, n)'
<1>1. \A i \in DOMAIN lines : i \in DOMAIN lines' /\ lines'[i] = lines[i]
    BY ListGrows DEF ImportsTyped, MoreIsKnown
<1>2. \A i \in DOMAIN remittances : i \in DOMAIN remittances' /\ remittances'[i] = remittances[i]
    BY ListGrows DEF ImportsTyped, MoreIsKnown
<1>3. 1..n \subseteq DOMAIN lines
    BY ListIsIndexed DEF ImportsTyped
<1>4. ASSUME NEW i \in 1..n, BilledOnce(i, n) PROVE BilledOnce(i, n)'
    BY <1>1, <1>3, <1>4 DEF BilledOnce
<1>5. ASSUME CashIsHere(r) PROVE CashIsHere(r)'
  <2>1. ToSet(remittances) \subseteq ToSet(remittances')
      BY <1>2 DEF ToSet
  <2> QED BY <1>5, <2>1 DEF CashIsHere, RemittedFor
<1> QED BY <1>4, <1>5 DEF Backed

\* A settlement is never taken back, and one that is paid stays paid.
PaidStays ==
    \A s \in DOMAIN settlements :
        /\ s \in DOMAIN settlements' /\ settlements'[s].payable = settlements[s].payable
        /\ Paid(s) => Paid(s)'

\* An approval stays that of its target and maker, and a decided one stays decided by somebody else.
ApprovalsStay ==
    \A a \in DOMAIN approvals :
        /\ a \in DOMAIN approvals' /\ approvals'[a].maker = approvals[a].maker
        /\ \A s : AuthorisedBy(approvals[a], s) => AuthorisedBy(approvals'[a], s)

\* A credit stays authorised: its settlement stays paid, its approval approved by somebody else.
LEMMA CreditStays ==
    ASSUME PaidStays, ApprovalsStay, NEW e, CreditRow(e)
    PROVE  CreditRow(e)'
<1>1. /\ Paid(e.settlement)' /\ e.amount = settlements'[e.settlement].payable
      /\ e.amount > 0 /\ e.key[1] = e.settlement
    BY DEF CreditRow, PaidStays, Paid
<1>2. e.key[2] # 0 => e.key[2] \in DOMAIN approvals' /\ AuthorisedBy(approvals'[e.key[2]], e.settlement)
    BY DEF CreditRow, ApprovalsStay
<1>3. AuthorisedBy(approvals[e.key[2]], e.settlement)' <=> AuthorisedBy(approvals'[e.key[2]], e.settlement)
    BY DEF AuthorisedBy
<1> QED BY <1>1, <1>2, <1>3 DEF CreditRow

\* No settlement is settled, no payment of one granted.
NothingGranted ==
    /\ \A s : Settled(s)' => Settled(s)
    /\ \A a, s : Granted(a, s)' => Granted(a, s)

\* Steps that credit nothing leave the credits authorised, if they grant nothing.
LEMMA CreditsStay ==
    ASSUME CreditsInv, PaidStays, ApprovalsStay, NothingGranted, wallet' = wallet
    PROVE  CreditsInv'
<1>1. ASSUME NEW i \in DOMAIN wallet PROVE CreditRow(wallet[i])'
  <2>1. PICK e : e = wallet[i]
      OBVIOUS
  <2>2. CreditRow(e)'
      BY <2>1, CreditStays DEF CreditsInv
  <2> QED BY <2>1, <2>2 DEF CreditRow
<1>2. /\ \A s : Settled(s)' => \E i \in DOMAIN wallet' : wallet'[i].settlement = s
      /\ \A a, s : Granted(a, s)' => \E i \in DOMAIN wallet' : wallet'[i].key = <<s, a>>
    BY DEF CreditsInv, NothingGranted
<1> QED BY <1>1, <1>2 DEF CreditsInv

\* Steps that touch no approval leave them and the decisions under way as they are.
LEMMA ApprovalsRemain ==
    ASSUME ApprovalsInv, DecidingInv, approvals' = approvals, deciding' \subseteq deciding,
           DOMAIN settlements \subseteq DOMAIN settlements'
    PROVE  ApprovalsInv' /\ DecidingInv' /\ ApprovalsStay
<1>1. ApprovalsInv'
    BY DEF ApprovalsInv, ApprovalRow
<1>2. DecidingInv'
    BY DEF DecidingInv, DecisionRow
<1>3. ApprovalsStay
    BY DEF ApprovalsStay
<1> QED BY <1>1, <1>2, <1>3

-----------------------------------------------------------------------------
(* Settlements: each action. *)

\* A step that imports no row, reconciles nothing, pays nothing and decides nothing.
LEMMA NothingOfNote ==
    ASSUME SettlementsInv, UNCHANGED <<imported, reconciled, settlements, approvals, wallet>>, deciding' \subseteq deciding
    PROVE  SettlementsInv'
<1>1. ImportsTyped' /\ ResultsTyped' /\ SettlementsFollow'
    BY DEF SettlementsInv, ImportsTyped, ResultsTyped, SettlementsFollow, Backed, BilledOnce, CashIsHere,
           RemittedFor, imported, reconciled
<1>2. ApprovalsInv' /\ DecidingInv' /\ ApprovalsStay
    BY ApprovalsRemain DEF SettlementsInv
<1>3. PaidStays /\ NothingGranted
    BY DEF PaidStays, Paid, reconciled, NothingGranted, Settled, Granted
<1> QED BY <1>1, <1>2, <1>3, CreditsStay DEF SettlementsInv

\* An import of a row that is whole.
LEMMA ImportStep ==
    ASSUME SettlementsInv, MoreIsKnown, ImportsTyped',
           UNCHANGED <<reconciled, settlements, approvals, deciding, wallet>>
    PROVE  SettlementsInv'
<1>1. Len(lines) \in Nat /\ Len(lines') \in Nat /\ Len(lines) <= Len(lines')
    BY ListIsIndexed, ListGrows DEF SettlementsInv, ImportsTyped, MoreIsKnown
<1>2. ResultsTyped'
    BY <1>1 DEF SettlementsInv, ResultsTyped, reconciled
<1>3. SettlementsFollow'
  <2>1. UNCHANGED <<runs, results, settlements>>
      BY DEF reconciled
  <2>2. ASSUME NEW k \in DOMAIN settlements PROVE Backed(k[2], results[k].plan, results[k].known)'
    <3>1. PICK of, r, n : of = k[2] /\ r = results[k].plan /\ n = results[k].known
        OBVIOUS
    <3>2. k \in DOMAIN results /\ n \in 0..Len(lines) /\ Backed(of, r, n)
        BY <3>1 DEF SettlementsInv, SettlementsFollow, ResultsTyped
    <3>3. Backed(of, r, n)'
        BY <3>2, BackedStays DEF SettlementsInv
    <3> QED BY <2>1, <3>1, <3>3 DEF Backed, CashIsHere
  <2>3. /\ DOMAIN settlements = {k \in DOMAIN results : results[k].plan.disputes = {}}
        /\ \A k \in DOMAIN settlements :
              IsSettlement(settlements[k]) /\ settlements[k].payable = results[k].plan.payable
      BY DEF SettlementsInv, SettlementsFollow
  <2> QED BY <2>1, <2>2, <2>3 DEF SettlementsFollow
<1>4. ApprovalsInv' /\ DecidingInv' /\ ApprovalsStay
    BY ApprovalsRemain DEF SettlementsInv
<1>5. PaidStays /\ NothingGranted
    BY DEF PaidStays, Paid, reconciled, NothingGranted, Settled, Granted
<1> QED BY <1>2, <1>3, <1>4, <1>5, CreditsStay DEF SettlementsInv

LEMMA LineIsImported ==
    ASSUME SettlementsInv, NEW line, ImportLine(line)
    PROVE  SettlementsInv'
<1>1. MoreIsKnown /\ ImportsTyped'
    BY ListGrows DEF ImportLine, MoreIsKnown, SettlementsInv, ImportsTyped
<1> QED BY <1>1, ImportStep DEF ImportLine

LEMMA RemittanceIsImported ==
    ASSUME SettlementsInv, NEW m \in RemittanceImports, ImportRemittance(m)
    PROVE  SettlementsInv'
<1>1. lines' = lines /\ remittances' = Append(remittances, m) /\ m.amount \in Nat
    BY SettlementsAssumption DEF ImportRemittance
<1>2. /\ IsList(remittances')
      /\ \A i \in DOMAIN remittances : remittances'[i] = remittances[i]
      /\ \A i \in DOMAIN remittances' : i \notin DOMAIN remittances => remittances'[i] = m
    BY <1>1, ListGrows DEF SettlementsInv, ImportsTyped
<1>3. MoreIsKnown /\ ImportsTyped'
    BY <1>1, <1>2 DEF MoreIsKnown, SettlementsInv, ImportsTyped
<1> QED BY <1>3, ImportStep DEF ImportRemittance

\* runReconciliation: what it makes is new, and rests on what is known (PlannedIsSound).
LEMMA RunStep ==
    ASSUME SettlementsInv, RunReconciliation
    PROVE  SettlementsInv'
<1>1. PICK plan, new :
          /\ plan = Plan(Known) /\ new = {<<runs + 1, of>> : of \in DOMAIN plan} /\ runs' = runs + 1
          /\ results' = WithResults(plan, new) /\ settlements' = WithSettlements(plan, new)
          /\ UNCHANGED <<lines, remittances, approvals, deciding, wallet>>
    BY DEF RunReconciliation, imported
<1>2. /\ runs \in Nat /\ Len(lines) \in Nat /\ DOMAIN lines = 1..Len(lines)
      /\ \A k \in DOMAIN results : k[1] \in 1..runs
    BY ListIsIndexed DEF SettlementsInv, ResultsTyped, ImportsTyped
<1>3. \A k \in new : k[1] = runs + 1 /\ k[2] \in DOMAIN plan
    BY <1>1
<1>4. new \intersect DOMAIN results = {} /\ new \intersect DOMAIN settlements = {}
    BY <1>2, <1>3 DEF SettlementsInv, SettlementsFollow
<1>5. /\ DOMAIN results' = DOMAIN results \union new
      /\ \A k \in DOMAIN results : results'[k] = results[k]
      /\ \A k \in new : results'[k] = [plan |-> plan[k[2]], status |-> plan[k[2]].status, known |-> Len(lines)]
    BY <1>1, <1>4 DEF WithResults
<1> DEFINE paid == {n \in new : plan[n[2]].status = "AUTO_APPROVED"}
<1>6. /\ DOMAIN settlements' = DOMAIN settlements \union paid
      /\ \A k \in DOMAIN settlements : settlements'[k] = settlements[k]
      /\ \A k \in paid : settlements'[k] = [payable |-> plan[k[2]].payable, status |-> "APPROVED"]
    BY <1>1, <1>4 DEF WithSettlements
<1>7. ASSUME NEW k \in new
      PROVE  LET r == plan[k[2]]
             IN  /\ r.status = "AUTO_APPROVED" <=> r.disputes = {}
                 /\ r.disputes = {} => Backed(k[2], r, Len(lines))
  <2>1. PICK of, r : of \in DOMAIN Plan(Known) /\ of = k[2] /\ r = Plan(Known)[of] /\ r = plan[k[2]]
      BY <1>1, <1>3
  <2>2. /\ r.status = "AUTO_APPROVED" <=> r.disputes = {}
        /\ r.disputes = {} => \E i \in DOMAIN lines : of = <<"line", i>> /\ BilledOnce(i, Len(lines))
        /\ r.disputes = {} /\ r.cod > 0 => CashIsHere(r)
      BY <2>1, PlannedIsSound DEF SettlementsInv
  <2> QED BY <1>2, <2>1, <2>2 DEF Backed
<1>8. ImportsTyped'
    BY <1>1 DEF SettlementsInv, ImportsTyped
<1>9. ResultsTyped'
  <2>1. ASSUME NEW k \in DOMAIN results' PROVE IsResult(results'[k]) /\ k[1] \in 1..runs' /\ results'[k].known \in 0..Len(lines')
    <3>1. CASE k \in DOMAIN results
        BY <1>1, <1>2, <1>5, <3>1 DEF SettlementsInv, ResultsTyped
    <3>2. CASE k \in new
      <4>1. PICK r, status, n : results'[k] = [plan |-> r, status |-> status, known |-> n] /\ n = Len(lines)
          BY <1>5, <3>2
      <4>2. k[1] = runs + 1 /\ runs + 1 \in 1..(runs + 1) /\ n \in 0..n
          BY <1>2, <1>3, <3>2, <4>1
      <4>3. IsResult(results'[k]) /\ results'[k].known = n
          BY <4>1 DEF IsResult
      <4> QED BY <1>1, <4>1, <4>2, <4>3
    <3> QED BY <1>5, <3>1, <3>2
  <2> QED BY <1>1, <1>2, <2>1 DEF ResultsTyped
<1>10. SettlementsFollow'
  <2>1. DOMAIN settlements' = {k \in DOMAIN results' : results'[k].plan.disputes = {}}
    <3>1. \A k \in DOMAIN results : k \in DOMAIN settlements <=> results'[k].plan.disputes = {}
        BY <1>5 DEF SettlementsInv, SettlementsFollow
    <3>2. \A k \in new : k \in paid <=> results'[k].plan.disputes = {}
        BY <1>5, <1>7
    <3>3. DOMAIN settlements \subseteq DOMAIN results /\ paid \subseteq new
        BY DEF SettlementsInv, SettlementsFollow
    <3> HIDE DEF paid
    <3> QED BY <1>4, <1>5, <1>6, <3>1, <3>2, <3>3
  <2>2. ASSUME NEW k \in DOMAIN settlements'
        PROVE  /\ IsSettlement(settlements'[k]) /\ settlements'[k].payable = results'[k].plan.payable
               /\ Backed(k[2], results'[k].plan, results'[k].known)
    <3>1. CASE k \in DOMAIN settlements
        BY <1>5, <1>6, <3>1 DEF SettlementsInv, SettlementsFollow
    <3>2. CASE k \in paid
      <4>1. settlements'[k] = [payable |-> plan[k[2]].payable, status |-> "APPROVED"]
          BY <1>6, <3>2
      <4>2. results'[k].plan = plan[k[2]] /\ results'[k].known = Len(lines)
          BY <1>5, <3>2
      <4>3. Backed(k[2], plan[k[2]], Len(lines))
          BY <1>7, <3>2
      <4> QED BY <4>1, <4>2, <4>3 DEF IsSettlement
    <3> QED BY <1>6, <2>2, <3>1, <3>2
  <2>3. \A of, r, n : Backed(of, r, n)' <=> Backed(of, r, n)
      BY <1>1 DEF Backed, BilledOnce, CashIsHere, RemittedFor
  <2>4. ASSUME NEW k \in DOMAIN settlements' PROVE Backed(k[2], results[k].plan, results[k].known)'
    <3>1. PICK of, r, n : of = k[2] /\ r = results'[k].plan /\ n = results'[k].known
        OBVIOUS
    <3>2. Backed(of, r, n)'
        BY <2>2, <2>3, <3>1
    <3> QED BY <3>1, <3>2 DEF Backed, CashIsHere
  <2> QED BY <2>1, <2>2, <2>4 DEF SettlementsFollow
<1>11. ApprovalsInv' /\ DecidingInv' /\ ApprovalsStay
  <2>1. DOMAIN settlements \subseteq DOMAIN settlements'
      BY <1>6
  <2> QED BY <1>1, <2>1, ApprovalsRemain DEF SettlementsInv
<1>12. PaidStays /\ NothingGranted
  <2>1. PaidStays
      BY <1>5, <1>6 DEF PaidStays, Paid, SettlementsInv, SettlementsFollow
  <2>2. ASSUME NEW s, Settled(s)' PROVE Settled(s)
    <3>1. CASE s \in DOMAIN settlements
      <4>1. settlements'[s] = settlements[s]
          BY <1>6, <3>1
      <4> QED BY <2>2, <3>1, <4>1 DEF Settled
    <3>2. CASE s \in paid
      <4>1. settlements'[s].status = "APPROVED"
        <5>1. PICK row : row = [payable |-> plan[s[2]].payable, status |-> "APPROVED"]
            OBVIOUS
        <5> QED BY <1>6, <3>2, <5>1
      <4> QED BY <2>2, <4>1 DEF Settled
    <3> QED BY <1>6, <2>2, <3>1, <3>2 DEF Settled
  <2>3. \A a, s : Granted(a, s)' => Granted(a, s)
      BY <1>1 DEF Granted
  <2> QED BY <2>1, <2>2, <2>3 DEF NothingGranted
<1> QED BY <1>1, <1>8, <1>9, <1>10, <1>11, <1>12, CreditsStay DEF SettlementsInv

\* A payment, directly or by an approval that is decided in the same step.
LEMMA PayOutStep ==
    ASSUME SettlementsInv, NEW key, NEW s \in DOMAIN settlements, PayOut(key, s),
           UNCHANGED <<lines, remittances, runs>>, key[2] # 0 => key[2] \in DOMAIN approvals',
           key[2] # 0 => AuthorisedBy(approvals'[key[2]], s), ApprovalsStay, key = <<s, key[2]>>,
           \A a, t : Granted(a, t)' => Granted(a, t) \/ (a = key[2] /\ t = s)
    PROVE  ImportsTyped' /\ ResultsTyped' /\ SettlementsFollow' /\ CreditsInv' /\ DOMAIN settlements' = DOMAIN settlements
<1>1. /\ settlements' = [settlements EXCEPT ![s].status = "SETTLED"]
      /\ results' = [results EXCEPT ![s].status = "SETTLED"]
      /\ wallet' = Credited(key, s) /\ settlements[s].payable > 0
    BY DEF PayOut
<1>2. /\ s \in DOMAIN results /\ DOMAIN settlements' = DOMAIN settlements /\ DOMAIN results' = DOMAIN results
      /\ \A k \in DOMAIN results : IsResult(results[k])
      /\ \A k \in DOMAIN settlements : IsSettlement(settlements[k])
    BY <1>1 DEF SettlementsInv, SettlementsFollow, ResultsTyped
<1>3. ASSUME NEW k \in DOMAIN results
      PROVE  /\ IsResult(results'[k]) /\ results'[k].plan = results[k].plan /\ results'[k].known = results[k].known
             /\ results'[k].status = IF k = s THEN "SETTLED" ELSE results[k].status
    BY <1>1, <1>2 DEF IsResult
<1>4. ASSUME NEW k \in DOMAIN settlements
      PROVE  /\ IsSettlement(settlements'[k]) /\ settlements'[k].payable = settlements[k].payable
             /\ settlements'[k].status = IF k = s THEN "SETTLED" ELSE settlements[k].status
    BY <1>1, <1>2 DEF IsSettlement
<1>5. ImportsTyped' /\ ResultsTyped'
    BY <1>2, <1>3 DEF SettlementsInv, ImportsTyped, ResultsTyped
<1>6. SettlementsFollow'
  <2>1. DOMAIN settlements' = {k \in DOMAIN results' : results'[k].plan.disputes = {}}
      BY <1>2, <1>3 DEF SettlementsInv, SettlementsFollow
  <2>2. ASSUME NEW k \in DOMAIN settlements'
        PROVE  /\ IsSettlement(settlements'[k]) /\ settlements'[k].payable = results'[k].plan.payable
               /\ Backed(k[2], results[k].plan, results[k].known)'
    <3>1. PICK of, r, n : of = k[2] /\ r = results[k].plan /\ n = results[k].known
        OBVIOUS
    <3>2. k \in DOMAIN results /\ Backed(of, r, n) /\ settlements[k].payable = r.payable
        BY <1>2, <3>1 DEF SettlementsInv, SettlementsFollow
    <3>3. Backed(of, r, n)'
        BY <3>2 DEF Backed, BilledOnce, CashIsHere, RemittedFor
    <3>4. results'[k].plan = r /\ results'[k].known = n
        BY <1>3, <3>1, <3>2
    <3> QED BY <1>2, <1>4, <3>1, <3>2, <3>3, <3>4 DEF Backed, CashIsHere
  <2> QED BY <2>1, <2>2 DEF SettlementsFollow
<1>7. PaidStays /\ Paid(s)'
  <2>1. \A k \in DOMAIN settlements : k \in DOMAIN results
      BY DEF SettlementsInv, SettlementsFollow
  <2> QED BY <1>2, <1>3, <1>4, <2>1 DEF PaidStays, Paid
<1>8. ASSUME NEW e, CreditRow(e) PROVE CreditRow(e)'
    BY <1>7, <1>8, CreditStays
<1>9. /\ IsList(wallet') /\ \A i \in DOMAIN wallet : i \in DOMAIN wallet' /\ wallet'[i] = wallet[i]
      /\ \A i \in DOMAIN wallet' : CreditRow(wallet[i])'
      /\ \E i \in DOMAIN wallet' : wallet'[i].key = key /\ wallet'[i].settlement = s
  <2>1. CASE \E e \in ToSet(wallet) : e.key = key
    <3>1. wallet' = wallet
        BY <1>1, <2>1 DEF Credited
    <3>2. PICK j \in DOMAIN wallet : wallet[j].key = key
        BY <2>1 DEF ToSet
    <3>3. wallet[j].settlement = s
      <4>1. wallet[j].key[1] = wallet[j].settlement
          BY DEF SettlementsInv, CreditsInv, CreditRow
      <4> QED BY <3>2, <4>1
    <3>4. ASSUME NEW i \in DOMAIN wallet' PROVE CreditRow(wallet[i])'
      <4>1. PICK e : e = wallet'[i] /\ CreditRow(e)
          BY <3>1 DEF SettlementsInv, CreditsInv
      <4>2. CreditRow(e)'
          BY <1>8, <4>1
      <4> QED BY <4>1, <4>2 DEF CreditRow
    <3> QED BY <3>1, <3>2, <3>3, <3>4 DEF SettlementsInv, CreditsInv
  <2>2. CASE ~ \E e \in ToSet(wallet) : e.key = key
    <3>1. PICK credit : credit = [key |-> key, settlement |-> s, amount |-> settlements[s].payable]
                            /\ wallet' = Append(wallet, credit)
        BY <1>1, <2>2 DEF Credited
    <3>2. credit.key = key /\ credit.settlement = s /\ credit.amount = settlements[s].payable
        BY <3>1
    <3>3. /\ IsList(wallet') /\ DOMAIN wallet' = 1..(Len(wallet) + 1) /\ Len(wallet) \in Nat
          /\ DOMAIN wallet = 1..Len(wallet)
          /\ \A i \in DOMAIN wallet : i \in DOMAIN wallet' /\ wallet'[i] = wallet[i]
          /\ \A i \in DOMAIN wallet' : i \notin DOMAIN wallet => i = Len(wallet) + 1 /\ wallet'[i] = credit
        BY <3>1, ListGrows, ListIsIndexed DEF SettlementsInv, CreditsInv
    <3>4. CreditRow(credit)'
      <4>1. credit.amount = settlements'[s].payable /\ credit.amount > 0
          BY <1>1, <1>4, <3>2
      <4>2. credit.key[1] = s /\ credit.key[2] = key[2]
          BY <3>2
      <4> QED BY <1>7, <3>2, <4>1, <4>2 DEF CreditRow, AuthorisedBy
    <3>5. ASSUME NEW i \in DOMAIN wallet' PROVE CreditRow(wallet[i])'
      <4>1. PICK e : e = wallet'[i]
          OBVIOUS
      <4>2. CreditRow(e)'
        <5>1. CASE i \in DOMAIN wallet
            BY <1>8, <3>3, <4>1, <5>1 DEF SettlementsInv, CreditsInv
        <5>2. CASE i \notin DOMAIN wallet
            BY <3>3, <3>4, <4>1, <5>2
        <5> QED BY <5>1, <5>2
      <4> QED BY <4>1, <4>2 DEF CreditRow
    <3>6. wallet'[Len(wallet) + 1] = credit /\ Len(wallet) + 1 \in DOMAIN wallet'
        BY <3>3
    <3> QED BY <3>2, <3>3, <3>5, <3>6
  <2> QED BY <2>1, <2>2
<1>10. ASSUME NEW t, Settled(t)' PROVE \E i \in DOMAIN wallet' : wallet'[i].settlement = t
  <2>1. CASE t = s
      BY <1>9, <2>1
  <2>2. CASE t # s
    <3>1. Settled(t)
        BY <1>2, <1>4, <1>10, <2>2 DEF Settled
    <3> QED BY <1>9, <3>1 DEF SettlementsInv, CreditsInv
  <2> QED BY <2>1, <2>2
<1>11. ASSUME NEW a, NEW t, Granted(a, t)' PROVE \E i \in DOMAIN wallet' : wallet'[i].key = <<t, a>>
  <2>1. CASE Granted(a, t)
      BY <1>9, <2>1 DEF SettlementsInv, CreditsInv
  <2>2. CASE a = key[2] /\ t = s
      BY <1>9, <2>2
  <2> QED BY <1>11, <2>1, <2>2
<1>12. CreditsInv'
    BY <1>9, <1>10, <1>11 DEF CreditsInv
<1> QED BY <1>2, <1>5, <1>6, <1>12

\* A decision is written down whether or not the approval was decided in the meantime.
LEMMA DecidedStep ==
    ASSUME ApprovalsInv, DecidingInv, NEW d \in deciding, Decided(d),
           DOMAIN settlements' = DOMAIN settlements
    PROVE  /\ ApprovalsInv' /\ DecidingInv' /\ ApprovalsStay
           /\ d.approval \in DOMAIN approvals'
           /\ \A s : approvals[d.approval].target = [type |-> "SELLER_SETTLEMENT", row |-> s]
                         => AuthorisedBy(approvals'[d.approval], s)
           /\ \A a, s : Granted(a, s)' =>
                 \/ Granted(a, s)
                 \/ a = d.approval /\ d.verdict = "APPROVED"
                       /\ approvals[a].target = [type |-> "SELLER_SETTLEMENT", row |-> s]
<1>1. PICK a, old : a = d.approval /\ old = approvals[a]
    OBVIOUS
<1>2. /\ a \in DOMAIN approvals /\ d.verdict \in {"APPROVED", "REJECTED"} /\ d.checker \in Users
      /\ d.checker # old.maker /\ IsList(approvals)
      /\ \A i \in DOMAIN approvals : ApprovalRow(approvals[i])
    BY <1>1 DEF ApprovalsInv, DecidingInv, DecisionRow
<1>3. PICK new : new = [target |-> old.target, maker |-> old.maker, checker |-> d.checker, status |-> d.verdict]
    OBVIOUS
<1>4. approvals' = [approvals EXCEPT ![a] = new]
  <2> DEFINE pending == [old EXCEPT !.status = d.verdict]
             settled == [pending EXCEPT !.checker = d.checker]
  <2>1. old = [target |-> old.target, maker |-> old.maker, checker |-> old.checker, status |-> old.status]
      BY <1>1, <1>2 DEF ApprovalRow, IsApproval
  <2>2. pending = [target |-> old.target, maker |-> old.maker, checker |-> old.checker, status |-> d.verdict]
      BY <2>1
  <2>3. settled = new
    <3> HIDE DEF pending
    <3> QED BY <1>3, <2>2
  <2>4. approvals' = [[approvals EXCEPT ![a].status = d.verdict] EXCEPT ![a].checker = d.checker]
      BY <1>1 DEF Decided
  <2>5. approvals' = [[approvals EXCEPT ![a] = pending] EXCEPT ![a].checker = d.checker]
      BY <1>1, <2>4
  <2> HIDE DEF pending
  <2>6. [approvals EXCEPT ![a] = pending][a] = pending
      BY <1>2
  <2>7. approvals' = [[approvals EXCEPT ![a] = pending] EXCEPT ![a] = settled]
      BY <2>5, <2>6
  <2> QED BY <1>2, <2>3, <2>7
<1>5. /\ IsList(approvals') /\ DOMAIN approvals' = DOMAIN approvals /\ approvals'[a] = new
      /\ \A i \in DOMAIN approvals : i # a => approvals'[i] = approvals[i]
    BY <1>2, <1>4, ListIsRewritten
<1>6. /\ IsApproval(new) /\ new.target = old.target /\ new.maker = old.maker /\ new.status # "PENDING"
      /\ new.checker \notin {new.maker, Null}
    BY <1>2, <1>3, SettlementsAssumption DEF IsApproval
<1>7. ASSUME NEW e, ApprovalRow(e) PROVE ApprovalRow(e)'
    BY <1>7 DEF ApprovalRow
<1>8. ApprovalRow(new)
    BY <1>1, <1>2, <1>6 DEF ApprovalRow
<1>9. ASSUME NEW i \in DOMAIN approvals' PROVE ApprovalRow(approvals[i])'
  <2>1. PICK e : e = approvals'[i]
      OBVIOUS
  <2>2. ApprovalRow(e)
      BY <1>2, <1>5, <1>8, <2>1
  <2>3. ApprovalRow(e)'
      BY <1>7, <2>2
  <2> QED BY <2>1, <2>3 DEF ApprovalRow
<1>10. \A i \in DOMAIN approvals : approvals'[i].maker = approvals[i].maker
    BY <1>1, <1>5, <1>6
<1>11. DecidingInv'
    BY <1>5, <1>10 DEF Decided, DecidingInv, DecisionRow
<1>12. \A s : old.target = [type |-> "SELLER_SETTLEMENT", row |-> s] => AuthorisedBy(new, s)
    BY <1>6 DEF AuthorisedBy
<1>13. ApprovalsStay
  <2>1. \A i \in DOMAIN approvals : \A s : AuthorisedBy(approvals[i], s) => AuthorisedBy(approvals'[i], s)
    <3>1. \A s : AuthorisedBy(old, s) => AuthorisedBy(new, s)
        BY <1>12 DEF AuthorisedBy
    <3> QED BY <1>1, <1>5, <3>1
  <2> QED BY <1>5, <1>10, <2>1 DEF ApprovalsStay
<1>14. ASSUME NEW i, NEW s, Granted(i, s)'
       PROVE  \/ Granted(i, s)
              \/ i = a /\ d.verdict = "APPROVED" /\ old.target = [type |-> "SELLER_SETTLEMENT", row |-> s]
  <2>1. CASE i = a
    <3>1. new.status = "APPROVED" /\ new.target = [type |-> "SELLER_SETTLEMENT", row |-> s]
        BY <1>5, <1>14, <2>1 DEF Granted
    <3> QED BY <1>3, <1>6, <2>1, <3>1
  <2>2. CASE i # a
      BY <1>5, <1>14, <2>2 DEF Granted
  <2> QED BY <2>1, <2>2
<1> QED BY <1>1, <1>2, <1>5, <1>9, <1>11, <1>12, <1>13, <1>14 DEF ApprovalsInv

LEMMA SettlementIsApproved ==
    ASSUME SettlementsInv, NEW s \in DOMAIN settlements, ApproveSettlement(s)
    PROVE  SettlementsInv'
<1>1. PICK key : key = <<s, 0>> /\ PayOut(key, s) /\ ~(key[2] # 0) /\ key = <<s, key[2]>>
    BY DEF ApproveSettlement
<1>2. UNCHANGED <<lines, remittances, runs, approvals, deciding>> /\ deciding' \subseteq deciding
    BY DEF ApproveSettlement, imported
<1>3. ApprovalsStay /\ \A a, t : Granted(a, t)' => Granted(a, t)
    BY <1>2 DEF ApprovalsStay, Granted
<1>4. /\ ImportsTyped' /\ ResultsTyped' /\ SettlementsFollow' /\ CreditsInv'
      /\ DOMAIN settlements' = DOMAIN settlements
    BY <1>1, <1>2, <1>3, PayOutStep
<1>5. ApprovalsInv' /\ DecidingInv'
    BY <1>2, <1>4, ApprovalsRemain DEF SettlementsInv
<1> QED BY <1>4, <1>5 DEF SettlementsInv

LEMMA ApprovalIsAskedFor ==
    ASSUME SettlementsInv, NEW target \in Targets, NEW maker \in Users, CreateApproval(target, maker)
    PROVE  SettlementsInv'
<1>1. PICK new : /\ new = [target |-> target, maker |-> maker, checker |-> Null, status |-> "PENDING"]
                 /\ approvals' = Append(approvals, new)
    BY DEF CreateApproval
<1>2. UNCHANGED <<lines, remittances, runs, results, settlements, deciding, wallet>>
    BY DEF CreateApproval, imported, reconciled
<1>3. /\ IsList(approvals')
      /\ \A i \in DOMAIN approvals : i \in DOMAIN approvals' /\ approvals'[i] = approvals[i]
      /\ \A i \in DOMAIN approvals' : i \notin DOMAIN approvals => approvals'[i] = new
    BY <1>1, ListGrows DEF SettlementsInv, ApprovalsInv
<1>4. ApprovalRow(new)
  <2>1. /\ target = [type |-> target.type, row |-> target.row]
        /\ target.type = "SELLER_SETTLEMENT" => target.row \in DOMAIN settlements
      BY DEF Targets
  <2> QED BY <1>1, <2>1 DEF ApprovalRow, IsApproval
<1>5. ASSUME NEW i \in DOMAIN approvals' PROVE ApprovalRow(approvals[i])'
  <2>1. PICK e : e = approvals'[i] /\ ApprovalRow(e)
      BY <1>3, <1>4 DEF SettlementsInv, ApprovalsInv
  <2>2. ApprovalRow(e)'
      BY <1>2, <2>1 DEF ApprovalRow
  <2> QED BY <2>1, <2>2 DEF ApprovalRow
<1>6. ApprovalsInv' /\ DecidingInv' /\ ApprovalsStay
    BY <1>2, <1>3, <1>5 DEF SettlementsInv, ApprovalsInv, DecidingInv, DecisionRow, ApprovalsStay
<1>7. PaidStays /\ CreditsInv'
  <2>1. PaidStays /\ NothingGranted
    <3>1. \A a, s : Granted(a, s)' => Granted(a, s)
      <4>1. new.status = "PENDING"
          BY <1>1
      <4> QED BY <1>3, <4>1 DEF Granted
    <3> QED BY <1>2, <3>1 DEF PaidStays, Paid, NothingGranted, Settled
  <2> QED BY <1>2, <1>6, <2>1, CreditsStay DEF SettlementsInv
<1>8. ImportsTyped' /\ ResultsTyped' /\ SettlementsFollow'
    BY <1>2 DEF SettlementsInv, ImportsTyped, ResultsTyped, SettlementsFollow, Backed, BilledOnce,
                CashIsHere, RemittedFor
<1> QED BY <1>6, <1>7, <1>8 DEF SettlementsInv

LEMMA DecisionIsStarted ==
    ASSUME SettlementsInv, NEW a \in DOMAIN approvals, NEW checker \in Users,
           NEW verdict \in {"APPROVED", "REJECTED"}, StartDecision(a, checker, verdict)
    PROVE  SettlementsInv'
<1>1. PICK d : /\ d = [approval |-> a, checker |-> checker, verdict |-> verdict]
               /\ deciding' = deciding \union {d}
    BY DEF StartDecision
<1>2. UNCHANGED <<lines, remittances, runs, results, settlements, approvals, wallet>>
    BY DEF StartDecision, imported, reconciled
<1>3. DecisionRow(d)
    BY <1>1 DEF StartDecision, MayDecide, DecisionRow
<1>4. DecidingInv'
    BY <1>1, <1>2, <1>3 DEF SettlementsInv, DecidingInv, DecisionRow
<1>5. ApprovalsInv' /\ ApprovalsStay
    BY <1>2 DEF SettlementsInv, ApprovalsInv, ApprovalRow, ApprovalsStay
<1>6. PaidStays /\ NothingGranted
    BY <1>2 DEF PaidStays, Paid, NothingGranted, Settled, Granted
<1>7. CreditsInv'
    BY <1>2, <1>5, <1>6, CreditsStay DEF SettlementsInv
<1>8. ImportsTyped' /\ ResultsTyped' /\ SettlementsFollow'
    BY <1>2 DEF SettlementsInv, ImportsTyped, ResultsTyped, SettlementsFollow, Backed, BilledOnce,
                CashIsHere, RemittedFor
<1> QED BY <1>4, <1>5, <1>7, <1>8 DEF SettlementsInv

\* Written, an approval or a rejection that pays nothing.
LEMMA OnlyDecided ==
    ASSUME SettlementsInv, NEW d \in deciding, Decided(d),
           d.verdict = "REJECTED" \/ approvals[d.approval].target.type = "PAYMENT_HOLD_RELEASE",
           UNCHANGED <<lines, remittances, runs, results, settlements, wallet>>
    PROVE  SettlementsInv'
<1>1. /\ ApprovalsInv' /\ DecidingInv' /\ ApprovalsStay
      /\ \A a, s : Granted(a, s)' => Granted(a, s)
  <2>1. ASSUME NEW a, NEW s PROVE ~(/\ a = d.approval /\ d.verdict = "APPROVED"
                                    /\ approvals[a].target = [type |-> "SELLER_SETTLEMENT", row |-> s])
    <3>1. [type |-> "SELLER_SETTLEMENT", row |-> s].type = "SELLER_SETTLEMENT"
        OBVIOUS
    <3> QED BY <3>1
  <2>2. DOMAIN settlements' = DOMAIN settlements
      OBVIOUS
  <2>3. ApprovalsInv /\ DecidingInv
      BY DEF SettlementsInv
  <2>4. /\ ApprovalsInv' /\ DecidingInv' /\ ApprovalsStay
        /\ \A a, s : Granted(a, s)' =>
              \/ Granted(a, s)
              \/ a = d.approval /\ d.verdict = "APPROVED"
                    /\ approvals[a].target = [type |-> "SELLER_SETTLEMENT", row |-> s]
      BY <2>2, <2>3, DecidedStep
  <2>5. ASSUME NEW a, NEW s, Granted(a, s)' PROVE Granted(a, s)
      BY <2>1, <2>4, <2>5
  <2> QED BY <2>4, <2>5
<1>2. PaidStays /\ NothingGranted
    BY <1>1 DEF PaidStays, Paid, NothingGranted, Settled
<1>3. CreditsInv'
    BY <1>1, <1>2, CreditsStay DEF SettlementsInv
<1>4. ImportsTyped' /\ ResultsTyped'
    BY DEF SettlementsInv, ImportsTyped, ResultsTyped
<1>5. SettlementsFollow'
    BY DEF SettlementsInv, SettlementsFollow, Backed, BilledOnce, CashIsHere, RemittedFor
<1> QED BY <1>1, <1>3, <1>4, <1>5 DEF SettlementsInv

LEMMA ApprovalIsCommitted ==
    ASSUME SettlementsInv, NEW d \in deciding, CommitApproval(d)
    PROVE  SettlementsInv'
<1>1. PICK target, s, a : target = approvals[d.approval].target /\ s = target.row /\ a = d.approval
    OBVIOUS
<1>2. Decided(d) /\ UNCHANGED <<lines, remittances, runs>>
    BY DEF CommitApproval, imported
<1>3. CASE target.type = "PAYMENT_HOLD_RELEASE" /\ UNCHANGED <<results, settlements, wallet>>
    BY <1>1, <1>2, <1>3, OnlyDecided
<1>4. CASE target.type = "SELLER_SETTLEMENT" /\ PayOut(<<s, a>>, s)
  <2>1. a \in DOMAIN approvals /\ target = [type |-> "SELLER_SETTLEMENT", row |-> s] /\ s \in DOMAIN settlements
      BY <1>1, <1>4 DEF SettlementsInv, ApprovalsInv, ApprovalRow, DecidingInv, DecisionRow
  <2>2. PICK key : key = <<s, a>> /\ PayOut(key, s) /\ key[2] = a /\ key = <<s, key[2]>>
      BY <1>4
  <2>3. DOMAIN settlements' = DOMAIN settlements
      BY <2>2 DEF PayOut
  <2>4. /\ ApprovalsInv' /\ DecidingInv' /\ ApprovalsStay /\ a \in DOMAIN approvals'
        /\ AuthorisedBy(approvals'[a], s)
        /\ \A i, t : Granted(i, t)' => Granted(i, t) \/ (i = a /\ t = s)
    <3>1. /\ ApprovalsInv' /\ DecidingInv' /\ ApprovalsStay /\ a \in DOMAIN approvals'
          /\ AuthorisedBy(approvals'[a], s)
          /\ \A i, t : Granted(i, t)' =>
                Granted(i, t) \/ (i = a /\ approvals[i].target = [type |-> "SELLER_SETTLEMENT", row |-> t])
        BY <1>1, <1>2, <2>1, <2>3, DecidedStep DEF SettlementsInv
    <3>2. \A t : [type |-> "SELLER_SETTLEMENT", row |-> s] = [type |-> "SELLER_SETTLEMENT", row |-> t] => t = s
        OBVIOUS
    <3> QED BY <1>1, <2>1, <3>1, <3>2
  <2>5. ImportsTyped' /\ ResultsTyped' /\ SettlementsFollow' /\ CreditsInv'
      BY <1>2, <2>1, <2>2, <2>4, PayOutStep
  <2> QED BY <2>4, <2>5 DEF SettlementsInv
<1> QED BY <1>1, <1>3, <1>4 DEF CommitApproval

\* Whatever is imported, reconciled, asked for, decided and dropped, in whatever order.
THEOREM SettlementsInvariant == SettlementsSpec => []SettlementsInv
<1>1. SettlementsInit => SettlementsInv
  <2> SUFFICES ASSUME SettlementsInit PROVE SettlementsInv
      OBVIOUS
  <2>1. IsList(<<>>)
      BY DEF IsList, ToSet
  <2>2. ImportsTyped /\ ResultsTyped
      BY <2>1 DEF SettlementsInit, ImportsTyped, ResultsTyped
  <2>3. SettlementsFollow
      BY DEF SettlementsInit, SettlementsFollow
  <2>4. ApprovalsInv /\ DecidingInv /\ CreditsInv
      BY <2>1 DEF SettlementsInit, ApprovalsInv, DecidingInv, CreditsInv, Settled, Granted
  <2> QED BY <2>2, <2>3, <2>4 DEF SettlementsInv
<1>2. SettlementsInv /\ [SettlementsNext]_settlementVars => SettlementsInv'
  <2> SUFFICES ASSUME SettlementsInv, [SettlementsNext]_settlementVars PROVE SettlementsInv'
      OBVIOUS
  <2>1. CASE \E line \in LineImports : ImportLine(line)
      BY <2>1, LineIsImported
  <2>2. CASE \E m \in RemittanceImports : ImportRemittance(m)
      BY <2>2, RemittanceIsImported
  <2>3. CASE RunReconciliation
      BY <2>3, RunStep
  <2>4. CASE RecalculatePenalties
      BY <2>4, NothingOfNote DEF RecalculatePenalties
  <2>5. CASE \E h \in DOMAIN paymentHolds : ReleaseHold(h)
      BY <2>5, NothingOfNote DEF ReleaseHold
  <2>6. CASE \E s \in DOMAIN settlements : ApproveSettlement(s)
      BY <2>6, SettlementIsApproved
  <2>7. CASE \E target \in Targets, maker \in Users : CreateApproval(target, maker)
      BY <2>7, ApprovalIsAskedFor
  <2>8. CASE \E a \in DOMAIN approvals, checker \in Users, verdict \in {"APPROVED", "REJECTED"} :
                 StartDecision(a, checker, verdict)
      BY <2>8, DecisionIsStarted
  <2>9. CASE \E d \in deciding : CommitApproval(d)
      BY <2>9, ApprovalIsCommitted
  <2>10. CASE \E d \in deciding : WriteRejection(d)
    <3>1. PICK d \in deciding : WriteRejection(d)
        BY <2>10
    <3> QED BY <3>1, OnlyDecided DEF WriteRejection, imported, reconciled
  <2>11. CASE \E d \in deciding : DropDecision(d)
    <3>1. PICK d \in deciding : DropDecision(d)
        BY <2>11
    <3> QED BY <3>1, NothingOfNote DEF DropDecision
  <2>12. CASE UNCHANGED settlementVars
      BY <2>12, NothingOfNote DEF settlementVars
  <2> QED BY <2>1, <2>2, <2>3, <2>4, <2>5, <2>6, <2>7, <2>8, <2>9, <2>10, <2>11, <2>12 DEF SettlementsNext
<1> QED BY <1>1, <1>2, PTL DEF SettlementsSpec

\* A seller is paid what the courier remitted for the order less the charge, for a line that was
\* billed once, and exactly the results without a dispute are settled (buildReconciliationPlan).
THEOREM SettledMeansFunded == SettlementsSpec => []SettlementsAreFunded
<1>1. SettlementsInv => SettlementsAreFunded
  <2> SUFFICES ASSUME SettlementsInv PROVE SettlementsAreFunded
      OBVIOUS
  <2>1. DOMAIN settlements = {k \in DOMAIN results : results[k].plan.disputes = {}}
      BY DEF SettlementsInv, SettlementsFollow
  <2>2. ASSUME NEW k \in DOMAIN settlements
        PROVE  /\ \E i \in 1..results[k].known :
                     /\ k[2] = <<"line", i>>
                     /\ \A j \in 1..results[k].known \ {i} : lines[i].awb = Null \/ lines[j].awb # lines[i].awb
               /\ results[k].plan.cod > 0 =>
                     \E m \in ToSet(remittances) :
                         /\ RemittedFor(m, results[k].plan.order)
                         /\ m.amount >= results[k].plan.cod - Tolerance
                         /\ settlements[k].payable = m.amount - results[k].plan.charge
      BY DEF SettlementsInv, SettlementsFollow, Backed, BilledOnce, CashIsHere
  <2> QED BY <2>1, <2>2 DEF SettlementsAreFunded
<1> QED BY <1>1, SettlementsInvariant, PTL

\* Whatever is settled or approved was credited, with more than nothing, and whatever was credited
\* with the key of an approval had been decided by somebody else than its maker
\* (approveFinanceApprovalRequest, approveSellerSettlement).
THEOREM CreditsWereAuthorised == SettlementsSpec => []CreditsAreAuthorised
<1>1. SettlementsInv => CreditsAreAuthorised
  <2> SUFFICES ASSUME SettlementsInv PROVE CreditsAreAuthorised
      OBVIOUS
  <2>1. ASSUME NEW s \in DOMAIN settlements, settlements[s].status = "SETTLED"
        PROVE  \E e \in ToSet(wallet) : e.settlement = s
      BY <2>1 DEF SettlementsInv, CreditsInv, Settled, ToSet
  <2>2. \A e \in ToSet(wallet) : CreditRow(e)
      BY DEF SettlementsInv, CreditsInv, ToSet
  <2>3. ASSUME NEW i \in DOMAIN approvals, approvals[i].status = "APPROVED",
               approvals[i].target.type = "SELLER_SETTLEMENT"
        PROVE  \E e \in ToSet(wallet) : e.key = <<approvals[i].target.row, i>>
    <3>1. Granted(i, approvals[i].target.row)
        BY <2>3 DEF SettlementsInv, ApprovalsInv, ApprovalRow, Granted
    <3> QED BY <3>1 DEF SettlementsInv, CreditsInv, ToSet
  <2> QED BY <2>1, <2>2, <2>3 DEF CreditsAreAuthorised, CreditRow, Paid, AuthorisedBy
<1> QED BY <1>1, SettlementsInvariant, PTL
=============================================================================
