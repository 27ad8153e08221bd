----------------------------- MODULE SellerWallet -----------------------------
(***************************************************************************)
(* The seller's wallet of wallet.service.ts: entries are appended to one   *)
(* ledger, and the balance is derived from them.  Every call is one READ   *)
(* COMMITTED transaction without locks: it looks its idempotency key up,   *)
(* reads the balance, and inserts its entry; a reversal reads the original *)
(* first and marks it at the end.  What it has inserted is seen by others  *)
(* when it commits; whoever inserts the same key waits for that.  The      *)
(* balance snapshots of an entry, which nothing computes with, are left    *)
(* out.                                                                    *)
(***************************************************************************)
EXTENDS Integers, SequencesExt, NoValue

CONSTANTS
    SellerCalls,      \* calls of credit, debit, hold, releaseHold and reverse
    SellerOp          \* call -> [direction, amount, key, target], the key of the entry it reverses

VARIABLES
    entries,    \* the SellerWalletLedger rows, in the order of createdAt
    place,      \* call -> the statement it is at
    outcome     \* call -> what it returned or threw

Directions == {"CREDIT", "DEBIT", "HOLD", "RELEASE", "REVERSAL"}
Undoes(c) == SellerOp[c].direction = "REVERSAL"

\* Callers give every reversal an idempotency key of its own: another call with that key is a
\* repetition of it.  appendLedgerEntry answers whatever it finds under a key.
ASSUME SellerAssumption ==
    \A c \in SellerCalls :
        /\ SellerOp[c].direction \in Directions /\ SellerOp[c].amount \in Nat \ {0} /\ SellerOp[c].key # Null
        /\ Undoes(c) => \A d \in SellerCalls :
              SellerOp[d].key = SellerOp[c].key => Undoes(d) /\ SellerOp[d].target = SellerOp[c].target

sellerWalletVars == <<entries, place, outcome>>

-----------------------------------------------------------------------------
\* defaultImpact: what an entry does to the current and to the hold balance.
DefaultImpact(direction, amount) ==
    CASE direction = "CREDIT"  -> [current |-> amount, hold |-> 0]
      [] direction = "DEBIT"   -> [current |-> -amount, hold |-> 0]
      [] direction = "HOLD"    -> [current |-> 0, hold |-> amount]
      [] direction = "RELEASE" -> [current |-> 0, hold |-> -amount]

Zero == [current |-> 0, hold |-> 0]

\* deriveWalletBalanceFromLedger: every entry counts, reversed ones too; the hold balance never
\* falls below 0.
Balance(ledger) ==
    FoldLeft(LAMBDA b, e : [current |-> b.current + e.impact.current,
                            hold    |-> IF b.hold + e.impact.hold > 0 THEN b.hold + e.impact.hold ELSE 0],
             Zero, ledger)

HasKey(key) == \E i \in DOMAIN entries : entries[i].key = key
PlaceOf(key) == CHOOSE i \in DOMAIN entries : entries[i].key = key

\* Mutant of ImpactOf: a reversal takes the amount away again, whatever the original did.
ImpactByDefault(c) ==
    DefaultImpact(IF Undoes(c) THEN "DEBIT" ELSE SellerOp[c].direction, SellerOp[c].amount)

\* What the entry of a call does: a reversal undoes the entry it reverses.
ImpactOf(c) ==
    IF Undoes(c)
    THEN LET original == entries[PlaceOf(SellerOp[c].target)].impact
         IN  [current |-> -original.current, hold |-> -original.hold]
    ELSE DefaultImpact(SellerOp[c].direction, SellerOp[c].amount)

SellerWalletInit ==
    /\ entries = <<>>
    /\ place = [c \in SellerCalls |-> "IDLE"]
    /\ outcome = [c \in SellerCalls |-> "NONE"]

MoveTo(c, next) == place' = [place EXCEPT ![c] = next]
EndWith(c, kind) ==
    /\ MoveTo(c, "DONE")
    /\ outcome' = [outcome EXCEPT ![c] = kind]

-----------------------------------------------------------------------------
StartCall(c) ==
    /\ place[c] = "IDLE"
    /\ MoveTo(c, IF Undoes(c) THEN "FIND_ORIGINAL" ELSE "FIND_KEY")
    /\ UNCHANGED <<entries, outcome>>

\* The original is there and has not been reversed.
MayReverse(key) == HasKey(key) /\ entries[PlaceOf(key)].reversedBy = Null

FindOriginal(c) ==
    /\ place[c] = "FIND_ORIGINAL"
    /\ \/ /\ MayReverse(SellerOp[c].target)
          /\ MoveTo(c, "FIND_KEY")
          /\ UNCHANGED outcome
       \/ /\ ~MayReverse(SellerOp[c].target)
          /\ EndWith(c, "REFUSED")
    /\ UNCHANGED entries

\* A reversal marks the original with the entry it has got.
Marked(c) ==
    [i \in DOMAIN entries |->
        IF Undoes(c) /\ entries[i].key = SellerOp[c].target
        THEN [entries[i] EXCEPT !.reversedBy = SellerOp[c].key] ELSE entries[i]]

\* With an entry for the key the call is answered; a reversal still marks its original.
FindKey(c) ==
    /\ place[c] = "FIND_KEY"
    /\ \/ /\ ~HasKey(SellerOp[c].key)
          /\ MoveTo(c, "READ_BALANCE")
          /\ UNCHANGED <<entries, outcome>>
       \/ /\ HasKey(SellerOp[c].key)
          /\ entries' = Marked(c)
          /\ EndWith(c, "REPLAYED")

\* The balance, and the two checks; a reversal may take the current balance below 0.
ReadBalance(c) ==
    /\ place[c] = "READ_BALANCE"
    /\ LET b == Balance(entries)
           covered == /\ Undoes(c) \/ b.current + ImpactOf(c).current >= 0
                      /\ b.hold + ImpactOf(c).hold >= 0
       IN  \/ /\ covered
              /\ MoveTo(c, "INSERT")
              /\ UNCHANGED outcome
           \/ /\ ~covered
              /\ EndWith(c, "REFUSED")
    /\ UNCHANGED entries

Entry(c) ==
    [key |-> SellerOp[c].key, direction |-> SellerOp[c].direction, target |-> SellerOp[c].target, impact |-> ImpactOf(c),
     reversedBy |-> Null]

\* The entry, its audit row and the mark are committed together; a key that was taken in the
\* meantime fails the whole transaction.
InsertEntry(c) ==
    /\ place[c] = "INSERT"
    /\ \/ /\ ~HasKey(SellerOp[c].key)
          /\ entries' = Append(Marked(c), Entry(c))
          /\ EndWith(c, "POSTED")
       \/ /\ HasKey(SellerOp[c].key)
          /\ EndWith(c, "FAILED")
          /\ UNCHANGED entries

\* The transaction is rolled back.
RollBack(c) ==
    /\ place[c] \notin {"IDLE", "DONE"}
    /\ EndWith(c, "FAILED")
    /\ UNCHANGED entries

SellerWalletNext ==
    \E c \in SellerCalls :
        StartCall(c) \/ FindOriginal(c) \/ FindKey(c) \/ ReadBalance(c) \/ InsertEntry(c) \/ RollBack(c)

SellerWalletSpec == SellerWalletInit /\ [][SellerWalletNext]_sellerWalletVars

-----------------------------------------------------------------------------

(***************************************************************************)
(* A key moves money once, however many calls bring it at the same time,   *)
(* and an entry marked as reversed names a reversal of it that undoes all  *)
(* it did (appendLedgerEntry, reverse).                                    *)
(***************************************************************************)
ReversedEntriesAreUndone ==
    \A i \in DOMAIN entries :
      /\ \A j \in DOMAIN entries : entries[j].key = entries[i].key => i = j
      /\ entries[i].reversedBy # Null =>
            \E j \in DOMAIN entries :
                /\ entries[j].key = entries[i].reversedBy /\ entries[j].target = entries[i].key
                /\ entries[j].impact.current = -entries[i].impact.current
                /\ entries[j].impact.hold = -entries[i].impact.hold
=============================================================================
