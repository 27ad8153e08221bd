---------------------------- MODULE LedgerCommands ----------------------------
(***************************************************************************)
(* The commands of ledger.service.ts: what postEntry checks of a command,  *)
(* and what its entry does to the balances.                                *)
(***************************************************************************)
EXTENDS Integers, FiniteSetsExt

CONSTANTS
    Calls,      \* calls of postEntry; an entry is named by the call that created it
    Accounts,   \* the WalletAccount ids, numbers in the order of the database
    Command,    \* call -> [ref, hash, scope, reversalOf, postings]
    Account,    \* account -> [normalSide, scope, status]
    Null        \* no entry

ASSUME LedgerAssumption ==
    /\ Accounts \subseteq Nat
    /\ \E n \in Accounts \cup {0} : \A a \in Accounts : a <= n    \* there is a last one
    /\ Null \notin Calls

\* A command is a list of postings of whole paise to the debit or to the credit side, and an account has
\* one of these as its normal side.
ASSUME PostingsAssumption ==
    /\ \A c \in Calls :
          /\ IsFiniteSet(DOMAIN Command[c].postings)
          /\ \A i \in DOMAIN Command[c].postings :
                /\ Command[c].postings[i].amount \in Int
                /\ Command[c].postings[i].direction \in {"debit", "credit"}
    /\ \A a \in Accounts : Account[a].normalSide \in {"debit", "credit"}

-----------------------------------------------------------------------------
Postings(c) == Command[c].postings
TouchedAccounts(c) == {Postings(c)[i].account : i \in DOMAIN Postings(c)}

SameRef(c, b) == Command[c].ref = Command[b].ref
SameHash(c, b) == Command[c].hash = Command[b].hash

\* je_single_reversal_idx: two entries that reverse the same one.
SameReversal(c, b) == /\ Command[c].reversalOf # Null
                      /\ Command[c].reversalOf = Command[b].reversalOf

\* The unique indexes of journal_entries.
Clash(c, b) == SameRef(c, b) \/ SameReversal(c, b)

Total(c, direction) ==
    MapThenSumSet(LAMBDA i : Postings(c)[i].amount,
                  {i \in DOMAIN Postings(c) : Postings(c)[i].direction = direction})

\* The checks of the command alone, before any transaction.
Valid(c) ==
    /\ Cardinality(DOMAIN Postings(c)) >= 2
    /\ \A i \in DOMAIN Postings(c) : Postings(c)[i].amount > 0
    /\ Total(c, "debit") = Total(c, "credit")

\* The checks of a reversal against the entry it reverses, which has to be in the book.
ReversalAllowed(c, book) ==
    LET target == Command[c].reversalOf
    IN  target # Null => /\ target \in book
                         /\ Command[target].reversalOf = Null
                         /\ Command[target].scope = Command[c].scope

\* The checks of the accounts, whose rows no code changes.
AccountsPostable(c) ==
    \A a \in TouchedAccounts(c) : /\ a \in Accounts
                                  /\ Account[a].status = "active"
                                  /\ Account[a].scope = Command[c].scope

\* Mutant of BalanceImpact: the normal side is forgotten, debits always add.
BalanceImpactDebitAdds(posting) ==
    IF posting.direction = "debit" THEN posting.amount ELSE -posting.amount

\* balanceImpact
BalanceImpact(posting) ==
    IF posting.direction = Account[posting.account].normalSide THEN posting.amount ELSE -posting.amount

\* What an entry adds to an account: its postings to it, one upsert each.
Impact(c, a) ==
    MapThenSumSet(LAMBDA i : BalanceImpact(Postings(c)[i]),
                  {i \in DOMAIN Postings(c) : Postings(c)[i].account = a})

\* deriveBalancesFromPostings
DerivedBalance(book, a) == MapThenSumSet(LAMBDA c : Impact(c, a), book)

-----------------------------------------------------------------------------
ReplyKinds == {"NONE", "PENDING", "POSTED", "REPLAYED", "REF_CONFLICT", "REFUSED", "UNIQUE_CONFLICT",
               "FAILED"}
Replies == [kind : ReplyKinds, entry : Calls \cup {Null}]
=============================================================================
