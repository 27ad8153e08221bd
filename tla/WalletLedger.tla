----------------------------- MODULE WalletLedger -----------------------------
(***************************************************************************)
(* postEntry of ledger.service.ts, statement by statement, for calls that  *)
(* run concurrently in READ COMMITTED transactions.                        *)
(*                                                                         *)
(* A transaction looks the reference up, checks the reversal and the       *)
(* accounts, inserts the missing balance rows and locks all of them in the *)
(* order of the account ids, inserts the entry, and only then moves the    *)
(* balances.  An inserted row is locked by the transaction that inserted   *)
(* it.  Whoever meets an uncommitted row waits for its owner to end.       *)
(***************************************************************************)
EXTENDS LedgerCommands

VARIABLES
    posted,     \* the committed JournalEntry rows
    balance,    \* account -> AccountBalance.balancePaise, as committed
    pc,         \* call -> the statement it is at
    todo,       \* call -> the balance rows it has not come to yet
    rows,       \* committed AccountBalance rows
    holder,     \* account -> the transaction that inserted or locked its balance row
    inserting,  \* JournalEntry rows that are inserted and not committed
    outbox,     \* aggregateId of the WalletEventsOutbox rows
    answer      \* call -> what it returned or threw, and the entry it names

tables == <<posted, balance, rows, outbox>>
ledgerVars == <<tables, pc, todo, holder, inserting, answer>>

-----------------------------------------------------------------------------
InTransaction == {"LOOKUP", "CHECK", "ENSURE", "LOCK", "INSERT", "BALANCES"}
CallPCs == InTransaction \cup {"IDLE", "COMMITTED", "LOOKUP_AGAIN", "DONE"}

\* Mutant of NextRow: rows are taken in the order of the command's postings.
NextRowAsPosted(c) ==
    LET places(a) == {i \in DOMAIN Postings(c) : Postings(c)[i].account = a}
    IN  CHOOSE a \in todo[c] :
            \A b \in todo[c] : \E i \in places(a) : \A j \in places(b) : i <= j

\* The balance row a call comes to next: rows are inserted and locked in the order of the ids.
NextRow(c) == CHOOSE a \in todo[c] : \A b \in todo[c] : a <= b

LedgerInit ==
    /\ posted = {}
    /\ balance = [a \in Accounts |-> 0]
    /\ pc = [c \in Calls |-> "IDLE"]
    /\ todo = [c \in Calls |-> {}]
    /\ rows = {}
    /\ holder = [a \in Accounts |-> Null]
    /\ inserting = {}
    /\ outbox = {}
    /\ answer = [c \in Calls |-> [kind |-> "NONE", entry |-> Null]]

GoTo(c, place) == pc' = [pc EXCEPT ![c] = place]

\* The end of a transaction: its locks are gone, its uncommitted rows are committed or undone.
Release(c) ==
    /\ holder' = [a \in Accounts |-> IF holder[a] = c THEN Null ELSE holder[a]]
    /\ inserting' = inserting \ {c}
    /\ todo' = [todo EXCEPT ![c] = {}]

Answer(c, kind, entry) ==
    /\ GoTo(c, "DONE")
    /\ answer' = [answer EXCEPT ![c] = [kind |-> kind, entry |-> entry]]

\* Mutant of AnswerFor: the hash of the command is not compared.
AnswerForAnyCommand(c, b) == Answer(c, "REPLAYED", b)

\* existingEntryResult answers for the entry that has the reference: the same command, or another.
AnswerFor(c, b) ==
    IF SameHash(c, b) THEN Answer(c, "REPLAYED", b) ELSE Answer(c, "REF_CONFLICT", Null)

-----------------------------------------------------------------------------
Call(c) ==
    /\ pc[c] = "IDLE"
    /\ GoTo(c, "LOOKUP")
    /\ UNCHANGED <<tables, todo, holder, inserting, answer>>

\* existingEntryResult, after the checks of the command alone.
Lookup(c) ==
    /\ pc[c] = "LOOKUP"
    /\ \/ /\ ~Valid(c)
          /\ Answer(c, "REFUSED", Null)
       \/ /\ Valid(c)
          /\ \E b \in posted : SameRef(c, b) /\ AnswerFor(c, b)
       \/ /\ Valid(c)
          /\ \A b \in posted : ~SameRef(c, b)
          /\ GoTo(c, "CHECK")
          /\ UNCHANGED answer
    /\ UNCHANGED <<tables, todo, holder, inserting>>

\* The reversed entry and the accounts.
Check(c) ==
    /\ pc[c] = "CHECK"
    /\ \/ /\ AccountsPostable(c) /\ ReversalAllowed(c, posted)
          /\ GoTo(c, "ENSURE")
          /\ todo' = [todo EXCEPT ![c] = TouchedAccounts(c)]
          /\ UNCHANGED answer
       \/ /\ ~(AccountsPostable(c) /\ ReversalAllowed(c, posted))
          /\ Answer(c, "REFUSED", Null)
          /\ UNCHANGED todo
    /\ UNCHANGED <<tables, holder, inserting>>

\* INSERT ... ON CONFLICT DO NOTHING, row by row: a committed row is left alone and not locked, a
\* row that another transaction has inserted is waited for.
EnsureRow(c) ==
    /\ pc[c] = "ENSURE" /\ todo[c] # {}
    /\ LET a == NextRow(c)
       IN  /\ a \in rows \/ holder[a] = Null
           /\ holder' = IF a \in rows THEN holder ELSE [holder EXCEPT ![a] = c]
           /\ todo' = [todo EXCEPT ![c] = @ \ {a}]
    /\ UNCHANGED <<tables, pc, inserting, answer>>

RowsEnsured(c) ==
    /\ pc[c] = "ENSURE" /\ todo[c] = {}
    /\ GoTo(c, "LOCK")
    /\ todo' = [todo EXCEPT ![c] = TouchedAccounts(c)]
    /\ UNCHANGED <<tables, holder, inserting, answer>>

\* SELECT ... ORDER BY account_id FOR UPDATE, row by row.
LockRow(c) ==
    /\ pc[c] = "LOCK" /\ todo[c] # {}
    /\ LET a == NextRow(c)
       IN  /\ holder[a] \in {Null, c}
           /\ holder' = [holder EXCEPT ![a] = c]
           /\ todo' = [todo EXCEPT ![c] = @ \ {a}]
    /\ UNCHANGED <<tables, pc, inserting, answer>>

RowsLocked(c) ==
    /\ pc[c] = "LOCK" /\ todo[c] = {}
    /\ GoTo(c, "INSERT")
    /\ UNCHANGED <<tables, todo, holder, inserting, answer>>

\* journalEntry.create: waits for an uncommitted entry with the same reference or reversal, and
\* fails on a committed one.
InsertEntry(c) ==
    /\ pc[c] = "INSERT"
    /\ \A b \in inserting : ~Clash(c, b)
    /\ \/ /\ \A b \in posted : ~Clash(c, b)
          /\ inserting' = inserting \cup {c}
          /\ GoTo(c, "BALANCES")
          /\ UNCHANGED <<todo, holder>>
       \/ /\ \E b \in posted : Clash(c, b)
          /\ GoTo(c, "LOOKUP_AGAIN")
          /\ Release(c)
    /\ UNCHANGED <<tables, answer>>

\* Postings, balances and event of the entry, in rows that only this transaction can write, and the
\* commit.
CommitEntry(c) ==
    /\ pc[c] = "BALANCES"
    /\ posted' = posted \cup {c}
    /\ balance' = [a \in Accounts |-> balance[a] + Impact(c, a)]
    /\ rows' = rows \cup {a \in Accounts : holder[a] = c}
    /\ outbox' = outbox \cup {c}
    /\ GoTo(c, "COMMITTED")
    /\ Release(c)
    /\ UNCHANGED answer

Return(c) ==
    /\ pc[c] = "COMMITTED"
    /\ Answer(c, "POSTED", c)
    /\ UNCHANGED <<tables, todo, holder, inserting>>

\* Mutant of LookupAgain: the violation is rethrown at once.
LookupAgainNever(c) ==
    /\ pc[c] = "LOOKUP_AGAIN"
    /\ Answer(c, "UNIQUE_CONFLICT", Null)
    /\ UNCHANGED <<tables, todo, holder, inserting>>

\* After a unique violation the reference is looked up again in a transaction of its own; without an
\* entry the violation is rethrown.
LookupAgain(c) ==
    /\ pc[c] = "LOOKUP_AGAIN"
    /\ \/ \E b \in posted : SameRef(c, b) /\ AnswerFor(c, b)
       \/ /\ \A b \in posted : ~SameRef(c, b)
          /\ Answer(c, "UNIQUE_CONFLICT", Null)
    /\ UNCHANGED <<tables, todo, holder, inserting>>

\* The connection is lost, the interactive transaction times out or the process ends: an open
\* transaction is rolled back, a committed one is not.
Lose(c) ==
    /\ pc[c] \in InTransaction \cup {"COMMITTED", "LOOKUP_AGAIN"}
    /\ Answer(c, "FAILED", Null)
    /\ Release(c)
    /\ UNCHANGED tables

CallStep(c) ==
    \/ Lookup(c) \/ Check(c) \/ EnsureRow(c) \/ RowsEnsured(c) \/ LockRow(c) \/ RowsLocked(c)
    \/ InsertEntry(c) \/ CommitEntry(c) \/ Return(c) \/ LookupAgain(c)

LedgerNext == \E c \in Calls : Call(c) \/ CallStep(c) \/ Lose(c)

LedgerSpec == LedgerInit /\ [][LedgerNext]_ledgerVars

\* The database and the process keep going: an enabled statement is executed in the end.
FairLedgerSpec == LedgerSpec /\ \A c \in Calls : WF_ledgerVars(CallStep(c))

-----------------------------------------------------------------------------
(***************************************************************************)
(* Types; only open transactions hold balance rows and uncommitted entries *)
(* (postEntry).                                                            *)
(***************************************************************************)
LedgerTypeOK ==
    /\ posted \in SUBSET Calls
    /\ balance \in [Accounts -> Int]
    /\ answer \in [Calls -> Replies]
    /\ pc \in [Calls -> CallPCs]
    /\ todo \in [Calls -> SUBSET Accounts]
    /\ rows \in SUBSET Accounts
    /\ holder \in [Accounts -> Calls \cup {Null}]
    /\ inserting \in SUBSET Calls
    /\ outbox \in SUBSET Calls
    /\ \A a \in Accounts : holder[a] # Null => pc[holder[a]] \in {"ENSURE", "LOCK", "INSERT", "BALANCES"}
    /\ inserting = {c \in Calls : pc[c] = "BALANCES"}

(***************************************************************************)
(* Two committed entries never share a reference, and an entry is reversed *)
(* at most once, although both are looked for before the transaction has   *)
(* locked anything (postEntry, je_single_reversal_idx).                    *)
(***************************************************************************)
NoDoublePosting ==
    \A c, b \in posted : c # b => ~Clash(c, b)

(***************************************************************************)
(* The books balance: what the debit accounts hold in a scope is what the  *)
(* credit accounts hold, after any postings, reversals and failed          *)
(* transactions, and every balance is what deriveBalancesFromPostings      *)
(* derives.                                                                *)
(***************************************************************************)
TrialBalance ==
    /\ \A scope \in {Account[a].scope : a \in Accounts} :
           LET side(s) == MapThenSumSet(LAMBDA a : balance[a],
                              {a \in Accounts : Account[a].scope = scope /\ Account[a].normalSide = s})
           IN  side("debit") = side("credit")
    /\ \A a \in Accounts : balance[a] = DerivedBalance(posted, a)

\* c cannot go on before the transaction of b ends.
WaitsFor(c, b) ==
    \/ /\ pc[c] = "ENSURE" /\ todo[c] # {}
       /\ NextRow(c) \notin rows
       /\ holder[NextRow(c)] = b
    \/ /\ pc[c] = "LOCK" /\ todo[c] # {}
       /\ holder[NextRow(c)] = b /\ b # c
    \/ /\ pc[c] = "INSERT"
       /\ b \in inserting /\ Clash(c, b)

(***************************************************************************)
(* No set of transactions waits on itself: rows that are inserted or       *)
(* locked in the order of the account ids (ensureAndLockBalances), and an  *)
(* entry that is inserted after all of them, never close a circle.         *)
(***************************************************************************)
NoWaitCycle ==
    \A waiting \in (SUBSET Calls) \ {{}} : \E c \in waiting : \A b \in waiting : ~WaitsFor(c, b)

(***************************************************************************)
(* A post that loses the race for its reference answers with the winner's  *)
(* entry; a unique violation reaches the caller only for an entry that has *)
(* been reversed already, and never for one's own entry.                   *)
(***************************************************************************)
LosersKnowWhy ==
    \A c \in Calls :
        /\ answer[c].kind = "UNIQUE_CONFLICT" => \E b \in posted \ {c} : SameReversal(c, b)
        /\ answer[c].kind \in {"POSTED", "REPLAYED"} => /\ answer[c].entry \in outbox
                                                       /\ SameHash(c, answer[c].entry)

(***************************************************************************)
(* The statements of concurrent calls implement the book: an entry is      *)
(* entered at once, and what is answered is true of the book.              *)
(***************************************************************************)
Reply(c) ==
    IF pc[c] \in {"IDLE", "DONE"} THEN answer[c] ELSE [kind |-> "PENDING", entry |-> Null]

Book == INSTANCE LedgerBook WITH
            Postable <- {c \in Calls : Valid(c) /\ AccountsPostable(c)},
            Amounts <- [c \in Calls |-> [a \in Accounts |-> Impact(c, a)]],
            reply <- [c \in Calls |-> Reply(c)]
ImplementsBook == Book!BookSpec

(***************************************************************************)
(* Every post returns or fails in the end, whatever it waits for           *)
(* (postEntry in its transaction).                                         *)
(***************************************************************************)
CallsReturn == \A c \in Calls : pc[c] = "LOOKUP" ~> pc[c] = "DONE"
=============================================================================
