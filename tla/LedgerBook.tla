------------------------------ MODULE LedgerBook ------------------------------
(***************************************************************************)
(* What postEntry of ledger.service.ts promises the callers: a command is  *)
(* entered in the book at once or not at all, one entry per reference, one *)
(* reversal per entry, balances that move with the entry, and an answer    *)
(* that tells the truth about the book.                                    *)
(***************************************************************************)
EXTENDS LedgerCommands

CONSTANTS
    Postable,   \* the calls whose command passes the checks of its postings and accounts
    Amounts     \* call -> account -> what the entry adds to it

VARIABLES
    posted,     \* the JournalEntry rows
    balance,    \* account -> AccountBalance.balancePaise
    reply       \* call -> what postEntry returned or threw, and the entry it names

bookVars == <<posted, balance, reply>>

-----------------------------------------------------------------------------
\* What an answer says about the book.
Truthful(c, r) ==
    CASE r.kind = "POSTED"   -> r.entry = c /\ c \in posted
      [] r.kind = "REPLAYED" -> r.entry \in posted \ {c} /\ SameRef(c, r.entry) /\ SameHash(c, r.entry)
      [] OTHER ->
            /\ r.entry = Null
            /\ CASE r.kind = "REF_CONFLICT"    -> \E b \in posted \ {c} : SameRef(c, b) /\ ~SameHash(c, b)
                 [] r.kind = "UNIQUE_CONFLICT" -> \E b \in posted \ {c} : SameReversal(c, b)
                 [] r.kind = "REFUSED"         -> c \notin posted
                 [] r.kind = "FAILED"          -> TRUE
                 [] OTHER                      -> FALSE

BookInit ==
    /\ posted = {}
    /\ balance = [a \in Accounts |-> 0]
    /\ reply = [c \in Calls |-> [kind |-> "NONE", entry |-> Null]]

Ask(c) ==
    /\ reply[c].kind = "NONE"
    /\ reply' = [reply EXCEPT ![c] = [kind |-> "PENDING", entry |-> Null]]
    /\ UNCHANGED <<posted, balance>>

Enter(c) ==
    /\ reply[c].kind = "PENDING"
    /\ \A b \in posted : ~Clash(c, b)
    /\ c \in Postable /\ ReversalAllowed(c, posted)
    /\ posted' = posted \cup {c}
    /\ balance' = [a \in Accounts |-> balance[a] + Amounts[c][a]]
    /\ UNCHANGED reply

Respond(c) ==
    /\ reply[c].kind = "PENDING"
    /\ \E r \in Replies : /\ Truthful(c, r)
                          /\ reply' = [reply EXCEPT ![c] = r]
    /\ UNCHANGED <<posted, balance>>

BookNext == \E c \in Calls : Ask(c) \/ Enter(c) \/ Respond(c)

BookSpec == BookInit /\ [][BookNext]_bookVars
=============================================================================
