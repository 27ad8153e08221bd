----------------------------- MODULE CheckoutRules -----------------------------
(***************************************************************************)
(* The rules of a merchant (updateRules and rollbackRules of               *)
(* checkout-admin.service.ts) and the quotes given under them (createQuote *)
(* of checkout-quote.service.ts).                                          *)
(*                                                                         *)
(* An update is one transaction in two steps, what it reads and what it    *)
(* commits: it retires the versions it sees active, adds one, and points   *)
(* the setting at it.  Two updates run side by side, and neither sees what *)
(* the other has not committed.  A quote reads setting and version at once *)
(* and is written later.  Audit rows are left out.                         *)
(***************************************************************************)
EXTENDS CheckoutQuote, Sequences, FiniteSets

CONSTANTS
    Editors,       \* the updates and rollbacks under way
    Shoppers,      \* the quote requests under way
    RuleSets,      \* the rules an administrator may send
    Carts,         \* totals of the items
    Pincodes,
    DefaultRules,  \* DEFAULT_CHECKOUT_RULES
    MaxVersions,   \* bound on the versions of a behaviour
    MaxQuotes      \* bound on its quotes

\* Rules have been parsed, DEFAULT_CHECKOUT_RULES is in the code; Null is no number.
ASSUME RulesAssumption ==
    /\ \A rules \in RuleSets \union {DefaultRules} : {rules.fee, rules.advance, rules.discount} \subseteq ChargeRule
    /\ Carts \subseteq Nat /\ Null \notin Nat

VARIABLES
    versions,      \* CheckoutRulesVersion rows, oldest first
    setting,       \* activeRulesVersionId, or Null
    edits,         \* what each editor's transaction has read, or Null
    requests,      \* what each shopper's request has read, or Null
    quotes         \* CheckoutQuote rows

rulesVars == <<versions, setting, edits, requests, quotes>>

RulesInit ==
    /\ versions = <<>> /\ setting = Null /\ quotes = {}
    /\ edits = [e \in Editors |-> Null] /\ requests = [s \in Shoppers |-> Null]

Active == {v \in DOMAIN versions : versions[v].status = "active"}

BeginEdit(e, rules) ==
    /\ edits[e] = Null
    /\ Len(versions) + Cardinality({f \in Editors : edits[f] # Null}) < MaxVersions
    /\ edits' = [edits EXCEPT ![e] = [rules |-> rules, active |-> Active]]
    /\ UNCHANGED <<versions, setting, requests, quotes>>

UpdateRules(e, rules) == ValidRules(rules) /\ BeginEdit(e, rules)

\* rollbackRules: the source is read before the transaction; its rules become a new version.
RollbackRules(e, v) == ValidRules(versions[v].rules) /\ BeginEdit(e, versions[v].rules)

\* Mutant of Retired: the active versions are retired after the new one was added.
RetiredLast(rows, seen) == [v \in DOMAIN rows |-> [rows[v] EXCEPT !.status = "retired"]]

Retired(rows, seen) ==
    [v \in DOMAIN rows |-> IF v \in seen THEN [rows[v] EXCEPT !.status = "retired"] ELSE rows[v]]

CommitEdit(e) ==
    /\ edits[e] # Null
    /\ versions' = Retired(Append(versions, [rules |-> edits[e].rules, status |-> "active"]),
                           edits[e].active)
    /\ setting' = Len(versions')
    /\ edits' = [edits EXCEPT ![e] = Null]
    /\ UNCHANGED <<requests, quotes>>

ActiveRules == IF setting = Null THEN DefaultRules ELSE versions[setting].rules

RequestQuote(s, cart, pincode) ==
    /\ requests[s] = Null /\ Cardinality(quotes) < MaxQuotes
    /\ requests' = [requests EXCEPT ![s] = [version |-> setting, rules |-> ActiveRules,
                                            cart |-> cart, pincode |-> pincode]]
    /\ UNCHANGED <<versions, setting, edits, quotes>>

CreateQuote(s) ==
    /\ requests[s] # Null
    /\ LET r == requests[s]
       IN  quotes' = quotes \union {[version |-> r.version, cart |-> r.cart, pincode |-> r.pincode,
                                     options |-> Options(r.rules, r.cart, r.pincode)]}
    /\ requests' = [requests EXCEPT ![s] = Null]
    /\ UNCHANGED <<versions, setting, edits>>

RulesNext ==
    \/ \E e \in Editors : \/ \E rules \in RuleSets : UpdateRules(e, rules)
                          \/ \E v \in DOMAIN versions : RollbackRules(e, v)
                          \/ CommitEdit(e)
    \/ \E s \in Shoppers : \/ \E cart \in Carts, pincode \in Pincodes : RequestQuote(s, cart, pincode)
                           \/ CreateQuote(s)

RulesSpec == RulesInit /\ [][RulesNext]_rulesVars

-----------------------------------------------------------------------------
\* A quote adds up in every mode, whatever bounds the rules combine: the two payments make the
\* total, the total is the cart with its fee and without its discount, and nothing is negative
\* (computeCheckoutQuote).
QuotesAddUp ==
    \A q \in quotes, mode \in Modes :
        LET o == q.options[mode]
        IN  /\ o.payNow + o.payOnDelivery = o.total
            /\ o.total = q.cart + o.fee - o.discount
            /\ o.payNow >= 0 /\ o.payOnDelivery >= 0

\* The version the setting points at is active, whichever updates and rollbacks overlap; the
\* versions they leave active besides it are not used (updateRules, rollbackRules).
SettingIsActive == setting # Null => versions[setting].status = "active"
=============================================================================
