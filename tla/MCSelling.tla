------------------------------ MODULE MCSelling -------------------------------
(***************************************************************************)
(* Instances of CheckoutRules, of Checkout (three kinds of requests run    *)
(* side by side), of IdempotentRequests and of PlatformImports (jobs with  *)
(* posted payloads, and read-only fetches).  A behaviour is about one of   *)
(* them, its part, for ever.                                               *)
(***************************************************************************)
EXTENDS CheckoutRules, Checkout, IdempotentRequests, PlatformImports, TLC

CONSTANTS w1, w2            \* callers of the platform imports

VARIABLE part

sellingVars == <<part, rulesVars, checkoutVars, requestVars, platformVars>>

-----------------------------------------------------------------------------
(* Rules: two overlapping edits, a shopper, an ordinary set of rules and one whose bounds exceed *)
(* small carts.                                                                                  *)
Flat(value) == [type |-> "flat", value |-> value, min |-> Null, max |-> Null]
Bps(value, low, high) == [type |-> "percent_bps", value |-> value, min |-> low, max |-> high]

\* DEFAULT_CHECKOUT_RULES with every amount divided by a hundred.
MCDefaultRules ==
    [codEnabled |-> TRUE, codMin |-> 300, codMax |-> 20000, fee |-> Flat(49), waiveAbove |-> 3000,
     blocked |-> {}, partialEnabled |-> TRUE, partialMin |-> 300, advance |-> Bps(2000, 100, 500),
     waivePartialFee |-> TRUE, discount |-> Bps(500, Null, 250), risky |-> {}, forceAdvance |-> FALSE]

Strict ==
    [MCDefaultRules EXCEPT !.codMin = 0, !.partialMin = 0, !.advance = Bps(3333, 400, 300),
                           !.waivePartialFee = FALSE, !.discount = Bps(333, 350, Null),
                           !.risky = {"p1"}, !.blocked = {"p2"}, !.forceAdvance = TRUE]
MCRuleSets == {Strict}

-----------------------------------------------------------------------------
(* Checkout: the quotes are those of a cart of 1000 under ordinary rules; where there is nothing *)
(* for the fifth call to do, or for any, it never starts.                                        *)
MCCalls == 1..5

OrderRules ==
    [MCDefaultRules EXCEPT !.codMin = 0, !.codMax = Null, !.waiveAbove = Null, !.partialMin = 0,
                           !.advance = Bps(2000, Null, Null), !.waivePartialFee = FALSE,
                           !.discount = Bps(500, Null, Null)]
MCQuotes == [q \in {"q"} |-> Options(OrderRules, 1000, "p1")]

Order(mode, key) == [op |-> "order", quote |-> "q", mode |-> mode, key |-> key]
Initiation(o) == [op |-> "initiate", order |-> o]
Completion(o, outcome, key) == [op |-> "complete", order |-> o, outcome |-> outcome, key |-> key]
Transition(o, to, collected) == [op |-> "transition", order |-> o, to |-> to, collected |-> collected]
Abandonment == [op |-> "abandon"]

Lifecycle(o) == {Transition(o, to, Null) : to \in {"packed", "shipped", "cancelled", "expired", "refund_due"}}
Completions(o) == {Completion(o, outcome, key) : outcome \in {"success", "failure"}, key \in {"m", "n"}}
Due == MCQuotes["q"]["partial_cod"].payOnDelivery

\* Orders under one key or another, the second order's payment among the rest.
KeyRequests ==
    [c \in MCCalls |-> CASE c = 5 -> {Abandonment}
                         [] c = 4 -> {Completion(1, "success", "k"), Initiation(2)}
                         [] OTHER -> {Order(mode, key) : mode \in {"partial_cod", "full_cod"}, key \in {"k", "l"}}]
\* Everything that can happen to one order.
PaidRequests ==
    [c \in MCCalls |-> CASE c = 5 -> {Abandonment}
                         [] c = 1 -> {Order(mode, "k") : mode \in {"prepaid", "partial_cod", "full_cod"}}
                         [] OTHER -> {Initiation(1), Abandonment} \union Completions(1) \union Lifecycle(1)]
\* The way of a COD order to the buyer's door, with the right and a wrong amount collected.
DoorRequests ==
    [c \in MCCalls |-> IF c = 1 THEN {Order("partial_cod", "k")}
                         ELSE {Completion(1, "success", "m")}
                                  \union {Transition(1, to, Null) : to \in {"packed", "shipped", "cancelled"}}
                                  \union {Transition(1, "delivered", collected) : collected \in {1, Due}}]
NoRequests == [c \in MCCalls |-> {Abandonment}]
Started == {c \in Calls : calls'[c].at # "new"}
\* The requests about one order may be numbered as they arrive.
InTurn == \A c \in Started : c > 1 => c - 1 \in Started

Retries == INSTANCE Checkout WITH MayRequest <- KeyRequests
Paid == INSTANCE Checkout WITH MayRequest <- PaidRequests
Idle == INSTANCE Checkout WITH MayRequest <- NoRequests

-----------------------------------------------------------------------------
(* IdempotentRequests: calls with one key and different bodies, of which one does not parse, and *)
(* a call with a key of its own for the same order.                                              *)
MCPosts == {"c1", "c2", "c3", "c4", "c5"}
MCKeyOf == [x \in MCPosts |-> IF x = "c4" THEN "k2" ELSE "k1"]
MCExternalOf == [x \in MCPosts |-> CASE x = "c3" -> "y" [] x = "c5" -> Null [] OTHER -> "x"]

-----------------------------------------------------------------------------
(* PlatformImports: payloads p1 and q1 are of one order, p2 of another, and x1 does not map. *)
MCPayloads == {"p1", "q1", "p2", "x1"}
MCOrderIn == [p \in MCPayloads |-> CASE p \in {"p1", "q1"} -> "o1" [] p = "p2" -> "o2" [] OTHER -> Null]
NoPages == << <<"p1">> >>
ReadPages == << <<"x1">>, <<"x1">> >>
MCPosted == {<<"p1", "x1", "p1">>, <<"q1">>}
NonePosted == {<<>>}
ReadOnly == {"READ"}
MCEventPayload == [x \in {"h1"} |-> "p1"]
NoEvents == {}
NoPayload == <<>>
Callers == {w1, w2}

Reads == INSTANCE PlatformImports WITH
             Pages <- ReadPages, Posted <- NonePosted, JobModes <- ReadOnly, Events <- NoEvents,
             EventPayload <- NoPayload, MaxItems <- 2, MaxFaults <- 1

-----------------------------------------------------------------------------
SellingInit ==
    /\ part \in {"rules", "keys", "paid", "door", "api", "jobs", "reads"}
    /\ RulesInit /\ RequestsInit
    /\ CASE part = "keys" -> Retries!CheckoutInit
         [] part = "paid" -> Paid!CheckoutInit
         [] part = "door" -> CheckoutInit
         [] OTHER -> Idle!CheckoutInit
    /\ IF part = "reads" THEN Reads!PlatformInit ELSE PlatformInit

SellingNext ==
    \/ /\ part = "rules" /\ RulesNext
       /\ UNCHANGED <<part, checkoutVars, requestVars, platformVars>>
    \/ /\ \/ part = "keys" /\ Retries!CheckoutNext /\ 5 \notin Started
          \/ part = "paid" /\ Paid!CheckoutNext /\ 5 \notin Started /\ InTurn
          \/ part = "door" /\ CheckoutNext /\ InTurn
       /\ UNCHANGED <<part, rulesVars, requestVars, platformVars>>
    \/ /\ part = "api" /\ RequestsNext
       /\ UNCHANGED <<part, rulesVars, checkoutVars, platformVars>>
    \/ /\ \/ part = "jobs" /\ PlatformNext
          \/ part = "reads" /\ Reads!PlatformNext
       /\ UNCHANGED <<part, rulesVars, checkoutVars, requestVars>>

SellingSpec == SellingInit /\ [][SellingNext]_sellingVars

\* The callers of the platform are alike.
Alike == Permutations(Callers)
=============================================================================
