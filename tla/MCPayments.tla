----------------------------- MODULE MCPayments -----------------------------
(***************************************************************************)
(* Instances of PaymentOrchestration for TLC.  Attempts "a1", "a2" (and    *)
(* "b1", of a second obligation) are the create requests; an observation   *)
(* is described by how it differs from the perfect success of an attempt.  *)
(***************************************************************************)
EXTENDS PaymentOrchestration

CONSTANTS UsedAttempts, UsedObservations

MCNull == "null"
MCObligationIds == {AttemptRow[a].obligation : a \in UsedAttempts}
MCObligationRow ==
    [o \in {"o1", "o2"} |->
        [merchant |-> "m1", rail |-> "ONLINE", amountPaise |-> 500, currency |-> "INR"]]

\* An attempt of an obligation and a merchant under an idempotency key.
Attempt(row) ==
    [obligation |-> row[1], merchant |-> row[2], key |-> row[3], provider |-> "MOCK",
     environment |-> "TEST", binding |-> "bind1", orderRef |-> row[3], mappingVersion |-> 1,
     policy |-> TRUE]

Attempts == [a1 |-> <<"o1", "m1", "k1">>, a2 |-> <<"o1", "m1", "k2">>, b1 |-> <<"o2", "m1", "k1">>]

MCAttemptRow == [a \in DOMAIN Attempts |-> Attempt(Attempts[a])]

\* Evidence of an attempt under an event id and a body hash: the transaction it names, the
\* status and the amount.
Observation(row, attempt) ==
    [attempt |-> row[1], obligation |-> attempt[1], merchant |-> "m1",
     provider |-> "MOCK", environment |-> "TEST", binding |-> "bind1",
     bindingVerification |-> "VERIFIED", source |-> "MOCK",
     signatureVerification |-> "NOT_APPLICABLE", authority |-> "ELIGIBLE",
     event |-> row[2], bodyHash |-> row[3], orderRef |-> attempt[3], transactionRef |-> row[4],
     mappedOutcome |-> row[5], amountPaise |-> row[6], currency |-> "INR",
     mappingVersion |-> 1]

Observations ==
    [\* captures of the first attempt: the first, its later evidence, and another one
     a1Paid      |-> <<"a1", "e1", "h1", "t1", "SUCCEEDED", 500>>,
     a1PaidAgain |-> <<"a1", "e2", "h2", "t1", "SUCCEEDED", 500>>,
     a1Other     |-> <<"a1", "e3", "h3", "t2", "SUCCEEDED", 500>>,
     \* the event of the first capture again, with another body
     a1Clash     |-> <<"a1", "e1", "h9", "t1", "PENDING", 500>>,
     \* captures of the second attempt: one of its own, and one that repeats t1
     a2Paid      |-> <<"a2", "e4", "h4", "t3", "SUCCEEDED", 500>>,
     a2Same      |-> <<"a2", "e5", "h5", "t1", "SUCCEEDED", 500>>,
     \* other statuses; one without an event id
     a1Failed    |-> <<"a1", "e6", "h6", "null", "FAILED_TERMINAL", 500>>,
     a1NotFound  |-> <<"a1", "null", "h7", "null", "NOT_FOUND_TERMINAL", 500>>,
     a1Gap       |-> <<"a1", "e8", "h8", "null", "UNMAPPED", 500>>,
     a1Timeout   |-> <<"a1", "e15", "h15", "null", "UNKNOWN", 500>>,
     b1Timeout   |-> <<"b1", "e16", "h16", "null", "UNKNOWN", 500>>,
     \* a success that must not count: the amount is short
     a1Short     |-> <<"a1", "e11", "h11", "t4", "SUCCEEDED", 499>>]

MCObservationRow ==
    [c \in UsedObservations |-> Observation(Observations[c], Attempts[Observations[c][1]])]
\* What the run "evidence" lets happen to the obligation: outcomes of every kind, every order of
\* the evidence of one attempt, and captures in every combination.
Scenarios ==
    { [attempts |-> {"a1", "a2"}, evidence |-> {"a1Paid", "a1Clash", "a1Failed", "a1Gap"}],
      [attempts |-> {"a1"}, evidence |-> {"a1Paid", "a1Clash", "a1Failed", "a1NotFound", "a1Gap"}],
      [attempts |-> {"a1", "a2"},
       evidence |-> {"a1Failed", "a1Paid", "a1PaidAgain", "a2Paid", "a2Same", "a1Short"}] }
InAScenario == \E s \in Scenarios : created \subseteq s.attempts /\ observations \subseteq s.evidence
=============================================================================
