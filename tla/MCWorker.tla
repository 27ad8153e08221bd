------------------------------ MODULE MCWorker ------------------------------
(***************************************************************************)
(* Instances of ReconciliationWorker for TLC, over the rows of MCPayments. *)
(***************************************************************************)
EXTENDS ReconciliationWorker, MCPayments, TLC

\* The proportions of the mock policy, with one unit of time for its shortest delay.
MCPolicy ==
    [approved |-> TRUE, merchant |-> "m1", approvedAt |-> 0, effectiveFrom |-> 0,
     effectiveUntil |-> 100, initialDelay |-> 1, cadence |-> 1, backoffMultiplier |-> 2,
     maxDelay |-> 2, sla |-> 2, maxAutomatedQuery |-> 3, evidenceHorizon |-> 9]

Use(state) ==
    [available |-> TRUE, sameBinding |-> TRUE, continuity |-> "PROVEN_SAME_ACCOUNT", credentialState |-> state,
     operation |-> "STATUS_QUERY"]

ActiveOrRevoked == {Use("ACTIVE"), Use("REVOKED")}

WorkerSymmetry == Permutations(Workers)

\* The mock adapter answers every status query of an attempt with the same timeout; the
\* tests also let it answer with the captured payment.
MCQueryAnswers ==
    [a1 |-> {"a1Timeout", "a1Paid"} \cap UsedObservations, b1 |-> {"b1Timeout"}]
=============================================================================
