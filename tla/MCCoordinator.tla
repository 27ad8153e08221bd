---------------------------- MODULE MCCoordinator ----------------------------
(***************************************************************************)
(* Instances of AttemptCoordinator for TLC: four calls, of which "a1" and  *)
(* its repetition "a1Again" share obligation and key, "b1" uses their key  *)
(* for another obligation, and "a2" competes for their obligation.         *)
(***************************************************************************)
EXTENDS AttemptCoordinator, MCPayments

Calls ==
    [a1 |-> <<"o1", "m1", "k1">>, a1Again |-> <<"o1", "m1", "k1">>, a2 |-> <<"o1", "m1", "k2">>,
     b1 |-> <<"o2", "m1", "k1">>, b2 |-> <<"o2", "m2", "k3">>]

MCCallRow == [a \in DOMAIN Calls |-> Attempt(Calls[a])]

\* What the run "calls" lets happen: calls of one merchant about two obligations, calls about an
\* obligation whose first attempt may be paid, and a call for an obligation of somebody else.
CallScenarios ==
    { [calls |-> {"a1", "a1Again", "a2", "b1"}, evidence |-> {}],
      [calls |-> {"a1", "a1Again", "a2"}, evidence |-> {"a1Paid"}],
      [calls |-> {"a1", "b2"}, evidence |-> {}] }

\* Only a further call or an observation can leave a scenario, and neither has to happen: the calls
\* under way are never held up.
InACallScenario ==
    \E s \in CallScenarios :
        {a \in AttemptIds : pc[a] # "IDLE"} \subseteq s.calls /\ observations \subseteq s.evidence
=============================================================================
