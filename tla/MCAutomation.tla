----------------------------- MODULE MCAutomation -----------------------------
(***************************************************************************)
(* Instances of Autopilot.  A behaviour is about one part of the events    *)
(* below for ever, within the bounds of the part.                          *)
(***************************************************************************)
EXTENDS Autopilot, TLC

VARIABLE part

-----------------------------------------------------------------------------
(* The events: of buyer b1, about a cart, and about the merchant.  The settings grant what they *)
(* can, so that opt-outs, counts and the order of the calls decide.                             *)
Alerts == [cod |-> "cod", settlement |-> "settlement", invoice |-> "invoice", pickup |-> "pickup", sla |-> "sla",
           scan |-> "scan", partner |-> "partnerDigest"]
Others == [r1 |-> "repeat", r2 |-> "repeat", c1 |-> "cart", n1 |-> "notice", n2 |-> "notice",
           m1 |-> "marketing", m2 |-> "marketing", d1 |-> "digest", x1 |-> "router"]

MCEvents == DOMAIN Alerts \union DOMAIN Others
MCKind == Alerts @@ Others

Granted(channels, flags) ==
    [on |-> channels, consent |-> channels, to |-> channels, ready |-> channels, optedOut |-> {}, capped |-> {},
     flags |-> flags \union {"control", "enabled"}]
Settings == Granted({"EMAIL", "WHATSAPP"}, {"subject", "due", "approved"})

\* Most alerts are refused by mail too, some of them for two reasons; a notice has no template, or no recipient.
MCSituation ==
    [e \in MCEvents |->
        CASE e = "cod" -> Granted({"EMAIL"}, {})
          [] e = "settlement" -> [Settings EXCEPT !.ready = {}]
          [] e = "invoice" -> Granted({}, {})
          [] e = "pickup" -> [Settings EXCEPT !.to = {}, !.flags = @ \union {"merchantAlerts", "courierAlerts", "ops", "urgent"}]
          [] e = "sla" -> [Settings EXCEPT !.flags = @ \union {"merchantAlerts", "finance"}]
          [] e = "scan" -> [Settings EXCEPT !.flags = @ \union {"merchantAlerts", "courierAlerts"}]
          [] e = "partner" -> [Settings EXCEPT !.to = {}]
          [] e = "n1" -> [Settings EXCEPT !.ready = {}]
          [] e = "n2" -> [Settings EXCEPT !.to = {}]
          [] OTHER -> Settings]

MCWhom ==
    [e \in MCEvents |-> IF e \in DOMAIN Alerts \union {"d1"} THEN "shop" ELSE IF e = "c1" THEN "cart" ELSE "b1"]

\* The payload of m2 names the buyer's address first, though it goes to the phone.
MCMarketingSubject == [e \in MCEvents |-> IF e = "m2" THEN "mail" ELSE "phone"]

-----------------------------------------------------------------------------
(* The parts *)
Part(events, alone, most) ==
    [events |-> events, alone |-> alone, runs |-> most[1], calls |-> most[2], retries |-> most[3], faults |-> most[4]]

Parts ==
    [busy |-> Part({"r1"}, FALSE, <<2, 2, 0, 1>>),
     single |-> Part({"r1", "r2"}, TRUE, <<3, 1, 2, 0>>),
     plain |-> Part({"m1", "d1"}, FALSE, <<3, 1, 1, 0>>),
     notices |-> Part({"n1", "m1"}, FALSE, <<1, 1, 0, 1>>),
     alerts |-> Part(DOMAIN Alerts \union {"c1", "n2", "m2", "x1"}, TRUE, <<2, 1, 1, 1>>)]

\* What a step of the part may lead to.  In two parts the events come one to a behaviour.
Within(p) ==
    LET emitted == {e \in Events : event'[e].status # "NONE"}
    IN  /\ emitted \subseteq p.events
        /\ part \in {"plain", "alerts"} => Cardinality(emitted) <= 1
        /\ p.alone => Cardinality({w \in Workers : work'[w].pc # "IDLE"}) <= 1
        /\ Len(runs') <= p.runs /\ calls' <= p.calls /\ retries' <= p.retries /\ faults' <= p.faults

\* The dispatch address is there, and a result names the recipient.
Plainly == INSTANCE Autopilot WITH Urls <- {"set"}, Recipients <- {"own"}

MCInit == part \in DOMAIN Parts /\ ApInit
MCNext ==
    /\ IF part \in {"busy", "plain"} THEN Plainly!ApNext ELSE ApNext
    /\ Within(Parts[part])
    /\ UNCHANGED part
MCSpec == MCInit /\ [][MCNext]_<<part, apVars>>

\* The callers are alike.
Alike == Permutations(Workers)
IsBusy == part = "busy"
=============================================================================
