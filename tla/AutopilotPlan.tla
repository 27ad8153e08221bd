------------------------------ MODULE AutopilotPlan ------------------------------
(***************************************************************************)
(* Which channels an automation event may use.  A situation s holds what   *)
(* the plan functions read: sets of channels, and flags of the workflow.   *)
(*                                                                         *)
(*   on       the merchant has the channel on, and it is preferred         *)
(*   consent  the buyer agreed to marketing on it                          *)
(*   to       there is a recipient (of the merchant, for the alerts)       *)
(*   ready    credential, sender or approved template are there            *)
(*   optedOut checkConsent refuses the recipient                           *)
(*   capped   the frequency ledger is at the cap                           *)
(*   flags    the names below, those that hold                             *)
(***************************************************************************)
EXTENDS FiniteSets

Channels == {"EMAIL", "WHATSAPP"}

Kinds == {"cart", "repeat", "cod", "settlement", "invoice", "pickup", "sla", "scan", "partnerDigest", "notice"}

Flags == {"control",          \* marketing, finance or courier control is enabled
          "enabled",          \* the alerts of this workflow and event are enabled
          "subject",          \* the payload names the cart or the buyer
          "due",              \* the repeat window is over
          "number",           \* WhatsApp credential with a business number
          "approved",         \* its template is approved
          "merchantAlerts", "courierAlerts", "courierTo",
          "ops",              \* operations are to be told
          "finance",          \* finance is to be told of a late remittance
          "summary", "courierSummary",
          "partner",          \* the digest is for the courier partner
          "internal",         \* the internal alert of a digest is enabled
          "urgent"}           \* severity HIGH or CRITICAL

\* What a plan function may find.
Read == [on : SUBSET Channels, consent : SUBSET Channels, to : SUBSET Channels, ready : SUBSET Channels,
         optedOut : SUBSET Channels, capped : SUBSET Channels, flags : SUBSET Flags]

Skip(c, reason) == [channel |-> c, reason |-> reason]
Plan(allowed, skipped) == [allowed |-> allowed, skipped |-> skipped]
AllSkipped(reason) == Plan({}, {Skip(c, reason) : c \in Channels})
EmailPlan(allowed, skips, whatsapp) ==
    Plan(IF allowed THEN {"EMAIL"} ELSE {}, skips \union {Skip("WHATSAPP", whatsapp)})

\* The templates of alerts are never ready on WhatsApp.
WhatsappRefusal(s) == IF "WHATSAPP" \in s.on THEN "TEMPLATE_NOT_READY" ELSE "DISABLED"

-----------------------------------------------------------------------------
(* Marketing: carts that were left, buyers who bought before *)

Refusal(s, c) ==
    CASE c \notin s.on -> "DISABLED"
      [] c \in s.on \ s.consent -> "BUYER_CONSENT_MISSING"
      [] c \in (s.on \intersect s.consent) \ s.to -> "RECIPIENT_MISSING"
      [] c \in (s.on \intersect s.consent \intersect s.to) \ s.ready -> "NOT_VERIFIED"
      [] c \in s.on \intersect s.consent \intersect s.to \intersect s.ready \intersect s.optedOut -> "OPTED_OUT"
      [] OTHER -> "CAPPED"

MarketingAllowed(s) ==
    (s.on \intersect s.consent \intersect s.to \intersect s.ready) \ (s.optedOut \union s.capped)

\* masked: a WhatsApp refusal is put down to the template.
MarketingPlan(s, masked) ==
    LET Reason(c) == IF c = "WHATSAPP" /\ masked THEN "TEMPLATE_NOT_APPROVED" ELSE Refusal(s, c)
    IN  Plan(MarketingAllowed(s), {Skip(c, Reason(c)) : c \in Channels \ MarketingAllowed(s)})

CartPlan(s) ==
    CASE "subject" \notin s.flags -> AllSkipped("CART_ID_MISSING")
      [] "subject" \in s.flags /\ "control" \notin s.flags -> AllSkipped("MARKETING_DISABLED")
      [] {"subject", "control"} \subseteq s.flags /\ "enabled" \notin s.flags -> AllSkipped("WORKFLOW_DISABLED")
      [] OTHER -> MarketingPlan(s, "number" \in s.flags /\ "WHATSAPP" \notin s.ready)

RepeatPlan(s) ==
    CASE "subject" \notin s.flags -> AllSkipped("BUYER_ID_MISSING")
      [] "subject" \in s.flags /\ "control" \notin s.flags -> AllSkipped("MARKETING_DISABLED")
      [] {"subject", "control"} \subseteq s.flags /\ "enabled" \notin s.flags -> AllSkipped("WORKFLOW_DISABLED")
      [] {"subject", "control", "enabled"} \subseteq s.flags /\ "due" \notin s.flags -> AllSkipped("WINDOW_NOT_REACHED")
      [] OTHER -> MarketingPlan(s, "number" \in s.flags /\ "approved" \notin s.flags)

-----------------------------------------------------------------------------
(* Alerts to the merchant about money *)

Controlled(s, plan) ==
    CASE "control" \notin s.flags -> AllSkipped("CONTROL_DISABLED")
      [] "control" \in s.flags /\ "enabled" \notin s.flags -> AllSkipped("ALERTS_DISABLED")
      [] OTHER -> plan

\* What the three plans about money have in common: all of it, but for the names of their settings.
FinancePlan(s) ==
    LET reason == CASE "EMAIL" \notin s.on -> "DISABLED"
                    [] "EMAIL" \in s.on \ s.to -> "RECIPIENT_MISSING"
                    [] "EMAIL" \in (s.on \intersect s.to) \ s.ready -> "SENDER_NOT_READY"
                    [] "EMAIL" \in s.on \intersect s.to \intersect s.ready \intersect s.optedOut -> "OPTED_OUT"
                    [] OTHER -> "NONE"
    IN  Controlled(s, EmailPlan(reason = "NONE", {Skip("EMAIL", reason)} \ {Skip("EMAIL", "NONE")}, WhatsappRefusal(s)))
CodPlan(s) == FinancePlan(s)
SettlementPlan(s) == FinancePlan(s)
InvoicePlan(s) == FinancePlan(s)

-----------------------------------------------------------------------------
(* Alerts about couriers: merchant, courier and operations share the channel *)

MayEmail(s) == "EMAIL" \in s.on \intersect s.ready

MerchantSkips(s) ==
    CASE ~MayEmail(s) -> {}
      [] MayEmail(s) /\ "merchantAlerts" \in s.flags /\ "EMAIL" \notin s.to -> {Skip("EMAIL", "RECIPIENT_MISSING")}
      [] MayEmail(s) /\ "merchantAlerts" \in s.flags /\ "EMAIL" \in s.to \intersect s.optedOut -> {Skip("EMAIL", "OPTED_OUT")}
      [] OTHER -> {}

MerchantEmailed(s) ==
    MayEmail(s) /\ "merchantAlerts" \in s.flags /\ "EMAIL" \in s.to \ s.optedOut

CourierSkips(s) ==
    CASE ~MayEmail(s) -> {}
      [] MayEmail(s) /\ "courierAlerts" \notin s.flags -> {Skip("EMAIL", "COURIER_EMAIL_DISABLED")}
      [] MayEmail(s) /\ "courierAlerts" \in s.flags /\ "courierTo" \notin s.flags -> {Skip("EMAIL", "COURIER_RECIPIENT_MISSING")}
      [] OTHER -> {}

CourierEmailed(s) == MayEmail(s) /\ {"courierAlerts", "courierTo"} \subseteq s.flags

EmailSkips(s) ==
    CASE "EMAIL" \notin s.on -> {Skip("EMAIL", "DISABLED")}
      [] "EMAIL" \in s.on \ s.ready -> {Skip("EMAIL", "SENDER_NOT_READY")}
      [] OTHER -> {}

\* planCourierPickupDelayDispatch, and planCourierSlaBreachDispatch, which also tells finance.
CourierAlertPlan(s, toldAnyway) ==
    Controlled(s, EmailPlan(MerchantEmailed(s) \/ CourierEmailed(s) \/ (toldAnyway \intersect s.flags # {}),
                            EmailSkips(s) \union MerchantSkips(s) \union CourierSkips(s), WhatsappRefusal(s)))
PickupPlan(s) == CourierAlertPlan(s, {"ops"})
SlaPlan(s) == CourierAlertPlan(s, {"ops", "finance"})

ScanMerchantSkips(s) ==
    CASE ~MayEmail(s) \/ ({"merchantAlerts", "summary"} \subseteq s.flags /\ "EMAIL" \in s.to) -> {}
      [] MayEmail(s) /\ "merchantAlerts" \notin s.flags -> {Skip("EMAIL", "MERCHANT_EMAIL_DISABLED")}
      [] MayEmail(s) /\ "merchantAlerts" \in s.flags /\ "summary" \notin s.flags -> {Skip("EMAIL", "SUMMARY_MISSING")}
      [] OTHER -> {Skip("EMAIL", "RECIPIENT_MISSING")}

ScanCourierSkips(s) ==
    CASE ~MayEmail(s) -> {}
      [] MayEmail(s) /\ "courierAlerts" \notin s.flags -> {Skip("EMAIL", "COURIER_EMAIL_DISABLED")}
      [] MayEmail(s) /\ "courierAlerts" \in s.flags /\ {"summary", "courierSummary"} \intersect s.flags = {} -> {Skip("EMAIL", "COURIER_SUMMARY_MISSING")}
      [] MayEmail(s) /\ "courierAlerts" \in s.flags /\ {"summary", "courierSummary"} \intersect s.flags # {} /\ "courierTo" \notin s.flags
            -> {Skip("EMAIL", "COURIER_RECIPIENT_MISSING")}
      [] OTHER -> {}

\* planFakeScanReviewDispatch: no consent is asked for.
ScanPlan(s) ==
    LET merchant == MayEmail(s) /\ {"merchantAlerts", "summary"} \subseteq s.flags /\ "EMAIL" \in s.to
        courier == CourierEmailed(s) /\ {"summary", "courierSummary"} \intersect s.flags # {}
    IN  Controlled(s, EmailPlan(merchant \/ courier \/ "ops" \in s.flags,
                                EmailSkips(s) \union ScanMerchantSkips(s) \union ScanCourierSkips(s), WhatsappRefusal(s)))

\* planCourierDailyDigestDispatch: the internal alert is a reason to send of its own.
PartnerDigestPlan(s) ==
    LET internal == "internal" \in s.flags /\ "partner" \notin s.flags
        reason == CASE "EMAIL" \notin s.on /\ ~internal -> "DISABLED"
                    [] ("EMAIL" \in s.on \/ internal) /\ "EMAIL" \notin s.ready -> "SENDER_NOT_READY"
                    [] "EMAIL" \in s.on \intersect s.ready /\ "EMAIL" \notin s.to /\ ~internal -> "RECIPIENT_MISSING"
                    [] OTHER -> "NONE"
    IN  Controlled(s, EmailPlan(reason = "NONE", {Skip("EMAIL", reason)} \ {Skip("EMAIL", "NONE")}, WhatsappRefusal(s)))

\* planTransactionalWhatsappDispatch
NoticePlan(s) ==
    CASE "WHATSAPP" \notin s.to -> Plan({}, {Skip("WHATSAPP", "RECIPIENT_MISSING")})
      [] "WHATSAPP" \in s.to \ s.ready -> Plan({}, {Skip("WHATSAPP", "NOT_READY")})
      [] OTHER -> Plan({"WHATSAPP"}, {})

PlanOf(kind, s) ==
    CASE kind = "cart" -> CartPlan(s)
      [] kind = "repeat" -> RepeatPlan(s)
      [] kind = "cod" -> CodPlan(s)
      [] kind = "settlement" -> SettlementPlan(s)
      [] kind = "invoice" -> InvoicePlan(s)
      [] kind = "pickup" -> PickupPlan(s)
      [] kind = "sla" -> SlaPlan(s)
      [] kind = "scan" -> ScanPlan(s)
      [] kind = "partnerDigest" -> PartnerDigestPlan(s)
      [] kind = "notice" -> NoticePlan(s)

-----------------------------------------------------------------------------
(* Quiet hours: alerts that operations must see are not held back *)

HeldInQuietHours(kind, s) ==
    CASE kind \in {"pickup", "scan"} -> ~({"urgent", "ops"} \subseteq s.flags)
      [] kind = "sla" -> ~("urgent" \in s.flags /\ {"ops", "finance"} \intersect s.flags # {})
      [] kind = "partnerDigest" -> ~("internal" \in s.flags /\ "partner" \notin s.flags)
      [] kind = "notice" -> FALSE
      [] OTHER -> TRUE

=============================================================================
