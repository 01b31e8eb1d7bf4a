-------------------------- MODULE MCExpertAnalysis --------------------------
(* ExpertAnalysis for TLC: part of the shipped catalog and rule registry.   *)
EXTENDS ExpertAnalysis, TLC

CONSTANTS loan, cash, kyc, handbook, registration, revenue, ubo

\* RULE-BUSINESS-REG-001, RULE-CASH-REVENUE-001 and RULE-CREDIT-UBO-001.
MCRule ==
    registration :> [scope |-> Products, operator |-> "required_document",
                     field |-> "business_registration", expected |-> 0, blocking |-> TRUE,
                     reviewable |-> FALSE, source |-> kyc, policy |-> "matches",
                     from |-> 0, to |-> MaxDay]
    @@ revenue :> [scope |-> {cash}, operator |-> "gte", field |-> "annual_revenue",
                   expected |-> 1, blocking |-> TRUE, reviewable |-> FALSE,
                   source |-> handbook, policy |-> "matches", from |-> 0, to |-> MaxDay]
    @@ ubo :> [scope |-> {loan}, operator |-> "one_of", field |-> "ubo_status",
               expected |-> {Verified, 3}, blocking |-> TRUE, reviewable |-> TRUE,
               source |-> kyc, policy |-> "matches", from |-> 0, to |-> MaxDay]

MCFields == {"annual_revenue", "ubo_status", "has_property_insurance"}
\* ubo_status: 0 refused, 1 incomplete, 2 verified, 3 complete.
MCValues ==
    [f \in MCFields |-> CASE f = "annual_revenue" -> {0, 1}
                          [] f = "ubo_status" -> {0, 3}
                          [] OTHER -> {0, 1}]

Blank == [f \in MCFields |-> Unknown]
Facts == [Blank EXCEPT !["annual_revenue"] = 1, !["ubo_status"] = Verified,
                       !["has_property_insurance"] = 0]
NoDocs == [t \in DocTypes |-> "absent"]
Registered == [NoDocs EXCEPT !["business_registration"] = "verified"]

\* A prepared customer; one whose confirmed profile covers its attributes.
MCCases ==
    {[facts |-> Facts, profile |-> Blank, docs |-> Registered],
     [facts |-> [Facts EXCEPT !["ubo_status"] = Incomplete],
      profile |-> [Blank EXCEPT !["annual_revenue"] = 0], docs |-> NoDocs]}

\* The second product is out of date after the first day.
MCUntil == [d \in Products \cup Sources |-> IF d = cash THEN 0 ELSE MaxDay]
=============================================================================
