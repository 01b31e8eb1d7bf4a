---------------------------- MODULE ExpertAnalysis ----------------------------
(* What one analysis of a case computes and what later analyses keep of it: *)
(* product retrieval, the rule engine, the credit and insurance experts,    *)
(* synthesis, evidence validation, the risk gate and the operations draft.  *)
(* A case is analysed in full on creation and on a new message, and from    *)
(* the earliest impacted node on a resume; meanwhile catalog and policy     *)
(* sources are ingested again and days pass.                                *)
(* CaseModel abstracts the outcome as a Finding; here it is computed.       *)
(* One request at a time: CaseStore and CaseService interleave them.        *)
EXTENDS Integers, Sequences, FiniteSets

CONSTANTS
    Products,       \* product ids of the catalog
    Credit,         \* those with credit_flag
    Rules,          \* rule ids of the eligibility registry
    Rule,           \* the registry: what each rule asks
    Fields,         \* customer attributes the rules and experts read
    Values,         \* the values each attribute may be given
    Correctable,    \* the fields of CONTEXT_CORRECTION_POLICIES
    ProductMatch,   \* those among them that product retrieval reads
    DocTypes,       \* document types of a case
    DocStatuses,    \* statuses of a document; "absent" for none
    Cases,          \* the facts, documents and confirmed profiles a case may bring
    Sources,        \* policy documents the rules quote
    Until,          \* last day a product sheet or policy document is in force
    Unknown,        \* an attribute without a value, a result not there yet
    TopK,           \* product_agent.analyze(top_k=3)
    MaxLoops,       \* resumes before the case fails: 3 in resume
    MaxDay,         \* bounds the days that pass
    MaxEdits,       \* bounds how often the indexes are ingested again
    MaxCalls        \* bounds the calls that reach a case

Statuses == {"passed", "failed", "pending_information", "pending_review"}

\* The values of ubo_status the code names.
Incomplete == 1
Verified == 2

\* The products retrieved, best first, each with the text quoted of it.
Recommendations == UNION {[1 .. k -> [product : Products, quote : {0, 1}]] : k \in 0 .. TopK}

ASSUME AnalysisAssumption ==
    /\ Credit \subseteq Products
    /\ "ubo_status" \in Fields /\ "ubo_information" \in DocTypes
    /\ "has_property_insurance" \in Fields
    /\ Unknown \notin Int \cup Products /\ Unknown \notin Recommendations
    /\ {TopK, MaxLoops, MaxDay, MaxEdits, MaxCalls} \subseteq Nat
    /\ \A f \in Fields : Values[f] \subseteq Int
    /\ DOMAIN Rule = Rules
    /\ \A r \in Rules :
          /\ Rule[r].scope \subseteq Products
          /\ Rule[r].blocking \in BOOLEAN /\ Rule[r].reviewable \in BOOLEAN
          /\ Rule[r].source \in Sources
    /\ ProductMatch \subseteq Correctable /\ Correctable \subseteq Fields
    /\ {"absent", "verified"} \subseteq DocStatuses
    /\ Cases # {}
    /\ Cases \subseteq [facts : [Fields -> Int \cup {Unknown}],
                         profile : [Fields -> Int \cup {Unknown}],
                         docs : [DocTypes -> DocStatuses]]
    /\ Products \cap Sources = {}

\* The registry shipped: RULE-BUSINESS-REG-001 has scope "*", blocks, and has no
\* last day.
ASSUME RegistryAssumption ==
    \A p \in Products : \A d \in 0 .. MaxDay :
        \E r \in Rules :
            Rule[r].blocking /\ p \in Rule[r].scope /\ Rule[r].from <= d /\ d <= Rule[r].to

VARIABLES
    day,            \* date.today()
    index,          \* the product and policy indexes: text and activity of each document
    case,           \* the stored case
    edits, calls    \* bounds

vars == <<day, index, case, edits, calls>>
-----------------------------------------------------------------------------
(* The rule engine.                                                         *)

\* RuleRegistry.for_product: the rules of a product in force on a day.
InForce(p, d) == {r \in Rules : p \in Rule[r].scope /\ Rule[r].from <= d /\ d <= Rule[r].to}

\* What _execute compares: a verified UBO document stands for the attribute.
Actual(r, facts, docs) ==
    IF Rule[r].field = "ubo_status" /\ docs["ubo_information"] = "verified"
    THEN Verified ELSE facts[Rule[r].field]

\* An attribute that has a value against what the rule expects of it.
Compared(r, actual) ==
    CASE Rule[r].operator \in {"gte", "lte"} ->
            IF actual >= Rule[r].expected THEN "passed" ELSE "failed"
      [] Rule[r].operator = "equals" ->
            IF actual = Rule[r].expected THEN "passed" ELSE "failed"
      [] Rule[r].operator = "one_of" ->
            IF Rule[r].field = "ubo_status" /\ actual = Incomplete THEN "pending_information"
            ELSE IF actual \in Rule[r].expected THEN "passed" ELSE "failed"
      [] OTHER -> "pending_review"

\* A rule the policy registry contradicts is left to a specialist; one it does
\* not know keeps the status computed.
Execute(r, facts, docs) ==
    IF Rule[r].policy = "diverges" THEN "pending_review"
    ELSE IF Rule[r].operator = "required_document"
    THEN IF docs[Rule[r].field] = "verified" THEN "passed" ELSE "pending_information"
    ELSE IF Actual(r, facts, docs) = Unknown THEN "pending_information"
    ELSE Compared(r, Actual(r, facts, docs))

\* Evaluations reduced to one status; warnings do not count.
Aggregate(evaluations) ==
    LET found == {e.status : e \in {x \in evaluations : Rule[x.rule].blocking}} IN
    IF "pending_review" \in found THEN "pending_review"
    ELSE IF "failed" \in found THEN "failed"
    ELSE IF "pending_information" \in found THEN "pending_information"
    ELSE "passed"

\* EligibilityEngine.evaluate: every rule in force, for every given product.
Evaluate(products, facts, docs, d) ==
    [products |-> products, at |-> d,
     rules |-> UNION {{[product |-> p, rule |-> r, status |-> Execute(r, facts, docs)] :
                          r \in InForce(p, d)} : p \in products}]

StatusOf(verdict, p) == Aggregate({e \in verdict.rules : e.product = p})

\* validate_legal_agent_output refuses a pass on any other UBO value.
LegalGuardrail(verdict, facts, docs) ==
    \A e \in verdict.rules :
        Rule[e.rule].field = "ubo_status" /\ e.status = "passed"
            => Actual(e.rule, facts, docs) = Verified
-----------------------------------------------------------------------------
(* The experts and their synthesis.                                         *)

Distinct(set, n) ==
    {s \in UNION {[1 .. k -> set] : k \in 0 .. n} :
        \A i, j \in DOMAIN s : s[i] = s[j] => i = j}

Active == {p \in Products : index[p].active}

\* ProductService.recommend: search may find any of the active products; its
\* keyword fallback, unlike the search, does not look at their dates.
Found == {[i \in DOMAIN s |-> [product |-> s[i], quote |-> index[s[i]].text]] :
             s \in Distinct(Active, TopK)}

Named(recs) == {recs[i].product : i \in DOMAIN recs}

\* The second search, for products without credit_flag, if credit may be blocked.
Alternatives(recs) ==
    IF Named(recs) \cap Credit = {} THEN {<<>>} ELSE Distinct(Active \ Credit, 2)

\* CreditReadinessService: what blocks the credit products recommended.
HardBlocks(recs, verdict) ==
    {e \in verdict.rules : /\ e.product \in Named(recs) \cap Credit
                           /\ Rule[e.rule].blocking
                           /\ e.status \in {"failed", "pending_review"}}

\* InsuranceReadinessService: credit without insured collateral.
InsuranceBlock(recs, facts) ==
    Named(recs) \cap Credit # {} /\ facts["has_property_insurance"] = 0

Blocked(recs, verdict) ==
    {p \in Named(recs) : StatusOf(verdict, p) \in {"failed", "pending_review"}}

\* Where the recommended products that passed are in the order of their score.
Accepted(recs, verdict) ==
    {i \in DOMAIN recs : StatusOf(verdict, recs[i].product) = "passed"}

\* The best of them.
Primary(recs, verdict) ==
    LET accepted == Accepted(recs, verdict)
    IN  IF accepted = {} THEN Unknown
        ELSE recs[CHOOSE i \in accepted : \A j \in accepted : i <= j].product

\* Mutant of Synthesis: the second search's products are offered unevaluated.
SynthesisUnevaluated(recs, verdict, others, facts, docs) ==
    [primary |-> Primary(recs, verdict), alternatives |-> {others[i] : i \in DOMAIN others},
     blocked |-> Blocked(recs, verdict)]
\* synthesize_expert_results: others is the second search when credit is blocked,
\* each of them evaluated on its own.  The alternatives are the first two
\* products of the rest of those accepted and of the others that passed.
Synthesis(recs, verdict, others, facts, docs) ==
    LET accepted == Accepted(recs, verdict)
        own == Evaluate({others[i] : i \in DOMAIN others}, facts, docs, day)
        list == [i \in DOMAIN recs |-> recs[i].product] \o others
        fit == {i \in DOMAIN list :
                  IF i <= Len(recs) THEN i \in accepted /\ \E j \in accepted : j < i
                  ELSE StatusOf(own, list[i]) = "passed"}
        Before(i) == {list[j] : j \in {k \in fit : k < i}}
    IN  [primary |-> Primary(recs, verdict),
         alternatives |-> {list[i] : i \in {j \in fit : Cardinality(Before(j)) < 2}},
         blocked |-> Blocked(recs, verdict)]
-----------------------------------------------------------------------------
(* Evidence and the risk gate.                                              *)

\* validate_claim: the quote against the document as it is indexed now.
Validated(document, quote) ==
    IF index[document].text # quote THEN "invalid"
    ELSE IF Until[document] < day THEN "expired_source" ELSE "valid"

Evidence(claim, validation) ==
    [claim |-> claim, valid |-> validation = "valid", reviewable |-> validation = "invalid"]

\* _product_evidence and _legal_evidence; a rule quotes its policy as shipped.
Evidences(recs, verdict) ==
    {Evidence(<<r.product>>, Validated(r.product, r.quote)) : r \in {recs[i] : i \in DOMAIN recs}}
    \cup {Evidence(<<e.product, e.rule>>, Validated(Rule[e.rule].source, 0)) : e \in verdict.rules}

\* Mutant of Gate: a verdict that passed needs no evidence.
GateRulesFirst(evidences, verdict) ==
    IF Aggregate(verdict.rules) = "passed" THEN [outcome |-> "approve", reviewable |-> FALSE]
    ELSE [outcome |-> "need_review", reviewable |-> FALSE]
\* RiskGuardrailGate.evaluate.
Gate(evidences, verdict) ==
    LET invalid == {e \in evidences : ~e.valid}
        overall == Aggregate(verdict.rules)
        failed == {e \in verdict.rules : Rule[e.rule].blocking /\ e.status = "failed"}
        Decision(outcome, reviewable) == [outcome |-> outcome, reviewable |-> reviewable]
    IN  IF invalid # {} THEN Decision("need_review", \A e \in invalid : e.reviewable)
        ELSE CASE overall = "passed" -> Decision("approve", FALSE)
               [] overall = "pending_information" -> Decision("need_information", FALSE)
               [] overall = "failed" ->
                     Decision("need_review", failed # {} /\ \A e \in failed : Rule[e.rule].reviewable)
               [] OTHER -> Decision("need_review", TRUE)

StatusAfter(gate) ==
    CASE gate.outcome = "approve" -> "pending_approval"
      [] gate.outcome = "need_information" -> "pending_information"
      [] OTHER -> "pending_review"

\* Mutant of Questions: only documents are asked for.
QuestionsDocuments(verdict) ==
    {Rule[e.rule].field : e \in {x \in verdict.rules : x.status = "pending_information"}} \cap DocTypes
\* NextBestService.build: what the RM is asked for.
Questions(verdict) ==
    {Rule[e.rule].field : e \in {x \in verdict.rules : x.status = "pending_information"}}

\* OperationsService.prepare: the approval draft is ready, or it is blocked.
Readiness(verdict) ==
    IF Aggregate(verdict.rules) = "passed" THEN "ready_for_rm_approval" ELSE "blocked"
-----------------------------------------------------------------------------
(* One analysis.                                                            *)

\* The confirmed profile covers the attributes of the customer.
Effective(c) == [f \in Fields |-> IF c.profile[f] # Unknown THEN c.profile[f] ELSE c.facts[f]]

NewCase(brought) ==
    [status |-> "new", loops |-> 0, facts |-> brought.facts, profile |-> brought.profile,
     docs |-> brought.docs, recs |-> Unknown, verdict |-> Unknown, credit |-> Unknown,
     insurance |-> Unknown, synthesis |-> Unknown, evidences |-> {}, gate |-> Unknown,
     cleared |-> FALSE, questions |-> {}, readiness |-> Unknown, skipped |-> FALSE]

\* The product node keeps an earlier result unless the analysis starts at it.
Retrieved(c, start) == IF start > 0 /\ c.recs # Unknown THEN {c.recs} ELSE Found

\* Mutant of Kept: the nodes after retrieval are kept on a resume at evaluation.
KeptAtEvaluation(c, start) == start > 0 /\ c.verdict # Unknown
\* Mutant of Kept: whatever the analysis starts at.
KeptAlways(c, start) == c.verdict # Unknown
\* The eligibility, credit and insurance nodes keep theirs when it starts later.
Kept(c, start) == start > 1 /\ c.verdict # Unknown

\* _apply_risk_gate, and where the decision takes the case.
Gated(c, evidences) ==
    LET gate == Gate(evidences, c.verdict)
    IN [c EXCEPT !.evidences = evidences, !.gate = gate, !.cleared = FALSE,
                 !.status = StatusAfter(gate)]

\* _analysis from node start of the coordinator's list, with the products
\* retrieved and those a second search would return. Without a product the
\* case goes to review with the gate decision, evidence and draft it had.
Analysed(c, start, recs, others) ==
    LET facts == Effective(c)
        kept == Kept(c, start)
        verdict == IF kept THEN c.verdict ELSE Evaluate(Named(recs), facts, c.docs, day)
        credit == IF kept THEN c.credit ELSE HardBlocks(recs, verdict)
        insurance == IF kept THEN c.insurance ELSE InsuranceBlock(recs, facts)
        second == IF credit = {} THEN <<>> ELSE others
        evidences == Evidences(recs, verdict)
        computed == [c EXCEPT !.recs = recs, !.verdict = verdict, !.credit = credit,
                              !.insurance = insurance, !.skipped = start > 1,
                              !.synthesis = Synthesis(recs, verdict, second, facts, c.docs)]
    IN  IF recs = <<>> THEN [computed EXCEPT !.status = "pending_review"]
        ELSE [Gated(computed, evidences) EXCEPT
                !.questions = Questions(verdict), !.readiness = Readiness(verdict)]

\* The legal guardrail passes the verdicts on these products.
Guarded(c, recs, others) ==
    LET products == Named(recs) \cup {others[i] : i \in DOMAIN others}
        facts == Effective(c)
    IN  LegalGuardrail(Evaluate(products, facts, c.docs, day), facts, c.docs)

\* A case is stored as an analysis from start leaves it; one the guardrails
\* refuse raises and is not stored. A verdict kept passed them before.
Analyse(c, start) ==
    \E recs \in Retrieved(c, start) : \E others \in Alternatives(recs) :
        /\ Named(recs) \subseteq Active  \* validate_product_agent_output
        /\ Guarded(c, IF Kept(c, start) THEN <<>> ELSE recs, others)
        /\ case' = Analysed(c, start, recs, others)

Call == calls < MaxCalls /\ calls' = calls + 1
Unindexed == UNCHANGED <<day, index, edits>>

Open(status) == status \in {"pending_information", "pending_review", "pending_approval", "failed"}

\* V2WorkflowEngine.resume: past the loop limit the case fails instead.
ResumeAt(c, start) ==
    /\ Open(c.status)
    /\ IF c.loops >= MaxLoops THEN case' = [c EXCEPT !.status = "failed"]
       ELSE Analyse([c EXCEPT !.loops = @ + 1], start)
-----------------------------------------------------------------------------
(* The handlers.                                                            *)

\* POST /cases and the first run-analysis of a sales case.
Create ==
    /\ case.status = "none" /\ Call /\ Unindexed
    /\ \E brought \in Cases : Analyse(NewCase(brought), 0)

\* POST /cases/{id}/messages: a new run; what the gate said stays until it is
\* asked again.
Message ==
    /\ Open(case.status) /\ Call /\ Unindexed
    /\ Analyse([case EXCEPT !.recs = Unknown, !.verdict = Unknown, !.credit = Unknown,
                            !.synthesis = Unknown, !.evidences = {}, !.questions = {},
                            !.readiness = Unknown, !.loops = 0], 0)

\* PATCH /cases/{id}/context.
Correct ==
    /\ Call /\ Unindexed
    /\ \E f \in Correctable : \E v \in Values[f] :
          ResumeAt([case EXCEPT !.facts[f] = v], IF f \in ProductMatch THEN 0 ELSE 1)

\* POST /cases/{id}/documents: only a document that differs is a change.
Register(t, s) == case.docs[t] # s /\ s # "absent"
Documents ==
    /\ Call /\ Unindexed
    /\ \E t \in DocTypes, s \in DocStatuses :
          Register(t, s) /\ ResumeAt([case EXCEPT !.docs[t] = s], 1)

\* POST /cases/{id}/resume: the changes the caller names take the place of the
\* documents it sends ("product_catalog" starts at 0, "email" and "draft" after
\* the evaluation); with documents and no other change it does what Documents does.
Resume ==
    /\ Call /\ Unindexed
    /\ \/ \E start \in {0, 1, 3} : ResumeAt(case, start)
       \/ \E start \in {0, 3}, t \in DocTypes, s \in DocStatuses :
             Register(t, s) /\ ResumeAt([case EXCEPT !.docs[t] = s], start)

\* run-analysis of a sales case again: the confirmed profile and documents of
\* the intake; without a document the change is the customer's, and refused.
RunAnalysis ==
    /\ case.status # "none" /\ Call /\ Unindexed
    /\ \E brought \in Cases :
          /\ \E t \in DocTypes : brought.docs[t] # "absent"
          /\ ResumeAt([case EXCEPT !.facts = brought.facts, !.profile = brought.profile,
                                   !.docs = brought.docs], 1)

\* POST /cases/{id}/specialist-reviews once every required role has cleared.
Clear ==
    /\ case.status = "pending_review" /\ Call /\ Unindexed
    /\ case.gate # Unknown /\ case.gate.reviewable
    /\ case' = [case EXCEPT !.status = "pending_approval", !.cleared = TRUE,
                            !.readiness = IF @ = Unknown THEN Readiness(case.verdict) ELSE @]
-----------------------------------------------------------------------------
(* The world around the case.                                               *)

Tick ==
    /\ day < MaxDay /\ day' = day + 1
    /\ UNCHANGED <<index, case, edits, calls>>

\* A document is ingested again, its text or its activity changed.
Ingest ==
    /\ edits < MaxEdits /\ edits' = edits + 1
    /\ \E d \in Products \cup Sources :
          \/ index' = [index EXCEPT ![d].text = 1 - @]
          \/ d \in Products /\ index' = [index EXCEPT ![d].active = ~@]
    /\ UNCHANGED <<day, case, calls>>

Init ==
    /\ day = 0 /\ edits = 0 /\ calls = 0
    /\ index = [d \in Products \cup Sources |-> [text |-> 0, active |-> TRUE]]
    /\ case = [NewCase(CHOOSE brought \in Cases : TRUE) EXCEPT !.status = "none"]

Next ==
    \/ Create \/ Message \/ Correct \/ Documents \/ Resume \/ RunAnalysis \/ Clear
    \/ Tick \/ Ingest

Spec == Init /\ [][Next]_vars
-----------------------------------------------------------------------------
Results == {"none", "new", "pending_information", "pending_review", "pending_approval", "failed"}

\* Type invariant: a case that was analysed holds every result of the analysis,
\* for products and rules of the catalog and the registry.
AnalysisTypeOK ==
    /\ day \in 0 .. MaxDay /\ edits \in 0 .. MaxEdits /\ calls \in 0 .. MaxCalls
    /\ index \in [Products \cup Sources -> [text : {0, 1}, active : BOOLEAN]]
    /\ case.status \in Results \ {"new"} /\ case.loops \in 0 .. MaxLoops
    /\ case.facts \in [Fields -> Int \cup {Unknown}]
    /\ case.docs \in [DocTypes -> DocStatuses]
    /\ case.status # "none" =>
          /\ Named(case.recs) \subseteq Products
          /\ case.verdict.products = Named(case.recs)
          /\ \A e \in case.verdict.rules : e.rule \in Rules /\ e.status \in Statuses
          /\ case.synthesis.blocked \subseteq Named(case.recs)
          /\ Cardinality(case.synthesis.alternatives) <= 2

\* A case the gate lets pass on to the RM's approval rests on valid evidence
\* alone, and every product of its proposal was checked against at least one
\* blocking rule and failed none: no path of partial results approves a
\* product that was not evaluated (EligibilityEngine, RiskGuardrailGate).
ApprovalGrounded ==
    case.status = "pending_approval" /\ ~case.cleared =>
        /\ \A e \in case.evidences : e.valid
        /\ case.credit = {}
        /\ \A p \in Named(case.recs) :
              LET checked == {e \in case.verdict.rules : e.product = p /\ Rule[e.rule].blocking} IN
              checked # {} /\ \A e \in checked : e.status = "passed"

\* The verdict an approval rests on is the one the case's own facts and
\* documents give, after any corrections, documents and re-analyses, except
\* when the last resume was told to start after the evaluation (impact.py).
VerdictCurrent ==
    case.status = "pending_approval" /\ ~case.skipped =>
        case.verdict = Evaluate(Named(case.recs), Effective(case), case.docs, case.verdict.at)

\* A product whose rules block it stays named as blocked in the synthesis and
\* is never its primary or an alternative solution, the second search for
\* products without credit included.
BlockNotLaundered ==
    case.status \notin {"none", "failed"} /\ ~case.skipped =>
        LET offered == {case.synthesis.primary} \cup case.synthesis.alternatives IN
        /\ {e.product : e \in case.credit} \subseteq case.synthesis.blocked
        /\ offered \cap case.synthesis.blocked = {}

\* A case that waits for information asks for something: the RM is never left
\* with a blocked case and nothing to bring (NextBestService).
WaitingIsAsked == case.status = "pending_information" => case.questions # {}
=============================================================================
