------------------------------ MODULE CaseModel ------------------------------
(***************************************************************************)
(* The in-memory case and what the workflow engine does to it.             *)
(*                                                                         *)
(* A handler of the API reads a SharedCaseState, lets V2WorkflowEngine     *)
(* change it, and stores it.  This module is the middle part: operators    *)
(* that take a case and return the set of cases the engine may leave.  An  *)
(* empty set stands for an exception (ValueError, InvalidTransitionError,  *)
(* GuardrailViolation): the handler answers with an error and stores       *)
(* nothing.                                                                *)
(*                                                                         *)
(* What the experts, the rule registry and the knowledge index answer is   *)
(* outside the control flow; an analysis takes it as one "finding".        *)
(***************************************************************************)
EXTENDS Naturals

CONSTANTS
    Payloads,       \* frozen action payloads (operations_result.action_payload)
    NoPayload,      \* operations_result is None
    Keys,           \* idempotency keys clients use
    NoKey,
    Findings        \* what an analysis may be told; a subset of AllFindings

ASSUME PayloadAssumption == NoPayload \notin Payloads

CaseStatus ==
    {"new", "understanding", "clarification_required", "planned",
     "in_analysis", "pending_information", "pending_review",
     "pending_approval", "executing", "completed", "rejected", "failed"}

ApprovalStatus ==
    {"not_required", "pending", "approved", "rejected", "consumed"}

EligibilityStatus ==
    {"passed", "failed", "pending_information", "pending_review"}

\* Evidence.module of the claims the engine builds, and who reviews each.
EvidenceModules == {"Product", "Eligibility"}

ReviewerRole ==
    [Product |-> "product_specialist", Eligibility |-> "legal_specialist"]

Roles == {ReviewerRole[m] : m \in EvidenceModules}

MaxLoops == 3

-----------------------------------------------------------------------------
(* state_machine.py                                                        *)

ALLOWED ==
    [new                    |-> {"understanding"},
     understanding          |-> {"clarification_required", "planned",
                                 "completed", "failed"},
     clarification_required |-> {"understanding", "rejected"},
     planned                |-> {"in_analysis", "failed"},
     in_analysis            |-> {"pending_information", "pending_review",
                                 "pending_approval", "failed"},
     pending_information    |-> {"in_analysis", "rejected"},
     pending_review         |-> {"in_analysis", "pending_approval", "rejected"},
     pending_approval       |-> {"executing", "rejected", "in_analysis"},
     executing              |-> {"completed", "failed"},
     failed                 |-> {"in_analysis", "rejected"},
     completed              |-> {},
     rejected               |-> {}]

\* transition(): the cases that have moved to target; none if it raises.
Transition(c, target) ==
    IF target \in ALLOWED[c.status] THEN {[c EXCEPT !.status = target]} ELSE {}

-----------------------------------------------------------------------------
(* The case, the risk gate's decision and an analysis' finding             *)

Decisions ==
    [outcome    : {"none", "approve", "need_information", "need_review"},
     roles      : SUBSET Roles,
     reviewable : BOOLEAN]

NoDecision == [outcome |-> "none", roles |-> {}, reviewable |-> FALSE]

\* What "actions_executed" in state_json names: a result, by the key whose hash
\* its identifier is.  History only: was it answered as a replay?
Executions == [key : Keys \cup {NoKey}, replay : BOOLEAN]

NotExecuted == [key |-> NoKey, replay |-> FALSE]

Cases ==
    [status     : CaseStatus,
     approval   : ApprovalStatus,
     loops      : 0..MaxLoops,
     products   : BOOLEAN,              \* product_result has recommendations
     eligibility: EligibilityStatus \cup {"none"},
     evidence   : {"none", "valid", "invalid"},
     gate       : Decisions,
     overridden : BOOLEAN,              \* risk_gate_result.specialist_overridden
     payload    : Payloads \cup {NoPayload},
     executed   : Executions,
     \* history only: did the latest analysis evaluate the risk gate?
     gated      : BOOLEAN]

AllFindings ==
    [products   : BOOLEAN,              \* the product expert recommends something
     eligibility: EligibilityStatus,
     invalid    : SUBSET EvidenceModules, \* whose claims fail the index check
     cited      : BOOLEAN,              \* there is at least one claim
     reviewable : BOOLEAN,              \* every blocking reason allows a human
     payload    : Payloads]

ASSUME FindingsAssumption == Findings \subseteq AllFindings

NewCase ==
    [status |-> "new", approval |-> "not_required", loops |-> 0,
     products |-> FALSE, eligibility |-> "none", evidence |-> "none",
     gate |-> NoDecision, overridden |-> FALSE, payload |-> NoPayload,
     executed |-> NotExecuted, gated |-> FALSE]

-----------------------------------------------------------------------------
(* risk_gate.py                                                            *)

Review(roles, reviewable) ==
    [outcome |-> "need_review", roles |-> roles, reviewable |-> reviewable]

Outcome(o) == [outcome |-> o, roles |-> {}, reviewable |-> FALSE]

\* evaluate(): unsupported evidence comes before the eligibility verdict, and
\* a live check that could not run is always open to review.
RiskGate(eligibility, f) ==
    CASE f.invalid # {} ->
            Review({ReviewerRole[m] : m \in f.invalid}, f.reviewable)
      [] f.invalid = {} /\ eligibility = "passed" -> Outcome("approve")
      [] f.invalid = {} /\ eligibility = "pending_information" ->
            Outcome("need_information")
      [] f.invalid = {} /\ eligibility = "failed" ->
            Review({"legal_specialist"}, f.reviewable)
      [] f.invalid = {} /\ eligibility = "pending_review" ->
            Review({"legal_specialist"}, TRUE)

GateStatus ==
    [approve          |-> "pending_approval",
     need_information |-> "pending_information",
     need_review      |-> "pending_review"]

-----------------------------------------------------------------------------
(* engine.py                                                               *)

ResumeNodes == {"retrieve_products", "evaluate_eligibility", "prepare_operations"}

\* coordinate() keeps the results of the nodes before start_at.  The rules of
\* no product at all aggregate to "passed".
Recommended(c, start, f) ==
    IF start = "retrieve_products" THEN f.products ELSE c.products

Eligibility(c, start, f) ==
    IF start = "prepare_operations" /\ c.eligibility # "none"
    THEN c.eligibility
    ELSE IF Recommended(c, start, f) THEN f.eligibility ELSE "passed"

\* _analysis() when nothing grounded is recommended: it returns before the
\* evidence, the risk gate and the operations drafts are rebuilt.
NoGroundedProduct(c, start, f) ==
    {[d EXCEPT !.products = FALSE, !.eligibility = Eligibility(c, start, f),
               !.gated = FALSE] : d \in Transition(c, "pending_review")}

\* _analysis() otherwise.  to_dict() carries no specialist_overridden key.
Assessed(c, start, f) ==
    LET elig     == Eligibility(c, start, f)
        decision == RiskGate(elig, f)
        next     == GateStatus[decision.outcome]
    IN  {[d EXCEPT !.products    = TRUE,
                   !.eligibility = elig,
                   !.evidence    = IF f.invalid # {} THEN "invalid"
                                   ELSE IF f.cited THEN "valid" ELSE "none",
                   !.gate        = decision,
                   !.overridden  = FALSE,
                   !.payload     = f.payload,
                   !.gated       = TRUE,
                   !.approval    = IF next = "pending_approval"
                                   THEN "pending" ELSE @] :
            d \in Transition(c, next)}

Analysis(c, start) ==
    UNION {IF Recommended(c, start, f) THEN Assessed(c, start, f)
           ELSE NoGroundedProduct(c, start, f) : f \in Findings}

\* run(): ask back, answer a simple question at once, or plan and analyse.
Run(c) ==
    LET understood == Transition(c, "understanding")
        asked      == UNION {Transition(d, "clarification_required") :
                                d \in understood}
        answered   == {[d EXCEPT !.products = p] : p \in BOOLEAN,
                         d \in UNION {Transition(u, "completed") : u \in understood}}
        planned    == UNION {Transition(d, "planned") : d \in understood}
        analysing  == UNION {Transition(d, "in_analysis") : d \in planned}
    IN  asked \cup answered \cup
        UNION {Analysis(d, "retrieve_products") : d \in analysing}

\* rerun_with_message(): everything is forgotten but the gate's decision.
RerunWithMessage(c) ==
    IF c.status \in {"completed", "rejected"} THEN {}
    ELSE Run([c EXCEPT !.status = "new", !.products = FALSE,
                       !.eligibility = "none", !.evidence = "none",
                       !.payload = NoPayload, !.approval = "not_required",
                       !.loops = 0])

Resumable ==
    {"pending_information", "pending_review", "pending_approval", "failed"}

Resumed(c, start) ==
    UNION {Analysis([d EXCEPT !.loops = @ + 1, !.approval = "not_required"], start) :
              d \in Transition(c, "in_analysis")}

\* resume(): the loop limit is tested before the status.
Resume(c, starts) ==
    IF c.loops >= MaxLoops THEN {[c EXCEPT !.status = "failed"]}
    ELSE IF c.status \notin Resumable THEN {}
    ELSE UNION {Resumed(c, s) : s \in starts}

\* A missing draft is prepared, the payload frozen, and the gate's decision, if
\* there is one, marked as overridden.
Cleared(c, payload) ==
    {[d EXCEPT !.approval   = "pending",
               !.payload    = IF c.payload = NoPayload THEN payload ELSE c.payload,
               !.overridden = IF c.gate.outcome = "none" THEN @ ELSE TRUE] :
        d \in Transition(c, "pending_approval")}

\* clear_specialist_block(): the analysis is not repeated.
ClearSpecialistBlock(c) ==
    IF c.status # "pending_review" THEN {}
    ELSE UNION {Cleared(c, p) : p \in Payloads}
=============================================================================
