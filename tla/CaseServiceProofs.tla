-------------------------- MODULE CaseServiceProofs --------------------------
(***************************************************************************)
(* What the API of a case guarantees for any number of requests,           *)
(* employees, keys and payloads.  Every theorem holds with a repository    *)
(* per call, but those of section 8.                                       *)
(*                                                                         *)
(* 1. CaseModel: what the engine makes of a sound case is a sound case,    *)
(*    whatever the experts, the rules and the index answer it.             *)
(* 2. CaseService, invariant SInv: its variables keep their types, a case  *)
(*    that waits for approval is justified, and its database calls are     *)
(*    those of a client of CaseStore.                                      *)
(* 3. Invariant AInv: one recorded action per approval.  Between consume   *)
(*    and record a handler owns its token alone.                           *)
(* 4. Invariant BInv: what a stored case says of its approval is backed by *)
(*    the tables.  A handler only comes to store such a case by way of a   *)
(*    token registered or used up, or of the result found under its key,   *)
(*    or by a row that said so before; and no result is ever replaced.     *)
(* 5. What a handler has decided when it starts its calls, and what each   *)
(*    call leaves of it.                                                   *)
(* 6. Invariant PInv, one request at a time: what is still executed is     *)
(*    what the row waits for.                                              *)
(* 7. Invariant OInv, whichever saves are lost: a handler that stores an   *)
(*    overridden block comes with every role's clearance of the version it *)
(*    has read.  Reviews are never withdrawn, so a save cannot undo that.  *)
(* 8. Invariant LInv, one repository and no review: the case router's      *)
(*    handlers implement CaseLedger.                                       *)
(***************************************************************************)
EXTENDS CaseService, TLAPS

-----------------------------------------------------------------------------
(* 1. The engine.                                                          *)

\* A case that waits for approval has a payload, and the gate's approval of
\* eligible evidence or a specialist's override.
Justified(c) ==
    c.status = "pending_approval" =>
        /\ c.payload # NoPayload
        /\ \/ c.overridden
           \/ /\ c.gate.outcome = "approve"
              /\ c.eligibility = "passed"
              /\ c.evidence # "invalid"

\* A decision that specialists may override was made by the gate: without this
\* an override could leave no trace of itself on the case.
Decided(c) == c.gate.reviewable => c.gate.outcome # "none"

Sound(c) == c \in Cases /\ Justified(c) /\ Decided(c)

\* A sound case that is being worked on, so far from approval.
Working(c) == c \in Cases /\ Decided(c) /\ c.status # "pending_approval"

LEMMA RolesType == \A m \in EvidenceModules : ReviewerRole[m] \in Roles
BY DEF Roles

LEMMA LegalIsRole == "legal_specialist" \in Roles
BY DEF Roles, EvidenceModules, ReviewerRole

\* The gate approves eligible, supported evidence only, and marks as reviewable
\* only what it sends to review.
LEMMA RiskGateLemma ==
    ASSUME NEW f \in AllFindings, NEW elig \in EligibilityStatus
    PROVE  /\ RiskGate(elig, f) \in Decisions
           /\ RiskGate(elig, f).outcome \in {"approve", "need_information", "need_review"}
           /\ RiskGate(elig, f).outcome = "approve" =>
                 f.invalid = {} /\ elig = "passed"
<1>1. CASE f.invalid # {}
  <2>1. {ReviewerRole[m] : m \in f.invalid} \in SUBSET Roles
    BY RolesType DEF AllFindings
  <2>2. RiskGate(elig, f) = Review({ReviewerRole[m] : m \in f.invalid}, f.reviewable)
    BY <1>1 DEF RiskGate
  <2> QED
    BY <2>1, <2>2 DEF Review, Decisions, AllFindings
<1>2. CASE f.invalid = {} /\ elig = "passed"
  BY <1>2 DEF RiskGate, Outcome, Decisions
<1>3. CASE f.invalid = {} /\ elig = "pending_information"
  BY <1>3 DEF RiskGate, Outcome, Decisions
<1>4. CASE f.invalid = {} /\ elig = "failed"
  BY <1>4, LegalIsRole DEF RiskGate, Review, Decisions, AllFindings
<1>5. CASE f.invalid = {} /\ elig = "pending_review"
  BY <1>5, LegalIsRole DEF RiskGate, Review, Decisions
<1> QED
  BY <1>1, <1>2, <1>3, <1>4, <1>5 DEF EligibilityStatus

\* A transition changes the status and nothing else.
LEMMA TransitionLemma ==
    ASSUME NEW c \in Cases, NEW target \in CaseStatus, NEW d \in Transition(c, target)
    PROVE  /\ d \in Cases
           /\ d = [c EXCEPT !.status = target]
BY DEF Transition, Cases

LEMMA TransitionWorks ==
    ASSUME NEW c, Working(c) \/ Sound(c),
           NEW target \in CaseStatus \ {"pending_approval"},
           NEW d \in Transition(c, target)
    PROVE  Working(d)
BY TransitionLemma DEF Working, Sound, Decided, Cases

-----------------------------------------------------------------------------
(* 1. The analysis.                                                        *)

LEMMA EligibilityLemma ==
    ASSUME NEW c \in Cases, NEW start, NEW f \in AllFindings
    PROVE  Eligibility(c, start, f) \in EligibilityStatus
BY DEF Eligibility, Cases, AllFindings, EligibilityStatus

LEMMA NoGroundedProductSound ==
    ASSUME NEW c, Working(c), NEW start, NEW f \in AllFindings,
           NEW d \in NoGroundedProduct(c, start, f)
    PROVE  Sound(d)
<1>1. c \in Cases
  BY DEF Working
<1>2. PICK t \in Transition(c, "pending_review") :
        d = [t EXCEPT !.products = FALSE,
                      !.eligibility = Eligibility(c, start, f),
                      !.gated = FALSE]
  BY DEF NoGroundedProduct
<1>3. Working(t) /\ t.status = "pending_review"
  <2>1. "pending_review" \in CaseStatus \ {"pending_approval"}
    BY DEF CaseStatus
  <2> QED
    BY <1>1, <2>1, TransitionWorks, TransitionLemma DEF Cases
<1>4. Eligibility(c, start, f) \in EligibilityStatus
  BY <1>1, EligibilityLemma
<1> QED
  BY <1>2, <1>3, <1>4 DEF Sound, Justified, Decided, Working, Cases

LEMMA AssessedSound ==
    ASSUME NEW c, Working(c), NEW start, NEW f \in AllFindings,
           NEW d \in Assessed(c, start, f)
    PROVE  Sound(d)
<1> DEFINE elig     == Eligibility(c, start, f)
           decision == RiskGate(elig, f)
           next     == GateStatus[decision.outcome]
<1>1. c \in Cases /\ elig \in EligibilityStatus
  BY EligibilityLemma DEF Working
<1> HIDE DEF elig
<1>2. /\ decision \in Decisions
      /\ decision.outcome \in {"approve", "need_information", "need_review"}
      /\ decision.outcome = "approve" => f.invalid = {} /\ elig = "passed"
  BY <1>1, RiskGateLemma
<1> HIDE DEF decision
<1>3. /\ next \in CaseStatus
      /\ next = "pending_approval" => decision.outcome = "approve"
  BY <1>2 DEF GateStatus, CaseStatus
<1> HIDE DEF next
<1>4. PICK t \in Transition(c, next) :
        d = [t EXCEPT !.products    = TRUE,
                      !.eligibility = elig,
                      !.evidence    = IF f.invalid # {} THEN "invalid"
                                      ELSE IF f.cited THEN "valid" ELSE "none",
                      !.gate        = decision,
                      !.overridden  = FALSE,
                      !.payload     = f.payload,
                      !.gated       = TRUE,
                      !.approval    = IF next = "pending_approval"
                                      THEN "pending" ELSE @]
  BY DEF Assessed, elig, decision, next
<1>5. t \in Cases /\ t.status = next
  BY <1>1, <1>3, TransitionLemma DEF Cases
<1>6. d \in Cases
  <2> DEFINE evidence == IF f.invalid # {} THEN "invalid"
                         ELSE IF f.cited THEN "valid" ELSE "none"
             approval == IF next = "pending_approval" THEN "pending" ELSE t.approval
  <2>1. evidence \in {"none", "valid", "invalid"}
    OBVIOUS
  <2>2. approval \in ApprovalStatus
    BY <1>5 DEF Cases, ApprovalStatus
  <2>3. d = [t EXCEPT !.products    = TRUE,
                      !.eligibility = elig,
                      !.evidence    = evidence,
                      !.gate        = decision,
                      !.overridden  = FALSE,
                      !.payload     = f.payload,
                      !.gated       = TRUE,
                      !.approval    = approval]
    BY <1>4, <1>5 DEF Cases
  <2> HIDE DEF evidence, approval
  <2> QED
    BY <1>1, <1>2, <1>5, <2>1, <2>2, <2>3 DEF Cases, AllFindings
<1>7. /\ d.status = next
      /\ d.gate = decision
      /\ d.eligibility = elig
      /\ d.payload = f.payload
      /\ f.invalid = {} => d.evidence # "invalid"
  BY <1>4, <1>5 DEF Cases
<1> QED
  BY <1>2, <1>3, <1>6, <1>7, PayloadAssumption DEF Sound, Justified, Decided, AllFindings

LEMMA AnalysisSound ==
    ASSUME NEW c, Working(c), NEW start, NEW d \in Analysis(c, start)
    PROVE  Sound(d)
<1>1. PICK f \in Findings :
        d \in IF Recommended(c, start, f) THEN Assessed(c, start, f)
              ELSE NoGroundedProduct(c, start, f)
  BY DEF Analysis
<1>2. f \in AllFindings
  BY FindingsAssumption
<1> QED
  BY <1>1, <1>2, AssessedSound, NoGroundedProductSound

-----------------------------------------------------------------------------
(* 1. The engine's entry points.                                           *)

LEMMA Statuses ==
    {"understanding", "clarification_required", "planned", "in_analysis",
     "completed", "pending_information", "rejected"}
        \subseteq CaseStatus \ {"pending_approval"}
BY DEF CaseStatus

LEMMA WorkingSound == \A c : Working(c) => Sound(c)
BY DEF Working, Sound, Justified

\* run(), on a case that nobody is being asked to approve.
LEMMA RunSound ==
    ASSUME NEW c, Working(c), NEW d \in Run(c)
    PROVE  Sound(d)
<1> DEFINE understood == Transition(c, "understanding")
           asked      == UNION {Transition(u, "clarification_required") :
                                   u \in understood}
           answered   == {[u EXCEPT !.products = p] : p \in BOOLEAN,
                            u \in UNION {Transition(v, "completed") : v \in understood}}
           planned    == UNION {Transition(u, "planned") : u \in understood}
           analysing  == UNION {Transition(u, "in_analysis") : u \in planned}
<1>1. \A u \in understood : Working(u)
  BY TransitionWorks, Statuses
<1> HIDE DEF understood
<1>2. CASE d \in asked
  BY <1>1, <1>2, TransitionWorks, Statuses, WorkingSound
<1>3. CASE d \in answered
  <2>1. PICK p \in BOOLEAN, v \in understood :
          \E u \in Transition(v, "completed") : d = [u EXCEPT !.products = p]
    BY <1>3
  <2>2. PICK u \in Transition(v, "completed") : d = [u EXCEPT !.products = p]
    BY <2>1
  <2>3. Working(u)
    BY <1>1, <2>2, TransitionWorks, Statuses
  <2>4. Working(d)
    BY <2>2, <2>3 DEF Working, Decided, Cases
  <2> QED
    BY <2>4, WorkingSound
<1>4. CASE d \in UNION {Analysis(u, "retrieve_products") : u \in analysing}
  <2>1. \A u \in planned : Working(u)
    BY <1>1, TransitionWorks, Statuses
  <2> HIDE DEF planned
  <2>2. \A u \in analysing : Working(u)
    BY <2>1, TransitionWorks, Statuses
  <2> HIDE DEF analysing
  <2> QED
    BY <1>4, <2>2, AnalysisSound
<1> QED
  BY <1>2, <1>3, <1>4 DEF Run, understood

LEMMA NewCaseWorks == Working(NewCase)
BY DEF Working, Decided, NewCase, NoDecision, Cases, CaseStatus, ApprovalStatus,
       Decisions, MaxLoops, NotExecuted, Executions

LEMMA RerunSound ==
    ASSUME NEW c, Sound(c), NEW d \in RerunWithMessage(c)
    PROVE  Sound(d)
<1> DEFINE forgotten ==
        [c EXCEPT !.status = "new", !.products = FALSE, !.eligibility = "none",
                  !.evidence = "none", !.payload = NoPayload,
                  !.approval = "not_required", !.loops = 0]
<1>1. c \in Cases
  BY DEF Sound
<1>2. forgotten \in Cases
  <2>1. "new" \in CaseStatus /\ "not_required" \in ApprovalStatus /\ 0 \in 0..MaxLoops
    BY DEF CaseStatus, ApprovalStatus, MaxLoops
  <2> QED
    BY <1>1, <2>1 DEF Cases
<1>3. forgotten.status = "new" /\ forgotten.gate = c.gate
  BY <1>1 DEF Cases
<1>4. Working(forgotten)
  BY <1>2, <1>3 DEF Working, Sound, Decided
<1>5. d \in Run(forgotten)
  BY DEF RerunWithMessage
<1> QED
  BY <1>4, <1>5, RunSound

LEMMA ResumedSound ==
    ASSUME NEW c, Sound(c), c.loops < MaxLoops,
           NEW start, NEW new \in Resumed(c, start)
    PROVE  Sound(new)
<1>1. c \in Cases
  BY DEF Sound
<1>2. PICK t \in Transition(c, "in_analysis") :
        new \in Analysis([t EXCEPT !.loops = @ + 1, !.approval = "not_required"],
                         start)
  BY DEF Resumed
<1>3. Working(t)
  BY TransitionWorks, Statuses
<1>4. t.loops + 1 \in 0..MaxLoops
  <2>1. t = [c EXCEPT !.status = "in_analysis"]
    BY <1>1, Statuses, TransitionLemma
  <2> QED
    BY <1>1, <2>1 DEF Cases, MaxLoops
<1>5. Working([t EXCEPT !.loops = @ + 1, !.approval = "not_required"])
  BY <1>3, <1>4 DEF Working, Decided, Cases, ApprovalStatus
<1> QED
  BY <1>2, <1>5, AnalysisSound

\* resume(), at the loop limit or before it.
LEMMA ResumeSound ==
    ASSUME NEW c, Sound(c), NEW starts, NEW new \in Resume(c, starts)
    PROVE  Sound(new)
<1>1. CASE c.loops >= MaxLoops
  <2>1. new = [c EXCEPT !.status = "failed"]
    BY <1>1 DEF Resume
  <2> QED
    BY <2>1 DEF Sound, Justified, Decided, Cases, CaseStatus
<1>2. CASE ~(c.loops >= MaxLoops)
  <2>1. PICK start \in starts : new \in Resumed(c, start)
    BY <1>2 DEF Resume
  <2>2. c.loops < MaxLoops
    BY <1>2 DEF Sound, Cases, MaxLoops
  <2> QED
    BY <2>1, <2>2, ResumedSound
<1> QED
  BY <1>1, <1>2

\* clear_specialist_block(), called for a decision that may be overridden.
LEMMA ClearSound ==
    ASSUME NEW c, Sound(c), c.gate.reviewable, NEW new \in ClearSpecialistBlock(c)
    PROVE  Sound(new)
<1>1. c \in Cases /\ c.gate.outcome # "none"
  BY DEF Sound, Decided
<1>2. PICK p \in Payloads : new \in Cleared(c, p)
  BY DEF ClearSpecialistBlock
<1> DEFINE payload == IF c.payload = NoPayload THEN p ELSE c.payload
<1>3. PICK t \in Transition(c, "pending_approval") :
        new = [t EXCEPT !.approval   = "pending",
                        !.payload    = payload,
                        !.overridden = TRUE]
  <2>1. Cleared(c, p) =
          {[t EXCEPT !.approval   = "pending",
                     !.payload    = payload,
                     !.overridden = TRUE] : t \in Transition(c, "pending_approval")}
    BY <1>1 DEF Cleared
  <2> HIDE DEF payload
  <2> QED
    BY <1>2, <2>1
<1>4. payload \in Payloads
  BY <1>1 DEF Cases
<1>5. t \in Cases /\ t.gate = c.gate
  BY <1>1, TransitionLemma DEF CaseStatus, Cases
<1> HIDE DEF payload
<1>6. new \in Cases
  BY <1>3, <1>4, <1>5 DEF Cases, ApprovalStatus
<1>7. new.payload = payload /\ new.overridden /\ new.gate = c.gate
  BY <1>3, <1>5 DEF Cases
<1> QED
  BY <1>1, <1>4, <1>6, <1>7, PayloadAssumption DEF Sound, Justified, Decided

-----------------------------------------------------------------------------
(* 2. The calls a handler of the service may still have to make.           *)

SaveScripts ==
    {<<"save", "audit">>, <<"issue", "save", "audit">>,
     <<"count", "review", "audit", "save">>, <<"review", "audit", "save">>,
     <<"audit", "save">>, <<"save">>}

ExecuteScripts ==
    {<<"lookup", "consume", "record", "save", "audit">>,
     <<"consume", "record", "save", "audit">>, <<"record", "save", "audit">>}

\* With these a case may still be stored: a replayed execution is stored even
\* if it would have been denied.
CaseScripts == SaveScripts \cup ExecuteScripts \cup {<<"lookup", "deny">>}

Scripts ==
    SaveScripts \cup ExecuteScripts \cup
    {<<>>, <<"audit">>, <<"lookup", "deny">>, <<"deny">>, <<"review">>}

LEMMA ScriptCalls == Scripts \subseteq Seq(Calls)
BY DEF Scripts, SaveScripts, ExecuteScripts, Calls

\* The call a handler is about to make tells what it still has to do.
LEMMA ScriptHeads ==
    ASSUME NEW s \in Scripts, s # <<>>
    PROVE  /\ Head(s) = "issue" => s = <<"issue", "save", "audit">>
           /\ Head(s) = "lookup" =>
                 s \in {<<"lookup", "consume", "record", "save", "audit">>,
                        <<"lookup", "deny">>}
           /\ Head(s) = "consume" => s = <<"consume", "record", "save", "audit">>
           /\ Head(s) = "record" => s = <<"record", "save", "audit">>
           /\ Head(s) = "count" => s = <<"count", "review", "audit", "save">>
           /\ Head(s) = "review" => s \in {<<"review", "audit", "save">>, <<"review">>}
           /\ Head(s) = "save" => s \in {<<"save", "audit">>, <<"save">>}
           /\ Head(s) = "audit" => s \in {<<"audit">>, <<"audit", "save">>}
BY DEF Scripts, SaveScripts, ExecuteScripts

-----------------------------------------------------------------------------
(* 2. The invariant.                                                       *)

\* A handler in flight has computed a sound case from a version that may still
\* be replaced, and holds what its calls need.
LegalJob(j, issued) ==
    /\ j \in Jobs
    /\ j.todo \in Scripts
    /\ j.token \in {0} \cup DOMAIN issued
    /\ j.todo \in CaseScripts => Sound(j.new) /\ j.base < MaxVersion
    /\ j.todo \in ExecuteScripts =>
          j.by \in Employees /\ j.key \in Keys /\ j.token # 0
    /\ j.todo = <<"issue", "save", "audit">> => j.by \in Employees

\* An open transaction belongs to the call its handler is making.
LegalTxn(r) ==
    /\ txn[r].kind = "save" =>
          /\ job[r].todo \in {<<"save", "audit">>, <<"save">>}
          /\ Sound(txn[r].content)
    /\ txn[r].kind = "audit" => job[r].todo \in {<<"audit">>, <<"audit", "save">>}

SInv ==
    /\ ServiceTypeOK
    /\ row.version > 0 => Sound(row.content)
    /\ \A r \in Requests : LegalJob(job[r], tokens) /\ LegalTxn(r)

-----------------------------------------------------------------------------
(* 2. The handlers up to their first call.                                 *)

LEMMA NoJobLegal == \A issued : LegalJob(NoJob, issued)
BY DEF LegalJob, NoJob, Jobs, Scripts, CaseScripts, SaveScripts, ExecuteScripts, Calls

LEMMA StoreRecord ==
    ASSUME NEW c
    PROVE  Store(c) =
             [todo |-> <<"save", "audit">>, base |-> row.version, new |-> c,
              by |-> NoEmployee, token |-> 0, key |-> NoKey, review |-> NoReview]
<1> DEFINE none == <<>>
           todo == <<"save", "audit">>
<1>1. Store(c) =
        [[todo |-> none, base |-> 0, new |-> NoContent, by |-> NoEmployee,
          token |-> 0, key |-> NoKey, review |-> NoReview]
            EXCEPT !.todo = todo, !.base = row.version, !.new = c]
  BY DEF Store, NoJob
<1> HIDE DEF none, todo
<1>2. Store(c) =
        [todo |-> todo, base |-> row.version, new |-> c,
         by |-> NoEmployee, token |-> 0, key |-> NoKey, review |-> NoReview]
  BY <1>1
<1> QED
  BY <1>2 DEF todo

\* A job of CaseScripts is legal once its parts are.
LEMMA JobLegal ==
    ASSUME ServiceTypeOK, row.version < MaxVersion, NEW c, Sound(c),
           NEW todo \in Scripts, NEW by \in Employees \cup {NoEmployee},
           NEW token \in {0} \cup DOMAIN tokens, NEW key \in Keys \cup {NoKey},
           NEW review \in Reviews \cup {NoReview},
           todo \in ExecuteScripts => by \in Employees /\ key \in Keys /\ token # 0,
           todo = <<"issue", "save", "audit">> => by \in Employees
    PROVE  LegalJob([todo |-> todo, base |-> row.version, new |-> c, by |-> by,
                     token |-> token, key |-> key, review |-> review], tokens)
<1> DEFINE j == [todo |-> todo, base |-> row.version, new |-> c, by |-> by,
                 token |-> token, key |-> key, review |-> review]
<1>1. todo \in Seq(Calls)
  BY ScriptCalls
<1>2. row.version \in Nat
  BY DEF ServiceTypeOK, StoreTypeOK
<1>3. token \in Nat
  BY DEF ServiceTypeOK
<1>4. j \in Jobs
  BY <1>1, <1>2, <1>3 DEF Jobs, Sound
<1> QED
  BY <1>4 DEF LegalJob

LEMMA StoreLegal ==
    ASSUME ServiceTypeOK, row.version < MaxVersion, NEW c, Sound(c)
    PROVE  LegalJob(Store(c), tokens)
<1>1. <<"save", "audit">> \in Scripts \ ExecuteScripts
  BY DEF Scripts, SaveScripts, ExecuteScripts
<1>2. <<"save", "audit">> # <<"issue", "save", "audit">>
  OBVIOUS
<1> QED
  BY <1>1, <1>2, JobLegal, StoreRecord

\* The state after a handler's checks: only its job is new.
Accepted(r, j) ==
    /\ LegalJob(j, tokens)
    /\ Free(r)
    /\ j.todo # <<"record", "save", "audit">>
    /\ job' = [job EXCEPT ![r] = j]
    /\ UNCHANGED <<row, chain, txn, tokens, results, reviews>>

LEMMA AcceptStore ==
    ASSUME SInv, NEW r \in Requests, NEW op, NEW c, Sound(c),
           Accept(r, op, Store(c))
    PROVE  \E j : Accepted(r, j)
<1>1. LegalJob(Store(c), tokens)
  BY StoreLegal DEF Accept, SInv
<1>2. Store(c).todo # <<"record", "save", "audit">>
  BY StoreRecord
<1>3. Accepted(r, Store(c))
  BY <1>1, <1>2, Zenon DEF Accept, Accepted, tables
<1> QED
  BY <1>3, Zenon

\* The engine's handlers store what the engine left.
LEMMA EngineHandlers ==
    ASSUME SInv, NEW r \in Requests,
           \/ CreateCase(r) \/ AddMessage(r) \/ AddDocuments(r) \/ CorrectContext(r)
           \/ ResumeCase(r) \/ RunSalesCaseAnalysis(r)
    PROVE  \E j : Accepted(r, j)
<1>1. \A new \in Run(NewCase) : Sound(new)
  BY RunSound, NewCaseWorks
<1>2. Exists => Sound(row.content)
  BY DEF Exists, SInv
<1>3. \A starts : Exists =>
        \A new \in RerunOrResume(row.content, starts) : Sound(new)
  BY <1>2, RerunSound, ResumeSound DEF RerunOrResume
<1>4. CASE CreateCase(r)
  BY <1>1, <1>4, AcceptStore DEF CreateCase
<1>5. CASE AddMessage(r)
  BY <1>2, <1>5, RerunSound, AcceptStore DEF AddMessage
<1>6. CASE AddDocuments(r)
  BY <1>3, <1>6, AcceptStore DEF AddDocuments
<1>7. CASE CorrectContext(r)
  BY <1>3, <1>7, AcceptStore DEF CorrectContext
<1>8. CASE ResumeCase(r)
  BY <1>2, <1>8, ResumeSound, AcceptStore DEF ResumeCase
<1>9. CASE RunSalesCaseAnalysis(r)
  BY <1>1, <1>2, <1>9, ResumeSound, AcceptStore DEF RunSalesCaseAnalysis
<1> QED
  BY <1>4, <1>5, <1>6, <1>7, <1>8, <1>9

LEMMA RejectHandlers ==
    ASSUME SInv, NEW r \in Requests, RejectCase(r) \/ RejectSalesCase(r)
    PROVE  \E j : Accepted(r, j)
<1>1. Sound(row.content)
  BY DEF Exists, SInv, RejectCase, RejectSalesCase
<1>2. Sound(Rejected(row.content))
  BY <1>1 DEF Rejected, Sound, Justified, Decided, Cases, CaseStatus, ApprovalStatus
<1> QED
  BY <1>2, AcceptStore DEF RejectCase, RejectSalesCase

\* Approval and execution change the stored case's approval and status only.
LEMMA SettledSound ==
    ASSUME NEW c, Sound(c)
    PROVE  /\ Sound([c EXCEPT !.approval = "approved"])
           /\ \A x \in Executions :
                 Sound([c EXCEPT !.status = "completed", !.approval = "consumed",
                                 !.executed = x])
           /\ Sound(Replayed(c))
<1>1. /\ c \in Cases
      /\ {"approved", "consumed"} \subseteq ApprovalStatus
      /\ "completed" \in CaseStatus
  BY DEF Sound, ApprovalStatus, CaseStatus
<1>2. Sound([c EXCEPT !.approval = "approved"])
  <2> DEFINE d == [c EXCEPT !.approval = "approved"]
  <2>1. d \in Cases
    BY <1>1 DEF Cases
  <2>2. /\ d.status = c.status /\ d.payload = c.payload /\ d.gate = c.gate
        /\ d.overridden = c.overridden /\ d.eligibility = c.eligibility
        /\ d.evidence = c.evidence
    BY <1>1 DEF Cases
  <2> QED
    BY <2>1, <2>2 DEF Sound, Justified, Decided
<1>3. ASSUME NEW x \in Executions
      PROVE  Sound([c EXCEPT !.status = "completed", !.approval = "consumed",
                             !.executed = x])
  BY <1>1 DEF Sound, Justified, Decided, Cases
<1>4. Sound(Replayed(c))
  <2>1. [c.executed EXCEPT !.replay = TRUE] \in Executions
    BY <1>1 DEF Cases, Executions
  <2> DEFINE x == [c.executed EXCEPT !.replay = TRUE]
  <2>2. Replayed(c) = [c EXCEPT !.executed = x]
    BY <1>1 DEF Replayed, Cases
  <2> HIDE DEF x
  <2> QED
    BY <1>1, <2>1, <2>2 DEF Sound, Justified, Decided, Cases, x
<1> QED
  BY <1>2, <1>3, <1>4

LEMMA ApproveAccepted ==
    ASSUME SInv, NEW r \in Requests, NEW op, Approve(r, op)
    PROVE  \E j : Accepted(r, j)
<1> DEFINE c == [row.content EXCEPT !.approval = "approved"]
           todo == <<"issue", "save", "audit">>
<1>1. PICK e \in Employees : Accept(r, op, [Store(c) EXCEPT !.todo = todo, !.by = e])
  BY DEF Approve
<1>2. Sound(c)
  BY SettledSound DEF Approve, Exists, SInv
<1>3. todo \in Scripts \ ExecuteScripts /\ todo # <<"record", "save", "audit">>
  BY DEF Scripts, SaveScripts, ExecuteScripts
<1> HIDE DEF c, todo
<1> DEFINE j == [todo |-> todo, base |-> row.version, new |-> c, by |-> e,
                 token |-> 0, key |-> NoKey, review |-> NoReview]
<1>4. [Store(c) EXCEPT !.todo = todo, !.by = e] = j
  <2> DEFINE saving == <<"save", "audit">>
  <2>1. Store(c) =
          [todo |-> saving, base |-> row.version, new |-> c,
           by |-> NoEmployee, token |-> 0, key |-> NoKey, review |-> NoReview]
    BY StoreRecord
  <2> DEFINE stored == [todo |-> saving, base |-> row.version, new |-> c,
                      by |-> NoEmployee, token |-> 0, key |-> NoKey,
                      review |-> NoReview]
  <2>2. Store(c) = stored
    BY <2>1
  <2> HIDE DEF saving
  <2>3. ASSUME NEW x, x = [stored EXCEPT !.todo = todo, !.by = e]
        PROVE  x = j
    BY <2>3
  <2> HIDE DEF stored, j
  <2> QED
    BY <2>2, <2>3, Zenon
<1>5. LegalJob(j, tokens)
  <2>1. ServiceTypeOK /\ row.version < MaxVersion
    BY <1>1 DEF SInv, Accept
  <2> QED
    BY <1>2, <1>3, <2>1, JobLegal
<1>6. j.todo # <<"record", "save", "audit">>
  BY <1>3
<1>7. Accept(r, op, j)
  BY <1>1, <1>4
<1>8. Accepted(r, j)
  <2> HIDE DEF j
  <2> QED
    BY <1>5, <1>6, <1>7, Zenon DEF Accept, Accepted, tables
<1> QED
  BY <1>8, Zenon

LEMMA ExecuteAccepted ==
    ASSUME SInv, NEW r \in Requests, NEW op, Execute(r, op)
    PROVE  \E j : Accepted(r, j)
<1> DEFINE todo == IF Executable(row.content)
                   THEN <<"lookup", "consume", "record", "save", "audit">>
                   ELSE <<"lookup", "deny">>
<1>1. PICK e \in Employees, k \in Keys, t \in DOMAIN tokens :
        Accept(r, op, [Store([row.content EXCEPT
                                  !.status = "completed", !.approval = "consumed",
                                  !.executed = [key |-> k, replay |-> FALSE]])
                       EXCEPT !.todo = todo, !.by = e, !.token = t, !.key = k])
  BY DEF Execute
<1> DEFINE x == [key |-> k, replay |-> FALSE]
           c == [row.content EXCEPT !.status = "completed", !.approval = "consumed",
                                    !.executed = x]
<1>2. Sound(c)
  <2>1. x \in Executions
    BY DEF Executions
  <2> HIDE DEF x
  <2> QED
    BY <2>1, SettledSound DEF Execute, Exists, SInv
<1>3. todo \in Scripts /\ todo \notin {<<"record", "save", "audit">>,
                                       <<"issue", "save", "audit">>}
  BY DEF Scripts, SaveScripts, ExecuteScripts
<1>4. t # 0
  BY DEF SInv, ServiceTypeOK
<1>5. Accept(r, op, [Store(c) EXCEPT !.todo = todo, !.by = e, !.token = t, !.key = k])
  BY <1>1
<1> HIDE DEF c, todo
<1> DEFINE j == [todo |-> todo, base |-> row.version, new |-> c, by |-> e,
                 token |-> t, key |-> k, review |-> NoReview]
<1>6. [Store(c) EXCEPT !.todo = todo, !.by = e, !.token = t, !.key = k] = j
  <2> DEFINE saving == <<"save", "audit">>
  <2>1. Store(c) =
          [todo |-> saving, base |-> row.version, new |-> c,
           by |-> NoEmployee, token |-> 0, key |-> NoKey, review |-> NoReview]
    BY StoreRecord
  <2> DEFINE stored == [todo |-> saving, base |-> row.version, new |-> c,
                      by |-> NoEmployee, token |-> 0, key |-> NoKey,
                      review |-> NoReview]
  <2>2. Store(c) = stored
    BY <2>1
  <2> HIDE DEF saving
  <2>3. ASSUME NEW stand, stand = [stored EXCEPT !.todo = todo, !.by = e, !.token = t, !.key = k]
        PROVE  stand = j
    BY <2>3
  <2> HIDE DEF stored, j
  <2> QED
    BY <2>2, <2>3, Zenon
<1>7. LegalJob(j, tokens)
  <2>1. ServiceTypeOK /\ row.version < MaxVersion
    BY <1>1 DEF SInv, Accept
  <2> QED
    BY <1>2, <1>3, <1>4, <2>1, JobLegal
<1>8. j.todo # <<"record", "save", "audit">>
  BY <1>3
<1>9. Accept(r, op, j)
  BY <1>5, <1>6, Zenon
<1>10. Accepted(r, j)
  <2> HIDE DEF j
  <2> QED
    BY <1>7, <1>8, <1>9, Zenon DEF Accept, Accepted, tables
<1> QED
  BY <1>10, Zenon

\* A refused decision has no successor; a clearance needs a reviewable decision.
LEMMA ReviewedSound ==
    ASSUME NEW c, Sound(c), NEW decision \in ReviewDecisions,
           NEW new \in Reviewed(c, decision)
    PROVE  Sound(new)
<1>1. c \in Cases
  BY DEF Sound
<1>2. CASE decision = "blocked"
  <2>1. PICK d \in Transition(c, "rejected") : new = [d EXCEPT !.approval = "rejected"]
    BY <1>2 DEF Reviewed
  <2>2. Working(d)
    BY TransitionWorks, Statuses
  <2>3. Working(new)
    BY <2>1, <2>2 DEF Working, Decided, Cases, ApprovalStatus
  <2> QED
    BY <2>3, WorkingSound
<1>3. CASE decision = "needs_more_information"
  <2>1. PICK d \in Transition(c, "in_analysis") :
          new \in Transition(d, "pending_information")
    BY <1>3 DEF Reviewed
  <2> QED
    BY <2>1, TransitionWorks, Statuses, WorkingSound
<1>4. CASE decision = "cleared"
  <2>1. c.gate.reviewable /\ new \in ClearSpecialistBlock(c)
    BY <1>4 DEF Reviewed
  <2> QED
    BY <2>1, ClearSound
<1> QED
  BY <1>2, <1>3, <1>4 DEF ReviewDecisions

LEMMA ReviewAccepted ==
    ASSUME SInv, NEW r \in Requests, SubmitSpecialistReview(r)
    PROVE  \E j : Accepted(r, j)
<1>1. Sound(row.content)
  BY DEF SubmitSpecialistReview, Exists, SInv
<1>2. PICK role \in RequiredRoles(row.content), decision \in ReviewDecisions :
        \E c \in Reviewed(row.content, decision) :
          Accept(r, "review",
                [Store(c) EXCEPT
                    !.todo = IF decision = "cleared"
                             THEN <<"count", "review", "audit", "save">>
                             ELSE <<"review", "audit", "save">>,
                    !.review = [version |-> row.version, role |-> role,
                                decision |-> decision]])
  BY DEF SubmitSpecialistReview
<1> DEFINE todo == IF decision = "cleared"
                   THEN <<"count", "review", "audit", "save">>
                   ELSE <<"review", "audit", "save">>
           review == [version |-> row.version, role |-> role, decision |-> decision]
<1>3. PICK c \in Reviewed(row.content, decision) :
        Accept(r, "review", [Store(c) EXCEPT !.todo = todo, !.review = review])
  BY <1>2
<1>4. Sound(c)
  BY <1>1, ReviewedSound
<1>5. todo \in Scripts \ ExecuteScripts
        /\ todo \notin {<<"record", "save", "audit">>, <<"issue", "save", "audit">>}
  BY DEF Scripts, SaveScripts, ExecuteScripts
<1>6. role \in Roles
  BY <1>1, LegalIsRole DEF RequiredRoles, Sound, Cases, Decisions
<1>7. review \in Reviews
  BY <1>6 DEF Reviews, SInv, ServiceTypeOK, StoreTypeOK
<1> HIDE DEF todo, review
<1> DEFINE j == [todo |-> todo, base |-> row.version, new |-> c, by |-> NoEmployee,
                 token |-> 0, key |-> NoKey, review |-> review]
<1>8. [Store(c) EXCEPT !.todo = todo, !.review = review] = j
  <2> DEFINE saving == <<"save", "audit">>
  <2>1. Store(c) =
          [todo |-> saving, base |-> row.version, new |-> c,
           by |-> NoEmployee, token |-> 0, key |-> NoKey, review |-> NoReview]
    BY StoreRecord
  <2> DEFINE stored == [todo |-> saving, base |-> row.version, new |-> c,
                      by |-> NoEmployee, token |-> 0, key |-> NoKey,
                      review |-> NoReview]
  <2>2. Store(c) = stored
    BY <2>1
  <2> HIDE DEF saving
  <2>3. ASSUME NEW x, x = [stored EXCEPT !.todo = todo, !.review = review]
        PROVE  x = j
    BY <2>3
  <2> HIDE DEF stored, j
  <2> QED
    BY <2>2, <2>3, Zenon
<1>9. LegalJob(j, tokens)
  <2>1. ServiceTypeOK /\ row.version < MaxVersion
    BY <1>3 DEF SInv, Accept
  <2> QED
    BY <1>4, <1>5, <1>7, <2>1, JobLegal
<1>10. j.todo # <<"record", "save", "audit">>
  BY <1>5
<1>11. Accept(r, "review", j)
  BY <1>3, <1>8
<1>12. Accepted(r, j)
  <2> HIDE DEF j
  <2> QED
    BY <1>9, <1>10, <1>11, Zenon DEF Accept, Accepted, tables
<1> QED
  BY <1>12, Zenon

\* Every handler leaves a legal job and nothing else.
LEMMA HandlerLemma ==
    ASSUME SInv, NEW r \in Requests, Handler(r)
    PROVE  \E j : Accepted(r, j)
<1>1. CASE ApproveCase(r) \/ ApproveSalesCase(r)
  BY <1>1, ApproveAccepted DEF ApproveCase, ApproveSalesCase
<1>2. CASE ExecuteCase(r) \/ ExecuteSalesCaseActions(r)
  BY <1>2, ExecuteAccepted DEF ExecuteCase, ExecuteSalesCaseActions
<1> QED
  BY <1>1, <1>2, EngineHandlers, RejectHandlers, ReviewAccepted, Zenon DEF Handler

-----------------------------------------------------------------------------
(* 2. The calls.                                                           *)

LEMMA ScriptTails ==
    ASSUME NEW s \in Scripts, s # <<>>
    PROVE  /\ Tail(s) \in Scripts
           /\ Len(s) \in Nat
           /\ Len(s) = 1 <=> Tail(s) = <<>>
           /\ Tail(s) \in CaseScripts => s \in CaseScripts
           /\ Tail(s) \in ExecuteScripts => s \in ExecuteScripts
           /\ Tail(s) # <<"issue", "save", "audit">>
           /\ Tail(s) = <<"record", "save", "audit">> => Head(s) = "consume"
<1> USE DEF Scripts, CaseScripts, SaveScripts, ExecuteScripts
<1>1. CASE s = <<"save", "audit">>
  BY <1>1
<1>2. CASE s = <<"issue", "save", "audit">>
  BY <1>2
<1>3. CASE s = <<"count", "review", "audit", "save">>
  BY <1>3
<1>4. CASE s = <<"review", "audit", "save">>
  BY <1>4
<1>5. CASE s = <<"audit", "save">>
  BY <1>5
<1>6. CASE s = <<"save">>
  BY <1>6
<1>7. CASE s = <<"lookup", "consume", "record", "save", "audit">>
  BY <1>7
<1>8. CASE s = <<"consume", "record", "save", "audit">>
  BY <1>8
<1>9. CASE s = <<"record", "save", "audit">>
  BY <1>9
<1>10. CASE s = <<"audit">>
  BY <1>10
<1>11. CASE s = <<"lookup", "deny">>
  BY <1>11
<1>12. CASE s = <<"deny">>
  BY <1>12
<1>13. CASE s = <<"review">>
  BY <1>13
<1> QED
  BY <1>1, <1>2, <1>3, <1>4, <1>5, <1>6, <1>7, <1>8, <1>9, <1>10, <1>11, <1>12, <1>13

\* What a step of one request must leave for SInv to hold again.
LEMMA StepLemma ==
    ASSUME SInv, NEW r \in Requests, NEW j,
           job' = [job EXCEPT ![r] = j], LegalJob(j, tokens'),
           tokens' \in Seq(Tokens), DOMAIN tokens \subseteq DOMAIN tokens',
           results' \in [Keys -> Results],
           \A v \in reviews' : v \in Reviews /\ v.decision = "cleared",
           StoreTypeOK', row'.version > 0 => Sound(row'.content),
           \A q \in Requests \ {r} : txn'[q] = txn[q],
           LegalTxn(r)'
    PROVE  SInv'
<1>1. ServiceTypeOK'
  BY DEF SInv, ServiceTypeOK, LegalJob
<1>2. ASSUME NEW q \in Requests PROVE LegalJob(job'[q], tokens') /\ LegalTxn(q)'
  <2>1. job'[r] = j
    BY DEF SInv, ServiceTypeOK
  <2>2. CASE q = r
    BY <2>1, <2>2
  <2>3. CASE q # r
    <3>1. job'[q] = job[q] /\ txn'[q] = txn[q]
      BY <2>3 DEF SInv, ServiceTypeOK
    <3> QED
      BY <3>1 DEF SInv, LegalJob, LegalTxn
  <2> QED
    BY <2>2, <2>3
<1> QED
  BY <1>1, <1>2 DEF SInv

\* A step of a request that has no transaction open and opens none.
LEMMA QuietStep ==
    ASSUME SInv, NEW r \in Requests, NEW j, Idle(r), UNCHANGED <<row, chain, txn>>,
           job' = [job EXCEPT ![r] = j], LegalJob(j, tokens'),
           tokens' \in Seq(Tokens), DOMAIN tokens \subseteq DOMAIN tokens',
           results' \in [Keys -> Results],
           \A v \in reviews' : v \in Reviews /\ v.decision = "cleared"
    PROVE  SInv'
<1>1. StoreTypeOK'
  BY DEF SInv, ServiceTypeOK, StoreTypeOK
<1>2. row'.version > 0 => Sound(row'.content)
  BY DEF SInv
<1>3. LegalTxn(r)'
  BY DEF LegalTxn, Idle
<1> QED
  BY <1>1, <1>2, <1>3, StepLemma

LEMMA AcceptedStep ==
    ASSUME SInv, NEW r \in Requests, NEW j, Accepted(r, j)
    PROVE  SInv'
<1>1. Idle(r)
  <2>1. txn[r].kind \in {"none", "save", "audit"}
    BY DEF SInv, ServiceTypeOK, StoreTypeOK
  <2>2. LegalTxn(r) /\ job[r].todo = <<>>
    BY DEF Accepted, Free, SInv
  <2> QED
    BY <2>1, <2>2 DEF LegalTxn, Idle
<1> QED
  BY <1>1, QuietStep DEF Accepted, SInv, ServiceTypeOK

\* After a call a handler goes on with the rest of its script, or answers.
LEMMA AdvanceLegal ==
    ASSUME NEW issued, NEW j, LegalJob(j, issued), NEW s \in Scripts,
           s \in CaseScripts => j.todo \in CaseScripts,
           s \in ExecuteScripts => j.todo \in ExecuteScripts,
           s # <<"issue", "save", "audit">>
    PROVE  LegalJob([j EXCEPT !.todo = s], issued)
BY ScriptCalls DEF LegalJob, Jobs

LEMMA CalledLemma ==
    ASSUME SInv, NEW r \in Requests, ~Free(r), job' = Called(r)
    PROVE  \E j : /\ LegalJob(j, tokens)
                  /\ job' = [job EXCEPT ![r] = j]
                  /\ j = NoJob \/ /\ Tail(job[r].todo) # <<>>
                                  /\ j = [job[r] EXCEPT !.todo = Tail(job[r].todo)]
<1>1. LegalJob(job[r], tokens) /\ job[r].todo \in Scripts /\ job[r].todo # <<>>
  BY DEF SInv, LegalJob, Free
<1>2. CASE Len(job[r].todo) = 1
  <2>1. job' = [job EXCEPT ![r] = NoJob]
    BY <1>2 DEF Called, Answered
  <2> QED
    BY <2>1, NoJobLegal
<1>3. CASE Len(job[r].todo) # 1
  <2> DEFINE j == [job[r] EXCEPT !.todo = Tail(job[r].todo)]
  <2>1. job' = [job EXCEPT ![r] = j]
    BY <1>3 DEF Called
  <2>2. LegalJob(j, tokens)
    BY <1>1, ScriptTails, AdvanceLegal
  <2>3. Tail(job[r].todo) # <<>>
    BY <1>1, <1>3, ScriptTails
  <2> QED
    BY <2>1, <2>2, <2>3
<1> QED
  BY <1>2, <1>3

\* A handler at a call is in flight, and its script tells what is left.
LEMMA AtLemma ==
    ASSUME SInv, NEW r \in Requests, NEW call, At(r, call)
    PROVE  /\ ~Free(r) /\ Idle(r)
           /\ Head(job[r].todo) = call
           /\ LegalJob(job[r], tokens)
           /\ job[r].todo \in Scripts
           /\ job[r] \in Jobs
BY DEF At, Free, SInv, LegalJob

LEMMA AnsweredStep ==
    ASSUME SInv, NEW r \in Requests, Idle(r), job' = Answered(r),
           UNCHANGED <<row, chain, txn, tokens, results, reviews>>
    PROVE  SInv'
<1>1. job' = [job EXCEPT ![r] = NoJob] /\ LegalJob(NoJob, tokens')
  BY NoJobLegal DEF Answered
<1> QED
  BY <1>1, QuietStep DEF SInv, ServiceTypeOK

LEMMA IssueStep ==
    ASSUME SInv, NEW r \in Requests, Issue(r)
    PROVE  SInv'
<1>1. /\ Idle(r) /\ LegalJob(job[r], tokens) /\ job[r] \in Jobs
      /\ job[r].todo = <<"issue", "save", "audit">>
  BY AtLemma, ScriptHeads DEF Issue, Free
<1>2. Sound(job[r].new) /\ job[r].by \in Employees /\ job[r].base < MaxVersion
  BY <1>1 DEF LegalJob, CaseScripts, SaveScripts
<1> DEFINE token == [payload |-> job[r].new.payload, approver |-> job[r].by,
                     status |-> "issued", delivered |-> FALSE]
<1>3. token \in Tokens
  BY <1>2 DEF Tokens, Sound, Cases
<1> HIDE DEF token
<1>4. tokens' = Append(tokens, token) /\ tokens \in Seq(Tokens)
  BY DEF Issue, token, SInv, ServiceTypeOK
<1>5. /\ tokens' \in Seq(Tokens)
      /\ DOMAIN tokens \subseteq DOMAIN tokens'
      /\ Len(tokens) + 1 \in DOMAIN tokens'
  BY <1>3, <1>4
<1> DEFINE todo == <<"save", "audit">>
           j    == [job[r] EXCEPT !.todo = todo, !.token = Len(tokens) + 1]
<1>6. job' = [job EXCEPT ![r] = j]
  <2>1. Tail(job[r].todo) = todo
    BY <1>1
  <2> QED
    BY <2>1 DEF Issue
<1>7. LegalJob(j, tokens')
  <2>1. todo \in Scripts \ ExecuteScripts /\ todo # <<"issue", "save", "audit">>
    BY DEF Scripts, SaveScripts, ExecuteScripts
  <2>2. todo \in Seq(Calls)
    BY <2>1, ScriptCalls
  <2> HIDE DEF todo
  <2>3. Len(tokens) + 1 \in Nat
    BY <1>4
  <2>4. /\ j \in Jobs /\ j.todo = todo /\ j.token = Len(tokens) + 1
        /\ j.new = job[r].new /\ j.base = job[r].base
    BY <1>1, <2>2, <2>3 DEF Jobs
  <2> QED
    BY <1>2, <1>5, <2>1, <2>4 DEF LegalJob
<1>8. UNCHANGED <<row, chain, txn, results, reviews>>
  BY DEF Issue
<1> HIDE DEF j
<1> QED
  BY <1>1, <1>5, <1>6, <1>7, <1>8, QuietStep DEF SInv, ServiceTypeOK

\* Calls after which the handler goes on and the tables keep their types.
LEMMA CalledStep ==
    ASSUME SInv, NEW r \in Requests, ~Free(r), Idle(r), job' = Called(r),
           UNCHANGED <<row, chain, txn>>,
           tokens' \in Seq(Tokens), DOMAIN tokens' = DOMAIN tokens,
           results' \in [Keys -> Results],
           \A v \in reviews' : v \in Reviews /\ v.decision = "cleared"
    PROVE  SInv'
<1>1. PICK j : LegalJob(j, tokens) /\ job' = [job EXCEPT ![r] = j]
  BY CalledLemma
<1>2. LegalJob(j, tokens')
  BY <1>1 DEF LegalJob
<1> QED
  BY <1>1, <1>2, QuietStep

LEMMA LookupStep ==
    ASSUME SInv, NEW r \in Requests, Lookup(r)
    PROVE  SInv'
<1>1. /\ Idle(r) /\ ~Free(r) /\ LegalJob(job[r], tokens)
      /\ job[r] \in Jobs /\ job[r].todo \in CaseScripts
  BY AtLemma, ScriptHeads DEF Lookup, Free, CaseScripts, ExecuteScripts
<1>2. UNCHANGED <<row, chain, txn, tokens, results, reviews>>
  BY DEF Lookup, tables
<1>3. CASE job' = Called(r)
  BY <1>1, <1>2, <1>3, CalledStep DEF SInv, ServiceTypeOK
<1>4. CASE job' # Called(r)
  <2> DEFINE todo == <<"save", "audit">>
             new == Replayed(job[r].new)
             j == [NoJob EXCEPT !.todo = todo, !.base = job[r].base, !.new = new]
  <2>1. job' = [job EXCEPT ![r] = j]
    BY <1>4 DEF Lookup
  <2>2. todo \in Scripts \ ExecuteScripts /\ todo # <<"issue", "save", "audit">>
    BY DEF Scripts, SaveScripts, ExecuteScripts
  <2>3. todo \in Seq(Calls)
    BY <2>2, ScriptCalls
  <2>4. NoJob \in Jobs
    BY NoJobLegal DEF LegalJob
  <2>5. Sound(new)
    BY <1>1, SettledSound DEF LegalJob
  <2> HIDE DEF todo, new
  <2>6. /\ j \in Jobs /\ j.todo = todo /\ j.token = NoJob.token
        /\ j.new = new /\ j.base = job[r].base
    BY <1>1, <2>3, <2>4, <2>5 DEF Jobs, Sound
  <2>7. NoJob.token = 0
    BY DEF NoJob
  <2>8. LegalJob(j, tokens)
    BY <1>1, <2>2, <2>5, <2>6, <2>7 DEF LegalJob
  <2> HIDE DEF j
  <2> QED
    BY <1>1, <1>2, <2>1, <2>8, QuietStep DEF SInv, ServiceTypeOK
<1> QED
  BY <1>3, <1>4

LEMMA DenyStep ==
    ASSUME SInv, NEW r \in Requests, Deny(r)
    PROVE  SInv'
BY AtLemma, AnsweredStep DEF Deny, tables

\* What the calls on tokens keep: their number, payload and approver, and that
\* a consumed token is not issued again.
TokensUsed ==
    /\ tokens' \in Seq(Tokens)
    /\ DOMAIN tokens' = DOMAIN tokens
    /\ \A t \in DOMAIN tokens :
          /\ tokens'[t].payload = tokens[t].payload
          /\ tokens'[t].approver = tokens[t].approver
          /\ tokens[t].status = "consumed" => tokens'[t].status = "consumed"

LEMMA TokenReplaced ==
    ASSUME ServiceTypeOK, NEW t \in DOMAIN tokens, NEW token \in Tokens,
           tokens' = [tokens EXCEPT ![t] = token],
           token.payload = tokens[t].payload, token.approver = tokens[t].approver,
           tokens[t].status = "consumed" => token.status = "consumed"
    PROVE  TokensUsed /\ tokens'[t] = token
<1>1. tokens \in Seq(Tokens)
  BY DEF ServiceTypeOK
<1>2. tokens' \in Seq(Tokens) /\ DOMAIN tokens' = DOMAIN tokens
  BY <1>1
<1>3. \A u \in DOMAIN tokens : tokens'[u] = IF u = t THEN token ELSE tokens[u]
  BY <1>1
<1> QED
  BY <1>2, <1>3 DEF TokensUsed

LEMMA ConsumedTokens ==
    ASSUME ServiceTypeOK, NEW t \in DOMAIN tokens,
           tokens' = [tokens EXCEPT ![t].status = "consumed"]
    PROVE  TokensUsed /\ tokens'[t].status = "consumed"
<1> DEFINE token == [tokens[t] EXCEPT !.status = "consumed"]
<1>1. tokens[t] \in Tokens
  BY DEF ServiceTypeOK
<1>2. /\ token \in Tokens /\ token.status = "consumed"
      /\ token.payload = tokens[t].payload /\ token.approver = tokens[t].approver
  BY <1>1 DEF Tokens
<1>3. tokens' = [tokens EXCEPT ![t] = token]
  OBVIOUS
<1> HIDE DEF token
<1> QED
  BY <1>2, <1>3, TokenReplaced

LEMMA DeliveredTokens ==
    ASSUME ServiceTypeOK, NEW r \in Requests, tokens' = Delivered(r),
           job[r].token \in {0} \cup DOMAIN tokens
    PROVE  TokensUsed
<1> DEFINE t     == job[r].token
           token == [tokens[t] EXCEPT !.delivered = TRUE]
<1>1. CASE Len(job[r].todo) = 1 /\ t # 0
  <2>1. tokens' = [tokens EXCEPT ![t] = token] /\ t \in DOMAIN tokens
    BY <1>1 DEF Delivered
  <2>2. tokens[t] \in Tokens
    BY <2>1 DEF ServiceTypeOK
  <2>3. /\ token \in Tokens /\ token.status = tokens[t].status
        /\ token.payload = tokens[t].payload /\ token.approver = tokens[t].approver
    BY <2>2 DEF Tokens
  <2> HIDE DEF token, t
  <2> QED
    BY <2>1, <2>3, TokenReplaced
<1>2. CASE ~(Len(job[r].todo) = 1 /\ t # 0)
  <2>1. tokens' = tokens
    BY <1>2 DEF Delivered
  <2> QED
    BY <2>1 DEF ServiceTypeOK, TokensUsed
<1> QED
  BY <1>1, <1>2

LEMMA ConsumeStep ==
    ASSUME SInv, NEW r \in Requests, Consume(r)
    PROVE  SInv'
<1>1. /\ Idle(r) /\ ~Free(r) /\ LegalJob(job[r], tokens)
      /\ job[r].todo = <<"consume", "record", "save", "audit">>
  BY AtLemma, ScriptHeads DEF Consume, Free
<1>2. job[r].token \in DOMAIN tokens
  BY <1>1 DEF LegalJob, ExecuteScripts
<1>3. UNCHANGED <<row, chain, txn, results, reviews>>
  BY DEF Consume
<1>4. CASE job' = Called(r) /\ tokens' = [tokens EXCEPT ![job[r].token].status = "consumed"]
  <2>1. tokens' \in Seq(Tokens) /\ DOMAIN tokens' = DOMAIN tokens
    BY <1>2, <1>4, ConsumedTokens DEF SInv, TokensUsed
  <2> QED
    BY <1>1, <1>3, <1>4, <2>1, CalledStep DEF SInv, ServiceTypeOK
<1>5. CASE job' = Answered(r) /\ tokens' = tokens
  BY <1>1, <1>3, <1>5, AnsweredStep
<1> QED
  BY <1>4, <1>5 DEF Consume

\* The results keep their type, and what was recorded stays.
LEMMA RecordedResults ==
    ASSUME SInv, NEW r \in Requests, RecordResult(r)
    PROVE  /\ job[r].todo = <<"record", "save", "audit">>
           /\ job[r].key \in Keys /\ job[r].token \in DOMAIN tokens
           /\ results' \in [Keys -> Results]
           /\ \A k \in Keys :
                 \/ results'[k] = results[k]
                 \/ /\ k = job[r].key
                    /\ results[k] = NoResult
                    /\ results'[k] = Result(job[r])
           /\ Result(job[r]).case = "this"
<1>1. /\ LegalJob(job[r], tokens)
      /\ job[r].todo = <<"record", "save", "audit">>
  BY AtLemma, ScriptHeads DEF RecordResult, Free
<1>2. /\ Sound(job[r].new) /\ job[r].by \in Employees /\ job[r].key \in Keys
      /\ job[r].token \in DOMAIN tokens
  BY <1>1 DEF LegalJob, CaseScripts, ExecuteScripts
<1> DEFINE result == Result(job[r])
<1>3. result \in Results /\ result.case = "this"
  BY <1>2 DEF Result, Results, Sound, Cases, SInv, ServiceTypeOK
<1>4. results' = [results EXCEPT ![job[r].key] = IF @ # NoResult THEN @ ELSE result]
  BY DEF RecordResult
<1> HIDE DEF result
<1>5. results' \in [Keys -> Results]
  BY <1>2, <1>3, <1>4 DEF SInv, ServiceTypeOK
<1>6. \A k \in Keys : \/ results'[k] = results[k]
                      \/ k = job[r].key /\ results[k] = NoResult /\ results'[k] = result
  BY <1>2, <1>4 DEF SInv, ServiceTypeOK
<1> QED
  BY <1>1, <1>2, <1>3, <1>5, <1>6 DEF result

LEMMA RecordResultStep ==
    ASSUME SInv, NEW r \in Requests, RecordResult(r)
    PROVE  SInv'
<1>1. ~Free(r) /\ Idle(r)
  BY AtLemma DEF RecordResult
<1>2. results' \in [Keys -> Results]
  BY RecordedResults
<1> QED
  BY <1>1, <1>2, CalledStep DEF RecordResult, SInv, ServiceTypeOK

LEMMA CountClearancesStep ==
    ASSUME SInv, NEW r \in Requests, CountClearances(r)
    PROVE  SInv'
<1>1. /\ Idle(r) /\ ~Free(r) /\ LegalJob(job[r], tokens)
  BY AtLemma DEF CountClearances
<1>2. UNCHANGED <<row, chain, txn, tokens, results, reviews>>
  BY DEF CountClearances, tables
<1>3. CASE job' = Called(r)
  BY <1>1, <1>2, <1>3, CalledStep DEF SInv, ServiceTypeOK
<1>4. CASE job' = [job EXCEPT ![r].todo = <<"review">>]
  <2> DEFINE j == [job[r] EXCEPT !.todo = <<"review">>]
  <2>1. <<"review">> \in Scripts \ CaseScripts
    BY DEF Scripts, CaseScripts, SaveScripts, ExecuteScripts
  <2>2. <<"review">> \notin ExecuteScripts /\ <<"review">> # <<"issue", "save", "audit">>
    BY DEF ExecuteScripts
  <2>3. LegalJob(j, tokens)
    BY <1>1, <2>1, <2>2, AdvanceLegal
  <2>4. job' = [job EXCEPT ![r] = j]
    BY <1>4
  <2> HIDE DEF j
  <2> QED
    BY <1>1, <1>2, <2>3, <2>4, QuietStep DEF SInv, ServiceTypeOK
<1> QED
  BY <1>3, <1>4 DEF CountClearances

LEMMA SaveSpecialistReviewStep ==
    ASSUME SInv, NEW r \in Requests, SaveSpecialistReview(r)
    PROVE  SInv'
<1>1. ~Free(r) /\ Idle(r) /\ job[r] \in Jobs
  BY AtLemma DEF SaveSpecialistReview
<1>2. \A v \in reviews' : v \in Reviews /\ v.decision = "cleared"
  <2>1. job[r].review.decision = "cleared" => job[r].review \in Reviews
    BY <1>1 DEF Jobs, NoReview
  <2> QED
    BY <2>1 DEF SaveSpecialistReview, SInv, ServiceTypeOK
<1> QED
  BY <1>1, <1>2, CalledStep DEF SaveSpecialistReview, SInv, ServiceTypeOK

LEMMA SaveCaseStep ==
    ASSUME SInv, NEW r \in Requests, SaveCase(r)
    PROVE  SInv'
<1>1. /\ LegalJob(job[r], tokens) /\ job[r] \in Jobs
      /\ job[r].todo \in {<<"save", "audit">>, <<"save">>}
  BY AtLemma, ScriptHeads DEF SaveCase, Free
<1>2. Sound(job[r].new) /\ job[r].base \in Nat
  BY <1>1 DEF LegalJob, CaseScripts, SaveScripts, Jobs
<1>3. /\ txn' = [txn EXCEPT ![r] = SaveTxn(job[r].base, job[r].new)]
      /\ UNCHANGED <<row, chain, tokens, results, reviews, job>>
  BY DEF SaveCase, SaveSelect, tables
<1>4. StoreTypeOK'
  BY <1>2, <1>3 DEF SInv, ServiceTypeOK, StoreTypeOK, SaveTxn, Sound
<1>5. txn'[r].kind = "save" /\ txn'[r].content = job[r].new
  BY <1>3 DEF SInv, ServiceTypeOK, StoreTypeOK, SaveTxn
<1>6. LegalTxn(r)'
  BY <1>1, <1>2, <1>3, <1>5 DEF LegalTxn
<1>7. \A q \in Requests \ {r} : txn'[q] = txn[q]
  BY <1>3 DEF SInv, ServiceTypeOK, StoreTypeOK
<1>8. job' = [job EXCEPT ![r] = job[r]]
  BY <1>3 DEF SInv, ServiceTypeOK
<1> QED
  BY <1>1, <1>3, <1>4, <1>6, <1>7, <1>8, StepLemma DEF SInv, ServiceTypeOK

LEMMA SaveConflictStep ==
    ASSUME SInv, NEW r \in Requests, SaveConflict(r)
    PROVE  SInv'
BY AtLemma, AnsweredStep DEF SaveConflict, SaveRefused, storeVars, tables

LEMMA CommitCaseStep ==
    ASSUME SInv, NEW r \in Requests, CommitCase(r)
    PROVE  SInv'
<1>1. /\ txn[r].kind = "save"
      /\ row'.version \in Nat /\ row'.content = txn[r].content
      /\ row' \in [version : Nat, content : Cases \cup {NoContent}]
      /\ txn' = [txn EXCEPT ![r] = NoTxn]
      /\ UNCHANGED <<chain, tokens, results, reviews>>
  BY DEF CommitCase, SaveUpdate, SaveInsert, tables, SInv, ServiceTypeOK, StoreTypeOK
<1>2. Sound(txn[r].content) /\ job[r].todo \in {<<"save", "audit">>, <<"save">>}
  BY <1>1 DEF SInv, LegalTxn
<1>3. txn'[r] = NoTxn /\ \A q \in Requests \ {r} : txn'[q] = txn[q]
  BY <1>1 DEF SInv, ServiceTypeOK, StoreTypeOK
<1>4. StoreTypeOK'
  BY <1>1 DEF SInv, ServiceTypeOK, StoreTypeOK, NoTxn
<1>5. LegalTxn(r)'
  BY <1>3 DEF LegalTxn, NoTxn
<1>6. \E j : job' = [job EXCEPT ![r] = j] /\ LegalJob(j, tokens)
  <2>1. CASE job[r].todo = <<"save">>
    <3>1. Len(job[r].todo) = 1
      BY <2>1
    <3>2. job' = [job EXCEPT ![r] = NoJob]
      BY <3>1 DEF CommitCase, Answered
    <3> QED
      BY <3>2, NoJobLegal
  <2>2. CASE job[r].todo = <<"save", "audit">>
    <3> DEFINE todo == <<"audit">>
               j    == [NoJob EXCEPT !.todo = todo, !.token = job[r].token]
    <3>1. Len(job[r].todo) # 1 /\ Tail(job[r].todo) = todo
      BY <2>2
    <3>2. job' = [job EXCEPT ![r] = j]
      BY <3>1 DEF CommitCase
    <3>3. todo \in Scripts \ CaseScripts /\ todo \notin ExecuteScripts
      BY DEF Scripts, CaseScripts, SaveScripts, ExecuteScripts
    <3>4. todo # <<"issue", "save", "audit">> /\ todo \in Seq(Calls)
      BY <3>3, ScriptCalls
    <3>5. /\ NoJob \in Jobs
          /\ job[r].token \in {0} \cup DOMAIN tokens /\ job[r].token \in Nat
      BY NoJobLegal DEF SInv, LegalJob, Jobs
    <3> HIDE DEF todo
    <3>6. j \in Jobs /\ j.todo = todo /\ j.token = job[r].token
      BY <3>4, <3>5 DEF Jobs
    <3>7. LegalJob(j, tokens)
      BY <3>3, <3>4, <3>5, <3>6 DEF LegalJob
    <3> QED
      BY <3>2, <3>7
  <2> QED
    BY <1>2, <2>1, <2>2
<1> QED
  BY <1>1, <1>2, <1>3, <1>4, <1>5, <1>6, StepLemma DEF SInv, ServiceTypeOK

LEMMA AppendAuditStep ==
    ASSUME SInv, NEW r \in Requests, AppendAudit(r)
    PROVE  SInv'
<1>1. /\ LegalJob(job[r], tokens)
      /\ job[r].todo \in {<<"audit">>, <<"audit", "save">>}
  BY AtLemma, ScriptHeads DEF AppendAudit, Free
<1>2. /\ txn' = [txn EXCEPT ![r] = AuditTxn(Len(chain))]
      /\ UNCHANGED <<row, chain, tokens, results, reviews, job>>
  BY DEF AppendAudit, AuditSelect, tables
<1>3. StoreTypeOK'
  BY <1>2 DEF SInv, ServiceTypeOK, StoreTypeOK, AuditTxn
<1>4. txn'[r].kind = "audit" /\ \A q \in Requests \ {r} : txn'[q] = txn[q]
  BY <1>2 DEF SInv, ServiceTypeOK, StoreTypeOK, AuditTxn
<1>5. LegalTxn(r)'
  BY <1>1, <1>2, <1>4 DEF LegalTxn
<1>6. job' = [job EXCEPT ![r] = job[r]]
  BY <1>2 DEF SInv, ServiceTypeOK
<1> QED
  BY <1>1, <1>2, <1>3, <1>4, <1>5, <1>6, StepLemma DEF SInv, ServiceTypeOK

LEMMA CommitAuditStep ==
    ASSUME SInv, NEW r \in Requests, CommitAudit(r)
    PROVE  SInv'
<1>1. /\ txn[r].kind = "audit"
      /\ chain' = Append(chain, txn[r].tail)
      /\ txn' = [txn EXCEPT ![r] = NoTxn]
      /\ UNCHANGED <<row, results, reviews>>
  BY DEF CommitAudit, AuditInsert
<1>2. ~Free(r) /\ LegalJob(job[r], tokens)
  <2>1. LegalJob(job[r], tokens) /\ LegalTxn(r)
    BY DEF SInv
  <2>2. job[r].todo = <<"audit">> \/ job[r].todo = <<"audit", "save">>
    BY <1>1, <2>1 DEF LegalTxn
  <2>3. ~Free(r)
    BY <2>2 DEF Free
  <2> QED
    BY <2>1, <2>3
<1>3. txn'[r] = NoTxn /\ \A q \in Requests \ {r} : txn'[q] = txn[q]
  BY <1>1 DEF SInv, ServiceTypeOK, StoreTypeOK
<1>4. StoreTypeOK'
  BY <1>1 DEF SInv, ServiceTypeOK, StoreTypeOK, NoTxn
<1>5. LegalTxn(r)'
  BY <1>3 DEF LegalTxn, NoTxn
<1>6. PICK j : LegalJob(j, tokens) /\ job' = [job EXCEPT ![r] = j]
  BY <1>2, CalledLemma DEF CommitAudit
<1>7. tokens' \in Seq(Tokens) /\ DOMAIN tokens' = DOMAIN tokens
  BY <1>2, DeliveredTokens DEF CommitAudit, TokensUsed, SInv, LegalJob
<1>8. LegalJob(j, tokens')
  BY <1>6, <1>7 DEF LegalJob
<1> QED
  BY <1>1, <1>3, <1>4, <1>5, <1>6, <1>7, <1>8, StepLemma DEF SInv, ServiceTypeOK

LEMMA AuditUnfollowedStep ==
    ASSUME SInv, NEW r \in Requests, AuditUnfollowed(r)
    PROVE  SInv'
<1>1. ~Free(r) /\ Idle(r) /\ LegalJob(job[r], tokens)
  BY AtLemma DEF AuditUnfollowed
<1>2. tokens' \in Seq(Tokens) /\ DOMAIN tokens' = DOMAIN tokens
  BY <1>1, DeliveredTokens DEF AuditUnfollowed, TokensUsed, SInv, LegalJob
<1> QED
  BY <1>1, <1>2, CalledStep DEF AuditUnfollowed, SInv, ServiceTypeOK

LEMMA DieStep ==
    ASSUME SInv, NEW r \in Requests, Die(r)
    PROVE  SInv'
<1>1. job' = Answered(r) /\ UNCHANGED <<tokens, results, reviews>>
  BY DEF Die, tables
<1>2. CASE Idle(r)
  BY <1>1, <1>2, AnsweredStep DEF Die
<1>3. CASE ~Idle(r)
  <2>1. txn' = [txn EXCEPT ![r] = NoTxn] /\ UNCHANGED <<row, chain>>
    BY <1>3 DEF Die, Rollback
  <2>2. txn'[r] = NoTxn /\ \A q \in Requests \ {r} : txn'[q] = txn[q]
    BY <2>1 DEF SInv, ServiceTypeOK, StoreTypeOK
  <2>3. StoreTypeOK'
    BY <2>1 DEF SInv, ServiceTypeOK, StoreTypeOK, NoTxn
  <2>4. LegalTxn(r)'
    BY <2>2 DEF LegalTxn, NoTxn
  <2>5. job' = [job EXCEPT ![r] = NoJob] /\ LegalJob(NoJob, tokens')
    BY <1>1, NoJobLegal DEF Answered
  <2> QED
    BY <1>1, <2>1, <2>2, <2>3, <2>4, <2>5, StepLemma DEF SInv, ServiceTypeOK
<1> QED
  BY <1>2, <1>3

\* Another case's record takes a key that has none, and is none of this case's.
LEMMA ElsewhereLemma ==
    ASSUME SInv, NEW k \in Keys, RecordElsewhere(k)
    PROVE  /\ UNCHANGED <<row, chain, txn, tokens, reviews, job>>
           /\ results' \in [Keys -> Results]
           /\ \A l \in Keys : results[l] # NoResult => results'[l] = results[l]
           /\ \A l \in Keys : results'[l].case = "this" => results'[l] = results[l]
<1>1. OthersResult \in Results /\ OthersResult.case # "this"
  BY DEF OthersResult, NoResult, Results
<1>2. /\ results' = [results EXCEPT ![k] = OthersResult] /\ results[k] = NoResult
      /\ results \in [Keys -> Results]
  BY DEF RecordElsewhere, SInv, ServiceTypeOK
<1> QED
  BY <1>1, <1>2 DEF RecordElsewhere

LEMMA ElsewhereStep ==
    ASSUME SInv, NEW k \in Keys, RecordElsewhere(k)
    PROVE  SInv'
BY ElsewhereLemma DEF SInv, ServiceTypeOK, StoreTypeOK, LegalTxn

-----------------------------------------------------------------------------
(* 2. Types and justified approvals.                                       *)

LEMMA InitSInv == ServiceInit => SInv
<1> SUFFICES ASSUME ServiceInit PROVE SInv
  OBVIOUS
<1>1. StoreTypeOK
  BY DEF ServiceInit, StoreInit, StoreTypeOK, NoTxn
<1>2. NoJob \in Jobs /\ NoJob.todo = <<>>
  BY NoJobLegal DEF LegalJob, NoJob
<1>3. ServiceTypeOK
  BY <1>1, <1>2 DEF ServiceInit, ServiceTypeOK, Results, NoResult
<1>4. \A r \in Requests : LegalJob(job[r], tokens) /\ LegalTxn(r)
  BY NoJobLegal DEF ServiceInit, StoreInit, LegalTxn, NoTxn
<1> QED
  BY <1>3, <1>4 DEF SInv, ServiceInit, StoreInit

LEMMA NextSInv == SInv /\ [ServiceNext]_vars => SInv'
<1> SUFFICES ASSUME SInv, [ServiceNext]_vars PROVE SInv'
  OBVIOUS
<1>1. ASSUME NEW r \in Requests, Handler(r) PROVE SInv'
  BY <1>1, HandlerLemma, AcceptedStep
<1>2. ASSUME NEW r \in Requests, Call(r) PROVE SInv'
  BY <1>2, IssueStep, LookupStep, DenyStep, ConsumeStep, RecordResultStep,
     CountClearancesStep, SaveSpecialistReviewStep, SaveCaseStep, SaveConflictStep,
     CommitCaseStep, AppendAuditStep, CommitAuditStep, AuditUnfollowedStep DEF Call
<1>3. CASE UNCHANGED vars
  BY <1>3 DEF vars, SInv, ServiceTypeOK, StoreTypeOK, LegalTxn
<1> QED
  BY <1>1, <1>2, <1>3, DieStep, ElsewhereStep DEF ServiceNext, GetCase

LEMMA ServiceInvariant == ServiceSpec => []SInv
BY InitSInv, NextSInv, PTL DEF ServiceSpec

\* The variables keep their types whatever handlers run, in whatever order their
\* calls are made, and wherever they die.
THEOREM ServiceTypeCorrect == ServiceSpec => []ServiceTypeOK
<1>1. SInv => ServiceTypeOK
  BY DEF SInv
<1> QED
  BY <1>1, ServiceInvariant, PTL

\* No interleaving of saves, lost or not, stores a case that waits for an
\* approval neither the gate nor a specialist justified.
THEOREM ApprovalJustified == ServiceSpec => []PendingApprovalJustified
<1>1. SInv => PendingApprovalJustified
  BY DEF SInv, Sound, Justified, PendingApprovalJustified
<1> QED
  BY <1>1, ServiceInvariant, PTL

-----------------------------------------------------------------------------
(* 2. The repository.                                                      *)

\* A call that opens no transaction and commits none is none of the store's.
LEMMA StoreStep ==
    ASSUME SInv, ServiceNext
    PROVE  StoreNext \/ UNCHANGED storeVars
<1>1. ASSUME NEW r \in Requests, Handler(r) PROVE UNCHANGED storeVars
  BY <1>1, HandlerLemma DEF Accepted, storeVars
<1>2. ASSUME NEW r \in Requests,
             \/ Issue(r) \/ Lookup(r) \/ Deny(r) \/ Consume(r) \/ RecordResult(r)
             \/ CountClearances(r) \/ SaveSpecialistReview(r) \/ SaveConflict(r)
             \/ AuditUnfollowed(r) \/ GetCase(r)
      PROVE  UNCHANGED storeVars
  BY <1>2 DEF Issue, Lookup, Deny, Consume, RecordResult, CountClearances,
              SaveSpecialistReview, SaveConflict, SaveRefused, AuditUnfollowed,
              GetCase, tables, vars, storeVars
\* What a handler saves is a case, computed from a version below the bound.
<1>3. ASSUME NEW r \in Requests, SaveCase(r) PROVE StoreNext
  <2>1. /\ LegalJob(job[r], tokens) /\ job[r] \in Jobs
        /\ job[r].todo \in {<<"save", "audit">>, <<"save">>}
    BY <1>3, AtLemma, ScriptHeads DEF SaveCase, Free
  <2>2. /\ job[r].new \in Cases /\ job[r].base \in 0..MaxVersion
        /\ job[r].base < MaxVersion
    BY <2>1, ServiceAssumption DEF LegalJob, CaseScripts, SaveScripts, Sound, Jobs
  <2> QED
    BY <1>3, <2>2 DEF SaveCase, StoreNext
<1>4. ASSUME NEW r \in Requests, CommitCase(r) PROVE StoreNext
  BY <1>4 DEF CommitCase, StoreNext
<1>5. ASSUME NEW r \in Requests, AppendAudit(r) \/ CommitAudit(r) PROVE StoreNext
  BY <1>5 DEF AppendAudit, CommitAudit, StoreNext
\* A handler that dies inside a transaction has it rolled back.
<1>6. ASSUME NEW r \in Requests, Die(r) PROVE StoreNext \/ UNCHANGED storeVars
  BY <1>6 DEF Die, StoreNext, storeVars
<1>7. ASSUME NEW k \in Keys, RecordElsewhere(k) PROVE UNCHANGED storeVars
  BY <1>7 DEF RecordElsewhere, storeVars
<1> QED
  BY <1>1, <1>2, <1>3, <1>4, <1>5, <1>6, <1>7 DEF ServiceNext, Call

\* Whatever the handlers do between them, and wherever they die, the database
\* sees save_case and append_audit called as by any client of V2Repository.
THEOREM ServiceUsesStore == ServiceSpec => StoreSpec
<1>1. ServiceInit => StoreInit
  BY DEF ServiceInit
<1>2. SInv /\ [ServiceNext]_vars => [StoreNext]_storeVars
  BY StoreStep DEF vars, storeVars
<1> QED
  BY <1>1, <1>2, ServiceInvariant, PTL DEF ServiceSpec, StoreSpec

-----------------------------------------------------------------------------
(* 3. The invariant.                                                       *)

\* The handler has used its token up and not recorded the result yet.
Holding(r) == job[r].todo = <<"record", "save", "audit">>

\* What a handler holds is consumed for its action, recorded under no key and
\* held by no other handler.
HoldersOwnTokens ==
    /\ \A r \in Requests : Holding(r) =>
          /\ tokens[job[r].token].status = "consumed"
          /\ tokens[job[r].token].payload = job[r].new.payload
          /\ tokens[job[r].token].approver = job[r].by
          /\ \A k \in Recorded : results[k].token # job[r].token
    /\ \A q, r \in Requests :
          Holding(q) /\ Holding(r) /\ job[q].token = job[r].token => q = r

AInv == OneActionPerApproval /\ HoldersOwnTokens

-----------------------------------------------------------------------------
(* 3. Steps that leave the holders alone.                                  *)

TokensKept ==
    \A t \in DOMAIN tokens :
       /\ t \in DOMAIN tokens'
       /\ tokens'[t].payload = tokens[t].payload
       /\ tokens'[t].approver = tokens[t].approver
       /\ tokens[t].status = "consumed" => tokens'[t].status = "consumed"

\* Nobody starts to hold a token, and who holds one goes on or gives it up.
HoldersKept == \A r \in Requests : Holding(r)' => job'[r] = job[r]

\* No action of this case is recorded.
ResultsKeep == \A k \in Keys : results'[k].case = "this" => results'[k] = results[k]

LEMMA SameResults == results' = results => ResultsKeep
BY DEF ResultsKeep

LEMMA HolderToken ==
    ASSUME SInv, NEW r \in Requests, Holding(r)
    PROVE  job[r].token \in DOMAIN tokens
BY DEF SInv, LegalJob, Holding, ExecuteScripts

LEMMA KeptStep ==
    ASSUME SInv, AInv, TokensKept, HoldersKept, ResultsKeep
    PROVE  AInv'
<1>1. \A k \in Recorded' : k \in Recorded /\ results'[k] = results[k]
  BY DEF Recorded, ResultsKeep
<1>2. OneActionPerApproval'
  BY <1>1 DEF AInv, OneActionPerApproval, TokensKept
<1>3. \A r \in Requests : Holding(r)' => Holding(r) /\ job'[r] = job[r]
  BY DEF HoldersKept, Holding
<1>4. HoldersOwnTokens'
  <2>1. ASSUME NEW r \in Requests, Holding(r)'
        PROVE  /\ tokens'[job'[r].token].status = "consumed"
               /\ tokens'[job'[r].token].payload = job'[r].new.payload
               /\ tokens'[job'[r].token].approver = job'[r].by
               /\ \A k \in Recorded' : results'[k].token # job'[r].token
    BY <1>1, <1>3, <2>1, HolderToken DEF AInv, HoldersOwnTokens, TokensKept
  <2>2. \A q, r \in Requests :
           Holding(q)' /\ Holding(r)' /\ job'[q].token = job'[r].token => q = r
    BY <1>3 DEF AInv, HoldersOwnTokens
  <2> QED
    BY <2>1, <2>2 DEF HoldersOwnTokens
<1> QED
  BY <1>2, <1>4 DEF AInv

\* A handler whose new job holds nothing.
LEMMA OwnJobKept ==
    ASSUME SInv, NEW r \in Requests, NEW j, job' = [job EXCEPT ![r] = j],
           j.todo # <<"record", "save", "audit">>
    PROVE  HoldersKept
<1>1. job'[r] = j /\ \A q \in Requests \ {r} : job'[q] = job[q]
  BY DEF SInv, ServiceTypeOK
<1> QED
  BY <1>1 DEF HoldersKept, Holding

LEMMA AnsweredKept ==
    ASSUME SInv, NEW r \in Requests, job' = Answered(r)
    PROVE  HoldersKept
<1>1. job' = [job EXCEPT ![r] = NoJob]
  BY DEF Answered
<1>2. NoJob.todo # <<"record", "save", "audit">>
  BY DEF NoJob
<1> QED
  BY <1>1, <1>2, OwnJobKept

\* Only consume leads to holding a token.
LEMMA CalledKept ==
    ASSUME SInv, NEW r \in Requests, ~Free(r), job' = Called(r),
           Head(job[r].todo) # "consume"
    PROVE  HoldersKept
<1>1. PICK j : /\ job' = [job EXCEPT ![r] = j]
               /\ j = NoJob \/ j = [job[r] EXCEPT !.todo = Tail(job[r].todo)]
  BY CalledLemma
<1>2. job[r] \in Jobs /\ job[r].todo \in Scripts /\ job[r].todo # <<>>
  BY DEF SInv, LegalJob, Free
<1>3. Tail(job[r].todo) # <<"record", "save", "audit">>
  BY <1>2, ScriptTails
<1>4. NoJob.todo # <<"record", "save", "audit">>
  BY DEF NoJob
<1>5. j = [job[r] EXCEPT !.todo = Tail(job[r].todo)] => j.todo = Tail(job[r].todo)
  BY <1>2 DEF Jobs
<1>6. j.todo # <<"record", "save", "audit">>
  BY <1>1, <1>3, <1>4, <1>5
<1> QED
  BY <1>1, <1>6, OwnJobKept

LEMMA SameTokens == UNCHANGED tokens => TokensKept
BY DEF TokensKept

LEMMA UsedTokens == TokensUsed => TokensKept
BY DEF TokensUsed, TokensKept

\* Every step but consume and record.
LEMMA IssueKept ==
    ASSUME SInv, NEW r \in Requests, Issue(r)
    PROVE  TokensKept /\ HoldersKept /\ results' = results
<1>1. /\ job[r] \in Jobs
      /\ job[r].todo = <<"issue", "save", "audit">>
  BY AtLemma, ScriptHeads DEF Issue, Free
<1> DEFINE token == [payload |-> job[r].new.payload, approver |-> job[r].by,
                     status |-> "issued", delivered |-> FALSE]
<1>2. tokens' = Append(tokens, token) /\ tokens \in Seq(Tokens)
  BY DEF Issue, SInv, ServiceTypeOK
<1> HIDE DEF token
<1>3. TokensKept
  BY <1>2 DEF TokensKept
<1> DEFINE todo == <<"save", "audit">>
           j    == [job[r] EXCEPT !.todo = todo, !.token = Len(tokens) + 1]
<1>4. Tail(job[r].todo) = todo
  BY <1>1
<1>5. job' = [job EXCEPT ![r] = j]
  BY <1>4 DEF Issue
<1>6. todo # <<"record", "save", "audit">>
  OBVIOUS
<1> HIDE DEF todo
<1>7. j.todo = todo
  BY <1>1 DEF Jobs
<1>8. HoldersKept
  BY <1>5, <1>6, <1>7, OwnJobKept
<1> QED
  BY <1>3, <1>8 DEF Issue

LEMMA LookupKept ==
    ASSUME SInv, NEW r \in Requests, Lookup(r)
    PROVE  HoldersKept
<1>1. /\ ~Free(r) /\ Head(job[r].todo) = "lookup"
  BY AtLemma DEF Lookup
<1>2. CASE job' = Called(r)
  BY <1>1, <1>2, CalledKept
<1>3. CASE job' # Called(r)
  <2> DEFINE todo == <<"save", "audit">>
             new == Replayed(job[r].new)
             j == [NoJob EXCEPT !.todo = todo, !.base = job[r].base, !.new = new]
  <2>1. job' = [job EXCEPT ![r] = j]
    BY <1>3 DEF Lookup
  <2>2. todo # <<"record", "save", "audit">>
    OBVIOUS
  <2> HIDE DEF todo, new
  <2>3. j.todo = todo
    BY NoJobLegal DEF LegalJob, Jobs
  <2> QED
    BY <2>1, <2>2, <2>3, OwnJobKept
<1> QED
  BY <1>2, <1>3

LEMMA CommitCaseKept ==
    ASSUME SInv, NEW r \in Requests, CommitCase(r)
    PROVE  HoldersKept
<1>1. job[r].todo \in {<<"save", "audit">>, <<"save">>}
  BY DEF SInv, LegalTxn, CommitCase, SaveUpdate, SaveInsert
<1>2. CASE job' = Answered(r)
  BY <1>2, AnsweredKept
<1>3. CASE job' # Answered(r)
  <2> DEFINE todo == Tail(job[r].todo)
             j    == [NoJob EXCEPT !.todo = todo, !.token = job[r].token]
  <2>1. job' = [job EXCEPT ![r] = j]
    BY <1>3 DEF CommitCase
  <2>2. todo # <<"record", "save", "audit">>
    <3>1. CASE job[r].todo = <<"save", "audit">>
      BY <3>1
    <3>2. CASE job[r].todo = <<"save">>
      BY <3>2
    <3> QED
      BY <1>1, <3>1, <3>2
  <2> HIDE DEF todo
  <2>3. j.todo = todo
    BY NoJobLegal DEF LegalJob, Jobs
  <2> QED
    BY <2>1, <2>2, <2>3, OwnJobKept
<1> QED
  BY <1>2, <1>3

LEMMA AuditKept ==
    ASSUME SInv, NEW r \in Requests, CommitAudit(r) \/ AuditUnfollowed(r)
    PROVE  TokensKept /\ HoldersKept /\ results' = results
<1>1. /\ job[r].todo \in Scripts
      /\ job[r].token \in {0} \cup DOMAIN tokens
  BY DEF SInv, LegalJob
<1>2. job[r].todo # <<>> /\ Head(job[r].todo) = "audit"
  <2>1. CASE CommitAudit(r)
    <3>1. job[r].todo \in {<<"audit">>, <<"audit", "save">>}
      BY <2>1 DEF SInv, LegalTxn, CommitAudit, AuditInsert
    <3> QED
      BY <3>1
  <2>2. CASE AuditUnfollowed(r)
    BY <2>2 DEF AuditUnfollowed, At
  <2> QED
    BY <2>1, <2>2
<1>3. HoldersKept
  BY <1>1, <1>2, CalledKept DEF CommitAudit, AuditUnfollowed, Free
<1>4. tokens' = Delivered(r)
  BY DEF CommitAudit, AuditUnfollowed
<1>5. TokensKept
  BY <1>1, <1>4, DeliveredTokens, UsedTokens DEF SInv
<1> QED
  BY <1>3, <1>5 DEF CommitAudit, AuditUnfollowed

\* The calls that touch neither the tokens nor the results.
LEMMA OtherCallsKept ==
    ASSUME SInv, NEW r \in Requests,
           \/ Deny(r) \/ CountClearances(r) \/ SaveSpecialistReview(r)
           \/ SaveCase(r) \/ SaveConflict(r) \/ AppendAudit(r)
    PROVE  HoldersKept
<1>1. CASE Deny(r) \/ SaveConflict(r)
  BY <1>1, AnsweredKept DEF Deny, SaveConflict
<1>2. CASE CountClearances(r)
  <2>1. ~Free(r) /\ Head(job[r].todo) = "count" /\ job[r] \in Jobs
    BY <1>2, AtLemma DEF CountClearances
  <2>2. CASE job' = Called(r)
    BY <2>1, <2>2, CalledKept
  <2>3. CASE job' # Called(r)
    <3> DEFINE j == [job[r] EXCEPT !.todo = <<"review">>]
    <3>1. job' = [job EXCEPT ![r] = j]
      BY <1>2, <2>3 DEF CountClearances
    <3>2. j.todo # <<"record", "save", "audit">>
      BY <2>1 DEF Jobs
    <3> QED
      BY <3>1, <3>2, OwnJobKept
  <2> QED
    BY <2>2, <2>3
<1>3. CASE SaveSpecialistReview(r)
  BY <1>3, AtLemma, CalledKept DEF SaveSpecialistReview
<1>4. CASE SaveCase(r) \/ AppendAudit(r)
  BY <1>4 DEF SaveCase, AppendAudit, tables, HoldersKept
<1> QED
  BY <1>1, <1>2, <1>3, <1>4

-----------------------------------------------------------------------------
(* 3. The two calls that change who holds a token.                         *)

LEMMA ConsumeApproval ==
    ASSUME SInv, AInv, NEW r \in Requests, Consume(r)
    PROVE  AInv'
<1>1. /\ ~Free(r) /\ job[r] \in Jobs
      /\ job[r].todo = <<"consume", "record", "save", "audit">>
      /\ LegalJob(job[r], tokens)
  BY AtLemma, ScriptHeads DEF Consume, Free
<1>2. results' = results /\ Recorded' = Recorded
  BY DEF Consume, Recorded
<1> DEFINE t == job[r].token
<1>3. t \in DOMAIN tokens
  BY <1>1 DEF LegalJob, ExecuteScripts
<1>4. CASE tokens' = tokens /\ job' = Answered(r)
  BY <1>2, <1>4, AnsweredKept, SameTokens, SameResults, KeptStep
<1>5. CASE /\ tokens[t].status = "issued"
           /\ tokens[t].approver = job[r].by
           /\ tokens[t].payload = job[r].new.payload
           /\ tokens' = [tokens EXCEPT ![t].status = "consumed"]
           /\ job' = Called(r)
  <2>1. TokensUsed /\ tokens'[t].status = "consumed"
    BY <1>3, <1>5, ConsumedTokens DEF SInv
  <2>2. TokensKept
    BY <2>1, UsedTokens
  <2> DEFINE todo == <<"record", "save", "audit">>
             j    == [job[r] EXCEPT !.todo = todo]
  <2>3. Len(job[r].todo) # 1 /\ Tail(job[r].todo) = todo
    BY <1>1
  <2>4. job' = [job EXCEPT ![r] = j]
    BY <1>5, <2>3 DEF Called
  <2>5. job' = [q \in Requests |-> IF q = r THEN j ELSE job[q]]
    BY <2>4 DEF SInv, ServiceTypeOK
  <2> HIDE DEF todo
  <2>6. j.token = t /\ j.new = job[r].new /\ j.by = job[r].by
    BY <1>1 DEF Jobs
  <2> HIDE DEF j
  <2>7. /\ job'[r].token = t /\ job'[r].new = job[r].new /\ job'[r].by = job[r].by
        /\ \A q \in Requests \ {r} : job'[q] = job[q]
    BY <2>5, <2>6
  \* Consumed tokens are all that is recorded or held: t was not.
  <2>8. /\ \A k \in Recorded : results[k].token # t
        /\ \A q \in Requests : Holding(q) => job[q].token # t
    BY <1>5 DEF AInv, OneActionPerApproval, HoldersOwnTokens
  <2>9. OneActionPerApproval'
    BY <1>2, <2>2 DEF AInv, OneActionPerApproval, TokensKept
  <2>10. ASSUME NEW q \in Requests, Holding(q)'
         PROVE  /\ tokens'[job'[q].token].status = "consumed"
                /\ tokens'[job'[q].token].payload = job'[q].new.payload
                /\ tokens'[job'[q].token].approver = job'[q].by
                /\ \A k \in Recorded' : results'[k].token # job'[q].token
    <3>1. CASE q = r
      BY <1>2, <1>3, <1>5, <2>1, <2>2, <2>7, <2>8, <3>1 DEF TokensKept
    <3>2. CASE q # r
      <4>1. job'[q] = job[q] /\ Holding(q)
        BY <2>7, <2>10, <3>2 DEF Holding
      <4> QED
        BY <1>2, <2>2, <4>1, HolderToken DEF TokensKept, AInv, HoldersOwnTokens
    <3> QED
      BY <3>1, <3>2
  <2>11. ASSUME NEW p \in Requests, NEW q \in Requests,
                Holding(p)', Holding(q)', job'[p].token = job'[q].token
         PROVE  p = q
    BY <2>7, <2>8, <2>11 DEF Holding, AInv, HoldersOwnTokens
  <2> QED
    BY <2>9, <2>10, <2>11 DEF AInv, HoldersOwnTokens
<1> QED
  BY <1>4, <1>5 DEF Consume

LEMMA RecordApproval ==
    ASSUME SInv, AInv, NEW r \in Requests, RecordResult(r)
    PROVE  AInv'
<1> DEFINE t == job[r].token
           result == Result(job[r])
<1>1. /\ Holding(r) /\ t \in DOMAIN tokens /\ job[r].key \in Keys
      /\ \A k \in Keys :
            \/ results'[k] = results[k]
            \/ k = job[r].key /\ results[k] = NoResult /\ results'[k] = result
      /\ result.case = "this"
  BY RecordedResults DEF Holding
<1>2. tokens' = tokens /\ job' = Called(r) /\ ~Free(r) /\ Head(job[r].todo) = "record"
  BY AtLemma DEF RecordResult
<1>3. HoldersKept
  BY <1>2, CalledKept
<1>4. result.token = t /\ result.payload = job[r].new.payload /\ result.by = job[r].by
  BY DEF Result
<1> HIDE DEF result
<1>5. \A k \in Recorded' : \/ k \in Recorded /\ results'[k] = results[k]
                           \/ k = job[r].key /\ results'[k] = result
  BY <1>1 DEF Recorded, NoResult
\* The holder's token becomes the token of the one key it recorded.
<1>6. OneActionPerApproval'
  <2>1. ASSUME NEW k \in Recorded'
        PROVE  /\ results'[k].token \in DOMAIN tokens
               /\ tokens[results'[k].token].status = "consumed"
               /\ tokens[results'[k].token].payload = results'[k].payload
               /\ tokens[results'[k].token].approver = results'[k].by
    BY <1>1, <1>4, <1>5 DEF AInv, OneActionPerApproval, HoldersOwnTokens
  <2>2. ASSUME NEW k \in Recorded', NEW l \in Recorded',
               results'[k].token = results'[l].token
        PROVE  k = l
    BY <1>1, <1>4, <1>5, <2>2 DEF AInv, OneActionPerApproval, HoldersOwnTokens
  <2> QED
    BY <1>2, <2>1, <2>2 DEF OneActionPerApproval
<1>7. ~Holding(r)'
  <2>1. PICK j : /\ job' = [job EXCEPT ![r] = j]
                 /\ j = NoJob \/ j = [job[r] EXCEPT !.todo = Tail(job[r].todo)]
    BY <1>2, CalledLemma
  <2>2. NoJob.todo # <<"record", "save", "audit">>
    BY DEF NoJob
  <2>3. Tail(job[r].todo) # <<"record", "save", "audit">>
    BY <1>1 DEF Holding
  <2>4. j = [job[r] EXCEPT !.todo = Tail(job[r].todo)] => j.todo = Tail(job[r].todo)
    BY DEF SInv, ServiceTypeOK, Jobs
  <2>5. job'[r] = j
    BY <2>1 DEF SInv, ServiceTypeOK
  <2> QED
    BY <2>1, <2>2, <2>3, <2>4, <2>5 DEF Holding
<1>8. ASSUME NEW q \in Requests, Holding(q)'
      PROVE  /\ q # r /\ Holding(q) /\ job'[q] = job[q]
             /\ \A k \in Recorded' : results'[k].token # job'[q].token
  <2>1. q # r /\ Holding(q) /\ job'[q] = job[q]
    BY <1>3, <1>7, <1>8 DEF HoldersKept, Holding
  <2>2. job[q].token # t
    BY <1>1, <2>1 DEF AInv, HoldersOwnTokens
  <2> QED
    BY <1>4, <1>5, <2>1, <2>2 DEF AInv, HoldersOwnTokens
<1>9. HoldersOwnTokens'
  BY <1>2, <1>8 DEF AInv, HoldersOwnTokens
<1> QED
  BY <1>6, <1>9 DEF AInv

-----------------------------------------------------------------------------
(* 3. One action per approval.                                             *)

LEMMA InitAInv == ServiceInit => AInv
<1> SUFFICES ASSUME ServiceInit PROVE AInv
  OBVIOUS
<1>1. Recorded = {}
  BY DEF ServiceInit, Recorded, NoResult
<1>2. \A r \in Requests : ~Holding(r)
  BY DEF ServiceInit, Holding, NoJob
<1> QED
  BY <1>1, <1>2 DEF AInv, OneActionPerApproval, HoldersOwnTokens

LEMMA NextAInv == SInv /\ AInv /\ [ServiceNext]_vars => AInv'
<1> SUFFICES ASSUME SInv, AInv, [ServiceNext]_vars PROVE AInv'
  OBVIOUS
<1>1. ASSUME NEW r \in Requests, Handler(r) PROVE AInv'
  <2>1. PICK j : Accepted(r, j)
    BY <1>1, HandlerLemma
  <2>2. HoldersKept
    BY <2>1, OwnJobKept DEF Accepted
  <2> QED
    BY <2>1, <2>2, SameTokens, SameResults, KeptStep DEF Accepted
<1>2. ASSUME NEW r \in Requests, Issue(r) PROVE AInv'
  BY <1>2, IssueKept, SameResults, KeptStep
<1>3. ASSUME NEW r \in Requests, Lookup(r) PROVE AInv'
  BY <1>3, LookupKept, SameTokens, SameResults, KeptStep DEF Lookup, tables
<1>4. ASSUME NEW r \in Requests,
             \/ Deny(r) \/ CountClearances(r) \/ SaveSpecialistReview(r)
             \/ SaveCase(r) \/ SaveConflict(r) \/ AppendAudit(r)
      PROVE  AInv'
  <2>1. tokens' = tokens /\ results' = results
    BY <1>4 DEF Deny, CountClearances, SaveSpecialistReview, SaveCase, SaveConflict,
                AppendAudit, tables
  <2> QED
    BY <1>4, <2>1, OtherCallsKept, SameTokens, SameResults, KeptStep
<1>5. ASSUME NEW r \in Requests, CommitCase(r) PROVE AInv'
  BY <1>5, CommitCaseKept, SameTokens, SameResults, KeptStep DEF CommitCase, tables
<1>6. ASSUME NEW r \in Requests, CommitAudit(r) \/ AuditUnfollowed(r) PROVE AInv'
  BY <1>6, AuditKept, SameResults, KeptStep
<1>7. ASSUME NEW r \in Requests, Die(r) PROVE AInv'
  BY <1>7, AnsweredKept, SameTokens, SameResults, KeptStep DEF Die, tables
<1>8. CASE UNCHANGED vars
  BY <1>8, SameTokens, SameResults, KeptStep DEF vars, HoldersKept
<1>9. ASSUME NEW k \in Keys, RecordElsewhere(k) PROVE AInv'
  <2>1. TokensKept /\ HoldersKept
    BY <1>9, ElsewhereLemma, SameTokens DEF HoldersKept
  <2>2. ResultsKeep
    BY <1>9, ElsewhereLemma DEF ResultsKeep
  <2> QED
    BY <2>1, <2>2, KeptStep
<1> QED
  BY <1>1, <1>2, <1>3, <1>4, <1>5, <1>6, <1>7, <1>8, <1>9, ConsumeApproval, RecordApproval
     DEF ServiceNext, Call, GetCase

\* However many requests approve and execute the case at a time, however they
\* interleave and die: every recorded action used up a token of its own, issued
\* to the employee who executed it and for the payload that was executed.
THEOREM ActionsApproved == ServiceSpec => []OneActionPerApproval
<1>1. ServiceInit => SInv /\ AInv
  BY InitSInv, InitAInv
<1>2. (SInv /\ AInv) /\ [ServiceNext]_vars => (SInv /\ AInv)'
  BY NextSInv, NextAInv
<1>3. SInv /\ AInv => OneActionPerApproval
  BY DEF AInv
<1> QED
  BY <1>1, <1>2, <1>3, PTL DEF ServiceSpec

\* The first record of a key stays, whichever case it is of.
RecordsKept == \A k \in Keys : results[k] # NoResult => results'[k] = results[k]

\* What a step does to a recorded result and to a token, whoever takes it.
LEMMA NextKept ==
    SInv /\ [ServiceNext]_vars =>
        TokensKept /\ RecordsKept
<1> SUFFICES ASSUME SInv, [ServiceNext]_vars
             PROVE  TokensKept /\ RecordsKept
  OBVIOUS
<1>1. CASE UNCHANGED <<tokens, results>>
  BY <1>1, SameTokens DEF RecordsKept
<1>2. ASSUME NEW r \in Requests, Handler(r) PROVE UNCHANGED <<tokens, results>>
  BY <1>2, HandlerLemma DEF Accepted
<1>3. ASSUME NEW r \in Requests, Issue(r) \/ CommitAudit(r) \/ AuditUnfollowed(r)
      PROVE  TokensKept /\ RecordsKept
  BY <1>3, IssueKept, AuditKept DEF RecordsKept
<1>4. ASSUME NEW r \in Requests, Consume(r)
      PROVE  TokensKept /\ RecordsKept
  <2>1. job[r].token \in DOMAIN tokens
    <3>1. LegalJob(job[r], tokens) /\ job[r].todo = <<"consume", "record", "save", "audit">>
      BY <1>4, AtLemma, ScriptHeads DEF Consume, Free
    <3> QED
      BY <3>1 DEF LegalJob, ExecuteScripts
  <2>2. CASE tokens' = [tokens EXCEPT ![job[r].token].status = "consumed"]
    BY <1>4, <2>1, <2>2, ConsumedTokens, UsedTokens DEF SInv, Consume, RecordsKept
  <2>3. CASE tokens' = tokens
    BY <1>4, <2>3, SameTokens DEF Consume, RecordsKept
  <2> QED
    BY <1>4, <2>2, <2>3 DEF Consume
<1>5. ASSUME NEW r \in Requests, RecordResult(r)
      PROVE  TokensKept /\ RecordsKept
  <2>1. tokens' = tokens
    BY <1>5 DEF RecordResult
  <2>2. RecordsKept
    BY <1>5, RecordedResults DEF RecordsKept
  <2> QED
    BY <2>1, <2>2, SameTokens
<1>6. ASSUME NEW r \in Requests,
             \/ Lookup(r) \/ Deny(r) \/ CountClearances(r) \/ SaveSpecialistReview(r)
             \/ SaveCase(r) \/ SaveConflict(r) \/ CommitCase(r) \/ AppendAudit(r)
             \/ Die(r) \/ GetCase(r)
      PROVE  UNCHANGED <<tokens, results>>
  BY <1>6 DEF Lookup, Deny, CountClearances, SaveSpecialistReview, SaveCase, SaveConflict,
              CommitCase, AppendAudit, Die, GetCase, tables, vars
<1>7. CASE UNCHANGED vars
  BY <1>1, <1>7 DEF vars
<1>8. ASSUME NEW k \in Keys, RecordElsewhere(k) PROVE TokensKept /\ RecordsKept
  BY <1>8, ElsewhereLemma, SameTokens DEF RecordsKept
<1> QED
  BY <1>1, <1>2, <1>3, <1>4, <1>5, <1>6, <1>7, <1>8 DEF ServiceNext, Call

\* A retried or replayed execution, a late one or a dying one never replaces a
\* recorded result, and never makes a consumed token usable again.
THEOREM ResultsKept == ServiceSpec => ResultsAndTokensKept
<1>1. SInv /\ [ServiceNext]_vars =>
        [/\ \A k \in Keys : results[k] # NoResult => results'[k] = results[k]
         /\ \A t \in DOMAIN tokens :
               /\ t \in DOMAIN tokens'
               /\ tokens'[t].payload = tokens[t].payload
               /\ tokens[t].status = "consumed" => tokens'[t].status = "consumed"]_vars
  BY NextKept DEF TokensKept, RecordsKept
<1> QED
  BY <1>1, ServiceInvariant, PTL DEF ServiceSpec, ResultsAndTokensKept
-----------------------------------------------------------------------------
(* 4. What a stored case says of its approval.                             *)

\* The engine neither approves nor consumes an approval.
Unapproved(c) == c.approval \in {"not_required", "pending", "rejected"}

LEMMA TransitionKeeps ==
    ASSUME NEW c \in Cases, NEW target, NEW d \in Transition(c, target)
    PROVE  /\ d \in Cases /\ d.approval = c.approval
           /\ d.payload = c.payload /\ d.executed = c.executed
<1>1. \A status \in CaseStatus : ALLOWED[status] \subseteq CaseStatus
  BY DEF ALLOWED, CaseStatus
<1>2. target \in CaseStatus
  BY <1>1 DEF Transition, Cases
<1> QED
  BY <1>2, TransitionLemma DEF Cases

LEMMA AnalysisUnapproved ==
    ASSUME NEW c \in Cases, Unapproved(c), NEW start, NEW d \in Analysis(c, start)
    PROVE  Unapproved(d)
<1>1. PICK f \in Findings :
        d \in IF Recommended(c, start, f) THEN Assessed(c, start, f)
              ELSE NoGroundedProduct(c, start, f)
  BY DEF Analysis
<1>2. CASE d \in NoGroundedProduct(c, start, f)
  <2>1. PICK t \in Transition(c, "pending_review") :
          d = [t EXCEPT !.products = FALSE,
                        !.eligibility = Eligibility(c, start, f),
                        !.gated = FALSE]
    BY <1>2 DEF NoGroundedProduct
  <2>2. t \in Cases /\ Unapproved(t)
    BY TransitionKeeps DEF Unapproved
  <2> QED
    BY <2>1, <2>2 DEF Unapproved, Cases
<1>3. CASE d \in Assessed(c, start, f)
  <2> DEFINE elig     == Eligibility(c, start, f)
             decision == RiskGate(elig, f)
             next     == GateStatus[decision.outcome]
  <2>1. PICK t \in Transition(c, next) :
          d = [t EXCEPT !.products    = TRUE,
                        !.eligibility = elig,
                        !.evidence    = IF f.invalid # {} THEN "invalid"
                                        ELSE IF f.cited THEN "valid" ELSE "none",
                        !.gate        = decision,
                        !.overridden  = FALSE,
                        !.payload     = f.payload,
                        !.gated       = TRUE,
                        !.approval    = IF next = "pending_approval"
                                        THEN "pending" ELSE @]
    BY <1>3 DEF Assessed
  <2> HIDE DEF elig, decision, next
  <2>2. t \in Cases /\ Unapproved(t)
    BY TransitionKeeps DEF Unapproved
  <2> QED
    BY <2>1, <2>2 DEF Unapproved, Cases
<1> QED
  BY <1>1, <1>2, <1>3

LEMMA RunUnapproved ==
    ASSUME NEW c \in Cases, Unapproved(c), NEW d \in Run(c)
    PROVE  Unapproved(d)
<1> DEFINE understood == Transition(c, "understanding")
           asked      == UNION {Transition(u, "clarification_required") :
                                   u \in understood}
           answered   == {[u EXCEPT !.products = p] : p \in BOOLEAN,
                            u \in UNION {Transition(v, "completed") : v \in understood}}
           planned    == UNION {Transition(u, "planned") : u \in understood}
           analysing  == UNION {Transition(u, "in_analysis") : u \in planned}
<1>1. \A u \in understood : u \in Cases /\ Unapproved(u)
  BY TransitionKeeps DEF Unapproved
<1> HIDE DEF understood
<1>2. CASE d \in asked
  BY <1>1, <1>2, TransitionKeeps DEF Unapproved
<1>3. CASE d \in answered
  <2>1. PICK p \in BOOLEAN, v \in understood :
          \E u \in Transition(v, "completed") : d = [u EXCEPT !.products = p]
    BY <1>3
  <2>2. PICK u \in Transition(v, "completed") : d = [u EXCEPT !.products = p]
    BY <2>1
  <2>3. u \in Cases /\ Unapproved(u)
    BY <1>1, <2>2, TransitionKeeps DEF Unapproved
  <2> QED
    BY <2>2, <2>3 DEF Unapproved, Cases
<1>4. CASE d \in UNION {Analysis(u, "retrieve_products") : u \in analysing}
  <2>1. \A u \in planned : u \in Cases /\ Unapproved(u)
    BY <1>1, TransitionKeeps DEF Unapproved
  <2> HIDE DEF planned
  <2>2. \A u \in analysing : u \in Cases /\ Unapproved(u)
    BY <2>1, TransitionKeeps DEF Unapproved
  <2> HIDE DEF analysing
  <2> QED
    BY <1>4, <2>2, AnalysisUnapproved
<1> QED
  BY <1>2, <1>3, <1>4 DEF Run, understood

\* What the engine leaves says no more of its approval than what it was given.
Inherits(new, c) ==
    \/ Unapproved(new)
    \/ /\ new.approval = c.approval
       /\ new.payload = c.payload /\ new.executed = c.executed

LEMMA RerunInherits ==
    ASSUME NEW c \in Cases, NEW new \in RerunWithMessage(c)
    PROVE  Inherits(new, c)
<1> DEFINE forgotten ==
        [c EXCEPT !.status = "new", !.products = FALSE, !.eligibility = "none",
                  !.evidence = "none", !.payload = NoPayload,
                  !.approval = "not_required", !.loops = 0]
<1>1. forgotten \in Cases /\ forgotten.approval = "not_required"
  <2>1. "new" \in CaseStatus /\ "not_required" \in ApprovalStatus /\ 0 \in 0..MaxLoops
    BY DEF CaseStatus, ApprovalStatus, MaxLoops
  <2> QED
    BY <2>1 DEF Cases
<1>2. new \in Run(forgotten)
  BY DEF RerunWithMessage
<1> HIDE DEF forgotten
<1>3. Unapproved(forgotten)
  BY <1>1 DEF Unapproved
<1>4. Unapproved(new)
  BY <1>1, <1>2, <1>3, RunUnapproved
<1> QED
  BY <1>4 DEF Inherits

LEMMA ResumeInherits ==
    ASSUME NEW c \in Cases, NEW starts, NEW new \in Resume(c, starts)
    PROVE  Inherits(new, c)
<1>1. CASE c.loops >= MaxLoops
  <2>1. new = [c EXCEPT !.status = "failed"]
    BY <1>1 DEF Resume
  <2> QED
    BY <2>1 DEF Inherits, Cases
<1>2. CASE ~(c.loops >= MaxLoops)
  <2>1. PICK start \in starts : new \in Resumed(c, start)
    BY <1>2 DEF Resume
  <2>2. PICK t \in Transition(c, "in_analysis") :
          new \in Analysis([t EXCEPT !.loops = @ + 1, !.approval = "not_required"], start)
    BY <2>1 DEF Resumed
  <2> DEFINE again == [t EXCEPT !.loops = @ + 1, !.approval = "not_required"]
  <2>3. t \in Cases /\ t.loops + 1 \in 0..MaxLoops
    <3>1. t = [c EXCEPT !.status = "in_analysis"]
      BY Statuses, TransitionLemma
    <3> QED
      BY <1>2, <3>1, TransitionKeeps DEF Cases, MaxLoops
  <2>4. again \in Cases /\ again.approval = "not_required"
    BY <2>3 DEF Cases, ApprovalStatus
  <2> HIDE DEF again
  <2>5. new \in Analysis(again, start)
    BY <2>2 DEF again
  <2>6. Unapproved(again)
    BY <2>4 DEF Unapproved
  <2>7. Unapproved(new)
    BY <2>4, <2>5, <2>6, AnalysisUnapproved
  <2> QED
    BY <2>7 DEF Inherits
<1> QED
  BY <1>1, <1>2

LEMMA ReviewedInherits ==
    ASSUME NEW c \in Cases, NEW decision \in ReviewDecisions,
           NEW new \in Reviewed(c, decision)
    PROVE  Inherits(new, c)
<1>1. CASE decision = "blocked"
  <2>1. PICK d \in Transition(c, "rejected") : new = [d EXCEPT !.approval = "rejected"]
    BY <1>1 DEF Reviewed
  <2> QED
    BY <2>1, TransitionKeeps DEF Inherits, Unapproved, Cases
<1>2. CASE decision = "needs_more_information"
  <2>1. PICK d \in Transition(c, "in_analysis") :
          new \in Transition(d, "pending_information")
    BY <1>2 DEF Reviewed
  <2> QED
    BY <2>1, TransitionKeeps DEF Inherits
<1>3. CASE decision = "cleared"
  <2>1. new \in ClearSpecialistBlock(c)
    BY <1>3 DEF Reviewed
  <2>2. PICK p \in Payloads : new \in Cleared(c, p)
    BY <2>1 DEF ClearSpecialistBlock
  <2> DEFINE payload == IF c.payload = NoPayload THEN p ELSE c.payload
  <2>3. PICK d \in Transition(c, "pending_approval") :
          new = [d EXCEPT !.approval   = "pending",
                          !.payload    = payload,
                          !.overridden = IF c.gate.outcome = "none" THEN @ ELSE TRUE]
    BY <2>2 DEF Cleared
  <2>4. d \in Cases
    BY TransitionKeeps
  <2> DEFINE overridden == IF c.gate.outcome = "none" THEN d.overridden ELSE TRUE
  <2>5. new = [d EXCEPT !.approval = "pending", !.payload = payload,
                        !.overridden = overridden]
    BY <2>3
  <2> HIDE DEF payload, overridden
  <2>6. new.approval = "pending"
    BY <2>4, <2>5 DEF Cases
  <2> QED
    BY <2>6 DEF Inherits, Unapproved
<1> QED
  BY <1>1, <1>2, <1>3 DEF ReviewDecisions

-----------------------------------------------------------------------------
(* 4. The invariant.                                                       *)

\* The case names a recorded result, answered as a replay or executed under an
\* approval of the case's payload.
ResultBehind(c) ==
    /\ c.executed.key \in Keys
    /\ results[c.executed.key] # NoResult
    /\ c.executed.replay \/ ApprovalUsedUp(c)

Backed(c) ==
    /\ c.approval = "consumed" => ResultBehind(c)
    /\ c.approval = "approved" =>
          \E t \in DOMAIN tokens : tokens[t].payload = c.payload

Approving == <<"issue", "save", "audit">>
Executing == ExecuteScripts \cup {<<"lookup", "deny">>}
Recording == <<"record", "save", "audit">>

\* A handler that goes on to store a case stores a backed one: approve only
\* once it has registered a token, execute only once it has used an approval up
\* and a result is recorded, or once it has found one.
BackedJob(j) ==
    /\ j.todo \in SaveScripts \ {Approving} => Backed(j.new)
    /\ j.todo = Approving => j.new.approval = "approved"
    /\ j.todo \in Executing =>
          j.key \in Keys /\ j.new.approval = "consumed" /\ j.new.executed.key = j.key
    /\ j.todo = Recording => ApprovalUsedUp(j.new)

BInv ==
    /\ row.version > 0 => Backed(row.content)
    /\ \A r \in Requests :
          /\ BackedJob(job[r])
          /\ txn[r].kind = "save" => Backed(txn[r].content)

LEMMA UsedUpKept ==
    ASSUME SInv, [ServiceNext]_vars, NEW c, ApprovalUsedUp(c)
    PROVE  ApprovalUsedUp(c)'
BY NextKept DEF ApprovalUsedUp, TokensKept

\* Tokens and results are only ever added.
LEMMA BackedKept ==
    ASSUME SInv, [ServiceNext]_vars, NEW c, Backed(c)
    PROVE  Backed(c)'
BY NextKept, UsedUpKept DEF Backed, ResultBehind, TokensKept, RecordsKept

LEMMA JobKept ==
    ASSUME SInv, [ServiceNext]_vars, NEW j, BackedJob(j)
    PROVE  BackedJob(j)'
BY BackedKept, UsedUpKept DEF BackedJob

LEMMA NoJobBacked == BackedJob(NoJob)
<1>1. NoJob.todo = <<>>
  BY NoJobLegal DEF LegalJob, Jobs, NoJob
<1> QED
  BY <1>1 DEF BackedJob, SaveScripts, ExecuteScripts, Executing, Approving, Recording

\* What a step of one request must leave for BInv to hold again.
LEMMA BackedStep ==
    ASSUME SInv, BInv, [ServiceNext]_vars, NEW r \in Requests, NEW j,
           job' = [job EXCEPT ![r] = j], BackedJob(j)',
           (row.version > 0 => Backed(row.content))',
           \A q \in Requests \ {r} : txn'[q] = txn[q],
           (txn[r].kind = "save" => Backed(txn[r].content))'
    PROVE  BInv'
<1>1. job'[r] = j /\ \A q \in Requests \ {r} : job'[q] = job[q]
  BY DEF SInv, ServiceTypeOK
<1>2. BackedJob(job[r])'
  BY <1>1 DEF BackedJob, Backed, ResultBehind, ApprovalUsedUp
<1>3. ASSUME NEW q \in Requests \ {r}
      PROVE  (BackedJob(job[q]) /\ (txn[q].kind = "save" => Backed(txn[q].content)))'
  <2>1. PICK i, t : i = job[q] /\ t = txn[q]
    OBVIOUS
  <2>2. BackedJob(i) /\ (t.kind = "save" => Backed(t.content))
    BY <2>1 DEF BInv
  <2>3. BackedJob(i)' /\ (t.kind = "save" => Backed(t.content)')
    BY <2>2, JobKept, BackedKept
  <2> QED
    BY <1>1, <2>1, <2>3 DEF BackedJob, Backed, ResultBehind, ApprovalUsedUp
<1> QED
  BY <1>2, <1>3 DEF BInv

\* A step that opens and ends no transaction.
LEMMA BackedQuiet ==
    ASSUME SInv, BInv, [ServiceNext]_vars, NEW r \in Requests, NEW j,
           job' = [job EXCEPT ![r] = j], BackedJob(j)', UNCHANGED <<row, txn>>
    PROVE  BInv'
<1>1. PICK c, t : c = row.content /\ t = txn[r]
  OBVIOUS
<1>2. (row.version > 0 => Backed(c)) /\ (t.kind = "save" => Backed(t.content))
  BY <1>1 DEF BInv
<1>3. (row.version > 0 => Backed(c)') /\ (t.kind = "save" => Backed(t.content)')
  BY <1>2, BackedKept
<1>4. (row.version > 0 => Backed(row.content))'
  BY <1>1, <1>3 DEF Backed, ResultBehind, ApprovalUsedUp
<1>5. (txn[r].kind = "save" => Backed(txn[r].content))'
  BY <1>1, <1>3 DEF Backed, ResultBehind, ApprovalUsedUp
<1> QED
  BY <1>4, <1>5, BackedStep

-----------------------------------------------------------------------------
(* 4. The handlers up to their first call.                                 *)

\* After a handler's checks: only its job is new, and it will store a case that
\* is backed already or will be by the calls before.
Handed(r) == \E j : BackedJob(j) /\ job' = [job EXCEPT ![r] = j] /\ UNCHANGED <<row, txn>>

LEMMA StoreHanded ==
    ASSUME NEW r \in Requests, NEW op, NEW c, Backed(c), Accept(r, op, Store(c))
    PROVE  Handed(r)
<1>1. Store(c).todo = <<"save", "audit">> /\ Store(c).new = c
  BY StoreRecord
<1> DEFINE j == Store(c)
<1>2. job' = [job EXCEPT ![r] = j] /\ UNCHANGED <<row, txn>>
  BY DEF Accept
<1> HIDE DEF j
<1>3. j.todo = <<"save", "audit">> /\ j.new = c
  BY <1>1 DEF j
<1>4. BackedJob(j)
  BY <1>3 DEF BackedJob, Executing, ExecuteScripts, Approving, Recording
<1> QED
  BY <1>2, <1>4 DEF Handed

\* A handler whose case inherits what it says from the row's.
LEMMA InheritedHanded ==
    ASSUME BInv, Exists, NEW r \in Requests, NEW op, NEW c, Inherits(c, row.content),
           Accept(r, op, Store(c))
    PROVE  Handed(r)
<1>1. Backed(c)
  BY DEF BInv, Exists, Inherits, Unapproved, Backed, ResultBehind, ApprovalUsedUp
<1> QED
  BY <1>1, StoreHanded

LEMMA NewCaseUnapproved ==
    ASSUME NEW c \in Run(NewCase)
    PROVE  Unapproved(c)
<1>1. NewCase \in Cases
  BY NewCaseWorks DEF Working
<1>2. Unapproved(NewCase)
  BY DEF Unapproved, NewCase
<1> QED
  BY <1>1, <1>2, RunUnapproved

LEMMA EngineHanded ==
    ASSUME SInv, BInv, NEW r \in Requests,
           \/ CreateCase(r) \/ AddMessage(r) \/ AddDocuments(r) \/ CorrectContext(r)
           \/ ResumeCase(r) \/ RunSalesCaseAnalysis(r)
    PROVE  Handed(r)
<1>1. \A c \in Run(NewCase) : Backed(c)
  BY NewCaseUnapproved DEF Unapproved, Backed
<1>2. Exists => row.content \in Cases
  BY DEF Exists, SInv, Sound
<1>3. Exists => \A starts : \A c \in RerunOrResume(row.content, starts) :
                    Inherits(c, row.content)
  BY <1>2, RerunInherits, ResumeInherits DEF RerunOrResume
<1>4. CASE CreateCase(r)
  BY <1>1, <1>4, StoreHanded DEF CreateCase
<1>5. CASE AddMessage(r)
  BY <1>2, <1>5, RerunInherits, InheritedHanded DEF AddMessage
<1>6. CASE AddDocuments(r)
  BY <1>3, <1>6, InheritedHanded DEF AddDocuments
<1>7. CASE CorrectContext(r)
  BY <1>3, <1>7, InheritedHanded DEF CorrectContext
<1>8. CASE ResumeCase(r)
  BY <1>2, <1>8, ResumeInherits, InheritedHanded DEF ResumeCase
<1>9. CASE RunSalesCaseAnalysis(r)
  <2>1. CASE Exists
    BY <1>2, <1>9, <2>1, ResumeInherits, InheritedHanded DEF RunSalesCaseAnalysis
  <2>2. CASE ~Exists
    BY <1>1, <1>9, <2>2, StoreHanded DEF RunSalesCaseAnalysis
  <2> QED
    BY <2>1, <2>2
<1> QED
  BY <1>4, <1>5, <1>6, <1>7, <1>8, <1>9

LEMMA RejectHanded ==
    ASSUME SInv, BInv, NEW r \in Requests, RejectCase(r) \/ RejectSalesCase(r)
    PROVE  Handed(r)
<1>1. Exists /\ row.content \in Cases
  BY DEF Exists, SInv, Sound, RejectCase, RejectSalesCase
<1>2. Rejected(row.content).approval = "rejected"
  BY <1>1 DEF Rejected, Cases
<1>3. Inherits(Rejected(row.content), row.content)
  BY <1>2 DEF Inherits, Unapproved
<1> QED
  BY <1>1, <1>3, InheritedHanded DEF RejectCase, RejectSalesCase

\* What is left of the job Store makes once its script and more are replaced.
LEMMA StoreFields ==
    ASSUME NEW c, NEW todo, NEW by, NEW token, NEW key, NEW review
    PROVE  /\ [Store(c) EXCEPT !.todo = todo, !.by = by].todo = todo
           /\ [Store(c) EXCEPT !.todo = todo, !.by = by].new = c
           /\ [Store(c) EXCEPT !.todo = todo, !.review = review].todo = todo
           /\ [Store(c) EXCEPT !.todo = todo, !.review = review].new = c
           /\ [Store(c) EXCEPT !.todo = todo, !.by = by, !.token = token,
                               !.key = key].todo = todo
           /\ [Store(c) EXCEPT !.todo = todo, !.by = by, !.token = token,
                               !.key = key].new = c
           /\ [Store(c) EXCEPT !.todo = todo, !.by = by, !.token = token,
                               !.key = key].key = key
<1> DEFINE saving == <<"save", "audit">>
<1>1. Store(c) = [todo |-> saving, base |-> row.version, new |-> c, by |-> NoEmployee,
                  token |-> 0, key |-> NoKey, review |-> NoReview]
  BY StoreRecord
<1> HIDE DEF saving
<1> QED
  BY <1>1

LEMMA ApproveHanded ==
    ASSUME SInv, NEW r \in Requests, NEW op, Approve(r, op)
    PROVE  Handed(r)
<1> DEFINE c == [row.content EXCEPT !.approval = "approved"]
           todo == Approving
<1>1. PICK e \in Employees : Accept(r, op, [Store(c) EXCEPT !.todo = todo, !.by = e])
  BY DEF Approve, Approving
<1>2. c.approval = "approved"
  BY DEF Approve, Exists, SInv, Sound, Cases
<1> HIDE DEF c, todo
<1> DEFINE j == [Store(c) EXCEPT !.todo = todo, !.by = e]
<1>3. j.todo = todo /\ j.new = c
  BY StoreFields
<1> HIDE DEF j
<1>4. BackedJob(j)
  BY <1>2, <1>3 DEF BackedJob, Approving, Executing, ExecuteScripts, Recording, todo
<1>5. job' = [job EXCEPT ![r] = j] /\ UNCHANGED <<row, txn>>
  BY <1>1 DEF Accept, j
<1> QED
  BY <1>4, <1>5 DEF Handed

LEMMA ExecuteHanded ==
    ASSUME SInv, NEW r \in Requests, NEW op, Execute(r, op)
    PROVE  Handed(r)
<1> DEFINE todo == IF Executable(row.content)
                   THEN <<"lookup", "consume", "record", "save", "audit">>
                   ELSE <<"lookup", "deny">>
<1>1. PICK e \in Employees, k \in Keys, t \in DOMAIN tokens :
        Accept(r, op, [Store([row.content EXCEPT
                                  !.status = "completed", !.approval = "consumed",
                                  !.executed = [key |-> k, replay |-> FALSE]])
                       EXCEPT !.todo = todo, !.by = e, !.token = t, !.key = k])
  BY DEF Execute
<1> DEFINE x == [key |-> k, replay |-> FALSE]
           c == [row.content EXCEPT !.status = "completed", !.approval = "consumed",
                                    !.executed = x]
<1>2. c.approval = "consumed" /\ c.executed.key = k
  <2>1. x.key = k
    OBVIOUS
  <2> HIDE DEF x
  <2>2. c.approval = "consumed" /\ c.executed = x
    BY DEF Execute, Exists, SInv, Sound, Cases
  <2> QED
    BY <2>1, <2>2
<1>3. /\ todo \in Executing /\ todo \notin SaveScripts
      /\ todo # Approving /\ todo # Recording
  BY DEF Executing, ExecuteScripts, SaveScripts, Approving, Recording
<1>4. Accept(r, op, [Store(c) EXCEPT !.todo = todo, !.by = e, !.token = t, !.key = k])
  BY <1>1
<1> HIDE DEF c, todo
<1> DEFINE j == [Store(c) EXCEPT !.todo = todo, !.by = e, !.token = t, !.key = k]
<1>5. j.todo = todo /\ j.new = c /\ j.key = k
  BY StoreFields
<1> HIDE DEF j
<1>6. BackedJob(j)
  BY <1>2, <1>3, <1>5 DEF BackedJob
<1>7. job' = [job EXCEPT ![r] = j] /\ UNCHANGED <<row, txn>>
  BY <1>4 DEF Accept, j
<1> QED
  BY <1>6, <1>7 DEF Handed

LEMMA ReviewHanded ==
    ASSUME SInv, BInv, NEW r \in Requests, SubmitSpecialistReview(r)
    PROVE  Handed(r)
<1>1. PICK role \in RequiredRoles(row.content), decision \in ReviewDecisions :
        \E c \in Reviewed(row.content, decision) :
          Accept(r, "review",
                [Store(c) EXCEPT
                    !.todo = IF decision = "cleared"
                             THEN <<"count", "review", "audit", "save">>
                             ELSE <<"review", "audit", "save">>,
                    !.review = [version |-> row.version, role |-> role,
                                decision |-> decision]])
  BY DEF SubmitSpecialistReview
<1> DEFINE todo == IF decision = "cleared"
                   THEN <<"count", "review", "audit", "save">>
                   ELSE <<"review", "audit", "save">>
           review == [version |-> row.version, role |-> role, decision |-> decision]
<1>2. PICK c \in Reviewed(row.content, decision) :
        Accept(r, "review", [Store(c) EXCEPT !.todo = todo, !.review = review])
  BY <1>1
<1>3. row.version > 0 /\ row.content \in Cases
  BY DEF SubmitSpecialistReview, Exists, SInv, Sound
<1>4. Inherits(c, row.content)
  BY <1>3, ReviewedInherits
<1>5. Backed(c)
  BY <1>3, <1>4 DEF BInv, Inherits, Unapproved, Backed, ResultBehind, ApprovalUsedUp
<1>6. todo \notin Executing /\ todo # Approving /\ todo # Recording
  BY DEF Executing, ExecuteScripts, Approving, Recording
<1> HIDE DEF todo, review
<1> DEFINE j == [Store(c) EXCEPT !.todo = todo, !.review = review]
<1>7. j.todo = todo /\ j.new = c
  BY StoreFields
<1> HIDE DEF j
<1>8. BackedJob(j)
  BY <1>5, <1>6, <1>7 DEF BackedJob
<1>9. job' = [job EXCEPT ![r] = j] /\ UNCHANGED <<row, txn>>
  BY <1>2 DEF Accept, j
<1> QED
  BY <1>8, <1>9 DEF Handed

LEMMA HandlerHanded ==
    ASSUME SInv, BInv, NEW r \in Requests, Handler(r)
    PROVE  Handed(r)
<1>1. CASE ApproveCase(r) \/ ApproveSalesCase(r)
  BY <1>1, ApproveHanded DEF ApproveCase, ApproveSalesCase
<1>2. CASE ExecuteCase(r) \/ ExecuteSalesCaseActions(r)
  BY <1>2, ExecuteHanded DEF ExecuteCase, ExecuteSalesCaseActions
<1> QED
  BY <1>1, <1>2, EngineHanded, RejectHanded, ReviewHanded, Zenon DEF Handler

-----------------------------------------------------------------------------
(* 4. The calls.                                                           *)

\* The calls after which a case may be stored without a token or a result of
\* their own.
LEMMA BackedTails ==
    ASSUME NEW s \in Scripts, s # <<>>
    PROVE  /\ Tail(s) \in SaveScripts \ {Approving} /\ Head(s) \notin {"issue", "record"}
                => s \in SaveScripts \ {Approving}
           /\ Tail(s) # Approving
           /\ Tail(s) \in Executing => s \in Executing
           /\ Tail(s) = Recording => Head(s) = "consume"
<1> USE DEF Scripts, SaveScripts, ExecuteScripts, Executing, Approving, Recording
<1>1. CASE s = <<"save", "audit">>
  BY <1>1
<1>2. CASE s = <<"issue", "save", "audit">>
  BY <1>2
<1>3. CASE s = <<"count", "review", "audit", "save">>
  BY <1>3
<1>4. CASE s = <<"review", "audit", "save">>
  BY <1>4
<1>5. CASE s = <<"audit", "save">>
  BY <1>5
<1>6. CASE s = <<"save">>
  BY <1>6
<1>7. CASE s = <<"lookup", "consume", "record", "save", "audit">>
  BY <1>7
<1>8. CASE s = <<"consume", "record", "save", "audit">>
  BY <1>8
<1>9. CASE s = <<"record", "save", "audit">>
  BY <1>9
<1>10. CASE s = <<"audit">>
  BY <1>10
<1>11. CASE s = <<"lookup", "deny">>
  BY <1>11
<1>12. CASE s = <<"deny">>
  BY <1>12
<1>13. CASE s = <<"review">>
  BY <1>13
<1> QED
  BY <1>1, <1>2, <1>3, <1>4, <1>5, <1>6, <1>7, <1>8, <1>9, <1>10, <1>11, <1>12, <1>13

LEMMA CalledBacked ==
    ASSUME SInv, BInv, NEW r \in Requests, ~Free(r), job' = Called(r),
           Head(job[r].todo) \notin {"issue", "consume", "record"}
    PROVE  \E j : BackedJob(j) /\ job' = [job EXCEPT ![r] = j]
<1>1. PICK j : /\ job' = [job EXCEPT ![r] = j]
               /\ j = NoJob \/ j = [job[r] EXCEPT !.todo = Tail(job[r].todo)]
  BY CalledLemma
<1>2. CASE j = NoJob
  BY <1>1, <1>2, NoJobBacked
<1>3. CASE j = [job[r] EXCEPT !.todo = Tail(job[r].todo)]
  <2>1. job[r] \in Jobs /\ job[r].todo \in Scripts /\ job[r].todo # <<>>
    BY DEF SInv, LegalJob, Free
  <2>2. j.todo = Tail(job[r].todo) /\ j.new = job[r].new /\ j.key = job[r].key
    BY <1>3, <2>1 DEF Jobs
  <2>3. BackedJob(job[r])
    BY DEF BInv
  <2>4. /\ j.todo \in SaveScripts \ {Approving} => job[r].todo \in SaveScripts \ {Approving}
        /\ j.todo # Approving
        /\ j.todo \in Executing => job[r].todo \in Executing
        /\ j.todo # Recording
    BY <2>1, <2>2, BackedTails
  <2>5. BackedJob(j)
    BY <2>2, <2>3, <2>4 DEF BackedJob
  <2> QED
    BY <1>1, <2>5
<1> QED
  BY <1>1, <1>2, <1>3

LEMMA AnsweredBacked ==
    ASSUME NEW r \in Requests, job' = Answered(r)
    PROVE  \E j : BackedJob(j) /\ job' = [job EXCEPT ![r] = j]
BY NoJobBacked DEF Answered

\* The token approve registers is for the payload of the case it goes on to store.
LEMMA IssueBacked ==
    ASSUME SInv, BInv, [ServiceNext]_vars, NEW r \in Requests, Issue(r)
    PROVE  BInv'
<1>1. PICK c : c = job[r].new
  OBVIOUS
<1>2. job[r] \in Jobs /\ job[r].todo = Approving /\ c.approval = "approved"
  BY <1>1, AtLemma, ScriptHeads DEF Issue, Free, BInv, BackedJob, Approving
<1> DEFINE token == [payload |-> c.payload, approver |-> job[r].by,
                     status |-> "issued", delivered |-> FALSE]
           todo  == <<"save", "audit">>
           n     == Len(tokens) + 1
           new   == [job[r] EXCEPT !.todo = todo, !.token = n]
<1>3. token.payload = c.payload
  OBVIOUS
<1>4. tokens' = Append(tokens, token) /\ tokens \in Seq(Tokens)
  BY <1>1 DEF Issue, SInv, ServiceTypeOK
<1> HIDE DEF token
<1>5. \E t \in DOMAIN tokens' : tokens'[t].payload = c.payload
  <2>1. n \in DOMAIN tokens' /\ tokens'[n] = token
    BY <1>4
  <2> QED
    BY <1>3, <2>1
<1>6. Backed(c)'
  BY <1>2, <1>5 DEF Backed
<1>7. Tail(job[r].todo) = todo
  BY <1>2 DEF Approving
<1>8. job' = [job EXCEPT ![r] = new]
  BY <1>7 DEF Issue
<1> HIDE DEF todo, n
<1>9. new.todo = todo /\ new.new = c
  BY <1>1, <1>2 DEF Jobs
<1> HIDE DEF new
<1>10. PICK j : j = new
  OBVIOUS
<1>11. todo \notin Executing /\ todo # Approving /\ todo # Recording
  BY DEF todo, Executing, ExecuteScripts, Approving, Recording
<1>12. BackedJob(j)'
  BY <1>6, <1>9, <1>10, <1>11 DEF BackedJob
<1>13. UNCHANGED <<row, txn>>
  BY DEF Issue
<1> QED
  BY <1>8, <1>10, <1>12, <1>13, BackedQuiet

LEMMA LookupLegal ==
    ASSUME SInv, NEW r \in Requests, Lookup(r)
    PROVE  Sound(job[r].new)
<1>1. LegalJob(job[r], tokens) /\ job[r].todo \in CaseScripts
  BY AtLemma, ScriptHeads DEF Lookup, Free, CaseScripts, ExecuteScripts
<1> QED
  BY <1>1 DEF LegalJob

\* A replay stores the case as completed: a result is recorded under its key.
LEMMA LookupBacked ==
    ASSUME SInv, BInv, NEW r \in Requests, Lookup(r)
    PROVE  \E j : BackedJob(j) /\ job' = [job EXCEPT ![r] = j]
<1>1. /\ ~Free(r) /\ Head(job[r].todo) = "lookup"
      /\ job[r].todo \in Executing
  BY AtLemma, ScriptHeads DEF Lookup, Free, Executing, ExecuteScripts
<1>2. CASE job' = Called(r)
  BY <1>1, <1>2, CalledBacked
<1>3. CASE job' # Called(r)
  <2> DEFINE todo == <<"save", "audit">>
             c == job[r].new
             new == Replayed(c)
             j == [NoJob EXCEPT !.todo = todo, !.base = job[r].base, !.new = new]
  <2>1. /\ job[r].key \in Keys /\ c.approval = "consumed" /\ c.executed.key = job[r].key
        /\ c \in Cases
    BY <1>1, LookupLegal DEF BInv, BackedJob, LegalJob, Sound
  <2>2. results[c.executed.key] # NoResult
    BY <1>3, <2>1 DEF Lookup
  <2>3. Backed(new)
    <3> HIDE DEF c
    <3>1. /\ new.approval = "consumed"
          /\ new.executed.key = c.executed.key /\ new.executed.replay
      BY <2>1 DEF Replayed, Cases, Executions
    <3> QED
      BY <2>1, <2>2, <3>1 DEF Backed, ResultBehind
  <2>4. job' = [job EXCEPT ![r] = j]
    BY <1>3 DEF Lookup
  <2>5. todo \notin Executing /\ todo # Approving /\ todo # Recording
    BY DEF Executing, ExecuteScripts, Approving, Recording
  <2> HIDE DEF todo, new
  <2>6. j.todo = todo /\ j.new = new
    BY NoJobLegal DEF LegalJob, Jobs
  <2> HIDE DEF j
  <2>7. BackedJob(j)
    BY <2>3, <2>5, <2>6 DEF BackedJob
  <2> QED
    BY <2>4, <2>7
<1> QED
  BY <1>2, <1>3

\* Consume leads to recording with an approval of the payload used up.
LEMMA ConsumeBacked ==
    ASSUME SInv, BInv, [ServiceNext]_vars, NEW r \in Requests, Consume(r)
    PROVE  BInv'
<1>1. UNCHANGED <<row, txn>>
  BY DEF Consume
<1>2. CASE job' = Answered(r)
  <2>1. PICK j : BackedJob(j) /\ job' = [job EXCEPT ![r] = j]
    BY <1>2, AnsweredBacked
  <2> QED
    BY <1>1, <2>1, JobKept, BackedQuiet
<1>3. CASE job' # Answered(r)
  <2>1. PICK i, t : i = job[r] /\ t = job[r].token
    OBVIOUS
  <2>2. /\ i \in Jobs /\ t \in DOMAIN tokens
        /\ i.todo = <<"consume", "record", "save", "audit">>
    <3>1. LegalJob(i, tokens) /\ i.todo = <<"consume", "record", "save", "audit">>
      BY <2>1, AtLemma, ScriptHeads DEF Consume, Free
    <3> QED
      BY <2>1, <3>1 DEF LegalJob, ExecuteScripts
  <2>3. /\ tokens[t].payload = i.new.payload
        /\ tokens' = [tokens EXCEPT ![t].status = "consumed"] /\ job' = Called(r)
    BY <1>3, <2>1 DEF Consume
  <2>4. ApprovalUsedUp(i.new)'
    BY <2>2, <2>3 DEF ApprovalUsedUp, SInv, ServiceTypeOK, Tokens
  <2>5. BackedJob(i) /\ i.todo \in Executing
    BY <2>1, <2>2 DEF BInv, Executing, ExecuteScripts
  <2> DEFINE new == [i EXCEPT !.todo = Recording]
  <2>6. job' = [job EXCEPT ![r] = new]
    <3>1. Len(i.todo) # 1 /\ Tail(i.todo) = Recording
      BY <2>2 DEF Recording
    <3> QED
      BY <2>1, <2>3, <3>1 DEF Called
  <2>7. new.todo = Recording /\ new.new = i.new /\ new.key = i.key
    BY <2>2 DEF Jobs
  <2> HIDE DEF new
  <2>8. PICK j : j = new
    OBVIOUS
  <2>9. Recording \notin SaveScripts /\ Recording # Approving
    BY DEF Recording, SaveScripts, Approving
  <2>10. BackedJob(j)'
    BY <2>4, <2>5, <2>7, <2>8, <2>9 DEF BackedJob, ApprovalUsedUp
  <2> QED
    BY <1>1, <2>6, <2>8, <2>10, BackedQuiet
<1> QED
  BY <1>2, <1>3

\* Once execute has recorded its result, the case it stores names a result.
LEMMA RecordBacked ==
    ASSUME SInv, BInv, [ServiceNext]_vars, NEW r \in Requests, RecordResult(r)
    PROVE  BInv'
<1>1. PICK i : i = job[r]
  OBVIOUS
<1>2. i.todo = Recording /\ i.key \in Keys /\ ~Free(r)
  BY <1>1, RecordedResults DEF Recording, Free
<1>3. results'[i.key] # NoResult
  <2>1. Result(i) # NoResult
    BY <1>1, RecordedResults DEF NoResult
  <2> QED
    BY <1>1, <1>2, <2>1 DEF RecordResult, SInv, ServiceTypeOK
<1>4. PICK j : /\ job' = [job EXCEPT ![r] = j]
               /\ j = NoJob \/ j = [i EXCEPT !.todo = Tail(i.todo)]
  BY <1>1, <1>2, CalledLemma DEF RecordResult
<1>5. /\ BackedJob(i)
      /\ i.new.approval = "consumed" /\ i.new.executed.key = i.key
      /\ ApprovalUsedUp(i.new)
  BY <1>1, <1>2 DEF BInv, BackedJob, Executing, ExecuteScripts, Recording
<1>6. ApprovalUsedUp(i.new)'
  BY <1>5, UsedUpKept
<1>7. BackedJob(j)'
  <2>1. CASE j = NoJob
    BY <2>1, NoJobBacked, JobKept
  <2>2. CASE j = [i EXCEPT !.todo = Tail(i.todo)]
    <3> DEFINE todo == <<"save", "audit">>
    <3>1. Tail(i.todo) = todo
      BY <1>2 DEF Recording
    <3>2. todo \notin Executing /\ todo # Approving /\ todo # Recording
      BY DEF Executing, ExecuteScripts, Approving, Recording
    <3> HIDE DEF todo
    <3>3. j.todo = todo /\ j.new = i.new
      BY <1>1, <2>2, <3>1 DEF SInv, ServiceTypeOK, Jobs
    <3>4. Backed(j.new)'
      BY <1>2, <1>3, <1>5, <1>6, <3>3 DEF Backed, ResultBehind, ApprovalUsedUp
    <3> QED
      BY <3>2, <3>3, <3>4 DEF BackedJob
  <2> QED
    BY <1>4, <2>1, <2>2
<1>8. UNCHANGED <<row, txn>>
  BY DEF RecordResult
<1> QED
  BY <1>4, <1>7, <1>8, BackedQuiet

LEMMA SaveCaseBacked ==
    ASSUME SInv, BInv, [ServiceNext]_vars, NEW r \in Requests, SaveCase(r)
    PROVE  BInv'
<1>1. PICK c, j : c = job[r].new /\ j = job[r]
  OBVIOUS
<1>2. job[r].todo \in {<<"save", "audit">>, <<"save">>}
  BY AtLemma, ScriptHeads DEF SaveCase, Free
<1>3. Backed(c) /\ BackedJob(j)
  <2>1. job[r].todo \in SaveScripts \ {Approving}
    BY <1>2 DEF SaveScripts, Approving
  <2> QED
    BY <1>1, <2>1 DEF BInv, BackedJob
<1>4. /\ txn' = [txn EXCEPT ![r] = SaveTxn(job[r].base, c)]
      /\ UNCHANGED <<row, job>>
  BY <1>1 DEF SaveCase, SaveSelect
<1>5. txn'[r].content = c /\ \A q \in Requests \ {r} : txn'[q] = txn[q]
  BY <1>4 DEF SInv, ServiceTypeOK, StoreTypeOK, SaveTxn
<1>6. Backed(c)' /\ BackedJob(j)'
  BY <1>3, BackedKept, JobKept
<1>7. (txn[r].kind = "save" => Backed(txn[r].content))'
  BY <1>5, <1>6 DEF Backed, ResultBehind, ApprovalUsedUp
<1>8. job' = [job EXCEPT ![r] = j]
  BY <1>1, <1>4 DEF SInv, ServiceTypeOK
<1>9. (row.version > 0 => Backed(row.content))'
  <2>1. PICK d : d = row.content
    OBVIOUS
  <2>2. row.version > 0 => Backed(d)'
    BY <2>1, BackedKept DEF BInv
  <2> QED
    BY <1>4, <2>1, <2>2 DEF Backed, ResultBehind, ApprovalUsedUp
<1> QED
  BY <1>5, <1>6, <1>7, <1>8, <1>9, BackedStep

\* The transaction's case becomes the row's.
LEMMA CommitCaseBacked ==
    ASSUME SInv, BInv, [ServiceNext]_vars, NEW r \in Requests, CommitCase(r)
    PROVE  BInv'
<1>1. PICK c : c = txn[r].content
  OBVIOUS
<1>2. /\ txn[r].kind = "save" /\ row'.content = c
      /\ txn' = [txn EXCEPT ![r] = NoTxn]
  BY <1>1 DEF CommitCase, SaveUpdate, SaveInsert
<1>3. Backed(c)'
  BY <1>1, <1>2, BackedKept DEF BInv
<1>4. (row.version > 0 => Backed(row.content))'
  BY <1>2, <1>3 DEF Backed, ResultBehind, ApprovalUsedUp
<1>5. txn'[r].kind # "save" /\ \A q \in Requests \ {r} : txn'[q] = txn[q]
  BY <1>2 DEF SInv, ServiceTypeOK, StoreTypeOK, NoTxn
<1>6. PICK j : BackedJob(j) /\ job' = [job EXCEPT ![r] = j]
  <2>1. CASE Len(job[r].todo) = 1
    BY <2>1, AnsweredBacked DEF CommitCase
  <2>2. CASE Len(job[r].todo) # 1
    <3> DEFINE todo == <<"audit">>
               j    == [NoJob EXCEPT !.todo = todo, !.token = job[r].token]
    <3>1. job[r].todo \in {<<"save", "audit">>, <<"save">>}
      BY <1>2 DEF SInv, LegalTxn
    <3>2. Tail(job[r].todo) = todo
      <4>1. CASE job[r].todo = <<"save">>
        BY <2>2, <4>1
      <4>2. CASE job[r].todo = <<"save", "audit">>
        BY <4>2
      <4> QED
        BY <3>1, <4>1, <4>2
    <3>3. job' = [job EXCEPT ![r] = j]
      BY <2>2, <3>2 DEF CommitCase
    <3> HIDE DEF todo
    <3>4. j.todo = todo
      BY NoJobLegal DEF LegalJob, Jobs
    <3> HIDE DEF j
    <3>5. BackedJob(j)
      BY <3>4 DEF todo, BackedJob, SaveScripts, Executing, ExecuteScripts, Approving,
                  Recording
    <3> QED
      BY <3>3, <3>5
  <2> QED
    BY <2>1, <2>2
<1>7. BackedJob(j)'
  BY <1>6, JobKept
<1> QED
  BY <1>4, <1>5, <1>6, <1>7, BackedStep

\* The calls that change neither the row nor what a transaction will store.
LEMMA OtherCallsBacked ==
    ASSUME SInv, BInv, NEW r \in Requests,
           \/ Lookup(r) \/ Deny(r) \/ CountClearances(r)
           \/ SaveSpecialistReview(r) \/ SaveConflict(r) \/ AuditUnfollowed(r)
    PROVE  Handed(r)
<1>1. UNCHANGED <<row, txn>>
  BY DEF Lookup, Deny, CountClearances, SaveSpecialistReview, SaveConflict,
         SaveRefused, storeVars, AuditUnfollowed
<1>2. \E j : BackedJob(j) /\ job' = [job EXCEPT ![r] = j]
  <2>1. CASE Lookup(r)
    BY <2>1, LookupBacked
  <2>2. CASE Deny(r) \/ SaveConflict(r)
    BY <2>2, AnsweredBacked DEF Deny, SaveConflict
  <2>3. CASE SaveSpecialistReview(r)
    BY <2>3, AtLemma, CalledBacked DEF SaveSpecialistReview
  <2>4. CASE AuditUnfollowed(r)
    BY <2>4, AtLemma, CalledBacked DEF AuditUnfollowed
  <2>5. CASE CountClearances(r)
    <3>1. CASE job' = Called(r)
      BY <2>5, <3>1, AtLemma, CalledBacked DEF CountClearances
    <3>2. CASE job' # Called(r)
      <4> DEFINE j == [job[r] EXCEPT !.todo = <<"review">>]
      <4>1. job' = [job EXCEPT ![r] = j]
        BY <2>5, <3>2 DEF CountClearances
      <4>2. j.todo = <<"review">>
        BY DEF SInv, ServiceTypeOK, Jobs
      <4> HIDE DEF j
      <4>3. BackedJob(j)
        BY <4>2 DEF BackedJob, SaveScripts, Executing, ExecuteScripts, Approving,
                  Recording
      <4> QED
        BY <4>1, <4>3
    <3> QED
      BY <3>1, <3>2
  <2> QED
    BY <2>1, <2>2, <2>3, <2>4, <2>5
<1> QED
  BY <1>1, <1>2 DEF Handed

\* An audit event is committed, or a handler dies: a transaction is over.
LEMMA EndedBacked ==
    ASSUME SInv, BInv, [ServiceNext]_vars, NEW r \in Requests,
           CommitAudit(r) \/ (AppendAudit(r) \/ Die(r))
    PROVE  BInv'
<1>1. row' = row
  BY DEF CommitAudit, AuditInsert, AppendAudit, AuditSelect, Die, Rollback
<1>2. PICK c, t : c = row.content /\ t = txn[r]
  OBVIOUS
<1>3. (row.version > 0 => Backed(row.content))'
  <2>1. row.version > 0 => Backed(c)'
    BY <1>2, BackedKept DEF BInv
  <2> QED
    BY <1>1, <1>2, <2>1 DEF Backed, ResultBehind, ApprovalUsedUp
<1>4. /\ \A q \in Requests \ {r} : txn'[q] = txn[q]
      /\ txn'[r] = t \/ txn'[r].kind # "save"
  BY <1>2 DEF CommitAudit, AuditInsert, AppendAudit, AuditSelect, AuditTxn, Die, Rollback,
              SInv, ServiceTypeOK, StoreTypeOK, NoTxn
<1>5. (txn[r].kind = "save" => Backed(txn[r].content))'
  <2>1. t.kind = "save" => Backed(t.content)'
    BY <1>2, BackedKept DEF BInv
  <2> QED
    BY <1>4, <2>1 DEF Backed, ResultBehind, ApprovalUsedUp
<1>6. PICK j : BackedJob(j) /\ job' = [job EXCEPT ![r] = j]
  <2>1. CASE CommitAudit(r)
    <3>1. job[r].todo \in {<<"audit">>, <<"audit", "save">>}
      BY <2>1 DEF SInv, LegalTxn, CommitAudit, AuditInsert
    <3>2. ~Free(r) /\ Head(job[r].todo) = "audit"
      BY <3>1 DEF Free
    <3> QED
      BY <2>1, <3>2, CalledBacked DEF CommitAudit
  <2>2. CASE AppendAudit(r)
    <3>1. job' = [job EXCEPT ![r] = job[r]]
      BY <2>2 DEF AppendAudit, SInv, ServiceTypeOK
    <3> QED
      BY <3>1 DEF BInv
  <2>3. CASE Die(r)
    BY <2>3, AnsweredBacked DEF Die
  <2> QED
    BY <2>1, <2>2, <2>3
<1>7. BackedJob(j)'
  BY <1>6, JobKept
<1> QED
  BY <1>3, <1>4, <1>5, <1>6, <1>7, BackedStep

\* Another case records a result.
LEMMA ElsewhereBacked ==
    ASSUME SInv, BInv, [ServiceNext]_vars, NEW k \in Keys, RecordElsewhere(k)
    PROVE  BInv'
<1>1. UNCHANGED <<row, txn, job>>
  BY ElsewhereLemma
<1>2. (row.version > 0 => Backed(row.content))'
  <2>1. PICK c : c = row.content
    OBVIOUS
  <2>2. row.version > 0 => Backed(c)'
    BY <2>1, BackedKept DEF BInv
  <2> QED
    BY <1>1, <2>1, <2>2 DEF Backed, ResultBehind, ApprovalUsedUp
<1>3. ASSUME NEW q \in Requests
      PROVE  (BackedJob(job[q]) /\ (txn[q].kind = "save" => Backed(txn[q].content)))'
  <2>1. PICK i, t : i = job[q] /\ t = txn[q]
    OBVIOUS
  <2>2. BackedJob(i)' /\ (t.kind = "save" => Backed(t.content)')
    BY <2>1, JobKept, BackedKept DEF BInv
  <2> QED
    BY <1>1, <2>1, <2>2 DEF BackedJob, Backed, ResultBehind, ApprovalUsedUp
<1> QED
  BY <1>2, <1>3 DEF BInv

LEMMA InitBInv == ServiceInit => BInv
<1> SUFFICES ASSUME ServiceInit PROVE BInv
  OBVIOUS
<1>1. ~(row.version > 0) /\ \A r \in Requests : txn[r].kind # "save" /\ job[r] = NoJob
  BY DEF ServiceInit, StoreInit, NoTxn
<1> QED
  BY <1>1, NoJobBacked DEF BInv

LEMMA NextBInv == SInv /\ BInv /\ [ServiceNext]_vars => BInv'
<1> SUFFICES ASSUME SInv, BInv, [ServiceNext]_vars PROVE BInv'
  OBVIOUS
<1>1. ASSUME NEW r \in Requests, Handed(r) PROVE BInv'
  <2>1. PICK j : BackedJob(j) /\ job' = [job EXCEPT ![r] = j] /\ UNCHANGED <<row, txn>>
    BY <1>1 DEF Handed
  <2>2. BackedJob(j)'
    BY <2>1, JobKept
  <2> QED
    BY <2>1, <2>2, BackedQuiet
<1>2. ASSUME NEW r \in Requests, Call(r) PROVE BInv'
  BY <1>1, <1>2, IssueBacked, ConsumeBacked, RecordBacked, SaveCaseBacked,
     CommitCaseBacked, OtherCallsBacked, EndedBacked DEF Call
<1>3. CASE UNCHANGED vars
  BY <1>3 DEF vars, BInv, BackedJob, Backed, ResultBehind, ApprovalUsedUp
<1> QED
  BY <1>1, <1>2, <1>3, HandlerHanded, EndedBacked, ElsewhereBacked
     DEF ServiceNext, GetCase

\* Wherever requests die between their transactions and however they
\* interleave: a stored case that says it is approved has a registered token for
\* its payload; one that says its approval is consumed names a recorded result,
\* and has used up an approval of its very payload unless the result was found
\* under the key and answered as a replay.
THEOREM ApprovalsBacked == ServiceSpec => []ApprovalBacked
<1>1. ServiceInit => SInv /\ BInv
  BY InitSInv, InitBInv
<1>2. (SInv /\ BInv) /\ [ServiceNext]_vars => (SInv /\ BInv)'
  BY NextSInv, NextBInv
<1>3. SInv /\ BInv => ApprovalBacked
  BY DEF BInv, Backed, ResultBehind, ApprovalBacked
<1> QED
  BY <1>1, <1>2, <1>3, PTL DEF ServiceSpec

-----------------------------------------------------------------------------
(* 5. What a handler has decided: which cases override a block.            *)

LEMMA TransitionStatus ==
    ASSUME NEW c \in Cases, NEW target, NEW d \in Transition(c, target)
    PROVE  d \in Cases /\ d.status = target /\ d.gate = c.gate
<1>1. \A status \in CaseStatus : ALLOWED[status] \subseteq CaseStatus
  BY DEF ALLOWED, CaseStatus
<1>2. target \in CaseStatus
  BY <1>1 DEF Transition, Cases
<1> QED
  BY <1>2, TransitionLemma DEF Cases

\* No analysis overrides a block.
LEMMA AnalysisObeys ==
    ASSUME NEW c \in Cases, NEW start, NEW d \in Analysis(c, start)
    PROVE  ~Overrides(d)
<1>1. PICK f \in Findings :
        d \in IF Recommended(c, start, f) THEN Assessed(c, start, f)
              ELSE NoGroundedProduct(c, start, f)
  BY DEF Analysis
<1>2. CASE d \in NoGroundedProduct(c, start, f)
  <2>1. PICK t \in Transition(c, "pending_review") :
          d = [t EXCEPT !.products = FALSE,
                        !.eligibility = Eligibility(c, start, f),
                        !.gated = FALSE]
    BY <1>2 DEF NoGroundedProduct
  <2>2. t \in Cases /\ t.status = "pending_review"
    BY TransitionStatus
  <2> QED
    BY <2>1, <2>2 DEF Overrides, Cases
<1>3. CASE d \in Assessed(c, start, f)
  <2> DEFINE elig     == Eligibility(c, start, f)
             decision == RiskGate(elig, f)
             next     == GateStatus[decision.outcome]
  <2>1. PICK t \in Transition(c, next) :
          d = [t EXCEPT !.products    = TRUE,
                        !.eligibility = elig,
                        !.evidence    = IF f.invalid # {} THEN "invalid"
                                        ELSE IF f.cited THEN "valid" ELSE "none",
                        !.gate        = decision,
                        !.overridden  = FALSE,
                        !.payload     = f.payload,
                        !.gated       = TRUE,
                        !.approval    = IF next = "pending_approval"
                                        THEN "pending" ELSE @]
    BY <1>3 DEF Assessed
  <2> HIDE DEF elig, decision, next
  <2>2. t \in Cases
    BY TransitionStatus
  <2>3. d.overridden = FALSE
    BY <2>1, <2>2 DEF Cases
  <2> QED
    BY <2>3 DEF Overrides
<1> QED
  BY <1>1, <1>2, <1>3

LEMMA RunObeys ==
    ASSUME NEW c \in Cases, NEW d \in Run(c)
    PROVE  ~Overrides(d)
<1> DEFINE understood == Transition(c, "understanding")
           asked      == UNION {Transition(u, "clarification_required") :
                                   u \in understood}
           answered   == {[u EXCEPT !.products = p] : p \in BOOLEAN,
                            u \in UNION {Transition(v, "completed") : v \in understood}}
           planned    == UNION {Transition(u, "planned") : u \in understood}
           analysing  == UNION {Transition(u, "in_analysis") : u \in planned}
<1>1. \A u \in understood : u \in Cases
  BY TransitionStatus
<1> HIDE DEF understood
<1>2. CASE d \in asked
  BY <1>1, <1>2, TransitionStatus DEF Overrides
<1>3. CASE d \in answered
  <2>1. PICK p \in BOOLEAN, v \in understood :
          \E u \in Transition(v, "completed") : d = [u EXCEPT !.products = p]
    BY <1>3
  <2>2. PICK u \in Transition(v, "completed") : d = [u EXCEPT !.products = p]
    BY <2>1
  <2>3. u \in Cases /\ u.status = "completed"
    BY <1>1, <2>2, TransitionStatus
  <2> QED
    BY <2>2, <2>3 DEF Overrides, Cases
<1>4. CASE d \in UNION {Analysis(u, "retrieve_products") : u \in analysing}
  <2>1. \A u \in planned : u \in Cases
    BY <1>1, TransitionStatus
  <2> HIDE DEF planned
  <2>2. \A u \in analysing : u \in Cases
    BY <2>1, TransitionStatus
  <2> HIDE DEF analysing
  <2> QED
    BY <1>4, <2>2, AnalysisObeys
<1> QED
  BY <1>2, <1>3, <1>4 DEF Run, understood

LEMMA RerunObeys ==
    ASSUME NEW c \in Cases, NEW new \in RerunWithMessage(c)
    PROVE  ~Overrides(new)
<1> DEFINE forgotten ==
        [c EXCEPT !.status = "new", !.products = FALSE, !.eligibility = "none",
                  !.evidence = "none", !.payload = NoPayload,
                  !.approval = "not_required", !.loops = 0]
<1>1. forgotten \in Cases
  <2>1. "new" \in CaseStatus /\ "not_required" \in ApprovalStatus /\ 0 \in 0..MaxLoops
    BY DEF CaseStatus, ApprovalStatus, MaxLoops
  <2> QED
    BY <2>1 DEF Cases
<1>2. new \in Run(forgotten)
  BY DEF RerunWithMessage
<1> HIDE DEF forgotten
<1> QED
  BY <1>1, <1>2, RunObeys

LEMMA ResumeObeys ==
    ASSUME NEW c \in Cases, NEW starts, NEW new \in Resume(c, starts)
    PROVE  ~Overrides(new)
<1>1. CASE c.loops >= MaxLoops
  <2>1. new = [c EXCEPT !.status = "failed"]
    BY <1>1 DEF Resume
  <2> QED
    BY <2>1 DEF Overrides, Cases
<1>2. CASE ~(c.loops >= MaxLoops)
  <2>1. PICK start \in starts : new \in Resumed(c, start)
    BY <1>2 DEF Resume
  <2>2. PICK t \in Transition(c, "in_analysis") :
          new \in Analysis([t EXCEPT !.loops = @ + 1, !.approval = "not_required"], start)
    BY <2>1 DEF Resumed
  <2> DEFINE again == [t EXCEPT !.loops = @ + 1, !.approval = "not_required"]
  <2>3. t \in Cases /\ t.loops + 1 \in 0..MaxLoops
    <3>1. t = [c EXCEPT !.status = "in_analysis"]
      BY Statuses, TransitionLemma
    <3> QED
      BY <1>2, <3>1, TransitionStatus DEF Cases, MaxLoops
  <2>4. again \in Cases
    BY <2>3 DEF Cases, ApprovalStatus
  <2> HIDE DEF again
  <2>5. new \in Analysis(again, start)
    BY <2>2 DEF again
  <2> QED
    BY <2>4, <2>5, AnalysisObeys
<1> QED
  BY <1>1, <1>2

\* Of a review's decisions only a clearance can.
LEMMA ReviewedObeys ==
    ASSUME NEW c \in Cases, NEW decision \in ReviewDecisions,
           NEW new \in Reviewed(c, decision)
    PROVE  decision = "cleared" \/ ~Overrides(new)
<1>1. CASE decision = "blocked"
  <2>1. PICK d \in Transition(c, "rejected") : new = [d EXCEPT !.approval = "rejected"]
    BY <1>1 DEF Reviewed
  <2>2. d \in Cases /\ d.status = "rejected"
    BY TransitionStatus
  <2> QED
    BY <2>1, <2>2 DEF Overrides, Cases
<1>2. CASE decision = "needs_more_information"
  <2>1. PICK d \in Transition(c, "in_analysis") :
          new \in Transition(d, "pending_information")
    BY <1>2 DEF Reviewed
  <2> QED
    BY <2>1, TransitionStatus DEF Overrides
<1> QED
  BY <1>1, <1>2 DEF ReviewDecisions

-----------------------------------------------------------------------------
(* 5. The handlers up to their first call.                                 *)

Counting == <<"count", "review", "audit", "save">>
Agreed == <<"review", "audit", "save">>

\* What a handler has decided about the row it read.
Decides(j) ==
    /\ j.base = row.version
    /\ \/ j.todo = <<"save", "audit">> /\ ~Overrides(j.new)
       \/ /\ j.todo = Approving /\ j.new.approval = "approved"
          /\ row.version > 0 /\ j.new.gate = row.content.gate
          /\ Overrides(j.new) => Overrides(row.content)
       \/ /\ j.todo \in Executing
          /\ j.new.status = "completed" /\ j.new.payload = row.content.payload
          /\ j.todo \in ExecuteScripts => row.content.status = "pending_approval"
       \/ j.todo = Agreed /\ ~Overrides(j.new)
       \/ /\ j.todo = Counting
          /\ j.review.version = row.version /\ j.review.decision = "cleared"

DecidedJob(r) ==
    \E j : /\ Decides(j) /\ job' = [job EXCEPT ![r] = j]
           /\ UNCHANGED <<row, chain, txn, tokens, results, reviews>>

LEMMA StoreDecides ==
    ASSUME NEW r \in Requests, NEW op, NEW c,
           ~Overrides(c), Accept(r, op, Store(c))
    PROVE  DecidedJob(r)
<1>1. PICK j : j = Store(c)
  OBVIOUS
<1>2. j.todo = <<"save", "audit">> /\ j.base = row.version /\ j.new = c
  BY <1>1, StoreRecord
<1>3. Decides(j)
  BY <1>2 DEF Decides
<1>4. job' = [job EXCEPT ![r] = j] /\ UNCHANGED <<row, chain, txn, tokens, results, reviews>>
  BY <1>1 DEF Accept, tables
<1> QED
  BY <1>3, <1>4 DEF DecidedJob

LEMMA EngineDecides ==
    ASSUME SInv, NEW r \in Requests,
           \/ CreateCase(r) \/ AddMessage(r) \/ AddDocuments(r) \/ CorrectContext(r)
           \/ ResumeCase(r) \/ RunSalesCaseAnalysis(r)
    PROVE  DecidedJob(r)
<1>1. \A c \in Run(NewCase) : ~Overrides(c)
  BY RunObeys, NewCaseWorks DEF Working
<1>2. Exists => row.content \in Cases
  BY DEF Exists, SInv, Sound
<1>3. Exists => \A starts : \A c \in RerunOrResume(row.content, starts) : ~Overrides(c)
  BY <1>2, RerunObeys, ResumeObeys DEF RerunOrResume
<1>4. CASE CreateCase(r)
  BY <1>1, <1>4, StoreDecides DEF CreateCase
<1>5. CASE AddMessage(r)
  BY <1>2, <1>5, RerunObeys, StoreDecides DEF AddMessage
<1>6. CASE AddDocuments(r)
  BY <1>3, <1>6, StoreDecides DEF AddDocuments
<1>7. CASE CorrectContext(r)
  BY <1>3, <1>7, StoreDecides DEF CorrectContext
<1>8. CASE ResumeCase(r)
  BY <1>2, <1>8, ResumeObeys, StoreDecides DEF ResumeCase
<1>9. CASE RunSalesCaseAnalysis(r)
  BY <1>1, <1>2, <1>9, ResumeObeys, StoreDecides DEF RunSalesCaseAnalysis
<1> QED
  BY <1>4, <1>5, <1>6, <1>7, <1>8, <1>9

LEMMA RejectDecides ==
    ASSUME SInv, NEW r \in Requests, RejectCase(r) \/ RejectSalesCase(r)
    PROVE  DecidedJob(r)
<1>1. Exists /\ row.content \in Cases
  BY DEF Exists, SInv, Sound, RejectCase, RejectSalesCase
<1>2. Rejected(row.content).status = "rejected"
  BY <1>1 DEF Rejected, Cases
<1> QED
  BY <1>2, StoreDecides DEF Overrides, RejectCase, RejectSalesCase

\* What is left of the job Store makes once its script and more are replaced.
LEMMA StoreBase ==
    ASSUME NEW c, NEW todo, NEW by, NEW token, NEW key, NEW review
    PROVE  /\ [Store(c) EXCEPT !.todo = todo, !.by = by].base = row.version
           /\ [Store(c) EXCEPT !.todo = todo, !.review = review].base = row.version
           /\ [Store(c) EXCEPT !.todo = todo, !.review = review].review = review
           /\ [Store(c) EXCEPT !.todo = todo, !.by = by, !.token = token,
                               !.key = key].base = row.version
<1> DEFINE saving == <<"save", "audit">>
<1>1. Store(c) = [todo |-> saving, base |-> row.version, new |-> c, by |-> NoEmployee,
                  token |-> 0, key |-> NoKey, review |-> NoReview]
  BY StoreRecord
<1> HIDE DEF saving
<1> QED
  BY <1>1

LEMMA ApproveDecides ==
    ASSUME SInv, NEW r \in Requests, NEW op, Approve(r, op)
    PROVE  DecidedJob(r)
<1> DEFINE c == [row.content EXCEPT !.approval = "approved"]
           todo == Approving
<1>1. PICK e \in Employees : Accept(r, op, [Store(c) EXCEPT !.todo = todo, !.by = e])
  BY DEF Approve, Approving
<1>2. /\ row.version > 0 /\ c.approval = "approved" /\ c.gate = row.content.gate
      /\ Overrides(c) => Overrides(row.content)
  BY DEF Approve, Exists, SInv, Sound, Cases, Overrides
<1> HIDE DEF c, todo
<1> DEFINE j == [Store(c) EXCEPT !.todo = todo, !.by = e]
<1>3. j.todo = todo /\ j.base = row.version /\ j.new = c
  BY StoreFields, StoreBase
<1> HIDE DEF j
<1>4. Decides(j)
  BY <1>2, <1>3 DEF Decides, todo
<1>5. job' = [job EXCEPT ![r] = j] /\ UNCHANGED <<row, chain, txn, tokens, results, reviews>>
  BY <1>1 DEF Accept, j, tables
<1> QED
  BY <1>4, <1>5 DEF DecidedJob

LEMMA ExecuteDecides ==
    ASSUME SInv, NEW r \in Requests, NEW op, Execute(r, op)
    PROVE  DecidedJob(r)
<1> DEFINE todo == IF Executable(row.content)
                   THEN <<"lookup", "consume", "record", "save", "audit">>
                   ELSE <<"lookup", "deny">>
<1>1. PICK e \in Employees, k \in Keys, t \in DOMAIN tokens :
        Accept(r, op, [Store([row.content EXCEPT
                                  !.status = "completed", !.approval = "consumed",
                                  !.executed = [key |-> k, replay |-> FALSE]])
                       EXCEPT !.todo = todo, !.by = e, !.token = t, !.key = k])
  BY DEF Execute
<1> DEFINE x == [key |-> k, replay |-> FALSE]
           c == [row.content EXCEPT !.status = "completed", !.approval = "consumed",
                                    !.executed = x]
<1>2. c.status = "completed" /\ c.payload = row.content.payload
  <2> HIDE DEF x
  <2> QED
    BY DEF Execute, Exists, SInv, Sound, Cases
<1>3. todo \in Executing /\ (todo \in ExecuteScripts => row.content.status = "pending_approval")
  BY DEF Executing, ExecuteScripts, Executable
<1>4. Accept(r, op, [Store(c) EXCEPT !.todo = todo, !.by = e, !.token = t, !.key = k])
  BY <1>1
<1> HIDE DEF c, todo
<1> DEFINE j == [Store(c) EXCEPT !.todo = todo, !.by = e, !.token = t, !.key = k]
<1>5. j.todo = todo /\ j.new = c /\ j.base = row.version
  BY StoreFields, StoreBase
<1> HIDE DEF j
<1>6. Decides(j)
  BY <1>2, <1>3, <1>5 DEF Decides
<1>7. job' = [job EXCEPT ![r] = j] /\ UNCHANGED <<row, chain, txn, tokens, results, reviews>>
  BY <1>4 DEF Accept, j, tables
<1> QED
  BY <1>6, <1>7 DEF DecidedJob

LEMMA ReviewDecides ==
    ASSUME SInv, NEW r \in Requests, SubmitSpecialistReview(r)
    PROVE  DecidedJob(r)
<1>1. PICK role \in RequiredRoles(row.content), decision \in ReviewDecisions :
        \E c \in Reviewed(row.content, decision) :
          Accept(r, "review",
                [Store(c) EXCEPT
                    !.todo = IF decision = "cleared"
                             THEN <<"count", "review", "audit", "save">>
                             ELSE <<"review", "audit", "save">>,
                    !.review = [version |-> row.version, role |-> role,
                                decision |-> decision]])
  BY DEF SubmitSpecialistReview
<1> DEFINE todo == IF decision = "cleared" THEN Counting ELSE Agreed
           review == [version |-> row.version, role |-> role, decision |-> decision]
<1>2. PICK c \in Reviewed(row.content, decision) :
        Accept(r, "review", [Store(c) EXCEPT !.todo = todo, !.review = review])
  BY <1>1 DEF Counting, Agreed
<1>3. row.content \in Cases
  BY DEF SubmitSpecialistReview, Exists, SInv, Sound
<1>4. decision = "cleared" \/ ~Overrides(c)
  BY <1>3, ReviewedObeys
<1>5. review.version = row.version /\ review.decision = decision
  OBVIOUS
<1> HIDE DEF review
<1> DEFINE j == [Store(c) EXCEPT !.todo = todo, !.review = review]
<1>6. j.todo = todo /\ j.new = c /\ j.base = row.version /\ j.review = review
  <2> HIDE DEF todo
  <2> QED
    BY StoreFields, StoreBase
<1>7. job' = [job EXCEPT ![r] = j] /\ UNCHANGED <<row, chain, txn, tokens, results, reviews>>
  BY <1>2 DEF Accept, tables
<1> HIDE DEF j
<1>8. Decides(j)
  BY <1>4, <1>5, <1>6 DEF Decides
<1> QED
  BY <1>7, <1>8 DEF DecidedJob

LEMMA HandlerDecides ==
    ASSUME SInv, NEW r \in Requests, Handler(r)
    PROVE  DecidedJob(r)
<1>1. CASE ApproveCase(r) \/ ApproveSalesCase(r)
  BY <1>1, ApproveDecides DEF ApproveCase, ApproveSalesCase
<1>2. CASE ExecuteCase(r) \/ ExecuteSalesCaseActions(r)
  BY <1>2, ExecuteDecides DEF ExecuteCase, ExecuteSalesCaseActions
<1> QED
  BY <1>1, <1>2, EngineDecides, RejectDecides, ReviewDecides, Zenon DEF Handler

-----------------------------------------------------------------------------
(* 5. The calls.                                                           *)

\* What a call leaves of its handler: nothing that is stored, the rest of its
\* script, or after a replay the case to store.
Moves(i, j) ==
    \/ j.todo \notin CaseScripts
    \/ j = i
    \/ /\ i.todo \in Scripts \ {<<>>}
       /\ j.todo = Tail(i.todo)
       /\ j.base = i.base /\ j.new = i.new /\ j.review = i.review
    \/ /\ i.todo \in Executing /\ j.todo = <<"save", "audit">>
       /\ j.new.status = i.new.status

LEMMA NothingLeft ==
    /\ <<>> \notin CaseScripts /\ <<"audit">> \notin CaseScripts
    /\ <<"review">> \notin CaseScripts
    /\ NoJob.todo = <<>>
BY DEF CaseScripts, SaveScripts, ExecuteScripts, NoJob

LEMMA AnsweredMoves ==
    ASSUME NEW r \in Requests, job' = Answered(r)
    PROVE  \E j : job' = [job EXCEPT ![r] = j] /\ Moves(job[r], j)
BY NothingLeft DEF Answered, Moves

LEMMA CalledMoves ==
    ASSUME SInv, NEW r \in Requests, ~Free(r), job' = Called(r)
    PROVE  \E j : job' = [job EXCEPT ![r] = j] /\ Moves(job[r], j)
<1>1. PICK j : /\ job' = [job EXCEPT ![r] = j]
               /\ j = NoJob \/ j = [job[r] EXCEPT !.todo = Tail(job[r].todo)]
  BY CalledLemma
<1>2. job[r] \in Jobs /\ job[r].todo \in Scripts /\ job[r].todo # <<>>
  BY DEF SInv, LegalJob, Free
<1>3. Moves(job[r], j)
  BY <1>1, <1>2, NothingLeft DEF Moves, Jobs
<1> QED
  BY <1>1, <1>3

LEMMA IssueMoves ==
    ASSUME SInv, NEW r \in Requests, Issue(r)
    PROVE  \E j : job' = [job EXCEPT ![r] = j] /\ Moves(job[r], j)
<1>1. job[r] \in Jobs /\ job[r].todo \in Scripts /\ job[r].todo # <<>>
  BY AtLemma DEF Issue, Free
<1> DEFINE todo == Tail(job[r].todo)
           j == [job[r] EXCEPT !.todo = todo, !.token = Len(tokens) + 1]
<1>2. job' = [job EXCEPT ![r] = j]
  BY <1>1 DEF Issue, SInv, ServiceTypeOK
<1>3. Moves(job[r], j)
  <2> HIDE DEF todo
  <2>1. j.todo = todo /\ j.base = job[r].base /\ j.new = job[r].new /\ j.review = job[r].review
    BY <1>1 DEF Jobs
  <2> HIDE DEF j
  <2> QED
    BY <1>1, <2>1 DEF Moves, todo
<1> QED
  BY <1>2, <1>3

LEMMA LookupMoves ==
    ASSUME SInv, NEW r \in Requests, Lookup(r)
    PROVE  \E j : job' = [job EXCEPT ![r] = j] /\ Moves(job[r], j)
<1>1. ~Free(r) /\ job[r].todo \in Executing
  BY AtLemma, ScriptHeads DEF Lookup, Free, Executing, ExecuteScripts
<1>2. CASE job' = Called(r)
  BY <1>1, <1>2, CalledMoves
<1>3. CASE job' # Called(r)
  <2> DEFINE todo == <<"save", "audit">>
             new == Replayed(job[r].new)
             j == [NoJob EXCEPT !.todo = todo, !.base = job[r].base, !.new = new]
  <2>1. job' = [job EXCEPT ![r] = j]
    BY <1>3 DEF Lookup
  <2>2. new.status = job[r].new.status
    BY LookupLegal DEF Sound, Replayed, Cases
  <2> HIDE DEF todo, new
  <2>3. j.todo = todo /\ j.new = new
    BY NoJobLegal DEF LegalJob, Jobs
  <2> HIDE DEF j
  <2>4. Moves(job[r], j)
    BY <1>1, <2>2, <2>3 DEF Moves, todo
  <2> QED
    BY <2>1, <2>4
<1> QED
  BY <1>2, <1>3

LEMMA CountMoves ==
    ASSUME SInv, NEW r \in Requests, CountClearances(r)
    PROVE  \E j : job' = [job EXCEPT ![r] = j] /\ Moves(job[r], j)
<1>1. CASE job' = Called(r)
  BY <1>1, AtLemma, CalledMoves DEF CountClearances
<1>2. CASE job' # Called(r)
  <2> DEFINE j == [job[r] EXCEPT !.todo = <<"review">>]
  <2>1. job' = [job EXCEPT ![r] = j]
    BY <1>2 DEF CountClearances
  <2>2. j.todo = <<"review">>
    BY DEF SInv, ServiceTypeOK, Jobs
  <2> HIDE DEF j
  <2> QED
    BY <2>1, <2>2, NothingLeft DEF Moves
<1> QED
  BY <1>1, <1>2

LEMMA CommitMoves ==
    ASSUME SInv, NEW r \in Requests, CommitCase(r)
    PROVE  \E j : job' = [job EXCEPT ![r] = j] /\ j.todo \notin CaseScripts
<1>1. CASE Len(job[r].todo) = 1
  BY <1>1, NothingLeft DEF CommitCase, Answered
<1>2. CASE Len(job[r].todo) # 1
  <2> DEFINE todo == <<"audit">>
             j    == [NoJob EXCEPT !.todo = todo, !.token = job[r].token]
  <2>1. job[r].todo \in {<<"save", "audit">>, <<"save">>}
    BY DEF SInv, LegalTxn, CommitCase, SaveUpdate, SaveInsert
  <2>2. Tail(job[r].todo) = todo
    <3>1. CASE job[r].todo = <<"save">>
      BY <1>2, <3>1
    <3>2. CASE job[r].todo = <<"save", "audit">>
      BY <3>2
    <3> QED
      BY <2>1, <3>1, <3>2
  <2>3. job' = [job EXCEPT ![r] = j]
    BY <1>2, <2>2 DEF CommitCase
  <2> HIDE DEF todo
  <2>4. j.todo = todo
    BY NoJobLegal DEF LegalJob, Jobs
  <2> HIDE DEF j
  <2> QED
    BY <2>3, <2>4, NothingLeft DEF todo
<1> QED
  BY <1>1, <1>2

LEMMA CallMoves ==
    ASSUME SInv, NEW r \in Requests, Call(r) \/ Die(r)
    PROVE  \E j : job' = [job EXCEPT ![r] = j] /\ Moves(job[r], j)
<1>1. CASE Deny(r) \/ SaveConflict(r) \/ Die(r)
  BY <1>1, AnsweredMoves DEF Deny, SaveConflict, Die
<1>2. CASE RecordResult(r) \/ SaveSpecialistReview(r) \/ AuditUnfollowed(r)
  BY <1>2, AtLemma, CalledMoves DEF RecordResult, SaveSpecialistReview, AuditUnfollowed
<1>3. CASE Consume(r)
  BY <1>3, AtLemma, CalledMoves, AnsweredMoves DEF Consume
<1>4. CASE SaveCase(r) \/ AppendAudit(r)
  <2>1. job' = [job EXCEPT ![r] = job[r]]
    BY <1>4 DEF SaveCase, AppendAudit, SInv, ServiceTypeOK
  <2> QED
    BY <2>1 DEF Moves
<1>5. CASE CommitAudit(r)
  <2>1. txn[r].kind = "audit"
    BY <1>5 DEF CommitAudit, AuditInsert
  <2>2. job[r].todo \in {<<"audit">>, <<"audit", "save">>}
    BY <2>1 DEF SInv, LegalTxn
  <2>3. ~Free(r)
    BY <2>2 DEF Free
  <2> QED
    BY <1>5, <2>3, CalledMoves DEF CommitAudit
<1>6. CASE CommitCase(r)
  BY <1>6, CommitMoves DEF Moves
<1> QED
  BY <1>1, <1>2, <1>3, <1>4, <1>5, <1>6, IssueMoves, LookupMoves, CountMoves DEF Call

\* Only a commit changes the row.
LEMMA RowKept ==
    ASSUME NEW r \in Requests, Call(r) \/ Die(r), ~CommitCase(r)
    PROVE  row' = row
BY DEF Call, Issue, Lookup, Deny, Consume, RecordResult, CountClearances,
       SaveSpecialistReview, SaveCase, SaveSelect, SaveConflict, SaveRefused, storeVars,
       AppendAudit, AuditSelect, CommitAudit, AuditInsert, AuditUnfollowed, Die, Rollback

-----------------------------------------------------------------------------
(* 6. One request at a time.                                               *)

\* What may still be executed is what the row waits for.
PInv ==
    \A r \in Requests :
        job[r].todo \in ExecuteScripts =>
            /\ row.content.status = "pending_approval"
            /\ row.content.payload = job[r].new.payload

LEMMA InitPInv == ServiceInit => PInv
BY NothingLeft DEF ServiceInit, PInv, CaseScripts

LEMMA NextPInv ==
    ASSUME NEW r, Requests = {r}, SInv, PInv, [ServiceNext]_vars
    PROVE  PInv'
<1>1. \A j : job' = [job EXCEPT ![r] = j] => job'[r] = j
  BY DEF SInv, ServiceTypeOK
<1>2. ASSUME Handler(r) PROVE PInv'
  <2>1. PICK j : Decides(j) /\ job' = [job EXCEPT ![r] = j] /\ row' = row
    BY <1>2, HandlerDecides DEF DecidedJob
  <2>2. j.todo \in ExecuteScripts =>
          row.content.status = "pending_approval" /\ row.content.payload = j.new.payload
    BY <2>1 DEF Decides, ExecuteScripts, Approving, Agreed, Counting
  <2> QED
    BY <1>1, <2>1, <2>2 DEF PInv
<1>3. ASSUME Call(r) \/ Die(r), ~CommitCase(r) PROVE PInv'
  <2>1. PICK j : job' = [job EXCEPT ![r] = j] /\ Moves(job[r], j)
    BY <1>3, CallMoves
  <2>2. j.todo \in ExecuteScripts =>
          job[r].todo \in ExecuteScripts /\ j.new = job[r].new
    <3>1. <<"save", "audit">> \notin ExecuteScripts
      BY DEF ExecuteScripts
    <3> QED
      BY <2>1, <3>1, ScriptTails DEF Moves, CaseScripts
  <2> QED
    BY <1>1, <1>3, <2>1, <2>2, RowKept DEF PInv
<1>4. ASSUME CommitCase(r) PROVE PInv'
  BY <1>1, <1>4, CommitMoves DEF PInv, CaseScripts
<1>5. CASE UNCHANGED vars
  BY <1>5 DEF vars, PInv
<1>6. ASSUME NEW k \in Keys, RecordElsewhere(k) PROVE PInv'
  BY <1>6 DEF RecordElsewhere, PInv
<1> QED
  BY <1>2, <1>3, <1>4, <1>5, <1>6 DEF ServiceNext, GetCase

\* Only RecordResult records an action.
LEMMA ResultsOf ==
    ASSUME NEW r \in Requests, Handler(r) \/ Call(r) \/ Die(r) \/ GetCase(r),
           ~RecordResult(r), SInv
    PROVE  results' = results
<1>1. CASE Handler(r)
  BY <1>1, HandlerDecides DEF DecidedJob
<1>2. CASE Call(r)
  BY <1>2 DEF Call, Issue, Lookup, Deny, Consume, CountClearances,
     SaveSpecialistReview, SaveCase, SaveConflict, CommitCase, tables,
     AppendAudit, CommitAudit, AuditUnfollowed
<1> QED
  BY <1>1, <1>2 DEF Die, GetCase, tables, vars

\* With one request at a time an action is recorded only for a case that waits
\* for approval, and for the payload it holds then, though no handler revokes a
\* token when it rejects, re-analyses or completes a case.
THEOREM ActionsOnPendingCases ==
    ASSUME NEW r, Requests = {r}
    PROVE  ServiceSpec => ActionOnlyOnPendingCase
<1>1. ServiceInit => SInv /\ PInv
  BY InitSInv, InitPInv
<1>2. SInv /\ PInv /\ [ServiceNext]_vars => (SInv /\ PInv)'
  BY NextSInv, NextPInv
<1>3. SInv /\ PInv /\ [ServiceNext]_vars =>
        [\A k \in Keys : results'[k] # results[k] /\ results'[k].case = "this" =>
            /\ row.content.status = "pending_approval"
            /\ row.content.payload = results'[k].payload]_vars
  <2> SUFFICES ASSUME SInv, PInv, ServiceNext, NEW k \in Keys,
                      results'[k] # results[k], results'[k].case = "this"
               PROVE  /\ row.content.status = "pending_approval"
                      /\ row.content.payload = results'[k].payload
    OBVIOUS
  <2>1. RecordResult(r)
    BY ResultsOf, ElsewhereLemma DEF ServiceNext
  <2>2. /\ job[r].todo = <<"record", "save", "audit">>
        /\ results'[k] = Result(job[r])
    BY <2>1, RecordedResults
  <2>3. job[r].todo \in ExecuteScripts /\ results'[k].payload = job[r].new.payload
    BY <2>2 DEF ExecuteScripts, Result
  <2> QED
    BY <2>3 DEF PInv
<1> QED
  BY <1>1, <1>2, <1>3, PTL DEF ServiceSpec, ActionOnlyOnPendingCase

-----------------------------------------------------------------------------
(* 7. Overridden blocks.                                                   *)

\* A case computed from version base is overridden with the agreement of every
\* role, given to base itself while nobody has approved the case.
Agrees(c, base) ==
    Overrides(c) =>
        \E v \in 0..base :
            /\ c.approval = "pending" => v = base
            /\ ClearedByAll(c, v)

Saving == {<<"save", "audit">>, <<"audit", "save">>, <<"save">>}

\* A handler that overrides a block is a review's: it has still to count the
\* other clearances, or has found them all, or has added its own.
JobAgrees(j) ==
    /\ j.todo \in Saving \cup {Approving} => Agrees(j.new, j.base)
    /\ j.todo \in Executing => j.new.status # "pending_approval"
    /\ j.todo \in {Counting, Agreed} /\ Overrides(j.new) =>
          j.review.version = j.base /\ j.review.decision = "cleared"
    /\ j.todo = Agreed /\ Overrides(j.new) =>
          \A role \in RequiredRoles(j.new) \ {j.review.role} :
             [version |-> j.base, role |-> role, decision |-> "cleared"] \in reviews

OInv ==
    /\ row.version > 0 => Agrees(row.content, row.version - 1)
    /\ \A r \in Requests :
          /\ JobAgrees(job[r])
          /\ txn[r].kind = "save" => Agrees(txn[r].content, txn[r].base)

\* Reviews are only added.
LEMMA AgreesKept ==
    ASSUME NEW c, NEW base, Agrees(c, base), reviews \subseteq reviews'
    PROVE  Agrees(c, base)'
BY DEF Agrees, ClearedByAll

LEMMA JobAgreesKept ==
    ASSUME NEW j, JobAgrees(j), reviews \subseteq reviews'
    PROVE  JobAgrees(j)'
BY AgreesKept DEF JobAgrees

LEMMA NothingAgrees ==
    ASSUME NEW j, j.todo \notin CaseScripts
    PROVE  JobAgrees(j)
BY DEF JobAgrees, Saving, Approving, Executing, Counting, Agreed, CaseScripts, SaveScripts

\* What a step of one request must leave for OInv to hold again.
LEMMA OverrideStep ==
    ASSUME SInv, OInv, NEW r \in Requests, NEW j,
           job' = [job EXCEPT ![r] = j], JobAgrees(j)', reviews \subseteq reviews',
           (row.version > 0 => Agrees(row.content, row.version - 1))',
           \A q \in Requests \ {r} : txn'[q] = txn[q],
           (txn[r].kind = "save" => Agrees(txn[r].content, txn[r].base))'
    PROVE  OInv'
<1>1. job'[r] = j /\ \A q \in Requests \ {r} : job'[q] = job[q]
  BY DEF SInv, ServiceTypeOK
<1>2. JobAgrees(job[r])'
  BY <1>1 DEF JobAgrees, Agrees, ClearedByAll
<1>3. ASSUME NEW q \in Requests \ {r}
      PROVE  /\ JobAgrees(job[q])'
             /\ (txn[q].kind = "save" => Agrees(txn[q].content, txn[q].base))'
  <2>1. PICK i, t : i = job[q] /\ t = txn[q]
    OBVIOUS
  <2>2. JobAgrees(i) /\ (t.kind = "save" => Agrees(t.content, t.base))
    BY <2>1 DEF OInv
  <2>3. JobAgrees(i)' /\ (t.kind = "save" => Agrees(t.content, t.base)')
    BY <2>2, JobAgreesKept, AgreesKept
  <2> QED
    BY <1>1, <2>1, <2>3 DEF JobAgrees, Agrees, ClearedByAll
<1> QED
  BY <1>2, <1>3 DEF OInv

\* A step that opens and ends no transaction.
LEMMA OverrideQuiet ==
    ASSUME SInv, OInv, NEW r \in Requests, NEW j,
           job' = [job EXCEPT ![r] = j], JobAgrees(j)',
           UNCHANGED <<row, txn>>, reviews \subseteq reviews'
    PROVE  OInv'
<1>1. PICK w, t : w = row /\ t = txn[r]
  OBVIOUS
<1>2. /\ w.version > 0 => Agrees(w.content, w.version - 1)'
      /\ t.kind = "save" => Agrees(t.content, t.base)'
  BY <1>1, AgreesKept DEF OInv
<1>3. (row.version > 0 => Agrees(row.content, row.version - 1))'
  BY <1>1, <1>2 DEF Agrees, ClearedByAll
<1>4. (txn[r].kind = "save" => Agrees(txn[r].content, txn[r].base))'
  BY <1>1, <1>2 DEF Agrees, ClearedByAll
<1> QED
  BY <1>3, <1>4, OverrideStep

LEMMA ScriptsApart ==
    /\ <<"save", "audit">> \in Saving
    /\ \A s \in Saving : s \notin Executing /\ s # Approving /\ s # Counting /\ s # Agreed
    /\ \A s \in Executing : s # Approving /\ s # Counting /\ s # Agreed
    /\ Approving # Counting /\ Approving # Agreed /\ Counting # Agreed
BY DEF Saving, Approving, Executing, ExecuteScripts, Counting, Agreed

\* JobAgrees of each script.
LEMMA SavingAgrees ==
    ASSUME NEW j, j.todo \in Saving \cup {Approving}, Agrees(j.new, j.base)
    PROVE  JobAgrees(j)
<1>1. j.todo \notin Executing /\ j.todo \notin {Counting, Agreed}
  BY ScriptsApart
<1> QED
  BY <1>1 DEF JobAgrees

LEMMA ExecutingAgrees ==
    ASSUME NEW j, j.todo \in Executing, j.new.status # "pending_approval"
    PROVE  JobAgrees(j)
<1>1. j.todo \notin Saving \cup {Approving} /\ j.todo \notin {Counting, Agreed}
  BY ScriptsApart
<1> QED
  BY <1>1 DEF JobAgrees

LEMMA ReviewingAgrees ==
    ASSUME NEW j, j.todo \in {Counting, Agreed},
           Overrides(j.new) =>
             /\ j.todo = Counting
             /\ j.review.version = j.base /\ j.review.decision = "cleared"
    PROVE  JobAgrees(j)
<1>1. j.todo \notin Saving \cup {Approving} \cup Executing /\ Counting # Agreed
  BY ScriptsApart
<1> QED
  BY <1>1 DEF JobAgrees

LEMMA HandlerOverride ==
    ASSUME SInv, OInv, NEW r \in Requests, Handler(r)
    PROVE  OInv'
<1>1. PICK j : /\ Decides(j) /\ job' = [job EXCEPT ![r] = j]
               /\ UNCHANGED <<row, chain, txn, tokens, results, reviews>>
  BY HandlerDecides DEF DecidedJob
<1>2. j.base = row.version /\ row.version \in Nat
  BY <1>1 DEF Decides, SInv, ServiceTypeOK, StoreTypeOK
<1>3. JobAgrees(j)
  <2>1. CASE j.todo = <<"save", "audit">> /\ ~Overrides(j.new)
    BY <2>1, ScriptsApart, SavingAgrees DEF Agrees
  \* An approval keeps the override and whose clearances it has.
  <2>2. CASE /\ j.todo = Approving /\ j.new.approval = "approved"
             /\ row.version > 0 /\ j.new.gate = row.content.gate
             /\ Overrides(j.new) => Overrides(row.content)
    <3>1. ASSUME Overrides(j.new)
          PROVE  \E v \in 0..j.base : ClearedByAll(j.new, v)
      <4>1. PICK v \in 0..row.version - 1 : ClearedByAll(row.content, v)
        BY <2>2, <3>1 DEF OInv, Agrees
      <4>2. v \in 0..j.base /\ ClearedByAll(j.new, v)
        BY <1>2, <2>2, <4>1 DEF ClearedByAll, RequiredRoles
      <4> QED
        BY <4>2
    <3>2. Agrees(j.new, j.base)
      BY <2>2, <3>1 DEF Agrees
    <3> QED
      BY <2>2, <3>2, SavingAgrees
  <2>3. CASE j.todo \in Executing /\ j.new.status = "completed"
    BY <2>3, ExecutingAgrees
  <2>4. CASE j.todo = Agreed /\ ~Overrides(j.new)
    BY <2>4, ReviewingAgrees
  <2>5. CASE /\ j.todo = Counting
             /\ j.review.version = row.version /\ j.review.decision = "cleared"
    BY <1>2, <2>5, ReviewingAgrees
  <2> QED
    BY <1>1, <2>1, <2>2, <2>3, <2>4, <2>5 DEF Decides
<1>4. JobAgrees(j)'
  BY <1>1, <1>3, JobAgreesKept
<1> QED
  BY <1>1, <1>4, OverrideQuiet

\* After a call that neither counts nor records a clearance.
LEMMA AgreeingTails ==
    ASSUME NEW s \in Scripts, s \notin {<<>>, Counting, Agreed}
    PROVE  /\ Tail(s) \in Saving \cup {Approving} =>
                 s \in Saving \cup {Approving} \cup Executing
           /\ Tail(s) \in Executing => s \in Executing
           /\ Tail(s) \notin {Counting, Agreed}
<1> USE DEF Scripts, CaseScripts, SaveScripts, ExecuteScripts, Executing, Approving,
            Saving, Counting, Agreed
<1>1. CASE s = <<"save", "audit">>
  BY <1>1
<1>2. CASE s = <<"issue", "save", "audit">>
  BY <1>2
<1>3. CASE s = <<"audit", "save">>
  BY <1>3
<1>4. CASE s = <<"save">>
  BY <1>4
<1>5. CASE s = <<"lookup", "consume", "record", "save", "audit">>
  BY <1>5
<1>6. CASE s = <<"consume", "record", "save", "audit">>
  BY <1>6
<1>7. CASE s = <<"record", "save", "audit">>
  BY <1>7
<1>8. CASE s = <<"audit">>
  BY <1>8
<1>9. CASE s = <<"lookup", "deny">>
  BY <1>9
<1>10. CASE s = <<"deny">>
  BY <1>10
<1>11. CASE s = <<"review">>
  BY <1>11
<1> QED
  BY <1>1, <1>2, <1>3, <1>4, <1>5, <1>6, <1>7, <1>8, <1>9, <1>10, <1>11

LEMMA MovesAgree ==
    ASSUME NEW i, NEW j, JobAgrees(i), Moves(i, j), i.todo \notin {Counting, Agreed}
    PROVE  JobAgrees(j)
<1>1. CASE j.todo \notin CaseScripts
  BY <1>1, NothingAgrees
<1>2. CASE /\ i.todo \in Scripts \ {<<>>} /\ j.todo = Tail(i.todo)
           /\ j.base = i.base /\ j.new = i.new /\ j.review = i.review
  <2>1. /\ j.todo \in Saving \cup {Approving} =>
              i.todo \in Saving \cup {Approving} \cup Executing
        /\ j.todo \in Executing => i.todo \in Executing
        /\ j.todo \notin {Counting, Agreed}
    BY <1>2, AgreeingTails
  <2> QED
    BY <1>2, <2>1 DEF JobAgrees, Agrees, Overrides
<1>3. CASE /\ i.todo \in Executing /\ j.todo = <<"save", "audit">>
           /\ j.new.status = i.new.status
  <2>1. j.new.status # "pending_approval"
    BY <1>3 DEF JobAgrees
  <2> QED
    BY <1>3, <2>1, ScriptsApart DEF JobAgrees, Agrees, Overrides
<1> QED
  BY <1>1, <1>2, <1>3 DEF Moves

\* The other required roles have agreed to the version the review is about.
LEMMA CountAgrees ==
    ASSUME SInv, OInv, NEW r \in Requests, CountClearances(r)
    PROVE  OInv'
<1>1. ~Free(r) /\ job[r] \in Jobs /\ job[r].todo = Counting
  BY AtLemma, ScriptHeads DEF CountClearances, Free, Counting
<1>2. UNCHANGED <<row, txn>> /\ reviews \subseteq reviews'
  BY DEF CountClearances, tables
<1> DEFINE v            == job[r].review
           rolesCleared == {x.role : x \in {y \in reviews : y.version = v.version}}
           waiting      == (RequiredRoles(job[r].new) \ rolesCleared) \ {v.role}
<1>3. PICK j : job' = [job EXCEPT ![r] = j] /\ JobAgrees(j)
  <2>1. CASE waiting # {}
    <3>1. PICK j : j = [job[r] EXCEPT !.todo = <<"review">>]
      OBVIOUS
    <3>2. job' = [job EXCEPT ![r] = j] /\ j.todo = <<"review">>
      BY <1>1, <2>1, <3>1 DEF CountClearances, Jobs
    <3> QED
      BY <3>2, NothingLeft, NothingAgrees
  <2>2. CASE waiting = {}
    <3>1. PICK j : /\ job' = [job EXCEPT ![r] = j]
                   /\ j = NoJob \/ j = [job[r] EXCEPT !.todo = Tail(job[r].todo)]
      BY <1>1, <2>2, CalledLemma DEF CountClearances
    <3>2. CASE j = NoJob
      BY <3>1, <3>2, NothingLeft, NothingAgrees
    <3>3. CASE j = [job[r] EXCEPT !.todo = Tail(job[r].todo)]
      <4>1. Tail(job[r].todo) = Agreed
        BY <1>1 DEF Counting, Agreed
      <4>2. /\ j.todo = Agreed /\ j.base = job[r].base
            /\ j.new = job[r].new /\ j.review = v
        BY <1>1, <3>3, <4>1 DEF Jobs
      <4>3. Overrides(j.new) => v.version = j.base /\ v.decision = "cleared"
        BY <1>1, <4>2 DEF OInv, JobAgrees
      <4>4. ASSUME Overrides(j.new), NEW role \in RequiredRoles(j.new) \ {v.role}
            PROVE  [version |-> j.base, role |-> role, decision |-> "cleared"] \in reviews
        <5>1. PICK x \in reviews : x.version = v.version /\ x.role = role
          BY <2>2, <4>2, <4>4
        <5>2. x \in Reviews /\ x.decision = "cleared"
          BY DEF SInv, ServiceTypeOK
        <5>3. x = [version |-> j.base, role |-> role, decision |-> "cleared"]
          BY <4>3, <4>4, <5>1, <5>2 DEF Reviews
        <5> QED
          BY <5>3
      <4>5. Agreed \notin Saving \cup {Approving} \cup Executing
        BY DEF Agreed, Saving, Approving, Executing, ExecuteScripts
      <4>6. JobAgrees(j)
        BY <4>2, <4>3, <4>4, <4>5 DEF JobAgrees
      <4> QED
        BY <3>1, <4>6
    <3> QED
      BY <3>1, <3>2, <3>3
  <2> QED
    BY <2>1, <2>2
<1>4. JobAgrees(j)'
  BY <1>2, <1>3, JobAgreesKept
<1> QED
  BY <1>2, <1>3, <1>4, OverrideQuiet

\* With its own clearance the last required role has agreed.
LEMMA ReviewAgrees ==
    ASSUME SInv, OInv, NEW r \in Requests, SaveSpecialistReview(r)
    PROVE  OInv'
<1>1. PICK i, v : i = job[r] /\ v = job[r].review
  OBVIOUS
<1>2. ~Free(r) /\ i \in Jobs /\ i.todo \in {Agreed, <<"review">>}
  BY <1>1, AtLemma, ScriptHeads DEF SaveSpecialistReview, Free, Agreed
<1>3. /\ UNCHANGED <<row, txn>> /\ reviews \subseteq reviews' /\ job' = Called(r)
      /\ v.decision = "cleared" => v \in reviews'
  BY <1>1 DEF SaveSpecialistReview
<1>4. PICK j : /\ job' = [job EXCEPT ![r] = j]
               /\ j = NoJob \/ j = [i EXCEPT !.todo = Tail(i.todo)]
  BY <1>1, <1>2, <1>3, CalledLemma
<1>5. CASE j.todo \notin CaseScripts
  <2>1. JobAgrees(j)'
    BY <1>3, <1>5, NothingAgrees, JobAgreesKept
  <2> QED
    BY <1>3, <1>4, <2>1, OverrideQuiet
<1>6. CASE j.todo \in CaseScripts
  <2>1. j.todo = Tail(i.todo) /\ j.base = i.base /\ j.new = i.new
    BY <1>2, <1>4, <1>6, NothingLeft DEF Jobs
  <2>2. i.todo = Agreed /\ j.todo = <<"audit", "save">>
    <3>1. Tail(<<"review">>) = <<>>
      OBVIOUS
    <3>2. Tail(Agreed) = <<"audit", "save">>
      BY DEF Agreed
    <3> QED
      BY <1>2, <1>6, <2>1, <3>1, <3>2, NothingLeft
  <2>3. ASSUME Overrides(j.new)
        PROVE  j.base \in Nat /\ ClearedByAll(j.new, j.base)'
    <3>1. /\ v.version = j.base /\ v.decision = "cleared"
          /\ \A role \in RequiredRoles(j.new) \ {v.role} :
                [version |-> j.base, role |-> role, decision |-> "cleared"] \in reviews
      BY <1>1, <2>1, <2>2, <2>3 DEF OInv, JobAgrees
    <3>2. v \in Reviews
      BY <1>1, <1>2, <3>1 DEF Jobs, NoReview
    <3>3. v = [version |-> j.base, role |-> v.role, decision |-> "cleared"]
      BY <3>1, <3>2 DEF Reviews
    <3> QED
      BY <1>2, <1>3, <2>1, <3>1, <3>3 DEF ClearedByAll, Jobs
  <2>4. Agrees(j.new, j.base)'
    BY <2>3 DEF Agrees
  <2>5. <<"audit", "save">> \notin {Approving, Counting, Agreed} \cup Executing
    BY DEF Approving, Counting, Agreed, Executing, ExecuteScripts
  <2>6. JobAgrees(j)'
    BY <2>2, <2>4, <2>5 DEF JobAgrees
  <2> QED
    BY <1>3, <1>4, <2>6, OverrideQuiet
<1> QED
  BY <1>5, <1>6

\* The calls outside the store's transactions, but for the review's own.
LEMMA OtherOverride ==
    ASSUME SInv, OInv, NEW r \in Requests,
           \/ Issue(r) \/ Lookup(r) \/ Deny(r) \/ Consume(r) \/ RecordResult(r)
           \/ SaveConflict(r) \/ AuditUnfollowed(r)
    PROVE  OInv'
<1>1. UNCHANGED <<row, txn, reviews>>
  BY DEF Issue, Lookup, Deny, Consume, RecordResult, SaveConflict, SaveRefused,
         storeVars, AuditUnfollowed, tables
<1>2. PICK call \in Calls \ {"count", "review"} : At(r, call)
  BY DEF Issue, Lookup, Deny, Consume, RecordResult, SaveConflict, AuditUnfollowed, Calls
<1>3. Head(job[r].todo) \notin {"count", "review"}
  BY <1>2, AtLemma
<1>4. job[r].todo \notin {Counting, Agreed}
  BY <1>3 DEF Counting, Agreed
<1>5. PICK j : job' = [job EXCEPT ![r] = j] /\ Moves(job[r], j)
  BY CallMoves DEF Call
<1>6. JobAgrees(j)
  BY <1>4, <1>5, MovesAgree DEF OInv
<1>7. JobAgrees(j)'
  BY <1>1, <1>6, JobAgreesKept
<1> QED
  BY <1>1, <1>5, <1>7, OverrideQuiet

\* save_case stores what the handler has computed for the version it read.
LEMMA SaveOverride ==
    ASSUME SInv, OInv, NEW r \in Requests, SaveCase(r)
    PROVE  OInv'
<1>1. PICK j, w : j = job[r] /\ w = row
  OBVIOUS
<1>2. j.todo \in {<<"save", "audit">>, <<"save">>}
  BY <1>1, AtLemma, ScriptHeads DEF SaveCase, Free
<1>3. /\ txn' = [txn EXCEPT ![r] = SaveTxn(j.base, j.new)]
      /\ UNCHANGED <<row, job, reviews>>
  BY <1>1 DEF SaveCase, SaveSelect, tables
<1>4. /\ txn'[r].base = j.base /\ txn'[r].content = j.new
      /\ \A q \in Requests \ {r} : txn'[q] = txn[q]
  BY <1>3 DEF SInv, ServiceTypeOK, StoreTypeOK, SaveTxn
<1>5. JobAgrees(j) /\ Agrees(j.new, j.base)
  BY <1>1, <1>2 DEF OInv, JobAgrees, Saving
<1>6. JobAgrees(j)' /\ Agrees(j.new, j.base)'
  BY <1>3, <1>5, JobAgreesKept, AgreesKept
<1>7. (row.version > 0 => Agrees(row.content, row.version - 1))'
  BY <1>3 DEF OInv, Agrees, ClearedByAll
<1>8. (txn[r].kind = "save" => Agrees(txn[r].content, txn[r].base))'
  BY <1>4, <1>6 DEF Agrees, ClearedByAll
<1>9. job' = [job EXCEPT ![r] = j]
  BY <1>1, <1>3 DEF SInv, ServiceTypeOK
<1> QED
  BY <1>3, <1>4, <1>6, <1>7, <1>8, <1>9, OverrideStep

\* The row's case is the transaction's, one version after the one it read.
LEMMA CommitOverride ==
    ASSUME SInv, OInv, NEW r \in Requests, CommitCase(r)
    PROVE  OInv'
<1>1. PICK t : t = txn[r]
  OBVIOUS
<1>2. /\ t.kind = "save" /\ t.base \in Nat
      /\ row'.content = t.content /\ row'.version = t.base + 1
      /\ txn' = [txn EXCEPT ![r] = NoTxn] /\ reviews' = reviews
  BY <1>1 DEF CommitCase, SaveUpdate, SaveInsert, tables, SInv, ServiceTypeOK, StoreTypeOK
<1>3. row'.version - 1 = t.base
  BY <1>2
<1>4. Agrees(t.content, t.base)'
  BY <1>1, <1>2, AgreesKept DEF OInv
<1>5. (row.version > 0 => Agrees(row.content, row.version - 1))'
  BY <1>2, <1>3, <1>4 DEF Agrees, ClearedByAll
<1>6. txn'[r].kind # "save" /\ \A q \in Requests \ {r} : txn'[q] = txn[q]
  BY <1>2 DEF NoTxn, SInv, ServiceTypeOK, StoreTypeOK
<1>7. PICK j : job' = [job EXCEPT ![r] = j] /\ j.todo \notin CaseScripts
  BY CommitMoves
<1>8. JobAgrees(j)'
  BY <1>2, <1>7, NothingAgrees, JobAgreesKept
<1> QED
  BY <1>2, <1>5, <1>6, <1>7, <1>8, OverrideStep

\* An audit event's transaction begins or is committed, or a handler dies.
LEMMA EndedOverride ==
    ASSUME SInv, OInv, NEW r \in Requests, AppendAudit(r) \/ CommitAudit(r) \/ Die(r)
    PROVE  OInv'
<1>1. UNCHANGED <<row, reviews>>
  BY DEF AppendAudit, AuditSelect, CommitAudit, AuditInsert, Die, Rollback, tables
<1>2. PICK t : t = txn[r]
  OBVIOUS
<1>3. /\ txn'[r] = t \/ txn'[r].kind # "save"
      /\ \A q \in Requests \ {r} : txn'[q] = txn[q]
  BY <1>2 DEF AppendAudit, AuditSelect, AuditTxn, CommitAudit, AuditInsert, Die, Rollback,
              NoTxn, SInv, ServiceTypeOK, StoreTypeOK
<1>4. (row.version > 0 => Agrees(row.content, row.version - 1))'
  BY <1>1 DEF OInv, Agrees, ClearedByAll
<1>5. (txn[r].kind = "save" => Agrees(txn[r].content, txn[r].base))'
  BY <1>1, <1>2, <1>3 DEF OInv, Agrees, ClearedByAll
<1>6. PICK j : job' = [job EXCEPT ![r] = j] /\ JobAgrees(j)
  <2>1. CASE AppendAudit(r)
    <3>1. job' = [job EXCEPT ![r] = job[r]]
      BY <2>1 DEF AppendAudit, SInv, ServiceTypeOK
    <3> QED
      BY <3>1 DEF OInv
  <2>2. CASE CommitAudit(r)
    <3>1. job[r].todo \in {<<"audit">>, <<"audit", "save">>}
      BY <2>2 DEF SInv, LegalTxn, CommitAudit, AuditInsert
    <3>2. job[r].todo \notin {Counting, Agreed}
      BY <3>1 DEF Counting, Agreed
    <3>3. PICK j : job' = [job EXCEPT ![r] = j] /\ Moves(job[r], j)
      BY <2>2, CallMoves DEF Call
    <3> QED
      BY <3>2, <3>3, MovesAgree DEF OInv
  <2>3. CASE Die(r)
    BY <2>3, NothingLeft, NothingAgrees DEF Die, Answered
  <2> QED
    BY <2>1, <2>2, <2>3
<1>7. JobAgrees(j)'
  BY <1>1, <1>6, JobAgreesKept
<1> QED
  BY <1>1, <1>3, <1>4, <1>5, <1>6, <1>7, OverrideStep

LEMMA InitOInv == ServiceInit => OInv
<1> SUFFICES ASSUME ServiceInit PROVE OInv
  OBVIOUS
<1>1. ~(row.version > 0) /\ \A r \in Requests : job[r] = NoJob /\ txn[r].kind # "save"
  BY DEF ServiceInit, StoreInit, NoTxn
<1> QED
  BY <1>1, NothingLeft, NothingAgrees DEF OInv

LEMMA NextOInv == SInv /\ OInv /\ [ServiceNext]_vars => OInv'
<1> SUFFICES ASSUME SInv, OInv, [ServiceNext]_vars PROVE OInv'
  OBVIOUS
<1>1. ASSUME NEW r \in Requests, Call(r) PROVE OInv'
  BY <1>1, CountAgrees, ReviewAgrees, OtherOverride, SaveOverride, CommitOverride,
     EndedOverride DEF Call
<1>2. CASE UNCHANGED <<row, txn, reviews, job>>
  BY <1>2 DEF OInv, JobAgrees, Agrees, ClearedByAll
<1> QED
  BY <1>1, <1>2, HandlerOverride, EndedOverride DEF ServiceNext, RecordElsewhere, GetCase, vars

\* Whatever reviews, analyses and saves run at the same time, through however
\* many repositories, and whichever saves are lost: a case whose block was
\* overridden carries a clearance of one version by every role its gate
\* required; as long as it waits for the approval, of the version before it.
THEOREM OverridesAgreed == ServiceSpec => []OverrideCleared
<1>1. ServiceInit => SInv /\ OInv
  BY InitSInv, InitOInv
<1>2. (SInv /\ OInv) /\ [ServiceNext]_vars => (SInv /\ OInv)'
  BY NextSInv, NextOInv
<1>3. SInv /\ OInv => OverrideCleared
  BY DEF OInv, Agrees, OverrideCleared
<1> QED
  BY <1>1, <1>2, <1>3, PTL DEF ServiceSpec

-----------------------------------------------------------------------------
(* 8. The case router over one repository: its handlers work on a          *)
(* CaseLedger.                                                             *)

\* LockDiscipline and ChainIntact of the store, in the service's states.
LInv ==
    /\ \A q, r \in Requests : ~Idle(q) /\ ~Idle(r) => q = r
    /\ \A r \in Requests :
          /\ txn[r].kind = "save"  => txn[r].base = row.version
          /\ txn[r].kind = "audit" => txn[r].tail = Len(chain)
    /\ ChainIntact

LEMMA InitLInv == ServiceInit => LInv
BY DEF ServiceInit, StoreInit, LInv, ChainIntact, VerifyAuditChain, Idle, NoTxn

LEMMA StoreLInv ==
    ASSUME SharedRepository, StoreTypeOK, LInv, StoreNext
    PROVE  LInv'
<1> USE DEF StoreTypeOK, LInv, ChainIntact, VerifyAuditChain, Idle
<1>1. ASSUME NEW r \in Requests, NEW base \in 0..MaxVersion, NEW c \in Cases,
             SaveSelect(r, base, c)
      PROVE  LInv'
  BY <1>1 DEF SaveSelect, SaveTxn, LockFree
<1>2. ASSUME NEW r \in Requests, SaveUpdate(r) \/ SaveInsert(r) PROVE LInv'
  <2>1. txn' = [txn EXCEPT ![r] = NoTxn] /\ ~Idle(r) /\ UNCHANGED chain
    BY <1>2 DEF SaveUpdate, SaveInsert
  <2>2. \A q \in Requests : txn'[q].kind = "none"
    BY <2>1 DEF NoTxn
  <2> QED
    BY <2>1, <2>2
<1>3. ASSUME NEW r \in Requests, AuditSelect(r) PROVE LInv'
  BY <1>3 DEF AuditSelect, AuditTxn, LockFree
<1>4. ASSUME NEW r \in Requests, AuditInsert(r) PROVE LInv'
  <2>1. chain' = Append(chain, Len(chain))
    BY <1>4 DEF AuditInsert
  <2>2. ChainIntact'
    BY <2>1
  <2> QED
    BY <1>4, <2>2 DEF AuditInsert, NoTxn
<1>5. ASSUME NEW r \in Requests, Rollback(r) PROVE LInv'
  BY <1>5 DEF Rollback, NoTxn
<1>6. ASSUME NEW r \in Requests, NEW base \in 0..MaxVersion, SaveRefused(r, base)
      PROVE  LInv'
  BY <1>6 DEF SaveRefused, storeVars
<1> QED
  BY <1>1, <1>2, <1>3, <1>4, <1>5, <1>6 DEF StoreNext

LEMMA NextLInv ==
    ASSUME SharedRepository, SInv, LInv, [ServiceNext]_vars
    PROVE  LInv'
<1>1. CASE UNCHANGED storeVars
  BY <1>1 DEF storeVars, LInv, ChainIntact, VerifyAuditChain, Idle
<1>2. CASE StoreNext
  BY <1>2, StoreLInv DEF SInv, ServiceTypeOK
<1> QED
  BY <1>1, <1>2, StoreStep DEF vars, storeVars

\* A request commits what it holds for the version it read.
LEMMA CommitsNext ==
    ASSUME SInv, LInv, NEW r \in Requests, SaveUpdate(r) \/ SaveInsert(r)
    PROVE  /\ txn[r].kind = "save" /\ txn[r].base = row.version
           /\ txn[r].content \in Cases
           /\ row' = [version |-> row.version + 1, content |-> txn[r].content]
           /\ UNCHANGED chain
BY DEF SaveUpdate, SaveInsert, LInv, SInv, ServiceTypeOK, StoreTypeOK

\* With a repository injected into the case router, as its tests do, and without
\* specialist reviews, which cannot be given it: whatever handlers interleave
\* and wherever they die, the case and its log are those of a CaseLedger. Every
\* save is a compare-and-set of a whole case on the version its handler read,
\* every event is chained to the last.
THEOREM ServiceImplementsLedger ==
    ASSUME SharedRepository, "review" \notin Operations
    PROVE  ServiceSpec => ImplementsLedger
<1>1. ServiceInit => SInv /\ LInv /\ Ledger!LedgerInit
  BY InitSInv, InitLInv DEF ServiceInit, StoreInit, Ledger!LedgerInit
<1>2. SInv /\ LInv /\ [ServiceNext]_vars => (SInv /\ LInv)'
  BY NextSInv, NextLInv
<1>3. SInv /\ LInv /\ [ServiceNext]_vars => [Ledger!LedgerNext]_<<row, chain>>
  <2> SUFFICES ASSUME SInv, LInv, [ServiceNext]_vars, ~UNCHANGED <<row, chain>>
               PROVE  Ledger!LedgerNext
    OBVIOUS
  <2>1. StoreNext
    BY StoreStep DEF vars, storeVars
  <2>2. ASSUME NEW r \in Requests, SaveUpdate(r) \/ SaveInsert(r)
        PROVE  Ledger!LedgerNext
    BY <2>2, CommitsNext DEF Ledger!LedgerNext, Ledger!Save
  <2>3. ASSUME NEW r \in Requests, AuditInsert(r) PROVE Ledger!LedgerNext
    BY <2>3 DEF AuditInsert, LInv, Ledger!LedgerNext, Ledger!Record
  <2> QED
    BY <2>1, <2>2, <2>3 DEF StoreNext, SaveSelect, SaveRefused, AuditSelect,
                            Rollback, storeVars
<1> QED
  BY <1>1, <1>2, <1>3, PTL DEF ServiceSpec, ImplementsLedger, Ledger!LedgerSpec

\* So under the same hypotheses the case router's audit log always verifies, and
\* no save overwrites what another handler stored after the case was read.
THEOREM ServiceLosesNothing ==
    ASSUME SharedRepository, "review" \notin Operations
    PROVE  ServiceSpec => []ChainIntact /\ NoLostUpdate
<1>1. ServiceInit => SInv /\ LInv
  BY InitSInv, InitLInv
<1>2. SInv /\ LInv /\ [ServiceNext]_vars => (SInv /\ LInv)'
  BY NextSInv, NextLInv
<1>3. LInv => ChainIntact
  BY DEF LInv
<1>4. SInv /\ LInv /\ [ServiceNext]_vars =>
        [row' # row =>
            \E r \in Requests :
                /\ txn[r].kind = "save"
                /\ txn[r].base = row.version
                /\ row' = [version |-> row.version + 1,
                           content |-> txn[r].content]]_storeVars
  <2> SUFFICES ASSUME SInv, LInv, [ServiceNext]_vars, row' # row
               PROVE  \E r \in Requests :
                        /\ txn[r].kind = "save"
                        /\ txn[r].base = row.version
                        /\ row' = [version |-> row.version + 1,
                                   content |-> txn[r].content]
    OBVIOUS
  <2>1. PICK r \in Requests : SaveUpdate(r) \/ SaveInsert(r)
    BY StoreStep DEF vars, storeVars, StoreNext, SaveSelect, SaveRefused, AuditSelect,
                     AuditInsert, Rollback
  <2> QED
    BY <2>1, CommitsNext
<1> QED
  BY <1>1, <1>2, <1>3, <1>4, PTL DEF ServiceSpec, NoLostUpdate
=============================================================================
