----------------------------- MODULE CaseService -----------------------------
(***************************************************************************)
(* The API of one case: what its handlers do to the versioned row, the     *)
(* approval tokens, the idempotency records and the specialist reviews.    *)
(*                                                                         *)
(* A handler reads the case once, decides what it will store, and then     *)
(* calls the database several times, each call a transaction of its own.   *)
(* "job" holds what a handler in flight has read and the calls it still    *)
(* has to make; between two calls any other handler may run, and the       *)
(* handler may die.                                                        *)
(*                                                                         *)
(* A handler that answers 4xx before its first call changes nothing and is *)
(* not a step.  Handlers that compare the version a client names with the  *)
(* one they read refuse so; resume_case does not compare, and saves under  *)
(* the version it read.                                                    *)
(*                                                                         *)
(* The deployed routers build a V2Repository for each call, and the        *)
(* employee router cannot be given one: a specialist review never holds a  *)
(* lock that excludes another request.  SharedRepository stands for        *)
(* create_router(repository=...), for the handlers of that router alone.   *)
(***************************************************************************)
EXTENDS CaseModel, Sequences, FiniteSets

CONSTANTS
    Requests,           \* handlers that may be running at a time
    Employees,          \* relationship managers with access to the customer
    NoEmployee,
    NoContent,
    Operations,         \* bound: the endpoints clients call
    SharedRepository,   \* is one V2Repository injected into the router?
    MaxVersion,         \* bound: saves of the case
    MaxTokens,          \* bound: approval tokens issued
    MaxEvents           \* bound: events of the audit log that are followed

ASSUME ServiceAssumption ==
    /\ SharedRepository \in BOOLEAN
    /\ SharedRepository => "review" \notin Operations
    /\ MaxVersion \in Nat
    /\ MaxTokens \in Nat
    /\ MaxEvents \in Nat

VARIABLES
    row, chain, txn,    \* the case's row, its audit log and open transactions
    tokens,             \* "approval_tokens", in the order they were issued
    results,            \* "idempotency_records"
    reviews,            \* "specialist_reviews", those that cleared a block
    job                 \* each running handler

tables == <<tokens, results, reviews>>
vars == <<row, chain, txn, tokens, results, reviews, job>>

INSTANCE CaseStore WITH Contents <- Cases

-----------------------------------------------------------------------------

Tokens ==
    [payload   : Payloads \cup {NoPayload},
     approver  : Employees,
     status    : {"issued", "consumed"},
     \* has a client been told the token?  approve answers it last of all
     delivered : BOOLEAN]

\* A key's record, by this case or, since the key is all its row is found by,
\* by another one.  History: whose approval the action was executed under.
Results ==
    [case    : {"none", "this", "other"},
     payload : Payloads \cup {NoPayload},
     token   : Nat,
     by      : Employees \cup {NoEmployee}]

NoResult == [case |-> "none", payload |-> NoPayload, token |-> 0, by |-> NoEmployee]

OthersResult == [NoResult EXCEPT !.case = "other"]

ReviewDecisions == {"cleared", "blocked", "needs_more_information"}

Reviews == [version : Nat, role : Roles, decision : ReviewDecisions]

\* The calls a handler makes, in the order of its code.
Calls == {"issue", "lookup", "deny", "consume", "record", "count", "review",
          "save", "audit"}

NoReview == [version |-> 0, role |-> "none", decision |-> "none"]

NoJob ==
    [todo |-> <<>>, base |-> 0, new |-> NoContent, by |-> NoEmployee,
     token |-> 0, key |-> NoKey, review |-> NoReview]

Jobs ==
    [todo   : Seq(Calls),
     base   : Nat,                          \* the version that was read
     new    : Cases \cup {NoContent},       \* the state to store
     by     : Employees \cup {NoEmployee},
     token  : Nat,                          \* execute's, or the one approve issued
     key    : Keys \cup {NoKey},
     review : Reviews \cup {NoReview}]

ServiceTypeOK ==
    /\ StoreTypeOK
    /\ tokens \in Seq(Tokens)
    /\ results \in [Keys -> Results]
    /\ \A v \in reviews : v \in Reviews /\ v.decision = "cleared"
    /\ job \in [Requests -> Jobs]

ServiceInit ==
    /\ StoreInit
    /\ tokens = <<>>
    /\ results = [k \in Keys |-> NoResult]
    /\ reviews = {}
    /\ job = [r \in Requests |-> NoJob]

Free(r) == job[r].todo = <<>>

\* The request's handler is about to make this call.
At(r, call) == job[r].todo # <<>> /\ Head(job[r].todo) = call /\ Idle(r)

Answered(r) == [job EXCEPT ![r] = NoJob]

\* The call has been made; after the last one the client is answered.
Called(r) ==
    IF Len(job[r].todo) = 1 THEN Answered(r)
    ELSE [job EXCEPT ![r].todo = Tail(@)]

-----------------------------------------------------------------------------
(* The handlers up to their first call: read, check, run the engine.       *)

Exists == row.version > 0

\* get_case and the checks are done; what is left are the calls of j.
Accept(r, op, j) ==
    /\ op \in Operations
    /\ Free(r)
    /\ row.version < MaxVersion
    /\ job' = [job EXCEPT ![r] = j]
    /\ UNCHANGED <<row, chain, txn, tables>>

Store(new) ==
    [NoJob EXCEPT !.todo = <<"save", "audit">>, !.base = row.version, !.new = new]

CreateCase(r) ==
    /\ ~Exists
    /\ \E c \in Run(NewCase) : Accept(r, "create", Store(c))

AddMessage(r) ==
    /\ Exists
    /\ \E c \in RerunWithMessage(row.content) : Accept(r, "message", Store(c))

\* A case waiting for a clarification is run again from the start, any other
\* is resumed.
RerunOrResume(c, starts) ==
    IF c.status = "clarification_required" THEN RerunWithMessage(c)
    ELSE Resume(c, starts)

\* impacted_nodes(["document:..."]) starts at the eligibility rules.
AddDocuments(r) ==
    /\ Exists
    /\ \E c \in RerunOrResume(row.content, {"evaluate_eligibility"}) :
          Accept(r, "documents", Store(c))

\* CONTEXT_CORRECTION_POLICIES: the correctable fields lead to these two nodes.
CorrectContext(r) ==
    /\ Exists
    /\ row.content.status \notin {"completed", "rejected"}
    /\ \E c \in RerunOrResume(row.content,
                              {"retrieve_products", "evaluate_eligibility"}) :
          Accept(r, "context", Store(c))

\* The client names the changes, so any node may be the first one.
ResumeCase(r) ==
    /\ Exists
    /\ \E c \in Resume(row.content, ResumeNodes) : Accept(r, "resume", Store(c))

\* A sales case has no row until its first analysis.
RunSalesCaseAnalysis(r) ==
    \E c \in IF Exists THEN Resume(row.content, {"evaluate_eligibility"})
             ELSE Run(NewCase) :
        Accept(r, "sales_analysis", Store(c))

Rejected(c) == [c EXCEPT !.status = "rejected", !.approval = "rejected"]

RejectCase(r) == Exists /\ Accept(r, "reject", Store(Rejected(row.content)))

RejectSalesCase(r) ==
    /\ Exists
    /\ row.content.status \in {"pending_approval", "pending_review",
                               "pending_information"}
    /\ Accept(r, "sales_reject", Store(Rejected(row.content)))

\* Mutant of Approve: the case is stored before the token is registered.
ApproveBeforeToken(r, op) ==
    /\ Exists
    /\ row.content.status = "pending_approval"
    /\ \E e \in Employees :
          Accept(r, op,
                 [Store([row.content EXCEPT !.approval = "approved"]) EXCEPT
                     !.todo = <<"save", "issue", "audit">>, !.by = e])

\* The token is registered before the case is stored as approved.
Approve(r, op) ==
    /\ Exists
    /\ row.content.status = "pending_approval"
    /\ \E e \in Employees :
          Accept(r, op,
                 [Store([row.content EXCEPT !.approval = "approved"]) EXCEPT
                     !.todo = <<"issue", "save", "audit">>, !.by = e])

ApproveCase(r) == Approve(r, "approve")

\* A payload_hash other than the frozen payload's is refused.
ApproveSalesCase(r) == Approve(r, "sales_approve")

\* Mutant of Executable: the case's status is not looked at.
ExecutableAnyStatus(c) ==
    c.overridden \/ (c.eligibility = "passed" /\ c.evidence = "valid")

\* ActionExecutorV2.execute's own checks, made on the state that was read.
Executable(c) ==
    /\ c.status = "pending_approval"
    /\ c.overridden \/ (c.eligibility = "passed" /\ c.evidence = "valid")

\* A recorded result for the key answers the request before any other check.
Execute(r, op) ==
    /\ Exists
    /\ \E e \in Employees, k \in Keys, t \in DOMAIN tokens :
          /\ tokens[t].delivered
          /\ Accept(r, op,
                [Store([row.content EXCEPT !.status = "completed",
                                           !.approval = "consumed",
                                           !.executed = [key |-> k, replay |-> FALSE]])
                 EXCEPT
                    !.todo = IF Executable(row.content)
                             THEN <<"lookup", "consume", "record", "save", "audit">>
                             ELSE <<"lookup", "deny">>,
                    !.by = e, !.token = t, !.key = k])

ExecuteCase(r) == Execute(r, "execute")

ExecuteSalesCaseActions(r) == Execute(r, "sales_execute")

\* required_reviewer_roles or ["legal_specialist"]
RequiredRoles(c) ==
    IF c.gate.roles = {} THEN {"legal_specialist"} ELSE c.gate.roles

\* Mutant of Reviewed: human_review_allowed is not looked at.
ReviewedUnconditionally(c, decision) ==
    CASE decision = "blocked" ->
            {[d EXCEPT !.approval = "rejected"] : d \in Transition(c, "rejected")}
      [] decision = "needs_more_information" ->
            UNION {Transition(d, "pending_information") :
                      d \in Transition(c, "in_analysis")}
      [] decision = "cleared" -> ClearSpecialistBlock(c)

\* What each decision makes of the case; {} if it is refused.
Reviewed(c, decision) ==
    CASE decision = "blocked" ->
            {[d EXCEPT !.approval = "rejected"] : d \in Transition(c, "rejected")}
      [] decision = "needs_more_information" ->
            UNION {Transition(d, "pending_information") :
                      d \in Transition(c, "in_analysis")}
      [] decision = "cleared" ->
            IF c.gate.reviewable THEN ClearSpecialistBlock(c) ELSE {}

\* The review and its audit event are written before the case.
SubmitSpecialistReview(r) ==
    /\ Exists
    /\ row.content.status = "pending_review"
    /\ \E role \in RequiredRoles(row.content), decision \in ReviewDecisions :
       \E c \in Reviewed(row.content, decision) :
          Accept(r, "review",
                [Store(c) EXCEPT
                    !.todo = IF decision = "cleared"
                             THEN <<"count", "review", "audit", "save">>
                             ELSE <<"review", "audit", "save">>,
                    !.review = [version |-> row.version, role |-> role,
                                decision |-> decision]])

-----------------------------------------------------------------------------
(* The calls                                                               *)

\* approval_service().issue: register_approval.
Issue(r) ==
    /\ At(r, "issue")
    /\ Len(tokens) < MaxTokens
    /\ tokens' = Append(tokens, [payload |-> job[r].new.payload, approver |-> job[r].by,
                                 status |-> "issued", delivered |-> FALSE])
    /\ job' = [job EXCEPT ![r].todo = Tail(@), ![r].token = Len(tokens) + 1]
    /\ UNCHANGED <<row, chain, txn, results, reviews>>

Replayed(c) == [c EXCEPT !.executed.replay = TRUE]

\* get_idempotent_result: any record under the key, whatever case, action or
\* payload it was of, is the answer, and the handler goes on to store the case.
Lookup(r) ==
    /\ At(r, "lookup")
    /\ job' = IF results[job[r].key] # NoResult
              THEN [job EXCEPT ![r] = [NoJob EXCEPT !.todo = <<"save", "audit">>,
                                                    !.base = job[r].base,
                                                    !.new = Replayed(job[r].new)]]
              ELSE Called(r)
    /\ UNCHANGED <<row, chain, txn, tables>>

\* The action is denied: evidence, eligibility or status forbid it.
Deny(r) ==
    /\ At(r, "deny")
    /\ job' = Answered(r)
    /\ UNCHANGED <<row, chain, txn, tables>>

\* Mutant of Consume: the token's status is not looked at.
ConsumeAgain(r) ==
    /\ At(r, "consume")
    /\ LET t      == job[r].token
           usable == /\ tokens[t].approver = job[r].by
                     /\ tokens[t].payload = job[r].new.payload
       IN  /\ tokens' = IF usable THEN [tokens EXCEPT ![t].status = "consumed"]
                        ELSE tokens
           /\ job' = IF usable THEN Called(r) ELSE Answered(r)
    /\ UNCHANGED <<row, chain, txn, results, reviews>>

\* verify_and_consume: the conditional UPDATE decides who uses the token.  A
\* token that is not accepted ends the request.
Consume(r) ==
    /\ At(r, "consume")
    /\ LET t      == job[r].token
           usable == /\ tokens[t].status = "issued"
                     /\ tokens[t].approver = job[r].by
                     /\ tokens[t].payload = job[r].new.payload
       IN  /\ tokens' = IF usable THEN [tokens EXCEPT ![t].status = "consumed"]
                        ELSE tokens
           /\ job' = IF usable THEN Called(r) ELSE Answered(r)
    /\ UNCHANGED <<row, chain, txn, results, reviews>>

Result(j) ==
    [case |-> "this", payload |-> j.new.payload, token |-> j.token, by |-> j.by]

\* Mutant of RecordResult: ON CONFLICT DO UPDATE.
RecordResultReplacing(r) ==
    /\ At(r, "record")
    /\ results' = [results EXCEPT ![job[r].key] = Result(job[r])]
    /\ job' = Called(r)
    /\ UNCHANGED <<row, chain, txn, tokens, reviews>>

\* save_idempotent_result: ON CONFLICT DO NOTHING, the first result stays.
RecordResult(r) ==
    /\ At(r, "record")
    /\ results' = [results EXCEPT ![job[r].key] =
                      IF @ # NoResult THEN @ ELSE Result(job[r])]
    /\ job' = Called(r)
    /\ UNCHANGED <<row, chain, txn, tokens, reviews>>

\* Another case is executed under a key that clients of this one use too.
RecordElsewhere(k) ==
    /\ "elsewhere" \in Operations
    /\ results[k] = NoResult
    /\ results' = [results EXCEPT ![k] = OthersResult]
    /\ UNCHANGED <<row, chain, txn, tokens, reviews, job>>

\* Mutant of CountClearances: clearances of any version count.
CountClearancesOfAnyVersion(r) ==
    /\ At(r, "count")
    /\ LET waiting == (RequiredRoles(job[r].new) \ {x.role : x \in reviews})
                          \ {job[r].review.role}
       IN  job' = IF waiting = {} THEN Called(r)
                  ELSE [job EXCEPT ![r].todo = <<"review">>]
    /\ UNCHANGED <<row, chain, txn, tables>>

\* cleared_roles_for_case_version: do the other required roles agree?
CountClearances(r) ==
    /\ At(r, "count")
    /\ LET v     == job[r].review
           rolesCleared == {x.role : x \in {y \in reviews : y.version = v.version}}
           waiting == (RequiredRoles(job[r].new) \ rolesCleared) \ {v.role}
       IN  job' = IF waiting = {} THEN Called(r)
                  ELSE [job EXCEPT ![r].todo = <<"review">>]
    /\ UNCHANGED <<row, chain, txn, tables>>

SaveSpecialistReview(r) ==
    /\ At(r, "review")
    /\ reviews' = IF job[r].review.decision = "cleared"
                  THEN reviews \cup {job[r].review} ELSE reviews
    /\ job' = Called(r)
    /\ UNCHANGED <<row, chain, txn, tokens, results>>

SaveCase(r) ==
    /\ At(r, "save")
    /\ SaveSelect(r, job[r].base, job[r].new)
    /\ UNCHANGED <<tables, job>>

\* StateConflictError: 409
SaveConflict(r) ==
    /\ At(r, "save")
    /\ SaveRefused(r, job[r].base)
    /\ job' = Answered(r)
    /\ UNCHANGED tables

\* Of what the handler holds only the token it will answer is still needed.
CommitCase(r) ==
    /\ SaveUpdate(r) \/ SaveInsert(r)
    /\ job' = IF Len(job[r].todo) = 1 THEN Answered(r)
              ELSE [job EXCEPT ![r] = [NoJob EXCEPT !.todo = Tail(job[r].todo),
                                                    !.token = job[r].token]]
    /\ UNCHANGED tables

AppendAudit(r) ==
    /\ At(r, "audit")
    /\ AuditSelect(r)
    /\ UNCHANGED <<tables, job>>

\* After its last call a handler answers: approve's answer brings the token.
Delivered(r) ==
    IF Len(job[r].todo) = 1 /\ job[r].token # 0
    THEN [tokens EXCEPT ![job[r].token].delivered = TRUE] ELSE tokens

CommitAudit(r) ==
    /\ AuditInsert(r)
    /\ job' = Called(r)
    /\ tokens' = Delivered(r)
    /\ UNCHANGED <<results, reviews>>

\* Bound: events beyond MaxEvents are appended to a log nobody follows.
AuditUnfollowed(r) ==
    /\ At(r, "audit")
    /\ Len(chain) >= MaxEvents
    /\ job' = Called(r)
    /\ tokens' = Delivered(r)
    /\ UNCHANGED <<row, chain, txn, results, reviews>>

\* A call raises or the process dies: the open transaction is rolled back, and
\* what the earlier calls committed stays.
Die(r) ==
    /\ ~Free(r)
    /\ IF Idle(r) THEN UNCHANGED <<row, chain, txn>> ELSE Rollback(r)
    /\ job' = Answered(r)
    /\ UNCHANGED tables

-----------------------------------------------------------------------------

Handler(r) ==
    \/ CreateCase(r) \/ AddMessage(r) \/ AddDocuments(r) \/ CorrectContext(r)
    \/ ResumeCase(r) \/ RunSalesCaseAnalysis(r)
    \/ RejectCase(r) \/ RejectSalesCase(r)
    \/ ApproveCase(r) \/ ApproveSalesCase(r)
    \/ ExecuteCase(r) \/ ExecuteSalesCaseActions(r)
    \/ SubmitSpecialistReview(r)

Call(r) ==
    \/ Issue(r) \/ Lookup(r) \/ Deny(r) \/ Consume(r) \/ RecordResult(r)
    \/ CountClearances(r) \/ SaveSpecialistReview(r)
    \/ SaveCase(r) \/ SaveConflict(r) \/ CommitCase(r)
    \/ AppendAudit(r) \/ CommitAudit(r) \/ AuditUnfollowed(r)

\* GET /cases/{case_id}, and every request answered 4xx by its first checks.
GetCase(r) == Free(r) /\ UNCHANGED vars

ServiceNext ==
    \/ \E r \in Requests : Handler(r) \/ Call(r) \/ Die(r) \/ GetCase(r)
    \/ \E k \in Keys : RecordElsewhere(k)

ServiceSpec == ServiceInit /\ [][ServiceNext]_vars

-----------------------------------------------------------------------------
(* Properties                                                              *)

\* The keys under which an action of this case was recorded.
Recorded == {k \in Keys : results[k].case = "this"}

\* An approval of exactly this payload was used up.
ApprovalUsedUp(c) ==
    \E t \in DOMAIN tokens :
        tokens[t].status = "consumed" /\ tokens[t].payload = c.payload

\* "Unsafe external action rate = 0" (plan_v2/11, section 11): every recorded
\* action used up a token of its own, issued to the employee who executed it
\* and for exactly the payload that was executed.
OneActionPerApproval ==
    /\ \A k \in Recorded :
          LET t == results[k].token IN
          /\ t \in DOMAIN tokens
          /\ tokens[t].status = "consumed"
          /\ tokens[t].payload = results[k].payload
          /\ tokens[t].approver = results[k].by
    /\ \A k, l \in Recorded : results[k].token = results[l].token => k = l

\* What a client was told stays true: the result kept for an idempotency key
\* is the first one, and a consumed token is not issued again.
ResultsAndTokensKept ==
    [][/\ \A k \in Keys : results[k] # NoResult => results'[k] = results[k]
       /\ \A t \in DOMAIN tokens :
             /\ t \in DOMAIN tokens'
             /\ tokens'[t].payload = tokens[t].payload
             /\ tokens[t].status = "consumed" => tokens'[t].status = "consumed"]_vars

\* "Unsupported product/legal claim cannot reach approval" (plan_v2/11,
\* section 10): a stored case waits for approval, whichever stale snapshot it
\* was computed from, only with a frozen payload and either the gate's approval
\* of eligible, not invalid evidence or a specialist's override.
PendingApprovalJustified ==
    row.version > 0 /\ row.content.status = "pending_approval" =>
        /\ row.content.payload # NoPayload
        /\ \/ row.content.overridden
           \/ /\ row.content.gate.outcome = "approve"
              /\ row.content.eligibility = "passed"
              /\ row.content.evidence # "invalid"

\* What a stored case says of its approval is backed, though the token, the
\* result and the case are three transactions, any of which may be the last
\* before the request dies ("Approval never inferred", plan_v2/11, section 6):
\* an approved case has a registered token for its payload; a consumed one
\* names a result that is recorded, and unless that result was answered as a
\* replay, an approval of exactly its payload was used up.  (A replay completes
\* the case whatever case or payload the key's record was of.)
ApprovalBacked ==
    row.version > 0 =>
        /\ row.content.approval = "approved" =>
              \E t \in DOMAIN tokens : tokens[t].payload = row.content.payload
        /\ row.content.approval = "consumed" =>
              /\ row.content.executed.key \in Keys
              /\ results[row.content.executed.key] # NoResult
              /\ row.content.executed.replay \/ ApprovalUsedUp(row.content)

\* "Rejected/expired/consumed token cannot execute." (plan_v2/11:90): no handler
\* revokes a token when it rejects, re-analyses or completes a case, yet with
\* one request at a time an action is recorded only for a case that is waiting
\* for approval when it happens, and for the payload the case holds then.
ActionOnlyOnPendingCase ==
    [][\A k \in Keys : results'[k] # results[k] /\ results'[k].case = "this" =>
          /\ row.content.status = "pending_approval"
          /\ row.content.payload = results'[k].payload]_vars

\* Every role the gate required has cleared this version.
ClearedByAll(c, version) ==
    \A role \in RequiredRoles(c) :
        [version |-> version, role |-> role, decision |-> "cleared"] \in reviews

\* The cases whose block was overridden and that wait for approval.
Overrides(c) == c.status = "pending_approval" /\ c.overridden

\* A case whose block was overridden carries the agreement of every role its
\* gate required, all of them given to one version; while nobody has approved
\* it, to the version whose number its own follows.  Clearances are counted,
\* recorded and followed by the save in four transactions, which other
\* reviews, corrections and lost saves come between, and earlier versions have
\* clearances of their own.  (engine.py:538 speaks of "the current case version":
\* that is the version the review has read.  A correction stored between the
\* save's SELECT and UPDATE is overwritten, with a block nobody has cleared.)
OverrideCleared ==
    row.version > 0 /\ Overrides(row.content) =>
        \E v \in 0..row.version - 1 :
            /\ row.content.approval = "pending" => v = row.version - 1
            /\ ClearedByAll(row.content, v)

\* "Concurrent approve calls produce one external action." (plan_v2/11:145)
OneActionPerCase == \A k, l \in Recorded : k = l
=============================================================================
