# Verification of the SHB Corporate Sales Copilot

TLA+ models of the Python backend (`src/app`), their TLC runs and TLAPS proofs.
The product turns a sales conversation about a corporate customer into a *case*:
experts and rules analyse it, a deterministic risk gate decides whether a human
may approve it, specialists may override a block, a relationship manager (RM)
approves it, and one external action is executed for it. What must never go
wrong is at the end of that chain: an external action nobody approved, an
approval nobody justified, a state or an audit event silently lost.

## 1. Inventory

| Component | Code | State it keeps | Operations | Interacts with |
|---|---|---|---|---|
| Case store and audit chain | `storage/repository.py`, `storage/pg.py` | `cases` (one versioned JSON row per case), `audit_events` (hash chain per case) | `save_case`, `get_case`, `append_audit`, `verify_audit_chain` | every handler, one transaction per call |
| Workflow engine | `workflow/*.py`, `agents/langgraph_workflow.py`, `agents/coordinator.py` | none of its own; mutates the `SharedCaseState` it is given | `run`, `rerun_with_message`, `resume`, `_analysis`, `clear_specialist_block`, the state machine's `transition`, the risk gate's `evaluate` | experts and rules by call, API handlers |
| Expert analysis and rules | `agents/*`, `eligibility/*`, `credit/service.py`, `insurance/service.py`, `product/service.py`, `safety/*`, `workflow/synthesis.py` | results kept on the case | retrieval, rule evaluation and aggregation, hard blocks, synthesis, evidence validation, questions, operations draft | engine, knowledge index |
| Experts and intent as coroutines | `agents/base.py`, `agents/*_expert.py`, `intent/extractor.py`, `tools/agent_gateway.py` | `last_run`, `last_fallback_reason` of objects all analyses share | `extract`, `analyze`, tool calls, fallback | the model, the engine |
| Case API | `api/v2/router.py` | none between requests | create, message, documents, context correction, resume, sales analysis, approve, execute, reject (and the sales twins) | store, engine, approval, executor, intake |
| Approval and execution | `approval/service.py`, `actions/executor.py` | `approval_tokens`, `idempotency_records` | `issue`, `verify_and_consume`, `execute` | case API, store |
| Specialist review | `api/v2/employee_router.py`, `storage/employee_db.py` | `specialist_reviews` | `submit_specialist_review`, `cleared_roles_for_case_version` | engine, store, audit, work items |
| Employee workspace | `api/v2/employee_router.py`, `context/next_best_work.py`, `storage/employee_db.py` | work items, readiness, consent, preferences, habits, feedback | reviews and readiness up to the RM's queue, consent, habits, preferences, context | store, specialist review |
| Intake sessions | `intake/service.py`, `/sales-cases` | `intake_sessions` (versioned), documents, fields, profile | create, `add_document`, `process`, `patch_profile`, `confirm`, run analysis | store, sales case handlers |
| Corporate credit requests | `storage/credit_request_repository.py` | `corporate_credit_requests`: one row per request, with its latest keys and decision | create, `forward`, `decide` | RM and credit specialists |
| Reliability patterns | `reliability/patterns.py`, `integrations/resilient.py`, `knowledge/rag_provider.py` | circuit state, failure count, probes, the pool of the hybrid provider | `call`, `retry_safe`, `search` in hybrid mode | CRM, RAG server |
| Knowledge index and retrieval | `knowledge/*`, the console in `api/v2/employee_router.py` | one SQLite index per agent | upsert, seed, upload, contribute, edit, quarantine, live and controlled search | experts, specialists |
| RAG MCP server | `services/rag_mcp/*` | sources, chunks, ingestion runs, audit | seed, publish, search, list, get chunk, verify citation, health | corpus files, CLI, hybrid provider |
| Context assembly | `context/assembler.py` | none | copies request, customer and documents into the first state | case API |
| Metadata plane | `save_metadata_version`, `schemas/v2/metadata.py` | versioned metadata objects | save, get | none that writes |
| Clients | `lib/`, `android/`, `frontend` | user interface | the requests above | API |

### What is hard here

* **No transaction spans a handler.** A handler reads the case once, computes
  the next one in memory, and then makes up to four separate transactions
  (token, result, review, case, audit event). Any other request may run between
  two of them, and the process may die between two of them.
* **The lock is per instance and the instances are per call.** `V2Repository`
  guards its SELECT-then-write methods with an `RLock`, but `repo()` in
  `create_router` builds a new instance for each call unless one was injected,
  and `_repo()` of the employee router always does. No lock orders two requests
  of the deployed server, and since the UPDATEs do not name the version, a save
  can overwrite one that was acknowledged. Every run about handlers is about
  this configuration; only `store_shared` and `case_double_action` share a lock.
* **Tokens outlive what they approve.** Nothing revokes a token when the case
  is rejected, re-analysed or completed.
* **State that survives a re-analysis.** `resume` and `rerun_with_message` keep
  part of the old state (the gate's decision, the payload); which part is left
  depends on where the analysis returns.
* **Retries.** A client repeats `execute` with the same idempotency key; the
  recorded result is answered before the case is looked at.
* **Shared objects on one event loop.** The server has one engine with one
  extractor and one expert of each kind, and they keep the outcome of the last
  call in fields that another analysis may overwrite between two awaits.
* **Threads that outlive their callers.** A timed-out search goes on in a pool
  of two workers, and its late answer is recorded in the breaker.
* **Readers between two writes.** The index, the corpus and the consent of an RM
  are read through several connections while others write them.

### What makes each component correct

* Store: through one instance a save replaces the version its caller read, the
  audit chain of an honest log verifies, and transactions look atomic.
* Engine and review: a case waits for approval only if the gate approved
  eligible evidence or it was overridden; an override has the agreement of every
  role its gate decision required, given to one version, whichever saves are lost.
* Analysis: what goes to approval is evaluated, current and grounded; a blocked
  product is never offered; a case that waits for information asks for some.
* Experts: a finding says truly whether the model answered; a block reaches a
  human; no analysis waits forever.
* Approval and execution: one action per approval, executed by the approver
  for exactly the approved payload; recorded results never change; no approved
  case without a token for its payload; no consumed one that names no recorded
  result, and unless that was a replay, none whose payload no approval was used
  up for.
* Intake: a confirmed profile settles every conflict and an analysis runs on an
  attested profile only; as long as no save has been overwritten, a confirmed
  profile accounts for every acknowledged document and keeps every correction.
* Credit requests: every forward is answered by one decision, a decided request
  never changes, a submission sent twice is one request, and an answer of 200
  means that it happened.
* Circuit breakers: the state follows the count of failures, probes are bounded,
  calls return, and a healthy upstream closes the circuit.
* Knowledge: the newest version of an entry is not superseded; an answer drawn
  from two versions says so; what is served is one whole publication.
* Workspace: what was decided reaches the RM's queue, what the queue tells is
  true, and nothing personal is shown that the RM did not consent to.

`PROJECT.json` lists every component with its status, and under `hazards` each
place of the code where these properties are at stake.

## 2. The modules

| Module | Models |
|---|---|
| `CaseLedger` | the abstract store: atomic compare-and-set row and chained log |
| `CaseStore` | `save_case` and `append_audit`, statement by statement, with or without a shared lock; implements `CaseLedger` when the lock is shared |
| `CaseModel` | the case's fields that steer control, the state machine, the risk gate and the engine's entry points, as operators from a case to the set of cases they may leave |
| `CaseService` | the API: handlers as sequences of calls over the store, the tokens, the idempotency records and the reviews; composes `CaseStore` (by INSTANCE) and `CaseModel` (by EXTENDS) |
| `CaseStoreProofs` | theorems about `CaseStore` |
| `CaseServiceProofs` | theorems about `CaseModel` and `CaseService`: types, justified and backed approvals, one action per approval, overrides, and that the service is a client of `CaseStore` |
| `CreditRequests` | the rounds of a corporate credit request over conditional updates and unique indexes |
| `CreditRequestsProofs` | theorems about `CreditRequests` |
| `CircuitBreaker` | both circuit breakers with their callers, the pool, the timeout, the retries |
| `CircuitBreakerProofs` | theorems about `CircuitBreaker` |
| `IntakeSession` | the intake of one sales case, transaction by transaction |
| `IntakeSessionProofs` | theorems about `IntakeSession` |
| `ExpertAnalysis` | what one analysis computes, and what resumes keep of it, under every handler of a case |
| `ExpertTeam` | several analyses as coroutines over the shared extractor and experts |
| `ExpertProofs` | theorems about `ExpertAnalysis` and `ExpertTeam` |
| `KnowledgeBase` | one agent's index, its console, seeding, uploads and controlled retrieval |
| `RagServer` | the RAG server's seeds and calls over one corpus, with a CLI beside it |
| `KnowledgePlane` | composes `KnowledgeBase` and `RagServer` (by EXTENDS): the configured provider chooses which of them serves |
| `KnowledgePlaneProofs` | theorems about `KnowledgeBase`, `RagServer` and their composition |
| `EmployeeWorkspace` | reviews and readiness up to the RM's queue, and personalization |
| `EmployeeWorkspaceProofs` | theorems about `EmployeeWorkspace` |
| `MC...` | model values, inputs and symmetry sets for TLC |

### CaseStore

`row` is the row of `cases`, `chain` the rows of `audit_events` of that case and
`txn[r]` the transaction request `r` has open between its SELECT and its write.
`SaveSelect` is the SELECT and the comparison with `expected_version`,
`SaveUpdate`/`SaveInsert` the write and the commit, `SaveRefused` the
`StateConflictError`, `Rollback` an exception (`pg.connect` rolls back).
`AuditSelect`/`AuditInsert` are the two statements of `append_audit`.
With a shared instance a transaction begins only if no other is open: that is
the `RLock`.

Abstractions: the UPDATE and its COMMIT are one step (PostgreSQL's row lock makes
a second UPDATE wait for the first commit, and under READ COMMITTED it then
proceeds, since its WHERE clause does not name the version). An event is
named by its place in the log and keeps the place its `prev_hash` names; hashes
do not collide. Sequence numbers are given in the order of commit.

### CaseModel

A case is a record of the fields that guards read: status, approval status, loop
count, whether products are recommended, the eligibility verdict, whether the
evidence is valid, the gate's decision, whether it was overridden, and the
frozen action payload. `executed` is the result the case's `actions_executed`
event names, by its key. History are `executed.replay` (was that result answered
as a replay?) and `gated`: did the latest analysis evaluate the risk gate? An
operator returns the set of cases the engine may leave; the empty set is an
exception, after which the handler stores nothing. What the experts, the rules
and the index answer is one *finding*, chosen nondeterministically for each
analysis.

`Decisions` has no policy or reputation reason: `_apply_risk_gate` passes the
gate only the eligibility result and the evidence, so those branches of
`evaluate` are never taken.

### CaseService

`job[r]` is a handler in flight: the calls it still has to make (`todo`), the
version it read, the case it will store, and what its calls need. The actions
up to `SubmitSpecialistReview` are the handlers up to their first call; those
after are the calls. Handlers that answer 4xx from their first checks change
nothing and are not steps. `Die` stops a handler between any two calls and in
the middle of a transaction; it also stands for every exception of a call (a
lost connection, an expired token, a notification that fails).

* Where a handler compares `expected_state_version`, a client that names another
  version than it reads is refused before any call; `resume_case` does not
  compare. Either way the handler saves under the version it read: `base`.
* `idempotency_records` has the key as its primary key and is not bound to a
  case: `RecordElsewhere` is another case executed under a key this one's clients
  use too, and `Lookup` answers whatever the key has. A result's `case` tells the
  two apart, for the properties only.
* `SharedRepository` is `create_router(repository=...)`. It concerns that router:
  `submit_specialist_review` always builds a repository of its own, so the
  assumption on constants allows a shared one only without the endpoint `review`.
* A token can be used in `execute` only after `approve` answered it
  (`delivered`); token expiry only refuses. `issue` computes the hash of the
  payload of the case that was read.
* `can_access_customer_case` lets several RMs act on one case (`Employees`).
* Reviews other than clearances are never read again and not stored.
* A case is created once: the handlers that create use a fresh identifier.

### CreditRequests

`table` is `corporate_credit_requests`; `call[c]` is the transaction a call has
open after its SELECT found no row with the idempotency key. `ForwardUpdate` and
`DecideUpdate` are the conditional UPDATE and its commit, `CreateInsert` the
INSERT; the unique indexes of the migrations are conjuncts (`Unique`,
`Submitted`). A call that finds a conflict, violates an index or loses its
connection is a `Rollback`. `ForwardReplay`/`DecideReplay` answer the row that
carries the key. `forwards` and `decisions` of a row, `done`, `repeated` and
`told` are history. The appraisal, the note and the service advice are data no
guard reads. The module stands alone: no handler of a case touches this table.

### CircuitBreaker

A behaviour guards one upstream, `"rag"` (`RagProviderRouter` in hybrid mode) or
`"crm"` (`ResilientCRMAdapter` over `patterns.CircuitBreaker`); the two breakers
differ where the code does (`Admits`, `Failed`, `Recorded`). `tasks` is the
executor's queue, of which the first `Workers` run; a task whose caller timed
out stays in it as `Abandoned`. Monotonic time is counted in ticks since the
circuit opened. A denial is an answer that is no availability failure: the
router raises it and records nothing, so a half-open probe that ends so is
forgotten by the breaker (`ProbeForgotten`).

### IntakeSession

`row` is the versioned session, `docs` the document rows, `case` the case that
`run_sales_case_analysis` stores, `req[r]` a request between two transactions.
`SaveSelect` and `SaveUpdate` are the two statements of `save_intake`, `RunSelect`
and `RunUpdate` those of the analysis' `save_case`: with a repository per call
anything may be stored between the two (`seen` is the version the SELECT
found). Of the profile one high-impact field is kept with
the sources that claim a value for it: what was entered (the form, corrections
and confirmations, `entered`) and what the last pass extracted (`extracted`) are
kept apart, and `Fields` is the list the code builds of both. `Score`, `Winners`
and `Unresolved` are the rules that choose among them. `attested`, `uploaded`,
`corrected` and `overwritten` (has an UPDATE replaced a version its SELECT had
not seen?) are history.

### ExpertAnalysis

`case` holds every result of one analysis that a later one may keep: the
recommendations, the verdict, what blocks credit and insurance, the synthesis,
the evidence, the gate, the questions and the draft. `Analysed(c, start, ...)`
is `_analysis` from a node of the coordinator's list; `Retrieved` and `Kept` say
which results a resume keeps. The synthesis ranks the recommendations in their
order: the accepted one at the first place is the `Primary`, the others are the
alternatives, of which no guard reads the order. `index` is the catalog and
policy sources as they are indexed now, and `Ingest` changes them behind the
case's back; `Tick` lets rules and products go out of date. `CaseModel`
abstracts all of this as a finding; the handlers here run one at a time, and
`CaseService` interleaves them. Search ranking is a choice among the active
products. What a verdict should be is recomputed from the case by the property,
not remembered.

### ExpertTeam

`run[a]` is the coroutine of an analysis: the graph node it is at and whether it
waits for the model. Between two awaits it is alone. `lastRun` and `reason` are
the fields of the shared extractor and experts. `asyncio.wait_for` runs the call
as a task of its own and resumes the caller in a later turn of the loop, so
`Reply` (or `TimeOut`) and `Conclude` are two steps. `honest` is history. The
names of this module are its own (`TeamInit`, `TeamNext`, `EarlierResults`, ...),
so that one module can be about both an analysis and the team.

### KnowledgeBase, RagServer, KnowledgePlane

`index[e][v]` is the row of version `v` of an entry; of a text only its identity
matters, and how well it matches is left open, so a search may return any rows
that pass its filter. `editors` are PATCH requests between reading and writing,
`run` a controlled retrieval between its channels, `seeding` a live search that
found the index empty. In `RagServer` a *package* is what one run built from one
source; `lock` is SQLite's write lock with the rows written so far, so an
uncommitted publication is visible to nobody and a death rolls it back. The two
planes share no state; `KnowledgePlane` follows the one `RAG_PROVIDER` names.

### EmployeeWorkspace

`job[q]` is a request between two calls of `employee_db` or of the repository,
each a transaction of its own. `CheckVersion` and `Update` are the two
statements of `save_case` without a shared lock. `history` (outcomes that were
stored) and `lost` (outcomes whose request died before telling the RM) are
history variables. Another analysis of a case leaves it in `pending_review`
here, since no other status is open to a review. `Seeds` are the demo rows
`init_employee_db` writes; weights are in hundredths, and the summary's text
enters only through its bands. A behaviour has requests of one kind, since case
requests and personal ones share no row.

## 3. Runs

| Run | Question | Bounds |
|---|---|---|
| `store_shared` | With one repository, are transactions atomic and the chain intact? | 3 requests, 2 contents, 4 saves, 4 events |
| `case_approval` | What do tokens and idempotency records guarantee when saves may be lost, requests die and keys are used twice? | 2 concurrent requests, 2 keys, 2 payloads, 2 tokens, 4 saves, no shared lock |
| `case_review` | Can a case reach approval unjustified, or carry an override its roles have not agreed to? | 2 concurrent requests, both specialist roles, 3 saves, no shared lock |
| `case_lifecycle` | Over every endpoint, do stale tokens stay harmless? | 1 request at a time, all 13 endpoints, 5 saves, 1 token, 1 key |
| `case_double_action` (violated) | Is there at most one action per case? | 2 requests, 2 keys, 2 tokens |
| `credit_rounds` | Do the conditional updates keep the rounds, whatever overlaps or is retried? | 2 concurrent calls, 2 requests, 2 keys, 3 rounds |
| `breaker_recovery` | Do both breakers keep their count and their bound, return every call and recover? | 3 threads, threshold 2, cooldown 3 ticks, timeout 2, 2 probes, 2 workers, 2 attempts, 4 tasks |
| `intake_confirmed` | Is a confirmed profile complete, corrected, settled, and the one analysed? | 2 concurrent requests, 2 documents, 2 values, 4 versions begun from (3 once a save was overwritten), 1 analysis |
| `analysis_gate` | Does what reaches approval rest on an evaluation that is current and grounded? | 4 handler calls, 1 loop, 1 ingestion, 2 days, 2 products, 3 rules, 2 customers |
| `knowledge` | Do edits, searches, seeds and publications keep the index and the corpus consistent? | 2 editors, 3 edits, 3 versions, 2 days; 2 sources, server and CLI, 2 readings of the clock, 2 audited calls |
| `team_experts` | Is what findings say of their origin true, does a block reach a human, does every analysis end? | 2 analyses, model configured everywhere or nowhere, 6 tool calls |
| `workspace` | Does an outcome reach the RM, is what is told true, is a context within the consent? | 3 requests, 2 roles, 1 habit, 3 versions |

Why the bounds suffice. Each race of the code is between two transactions, so
two requests reach it, and three in `store_shared` and `workspace` let one
overtake a pair. Two tokens, keys and payloads are what it takes to mix up one
with another. Four saves are create, a re-analysis, an approval and an
execution. Three saves in `case_review` are a block, a re-analysis or a
specialist's return, and an override; five in `case_lifecycle` exhaust the three
loops of `resume`. Three rounds of a credit request let the key of the first be
overwritten and come back.

Three threads at a breaker of threshold 2 leave one to answer late after two
have opened it; the cooldown is longer than the timeout, as the defaults (30 s
and 3 s) are and `BreakerAssumption` requires, and four tasks fill the two
workers and queue two more. Requests begin from the first four versions of an
intake (created, then an upload, a processing and a correction), so the last of
them is a confirmation or a change that overtakes one, and an analysis runs on
the result. Once a save was overwritten, three are begun from: two properties
claim nothing then, and the other two follow from what a single session holds.
In `analysis_gate` one loop stands for the three of `resume`: the result of the
last is `failed`, and every loop starts from the same kind of state. The two
customers are one that passes and one with an incomplete owner declaration, no
document and a profile that contradicts the CRM; the three rules are shipped
ones of each kind (a document, a threshold, a list of values). Two editors and
three edits are a text changed while another request retires the same entry, and
a third that revives it. Two readings of the clock give one publication to
overtake another. Six tool calls are the budget of the manifests.

`MaxEvents` bounds the events that are followed; beyond it an audit event is
appended to a log nobody reads (`AuditUnfollowed`), which the audit chain's own
run covers. Deadlock is checked in the runs of the store, the cases, the credit
requests and the breaker: the store can always roll back or refuse, a free
handler can always serve a read, and time goes on. In `intake_confirmed`,
`analysis_gate`, `knowledge`, `team_experts` and `workspace` the clients may
have nothing left to ask within the bounds, so the system may stop. Requests,
keys, payloads, documents and editors are interchangeable, hence the symmetry
sets; `breaker_recovery` and `team_experts` check liveness and use none.

`case_approval` has one RM: two make the run ten times as long. That the
executing employee is the approver is proved for any number of them
(`ActionsApproved`, section 4).

### What the violated run shows

`case_double_action`: a case may be approved twice (`approve_case` leaves it in
`pending_approval`), and the executor's result is recorded before the case is
stored. Two executions with different keys both record an action even with a
shared lock; so does one that dies in between and is retried with a new key and
the second token. `findings` quotes the line that says otherwise.

### What the code does not promise

These were met while modelling. The properties of the runs are stated around
them, and no run claims more.

* `save_case` and `save_intake` check the version in their SELECT and their
  UPDATE does not repeat the condition: with a repository per call, as deployed,
  two saves of one version both succeed and the first, though acknowledged, is
  lost, against `plan_v2/13_STORAGE_OBSERVABILITY_RELIABILITY.md:34`. A version
  number may so name two contents, and even go back when a late UPDATE follows
  several saves. `append_audit` forks its chain in the same way.
* So a context correction that is stored between the SELECT and the UPDATE of a
  specialist's last clearance is overwritten by the override, whose clearances
  are of the version before it, although `engine.py:536` speaks of the current
  one; and an upload, a correction or a confirmation of an intake may be replaced
  by another of the same version. `OverrideCleared`, `ConflictsSettled` and
  `SnapshotAttested` hold even then; `CorrectionKept` and `DocumentsCounted` do
  not, and say so.
* A re-analysis that recommends no product returns before the risk gate, and the
  previous gate decision stays on the case, where specialists can clear it.
* A key's recorded result answers an execution before anything else is looked
  at. A request that died after recording it can be retried after the case was
  re-analysed or rejected, and then completes the case with another payload; and
  a key of another case completes this one with that case's result, with no
  action and with its token neither verified nor consumed, although
  `plan_v2/11_SAFETY_APPROVAL.md:98-107` puts the token before the key.
* Two PATCHes of one version of a knowledge entry, at once or one later on the
  superseded row, both write the next version: the second replaces the text the
  first was acknowledged with, although the comment at
  `employee_router.py:1146-1148` says that it never does. `NewestCurrent` is only
  about the marks of the versions. A PATCH writes back the row it has read, so a
  stale one also clears a quarantine or a supersession set since.
* `reject_case` moves a completed case to rejected.
* A credit request remembers the key of its latest decision only; a retry that
  arrives two rounds later is taken for a new decision.
* The gate judges invalid evidence before the rules (`risk_gate.py:95`), so a
  block no specialist may override is open to review when the evidence is
  invalid as well. `ApprovalGrounded` and `BlockNotLaundered` are about what the
  gate and the synthesis let through without a specialist, and hold.
* The agents' live search filters neither quarantined nor superseded entries;
  only the controlled channels do.
* A probe answered with an error that is not recoverable leaves the circuit half
  open with that probe counted. `Recovers` excludes behaviours where it happens.
* A not-ready item stays in the RM's queue after the tracker became ready, and
  an outcome whose request died before `_notify_rm` is never told.
* Two queries of the workspace (`employee_router.py:356`, `:581`) ask for a case
  status `blocked` that `CaseStatus` does not have.

### Fairness

The handlers are driven by clients, whom nothing obliges to send another
request, so the case, credit, intake, knowledge and workspace runs assume no
fairness and check safety only. Two components promise that something ends:

* `breaker_recovery` (`CallsReturn`, `Recovers`). The clock ticks, `future.result`
  times out, every call of a worker ends (the HTTP client has a timeout of its
  own), and a retry loop goes on: weak fairness of each, since once such a step
  is possible it stays possible until it is taken. `Recovers` also needs that
  threads keep asking (`WF(Ask)`), because the breaker has no timer: it looks at
  the cooldown only when somebody calls. It says nothing of a system that nobody
  uses.
* `team_experts` (`AnalysesEnd`). The event loop runs every coroutine that is
  ready (`Step`) and the timer of `wait_for` expires (`TimeOut`). The model's
  answer (`Reply`) has no fairness: it may never come.

## 4. Proofs

`CaseStoreProofs` holds for every set of requests and contents and all bounds.

* `StoreTypeCorrect`: the types, shared repository or not.
* `SelectedStaysTrue` (`LockDiscipline`) and `SharedInvariant`, both assuming
  `SharedRepository`: the inductive invariant is
  `StoreTypeOK /\ LockDiscipline /\ ChainIntact`. `ChainIntact` alone is not
  inductive: `AuditInsert` appends the tail its SELECT saw, so one must know that
  the tail has not moved, and that is `LockDiscipline`, which in turn needs
  that at most one transaction is open.
* `ChainNeverForked`, `SavesNeverLost` and `StoreImplementsLedger` follow from
  it: the chain verifies, every save replaces the version it read, and the
  two-statement transactions refine the atomic `CaseLedger`.

`CaseServiceProofs` holds for every set of requests, employees, keys, payloads
and findings, every set of endpoints, all bounds, and with or without a shared
repository, unless a theorem says otherwise. It has eight sections.

* *The engine* (1). `Sound` is its part: typed, justified, and `Decided` (only a
  gate decision is open to review; without this `clear_specialist_block` could
  bring a case to approval and leave no override on it). One lemma per entry
  point of the engine (`RunSound`, `RerunSound`, `ResumeSound`, `ClearSound`)
  shows that it leaves sound cases whatever the experts answer.
* *Types and justified approvals* (2). `ServiceTypeCorrect` and
  `ApprovalJustified` rest on the inductive invariant `SInv`. Types alone are not
  inductive: that `consume` finds a token and `record` a key follows from where
  the handler stands, so `LegalJob` lists the scripts a handler can be left with
  and what each holds, and `LegalTxn` which script an open transaction belongs
  to. `PendingApprovalJustified` is not inductive either: the row receives what a
  handler computed earlier from a version that may be gone. `SInv` therefore says
  of every case on its way, in the row, in a handler and in a transaction, that
  it is `Sound`. The step has one lemma per handler, which shows that it starts
  a legal job, and one per call.
* `ServiceUsesStore`: the row, the chain and the transactions evolve as in
  `CaseStore` with `Cases` for `Contents`. The prover cannot cite a theorem
  through INSTANCE, so what `CaseStoreProofs` concludes is proved again of the
  service in section 8.
* *One action per approval* (3), `ActionsApproved`. Between `consume` and
  `record` a token is consumed and under no key yet; the handler that stands
  there must be its only holder (`HoldersOwnTokens`). `ConsumeApproval` shows that
  who consumes a token that was still issued becomes its only holder,
  `RecordApproval` that who records gives it to one key only, and every other
  step neither makes a holder nor changes what a token was issued for
  (`KeptStep`). `ResultsKept` proves the action property `ResultsAndTokensKept`.
  Both hold with per-call repositories too: they rest on the conditional UPDATE
  of `approval_tokens` and on ON CONFLICT DO NOTHING, not on the lock.
* *Backed approvals* (4), `ApprovalsBacked`, invariant `BInv`. What a stored case
  says of its approval is true of every case a handler or a transaction still
  carries, except while approve has its token and execute its result to
  register. An engine step inherits what the row it read said (`Inherits`), so
  it is true whichever row it replaces: tokens and results are only added. Of an
  execution under way it says that once its token is consumed, that token was
  for the payload the case will be stored with; one that was answered by the
  key's record carries the mark of a replay instead.
* *What is decided and what a call leaves of it* (5): `HandlerDecides` and
  `CallMoves`, from which the last two action properties follow.
* *Actions on pending cases* (6), `ActionsOnPendingCases`. For one request at a
  time (`Requests = {r}`), as the property is stated: with two, the row may be
  rejected between the check and the record. `PInv`: while a handler may still
  record an action, the row waits for approval and holds the payload.
* *Overrides* (7), `OverridesAgreed`, for any number of repositories. The row may
  be replaced while a handler counts, so `OInv` compares no version with the row's:
  a handler about to override carries how far it has counted the clearances of the
  version it read (not yet, all the other roles, or all of them), and a case on
  its way or stored keeps its agreement whatever it replaces, since reviews are
  only added. That it is the version just before is true until somebody approves
  the case, which saves it again under a later number.
* *The ledger* (8). `ServiceImplementsLedger` assumes `SharedRepository` and
  `"review" \notin Operations`, the only configuration in which handlers share a
  lock: an injected repository and the case router alone. It is not the deployed
  one. The handlers, with their crashes, then refine `CaseLedger`, the row and
  the log being the ledger's own variables. Each step of a handler is one of the
  store's or leaves it alone (`StoreStep`), and with the lock's invariant `LInv`
  each of the store's is a compare-and-set, a chained event or nothing.
  `ServiceLosesNothing` restates `ChainIntact` and `NoLostUpdate` for the
  handlers.

`CreditRequestsProofs` has one invariant, `CInv`. `AcknowledgedTookEffect` is
inductive only with `CarriedKeysTookEffect`: a replay is answered from the key
a row carries, so that key must be one under which something happened.
`DecisionsStay` is the action property: each write's guard excludes the decided
statuses of the row it writes.

`CircuitBreakerProofs` holds for every set of threads, threshold, cooldown
longer than the timeout, number of workers and attempts. `TypeInv` is
`BreakerTypeOK /\ ClosedBelowThreshold`, which are inductive together: the range
of `failures` in a closed circuit is what keeps the count from passing the
threshold. `ProbesStayBounded` needs `ProbesAccounted` as well: a reopened
circuit forgets its probes, so one must know that those of the present half-open
phase are accounted for in `probes`, and that a probe still calling while the
circuit is open is at least as old as the circuit has been open (`CooledDown`:
hence none is left when the cooldown ends).

`IntakeSessionProofs` (`IntakeTypes`, `CorrectionsKept`, `ConfirmedCounts`,
`ConfirmedSettled`, `AnalysesAttested`) holds for every set of requests, files,
claims, values and forms, and all bounds. None of the four properties is
inductive, because the row becomes the session of whichever request saves next.
`SessionOK` says what every session must satisfy that is the row or may still
become it: its conflicts are settled, and a confirmed profile is attested or
about to be. It does not mention the row, so it survives overwritten saves.
`KeptOK` says, of the row and of the sessions whose save is not yet refused,
that they account for the history as their save will leave it; it is claimed
until a save has been overwritten, which `CorrectionsKept` and `ConfirmedCounts`
say. That an extract of a document survives later passes needs the place of
every document in the list, hence the lemmas on appended and concatenated
sequences. `Unresolved` looks at the last mention of each value only; that this
settles all of them is `ConfirmedSettled`'s own lemma.

`ExpertProofs` has a part about one analysis and a part about the team.

* One analysis, for every catalog, registry, customer, index and bound:
  `AnalysisTypes`, `ApprovalsGrounded`, `VerdictsCurrent`, `BlocksNotLaundered`,
  `WaitingAsks`. The invariant is `WorldOK /\ Stored(case)`. `Stored` has, besides
  what the properties say, that the results of a stored case belong together
  (`Done`): the verdict is on the recommended products, and credit's blocks are
  those of the verdict. A resume keeps some results and computes the others
  again, so each node is shown to leave results that belong together from
  results that did, and the chain of nodes to do so from any node it is entered
  at. `ApprovalsGrounded` needs `RegistryAssumption`: every product has, on every
  day, a blocking rule in force. The shipped registry has one with scope `"*"`
  and no end (`RULE-BUSINESS-REG-001`); without such a rule a product nobody
  judged would pass.
* The team, for every number of analyses: `TeamTypes`, `FallbacksTold`,
  `BlocksAnswered`. A run keeps its findings in the order of the graph (`Ordered`,
  by `PlaceRank`), a run that waits for the model is at a node that asks it
  (`Waits`), and once credit has answered, its result, the result of the second
  search and the finding of a block agree (`Decided`). `FallbacksTold` holds
  because an expert writes the reason of a finding and reads it in one turn of
  the loop, whatever other analyses left in the field; `last_run` may be another
  analysis' by the time it is logged, but claims the model only if it answered.

`KnowledgePlaneProofs` holds for every set of entries, texts, sources, editors
and commands, and all bounds.

* The local index: `NewestStaysCurrent` from `KInv`. The PATCH handler writes
  from the row it has read, so besides the types of the index and the editors
  the invariant says what an editor that read a superseded row may rely on: the
  version after it is in the index, and rows are never removed
  (`SeenSucceeded`). It says nothing of whose text that version holds, which the
  code does not keep (section 3). `ConflictsDisclosed` adds `RunOK`:
  the conflicts a retrieval tells are those of the pack it has, whatever was
  edited since its search.
* The RAG server: `PublicationWhole` and `AnswersAccounted` from `RagInv`. What is
  served must be one passed run's whole package; the invariant follows a
  publication through the rows it has written under the lock, a seed through
  the sources it has read, and a call through what it found and what its record
  says.
* `PlaneTypesKept`: the types of both planes.

`EmployeeWorkspaceProofs` (`WorkspaceTypes`, `NotificationsTrue`, `OutcomesTold`,
`ContextsConsented`) holds for every set of requests, specialists, habits and
versions. `WInv` has four parts: what an item tells is backed by stored reviews,
which only grow (`RowsOK`, `ItemsOK`); a request between its review and its item
carries what it will tell (`JobsOK`), and so does a context in the making, which
may be personal only if its consent was read as given; and every stored outcome
has an item, a request about to write it, or a request that died (`Told`).

The type invariants of `CaseStore`, `CaseService`, `CreditRequests` and
`CircuitBreaker` are proved and checked by no run; those of the other modules
are checked by their runs and proved as well.

The only assumptions are the named ones on constants (`StoreAssumption`,
`PayloadAssumption`, `FindingsAssumption`, `ServiceAssumption`,
`CreditAssumption`, `BreakerAssumption`, `IntakeAssumption`,
`AnalysisAssumption`, `RegistryAssumption`, `TeamAssumption`,
`KnowledgeAssumption`, `RagAssumption`, `WorkspaceAssumption`), which TLC
evaluates in every run that extends their module, and `SharedRepository`,
`"review" \notin Operations` or `Requests = {r}` where a theorem names it.
Beyond types of constants they say: the model value for "none" is none of the
values it stands beside; there is at least one source, one case, one specialist;
the demo seeds and the sources are finite; the breaker's cooldown is longer than
the timeout; a tool budget allows two calls.

Every invariant and every action property that a passing run checks is now a
theorem, so `[]`-properties are checked twice: by TLC on the instance where the
mutants show that it can fail, by the prover for every instance. Only
model-checked are the three liveness properties (`CallsReturn`, `Recovers`,
`AnalysesEnd`), which are out of the prover's reach. No module uses recursion.

## 5. Plan

What could follow, in this order.

| Work | Question | Proof |
|---|---|---|
| `CaseModel` and `ExpertAnalysis` | that what an analysis computes is one of the findings `CaseModel` chooses from | yes, as a step simulation |
| `KnowledgePlane` | a citation verified against a publication that was replaced meanwhile | yes |
| metadata versions | when the application writes them: version, relations and event of one save | yes |

## 6. Not modelled

* *Metadata plane.* `save_metadata_version` has no caller in the application,
  only a test writes through it, so its readers never find a version.
* *Context assembly* copies the request, the customer and the documents into
  the first state, and keeps nothing.
* *Reads*: traces, previews, dashboards, lists and searches that store nothing.
  The reads whose result a later step relies on are modelled where it does.
* *Data*: prompts and texts, embeddings, scores, chunking, reranking and
  compression, OCR and field extraction, credit indicators and capacity. Their
  results are choices: a finding, the rows a search returns, the value a
  document claims.
* *Intake copies*: jobs, extracted fields, conflicts and drafts are written
  beside the session and read by no handler that decides.
* *Identity*: permissions, tokens of the single sign-on and customer scopes
  refuse a request before it reads anything; a refused request is no step.
* *Clients* are the requests they send.

## 7. Running

tlasany CaseService.tla tlc -workers 2 -config case_review.cfg MCCaseService tlc
-workers 2 -config breaker_recovery.cfg CircuitBreaker tlc -workers 2 -config
knowledge.cfg MCKnowledge for m in CaseStore CaseService CreditRequests
CircuitBreaker IntakeSession \ Expert KnowledgePlane EmployeeWorkspace; do tlapm
${m}Proofs.tla; done

`PROJECT.json` names the module of every other run. Each takes between a second
and three minutes with two workers, the proofs together some ten minutes.
