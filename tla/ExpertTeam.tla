------------------------------ MODULE ExpertTeam ------------------------------
(* The analyses of several cases on the one V2WorkflowEngine of the server: *)
(* coroutines of one event loop which share the intent extractor and the    *)
(* three expert agents.  Between two awaits a coroutine is alone; it awaits *)
(* the model and the end of every graph node.  asyncio.wait_for (Python     *)
(* 3.11) runs the call to the model as a task of its own and resumes the    *)
(* caller in a later turn of the loop.                                      *)
(* ExpertAnalysis says what one analysis computes; here a result is reduced *)
(* to what the graph routes on, and the metadata of extraction and experts  *)
(* to how they say they were answered.                                      *)
EXTENDS Naturals, Sequences

CONSTANTS
    Analyses,       \* requests that analyse a case, each a case of its own
    Clients,        \* INTENT_USE_LLM and AGENTIC_LLM_ENABLED, with a key or without
    MaxToolCalls,   \* manifest.max_tool_calls: 6
    None            \* no result, no reason, no record

ASSUME TeamAssumption ==
    /\ Clients \subseteq [intent : BOOLEAN, experts : BOOLEAN]
    /\ MaxToolCalls \in Nat /\ MaxToolCalls >= 2
    /\ None \notin {"error", "llm_not_configured", "plain", "credit"} /\ None \notin BOOLEAN

VARIABLES
    client,     \* whether a model is configured for the extractor and the experts
    lastRun,    \* IntentExtractor.last_run: its mode
    reason,     \* last_fallback_reason of each expert
    run         \* the analyses

teamVars == <<client, lastRun, reason, run>>

Experts == {"product", "credit", "insurance"}

\* Nodes of the graph with an expert, rule nodes, and where the others lead.
ExpertNodes == Experts \cup {"alternative"}
RuleNodes == {"eligibility", "recheck"}
Nodes == ExpertNodes \cup RuleNodes
Ended == {"done", "failed"}

\* searched: the search of the expert at work did not fail.  honest: no mode in
\* the intent log or a finding passed a fallback off as the model, or, in a
\* finding, the model as a fallback.
Idle == [pc |-> "idle", wait |-> "no", result |-> [n \in Nodes |-> None],
         findings |-> <<>>, searched |-> TRUE, honest |-> TRUE, session |-> None]

-----------------------------------------------------------------------------
(* Manifests, tasks and the tool gateway.                                  *)

Agent(node) == IF node = "alternative" THEN "product" ELSE node

AllowedTools(expert) ==
    {"search", "get_chunk", "list_sources"}
    \cup (IF expert = "product" THEN {} ELSE {"analyze_readiness"})

TaskType(node) ==
    CASE node = "product" -> "product_discovery"
      [] node = "alternative" -> "product_alternative"
      [] node = "credit" -> "credit_structuring"
      [] node = "insurance" -> "insurance_coverage_review"

AcceptedTasks(expert) ==
    CASE expert = "product" -> {"product_discovery", "product_alternative"}
      [] expert = "credit" -> {"credit_precheck", "credit_structuring", "credit_gap_analysis"}
      [] expert = "insurance" -> {"insurance_precheck", "insurance_coverage_review"}

\* validate_assignment: the task grants the manifest's own tools.
Assignable(node) == TaskType(node) \in AcceptedTasks(Agent(node))

\* AgentToolGateway.call lets a call through after those in the trace.
Granted(expert, called, tool) ==
    tool \in AllowedTools(expert) /\ Len(called) < MaxToolCalls

\* The calls an expert makes, in order: the search is for credit products, or
\* for insurance also for a logistics customer.
ToolCalls(r) ==
    CASE Agent(r.pc) = "product" -> {<<"search">>}
      [] r.result["product"] = "credit" -> {<<"analyze_readiness", "search">>}
      [] r.pc = "credit" -> {<<"analyze_readiness">>}
      [] OTHER -> {<<"analyze_readiness">>, <<"analyze_readiness", "search">>}

-----------------------------------------------------------------------------
(* What an expert tells.                                                    *)

\* Mutant of ReasonAfter: an answer leaves the reason of an earlier failure.
ReasonAfterStale(expert, answered) ==
    IF ~client.experts THEN "llm_not_configured"
    ELSE IF answered THEN reason[expert] ELSE "error"
\* last_fallback_reason as _enrich leaves it.
ReasonAfter(expert, answered) ==
    IF ~client.experts THEN "llm_not_configured" ELSE IF answered THEN None ELSE "error"

Mode(model) == IF model THEN "llm" ELSE "deterministic_fallback"

\* build_finding: who, in which round; the mode comes from the two reasons.
Finding(node) == [expert |-> Agent(node), round |-> IF node = "alternative" THEN 2 ELSE 1]
Honest(r, why, answered) ==
    Mode(why = None /\ r.searched) = Mode(answered /\ r.searched)

\* Mutant of Following: a credit block is followed up only by a full analysis.
FollowingFull(r) ==
    CASE r.pc = "product" -> "eligibility"
      [] r.pc = "eligibility" -> "credit"
      [] r.pc = "credit" -> "insurance"
      [] r.pc = "insurance" ->
            IF r.result["credit"] = TRUE /\ r.findings # <<>> THEN "alternative" ELSE "synthesis"
      [] r.pc = "alternative" -> "recheck"
      [] r.pc = "recheck" -> "synthesis"
\* The edges of the graph; a credit block asks for products without credit.
Following(r) ==
    CASE r.pc = "product" -> "eligibility"
      [] r.pc = "eligibility" -> "credit"
      [] r.pc = "credit" -> "insurance"
      [] r.pc = "insurance" -> IF r.result["credit"] = TRUE THEN "alternative" ELSE "synthesis"
      [] r.pc = "alternative" -> "recheck"
      [] r.pc = "recheck" -> "synthesis"

\* Mutant of Concluded: a finding joins those of its agent anew.
ConcludedTwice(r, why, answered) ==
    [r EXCEPT !.pc = Following(r), !.wait = "no", !.searched = TRUE,
              !.findings = @ \o <<Finding(r.pc), Finding(r.pc)>>, !.honest = @ /\ Honest(r, why, answered)]
\* The expert returns its finding and its node ends.
Concluded(r, why, answered) ==
    [r EXCEPT !.pc = Following(r), !.wait = "no", !.searched = TRUE,
              !.findings = Append(@, Finding(r.pc)), !.honest = @ /\ Honest(r, why, answered)]

-----------------------------------------------------------------------------
(* A request reaches the engine.                                            *)

\* POST /cases, a new message: run extracts the intent first.
Begin(a) ==
    /\ run[a].pc = "idle"
    /\ run' = [run EXCEPT ![a].pc = "intent",
                          ![a].wait = IF client.intent THEN "llm" ELSE "failed"]
    /\ UNCHANGED <<client, lastRun, reason>>

\* What an earlier analysis left of a case: with a credit product the rules may
\* block, and the collateral may be uninsured.
EarlierResults ==
    [product : {"plain"}, eligibility : {FALSE}, credit : {FALSE}, insurance : {FALSE}]
    \cup [product : {"credit"}, eligibility : BOOLEAN, credit : BOOLEAN, insurance : BOOLEAN]

\* The results an analysis is begun with that its nodes will keep: the others
\* are replaced before they are read.
Keeps(start, earlier) ==
    [n \in Nodes |-> IF n \in DOMAIN earlier /\ start > (IF n = "product" THEN 0 ELSE 1)
                     THEN earlier[n] ELSE None]

\* resume: coordinate starts at the node of nodes.index(start_at).
ResumeAnalysis(a) ==
    /\ run[a].pc = "idle"
    /\ \E start \in {0, 1, 3}, earlier \in EarlierResults :
          /\ earlier.credit = earlier.eligibility
          /\ run' = [run EXCEPT ![a] =
                [@ EXCEPT !.pc = "product", !.result = Keeps(start, earlier)]]
    /\ UNCHANGED <<client, lastRun, reason>>

-----------------------------------------------------------------------------
(* The model.                                                               *)

\* The task that asked the model ends; the extractor's stores last_run.
Reply(a) ==
    /\ run[a].wait = "llm"
    /\ \E answer \in {"ok", "failed"} :
          /\ run' = [run EXCEPT ![a].wait = answer]
          /\ lastRun' = IF run[a].pc = "intent" /\ answer = "ok"
                        THEN Mode(TRUE) ELSE lastRun
    /\ UNCHANGED <<client, reason>>

\* Mutant of TimeOut: the model is waited for without a limit.
TimeOutNever(a) ==
    /\ FALSE /\ run[a].wait = "llm"
    /\ UNCHANGED teamVars
\* MODEL_TIMEOUT_SECONDS.
TimeOut(a) ==
    /\ run[a].wait = "llm"
    /\ run' = [run EXCEPT ![a].wait = "failed"]
    /\ UNCHANGED <<client, lastRun, reason>>

\* last_run as extract_intent returns: the fallback replaces it, an answer's
\* record was stored when the task ended.
RunRecord(used) ==
    IF used THEN lastRun ELSE Mode(FALSE)

\* extract_intent returns, from the model or the fallback, and run logs last_run;
\* then it asks back, answers a simple question at once, or plans the analysis.
Understand(a) ==
    /\ run[a].pc = "intent" /\ run[a].wait \in {"ok", "failed"}
    /\ \E valid \in BOOLEAN, next \in {"done", "product"} :
          LET used == run[a].wait = "ok" /\ valid IN
          /\ lastRun' = RunRecord(used)
          /\ run' = [run EXCEPT ![a] =
                [@ EXCEPT !.pc = next, !.wait = "no",
                          !.honest = RunRecord(used) = Mode(TRUE) => used]]
    /\ UNCHANGED <<client, reason>>

-----------------------------------------------------------------------------
(* The nodes of the graph.                                                  *)

\* An expert or rule node keeps an earlier result if the analysis starts later.
KeptNode(r) == r.pc \in Nodes /\ r.wait = "no" /\ r.result[r.pc] # None

Keep(a) ==
    /\ KeptNode(run[a])
    /\ run' = [run EXCEPT ![a].pc = Following(run[a])]
    /\ UNCHANGED <<client, lastRun, reason>>

\* What the node's service may find: products, or whether there is a hard block.
Outcomes(r) ==
    CASE r.pc = "product" -> {"plain", "credit"}
      [] r.pc = "alternative" -> {"plain"}
      [] r.pc = "credit" -> {r.result["product"] = "credit" /\ r.result["eligibility"] = TRUE}
      [] OTHER -> {FALSE} \cup {r.result["product"] = "credit"}

\* analyze up to its first await: the gateway's trace, which all analyses share,
\* is reset, the service called, the search tried (its failure is caught, but not
\* the product expert's).  Without a model the finding follows at once.
Consult(a) ==
    LET r == run[a]
        expert == Agent(r.pc)
        why == ReasonAfter(expert, FALSE)
    IN
    /\ r.pc \in ExpertNodes /\ r.wait = "no" /\ ~KeptNode(r) /\ Assignable(r.pc)
    /\ \E outcome \in Outcomes(r), calls \in ToolCalls(r), found \in BOOLEAN :
        LET searched == Len(calls) = 2 => found /\ Granted(expert, <<calls[1]>>, calls[2])
            begun == [r EXCEPT !.result[r.pc] = outcome, !.searched = searched]
        IN
        /\ Granted(expert, <<>>, calls[1])
        /\ IF client.experts
           THEN run' = [run EXCEPT ![a] = [begun EXCEPT !.wait = "llm"]] /\ UNCHANGED reason
           ELSE /\ reason' = [reason EXCEPT ![expert] = why]
                /\ run' = [run EXCEPT ![a] = Concluded(begun, why, FALSE)]
    /\ UNCHANGED <<client, lastRun>>

\* analyze resumes with what wait_for returned or raised.
Conclude(a) ==
    LET r == run[a]
        expert == Agent(r.pc)
        answered == r.wait = "ok"
        why == ReasonAfter(expert, answered)
    IN
    /\ r.pc \in ExpertNodes /\ r.wait \in {"ok", "failed"}
    /\ reason' = [reason EXCEPT ![expert] = why]
    /\ run' = [run EXCEPT ![a] = Concluded(r, why, answered)]
    /\ UNCHANGED <<client, lastRun>>

\* The rule engine, for the products found or for the second search's.
EvaluateNode(a) ==
    LET r == run[a] IN
    /\ r.pc \in RuleNodes /\ ~KeptNode(r)
    /\ \E blocked \in BOOLEAN :
          /\ blocked => r.pc = "eligibility" /\ r.result["product"] = "credit"
          /\ run' = [run EXCEPT ![a] = [r EXCEPT !.result[r.pc] = blocked, !.pc = Following(r)]]
    /\ UNCHANGED <<client, lastRun, reason>>

\* A tool raises, or a guardrail refuses the result: the request fails and
\* nothing is stored.
Fail(a) ==
    /\ run[a].pc \in Nodes \cup {"synthesis"} /\ run[a].wait = "no" /\ ~KeptNode(run[a])
    /\ run' = [run EXCEPT ![a] = [Idle EXCEPT !.pc = "failed"]]
    /\ UNCHANGED <<client, lastRun, reason>>

\* coordinator_synthesis, and what _analysis commits of it to the case.
Synthesize(a) ==
    LET r == run[a]
        block == r.result["credit"] = TRUE \/ r.result["insurance"] = TRUE
    IN
    /\ r.pc = "synthesis"
    /\ run' = [run EXCEPT ![a] = [Idle EXCEPT !.pc = "done", !.honest = r.honest, !.session =
                  [status |-> IF block THEN "needs_human_review" ELSE "converged",
                   round |-> IF r.result["alternative"] = None THEN 1 ELSE 2,
                   credit |-> r.result["credit"], insurance |-> r.result["insurance"],
                   findings |-> r.findings]]]
    /\ UNCHANGED <<client, lastRun, reason>>

-----------------------------------------------------------------------------
TeamInit ==
    /\ client \in Clients
    /\ lastRun = "not_started"
    /\ reason = [e \in Experts |-> IF client.experts THEN None ELSE "llm_not_configured"]
    /\ run = [a \in Analyses |-> Idle]

\* What the event loop does for an analysis that waits for nothing.
Step(a) ==
    \/ Understand(a) \/ Keep(a) \/ Consult(a) \/ Conclude(a)
    \/ EvaluateNode(a) \/ Synthesize(a) \/ Fail(a)

TeamNext ==
    \E a \in Analyses : Begin(a) \/ ResumeAnalysis(a) \/ Reply(a) \/ TimeOut(a) \/ Step(a)

TeamSpec == TeamInit /\ [][TeamNext]_teamVars

\* The loop runs every coroutine that is ready, and wait_for's timer expires;
\* the model may never answer.
TeamFairness == \A a \in Analyses : WF_teamVars(Step(a)) /\ WF_teamVars(TimeOut(a))
TeamFairSpec == TeamSpec /\ TeamFairness

-----------------------------------------------------------------------------
Modes == {"llm", "deterministic_fallback"}

\* Type invariant: at most one finding of each node, and the second search last.
TeamTypeOK ==
    /\ client \in Clients
    /\ lastRun \in Modes \cup {"not_started"}
    /\ reason \in [Experts -> {None, "llm_not_configured", "error"}]
    /\ \A a \in Analyses :
          /\ run[a].pc \in Nodes \cup Ended \cup {"idle", "intent", "synthesis"}
          /\ run[a].wait \in {"no", "llm", "ok", "failed"}
          /\ \A i \in DOMAIN run[a].findings :
                /\ run[a].findings[i] \in [expert : Experts, round : {1, 2}]
                /\ run[a].findings[i].round = 2 => i = Len(run[a].findings)
                /\ \A j \in 1 .. i - 1 :
                      run[a].findings[i].expert = run[a].findings[j].expert =>
                          run[a].findings[i].round = 2

\* "fallback_used=true" when the provider is unavailable (plan_v2/19:628): a
\* finding says "llm" exactly if this analysis was answered by the model and
\* found its sources, though the reason is a field all analyses share; and the
\* intent log never passes the fallback's answer off as the model's.  (The
\* converse does not hold of it: another's fallback may come in between.)
FallbackTold == \A a \in Analyses : run[a].honest

\* "hard_block_preserved" (langgraph_workflow.py:373): a block of credit or
\* insurance, found now or kept from an earlier analysis, reaches a human, and
\* one of credit is followed by a search for products without it even when the
\* experts' nodes were skipped.
BlockAnswered ==
    \A a \in Analyses : run[a].session # None =>
        LET session == run[a].session
            second == {i \in DOMAIN session.findings : session.findings[i].round = 2}
        IN  /\ session.status = "needs_human_review" <=> session.credit \/ session.insurance
            /\ session.credit <=> second # {}
            /\ session.round = 2 <=> second # {}

\* Every request is answered: no analysis waits forever for a model that does
\* not answer.
AnalysesEnd == \A a \in Analyses : run[a].pc # "idle" ~> run[a].pc \in Ended
=============================================================================
