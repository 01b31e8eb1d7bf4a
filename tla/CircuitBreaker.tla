---------------------------- MODULE CircuitBreaker ----------------------------
(***************************************************************************)
(* The two circuit breakers of the application and the calls they guard.   *)
(*                                                                         *)
(*   "rag"  RagProviderRouter in hybrid mode (app/knowledge/rag_provider): *)
(*          a bounded number of half-open probes, a hard timeout per call, *)
(*          a pool of worker threads that keeps running a call its caller  *)
(*          has given up on, and a local search to fall back to.           *)
(*   "crm"  ResilientCRMAdapter (app/integrations/resilient.py) over       *)
(*          reliability/patterns.CircuitBreaker: retries inside the call,  *)
(*          every exception counts, no bound on half-open calls.           *)
(*                                                                         *)
(* A behaviour guards one upstream, chosen initially.  Time advances in    *)
(* ticks; the monotonic clock is kept as the ticks waited since the        *)
(* circuit opened, no further than the cooldown.                           *)
(***************************************************************************)
EXTENDS Naturals, Sequences, FiniteSets

CONSTANTS
    Callers,        \* request threads that share one breaker
    Threshold,      \* failure_threshold
    Cooldown,       \* cooldown_seconds / recovery_seconds, in ticks
    Timeout,        \* RAG_MCP_REQUEST_TIMEOUT_SECONDS, in ticks
    HalfOpenMax,    \* half_open_max_calls
    Workers,        \* threads of the router's executor
    Attempts,       \* attempts of the CRM read
    MaxTasks        \* bound: tasks in the executor, running and queued

ASSUME BreakerAssumption ==
    /\ IsFiniteSet(Callers)
    /\ Threshold \in Nat \ {0} /\ HalfOpenMax \in Nat \ {0}
    /\ Workers \in Nat \ {0} /\ Attempts \in Nat \ {0} /\ MaxTasks \in Nat
    /\ Cooldown \in Nat /\ Timeout \in Nat
    \* The default timeout is 3 s, the default cooldown 30 s.
    /\ Timeout < Cooldown

VARIABLES
    guarded,    \* which breaker this behaviour is about
    upstream,   \* how the upstream answers now
    breaker,    \* the breaker's fields
    calls,      \* the call each thread has in progress
    tasks       \* the executor: its tasks in the order they were submitted

vars == <<guarded, upstream, breaker, calls, tasks>>

\* "denying": it answers, with an error that is no availability failure.
Upstream == {"up", "down", "denying"}

\* known is FALSE for the lookup of a customer the CRM does not have.
NoCall == [pc |-> "idle", age |-> 0, probe |-> FALSE, attempt |-> 1, known |-> TRUE]
Call == [pc : {"idle", "calling"}, age : 0..Timeout, probe : BOOLEAN,
         attempt : 1..Attempts, known : BOOLEAN]
\* A task whose caller has timed out: nobody waits for its answer.
Abandoned == "abandoned"

BreakerTypeOK ==
    /\ guarded \in {"rag", "crm"}
    /\ upstream \in Upstream
    /\ breaker \in [state : {"closed", "open", "half_open"},
                    failures : 0..Threshold, waited : 0..Cooldown,
                    probes : 0..HalfOpenMax]
    /\ calls \in [Callers -> Call]
    /\ tasks \in Seq(Callers \cup {Abandoned})

Closed == [state |-> "closed", failures |-> 0, waited |-> 0, probes |-> 0]

Init ==
    /\ guarded \in {"rag", "crm"}
    /\ upstream \in Upstream
    /\ breaker = Closed
    /\ calls = [c \in Callers |-> NoCall]
    /\ tasks = <<>>

Calling == {c \in Callers : calls[c].pc = "calling"}
Probing == {c \in Calling : calls[c].probe}

(***************************************************************************)
(* The breaker's own methods, each under its lock.                         *)
(***************************************************************************)
AtMost(n, limit) == IF n > limit THEN limit ELSE n

\* OPEN becomes HALF_OPEN lazily, when somebody looks after the cooldown.
Looked ==
    IF breaker.state = "open" /\ breaker.waited >= Cooldown
    THEN [breaker EXCEPT !.state = "half_open", !.probes = 0]
    ELSE breaker

\* Mutant of Admits: one probe too many.
AdmitsOneMore(b) ==
    \/ b.state = "closed"
    \/ /\ b.state = "half_open"
       /\ guarded = "rag" => b.probes <= HalfOpenMax

\* "crm" lets every caller through once half open; "rag" counts them.
Admits(b) ==
    \/ b.state = "closed"
    \/ /\ b.state = "half_open"
       /\ guarded = "rag" => b.probes < HalfOpenMax

Admitted(b) ==
    IF guarded = "rag" /\ b.state = "half_open"
    THEN [b EXCEPT !.probes = @ + 1] ELSE b

\* Mutant of Opened: the failures start again from zero.
OpenedReset(b) == [b EXCEPT !.state = "open", !.waited = 0, !.failures = 0]

Opened(b) == [b EXCEPT !.state = "open", !.waited = 0]

\* A half-open "rag" circuit reopens without counting the failure.
Failed(b) ==
    IF guarded = "rag" /\ b.state = "half_open"
    THEN [Opened(b) EXCEPT !.probes = 0]
    ELSE LET counted == [b EXCEPT !.failures = AtMost(@ + 1, Threshold)]
         IN IF counted.failures >= Threshold THEN Opened(counted) ELSE counted

(***************************************************************************)
(* A search, or a customer lookup.  A refused caller is answered at once:  *)
(* from the local index, or with UpstreamUnavailableError.                 *)
(***************************************************************************)
Start(c) ==
    /\ calls[c].pc = "idle"
    /\ Admits(Looked)
    /\ guarded = "rag" => Len(tasks) < MaxTasks
    /\ breaker' = Admitted(Looked)
    /\ \E known \in BOOLEAN :
        /\ guarded = "rag" => known
        /\ calls' = [calls EXCEPT ![c] =
                        [NoCall EXCEPT !.pc = "calling", !.known = known,
                                       !.probe = Looked.state = "half_open"]]
    /\ tasks' = IF guarded = "rag" THEN Append(tasks, c) ELSE tasks
    /\ UNCHANGED <<guarded, upstream>>

Refused(c) ==
    /\ calls[c].pc = "idle"
    /\ ~Admits(Looked)
    /\ breaker' = Looked
    /\ UNCHANGED <<guarded, upstream, calls, tasks>>

(***************************************************************************)
(* The upstream answers.  The router's pool runs the first Workers tasks.  *)
(***************************************************************************)
Running == 1..AtMost(Len(tasks), Workers)

TaskRemoved(i) == [j \in 1..(Len(tasks) - 1) |-> IF j < i THEN tasks[j] ELSE tasks[j + 1]]

\* Mutant of Recorded: a success in a half-open circuit only frees its probe.
RecordedHalfOpen(answer) ==
    CASE answer = "up" /\ breaker.state = "half_open" ->
            [breaker EXCEPT !.probes = IF @ = 0 THEN 0 ELSE @ - 1]
      [] answer = "up" /\ breaker.state # "half_open" -> Closed
      [] answer = "denying" /\ guarded = "rag" -> breaker
      [] OTHER -> Failed(breaker)

\* What the calling thread records.  A denial is raised to the router's
\* caller and never recorded; the adapter's breaker counts every exception.
Recorded(answer) ==
    CASE answer = "up" -> Closed
      [] answer = "denying" /\ guarded = "rag" -> breaker
      [] OTHER -> Failed(breaker)

RagAnswer(i) ==
    /\ guarded = "rag"
    /\ i \in Running
    /\ tasks' = TaskRemoved(i)
    /\ IF tasks[i] = Abandoned
       THEN UNCHANGED <<breaker, calls>>
       ELSE /\ breaker' = Recorded(upstream)
            /\ calls' = [calls EXCEPT ![tasks[i]] = NoCall]
    /\ UNCHANGED <<guarded, upstream>>

\* The CRM reports an unknown customer as an unavailable upstream.
CrmAnswerTo(c) == IF upstream = "up" /\ ~calls[c].known THEN "down" ELSE upstream

\* Mutant of CrmRetry: the attempts are not counted.
CrmRetryUncounted(c) ==
    /\ guarded = "crm" /\ c \in Calling
    /\ CrmAnswerTo(c) = "down" /\ calls[c].attempt < Attempts
    /\ UNCHANGED vars

\* retry_safe repeats an unavailable read; other errors end it at once.
CrmRetry(c) ==
    /\ guarded = "crm" /\ c \in Calling
    /\ CrmAnswerTo(c) = "down" /\ calls[c].attempt < Attempts
    /\ calls' = [calls EXCEPT ![c].attempt = @ + 1]
    /\ UNCHANGED <<guarded, upstream, breaker, tasks>>

CrmAnswer(c) ==
    /\ guarded = "crm" /\ c \in Calling
    /\ CrmAnswerTo(c) = "down" => calls[c].attempt = Attempts
    /\ breaker' = Recorded(CrmAnswerTo(c))
    /\ calls' = [calls EXCEPT ![c] = NoCall]
    /\ UNCHANGED <<guarded, upstream, tasks>>

\* future.result(timeout): the caller records a failure and falls back; the
\* task stays in the executor, running or queued.
TimedOut(c) ==
    /\ guarded = "rag" /\ c \in Calling
    /\ calls[c].age = Timeout
    /\ breaker' = Failed(breaker)
    /\ calls' = [calls EXCEPT ![c] = NoCall]
    /\ tasks' = [i \in 1..Len(tasks) |-> IF tasks[i] = c THEN Abandoned ELSE tasks[i]]
    /\ UNCHANGED <<guarded, upstream>>

(***************************************************************************)
(* The environment: an upstream that is up answers within the tick, and no *)
(* router call outlives its timeout.                                       *)
(***************************************************************************)
Tick ==
    /\ upstream = "up" => Calling = {} /\ tasks = <<>>
    /\ guarded = "rag" => \A c \in Calling : calls[c].age < Timeout
    /\ breaker' = IF breaker.state = "open"
                  THEN [breaker EXCEPT !.waited = AtMost(@ + 1, Cooldown)]
                  ELSE breaker
    /\ calls' = [c \in Callers |-> IF guarded = "rag" /\ c \in Calling
                                   THEN [calls[c] EXCEPT !.age = @ + 1] ELSE calls[c]]
    /\ UNCHANGED <<guarded, upstream, tasks>>

UpstreamChanges ==
    /\ upstream' \in Upstream \ {upstream}
    /\ UNCHANGED <<guarded, breaker, calls, tasks>>

AnswerTo(task) == \E i \in 1..MaxTasks : i <= Len(tasks) /\ tasks[i] = task /\ RagAnswer(i)

\* Some thread asks the upstream for something.
Ask == \E c \in Callers : Start(c) \/ Refused(c)

Next ==
    \/ Ask
    \/ \E task \in Callers \cup {Abandoned} : AnswerTo(task)
    \/ \E c \in Callers : CrmRetry(c) \/ CrmAnswer(c) \/ TimedOut(c)
    \/ Tick
    \/ UpstreamChanges

Spec == Init /\ [][Next]_vars

(***************************************************************************)
(* Fairness: the clock runs, a timeout fires, and every call ends, if only *)
(* with the HTTP client's own timeout of 15 s.  That threads keep asking   *)
(* is what a recovery needs: the breaker has no timer of its own.          *)
(***************************************************************************)
Fairness ==
    /\ WF_vars(Ask)
    /\ WF_vars(Tick)
    /\ \A task \in Callers \cup {Abandoned} : WF_vars(AnswerTo(task))
    /\ \A c \in Callers :
        WF_vars(CrmRetry(c) \/ CrmAnswer(c)) /\ WF_vars(TimedOut(c))

FairSpec == Spec /\ Fairness

-----------------------------------------------------------------------------
\* The circuit is closed exactly while fewer than Threshold failures were
\* recorded since the last success, whatever order late answers, timeouts
\* and probes of the other threads arrive in.
ClosedBelowThreshold == breaker.state = "closed" <=> breaker.failures < Threshold

\* An upstream that just failed is probed by at most half_open_max_calls
\* threads at a time, although a reopened circuit forgets the probes in
\* progress: they have all timed out before the next cooldown ends.
ProbesBounded == guarded = "rag" => Cardinality(Probing) <= HalfOpenMax

\* Every admitted call comes back to its caller, however long the upstream
\* hangs and however many abandoned tasks are queued before it.
CallsReturn == \A c \in Callers : calls[c].pc = "calling" ~> calls[c].pc = "idle"

\* A probe ended without the breaker being told.
ProbeForgotten ==
    /\ guarded = "rag" /\ breaker.state = "half_open"
    /\ breaker.probes > Cardinality(Probing)

KnownOnly == \A c \in Callers : calls[c].known

\* Once the upstream stays up and only customers it knows are looked up, the
\* circuit closes for good, unless a half-open probe was answered with an
\* error that is not recorded.
Recovers ==
    /\ <>[](upstream = "up" /\ KnownOnly)
    /\ [](~ProbeForgotten)
    => <>[](breaker.state = "closed")
=============================================================================
