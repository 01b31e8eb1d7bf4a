----------------------- MODULE EmployeeWorkspaceProofs -----------------------
(***************************************************************************)
(* The RM's workspace for any requests, specialists, habits and versions.  *)
(*                                                                         *)
(* What an item tells was true when its outcome was stored and stays so,   *)
(* because reviews are only added; so the invariant follows a review from  *)
(* its count of clearances to its item.  Every outcome that is stored has  *)
(* somebody who owes it to the RM: a request about to tell it, an item, or *)
(* a request that died.  A context in the making knows whether it still    *)
(* may say anything personal: it has read consent only while consent was   *)
(* given.                                                                  *)
(***************************************************************************)
EXTENDS EmployeeWorkspace, TLAPS

-----------------------------------------------------------------------------
(* Requests.                                                               *)

NewJob == [pc : {"new"}, traffic : Traffic]
OverJob == [pc : {"over"}]
ReviewJob ==
    [kind : {"review"}, seen : Cases, role : Specialists, decision : Decisions,
     pc : {"count", "review", "check", "update", "notify"}, new : Cases]
AnalysisJob == [kind : {"analysis"}, pc : {"check", "update"}, seen : Cases]
ReadinessJob ==
    [kind : {"readiness"}, pc : {"readiness", "notify"}, seen : Cases, ready : BOOLEAN]
ConsentJob == [kind : {"consent"}, pc : {"consent"}, new : Consents]
Reading == {"read_consent", "read_preferences", "read_habits"}
ContextJob ==
    [kind : {"context"}, pc : Reading \cup {"answered"}, prefs : {None, "own", "default"},
     habits : SUBSET Habits, degraded : BOOLEAN, off : BOOLEAN, confirmed : SUBSET Habits]
Job == NewJob \cup OverJob \cup ReviewJob \cup AnalysisJob \cup ReadinessJob
       \cup ConsentJob \cup ContextJob

\* A clearance that moves the case has counted all the roles but its own, and
\* once it is stored itself there is none left.
Counted(j) ==
    /\ j.pc = "review" /\ j.new # j.seen =>
        j.seen.roles \subseteq Cleared(j.seen.version) \cup {j.role}
    /\ j.pc \in {"check", "update", "notify"} =>
        j.seen.roles \subseteq Cleared(j.seen.version)

ReviewOK(j) ==
    /\ j.seen.version < MaxVersion
    /\ j.decision = "cleared" => Counted(j)

Consented(j) ==
    /\ j.off => j.prefs # "own" /\ j.habits = {}
    /\ j.habits \subseteq j.confirmed
    /\ j.degraded => j.prefs = "default" /\ j.habits = {}

\* Until it is answered a context has nothing but what it may have; past the
\* consent it was given, and any later change is seen by "off" and "confirmed".
ContextOK(j) ==
    /\ Consented(j)
    /\ j.pc \in Reading =>
        /\ j.off => ~Enabled
        /\ Confirmed \subseteq j.confirmed
        /\ j.habits = {} /\ ~j.degraded
    /\ j.pc = "read_consent" => j.prefs # "own"
    /\ j.pc \in {"read_preferences", "read_habits"} => ~j.off

JobOK(j) ==
    /\ j \in Job
    /\ j \in ReviewJob => ReviewOK(j)
    /\ j \in AnalysisJob => j.seen.version < MaxVersion
    /\ j \in ContextJob => ContextOK(j)
    /\ j.pc = "notify" => Outcome(j) \in history

JobsOK ==
    /\ job = [q \in Requests |-> job[q]]
    /\ \A q \in Requests : JobOK(job[q])

Told ==
    \A e \in history :
        \/ e \in lost
        \/ \E q \in Requests : At(q, "notify") /\ Outcome(job[q]) = e
        \/ e \in DOMAIN items

\* An item that no row was seeded for tells an outcome that was stored.
ItemsOK ==
    /\ DOMAIN Seeds \subseteq DOMAIN items
    /\ \A id \in DOMAIN Seeds : items[id] = Seeds[id]
    /\ \A id \in DOMAIN items \ DOMAIN Seeds :
        /\ id \in history /\ items[id] = Notification(id)
        /\ id.event = "cleared" => id.roles \subseteq Cleared(id.version)

RowsOK ==
    /\ case \in Cases
    /\ reviews \subseteq [version : 1 .. MaxVersion, role : Specialists, decision : Decisions]
    /\ readiness \in {None, "ready", "not_ready"}
    /\ consent \in Consents \cup {None}
    /\ prefs \in {None, "own"} /\ feedback \in Feedbacks \cup {None}
    /\ habits \in [Habits -> {None, "candidate", "confirmed", "rejected"}]
    /\ history \subseteq Events /\ lost \subseteq history

WInv == RowsOK /\ ItemsOK /\ JobsOK /\ Told

-----------------------------------------------------------------------------
(* What a request is, by where it stands.                                  *)

LEMMA Kinds ==
    ASSUME NEW j \in Job
    PROVE  /\ j.pc \in {"count", "review"} => j \in ReviewJob
           /\ j.pc \in {"check", "update"} => j \in ReviewJob \cup AnalysisJob
           /\ j.pc = "notify" => j \in ReviewJob \cup ReadinessJob
           /\ j.pc = "readiness" => j \in ReadinessJob
           /\ j.pc = "consent" => j \in ConsentJob
           /\ j.pc \in Reading \cup {"answered"} => j \in ContextJob
           /\ j.pc \in {"new", "count", "review", "check", "update", "notify", "readiness",
                        "consent", "read_consent", "read_preferences", "read_habits",
                        "answered", "over"}
BY DEF Job, NewJob, OverJob, ReviewJob, AnalysisJob, ReadinessJob, ConsentJob, ContextJob,
       Reading

\* Of what follows about a request only one part concerns it.
LEMMA Disjoint ==
    /\ \A j \in ReviewJob : /\ j \notin AnalysisJob /\ j \notin ContextJob
                            /\ j.kind = "review"
    /\ \A j \in AnalysisJob : /\ j \notin ReviewJob /\ j \notin ContextJob
                              /\ j.kind = "analysis" /\ j.pc # "notify"
    /\ \A j \in ReadinessJob : /\ j \notin ReviewJob /\ j \notin AnalysisJob
                               /\ j \notin ContextJob /\ j.kind = "readiness"
    /\ \A j \in ConsentJob : /\ j \notin ReviewJob /\ j \notin AnalysisJob
                             /\ j \notin ContextJob /\ j.pc # "notify"
    /\ \A j \in ContextJob : /\ j \notin ReviewJob /\ j \notin AnalysisJob
                             /\ j.pc # "notify"
    /\ \A j \in NewJob \cup OverJob : /\ j \notin ReviewJob /\ j \notin AnalysisJob
                                      /\ j \notin ContextJob /\ j.pc # "notify"
<1>1. \A j \in ReviewJob : /\ j.kind = "review" /\ j \notin AnalysisJob /\ j \notin ContextJob
  BY DEF ReviewJob, AnalysisJob, ContextJob
<1>2. \A j \in AnalysisJob : /\ j \notin ReviewJob /\ j \notin ContextJob
                             /\ j.kind = "analysis" /\ j.pc # "notify"
  BY DEF ReviewJob, AnalysisJob, ContextJob
<1>3. \A j \in ReadinessJob : /\ j \notin ReviewJob /\ j \notin AnalysisJob
                              /\ j \notin ContextJob /\ j.kind = "readiness"
  BY DEF ReviewJob, AnalysisJob, ContextJob, ReadinessJob
<1>4. \A j \in ConsentJob : /\ j \notin ReviewJob /\ j \notin AnalysisJob
                            /\ j \notin ContextJob /\ j.pc # "notify"
  BY DEF ReviewJob, AnalysisJob, ContextJob, ConsentJob
<1>5. \A j \in ContextJob : /\ j \notin ReviewJob /\ j \notin AnalysisJob
                            /\ j.pc # "notify"
  BY DEF ReviewJob, AnalysisJob, ContextJob, Reading
<1>6. \A j \in NewJob \cup OverJob : /\ j \notin ReviewJob /\ j \notin AnalysisJob
                                     /\ j \notin ContextJob /\ j.pc # "notify"
  BY DEF ReviewJob, AnalysisJob, ContextJob, Reading, NewJob, OverJob
<1> QED
  BY <1>1, <1>2, <1>3, <1>4, <1>5, <1>6

\* Only the request for a context has a note whether personalization was off.
LEMMA Watches == \A j \in Job : "off" \in DOMAIN j => j \in ContextJob
BY DEF Job, NewJob, OverJob, ReviewJob, AnalysisJob, ReadinessJob, ConsentJob

LEMMA ContextWatches == \A j \in ContextJob : "off" \in DOMAIN j
BY DEF ContextJob

\* No seeded row has the key of an outcome.
LEMMA SeedsApart == \A e \in Events : e \notin DOMAIN Seeds
<1>1. \A e \in Events : "version" \in DOMAIN e
  BY DEF Events
<1>2. \A id \in DOMAIN Seeds : "version" \notin DOMAIN id
  BY DEF Seeds, Task
<1> QED
  BY <1>1, <1>2

LEMMA OutcomeType ==
    /\ \A j \in ReviewJob : Outcome(j) \in Events
    /\ \A j \in ReadinessJob : Outcome(j) \in Events
BY DEF Outcome, ReviewJob, ReadinessJob, Events, Cases, RM

LEMMA OverOK == JobOK(Over) /\ Over.pc = "over"
<1>1. Over \in OverJob /\ Over.pc = "over"
  BY DEF Over, OverJob
<1> QED
  BY <1>1, Disjoint DEF JobOK, Job

-----------------------------------------------------------------------------
(* Steps of one request.                                                   *)

LEMMA InJob ==
    ASSUME WInv, NEW q \in Requests
    PROVE  JobOK(job[q]) /\ job[q] \in Job
BY DEF WInv, JobsOK, JobOK

\* Reviews and history are only added to, so a request stays what it is.
LEMMA JobKept ==
    ASSUME reviews \subseteq reviews', history \subseteq history',
           UNCHANGED <<consent, habits>>, NEW j, JobOK(j)
    PROVE  JobOK(j)'
<1>1. \A v : Cleared(v) \subseteq Cleared(v)'
  BY DEF Cleared
<1>2. ReviewOK(j) => ReviewOK(j)'
  BY <1>1 DEF ReviewOK, Counted
<1>3. ContextOK(j) => ContextOK(j)'
  BY DEF ContextOK, Enabled, Confirmed, Consented
<1> QED
  BY <1>2, <1>3 DEF JobOK

LEMMA JobMoves ==
    ASSUME WInv, NEW q \in Requests, NEW new, job' = [job EXCEPT ![q] = new],
           JobOK(new)', reviews \subseteq reviews', history \subseteq history',
           UNCHANGED <<consent, habits>>
    PROVE  JobsOK'
<1>1. /\ job' = [p \in Requests |-> job'[p]]
      /\ job'[q] = new /\ \A p \in Requests \ {q} : job'[p] = job[p]
  BY DEF WInv, JobsOK
<1>2. ASSUME NEW p \in Requests PROVE JobOK(job[p])'
  <2>1. CASE p = q
    BY <1>1, <2>1 DEF JobOK
  <2>2. CASE p # q
    <3>1. PICK j : j = job[p]
      OBVIOUS
    <3>2. JobOK(j)'
      BY <3>1, InJob, JobKept
    <3> QED
      BY <1>1, <2>2, <3>1, <3>2 DEF JobOK
  <2> QED
    BY <2>1, <2>2
<1> QED
  BY <1>1, <1>2 DEF JobsOK

\* Nothing is stored, no item is lost, and who owes an item goes on owing it.
LEMMA ToldKept ==
    ASSUME Told, history' = history, lost \subseteq lost', DOMAIN items \subseteq DOMAIN items',
           \A q \in Requests : At(q, "notify") => job'[q] = job[q]
    PROVE  Told'
BY DEF Told, At

\* The item of an outcome once told stays true.
LEMMA ItemsKept ==
    ASSUME ItemsOK, items' = items, reviews \subseteq reviews', history \subseteq history'
    PROVE  ItemsOK'
BY DEF ItemsOK, Cleared

\* A step that changes the request, and of the tables at most a row of its own.
LEMMA QuietMove ==
    ASSUME WInv, NEW q \in Requests, job[q].pc # "notify", NEW new,
           job' = [job EXCEPT ![q] = new], JobOK(new), RowsOK',
           reviews \subseteq reviews',
           UNCHANGED <<items, consent, habits, history, lost>>
    PROVE  WInv'
<1>1. JobsOK'
  BY JobKept, JobMoves
<1>2. \A p \in Requests : At(p, "notify") => job'[p] = job[p]
  BY DEF WInv, JobsOK, At
<1>3. Told' /\ ItemsOK'
  BY <1>2, ToldKept, ItemsKept DEF WInv
<1> QED
  BY <1>1, <1>3 DEF WInv

LEMMA FinishStep ==
    ASSUME WInv, NEW q \in Requests, job[q].pc # "notify", Finish(q), RowsOK',
           reviews \subseteq reviews',
           UNCHANGED <<items, consent, habits, history, lost>>
    PROVE  WInv'
BY OverOK, QuietMove DEF Finish

\* Nothing but the request changes.
LEMMA RowsKept ==
    ASSUME RowsOK, UNCHANGED <<case, reviews, readiness, personal, history, lost>>
    PROVE  RowsOK' /\ reviews \subseteq reviews' /\ UNCHANGED <<consent, habits>>
BY DEF RowsOK, personal

LEMMA FreshJob ==
    ASSUME NEW q, NEW traffic, Fresh(q, traffic)
    PROVE  job[q].pc = "new"
BY DEF Fresh, New

-----------------------------------------------------------------------------
(* Reviews, analyses and readiness.                                        *)

LEMMA BeginReviewStep ==
    ASSUME WInv, NEW q \in Requests, NEW role \in Specialists, NEW decision \in Decisions,
           BeginReview(q, role, decision)
    PROVE  WInv'
<1> DEFINE pc == IF decision = "cleared" THEN "count" ELSE "review"
           stored == [case EXCEPT !.status = StatusAfter(decision)]
           new == [kind |-> "review", seen |-> case, role |-> role, decision |-> decision,
                   pc |-> pc, new |-> stored]
<1>1. case \in Cases /\ case.version < MaxVersion
  BY DEF WInv, RowsOK, BeginReview
<1>2. stored \in Cases
  <2>1. StatusAfter(decision) \in {StatusAfter(d) : d \in Decisions}
    OBVIOUS
  <2> QED
    BY <1>1, <2>1 DEF Cases
<1> HIDE DEF stored
<1>3. new \in ReviewJob /\ new.seen = case /\ new.decision = decision /\ new.pc = pc
  BY <1>1, <1>2 DEF ReviewJob
<1> HIDE DEF new
<1>4. JobOK(new)
  <2>1. decision = "cleared" => Counted(new)
    BY <1>3 DEF Counted
  <2> QED
    BY <1>1, <1>3, <2>1, Disjoint DEF JobOK, Job, ReviewOK
<1>5. job' = [job EXCEPT ![q] = new]
  BY DEF BeginReview, new, stored
<1> QED
  BY <1>4, <1>5, FreshJob, RowsKept, QuietMove DEF BeginReview, WInv

LEMMA CountStep ==
    ASSUME WInv, NEW q \in Requests, Count(q)
    PROVE  WInv'
<1>1. PICK j \in ReviewJob : j = job[q] /\ j.pc = "count" /\ JobOK(j)
  BY InJob, Kinds DEF Count, At
<1> DEFINE waiting == (j.seen.roles \ Cleared(j.seen.version)) \ {j.role}
           stored == IF waiting = {} THEN j.new ELSE j.seen
           new == [j EXCEPT !.pc = "review", !.new = stored]
<1>2. job' = [job EXCEPT ![q] = new]
  BY <1>1 DEF Count
<1>3. stored \in Cases /\ (stored # j.seen => waiting = {})
  BY DEF ReviewJob
<1>4. waiting = {} => j.seen.roles \subseteq Cleared(j.seen.version) \cup {j.role}
  OBVIOUS
<1> HIDE DEF waiting, stored
<1>5. /\ new \in ReviewJob /\ new.pc = "review" /\ new.new = stored /\ new.seen = j.seen
      /\ new.role = j.role /\ new.decision = j.decision
  BY <1>3 DEF ReviewJob
<1> HIDE DEF new
<1>6. Counted(new)
  BY <1>3, <1>4, <1>5 DEF Counted
<1>7. JobOK(new)
  BY <1>1, <1>5, <1>6, Disjoint DEF JobOK, Job, ReviewOK
<1> QED
  BY <1>1, <1>2, <1>7, RowsKept, QuietMove DEF Count, WInv

LEMMA StoreReviewStep ==
    ASSUME WInv, NEW q \in Requests, StoreReview(q)
    PROVE  WInv'
<1>1. PICK j \in ReviewJob : j = job[q] /\ j.pc = "review" /\ JobOK(j)
  BY InJob, Kinds DEF StoreReview, At
<1> DEFINE review == [version |-> j.seen.version, role |-> j.role, decision |-> j.decision]
<1>2. reviews' = reviews \cup {review}
  BY <1>1 DEF StoreReview
<1>3. /\ review \in [version : 1 .. MaxVersion, role : Specialists, decision : Decisions]
      /\ review.version = j.seen.version /\ review.role = j.role
      /\ review.decision = j.decision
  BY DEF ReviewJob, Cases
<1> HIDE DEF review
<1>4. /\ reviews \subseteq reviews'
      /\ UNCHANGED <<case, items, readiness, consent, prefs, habits, feedback, history, lost>>
  BY <1>2 DEF StoreReview, personal
<1>5. RowsOK'
  BY <1>2, <1>3, <1>4 DEF WInv, RowsOK
<1>6. CASE Finish(q)
  BY <1>1, <1>4, <1>5, <1>6, FinishStep
<1>7. CASE j.new # j.seen /\ Advance(q, "check")
  <2> DEFINE new == [j EXCEPT !.pc = "check"]
  <2>1. job' = [job EXCEPT ![q] = new]
    BY <1>1, <1>7 DEF Advance
  <2>2. /\ new \in ReviewJob /\ new.pc = "check" /\ new.seen = j.seen
        /\ new.decision = j.decision
    BY DEF ReviewJob
  <2> HIDE DEF new
  <2>3. j.decision = "cleared" => (Counted(new))'
    <3>1. ASSUME j.decision = "cleared"
          PROVE  j.seen.roles \subseteq Cleared(j.seen.version)'
      <4>1. j.seen.roles \subseteq Cleared(j.seen.version) \cup {j.role}
        BY <1>1, <1>7, <3>1 DEF JobOK, ReviewOK, Counted
      <4>2. j.role \in Cleared(j.seen.version)'
        BY <1>2, <1>3, <3>1 DEF Cleared
      <4>3. Cleared(j.seen.version) \subseteq Cleared(j.seen.version)'
        BY <1>4 DEF Cleared
      <4> QED
        BY <4>1, <4>2, <4>3
    <3> QED
      BY <2>2, <3>1 DEF Counted
  <2>4. JobOK(new)'
    BY <1>1, <2>2, <2>3, Disjoint DEF JobOK, Job, ReviewOK
  <2>5. JobsOK'
    BY <1>4, <2>1, <2>4, JobMoves
  <2>6. \A p \in Requests : At(p, "notify") => job'[p] = job[p]
    BY <1>1, <2>1 DEF WInv, JobsOK, At
  <2>7. Told' /\ ItemsOK'
    BY <1>4, <2>6, ToldKept, ItemsKept DEF WInv
  <2> QED
    BY <1>5, <2>5, <2>7 DEF WInv
<1> QED
  BY <1>1, <1>6, <1>7 DEF StoreReview, AfterReview

LEMMA BeginAnalysisStep ==
    ASSUME WInv, NEW q \in Requests, BeginAnalysis(q)
    PROVE  WInv'
<1> DEFINE new == [kind |-> "analysis", pc |-> "check", seen |-> case]
<1>1. case \in Cases /\ case.version < MaxVersion
  BY DEF WInv, RowsOK, BeginAnalysis
<1>2. new \in AnalysisJob /\ new.seen = case
  BY <1>1 DEF AnalysisJob
<1> HIDE DEF new
<1>3. JobOK(new)
  BY <1>1, <1>2, Disjoint DEF JobOK, Job
<1>4. job' = [job EXCEPT ![q] = new]
  BY DEF BeginAnalysis, new
<1> QED
  BY <1>3, <1>4, FreshJob, RowsKept, QuietMove DEF BeginAnalysis, WInv

LEMMA CheckVersionStep ==
    ASSUME WInv, NEW q \in Requests, CheckVersion(q)
    PROVE  WInv'
<1>1. PICK j \in Job : j = job[q] /\ j.pc = "check" /\ JobOK(j)
  BY InJob DEF CheckVersion, At
<1>2. CASE Finish(q)
  BY <1>1, <1>2, RowsKept, FinishStep DEF CheckVersion, WInv
<1>3. CASE Advance(q, "update")
  <2> DEFINE new == [j EXCEPT !.pc = "update"]
  <2>1. job' = [job EXCEPT ![q] = new]
    BY <1>1, <1>3 DEF Advance
  <2>2. JobOK(new)
    <3>1. CASE j \in ReviewJob
      <4>1. /\ new \in ReviewJob /\ new.pc = "update" /\ new.seen = j.seen
            /\ new.decision = j.decision
        BY <3>1 DEF ReviewJob
      <4> HIDE DEF new
      <4>2. Counted(j) => Counted(new)
        BY <1>1, <4>1 DEF Counted
      <4> QED
        BY <1>1, <3>1, <4>1, <4>2, Disjoint DEF JobOK, Job, ReviewOK
    <3>2. CASE j \in AnalysisJob
      <4>1. new \in AnalysisJob /\ new.seen = j.seen
        BY <3>2 DEF AnalysisJob
      <4> HIDE DEF new
      <4> QED
        BY <1>1, <3>2, <4>1, Disjoint DEF JobOK, Job
    <3> QED
      BY <1>1, <3>1, <3>2, Kinds
  <2> HIDE DEF new
  <2> QED
    BY <1>1, <2>1, <2>2, RowsKept, QuietMove DEF CheckVersion, WInv
<1> QED
  BY <1>2, <1>3 DEF CheckVersion

\* An outcome is stored, and the request that stored it owes the item.
LEMMA OwedStep ==
    ASSUME WInv, NEW q \in Requests, job[q].pc # "notify", NEW new,
           job' = [job EXCEPT ![q] = new], new.pc = "notify", NEW e \in Events,
           e = Outcome(new), JobOK(new)', history' = history \cup {e}, RowsOK',
           UNCHANGED <<items, reviews, consent, habits, lost>>
    PROVE  WInv'
<1>1. JobsOK'
  BY JobMoves
<1>2. ItemsOK'
  BY ItemsKept DEF WInv
<1>3. job'[q] = new /\ \A p \in Requests \ {q} : job'[p] = job[p]
  BY DEF WInv, JobsOK
<1>4. ASSUME NEW d \in history'
      PROVE  \/ d \in lost'
             \/ \E p \in Requests : At(p, "notify")' /\ Outcome(job'[p]) = d
             \/ d \in DOMAIN items'
  <2>1. CASE d = e
    BY <1>3, <2>1 DEF At
  <2>2. CASE d \in history
    <3>1. ASSUME NEW p \in Requests, At(p, "notify")
          PROVE  At(p, "notify")' /\ job'[p] = job[p]
      BY <1>3, <3>1 DEF At
    <3> QED
      BY <2>2, <3>1 DEF WInv, Told
  <2> QED
    BY <2>1, <2>2
<1>5. Told'
  BY <1>4 DEF Told
<1> QED
  BY <1>1, <1>2, <1>5 DEF WInv

LEMMA UpdateStep ==
    ASSUME WInv, NEW q \in Requests, Update(q)
    PROVE  WInv'
<1>1. PICK j \in Job : /\ j = job[q] /\ j.pc = "update" /\ JobOK(j)
                       /\ j \in ReviewJob \cup AnalysisJob
  BY InJob, Kinds DEF Update, At
<1>2. UNCHANGED <<items, reviews, readiness, consent, prefs, habits, feedback, lost>>
  BY DEF Update, personal
<1>3. CASE /\ j.kind = "review"
           /\ case' = [j.new EXCEPT !.version = j.seen.version + 1]
           /\ history' = history \cup {Outcome(j)}
           /\ Advance(q, "notify")
  <2>1. j \in ReviewJob /\ j.seen.version < MaxVersion
    BY <1>1, <1>3, Disjoint DEF JobOK, ReviewOK
  <2>2. j.seen.version + 1 \in 1 .. MaxVersion
    BY <2>1, WorkspaceAssumption DEF ReviewJob, Cases
  <2>3. case' \in Cases
    BY <1>3, <2>1, <2>2 DEF ReviewJob, Cases
  <2> DEFINE new == [j EXCEPT !.pc = "notify"]
  <2>4. job' = [job EXCEPT ![q] = new]
    BY <1>1, <1>3 DEF Advance
  <2>5. /\ new \in ReviewJob /\ new.pc = "notify" /\ new.seen = j.seen
        /\ new.decision = j.decision /\ new.kind = j.kind
    BY <2>1 DEF ReviewJob
  <2> HIDE DEF new
  <2>6. Outcome(new) = Outcome(j) /\ Outcome(j) \in Events
    BY <2>1, <2>5, OutcomeType DEF Outcome
  <2>7. (Counted(j) => Counted(new)) /\ (Counted(new) => Counted(new)')
    BY <1>1, <1>2, <2>5 DEF Counted, Cleared
  <2>8. JobOK(new)'
    BY <1>1, <1>3, <2>1, <2>5, <2>6, <2>7, Disjoint DEF JobOK, Job, ReviewOK
  <2>9. RowsOK'
    BY <1>2, <1>3, <2>3, <2>6 DEF WInv, RowsOK
  <2> QED
    BY <1>1, <1>2, <1>3, <2>4, <2>5, <2>6, <2>8, <2>9, OwedStep
<1>4. CASE /\ case' \in {c \in Cases : c.version = j.seen.version + 1
                                       /\ c.status = "pending_review"}
           /\ Finish(q) /\ UNCHANGED history
  <2>1. RowsOK'
    BY <1>2, <1>4 DEF WInv, RowsOK
  <2> QED
    BY <1>1, <1>2, <1>4, <2>1, FinishStep
<1> QED
  BY <1>1, <1>3, <1>4 DEF Update

\* The item tells the outcome that was stored, with the clearances there were.
LEMMA NotifyStep ==
    ASSUME WInv, NEW q \in Requests, Notify(q)
    PROVE  WInv'
<1>1. PICK j \in Job : /\ j = job[q] /\ j.pc = "notify" /\ JobOK(j)
                       /\ j \in ReviewJob \cup ReadinessJob
  BY InJob, Kinds DEF Notify, At
<1>2. PICK e \in Events : e = Outcome(j)
  BY <1>1, OutcomeType
<1>3. items' = Put(e, Notification(e))
  BY <1>1, <1>2 DEF Notify, ItemId
<1>4. UNCHANGED <<case, reviews, readiness, consent, prefs, habits, feedback, history, lost>>
  BY DEF Notify, personal
<1>5. e \in history /\ e \notin DOMAIN Seeds
  BY <1>1, <1>2, SeedsApart DEF JobOK
<1>6. e.event = "cleared" => e.roles \subseteq Cleared(e.version)
  <2>1. CASE j \in ReviewJob
    <3>1. /\ e.event = j.decision /\ e.roles = j.seen.roles
          /\ e.version = j.seen.version
      BY <1>2, <2>1, Disjoint DEF Outcome
    <3> QED
      BY <1>1, <2>1, <3>1 DEF JobOK, ReviewOK, Counted
  <2>2. CASE j \in ReadinessJob
    BY <1>2, <2>2, Disjoint DEF Outcome
  <2> QED
    BY <1>1, <2>1, <2>2
<1>7. /\ DOMAIN items' = DOMAIN items \cup {e} /\ items'[e] = Notification(e)
      /\ \A id \in DOMAIN items \ {e} : items'[id] = items[id]
  BY <1>3 DEF Put
<1>8. ItemsOK'
  <2>1. \A v : Cleared(v)' = Cleared(v)
    BY <1>4 DEF Cleared
  <2>2. ASSUME NEW id \in DOMAIN items' \ DOMAIN Seeds
        PROVE  /\ id \in history' /\ items'[id] = Notification(id)
               /\ id.event = "cleared" => id.roles \subseteq Cleared(id.version)'
    <3>1. CASE id = e
      BY <1>4, <1>5, <1>6, <1>7, <2>1, <3>1
    <3>2. CASE id # e
      BY <1>4, <1>7, <2>1, <2>2, <3>2 DEF WInv, ItemsOK
    <3> QED
      BY <3>1, <3>2
  <2>3. DOMAIN Seeds \subseteq DOMAIN items' /\ \A id \in DOMAIN Seeds : items'[id] = Seeds[id]
    BY <1>5, <1>7 DEF WInv, ItemsOK
  <2> QED
    BY <2>2, <2>3 DEF ItemsOK
<1>9. JobsOK'
  <2>1. JobOK(Over)'
    BY <1>4, OverOK, JobKept
  <2> QED
    BY <1>4, <2>1, JobMoves DEF Notify, Finish
<1>10. Told'
  <2>1. ASSUME NEW p \in Requests, At(p, "notify"), Outcome(job[p]) # e
        PROVE  At(p, "notify")' /\ job'[p] = job[p]
    BY <1>1, <1>2, <2>1 DEF Notify, Finish, At, WInv, JobsOK
  <2> QED
    BY <1>4, <1>7, <2>1 DEF WInv, Told
<1>11. RowsOK'
  BY <1>4 DEF WInv, RowsOK
<1> QED
  BY <1>8, <1>9, <1>10, <1>11 DEF WInv

LEMMA BeginReadinessStep ==
    ASSUME WInv, NEW q \in Requests, NEW ready \in BOOLEAN, BeginReadiness(q, ready)
    PROVE  WInv'
<1> DEFINE new == [kind |-> "readiness", pc |-> "readiness", seen |-> case, ready |-> ready]
<1>1. new \in ReadinessJob /\ new.pc = "readiness"
  BY DEF WInv, RowsOK, ReadinessJob
<1> HIDE DEF new
<1>2. JobOK(new)
  BY <1>1, Disjoint DEF JobOK, Job
<1>3. job' = [job EXCEPT ![q] = new]
  BY DEF BeginReadiness, new
<1> QED
  BY <1>2, <1>3, FreshJob, RowsKept, QuietMove DEF BeginReadiness, WInv

LEMMA StoreReadinessStep ==
    ASSUME WInv, NEW q \in Requests, StoreReadiness(q)
    PROVE  WInv'
<1>1. PICK j \in ReadinessJob : j = job[q] /\ j.pc = "readiness" /\ JobOK(j)
  BY InJob, Kinds DEF StoreReadiness, At
<1>2. /\ readiness' \in {"ready", "not_ready"}
      /\ UNCHANGED <<case, reviews, items, consent, prefs, habits, feedback, lost>>
  BY DEF StoreReadiness, SaveReadiness, personal
<1>3. CASE Finish(q) /\ UNCHANGED history
  <2>1. RowsOK'
    BY <1>2, <1>3 DEF WInv, RowsOK
  <2> QED
    BY <1>1, <1>2, <1>3, <2>1, FinishStep
<1>4. CASE Advance(q, "notify") /\ history' = history \cup {Outcome(j)}
  <2> DEFINE new == [j EXCEPT !.pc = "notify"]
  <2>1. job' = [job EXCEPT ![q] = new]
    BY <1>1, <1>4 DEF Advance
  <2>2. new \in ReadinessJob /\ new.pc = "notify" /\ new.seen = j.seen /\ new.kind = j.kind
    BY DEF ReadinessJob
  <2> HIDE DEF new
  <2>3. Outcome(new) = Outcome(j) /\ Outcome(j) \in Events
    BY <2>2, OutcomeType, Disjoint DEF Outcome
  <2>4. JobOK(new)'
    BY <1>4, <2>2, <2>3, Disjoint DEF JobOK, Job
  <2>5. RowsOK'
    BY <1>2, <1>4, <2>3 DEF WInv, RowsOK
  <2> QED
    BY <1>1, <1>2, <1>4, <2>1, <2>2, <2>3, <2>4, <2>5, OwedStep
<1> QED
  BY <1>1, <1>3, <1>4 DEF StoreReadiness

\* A request that dies before its item leaves the outcome lost.
LEMMA DieStep ==
    ASSUME WInv, NEW q \in Requests, Die(q)
    PROVE  WInv'
<1>1. UNCHANGED <<case, reviews, readiness, items, consent, prefs, habits, feedback, history>>
  BY DEF Die, personal
<1>2. CASE At(q, "notify")
  <2>1. PICK e : e = Outcome(job[q])
    OBVIOUS
  <2>2. lost' = lost \cup {e} /\ e \in history
    BY <1>2, <2>1, InJob DEF Die, At, JobOK
  <2>3. JobsOK'
    <3>1. JobOK(Over)'
      BY <1>1, OverOK, JobKept
    <3> QED
      BY <1>1, <3>1, JobMoves DEF Die, Finish
  <2>4. Told'
    <3>1. ASSUME NEW p \in Requests, At(p, "notify"), Outcome(job[p]) # e
          PROVE  At(p, "notify")' /\ job'[p] = job[p]
      BY <2>1, <3>1 DEF Die, Finish, At, WInv, JobsOK
    <3> QED
      BY <1>1, <2>2, <3>1 DEF WInv, Told
  <2>5. RowsOK'
    BY <1>1, <2>2 DEF WInv, RowsOK
  <2> QED
    BY <1>1, <2>3, <2>4, <2>5, ItemsKept DEF WInv
<1>3. CASE ~At(q, "notify")
  <2>1. lost' = lost
    BY <1>3 DEF Die
  <2>2. RowsOK'
    BY <1>1, <2>1 DEF WInv, RowsOK
  <2> QED
    BY <1>1, <1>3, <2>1, <2>2, FinishStep DEF Die, At
<1> QED
  BY <1>2, <1>3

-----------------------------------------------------------------------------
(* Personalization.                                                        *)

LEMMA BeginConsentStep ==
    ASSUME WInv, NEW q \in Requests, NEW enabled \in BOOLEAN, BeginConsent(q, enabled)
    PROVE  WInv'
<1> DEFINE learning == Learning(enabled)
           row == [enabled |-> enabled, learning |-> learning]
           new == [kind |-> "consent", pc |-> "consent", new |-> row]
<1>1. learning \in BOOLEAN
  BY DEF WInv, RowsOK, Learning, Consents
<1> HIDE DEF learning
<1>2. row \in Consents
  BY <1>1 DEF Consents
<1> HIDE DEF row
<1>3. new \in ConsentJob /\ new.pc = "consent"
  BY <1>2 DEF ConsentJob
<1> HIDE DEF new
<1>4. JobOK(new)
  BY <1>3, Disjoint DEF JobOK, Job
<1>5. job' = [job EXCEPT ![q] = new]
  BY DEF BeginConsent, new, row, learning
<1> QED
  BY <1>4, <1>5, FreshJob, RowsKept, QuietMove DEF BeginConsent, WInv

\* What every context in the making has seen of the change keeps it sound.
LEMMA WitnessStep ==
    ASSUME WInv, NEW q \in Requests, job[q].pc # "notify", RowsOK',
           job' = [p \in Requests |-> job'[p]], JobOK(job[q])',
           \A p \in Requests \ {q} :
                IF job[p] \in ContextJob /\ job[p].pc # "answered"
                THEN job'[p] \in ContextJob /\ ContextOK(job[p])'
                ELSE job'[p] = job[p],
           UNCHANGED <<items, reviews, history, lost>>
    PROVE  WInv'
<1>1. ASSUME NEW p \in Requests \ {q} PROVE JobOK(job[p])'
  <2>1. JobOK(job[p]) /\ job[p] \in Job
    BY InJob
  <2>2. CASE job[p] \in ContextJob /\ job[p].pc # "answered"
    BY <2>2, Disjoint DEF JobOK, Job
  <2>3. CASE job[p] \in ContextJob /\ job[p].pc = "answered"
    BY <2>1, <2>3, Disjoint DEF JobOK, Job, ContextOK, Reading, Consented
  <2>4. CASE job[p] \notin ContextJob
    BY <2>1, <2>4 DEF JobOK, ReviewOK, Counted, Cleared
  <2> QED
    BY <2>2, <2>3, <2>4
<1>2. JobsOK'
  BY <1>1 DEF JobsOK
<1>3. \A p \in Requests : At(p, "notify") => job'[p] = job[p]
  BY Disjoint DEF At
<1>4. Told' /\ ItemsOK'
  BY <1>3, ToldKept, ItemsKept DEF WInv
<1> QED
  BY <1>2, <1>4 DEF WInv

LEMMA SaveConsentStep ==
    ASSUME WInv, NEW q \in Requests, SaveConsent(q)
    PROVE  WInv'
<1>1. PICK j \in ConsentJob : j = job[q] /\ j.pc = "consent"
  BY InJob, Kinds DEF SaveConsent, At
<1>2. PICK row \in Consents : row = j.new
  BY DEF ConsentJob
<1>3. /\ consent' = row
      /\ UNCHANGED <<case, reviews, items, readiness, prefs, habits, feedback, history, lost>>
  BY <1>1, <1>2 DEF SaveConsent
<1>4. RowsOK'
  BY <1>3 DEF WInv, RowsOK
<1>5. Enabled' = row.enabled /\ Confirmed' = Confirmed
  <2>1. row # None
    BY <1>2, WorkspaceAssumption DEF Consents
  <2> QED
    BY <1>3, <2>1 DEF Enabled, Confirmed
<1>6. job' = [p \in Requests |->
                IF p = q THEN Over
                ELSE IF "off" \in DOMAIN job[p] /\ job[p].pc # "answered"
                     THEN [job[p] EXCEPT !.off = @ /\ ~row.enabled] ELSE job[p]]
  BY <1>1, <1>2 DEF SaveConsent, Witness
<1>7. JobOK(job[q])'
  <2>1. JobOK(Over)'
    BY OverOK, Disjoint DEF JobOK, Over, OverJob
  <2> QED
    BY <1>6, <2>1
<1>8. ASSUME NEW p \in Requests \ {q}, job[p] \in ContextJob, job[p].pc # "answered"
      PROVE  job'[p] \in ContextJob /\ ContextOK(job[p])'
  <2>1. PICK i \in ContextJob : i = job[p] /\ i.pc \in Reading
    BY <1>8 DEF ContextJob
  <2> DEFINE off == i.off /\ ~row.enabled
             new == [i EXCEPT !.off = off]
  <2>2. job'[p] = new
    <3>1. "off" \in DOMAIN i /\ i.pc # "answered" /\ p \in Requests /\ p # q
      BY <1>8, <2>1, ContextWatches
    <3>2. job'[p] = [job[p] EXCEPT !.off = @ /\ ~row.enabled]
      BY <1>6, <2>1, <3>1
    <3>3. [job[p] EXCEPT !.off = @ /\ ~row.enabled] = [i EXCEPT !.off = i.off /\ ~row.enabled]
      BY <2>1, Zenon
    <3> QED
      BY <3>2, <3>3
  <2>3. off \in BOOLEAN
    BY DEF ContextJob
  <2>4. off => i.off /\ ~row.enabled
    OBVIOUS
  <2> HIDE DEF off
  <2>5. /\ new \in ContextJob /\ new.pc = i.pc /\ new.prefs = i.prefs /\ new.off = off
        /\ new.habits = i.habits /\ new.degraded = i.degraded /\ new.confirmed = i.confirmed
    BY <2>3 DEF ContextJob
  <2> HIDE DEF new
  <2>6. ContextOK(i)
    BY <2>1, InJob DEF JobOK
  <2>7. ContextOK(new)'
    BY <1>5, <2>1, <2>4, <2>5, <2>6 DEF ContextOK, Consented
  <2> QED
    BY <2>2, <2>5, <2>7 DEF ContextOK, Consented
<1>9. ASSUME NEW p \in Requests \ {q}, ~(job[p] \in ContextJob /\ job[p].pc # "answered")
      PROVE  job'[p] = job[p]
  BY <1>6, <1>9, InJob, Watches
<1> QED
  BY <1>1, <1>3, <1>4, <1>6, <1>7, <1>8, <1>9, WitnessStep

LEMMA SetHabitStep ==
    ASSUME WInv, NEW q \in Requests, NEW h \in Habits,
           NEW status \in {"confirmed", "rejected", None}, SetHabit(q, h, status)
    PROVE  WInv'
<1>1. /\ habits' = [habits EXCEPT ![h] = status] /\ job[q].pc = "new"
      /\ UNCHANGED <<case, reviews, items, readiness, consent, prefs, feedback, history, lost>>
  BY FreshJob DEF SetHabit
<1>2. RowsOK'
  BY <1>1 DEF WInv, RowsOK
<1> DEFINE seen == IF status = "confirmed" THEN {h} ELSE {}
<1>3. Enabled' = Enabled /\ Confirmed' \subseteq Confirmed \cup seen
  BY <1>1 DEF Enabled, Confirmed, WInv, RowsOK
<1>4. seen \subseteq Habits
  OBVIOUS
<1>5. job' = [p \in Requests |->
                IF p = q THEN Over
                ELSE IF "off" \in DOMAIN job[p] /\ job[p].pc # "answered"
                     THEN [job[p] EXCEPT !.confirmed =
                            IF status = "confirmed" THEN @ \cup {h} ELSE @]
                     ELSE job[p]]
  BY DEF SetHabit, Witness
<1>6. JobOK(job[q])'
  <2>1. JobOK(Over)'
    BY OverOK, Disjoint DEF JobOK, Over, OverJob
  <2> QED
    BY <1>5, <2>1
<1>7. ASSUME NEW p \in Requests \ {q}, job[p] \in ContextJob, job[p].pc # "answered"
      PROVE  job'[p] \in ContextJob /\ ContextOK(job[p])'
  <2>1. PICK i \in ContextJob : i = job[p] /\ i.pc \in Reading
    BY <1>7 DEF ContextJob
  <2> DEFINE confirmed == i.confirmed \cup seen
             new == [i EXCEPT !.confirmed = confirmed]
  <2>2. confirmed = IF status = "confirmed" THEN i.confirmed \cup {h} ELSE i.confirmed
    OBVIOUS
  <2>3. job'[p] = new
    <3>1. "off" \in DOMAIN i /\ i.pc # "answered" /\ p \in Requests /\ p # q
      BY <1>7, <2>1, ContextWatches
    <3>2. job'[p] = [job[p] EXCEPT !.confirmed =
                       IF status = "confirmed" THEN @ \cup {h} ELSE @]
      BY <1>5, <2>1, <3>1
    <3>3. [job[p] EXCEPT !.confirmed = IF status = "confirmed" THEN @ \cup {h} ELSE @]
            = [i EXCEPT !.confirmed =
                 IF status = "confirmed" THEN i.confirmed \cup {h} ELSE i.confirmed]
      BY <2>1, Zenon
    <3> QED
      BY <2>2, <3>2, <3>3
  <2>4. confirmed \subseteq Habits /\ i.confirmed \subseteq confirmed /\ seen \subseteq confirmed
    BY <1>4 DEF ContextJob
  <2> HIDE DEF confirmed, seen
  <2>5. /\ new \in ContextJob /\ new.pc = i.pc /\ new.prefs = i.prefs /\ new.off = i.off
        /\ new.habits = i.habits /\ new.degraded = i.degraded /\ new.confirmed = confirmed
    BY <2>4 DEF ContextJob
  <2> HIDE DEF new
  <2>6. ContextOK(i)
    BY <2>1, InJob DEF JobOK
  <2>7. ContextOK(new)'
    BY <1>3, <2>1, <2>4, <2>5, <2>6 DEF ContextOK, Consented
  <2> QED
    BY <2>3, <2>5, <2>7 DEF ContextOK, Consented
<1>8. ASSUME NEW p \in Requests \ {q}, ~(job[p] \in ContextJob /\ job[p].pc # "answered")
      PROVE  job'[p] = job[p]
  BY <1>5, <1>8, InJob, Watches
<1> QED
  BY <1>1, <1>2, <1>5, <1>6, <1>7, <1>8, WitnessStep

LEMMA PreferencesStep ==
    ASSUME WInv, NEW q \in Requests,
           PatchPreferences(q) \/ \E word \in Feedbacks : SubmitFeedback(q, word)
    PROVE  WInv'
<1>1. /\ job[q].pc = "new" /\ Finish(q)
      /\ UNCHANGED <<case, reviews, items, readiness, consent, habits, history, lost>>
  BY FreshJob DEF PatchPreferences, SubmitFeedback
<1>2. prefs' \in {None, "own"} /\ feedback' \in Feedbacks \cup {None}
  BY DEF PatchPreferences, SubmitFeedback, SaveFeedback, WInv, RowsOK
<1>3. RowsOK'
  BY <1>1, <1>2 DEF WInv, RowsOK
<1> QED
  BY <1>1, <1>3, FinishStep

LEMMA BeginContextStep ==
    ASSUME WInv, NEW q \in Requests, BeginContext(q)
    PROVE  WInv'
<1> DEFINE off == ~Enabled
           none == {}
           new == [kind |-> "context", pc |-> "read_consent", prefs |-> None, habits |-> none,
                   degraded |-> FALSE, off |-> off, confirmed |-> Confirmed]
<1>1. off \in BOOLEAN /\ Confirmed \subseteq Habits /\ none \subseteq Habits
  BY DEF WInv, RowsOK, Enabled, Confirmed, Consents
<1>2. (off => ~Enabled) /\ none = {}
  OBVIOUS
<1> HIDE DEF off, none
<1>3. /\ new \in ContextJob /\ new.pc = "read_consent" /\ new.prefs = None /\ new.off = off
      /\ new.habits = none /\ new.degraded = FALSE /\ new.confirmed = Confirmed
  BY <1>1 DEF ContextJob, Reading
<1> HIDE DEF new
<1>4. ContextOK(new)
  BY <1>2, <1>3, WorkspaceAssumption DEF ContextOK, Consented
<1>5. JobOK(new)
  BY <1>3, <1>4, Disjoint DEF JobOK, Job
<1>6. job' = [job EXCEPT ![q] = new]
  BY DEF BeginContext, new, off, none
<1> QED
  BY <1>5, <1>6, FreshJob, RowsKept, QuietMove DEF BeginContext, WInv

\* The reads of one context.
LEMMA ReadStep ==
    ASSUME WInv, NEW q \in Requests,
           ReadConsent(q) \/ (ReadPreferences(q) \/ (ReadHabits(q) \/ Degrade(q)))
    PROVE  WInv'
<1>1. PICK j \in ContextJob : j = job[q] /\ j.pc \in Reading /\ JobOK(j)
  BY InJob, Kinds DEF ReadConsent, ReadPreferences, ReadHabits, Degrade, At, Reading
<1>2. ContextOK(j)
  BY <1>1 DEF JobOK
<1>3. \E new \in ContextJob : job' = [job EXCEPT ![q] = new] /\ ContextOK(new)
  <2>1. CASE ReadConsent(q)
    <3> DEFINE pc == AfterConsent
               new == [j EXCEPT !.pc = pc]
    <3>1. /\ pc \in {"read_preferences", "answered"}
          /\ pc = "read_preferences" => Enabled
      BY DEF AfterConsent
    <3>2. job' = [job EXCEPT ![q] = new] /\ j.pc = "read_consent"
      BY <1>1, <2>1 DEF ReadConsent, Advance, At
    <3> HIDE DEF pc
    <3>3. /\ new \in ContextJob /\ new.pc = pc /\ new.prefs = j.prefs /\ new.off = j.off
          /\ new.habits = j.habits /\ new.degraded = j.degraded
          /\ new.confirmed = j.confirmed
      BY <3>1 DEF ContextJob, Reading
    <3> HIDE DEF new
    <3>4. ContextOK(new)
      BY <1>1, <1>2, <3>1, <3>2, <3>3 DEF ContextOK, Consented, Reading
    <3> QED
      BY <3>2, <3>3, <3>4
  <2>2. CASE ReadPreferences(q)
    <3> DEFINE new == [j EXCEPT !.pc = "read_habits", !.prefs = prefs]
    <3>1. job' = [job EXCEPT ![q] = new] /\ j.pc = "read_preferences"
      BY <1>1, <2>2 DEF ReadPreferences, At
    <3>2. /\ new \in ContextJob /\ new.pc = "read_habits" /\ new.off = j.off
          /\ new.habits = j.habits /\ new.degraded = j.degraded
          /\ new.confirmed = j.confirmed
      BY DEF ContextJob, Reading, WInv, RowsOK
    <3> HIDE DEF new
    <3>3. ContextOK(new)
      BY <1>1, <1>2, <3>1, <3>2 DEF ContextOK, Consented, Reading
    <3> QED
      BY <3>1, <3>2, <3>3
  <2>3. CASE ReadHabits(q)
    <3> DEFINE new == [j EXCEPT !.pc = "answered", !.habits = Confirmed]
    <3>1. job' = [job EXCEPT ![q] = new] /\ j.pc = "read_habits"
      BY <1>1, <2>3 DEF ReadHabits, At
    <3>2. Confirmed \subseteq Habits
      BY DEF Confirmed
    <3>3. /\ new \in ContextJob /\ new.pc = "answered" /\ new.off = j.off
          /\ new.habits = Confirmed /\ new.degraded = j.degraded
          /\ new.confirmed = j.confirmed
      BY <3>2 DEF ContextJob, Reading
    <3> HIDE DEF new
    <3>4. ContextOK(new)
      BY <1>1, <1>2, <3>1, <3>3 DEF ContextOK, Consented, Reading
    <3> QED
      BY <3>1, <3>3, <3>4
  <2>4. CASE Degrade(q)
    <3> DEFINE new == [j EXCEPT !.pc = "answered", !.prefs = "default", !.degraded = TRUE]
    <3>1. job' = [job EXCEPT ![q] = new]
      BY <1>1, <2>4 DEF Degrade
    <3>2. /\ new \in ContextJob /\ new.pc = "answered" /\ new.off = j.off
          /\ new.prefs = "default" /\ new.habits = j.habits
          /\ new.confirmed = j.confirmed
      BY DEF ContextJob, Reading
    <3> HIDE DEF new
    <3>3. ContextOK(new)
      BY <1>1, <1>2, <3>2 DEF ContextOK, Consented, Reading
    <3> QED
      BY <3>1, <3>2, <3>3
  <2> QED
    BY <2>1, <2>2, <2>3, <2>4
<1>4. PICK new \in ContextJob : job' = [job EXCEPT ![q] = new] /\ ContextOK(new)
  BY <1>3
<1>5. JobOK(new)
  BY <1>4, Disjoint DEF JobOK, Job
<1>6. UNCHANGED <<case, reviews, items, readiness, personal, history, lost>>
  BY DEF ReadConsent, ReadPreferences, ReadHabits, Degrade
<1> QED
  BY <1>1, <1>4, <1>5, <1>6, Disjoint, RowsKept, QuietMove DEF WInv

-----------------------------------------------------------------------------
(* The specification.                                                      *)

LEMMA InitWInv == Init => WInv
<1> SUFFICES ASSUME Init PROVE WInv
  OBVIOUS
<1>1. RowsOK
  <2>1. case \in Cases /\ reviews = {} /\ readiness = None /\ history = {} /\ lost = {}
    BY DEF Init
  <2>2. consent \in Consents \cup {None}
    <3>1. consent = None \/ consent = [enabled |-> TRUE, learning |-> TRUE]
      BY DEF Init
    <3>2. [enabled |-> TRUE, learning |-> TRUE] \in Consents
      BY DEF Consents
    <3> QED
      BY <3>1, <3>2
  <2>3. prefs \in {None, "own"} /\ feedback \in Feedbacks \cup {None}
    BY DEF Init
  <2>4. habits \in [Habits -> {None, "candidate", "confirmed", "rejected"}]
    BY DEF Init
  <2> QED
    BY <2>1, <2>2, <2>3, <2>4 DEF RowsOK
<1>2. ItemsOK
  BY DEF Init, ItemsOK
<1>3. PICK traffic \in Traffic : job = [q \in Requests |-> New(traffic)]
  BY DEF Init
<1>4. New(traffic) \in NewJob
  BY DEF New, NewJob
<1>5. JobOK(New(traffic))
  BY <1>4, Disjoint DEF JobOK, Job
<1>6. JobsOK /\ Told
  BY <1>3, <1>5 DEF Init, JobsOK, Told
<1> QED
  BY <1>1, <1>2, <1>6 DEF WInv

LEMMA NextWInv == WInv /\ [Next]_vars => WInv'
<1> SUFFICES ASSUME WInv, [Next]_vars PROVE WInv'
  OBVIOUS
<1>1. ASSUME NEW q \in Requests, CaseStep(q) PROVE WInv'
  BY <1>1, BeginReviewStep, CountStep, StoreReviewStep, BeginAnalysisStep, CheckVersionStep,
     UpdateStep, NotifyStep, BeginReadinessStep, StoreReadinessStep DEF CaseStep
<1>2. ASSUME NEW q \in Requests, PersonalStep(q) PROVE WInv'
  BY <1>2, BeginConsentStep, SaveConsentStep, SetHabitStep, PreferencesStep,
     BeginContextStep, ReadStep DEF PersonalStep
<1>3. CASE UNCHANGED vars
  <2>1. UNCHANGED <<case, reviews, items, readiness, consent, prefs, habits, feedback, job,
                    history, lost>>
    BY <1>3 DEF vars, personal
  <2>2. RowsOK' /\ ItemsOK'
    BY <2>1, ItemsKept DEF WInv, RowsOK
  <2>3. JobsOK'
    <3>1. ASSUME NEW q \in Requests PROVE JobOK(job[q])'
      <4>1. PICK j : j = job[q]
        OBVIOUS
      <4>2. JobOK(j)'
        BY <2>1, <4>1, InJob, JobKept
      <4> QED
        BY <2>1, <4>1, <4>2 DEF JobOK
    <3> QED
      BY <2>1, <3>1 DEF WInv, JobsOK
  <2>4. Told'
    BY <2>1, ToldKept DEF WInv
  <2> QED
    BY <2>2, <2>3, <2>4 DEF WInv
<1> QED
  BY <1>1, <1>2, <1>3, DieStep DEF Next

LEMMA WorkspaceInvariant == Spec => []WInv
BY InitWInv, NextWInv, PTL DEF Spec

\* The rows keep their types and every item stays under the key of what it
\* tells, so that no outcome is told twice (employee_router.py, _notify_rm).
THEOREM WorkspaceTypes == Spec => []WorkspaceTypeOK
<1>1. WInv => WorkspaceTypeOK
  <2> SUFFICES ASSUME WInv PROVE WorkspaceTypeOK
    OBVIOUS
  <2>1. ASSUME NEW id \in DOMAIN items
        PROVE  IF id \in DOMAIN Seeds THEN items[id] = Seeds[id]
               ELSE id \in Events /\ items[id].about = id
    BY DEF WInv, ItemsOK, RowsOK, Notification, Row
  <2>2. ASSUME NEW q \in Requests
        PROVE  job[q].pc \in
                 {"new", "count", "review", "check", "update", "notify", "readiness",
                  "consent", "read_consent", "read_preferences", "read_habits", "answered",
                  "over"}
    BY InJob, Kinds
  <2> QED
    BY <2>1, <2>2 DEF WInv, ItemsOK, RowsOK, WorkspaceTypeOK
<1> QED
  BY <1>1, WorkspaceInvariant, PTL

\* Whatever requests interleave and die, and though save_case and the item are
\* transactions of their own, what an item tells the RM is true.
THEOREM NotificationsTrue == Spec => []NotificationTrue
<1>1. WInv => NotificationTrue
  BY DEF WInv, ItemsOK, NotificationTrue, Notification, Row
<1> QED
  BY <1>1, WorkspaceInvariant, PTL

\* Every outcome that was stored is told by an item the queue offers, ahead of
\* the routine ones if the case was stopped, or is about to be, or died with
\* its request; none is replaced by another.
THEOREM OutcomesTold == Spec => []OutcomeTold
<1>1. WInv => OutcomeTold
  <2> SUFFICES ASSUME WInv, NEW e \in history, e \notin lost,
                      ~ \E q \in Requests : At(q, "notify") /\ Outcome(job[q]) = e
               PROVE  \E id \in Offered :
                        /\ items[id].about = e
                        /\ Urgent(e) => \A other \in Offered :
                              Band(items[other]) >= 2 => Ahead(items[id], items[other])
    BY DEF OutcomeTold
  <2>1. e \in DOMAIN items /\ items[e] = Notification(e) /\ e \in Events
    BY SeedsApart DEF WInv, Told, ItemsOK, RowsOK
  <2>2. /\ Notification(e).status = "pending" /\ Notification(e).role = RM
        /\ Notification(e).deps = {} /\ Notification(e).about = e
    BY DEF Notification, Row
  <2>3. e \in Offered
    BY <2>1, <2>2 DEF Offered
  <2>4. Urgent(e) => Band(Notification(e)) = 1
    BY DEF Urgent, Band, Notification, Row
  <2>5. ASSUME Urgent(e), NEW other \in Offered, Band(items[other]) >= 2
        PROVE  Ahead(items[e], items[other])
    BY <2>1, <2>4, <2>5 DEF Ahead, Band
  <2> QED
    BY <2>1, <2>2, <2>3, <2>5
<1> QED
  BY <1>1, WorkspaceInvariant, PTL

\* A context holds nothing of an RM who had switched personalization off
\* before its request began, whatever is switched, confirmed and rejected
\* between its reads.
THEOREM ContextsConsented == Spec => []ContextConsented
<1>1. WInv => ContextConsented
  <2> SUFFICES ASSUME WInv, NEW q \in Requests, At(q, "answered") PROVE Consented(job[q])
    BY DEF ContextConsented, Consented
  <2> QED
    BY InJob, Kinds DEF At, JobOK, ContextOK
<1> QED
  BY <1>1, WorkspaceInvariant, PTL
=============================================================================
