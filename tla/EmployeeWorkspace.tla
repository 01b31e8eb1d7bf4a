-------------------------- MODULE EmployeeWorkspace --------------------------
(* The workspace of a relationship manager (RM): the queue of work items    *)
(* through which a specialist's review, or a readiness that is not ready,   *)
(* comes back to the RM of the case, and the personalization the RM         *)
(* consented to.                                                            *)
(* Handlers run in threads.  Each call of employee_db is a connection and a *)
(* transaction of its own, and each handler has its own V2Repository, whose *)
(* save_case reads the version and then writes without a lock they share:   *)
(* both are steps here, and between two steps a handler may die.            *)
(* CaseService models the rest of a review: approval, audit, refusals.      *)
EXTENDS Naturals, FiniteSets

CONSTANTS
    Requests,       \* requests on one case, its RM and the RM's customer
    Specialists,    \* roles that review: "legal_specialist", ...
    Habits,         \* the RM's habits
    Traffic,        \* bound: {"case", "personal"}; a behaviour has requests of one
                    \* kind, as the two kinds share no row
    MaxVersion,     \* bound: versions of the case
    None

ASSUME WorkspaceAssumption ==
    /\ Specialists # {} /\ MaxVersion \in Nat \ {0}
    /\ None \notin {"own", "default"} \cup [enabled : BOOLEAN, learning : BOOLEAN]

VARIABLES
    case,       \* the row of the case
    reviews,    \* specialist_reviews
    items,      \* employee_work_items
    readiness,  \* operational_readiness
    consent, prefs, habits,     \* the RM's rows in the personalization tables
    feedback,   \* the RM's row in employee_recommendation_feedback
    job,        \* requests
    history,    \* outcomes that were stored, each an event for the RM
    lost        \* outcomes whose request died before it told the RM

personal == <<consent, prefs, habits, feedback>>
vars == <<case, reviews, items, readiness, personal, job, history, lost>>

RM == "relationship_manager"
Decisions == {"cleared", "blocked", "needs_more_information"}
StatusAfter(decision) ==
    CASE decision = "cleared" -> "pending_approval"
      [] decision = "blocked" -> "rejected"
      [] decision = "needs_more_information" -> "pending_information"

Cases == [version : 1 .. MaxVersion, roles : (SUBSET Specialists) \ {{}},
          status : {"pending_review"} \cup {StatusAfter(d) : d \in Decisions},
          overridable : BOOLEAN]     \* required_reviewer_roles, human_review_allowed
Events == [version : 1 .. MaxVersion,
           event : Decisions \cup {"operational_readiness_not_ready"},
           roles : SUBSET (Specialists \cup {RM})]
Consents == [enabled : BOOLEAN, learning : BOOLEAN]

-----------------------------------------------------------------------------
(* Work items and the queue.  Weights are in hundredths.                    *)

\* What a row says: "about" is the outcome its title tells, None for a seed.
Row(role, legal, weights, deps, about) ==
    [role |-> role, legal |-> legal, status |-> "pending", deps |-> deps, about |-> about,
     impact |-> weights[1], urgency |-> weights[2], commitment |-> weights[3],
     risk |-> weights[4], unblock |-> weights[5], effort |-> weights[6]]

\* The rows init_employee_db seeds for this customer's RM, and one of another role.
Task(n) == [task |-> n]
Seeds ==
    [id \in {Task(n) : n \in {101, 102, 103, 104, 105, 201}} |->
     CASE id = Task(101) -> Row(RM, TRUE, <<80, 100, 90, 90, 70, 30>>, {}, None)
       [] id = Task(102) -> Row(RM, FALSE, <<90, 80, 80, 70, 90, 40>>, {}, None)
       [] id = Task(103) -> Row(RM, FALSE, <<70, 50, 100, 30, 50, 20>>, {}, None)
       [] id = Task(104) -> Row(RM, FALSE, <<50, 20, 0, 20, 30, 50>>, {}, None)
       [] id = Task(105) -> Row(RM, FALSE, <<100, 90, 100, 80, 100, 80>>, {Task(102)}, None)
       [] id = Task(201) ->
            Row("legal_specialist", FALSE, <<80, 70, 50, 80, 80, 60>>, {}, None)]

\* Mutant of ItemId: the kind of outcome is left out of the key.
ItemIdPerVersion(e) == [e EXCEPT !.event = "cleared"]
\* _notification_item_id: the facts that make two notifications the same.
ItemId(e) == e

\* _notify_rm; a summary that says "regulatory" would only move it further up.
Notification(e) ==
    LET Urgency == CASE e.event = "blocked" -> 90
                     [] e.event = "needs_more_information" -> 80
                     [] e.event = "cleared" -> 70
                     [] OTHER -> 60
        Risk == CASE e.event = "blocked" -> 80
                  [] e.event = "needs_more_information" -> 50
                  [] e.event = "cleared" -> 30
                  [] OTHER -> 40
    IN Row(RM, FALSE, <<60, Urgency, 30, Risk, 50, 20>>, {}, e)

\* create_work_item replaces the row with this id.
Put(id, row) ==
    [i \in DOMAIN items \cup {id} |-> IF i = id THEN row ELSE items[i]]

\* The hard filters of get_next_best_work, for an RM whose scope has the customer.
Offered ==
    {id \in DOMAIN items :
        /\ items[id].status # "completed"
        /\ items[id].role = RM
        /\ \A d \in items[id].deps : d \in DOMAIN items /\ items[d].status = "completed"}

Band(row) ==
    IF row.legal THEN 0
    ELSE IF row.urgency >= 80 \/ row.risk >= 80 THEN 1
    ELSE IF row.commitment >= 70 THEN 2 ELSE 3

\* ownership_match is 1.0 in every row.
Score(row) ==
    25 * row.impact + 25 * row.urgency + 15 * row.commitment + 15 * row.risk
    + 10 * row.unblock + 1000 - 10 * row.effort

\* The order of the queue; ties go on with urgency, commitment, age and id.
Ahead(a, b) ==
    \/ Band(a) < Band(b)
    \/ Band(a) = Band(b) /\ Score(a) > Score(b)

-----------------------------------------------------------------------------
(* Requests.                                                                *)

New(traffic) == [pc |-> "new", traffic |-> traffic]
Over == [pc |-> "over"]
At(q, pc) == job[q].pc = pc
Fresh(q, traffic) == job[q] = New(traffic)
Advance(q, pc) == job' = [job EXCEPT ![q] = [@ EXCEPT !.pc = pc]]
Finish(q) == job' = [job EXCEPT ![q] = Over]

\* The event a review or a readiness request is to tell.
Outcome(j) ==
    IF j.kind = "readiness"
    THEN [version |-> j.seen.version, event |-> "operational_readiness_not_ready",
          roles |-> {RM}]
    ELSE [version |-> j.seen.version, event |-> j.decision, roles |-> j.seen.roles]

\* submit_specialist_review up to its first write; one that is refused, or that
\* finds the case elsewhere, changes nothing.
BeginReview(q, role, decision) ==
    /\ Fresh(q, "case") /\ case.version < MaxVersion
    /\ case.status = "pending_review"
    /\ role \in case.roles
    /\ decision = "cleared" => case.overridable
    /\ job' = [job EXCEPT ![q] =
         [kind |-> "review", seen |-> case, role |-> role, decision |-> decision,
          pc |-> IF decision = "cleared" THEN "count" ELSE "review",
          new |-> [case EXCEPT !.status = StatusAfter(decision)]]]
    /\ UNCHANGED <<case, reviews, items, readiness, personal, history, lost>>

Cleared(version) ==
    {r.role : r \in {s \in reviews : s.version = version /\ s.decision = "cleared"}}

\* The case moves on a clearance when every other required role has given its own.
Count(q) ==
    /\ At(q, "count")
    /\ LET j == job[q]
           waiting == (j.seen.roles \ Cleared(j.seen.version)) \ {j.role}
       IN job' = [job EXCEPT ![q] =
            [j EXCEPT !.pc = "review", !.new = IF waiting = {} THEN j.new ELSE j.seen]]
    /\ UNCHANGED <<case, reviews, items, readiness, personal, history, lost>>

\* Mutant of AfterReview: the RM is told before the case is saved.
AfterReviewTold(j) == IF j.new = j.seen THEN "over" ELSE "notify"
\* A review that leaves the case as it is tells nobody.
AfterReview(j) == IF j.new = j.seen THEN "over" ELSE "check"

\* save_specialist_review.
StoreReview(q) ==
    /\ At(q, "review")
    /\ LET j == job[q]
       IN /\ reviews' = reviews \cup
                {[version |-> j.seen.version, role |-> j.role, decision |-> j.decision]}
          /\ IF AfterReview(j) = "over" THEN Finish(q) ELSE Advance(q, AfterReview(j))
    /\ UNCHANGED <<case, items, readiness, personal, history, lost>>

\* Another analysis of the case, by the handlers CaseService models; what it
\* finds is chosen when it is stored.
BeginAnalysis(q) ==
    /\ Fresh(q, "case") /\ case.version < MaxVersion
    /\ case.status # "rejected"
    /\ job' = [job EXCEPT ![q] = [kind |-> "analysis", pc |-> "check", seen |-> case]]
    /\ UNCHANGED <<case, reviews, items, readiness, personal, history, lost>>

\* save_case: SELECT version ...
CheckVersion(q) ==
    /\ At(q, "check")
    /\ IF case.version = job[q].seen.version THEN Advance(q, "update") ELSE Finish(q)
    /\ UNCHANGED <<case, reviews, items, readiness, personal, history, lost>>

\* ... and UPDATE, whatever the version has become.
Update(q) ==
    /\ At(q, "update")
    /\ LET j == job[q]
       IN \/ /\ j.kind = "review"
             /\ case' = [j.new EXCEPT !.version = j.seen.version + 1]
             /\ history' = history \cup {Outcome(j)}
             /\ Advance(q, "notify")
          \/ /\ j.kind = "analysis"
             /\ case' \in {c \in Cases : c.version = j.seen.version + 1
                                       /\ c.status = "pending_review"}
             /\ Finish(q) /\ UNCHANGED history
    /\ UNCHANGED <<reviews, items, readiness, personal, lost>>

\* _notify_rm, the last call of a handler.
Notify(q) ==
    /\ At(q, "notify")
    /\ LET e == Outcome(job[q]) IN items' = Put(ItemId(e), Notification(e))
    /\ Finish(q)
    /\ UNCHANGED <<case, reviews, readiness, personal, history, lost>>

\* put_operational_readiness: read the case, store, tell the RM what lacks.
BeginReadiness(q, ready) ==
    /\ Fresh(q, "case")
    /\ job' = [job EXCEPT ![q] =
                 [kind |-> "readiness", pc |-> "readiness", seen |-> case, ready |-> ready]]
    /\ UNCHANGED <<case, reviews, items, readiness, personal, history, lost>>

SaveReadiness(status) == readiness' = status

StoreReadiness(q) ==
    /\ At(q, "readiness")
    /\ SaveReadiness(IF job[q].ready THEN "ready" ELSE "not_ready")
    /\ IF job[q].ready THEN Finish(q) /\ UNCHANGED history
       ELSE Advance(q, "notify") /\ history' = history \cup {Outcome(job[q])}
    /\ UNCHANGED <<case, reviews, items, personal, lost>>

-----------------------------------------------------------------------------
(* Personalization.                                                         *)

Enabled == IF consent = None THEN TRUE ELSE consent.enabled
Confirmed == {h \in Habits : habits[h] = "confirmed"}

\* Mutant of Learning: a first consent leaves activity_learning unset.
LearningUnset(enabled) == IF consent = None THEN None ELSE consent.learning
\* activity_learning_enabled follows the first consent and stays as it is.
Learning(enabled) == IF consent = None THEN enabled ELSE consent.learning

\* _set_personalization: read the row, then write it whole.
BeginConsent(q, enabled) ==
    /\ Fresh(q, "personal")
    /\ job' = [job EXCEPT ![q] = [kind |-> "consent", pc |-> "consent",
                 new |-> [enabled |-> enabled, learning |-> Learning(enabled)]]]
    /\ UNCHANGED <<case, reviews, items, readiness, personal, history, lost>>

\* What the requests for a context saw happen since they began (history).
Witness(change(_)) ==
    [q \in Requests |-> IF "off" \in DOMAIN job[q] /\ job[q].pc # "answered"
                        THEN change(job[q]) ELSE job[q]]

SaveConsent(q) ==
    /\ At(q, "consent")
    /\ consent' = job[q].new
    /\ LET Saw(j) == [j EXCEPT !.off = @ /\ ~job[q].new.enabled]
       IN job' = [Witness(Saw) EXCEPT ![q] = Over]
    /\ UNCHANGED <<case, reviews, items, readiness, prefs, habits, feedback, history, lost>>

\* confirm_habit, reject_habit and delete_habit of a habit that has a row.
SetHabit(q, h, status) ==
    /\ Fresh(q, "personal") /\ habits[h] # None
    /\ habits' = [habits EXCEPT ![h] = status]
    /\ LET Saw(j) == [j EXCEPT !.confirmed =
                        IF status = "confirmed" THEN @ \cup {h} ELSE @]
       IN job' = [Witness(Saw) EXCEPT ![q] = Over]
    /\ UNCHANGED <<case, reviews, items, readiness, consent, prefs, feedback, history, lost>>

\* save_preferences.
PatchPreferences(q) ==
    /\ Fresh(q, "personal")
    /\ prefs' = "own"
    /\ Finish(q)
    /\ UNCHANGED <<case, reviews, items, readiness, consent, habits, feedback, history, lost>>

\* _submit_feedback on one recommendation: the RM's latest word replaces the others.
Feedbacks == {"accepted", "edited", "rejected", "not_applicable"}
SaveFeedback(word) == feedback' = word
SubmitFeedback(q, word) ==
    /\ Fresh(q, "personal") /\ SaveFeedback(word)
    /\ Finish(q)
    /\ UNCHANGED <<case, reviews, items, readiness, consent, prefs, habits, history, lost>>

\* get_my_context: consent, preferences and habits, each from its own connection.
BeginContext(q) ==
    /\ Fresh(q, "personal")
    /\ job' = [job EXCEPT ![q] =
         [kind |-> "context", pc |-> "read_consent", prefs |-> None, habits |-> {},
          degraded |-> FALSE, off |-> ~Enabled, confirmed |-> Confirmed]]
    /\ UNCHANGED <<case, reviews, items, readiness, personal, history, lost>>

\* Mutant of AfterConsent: what was refused is read all the same.
AfterConsentRead == "read_preferences"
AfterConsent == IF Enabled THEN "read_preferences" ELSE "answered"

ReadConsent(q) ==
    /\ At(q, "read_consent")
    /\ Advance(q, AfterConsent)
    /\ UNCHANGED <<case, reviews, items, readiness, personal, history, lost>>

ReadPreferences(q) ==
    /\ At(q, "read_preferences")
    /\ job' = [job EXCEPT ![q] = [@ EXCEPT !.pc = "read_habits", !.prefs = prefs]]
    /\ UNCHANGED <<case, reviews, items, readiness, personal, history, lost>>

ReadHabits(q) ==
    /\ At(q, "read_habits")
    /\ job' = [job EXCEPT ![q] = [@ EXCEPT !.pc = "answered", !.habits = Confirmed]]
    /\ UNCHANGED <<case, reviews, items, readiness, personal, history, lost>>

\* A read that fails: the default view, and what was read is forgotten.
Degrade(q) ==
    /\ \E pc \in {"read_consent", "read_preferences", "read_habits"} : At(q, pc)
    /\ job' = [job EXCEPT ![q] =
                 [@ EXCEPT !.pc = "answered", !.prefs = "default", !.degraded = TRUE]]
    /\ UNCHANGED <<case, reviews, items, readiness, personal, history, lost>>

-----------------------------------------------------------------------------

\* The process dies in the middle of a request.
Die(q) ==
    /\ job[q].pc \notin {"new", "over", "answered"}
    /\ lost' = IF At(q, "notify") THEN lost \cup {Outcome(job[q])} ELSE lost
    /\ Finish(q)
    /\ UNCHANGED <<case, reviews, items, readiness, personal, history>>

Init ==
    /\ case \in {c \in Cases : c.version = 1 /\ c.status = "pending_review"}
    /\ reviews = {} /\ items = Seeds /\ readiness = None
    /\ consent \in {None, [enabled |-> TRUE, learning |-> TRUE]}
    /\ prefs \in {None, "own"} /\ feedback = None
    /\ habits \in [Habits -> {"candidate", "confirmed"}]
    /\ job \in {[q \in Requests |-> New(traffic)] : traffic \in Traffic}
    /\ history = {} /\ lost = {}

CaseStep(q) ==
    \/ \E role \in Specialists, decision \in Decisions : BeginReview(q, role, decision)
    \/ Count(q) \/ StoreReview(q)
    \/ BeginAnalysis(q) \/ CheckVersion(q) \/ Update(q) \/ Notify(q)
    \/ \E ready \in BOOLEAN : BeginReadiness(q, ready)
    \/ StoreReadiness(q)

PersonalStep(q) ==
    \/ \E enabled \in BOOLEAN : BeginConsent(q, enabled)
    \/ SaveConsent(q)
    \/ \E h \in Habits, status \in {"confirmed", "rejected", None} : SetHabit(q, h, status)
    \/ PatchPreferences(q) \/ \E word \in Feedbacks : SubmitFeedback(q, word)
    \/ BeginContext(q) \/ ReadConsent(q) \/ ReadPreferences(q) \/ ReadHabits(q)
    \/ Degrade(q)

Next == \E q \in Requests : CaseStep(q) \/ PersonalStep(q) \/ Die(q)

Spec == Init /\ [][Next]_vars

-----------------------------------------------------------------------------

\* Rows and history are of their kinds; a row is kept under the key of what it
\* tells, so that no outcome has two rows.
WorkspaceTypeOK ==
    /\ case \in Cases
    /\ reviews \subseteq [version : 1 .. MaxVersion, role : Specialists, decision : Decisions]
    /\ DOMAIN Seeds \subseteq DOMAIN items
    /\ \A id \in DOMAIN items :
          IF id \in DOMAIN Seeds THEN items[id] = Seeds[id]
          ELSE id \in Events /\ items[id].about = id
    /\ readiness \in {None, "ready", "not_ready"}
    /\ consent \in Consents \cup {None}
    /\ prefs \in {None, "own"} /\ feedback \in Feedbacks \cup {None}
    /\ habits \in [Habits -> {None, "candidate", "confirmed", "rejected"}]
    /\ history \subseteq Events /\ lost \subseteq history
    /\ \A q \in Requests : job[q].pc \in
          {"new", "count", "review", "check", "update", "notify", "readiness", "consent",
           "read_consent", "read_preferences", "read_habits", "answered", "over"}

Urgent(e) == e.event \in {"blocked", "needs_more_information"}

\* What was decided reaches the RM: every outcome that was stored is told by an
\* item the queue offers, ahead of every routine item if the case was stopped;
\* or its request is about to tell it, or died there.  No later outcome, of the
\* same version or of another, takes its place.
OutcomeTold ==
    \A e \in history :
        \/ e \in lost
        \/ \E q \in Requests : At(q, "notify") /\ Outcome(job[q]) = e
        \/ \E id \in Offered :
              /\ items[id].about = e
              /\ Urgent(e) => \A other \in Offered :
                    Band(items[other]) >= 2 => Ahead(items[id], items[other])

\* What the RM is told is true: the case was stored with that outcome, and when
\* the item says cleared, every role the gate required has cleared that version.
NotificationTrue ==
    \A id \in DOMAIN items \ DOMAIN Seeds :
        LET e == items[id].about
        IN /\ e \in history
           /\ e.event = "cleared" => e.roles \subseteq Cleared(e.version)

\* An answered context holds nothing personal of an RM whose personalization was
\* off all the while, no habit the RM had not confirmed by then, and after a
\* failure only the defaults.
ContextConsented ==
    \A q \in Requests : At(q, "answered") =>
        /\ job[q].off => job[q].prefs # "own" /\ job[q].habits = {}
        /\ job[q].habits \subseteq job[q].confirmed
        /\ job[q].degraded => job[q].prefs = "default" /\ job[q].habits = {}
=============================================================================
