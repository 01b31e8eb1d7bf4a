--------------------------- MODULE CreditRequests ---------------------------
(***************************************************************************)
(* The rounds of a corporate credit request: the customer submits it, a    *)
(* relationship manager forwards it, a credit specialist decides it or     *)
(* sends it back for more information.                                     *)
(*                                                                         *)
(* create, forward and decide are each one READ COMMITTED transaction of   *)
(* two statements: a SELECT that looks the idempotency key up, and an      *)
(* INSERT or a conditional UPDATE.  Any other call may commit in between.  *)
(* A key is looked up in the request's latest one only: the next round     *)
(* overwrites it.                                                          *)
(***************************************************************************)
EXTENDS Naturals

CONSTANTS
    Calls,          \* calls of the API that may be running at a time
    RequestIds,     \* bound: the requests ever submitted
    Customers,
    NoCustomer,
    Keys,           \* idempotency keys clients use
    NoKey,
    MaxRounds       \* bound: times a request is forwarded

ASSUME CreditAssumption ==
    /\ NoKey \notin Keys
    /\ MaxRounds \in Nat

VARIABLES
    table,          \* "corporate_credit_requests"
    call,           \* each call's open transaction
    done,           \* history: the forwards and decisions that took effect
    told            \* history: those a client was answered 200

creditVars == <<table, call, done, told>>

Decisions == {"approved", "rejected", "needs_more_information"}

Final == {"Approved", "Rejected"}

\* Status "none" is no row.  The last two fields are history: how often the
\* request was forwarded and how often a specialist answered.
Rows ==
    [status     : {"none", "WithRM", "PendingApproval"} \cup Final,
     customer   : Customers \cup {NoCustomer},
     submission : Keys \cup {NoKey},
     forward    : Keys \cup {NoKey},
     decision   : Keys \cup {NoKey},
     forwards   : Nat,
     decisions  : Nat]

NoRow ==
    [status |-> "none", customer |-> NoCustomer, submission |-> NoKey,
     forward |-> NoKey, decision |-> NoKey, forwards |-> 0, decisions |-> 0]

Effects == [op : {"forward", "decide"}, request : RequestIds, key : Keys]

Effect(op, r, k) == [op |-> op, request |-> r, key |-> k]

\* What the SELECT left the call to do.
Transactions ==
    [op : {"create"}, customer : Customers, key : Keys]
        \cup [op : {"forward"}, request : RequestIds, key : Keys]
        \cup [op : {"decide"}, request : RequestIds, key : Keys,
              decision : Decisions]

NoTransaction == [op |-> "none"]

CreditTypeOK ==
    /\ table \in [RequestIds -> Rows]
    /\ call \in [Calls -> Transactions \cup {NoTransaction}]
    /\ done \subseteq Effects
    /\ told \subseteq Effects

CreditInit ==
    /\ table = [r \in RequestIds |-> NoRow]
    /\ call = [c \in Calls |-> NoTransaction]
    /\ done = {}
    /\ told = {}

Begin(c, transaction) ==
    /\ call[c] = NoTransaction
    /\ call' = [call EXCEPT ![c] = transaction]
    /\ UNCHANGED <<table, done, told>>

End(c) == call' = [call EXCEPT ![c] = NoTransaction]

-----------------------------------------------------------------------------
(* create                                                                  *)

Submitted(customer, key) ==
    \E r \in RequestIds :
        table[r].customer = customer /\ table[r].submission = key

\* An existing row is answered as it is, which changes nothing.
CreateSelect(c) ==
    \E customer \in Customers, key \in Keys :
        /\ ~Submitted(customer, key)
        /\ Begin(c, [op |-> "create", customer |-> customer, key |-> key])

\* Mutant of CreateInsert: there is no unique index on the submission key.
CreateInsertUnindexed(c) ==
    /\ call[c].op = "create"
    /\ \E r \in RequestIds :
          /\ table[r] = NoRow
          /\ table' = [table EXCEPT ![r] =
                          [NoRow EXCEPT !.status = "WithRM",
                                        !.customer = call[c].customer,
                                        !.submission = call[c].key]]
    /\ End(c)
    /\ UNCHANGED <<done, told>>

\* INSERT, under the unique index uq_credit_requests_submission_key.
CreateInsert(c) ==
    /\ call[c].op = "create"
    /\ ~Submitted(call[c].customer, call[c].key)
    /\ \E r \in RequestIds :
          /\ table[r] = NoRow
          /\ table' = [table EXCEPT ![r] =
                          [NoRow EXCEPT !.status = "WithRM",
                                        !.customer = call[c].customer,
                                        !.submission = call[c].key]]
    /\ End(c)
    /\ UNCHANGED <<done, told>>

-----------------------------------------------------------------------------
(* forward and decide                                                      *)

KeyOf(op, row) == IF op = "forward" THEN row.forward ELSE row.decision

\* The requests whose latest forward or decision came with this key.
Holders(op, key) == {r \in RequestIds : KeyOf(op, table[r]) = key}

\* Mutant of Replay: the row found need not be the request's.
ReplayOfAny(c, op) ==
    /\ call[c] = NoTransaction
    /\ \E r \in RequestIds, key \in Keys :
          /\ table[r] # NoRow
          /\ Holders(op, key) # {}
          /\ told' = told \cup {Effect(op, r, key)}
    /\ UNCHANGED <<table, call, done>>

\* The SELECT finds the key.  Of another request it is a conflict, which
\* changes nothing; of this one the row is answered as it is now.
Replay(c, op) ==
    /\ call[c] = NoTransaction
    /\ \E r \in RequestIds, key \in Keys :
          /\ table[r] # NoRow
          /\ r \in Holders(op, key)
          /\ told' = told \cup {Effect(op, r, key)}
    /\ UNCHANGED <<table, call, done>>

ForwardReplay(c) == Replay(c, "forward")

DecideReplay(c) == Replay(c, "decide")

ForwardSelect(c) ==
    \E r \in RequestIds, key \in Keys :
        /\ table[r] # NoRow
        /\ Holders("forward", key) = {}
        /\ Begin(c, [op |-> "forward", request |-> r, key |-> key])

DecideSelect(c) ==
    \E r \in RequestIds, key \in Keys, decision \in Decisions :
        /\ table[r] # NoRow
        /\ Holders("decide", key) = {}
        /\ Begin(c, [op |-> "decide", request |-> r, key |-> key,
                     decision |-> decision])

TakesEffect(op, r, key) ==
    LET e == Effect(op, r, key) IN
    /\ done' = done \cup {e}
    /\ told' = told \cup {e}

\* The unique index on the key of each op.
Unique(op, r, key) == Holders(op, key) \subseteq {r}

\* Mutant of ForwardUpdate: the status is not part of the condition.
ForwardUpdateAnyStatus(c) ==
    /\ call[c].op = "forward"
    /\ LET r == call[c].request
           k == call[c].key
       IN  /\ table[r].forwards < MaxRounds
           /\ Unique("forward", r, k)
           /\ table' = [table EXCEPT ![r].status = "PendingApproval",
                                     ![r].forward = k,
                                     ![r].forwards = @ + 1]
           /\ TakesEffect("forward", r, k)
    /\ End(c)

\* UPDATE ... WHERE request_id = ? AND status = 'WithRM'
ForwardUpdate(c) ==
    /\ call[c].op = "forward"
    /\ LET r == call[c].request
           k == call[c].key
       IN  /\ table[r].status = "WithRM"
           /\ table[r].forwards < MaxRounds
           /\ Unique("forward", r, k)
           /\ table' = [table EXCEPT ![r].status = "PendingApproval",
                                     ![r].forward = k,
                                     ![r].forwards = @ + 1]
           /\ TakesEffect("forward", r, k)
    /\ End(c)

StatusAfter(decision) ==
    CASE decision = "approved" -> "Approved"
      [] decision = "rejected" -> "Rejected"
      [] decision = "needs_more_information" -> "WithRM"

\* Mutant of DecideUpdate: only a decided request is refused.
DecideUpdateUndecided(c) ==
    /\ call[c].op = "decide"
    /\ LET r == call[c].request
           k == call[c].key
       IN  /\ table[r].status \notin Final
           /\ Unique("decide", r, k)
           /\ table' = [table EXCEPT ![r].status = StatusAfter(call[c].decision),
                                     ![r].decision = k,
                                     ![r].decisions = @ + 1]
           /\ TakesEffect("decide", r, k)
    /\ End(c)

\* UPDATE ... WHERE request_id = ? AND status = 'PendingApproval':
\* needs_more_information sends the request back to the RM.
DecideUpdate(c) ==
    /\ call[c].op = "decide"
    /\ LET r == call[c].request
           k == call[c].key
       IN  /\ table[r].status = "PendingApproval"
           /\ Unique("decide", r, k)
           /\ table' = [table EXCEPT ![r].status = StatusAfter(call[c].decision),
                                     ![r].decision = k,
                                     ![r].decisions = @ + 1]
           /\ TakesEffect("decide", r, k)
    /\ End(c)

\* CreditRequestConflict, a violated unique index, or a lost connection:
\* nothing is kept and nobody is answered 200.
Rollback(c) ==
    /\ call[c] # NoTransaction
    /\ End(c)
    /\ UNCHANGED <<table, done, told>>

-----------------------------------------------------------------------------

\* GET, and every call answered from its first SELECT.
GetCreditRequest(c) == call[c] = NoTransaction /\ UNCHANGED creditVars

CreditNext ==
    \E c \in Calls :
        \/ CreateSelect(c) \/ CreateInsert(c)
        \/ ForwardReplay(c) \/ ForwardSelect(c) \/ ForwardUpdate(c)
        \/ DecideReplay(c) \/ DecideSelect(c) \/ DecideUpdate(c)
        \/ Rollback(c) \/ GetCreditRequest(c)

CreditSpec == CreditInit /\ [][CreditNext]_creditVars

-----------------------------------------------------------------------------
(* Properties                                                              *)

\* "Customer submit -> RM forward -> Credit Specialist final decision"
\* (credit_request_router.py:1): however calls overlap, every round is forwarded
\* once and answered once, so no specialist decides a request no RM forwarded.
RoundsAlternate ==
    \A r \in RequestIds :
        table[r].forwards =
            IF table[r].status = "PendingApproval" THEN table[r].decisions + 1
            ELSE table[r].decisions

\* "Credit Specialist final decision": no retry, no late call and no open
\* transaction touches a request after it was approved or rejected.
DecisionsFinal ==
    [][\A r \in RequestIds :
          table[r].status \in Final => table'[r] = table[r]]_creditVars

\* "Replay protection: unique submission and decision idempotency keys"
\* (sql_entity.md:17): a submission sent twice is one request, also if both calls
\* looked the key up before either inserted.
SubmittedOnce ==
    \A q, r \in RequestIds :
        /\ table[q] # NoRow /\ table[r] # NoRow
        /\ table[q].customer = table[r].customer
        /\ table[q].submission = table[r].submission
        => q = r

\* A forward or decision that a client was answered 200 took effect on the
\* request it named.
AcknowledgedTookEffect == told \subseteq done
=============================================================================
