------------------------ MODULE CreditRequestsProofs ------------------------
(***************************************************************************)
(* The rounds of credit requests, for any number of calls, requests,       *)
(* customers, keys and rounds.                                             *)
(***************************************************************************)
EXTENDS CreditRequests, TLAPS

\* A key a row still carries took effect on that row: so a replay is answered
\* for something that happened.
CarriedKeysTookEffect ==
    \A r \in RequestIds, k \in Keys :
        /\ table[r].forward = k => Effect("forward", r, k) \in done
        /\ table[r].decision = k => Effect("decide", r, k) \in done

CInv ==
    /\ CreditTypeOK
    /\ RoundsAlternate
    /\ SubmittedOnce
    /\ CarriedKeysTookEffect
    /\ AcknowledgedTookEffect

\* What the specialist's decision makes of the status.
LEMMA StatusAfterType ==
    \A d \in Decisions : StatusAfter(d) \in Final \cup {"WithRM"}
BY DEF Decisions, StatusAfter, Final

\* The calls that write, by the row they leave.
Written(r, row) == table' = [table EXCEPT ![r] = row]

LEMMA NoRowType == NoRow \in Rows
BY DEF NoRow, Rows

LEMMA EndType ==
    ASSUME CreditTypeOK, NEW c \in Calls, End(c)
    PROVE  call' \in [Calls -> Transactions \cup {NoTransaction}]
BY DEF CreditTypeOK, End

LEMMA EffectType ==
    ASSUME NEW op \in {"forward", "decide"}, NEW r \in RequestIds, NEW k \in Keys
    PROVE  Effect(op, r, k) \in Effects
BY DEF Effect, Effects

LEMMA InitCInv == CreditInit => CInv
<1> SUFFICES ASSUME CreditInit PROVE CInv
  OBVIOUS
<1>1. CreditTypeOK
  BY NoRowType DEF CreditInit, CreditTypeOK
<1>2. \A r \in RequestIds : table[r] = NoRow
  BY DEF CreditInit
<1>3. RoundsAlternate /\ SubmittedOnce /\ CarriedKeysTookEffect
  BY <1>2, CreditAssumption DEF NoRow, RoundsAlternate, SubmittedOnce, CarriedKeysTookEffect
<1> QED
  BY <1>1, <1>3 DEF CInv, AcknowledgedTookEffect, CreditInit

\* A SELECT that finds no key only opens a transaction.
LEMMA BeginStep ==
    ASSUME CInv, NEW c \in Calls, NEW t \in Transactions, Begin(c, t)
    PROVE  CInv'
<1>1. CreditTypeOK'
  BY DEF CInv, CreditTypeOK, Begin
<1> QED
  BY <1>1 DEF CInv, Begin, RoundsAlternate, SubmittedOnce, CarriedKeysTookEffect,
              AcknowledgedTookEffect

LEMMA SelectStep ==
    ASSUME CInv, NEW c \in Calls,
           CreateSelect(c) \/ ForwardSelect(c) \/ DecideSelect(c)
    PROVE  CInv'
BY BeginStep DEF CreateSelect, ForwardSelect, DecideSelect, Transactions

LEMMA CreateInsertStep ==
    ASSUME CInv, NEW c \in Calls, CreateInsert(c)
    PROVE  CInv'
<1> DEFINE customer == call[c].customer
           key      == call[c].key
           row      == [NoRow EXCEPT !.status = "WithRM", !.customer = customer,
                                     !.submission = key]
<1>1. customer \in Customers /\ key \in Keys
  BY DEF CInv, CreditTypeOK, CreateInsert, Transactions, NoTransaction
<1>2. PICK r \in RequestIds : table[r] = NoRow /\ Written(r, row)
  BY DEF CreateInsert, Written
<1>3. /\ row \in Rows /\ row.status = "WithRM" /\ row.forwards = 0 /\ row.decisions = 0
      /\ row.forward = NoKey /\ row.decision = NoKey
      /\ row.customer = customer /\ row.submission = key
  BY <1>1 DEF NoRow, Rows
<1> HIDE DEF row
<1>4. table'[r] = row /\ \A q \in RequestIds \ {r} : table'[q] = table[q]
  BY <1>2 DEF Written, CInv, CreditTypeOK
<1>5. CreditTypeOK'
  BY <1>2, <1>3, EndType DEF CInv, CreditTypeOK, CreateInsert, Written
<1>6. RoundsAlternate'
  BY <1>3, <1>4 DEF CInv, RoundsAlternate
<1>7. SubmittedOnce'
  BY <1>3, <1>4 DEF CInv, SubmittedOnce, CreateInsert, Submitted
<1>8. CarriedKeysTookEffect'
  BY <1>3, <1>4, CreditAssumption DEF CInv, CarriedKeysTookEffect, CreateInsert
<1> QED
  BY <1>5, <1>6, <1>7, <1>8 DEF CInv, AcknowledgedTookEffect, CreateInsert

LEMMA ReplayStep ==
    ASSUME CInv, NEW c \in Calls, NEW op \in {"forward", "decide"}, Replay(c, op)
    PROVE  CInv'
<1>1. PICK r \in RequestIds, key \in Keys :
        r \in Holders(op, key) /\ told' = told \cup {Effect(op, r, key)}
  BY DEF Replay
<1>2. Effect(op, r, key) \in done
  BY <1>1 DEF CInv, CarriedKeysTookEffect, Holders, KeyOf
<1>3. CreditTypeOK'
  BY <1>1, EffectType DEF CInv, CreditTypeOK, Replay
<1>4. AcknowledgedTookEffect'
  BY <1>1, <1>2 DEF CInv, AcknowledgedTookEffect, Replay
<1> QED
  BY <1>3, <1>4 DEF CInv, Replay, RoundsAlternate, SubmittedOnce, CarriedKeysTookEffect

\* An UPDATE that leaves the submission alone and counts the round it closes or
\* opens.
LEMMA UpdateStep ==
    ASSUME CInv, NEW c \in Calls, NEW op \in {"forward", "decide"},
           NEW r \in RequestIds, NEW k \in Keys, NEW row \in Rows,
           table[r] # NoRow, Written(r, row), End(c), TakesEffect(op, r, k),
           row.customer = table[r].customer, row.submission = table[r].submission,
           row.forward = IF op = "forward" THEN k ELSE table[r].forward,
           row.decision = IF op = "decide" THEN k ELSE table[r].decision,
           row.forwards = IF row.status = "PendingApproval" THEN row.decisions + 1
                          ELSE row.decisions
    PROVE  CInv'
<1>1. table'[r] = row /\ \A q \in RequestIds \ {r} : table'[q] = table[q]
  BY DEF Written, CInv, CreditTypeOK
<1>2. CreditTypeOK'
  BY EndType, EffectType DEF CInv, CreditTypeOK, Written, TakesEffect
<1>3. RoundsAlternate'
  BY <1>1 DEF CInv, RoundsAlternate
<1>4. SubmittedOnce'
  BY <1>1 DEF CInv, SubmittedOnce
<1>5. CarriedKeysTookEffect'
  BY <1>1 DEF CInv, CarriedKeysTookEffect, TakesEffect
<1>6. AcknowledgedTookEffect'
  BY DEF CInv, AcknowledgedTookEffect, TakesEffect
<1> QED
  BY <1>2, <1>3, <1>4, <1>5, <1>6 DEF CInv

LEMMA ForwardUpdateStep ==
    ASSUME CInv, NEW c \in Calls, ForwardUpdate(c)
    PROVE  CInv'
<1> DEFINE r   == call[c].request
           k   == call[c].key
           row == [table[r] EXCEPT !.status = "PendingApproval", !.forward = k,
                                   !.forwards = @ + 1]
<1>1. r \in RequestIds /\ k \in Keys
  BY DEF CInv, CreditTypeOK, ForwardUpdate, Transactions, NoTransaction
<1>2. table[r] \in Rows /\ table[r].status = "WithRM"
  BY <1>1 DEF CInv, CreditTypeOK, ForwardUpdate
<1>3. Written(r, row) /\ End(c) /\ TakesEffect("forward", r, k)
  BY DEF ForwardUpdate, Written
<1>4. table[r].forwards = table[r].decisions
  BY <1>1, <1>2 DEF CInv, RoundsAlternate
<1>5. /\ row \in Rows /\ row.status = "PendingApproval"
      /\ row.customer = table[r].customer /\ row.submission = table[r].submission
      /\ row.forward = k /\ row.decision = table[r].decision
      /\ row.forwards = row.decisions + 1
  <2> DEFINE old    == table[r]
             status == "PendingApproval"
  <2> HIDE DEF old, k
  <2>1. old \in Rows /\ k \in Keys /\ old.forwards = old.decisions
    BY <1>1, <1>2, <1>4 DEF old
  <2>2. row = [old EXCEPT !.status = status, !.forward = k,
                          !.forwards = old.forwards + 1]
    BY DEF old
  <2>3. row \in Rows
    <3>1. status \in {"none", "WithRM", "PendingApproval"} \cup Final
      OBVIOUS
    <3>2. old.forwards + 1 \in Nat
      BY <2>1 DEF Rows
    <3> HIDE DEF status, row
    <3> QED
      BY <2>1, <2>2, <3>1, <3>2 DEF Rows
  <2>4. /\ row.status = "PendingApproval" /\ row.forward = k
        /\ row.forwards = old.forwards + 1 /\ row.decisions = old.decisions
    BY <2>1, <2>2 DEF Rows
  <2>5. /\ row.customer = old.customer /\ row.submission = old.submission
        /\ row.decision = old.decision
    BY <2>1, <2>2 DEF Rows
  <2> QED
    BY <2>1, <2>3, <2>4, <2>5 DEF old
<1>6. table[r] # NoRow
  BY <1>2 DEF NoRow
<1> HIDE DEF row, r, k
<1> QED
  BY <1>1, <1>3, <1>5, <1>6, UpdateStep

LEMMA DecideUpdateStep ==
    ASSUME CInv, NEW c \in Calls, DecideUpdate(c)
    PROVE  CInv'
<1> DEFINE r      == call[c].request
           k      == call[c].key
           status == StatusAfter(call[c].decision)
           row    == [table[r] EXCEPT !.status = status, !.decision = k,
                                      !.decisions = @ + 1]
<1>1. r \in RequestIds /\ k \in Keys /\ call[c].decision \in Decisions
  BY DEF CInv, CreditTypeOK, DecideUpdate, Transactions, NoTransaction
<1>2. table[r] \in Rows /\ table[r].status = "PendingApproval"
  BY <1>1 DEF CInv, CreditTypeOK, DecideUpdate
<1>3. Written(r, row) /\ End(c) /\ TakesEffect("decide", r, k)
  BY DEF DecideUpdate, Written
<1>4. table[r].forwards = table[r].decisions + 1
  BY <1>1, <1>2 DEF CInv, RoundsAlternate
<1>5. status \in Final \cup {"WithRM"} /\ status # "PendingApproval"
  BY <1>1, StatusAfterType DEF Final
<1> HIDE DEF status
<1>6. /\ row \in Rows /\ row.status = status
      /\ row.customer = table[r].customer /\ row.submission = table[r].submission
      /\ row.forward = table[r].forward /\ row.decision = k
      /\ row.forwards = row.decisions
  BY <1>1, <1>2, <1>4, <1>5 DEF Rows
<1>7. table[r] # NoRow
  BY <1>2 DEF NoRow
<1> HIDE DEF row, r, k
<1> QED
  BY <1>1, <1>3, <1>5, <1>6, <1>7, UpdateStep

LEMMA QuietStep ==
    ASSUME CInv, NEW c \in Calls, Rollback(c) \/ UNCHANGED creditVars
    PROVE  CInv'
<1>1. UNCHANGED <<table, done, told>>
  BY DEF Rollback, creditVars
<1>2. call' \in [Calls -> Transactions \cup {NoTransaction}]
  BY EndType DEF Rollback, creditVars, CInv, CreditTypeOK
<1> QED
  BY <1>1, <1>2 DEF CInv, CreditTypeOK, RoundsAlternate, SubmittedOnce,
                    CarriedKeysTookEffect, AcknowledgedTookEffect

\* CInv is an invariant however the calls' transactions overlap.
THEOREM CreditInvariant == CreditSpec => []CInv
<1>1. CInv /\ [CreditNext]_creditVars => CInv'
  <2> SUFFICES ASSUME CInv, [CreditNext]_creditVars PROVE CInv'
    OBVIOUS
  <2>1. ASSUME NEW c \in Calls, ForwardReplay(c) \/ DecideReplay(c) PROVE CInv'
    BY <2>1, ReplayStep DEF ForwardReplay, DecideReplay
  <2>2. CASE UNCHANGED creditVars
    BY <2>2 DEF CInv, CreditTypeOK, RoundsAlternate, SubmittedOnce,
                CarriedKeysTookEffect, AcknowledgedTookEffect, creditVars
  <2> QED
    BY <2>1, <2>2, SelectStep, CreateInsertStep, ForwardUpdateStep,
       DecideUpdateStep, QuietStep DEF CreditNext, GetCreditRequest
<1> QED
  BY <1>1, InitCInv, PTL DEF CreditSpec

\* Rows, keys and the calls' transactions keep their types.
THEOREM CreditTypeCorrect == CreditSpec => []CreditTypeOK
<1>1. CInv => CreditTypeOK
  BY DEF CInv
<1> QED
  BY <1>1, CreditInvariant, PTL

\* Every forward is answered by one decision, and no decision comes unasked.
THEOREM RoundsAlwaysAlternate == CreditSpec => []RoundsAlternate
<1>1. CInv => RoundsAlternate
  BY DEF CInv
<1> QED
  BY <1>1, CreditInvariant, PTL

\* The unique index makes overlapping submissions with one key one request.
THEOREM SubmissionsOnce == CreditSpec => []SubmittedOnce
<1>1. CInv => SubmittedOnce
  BY DEF CInv
<1> QED
  BY <1>1, CreditInvariant, PTL

\* What a client was answered 200 for took effect, on the request it named.
THEOREM AcknowledgedEffects == CreditSpec => []AcknowledgedTookEffect
<1>1. CInv => AcknowledgedTookEffect
  BY DEF CInv
<1> QED
  BY <1>1, CreditInvariant, PTL

\* A decided request never changes again.
THEOREM DecisionsStay == CreditSpec => DecisionsFinal
<1>1. ASSUME CInv, NEW c \in Calls, NEW r \in RequestIds, table[r].status \in Final,
             CreateInsert(c) \/ ForwardUpdate(c) \/ DecideUpdate(c)
      PROVE  table'[r] = table[r]
  <2>1. table[r].status \notin {"none", "WithRM", "PendingApproval"} /\ NoRow.status = "none"
    BY <1>1 DEF Final, NoRow
  <2>2. CASE CreateInsert(c)
    BY <1>1, <2>1, <2>2 DEF CreateInsert, CInv, CreditTypeOK
  <2>3. CASE ForwardUpdate(c)
    BY <1>1, <2>1, <2>3 DEF ForwardUpdate, CInv, CreditTypeOK
  <2>4. CASE DecideUpdate(c)
    BY <1>1, <2>1, <2>4 DEF DecideUpdate, CInv, CreditTypeOK
  <2> QED
    BY <1>1, <2>2, <2>3, <2>4
<1>2. CInv /\ [CreditNext]_creditVars =>
        [\A r \in RequestIds :
            table[r].status \in Final => table'[r] = table[r]]_creditVars
  BY <1>1 DEF CreditNext, creditVars, CreateSelect, ForwardSelect, DecideSelect, Begin,
              ForwardReplay, DecideReplay, Replay, Rollback, GetCreditRequest
<1> QED
  BY <1>2, CreditInvariant, PTL DEF CreditSpec, DecisionsFinal
=============================================================================
