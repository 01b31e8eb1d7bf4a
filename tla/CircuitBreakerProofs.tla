------------------------ MODULE CircuitBreakerProofs ------------------------
(***************************************************************************)
(* The breaker's safety for any number of threads, workers, attempts and   *)
(* any thresholds.  What bounds the probes is the clock: a reopened        *)
(* circuit forgets the probes in progress, but a probe that is older than  *)
(* the circuit is open has timed out before the cooldown ends.             *)
(***************************************************************************)
EXTENDS CircuitBreaker, FiniteSetTheorems, TLAPS

\* While the circuit is open, a probe in progress started before it opened;
\* while it is half open, every probe in progress is counted.
ProbesAccounted ==
    guarded = "rag" =>
        /\ Cardinality(Probing) <= HalfOpenMax
        /\ breaker.state = "half_open" => Cardinality(Probing) <= breaker.probes
        /\ breaker.state = "open" => \A c \in Probing : calls[c].age >= breaker.waited

TypeInv == BreakerTypeOK /\ ClosedBelowThreshold

Breakers == [state : {"closed", "open", "half_open"}, failures : 0..Threshold,
             waited : 0..Cooldown, probes : 0..HalfOpenMax]

-----------------------------------------------------------------------------
(* The breaker's methods                                                   *)

LEMMA BreakerFields ==
    ASSUME NEW b \in Breakers
    PROVE  /\ b.state \in {"closed", "open", "half_open"} /\ b.failures \in 0..Threshold
           /\ b.waited \in 0..Cooldown /\ b.probes \in 0..HalfOpenMax
BY DEF Breakers

LEMMA BreakerRecord ==
    ASSUME NEW s \in {"closed", "open", "half_open"}, NEW f \in 0..Threshold,
           NEW w \in 0..Cooldown, NEW p \in 0..HalfOpenMax
    PROVE  [state |-> s, failures |-> f, waited |-> w, probes |-> p] \in Breakers
BY DEF Breakers

LEMMA BreakerUpdates ==
    ASSUME NEW b \in Breakers, NEW s, NEW w, NEW p
    PROVE  /\ [b EXCEPT !.state = s, !.probes = p]
                = [state |-> s, failures |-> b.failures, waited |-> b.waited, probes |-> p]
           /\ [b EXCEPT !.state = s, !.waited = w]
                = [state |-> s, failures |-> b.failures, waited |-> w, probes |-> b.probes]
<1>1. ASSUME NEW x, x = [b EXCEPT !.state = s, !.probes = p]
      PROVE  x = [state |-> s, failures |-> b.failures, waited |-> b.waited, probes |-> p]
  BY <1>1 DEF Breakers
<1>2. ASSUME NEW x, x = [b EXCEPT !.state = s, !.waited = w]
      PROVE  x = [state |-> s, failures |-> b.failures, waited |-> w, probes |-> b.probes]
  BY <1>2 DEF Breakers
<1> QED
  BY <1>1, <1>2

LEMMA BreakerType == BreakerTypeOK => breaker \in Breakers
BY DEF BreakerTypeOK, Breakers

LEMMA ClosedType == Closed \in Breakers /\ Closed.failures < Threshold
<1>1. 0 \in 0..Threshold /\ 0 \in 0..Cooldown /\ 0 \in 0..HalfOpenMax
  BY BreakerAssumption
<1> QED
  BY <1>1, BreakerRecord, BreakerAssumption DEF Closed

LEMMA LookedType ==
    ASSUME BreakerTypeOK
    PROVE  /\ Looked \in Breakers
           /\ Looked.failures = breaker.failures
           /\ Looked.state = "closed" <=> breaker.state = "closed"
<1>1. breaker \in Breakers /\ 0 \in 0..HalfOpenMax
  BY BreakerType, BreakerAssumption
<1>2. CASE breaker.state = "open" /\ breaker.waited >= Cooldown
  <2> DEFINE half == [state |-> "half_open", failures |-> breaker.failures,
                      waited |-> breaker.waited, probes |-> 0]
  <2>1. [breaker EXCEPT !.state = "half_open", !.probes = 0] = half
    BY <1>1, BreakerUpdates
  <2>2. half \in Breakers
    BY <1>1, BreakerFields, BreakerRecord
  <2>3. Looked = half
    BY <1>2, <2>1 DEF Looked
  <2> QED
    BY <1>2, <2>2, <2>3
<1>3. CASE ~(breaker.state = "open" /\ breaker.waited >= Cooldown)
  BY <1>1, <1>3 DEF Looked
<1> QED
  BY <1>2, <1>3

LEMMA AdmittedType ==
    ASSUME NEW b \in Breakers, Admits(b)
    PROVE  /\ Admitted(b) \in Breakers
           /\ Admitted(b).failures = b.failures
           /\ Admitted(b).state = b.state
<1>1. CASE guarded = "rag" /\ b.state = "half_open"
  <2> DEFINE more == [state |-> b.state, failures |-> b.failures, waited |-> b.waited,
                      probes |-> b.probes + 1]
  <2>1. [b EXCEPT !.probes = @ + 1] = more
    BY DEF Breakers
  <2>2. b.probes + 1 \in 0..HalfOpenMax
    BY <1>1, BreakerFields, BreakerAssumption DEF Admits
  <2>3. more \in Breakers
    BY <2>2, BreakerFields, BreakerRecord
  <2>4. Admitted(b) = more
    BY <1>1, <2>1 DEF Admitted
  <2> QED
    BY <2>3, <2>4
<1>2. CASE ~(guarded = "rag" /\ b.state = "half_open")
  BY <1>2 DEF Admitted
<1> QED
  BY <1>1, <1>2

LEMMA OpenedType ==
    ASSUME NEW b \in Breakers
    PROVE  /\ Opened(b) \in Breakers /\ Opened(b).state = "open" /\ Opened(b).waited = 0
           /\ Opened(b).failures = b.failures /\ Opened(b).probes = b.probes
<1> DEFINE open == [state |-> "open", failures |-> b.failures, waited |-> 0,
                    probes |-> b.probes]
<1>1. Opened(b) = open
  BY BreakerUpdates DEF Opened
<1>2. 0 \in 0..Cooldown
  BY BreakerAssumption
<1>3. open \in Breakers
  BY <1>2, BreakerFields, BreakerRecord
<1> QED
  BY <1>1, <1>3

\* What a failure leaves: the circuit reopened, or one failure more.
LEMMA FailedType ==
    ASSUME BreakerTypeOK, ClosedBelowThreshold
    PROVE  /\ Failed(breaker) \in Breakers
           /\ Failed(breaker).state = "closed" <=> Failed(breaker).failures < Threshold
           /\ \/ Failed(breaker).state = "open" /\ Failed(breaker).waited = 0
              \/ Failed(breaker).state = "closed"
<1>1. breaker \in Breakers /\ 0 \in 0..HalfOpenMax
  BY BreakerType, BreakerAssumption
<1>2. CASE guarded = "rag" /\ breaker.state = "half_open"
  <2> DEFINE open == Opened(breaker)
             again == [state |-> open.state, failures |-> open.failures,
                       waited |-> open.waited, probes |-> 0]
  <2>1. open \in Breakers /\ open.state = "open" /\ open.failures = breaker.failures
        /\ open.waited = 0
    BY <1>1, OpenedType
  <2> HIDE DEF open
  <2>2. [open EXCEPT !.probes = 0] = again
    BY <2>1 DEF Breakers
  <2>3. again \in Breakers
    BY <1>1, <2>1, BreakerFields, BreakerRecord
  <2>4. Failed(breaker) = again
    BY <1>2, <2>2 DEF Failed, open
  <2>5. ~(breaker.failures < Threshold)
    BY <1>2 DEF ClosedBelowThreshold
  <2> QED
    BY <2>1, <2>3, <2>4, <2>5
<1>3. CASE ~(guarded = "rag" /\ breaker.state = "half_open")
  <2> DEFINE f == AtMost(breaker.failures + 1, Threshold)
             except == [breaker EXCEPT !.failures = AtMost(@ + 1, Threshold)]
             counted == [state |-> breaker.state, failures |-> f,
                         waited |-> breaker.waited, probes |-> breaker.probes]
  <2>1. except = counted
    BY <1>1 DEF Breakers
  <2>2. f \in 0..Threshold /\ (f < Threshold => breaker.failures < Threshold)
    BY <1>1, BreakerFields, BreakerAssumption DEF AtMost
  <2>3. counted \in Breakers
    BY <1>1, <2>2, BreakerFields, BreakerRecord
  <2>4. counted.state = breaker.state /\ counted.failures = f
    OBVIOUS
  <2>5. Failed(breaker) = IF except.failures >= Threshold THEN Opened(except) ELSE except
    BY <1>3 DEF Failed
  <2>6. Failed(breaker) = IF f >= Threshold THEN Opened(counted) ELSE counted
    BY <2>1, <2>4, <2>5
  <2> HIDE DEF counted, except, f
  <2>7. CASE f >= Threshold
    BY <2>2, <2>3, <2>4, <2>6, <2>7, OpenedType, BreakerAssumption
  <2>8. CASE ~(f >= Threshold)
    BY <2>2, <2>3, <2>4, <2>6, <2>8, BreakerAssumption DEF ClosedBelowThreshold
  <2> QED
    BY <2>7, <2>8
<1> QED
  BY <1>2, <1>3

LEMMA RecordedType ==
    ASSUME BreakerTypeOK, ClosedBelowThreshold, NEW answer \in Upstream
    PROVE  /\ Recorded(answer) \in Breakers
           /\ Recorded(answer).state = "closed" <=> Recorded(answer).failures < Threshold
<1>1. Closed.state = "closed"
  BY DEF Closed
<1> QED
  BY <1>1, ClosedType, FailedType
     DEF Recorded, Upstream, BreakerTypeOK, Breakers, ClosedBelowThreshold

-----------------------------------------------------------------------------
(* The first two parts                                                     *)

LEMMA CallTypes ==
    /\ NoCall \in Call
    /\ \A known, probe \in BOOLEAN :
        [NoCall EXCEPT !.pc = "calling", !.known = known, !.probe = probe] \in Call
<1> DEFINE idle == "idle"
           calling == "calling"
<1>1. 0 \in 0..Timeout /\ 1 \in 1..Attempts
  BY BreakerAssumption
<1>2. Call = [pc : {idle, calling}, age : 0..Timeout, probe : BOOLEAN,
              attempt : 1..Attempts, known : BOOLEAN]
  BY DEF Call
<1>3. NoCall = [pc |-> idle, age |-> 0, probe |-> FALSE, attempt |-> 1, known |-> TRUE]
  BY DEF NoCall
<1> HIDE DEF idle, calling
<1>4. NoCall \in Call
  BY <1>1, <1>2, <1>3
<1>5. ASSUME NEW known \in BOOLEAN, NEW probe \in BOOLEAN,
             NEW x, x = [NoCall EXCEPT !.pc = calling, !.known = known, !.probe = probe]
      PROVE  x \in Call
  <2>1. x = [pc |-> calling, age |-> 0, probe |-> probe, attempt |-> 1, known |-> known]
    BY <1>3, <1>5
  <2> QED
    BY <1>1, <1>2, <2>1
<1> QED
  BY <1>4, <1>5 DEF calling

LEMMA InitTypeInv == Init => TypeInv
<1>1. ASSUME Init PROVE BreakerTypeOK
  <2>1. NoCall \in Call
    BY CallTypes
  <2>2. breaker \in Breakers
    BY <1>1, ClosedType DEF Init
  <2> QED
    BY <1>1, <2>1, <2>2 DEF Init, BreakerTypeOK, Breakers
<1>2. ASSUME Init PROVE ClosedBelowThreshold
  BY <1>2, ClosedType DEF Init, ClosedBelowThreshold, Closed
<1> QED
  BY <1>1, <1>2 DEF TypeInv

LEMMA StartTyped ==
    ASSUME TypeInv, NEW c \in Callers, Start(c)
    PROVE  TypeInv'
<1> USE DEF TypeInv
<1>1. /\ breaker' \in Breakers /\ breaker'.failures = breaker.failures
      /\ breaker'.state = "closed" <=> breaker.state = "closed"
  BY LookedType, AdmittedType DEF Start
<1>2. calls' \in [Callers -> Call]
  <2>1. PICK known \in BOOLEAN :
            calls' = [calls EXCEPT ![c] =
                        [NoCall EXCEPT !.pc = "calling", !.known = known,
                                       !.probe = Looked.state = "half_open"]]
    BY DEF Start
  <2>2. (Looked.state = "half_open") \in BOOLEAN
    OBVIOUS
  <2> QED
    BY <2>1, <2>2, CallTypes DEF BreakerTypeOK
<1>3. tasks' \in Seq(Callers \cup {Abandoned})
  BY DEF Start, BreakerTypeOK
<1>4. UNCHANGED <<guarded, upstream>>
  BY DEF Start
<1>5. BreakerTypeOK'
  BY <1>1, <1>2, <1>3, <1>4 DEF BreakerTypeOK, Breakers
<1> QED
  BY <1>1, <1>5 DEF ClosedBelowThreshold

LEMMA RefusedTyped ==
    ASSUME TypeInv, NEW c \in Callers, Refused(c)
    PROVE  TypeInv'
BY LookedType DEF TypeInv, Refused, BreakerTypeOK, Breakers, ClosedBelowThreshold

LEMMA RemovedType ==
    ASSUME BreakerTypeOK, NEW i \in Running
    PROVE  TaskRemoved(i) \in Seq(Callers \cup {Abandoned})
<1>1. Len(tasks) \in Nat /\ i \in 1..Len(tasks)
  BY BreakerAssumption DEF Running, AtMost, BreakerTypeOK
<1>2. Len(tasks) - 1 \in Nat
  BY <1>1
<1>3. \A j \in 1..(Len(tasks) - 1) : j \in 1..Len(tasks) /\ j + 1 \in 1..Len(tasks)
  BY <1>1
<1>4. \A j \in 1..Len(tasks) : tasks[j] \in Callers \cup {Abandoned}
  BY DEF BreakerTypeOK
<1>5. TaskRemoved(i) \in [1..(Len(tasks) - 1) -> Callers \cup {Abandoned}]
  BY <1>3, <1>4 DEF TaskRemoved
<1> QED
  BY <1>2, <1>5

LEMMA RagAnswerTyped ==
    ASSUME TypeInv, NEW i, RagAnswer(i)
    PROVE  TypeInv'
<1> USE DEF TypeInv
<1>1. /\ i \in Running /\ tasks' = TaskRemoved(i) /\ UNCHANGED <<guarded, upstream>>
  BY DEF RagAnswer
<1>2. tasks' \in Seq(Callers \cup {Abandoned})
  BY <1>1, RemovedType
<1>3. CASE tasks[i] = Abandoned
  BY <1>1, <1>2, <1>3 DEF RagAnswer, BreakerTypeOK, ClosedBelowThreshold
<1>4. CASE tasks[i] # Abandoned
  <2>1. breaker' = Recorded(upstream) /\ calls' = [calls EXCEPT ![tasks[i]] = NoCall]
    BY <1>4 DEF RagAnswer
  <2>2. upstream \in Upstream
    BY DEF BreakerTypeOK
  <2>3. calls' \in [Callers -> Call]
    BY <2>1, CallTypes DEF BreakerTypeOK
  <2> QED
    BY <1>1, <1>2, <2>1, <2>2, <2>3, RecordedType
       DEF BreakerTypeOK, Breakers, ClosedBelowThreshold
<1> QED
  BY <1>3, <1>4

LEMMA CrmTyped ==
    ASSUME TypeInv, NEW c \in Callers, CrmRetry(c) \/ CrmAnswer(c)
    PROVE  TypeInv'
<1> USE DEF TypeInv
<1>1. CASE CrmRetry(c)
  <2>1. calls' \in [Callers -> Call]
    <3>1. c \in Callers /\ calls[c] \in Call /\ calls[c].attempt < Attempts
      BY <1>1 DEF CrmRetry, BreakerTypeOK
    <3>2. [calls[c] EXCEPT !.attempt = @ + 1] \in Call
      BY <3>1, BreakerAssumption DEF Call
    <3> QED
      BY <1>1, <3>1, <3>2 DEF CrmRetry, BreakerTypeOK
  <2> QED
    BY <1>1, <2>1 DEF CrmRetry, BreakerTypeOK, ClosedBelowThreshold
<1>2. CASE CrmAnswer(c)
  <2>1. CrmAnswerTo(c) \in Upstream
    BY DEF CrmAnswerTo, Upstream, BreakerTypeOK
  <2>2. calls' \in [Callers -> Call]
    BY <1>2, CallTypes DEF CrmAnswer, BreakerTypeOK
  <2> QED
    BY <1>2, <2>1, <2>2, RecordedType
       DEF CrmAnswer, BreakerTypeOK, Breakers, ClosedBelowThreshold
<1> QED
  BY <1>1, <1>2

LEMMA TimedOutTyped ==
    ASSUME TypeInv, NEW c \in Callers, TimedOut(c)
    PROVE  TypeInv'
<1> USE DEF TypeInv
<1>1. calls' \in [Callers -> Call]
  BY CallTypes DEF TimedOut, BreakerTypeOK
<1>2. tasks' \in Seq(Callers \cup {Abandoned})
  <2>1. /\ tasks' = [i \in 1..Len(tasks) |-> IF tasks[i] = c THEN Abandoned ELSE tasks[i]]
        /\ Len(tasks) \in Nat
        /\ \A i \in 1..Len(tasks) : tasks[i] \in Callers \cup {Abandoned}
    BY DEF TimedOut, BreakerTypeOK
  <2>2. tasks' \in [1..Len(tasks) -> Callers \cup {Abandoned}]
    BY <2>1
  <2> QED
    BY <2>1, <2>2
<1> QED
  BY <1>1, <1>2, FailedType DEF TimedOut, BreakerTypeOK, Breakers, ClosedBelowThreshold

LEMMA TickTyped ==
    ASSUME TypeInv, Tick
    PROVE  TypeInv'
<1> USE DEF TypeInv
<1>1. /\ breaker' \in Breakers /\ breaker'.failures = breaker.failures
      /\ breaker'.state = breaker.state
  BY BreakerAssumption DEF Tick, BreakerTypeOK, Breakers, AtMost
<1>2. calls' \in [Callers -> Call]
  <2>1. ASSUME NEW c \in Callers, guarded = "rag", c \in Calling
        PROVE  [calls[c] EXCEPT !.age = @ + 1] \in Call
    <3>1. calls[c] \in Call /\ calls[c].age < Timeout
      BY <2>1 DEF Tick, BreakerTypeOK
    <3> QED
      BY <3>1, BreakerAssumption DEF Call
  <2> QED
    BY <2>1 DEF Tick, BreakerTypeOK
<1> QED
  BY <1>1, <1>2 DEF Tick, BreakerTypeOK, Breakers, ClosedBelowThreshold

LEMMA NextTypeInv == TypeInv /\ [Next]_vars => TypeInv'
<1>1. ASSUME TypeInv, UpstreamChanges \/ UNCHANGED vars
      PROVE  TypeInv'
  BY <1>1 DEF TypeInv, UpstreamChanges, vars, BreakerTypeOK, ClosedBelowThreshold
<1> QED
  BY <1>1, StartTyped, RefusedTyped, RagAnswerTyped, CrmTyped, TimedOutTyped, TickTyped
     DEF Next, Ask, AnswerTo

\* The fields of both breakers keep their ranges: failures and probes are
\* counted no further than their limits.
THEOREM BreakerTypeCorrect == Spec => []BreakerTypeOK
<1>1. TypeInv => BreakerTypeOK
  BY DEF TypeInv
<1> QED
  BY <1>1, InitTypeInv, NextTypeInv, PTL DEF Spec

\* A closed circuit is one with fewer failures than the threshold since the
\* last success, in every order of the threads' answers and timeouts.
THEOREM ClosedMeansBelow == Spec => []ClosedBelowThreshold
<1>1. TypeInv => ClosedBelowThreshold
  BY DEF TypeInv
<1> QED
  BY <1>1, InitTypeInv, NextTypeInv, PTL DEF Spec
-----------------------------------------------------------------------------
(* The probes                                                              *)

LEMMA ProbingFinite ==
    /\ IsFiniteSet(Probing) /\ Cardinality(Probing) \in Nat
    /\ \A smaller \in SUBSET Probing :
        Cardinality(smaller) \in Nat /\ Cardinality(smaller) <= Cardinality(Probing)
<1>1. Probing \subseteq Callers
  BY DEF Probing, Calling
<1>2. IsFiniteSet(Probing)
  BY <1>1, FS_Subset, BreakerAssumption
<1> QED
  BY <1>2, FS_Subset, FS_CardinalityType

\* A step that starts no probe and makes none younger, and leaves the breaker
\* as it was for them, or closed, or just opened.
LEMMA FewerProbes ==
    ASSUME TypeInv, ProbesAccounted, guarded' = guarded,
           guarded = "rag" =>
              /\ Probing' \subseteq Probing
              /\ \A c \in Probing' : calls'[c].age >= calls[c].age
              /\ \/ breaker' = breaker
                 \/ breaker'.state = "closed"
                 \/ breaker'.state = "open" /\ breaker'.waited = 0
           , TypeInv'
    PROVE  ProbesAccounted'
<1> SUFFICES ASSUME guarded = "rag"
             PROVE  /\ Cardinality(Probing)' <= HalfOpenMax
                    /\ breaker'.state = "half_open" => Cardinality(Probing)' <= breaker'.probes
                    /\ breaker'.state = "open" =>
                            \A c \in Probing' : calls'[c].age >= breaker'.waited
  BY DEF ProbesAccounted
<1>1. Cardinality(Probing)' \in Nat /\ Cardinality(Probing)' <= Cardinality(Probing)
      /\ Cardinality(Probing) \in Nat /\ Cardinality(Probing) <= HalfOpenMax
  BY ProbingFinite DEF ProbesAccounted
<1>2. /\ \A c \in Probing' : calls[c].age \in Nat /\ calls'[c].age \in Nat
      /\ breaker.waited \in Nat /\ breaker.probes \in Nat
  BY BreakerAssumption DEF TypeInv, BreakerTypeOK, Call, Probing, Calling
<1>3. CASE breaker' = breaker
  BY <1>1, <1>2, <1>3, BreakerAssumption DEF ProbesAccounted
<1>4. CASE breaker'.state = "closed"
  BY <1>1, <1>4, BreakerAssumption
<1>5. CASE breaker'.state = "open" /\ breaker'.waited = 0
  BY <1>1, <1>2, <1>5, BreakerAssumption
<1> QED
  BY <1>3, <1>4, <1>5

\* Once the cooldown is over every probe has timed out.
LEMMA CooledDown ==
    ASSUME TypeInv, ProbesAccounted, guarded = "rag",
           breaker.state = "open", breaker.waited >= Cooldown
    PROVE  Probing = {}
<1>1. SUFFICES ASSUME NEW c \in Probing PROVE FALSE
  OBVIOUS
<1>2. /\ calls[c].age \in 0..Timeout /\ breaker.waited \in 0..Cooldown
      /\ calls[c].age >= breaker.waited
  BY <1>1 DEF TypeInv, BreakerTypeOK, Call, Probing, Calling, ProbesAccounted
<1> QED
  BY <1>2, BreakerAssumption

\* To look at the breaker keeps the account.
LEMMA LookedAccounted ==
    ASSUME TypeInv, ProbesAccounted, guarded = "rag"
    PROVE  /\ Looked.state = "half_open" =>
                Looked.probes \in Nat /\ Cardinality(Probing) <= Looked.probes
           /\ Looked.state = "open" => Looked = breaker
           /\ Looked = breaker \/ Probing = {}
<1>1. CASE breaker.state = "open" /\ breaker.waited >= Cooldown
  <2>1. Cardinality(Probing) = 0 /\ Probing = {}
    BY <1>1, CooledDown, FS_EmptySet
  <2>2. Looked = [breaker EXCEPT !.state = "half_open", !.probes = 0]
    BY <1>1 DEF Looked
  <2>3. breaker \in Breakers
    BY BreakerType DEF TypeInv
  <2>4. Looked.state = "half_open" /\ Looked.probes = 0
    BY <2>2, <2>3, BreakerUpdates
  <2> QED
    BY <2>1, <2>4
<1>2. CASE ~(breaker.state = "open" /\ breaker.waited >= Cooldown)
  <2>1. Looked = breaker /\ breaker.probes \in Nat
    BY <1>2, BreakerAssumption DEF Looked, TypeInv, BreakerTypeOK
  <2> QED
    BY <2>1 DEF ProbesAccounted
<1> QED
  BY <1>1, <1>2

LEMMA StartAccounted ==
    ASSUME TypeInv, ProbesAccounted, NEW c \in Callers, Start(c), TypeInv'
    PROVE  ProbesAccounted'
<1>1. SUFFICES ASSUME guarded = "rag"
               PROVE  ProbesAccounted'
  BY DEF ProbesAccounted, Start
<1>2. PICK known \in BOOLEAN :
        calls' = [calls EXCEPT ![c] = [NoCall EXCEPT !.pc = "calling", !.known = known,
                                            !.probe = Looked.state = "half_open"]]
  BY DEF Start
<1>3. /\ c \notin Probing
      /\ calls'[c].probe = (Looked.state = "half_open")
      /\ \A d \in Callers \ {c} : calls'[d] = calls[d]
  BY <1>2 DEF Start, Probing, Calling, NoCall, TypeInv, BreakerTypeOK
<1>4. CASE Looked.state = "half_open"
  <2>1. Probing' \subseteq Probing \cup {c}
    BY <1>3 DEF Probing, Calling
  <2>2. /\ Cardinality(Probing)' \in Nat
        /\ Cardinality(Probing)' <= Cardinality(Probing) + 1
    <3>1. IsFiniteSet(Probing \cup {c})
          /\ Cardinality(Probing \cup {c}) = Cardinality(Probing) + 1
      BY <1>3, ProbingFinite, FS_AddElement
    <3> QED
      BY <2>1, <3>1, FS_Subset, FS_CardinalityType
  <2>3. /\ Looked.probes \in Nat /\ Cardinality(Probing) <= Looked.probes
        /\ Looked.probes < HalfOpenMax
    BY <1>1, <1>4, LookedAccounted DEF Start, Admits
  <2>4. breaker' = Admitted(Looked) /\ Looked \in Breakers
    BY LookedType DEF Start, TypeInv
  <2>5. breaker'.state = "half_open" /\ breaker'.probes = Looked.probes + 1
    BY <1>1, <1>4, <2>4 DEF Admitted, Breakers
  <2> QED
    BY <2>2, <2>3, <2>5, ProbingFinite, BreakerAssumption DEF ProbesAccounted
<1>5. CASE Looked.state # "half_open"
  <2>1. Probing' \subseteq Probing /\ \A d \in Probing' : calls'[d].age >= calls[d].age
    <3>1. \A d \in Probing' : d \in Probing /\ calls'[d] = calls[d]
      BY <1>3, <1>5 DEF Probing, Calling
    <3>2. \A d \in Probing : calls[d].age \in Nat
      BY BreakerAssumption DEF TypeInv, BreakerTypeOK, Call, Probing, Calling
    <3> QED
      BY <3>1, <3>2
  <2>2. breaker'.state = "closed"
    BY <1>5, LookedType, AdmittedType DEF Start, Admits, TypeInv
  <2> QED
    BY <2>1, <2>2, FewerProbes DEF Start
<1> QED
  BY <1>4, <1>5

LEMMA RefusedAccounted ==
    ASSUME TypeInv, ProbesAccounted, NEW c \in Callers, Refused(c), TypeInv'
    PROVE  ProbesAccounted'
<1>1. SUFFICES ASSUME guarded = "rag"
               PROVE  ProbesAccounted'
  BY DEF ProbesAccounted, Refused
<1>2. breaker' = Looked /\ Probing' = Probing /\ UNCHANGED <<guarded, calls>>
  BY DEF Refused, Probing, Calling
<1> QED
  BY <1>1, <1>2, LookedAccounted DEF ProbesAccounted

\* An answer that is recorded: for the breaker it is a success, a failure or
\* nothing.
LEMMA RecordedAccounted ==
    ASSUME TypeInv, NEW answer \in Upstream, guarded = "rag"
    PROVE  \/ Recorded(answer) = breaker
           \/ Recorded(answer).state = "closed"
           \/ Recorded(answer).state = "open" /\ Recorded(answer).waited = 0
<1>1. Closed.state = "closed"
  BY DEF Closed
<1> QED
  BY <1>1, FailedType DEF Recorded, Upstream, TypeInv

\* A caller that is answered probes no longer.
LEMMA EndedProbes ==
    ASSUME TypeInv, NEW c \in Callers, calls' = [calls EXCEPT ![c] = NoCall]
    PROVE  Probing' \subseteq Probing /\ \A d \in Probing' : calls'[d].age >= calls[d].age
<1>1. calls'[c].pc = "idle" /\ \A d \in Callers \ {c} : calls'[d] = calls[d]
  BY DEF NoCall, TypeInv, BreakerTypeOK
<1>2. \A d \in Probing' : d \in Probing /\ calls'[d] = calls[d]
  BY <1>1 DEF Probing, Calling
<1>3. \A d \in Probing : calls[d].age \in Nat
  BY BreakerAssumption DEF TypeInv, BreakerTypeOK, Call, Probing, Calling
<1> QED
  BY <1>2, <1>3

LEMMA RagAnswerAccounted ==
    ASSUME TypeInv, ProbesAccounted, NEW i, RagAnswer(i), TypeInv'
    PROVE  ProbesAccounted'
<1>1. CASE tasks[i] = Abandoned
  BY <1>1 DEF RagAnswer, ProbesAccounted, Probing, Calling
<1>2. CASE tasks[i] # Abandoned
  <2>1. i \in 1..Len(tasks)
    BY BreakerAssumption DEF RagAnswer, Running, AtMost, TypeInv, BreakerTypeOK
  <2>2. tasks[i] \in Callers
    BY <1>2, <2>1 DEF TypeInv, BreakerTypeOK
  <2>3. /\ breaker' = Recorded(upstream) /\ calls' = [calls EXCEPT ![tasks[i]] = NoCall]
        /\ guarded = "rag" /\ guarded' = guarded /\ upstream \in Upstream
    BY <1>2 DEF RagAnswer, TypeInv, BreakerTypeOK
  <2>4. Probing' \subseteq Probing /\ \A d \in Probing' : calls'[d].age >= calls[d].age
    BY <2>2, <2>3, EndedProbes
  <2>5. \/ breaker' = breaker
        \/ breaker'.state = "closed"
        \/ breaker'.state = "open" /\ breaker'.waited = 0
    BY <2>3, RecordedAccounted
  <2> QED
    BY <2>3, <2>4, <2>5, FewerProbes
<1> QED
  BY <1>1, <1>2

LEMMA TimedOutAccounted ==
    ASSUME TypeInv, ProbesAccounted, NEW c \in Callers, TimedOut(c), TypeInv'
    PROVE  ProbesAccounted'
<1>1. /\ breaker' = Failed(breaker) /\ calls' = [calls EXCEPT ![c] = NoCall]
      /\ guarded' = guarded
  BY DEF TimedOut
<1>2. Probing' \subseteq Probing /\ \A d \in Probing' : calls'[d].age >= calls[d].age
  BY <1>1, EndedProbes
<1>3. \/ breaker'.state = "closed"
      \/ breaker'.state = "open" /\ breaker'.waited = 0
  BY <1>1, FailedType DEF TypeInv
<1> QED
  BY <1>1, <1>2, <1>3, FewerProbes

LEMMA TickAccounted ==
    ASSUME TypeInv, ProbesAccounted, Tick, TypeInv'
    PROVE  ProbesAccounted'
<1>1. SUFFICES ASSUME guarded = "rag"
               PROVE  ProbesAccounted'
  BY DEF ProbesAccounted, Tick
<1>2. ASSUME NEW c \in Callers
      PROVE  /\ calls'[c].pc = calls[c].pc /\ calls'[c].probe = calls[c].probe
             /\ c \in Calling => calls'[c].age = calls[c].age + 1
  <2>1. calls[c] \in Call
    BY DEF TypeInv, BreakerTypeOK
  <2>2. CASE c \in Calling
    <3>1. calls'[c] = [calls[c] EXCEPT !.age = @ + 1]
      BY <1>1, <2>2 DEF Tick
    <3> QED
      BY <2>1, <3>1 DEF Call
  <2>3. CASE c \notin Calling
    BY <2>3 DEF Tick
  <2> QED
    BY <2>2, <2>3
<1>3. Probing' = Probing
  BY <1>2 DEF Probing, Calling
<1>4. CASE breaker.state = "open"
  <2>1. breaker'.state = "open" /\ breaker'.waited = AtMost(breaker.waited + 1, Cooldown)
    BY <1>4 DEF Tick, TypeInv, BreakerTypeOK
  <2>2. breaker.waited \in Nat /\ AtMost(breaker.waited + 1, Cooldown) <= breaker.waited + 1
        /\ AtMost(breaker.waited + 1, Cooldown) \in Nat
    BY BreakerAssumption DEF AtMost, TypeInv, BreakerTypeOK
  <2>3. \A c \in Probing :
            c \in Callers /\ c \in Calling /\ calls[c].age \in Nat
                /\ calls[c].age >= breaker.waited
    BY <1>1, <1>4, BreakerAssumption
       DEF ProbesAccounted, TypeInv, BreakerTypeOK, Call, Probing, Calling
  <2>4. \A c \in Probing : calls'[c].age >= breaker'.waited
    BY <1>2, <2>1, <2>2, <2>3
  <2> QED
    BY <1>1, <1>3, <2>1, <2>4 DEF ProbesAccounted
<1>5. CASE breaker.state # "open"
  BY <1>1, <1>3, <1>5 DEF Tick, ProbesAccounted
<1> QED
  BY <1>4, <1>5

LEMMA InitAccounted == Init => ProbesAccounted
<1> SUFFICES ASSUME Init PROVE ProbesAccounted
  OBVIOUS
<1>1. Probing = {}
  BY DEF Init, Probing, Calling, NoCall
<1>2. breaker.state = "closed"
  BY DEF Init, Closed
<1> QED
  BY <1>1, <1>2, FS_EmptySet, BreakerAssumption DEF ProbesAccounted

LEMMA NextAccounted == TypeInv /\ ProbesAccounted /\ [Next]_vars => ProbesAccounted'
<1> SUFFICES ASSUME TypeInv, ProbesAccounted, [Next]_vars
             PROVE  ProbesAccounted'
  OBVIOUS
<1>1. TypeInv'
  BY NextTypeInv
<1>2. CASE UpstreamChanges \/ UNCHANGED vars
  BY <1>2 DEF UpstreamChanges, vars, ProbesAccounted, Probing, Calling
<1>3. ASSUME NEW c \in Callers, CrmRetry(c) \/ CrmAnswer(c)
      PROVE  ProbesAccounted'
  BY <1>3 DEF CrmRetry, CrmAnswer, ProbesAccounted
<1> QED
  BY <1>1, <1>2, <1>3, StartAccounted, RefusedAccounted, RagAnswerAccounted,
     TimedOutAccounted, TickAccounted DEF Next, Ask, AnswerTo

\* No more than half_open_max_calls threads probe a failed upstream at once,
\* because the timeout of a call is shorter than the cooldown.
THEOREM ProbesStayBounded == Spec => []ProbesBounded
<1>1. ProbesAccounted => ProbesBounded
  BY DEF ProbesAccounted, ProbesBounded
<1> QED
  BY <1>1, InitTypeInv, NextTypeInv, InitAccounted, NextAccounted, PTL DEF Spec
=============================================================================
