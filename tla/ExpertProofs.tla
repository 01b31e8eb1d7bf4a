----------------------------- MODULE ExpertProofs -----------------------------
(* What the experts' analyses promise.                                       *)
(*                                                                           *)
(* First one analysis, for any catalog, rule registry, customers, documents, *)
(* index and bounds.  The results of a case belong together: the verdict is  *)
(* on the products recommended, and the credit expert's blocks are those of  *)
(* that verdict, in every state in between, whatever an analysis keeps of    *)
(* the one before.  That makes a case that is stored sound to start the next *)
(* analysis with at any node, which is the induction.                        *)
(*                                                                           *)
(* Then the team, for any number of analyses on the one engine.  What holds  *)
(* of a run says how far it is on its way through the graph: its findings    *)
(* are of nodes passed, in their order, and once credit has answered, its    *)
(* result, the second search's result and its finding agree.                 *)
EXTENDS ExpertAnalysis, ExpertTeam, FiniteSetTheorems, SequenceTheorems,
        WellFoundedInduction, TLAPS

-----------------------------------------------------------------------------
(* One analysis: the invariant.                                            *)

CaseFields ==
    {"status", "loops", "facts", "profile", "docs", "recs", "verdict", "credit",
     "insurance", "synthesis", "evidences", "gate", "cleared", "questions",
     "readiness", "skipped"}

Shape(c) == c = [f \in CaseFields |-> c[f]]

\* The verdict is on the products recommended, each of which a blocking rule
\* was checked for, and the credit expert's blocks are those of the verdict.
Evaluated(c) ==
    /\ c.recs \in Recommendations
    /\ c.verdict.products = Named(c.recs)
    /\ \A e \in c.verdict.rules : e.rule \in Rules /\ e.status \in Statuses
    /\ \A p \in Named(c.recs) :
          \E e \in c.verdict.rules : e.product = p /\ Rule[e.rule].blocking
    /\ c.credit = HardBlocks(c.recs, c.verdict)

\* What an analysis may begin with.
Given(c) ==
    /\ Shape(c)
    /\ c.loops \in 0 .. MaxLoops
    /\ c.facts \in [Fields -> Int \cup {Unknown}] /\ c.docs \in [DocTypes -> DocStatuses]
    /\ c.recs # Unknown => c.recs \in Recommendations
    /\ c.verdict # Unknown => c.recs # Unknown /\ Evaluated(c)

\* An analysis was completed.
Done(c) ==
    /\ Evaluated(c)
    /\ c.synthesis.blocked \subseteq Named(c.recs)
    /\ Cardinality(c.synthesis.alternatives) <= 2

Current(c) == c.verdict = Evaluate(Named(c.recs), Effective(c), c.docs, c.verdict.at)

NotLaundered(c) ==
    /\ {e.product : e \in c.credit} \subseteq c.synthesis.blocked
    /\ ({c.synthesis.primary} \cup c.synthesis.alternatives) \cap c.synthesis.blocked = {}

\* What a case is that is stored.
Stored(c) ==
    /\ Given(c) /\ c.status \in Results \ {"new"}
    /\ c.status # "none" => Done(c)
    /\ c.status = "pending_approval" /\ ~c.cleared =>
          (\A e \in c.evidences : e.valid) /\ Aggregate(c.verdict.rules) = "passed"
    /\ c.status \notin {"none", "failed"} /\ ~c.skipped => Current(c) /\ NotLaundered(c)
    /\ c.status = "pending_information" => c.questions # {}

WorldOK ==
    /\ day \in 0 .. MaxDay /\ edits \in 0 .. MaxEdits /\ calls \in 0 .. MaxCalls
    /\ index \in [Products \cup Sources -> [text : {0, 1}, active : BOOLEAN]]

EInv == WorldOK /\ Stored(case)

-----------------------------------------------------------------------------
(* One analysis: the rule engine.                                          *)

LEMMA ExecuteStatus == \A r, facts, docs : Execute(r, facts, docs) \in Statuses
BY DEF Execute, Compared, Statuses

\* The engine evaluates the products it is given, all of them, and no other.
LEMMA EvaluateRules ==
    ASSUME NEW products, products \subseteq Products, NEW facts, NEW docs,
           NEW d \in 0 .. MaxDay, NEW v, v = Evaluate(products, facts, docs, d)
    PROVE  /\ v.products = products /\ v.at = d
           /\ \A e \in v.rules : e.product \in products /\ e.rule \in Rules /\ e.status \in Statuses
<1>1. /\ v.products = products /\ v.at = d
      /\ v.rules = UNION {{[product |-> p, rule |-> r, status |-> Execute(r, facts, docs)] :
                              r \in InForce(p, d)} : p \in products}
  BY DEF Evaluate
<1>2. ASSUME NEW e \in v.rules
      PROVE  e.product \in products /\ e.rule \in Rules /\ e.status \in Statuses
  <2>1. PICK p \in products : \E r \in InForce(p, d) :
               e = [product |-> p, rule |-> r, status |-> Execute(r, facts, docs)]
    BY <1>1
  <2>2. PICK r \in InForce(p, d) :
               e = [product |-> p, rule |-> r, status |-> Execute(r, facts, docs)]
    BY <2>1
  <2> QED
    BY <2>2, ExecuteStatus DEF InForce
<1> QED
  BY <1>1, <1>2

\* And each of them by a blocking rule.
LEMMA BlockingRule ==
    ASSUME NEW products, NEW p \in products, p \in Products, NEW facts, NEW docs,
           NEW d \in 0 .. MaxDay, NEW v, v = Evaluate(products, facts, docs, d)
    PROVE  \E e \in v.rules : e.product = p /\ Rule[e.rule].blocking
<1>1. PICK r \in Rules : Rule[r].blocking /\ r \in InForce(p, d)
  BY RegistryAssumption DEF InForce
<1> DEFINE e == [product |-> p, rule |-> r, status |-> Execute(r, facts, docs)]
<1>2. e \in v.rules
  BY <1>1 DEF Evaluate
<1> QED
  BY <1>1, <1>2

\* What it says of a product does not depend on the others it is given.
LEMMA StatusAlone ==
    ASSUME NEW ps, NEW qs, NEW facts, NEW docs, NEW d, NEW p \in ps \cap qs
    PROVE  StatusOf(Evaluate(ps, facts, docs, d), p) = StatusOf(Evaluate(qs, facts, docs, d), p)
<1> DEFINE own == {[product |-> p, rule |-> r, status |-> Execute(r, facts, docs)] :
                      r \in InForce(p, d)}
<1>1. ASSUME NEW xs, p \in xs
      PROVE  {e \in Evaluate(xs, facts, docs, d).rules : e.product = p} = own
  <2> DEFINE of(x) == {[product |-> x, rule |-> r, status |-> Execute(r, facts, docs)] :
                          r \in InForce(x, d)}
  <2>1. Evaluate(xs, facts, docs, d).rules = UNION {of(x) : x \in xs}
    BY DEF Evaluate
  <2>2. \A x : \A e \in of(x) : e.product = x
    OBVIOUS
  <2>3. own = of(p)
    OBVIOUS
  <2> HIDE DEF of, own
  <2> QED
    BY <1>1, <2>1, <2>2, <2>3
<1> QED
  BY <1>1 DEF StatusOf

LEMMA AggregateLemma ==
    ASSUME NEW evaluations, NEW status, status = Aggregate(evaluations)
    PROVE  /\ status \in Statuses
           /\ status = "passed" =>
                \A e \in evaluations : Rule[e.rule].blocking =>
                    e.status \notin {"pending_review", "failed", "pending_information"}
           /\ status = "pending_information" =>
                \E e \in evaluations : e.status = "pending_information"
           /\ \A e \in evaluations :
                Rule[e.rule].blocking /\ e.status \in {"failed", "pending_review"} =>
                    status \in {"failed", "pending_review"}
<1> DEFINE found == {e.status : e \in {x \in evaluations : Rule[x.rule].blocking}}
<1>1. status = IF "pending_review" \in found THEN "pending_review"
               ELSE IF "failed" \in found THEN "failed"
               ELSE IF "pending_information" \in found THEN "pending_information"
               ELSE "passed"
  BY DEF Aggregate
<1>2. \A e \in evaluations : Rule[e.rule].blocking => e.status \in found
  OBVIOUS
<1>3. \A s \in found : \E e \in evaluations : e.status = s
  OBVIOUS
<1> HIDE DEF found
<1> QED
  BY <1>1, <1>2, <1>3 DEF Statuses

\* A product that a blocking rule fails or leaves to review is blocked.
LEMMA BlockedProducts ==
    ASSUME NEW recs, NEW verdict
    PROVE  {e.product : e \in HardBlocks(recs, verdict)} \subseteq Blocked(recs, verdict)
<1> SUFFICES ASSUME NEW e \in HardBlocks(recs, verdict)
             PROVE  e.product \in Blocked(recs, verdict)
  OBVIOUS
<1>1. /\ e \in verdict.rules /\ e.product \in Named(recs)
      /\ Rule[e.rule].blocking /\ e.status \in {"failed", "pending_review"}
  BY DEF HardBlocks
<1>2. e \in {x \in verdict.rules : x.product = e.product}
  BY <1>1
<1>3. StatusOf(verdict, e.product) \in {"failed", "pending_review"}
  BY <1>1, <1>2, AggregateLemma DEF StatusOf
<1> QED
  BY <1>1, <1>3 DEF Blocked

-----------------------------------------------------------------------------
(* One analysis: products and their synthesis.                             *)

LEMMA RecommendationsSeq ==
    ASSUME NEW recs \in Recommendations
    PROVE  /\ recs \in Seq([product : Products, quote : {0, 1}])
           /\ Named(recs) \subseteq Products /\ DOMAIN recs = 1 .. Len(recs)
<1>1. PICK k \in 0 .. TopK : recs \in [1 .. k -> [product : Products, quote : {0, 1}]]
  BY DEF Recommendations
<1>2. k \in Nat
  BY AnalysisAssumption
<1> DEFINE items == [product : Products, quote : {0, 1}]
<1>3. recs \in Seq(items) /\ DOMAIN recs = 1 .. Len(recs)
  <2> HIDE DEF items
  <2>1. recs \in [1 .. k -> items]
    BY <1>1 DEF items
  <2> QED
    BY <1>2, <2>1
<1>4. \A i \in DOMAIN recs : recs[i].product \in Products
  BY <1>1
<1> QED
  BY <1>3, <1>4 DEF Named

LEMMA DistinctSeq ==
    ASSUME NEW set, NEW n \in Nat, NEW s \in Distinct(set, n)
    PROVE  /\ \E k \in 0 .. n : s \in [1 .. k -> set]
           /\ s \in Seq(set)
<1>1. PICK k \in 0 .. n : s \in [1 .. k -> set]
  BY DEF Distinct
<1> QED
  BY <1>1

\* What retrieval finds are products of the catalog with a text of the index.
LEMMA FoundRecommended == WorldOK => Found \subseteq Recommendations
<1> SUFFICES ASSUME WorldOK, NEW recs \in Found PROVE recs \in Recommendations
  OBVIOUS
<1>1. PICK s \in Distinct(Active, TopK) :
             recs = [i \in DOMAIN s |-> [product |-> s[i], quote |-> index[s[i]].text]]
  BY DEF Found
<1>2. TopK \in Nat
  BY AnalysisAssumption
<1>3. PICK k \in 0 .. TopK : s \in [1 .. k -> Active]
  BY <1>2, DistinctSeq
<1>4. ASSUME NEW i \in 1 .. k
      PROVE  [product |-> s[i], quote |-> index[s[i]].text] \in [product : Products, quote : {0, 1}]
  <2>1. s[i] \in Products
    BY <1>3 DEF Active
  <2>2. index[s[i]].text \in {0, 1}
    BY <2>1 DEF WorldOK
  <2> QED
    BY <2>1, <2>2
<1>5. recs \in [1 .. k -> [product : Products, quote : {0, 1}]]
  BY <1>1, <1>3, <1>4
<1> QED
  BY <1>3, <1>5 DEF Recommendations

LEMMA OthersSeq == ASSUME NEW recs, NEW others \in Alternatives(recs) PROVE others \in Seq(Products)
<1>1. CASE others = <<>>
  BY <1>1
<1>2. CASE others \in Distinct(Active \ Credit, 2)
  <2>1. others \in Seq(Active \ Credit)
    BY <1>2, DistinctSeq
  <2> QED
    BY <2>1 DEF Active
<1> QED
  BY <1>1, <1>2 DEF Alternatives

\* A set with no three different elements has at most two.
LEMMA AtMostTwo ==
    ASSUME NEW S, \A x, y, z \in S : x = y \/ y = z \/ x = z
    PROVE  Cardinality(S) <= 2
<1>1. CASE S = {}
  BY <1>1, FS_EmptySet
<1>2. CASE S # {}
  <2>1. PICK x : x \in S
    BY <1>2
  <2>2. CASE S = {x}
    <3>1. Cardinality({x}) = 1
      BY FS_Singleton
    <3> QED
      BY <2>2, <3>1
  <2>3. CASE S # {x}
    <3>1. PICK y \in S : y # x
      BY <2>1, <2>3
    <3>2. S = {x} \cup {y}
      BY <2>1, <3>1
    <3>3. IsFiniteSet({x}) /\ Cardinality({x}) = 1
      BY FS_Singleton
    <3>4. Cardinality({x} \cup {y}) = 2
      <4>1. y \notin {x}
        BY <3>1
      <4>2. Cardinality({x} \cup {y}) = Cardinality({x}) + 1
        BY <3>3, <4>1, FS_AddElement
      <4> QED
        BY <3>3, <4>2
    <3> QED
      BY <3>2, <3>4
  <2> QED
    BY <2>2, <2>3
<1> QED
  BY <1>1, <1>2

LEMMA Least ==
    ASSUME NEW S \in SUBSET Nat, S # {}
    PROVE  \E i \in S : \A j \in S : i <= j
<1> DEFINE less == OpToRel(<, Nat)
<1>1. \A x, y \in Nat : x < y => <<x, y>> \in less
  BY DEF OpToRel
<1>2. IsWellFoundedOn(less, Nat)
  BY NatLessThanWellFounded
<1> HIDE DEF less
<1>3. PICK i \in S : \A j \in S : ~ (<<j, i>> \in less)
  BY <1>2, WFMin
<1>4. ASSUME NEW j \in S PROVE i <= j
  <2>1. i \in Nat /\ j \in Nat
    OBVIOUS
  <2>2. ~ (j < i)
    BY <1>1, <1>3, <2>1
  <2> QED
    BY <2>1, <2>2
<1> QED
  BY <1>4

\* Of the chosen places in a list, those that fewer than two products precede
\* hold at most two products.
LEMMA FirstTwo ==
    ASSUME NEW fit \in SUBSET Nat, IsFiniteSet(fit), NEW list,
           NEW first, first = {j \in fit : Cardinality({list[k] : k \in {i \in fit : i < j}}) < 2}
    PROVE  Cardinality({list[i] : i \in first}) <= 2
<1>1. ASSUME NEW i \in first, NEW j \in first, NEW k \in first, i < k, j < k
      PROVE  list[i] = list[j]
  <2> DEFINE earlier == {n \in fit : n < k}
             before == {list[n] : n \in earlier}
  <2>1. Cardinality(before) < 2
    OBVIOUS
  <2>2. list[i] \in before /\ list[j] \in before
    BY <1>1
  <2>3. IsFiniteSet(earlier)
    BY FS_Subset
  <2>4. IsFiniteSet(before)
    <3> DEFINE f == [n \in earlier |-> list[n]]
    <3>1. f \in Surjection(earlier, before)
      BY DEF Surjection
    <3> HIDE DEF f, earlier, before
    <3> QED
      BY <2>3, <3>1, FS_Surjection
  <2> HIDE DEF before
  <2>5. ASSUME list[i] # list[j] PROVE FALSE
    <3> DEFINE one == {list[i]}
               pair == one \cup {list[j]}
    <3>1. IsFiniteSet(one) /\ Cardinality(one) = 1
      BY FS_Singleton
    <3>2. list[j] \notin one
      BY <2>5
    <3>3. pair \subseteq before
      BY <2>2
    <3> HIDE DEF one
    <3>4. Cardinality(pair) = Cardinality(one) + 1
      BY <3>1, <3>2, FS_AddElement
    <3> HIDE DEF pair
    <3>5. Cardinality(pair) <= Cardinality(before)
      BY <2>4, <3>3, FS_Subset
    <3>6. Cardinality(before) \in Nat
      BY <2>4, FS_CardinalityType
    <3> QED
      BY <2>1, <3>1, <3>4, <3>5, <3>6
  <2> QED
    BY <2>5
<1>2. first \subseteq Nat
  OBVIOUS
<1> DEFINE chosen == {list[i] : i \in first}
<1>3. ASSUME NEW x \in chosen, NEW y \in chosen, NEW z \in chosen
      PROVE  x = y \/ y = z \/ x = z
  <2>1. PICK i \in first : x = list[i]
    OBVIOUS
  <2>2. PICK j \in first : y = list[j]
    OBVIOUS
  <2>3. PICK k \in first : z = list[k]
    OBVIOUS
  <2>4. i \in Nat /\ j \in Nat /\ k \in Nat
    BY <1>2
  <2>5. \/ i = j \/ j = k \/ i = k
        \/ (i < k /\ j < k) \/ (i < j /\ k < j) \/ (j < i /\ k < i)
    BY <2>4
  <2> QED
    BY <1>1, <2>1, <2>2, <2>3, <2>5
<1> HIDE DEF chosen
<1>4. Cardinality(chosen) <= 2
  BY <1>3, AtMostTwo
<1> QED
  BY <1>4 DEF chosen

LEMMA PrimaryAccepted ==
    ASSUME NEW recs \in Recommendations, NEW verdict
    PROVE  \/ Primary(recs, verdict) = Unknown
           \/ \E i \in Accepted(recs, verdict) : Primary(recs, verdict) = recs[i].product
<1> DEFINE accepted == Accepted(recs, verdict)
           first == CHOOSE i \in accepted : \A j \in accepted : i <= j
<1>1. accepted \subseteq Nat
  BY RecommendationsSeq DEF Accepted
<1>2. CASE accepted = {}
  BY <1>2 DEF Primary
<1>3. CASE accepted # {}
  <2>1. \E i \in accepted : \A j \in accepted : i <= j
    BY <1>1, <1>3, Least
  <2>2. first \in accepted
    BY <2>1
  <2>3. Primary(recs, verdict) = recs[first].product
    BY <1>3 DEF Primary
  <2> QED
    BY <2>2, <2>3
<1> QED
  BY <1>2, <1>3

\* Nothing that is blocked is offered, though the second search is evaluated
\* apart from the first; and two alternatives at the most.
LEMMA SynthesisLemma ==
    ASSUME NEW recs \in Recommendations, NEW verdict, NEW others \in Seq(Products),
           NEW facts, NEW docs, NEW s, s = Synthesis(recs, verdict, others, facts, docs)
    PROVE  /\ s.blocked = Blocked(recs, verdict)
           /\ Cardinality(s.alternatives) <= 2
           /\ verdict = Evaluate(Named(recs), facts, docs, day) =>
                 ({s.primary} \cup s.alternatives) \cap s.blocked = {}
<1> DEFINE accepted == Accepted(recs, verdict)
           found == {others[i] : i \in DOMAIN others}
           own == Evaluate(found, facts, docs, day)
           products == [i \in DOMAIN recs |-> recs[i].product]
           list == products \o others
           fit == {i \in DOMAIN list :
                     IF i <= Len(recs) THEN i \in accepted /\ \E j \in accepted : j < i
                     ELSE StatusOf(own, list[i]) = "passed"}
           Before(i) == {list[j] : j \in {k \in fit : k < i}}
           chosen == {j \in fit : Cardinality(Before(j)) < 2}
           offered == {list[i] : i \in chosen}
<1>1. /\ s.primary = Primary(recs, verdict)
      /\ s.alternatives = offered
      /\ s.blocked = Blocked(recs, verdict)
  <2>1. s = [primary |-> Primary(recs, verdict), alternatives |-> offered,
             blocked |-> Blocked(recs, verdict)]
    BY Zenon DEF Synthesis
  <2> HIDE DEF offered
  <2> QED
    BY <2>1
<1>2. products \in Seq(Products) /\ Len(products) = Len(recs)
  <2>1. Len(recs) \in Nat /\ DOMAIN recs = 1 .. Len(recs)
    BY RecommendationsSeq
  <2>2. \A i \in DOMAIN recs : recs[i].product \in Products
    BY RecommendationsSeq DEF Named
  <2>3. products \in [1 .. Len(recs) -> Products]
    BY <2>1, <2>2
  <2> HIDE DEF products
  <2> QED
    BY <2>1, <2>3
<1>3. /\ list \in Seq(Products) /\ DOMAIN list = 1 .. Len(recs) + Len(others)
      /\ \A i \in DOMAIN list :
            list[i] = IF i <= Len(recs) THEN products[i] ELSE others[i - Len(recs)]
  <2> HIDE DEF products
  <2>1. /\ list \in Seq(Products) /\ Len(list) = Len(products) + Len(others)
        /\ \A i \in 1 .. Len(products) + Len(others) :
              list[i] = IF i <= Len(products) THEN products[i] ELSE others[i - Len(products)]
    BY <1>2, ConcatProperties
  <2>2. DOMAIN list = 1 .. Len(list)
    BY <2>1, LenProperties
  <2> HIDE DEF list
  <2> QED
    BY <1>2, <2>1, <2>2
<1>4. Len(recs) \in Nat /\ Len(others) \in Nat /\ DOMAIN recs = 1 .. Len(recs)
      /\ DOMAIN others = 1 .. Len(others)
  BY RecommendationsSeq
<1>5. Cardinality(s.alternatives) <= 2
  <2>1. fit \subseteq 1 .. Len(recs) + Len(others)
    BY <1>3
  <2>2. fit \in SUBSET Nat
    BY <1>4, <2>1
  <2>3. IsFiniteSet(fit)
    <3>1. IsFiniteSet(1 .. Len(recs) + Len(others))
      BY <1>4, FS_Interval
    <3> HIDE DEF fit
    <3> QED
      BY <2>1, <3>1, FS_Subset
  <2>4. chosen = {j \in fit : Cardinality({list[k] : k \in {i \in fit : i < j}}) < 2}
    OBVIOUS
  <2> HIDE DEF fit, list, chosen
  <2>5. Cardinality({list[i] : i \in chosen}) <= 2
    BY <2>2, <2>3, <2>4, FirstTwo
  <2> QED
    BY <1>1, <2>5
<1>6. ASSUME verdict = Evaluate(Named(recs), facts, docs, day), NEW p \in s.blocked
      PROVE  p # s.primary /\ p \notin s.alternatives
  <2>1. p \in Named(recs) /\ p \in Products /\ StatusOf(verdict, p) \in {"failed", "pending_review"}
    BY <1>1, RecommendationsSeq DEF Blocked
  <2>2. \A i \in accepted : recs[i].product # p
    BY <2>1 DEF Accepted
  <2>3. p # s.primary
    <3>1. Unknown # p
      BY <2>1, AnalysisAssumption
    <3> QED
      BY <1>1, <2>2, <3>1, PrimaryAccepted
  <2>4. ASSUME NEW i \in fit, list[i] = p PROVE FALSE
    <3>1. i \in DOMAIN list
      OBVIOUS
    <3>2. CASE i <= Len(recs)
      <4>1. i \in accepted /\ i \in DOMAIN recs
        BY <1>3, <1>4, <3>1, <3>2
      <4>2. list[i] = recs[i].product
        <5> HIDE DEF list
        <5> QED
          BY <1>3, <3>1, <3>2, <4>1
      <4> QED
        BY <2>2, <2>4, <4>1, <4>2
    <3>3. CASE ~(i <= Len(recs))
      <4>1. StatusOf(own, p) = "passed"
        BY <2>4, <3>3
      <4>2. list[i] = others[i - Len(recs)] /\ i - Len(recs) \in DOMAIN others
        <5> HIDE DEF list, products
        <5> QED
          BY <1>3, <1>4, <3>1, <3>3
      <4>3. p \in found
        BY <2>4, <4>2
      <4>4. StatusOf(own, p) = StatusOf(verdict, p)
        BY <1>6, <2>1, <4>3, StatusAlone
      <4> QED
        BY <2>1, <4>1, <4>4
    <3> QED
      BY <3>2, <3>3
  <2> QED
    BY <1>1, <2>3, <2>4
<1> QED
  BY <1>1, <1>5, <1>6

-----------------------------------------------------------------------------
(* One analysis: the gate.                                                 *)

\* The gate approves valid evidence and a verdict that passed, and asks only
\* for what the verdict misses.
LEMMA GateLemma ==
    ASSUME NEW evidences, NEW verdict, NEW status, status = StatusAfter(Gate(evidences, verdict))
    PROVE  /\ status \in {"pending_approval", "pending_information", "pending_review"}
           /\ status = "pending_approval" =>
                (\A e \in evidences : e.valid) /\ Aggregate(verdict.rules) = "passed"
           /\ status = "pending_information" => Questions(verdict) # {}
<1> DEFINE invalid == {e \in evidences : ~e.valid}
           overall == Aggregate(verdict.rules)
           gate == Gate(evidences, verdict)
<1>1. gate.outcome = IF invalid # {} THEN "need_review"
                     ELSE IF overall = "passed" THEN "approve"
                     ELSE IF overall = "pending_information" THEN "need_information"
                     ELSE "need_review"
  <2>1. CASE invalid # {}
    BY <2>1 DEF Gate
  <2>2. CASE invalid = {} /\ overall = "passed"
    BY <2>2 DEF Gate
  <2>3. CASE invalid = {} /\ overall = "pending_information"
    BY <2>3 DEF Gate
  <2>4. CASE invalid = {} /\ overall \notin {"passed", "pending_information"}
    BY <2>4, AggregateLemma DEF Gate, Statuses
  <2> QED
    BY <2>1, <2>2, <2>3, <2>4
<1>2. status = CASE gate.outcome = "approve" -> "pending_approval"
                 [] gate.outcome = "need_information" -> "pending_information"
                 [] OTHER -> "pending_review"
  BY DEF StatusAfter
<1>3. overall = "pending_information" => Questions(verdict) # {}
  BY AggregateLemma DEF Questions
<1> HIDE DEF gate, overall
<1> QED
  BY <1>1, <1>2, <1>3 DEF overall

-----------------------------------------------------------------------------
(* One analysis: its run.                                                  *)

LEMMA EffectiveSame ==
    ASSUME NEW c, NEW d, d.facts = c.facts, d.profile = c.profile
    PROVE  Effective(d) = Effective(c)
BY DEF Effective

\* What an analysis writes, and what it leaves alone.
LEMMA AnalysedFields ==
    ASSUME NEW c, Shape(c), NEW start, NEW recs, NEW others,
           NEW r, r = Analysed(c, start, recs, others)
    PROVE  LET facts == Effective(c)
               kept == Kept(c, start)
               verdict == IF kept THEN c.verdict ELSE Evaluate(Named(recs), facts, c.docs, day)
               credit == IF kept THEN c.credit ELSE HardBlocks(recs, verdict)
               second == IF credit = {} THEN <<>> ELSE others
               evidences == Evidences(recs, verdict)
           IN  /\ Shape(r) /\ r.loops = c.loops /\ r.facts = c.facts /\ r.profile = c.profile
               /\ r.docs = c.docs /\ r.recs = recs /\ r.verdict = verdict /\ r.credit = credit
               /\ r.skipped = (start > 1)
               /\ r.synthesis = Synthesis(recs, verdict, second, facts, c.docs)
               /\ recs = <<>> => r.status = "pending_review"
               /\ recs # <<>> =>
                     /\ r.evidences = evidences /\ r.questions = Questions(verdict)
                     /\ r.status = StatusAfter(Gate(evidences, verdict))
<1> DEFINE facts == Effective(c)
           kept == Kept(c, start)
           verdict == IF kept THEN c.verdict ELSE Evaluate(Named(recs), facts, c.docs, day)
           credit == IF kept THEN c.credit ELSE HardBlocks(recs, verdict)
           insurance == IF kept THEN c.insurance ELSE InsuranceBlock(recs, facts)
           second == IF credit = {} THEN <<>> ELSE others
           evidences == Evidences(recs, verdict)
           skipped == start > 1
           synthesis == Synthesis(recs, verdict, second, facts, c.docs)
           gate == Gate(evidences, verdict)
           status == StatusAfter(gate)
           questions == Questions(verdict)
           ready == Readiness(verdict)
           computed == [c EXCEPT !.recs = recs, !.verdict = verdict, !.credit = credit,
                                 !.insurance = insurance, !.skipped = skipped,
                                 !.synthesis = synthesis]
           gated == [computed EXCEPT !.evidences = evidences, !.gate = gate, !.cleared = FALSE,
                                     !.status = status]
<1>1. computed.verdict = verdict
  <2> HIDE DEF facts, kept, verdict, credit, insurance, second, evidences, synthesis, skipped
  <2> QED
    BY DEF Shape, CaseFields
<1>2. Gated(computed, evidences) = gated
  <2> HIDE DEF computed, evidences, verdict
  <2> QED
    BY <1>1, Zenon DEF Gated
<1>3. r = IF recs = <<>> THEN [computed EXCEPT !.status = "pending_review"]
          ELSE [Gated(computed, evidences) EXCEPT !.questions = questions, !.readiness = ready]
  BY Zenon DEF Analysed
<1> HIDE DEF facts, kept, verdict, credit, insurance, second, evidences, synthesis, skipped,
             gate, status, questions, ready
<1>4. /\ Shape(computed) /\ computed.loops = c.loops /\ computed.facts = c.facts
      /\ computed.profile = c.profile /\ computed.docs = c.docs /\ computed.recs = recs
      /\ computed.credit = credit /\ computed.skipped = skipped
      /\ computed.synthesis = synthesis
  BY DEF Shape, CaseFields
<1> HIDE DEF computed
<1>5. /\ Shape(gated) /\ gated.loops = c.loops /\ gated.facts = c.facts
      /\ gated.profile = c.profile /\ gated.docs = c.docs /\ gated.recs = recs
      /\ gated.verdict = verdict
      /\ gated.credit = credit /\ gated.skipped = skipped
      /\ gated.synthesis = synthesis /\ gated.evidences = evidences /\ gated.status = status
  BY <1>1, <1>4 DEF Shape, CaseFields
<1> HIDE DEF gated
<1>6. CASE recs = <<>>
  <2>1. /\ Shape(r) /\ r.loops = c.loops /\ r.facts = c.facts /\ r.profile = c.profile
        /\ r.docs = c.docs /\ r.recs = recs /\ r.verdict = verdict /\ r.credit = credit
        /\ r.skipped = skipped /\ r.synthesis = synthesis /\ r.status = "pending_review"
    BY <1>1, <1>3, <1>4, <1>6 DEF Shape, CaseFields
  <2> QED
    BY <1>6, <2>1 DEF facts, kept, verdict, credit, second, evidences, synthesis, skipped
<1>7. CASE recs # <<>>
  <2>1. /\ Shape(r) /\ r.loops = c.loops /\ r.facts = c.facts /\ r.profile = c.profile
        /\ r.docs = c.docs /\ r.recs = recs /\ r.verdict = verdict /\ r.credit = credit
        /\ r.skipped = skipped /\ r.synthesis = synthesis /\ r.status = status
        /\ r.evidences = evidences /\ r.questions = questions
    BY <1>2, <1>3, <1>5, <1>7 DEF Shape, CaseFields
  <2> QED
    BY <1>7, <2>1 DEF facts, kept, verdict, credit, second, evidences, synthesis, skipped,
                      gate, status, questions
<1> QED
  BY <1>6, <1>7

\* An analysis that begins with sound results, at whatever node, leaves sound
\* results.
LEMMA AnalysedStored ==
    ASSUME WorldOK, NEW c, Given(c), NEW start \in Nat,
           NEW recs \in Retrieved(c, start), NEW others \in Alternatives(recs)
    PROVE  Stored(Analysed(c, start, recs, others))
<1> DEFINE r == Analysed(c, start, recs, others)
           facts == Effective(c)
           kept == Kept(c, start)
           fresh == Evaluate(Named(recs), facts, c.docs, day)
           verdict == IF kept THEN c.verdict ELSE fresh
           credit == IF kept THEN c.credit ELSE HardBlocks(recs, verdict)
           second == IF credit = {} THEN <<>> ELSE others
           evidences == Evidences(recs, verdict)
           synthesis == Synthesis(recs, verdict, second, facts, c.docs)
           status == StatusAfter(Gate(evidences, verdict))
<1>1. /\ Shape(r) /\ r.loops = c.loops /\ r.facts = c.facts /\ r.profile = c.profile
      /\ r.docs = c.docs /\ r.recs = recs /\ r.verdict = verdict /\ r.credit = credit
      /\ r.skipped = (start > 1) /\ r.synthesis = synthesis
      /\ recs = <<>> => r.status = "pending_review"
      /\ recs # <<>> =>
            /\ r.evidences = evidences /\ r.questions = Questions(verdict)
            /\ r.status = status
  BY AnalysedFields DEF Given
<1>2. recs \in Recommendations
  BY FoundRecommended DEF Retrieved, Given
<1>3. others \in Seq(Products) /\ second \in Seq(Products)
  BY OthersSeq
<1>4. Evaluated(r)
  <2>1. CASE kept
    <3>1. start > 1 /\ c.verdict # Unknown
      BY <2>1 DEF Kept
    <3>2. Evaluated(c) /\ c.recs # Unknown
      BY <3>1 DEF Given
    <3>3. recs = c.recs
      BY <3>1, <3>2 DEF Retrieved
    <3>4. verdict = c.verdict /\ credit = c.credit
      BY <2>1
    <3> HIDE DEF r, verdict, credit
    <3>5. r.recs = c.recs /\ r.verdict = c.verdict /\ r.credit = c.credit
      BY <1>1, <3>3, <3>4
    <3> QED
      BY <3>2, <3>5 DEF Evaluated
  <2>2. CASE ~kept
    <3>1. verdict = fresh /\ credit = HardBlocks(recs, verdict)
      BY <2>2
    <3>2. Named(recs) \subseteq Products /\ day \in 0 .. MaxDay
      BY <1>2, RecommendationsSeq DEF WorldOK
    <3> HIDE DEF r, verdict, credit, facts
    <3>3. /\ verdict.products = Named(recs)
          /\ \A e \in verdict.rules : e.rule \in Rules /\ e.status \in Statuses
          /\ \A p \in Named(recs) :
                \E e \in verdict.rules : e.product = p /\ Rule[e.rule].blocking
      <4>1. PICK v : v = fresh
        OBVIOUS
      <4>2. v = Evaluate(Named(recs), facts, c.docs, day)
        BY <4>1
      <4> HIDE DEF fresh
      <4>3. v.products = Named(recs)
        BY <3>2, <4>2, EvaluateRules
      <4>4. \A e \in v.rules : e.rule \in Rules /\ e.status \in Statuses
        BY <3>2, <4>2, EvaluateRules
      <4>5. ASSUME NEW p \in Named(recs)
            PROVE  \E e \in v.rules : e.product = p /\ Rule[e.rule].blocking
        <5>1. p \in Products
          BY <3>2
        <5> QED
          BY <3>2, <4>2, <5>1, BlockingRule
      <4> QED
        BY <3>1, <4>1, <4>3, <4>4, <4>5
    <3>4. r.recs = recs /\ r.verdict = verdict /\ r.credit = credit
      BY <1>1
    <3> QED
      BY <1>2, <3>1, <3>3, <3>4 DEF Evaluated
  <2> QED
    BY <2>1, <2>2
<1> HIDE DEF r
<1>5. /\ synthesis.blocked = Blocked(recs, verdict)
      /\ Cardinality(synthesis.alternatives) <= 2
      /\ verdict = Evaluate(Named(recs), facts, c.docs, day) =>
            ({synthesis.primary} \cup synthesis.alternatives) \cap synthesis.blocked = {}
  <2> HIDE DEF verdict, credit, second, synthesis
  <2> QED
    BY <1>2, <1>3, SynthesisLemma DEF synthesis
<1> HIDE DEF verdict, credit, second, evidences, synthesis, status
<1>6. Done(r)
  BY <1>1, <1>4, <1>5 DEF Done, Blocked
<1>7. Given(r)
  BY <1>1, <1>2, <1>4, AnalysisAssumption DEF Given
<1>8. /\ status \in {"pending_approval", "pending_information", "pending_review"}
      /\ status = "pending_approval" =>
            (\A e \in evidences : e.valid) /\ Aggregate(verdict.rules) = "passed"
      /\ status = "pending_information" => Questions(verdict) # {}
  BY GateLemma DEF status
<1>9. ASSUME ~r.skipped PROVE Current(r) /\ NotLaundered(r)
  <2>1. ~kept
    BY <1>1, <1>9 DEF Kept
  <2>2. verdict = fresh /\ fresh.at = day
    BY <2>1 DEF verdict, Evaluate
  <2>3. Effective(r) = facts
    BY <1>1, EffectiveSame
  <2>4. Current(r)
    BY <1>1, <2>2, <2>3 DEF Current
  <2>5. r.credit = HardBlocks(recs, r.verdict)
    BY <1>1, <1>4 DEF Evaluated
  <2>6. NotLaundered(r)
    BY <1>1, <1>5, <2>2, <2>5, BlockedProducts DEF NotLaundered
  <2> QED
    BY <2>4, <2>6
<1>10. r.status \in {"pending_approval", "pending_information", "pending_review"}
  BY <1>1, <1>8
<1>11. r.status \in Results \ {"new"}
  BY <1>10 DEF Results
<1> QED
  BY <1>1, <1>6, <1>7, <1>8, <1>9, <1>10, <1>11 DEF Stored, r

LEMMA AnalyseStored ==
    ASSUME WorldOK, NEW c, Given(c), NEW start \in Nat, Analyse(c, start)
    PROVE  Stored(case')
BY AnalysedStored DEF Analyse

\* A case that is changed and not analysed yet has the results it had.
LEMMA GivenKept ==
    ASSUME NEW c, Given(c), NEW d, Shape(d), d.loops \in 0 .. MaxLoops,
           d.facts \in [Fields -> Int \cup {Unknown}], d.docs \in [DocTypes -> DocStatuses],
           d.recs = c.recs, d.verdict = c.verdict, d.credit = c.credit, d.synthesis = c.synthesis
    PROVE  Given(d) /\ (Done(c) => Done(d))
BY DEF Given, Done, Evaluated

LEMMA ResumeStored ==
    ASSUME WorldOK, NEW c, Given(c), Done(c), NEW start \in Nat, ResumeAt(c, start)
    PROVE  Stored(case')
<1>1. CASE c.loops >= MaxLoops
  <2> DEFINE d == [c EXCEPT !.status = "failed"]
  <2>1. case' = d
    BY <1>1 DEF ResumeAt
  <2>2. /\ Shape(d) /\ d.status = "failed" /\ d.loops = c.loops /\ d.facts = c.facts
        /\ d.docs = c.docs /\ d.recs = c.recs /\ d.verdict = c.verdict
        /\ d.credit = c.credit /\ d.synthesis = c.synthesis
    BY DEF Given, Shape, CaseFields
  <2> HIDE DEF d
  <2>3. Given(d) /\ Done(d)
    BY <2>2, GivenKept DEF Given
  <2> QED
    BY <2>1, <2>2, <2>3 DEF Stored, Results
<1>2. CASE ~(c.loops >= MaxLoops)
  <2> DEFINE loops == c.loops + 1
             d == [c EXCEPT !.loops = loops]
  <2>1. Analyse(d, start)
    BY <1>2 DEF ResumeAt
  <2>2. loops \in 0 .. MaxLoops
    BY <1>2, AnalysisAssumption DEF Given
  <2> HIDE DEF loops
  <2>3. /\ Shape(d) /\ d.loops = loops /\ d.facts = c.facts
        /\ d.docs = c.docs /\ d.recs = c.recs /\ d.verdict = c.verdict
        /\ d.credit = c.credit /\ d.synthesis = c.synthesis
    BY DEF Given, Shape, CaseFields
  <2> HIDE DEF d
  <2>4. Given(d)
    BY <2>2, <2>3, GivenKept DEF Given
  <2> QED
    BY <2>1, <2>4, AnalyseStored
<1> QED
  BY <1>1, <1>2

-----------------------------------------------------------------------------
(* One analysis: the handlers.                                             *)

LEMMA CreateStep == EInv /\ Create => Stored(case')
<1> SUFFICES ASSUME EInv, Create PROVE Stored(case')
  OBVIOUS
<1>1. PICK brought \in Cases : Analyse(NewCase(brought), 0)
  BY DEF Create
<1>2. /\ brought.facts \in [Fields -> Int \cup {Unknown}]
      /\ brought.docs \in [DocTypes -> DocStatuses]
  BY AnalysisAssumption
<1> DEFINE c == NewCase(brought)
<1>3. /\ Shape(c) /\ c.loops = 0 /\ c.facts = brought.facts /\ c.docs = brought.docs
      /\ c.recs = Unknown /\ c.verdict = Unknown
  BY DEF NewCase, Shape, CaseFields
<1> HIDE DEF c
<1>4. Given(c)
  BY <1>2, <1>3, AnalysisAssumption DEF Given
<1> QED
  BY <1>1, <1>4, AnalyseStored DEF EInv, c

LEMMA MessageStep == EInv /\ Message => Stored(case')
<1> SUFFICES ASSUME EInv, Message PROVE Stored(case')
  OBVIOUS
<1> DEFINE c == [case EXCEPT !.recs = Unknown, !.verdict = Unknown, !.credit = Unknown,
                             !.synthesis = Unknown, !.evidences = {}, !.questions = {},
                             !.readiness = Unknown, !.loops = 0]
<1>1. Analyse(c, 0)
  BY DEF Message
<1>2. /\ Shape(c) /\ c.loops = 0 /\ c.facts = case.facts /\ c.docs = case.docs
      /\ c.recs = Unknown /\ c.verdict = Unknown
  BY DEF EInv, Stored, Given, Shape, CaseFields
<1> HIDE DEF c
<1>3. Given(c)
  BY <1>2, AnalysisAssumption DEF EInv, Stored, Given
<1> QED
  BY <1>1, <1>3, AnalyseStored DEF EInv

\* Whatever a handler changes of the facts, the profile and the documents of an
\* open case before it resumes it.
LEMMA ChangedStep ==
    ASSUME EInv, case.status # "none",
           NEW facts \in [Fields -> Int \cup {Unknown}], NEW docs \in [DocTypes -> DocStatuses],
           NEW profile, NEW c, NEW start \in Nat, ResumeAt(c, start),
           c = [case EXCEPT !.facts = facts, !.profile = profile, !.docs = docs]
    PROVE  Stored(case')
<1> DEFINE d == [case EXCEPT !.facts = facts, !.profile = profile, !.docs = docs]
<1>1. c = d
  OBVIOUS
<1>2. /\ Shape(d) /\ d.loops = case.loops /\ d.facts = facts /\ d.docs = docs
      /\ d.recs = case.recs /\ d.verdict = case.verdict
      /\ d.credit = case.credit /\ d.synthesis = case.synthesis
  <2>1. Shape(case)
    BY DEF EInv, Stored, Given
  <2> QED
    BY <2>1 DEF Shape, CaseFields
<1> HIDE DEF d
<1>3. Given(case) /\ Done(case)
  BY DEF EInv, Stored
<1>4. Given(c) /\ Done(c)
  BY <1>1, <1>2, <1>3, GivenKept DEF Given
<1> QED
  BY <1>4, ResumeStored DEF EInv

\* A case that is resumed was analysed before.
LEMMA OpenAnalysed ==
    ASSUME EInv, NEW c, NEW start \in Nat, ResumeAt(c, start), c.status = case.status
    PROVE  case.status # "none"
BY DEF ResumeAt, Open

LEMMA CorrectStep == EInv /\ Correct => Stored(case')
<1> SUFFICES ASSUME EInv, Correct PROVE Stored(case')
  OBVIOUS
<1>1. PICK f \in Correctable : \E v \in Values[f] :
             ResumeAt([case EXCEPT !.facts[f] = v], IF f \in ProductMatch THEN 0 ELSE 1)
  BY DEF Correct
<1>2. PICK v \in Values[f] :
             ResumeAt([case EXCEPT !.facts[f] = v], IF f \in ProductMatch THEN 0 ELSE 1)
  BY <1>1
<1> DEFINE facts == [case.facts EXCEPT ![f] = v]
           c == [case EXCEPT !.facts = facts, !.profile = case.profile, !.docs = case.docs]
           d == [case EXCEPT !.facts[f] = v]
<1>3. facts \in [Fields -> Int \cup {Unknown}]
  BY AnalysisAssumption DEF EInv, Stored, Given
<1>4. d = [case EXCEPT !.facts = facts]
  OBVIOUS
<1> HIDE DEF facts
<1>5. d = c /\ c.status = case.status
  BY <1>4 DEF EInv, Stored, Given, Shape, CaseFields
<1> HIDE DEF c, d
<1>6. ResumeAt(c, IF f \in ProductMatch THEN 0 ELSE 1)
  BY <1>2, <1>5 DEF d
<1>7. case.docs \in [DocTypes -> DocStatuses]
  BY DEF EInv, Stored, Given
<1> QED
  BY <1>3, <1>5, <1>6, <1>7, OpenAnalysed, ChangedStep DEF c

\* A document a handler registers.
LEMMA RegisteredStep ==
    ASSUME EInv, NEW t \in DocTypes, NEW s \in DocStatuses, NEW start \in Nat,
           ResumeAt([case EXCEPT !.docs[t] = s], start)
    PROVE  Stored(case')
<1> DEFINE docs == [case.docs EXCEPT ![t] = s]
           c == [case EXCEPT !.facts = case.facts, !.profile = case.profile, !.docs = docs]
           d == [case EXCEPT !.docs[t] = s]
<1>1. docs \in [DocTypes -> DocStatuses]
  BY DEF EInv, Stored, Given
<1>2. d = [case EXCEPT !.docs = docs]
  OBVIOUS
<1> HIDE DEF docs
<1>3. d = c /\ c.status = case.status
  BY <1>2 DEF EInv, Stored, Given, Shape, CaseFields
<1> HIDE DEF c, d
<1>4. ResumeAt(c, start)
  BY <1>3 DEF d
<1>5. case.facts \in [Fields -> Int \cup {Unknown}]
  BY DEF EInv, Stored, Given
<1> QED
  BY <1>1, <1>3, <1>4, <1>5, OpenAnalysed, ChangedStep DEF c

LEMMA ResumeStep == EInv /\ Resume => Stored(case')
<1> SUFFICES ASSUME EInv, Resume PROVE Stored(case')
  OBVIOUS
<1>1. ASSUME NEW start \in {0, 1, 3}, ResumeAt(case, start) PROVE Stored(case')
  BY <1>1, OpenAnalysed, ResumeStored DEF EInv, Stored
<1> QED
  BY <1>1, RegisteredStep DEF Resume

LEMMA RunAnalysisStep == EInv /\ RunAnalysis => Stored(case')
<1> SUFFICES ASSUME EInv, RunAnalysis PROVE Stored(case')
  OBVIOUS
<1>1. PICK brought \in Cases :
             ResumeAt([case EXCEPT !.facts = brought.facts, !.profile = brought.profile,
                                   !.docs = brought.docs], 1)
  BY DEF RunAnalysis
<1>2. /\ brought.facts \in [Fields -> Int \cup {Unknown}]
      /\ brought.docs \in [DocTypes -> DocStatuses]
  BY AnalysisAssumption
<1>3. case.status # "none"
  BY DEF RunAnalysis
<1> QED
  BY <1>1, <1>2, <1>3, ChangedStep

\* A clearance moves the case as it is.
LEMMA ClearStep == EInv /\ Clear => Stored(case')
<1> SUFFICES ASSUME EInv, Clear PROVE Stored(case')
  OBVIOUS
<1> DEFINE readiness == IF case.readiness = Unknown THEN Readiness(case.verdict)
                        ELSE case.readiness
           c == [case EXCEPT !.status = "pending_approval", !.cleared = TRUE,
                             !.readiness = readiness]
<1>1. case' = c /\ case.status = "pending_review"
  BY DEF Clear
<1> HIDE DEF readiness
<1>2. /\ Shape(c) /\ c.status = "pending_approval" /\ c.cleared /\ c.loops = case.loops
      /\ c.facts = case.facts /\ c.profile = case.profile /\ c.docs = case.docs
      /\ c.recs = case.recs /\ c.verdict = case.verdict /\ c.credit = case.credit
      /\ c.synthesis = case.synthesis /\ c.skipped = case.skipped
  BY DEF EInv, Stored, Given, Shape, CaseFields
<1> HIDE DEF c
<1>3. Given(case) /\ Done(case)
  BY <1>1 DEF EInv, Stored
<1>4. Given(c) /\ Done(c)
  BY <1>2, <1>3, GivenKept DEF Given
<1>5. ~c.skipped => Current(c) /\ NotLaundered(c)
  BY <1>1, <1>2, EffectiveSame DEF EInv, Stored, Current, NotLaundered
<1> QED
  BY <1>1, <1>2, <1>4, <1>5 DEF Stored, Results

-----------------------------------------------------------------------------
(* One analysis: what it promises.                                         *)

LEMMA HandlersWorld ==
    ASSUME WorldOK, Call, Unindexed
    PROVE  WorldOK'
BY AnalysisAssumption DEF WorldOK, Call, Unindexed

LEMMA TickWorld == WorldOK /\ Tick => WorldOK'
BY AnalysisAssumption DEF WorldOK, Tick

LEMMA IngestWorld == WorldOK /\ Ingest => WorldOK'
<1> SUFFICES ASSUME WorldOK, Ingest PROVE WorldOK'
  OBVIOUS
<1>1. edits' \in 0 .. MaxEdits /\ UNCHANGED <<day, calls>>
  BY AnalysisAssumption DEF WorldOK, Ingest
<1> DEFINE Document == [text : {0, 1}, active : BOOLEAN]
<1>2. PICK d \in Products \cup Sources :
             \/ index' = [index EXCEPT ![d].text = 1 - @]
             \/ index' = [index EXCEPT ![d].active = ~@]
  BY DEF Ingest
<1>3. index[d] \in Document /\ index \in [Products \cup Sources -> Document]
  BY DEF WorldOK
<1> DEFINE text == 1 - index[d].text
           active == ~index[d].active
           edited == [index[d] EXCEPT !.text = text]
           switched == [index[d] EXCEPT !.active = active]
<1>4. text \in {0, 1} /\ active \in BOOLEAN
  BY <1>3
<1>5. \/ index' = [index EXCEPT ![d] = edited]
      \/ index' = [index EXCEPT ![d] = switched]
  BY <1>2
<1> HIDE DEF text, active
<1>6. edited \in Document /\ switched \in Document
  BY <1>3, <1>4
<1> HIDE DEF edited, switched, Document
<1>7. index' \in [Products \cup Sources -> Document]
  BY <1>3, <1>5, <1>6
<1> QED
  BY <1>1, <1>7 DEF WorldOK, Document

LEMMA InitEInv == Init => EInv
<1> SUFFICES ASSUME Init PROVE EInv
  OBVIOUS
<1> DEFINE brought == CHOOSE b \in Cases : TRUE
           fresh == NewCase(brought)
           c == [fresh EXCEPT !.status = "none"]
<1>1. case = c
  BY DEF Init
<1>2. brought \in Cases
  BY AnalysisAssumption
<1>3. /\ brought.facts \in [Fields -> Int \cup {Unknown}]
      /\ brought.docs \in [DocTypes -> DocStatuses]
  BY <1>2, AnalysisAssumption
<1> HIDE DEF brought
<1>4. /\ Shape(c) /\ c.status = "none" /\ c.loops = 0 /\ c.facts = brought.facts
      /\ c.docs = brought.docs /\ c.recs = Unknown /\ c.verdict = Unknown
  BY DEF NewCase, Shape, CaseFields
<1> HIDE DEF c
<1>5. Stored(c)
  BY <1>3, <1>4, AnalysisAssumption DEF Stored, Given, Results
<1>6. WorldOK
  <2>1. index = [d \in Products \cup Sources |-> [text |-> 0, active |-> TRUE]]
    BY DEF Init
  <2>2. day = 0 /\ edits = 0 /\ calls = 0
    BY DEF Init
  <2> QED
    BY <2>1, <2>2, AnalysisAssumption DEF WorldOK
<1> QED
  BY <1>1, <1>5, <1>6 DEF EInv

LEMMA NextEInv == EInv /\ [Next]_vars => EInv'
<1> SUFFICES ASSUME EInv, [Next]_vars PROVE EInv'
  OBVIOUS
<1>1. ASSUME Stored(case') PROVE Stored(case)'
  BY <1>1 DEF Stored, Given, Done, Evaluated, Shape, Current, NotLaundered, Named,
              Recommendations, HardBlocks, Evaluate, InForce, Execute, Compared, Actual,
              Effective, Aggregate
<1>2. CASE \/ Create \/ Message \/ Correct \/ Documents \/ Resume \/ RunAnalysis \/ Clear
  <2>1. Call /\ Unindexed
    BY <1>2 DEF Create, Message, Correct, Documents, Resume, RunAnalysis, Clear
  <2>2. Documents => Stored(case')
    BY RegisteredStep DEF Documents
  <2>3. Stored(case')
    BY <1>2, <2>2, CreateStep, MessageStep, CorrectStep, ResumeStep, RunAnalysisStep, ClearStep
  <2> QED
    BY <1>1, <2>1, <2>3, HandlersWorld DEF EInv
<1>3. CASE Tick \/ Ingest
  BY <1>1, <1>3, TickWorld, IngestWorld DEF EInv, Tick, Ingest
<1>4. CASE UNCHANGED vars
  BY <1>1, <1>4 DEF EInv, WorldOK, vars
<1> QED
  BY <1>2, <1>3, <1>4 DEF Next

LEMMA AnalysisInvariant == Spec => []EInv
BY InitEInv, NextEInv, PTL DEF Spec

\* A case that was analysed holds every result of the analysis, for products
\* and rules of the catalog and the registry (AnalysisTypeOK).
THEOREM AnalysisTypes == Spec => []AnalysisTypeOK
<1>1. EInv => AnalysisTypeOK
  <2> SUFFICES ASSUME EInv PROVE AnalysisTypeOK
    OBVIOUS
  <2>1. ASSUME case.status # "none"
        PROVE  /\ Named(case.recs) \subseteq Products
               /\ case.verdict.products = Named(case.recs)
               /\ \A e \in case.verdict.rules : e.rule \in Rules /\ e.status \in Statuses
               /\ case.synthesis.blocked \subseteq Named(case.recs)
               /\ Cardinality(case.synthesis.alternatives) <= 2
    BY <2>1, RecommendationsSeq DEF EInv, Stored, Done, Evaluated
  <2> QED
    BY <2>1 DEF EInv, WorldOK, Stored, Given, AnalysisTypeOK
<1> QED
  BY <1>1, AnalysisInvariant, PTL

\* Whatever an analysis kept of the one before, a case the gate passes on to
\* approval has valid evidence only, no credit block, and every product of its
\* proposal passed every blocking rule in force, of which there is one.
THEOREM ApprovalsGrounded == Spec => []ApprovalGrounded
<1>1. EInv => ApprovalGrounded
  <2> SUFFICES ASSUME EInv, case.status = "pending_approval", ~case.cleared
               PROVE  /\ \A e \in case.evidences : e.valid
                      /\ case.credit = {}
                      /\ \A p \in Named(case.recs) :
                            LET checked == {e \in case.verdict.rules :
                                              e.product = p /\ Rule[e.rule].blocking}
                            IN  checked # {} /\ \A e \in checked : e.status = "passed"
    BY DEF ApprovalGrounded
  <2>1. Evaluated(case) /\ (\A e \in case.evidences : e.valid)
        /\ Aggregate(case.verdict.rules) = "passed"
    BY DEF EInv, Stored, Done
  <2>2. \A e \in case.verdict.rules : Rule[e.rule].blocking =>
            e.status \notin {"pending_review", "failed", "pending_information"}
    BY <2>1, AggregateLemma
  <2>3. \A e \in case.verdict.rules : Rule[e.rule].blocking => e.status = "passed"
    BY <2>1, <2>2 DEF Evaluated, Statuses
  <2>4. case.credit = {}
    BY <2>1, <2>2 DEF Evaluated, HardBlocks
  <2> QED
    BY <2>1, <2>3, <2>4 DEF Evaluated
<1> QED
  BY <1>1, AnalysisInvariant, PTL

\* The verdict of a case that waits for approval is what its own facts and
\* documents give, unless its last analysis was told to start after evaluation.
THEOREM VerdictsCurrent == Spec => []VerdictCurrent
<1>1. EInv => VerdictCurrent
  BY DEF EInv, Stored, Current, VerdictCurrent
<1> QED
  BY <1>1, AnalysisInvariant, PTL

\* What the rules block stays named as blocked and is offered neither as the
\* primary product nor as an alternative of the second search.
THEOREM BlocksNotLaundered == Spec => []BlockNotLaundered
<1>1. EInv => BlockNotLaundered
  BY DEF EInv, Stored, NotLaundered, BlockNotLaundered
<1> QED
  BY <1>1, AnalysisInvariant, PTL

\* A case that waits for information asks for some.
THEOREM WaitingAsks == Spec => []WaitingIsAsked
<1>1. EInv => WaitingIsAsked
  BY DEF EInv, Stored, WaitingIsAsked
<1> QED
  BY <1>1, AnalysisInvariant, PTL

-----------------------------------------------------------------------------
(* The team: the invariant.                                                *)

FindingKinds == [expert : Experts, round : {1, 2}]
Places == Nodes \cup Ended \cup {"idle", "intent", "synthesis"}
Kinds == {None, "plain", "credit"} \cup BOOLEAN

Run ==
    [pc : Places, wait : {"no", "llm", "ok", "failed"}, result : [Nodes -> Kinds],
     findings : Seq(FindingKinds), searched : BOOLEAN, honest : BOOLEAN,
     session : {None} \cup
        [status : {"needs_human_review", "converged"}, round : {1, 2}, credit : BOOLEAN,
         insurance : BOOLEAN, findings : Seq(FindingKinds)]]

\* Where a place and a finding are on the way through the graph.
PlaceRank(pc) ==
    CASE pc \in {"idle", "intent", "product"} -> 1
      [] pc = "eligibility" -> 2
      [] pc = "credit" -> 3
      [] pc = "insurance" -> 4
      [] pc = "alternative" -> 5
      [] pc = "recheck" -> 6
      [] OTHER -> 7

FindingRank(f) ==
    IF f.round = 2 THEN 5
    ELSE CASE f.expert = "product" -> 1
           [] f.expert = "credit" -> 3
           [] OTHER -> 4

\* Findings are of nodes passed, in their order.
Ordered(findings, pc) ==
    /\ \A i \in 1 .. Len(findings) : FindingRank(findings[i]) < PlaceRank(pc)
    /\ \A i, j \in 1 .. Len(findings) : j < i => FindingRank(findings[j]) < FindingRank(findings[i])

Second(findings) == \E i \in 1 .. Len(findings) : findings[i].round = 2

Late == {"recheck", "synthesis"}
Ending == {"alternative"} \cup Late

\* Once credit has answered its result decides on the second search, and the
\* second search has a result and a finding or neither.
Decided(r) ==
    /\ \A n \in {"credit", "insurance"} : r.result[n] \in BOOLEAN \cup {None}
    /\ r.pc \in {"insurance"} \cup Ending => r.result["credit"] \in BOOLEAN
    /\ r.pc \in Ending => r.result["insurance"] \in BOOLEAN
    /\ r.pc \in {"alternative", "recheck"} => r.result["credit"] = TRUE
    /\ r.pc \in Late =>
          /\ r.result["credit"] = TRUE <=> Second(r.findings)
          /\ r.result["alternative"] # None <=> Second(r.findings)
    /\ PlaceRank(r.pc) < 5 => r.result["alternative"] = None

\* BlockAnswered, of one session.
Answered(session) ==
    LET second == {i \in DOMAIN session.findings : session.findings[i].round = 2} IN
    /\ session.status = "needs_human_review" <=> session.credit \/ session.insurance
    /\ session.credit <=> second # {}
    /\ session.round = 2 <=> second # {}

Core(r) ==
    /\ r \in Run /\ r.honest
    /\ Ordered(r.findings, r.pc)
    /\ Decided(r)
    /\ r.session # None => Answered(r.session)

\* Only a configured model is waited for, at a node that has its result.
Waits(r) ==
    /\ r.wait # "no" => r.pc \in ExpertNodes \cup {"intent"}
    /\ r.wait # "no" /\ r.pc \in ExpertNodes => client.experts /\ r.result[r.pc] # None
    /\ r.wait = "no" /\ r.pc = "alternative" => r.result["alternative"] = None

TInv ==
    /\ client \in Clients
    /\ lastRun \in {"llm", "deterministic_fallback", "not_started"}
    /\ reason \in [Experts -> {None, "llm_not_configured", "error"}]
    /\ run = [a \in Analyses |-> run[a]]
    /\ \A a \in Analyses : Core(run[a]) /\ Waits(run[a])

-----------------------------------------------------------------------------
(* The team: what a node leaves.                                           *)

LEMMA RunMoves ==
    ASSUME TInv, NEW a \in Analyses, NEW new, Core(new), Waits(new),
           run' = [run EXCEPT ![a] = new], client' = client,
           lastRun' \in {"llm", "deterministic_fallback", "not_started"},
           reason' \in [Experts -> {None, "llm_not_configured", "error"}]
    PROVE  TInv'
<1>1. ASSUME NEW b \in Analyses PROVE Core(run[b])' /\ Waits(run[b])'
  <2>1. run'[b] = IF b = a THEN new ELSE run[b]
    BY DEF TInv
  <2>2. PICK r : r = run'[b]
    OBVIOUS
  <2>3. Core(r) /\ Waits(r)
    BY <2>1, <2>2 DEF TInv
  <2>4. Waits(r)'
    BY <2>3 DEF Waits
  <2> QED
    BY <2>2, <2>3, <2>4 DEF Core, Waits, Ordered, Decided, Answered, Second
<1> QED
  BY <1>1 DEF TInv

\* A finding is told once, after those of the nodes before.
LEMMA FindingAdded ==
    ASSUME NEW findings \in Seq(FindingKinds), NEW node \in ExpertNodes, NEW place,
           Ordered(findings, node), PlaceRank(node) < PlaceRank(place),
           NEW more, more = Append(findings, Finding(node))
    PROVE  /\ more \in Seq(FindingKinds) /\ Ordered(more, place)
           /\ Second(more) <=> node = "alternative"
<1> DEFINE f == Finding(node)
<1>1. /\ f \in FindingKinds /\ FindingRank(f) = PlaceRank(node)
      /\ f.round = 2 <=> node = "alternative"
      /\ PlaceRank(node) \in 1 .. 5 /\ PlaceRank(place) \in 1 .. 7
  BY DEF Finding, FindingKinds, FindingRank, PlaceRank, ExpertNodes, Experts, Agent
<1> HIDE DEF f
<1>2. /\ more \in Seq(FindingKinds) /\ Len(more) = Len(findings) + 1 /\ more[Len(findings) + 1] = f
      /\ \A i \in 1 .. Len(findings) : more[i] = findings[i]
  BY <1>1, AppendProperties DEF f
<1>3. Len(findings) \in Nat /\ DOMAIN findings = 1 .. Len(findings)
  BY LenProperties
<1>4. \A i \in 1 .. Len(findings) : FindingRank(findings[i]) \in 1 .. 5
  BY <1>3 DEF FindingRank, FindingKinds, Experts
<1>5. \A i \in 1 .. Len(findings) : findings[i].round = 2 => FindingRank(findings[i]) = 5
  BY DEF FindingRank
<1>6. \A i \in 1 .. Len(more) : i \in 1 .. Len(findings) \/ i = Len(findings) + 1
  BY <1>2, <1>3
<1>7. \A i \in 1 .. Len(findings) : FindingRank(findings[i]) < PlaceRank(node)
  BY DEF Ordered
<1>8. ASSUME NEW i \in 1 .. Len(more) PROVE FindingRank(more[i]) < PlaceRank(place)
  BY <1>1, <1>2, <1>4, <1>6, <1>7
<1>9. ASSUME NEW i \in 1 .. Len(more), NEW j \in 1 .. Len(more), j < i
      PROVE  FindingRank(more[j]) < FindingRank(more[i])
  <2>1. j \in 1 .. Len(findings)
    BY <1>3, <1>6, <1>9
  <2>2. CASE i = Len(findings) + 1
    BY <1>1, <1>2, <1>7, <2>1, <2>2
  <2>3. CASE i \in 1 .. Len(findings)
    BY <1>2, <1>9, <2>1, <2>3 DEF Ordered
  <2> QED
    BY <1>6, <2>2, <2>3
<1>10. Second(more) <=> node = "alternative"
  <2>1. ASSUME NEW i \in 1 .. Len(findings) PROVE findings[i].round # 2
    BY <1>1, <1>4, <1>5, <1>7
  <2>2. Len(findings) + 1 \in 1 .. Len(more)
    BY <1>2, <1>3
  <2> QED
    BY <1>1, <1>2, <1>6, <2>1, <2>2 DEF Second
<1> QED
  BY <1>2, <1>8, <1>9, <1>10 DEF Ordered

\* Findings of nodes passed stay in order further on.
LEMMA FindingsKept ==
    ASSUME NEW findings \in Seq(FindingKinds), NEW pc \in Places, NEW place,
           Ordered(findings, pc), PlaceRank(pc) <= PlaceRank(place)
    PROVE  Ordered(findings, place) /\ (PlaceRank(pc) <= 5 => ~Second(findings))
<1>1. PlaceRank(pc) \in 1 .. 7 /\ PlaceRank(place) \in 1 .. 7
  BY DEF PlaceRank
<1>2. Len(findings) \in Nat /\ DOMAIN findings = 1 .. Len(findings)
  BY LenProperties
<1>3. \A i \in 1 .. Len(findings) :
         /\ FindingRank(findings[i]) \in 1 .. 5
         /\ findings[i].round = 2 => FindingRank(findings[i]) = 5
  BY <1>2 DEF FindingRank, FindingKinds, Experts
<1> QED
  BY <1>1, <1>3 DEF Ordered, Second

LEMMA FollowingPlace ==
    ASSUME NEW r, r.pc \in Nodes
    PROVE  /\ Following(r) \in Places /\ PlaceRank(r.pc) < PlaceRank(Following(r))
           /\ Following(r) \notin Ended \cup {"idle", "intent"}
           /\ Following(r) = "alternative" => r.pc = "insurance" /\ r.result["credit"] = TRUE
           /\ Following(r) = "recheck" => r.pc = "alternative"
           /\ Following(r) = "synthesis" =>
                \/ r.pc = "recheck"
                \/ r.pc = "insurance" /\ r.result["credit"] # TRUE
           /\ Following(r) = "insurance" => r.pc = "credit"
           /\ r.pc = "alternative" => Following(r) = "recheck"
<1> DEFINE next == Following(r)
<1>1. r.pc \in {"product", "eligibility", "credit", "insurance", "alternative", "recheck"}
  BY DEF Nodes, ExpertNodes, RuleNodes, Experts
<1>2. /\ r.pc = "product" => next = "eligibility"
      /\ r.pc = "eligibility" => next = "credit"
      /\ r.pc = "credit" => next = "insurance"
      /\ r.pc = "alternative" => next = "recheck"
      /\ r.pc = "recheck" => next = "synthesis"
  BY DEF Following
<1>3. r.pc = "insurance" =>
        next = IF r.result["credit"] = TRUE THEN "alternative" ELSE "synthesis"
  BY DEF Following
<1> HIDE DEF next
<1>4. /\ next \in Places /\ next \notin Ended \cup {"idle", "intent"}
  BY <1>1, <1>2, <1>3 DEF Places, Nodes, ExpertNodes, RuleNodes, Experts, Ended
<1>5. PlaceRank(r.pc) < PlaceRank(next)
  <2>1. /\ PlaceRank("product") = 1 /\ PlaceRank("eligibility") = 2 /\ PlaceRank("credit") = 3
        /\ PlaceRank("insurance") = 4 /\ PlaceRank("alternative") = 5
        /\ PlaceRank("recheck") = 6 /\ PlaceRank("synthesis") = 7
    BY DEF PlaceRank
  <2> QED
    BY <1>1, <1>2, <1>3, <2>1
<1> QED
  BY <1>1, <1>2, <1>3, <1>4, <1>5 DEF next

\* A node ends: an expert with its finding, unless an earlier result was kept.
LEMMA NodeEnds ==
    ASSUME NEW s, Core(s), s.pc \in Nodes, s.result[s.pc] # None,
           NEW findings,
           \/ findings = s.findings /\ s.pc # "alternative"
           \/ findings = Append(s.findings, Finding(s.pc)) /\ s.pc \in ExpertNodes,
           NEW n \in Run, n.pc = Following(s), n.wait = "no", n.findings = findings,
           n.result = s.result, n.session = s.session, n.honest
    PROVE  Core(n) /\ Waits(n)
<1> DEFINE pc == s.pc
           next == n.pc
<1>1. /\ pc \in Nodes /\ pc \in Places /\ next \in Places /\ PlaceRank(pc) < PlaceRank(next)
      /\ next \notin Ended \cup {"idle", "intent"}
      /\ next = "alternative" => pc = "insurance" /\ s.result["credit"] = TRUE
      /\ next = "recheck" => pc = "alternative"
      /\ next = "synthesis" => pc = "recheck" \/ (pc = "insurance" /\ s.result["credit"] # TRUE)
      /\ next = "insurance" => pc = "credit"
      /\ pc = "alternative" => next = "recheck"
  BY FollowingPlace DEF Places
<1>2. s.findings \in Seq(FindingKinds) /\ Ordered(s.findings, pc)
  BY DEF Core, Run
<1>3. PlaceRank(pc) \in 1 .. 7 /\ PlaceRank(next) \in 1 .. 7
  BY DEF PlaceRank
<1>4. Ordered(findings, next) /\ (pc = "alternative" => Second(findings))
      /\ (PlaceRank(pc) < 5 => ~Second(findings))
      /\ (pc = "recheck" => findings = s.findings)
  <2>1. CASE findings = s.findings /\ pc # "alternative"
    <3>1. Ordered(s.findings, next) /\ (PlaceRank(pc) <= 5 => ~Second(s.findings))
      BY <1>1, <1>2, <1>3, FindingsKept
    <3> QED
      BY <1>3, <2>1, <3>1
  <2>2. CASE findings = Append(s.findings, Finding(pc)) /\ pc \in ExpertNodes
    <3>1. Ordered(findings, next) /\ (Second(findings) <=> pc = "alternative")
      <4> HIDE DEF pc, next
      <4>1. findings = Append(s.findings, Finding(pc)) /\ pc \in ExpertNodes
        BY <2>2
      <4> QED
        BY <1>1, <1>2, <4>1, FindingAdded
    <3>2. PlaceRank("alternative") = 5
      BY DEF PlaceRank
    <3>3. pc # "recheck"
      BY <2>2 DEF ExpertNodes, Experts
    <3> QED
      BY <3>1, <3>2, <3>3
  <2> QED
    BY <2>1, <2>2
<1>5. Decided(s)
  BY DEF Core
<1>6. /\ PlaceRank("insurance") = 4 /\ PlaceRank("alternative") = 5 /\ PlaceRank("credit") = 3
      /\ PlaceRank("recheck") = 6 /\ PlaceRank("synthesis") = 7
  BY DEF PlaceRank
<1>7. Decided(n)
  <2>1. \A x \in {"credit", "insurance"} : n.result[x] \in BOOLEAN \cup {None}
    BY <1>5 DEF Decided
  <2>2. next \in {"insurance"} \cup Ending => n.result["credit"] \in BOOLEAN
    BY <1>1, <1>5 DEF Decided, Ending, Late
  <2>3. next \in Ending => n.result["insurance"] \in BOOLEAN
    BY <1>1, <1>5 DEF Decided, Ending, Late
  <2>4. next \in {"alternative", "recheck"} => n.result["credit"] = TRUE
    BY <1>1, <1>5 DEF Decided
  <2>5. ASSUME next \in Late
        PROVE  /\ n.result["credit"] = TRUE <=> Second(findings)
               /\ n.result["alternative"] # None <=> Second(findings)
    <3>1. CASE pc = "alternative"
      BY <1>4, <1>5, <3>1 DEF Decided
    <3>2. CASE pc = "recheck"
      BY <1>4, <1>5, <3>2 DEF Decided, Late
    <3>3. CASE pc = "insurance" /\ s.result["credit"] # TRUE
      <4>1. s.result["alternative"] = None
        BY <1>5, <1>6, <3>3 DEF Decided
      <4>2. ~Second(findings)
        BY <1>4, <1>6, <3>3
      <4> QED
        BY <3>3, <4>1, <4>2
    <3> QED
      BY <1>1, <2>5, <3>1, <3>2, <3>3 DEF Late
  <2>6. PlaceRank(next) < 5 => n.result["alternative"] = None
    BY <1>1, <1>3, <1>5 DEF Decided
  <2> QED
    BY <2>1, <2>2, <2>3, <2>4, <2>5, <2>6 DEF Decided
<1>8. Core(n)
  BY <1>4, <1>7 DEF Core
<1>9. next = "alternative" => n.result["alternative"] = None
  BY <1>1, <1>5, <1>6 DEF Decided
<1> QED
  BY <1>8, <1>9 DEF Waits

\* A node has its result.
ResultsOf(node) == IF node \in {"product", "alternative"} THEN {"plain", "credit"} ELSE BOOLEAN

LEMMA ResultSet ==
    ASSUME NEW r, Core(r), r.pc \in Nodes, NEW v \in ResultsOf(r.pc),
           NEW s \in Run, s.pc = r.pc, s.findings = r.findings, s.session = r.session, s.honest,
           s.result[r.pc] = v, \A x \in Nodes : x # r.pc => s.result[x] = r.result[x]
    PROVE  Core(s) /\ s.result[s.pc] # None
<1>1. r.result \in [Nodes -> Kinds] /\ {"credit", "insurance", "alternative"} \subseteq Nodes
  BY DEF Core, Run, Nodes, ExpertNodes, Experts
<1>2. s.result[r.pc] = v /\ \A x \in Nodes : x # r.pc => s.result[x] = r.result[x]
  OBVIOUS
<1>3. /\ PlaceRank("insurance") = 4 /\ PlaceRank("alternative") = 5 /\ PlaceRank("credit") = 3
  BY DEF PlaceRank
<1>4. Decided(r)
  BY DEF Core
<1>5. r.pc \in {"credit", "insurance"} => v \in BOOLEAN
  BY DEF ResultsOf
<1>6. Decided(s)
  <2>1. \A x \in {"credit", "insurance"} : s.result[x] \in BOOLEAN \cup {None}
    BY <1>1, <1>2, <1>4, <1>5 DEF Decided
  <2>2. r.pc # "synthesis"
    BY DEF Nodes, ExpertNodes, RuleNodes, Experts
  <2>3. s.pc \in {"insurance"} \cup Ending => s.result["credit"] \in BOOLEAN
    BY <1>1, <1>2, <1>4 DEF Decided, Ending, Late
  <2>4. s.pc \in Ending => s.result["insurance"] \in BOOLEAN
    BY <1>1, <1>2, <1>4 DEF Decided, Ending, Late
  <2>5. s.pc \in {"alternative", "recheck"} => s.result["credit"] = TRUE
    BY <1>1, <1>2, <1>4 DEF Decided
  <2>6. s.pc \in Late =>
          /\ s.result["credit"] = TRUE <=> Second(s.findings)
          /\ s.result["alternative"] # None <=> Second(s.findings)
    <3>1. r.pc \in Late => r.pc = "recheck"
      BY <2>2 DEF Late
    <3>2. r.pc = "recheck" => /\ s.result["credit"] = r.result["credit"]
                              /\ s.result["alternative"] = r.result["alternative"]
      BY <1>1, <1>2
    <3> QED
      BY <1>4, <3>1, <3>2 DEF Decided
  <2>7. PlaceRank(s.pc) < 5 => s.result["alternative"] = None
    BY <1>1, <1>2, <1>3, <1>4 DEF Decided
  <2> QED
    BY ONLY <2>1, <2>3, <2>4, <2>5, <2>6, <2>7, Zenon DEF Decided
<1>7. v # None
  <2>1. CASE r.pc \in {"product", "alternative"}
    BY <2>1, TeamAssumption DEF ResultsOf
  <2>2. CASE r.pc \notin {"product", "alternative"}
    BY <2>2, TeamAssumption, Zenon DEF ResultsOf
  <2> QED
    BY <2>1, <2>2
<1> QED
  BY <1>2, <1>6, <1>7 DEF Core

\* Before the graph only what an earlier analysis left is known.
LEMMA Early ==
    ASSUME NEW r, Core(r), r.pc \in {"idle", "intent"},
           NEW n \in Run, n.pc \in {"intent", "product", "done"}, n.findings = r.findings,
           n.session = r.session, n.honest, n.result["alternative"] = None,
           \A x \in {"credit", "insurance"} : n.result[x] \in BOOLEAN \cup {None}
    PROVE  Core(n)
<1>1. Ordered(n.findings, n.pc)
  <2>1. /\ n.findings \in Seq(FindingKinds) /\ r.pc \in Places /\ Ordered(n.findings, r.pc)
        /\ PlaceRank(r.pc) <= PlaceRank(n.pc)
    BY DEF Core, Run, PlaceRank
  <2> QED
    BY <2>1, FindingsKept
<1>2. Decided(n)
  BY DEF Decided, Ending, Late
<1> QED
  BY <1>1, <1>2 DEF Core

\* What a run waits for and whether it searched changes nothing else.
LEMMA SamePlace ==
    ASSUME NEW r, Core(r), NEW n \in Run, n.pc = r.pc, n.findings = r.findings,
           n.session = r.session, n.honest, n.result = r.result
    PROVE  Core(n)
BY DEF Core, Decided

\* A run that has ended, or has not begun.
LEMMA Fresh ==
    ASSUME NEW n \in Run, n.pc \in {"idle", "done", "failed"}, n.wait = "no", n.honest,
           n.findings = <<>>, n.result = [x \in Nodes |-> None],
           n.session # None => Answered(n.session)
    PROVE  Core(n) /\ Waits(n)
<1>1. Ordered(n.findings, n.pc)
  BY DEF Ordered
<1>2. {"credit", "insurance", "alternative"} \subseteq Nodes
  BY DEF Nodes, ExpertNodes, Experts
<1>3. Decided(n)
  BY <1>2 DEF Decided, Ending, Late
<1> QED
  BY <1>1, <1>3 DEF Core, Waits

-----------------------------------------------------------------------------
(* The team: the steps.                                                    *)

LEMMA BeginKeeps ==
    ASSUME TInv, NEW a \in Analyses, Begin(a) PROVE TInv'
<1>1. PICK r : r = run[a]
  OBVIOUS
<1>2. PICK w : w = IF client.intent THEN "llm" ELSE "failed"
  OBVIOUS
<1> DEFINE new == [r EXCEPT !.pc = "intent", !.wait = w]
<1>3. Core(r) /\ r.pc = "idle" /\ r \in Run /\ Decided(r) /\ r.honest
  BY <1>1 DEF TInv, Begin, Core
<1>4. /\ new \in Run /\ new.pc = "intent" /\ new.findings = r.findings /\ new.honest
      /\ new.session = r.session /\ new.result = r.result
  BY <1>2, <1>3 DEF Run, Places
<1>5. run' = [run EXCEPT ![a] = new]
  BY <1>1, <1>2 DEF Begin
<1> HIDE DEF new
<1>6. Core(new)
  BY <1>3, <1>4, Early DEF Decided, PlaceRank
<1>7. Waits(new)
  BY <1>4, TeamAssumption DEF Waits, ExpertNodes, Experts
<1> QED
  BY <1>5, <1>6, <1>7, RunMoves DEF Begin, TInv

\* What an earlier analysis left.
LEMMA EarlierKept ==
    ASSUME NEW start, NEW earlier \in EarlierResults, NEW kept, kept = Keeps(start, earlier)
    PROVE  /\ kept \in [Nodes -> Kinds] /\ kept["alternative"] = None
           /\ \A x \in {"credit", "insurance"} : kept[x] \in BOOLEAN \cup {None}
<1>1. /\ DOMAIN earlier = {"product", "eligibility", "credit", "insurance"}
      /\ earlier["product"] \in {"plain", "credit"}
      /\ \A x \in {"eligibility", "credit", "insurance"} : earlier[x] \in BOOLEAN
  BY DEF EarlierResults
<1>2. {"credit", "insurance", "alternative"} \subseteq Nodes
  BY DEF Nodes, ExpertNodes, Experts
<1>3. kept = [n \in Nodes |-> kept[n]]
  BY DEF Keeps
<1>4. \A n \in Nodes : kept[n] = None \/ (n \in DOMAIN earlier /\ kept[n] = earlier[n])
  BY DEF Keeps
<1>5. \A n \in Nodes : kept[n] \in Kinds
  BY <1>1, <1>4, Zenon DEF Kinds
<1>6. \A x \in {"credit", "insurance"} : kept[x] \in BOOLEAN \cup {None}
  BY <1>1, <1>2, <1>4
<1>7. kept["alternative"] = None
  BY <1>1, <1>2, <1>4
<1> QED
  BY <1>3, <1>5, <1>6, <1>7

LEMMA ResumeKeeps ==
    ASSUME TInv, NEW a \in Analyses, ResumeAnalysis(a) PROVE TInv'
<1>1. PICK r : r = run[a]
  OBVIOUS
<1>2. PICK start \in {0, 1, 3}, earlier \in EarlierResults :
        run' = [run EXCEPT ![a] = [@ EXCEPT !.pc = "product", !.result = Keeps(start, earlier)]]
  BY DEF ResumeAnalysis
<1>3. PICK kept : kept = Keeps(start, earlier)
  OBVIOUS
<1> DEFINE new == [r EXCEPT !.pc = "product", !.result = kept]
<1>4. Core(r) /\ Waits(r) /\ r.pc = "idle" /\ r \in Run /\ r.honest
  BY <1>1 DEF TInv, ResumeAnalysis, Core
<1>5. /\ kept \in [Nodes -> Kinds] /\ kept["alternative"] = None
      /\ \A x \in {"credit", "insurance"} : kept[x] \in BOOLEAN \cup {None}
  BY <1>3, EarlierKept
<1>6. r.wait = "no"
  BY <1>4 DEF Waits, ExpertNodes, Experts
<1>7. /\ new \in Run /\ new.pc = "product" /\ new.findings = r.findings /\ new.honest
      /\ new.session = r.session /\ new.result = kept /\ new.wait = "no"
  BY <1>4, <1>5, <1>6 DEF Run, Places, Nodes, ExpertNodes, Experts
<1>8. run' = [run EXCEPT ![a] = new]
  BY <1>1, <1>2, <1>3
<1> HIDE DEF new
<1>9. Core(new)
  BY <1>4, <1>5, <1>7, Early
<1>10. Waits(new)
  BY <1>7 DEF Waits
<1> QED
  BY <1>8, <1>9, <1>10, RunMoves DEF ResumeAnalysis, TInv

\* The wait for the model ends.
LEMMA WaitEnds ==
    ASSUME TInv, NEW a \in Analyses, run[a].wait = "llm", NEW answer \in {"ok", "failed"},
           run' = [run EXCEPT ![a].wait = answer], client' = client, reason' = reason,
           lastRun' \in {"llm", "deterministic_fallback", "not_started"}
    PROVE  TInv'
<1>1. PICK r : r = run[a]
  OBVIOUS
<1> DEFINE new == [r EXCEPT !.wait = answer]
<1>2. Core(r) /\ Waits(r) /\ r \in Run /\ r.honest /\ r.wait = "llm"
  BY <1>1 DEF TInv, Core
<1>3. /\ new \in Run /\ new.pc = r.pc /\ new.findings = r.findings /\ new.honest
      /\ new.session = r.session /\ new.result = r.result /\ new.wait = answer
  BY <1>2 DEF Run
<1>4. run' = [run EXCEPT ![a] = new]
  BY <1>1
<1> HIDE DEF new
<1>5. Core(new)
  BY <1>2, <1>3, SamePlace
<1>6. Waits(new)
  BY <1>2, <1>3 DEF Waits
<1> QED
  BY <1>4, <1>5, <1>6, RunMoves DEF TInv

LEMMA ReplyKeeps ==
    ASSUME TInv, NEW a \in Analyses, Reply(a) \/ TimeOut(a) PROVE TInv'
<1>1. CASE Reply(a)
  <2>1. PICK answer \in {"ok", "failed"} :
          /\ run' = [run EXCEPT ![a].wait = answer]
          /\ lastRun' = IF run[a].pc = "intent" /\ answer = "ok" THEN Mode(TRUE) ELSE lastRun
    BY <1>1 DEF Reply
  <2>2. lastRun' \in {"llm", "deterministic_fallback", "not_started"}
    BY <2>1 DEF TInv, Mode
  <2> QED
    BY <1>1, <2>1, <2>2, WaitEnds DEF Reply
<1>2. CASE TimeOut(a)
  BY <1>2, WaitEnds DEF TimeOut, TInv
<1> QED
  BY <1>1, <1>2

LEMMA UnderstandKeeps ==
    ASSUME TInv, NEW a \in Analyses, Understand(a) PROVE TInv'
<1>1. PICK r : r = run[a]
  OBVIOUS
<1>2. PICK valid \in BOOLEAN, next \in {"done", "product"} :
        /\ lastRun' = RunRecord(r.wait = "ok" /\ valid)
        /\ run' = [run EXCEPT ![a] =
              [@ EXCEPT !.pc = next, !.wait = "no",
                        !.honest = RunRecord(r.wait = "ok" /\ valid) = Mode(TRUE)
                                     => (r.wait = "ok" /\ valid)]]
  BY <1>1 DEF Understand
<1> DEFINE used == r.wait = "ok" /\ valid
<1>3. RunRecord(used) = Mode(TRUE) => used
  BY DEF RunRecord, Mode
<1> DEFINE new == [r EXCEPT !.pc = next, !.wait = "no", !.honest = TRUE]
<1>4. Core(r) /\ r.pc = "intent" /\ r \in Run /\ Decided(r)
  BY <1>1 DEF TInv, Understand, Core
<1>5. /\ new \in Run /\ new.pc = next /\ new.findings = r.findings /\ new.honest
      /\ new.session = r.session /\ new.result = r.result /\ new.wait = "no"
  BY <1>4 DEF Run, Places, Nodes, ExpertNodes, Experts, Ended
<1>6. run' = [run EXCEPT ![a] = new]
  BY <1>1, <1>2, <1>3
<1>7. lastRun' \in {"llm", "deterministic_fallback", "not_started"}
  BY <1>2 DEF RunRecord, Mode, TInv
<1> HIDE DEF new
<1>8. Core(new)
  BY <1>4, <1>5, Early DEF Decided, PlaceRank
<1>9. Waits(new)
  BY <1>5 DEF Waits
<1> QED
  BY <1>6, <1>7, <1>8, <1>9, RunMoves DEF Understand, TInv

LEMMA KeepKeeps ==
    ASSUME TInv, NEW a \in Analyses, Keep(a) PROVE TInv'
<1>1. PICK r : r = run[a]
  OBVIOUS
<1>2. /\ Core(r) /\ Waits(r) /\ r \in Run /\ r.honest
      /\ r.pc \in Nodes /\ r.wait = "no" /\ r.result[r.pc] # None
  BY <1>1 DEF TInv, Keep, KeptNode, Core
<1>3. PICK next : next = Following(r)
  OBVIOUS
<1> DEFINE new == [r EXCEPT !.pc = next]
<1>4. next \in Places
  BY <1>2, <1>3, FollowingPlace
<1>5. /\ new \in Run /\ new.pc = next /\ new.findings = r.findings /\ new.honest
      /\ new.session = r.session /\ new.result = r.result /\ new.wait = "no"
  BY <1>2, <1>4 DEF Run
<1>6. run' = [run EXCEPT ![a] = new]
  BY <1>1, <1>3 DEF Keep
<1>7. r.pc # "alternative"
  BY <1>2 DEF Waits
<1> HIDE DEF new
<1>8. Core(new) /\ Waits(new)
  BY <1>2, <1>3, <1>5, <1>7, NodeEnds
<1> QED
  BY <1>6, <1>8, RunMoves DEF Keep, TInv

\* An expert tells how it was answered.
LEMMA ReasonTold ==
    ASSUME NEW r, NEW expert, NEW answered \in BOOLEAN, r.searched \in BOOLEAN,
           NEW why, why = ReasonAfter(expert, answered), answered => client.experts
    PROVE  Honest(r, why, answered) /\ why \in {None, "llm_not_configured", "error"}
<1>1. why = None <=> answered
  BY TeamAssumption DEF ReasonAfter
<1> QED
  BY <1>1 DEF Honest, ReasonAfter

LEMMA ExpertEnds ==
    ASSUME TInv, NEW s, Core(s), s.pc \in ExpertNodes, s.result[s.pc] # None,
           NEW why, NEW answered, Honest(s, why, answered),
           NEW new, new = Concluded(s, why, answered)
    PROVE  Core(new) /\ Waits(new)
<1>1. s.pc \in Nodes /\ s \in Run /\ s.honest
  BY DEF Nodes, Core
<1>2. PICK next : next = Following(s)
  OBVIOUS
<1>3. next \in Places
  BY <1>1, <1>2, FollowingPlace
<1>4. PICK more : more = Append(s.findings, Finding(s.pc))
  OBVIOUS
<1>5. Finding(s.pc) \in FindingKinds
  BY DEF Finding, FindingKinds, ExpertNodes, Experts, Agent
<1>6. more \in Seq(FindingKinds)
  BY <1>1, <1>4, <1>5, AppendProperties DEF Run
<1>7. new = [s EXCEPT !.pc = next, !.wait = "no", !.searched = TRUE, !.findings = more,
                      !.honest = TRUE]
  <2>1. (s.honest /\ Honest(s, why, answered)) = TRUE
    BY <1>1
  <2> QED
    BY <1>2, <1>4, <2>1 DEF Concluded
<1>8. /\ new \in Run /\ new.pc = next /\ new.findings = more /\ new.honest
      /\ new.session = s.session /\ new.result = s.result /\ new.wait = "no"
  BY <1>1, <1>3, <1>6, <1>7 DEF Run
<1> QED
  BY <1>1, <1>2, <1>4, <1>8, NodeEnds

\* What the node's service finds is a result of the node.
LEMMA OutcomeResult ==
    ASSUME NEW r, r.pc \in ExpertNodes, NEW outcome \in Outcomes(r)
    PROVE  outcome \in ResultsOf(r.pc)
<1>1. CASE r.pc = "product"
  BY <1>1 DEF Outcomes, ResultsOf
<1>2. CASE r.pc = "alternative"
  BY <1>2 DEF Outcomes, ResultsOf
<1>3. CASE r.pc = "credit"
  BY <1>3 DEF Outcomes, ResultsOf
<1>4. CASE r.pc = "insurance"
  BY <1>4 DEF Outcomes, ResultsOf
<1> QED
  BY <1>1, <1>2, <1>3, <1>4 DEF ExpertNodes, Experts

\* A node's result put in its place.
LEMMA ResultPut ==
    ASSUME NEW r, Core(r), r.pc \in Nodes, NEW v, v \in ResultsOf(r.pc),
           NEW result, result = [x \in Nodes |-> result[x]], result[r.pc] = v,
           \A x \in Nodes : x # r.pc => result[x] = r.result[x],
           NEW searched \in BOOLEAN, NEW s,
           s = [pc |-> r.pc, wait |-> r.wait, result |-> result, findings |-> r.findings,
                searched |-> searched, honest |-> r.honest, session |-> r.session]
    PROVE  Core(s) /\ s.result[s.pc] # None
<1>1. r \in Run /\ r.honest
  BY DEF Core
<1>2. v \in Kinds
  <2>1. CASE r.pc \in {"product", "alternative"}
    BY <2>1 DEF ResultsOf, Kinds
  <2>2. CASE r.pc \notin {"product", "alternative"}
    BY <2>2, Zenon DEF ResultsOf, Kinds
  <2> QED
    BY <2>1, <2>2
<1>3. result \in [Nodes -> Kinds]
  BY <1>1, <1>2 DEF Run
<1>4. /\ s \in Run /\ s.pc = r.pc /\ s.findings = r.findings /\ s.honest
      /\ s.session = r.session /\ s.result = result
  BY <1>1, <1>3 DEF Run
<1> QED
  BY <1>4, ResultSet

LEMMA ConsultKeeps ==
    ASSUME TInv, NEW a \in Analyses, Consult(a) PROVE TInv'
<1>1. PICK r : r = run[a]
  OBVIOUS
<1>2. /\ Core(r) /\ Waits(r) /\ r \in Run /\ r.pc \in ExpertNodes /\ r.wait = "no"
      /\ r.pc \in Nodes
  BY <1>1 DEF TInv, Consult, Core, Nodes
<1>3. PICK expert : expert = Agent(r.pc)
  OBVIOUS
<1>4. PICK why : why = ReasonAfter(expert, FALSE)
  OBVIOUS
<1>5. PICK outcome \in Outcomes(r), searched \in BOOLEAN :
        LET begun == [r EXCEPT !.result[r.pc] = outcome, !.searched = searched] IN
        IF client.experts
        THEN run' = [run EXCEPT ![a] = [begun EXCEPT !.wait = "llm"]] /\ UNCHANGED reason
        ELSE /\ reason' = [reason EXCEPT ![expert] = why]
             /\ run' = [run EXCEPT ![a] = Concluded(begun, why, FALSE)]
  <2>1. PICK outcome \in Outcomes(run[a]), tools \in ToolCalls(run[a]), found \in BOOLEAN :
          LET searched == Len(tools) = 2
                             => found /\ Granted(Agent(run[a].pc), <<tools[1]>>, tools[2])
              begun == [run[a] EXCEPT !.result[run[a].pc] = outcome, !.searched = searched]
          IN  IF client.experts
              THEN run' = [run EXCEPT ![a] = [begun EXCEPT !.wait = "llm"]] /\ UNCHANGED reason
              ELSE /\ reason' = [reason EXCEPT
                                   ![Agent(run[a].pc)] = ReasonAfter(Agent(run[a].pc), FALSE)]
                   /\ run' = [run EXCEPT ![a] =
                                Concluded(begun, ReasonAfter(Agent(run[a].pc), FALSE), FALSE)]
    BY Zenon DEF Consult
  <2>2. PICK searched \in BOOLEAN :
          searched = (Len(tools) = 2 => found /\ Granted(expert, <<tools[1]>>, tools[2]))
    OBVIOUS
  <2> QED
    BY <1>1, <1>3, <1>4, <2>1, <2>2
<1>6. PICK result, flag : result = [r.result EXCEPT ![r.pc] = outcome] /\ flag = searched
  OBVIOUS
<1>7. PICK begun :
        begun = [pc |-> r.pc, wait |-> r.wait, result |-> result, findings |-> r.findings,
                 searched |-> flag, honest |-> r.honest, session |-> r.session]
  OBVIOUS
<1>8. /\ Core(begun) /\ begun.result[begun.pc] # None /\ begun.pc = r.pc /\ begun.wait = "no"
      /\ begun.searched \in BOOLEAN
  <2>1. outcome \in ResultsOf(r.pc)
    BY <1>2, OutcomeResult
  <2>2. /\ result = [x \in Nodes |-> result[x]] /\ result[r.pc] = outcome
        /\ \A x \in Nodes : x # r.pc => result[x] = r.result[x]
    BY <1>2, <1>6 DEF Run
  <2> QED
    BY <1>2, <1>6, <1>7, <2>1, <2>2, ResultPut
<1>12. begun = [r EXCEPT !.result[r.pc] = outcome, !.searched = flag]
  <2>1. PICK mid : mid = [r EXCEPT !.result = result]
    OBVIOUS
  <2>2. r = [pc |-> r.pc, wait |-> r.wait, result |-> r.result, findings |-> r.findings,
             searched |-> r.searched, honest |-> r.honest, session |-> r.session]
    BY <1>2 DEF Run
  <2>3. mid = [pc |-> r.pc, wait |-> r.wait, result |-> result, findings |-> r.findings,
               searched |-> r.searched, honest |-> r.honest, session |-> r.session]
    BY <2>1, <2>2
  <2>4. begun = [mid EXCEPT !.searched = flag]
    BY ONLY <1>7, <2>3
  <2> QED
    BY <1>6, <2>1, <2>4
<1>9. lastRun' \in {"llm", "deterministic_fallback", "not_started"} /\ client' = client
  BY DEF TInv, Consult
<1>10. CASE client.experts
  <2>1. PICK new : new = [begun EXCEPT !.wait = "llm"]
    OBVIOUS
  <2>2. run' = [run EXCEPT ![a] = new] /\ reason' = reason
    BY <1>5, <1>6, <1>10, <1>12, <2>1
  <2>3. begun \in Run /\ begun.honest
    BY <1>8 DEF Core
  <2>4. /\ new \in Run /\ new.pc = begun.pc /\ new.findings = begun.findings /\ new.honest
        /\ new.session = begun.session /\ new.result = begun.result /\ new.wait = "llm"
    BY <2>1, <2>3 DEF Run
  <2>5. Core(new)
    BY <1>8, <2>4, SamePlace
  <2>6. Waits(new)
    BY <1>2, <1>8, <1>10, <2>4 DEF Waits
  <2> QED
    BY <1>9, <2>2, <2>5, <2>6, RunMoves DEF TInv
<1>11. CASE ~client.experts
  <2>1. PICK new : new = Concluded(begun, why, FALSE)
    OBVIOUS
  <2>2. run' = [run EXCEPT ![a] = new] /\ reason' = [reason EXCEPT ![expert] = why]
    BY <1>5, <1>6, <1>11, <1>12, <2>1
  <2>3. Honest(begun, why, FALSE) /\ why \in {None, "llm_not_configured", "error"}
    BY <1>4, <1>8, ReasonTold
  <2>4. Core(new) /\ Waits(new)
    BY <1>2, <1>8, <2>1, <2>3, ExpertEnds
  <2>5. reason' \in [Experts -> {None, "llm_not_configured", "error"}]
    BY <2>2, <2>3 DEF TInv
  <2> QED
    BY <1>9, <2>2, <2>4, <2>5, RunMoves
<1> QED
  BY <1>10, <1>11

LEMMA ConcludeKeeps ==
    ASSUME TInv, NEW a \in Analyses, Conclude(a) PROVE TInv'
<1>1. PICK r : r = run[a]
  OBVIOUS
<1>2. /\ Core(r) /\ Waits(r) /\ r \in Run /\ r.pc \in ExpertNodes /\ r.wait \in {"ok", "failed"}
  BY <1>1 DEF TInv, Conclude, Core
<1>3. PICK answered \in BOOLEAN : answered = (r.wait = "ok")
  OBVIOUS
<1>4. PICK expert, why : expert = Agent(r.pc) /\ why = ReasonAfter(expert, answered)
  OBVIOUS
<1>5. PICK new : new = Concluded(r, why, answered)
  OBVIOUS
<1>6. run' = [run EXCEPT ![a] = new] /\ reason' = [reason EXCEPT ![expert] = why]
  BY <1>1, <1>3, <1>4, <1>5 DEF Conclude
<1>7. client.experts /\ r.result[r.pc] # None
  BY <1>2 DEF Waits
<1>8. Honest(r, why, answered) /\ why \in {None, "llm_not_configured", "error"}
  BY <1>2, <1>4, <1>7, ReasonTold DEF Run
<1>9. Core(new) /\ Waits(new)
  BY <1>2, <1>5, <1>7, <1>8, ExpertEnds
<1>10. reason' \in [Experts -> {None, "llm_not_configured", "error"}]
  BY <1>6, <1>8 DEF TInv
<1> QED
  BY <1>6, <1>9, <1>10, RunMoves DEF Conclude, TInv

LEMMA EvaluateKeeps ==
    ASSUME TInv, NEW a \in Analyses, EvaluateNode(a) PROVE TInv'
<1>1. PICK r : r = run[a]
  OBVIOUS
<1>2. /\ Core(r) /\ Waits(r) /\ r \in Run /\ r.pc \in RuleNodes /\ r.pc \in Nodes
  BY <1>1 DEF TInv, EvaluateNode, Core, Nodes
<1>3. PICK next : next = Following(r)
  OBVIOUS
<1>4. PICK blocked \in BOOLEAN :
        run' = [run EXCEPT ![a] = [r EXCEPT !.result[r.pc] = blocked, !.pc = next]]
  BY <1>1, <1>3 DEF EvaluateNode
<1>5. r.wait = "no" /\ r.pc \in {"eligibility", "recheck"} /\ blocked \in ResultsOf(r.pc)
  BY <1>2 DEF Waits, RuleNodes, ExpertNodes, Experts, ResultsOf
<1>6. r.searched \in BOOLEAN /\ next \in Places
  BY <1>2, <1>3, FollowingPlace DEF Run
<1>7. PICK result, searched, s :
        /\ result = [r.result EXCEPT ![r.pc] = blocked] /\ searched = r.searched
        /\ s = [pc |-> r.pc, wait |-> r.wait, result |-> result, findings |-> r.findings,
                searched |-> searched, honest |-> r.honest, session |-> r.session]
  OBVIOUS
<1>8. Core(s) /\ s.result[s.pc] # None /\ s.pc = r.pc /\ s.wait = "no"
  <2>1. /\ result = [x \in Nodes |-> result[x]] /\ result[r.pc] = blocked
        /\ \A x \in Nodes : x # r.pc => result[x] = r.result[x]
    BY <1>2, <1>7 DEF Run
  <2> QED
    BY <1>2, <1>5, <1>6, <1>7, <2>1, ResultPut
<1>9. PICK new : new = [r EXCEPT !.result[r.pc] = blocked, !.pc = next]
  OBVIOUS
<1>10. Following(s) = next
  BY <1>3, <1>5, <1>8 DEF Following
<1>11. new = [s EXCEPT !.pc = next] /\ s \in Run /\ s.honest
  <2>1. r = [pc |-> r.pc, wait |-> r.wait, result |-> r.result, findings |-> r.findings,
             searched |-> r.searched, honest |-> r.honest, session |-> r.session]
    BY <1>2 DEF Run
  <2>2. s = [r EXCEPT !.result = result]
    BY <1>7, <2>1
  <2>3. new = [r EXCEPT !.result = result, !.pc = next]
    BY <1>7, <1>9
  <2>4. new = [s EXCEPT !.pc = next]
    BY <2>2, <2>3
  <2> QED
    BY <1>8, <2>4 DEF Core
<1>12. /\ new \in Run /\ new.pc = next /\ new.findings = s.findings /\ new.honest
       /\ new.session = s.session /\ new.result = s.result /\ new.wait = "no"
  BY <1>6, <1>8, <1>11 DEF Run
<1>13. Core(new) /\ Waits(new)
  BY <1>2, <1>5, <1>8, <1>10, <1>12, NodeEnds
<1>14. run' = [run EXCEPT ![a] = new]
  BY <1>4, <1>9
<1> QED
  BY <1>13, <1>14, RunMoves DEF EvaluateNode, TInv

LEMMA IdleRun == Idle \in Run /\ Core(Idle) /\ Waits(Idle)
<1>1. PICK idle : idle = Idle
  OBVIOUS
<1>2. idle \in Run
  BY <1>1 DEF Idle, Run, Places, Kinds, FindingKinds
<1>3. /\ idle.pc = "idle" /\ idle.wait = "no" /\ idle.honest /\ idle.findings = <<>>
      /\ idle.result = [x \in Nodes |-> None] /\ idle.session = None
  BY <1>1 DEF Idle
<1> QED
  BY <1>1, <1>2, <1>3, Fresh

LEMMA FailKeeps ==
    ASSUME TInv, NEW a \in Analyses, Fail(a) PROVE TInv'
<1>1. PICK new : new = [Idle EXCEPT !.pc = "failed"]
  OBVIOUS
<1>2. /\ new \in Run /\ new.pc = "failed" /\ new.wait = "no" /\ new.honest /\ new.findings = <<>>
      /\ new.result = [x \in Nodes |-> None] /\ new.session = None
  BY <1>1, IdleRun DEF Idle, Run, Places, Ended
<1>3. Core(new) /\ Waits(new)
  BY <1>2, Fresh
<1> QED
  BY <1>1, <1>3, RunMoves DEF Fail, TInv

LEMMA SynthesizeKeeps ==
    ASSUME TInv, NEW a \in Analyses, Synthesize(a) PROVE TInv'
<1>1. PICK r : r = run[a]
  OBVIOUS
<1>2. Core(r) /\ r \in Run /\ r.honest /\ r.pc = "synthesis"
  BY <1>1 DEF TInv, Synthesize, Core
<1>3. PICK credit, insurance, findings :
        credit = r.result["credit"] /\ insurance = r.result["insurance"] /\ findings = r.findings
  OBVIOUS
<1>4. /\ credit \in BOOLEAN /\ insurance \in BOOLEAN /\ findings \in Seq(FindingKinds)
      /\ credit <=> Second(findings)
      /\ r.result["alternative"] # None <=> Second(findings)
  <2>1. Decided(r) /\ r.pc \in Ending /\ r.pc \in Late
    BY <1>2 DEF Core, Ending, Late
  <2>2. credit \in BOOLEAN /\ insurance \in BOOLEAN
    BY <1>3, <2>1 DEF Decided
  <2>3. credit = TRUE <=> Second(findings)
    BY <1>3, <2>1 DEF Decided
  <2>4. r.result["alternative"] # None <=> Second(findings)
    BY <1>3, <2>1 DEF Decided
  <2> QED
    BY <1>2, <1>3, <2>2, <2>3, <2>4 DEF Run
<1>5. PICK session :
        session = [status |-> IF credit = TRUE \/ insurance = TRUE
                              THEN "needs_human_review" ELSE "converged",
                   round |-> IF r.result["alternative"] = None THEN 1 ELSE 2,
                   credit |-> credit, insurance |-> insurance, findings |-> findings]
  OBVIOUS
<1>6. session \in [status : {"needs_human_review", "converged"}, round : {1, 2},
                   credit : BOOLEAN, insurance : BOOLEAN, findings : Seq(FindingKinds)]
  BY <1>4, <1>5
<1>7. Answered(session)
  <2>1. Second(findings) <=> {i \in DOMAIN findings : findings[i].round = 2} # {}
    BY <1>4, LenProperties DEF Second
  <2> QED
    BY <1>4, <1>5, <2>1 DEF Answered
<1>8. PICK new : new = [Idle EXCEPT !.pc = "done", !.honest = r.honest, !.session = session]
  OBVIOUS
<1>9. /\ new \in Run /\ new.pc = "done" /\ new.wait = "no" /\ new.honest /\ new.findings = <<>>
      /\ new.result = [x \in Nodes |-> None] /\ new.session = session
  BY <1>2, <1>6, <1>8, IdleRun DEF Idle, Run, Places, Ended
<1>10. Core(new) /\ Waits(new)
  BY <1>7, <1>9, Fresh
<1>11. run' = [run EXCEPT ![a] = new]
  BY <1>1, <1>3, <1>5, <1>8 DEF Synthesize
<1> QED
  BY <1>10, <1>11, RunMoves DEF Synthesize, TInv

-----------------------------------------------------------------------------
(* The team: what it promises.                                             *)

LEMMA TeamStarts == ASSUME TeamInit PROVE TInv
<1>1. ASSUME NEW a \in Analyses PROVE Core(run[a]) /\ Waits(run[a])
  <2>1. run[a] = Idle
    BY DEF TeamInit
  <2> QED
    BY <2>1, IdleRun
<1>2. reason \in [Experts -> {None, "llm_not_configured", "error"}]
  BY DEF TeamInit
<1> QED
  BY <1>1, <1>2 DEF TeamInit, TInv

LEMMA TeamSteps == ASSUME TInv, [TeamNext]_teamVars PROVE TInv'
<1>1. ASSUME NEW a \in Analyses, Begin(a) PROVE TInv'
  BY <1>1, BeginKeeps
<1>2. ASSUME NEW a \in Analyses, ResumeAnalysis(a) PROVE TInv'
  BY <1>2, ResumeKeeps
<1>3. ASSUME NEW a \in Analyses, Reply(a) \/ TimeOut(a) PROVE TInv'
  BY <1>3, ReplyKeeps
<1>4. ASSUME NEW a \in Analyses, Step(a) PROVE TInv'
  BY <1>4, UnderstandKeeps, KeepKeeps, ConsultKeeps, ConcludeKeeps, EvaluateKeeps,
     SynthesizeKeeps, FailKeeps DEF Step
<1>5. CASE UNCHANGED teamVars
  BY <1>5 DEF teamVars, TInv, Core, Waits, Ordered, Decided, Answered, Second
<1> QED
  BY <1>1, <1>2, <1>3, <1>4, <1>5 DEF TeamNext

\* Findings in the order of their nodes are at most one of each, and the second
\* search's is the last.
LEMMA OrderedOnce ==
    ASSUME NEW findings \in Seq(FindingKinds), NEW pc, Ordered(findings, pc),
           NEW i \in DOMAIN findings
    PROVE  /\ findings[i] \in [expert : Experts, round : {1, 2}]
           /\ findings[i].round = 2 => i = Len(findings)
           /\ \A j \in 1 .. i - 1 :
                 findings[i].expert = findings[j].expert => findings[i].round = 2
<1>1. DOMAIN findings = 1 .. Len(findings) /\ Len(findings) \in Nat
  BY LenProperties
<1>2. \A k \in 1 .. Len(findings) :
         /\ findings[k] \in FindingKinds
         /\ FindingRank(findings[k]) \in 1 .. 5
         /\ findings[k].round = 2 <=> FindingRank(findings[k]) = 5
  <2>1. ASSUME NEW f \in FindingKinds
        PROVE  FindingRank(f) \in 1 .. 5 /\ (f.round = 2 <=> FindingRank(f) = 5)
    BY DEF FindingRank, FindingKinds, Experts
  <2> HIDE DEF FindingKinds
  <2>2. \A k \in 1 .. Len(findings) : findings[k] \in FindingKinds
    BY <1>1
  <2> QED
    BY <2>1, <2>2
<1>3. \A k, l \in 1 .. Len(findings) : l < k =>
         FindingRank(findings[l]) < FindingRank(findings[k])
  BY DEF Ordered
<1>4. findings[i].round = 2 => i = Len(findings)
  BY <1>1, <1>2, <1>3
<1>5. ASSUME NEW j \in 1 .. i - 1, findings[i].expert = findings[j].expert, findings[i].round # 2
      PROVE  FALSE
  <2>1. j \in 1 .. Len(findings) /\ i \in 1 .. Len(findings) /\ j < i
    BY <1>1
  <2>2. findings[j].round # 2
    BY <1>2, <1>3, <2>1
  <2>3. FindingRank(findings[j]) = FindingRank(findings[i])
    BY <1>5, <2>2 DEF FindingRank
  <2> QED
    BY <1>2, <1>3, <2>1, <2>3
<1> QED
  BY <1>1, <1>2, <1>4, <1>5 DEF FindingKinds

LEMMA TeamTold == ASSUME TInv PROVE TeamTypeOK /\ FallbackTold /\ BlockAnswered
<1>1. TeamTypeOK
  <2>1. ASSUME NEW a \in Analyses
        PROVE  /\ run[a].pc \in Nodes \cup Ended \cup {"idle", "intent", "synthesis"}
               /\ run[a].wait \in {"no", "llm", "ok", "failed"}
               /\ run[a].findings \in Seq(FindingKinds) /\ Ordered(run[a].findings, run[a].pc)
    BY DEF TInv, Core, Run, Places
  <2>2. ASSUME NEW a \in Analyses, NEW i \in DOMAIN run[a].findings
        PROVE  /\ run[a].findings[i] \in [expert : Experts, round : {1, 2}]
               /\ run[a].findings[i].round = 2 => i = Len(run[a].findings)
               /\ \A j \in 1 .. i - 1 :
                     run[a].findings[i].expert = run[a].findings[j].expert =>
                         run[a].findings[i].round = 2
    BY <2>1, OrderedOnce
  <2> QED
    BY <2>1, <2>2 DEF TeamTypeOK, TInv, Modes
<1>2. FallbackTold
  BY DEF FallbackTold, TInv, Core
<1>3. BlockAnswered
  BY DEF BlockAnswered, TInv, Core, Answered
<1> QED
  BY <1>1, <1>2, <1>3

LEMMA TeamInvariant == TeamSpec => []TInv
  BY TeamStarts, TeamSteps, PTL DEF TeamSpec

\* Every variable keeps its type; an analysis carries at most one finding of
\* each node, and the second search's comes last.
THEOREM TeamTypes == TeamSpec => []TeamTypeOK
  BY TeamInvariant, TeamTold, PTL

\* No finding and no intent log passes a fallback off as the model's answer,
\* whatever the other analyses do to the fields they share.
THEOREM FallbacksTold == TeamSpec => []FallbackTold
  BY TeamInvariant, TeamTold, PTL

\* A hard block of credit or insurance reaches a human, and one of credit is
\* followed by the second search, in every round the analysis tells of.
THEOREM BlocksAnswered == TeamSpec => []BlockAnswered
  BY TeamInvariant, TeamTold, PTL
===============================================================================
