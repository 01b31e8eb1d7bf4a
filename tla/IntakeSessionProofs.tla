------------------------- MODULE IntakeSessionProofs -------------------------
(***************************************************************************)
(* The intake for any requests, files, claims, values, forms and bounds.   *)
(*                                                                         *)
(* A request saves the session it has loaded, changed, unless its SELECT   *)
(* sees another version by then.  What has to hold of a session for it to  *)
(* be the row comes in two parts, each said of the row as well as of every *)
(* session that could still be saved, with the history as it will be after *)
(* that save.  SessionOK follows from what its own handler has seen, so it *)
(* survives saves that overwrite one another.  KeptOK relates the session  *)
(* to what other requests have stored: it holds as long as no UPDATE has   *)
(* replaced a version its SELECT had not seen, and until then nothing is   *)
(* said of a session whose version is no longer the row's, because it can  *)
(* only be refused or be the first to overwrite one.                       *)
(***************************************************************************)
EXTENDS IntakeSession, FiniteSetTheorems, SequenceTheorems, WellFoundedInduction, TLAPS

Request ==
    [pc : {"idle", "insert", "store", "list", "extract", "persist", "store_case",
           "save", "write"},
     op : {"none", "create", "upload", "process", "patch", "confirm", "run"},
     session : Session, docs : Seq(Document), next : Nat \ {0},
     doc : Docs \cup {None}, case : 0..MaxRuns, seen : Nat]

\* The documents have different ids, and those acknowledged are stored.
DocsOK ==
    /\ docs \in Seq(Document)
    /\ \A i, j \in DOMAIN docs : docs[i].id = docs[j].id => i = j
    /\ \A d \in uploaded : Stored(d)

IsCorrection(field) == field.source = "RM_CONFIRMATION"

\* The last correction in the session is this value, and so is the profile's.
KeptIn(session, value) ==
    /\ session.profile.value = value
    /\ \E i \in DOMAIN session.entered :
        /\ IsCorrection(session.entered[i]) /\ session.entered[i].value = value
        /\ \A j \in DOMAIN session.entered : IsCorrection(session.entered[j]) => j <= i

Settled(fields) ==
    Cardinality({fields[i].value : i \in DOMAIN fields}) > 1
        => \E i \in DOMAIN fields : ByRM(fields[i])

CountsFor(doc) == doc.status # "blocked" /\ Claims[doc.id] # None
Names(session, d) == \E j \in DOMAIN session.extracted : session.extracted[j].source = d
Counted(session, acknowledged) ==
    \A i \in DOMAIN docs :
        docs[i].id \in acknowledged /\ CountsFor(docs[i]) => Names(session, docs[i].id)

Reviewable(session) == session.status \in {"profile_review_required", "profile_confirmed"}

SessionOK(session, confirmations) ==
    /\ Reviewable(session) /\ ~session.unresolved => Settled(Fields(session))
    /\ session.status = "profile_confirmed" =>
        ~session.unresolved /\ Content(session.profile) \in confirmations

KeptOK(session, acknowledged, correction) ==
    /\ correction # None => KeptIn(session, correction)
    /\ Reviewable(session) => Counted(session, acknowledged)

\* The history once the request has saved.
Acknowledged(q) == IF q.op = "upload" THEN uploaded \cup {q.doc} ELSE uploaded
Correction(q) == IF q.op = "patch" THEN Last(q.session.entered).value ELSE corrected
Confirmations(q) ==
    IF q.op = "confirm" THEN attested \cup {Content(q.session.profile)} ELSE attested

\* The documents a pass has listed are the first of the table, in its order.
Listed(q) ==
    \A i \in DOMAIN q.docs :
        /\ i \in DOMAIN docs /\ docs[i].id = q.docs[i].id
        /\ docs[i].status = "blocked" <=> q.docs[i].status = "blocked"
\* All acknowledged ones are among them, and it has the fields of those read.
Extracted(q) ==
    /\ \A d \in uploaded : \E i \in DOMAIN q.docs : q.docs[i].id = d
    /\ \A i \in DOMAIN q.docs :
        i < q.next /\ CountsFor(q.docs[i]) => Names(q.session, q.docs[i].id)

Loaded(q) == q.pc \in {"store", "list", "extract", "persist", "store_case", "save", "write"}
Saves(q) == q.pc \in {"save", "write"}
Current(q) == Loaded(q) /\ ~overwritten /\ q.session.version = row.version
CurrentOK(q) ==
    /\ q.pc \in {"store", "list", "persist", "store_case"} => q.session = row
    /\ q.pc = "extract" =>
        /\ q.session.entered = row.entered /\ q.session.profile = row.profile
        /\ Extracted(q)
    /\ Saves(q) => KeptOK(q.session, Acknowledged(q), Correction(q))

RequestOK(q) ==
    /\ Loaded(q) => /\ q.session.version # 0
                    /\ ~overwritten => q.session.version <= row.version
    /\ q.pc = "store" => q.op = "upload" /\ q.doc \in Docs
    /\ q.pc = "list" => q.op = "process" /\ q.next = 1
    /\ q.pc = "extract" => q.op = "process" /\ Listed(q)
    /\ q.pc \in {"persist", "store_case"} => q.op = "run" /\ SessionOK(q.session, attested)
    /\ Saves(q) => /\ SessionOK(q.session, Confirmations(q))
                   /\ Correction(q) \in Values \cup {None}
    /\ Saves(q) /\ q.op = "upload" => q.doc \in Docs /\ Stored(q.doc)
    /\ q.pc = "write" => q.seen = q.session.version
    /\ q.op = "run" => Content(q.session.profile) \in attested /\ q.case < MaxRuns
    /\ Current(q) => CurrentOK(q)

IntakeInv ==
    /\ row \in Session /\ corrected \in Values \cup {None} /\ uploaded \subseteq Docs
    /\ overwritten \in BOOLEAN
    /\ row.version = 0 => corrected = None /\ row.status = "draft"
    /\ DocsOK
    /\ SessionOK(row, attested) /\ (~overwritten => KeptOK(row, uploaded, corrected))
    /\ req \in [Requests -> Request] /\ \A r \in Requests : RequestOK(req[r])
    /\ case \in [version : 0..MaxRuns, profile : Profile]
    /\ SnapshotAttested

-----------------------------------------------------------------------------
(* Sequences of fields.                                                    *)

\* A set of indices has a greatest one.
LEMMA LastIndex ==
    ASSUME NEW n \in Nat, NEW I \in SUBSET (1..n), I # {}
    PROVE  \E m \in I : \A k \in I : k <= m
<1> DEFINE less == OpToRel(<, Nat)
           back == {x \in Nat : \E k \in I : x = n - k}
<1>1. \A x, y \in Nat : x < y => <<x, y>> \in less
  BY DEF OpToRel
<1>2. IsWellFoundedOn(less, Nat)
  BY NatLessThanWellFounded
<1>3. \A k \in I : k \in Nat /\ n - k \in back
  OBVIOUS
<1>4. back \subseteq Nat /\ back # {}
  BY <1>3
<1>5. \A x \in back : \E k \in I : x = n - k
  OBVIOUS
<1> HIDE DEF less, back
<1>6. PICK x \in back : \A y \in back : ~ (<<y, x>> \in less)
  BY <1>2, <1>4, WFMin
<1>7. ASSUME NEW y \in back PROVE x <= y
  <2>1. x \in Nat /\ y \in Nat
    BY <1>4, <1>6
  <2>2. ~ (y < x)
    BY <1>1, <1>6, <2>1
  <2> QED
    BY <2>1, <2>2
<1>8. PICK m \in I : x = n - m
  BY <1>5, <1>6
<1>9. \A k \in I : k <= m
  BY <1>3, <1>7, <1>8
<1> QED
  BY <1>8, <1>9

\* The fields of a session: those entered, then those extracted.
LEMMA FieldsOf ==
    ASSUME NEW s \in Seq(Entry), NEW t \in Seq(Extract)
    PROVE  /\ s \o t \in Seq(Field)
           /\ DOMAIN (s \o t) = 1..(Len(s) + Len(t))
           /\ \A i \in DOMAIN s : i \in DOMAIN (s \o t) /\ (s \o t)[i] = s[i]
           /\ \A i \in DOMAIN (s \o t) :
                (s \o t)[i] \in Field /\ (IsCorrection((s \o t)[i]) => i \in DOMAIN s)
<1>1. s \in Seq(Field) /\ t \in Seq(Field)
  BY DEF Field
<1> DEFINE m == Len(s)
           n == Len(t)
           u == s \o t
<1>2. m \in Nat /\ n \in Nat /\ DOMAIN s = 1..m /\ DOMAIN t = 1..n
  BY <1>1, LenProperties
<1>3. /\ u \in Seq(Field) /\ Len(u) = m + n
      /\ \A i \in 1..(m + n) : u[i] = IF i <= m THEN s[i] ELSE t[i - m]
  BY <1>1, ConcatProperties
<1> HIDE DEF u
<1>4. DOMAIN u = 1..(m + n) /\ \A i \in DOMAIN u : u[i] \in Field
  BY <1>3, LenProperties, ElementOfSeq
<1> HIDE DEF m, n
<1>5. \A i \in DOMAIN s : i \in DOMAIN u /\ u[i] = s[i]
  BY <1>2, <1>3, <1>4
<1>6. ASSUME NEW i \in DOMAIN u, IsCorrection(u[i]) PROVE i \in DOMAIN s
  <2>1. CASE i <= m
    BY <1>2, <1>4, <2>1
  <2>2. CASE ~ (i <= m)
    <3>1. i - m \in 1..n /\ u[i] = t[i - m]
      BY <1>2, <1>3, <1>4, <2>2
    <3>2. t[i - m] \in Extract
      BY <1>2, <3>1
    <3> QED
      BY <1>6, <3>1, <3>2, IntakeAssumption DEF Extract, IsCorrection, EntrySources
  <2> QED
    BY <2>1, <2>2
<1> QED
  BY <1>3, <1>4, <1>5, <1>6 DEF u, m, n

LEMMA ProfileValueType ==
    ASSUME NEW fields \in Seq(Field), NEW value \in ProfileValues(fields)
    PROVE  value \in Values \cup {None}
<1>1. CASE fields = <<>>
  BY <1>1 DEF ProfileValues
<1>2. CASE fields # <<>>
  <2>1. PICK i \in Winners(fields) : value = fields[i].value
    BY <1>2 DEF ProfileValues
  <2>2. i \in DOMAIN fields
    BY <2>1 DEF Winners
  <2>3. fields[i] \in Field
    BY <2>2
  <2> QED
    BY <2>1, <2>3 DEF Field, Entry, Extract
<1> QED
  BY <1>1, <1>2

LEMMA Scores ==
    ASSUME NEW field
    PROVE  /\ Score(field) \in Nat /\ Score(field) <= 6
           /\ IsCorrection(field) <=> Score(field) >= 6
           /\ IsCorrection(field) => ByRM(field)
BY DEF Score, IsCorrection, ByRM

\* The last correction decides what the profile says.
LEMMA CorrectionWins ==
    ASSUME NEW s \in Seq(Entry), NEW t \in Seq(Extract), NEW k \in DOMAIN s,
           IsCorrection(s[k]), \A j \in DOMAIN s : IsCorrection(s[j]) => j <= k,
           NEW value \in ProfileValues(s \o t)
    PROVE  value = s[k].value
<1> DEFINE fields == s \o t
<1>1. /\ DOMAIN fields = 1..(Len(s) + Len(t)) /\ Len(s) + Len(t) \in Nat
      /\ k \in DOMAIN fields /\ fields[k] = s[k]
      /\ \A i \in DOMAIN fields : IsCorrection(fields[i]) => i \in DOMAIN s /\ fields[i] = s[i]
  BY FieldsOf
<1> HIDE DEF fields
<1>2. fields # <<>>
  BY <1>1
<1>3. PICK i \in Winners(fields) : value = fields[i].value
  BY <1>2 DEF ProfileValues, fields
<1>4. /\ i \in DOMAIN fields /\ \A j \in DOMAIN fields : Score(fields[j]) <= Score(fields[i])
      /\ ByRM(fields[i]) =>
            \A j \in DOMAIN fields :
                (\A l \in DOMAIN fields : Score(fields[l]) <= Score(fields[j])) => j <= i
  BY <1>3 DEF Winners
<1>5. IsCorrection(fields[i])
  <2>1. Score(fields[k]) >= 6 /\ Score(fields[k]) <= Score(fields[i])
    BY <1>1, <1>4, Scores
  <2> QED
    BY <2>1, Scores
<1>6. i <= k
  BY <1>1, <1>4, <1>5
<1>7. \A l \in DOMAIN fields : Score(fields[l]) <= Score(fields[k])
  BY <1>1, Scores
<1>8. k <= i
  BY <1>1, <1>4, <1>5, <1>7, Scores
<1>9. i = k
  BY <1>1, <1>4, <1>6, <1>8
<1> QED
  BY <1>1, <1>3, <1>9

\* Fields without an unresolved conflict agree, or an RM has decided.
LEMMA ResolvedSettled ==
    ASSUME NEW fields \in Seq(Field), ~Unresolved(fields)
    PROVE  Settled(fields)
<1> DEFINE last == {i \in DOMAIN fields :
                        \A j \in DOMAIN fields : fields[j].value = fields[i].value => j <= i}
           values == {fields[i].value : i \in DOMAIN fields}
           n == Len(fields)
           value == [i \in last |-> fields[i].value]
<1>1. n \in Nat /\ DOMAIN fields = 1..n
  BY LenProperties
<1>2. Cardinality(last) > 1 => \E i \in last : ByRM(fields[i])
  BY DEF Unresolved
<1>3. ASSUME NEW v \in values PROVE \E i \in last : fields[i].value = v
  <2> DEFINE I == {i \in DOMAIN fields : fields[i].value = v}
  <2>1. I \in SUBSET (1..n) /\ I # {}
    BY <1>1, <1>3
  <2>2. \A i \in DOMAIN fields : fields[i].value = v => i \in I
    OBVIOUS
  <2>3. \A i \in I : i \in DOMAIN fields /\ fields[i].value = v
    OBVIOUS
  <2> HIDE DEF I
  <2>4. PICK m \in I : \A i \in I : i <= m
    BY <1>1, <2>1, LastIndex
  <2>5. m \in last
    BY <2>2, <2>3, <2>4
  <2> QED
    BY <2>3, <2>5
<1>4. IsFiniteSet(1..n) /\ last \in SUBSET (1..n)
  BY <1>1, FS_Interval
<1>5. IsFiniteSet(last)
  BY <1>4, FS_Subset
<1>6. value \in Surjection(last, values)
  BY <1>3 DEF Surjection
<1> HIDE DEF value, values
<1>7. Cardinality(values) <= Cardinality(last) /\ IsFiniteSet(values)
  BY <1>5, <1>6, FS_Surjection
<1>8. Cardinality(values) \in Nat /\ Cardinality(last) \in Nat
  BY <1>5, <1>7, FS_CardinalityType
<1>9. Cardinality(values) > 1 => Cardinality(last) > 1
  BY <1>7, <1>8
<1>10. Cardinality(values) > 1 => \E i \in DOMAIN fields : ByRM(fields[i])
  BY <1>2, <1>9
<1> QED
  BY <1>10 DEF Settled, values

-----------------------------------------------------------------------------
(* The table of documents grows, and no document is unblocked.             *)

DocsGrow ==
    /\ docs' \in Seq(Document) /\ DOMAIN docs \subseteq DOMAIN docs'
    /\ \A i \in DOMAIN docs :
        /\ docs'[i].id = docs[i].id
        /\ docs'[i].status = "blocked" <=> docs[i].status = "blocked"
    /\ \A i, j \in DOMAIN docs' : docs'[i].id = docs'[j].id => i = j

LEMMA SameDocs == DocsOK /\ docs' = docs => DocsGrow
BY DEF DocsOK, DocsGrow

LEMMA CountedGrows ==
    ASSUME DocsGrow, NEW session, NEW acknowledged, \A d \in acknowledged : Stored(d),
           Counted(session, acknowledged)
    PROVE  Counted(session, acknowledged)'
<1> SUFFICES ASSUME NEW i \in DOMAIN docs', docs'[i].id \in acknowledged,
                    CountsFor(docs'[i])
             PROVE  Names(session, docs'[i].id)
  BY DEF Counted
<1>1. PICK k \in DOMAIN docs : docs[k].id = docs'[i].id
  BY DEF Stored
<1>2. k = i
  BY <1>1 DEF DocsGrow
<1>3. CountsFor(docs[k])
  BY <1>1, <1>2 DEF DocsGrow, CountsFor
<1> QED
  BY <1>1, <1>3 DEF Counted

LEMMA KeptGrows ==
    ASSUME DocsGrow, NEW session, NEW acknowledged, NEW correction,
           \A d \in acknowledged : Stored(d), KeptOK(session, acknowledged, correction)
    PROVE  KeptOK(session, acknowledged, correction)'
BY CountedGrows DEF KeptOK

LEMMA StoredGrows == ASSUME DocsGrow, NEW d, Stored(d) PROVE Stored(d)'
BY DEF DocsGrow, Stored

LEMMA RequestGrows ==
    ASSUME DocsOK, DocsGrow, UNCHANGED <<row, history>>, NEW q, RequestOK(q)
    PROVE  RequestOK(q)'
<1>1. UNCHANGED <<row, uploaded, corrected, attested, overwritten>>
  BY DEF history
<1>2. Listed(q) => Listed(q)'
  BY DEF DocsGrow, Listed
<1>3. /\ Acknowledged(q)' = Acknowledged(q) /\ Correction(q)' = Correction(q)
      /\ Confirmations(q)' = Confirmations(q)
  BY <1>1 DEF Acknowledged, Correction, Confirmations
<1>4. ASSUME Current(q) PROVE CurrentOK(q)'
  <2>1. CurrentOK(q)
    BY <1>4 DEF RequestOK
  <2>2. ASSUME Saves(q)
        PROVE  KeptOK(q.session, Acknowledged(q), Correction(q))'
    <3> DEFINE acknowledged == Acknowledged(q)
               correction == Correction(q)
    <3>2. \A d \in acknowledged : Stored(d)
      BY <2>2 DEF RequestOK, Acknowledged, DocsOK
    <3>3. KeptOK(q.session, acknowledged, correction)
      BY <2>1, <2>2 DEF CurrentOK
    <3> HIDE DEF acknowledged, correction
    <3>4. ASSUME NEW a, NEW c, a = acknowledged, c = correction
          PROVE  KeptOK(q.session, a, c)'
      BY <3>2, <3>3, <3>4, KeptGrows
    <3> QED
      BY <1>3, <3>4 DEF KeptOK, Counted, acknowledged, correction
  <2> QED
    BY <1>1, <2>1, <2>2 DEF CurrentOK, Extracted
<1>5. Stored(q.doc) => Stored(q.doc)'
  BY StoredGrows
<1>6. Current(q)' = Current(q)
  BY <1>1 DEF Current, Loaded
<1>7. /\ SessionOK(q.session, attested)' = SessionOK(q.session, attested)
      /\ SessionOK(q.session, Confirmations(q))' = SessionOK(q.session, Confirmations(q))
  BY <1>1, <1>3 DEF SessionOK
<1> QED
  BY <1>1, <1>2, <1>3, <1>4, <1>5, <1>6, <1>7 DEF RequestOK, Loaded

\* A request goes on, without writing the session.
LEMMA RequestMoves ==
    ASSUME IntakeInv, NEW r \in Requests, NEW new \in Request, RequestOK(new)',
           req' = [req EXCEPT ![r] = new], DocsGrow, UNCHANGED <<row, history>>,
           case' \in [version : 0..MaxRuns, profile : Profile], SnapshotAttested'
    PROVE  IntakeInv'
<1>1. UNCHANGED <<row, uploaded, corrected, attested, overwritten>>
  BY DEF history
<1>2. /\ req' \in [Requests -> Request] /\ req'[r] = new
      /\ \A q \in Requests \ {r} : req'[q] = req[q]
  BY DEF IntakeInv
<1>3. DocsOK'
  BY <1>1, StoredGrows DEF IntakeInv, DocsOK, DocsGrow
<1>4. (SessionOK(row, attested) /\ (~overwritten => KeptOK(row, uploaded, corrected)))'
  <2>1. ASSUME ~overwritten, NEW a, NEW b, NEW c, a = row, b = uploaded, c = corrected
        PROVE  KeptOK(a, b, c)'
    BY <2>1, KeptGrows DEF IntakeInv, DocsOK
  <2>2. (~overwritten => KeptOK(row, uploaded, corrected))'
    BY <1>1, <2>1 DEF KeptOK, Counted
  <2> QED
    BY <1>1, <2>2 DEF IntakeInv, SessionOK
<1>5. ASSUME NEW p \in Requests PROVE RequestOK(req[p])'
  <2>1. CASE p = r
    BY <1>2, <2>1
    DEF RequestOK, Loaded, Saves, Current, CurrentOK, Listed, Stored, Extracted, SessionOK,
        KeptOK, Counted, Acknowledged, Correction, Confirmations
  <2>2. CASE p # r
    <3>1. ASSUME NEW q, q = req[p] PROVE RequestOK(q)'
      BY <3>1, RequestGrows DEF IntakeInv
    <3>2. req'[p] = req[p]
      BY <1>2, <2>2
    <3> QED
      BY <3>1, <3>2
      DEF RequestOK, Loaded, Saves, Current, CurrentOK, Listed, Stored, Extracted,
          SessionOK, KeptOK, Counted, Acknowledged, Correction, Confirmations
  <2> QED
    BY <2>1, <2>2
<1> QED
  BY <1>1, <1>2, <1>3, <1>4, <1>5 DEF IntakeInv

LEMMA RequestGoesOn ==
    ASSUME IntakeInv, NEW r \in Requests, NEW new \in Request, RequestOK(new),
           req' = [req EXCEPT ![r] = new], DocsGrow, UNCHANGED <<row, case, history>>
    PROVE  IntakeInv'
<1>1. RequestOK(new)'
  BY RequestGrows DEF IntakeInv
<1>2. case' \in [version : 0..MaxRuns, profile : Profile] /\ SnapshotAttested'
  BY DEF IntakeInv, SnapshotAttested, history
<1> QED
  BY <1>1, <1>2, RequestMoves

-----------------------------------------------------------------------------
(* The steps of a request that leave the session's row alone.              *)

LEMMA IdleRequest == Idle \in Request /\ RequestOK(Idle)
<1>1. <<>> \in Seq(Entry) /\ <<>> \in Seq(Extract) /\ <<>> \in Seq(Document)
  BY EmptySeq
<1>2. NoRow.profile \in Profile
  BY DEF NoRow, Profile
<1>3. NoRow \in Session
  BY <1>1, <1>2 DEF NoRow, Session, Statuses
<1>4. 0 \in 0..MaxRuns
  BY IntakeAssumption
<1> QED
  BY <1>1, <1>3, <1>4 DEF Idle, Request, RequestOK, Loaded, Saves, Current

LEMMA FinishStep ==
    ASSUME IntakeInv, NEW r \in Requests, Finish(r), UNCHANGED <<tables, history>>
    PROVE  IntakeInv'
<1>1. DocsGrow
  BY SameDocs DEF IntakeInv, tables
<1> QED
  BY <1>1, IdleRequest, RequestGoesOn DEF Finish, tables

\* A request that begins with the session it has loaded.
LEMMA BeginsOK ==
    ASSUME IntakeInv, row.version # 0,
           NEW pc \in {"store", "list", "persist", "save"},
           NEW op \in {"upload", "process", "patch", "confirm", "run"},
           NEW new \in Request, new.pc = pc, new.op = op,
           new.session.version = row.version,
           pc = "store" => op = "upload" /\ new.doc \in Docs,
           pc = "list" => op = "process" /\ new.next = 1,
           pc = "persist" => op = "run" /\ SessionOK(new.session, attested),
           pc = "save" => /\ op # "upload" /\ SessionOK(new.session, Confirmations(new))
                          /\ Correction(new) \in Values \cup {None},
           op = "run" => Content(new.session.profile) \in attested /\ new.case < MaxRuns,
           Current(new) => CurrentOK(new)
    PROVE  RequestOK(new)
<1>1. row.version <= row.version
  BY DEF IntakeInv, Session
<1> QED
  BY <1>1 DEF RequestOK, Loaded, Saves

LEMMA LookupStep ==
    ASSUME IntakeInv, NEW r \in Requests, CreateLookup(r) PROVE IntakeInv'
<1> DEFINE new == [Idle EXCEPT !.pc = "insert", !.op = "create"]
<1>1. new \in Request /\ new.pc = "insert" /\ new.op = "create"
  BY IdleRequest DEF Request
<1>2. req' = [req EXCEPT ![r] = new] /\ UNCHANGED <<tables, history>>
  BY DEF CreateLookup
<1> HIDE DEF new
<1>3. RequestOK(new)
  BY <1>1 DEF RequestOK, Loaded, Saves, Current
<1>4. DocsGrow
  BY <1>2, SameDocs DEF IntakeInv, tables
<1> QED
  BY <1>1, <1>2, <1>3, <1>4, RequestGoesOn DEF tables

LEMMA UploadStep ==
    ASSUME IntakeInv, NEW r \in Requests, Upload(r) PROVE IntakeInv'
<1>1. PICK d \in Docs :
        req' = [req EXCEPT ![r] = [Idle EXCEPT !.pc = "store", !.op = "upload",
                                               !.session = row, !.doc = d]]
  BY DEF Upload
<1> DEFINE new == [Idle EXCEPT !.pc = "store", !.op = "upload", !.session = row, !.doc = d]
<1>2. row \in Session /\ row.version # 0
  BY IntakeAssumption DEF Upload, Loads, IntakeInv
<1>3. /\ new \in Request /\ new.pc = "store" /\ new.op = "upload" /\ new.session = row
      /\ new.doc = d
  BY <1>2, IdleRequest DEF Request
<1>4. req' = [req EXCEPT ![r] = new] /\ UNCHANGED <<tables, history>>
  BY <1>1 DEF Upload
<1> HIDE DEF new
<1>5. RequestOK(new)
  BY <1>2, <1>3, BeginsOK DEF CurrentOK, Saves
<1>6. DocsGrow
  BY <1>4, SameDocs DEF IntakeInv, tables
<1> QED
  BY <1>3, <1>4, <1>5, <1>6, RequestGoesOn DEF tables

\* Process, Patch and Confirm.
LEMMA BeginStep ==
    ASSUME IntakeInv, NEW r \in Requests, Loads(r), NEW session \in Session,
           session.version = row.version, NEW pc, NEW op,
           \/ pc = "list" /\ op = "process" /\ session = row
           \/ /\ pc = "save" /\ op = "patch" /\ SessionOK(session, attested)
              /\ Last(session.entered).value \in Values
              /\ ~overwritten => KeptOK(session, uploaded, Last(session.entered).value)
           \/ /\ pc = "save" /\ op = "confirm"
              /\ SessionOK(session, attested \cup {Content(session.profile)})
              /\ ~overwritten => KeptOK(session, uploaded, corrected),
           Begin(r, op, pc, session), UNCHANGED <<tables, history>>
    PROVE  IntakeInv'
<1> DEFINE new == [Idle EXCEPT !.pc = pc, !.op = op, !.session = session]
<1>1. /\ new \in Request /\ new.pc = pc /\ new.op = op /\ new.session = session
      /\ new.next = Idle.next
  BY IdleRequest DEF Request
<1>2. req' = [req EXCEPT ![r] = new]
  BY DEF Begin
<1> HIDE DEF new
<1>3. row.version # 0
  BY DEF Loads
<1>4. Current(new) => CurrentOK(new)
  BY <1>1 DEF Current, CurrentOK, Saves, Acknowledged, Correction
<1>5. RequestOK(new)
  BY <1>1, <1>3, <1>4, BeginsOK DEF Idle, Correction, Confirmations, IntakeInv
<1>6. DocsGrow
  BY SameDocs DEF IntakeInv, tables
<1> QED
  BY <1>1, <1>2, <1>5, <1>6, RequestGoesOn DEF tables

LEMMA ProcessStep ==
    ASSUME IntakeInv, NEW r \in Requests, Process(r) PROVE IntakeInv'
BY BeginStep DEF Process, IntakeInv

LEMMA RunStep ==
    ASSUME IntakeInv, NEW r \in Requests, Run(r) PROVE IntakeInv'
<1> DEFINE new == [Idle EXCEPT !.pc = "persist", !.op = "run", !.session = row,
                               !.case = case.version]
<1>1. row \in Session /\ row.version # 0 /\ case.version \in 0..MaxRuns
      /\ Content(row.profile) \in attested /\ SessionOK(row, attested)
  <2>1. SessionOK(row, attested) /\ row \in Session
    BY DEF IntakeInv
  <2>2. Content(row.profile) \in attested
    BY <2>1 DEF SessionOK, Run
  <2>3. row.version # 0
    BY DEF IntakeInv, Run
  <2> QED
    BY <2>1, <2>2, <2>3 DEF IntakeInv
<1>2. /\ new \in Request /\ new.pc = "persist" /\ new.op = "run" /\ new.session = row
      /\ new.case = case.version
  BY <1>1, IdleRequest DEF Request
<1>3. req' = [req EXCEPT ![r] = new] /\ UNCHANGED <<tables, history>>
  BY DEF Run
<1> HIDE DEF new
<1>4. RequestOK(new)
  BY <1>1, <1>2, BeginsOK DEF CurrentOK, Saves, Run
<1>5. DocsGrow
  BY <1>3, SameDocs DEF IntakeInv, tables
<1> QED
  BY <1>2, <1>3, <1>4, <1>5, RequestGoesOn DEF tables

LEMMA InRequest ==
    ASSUME IntakeInv, NEW r \in Requests
    PROVE  /\ req[r] \in Request /\ RequestOK(req[r])
           /\ req[r].session \in Session /\ req[r].docs \in Seq(Document)
           /\ req[r].session.version \in Nat /\ row.version \in Nat
<1>1. req[r] \in Request /\ RequestOK(req[r]) /\ row \in Session
  BY DEF IntakeInv
<1> QED
  BY <1>1 DEF Request, Session

\* A document is stored under an id of its own.
LEMMA SaveDocumentGrows ==
    ASSUME IntakeInv, NEW d \in Docs, ~Stored(d), NEW status \in DocStatuses,
           SaveDocument(d, status)
    PROVE  DocsGrow /\ Stored(d)'
<1> DEFINE doc == [id |-> d, status |-> status]
           n == Len(docs)
<1>1. doc \in Document /\ docs \in Seq(Document) /\ docs' = Append(docs, doc)
  BY DEF Document, IntakeInv, DocsOK, SaveDocument
<1>2. doc.id = d
  OBVIOUS
<1> HIDE DEF doc
<1>3. /\ n \in Nat /\ DOMAIN docs = 1..n /\ docs' \in Seq(Document)
      /\ DOMAIN docs' = 1..(n + 1) /\ docs'[n + 1] = doc
      /\ \A i \in 1..n : docs'[i] = docs[i]
  BY <1>1, AppendProperties, LenProperties
<1> HIDE DEF n
<1>4. \A i \in 1..n : docs[i].id # d
  BY <1>3 DEF Stored
<1>5. n + 1 \in 1..(n + 1) /\ 1..n \subseteq 1..(n + 1)
      /\ \A i \in 1..(n + 1) : i \in 1..n \/ i = n + 1
  BY <1>3
<1>6. \A i, j \in 1..(n + 1) : docs'[i].id = docs'[j].id => i = j
  <2>1. \A i, j \in 1..n : docs[i].id = docs[j].id => i = j
    BY <1>3 DEF IntakeInv, DocsOK
  <2> QED
    BY <1>2, <1>3, <1>4, <1>5, <2>1
<1>7. Stored(d)'
  BY <1>2, <1>3, <1>5 DEF Stored
<1> QED
  BY <1>3, <1>5, <1>6, <1>7 DEF DocsGrow

LEMMA UploadStoreStep ==
    ASSUME IntakeInv, NEW r \in Requests, UploadStore(r) PROVE IntakeInv'
<1>1. PICK q \in Request : q = req[r]
  BY InRequest
<1> DEFINE session == Received(q.session)
           new == [q EXCEPT !.pc = "save", !.session = session]
<1>2. /\ RequestOK(q) /\ q.session \in Session /\ q.pc = "store"
      /\ UNCHANGED <<row, case, history>>
  BY <1>1, InRequest DEF UploadStore
<1>3. CASE Stored(q.doc)
  BY <1>1, <1>2, <1>3, FinishStep DEF UploadStore, tables
<1>4. CASE ~Stored(q.doc)
  <2>1. PICK status \in {"uploaded", "blocked"} : SaveDocument(q.doc, status)
    BY <1>1, <1>4 DEF UploadStore
  <2>2. q.doc \in Docs /\ q.op = "upload"
    BY <1>2 DEF RequestOK
  <2>3. DocsGrow /\ Stored(q.doc)'
    BY <1>4, <2>1, <2>2, SaveDocumentGrows DEF DocStatuses
  <2>4. req' = [req EXCEPT ![r] = new]
    BY <1>1, <1>4 DEF UploadStore, Request, IntakeInv
  <2>5. /\ session \in Session /\ session.status = "files_uploaded"
        /\ session.version = q.session.version /\ session.entered = q.session.entered
        /\ session.profile.value = q.session.profile.value
    BY <1>2 DEF Session, Profile, Statuses, Received
  <2> HIDE DEF session
  <2>6. /\ new \in Request /\ new.pc = "save" /\ new.op = "upload" /\ new.doc = q.doc
        /\ new.session = session
    BY <1>1, <2>2, <2>5 DEF Request
  <2> HIDE DEF new
  <2>7. Current(new) => KeptOK(session, Acknowledged(new), corrected)
    <3>1. SUFFICES ASSUME Current(new)
                   PROVE  KeptOK(session, Acknowledged(new), corrected)
      OBVIOUS
    <3>2. q.session = row /\ ~overwritten
      BY <1>2, <2>5, <2>6, <3>1 DEF Current, Loaded, RequestOK, CurrentOK
    <3>3. corrected # None => KeptIn(row, corrected)
      BY <3>2 DEF IntakeInv, KeptOK
    <3>4. corrected # None => KeptIn(session, corrected)
      BY <2>5, <3>2, <3>3 DEF KeptIn
    <3> QED
      BY <2>5, <3>4 DEF KeptOK, Reviewable
  <2>8. RequestOK(new)'
    <3>1. UNCHANGED <<row, uploaded, corrected, attested, overwritten>>
      BY <1>2 DEF history
    <3>2. /\ session.version # 0
          /\ ~overwritten => session.version <= row.version
      BY <1>2, <2>5 DEF RequestOK, Loaded
    <3>3. Current(new)' => CurrentOK(new)'
      BY <2>5, <2>6, <2>7, <3>1
      DEF Current, Loaded, CurrentOK, Saves, KeptOK, Reviewable, Acknowledged, Correction
    <3>4. SessionOK(session, Confirmations(new))' /\ Correction(new)' \in Values \cup {None}
      BY <2>5, <2>6, <3>1 DEF SessionOK, Reviewable, Correction, IntakeInv
    <3> QED
      BY <2>2, <2>3, <2>6, <3>1, <3>2, <3>3, <3>4 DEF RequestOK, Loaded, Saves, Stored
  <2>9. case' \in [version : 0..MaxRuns, profile : Profile] /\ SnapshotAttested'
    BY <1>2 DEF IntakeInv, SnapshotAttested, history
  <2> QED
    BY <1>2, <2>3, <2>4, <2>6, <2>8, <2>9, RequestMoves
<1> QED
  BY <1>3, <1>4

LEMMA ProcessListStep ==
    ASSUME IntakeInv, NEW r \in Requests, ProcessList(r) PROVE IntakeInv'
<1>1. PICK q \in Request : q = req[r]
  BY InRequest
<1>2. /\ RequestOK(q) /\ q.session \in Session /\ q.pc = "list" /\ q.op = "process"
      /\ UNCHANGED <<tables, history>>
  BY <1>1, InRequest DEF ProcessList, RequestOK
<1>3. CASE docs = <<>>
  BY <1>2, <1>3, FinishStep DEF ProcessList
<1>4. CASE docs # <<>>
  <2> DEFINE session == [q.session EXCEPT !.extracted = <<>>]
             new == [q EXCEPT !.pc = "extract", !.docs = docs, !.session = session]
  <2>1. req' = [req EXCEPT ![r] = new]
    BY <1>1, <1>4 DEF ProcessList, Request, IntakeInv
  <2>2. <<>> \in Seq(Extract)
    BY EmptySeq
  <2>3. /\ session \in Session /\ session.version = q.session.version
        /\ session.entered = q.session.entered /\ session.profile = q.session.profile
    BY <1>2, <2>2 DEF Session
  <2> HIDE DEF session
  <2>4. docs \in Seq(Document)
    BY DEF IntakeInv, DocsOK
  <2>5. /\ new \in Request /\ new.pc = "extract" /\ new.op = "process" /\ new.docs = docs
        /\ new.session = session /\ new.next = q.next
    BY <1>1, <1>2, <2>3, <2>4 DEF Request
  <2> HIDE DEF new
  <2>6. Listed(new)
    BY <2>5 DEF Listed
  <2>7. ASSUME Current(new) PROVE CurrentOK(new)
    <3>1. q.session = row
      BY <1>2, <2>3, <2>5, <2>7 DEF Current, Loaded, RequestOK, CurrentOK
    <3>2. Extracted(new)
      <4>1. \A d \in uploaded : \E i \in DOMAIN docs : docs[i].id = d
        BY DEF IntakeInv, DocsOK, Stored
      <4>2. \A i \in DOMAIN docs : ~ (i < q.next)
        BY <1>2, <2>4, LenProperties DEF RequestOK
      <4> QED
        BY <2>5, <4>1, <4>2 DEF Extracted
    <3> QED
      BY <2>3, <2>5, <3>1, <3>2 DEF CurrentOK, Saves
  <2>8. RequestOK(new)
    BY <1>2, <2>3, <2>5, <2>6, <2>7 DEF RequestOK, Loaded, Saves
  <2>9. DocsGrow
    BY <1>2, SameDocs DEF IntakeInv, tables
  <2> QED
    BY <1>2, <2>1, <2>5, <2>8, <2>9, RequestGoesOn DEF tables
<1> QED
  BY <1>3, <1>4

\* The document read next keeps its id and its block.
LEMMA UpdateDocumentGrows ==
    ASSUME IntakeInv, NEW q \in Request, Listed(q), NEW n \in DOMAIN q.docs, NEW d,
           d = q.docs[n],
           UpdateDocument(d.id, IF d.status = "blocked" THEN "blocked" ELSE "completed")
    PROVE  DocsGrow
<1> DEFINE status == IF d.status = "blocked" THEN "blocked" ELSE "completed"
           changed(i) == [docs[i] EXCEPT !.status = status]
<1>1. docs' = [i \in DOMAIN docs |-> IF docs[i].id = d.id THEN changed(i) ELSE docs[i]]
  BY DEF UpdateDocument
<1>2. /\ docs \in Seq(Document) /\ DOMAIN docs = 1..Len(docs) /\ Len(docs) \in Nat
      /\ \A i \in DOMAIN docs : docs[i] \in Document
      /\ \A i, j \in DOMAIN docs : docs[i].id = docs[j].id => i = j
  BY LenProperties, ElementOfSeq DEF IntakeInv, DocsOK
<1>3. /\ n \in DOMAIN docs /\ docs[n].id = d.id
      /\ docs[n].status = "blocked" <=> d.status = "blocked"
  BY DEF Listed
<1>4. \A i \in DOMAIN docs : changed(i) \in Document /\ changed(i).id = docs[i].id
                             /\ changed(i).status = status
  BY <1>2 DEF Document, DocStatuses
<1>5. status = "blocked" <=> d.status = "blocked"
  OBVIOUS
<1> HIDE DEF changed, status
<1>6. DOMAIN docs' = DOMAIN docs /\ docs' \in [1..Len(docs) -> Document]
  BY <1>1, <1>2, <1>4
<1>7. docs' \in Seq(Document)
  BY <1>2, <1>6, IsASeq
<1>8. ASSUME NEW i \in DOMAIN docs
      PROVE  /\ docs'[i].id = docs[i].id
             /\ docs'[i].status = "blocked" <=> docs[i].status = "blocked"
  <2>1. CASE docs[i].id = d.id
    <3>1. i = n /\ docs'[i] = changed(i)
      BY <1>1, <1>2, <1>3, <2>1
    <3> QED
      BY <1>3, <1>4, <1>5, <3>1
  <2>2. CASE docs[i].id # d.id
    BY <1>1, <2>2
  <2> QED
    BY <2>1, <2>2
<1> QED
  BY <1>2, <1>6, <1>7, <1>8 DEF DocsGrow

LEMMA ProcessDocumentStep ==
    ASSUME IntakeInv, NEW r \in Requests, ProcessDocument(r) PROVE IntakeInv'
<1>1. PICK q \in Request : q = req[r]
  BY InRequest
<1> DEFINE d == q.docs[q.next]
           field == [source |-> d.id, value |-> Claims[d.id]]
           skipped == d.status = "blocked" \/ Claims[d.id] = None
           extracted == IF skipped THEN q.session.extracted
                                   ELSE Append(q.session.extracted, field)
           session == [q.session EXCEPT !.extracted = extracted]
           new == [q EXCEPT !.next = q.next + 1, !.session = session]
<1>2. /\ RequestOK(q) /\ q.session \in Session /\ q.pc = "extract" /\ q.op = "process"
      /\ Listed(q) /\ q.next \in DOMAIN q.docs /\ q.docs \in Seq(Document)
      /\ UNCHANGED <<row, case, history>>
  <2>1. /\ RequestOK(q) /\ q.session \in Session /\ q.pc = "extract"
        /\ q.docs \in Seq(Document) /\ q.next <= Len(q.docs)
        /\ UNCHANGED <<row, case, history>>
    BY <1>1, InRequest DEF ProcessDocument
  <2>2. q.next \in Nat \ {0} /\ DOMAIN q.docs = 1..Len(q.docs) /\ Len(q.docs) \in Nat
    BY <2>1, LenProperties DEF Request
  <2> QED
    BY <2>1, <2>2 DEF RequestOK
<1>3. d \in Document /\ d.id \in Docs
  <2>1. d \in Document
    BY <1>2, LenProperties, ElementOfSeq
  <2> QED
    BY <2>1 DEF Document
<1>4. extracted \in Seq(Extract) /\ q.session.extracted \in Seq(Extract)
  <2>1. q.session.extracted \in Seq(Extract)
    BY <1>2 DEF Session
  <2>2. ~skipped => field \in Extract
    BY <1>3, IntakeAssumption DEF Extract
  <2> HIDE DEF field, skipped
  <2> QED
    BY <2>1, <2>2, AppendProperties
<1>5. DocsGrow
  BY <1>1, <1>2, UpdateDocumentGrows DEF ProcessDocument
<1>6. req' = [req EXCEPT ![r] = new]
  BY <1>1 DEF ProcessDocument, Request, Session, IntakeInv
<1>7. /\ \A e : Names(q.session, e) => \E j \in DOMAIN extracted : extracted[j].source = e
      /\ CountsFor(d) => \E j \in DOMAIN extracted : extracted[j].source = d.id
  <2> DEFINE t == q.session.extracted
  <2>1. CASE skipped
    BY <2>1 DEF Names, CountsFor
  <2>2. CASE ~skipped
    <3>1. field \in Extract /\ field.source = d.id
      BY <1>3, <2>2, IntakeAssumption DEF Extract
    <3>2. extracted = Append(t, field)
      BY <2>2
    <3> HIDE DEF field, extracted
    <3>3. /\ DOMAIN t = 1..Len(t) /\ Len(t) \in Nat /\ Len(extracted) = Len(t) + 1
          /\ DOMAIN extracted = 1..Len(extracted)
          /\ \A i \in 1..Len(t) : extracted[i] = t[i]
          /\ extracted[Len(t) + 1] = field
      BY <1>4, <3>1, <3>2, AppendProperties, LenProperties
    <3>4. Len(t) + 1 \in DOMAIN extracted /\ DOMAIN t \subseteq DOMAIN extracted
      BY <3>3
    <3> QED
      BY <3>1, <3>3, <3>4 DEF Names
  <2> QED
    BY <2>1, <2>2
<1> HIDE DEF extracted
<1>8. /\ session \in Session /\ session.version = q.session.version
      /\ session.entered = q.session.entered /\ session.profile = q.session.profile
      /\ session.extracted = extracted
  BY <1>2, <1>4 DEF Session
<1> HIDE DEF session
<1>9. /\ new \in Request /\ new.pc = "extract" /\ new.op = "process" /\ new.docs = q.docs
      /\ new.session = session /\ new.next = q.next + 1
  <2>1. q.next + 1 \in Nat \ {0}
    BY DEF Request
  <2> QED
    BY <1>2, <1>8, <2>1 DEF Request
<1> HIDE DEF new
<1>10. ASSUME Current(new) PROVE CurrentOK(new)
  <2>1. /\ q.session.entered = row.entered /\ q.session.profile = row.profile
        /\ Extracted(q)
    BY <1>2, <1>8, <1>9, <1>10 DEF Current, Loaded, RequestOK, CurrentOK
  <2>2. ASSUME NEW i \in DOMAIN q.docs, i < q.next + 1, CountsFor(q.docs[i])
        PROVE  Names(session, q.docs[i].id)
    <3>1. CASE i = q.next
      BY <1>7, <1>8, <2>2, <3>1 DEF Names
    <3>2. CASE i # q.next
      <4>1. i \in Nat /\ q.next \in Nat
        BY <1>2, LenProperties
      <4>2. i < q.next
        BY <2>2, <3>2, <4>1
      <4>3. Names(q.session, q.docs[i].id)
        BY <2>1, <2>2, <4>2 DEF Extracted
      <4> QED
        BY <1>7, <1>8, <4>3 DEF Names
    <3> QED
      BY <3>1, <3>2
  <2>3. Extracted(new)
    BY <1>9, <2>1, <2>2 DEF Extracted
  <2> QED
    BY <1>8, <1>9, <2>1, <2>3 DEF CurrentOK, Saves
<1>11. RequestOK(new)
  BY <1>2, <1>8, <1>9, <1>10 DEF RequestOK, Loaded, Saves, Listed
<1> QED
  BY <1>2, <1>5, <1>6, <1>9, <1>11, RequestGoesOn

\* Every document listed has been read.
LEMMA ProcessEndStep ==
    ASSUME IntakeInv, NEW r \in Requests, ProcessEnd(r) PROVE IntakeInv'
<1>1. PICK q \in Request : q = req[r]
  BY InRequest
<1>2. /\ RequestOK(q) /\ q.session \in Session /\ q.pc = "extract" /\ q.op = "process"
      /\ Listed(q) /\ UNCHANGED <<tables, history>>
  BY <1>1, InRequest DEF ProcessEnd, RequestOK
<1>3. \A i \in DOMAIN q.docs : i < q.next
  <2>1. q.docs \in Seq(Document) /\ q.next \in Nat /\ Len(q.docs) < q.next
    BY <1>1 DEF ProcessEnd, Request
  <2> QED
    BY <2>1, LenProperties
<1>4. Current(q) => /\ q.session.entered = row.entered /\ q.session.profile = row.profile
                    /\ Extracted(q)
  BY <1>2 DEF RequestOK, CurrentOK
<1>5. Current(q) /\ corrected # None => KeptIn(row, corrected)
  BY DEF IntakeInv, Current, KeptOK
<1>6. DocsGrow
  BY <1>2, SameDocs DEF IntakeInv, tables
\* Either way the session that is to be saved is one that may be the row.
<1>7. ASSUME NEW session \in Session, session.version = q.session.version,
             SessionOK(session, attested),
             Current(q) => KeptOK(session, uploaded, corrected),
             Begin(r, "process", "save", session)
      PROVE  IntakeInv'
  <2> DEFINE new == [Idle EXCEPT !.pc = "save", !.op = "process", !.session = session]
  <2>1. new \in Request /\ new.pc = "save" /\ new.op = "process" /\ new.session = session
    BY IdleRequest DEF Request
  <2>2. req' = [req EXCEPT ![r] = new]
    BY <1>7 DEF Begin
  <2> HIDE DEF new
  <2>3. Current(new) => CurrentOK(new)
    BY <1>2, <1>7, <2>1 DEF Current, Loaded, CurrentOK, Saves, Acknowledged, Correction
  <2>4. RequestOK(new)
    BY <1>2, <1>7, <2>1, <2>3
    DEF RequestOK, Loaded, Saves, Correction, Confirmations, IntakeInv
  <2> QED
    BY <1>2, <1>6, <2>1, <2>2, <2>4, RequestGoesOn DEF tables
<1>8. CASE \A i \in DOMAIN q.docs : q.docs[i].status = "blocked"
  <2> DEFINE session == [q.session EXCEPT !.status = "processing_failed"]
  <2>1. Begin(r, "process", "save", session)
    BY <1>1, <1>8 DEF ProcessEnd
  <2>2. /\ session \in Session /\ session.version = q.session.version
        /\ session.status = "processing_failed"
        /\ session.entered = q.session.entered /\ session.profile = q.session.profile
    BY <1>2 DEF Session, Statuses
  <2> HIDE DEF session
  <2>3. Current(q) => KeptOK(session, uploaded, corrected)
    BY <1>4, <1>5, <2>2 DEF KeptOK, KeptIn, Reviewable
  <2>4. SessionOK(session, attested)
    BY <2>2 DEF SessionOK, Reviewable
  <2> QED
    BY <1>7, <2>1, <2>2, <2>3, <2>4
<1>9. CASE ~ \A i \in DOMAIN q.docs : q.docs[i].status = "blocked"
  <2> DEFINE fields == Fields(q.session)
  <2>1. PICK value \in ProfileValues(fields) :
            Begin(r, "process", "save",
                  [Rebuilt(q.session, value) EXCEPT !.unresolved = Unresolved(fields)])
    BY <1>1, <1>9 DEF ProcessEnd
  <2> DEFINE profile == [revision |-> q.session.profile.revision + 1, value |-> value,
                         confirmed |-> FALSE]
             session == [Rebuilt(q.session, value) EXCEPT !.unresolved = Unresolved(fields)]
  <2>2. Begin(r, "process", "save", session)
    BY <2>1
  <2>3. q.session.entered \in Seq(Entry) /\ q.session.extracted \in Seq(Extract)
        /\ fields = q.session.entered \o q.session.extracted
    BY <1>2 DEF Session, Fields
  <2>4. fields \in Seq(Field) /\ value \in Values \cup {None}
    BY <2>3, FieldsOf, ProfileValueType
  <2>5. profile \in Profile
    BY <1>2, <2>4 DEF Session, Profile
  <2>6. Unresolved(fields) \in BOOLEAN
    BY DEF Unresolved
  <2> HIDE DEF fields
  <2>7. /\ session \in Session /\ session.version = q.session.version
        /\ session.status = "profile_review_required"
        /\ session.entered = q.session.entered /\ session.extracted = q.session.extracted
        /\ session.profile.value = value /\ session.unresolved = Unresolved(fields)
    BY <1>2, <2>5, <2>6 DEF Session, Statuses, Rebuilt, Profile
  <2> HIDE DEF session
  <2>8. SessionOK(session, attested)
    BY <2>3, <2>4, <2>7, ResolvedSettled DEF SessionOK, Fields
  <2>9. ASSUME Current(q) PROVE KeptOK(session, uploaded, corrected)
    <3>1. corrected # None => KeptIn(session, corrected)
      <4>1. SUFFICES ASSUME corrected # None PROVE KeptIn(session, corrected)
        OBVIOUS
      <4>2. PICK i \in DOMAIN row.entered :
                /\ IsCorrection(row.entered[i]) /\ row.entered[i].value = corrected
                /\ \A j \in DOMAIN row.entered : IsCorrection(row.entered[j]) => j <= i
        BY <1>5, <2>9, <4>1 DEF KeptIn
      <4>3. q.session.entered = row.entered
        BY <1>4, <2>9
      <4>4. value = corrected
        BY <2>1, <2>3, <4>2, <4>3, CorrectionWins
      <4> QED
        BY <2>7, <4>2, <4>3, <4>4 DEF KeptIn
    <3>2. Counted(session, uploaded)
      <4>1. SUFFICES ASSUME NEW i \in DOMAIN docs, docs[i].id \in uploaded,
                            CountsFor(docs[i])
                     PROVE  Names(session, docs[i].id)
        BY DEF Counted
      <4>2. Extracted(q)
        BY <1>4, <2>9
      <4>3. PICK k \in DOMAIN q.docs : q.docs[k].id = docs[i].id
        BY <4>1, <4>2 DEF Extracted
      <4>4. k = i /\ (docs[i].status = "blocked" <=> q.docs[k].status = "blocked")
        BY <1>2, <4>3 DEF Listed, IntakeInv, DocsOK
      <4>5. CountsFor(q.docs[k])
        BY <4>1, <4>3, <4>4 DEF CountsFor
      <4>6. Names(q.session, q.docs[k].id)
        BY <1>3, <4>2, <4>5 DEF Extracted
      <4> QED
        BY <2>7, <4>3, <4>6 DEF Names
    <3> QED
      BY <3>1, <3>2 DEF KeptOK
  <2> QED
    BY <1>7, <2>2, <2>7, <2>8, <2>9
<1> QED
  BY <1>8, <1>9

LEMMA PatchStep ==
    ASSUME IntakeInv, NEW r \in Requests, Patch(r) PROVE IntakeInv'
<1>1. PICK value \in Values : \E session \in Corrected(row, value) :
            Begin(r, "patch", "save", session)
  BY DEF Patch
<1> DEFINE correction == [source |-> "RM_CONFIRMATION", value |-> value]
           entered == Append(row.entered, correction)
           n == Len(row.entered)
<1>2. PICK best \in ProfileValues(entered \o row.extracted) :
        Begin(r, "patch", "save", [Rebuilt(row, best) EXCEPT !.entered = entered,
                                                             !.unresolved = FALSE])
  BY <1>1 DEF Corrected
<1> DEFINE session == [Rebuilt(row, best) EXCEPT !.entered = entered, !.unresolved = FALSE]
           profile == [revision |-> row.profile.revision + 1, value |-> best,
                       confirmed |-> FALSE]
<1>3. row \in Session /\ row.entered \in Seq(Entry) /\ row.extracted \in Seq(Extract)
  BY DEF IntakeInv, Session
<1>4. correction \in Entry /\ IsCorrection(correction) /\ correction.value = value
  BY DEF Entry, EntrySources, IsCorrection
<1> HIDE DEF correction
<1>5. /\ entered \in Seq(Entry) /\ DOMAIN entered = 1..(n + 1) /\ n \in Nat
      /\ Len(entered) = n + 1 /\ entered[n + 1] = correction
  BY <1>3, <1>4, AppendProperties, LenProperties
<1> HIDE DEF entered, n
<1>6. n + 1 \in DOMAIN entered /\ \A j \in DOMAIN entered : j <= n + 1
  BY <1>5
<1>7. best = value
  BY <1>3, <1>4, <1>5, <1>6, CorrectionWins
<1>8. profile \in Profile
  BY <1>3, <1>7 DEF Session, Profile
<1>9. /\ session \in Session /\ session.version = row.version
      /\ session.status = "profile_review_required"
      /\ session.entered = entered /\ session.extracted = row.extracted
      /\ session.profile.value = value /\ ~session.unresolved
  BY <1>3, <1>5, <1>7, <1>8 DEF Session, Statuses, Rebuilt, Profile
<1> HIDE DEF session
<1>10. Last(session.entered).value = value
  BY <1>4, <1>5, <1>9 DEF Last
<1>11. ~overwritten => KeptOK(session, uploaded, value)
  <2>1. KeptIn(session, value)
    BY <1>4, <1>5, <1>6, <1>9 DEF KeptIn
  <2>2. ~overwritten => Counted(row, uploaded)
    BY DEF IntakeInv, KeptOK, Reviewable, Patch
  <2>3. ~overwritten => Counted(session, uploaded)
    BY <1>9, <2>2 DEF Counted, Names
  <2> QED
    BY <2>1, <2>3 DEF KeptOK
<1>12. SessionOK(session, attested)
  <2>1. \E i \in DOMAIN Fields(session) : ByRM(Fields(session)[i])
    BY <1>3, <1>4, <1>5, <1>6, <1>9, FieldsOf, Scores DEF Fields
  <2> QED
    BY <1>9, <2>1 DEF SessionOK, Settled
<1>13. Begin(r, "patch", "save", session)
  BY <1>2 DEF session
<1> QED
  BY <1>9, <1>10, <1>11, <1>12, <1>13, BeginStep DEF Patch

LEMMA ConfirmStep ==
    ASSUME IntakeInv, NEW r \in Requests, Confirm(r) PROVE IntakeInv'
<1> DEFINE session == Confirmed(row)
<1>1. /\ row \in Session /\ SessionOK(row, attested)
      /\ ~overwritten => KeptOK(row, uploaded, corrected)
  BY DEF IntakeInv
<1>2. /\ session \in Session /\ session.version = row.version
      /\ session.status = "profile_confirmed" /\ session.unresolved = row.unresolved
      /\ session.entered = row.entered /\ session.extracted = row.extracted
      /\ session.profile.value = row.profile.value
  BY <1>1 DEF Confirmed, Session, Profile, Statuses
<1>3. Loads(r) /\ ~row.unresolved /\ row.status = "profile_review_required"
      /\ Begin(r, "confirm", "save", session) /\ UNCHANGED <<tables, history>>
  BY DEF Confirm
<1> HIDE DEF session
<1>4. SessionOK(session, attested \cup {Content(session.profile)})
  <2>1. Settled(Fields(session))
    BY <1>1, <1>2, <1>3 DEF SessionOK, Reviewable, Fields
  <2> QED
    BY <1>2, <1>3, <2>1 DEF SessionOK
<1>5. ASSUME ~overwritten PROVE KeptOK(session, uploaded, corrected)
  <2>1. corrected # None => KeptIn(session, corrected)
    BY <1>1, <1>2, <1>5 DEF KeptOK, KeptIn
  <2>2. Counted(session, uploaded)
    BY <1>1, <1>2, <1>3, <1>5 DEF KeptOK, Reviewable, Counted, Names
  <2> QED
    BY <2>1, <2>2 DEF KeptOK
<1> QED
  BY <1>2, <1>3, <1>4, <1>5, BeginStep

\* A request moves on with the session it has loaded and perhaps what its SELECT
\* has seen.
LEMMA RunSelectStep ==
    ASSUME IntakeInv, NEW r \in Requests, RunSelect(r) PROVE IntakeInv'
<1>1. PICK q \in Request : q = req[r]
  BY InRequest
<1>2. RequestOK(q) /\ q.session \in Session /\ q.pc = "persist" /\ UNCHANGED <<tables, history>>
  BY <1>1, InRequest DEF RunSelect
<1>3. CASE Finish(r)
  BY <1>2, <1>3, FinishStep
<1>4. CASE Goto(r, "store_case")
  <2> DEFINE new == [q EXCEPT !.pc = "store_case"]
  <2>1. req' = [req EXCEPT ![r] = new]
    BY <1>1, <1>4 DEF Goto
  <2>2. /\ new \in Request /\ new.pc = "store_case" /\ new.op = q.op
        /\ new.session = q.session /\ new.case = q.case
    BY <1>2 DEF Request
  <2> HIDE DEF new
  <2>3. RequestOK(new)
    BY <1>2, <2>2 DEF RequestOK, Current, CurrentOK, Loaded, Saves
  <2>4. DocsGrow
    BY <1>2, SameDocs DEF IntakeInv, tables
  <2> QED
    BY <1>2, <2>1, <2>2, <2>3, <2>4, RequestGoesOn DEF tables
<1> QED
  BY <1>1, <1>3, <1>4 DEF RunSelect

\* The case is stored with the profile the request has loaded.
LEMMA RunUpdateStep ==
    ASSUME IntakeInv, NEW r \in Requests, RunUpdate(r) PROVE IntakeInv'
<1>1. PICK q \in Request : q = req[r]
  BY InRequest
<1> DEFINE new == [q EXCEPT !.pc = "save"]
<1>2. /\ RequestOK(q) /\ q.session \in Session /\ q.pc = "store_case" /\ q.op = "run"
      /\ UNCHANGED <<row, docs, history>>
      /\ case' = [version |-> q.case + 1, profile |-> q.session.profile]
  BY <1>1, InRequest DEF RunUpdate, RequestOK
<1>3. req' = [req EXCEPT ![r] = new]
  BY <1>1 DEF RunUpdate, Goto
<1>4. /\ new \in Request /\ new.pc = "save" /\ new.op = "run"
      /\ new.session = q.session /\ new.case = q.case
  BY <1>2 DEF Request
<1> HIDE DEF new
<1>5. /\ Acknowledged(new) = uploaded /\ Correction(new) = corrected
      /\ Confirmations(new) = attested
  BY <1>4 DEF Acknowledged, Correction, Confirmations
<1>6. ASSUME Current(new) PROVE CurrentOK(new)
  <2>1. q.session = row /\ ~overwritten
    BY <1>2, <1>4, <1>6 DEF Current, Loaded, RequestOK, CurrentOK
  <2>2. KeptOK(new.session, uploaded, corrected)
    BY <1>4, <2>1 DEF IntakeInv
  <2> QED
    BY <1>4, <1>5, <2>2 DEF CurrentOK
<1>7. RequestOK(new)
  BY <1>2, <1>4, <1>5, <1>6 DEF RequestOK, Loaded, Saves, IntakeInv
<1>8. DocsGrow
  BY <1>2, SameDocs DEF IntakeInv
<1>9. q.case + 1 \in 0..MaxRuns
  BY <1>2, IntakeAssumption DEF RequestOK, Request
<1>10. case' \in [version : 0..MaxRuns, profile : Profile]
  BY <1>2, <1>9 DEF Session
<1>11. SnapshotAttested'
  BY <1>2 DEF SnapshotAttested, RequestOK, history
<1>12. RequestOK(new)'
  BY <1>2, <1>7, <1>8, RequestGrows DEF IntakeInv
<1> QED
  BY <1>2, <1>3, <1>4, <1>8, <1>10, <1>11, <1>12, RequestMoves

\* What the SELECT sees is the version the handler loaded.
LEMMA SaveSelectStep ==
    ASSUME IntakeInv, NEW r \in Requests, SaveSelect(r) PROVE IntakeInv'
<1>1. PICK q \in Request : q = req[r]
  BY InRequest
<1>2. /\ RequestOK(q) /\ q.session \in Session /\ q.pc = "save"
      /\ row.version = q.session.version /\ UNCHANGED <<tables, history>>
  BY <1>1, InRequest DEF SaveSelect
<1> DEFINE seen == row.version
           new == [q EXCEPT !.pc = "write", !.seen = seen]
<1>3. req' = [req EXCEPT ![r] = new]
  BY <1>1 DEF SaveSelect, Request, IntakeInv
<1>4. seen \in Nat /\ seen = q.session.version
  BY <1>2, InRequest
<1> HIDE DEF seen
<1>5. /\ new \in Request /\ new.pc = "write" /\ new.op = q.op /\ new.doc = q.doc
      /\ new.session = q.session /\ new.case = q.case /\ new.seen = seen
  BY <1>4 DEF Request
<1> HIDE DEF new
<1>6. /\ Acknowledged(new) = Acknowledged(q) /\ Correction(new) = Correction(q)
      /\ Confirmations(new) = Confirmations(q)
  BY <1>5 DEF Acknowledged, Correction, Confirmations
<1>7. RequestOK(new)
  BY <1>2, <1>4, <1>5, <1>6 DEF RequestOK, Loaded, Saves, Current, CurrentOK
<1>8. DocsGrow
  BY <1>2, SameDocs DEF IntakeInv, tables
<1> QED
  BY <1>2, <1>3, <1>5, <1>7, <1>8, RequestGoesOn DEF tables

-----------------------------------------------------------------------------
(* The steps that write the session's row.                                 *)

\* The row is a session that may be saved.  As long as none has been overwritten
\* it has a greater version than any session loaded before.
LEMMA RowMoves ==
    ASSUME IntakeInv, NEW r \in Requests, Finish(r), UNCHANGED <<docs, case>>,
           row' \in Session, row'.version # 0, overwritten' \in BOOLEAN,
           ~overwritten' => ~overwritten /\ row'.version = row.version + 1,
           corrected' \in Values \cup {None}, uploaded' \subseteq Docs,
           \A d \in uploaded' : Stored(d), attested \subseteq attested',
           SessionOK(row, attested)', (~overwritten => KeptOK(row, uploaded, corrected))'
    PROVE  IntakeInv'
<1>1. /\ req' \in [Requests -> Request] /\ req'[r] = Idle
      /\ \A p \in Requests \ {r} : req'[p] = req[p]
  BY IdleRequest DEF Finish, IntakeInv
<1>2. row.version \in Nat
  BY DEF IntakeInv, Session
<1>3. ASSUME NEW p \in Requests PROVE RequestOK(req[p])'
  <2>1. CASE p = r
    BY <1>1, <2>1 DEF Idle, RequestOK, Loaded, Saves, Current
  <2>2. CASE p # r
    <3>1. PICK q \in Request : q = req[p]
      BY InRequest
    <3>2. RequestOK(q) /\ req'[p] = q /\ q.session.version \in Nat
      BY <1>1, <2>2, <3>1, InRequest
    <3>3. Current(q)' = FALSE
      <4>1. Loaded(q) /\ ~overwritten' =>
              q.session.version <= row.version /\ row'.version = row.version + 1
        BY <3>2 DEF RequestOK
      <4> QED
        BY <1>2, <3>2, <4>1 DEF Current, Loaded
    <3>4. Loaded(q) /\ ~overwritten' => q.session.version <= row'.version
      BY <1>2, <3>2 DEF RequestOK
    <3>5. SessionOK(q.session, attested) => SessionOK(q.session, attested')
      BY DEF SessionOK
    <3>6. /\ SessionOK(q.session, Confirmations(q)) => SessionOK(q.session, Confirmations(q)')
          /\ Correction(q) \in Values \cup {None} => Correction(q)' \in Values \cup {None}
      BY DEF SessionOK, Confirmations, Correction
    <3>7. RequestOK(q)'
      BY <3>2, <3>3, <3>4, <3>5, <3>6
      DEF RequestOK, Loaded, Saves, Listed, Stored, SessionOK
    <3> QED
      BY <3>2, <3>7 DEF RequestOK, Loaded, Saves, Current, CurrentOK, Listed, Stored,
         Extracted, SessionOK, KeptOK, Counted, Acknowledged, Correction, Confirmations
  <2> QED
    BY <2>1, <2>2
<1>4. DocsOK'
  BY DEF IntakeInv, DocsOK, Stored
<1>5. SnapshotAttested' /\ case' \in [version : 0..MaxRuns, profile : Profile]
  BY DEF IntakeInv, SnapshotAttested
<1> QED
  BY <1>1, <1>3, <1>4, <1>5 DEF IntakeInv

LEMMA SaveUpdateStep ==
    ASSUME IntakeInv, NEW r \in Requests, SaveUpdate(r) PROVE IntakeInv'
<1>1. PICK q \in Request : q = req[r]
  BY InRequest
<1>2. PICK session \in Session : session = q.session
  BY <1>1, InRequest
<1>3. /\ RequestOK(q) /\ q.pc = "write" /\ q.seen = session.version
      /\ row' = [session EXCEPT !.version = q.seen + 1]
      /\ overwritten' = (overwritten \/ row.version # q.seen)
      /\ uploaded' = Acknowledged(q) /\ corrected' = Correction(q)
      /\ attested' = Confirmations(q)
      /\ Finish(r) /\ UNCHANGED <<docs, case>>
  BY <1>1, <1>2, InRequest
  DEF SaveUpdate, Acknowledged, Correction, Confirmations, RequestOK
<1>4. /\ row' \in Session /\ row'.version = session.version + 1 /\ row'.version # 0
      /\ row'.status = session.status /\ row'.profile = session.profile
      /\ row'.entered = session.entered /\ row'.extracted = session.extracted
      /\ row'.unresolved = session.unresolved
  <2>1. session.version + 1 \in Nat \ {0} /\ row' = [session EXCEPT !.version = session.version + 1]
    BY <1>3 DEF Session
  <2> QED
    BY <2>1 DEF Session
<1>5. ~overwritten' => ~overwritten /\ row.version = session.version
  BY <1>3
<1>6. (~overwritten => KeptOK(row, uploaded, corrected))'
  <2>1. ~overwritten' => KeptOK(session, Acknowledged(q), Correction(q))
    BY <1>2, <1>3, <1>5 DEF RequestOK, Current, CurrentOK, Loaded, Saves
  <2>2. \A c : KeptIn(session, c) => KeptIn(row', c)
    BY <1>4 DEF KeptIn
  <2>3. \A a : Counted(session, a) => Counted(row', a)
    BY <1>4 DEF Counted, Names
  <2>4. ~overwritten' => KeptOK(row', Acknowledged(q), Correction(q))
    BY <1>4, <2>1, <2>2, <2>3 DEF KeptOK, Reviewable
  <2> QED
    BY <1>3, <2>4 DEF KeptOK, Counted
<1>7. SessionOK(row, attested)'
  <2>1. SessionOK(session, Confirmations(q)) /\ Fields(row') = Fields(session)
    BY <1>2, <1>3, <1>4 DEF RequestOK, Saves, Fields
  <2> QED
    BY <1>3, <1>4, <2>1 DEF SessionOK, Reviewable
<1>8. uploaded' \subseteq Docs /\ \A d \in uploaded' : Stored(d)
  BY <1>3 DEF Acknowledged, RequestOK, Saves, IntakeInv, DocsOK
<1>9. attested \subseteq attested' /\ corrected' \in Values \cup {None}
  BY <1>3 DEF Confirmations, RequestOK, Saves
<1>10. overwritten' \in BOOLEAN
  BY <1>3 DEF IntakeInv
<1> QED
  BY <1>3, <1>4, <1>5, <1>6, <1>7, <1>8, <1>9, <1>10, RowMoves

LEMMA CreateRecordStep ==
    ASSUME IntakeInv, NEW r \in Requests, CreateRecord(r) PROVE IntakeInv'
<1>1. CASE row.version > 0
  BY <1>1, FinishStep DEF CreateRecord, tables
<1>2. CASE ~ (row.version > 0)
  <2>1. PICK form \in Forms : \E value \in ProfileValues(form) :
            row' = [NoRow EXCEPT !.version = 1, !.entered = form,
                        !.profile = [revision |-> 1, value |-> value, confirmed |-> FALSE]]
    BY <1>2 DEF CreateRecord
  <2>2. PICK value \in ProfileValues(form) :
            row' = [NoRow EXCEPT !.version = 1, !.entered = form,
                        !.profile = [revision |-> 1, value |-> value, confirmed |-> FALSE]]
    BY <2>1
  <2>3. form \in Seq(Entry) /\ form \in Seq(Field)
    BY IntakeAssumption DEF Field
  <2>4. value \in Values \cup {None} /\ <<>> \in Seq(Extract)
    BY <2>3, ProfileValueType, EmptySeq
  <2>5. row.version = 0 /\ corrected = None
    <3>1. row.version \in Nat
      BY DEF IntakeInv, Session
    <3> QED
      BY <1>2, <3>1 DEF IntakeInv
  <2> DEFINE profile == [revision |-> 1, value |-> value, confirmed |-> FALSE]
  <2>10. profile \in Profile
    BY <2>4 DEF Profile
  <2> HIDE DEF profile
  <2>6. row' \in Session /\ row'.version = row.version + 1 /\ row'.status = "draft"
    <3>1. row' = [NoRow EXCEPT !.version = 1, !.entered = form, !.profile = profile]
      BY <2>2 DEF profile
    <3>2. /\ row' = [version |-> 1, status |-> "draft", entered |-> form,
                     extracted |-> <<>>, unresolved |-> FALSE, profile |-> profile]
      BY <3>1 DEF NoRow
    <3> QED
      BY <2>3, <2>4, <2>5, <2>10, <3>2 DEF Session, Statuses
  <2>7. UNCHANGED <<uploaded, corrected, attested, overwritten, docs, case>> /\ Finish(r)
    BY DEF CreateRecord, history
  <2>8. SessionOK(row, attested)' /\ KeptOK(row, uploaded, corrected)'
    BY <2>5, <2>6, <2>7 DEF SessionOK, KeptOK, Reviewable
  <2>9. row'.version # 0
    BY <2>5, <2>6
  <2> QED
    BY <2>6, <2>7, <2>8, <2>9, RowMoves DEF IntakeInv, DocsOK
<1> QED
  BY <1>1, <1>2

-----------------------------------------------------------------------------
(* The specification.                                                      *)

LEMMA InitIntakeInv == Init => IntakeInv
<1> SUFFICES ASSUME Init PROVE IntakeInv
  OBVIOUS
<1>1. Idle \in Request /\ Idle.session = NoRow /\ Idle.pc = "idle" /\ Idle.op = "none"
  BY IdleRequest DEF Idle
<1>2. NoRow \in Session /\ NoRow.profile \in Profile /\ <<>> \in Seq(Document)
  BY <1>1, EmptySeq DEF Request, Session
<1>3. NoRow.version = 0 /\ NoRow.status = "draft"
  BY DEF NoRow
<1>4. DocsOK
  BY <1>2 DEF Init, DocsOK, Stored
<1>5. \A r \in Requests : RequestOK(req[r])
  BY <1>1 DEF Init, RequestOK, Loaded, Saves, Current
<1>6. SessionOK(row, attested) /\ KeptOK(row, uploaded, corrected)
  BY <1>3 DEF Init, SessionOK, KeptOK, Reviewable
<1>7. case \in [version : 0..MaxRuns, profile : Profile] /\ SnapshotAttested
  BY <1>2, IntakeAssumption DEF Init, SnapshotAttested
<1> QED
  BY <1>1, <1>2, <1>3, <1>4, <1>5, <1>6, <1>7 DEF Init, IntakeInv

LEMMA NextIntakeInv == IntakeInv /\ [Next]_vars => IntakeInv'
<1> SUFFICES ASSUME IntakeInv, [Next]_vars PROVE IntakeInv'
  OBVIOUS
<1>1. ASSUME UNCHANGED vars PROVE IntakeInv'
  <2>1. UNCHANGED <<row, docs, case, req, uploaded, corrected, attested, overwritten>>
    BY <1>1 DEF vars, tables, history
  <2>2. DocsGrow
    BY <2>1, SameDocs DEF IntakeInv
  <2>3. ASSUME NEW r \in Requests PROVE RequestOK(req[r])'
    <3>1. PICK q \in Request : q = req[r]
      BY InRequest
    <3>2. RequestOK(q)'
      BY <2>1, <2>2, <3>1, InRequest, RequestGrows DEF IntakeInv, history
    <3> QED
      BY <2>1, <3>1, <3>2 DEF RequestOK, Loaded, Saves, Current, CurrentOK, Listed,
         Extracted, Stored, SessionOK, KeptOK, Counted, Acknowledged, Correction,
         Confirmations
  <2>4. DocsOK'
    BY <2>1 DEF IntakeInv, DocsOK, Stored
  <2>5. (SessionOK(row, attested) /\ (~overwritten => KeptOK(row, uploaded, corrected)))'
    BY <2>1 DEF IntakeInv, SessionOK, KeptOK, Counted
  <2> QED
    BY <2>1, <2>3, <2>4, <2>5 DEF IntakeInv, SnapshotAttested
<1>2. ASSUME NEW r \in Requests, SaveConflict(r) \/ Die(r) PROVE IntakeInv'
  BY <1>2, FinishStep DEF SaveConflict, Die
<1>3. ASSUME NEW r \in Requests, Step(r) PROVE IntakeInv'
  BY <1>2, <1>3, CreateRecordStep, UploadStoreStep, ProcessListStep, ProcessDocumentStep,
     ProcessEndStep, RunSelectStep, RunUpdateStep, SaveSelectStep, SaveUpdateStep DEF Step
<1>4. ASSUME NEW r \in Requests, UploadDuplicate(r) PROVE IntakeInv'
  BY <1>1, <1>4 DEF UploadDuplicate
<1> QED
  BY <1>1, <1>2, <1>3, <1>4, LookupStep, UploadStep, ProcessStep, PatchStep, ConfirmStep,
     RunStep DEF Next

LEMMA IntakeInvariant == Spec => []IntakeInv
BY InitIntakeInv, NextIntakeInv, PTL DEF Spec

(* The session, its documents, the case and what the requests hold keep    *)
(* their types.                                                            *)
THEOREM IntakeTypes == Spec => []IntakeTypeOK
<1>1. IntakeInv => IntakeTypeOK
  BY DEF IntakeInv, DocsOK, IntakeTypeOK, Request
<1> QED
  BY <1>1, IntakeInvariant, PTL

(* Whatever is uploaded and processed, and however the requests interleave *)
(* or die, the profile keeps the RM's last stored correction as long as no *)
(* UPDATE of save_intake has replaced a version its SELECT had not seen    *)
(* (service.py, _resolved_fields; repository.py, save_intake).             *)
THEOREM CorrectionsKept == Spec => []CorrectionKept
<1>1. IntakeInv => CorrectionKept
  BY DEF IntakeInv, KeptOK, KeptIn, CorrectionKept
<1> QED
  BY <1>1, IntakeInvariant, PTL

(* Under the same condition a confirmed profile has the fields of every    *)
(* acknowledged document that is not blocked: the versions the SELECTs     *)
(* compare order uploads, passes and confirmations.                        *)
THEOREM ConfirmedCounts == Spec => []DocumentsCounted
<1>1. IntakeInv => DocumentsCounted
  BY DEF IntakeInv, KeptOK, Reviewable, Counted, Names, CountsFor, DocumentsCounted
<1> QED
  BY <1>1, IntakeInvariant, PTL

(* Whichever saves are overwritten, a profile is only confirmed when its   *)
(* sources agree or an RM has decided (service.py, _detect_conflicts and   *)
(* confirm).                                                               *)
THEOREM ConfirmedSettled == Spec => []ConflictsSettled
<1>1. IntakeInv => ConflictsSettled
  BY DEF IntakeInv, SessionOK, Reviewable, Settled, ConflictsSettled
<1> QED
  BY <1>1, IntakeInvariant, PTL

(* The case is analysed with a profile whose confirmation was stored,      *)
(* whatever happens to the session while the workflow runs (router.py,     *)
(* run_sales_case_analysis).                                               *)
THEOREM AnalysesAttested == Spec => []SnapshotAttested
<1>1. IntakeInv => SnapshotAttested
  BY DEF IntakeInv
<1> QED
  BY <1>1, IntakeInvariant, PTL
=============================================================================
