---------------------------- MODULE IntakeSession ----------------------------
(***************************************************************************)
(* The intake of one sales case (app/intake/service.py behind the          *)
(* /sales-cases endpoints): the draft an employee creates, the documents   *)
(* uploaded and extracted, the customer profile an RM corrects and         *)
(* confirms, and the analysis started from the confirmed profile.          *)
(*                                                                         *)
(* The session is one versioned row; a document is a row of its own,       *)
(* written by transactions of its own before the session is.  Requests     *)
(* interleave between transactions and can die there.  Of the profile one  *)
(* high-impact field is kept, with the sources that claim a value for it.  *)
(* The copies written beside the session and read by no handler (jobs,     *)
(* extracted_fields, field_conflicts, customer_profile_drafts) are not.    *)
(*                                                                         *)
(* The router builds a V2Repository, and with it a lock, for every call    *)
(* (router.py, repo), so no lock orders save_intake's SELECT and UPDATE    *)
(* against those of another request, and the UPDATE does not name the      *)
(* version again: both are steps of their own, as save_case's are.         *)
(***************************************************************************)
EXTENDS Naturals, Sequences, FiniteSets, SequencesExt

CONSTANTS
    Requests,           \* concurrent HTTP requests
    Docs,               \* files, told apart by their SHA-256
    Claims,             \* what a file says of the field, if anything
    Values,             \* values of the profile field
    Forms,              \* what a draft starts from: sequences of fields
    None,
    MaxVersion,         \* bound: a session saved more often is only analysed
    MaxOverwritten,     \* bound: the same, once a save has been overwritten
    MaxRuns             \* bound: analyses stored

\* Where a field that no file names comes from.
EntrySources == {"RM_INPUT", "CUSTOMER_INPUT", "CRM_PROFILE", "RM_CONFIRMATION"}
Entry == [source : EntrySources, value : Values]

ASSUME IntakeAssumption ==
    /\ Forms \subseteq Seq(Entry) /\ Docs \cap EntrySources = {}
    /\ Claims \in [Docs -> Values \cup {None}]
    /\ MaxVersion \in Nat /\ MaxOverwritten \in 0..MaxVersion /\ MaxRuns \in Nat
    /\ None \notin Values \cup Docs

VARIABLES
    row,        \* intake_sessions: the row the client's Idempotency-Key names
    docs,       \* case_documents in order of creation
    case,       \* the case's row: its version and profile snapshot
    req,        \* each request
    attested,   \* history: profiles whose confirmation was stored
    uploaded,   \* history: documents whose upload was stored
    corrected,  \* history: the RM's last stored correction
    overwritten \* history: an UPDATE has replaced what its SELECT had not seen

tables == <<row, docs, case>>
history == <<attested, uploaded, corrected, overwritten>>
vars == <<tables, req, history>>

(***************************************************************************)
(* Fields and the profile built from them.                                 *)
(***************************************************************************)
Extract == [source : Docs, value : Values]
Field == Entry \cup Extract

\* confirmed_by_rm: manual input unless the customer submitted the form, and
\* every correction.
ByRM(field) == field.source \in {"RM_INPUT", "RM_CONFIRMATION"}

\* Mutant of Score: a correction has no priority of its own.
ScoreUncorrected(field) ==
    CASE field.source = "RM_CONFIRMATION" -> 4
      [] field.source = "RM_INPUT" -> 5
      [] field.source = "CRM_PROFILE" -> 2
      [] OTHER -> 3

Score(field) ==
    CASE field.source = "RM_CONFIRMATION" -> 6
      [] field.source = "RM_INPUT" -> 5
      [] field.source = "CRM_PROFILE" -> 2
      [] OTHER -> 3

\* _resolved_fields: the best score wins; among equals the more confident,
\* then the later one.  What an RM entered has confidence 1.
Winners(fields) ==
    LET best == {i \in DOMAIN fields :
                    \A j \in DOMAIN fields : Score(fields[j]) <= Score(fields[i])}
    IN {i \in best : ByRM(fields[i]) => \A j \in best : j <= i}

ProfileValues(fields) ==
    IF fields = <<>> THEN {None} ELSE {fields[i].value : i \in Winners(fields)}

\* Mutant of Unresolved: the conflict of two sources of one kind is missed.
UnresolvedSameKind(fields) ==
    \E i, j \in DOMAIN fields :
        /\ fields[i].value # fields[j].value
        /\ fields[i].source \in Docs /\ fields[j].source \in Docs
        /\ ~ByRM(fields[i]) /\ ~ByRM(fields[j])

\* _detect_conflicts: the last field with each value stands for the value.
Unresolved(fields) ==
    LET last == {i \in DOMAIN fields :
                    \A j \in DOMAIN fields : fields[j].value = fields[i].value => j <= i}
    IN Cardinality(last) > 1 /\ \A i \in last : ~ByRM(fields[i])

(***************************************************************************)
(* Rows.                                                                   *)
(***************************************************************************)
Statuses == {"draft", "files_uploaded", "processing_failed",
             "profile_review_required", "profile_confirmed"}
Profile == [revision : Nat, value : Values \cup {None}, confirmed : BOOLEAN]

\* extracted_fields, as what was entered and what the last pass extracted: the
\* order of the two decides nothing but Unresolved, which follows the pass.
Session == [version : Nat, status : Statuses, entered : Seq(Entry),
            extracted : Seq(Extract), unresolved : BOOLEAN, profile : Profile]
Fields(session) == session.entered \o session.extracted

\* "blocked" stands for quarantined, needs_ocr and dead_letter.
DocStatuses == {"uploaded", "completed", "blocked"}
Document == [id : Docs, status : DocStatuses]

Content(profile) == <<profile.revision, profile.value>>

NoRow == [version |-> 0, status |-> "draft", entered |-> <<>>, extracted |-> <<>>,
          unresolved |-> FALSE,
          profile |-> [revision |-> 0, value |-> None, confirmed |-> FALSE]]
Idle == [pc |-> "idle", op |-> "none", session |-> NoRow, docs |-> <<>>, next |-> 1,
         doc |-> None, case |-> 0, seen |-> 0]

Init ==
    /\ row = NoRow
    /\ docs = <<>>
    /\ case = [version |-> 0, profile |-> NoRow.profile]
    /\ req = [r \in Requests |-> Idle]
    /\ attested = {} /\ uploaded = {} /\ corrected = None /\ overwritten = FALSE

Goto(r, pc) == req' = [req EXCEPT ![r].pc = pc]
Finish(r) == req' = [req EXCEPT ![r] = Idle]

(***************************************************************************)
(* POST /sales-cases with one Idempotency-Key: look the key up, insert the *)
(* intake, record the answer.  An intake inserted beside the recorded one  *)
(* is a draft no answer names.                                             *)
(***************************************************************************)
CreateLookup(r) ==
    /\ req[r].pc = "idle" /\ row.version = 0
    /\ req' = [req EXCEPT ![r] = [Idle EXCEPT !.pc = "insert", !.op = "create"]]
    /\ UNCHANGED <<tables, history>>

\* ON CONFLICT DO NOTHING: whoever comes second answers with the first one's.
CreateRecord(r) ==
    /\ req[r].pc = "insert"
    /\ IF row.version > 0
       THEN UNCHANGED row
       ELSE \E form \in Forms : \E value \in ProfileValues(form) :
                row' = [NoRow EXCEPT !.version = 1, !.entered = form,
                            !.profile = [revision |-> 1, value |-> value,
                                         confirmed |-> FALSE]]
    /\ Finish(r)
    /\ UNCHANGED <<docs, case, history>>

(***************************************************************************)
(* Every other handler loads the session first.  A PATCH, a confirmation   *)
(* and an analysis name the version the client has read; another version   *)
(* is refused before anything is written.                                  *)
(***************************************************************************)
Loads(r) ==
    /\ req[r].pc = "idle"
    /\ row.version \in 1..(IF overwritten THEN MaxOverwritten ELSE MaxVersion)

Begin(r, op, pc, session) ==
    req' = [req EXCEPT ![r] = [Idle EXCEPT !.pc = pc, !.op = op, !.session = session]]

\* Mutant of SaveSelect: the version is not compared.
SaveSelectUnchecked(r) ==
    /\ req[r].pc = "save"
    /\ req' = [req EXCEPT ![r].pc = "write", ![r].seen = row.version]
    /\ UNCHANGED <<tables, history>>

\* save_intake: the version its SELECT sees is the one the handler loaded ...
SaveSelect(r) ==
    /\ req[r].pc = "save" /\ row.version = req[r].session.version
    /\ req' = [req EXCEPT ![r].pc = "write", ![r].seen = row.version]
    /\ UNCHANGED <<tables, history>>

\* ... and its UPDATE replaces the row, whatever version that has by now.
SaveUpdate(r) ==
    LET session == req[r].session IN
    /\ req[r].pc = "write"
    /\ row' = [session EXCEPT !.version = req[r].seen + 1]
    /\ overwritten' = (overwritten \/ row.version # req[r].seen)
    /\ uploaded' = IF req[r].op = "upload" THEN uploaded \cup {req[r].doc} ELSE uploaded
    /\ corrected' = IF req[r].op = "patch" THEN Last(session.entered).value ELSE corrected
    /\ attested' = IF req[r].op = "confirm"
                   THEN attested \cup {Content(session.profile)} ELSE attested
    /\ Finish(r)
    /\ UNCHANGED <<docs, case>>

\* Its StateConflictError.
SaveConflict(r) ==
    /\ req[r].pc = "save" /\ row.version # req[r].session.version
    /\ Finish(r)
    /\ UNCHANGED <<tables, history>>

(***************************************************************************)
(* add_document.  A hash the intake already has is answered from its row,  *)
(* as deduplicated, and the session is left as it is.                      *)
(***************************************************************************)
Stored(d) == \E i \in DOMAIN docs : docs[i].id = d
SaveDocument(d, status) == docs' = Append(docs, [id |-> d, status |-> status])
UpdateDocument(d, status) ==
    docs' = [i \in DOMAIN docs |-> IF docs[i].id = d THEN [docs[i] EXCEPT !.status = status]
                                                     ELSE docs[i]]

Upload(r) ==
    /\ Loads(r)
    /\ \E d \in Docs :
        /\ ~Stored(d)
        /\ req' = [req EXCEPT ![r] = [Idle EXCEPT !.pc = "store", !.op = "upload",
                                                 !.session = row, !.doc = d]]
    /\ UNCHANGED <<tables, history>>

UploadDuplicate(r) ==
    /\ Loads(r)
    /\ \E d \in Docs : Stored(d)
    /\ UNCHANGED vars

Received(session) ==
    [session EXCEPT !.status = "files_uploaded", !.profile.confirmed = FALSE]

\* Mutant of UploadStore: a file that needs OCR gets a status of its own.
UploadStoreNeedsOcr(r) ==
    /\ req[r].pc = "store"
    /\ SaveDocument(req[r].doc, "needs_ocr")
    /\ req' = [req EXCEPT ![r].pc = "save", ![r].session = Received(@)]
    /\ UNCHANGED <<row, case, history>>

\* UNIQUE(intake_id, sha256): a second insertion fails and ends the request.
UploadStore(r) ==
    /\ req[r].pc = "store"
    /\ IF Stored(req[r].doc)
       THEN Finish(r) /\ UNCHANGED docs
       ELSE /\ \E status \in {"uploaded", "blocked"} : SaveDocument(req[r].doc, status)
            /\ req' = [req EXCEPT ![r].pc = "save", ![r].session = Received(@)]
    /\ UNCHANGED <<row, case, history>>

(***************************************************************************)
(* process: one pass over the documents listed at its beginning, then the  *)
(* conflicts between their fields and a new profile.                       *)
(***************************************************************************)
Process(r) ==
    /\ Loads(r)
    /\ Begin(r, "process", "list", row)
    /\ UNCHANGED <<tables, history>>

ProcessList(r) ==
    /\ req[r].pc = "list"
    /\ IF docs = <<>>
       THEN Finish(r)
       ELSE req' = [req EXCEPT ![r].pc = "extract", ![r].docs = docs,
                               ![r].session.extracted = <<>>]
    /\ UNCHANGED <<tables, history>>

\* The passage through "processing" is only seen by the status page.
ProcessDocument(r) ==
    /\ req[r].pc = "extract" /\ req[r].next <= Len(req[r].docs)
    /\ LET doc == req[r].docs[req[r].next] IN
        /\ req' = [req EXCEPT ![r].next = @ + 1, ![r].session.extracted =
                       IF doc.status = "blocked" \/ Claims[doc.id] = None THEN @
                       ELSE Append(@, [source |-> doc.id, value |-> Claims[doc.id]])]
        /\ UpdateDocument(doc.id, IF doc.status = "blocked" THEN "blocked" ELSE "completed")
    /\ UNCHANGED <<row, case, history>>

\* _build_profile: a new, unconfirmed revision.
Rebuilt(session, value) ==
    [session EXCEPT !.status = "profile_review_required",
                    !.profile = [revision |-> @.revision + 1, value |-> value,
                                 confirmed |-> FALSE]]

ProcessEnd(r) ==
    /\ req[r].pc = "extract" /\ req[r].next > Len(req[r].docs)
    /\ IF \A i \in DOMAIN req[r].docs : req[r].docs[i].status = "blocked"
       THEN Begin(r, "process", "save",
                  [req[r].session EXCEPT !.status = "processing_failed"])
       ELSE LET session == req[r].session IN
            \E value \in ProfileValues(Fields(session)) :
                Begin(r, "process", "save",
                      [Rebuilt(session, value) EXCEPT !.unresolved = Unresolved(Fields(session))])
    /\ UNCHANGED <<tables, history>>

(***************************************************************************)
(* patch_profile and confirm.                                              *)
(***************************************************************************)
Corrected(session, value) ==
    LET entered == Append(session.entered, [source |-> "RM_CONFIRMATION", value |-> value])
    IN {[Rebuilt(session, best) EXCEPT !.entered = entered, !.unresolved = FALSE] :
            best \in ProfileValues(entered \o session.extracted)}

Patch(r) ==
    /\ Loads(r) /\ row.status = "profile_review_required"
    /\ \E value \in Values : \E session \in Corrected(row, value) :
            Begin(r, "patch", "save", session)
    /\ UNCHANGED <<tables, history>>

Confirmed(session) ==
    [session EXCEPT !.status = "profile_confirmed", !.profile.confirmed = TRUE]

Confirm(r) ==
    /\ Loads(r) /\ row.status = "profile_review_required" /\ ~row.unresolved
    /\ Begin(r, "confirm", "save", Confirmed(row))
    /\ UNCHANGED <<tables, history>>

(***************************************************************************)
(* run-analysis: the workflow runs between reading the case and storing it *)
(* with the confirmed profile; then the session's own event is stored.     *)
(***************************************************************************)
\* Mutant of Run: the profile need not be confirmed.
RunUnconfirmed(r) ==
    /\ req[r].pc = "idle" /\ row.status # "draft"
    /\ case.version < MaxRuns
    /\ req' = [req EXCEPT ![r] = [Idle EXCEPT !.pc = "persist", !.op = "run",
                                             !.session = row, !.case = case.version]]
    /\ UNCHANGED <<tables, history>>

Run(r) ==
    /\ req[r].pc = "idle" /\ row.status = "profile_confirmed" /\ row.profile.confirmed
    /\ case.version < MaxRuns
    /\ req' = [req EXCEPT ![r] = [Idle EXCEPT !.pc = "persist", !.op = "run",
                                             !.session = row, !.case = case.version]]
    /\ UNCHANGED <<tables, history>>

\* save_case compares and stores in two steps, too; the workflow may also have
\* refused to resume.
RunSelect(r) ==
    /\ req[r].pc = "persist"
    /\ \/ case.version = req[r].case /\ Goto(r, "store_case")
       \/ Finish(r)
    /\ UNCHANGED <<tables, history>>

RunUpdate(r) ==
    /\ req[r].pc = "store_case"
    /\ case' = [version |-> req[r].case + 1, profile |-> req[r].session.profile]
    /\ Goto(r, "save")
    /\ UNCHANGED <<row, docs, history>>

\* A worker dies, or a transaction fails, and the request with it.
Die(r) ==
    /\ req[r].pc # "idle"
    /\ Finish(r)
    /\ UNCHANGED <<tables, history>>

Step(r) ==
    \/ CreateRecord(r)
    \/ UploadStore(r)
    \/ ProcessList(r) \/ ProcessDocument(r) \/ ProcessEnd(r)
    \/ RunSelect(r) \/ RunUpdate(r)
    \/ SaveSelect(r) \/ SaveConflict(r) \/ SaveUpdate(r)

Next == \E r \in Requests :
    \/ CreateLookup(r) \/ Upload(r) \/ UploadDuplicate(r)
    \/ Process(r) \/ Patch(r) \/ Confirm(r) \/ Run(r)
    \/ Step(r)
    \/ Die(r)

Spec == Init /\ [][Next]_vars

-----------------------------------------------------------------------------
IntakeTypeOK ==
    /\ row \in Session
    /\ docs \in Seq(Document)
    /\ case \in [version : 0..MaxRuns, profile : Profile]
    /\ req \in [Requests ->
            [pc : {"idle", "insert", "store", "list", "extract", "persist",
                   "store_case", "save", "write"},
             op : {"none", "create", "upload", "process", "patch", "confirm", "run"},
             session : Session, docs : Seq(Document), next : Nat \ {0},
             doc : Docs \cup {None}, case : 0..MaxRuns, seen : Nat]]
    /\ uploaded \subseteq Docs /\ overwritten \in BOOLEAN

\* What an RM corrected stays the profile's value until the next correction,
\* whatever is uploaded and processed after it or had begun before it, as long
\* as no UPDATE has replaced a version its own SELECT had not seen.
CorrectionKept == corrected # None /\ ~overwritten => row.profile.value = corrected

\* No document whose upload was acknowledged is missing from a confirmed
\* profile, under the same condition: an upload that overtakes a processing or
\* a confirmation makes one of the two conflict, unless both have compared the
\* version before either stores.  (A document sent again after its first upload
\* had lost its save is answered as a duplicate and may be missing.)
DocumentsCounted ==
    row.status = "profile_confirmed" /\ ~overwritten =>
        \A i \in DOMAIN docs :
            /\ docs[i].id \in uploaded /\ docs[i].status # "blocked"
            /\ Claims[docs[i].id] # None
            => \E j \in DOMAIN row.extracted : row.extracted[j].source = docs[i].id

\* Sources that disagree about the field of a confirmed profile were
\* overruled by an RM, whichever saves were overwritten.
ConflictsSettled ==
    row.status = "profile_confirmed"
    /\ Cardinality({Fields(row)[i].value : i \in DOMAIN Fields(row)}) > 1
        => \E i \in DOMAIN Fields(row) : ByRM(Fields(row)[i])

\* The case is analysed with a profile an RM has attested, value for value,
\* whichever saves were overwritten.
SnapshotAttested == case.version > 0 => Content(case.profile) \in attested
=============================================================================
