---------------------------- MODULE KnowledgeBase ----------------------------
(***************************************************************************)
(* One agent's local knowledge index (app/knowledge/index.py), the console *)
(* in which specialists maintain it (api/v2/employee_router.py), the seed  *)
(* and upload pipelines that fill it and the two ways it is searched: the  *)
(* agents' live search and the controlled retrieval orchestrator.          *)
(*                                                                         *)
(* A row of the index is named by an entry and a version of it: version 1  *)
(* is the chunk the entry was created with, version n the chunk "::vn" of  *)
(* an edit.  Of a chunk's text only its identity matters (content_hash);   *)
(* how well it matches a query is left open, so a search may return any of *)
(* the rows that pass its filter.  Each upsert is one SQLite transaction.  *)
(***************************************************************************)
EXTENDS Naturals, FiniteSets

CONSTANTS
    Seeds,          \* entries of the file the index is seeded from
    Contributions,  \* entries specialists may add
    Uploads,        \* sections of documents that may be uploaded
    Slot,           \* [entry -> its product_id and section_path]
    Texts, SeedText,
    Branches,
    Editors,        \* PATCH requests in progress
    Bodies,         \* what a PATCH may ask for
    Everywhere,     \* the branch "*"
    None,
    MaxVersion,     \* bound: versions of an entry
    MaxDay,         \* bound: days that pass
    MaxEdits        \* bound: console and upload requests

Entries == Seeds \cup Contributions \cup Uploads
Versions == 1..MaxVersion
Days == 0..MaxDay
Body == [text : Texts \cup {None}, until : Days \cup {None},
         quarantined : BOOLEAN \cup {None}]

Chunk == [text : Texts, until : Days \cup {None}, branch : Branches \cup {Everywhere},
          verified : BOOLEAN, superseded : BOOLEAN, quarantined : BOOLEAN]

ASSUME KnowledgeAssumption ==
    /\ IsFiniteSet(Seeds)
    /\ MaxVersion \in Nat \ {0} /\ MaxDay \in Nat /\ MaxEdits \in Nat
    /\ SeedText \in Texts /\ Everywhere \notin Branches
    /\ None \notin Texts /\ None \notin Days /\ None \notin BOOLEAN
    /\ None \notin Chunk /\ Bodies \subseteq Body

VARIABLES
    day,        \* date.today()
    index,      \* knowledge_chunks: [entry -> [version -> row or None]]
    seeding,    \* a search has found the index empty and is ingesting
    editors,    \* the PATCH requests
    run,        \* the orchestrator's retrieval in progress
    edits       \* requests accepted so far

kbVars == <<day, index, seeding, editors, run, edits>>

NoRow == [v \in Versions |-> None]
Stored(e, v) == index[e][v] # None

\* ON CONFLICT(chunk_id) DO UPDATE: the row with this id is replaced.
Upsert(rows, e, v, chunk) == [rows EXCEPT ![e][v] = chunk]

\* A chunk read from the index, with the id it was read under.
Hit == [entry : Entries, version : Versions, chunk : Chunk]
AllHits ==
    {[entry |-> row[1], version |-> row[2], chunk |-> index[row[1]][row[2]]] :
        row \in {id \in Entries \X Versions : Stored(id[1], id[2])}}

Idle == [pc |-> "idle", entry |-> None, version |-> None, body |-> None, seen |-> None]
Edit == [pc : {"toggle", "write"}, entry : Entries, version : Versions,
         body : Bodies, seen : Chunk]

NoRun == [pc |-> "idle", branch |-> None, strict |-> FALSE, exact |-> {},
          sparse |-> {}, dense |-> {}, pack |-> {}, conflicts |-> {},
          status |-> "none"]
Run == [pc : {"sparse", "dense", "fuse", "done"},
        branch : Branches \cup {Everywhere, None}, strict : BOOLEAN,
        exact : SUBSET Hit, sparse : SUBSET Hit, dense : SUBSET Hit,
        pack : SUBSET Hit, conflicts : SUBSET SUBSET Hit,
        status : {"none", "ok", "scope_empty", "no_relevant_result"}]

KnowledgeTypes ==
    /\ day \in Days
    /\ index \in [Entries -> [Versions -> Chunk \cup {None}]]
    /\ seeding \in BOOLEAN
    /\ editors \in [Editors -> Edit \cup {Idle}]
    /\ run \in Run \cup {NoRun}
    /\ edits \in 0..MaxEdits

KnowledgeInit ==
    /\ day = 0
    /\ index = [e \in Entries |-> NoRow]
    /\ seeding = FALSE
    /\ editors = [r \in Editors |-> Idle]
    /\ run = NoRun
    /\ edits = 0

-----------------------------------------------------------------------------
(* What a search filters.                                                  *)

Effective(chunk) == chunk.until = None \/ chunk.until >= day
InScope(chunk, branch) == chunk.branch = Everywhere \/ chunk.branch = branch

\* _filter_eligible: the filter of the three controlled channels; strict is
\* the verification and authority floor of the legal agent's policy.
Eligible(chunk, branch, strict) ==
    /\ Effective(chunk)
    /\ InScope(chunk, branch)
    /\ ~chunk.superseded
    /\ ~chunk.quarantined
    /\ strict => chunk.verified

-----------------------------------------------------------------------------
(* Filling the index.                                                      *)

\* ensure_index of a live search: the count and the ingest are two
\* connections, so the index may have been filled in between.
FindEmpty ==
    /\ ~seeding /\ \A e \in Entries, v \in Versions : ~Stored(e, v)
    /\ seeding' = TRUE
    /\ UNCHANGED <<day, index, editors, run, edits>>

Seeded == [text |-> SeedText, until |-> None, branch |-> Everywhere, verified |-> TRUE,
           superseded |-> FALSE, quarantined |-> FALSE]
Ingest ==
    /\ seeding /\ seeding' = FALSE
    /\ index' = [e \in Entries |->
                    IF e \in Seeds THEN [index[e] EXCEPT ![1] = Seeded] ELSE index[e]]
    /\ UNCHANGED <<day, editors, run, edits>>

\* GovernedUploadIngestionService.ingest: a document that fails extraction or
\* the injection screen is not indexed at all.
Upload(e, text, branch, publishable) ==
    /\ edits < MaxEdits /\ edits' = edits + 1
    /\ index' = IF publishable
                THEN Upsert(index, e, 1, [Seeded EXCEPT !.text = text, !.branch = branch,
                                                        !.verified = FALSE])
                ELSE index
    /\ UNCHANGED <<day, seeding, editors, run>>

\* POST: the chunk id is new.
Contribute(e, text) ==
    /\ edits < MaxEdits /\ edits' = edits + 1
    /\ ~Stored(e, 1)
    /\ index' = Upsert(index, e, 1, [Seeded EXCEPT !.text = text])
    /\ UNCHANGED <<day, seeding, editors, run>>

-----------------------------------------------------------------------------
(* PATCH: read the row, perhaps toggle its quarantine, then write.         *)

\* The console lists superseded rows too, so any row may be named.
Open(r) ==
    /\ editors[r] = Idle /\ edits < MaxEdits /\ edits' = edits + 1
    /\ \E e \in Entries, v \in Versions, body \in Bodies :
        /\ Stored(e, v)
        /\ editors' = [editors EXCEPT ![r] =
            [pc |-> "toggle", entry |-> e, version |-> v, body |-> body,
             seen |-> index[e][v]]]
    /\ UNCHANGED <<day, index, seeding, run>>

\* Mutant of Toggle: a request that leaves is_quarantined out clears it.
ToggleUnset(r) ==
    LET toggled == [editors[r].seen EXCEPT !.quarantined = editors[r].body.quarantined] IN
    /\ editors[r].pc = "toggle"
    /\ editors' = [editors EXCEPT ![r].pc = "write", ![r].seen = toggled]
    /\ index' = Upsert(index, editors[r].entry, editors[r].version, toggled)
    /\ UNCHANGED <<day, seeding, run, edits>>
Toggle(r) ==
    LET at == editors[r] IN
    /\ at.pc = "toggle"
    /\ IF at.body.quarantined \in {None, at.seen.quarantined}
       THEN /\ editors' = [editors EXCEPT ![r].pc = "write"]
            /\ index' = index
       ELSE LET toggled == [at.seen EXCEPT !.quarantined = at.body.quarantined] IN
            /\ editors' = [editors EXCEPT ![r].pc = "write", ![r].seen = toggled]
            /\ index' = Upsert(index, at.entry, at.version, toggled)
    /\ UNCHANGED <<day, seeding, run, edits>>

\* Mutant of Superseding: the new chunk is copied from the superseded one.
SupersedingKept(rows, at) ==
    LET old == [at.seen EXCEPT !.superseded = TRUE] IN
    Upsert(Upsert(rows, at.entry, at.version, old),
           at.entry, at.version + 1, [old EXCEPT !.text = at.body.text])
\* An edit of the text keeps the chunk that was read as superseded and writes
\* the text as the version after it, in one transaction.
Superseding(rows, at) ==
    LET new == [at.seen EXCEPT !.text = at.body.text, !.superseded = FALSE,
                    !.until = IF at.body.until = None THEN at.seen.until
                                                      ELSE at.body.until]
    IN  Upsert(Upsert(rows, at.entry, at.version, [at.seen EXCEPT !.superseded = TRUE]),
               at.entry, at.version + 1, new)

Write(r) ==
    LET at == editors[r] IN
    /\ at.pc = "write"
    /\ \/ /\ at.body.text # None /\ at.version < MaxVersion
          /\ index' = Superseding(index, at)
       \/ /\ at.body.text = None /\ at.body.until \notin {None, at.seen.until}
          /\ index' = Upsert(index, at.entry, at.version,
                             [at.seen EXCEPT !.until = at.body.until])
       \/ /\ at.body.text = None /\ at.body.until \in {None, at.seen.until}
          /\ index' = index
    /\ editors' = [editors EXCEPT ![r] = Idle]
    /\ UNCHANGED <<day, seeding, run, edits>>

\* The process dies, or the bound on versions is reached.
Abandon(r) ==
    /\ editors[r] # Idle
    /\ editors' = [editors EXCEPT ![r] = Idle]
    /\ UNCHANGED <<day, index, seeding, run, edits>>

-----------------------------------------------------------------------------
(* ControlledRetrievalOrchestrator.retrieve: every channel reads the index *)
(* through a connection of its own.                                        *)

\* exact_lookup_by_chunk_id: a row named by its id is read as it is.
ExactHits == {{}} \cup {{h} : h \in AllHits}

Retrieve(branch, strict) ==
    /\ run = NoRun
    /\ \E exact \in ExactHits :
        run' = [NoRun EXCEPT !.pc = "sparse", !.branch = branch, !.strict = strict,
                             !.exact = exact]
    /\ UNCHANGED <<day, index, seeding, editors, edits>>

Channel == {h \in AllHits : Eligible(h.chunk, run.branch, run.strict)}
SparseChannel ==
    /\ run.pc = "sparse"
    /\ run' = [run EXCEPT !.pc = "dense", !.sparse = Channel]
    /\ UNCHANGED <<day, index, seeding, editors, edits>>
DenseChannel ==
    /\ run.pc = "dense"
    /\ run' = [run EXCEPT !.pc = "fuse", !.dense = Channel]
    /\ UNCHANGED <<day, index, seeding, editors, edits>>

SameId(a, b) == a.entry = b.entry /\ a.version = b.version
\* One hit per chunk id: those of the later list replace the earlier ones.
Overridden(earlier, later) ==
    later \cup {h \in earlier : \A other \in later : ~SameId(h, other)}
Fused(sparse, dense) == Overridden(sparse, dense)

\* Mutant of SlotConflicts: a slot is compared within one version only.
SlotConflictsOfVersion(selected) ==
    {group \in {{h \in selected : Slot[h.entry] = Slot[g.entry] /\ h.version = g.version} :
                    g \in selected} :
        Cardinality({h.chunk.text : h \in group}) > 1}
\* The slots whose selected chunks disagree in content.
SlotConflicts(selected) ==
    {group \in {{h \in selected : Slot[h.entry] = Slot[g.entry]} : g \in selected} :
        Cardinality({h.chunk.text : h \in group}) > 1}

\* The chunks asked for by id come first; the others in any order.
Fuse ==
    /\ run.pc = "fuse"
    /\ \E selected \in SUBSET Overridden(Fused(run.sparse, run.dense), run.exact) :
        /\ run.exact \subseteq selected
        /\ run' = [NoRun EXCEPT !.pc = "done",
                !.pack = selected, !.conflicts = SlotConflicts(selected),
                !.status = IF selected # {} THEN "ok"
                           ELSE IF run.strict THEN "scope_empty"
                                              ELSE "no_relevant_result"]
    /\ UNCHANGED <<day, index, seeding, editors, edits>>

Delivered ==
    /\ run.pc = "done" /\ run' = NoRun
    /\ UNCHANGED <<day, index, seeding, editors, edits>>

Midnight ==
    /\ day < MaxDay /\ day' = day + 1
    /\ UNCHANGED <<index, seeding, editors, run, edits>>

-----------------------------------------------------------------------------
Fill ==
    \/ FindEmpty \/ Ingest
    \/ \E e \in Uploads, text \in Texts, branch \in Branches, publishable \in BOOLEAN :
            Upload(e, text, branch, publishable)
    \/ \E e \in Contributions, text \in Texts : Contribute(e, text)

Patch == \E r \in Editors : Open(r) \/ Toggle(r) \/ Write(r) \/ Abandon(r)

Retrieval ==
    \/ \E branch \in Branches \cup {Everywhere}, strict \in BOOLEAN : Retrieve(branch, strict)
    \/ SparseChannel \/ DenseChannel \/ Fuse \/ Delivered

KnowledgeNext == Fill \/ Patch \/ Retrieval \/ Midnight
KnowledgeSpec == KnowledgeInit /\ [][KnowledgeNext]_kbVars

-----------------------------------------------------------------------------
(* However the console's requests, the uploads and the seeding interleave, *)
(* a version of an entry is superseded only if the version after it is in  *)
(* the index, so the newest version of an entry is never marked superseded *)
(* (employee_router.py, the PATCH handler, which may write back a row that *)
(* another request has superseded since).  It does not say whose text that *)
(* version holds: two edits of one version both write the next one, and    *)
(* the later replaces the text of the earlier.                             *)
NewestCurrent ==
    \A e \in Entries, v \in Versions :
        Stored(e, v) /\ index[e][v].superseded
            => v + 1 \in Versions /\ Stored(e, v + 1)

(* A grounding pack that holds two texts of one entry, because it was      *)
(* edited between two channels or because a version was named, says so.    *)
ConflictDisclosed ==
    run.pc = "done" =>
        \A g, h \in run.pack :
            g.entry = h.entry /\ g.chunk.text # h.chunk.text
                => \E group \in run.conflicts : {g, h} \subseteq group
=============================================================================
