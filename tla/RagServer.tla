------------------------------ MODULE RagServer ------------------------------
(***************************************************************************)
(* The RAG MCP server (services/rag_mcp): processes over one SQLite        *)
(* corpus.  The server seeds the corpus when it starts and then answers    *)
(* one call at a time (its tools do not await inside the service); the CLI *)
(* seeds it while the server runs.  A seed reads the corpus files source   *)
(* by source, while they may be edited, checks them and publishes all      *)
(* packages in one transaction, or records a failed run.                   *)
(*                                                                         *)
(* The files of a source are the dataset version of its card, a content    *)
(* and whether the quality gates accept them.  A package is what one run   *)
(* built from them: all the chunks of the source.  A call is reduced to    *)
(* its tool, the packages its answer draws on and what the audit keeps.    *)
(***************************************************************************)
EXTENDS Naturals, FiniteSets

CONSTANTS
    Sources,        \* corpus sources, one source card each
    Commands,       \* CLI processes
    Server,         \* the server process
    Nobody,
    AutoSeed,       \* RAG_MCP_AUTO_SEED
    MaxRevision,    \* bound: dataset versions and contents
    MaxFileEdits,   \* bound: edits of the corpus files
    MaxRuns,        \* bound: readings of the clock for completed_at
    MaxCalls        \* bound: calls that are audited

Processes == Commands \cup {Server}
Revisions == 1..MaxRevision
Calls == 1..MaxCalls

ASSUME RagAssumption ==
    /\ IsFiniteSet(Sources) /\ Sources # {} /\ AutoSeed \in BOOLEAN
    /\ Server \notin Commands /\ Nobody \notin Processes
    /\ MaxRevision \in Nat \ {0} /\ MaxFileEdits \in Nat
    /\ MaxRuns \in Nat \ {0} /\ MaxCalls \in Nat \ {0}

VARIABLES
    disk,       \* the manifest, the files of the sources, the edits made
    corpus,     \* tables sources and chunks: [source -> package]
    runs,       \* table ingestion_runs
    meta,       \* table schema_meta
    lock,       \* SQLite's write lock: its owner and the rows written so far
    clock,      \* the latest completed_at
    procs,      \* the processes
    audit,      \* table retrieval_audit
    replies     \* answers callers have received

ragVars == <<disk, corpus, runs, meta, lock, clock, procs, audit, replies>>

Absent == [dataset |-> 0, content |-> 0, at |-> 0]
Package == [dataset : Revisions, content : Revisions, at : 1..MaxRuns] \cup {Absent}
Nothing == [s \in Sources |-> Absent]
Present(rows) == {s \in Sources : rows[s] # Absent}
Unlocked == [owner |-> Nobody, rows |-> Nothing, todo |-> {}]

\* What an answer draws on, and what retrieval_audit keeps of it.
Found == SUBSET (Sources \X (Package \ {Absent}))
Tools == {"search", "list", "chunk", "verify"}
Event == [id : Calls, tool : Tools, allowed : BOOLEAN, count : 0..Cardinality(Sources)]
Answer == [event : Event, found : Found, valid : BOOLEAN]

Down == [pc |-> "down", why |-> "none", checked |-> FALSE, dataset |-> 0, listed |-> {},
         built |-> [s \in {} |-> 0], at |-> 0, found |-> {}, valid |-> TRUE]
Process ==
    [pc : {"down", "up", "read", "publish", "failed", "query", "audit", "reply"},
     why : {"none", "start", "health"} \cup Tools, checked : BOOLEAN,
     dataset : Revisions \cup {0}, listed : SUBSET Sources,
     built : UNION {[todo -> Revisions] : todo \in SUBSET Sources},
     at : 0..MaxRuns, found : Found, valid : BOOLEAN]

RagTypes ==
    /\ disk \in [dataset : Revisions, listed : SUBSET Sources, edits : 0..MaxFileEdits,
                 files : [Sources -> [dataset : Revisions, content : Revisions,
                                      accepted : BOOLEAN]]]
    /\ corpus \in [Sources -> Package]
    /\ runs \subseteq [passed : BOOLEAN, dataset : Revisions, at : 1..MaxRuns,
                       sources : 0..Cardinality(Sources)]
    /\ meta \in [corpus_version : 0..MaxRevision, last : 0..MaxRuns,
                 status : {"missing", "passed", "failed"}]
    /\ lock \in [owner : Processes \cup {Nobody}, rows : [Sources -> Package],
                 todo : SUBSET Sources]
    /\ clock \in 0..MaxRuns
    /\ procs \in [Processes -> Process]
    /\ audit \subseteq Event /\ replies \subseteq Answer

RagInit ==
    /\ disk = [dataset |-> 1, listed |-> Sources, edits |-> 0,
               files |-> [s \in Sources |->
                            [dataset |-> 1, content |-> 1, accepted |-> TRUE]]]
    /\ corpus = Nothing /\ runs = {}
    /\ meta = [corpus_version |-> 0, last |-> 0, status |-> "missing"]
    /\ lock = Unlocked /\ clock = 0
    /\ procs = [p \in Processes |-> Down]
    /\ audit = {} /\ replies = {}

-----------------------------------------------------------------------------
(* The corpus files change while processes read them.                      *)

EditFile(s) ==
    /\ disk.edits < MaxFileEdits
    /\ \E dataset, content \in Revisions, accepted \in BOOLEAN :
        disk' = [disk EXCEPT !.edits = @ + 1,
                    !.files[s] = [dataset |-> dataset, content |-> content,
                                  accepted |-> accepted]]
    /\ UNCHANGED <<corpus, runs, meta, lock, clock, procs, audit, replies>>

EditManifest ==
    /\ disk.edits < MaxFileEdits
    /\ \E dataset \in Revisions, listed \in (SUBSET Sources) \ {{}} :
        disk' = [disk EXCEPT !.edits = @ + 1, !.dataset = dataset, !.listed = listed]
    /\ UNCHANGED <<corpus, runs, meta, lock, clock, procs, audit, replies>>

-----------------------------------------------------------------------------
(* One seed.                                                               *)

\* ensure_seeded: until this process has seeded once, or if nothing is served.
SeedDue(proc) == (AutoSeed /\ ~proc.checked) \/ Present(corpus) = {}

ReadManifest(proc, why) ==
    [Down EXCEPT !.pc = "read", !.why = why, !.checked = proc.checked,
                 !.dataset = disk.dataset, !.listed = disk.listed]

\* The CLI's seed command; the server's lifespan.
Start(p) ==
    /\ procs[p].pc = "down" /\ clock < MaxRuns
    /\ procs' = [procs EXCEPT ![p] =
                    IF p # Server \/ SeedDue(@) THEN ReadManifest(@, "start")
                                               ELSE [@ EXCEPT !.pc = "up"]]
    /\ UNCHANGED <<disk, corpus, runs, meta, lock, clock, audit, replies>>

\* The next source of the manifest is read, checked and chunked; its card
\* must have the version the manifest had.
Accepted(s, proc) == disk.files[s].accepted /\ disk.files[s].dataset = proc.dataset
Build(p) ==
    /\ procs[p].pc = "read"
    /\ \E s \in procs[p].listed \ DOMAIN procs[p].built :
        LET built == [t \in DOMAIN procs[p].built \cup {s} |->
                        IF t = s THEN disk.files[s].content ELSE procs[p].built[t]]
        IN  procs' = IF Accepted(s, procs[p])
                     THEN [procs EXCEPT ![p].built = built]
                     ELSE [procs EXCEPT ![p].pc = "failed"]
    /\ UNCHANGED <<disk, corpus, runs, meta, lock, clock, audit, replies>>

\* replace_corpus reads completed_at before it asks for the write lock.
Stamp(p) ==
    /\ procs[p].pc = "read" /\ DOMAIN procs[p].built = procs[p].listed
    /\ clock < MaxRuns /\ clock' = clock + 1
    /\ procs' = [procs EXCEPT ![p].pc = "publish", ![p].at = clock + 1]
    /\ UNCHANGED <<disk, corpus, runs, meta, lock, audit, replies>>

\* BEGIN IMMEDIATE, one upsert per source, then the sources not listed are
\* deleted, the run is recorded and all is committed.
Lock(p) ==
    /\ procs[p].pc = "publish" /\ lock.owner = Nobody
    /\ lock' = [owner |-> p, rows |-> corpus, todo |-> procs[p].listed]
    /\ UNCHANGED <<disk, corpus, runs, meta, clock, procs, audit, replies>>

\* The lock is still another's after the busy timeout of ten seconds.
Busy(p) ==
    /\ procs[p].pc = "publish" /\ lock.owner \notin {Nobody, p}
    /\ procs' = [procs EXCEPT ![p].pc = "failed"]
    /\ UNCHANGED <<disk, corpus, runs, meta, lock, clock, audit, replies>>

UpsertSource(p) ==
    /\ lock.owner = p
    /\ \E s \in lock.todo :
        lock' = [lock EXCEPT !.todo = @ \ {s},
                    !.rows[s] = [dataset |-> procs[p].dataset, at |-> procs[p].at,
                                 content |-> procs[p].built[s]]]
    /\ UNCHANGED <<disk, corpus, runs, meta, clock, procs, audit, replies>>

Published(rows, listed) == [s \in Sources |-> IF s \in listed THEN rows[s] ELSE Absent]

\* Where a process is once its seed has passed or failed: the CLI has ended,
\* the server has started or goes on with the call, or not.
After(p, passed) ==
    LET proc == procs[p]
        rest == [Down EXCEPT !.checked = proc.checked \/ passed, !.why = proc.why]
    IN  IF p # Server \/ (proc.why = "start" /\ ~passed) THEN Down
        ELSE IF proc.why \in Tools /\ passed THEN [rest EXCEPT !.pc = "query"]
        ELSE [rest EXCEPT !.pc = "up", !.why = "none"]

Commit(p) ==
    /\ lock.owner = p /\ lock.todo = {}
    /\ corpus' = Published(lock.rows, procs[p].listed)
    /\ runs' = runs \cup {[passed |-> TRUE, dataset |-> procs[p].dataset, at |-> procs[p].at,
                           sources |-> Cardinality(procs[p].listed)]}
    /\ meta' = [corpus_version |-> procs[p].dataset, last |-> procs[p].at,
                status |-> "passed"]
    /\ lock' = Unlocked
    /\ procs' = [procs EXCEPT ![p] = After(p, TRUE)]
    /\ UNCHANGED <<disk, clock, audit, replies>>

\* Mutant of FailedMeta: the failed run's version is recorded as served.
FailedMetaVersion(proc, at) ==
    [corpus_version |-> proc.dataset, last |-> at, status |-> "failed"]
\* record_ingestion_failure: the corpus and its version stay.
FailedMeta(proc, at) == [meta EXCEPT !.last = at, !.status = "failed"]
RecordFailure(p) ==
    /\ procs[p].pc = "failed" /\ lock.owner = Nobody
    /\ clock < MaxRuns /\ clock' = clock + 1
    /\ runs' = runs \cup {[passed |-> FALSE, dataset |-> procs[p].dataset, at |-> clock + 1,
                           sources |-> 0]}
    /\ meta' = FailedMeta(procs[p], clock + 1)
    /\ procs' = [procs EXCEPT ![p] = After(p, FALSE)]
    /\ UNCHANGED <<disk, corpus, lock, audit, replies>>

\* Only committed writes survive a process.
Die(p) ==
    /\ procs[p].pc # "down"
    /\ procs' = [procs EXCEPT ![p] = Down]
    /\ lock' = IF lock.owner = p THEN Unlocked ELSE lock
    /\ UNCHANGED <<disk, corpus, runs, meta, clock, audit, replies>>

-----------------------------------------------------------------------------
(* The server's calls.                                                     *)

Accepting == procs[Server].pc = "up" /\ Cardinality(audit) < MaxCalls
Audited(tool, allowed, count) ==
    [id |-> Cardinality(audit) + 1, tool |-> tool, allowed |-> allowed, count |-> count]

\* Refused by the tool policy or the query screen, or because the chunk does
\* not exist or is outside the caller's scope.
Refuse(tool) ==
    /\ Accepting /\ lock.owner = Nobody
    /\ audit' = audit \cup {Audited(tool, FALSE, 0)}
    /\ replies' = replies \cup {[event |-> Audited(tool, FALSE, 0), found |-> {},
                                 valid |-> FALSE]}
    /\ UNCHANGED <<disk, corpus, runs, meta, lock, clock, procs>>

\* search and list_sources seed first if a seed is due; so does health, which
\* then reads and keeps no record.
Call(why) ==
    /\ Accepting
    /\ procs' = [procs EXCEPT ![Server] =
                    IF SeedDue(@) THEN ReadManifest(@, why)
                                  ELSE [@ EXCEPT !.pc = "query", !.why = why]]
    /\ UNCHANGED <<disk, corpus, runs, meta, lock, clock, audit, replies>>
Health ==
    /\ procs[Server].pc = "up" /\ SeedDue(procs[Server])
    /\ procs' = [procs EXCEPT ![Server] = ReadManifest(@, "health")]
    /\ UNCHANGED <<disk, corpus, runs, meta, lock, clock, audit, replies>>

\* The call is to answer with these rows of the corpus.
Read(call, why, rows, valid) ==
    procs' = [procs EXCEPT ![Server] = [call EXCEPT !.pc = "audit", !.why = why,
                !.found = {<<s, corpus[s]>> : s \in rows}, !.valid = valid]]

\* One statement reads all rows; which of them the caller may see and which
\* score high enough is left open.
Query ==
    /\ procs[Server].pc = "query" /\ procs[Server].why = "search"
    /\ \E rows \in SUBSET Present(corpus) : Read(procs[Server], "search", rows, TRUE)
    /\ UNCHANGED <<disk, corpus, runs, meta, lock, clock, audit, replies>>
ListSources ==
    /\ procs[Server].pc = "query" /\ procs[Server].why = "list"
    /\ Read(procs[Server], "list", Present(corpus), TRUE)
    /\ UNCHANGED <<disk, corpus, runs, meta, lock, clock, audit, replies>>

\* Mutant of GetChunk: a chunk that is not there is answered.
GetChunkMissing(s) ==
    /\ Accepting
    /\ Read(procs[Server], "chunk", {s}, TRUE)
    /\ UNCHANGED <<disk, corpus, runs, meta, lock, clock, audit, replies>>
\* get_chunk reads a chunk that is served now, and never seeds.
GetChunk(s) ==
    /\ Accepting /\ s \in Present(corpus)
    /\ Read(procs[Server], "chunk", {s}, TRUE)
    /\ UNCHANGED <<disk, corpus, runs, meta, lock, clock, audit, replies>>

\* verify_citation compares the chunk with what the caller was given.
VerifyCitation(s, content) ==
    /\ Accepting /\ s \in Present(corpus)
    /\ \E reply \in replies : \E f \in reply.found : f[1] = s /\ f[2].content = content
    /\ Read(procs[Server], "verify", {s}, content = corpus[s].content)
    /\ UNCHANGED <<disk, corpus, runs, meta, lock, clock, audit, replies>>

\* Mutant of Append: the count is taken from the corpus, not from the answer.
AppendCounts ==
    /\ procs[Server].pc = "audit" /\ lock.owner = Nobody
    /\ audit' = audit \cup {Audited(procs[Server].why, TRUE, Cardinality(Present(corpus)))}
    /\ procs' = [procs EXCEPT ![Server].pc = "reply"]
    /\ UNCHANGED <<disk, corpus, runs, meta, lock, clock, replies>>
\* The audit row is committed before the answer is returned.
Append ==
    LET proc == procs[Server] IN
    /\ proc.pc = "audit" /\ lock.owner = Nobody
    /\ audit' = audit \cup {Audited(proc.why, TRUE, Cardinality(proc.found))}
    /\ procs' = [procs EXCEPT ![Server].pc = "reply"]
    /\ UNCHANGED <<disk, corpus, runs, meta, lock, clock, replies>>

Reply ==
    LET proc == procs[Server] IN
    /\ proc.pc = "reply"
    /\ \E event \in audit :
        /\ event.id = Cardinality(audit)
        /\ replies' = replies \cup {[event |-> event, found |-> proc.found,
                                     valid |-> proc.valid]}
    /\ procs' = [procs EXCEPT ![Server] = [Down EXCEPT !.pc = "up", !.checked = proc.checked]]
    /\ UNCHANGED <<disk, corpus, runs, meta, lock, clock, audit>>

-----------------------------------------------------------------------------
EditDisk == EditManifest \/ \E s \in Sources : EditFile(s)
Seed ==
    \E p \in Processes :
        \/ Start(p) \/ Build(p) \/ Stamp(p) \/ Lock(p) \/ Busy(p) \/ UpsertSource(p)
        \/ Commit(p) \/ RecordFailure(p) \/ Die(p)
Serve ==
    \/ \E tool \in Tools : Refuse(tool)
    \/ Health \/ \E why \in {"search", "list"} : Call(why)
    \/ \E s \in Sources : GetChunk(s) \/ \E content \in Revisions : VerifyCitation(s, content)
    \/ Query \/ ListSources \/ Append \/ Reply

RagNext == EditDisk \/ Seed \/ Serve
RagSpec == RagInit /\ [][RagNext]_ragVars

-----------------------------------------------------------------------------
(* What is served is one whole publication and the one health names: all   *)
(* packages were written by one run, for the corpus_version of schema_meta *)
(* and as many as that run recorded, however seeds overlap, fail or die    *)
(* (store.py:214: old serving data survives any failure).  A server that   *)
(* is up has one: a failed first seed stops it (server.py, the lifespan).  *)
PublishedWhole ==
    /\ procs[Server].pc \in {"up", "query", "audit", "reply"} => Present(corpus) # {}
    /\ Present(corpus) # {} =>
        \E r \in runs :
            /\ r.passed /\ r.dataset = meta.corpus_version
            /\ Cardinality(Present(corpus)) = r.sources
            /\ \A s \in Present(corpus) :
                corpus[s].at = r.at /\ corpus[s].dataset = r.dataset

(* An answer is accounted for: the audit has its outcome, and the chunks   *)
(* it draws on are of one passed run, also when the corpus was published   *)
(* anew while the call waited for its seed or for its audit row.           *)
AnswerAccounted ==
    \A reply \in replies :
        /\ reply.event \in audit
        /\ reply.event.allowed => reply.event.count = Cardinality(reply.found)
        /\ reply.found # {} =>
            \E r \in runs : r.passed /\ \A f \in reply.found : f[2].at = r.at
=============================================================================
