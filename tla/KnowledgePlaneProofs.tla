-------------------------- MODULE KnowledgePlaneProofs --------------------------
(***************************************************************************)
(* Both knowledge planes, for any entries, sources, texts, editors,        *)
(* commands and bounds.                                                    *)
(*                                                                         *)
(* The local index.  An editor writes back the row it has read, which may  *)
(* be superseded by then or no longer, so the invariant also says of every *)
(* row in an editor's hands that it is stored, and that its successor is   *)
(* if it was superseded.  Of a retrieval it says that the conflicts it     *)
(* discloses are those of its pack, which is finite since the index is.    *)
(*                                                                         *)
(* The RAG server.  What is served was published by one passed run, the    *)
(* one the metadata names.  To show that a publication keeps this, the     *)
(* invariant says what the owner of the write lock has written so far, and *)
(* of a seed in progress what it has read; to show that an answer is       *)
(* accounted for, what a call has found and whether its record fits it.    *)
(***************************************************************************)
EXTENDS KnowledgePlane, FiniteSetTheorems, TLAPS

(***************************************************************************)
(* The local index.                                                        *)
(***************************************************************************)
Rows == [Entries -> [Versions -> Chunk \cup {None}]]

IndexOK == index \in Rows
EditorsOK == editors \in [Editors -> Edit \cup {Idle}]

\* There is a version after this one.
Succeeded(e, v) == v + 1 \in Versions /\ Stored(e, v + 1)

SeenSucceeded ==
    \A r \in Editors : editors[r] # Idle =>
        /\ Stored(editors[r].entry, editors[r].version)
        /\ editors[r].seen.superseded => Succeeded(editors[r].entry, editors[r].version)

StoredIds == {id \in Entries \X Versions : Stored(id[1], id[2])}
FiniteRows == IsFiniteSet(StoredIds)

KInv == IndexOK /\ EditorsOK /\ FiniteRows /\ NewestCurrent /\ SeenSucceeded

-----------------------------------------------------------------------------
(* Rows                                                                    *)

LEMMA IdleNoEdit == \A at \in Edit : at # Idle
BY DEF Edit, Idle

LEMMA ChunkStored == \A chunk \in Chunk : chunk # None
BY KnowledgeAssumption

LEMMA UpsertRow ==
    ASSUME NEW rows \in Rows, NEW e \in Entries, NEW v \in Versions, NEW chunk \in Chunk
    PROVE  /\ Upsert(rows, e, v, chunk) \in Rows
           /\ Upsert(rows, e, v, chunk)[e][v] = chunk
           /\ \A f \in Entries, w \in Versions :
                <<f, w>> # <<e, v>> => Upsert(rows, e, v, chunk)[f][w] = rows[f][w]
<1>1. Upsert(rows, e, v, chunk) = [rows EXCEPT ![e] = [rows[e] EXCEPT ![v] = chunk]]
  BY DEF Upsert
<1>2. rows[e] \in [Versions -> Chunk \cup {None}]
  BY DEF Rows
<1> DEFINE new == [rows[e] EXCEPT ![v] = chunk]
<1>3. /\ new \in [Versions -> Chunk \cup {None}] /\ new[v] = chunk
      /\ \A w \in Versions \ {v} : new[w] = rows[e][w]
  BY <1>2
<1> HIDE DEF new
<1>4. /\ [rows EXCEPT ![e] = new] \in Rows /\ [rows EXCEPT ![e] = new][e] = new
      /\ \A f \in Entries \ {e} : [rows EXCEPT ![e] = new][f] = rows[f]
  BY <1>3 DEF Rows
<1>5. ASSUME NEW f \in Entries, NEW w \in Versions, <<f, w>> # <<e, v>>
      PROVE  [rows EXCEPT ![e] = new][f][w] = rows[f][w]
  <2>1. CASE f = e
    BY <1>3, <1>4, <1>5, <2>1
  <2>2. CASE f # e
    BY <1>4, <2>2
  <2> QED
    BY <2>1, <2>2
<1> QED
  BY <1>1, <1>3, <1>4, <1>5 DEF new

\* Rows are added by the seed file or one by one.
FewRowsChange ==
    \E changed : /\ IsFiniteSet(changed)
                 /\ \A e \in Entries, v \in Versions :
                        <<e, v>> \in changed \/ index'[e][v] = index[e][v]

LEMMA FewerRows ==
    ASSUME FiniteRows, FewRowsChange
    PROVE  FiniteRows'
<1>1. PICK changed : /\ IsFiniteSet(changed)
                     /\ \A e \in Entries, v \in Versions :
                            <<e, v>> \in changed \/ index'[e][v] = index[e][v]
  BY DEF FewRowsChange
<1>2. StoredIds' \subseteq StoredIds \cup changed
  BY <1>1 DEF StoredIds, Stored
<1>3. IsFiniteSet(StoredIds \cup changed)
  BY <1>1, FS_Union DEF FiniteRows
<1> QED
  BY <1>2, <1>3, FS_Subset DEF FiniteRows

\* A row is left alone, or replaced by one that has a successor if it is
\* superseded; an editor goes on with the row it has, opens one or ends.
RowsGrow ==
    /\ index' \in Rows
    /\ \A e \in Entries, v \in Versions :
        \/ index'[e][v] = index[e][v]
        \/ /\ index'[e][v] # None
           /\ index'[e][v].superseded => Succeeded(e, v)'
    /\ FewRowsChange

EditorsGoOn ==
    /\ editors' \in [Editors -> Edit \cup {Idle}]
    /\ \A r \in Editors :
        \/ editors'[r] = Idle
        \/ /\ editors[r] # Idle
           /\ editors'[r].entry = editors[r].entry
           /\ editors'[r].version = editors[r].version
           /\ editors'[r].seen.superseded => editors[r].seen.superseded
        \/ /\ editors'[r].entry \in Entries /\ editors'[r].version \in Versions
           /\ Stored(editors'[r].entry, editors'[r].version)
           /\ editors'[r].seen = index[editors'[r].entry][editors'[r].version]

LEMMA GrowStep ==
    ASSUME KInv, RowsGrow, EditorsGoOn
    PROVE  KInv'
<1>1. \A e \in Entries, v \in Versions : Stored(e, v) => Stored(e, v)'
  BY DEF RowsGrow, Stored
<1>2. \A e \in Entries, v \in Versions : Succeeded(e, v) => Succeeded(e, v)'
  BY <1>1 DEF Succeeded
<1>3. IndexOK' /\ EditorsOK'
  BY DEF RowsGrow, EditorsGoOn, IndexOK, EditorsOK
<1>4. \A e \in Entries, v \in Versions :
        Stored(e, v) /\ index[e][v].superseded => Succeeded(e, v)
  BY DEF KInv, NewestCurrent, Succeeded
<1>5. NewestCurrent'
  <2>1. ASSUME NEW e \in Entries, NEW v \in Versions,
               Stored(e, v)', index'[e][v].superseded
        PROVE  Succeeded(e, v)'
    <3>1. CASE index'[e][v] = index[e][v]
      BY <1>2, <1>4, <2>1, <3>1 DEF Stored
    <3>2. CASE index'[e][v] # index[e][v]
      BY <2>1, <3>2 DEF RowsGrow
    <3> QED
      BY <3>1, <3>2
  <2> QED
    BY <2>1 DEF NewestCurrent, Succeeded
<1>6. ASSUME NEW r \in Editors, editors'[r] # Idle
      PROVE  (/\ Stored(editors[r].entry, editors[r].version)
              /\ editors[r].seen.superseded
                    => Succeeded(editors[r].entry, editors[r].version))'
  <2> DEFINE e == editors'[r].entry
             v == editors'[r].version
  <2>1. e \in Entries /\ v \in Versions
    BY <1>6 DEF EditorsGoOn, Edit
  <2>2. /\ Stored(e, v)
        /\ editors'[r].seen.superseded => Succeeded(e, v)
    <3>1. CASE /\ editors[r] # Idle /\ e = editors[r].entry /\ v = editors[r].version
               /\ editors'[r].seen.superseded => editors[r].seen.superseded
      BY <3>1 DEF KInv, SeenSucceeded
    <3>2. CASE Stored(e, v) /\ editors'[r].seen = index[e][v]
      BY <1>4, <2>1, <3>2
    <3> QED
      BY <1>6, <3>1, <3>2 DEF EditorsGoOn
  <2>3. /\ \A f \in Entries, w \in Versions : index[f][w] # None => index'[f][w] # None
        /\ \A f \in Entries, w \in Versions :
             (w + 1 \in Versions /\ index[f][w + 1] # None)
                => (w + 1 \in Versions /\ index'[f][w + 1] # None)
    BY <1>1, <1>2 DEF Stored, Succeeded
  <2> QED
    BY <2>1, <2>2, <2>3 DEF Stored, Succeeded
<1>7. SeenSucceeded'
  BY <1>6 DEF SeenSucceeded
<1>8. FiniteRows'
  BY FewerRows DEF KInv, RowsGrow
<1> QED
  BY <1>3, <1>5, <1>7, <1>8 DEF KInv

LEMMA SameEditors == EditorsOK /\ editors' = editors => EditorsGoOn
BY DEF EditorsOK, EditorsGoOn

LEMMA SameRows == IndexOK /\ index' = index => RowsGrow
BY FS_EmptySet DEF IndexOK, RowsGrow, FewRowsChange

\* One upsert of a chunk that is not superseded, or has a successor.
LEMMA OneRowGrows ==
    ASSUME KInv, NEW e \in Entries, NEW v \in Versions, NEW chunk \in Chunk,
           chunk.superseded => Succeeded(e, v), index' = Upsert(index, e, v, chunk)
    PROVE  RowsGrow
<1>1. /\ index' \in Rows /\ index'[e][v] = chunk
      /\ \A f \in Entries, w \in Versions :
            <<f, w>> # <<e, v>> => index'[f][w] = index[f][w]
  BY UpsertRow DEF KInv, IndexOK
<1>2. chunk # None
  BY ChunkStored
<1>3. chunk.superseded => Succeeded(e, v)'
  <2>1. SUFFICES ASSUME chunk.superseded PROVE Succeeded(e, v)'
    OBVIOUS
  <2>2. v + 1 \in Versions /\ index[e][v + 1] # None
    BY <2>1 DEF Succeeded, Stored
  <2>3. index'[e][v + 1] # None
    BY <1>1, <1>2, <2>2
  <2> QED
    BY <2>2, <2>3 DEF Succeeded, Stored
<1>4. FewRowsChange
  <2> DEFINE changed == {<<e, v>>}
  <2>1. IsFiniteSet(changed)
    BY FS_Singleton
  <2>2. \A f \in Entries, w \in Versions :
            <<f, w>> \in changed \/ index'[f][w] = index[f][w]
    BY <1>1
  <2> QED
    BY <2>1, <2>2 DEF FewRowsChange
<1> QED
  BY <1>1, <1>2, <1>3, <1>4 DEF RowsGrow

-----------------------------------------------------------------------------
(* The steps                                                               *)

LEMMA SeededChunk == Seeded \in Chunk /\ ~Seeded.superseded
BY KnowledgeAssumption DEF Seeded, Chunk, Days

LEMMA FirstVersion == 1 \in Versions
BY KnowledgeAssumption DEF Versions

LEMMA IngestStep == KInv /\ Ingest => KInv'
<1> SUFFICES ASSUME KInv, Ingest PROVE KInv'
  OBVIOUS
<1>1. index' = [e \in Entries |-> IF e \in Seeds THEN [index[e] EXCEPT ![1] = Seeded]
                                                 ELSE index[e]]
  BY DEF Ingest
<1>2. \A e \in Entries : index[e] \in [Versions -> Chunk \cup {None}]
  BY DEF KInv, IndexOK, Rows
<1>3. index' \in Rows
  BY <1>1, <1>2, SeededChunk, FirstVersion DEF Rows
<1>4. ASSUME NEW e \in Entries, NEW v \in Versions
      PROVE  \/ index'[e][v] = index[e][v]
             \/ index'[e][v] # None /\ ~index'[e][v].superseded
  BY <1>1, <1>2, SeededChunk, FirstVersion, ChunkStored
<1>5. FewRowsChange
  <2>1. IsFiniteSet(Seeds \X {1})
    BY KnowledgeAssumption, FS_Singleton, FS_Product
  <2>2. \A e \in Entries, v \in Versions :
            <<e, v>> \in Seeds \X {1} \/ index'[e][v] = index[e][v]
    BY <1>1, <1>2
  <2> QED
    BY <2>1, <2>2 DEF FewRowsChange
<1>6. RowsGrow
  BY <1>3, <1>4, <1>5 DEF RowsGrow
<1> QED
  BY <1>6, SameEditors, GrowStep DEF KInv, Ingest

LEMMA UploadStep ==
    ASSUME KInv, NEW e \in Uploads, NEW text \in Texts, NEW branch \in Branches,
           NEW publishable \in BOOLEAN, Upload(e, text, branch, publishable)
    PROVE  KInv'
<1> DEFINE chunk == [Seeded EXCEPT !.text = text, !.branch = branch, !.verified = FALSE]
<1>1. chunk \in Chunk /\ ~chunk.superseded
  <2>1. ASSUME NEW x, x = chunk
        PROVE  x = [text |-> text, until |-> None, branch |-> branch, verified |-> FALSE,
                    superseded |-> FALSE, quarantined |-> FALSE]
    BY <2>1 DEF Seeded
  <2>2. ASSUME NEW x, x = chunk
        PROVE  x \in Chunk /\ ~x.superseded
    <3>1. /\ text \in Texts /\ None \in Days \cup {None}
          /\ branch \in Branches \cup {Everywhere}
      OBVIOUS
    <3>2. x = [text |-> text, until |-> None, branch |-> branch, verified |-> FALSE,
               superseded |-> FALSE, quarantined |-> FALSE]
      BY <2>1, <2>2
    <3> HIDE DEF chunk
    <3> QED
      BY <3>1, <3>2 DEF Chunk
  <2> QED
    BY <2>2
<1> HIDE DEF chunk
<1>2. CASE publishable
  <2>1. index' = Upsert(index, e, 1, chunk)
    BY <1>2 DEF Upload, chunk
  <2> QED
    BY <1>1, <2>1, FirstVersion, OneRowGrows, SameEditors, GrowStep
    DEF Upload, KInv, Entries
<1>3. CASE ~publishable
  BY <1>3, SameRows, SameEditors, GrowStep DEF Upload, KInv
<1> QED
  BY <1>2, <1>3

LEMMA ContributeStep ==
    ASSUME KInv, NEW e \in Contributions, NEW text \in Texts, Contribute(e, text)
    PROVE  KInv'
<1> DEFINE chunk == [Seeded EXCEPT !.text = text]
<1>1. chunk \in Chunk /\ ~chunk.superseded
  BY SeededChunk DEF Seeded, Chunk
<1>2. index' = Upsert(index, e, 1, chunk)
  BY DEF Contribute
<1> HIDE DEF chunk
<1> QED
  BY <1>1, <1>2, FirstVersion, OneRowGrows, SameEditors, GrowStep
  DEF Contribute, KInv, Entries

LEMMA OpenStep == ASSUME KInv, NEW r \in Editors, Open(r) PROVE KInv'
<1>1. PICK e \in Entries, v \in Versions, body \in Bodies :
        /\ Stored(e, v)
        /\ editors' = [editors EXCEPT ![r] =
            [pc |-> "toggle", entry |-> e, version |-> v, body |-> body,
             seen |-> index[e][v]]]
  BY DEF Open
<1>2. index[e][v] \in Chunk
  BY <1>1 DEF KInv, IndexOK, Rows, Stored
<1> DEFINE at == [pc |-> "toggle", entry |-> e, version |-> v, body |-> body,
                  seen |-> index[e][v]]
<1>3. at \in Edit
  BY <1>2 DEF Edit
<1>4. at.entry = e /\ at.version = v /\ at.seen = index[e][v]
  OBVIOUS
<1>5. editors' = [editors EXCEPT ![r] = at]
  BY <1>1
<1> HIDE DEF at
<1>6. EditorsGoOn
  BY <1>1, <1>3, <1>4, <1>5 DEF KInv, EditorsOK, EditorsGoOn
<1> QED
  BY <1>6, SameRows, GrowStep DEF Open, KInv

\* An editor whose record differs from before in pc and in the quarantine of
\* the row it has seen goes on with that row.
LEMMA EditorMoves ==
    ASSUME KInv, NEW r \in Editors, editors[r] \in Edit, NEW at \in Edit,
           at.entry = editors[r].entry, at.version = editors[r].version,
           at.seen.superseded = editors[r].seen.superseded,
           editors' = [editors EXCEPT ![r] = at]
    PROVE  EditorsGoOn
BY IdleNoEdit DEF KInv, EditorsOK, EditorsGoOn

\* One whose request ends is idle.
LEMMA EditorEnds ==
    ASSUME KInv, NEW r \in Editors, editors' = [editors EXCEPT ![r] = Idle]
    PROVE  EditorsGoOn
BY DEF KInv, EditorsOK, EditorsGoOn

LEMMA EditOpen ==
    ASSUME KInv, NEW r \in Editors, editors[r] # Idle
    PROVE  /\ editors[r] \in Edit
           /\ editors[r].entry \in Entries /\ editors[r].version \in Versions
           /\ editors[r].seen \in Chunk /\ editors[r].body \in Body
           /\ Stored(editors[r].entry, editors[r].version)
           /\ editors[r].seen.superseded
                => Succeeded(editors[r].entry, editors[r].version)
<1>1. editors[r] \in Edit
  BY DEF KInv, EditorsOK
<1>2. /\ Stored(editors[r].entry, editors[r].version)
      /\ editors[r].seen.superseded
            => Succeeded(editors[r].entry, editors[r].version)
  BY DEF KInv, SeenSucceeded
<1> QED
  BY <1>1, <1>2, KnowledgeAssumption DEF Edit

LEMMA ToggleStep == ASSUME KInv, NEW r \in Editors, Toggle(r) PROVE KInv'
<1> DEFINE at == editors[r]
           toggled == [at.seen EXCEPT !.quarantined = at.body.quarantined]
<1>1. at # Idle
  BY DEF Toggle, Idle
<1>2. /\ at \in Edit /\ at.entry \in Entries /\ at.version \in Versions
      /\ at.seen \in Chunk /\ at.body \in Body
      /\ at.seen.superseded => Succeeded(at.entry, at.version)
  BY <1>1, EditOpen
<1>3. CASE at.body.quarantined \in {None, at.seen.quarantined}
  <2> DEFINE next == [at EXCEPT !.pc = "write"]
  <2>1. editors' = [editors EXCEPT ![r] = next] /\ index' = index
    BY <1>3 DEF Toggle
  <2>2. next \in Edit /\ next.entry = at.entry /\ next.version = at.version
        /\ next.seen = at.seen
    BY <1>2 DEF Edit
  <2> HIDE DEF next
  <2>3. EditorsGoOn
    BY <1>2, <2>1, <2>2, EditorMoves
  <2> QED
    BY <2>1, <2>3, SameRows, GrowStep DEF KInv
<1>4. CASE at.body.quarantined \notin {None, at.seen.quarantined}
  <2> DEFINE next == [at EXCEPT !.pc = "write", !.seen = toggled]
  <2>1. /\ editors' = [editors EXCEPT ![r].pc = "write", ![r].seen = toggled]
        /\ index' = Upsert(index, at.entry, at.version, toggled)
    BY <1>4 DEF Toggle
  <2>2. at.body.quarantined \in BOOLEAN
    BY <1>2, <1>4 DEF Body
  <2>3. toggled \in Chunk /\ toggled.superseded = at.seen.superseded
    BY <1>2, <2>2 DEF Chunk
  <2> HIDE DEF toggled
  <2>4. editors' = [editors EXCEPT ![r] = next]
    BY <2>1 DEF KInv, EditorsOK
  <2>5. next \in Edit /\ next.entry = at.entry /\ next.version = at.version
        /\ next.seen = toggled
    BY <1>2, <2>3 DEF Edit
  <2> HIDE DEF next
  <2>6. EditorsGoOn
    BY <1>2, <2>3, <2>4, <2>5, EditorMoves
  <2>7. RowsGrow
    BY <1>2, <2>1, <2>3, OneRowGrows
  <2> QED
    BY <2>6, <2>7, GrowStep
<1> QED
  BY <1>3, <1>4

\* A text edit: the row that was read becomes superseded, and its successor
\* is written with it.
LEMMA SupersedingGrows ==
    ASSUME KInv, NEW at \in Edit, at.body \in Body, at.body.text # None,
           at.version < MaxVersion, index' = Superseding(index, at)
    PROVE  RowsGrow
<1> DEFINE e == at.entry
           v == at.version
           old == [at.seen EXCEPT !.superseded = TRUE]
           until == IF at.body.until = None THEN at.seen.until ELSE at.body.until
           new == [at.seen EXCEPT !.text = at.body.text, !.superseded = FALSE,
                                  !.until = until]
           mid == Upsert(index, e, v, old)
<1>1. /\ e \in Entries /\ v \in Versions /\ v + 1 \in Versions /\ v + 1 # v
      /\ at.seen \in Chunk
  BY KnowledgeAssumption DEF Edit, Versions
<1>2. old \in Chunk
  BY <1>1 DEF Chunk
<1>3. new \in Chunk /\ ~new.superseded
  <2>1. at.body.text \in Texts /\ until \in Days \cup {None}
    BY <1>1 DEF Body, Chunk
  <2> HIDE DEF until
  <2>2. ASSUME NEW x, x = new
        PROVE  x = [text |-> at.body.text, until |-> until, branch |-> at.seen.branch,
                    verified |-> at.seen.verified, superseded |-> FALSE,
                    quarantined |-> at.seen.quarantined]
    BY <1>1, <2>2 DEF Chunk
  <2>3. ASSUME NEW x, x = new
        PROVE  x \in Chunk /\ ~x.superseded
    <3>1. x = [text |-> at.body.text, until |-> until, branch |-> at.seen.branch,
               verified |-> at.seen.verified, superseded |-> FALSE,
               quarantined |-> at.seen.quarantined]
      BY <2>2, <2>3
    <3>2. /\ at.seen.branch \in Branches \cup {Everywhere}
          /\ at.seen.verified \in BOOLEAN /\ at.seen.quarantined \in BOOLEAN
      BY <1>1 DEF Chunk
    <3> HIDE DEF new
    <3> QED
      BY <2>1, <3>1, <3>2 DEF Chunk
  <2> QED
    BY <2>3
<1>4. index' = Upsert(mid, e, v + 1, new)
  BY DEF Superseding
<1> HIDE DEF old, new, until
<1>5. /\ mid \in Rows /\ mid[e][v] = old
      /\ \A f \in Entries, w \in Versions :
            <<f, w>> # <<e, v>> => mid[f][w] = index[f][w]
  BY <1>1, <1>2, UpsertRow DEF KInv, IndexOK
<1> HIDE DEF mid
<1>6. /\ index' \in Rows /\ index'[e][v + 1] = new
      /\ \A f \in Entries, w \in Versions :
            <<f, w>> # <<e, v + 1>> => index'[f][w] = mid[f][w]
  BY <1>1, <1>3, <1>4, <1>5, UpsertRow
<1>7. new # None /\ old # None
  BY <1>2, <1>3, ChunkStored
<1>8. Succeeded(e, v)'
  BY <1>1, <1>6, <1>7 DEF Succeeded, Stored
<1>9. ASSUME NEW f \in Entries, NEW w \in Versions
      PROVE  \/ index'[f][w] = index[f][w]
             \/ /\ index'[f][w] # None
                /\ index'[f][w].superseded => Succeeded(f, w)'
  <2>1. CASE f = e /\ w = v + 1
    BY <1>3, <1>6, <1>7, <2>1
  <2>2. CASE f = e /\ w = v
    BY <1>1, <1>5, <1>6, <1>7, <1>8, <2>2
  <2>3. CASE <<f, w>> # <<e, v>> /\ <<f, w>> # <<e, v + 1>>
    BY <1>5, <1>6, <2>3
  <2> QED
    BY <2>1, <2>2, <2>3
<1>10. FewRowsChange
  <2> DEFINE changed == {<<e, v>>} \cup {<<e, v + 1>>}
  <2>1. IsFiniteSet(changed)
    BY FS_Singleton, FS_Union
  <2>2. \A f \in Entries, w \in Versions :
            <<f, w>> \in changed \/ index'[f][w] = index[f][w]
    BY <1>5, <1>6
  <2> QED
    BY <2>1, <2>2 DEF FewRowsChange
<1> QED
  BY <1>6, <1>9, <1>10 DEF RowsGrow

LEMMA WriteStep == ASSUME KInv, NEW r \in Editors, Write(r) PROVE KInv'
<1> DEFINE at == editors[r]
<1>1. at # Idle
  BY DEF Write, Idle
<1>2. /\ at \in Edit /\ at.entry \in Entries /\ at.version \in Versions
      /\ at.seen \in Chunk /\ at.body \in Body
      /\ at.seen.superseded => Succeeded(at.entry, at.version)
  BY <1>1, EditOpen
<1>3. EditorsGoOn
  BY EditorEnds DEF Write
<1>4. CASE /\ at.body.text # None /\ at.version < MaxVersion
           /\ index' = Superseding(index, at)
  BY <1>2, <1>3, <1>4, SupersedingGrows, GrowStep
<1>5. CASE /\ at.body.until \notin {None, at.seen.until}
           /\ index' = Upsert(index, at.entry, at.version,
                              [at.seen EXCEPT !.until = at.body.until])
  <2> DEFINE chunk == [at.seen EXCEPT !.until = at.body.until]
  <2>1. at.body.until \in Days
    BY <1>2, <1>5 DEF Body
  <2>2. chunk \in Chunk /\ chunk.superseded = at.seen.superseded
    BY <1>2, <2>1 DEF Chunk
  <2>3. index' = Upsert(index, at.entry, at.version, chunk)
    BY <1>5
  <2> HIDE DEF chunk
  <2> QED
    BY <1>2, <1>3, <2>2, <2>3, OneRowGrows, GrowStep
<1>6. CASE index' = index
  BY <1>3, <1>6, SameRows, GrowStep DEF KInv
<1> QED
  BY <1>4, <1>5, <1>6 DEF Write

LEMMA AbandonStep == ASSUME KInv, NEW r \in Editors, Abandon(r) PROVE KInv'
BY EditorEnds, SameRows, GrowStep DEF Abandon, KInv

LEMMA OtherStep == KInv /\ UNCHANGED <<index, editors>> => KInv'
BY SameEditors, SameRows, GrowStep DEF KInv

LEMMA RetrievalStep == KInv /\ (Retrieval \/ FindEmpty \/ Midnight) => KInv'
<1>1. Retrieval => UNCHANGED <<index, editors>>
  BY DEF Retrieval, Retrieve, SparseChannel, DenseChannel, Fuse, Delivered
<1>2. FindEmpty \/ Midnight => UNCHANGED <<index, editors>>
  BY DEF FindEmpty, Midnight
<1> QED
  BY <1>1, <1>2, OtherStep

LEMMA InitKInv == KnowledgeInit => KInv
<1> SUFFICES ASSUME KnowledgeInit PROVE KInv
  OBVIOUS
<1>1. \A e \in Entries, v \in Versions : index[e][v] = None
  BY DEF KnowledgeInit, NoRow
<1>2. IndexOK /\ EditorsOK
  BY DEF KnowledgeInit, NoRow, IndexOK, EditorsOK, Rows
<1>3. NewestCurrent
  BY <1>1 DEF NewestCurrent, Stored
<1>4. SeenSucceeded
  BY DEF KnowledgeInit, SeenSucceeded
<1>5. StoredIds = {}
  BY <1>1 DEF StoredIds, Stored
<1>6. FiniteRows
  BY <1>5, FS_EmptySet DEF FiniteRows
<1> QED
  BY <1>2, <1>3, <1>4, <1>6 DEF KInv

LEMMA NextKInv == KInv /\ [KnowledgeNext]_kbVars => KInv'
<1> SUFFICES ASSUME KInv, [KnowledgeNext]_kbVars PROVE KInv'
  OBVIOUS
<1>1. ASSUME Fill PROVE KInv'
  BY <1>1, IngestStep, UploadStep, ContributeStep, RetrievalStep DEF Fill
<1>2. ASSUME Patch PROVE KInv'
  BY <1>2, OpenStep, ToggleStep, WriteStep, AbandonStep DEF Patch
<1>3. CASE UNCHANGED kbVars
  BY <1>3, OtherStep DEF kbVars
<1> QED
  BY <1>1, <1>2, <1>3, RetrievalStep DEF KnowledgeNext

-----------------------------------------------------------------------------
(* A retrieval in progress.                                                *)

RunFinite ==
    /\ IsFiniteSet(run.exact) /\ IsFiniteSet(run.sparse)
    /\ IsFiniteSet(run.dense) /\ IsFiniteSet(run.pack)
RunOK ==
    /\ run \in Run \cup {NoRun} /\ RunFinite
    /\ run.pc = "done" => run.conflicts = SlotConflicts(run.pack)

CountsOK == day \in Days /\ seeding \in BOOLEAN /\ edits \in 0..MaxEdits

LocalInv == KInv /\ RunOK /\ CountsOK

LEMMA LocalTypes == LocalInv => KnowledgeTypes
BY DEF LocalInv, KInv, IndexOK, EditorsOK, Rows, RunOK, CountsOK, KnowledgeTypes

\* Two hits of a finite selection that differ in text and share a slot are a
\* conflict of it.
LEMMA SlotDisclosed ==
    ASSUME NEW selected, IsFiniteSet(selected), NEW g \in selected, NEW h \in selected,
           Slot[g.entry] = Slot[h.entry], g.chunk.text # h.chunk.text
    PROVE  \E group \in SlotConflicts(selected) : {g, h} \subseteq group
<1> DEFINE group == {x \in selected : Slot[x.entry] = Slot[g.entry]}
           texts == {x.chunk.text : x \in group}
           text == [x \in group |-> x.chunk.text]
<1>1. g \in group /\ h \in group /\ group \subseteq selected
  OBVIOUS
<1>2. IsFiniteSet(group)
  BY <1>1, FS_Subset
<1> HIDE DEF group
<1>3. text \in Surjection(group, texts)
  BY DEF Surjection
<1>4. IsFiniteSet(texts) /\ {g.chunk.text, h.chunk.text} \subseteq texts
  BY <1>1, <1>2, <1>3, FS_Surjection
<1> HIDE DEF texts, text
<1>5. Cardinality({g.chunk.text}) = 1 /\ IsFiniteSet({g.chunk.text})
  BY FS_Singleton
<1> DEFINE two == {g.chunk.text} \cup {h.chunk.text}
<1>6. Cardinality(two) = Cardinality({g.chunk.text}) + 1 /\ two \in SUBSET texts
  BY <1>4, <1>5, FS_AddElement
<1> HIDE DEF two
<1>7. Cardinality(two) <= Cardinality(texts)
  BY <1>4, <1>6, FS_Subset
<1>8. Cardinality(texts) > 1
  BY <1>4, <1>5, <1>6, <1>7, FS_CardinalityType
<1>9. group \in SlotConflicts(selected)
  BY <1>8 DEF SlotConflicts, group, texts
<1> QED
  BY <1>1, <1>9

LEMMA LocalDiscloses == LocalInv => ConflictDisclosed
<1> SUFFICES ASSUME LocalInv, run.pc = "done", NEW g \in run.pack, NEW h \in run.pack,
                    g.entry = h.entry, g.chunk.text # h.chunk.text
             PROVE  \E group \in run.conflicts : {g, h} \subseteq group
  BY DEF ConflictDisclosed
<1>1. IsFiniteSet(run.pack) /\ run.conflicts = SlotConflicts(run.pack)
  BY DEF LocalInv, RunOK, RunFinite
<1> QED
  BY <1>1, SlotDisclosed

\* What is read from a finite index are finitely many hits.
LEMMA HitsFinite ==
    ASSUME KInv
    PROVE  IsFiniteSet(AllHits) /\ AllHits \subseteq Hit
<1> DEFINE hit == [id \in StoredIds |-> [entry |-> id[1], version |-> id[2],
                                         chunk |-> index[id[1]][id[2]]]]
<1>1. hit \in Surjection(StoredIds, AllHits)
  BY DEF AllHits, StoredIds, Surjection
<1>2. IsFiniteSet(AllHits)
  BY <1>1, FS_Surjection DEF KInv, FiniteRows
<1>3. ASSUME NEW e \in Entries, NEW v \in Versions, Stored(e, v)
      PROVE  [entry |-> e, version |-> v, chunk |-> index[e][v]] \in Hit
  BY <1>3 DEF Hit, KInv, IndexOK, Rows, Stored
<1>4. AllHits \subseteq Hit
  BY <1>3 DEF AllHits
<1> QED
  BY <1>2, <1>4

\* A set of hits is part of the index, or of what was read before.
LEMMA HitSubset ==
    ASSUME NEW hits, IsFiniteSet(hits), hits \subseteq Hit, NEW part, part \subseteq hits
    PROVE  IsFiniteSet(part) /\ part \in SUBSET Hit
BY FS_Subset

LEMMA RetrieveStep ==
    ASSUME KInv, NEW branch \in Branches \cup {Everywhere},
           NEW strict \in BOOLEAN, Retrieve(branch, strict)
    PROVE  RunOK'
<1>1. PICK exact \in ExactHits :
        run' = [NoRun EXCEPT !.pc = "sparse", !.branch = branch, !.strict = strict,
                             !.exact = exact]
  BY DEF Retrieve
<1>2. IsFiniteSet(exact) /\ exact \in SUBSET Hit
  <2>1. exact = {} \/ \E h \in AllHits : exact = {h}
    BY DEF ExactHits
  <2>2. CASE exact = {}
    BY <2>2, FS_EmptySet
  <2>3. ASSUME NEW h \in AllHits, exact = {h}
        PROVE  IsFiniteSet(exact) /\ exact \in SUBSET Hit
    <3>1. h \in Hit
      BY HitsFinite
    <3> QED
      BY <2>3, <3>1, FS_Singleton
  <2> QED
    BY <2>1, <2>2, <2>3
<1>3. /\ run'.pc = "sparse" /\ run'.exact = exact /\ run'.sparse = {}
      /\ run'.dense = {} /\ run'.pack = {}
  BY <1>1 DEF NoRun
<1>4. run' \in Run
  BY <1>1, <1>2 DEF NoRun, Run
<1> QED
  BY <1>2, <1>3, <1>4, FS_EmptySet DEF RunOK, RunFinite

LEMMA ChannelStep ==
    ASSUME KInv, RunOK, SparseChannel \/ DenseChannel
    PROVE  RunOK'
<1>1. run \in Run
  BY DEF SparseChannel, DenseChannel, NoRun, RunOK
<1>2. Channel \subseteq AllHits
  BY DEF Channel
<1>3. IsFiniteSet(Channel) /\ Channel \in SUBSET Hit
  BY <1>2, HitsFinite, HitSubset
<1>4. CASE SparseChannel
  BY <1>1, <1>3, <1>4 DEF SparseChannel, Run, RunOK, RunFinite
<1>5. CASE DenseChannel
  BY <1>1, <1>3, <1>5 DEF DenseChannel, Run, RunOK, RunFinite
<1> QED
  BY <1>4, <1>5

LEMMA FuseStep == ASSUME RunOK, Fuse PROVE RunOK'
<1> DEFINE hits == run.sparse \cup run.dense \cup run.exact
<1>1. run \in Run
  BY DEF Fuse, NoRun, RunOK
<1>2. IsFiniteSet(hits) /\ hits \subseteq Hit
  BY <1>1, FS_Union DEF RunOK, RunFinite, Run
<1>3. Overridden(Fused(run.sparse, run.dense), run.exact) \subseteq hits
  BY DEF Overridden, Fused
<1> HIDE DEF hits
<1>4. PICK selected \in SUBSET hits :
        run' = [NoRun EXCEPT !.pc = "done",
                !.pack = selected, !.conflicts = SlotConflicts(selected),
                !.status = IF selected # {} THEN "ok"
                           ELSE IF run.strict THEN "scope_empty"
                                              ELSE "no_relevant_result"]
  BY <1>3 DEF Fuse
<1>5. IsFiniteSet(selected) /\ selected \in SUBSET Hit
  BY <1>2, HitSubset
<1> DEFINE conflicts == SlotConflicts(selected)
<1>6. conflicts \in SUBSET SUBSET Hit
  BY <1>5 DEF SlotConflicts
<1> HIDE DEF conflicts
<1>7. /\ run'.pc = "done" /\ run'.pack = selected /\ run'.conflicts = conflicts
      /\ run'.exact = {} /\ run'.sparse = {} /\ run'.dense = {}
      /\ run'.branch = None /\ run'.strict = FALSE
      /\ run'.status \in {"ok", "scope_empty", "no_relevant_result"}
  BY <1>4 DEF NoRun, conflicts
<1>8. run' \in Run
  BY <1>4, <1>5, <1>6, <1>7 DEF NoRun, Run, conflicts
<1> QED
  BY <1>5, <1>7, <1>8, FS_EmptySet DEF RunOK, RunFinite, conflicts

LEMMA NoRunStep == run' = NoRun => RunOK'
BY FS_EmptySet DEF RunOK, RunFinite, NoRun

LEMMA SameRun == RunOK /\ run' = run => RunOK'
BY DEF RunOK, RunFinite

LEMMA RunStep ==
    ASSUME KInv, RunOK, Retrieval
    PROVE  RunOK' /\ UNCHANGED <<day, index, seeding, editors, edits>>
<1>1. UNCHANGED <<day, index, seeding, editors, edits>>
  BY DEF Retrieval, Retrieve, SparseChannel, DenseChannel, Fuse, Delivered
<1>2. Delivered => run' = NoRun
  BY DEF Delivered
<1>3. RunOK'
  BY <1>2, RetrieveStep, ChannelStep, FuseStep, NoRunStep DEF Retrieval
<1> QED
  BY <1>1, <1>3

LEMMA EditsStep ==
    ASSUME CountsOK, edits < MaxEdits
    PROVE  edits + 1 \in 0..MaxEdits
BY KnowledgeAssumption DEF CountsOK

LEMMA NextLocalInv == LocalInv /\ [KnowledgeNext]_kbVars => LocalInv'
<1> SUFFICES ASSUME LocalInv, [KnowledgeNext]_kbVars PROVE LocalInv'
  OBVIOUS
<1>1. KInv /\ KInv' /\ RunOK /\ CountsOK
  BY NextKInv DEF LocalInv
<1>2. ASSUME Fill PROVE RunOK' /\ CountsOK'
  <2>1. run' = run /\ day' = day /\ seeding' \in BOOLEAN
    BY <1>1, <1>2
    DEF Fill, FindEmpty, Ingest, Upload, Contribute, CountsOK
  <2>2. edits' = edits \/ (edits < MaxEdits /\ edits' = edits + 1)
    BY <1>2 DEF Fill, FindEmpty, Ingest, Upload, Contribute
  <2> QED
    BY <1>1, <1>2, <2>1, <2>2, SameRun, EditsStep DEF CountsOK
<1>3. ASSUME Patch PROVE RunOK' /\ CountsOK'
  <2>1. run' = run /\ day' = day /\ seeding' = seeding
    BY <1>3 DEF Patch, Open, Toggle, Write, Abandon
  <2>2. edits' = edits \/ (edits < MaxEdits /\ edits' = edits + 1)
    BY <1>3 DEF Patch, Open, Toggle, Write, Abandon
  <2> QED
    BY <1>1, <1>3, <2>1, <2>2, SameRun, EditsStep DEF CountsOK
<1>4. ASSUME Retrieval PROVE RunOK' /\ CountsOK'
  BY <1>1, <1>4, RunStep DEF CountsOK
<1>5. ASSUME Midnight PROVE RunOK' /\ CountsOK'
  <2>1. day + 1 \in Days
    BY <1>1, <1>5, KnowledgeAssumption DEF Midnight, CountsOK, Days
  <2> QED
    BY <1>1, <1>5, <2>1, SameRun DEF Midnight, CountsOK
<1>6. CASE UNCHANGED kbVars
  BY <1>1, <1>6, SameRun DEF kbVars, LocalInv, CountsOK
<1> QED
  BY <1>1, <1>2, <1>3, <1>4, <1>5, <1>6 DEF KnowledgeNext, LocalInv

LEMMA InitLocalInv == KnowledgeInit => LocalInv
<1> SUFFICES ASSUME KnowledgeInit PROVE LocalInv
  OBVIOUS
<1>1. RunOK
  BY FS_EmptySet DEF KnowledgeInit, RunOK, RunFinite, NoRun
<1>2. 0 \in Days /\ 0 \in 0..MaxEdits
  BY KnowledgeAssumption DEF Days
<1>3. CountsOK
  BY <1>2 DEF KnowledgeInit, CountsOK
<1> QED
  BY <1>1, <1>3, InitKInv DEF LocalInv

(***************************************************************************)
(* The server's invariant.                                                 *)
(***************************************************************************)
Seeding == {"read", "publish", "failed"}

\* A process that seeds works on a manifest that names a source, and has a
\* package for each of them when it asks for the lock.
SeedOK(proc) ==
    /\ proc.pc \in Seeding =>
        /\ proc.dataset \in Revisions /\ proc.listed # {}
        /\ DOMAIN proc.built \subseteq proc.listed
    /\ proc.pc = "publish" =>
        proc.at \in 1..MaxRuns /\ DOMAIN proc.built = proc.listed
ProcsOK == procs \in [Processes -> Process] /\ \A p \in Processes : SeedOK(procs[p])

DiskOK ==
    /\ disk \in [dataset : Revisions, listed : SUBSET Sources, edits : 0..MaxFileEdits,
                 files : [Sources -> [dataset : Revisions, content : Revisions,
                                      accepted : BOOLEAN]]]
    /\ disk.listed # {}

\* Under the lock are the packages of its owner, for every source it is done with.
Packaged(proc, s) == [dataset |-> proc.dataset, at |-> proc.at, content |-> proc.built[s]]
LockOK ==
    /\ lock \in [owner : Processes \cup {Nobody}, rows : [Sources -> Package],
                 todo : SUBSET Sources]
    /\ lock.owner # Nobody =>
        LET proc == procs[lock.owner] IN
        /\ proc.pc = "publish" /\ lock.todo \subseteq proc.listed
        /\ \A s \in proc.listed \ lock.todo : lock.rows[s] = Packaged(proc, s)

\* The second conjunct of PublishedWhole.
OfRun(rows, r) ==
    \A s \in Present(rows) : rows[s].at = r.at /\ rows[s].dataset = r.dataset
CorpusWhole ==
    Present(corpus) # {} =>
        \E r \in runs :
            /\ r.passed /\ r.dataset = meta.corpus_version
            /\ Cardinality(Present(corpus)) = r.sources
            /\ OfRun(corpus, r)
StoreOK ==
    /\ corpus \in [Sources -> Package]
    /\ runs \subseteq [passed : BOOLEAN, dataset : Revisions, at : 1..MaxRuns,
                       sources : 0..Cardinality(Sources)]
    /\ meta \in [corpus_version : 0..MaxRevision, last : 0..MaxRuns,
                 status : {"missing", "passed", "failed"}]
    /\ clock \in 0..MaxRuns
    /\ CorpusWhole

\* A server that has started, and one that seeds again, has a corpus.
Serving(proc) ==
    \/ proc.pc \in {"up", "query", "audit", "reply"}
    \/ proc.pc \in Seeding /\ proc.why # "start"
ServedOK(proc) == Serving(proc) => Present(corpus) # {}

\* What a call has found is of one passed run, and has room in the audit.
OfOneRun(found) ==
    found # {} => \E r \in runs : r.passed /\ \A f \in found : f[2].at = r.at
InCall(proc) ==
    proc.pc \in {"query", "audit"} \/ (proc.pc \in Seeding /\ proc.why \in Tools)
CallOK(proc) ==
    /\ proc.pc \in {"query", "audit"} => proc.why \in Tools
    /\ InCall(proc) => Cardinality(audit) < MaxCalls
    /\ proc.pc \in {"audit", "reply"} =>
        /\ Cardinality(proc.found) \in 0..Cardinality(Sources)
        /\ OfOneRun(proc.found)
    /\ proc.pc = "reply" =>
        \A e \in audit : e.id = Cardinality(audit) =>
            e.allowed /\ e.count = Cardinality(proc.found)

AuditOK ==
    /\ audit \subseteq Event /\ IsFiniteSet(audit)
    /\ \A e \in audit : e.id <= Cardinality(audit)
AnswersOK == replies \subseteq Answer /\ AnswerAccounted

RagInv ==
    /\ DiskOK /\ ProcsOK /\ LockOK /\ StoreOK /\ AuditOK /\ AnswersOK
    /\ ServedOK(procs[Server]) /\ CallOK(procs[Server])

LEMMA InvTypes == RagInv => RagTypes
BY DEF RagInv, RagTypes, DiskOK, ProcsOK, LockOK, StoreOK, AuditOK, AnswersOK

LEMMA InvWhole == RagInv => PublishedWhole
BY DEF RagInv, PublishedWhole, ServedOK, Serving, StoreOK, CorpusWhole, OfRun

LEMMA InvAnswers == RagInv => AnswerAccounted
BY DEF RagInv, AnswersOK

-----------------------------------------------------------------------------
(* Facts about the values.                                                 *)

LEMMA ServerProcess == Server \in Processes /\ Nobody \notin Processes
BY RagAssumption DEF Processes

LEMMA NoSources == Present(Nothing) = {} /\ Nothing \in [Sources -> Package]
BY DEF Present, Nothing, Package, Absent

LEMMA UnlockedType ==
    Unlocked \in [owner : Processes \cup {Nobody}, rows : [Sources -> Package],
                  todo : SUBSET Sources]
BY NoSources DEF Unlocked

LEMMA DownProcess == Down \in Process /\ SeedOK(Down)
<1>1. [s \in {} |-> 0] \in UNION {[todo -> Revisions] : todo \in SUBSET Sources}
  <2>1. [s \in {} |-> 0] \in [{} -> Revisions]
    OBVIOUS
  <2> QED
    BY <2>1
<1>2. 0 \in 0..MaxRuns
  BY RagAssumption
<1> QED
  BY <1>1, <1>2 DEF Down, Process, SeedOK, Seeding, Found

LEMMA PackagedType ==
    ASSUME NEW proc \in Process, SeedOK(proc), proc.pc = "publish",
           NEW s \in proc.listed
    PROVE  /\ Packaged(proc, s) \in Package /\ Packaged(proc, s) # Absent
           /\ Packaged(proc, s).at = proc.at /\ Packaged(proc, s).dataset = proc.dataset
<1>1. proc.built[s] \in Revisions
  BY DEF Process, SeedOK
<1>2. proc.dataset \in Revisions /\ proc.at \in 1..MaxRuns
  BY DEF SeedOK, Seeding
<1> QED
  BY <1>1, <1>2, RagAssumption DEF Packaged, Package, Absent

-----------------------------------------------------------------------------
(* Steps of one process.                                                   *)

\* One process goes on, without a write; if it is the server, what it serves
\* and what it has found are in order.
LEMMA ProcessStep ==
    ASSUME RagInv, NEW p \in Processes, NEW new \in Process, SeedOK(new),
           lock.owner # p, procs' = [procs EXCEPT ![p] = new], clock' \in 0..MaxRuns,
           UNCHANGED <<disk, corpus, runs, meta, lock, audit, replies>>,
           p = Server => ServedOK(new) /\ CallOK(new)
    PROVE  RagInv'
<1>1. procs'[p] = new /\ \A q \in Processes \ {p} : procs'[q] = procs[q]
  BY DEF RagInv, ProcsOK
<1>2. ProcsOK'
  BY <1>1 DEF RagInv, ProcsOK
<1>3. LockOK'
  BY <1>1 DEF RagInv, LockOK
<1>4. StoreOK'
  BY DEF RagInv, StoreOK, CorpusWhole
<1>5. DiskOK' /\ AuditOK' /\ AnswersOK'
  BY DEF RagInv, DiskOK, AuditOK, AnswersOK, AnswerAccounted
<1>6. ServedOK(procs[Server])' /\ CallOK(procs[Server])'
  <2>1. procs'[Server] = IF p = Server THEN new ELSE procs[Server]
    BY <1>1, ServerProcess
  <2> QED
    BY <2>1 DEF RagInv, ServedOK, CallOK, OfOneRun
<1> QED
  BY <1>2, <1>3, <1>4, <1>5, <1>6 DEF RagInv

\* The server is the only process whose record says anything of the calls.
LEMMA QuietOK ==
    ASSUME NEW proc, proc.pc \notin {"query", "audit", "reply"}, ~InCall(proc)
    PROVE  CallOK(proc)
BY DEF CallOK

LEMMA ProcOK ==
    ASSUME RagInv, NEW p \in Processes
    PROVE  /\ procs[p] \in Process /\ SeedOK(procs[p])
           /\ procs[p].pc # "publish" => lock.owner # p
<1>1. lock.owner = p => procs[p].pc = "publish"
  BY ServerProcess DEF RagInv, LockOK
<1> QED
  BY <1>1 DEF RagInv, ProcsOK

LEMMA DueUnless ==
    ASSUME NEW proc, ~SeedDue(proc)
    PROVE  Present(corpus) # {}
BY DEF SeedDue

\* What a seed begins with.
LEMMA ManifestRead ==
    ASSUME RagInv, NEW proc \in Process, NEW why \in {"start", "health"} \cup Tools
    PROVE  /\ ReadManifest(proc, why) \in Process /\ SeedOK(ReadManifest(proc, why))
           /\ ReadManifest(proc, why).pc = "read" /\ ReadManifest(proc, why).why = why
<1> DEFINE new == ReadManifest(proc, why)
<1>1. /\ proc.checked \in BOOLEAN /\ disk.dataset \in Revisions
      /\ disk.listed \in SUBSET Sources /\ disk.listed # {}
  BY DEF Process, RagInv, DiskOK
<1>2. Down \in Process /\ DOMAIN Down.built = {}
  BY DownProcess DEF Down
<1>3. /\ new.pc = "read" /\ new.why = why /\ new.dataset = disk.dataset
      /\ new.listed = disk.listed /\ new.built = Down.built
  BY <1>2 DEF ReadManifest, Process
<1>4. new \in Process
  BY <1>1, <1>2 DEF ReadManifest, Process
<1> HIDE DEF new
<1>5. SeedOK(new)
  BY <1>1, <1>2, <1>3 DEF SeedOK, Seeding
<1> QED
  BY <1>3, <1>4, <1>5 DEF new

LEMMA StartStep == ASSUME RagInv, NEW p \in Processes, Start(p) PROVE RagInv'
<1> DEFINE new == IF p # Server \/ SeedDue(procs[p]) THEN ReadManifest(procs[p], "start")
                  ELSE [procs[p] EXCEPT !.pc = "up"]
<1>1. /\ procs[p].pc = "down" /\ procs' = [procs EXCEPT ![p] = new] /\ clock' = clock
      /\ UNCHANGED <<disk, corpus, runs, meta, lock, audit, replies>>
  BY DEF Start
<1>2. procs[p] \in Process /\ lock.owner # p /\ clock' \in 0..MaxRuns
  BY <1>1, ProcOK DEF RagInv, StoreOK
<1>3. CASE p # Server \/ SeedDue(procs[p])
  <2>1. /\ new \in Process /\ SeedOK(new) /\ new.pc = "read" /\ new.why = "start"
    BY <1>2, <1>3, ManifestRead
  <2> HIDE DEF new
  <2>2. ServedOK(new) /\ CallOK(new)
    BY <2>1, QuietOK DEF ServedOK, Serving, InCall, Tools
  <2> QED
    BY <1>1, <1>2, <2>1, <2>2, ProcessStep
<1>4. CASE ~(p # Server \/ SeedDue(procs[p]))
  <2>1. new \in Process /\ SeedOK(new) /\ new.pc = "up"
    BY <1>2, <1>4 DEF Process, SeedOK, Seeding
  <2> HIDE DEF new
  <2>2. Present(corpus) # {}
    BY <1>4, DueUnless
  <2>3. ServedOK(new) /\ CallOK(new)
    BY <2>1, <2>2, QuietOK DEF ServedOK, InCall, Seeding
  <2> QED
    BY <1>1, <1>2, <2>1, <2>3, ProcessStep
<1> QED
  BY <1>3, <1>4

\* A seeding process goes on: for whom it seeds, and what it seeds from, stay.
LEMMA SeedStep ==
    ASSUME RagInv, NEW p \in Processes, NEW new \in Process, SeedOK(new),
           procs[p].pc \in Seeding, new.pc \in Seeding, new.why = procs[p].why
    PROVE  ServedOK(procs[p]) /\ CallOK(procs[p]) => ServedOK(new) /\ CallOK(new)
BY DEF ServedOK, Serving, CallOK, InCall, Seeding

LEMMA BuildStep == ASSUME RagInv, NEW p \in Processes, Build(p) PROVE RagInv'
<1> DEFINE proc == procs[p]
<1>1. proc \in Process /\ SeedOK(proc) /\ proc.pc = "read" /\ lock.owner # p
  BY ProcOK DEF Build
<1>2. PICK s \in proc.listed \ DOMAIN proc.built :
        procs' = IF Accepted(s, proc)
                 THEN [procs EXCEPT ![p].built =
                        [t \in DOMAIN proc.built \cup {s} |->
                            IF t = s THEN disk.files[s].content ELSE proc.built[t]]]
                 ELSE [procs EXCEPT ![p].pc = "failed"]
  BY DEF Build
<1> DEFINE built == [t \in DOMAIN proc.built \cup {s} |->
                        IF t = s THEN disk.files[s].content ELSE proc.built[t]]
           new == IF Accepted(s, proc) THEN [proc EXCEPT !.built = built]
                  ELSE [proc EXCEPT !.pc = "failed"]
<1>3. s \in Sources /\ disk.files[s].content \in Revisions
  BY <1>1, <1>2 DEF Process, RagInv, DiskOK
<1>4. PICK todo \in SUBSET Sources : proc.built \in [todo -> Revisions]
  BY <1>1 DEF Process
<1>5. built \in [todo \cup {s} -> Revisions]
  BY <1>3, <1>4
<1>6. built \in UNION {[t -> Revisions] : t \in SUBSET Sources} /\ DOMAIN built = todo \cup {s}
  BY <1>3, <1>5
<1> HIDE DEF built
<1>7. new \in Process /\ new.pc \in Seeding /\ new.why = proc.why
  <2>1. CASE Accepted(s, proc)
    BY <1>1, <1>6, <2>1 DEF Process, Seeding
  <2>2. CASE ~Accepted(s, proc)
    BY <1>1, <2>2 DEF Process, Seeding
  <2> QED
    BY <2>1, <2>2
<1>8. SeedOK(new)
  <2>1. CASE Accepted(s, proc)
    <3>1. new.pc = "read" /\ new.dataset = proc.dataset /\ new.listed = proc.listed
          /\ new.built = built
      BY <1>1, <2>1 DEF Process
    <3> QED
      BY <1>1, <1>2, <1>4, <1>6, <3>1 DEF SeedOK, Seeding
  <2>2. CASE ~Accepted(s, proc)
    <3>1. new.pc = "failed" /\ new.dataset = proc.dataset /\ new.listed = proc.listed
          /\ new.built = proc.built
      BY <1>1, <2>2 DEF Process
    <3> QED
      BY <1>1, <3>1 DEF SeedOK, Seeding
  <2> QED
    BY <2>1, <2>2
<1>9. procs' = [procs EXCEPT ![p] = new]
  BY <1>2 DEF built
<1> HIDE DEF new
<1>10. p = Server => ServedOK(new) /\ CallOK(new)
  BY <1>1, <1>7, <1>8, SeedStep DEF RagInv, Seeding
<1>11. clock' \in 0..MaxRuns
  BY DEF Build, RagInv, StoreOK
<1> QED
  BY <1>1, <1>7, <1>8, <1>9, <1>10, <1>11, ProcessStep DEF Build

LEMMA StampStep == ASSUME RagInv, NEW p \in Processes, Stamp(p) PROVE RagInv'
<1> DEFINE proc == procs[p]
           new == [proc EXCEPT !.pc = "publish", !.at = clock + 1]
<1>1. /\ proc \in Process /\ SeedOK(proc) /\ proc.pc = "read" /\ lock.owner # p
      /\ DOMAIN proc.built = proc.listed
  BY ProcOK DEF Stamp
<1>2. /\ clock + 1 \in 1..MaxRuns /\ clock + 1 \in 0..MaxRuns
      /\ clock' \in 0..MaxRuns
  BY RagAssumption DEF Stamp, RagInv, StoreOK
<1>3. new \in Process
  BY <1>1, <1>2 DEF Process
<1>4. /\ new.pc = "publish" /\ new.at = clock + 1 /\ new.why = proc.why
      /\ new.dataset = proc.dataset /\ new.listed = proc.listed /\ new.built = proc.built
  BY <1>1 DEF Process
<1>5. procs' = [procs EXCEPT ![p] = new]
  BY DEF Stamp, RagInv, ProcsOK
<1> HIDE DEF new
<1>6. SeedOK(new)
  BY <1>1, <1>2, <1>4 DEF SeedOK, Seeding
<1>7. p = Server => ServedOK(new) /\ CallOK(new)
  BY <1>1, <1>3, <1>4, <1>6, SeedStep DEF RagInv, Seeding
<1> QED
  BY <1>1, <1>2, <1>3, <1>5, <1>6, <1>7, ProcessStep DEF Stamp

LEMMA BusyStep == ASSUME RagInv, NEW p \in Processes, Busy(p) PROVE RagInv'
<1> DEFINE proc == procs[p]
           new == [proc EXCEPT !.pc = "failed"]
<1>1. proc \in Process /\ SeedOK(proc) /\ proc.pc = "publish" /\ lock.owner # p
  BY ProcOK DEF Busy
<1>2. new \in Process
  BY <1>1 DEF Process
<1>3. /\ new.pc = "failed" /\ new.why = proc.why
      /\ new.dataset = proc.dataset /\ new.listed = proc.listed /\ new.built = proc.built
  BY <1>1 DEF Process
<1>4. procs' = [procs EXCEPT ![p] = new]
  BY DEF Busy, RagInv, ProcsOK
<1> HIDE DEF new
<1>5. SeedOK(new)
  BY <1>1, <1>3 DEF SeedOK, Seeding
<1>6. p = Server => ServedOK(new) /\ CallOK(new)
  BY <1>1, <1>2, <1>3, <1>5, SeedStep DEF RagInv, Seeding
<1>7. clock' \in 0..MaxRuns
  BY DEF Busy, RagInv, StoreOK
<1> QED
  BY <1>1, <1>2, <1>4, <1>5, <1>6, <1>7, ProcessStep DEF Busy

-----------------------------------------------------------------------------
(* The write lock.                                                         *)

\* A step that changes only the lock.
LEMMA LockOnlyStep ==
    ASSUME RagInv, LockOK',
           UNCHANGED <<disk, corpus, runs, meta, clock, procs, audit, replies>>
    PROVE  RagInv'
BY DEF RagInv, DiskOK, ProcsOK, StoreOK, CorpusWhole, ServedOK, CallOK, OfOneRun,
       AuditOK, AnswersOK, AnswerAccounted

LEMMA LockStep == ASSUME RagInv, NEW p \in Processes, Lock(p) PROVE RagInv'
<1>1. /\ procs[p] \in Process /\ procs[p].pc = "publish"
      /\ lock' = [owner |-> p, rows |-> corpus, todo |-> procs[p].listed]
      /\ UNCHANGED <<disk, corpus, runs, meta, clock, procs, audit, replies>>
  BY ProcOK DEF Lock
<1>2. procs[p].listed \in SUBSET Sources /\ corpus \in [Sources -> Package]
  BY <1>1 DEF Process, RagInv, StoreOK
<1>3. LockOK'
  BY <1>1, <1>2 DEF LockOK
<1> QED
  BY <1>1, <1>3, LockOnlyStep

LEMMA UpsertSourceStep == ASSUME RagInv, NEW p \in Processes, UpsertSource(p) PROVE RagInv'
<1>1. PICK s \in lock.todo :
        lock' = [lock EXCEPT !.todo = @ \ {s}, !.rows[s] = Packaged(procs[p], s)]
  BY DEF UpsertSource, Packaged
<1>2. /\ lock.owner = p /\ p # Nobody
      /\ UNCHANGED <<disk, corpus, runs, meta, clock, procs, audit, replies>>
  BY ServerProcess DEF UpsertSource
<1>3. /\ procs[p].pc = "publish" /\ lock.todo \subseteq procs[p].listed
      /\ \A t \in procs[p].listed \ lock.todo : lock.rows[t] = Packaged(procs[p], t)
      /\ lock \in [owner : Processes \cup {Nobody}, rows : [Sources -> Package],
                   todo : SUBSET Sources]
  BY <1>2 DEF RagInv, LockOK
<1>4. Packaged(procs[p], s) \in Package
  BY <1>3, ProcOK, PackagedType
<1>9. procs[p].listed \subseteq Sources
  BY ProcOK DEF Process
<1>5. /\ lock'.owner = p /\ lock'.todo = lock.todo \ {s}
      /\ lock'.rows = [lock.rows EXCEPT ![s] = Packaged(procs[p], s)]
      /\ lock' \in [owner : Processes \cup {Nobody}, rows : [Sources -> Package],
                    todo : SUBSET Sources]
  BY <1>1, <1>2, <1>3, <1>4
<1>6. \A t \in procs[p].listed \ lock'.todo : lock'.rows[t] = Packaged(procs[p], t)
  <2>1. ASSUME NEW t \in procs[p].listed \ lock'.todo
        PROVE  lock'.rows[t] = Packaged(procs[p], t)
    <3>1. CASE t = s
      BY <1>3, <1>5, <1>9, <3>1
    <3>2. CASE t # s
      BY <1>3, <1>5, <1>9, <3>2
    <3> QED
      BY <3>1, <3>2
  <2> QED
    BY <2>1
<1>7. LockOK'
  <2>1. procs' = procs /\ lock'.todo \subseteq procs[p].listed
    BY <1>2, <1>3, <1>5
  <2>2. \A t \in procs'[p].listed \ lock'.todo : lock'.rows[t] = Packaged(procs'[p], t)
    BY <1>6, <2>1
  <2> QED
    BY <1>2, <1>3, <1>5, <2>1, <2>2 DEF LockOK
<1> QED
  BY <1>2, <1>7, LockOnlyStep

-----------------------------------------------------------------------------
(* The end of a seed.                                                      *)

LEMMA AfterLemma ==
    ASSUME NEW p \in Processes, procs[p] \in Process, procs[p].pc \in Seeding,
           NEW passed \in BOOLEAN
    PROVE  LET new == After(p, passed) IN
           /\ new \in Process /\ new.pc \in {"down", "up", "query"}
           /\ new.pc # "down" => p = Server /\ (passed \/ procs[p].why # "start")
           /\ new.pc = "query" => new.why = procs[p].why /\ new.why \in Tools
<1> DEFINE proc == procs[p]
           rest == [Down EXCEPT !.checked = proc.checked \/ passed, !.why = proc.why]
           query == [rest EXCEPT !.pc = "query"]
           up == [rest EXCEPT !.pc = "up", !.why = "none"]
<1>1. proc.checked \in BOOLEAN /\ proc.why \in {"none", "start", "health"} \cup Tools
  BY DEF Process
<1>2. Down \in Process /\ Down.pc = "down"
  BY DownProcess DEF Down
<1>3. rest \in Process /\ rest.why = proc.why
  BY <1>1, <1>2 DEF Process
<1> HIDE DEF rest
<1>4. query \in Process /\ query.pc = "query" /\ query.why = proc.why
  BY <1>3 DEF Process
<1>5. up \in Process /\ up.pc = "up"
  BY <1>3 DEF Process
<1> HIDE DEF query, up
<1>6. After(p, passed) = IF p # Server \/ (proc.why = "start" /\ ~passed) THEN Down
                         ELSE IF proc.why \in Tools /\ passed THEN query ELSE up
  BY DEF After, rest, query, up
<1> QED
  BY <1>2, <1>4, <1>5, <1>6

\* A seed ends: its run is recorded, and the corpus stays or becomes what the
\* run has published.
LEMMA RunRecorded ==
    ASSUME RagInv, NEW p \in Processes, NEW passed \in BOOLEAN,
           procs[p].pc \in Seeding, lock.owner = p \/ lock.owner = Nobody,
           procs' = [procs EXCEPT ![p] = After(p, passed)],
           runs \subseteq runs', StoreOK', lock' = Unlocked \/ (lock.owner = Nobody /\ lock' = lock),
           Present(corpus) # {} \/ passed => Present(corpus') # {},
           UNCHANGED <<disk, audit, replies>>
    PROVE  RagInv'
<1> DEFINE new == After(p, passed)
<1>1. /\ new \in Process /\ new.pc \in {"down", "up", "query"}
      /\ new.pc # "down" => p = Server /\ (passed \/ procs[p].why # "start")
      /\ new.pc = "query" => new.why = procs[p].why /\ new.why \in Tools
  BY ProcOK, AfterLemma
<1> HIDE DEF new
<1>2. procs'[p] = new /\ \A q \in Processes \ {p} : procs'[q] = procs[q]
  BY DEF RagInv, ProcsOK, new
<1>3. ProcsOK'
  <2>1. SeedOK(new)
    BY <1>1 DEF SeedOK, Seeding
  <2> QED
    BY <1>1, <1>2, <2>1 DEF RagInv, ProcsOK, new
<1>4. LockOK'
  BY UnlockedType DEF LockOK, Unlocked, RagInv
<1>5. DiskOK' /\ AuditOK'
  BY DEF RagInv, DiskOK, AuditOK
<1>6. \A found : OfOneRun(found) => OfOneRun(found)'
  BY DEF OfOneRun
<1>7. AnswersOK'
  <2>1. ASSUME NEW reply \in replies, reply.found # {}
        PROVE  \E r \in runs' : r.passed /\ \A f \in reply.found : f[2].at = r.at
    BY <2>1 DEF RagInv, AnswersOK, AnswerAccounted
  <2> QED
    BY <2>1 DEF RagInv, AnswersOK, AnswerAccounted
<1>8. ServedOK(procs[Server])'
  <2>1. CASE p = Server
    <3>1. Serving(procs'[Server]) => passed \/ Present(corpus) # {}
      BY <1>1, <1>2, <2>1 DEF Serving, Seeding, RagInv, ServedOK
    <3> QED
      BY <3>1 DEF ServedOK, Present
  <2>2. CASE p # Server
    BY <1>2, <2>2, ServerProcess DEF RagInv, ServedOK, Serving, Present
  <2> QED
    BY <2>1, <2>2
<1>9. CallOK(procs[Server])'
  <2>1. CASE p = Server
    BY <1>1, <1>2, <2>1 DEF RagInv, CallOK, InCall, Seeding
  <2>2. CASE p # Server
    BY <1>2, <1>6, <2>2, ServerProcess DEF RagInv, CallOK, InCall
  <2> QED
    BY <2>1, <2>2
<1> QED
  BY <1>3, <1>4, <1>5, <1>7, <1>8, <1>9 DEF RagInv

LEMMA CommitStep == ASSUME RagInv, NEW p \in Processes, Commit(p) PROVE RagInv'
<1> DEFINE proc == procs[p]
           r == [passed |-> TRUE, dataset |-> proc.dataset, at |-> proc.at,
                 sources |-> Cardinality(proc.listed)]
<1>1. /\ lock.owner = p /\ lock.todo = {} /\ p # Nobody
      /\ corpus' = Published(lock.rows, proc.listed) /\ runs' = runs \cup {r}
      /\ meta' = [corpus_version |-> proc.dataset, last |-> proc.at, status |-> "passed"]
      /\ lock' = Unlocked /\ procs' = [procs EXCEPT ![p] = After(p, TRUE)]
      /\ UNCHANGED <<disk, clock, audit, replies>>
  BY ServerProcess DEF Commit
<1>2. proc \in Process /\ SeedOK(proc)
  BY ProcOK
<1>3. /\ proc.pc = "publish" /\ lock.rows \in [Sources -> Package]
      /\ \A s \in proc.listed : lock.rows[s] = Packaged(proc, s)
  BY <1>1 DEF RagInv, LockOK
<1>4. /\ proc.dataset \in Revisions /\ proc.at \in 1..MaxRuns
      /\ proc.listed \subseteq Sources /\ proc.listed # {}
  BY <1>2, <1>3 DEF SeedOK, Seeding, Process
<1>5. corpus' \in [Sources -> Package]
  BY <1>1, <1>3 DEF Published, Package
<1>6. \A s \in Sources : corpus'[s] = IF s \in proc.listed THEN Packaged(proc, s) ELSE Absent
  BY <1>1, <1>3 DEF Published
<1>7. Present(corpus') = proc.listed
  BY <1>2, <1>3, <1>4, <1>6, PackagedType DEF Present
<1>8. OfRun(corpus', r)
  BY <1>2, <1>3, <1>4, <1>6, <1>7, PackagedType DEF OfRun
<1>9. Cardinality(proc.listed) \in 0..Cardinality(Sources)
  BY <1>4, RagAssumption, FS_Subset, FS_CardinalityType
<1> HIDE DEF r
<1>10. r.passed /\ r.dataset = proc.dataset /\ r.sources = Cardinality(proc.listed) /\ r \in runs'
  BY <1>1 DEF r
<1>11. r \in [passed : BOOLEAN, dataset : Revisions, at : 1..MaxRuns,
              sources : 0..Cardinality(Sources)]
  BY <1>4, <1>9 DEF r
<1>12. StoreOK'
  <2>1. CorpusWhole'
    BY <1>1, <1>7, <1>8, <1>10 DEF CorpusWhole, Present, OfRun
  <2>2. meta' \in [corpus_version : 0..MaxRevision, last : 0..MaxRuns,
                   status : {"missing", "passed", "failed"}]
    BY <1>1, <1>4, RagAssumption DEF Revisions
  <2> QED
    BY <1>1, <1>5, <1>11, <2>1, <2>2 DEF RagInv, StoreOK
<1> QED
  BY <1>1, <1>3, <1>4, <1>7, <1>12, RunRecorded DEF Seeding

LEMMA RecordFailureStep ==
    ASSUME RagInv, NEW p \in Processes, RecordFailure(p) PROVE RagInv'
<1> DEFINE proc == procs[p]
           r == [passed |-> FALSE, dataset |-> proc.dataset, at |-> clock + 1, sources |-> 0]
<1>1. /\ proc.pc = "failed" /\ lock.owner = Nobody /\ clock < MaxRuns
      /\ clock' = clock + 1 /\ runs' = runs \cup {r} /\ meta' = FailedMeta(proc, clock + 1)
      /\ procs' = [procs EXCEPT ![p] = After(p, FALSE)]
      /\ UNCHANGED <<disk, corpus, lock, audit, replies>>
  BY DEF RecordFailure
<1>2. proc.dataset \in Revisions
  BY <1>1, ProcOK DEF SeedOK, Seeding
<1>3. clock + 1 \in 1..MaxRuns /\ clock + 1 \in 0..MaxRuns
  BY <1>1, RagAssumption DEF RagInv, StoreOK
<1>4. 0 \in 0..Cardinality(Sources)
  BY RagAssumption, FS_CardinalityType
<1>5. /\ meta' \in [corpus_version : 0..MaxRevision, last : 0..MaxRuns,
                    status : {"missing", "passed", "failed"}]
      /\ meta'.corpus_version = meta.corpus_version
  BY <1>1, <1>3 DEF FailedMeta, RagInv, StoreOK
<1>6. StoreOK'
  <2>1. CorpusWhole'
    BY <1>1, <1>5 DEF RagInv, StoreOK, CorpusWhole
  <2>2. r \in [passed : BOOLEAN, dataset : Revisions, at : 1..MaxRuns,
               sources : 0..Cardinality(Sources)]
    BY <1>2, <1>3, <1>4
  <2> QED
    BY <1>1, <1>3, <1>5, <2>1, <2>2 DEF RagInv, StoreOK
<1> QED
  BY <1>1, <1>6, RunRecorded DEF Seeding

LEMMA DieStep == ASSUME RagInv, NEW p \in Processes, Die(p) PROVE RagInv'
<1>1. /\ procs' = [procs EXCEPT ![p] = Down]
      /\ lock' = IF lock.owner = p THEN Unlocked ELSE lock
      /\ UNCHANGED <<disk, corpus, runs, meta, clock, audit, replies>>
  BY DEF Die
<1>2. procs'[p] = Down /\ \A q \in Processes \ {p} : procs'[q] = procs[q]
  BY <1>1 DEF RagInv, ProcsOK
<1>3. ProcsOK'
  BY <1>1, <1>2, DownProcess DEF RagInv, ProcsOK
<1>4. LockOK'
  BY <1>1, <1>2, UnlockedType DEF RagInv, LockOK, Unlocked
<1>5. StoreOK' /\ DiskOK' /\ AuditOK' /\ AnswersOK'
  BY <1>1 DEF RagInv, StoreOK, CorpusWhole, DiskOK, AuditOK, AnswersOK, AnswerAccounted
<1>6. ServedOK(procs[Server])' /\ CallOK(procs[Server])'
  <2>1. CASE p = Server
    <3>1. Down.pc = "down"
      BY DEF Down
    <3> QED
      BY <1>2, <2>1, <3>1 DEF ServedOK, Serving, CallOK, InCall, Seeding
  <2>2. CASE p # Server
    BY <1>1, <1>2, <2>2, ServerProcess DEF RagInv, ServedOK, CallOK, OfOneRun
  <2> QED
    BY <2>1, <2>2
<1> QED
  BY <1>3, <1>4, <1>5, <1>6 DEF RagInv

-----------------------------------------------------------------------------
(* The calls.                                                              *)

\* The server, idle or in a call, goes on with a call and without a write.
LEMMA ServerStep ==
    ASSUME RagInv, NEW new \in Process, procs[Server].pc # "publish", SeedOK(new),
           procs' = [procs EXCEPT ![Server] = new], ServedOK(new), CallOK(new),
           UNCHANGED <<disk, corpus, runs, meta, lock, clock, audit, replies>>
    PROVE  RagInv'
<1>1. clock' \in 0..MaxRuns
  BY DEF RagInv, StoreOK
<1> QED
  BY <1>1, ServerProcess, ProcOK, ProcessStep

LEMMA UpServed ==
    ASSUME RagInv, procs[Server].pc \in {"up", "query", "audit", "reply"}
    PROVE  Present(corpus) # {}
BY DEF RagInv, ServedOK, Serving

LEMMA CallStep == ASSUME RagInv, NEW why \in {"search", "list"}, Call(why) PROVE RagInv'
<1> DEFINE server == procs[Server]
           new == IF SeedDue(server) THEN ReadManifest(server, why)
                  ELSE [server EXCEPT !.pc = "query", !.why = why]
<1>1. /\ server.pc = "up" /\ Cardinality(audit) < MaxCalls
      /\ UNCHANGED <<disk, corpus, runs, meta, lock, clock, audit, replies>>
      /\ procs' = [procs EXCEPT ![Server] = new]
  BY DEF Call, Accepting
<1>2. server \in Process
  BY ServerProcess, ProcOK
<1>3. why \in Tools
  BY DEF Tools
<1>4. /\ new \in Process /\ SeedOK(new) /\ new.pc \in {"read", "query"} /\ new.why = why
  <2>1. CASE SeedDue(server)
    BY <1>2, <1>3, <2>1, ManifestRead
  <2>2. CASE ~SeedDue(server)
    <3>1. [server EXCEPT !.pc = "query", !.why = why] \in Process
      BY <1>2, <1>3 DEF Process
    <3> QED
      BY <1>2, <2>2, <3>1 DEF Process, SeedOK, Seeding
  <2> QED
    BY <2>1, <2>2
<1> HIDE DEF new
<1>5. ServedOK(new)
  BY <1>1, UpServed DEF ServedOK
<1>6. CallOK(new)
  BY <1>1, <1>3, <1>4 DEF CallOK
<1> QED
  BY <1>1, <1>4, <1>5, <1>6, ServerStep

LEMMA HealthStep == ASSUME RagInv, Health PROVE RagInv'
<1> DEFINE new == ReadManifest(procs[Server], "health")
<1>1. /\ procs[Server].pc = "up" /\ procs' = [procs EXCEPT ![Server] = new]
      /\ UNCHANGED <<disk, corpus, runs, meta, lock, clock, audit, replies>>
  BY DEF Health
<1>2. new \in Process /\ SeedOK(new) /\ new.pc = "read" /\ new.why = "health"
  BY ServerProcess, ProcOK, ManifestRead
<1> HIDE DEF new
<1>3. ServedOK(new)
  BY <1>1, UpServed DEF ServedOK
<1>4. CallOK(new)
  BY <1>2, QuietOK DEF InCall, Tools
<1> QED
  BY <1>1, <1>2, <1>3, <1>4, ServerStep

\* An answer is read from rows that are served: one publication's.
LEMMA ReadStep ==
    ASSUME RagInv, procs[Server].pc \in {"up", "query"}, Cardinality(audit) < MaxCalls,
           NEW why \in Tools, NEW rows \in SUBSET Present(corpus), NEW valid \in BOOLEAN,
           Read(procs[Server], why, rows, valid),
           UNCHANGED <<disk, corpus, runs, meta, lock, clock, audit, replies>>
    PROVE  RagInv'
<1> DEFINE server == procs[Server]
           found == {<<s, corpus[s]>> : s \in rows}
           new == [server EXCEPT !.pc = "audit", !.why = why, !.found = found,
                                 !.valid = valid]
<1>1. procs' = [procs EXCEPT ![Server] = new]
  BY DEF Read
<1>2. server \in Process /\ SeedOK(server)
  BY ServerProcess, ProcOK
<1>3. rows \subseteq Sources /\ \A s \in rows : corpus[s] \in Package \ {Absent}
  BY DEF Present, RagInv, StoreOK
<1>4. found \in Found
  BY <1>3 DEF Found
<1>5. Cardinality(found) \in 0..Cardinality(Sources)
  <2> DEFINE f == [s \in rows |-> <<s, corpus[s]>>]
  <2>1. f \in Surjection(rows, found)
    BY DEF Surjection
  <2>2. IsFiniteSet(rows) /\ Cardinality(rows) <= Cardinality(Sources)
    BY <1>3, RagAssumption, FS_Subset
  <2>3. IsFiniteSet(found) /\ Cardinality(found) <= Cardinality(rows)
    BY <2>1, <2>2, FS_Surjection
  <2>4. /\ Cardinality(found) \in Nat /\ Cardinality(rows) \in Nat
        /\ Cardinality(Sources) \in Nat
    BY <2>2, <2>3, RagAssumption, FS_CardinalityType
  <2> HIDE DEF found
  <2> QED
    BY <2>2, <2>3, <2>4
<1>6. OfOneRun(found)
  <2>1. CASE rows = {}
    BY <2>1 DEF OfOneRun
  <2>2. CASE rows # {}
    <3>1. PICK r \in runs : r.passed /\ OfRun(corpus, r)
      BY <2>2 DEF RagInv, StoreOK, CorpusWhole
    <3>2. \A f \in found : f[2].at = r.at
      BY <3>1 DEF OfRun
    <3> QED
      BY <3>1, <3>2 DEF OfOneRun
  <2> QED
    BY <2>1, <2>2
<1> HIDE DEF found
<1>7. new \in Process /\ new.pc = "audit" /\ new.why = why /\ new.found = found
  BY <1>2, <1>4 DEF Process
<1> HIDE DEF new
<1>8. SeedOK(new) /\ ServedOK(new)
  BY <1>7, UpServed DEF SeedOK, Seeding, ServedOK
<1>9. CallOK(new)
  BY <1>5, <1>6, <1>7 DEF CallOK
<1> QED
  BY <1>1, <1>7, <1>8, <1>9, ServerStep

LEMMA ReadsStep ==
    ASSUME RagInv,
           \/ Query \/ ListSources
           \/ \E s \in Sources :
                 GetChunk(s) \/ \E content \in Revisions : VerifyCitation(s, content)
    PROVE  RagInv'
<1>1. ASSUME procs[Server].pc = "query" PROVE Cardinality(audit) < MaxCalls
  BY <1>1 DEF RagInv, CallOK, InCall
<1>2. ASSUME Query PROVE RagInv'
  BY <1>1, <1>2, ReadStep DEF Query, Tools
<1>3. ASSUME ListSources PROVE RagInv'
  BY <1>1, <1>3, ReadStep DEF ListSources, Tools
<1>4. ASSUME NEW s \in Sources, GetChunk(s) PROVE RagInv'
  BY <1>4, ReadStep DEF GetChunk, Accepting, Tools
<1>5. ASSUME NEW s \in Sources, NEW content \in Revisions, VerifyCitation(s, content)
      PROVE  RagInv'
  <2>1. {s} \in SUBSET Present(corpus) /\ (content = corpus[s].content) \in BOOLEAN
    BY <1>5 DEF VerifyCitation
  <2> QED
    BY <1>5, <2>1, ReadStep DEF VerifyCitation, Accepting, Tools
<1> QED
  BY <1>2, <1>3, <1>4, <1>5

-----------------------------------------------------------------------------
(* The audit and the answers.                                              *)

\* The event appended is the newest, and the only one with its number.
LEMMA AuditGrows ==
    ASSUME RagInv, Cardinality(audit) < MaxCalls, NEW tool \in Tools,
           NEW allowed \in BOOLEAN, NEW count \in 0..Cardinality(Sources),
           audit' = audit \cup {Audited(tool, allowed, count)}
    PROVE  /\ AuditOK' /\ Audited(tool, allowed, count) \in Event
           /\ \A e \in audit' : e.id = Cardinality(audit') =>
                e = Audited(tool, allowed, count)
<1> DEFINE new == Audited(tool, allowed, count)
<1>1. /\ audit \subseteq Event /\ IsFiniteSet(audit)
      /\ \A e \in audit : e.id <= Cardinality(audit)
  BY DEF RagInv, AuditOK
<1>2. Cardinality(audit) \in Nat
  BY <1>1, FS_CardinalityType
<1>3. new.id = Cardinality(audit) + 1 /\ new \in Event
  BY <1>2, RagAssumption DEF Audited, Event, Calls
<1> HIDE DEF new
<1>4. new \notin audit
  BY <1>1, <1>2, <1>3
<1>5. IsFiniteSet(audit') /\ Cardinality(audit') = Cardinality(audit) + 1
  BY <1>1, <1>4, FS_AddElement DEF new
<1>6. \A e \in audit' : e = new \/ e \in audit
  BY DEF new
<1>7. \A e \in audit : e.id \in Nat
  BY <1>1 DEF Event, Calls
<1>8. AuditOK'
  BY <1>1, <1>2, <1>3, <1>5, <1>6, <1>7 DEF AuditOK
<1>9. \A e \in audit' : e.id = Cardinality(audit') => e = new
  BY <1>1, <1>2, <1>3, <1>5, <1>6, <1>7
<1> QED
  BY <1>3, <1>8, <1>9 DEF new

LEMMA RefuseStep == ASSUME RagInv, NEW tool \in Tools, Refuse(tool) PROVE RagInv'
<1> DEFINE event == Audited(tool, FALSE, 0)
           reply == [event |-> event, found |-> {}, valid |-> FALSE]
<1>1. /\ procs[Server].pc = "up" /\ Cardinality(audit) < MaxCalls
      /\ audit' = audit \cup {event} /\ replies' = replies \cup {reply}
      /\ UNCHANGED <<disk, corpus, runs, meta, lock, clock, procs>>
  BY DEF Refuse, Accepting
<1>2. 0 \in 0..Cardinality(Sources)
  BY RagAssumption, FS_CardinalityType
<1>3. AuditOK' /\ event \in Event
  BY <1>1, <1>2, AuditGrows
<1>4. ~event.allowed
  BY DEF Audited
<1> HIDE DEF event
<1>5. reply \in Answer
  BY <1>3 DEF Answer, Found
<1>6. AnswersOK'
  <2>1. ASSUME NEW r \in replies'
        PROVE  /\ r \in Answer /\ r.event \in audit'
               /\ r.event.allowed => r.event.count = Cardinality(r.found)
               /\ r.found # {} =>
                    \E x \in runs : x.passed /\ \A f \in r.found : f[2].at = x.at
    <3>1. CASE r \in replies
      BY <1>1, <3>1 DEF RagInv, AnswersOK, AnswerAccounted
    <3>2. CASE r = reply
      BY <1>1, <1>4, <1>5, <3>2
    <3> QED
      BY <1>1, <2>1, <3>1, <3>2
  <2> QED
    BY <1>1, <2>1 DEF AnswersOK, AnswerAccounted
<1>7. DiskOK' /\ ProcsOK' /\ LockOK' /\ StoreOK' /\ ServedOK(procs[Server])'
  BY <1>1 DEF RagInv, DiskOK, ProcsOK, LockOK, StoreOK, CorpusWhole, ServedOK
<1>8. CallOK(procs[Server])'
  BY <1>1 DEF CallOK, InCall, Seeding
<1> QED
  BY <1>3, <1>6, <1>7, <1>8 DEF RagInv

LEMMA AppendStep == ASSUME RagInv, Append PROVE RagInv'
<1> DEFINE server == procs[Server]
           count == Cardinality(server.found)
           event == Audited(server.why, TRUE, count)
           new == [server EXCEPT !.pc = "reply"]
<1>1. /\ server.pc = "audit" /\ lock.owner = Nobody /\ audit' = audit \cup {event}
      /\ UNCHANGED <<disk, corpus, runs, meta, lock, clock, replies>>
  BY DEF Append
<1>2. server \in Process /\ procs' = [procs EXCEPT ![Server] = new]
  BY ServerProcess, ProcOK DEF Append
<1>3. /\ server.why \in Tools /\ Cardinality(audit) < MaxCalls
      /\ count \in 0..Cardinality(Sources) /\ OfOneRun(server.found)
  BY <1>1 DEF RagInv, CallOK, InCall
<1>4. AuditOK' /\ \A e \in audit' : e.id = Cardinality(audit') => e = event
  BY <1>1, <1>3, AuditGrows
<1>5. event.allowed /\ event.count = count
  BY DEF Audited
<1> HIDE DEF event
<1>6. new \in Process /\ new.pc = "reply" /\ new.found = server.found
  BY <1>2 DEF Process
<1> HIDE DEF new
<1>7. procs'[Server] = new /\ \A q \in Processes \ {Server} : procs'[q] = procs[q]
  BY <1>2, ServerProcess DEF RagInv, ProcsOK
<1>8. ProcsOK'
  BY <1>2, <1>6, <1>7 DEF RagInv, ProcsOK, SeedOK, Seeding
<1>9. LockOK'
  BY <1>1 DEF RagInv, LockOK
<1>10. DiskOK' /\ StoreOK' /\ AnswersOK'
  BY <1>1 DEF RagInv, DiskOK, StoreOK, CorpusWhole, AnswersOK, AnswerAccounted
<1>11. ServedOK(procs[Server])'
  BY <1>1, UpServed DEF ServedOK
<1>12. CallOK(procs[Server])'
  BY <1>1, <1>3, <1>4, <1>5, <1>6, <1>7 DEF CallOK, InCall, Seeding, OfOneRun
<1> QED
  BY <1>4, <1>8, <1>9, <1>10, <1>11, <1>12 DEF RagInv

LEMMA ReplyStep == ASSUME RagInv, Reply PROVE RagInv'
<1> DEFINE server == procs[Server]
           new == [Down EXCEPT !.pc = "up", !.checked = server.checked]
<1>1. PICK event \in audit :
        /\ event.id = Cardinality(audit)
        /\ replies' = replies \cup {[event |-> event, found |-> server.found,
                                     valid |-> server.valid]}
  BY DEF Reply
<1> DEFINE reply == [event |-> event, found |-> server.found, valid |-> server.valid]
<1>2. /\ server.pc = "reply" /\ procs' = [procs EXCEPT ![Server] = new]
      /\ UNCHANGED <<disk, corpus, runs, meta, lock, clock, audit>>
  BY DEF Reply
<1>3. server \in Process
  BY ServerProcess, ProcOK
<1>4. reply \in Answer
  BY <1>1, <1>3 DEF Answer, Process, RagInv, AuditOK
<1>5. event.count = Cardinality(server.found) /\ OfOneRun(server.found)
  BY <1>1, <1>2 DEF RagInv, CallOK
<1>6. AnswersOK'
  <2>1. ASSUME NEW r \in replies'
        PROVE  /\ r \in Answer /\ r.event \in audit
               /\ r.event.allowed => r.event.count = Cardinality(r.found)
               /\ r.found # {} =>
                    \E x \in runs : x.passed /\ \A f \in r.found : f[2].at = x.at
    <3>1. CASE r \in replies
      BY <3>1 DEF RagInv, AnswersOK, AnswerAccounted
    <3>2. CASE r = reply
      BY <1>1, <1>4, <1>5, <3>2 DEF OfOneRun
    <3> QED
      BY <1>1, <2>1, <3>1, <3>2
  <2> QED
    BY <1>2, <2>1 DEF AnswersOK, AnswerAccounted
<1>7. new \in Process /\ new.pc = "up"
  BY <1>3, DownProcess DEF Process
<1> HIDE DEF new
<1>8. procs'[Server] = new /\ \A q \in Processes \ {Server} : procs'[q] = procs[q]
  BY <1>2, ServerProcess DEF RagInv, ProcsOK
<1>9. ProcsOK'
  BY <1>2, <1>7, <1>8 DEF RagInv, ProcsOK, SeedOK, Seeding
<1>10. lock.owner # Server
  BY <1>2, ServerProcess, ProcOK
<1>11. LockOK'
  BY <1>2, <1>8, <1>10 DEF RagInv, LockOK
<1>12. DiskOK' /\ StoreOK' /\ AuditOK'
  BY <1>2 DEF RagInv, DiskOK, StoreOK, CorpusWhole, AuditOK
<1>13. ServedOK(procs[Server])' /\ CallOK(procs[Server])'
  BY <1>2, <1>7, <1>8, UpServed DEF ServedOK, CallOK, InCall, Seeding
<1> QED
  BY <1>6, <1>9, <1>11, <1>12, <1>13 DEF RagInv

-----------------------------------------------------------------------------
(* The specification.                                                      *)

LEMMA EditStep == ASSUME RagInv, EditDisk PROVE RagInv'
<1>1. UNCHANGED <<corpus, runs, meta, lock, clock, procs, audit, replies>>
  BY DEF EditDisk, EditFile, EditManifest
<1>2. DiskOK'
  <2>1. ASSUME NEW s \in Sources, EditFile(s) PROVE DiskOK'
    <3>1. PICK dataset, content \in Revisions, accepted \in BOOLEAN :
            disk' = [disk EXCEPT !.edits = @ + 1,
                        !.files[s] = [dataset |-> dataset, content |-> content,
                                      accepted |-> accepted]]
      BY <2>1 DEF EditFile
    <3>2. disk.edits + 1 \in 0..MaxFileEdits
      BY <2>1, RagAssumption DEF EditFile, RagInv, DiskOK
    <3> DEFINE file == [dataset |-> dataset, content |-> content, accepted |-> accepted]
    <3>3. file \in [dataset : Revisions, content : Revisions, accepted : BOOLEAN]
      OBVIOUS
    <3> HIDE DEF file
    <3>4. disk' = [disk EXCEPT !.edits = disk.edits + 1,
                               !.files = [disk.files EXCEPT ![s] = file]]
      BY <3>1 DEF RagInv, DiskOK, file
    <3> QED
      BY <3>2, <3>3, <3>4 DEF RagInv, DiskOK
  <2>2. ASSUME EditManifest PROVE DiskOK'
    <3>1. PICK dataset \in Revisions, listed \in (SUBSET Sources) \ {{}} :
            disk' = [disk EXCEPT !.edits = @ + 1, !.dataset = dataset, !.listed = listed]
      BY <2>2 DEF EditManifest
    <3>2. disk.edits + 1 \in 0..MaxFileEdits
      BY <2>2, RagAssumption DEF EditManifest, RagInv, DiskOK
    <3> QED
      BY <3>1, <3>2 DEF RagInv, DiskOK
  <2> QED
    BY <2>1, <2>2 DEF EditDisk
<1> QED
  BY <1>1, <1>2 DEF RagInv, ProcsOK, LockOK, StoreOK, CorpusWhole, ServedOK, CallOK,
     OfOneRun, AuditOK, AnswersOK, AnswerAccounted

LEMMA InitRagInv == RagInit => RagInv
<1> SUFFICES ASSUME RagInit PROVE RagInv
  OBVIOUS
<1>1. 1 \in Revisions /\ 0 \in 0..MaxFileEdits /\ 0 \in 0..MaxRuns /\ 0 \in 0..MaxRevision
  BY RagAssumption DEF Revisions
<1>2. DiskOK
  BY <1>1, RagAssumption DEF RagInit, DiskOK
<1>3. ProcsOK
  BY DownProcess DEF RagInit, ProcsOK
<1>4. LockOK
  BY UnlockedType DEF RagInit, LockOK, Unlocked
<1>5. StoreOK
  BY <1>1, NoSources DEF RagInit, StoreOK, CorpusWhole
<1>6. AuditOK /\ AnswersOK
  BY FS_EmptySet DEF RagInit, AuditOK, AnswersOK, AnswerAccounted
<1>7. procs[Server].pc = "down"
  BY ServerProcess DEF RagInit, Down
<1> QED
  BY <1>2, <1>3, <1>4, <1>5, <1>6, <1>7
  DEF RagInv, ServedOK, Serving, CallOK, InCall, Seeding

LEMMA NextRagInv == RagInv /\ [RagNext]_ragVars => RagInv'
<1> SUFFICES ASSUME RagInv, [RagNext]_ragVars PROVE RagInv'
  OBVIOUS
<1>1. ASSUME Seed PROVE RagInv'
  BY <1>1, StartStep, BuildStep, StampStep, LockStep, BusyStep, UpsertSourceStep,
     CommitStep, RecordFailureStep, DieStep DEF Seed
<1>2. ASSUME Serve PROVE RagInv'
  BY <1>2, RefuseStep, HealthStep, CallStep, ReadsStep, AppendStep, ReplyStep DEF Serve
<1>3. CASE UNCHANGED ragVars
  BY <1>3 DEF ragVars, RagInv, DiskOK, ProcsOK, LockOK, StoreOK, CorpusWhole, ServedOK,
     CallOK, OfOneRun, AuditOK, AnswersOK, AnswerAccounted
<1> QED
  BY <1>1, <1>2, <1>3, EditStep DEF RagNext

-----------------------------------------------------------------------------
(* The planes share no step, so each behaves as on its own.                *)

LEMMA PlaneInvariant == PlaneSpec => [](LocalInv /\ RagInv /\ provider \in {"local", "mcp"})
<1>1. PlaneInit => LocalInv /\ RagInv /\ provider \in {"local", "mcp"}
  BY InitLocalInv, InitRagInv DEF PlaneInit
<1>2. [PlaneNext]_planeVars
        => [KnowledgeNext]_kbVars /\ [RagNext]_ragVars /\ provider' = provider
  BY DEF PlaneNext, planeVars
<1>3. /\ LocalInv /\ RagInv /\ provider \in {"local", "mcp"}
      /\ [PlaneNext]_planeVars
      => (LocalInv /\ RagInv /\ provider \in {"local", "mcp"})'
  BY <1>2, NextLocalInv, NextRagInv
<1> QED
  BY <1>1, <1>3, PTL DEF PlaneSpec

(* The tables of both planes keep their types, whichever serves.           *)
THEOREM PlaneTypesKept == PlaneSpec => []PlaneTypeOK
BY PlaneInvariant, LocalTypes, InvTypes, PTL DEF PlaneTypeOK

(* However requests, uploads and seeding interleave, a version is marked   *)
(* superseded only while the version after it is stored, so the newest one *)
(* of an entry is not (employee_router.py, the PATCH).                     *)
THEOREM NewestStaysCurrent == PlaneSpec => []NewestCurrent
<1>1. LocalInv => NewestCurrent
  BY DEF LocalInv, KInv
<1> QED
  BY <1>1, PlaneInvariant, PTL

(* A grounding pack that holds two texts of one entry, read before and     *)
(* after an edit or by its version, discloses the conflict to the agent.   *)
THEOREM ConflictsDisclosed == PlaneSpec => []ConflictDisclosed
BY PlaneInvariant, LocalDiscloses, PTL

(* However seeds overlap, fail or die, what is served is the whole of one  *)
(* passed run, and the one the metadata names (store.py, replace_corpus).  *)
THEOREM PublicationWhole == PlaneSpec => []PublishedWhole
BY PlaneInvariant, InvWhole, PTL

(* Every answer has its record in the audit, with the number of packages   *)
(* it draws on, and they are of one passed run (service.py, the tools).    *)
THEOREM AnswersAccounted == PlaneSpec => []AnswerAccounted
BY PlaneInvariant, InvAnswers, PTL
=============================================================================
