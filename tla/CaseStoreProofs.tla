--------------------------- MODULE CaseStoreProofs ---------------------------
(***************************************************************************)
(* Type correctness of the store for any set of requests, and, when all    *)
(* requests share one V2Repository, what its lock buys: the version check  *)
(* holds until the write, the audit chain is never forked, and the store   *)
(* implements CaseLedger.                                                  *)
(***************************************************************************)
EXTENDS CaseStore, TLAPS

\* The types of CaseStore's variables, whoever shares a repository instance.
THEOREM StoreTypeCorrect == StoreSpec => []StoreTypeOK
<1>1. StoreInit => StoreTypeOK
  BY DEF StoreInit, StoreTypeOK, NoTxn
<1>2. StoreTypeOK /\ [StoreNext]_storeVars => StoreTypeOK'
  <2> SUFFICES ASSUME StoreTypeOK, [StoreNext]_storeVars
               PROVE  StoreTypeOK'
    OBVIOUS
  <2> USE DEF StoreTypeOK
  <2>1. ASSUME NEW r \in Requests, NEW base \in 0..MaxVersion, NEW c \in Contents,
               SaveSelect(r, base, c)
        PROVE  StoreTypeOK'
    BY <2>1, StoreAssumption DEF SaveSelect, SaveTxn
  <2>2. ASSUME NEW r \in Requests, SaveUpdate(r) PROVE StoreTypeOK'
    BY <2>2 DEF SaveUpdate, NoTxn
  <2>3. ASSUME NEW r \in Requests, SaveInsert(r) PROVE StoreTypeOK'
    BY <2>3 DEF SaveInsert, NoTxn
  <2>4. ASSUME NEW r \in Requests, AuditSelect(r) PROVE StoreTypeOK'
    BY <2>4 DEF AuditSelect, AuditTxn
  <2>5. ASSUME NEW r \in Requests, AuditInsert(r) PROVE StoreTypeOK'
    BY <2>5 DEF AuditInsert, NoTxn
  <2>6. ASSUME NEW r \in Requests, Rollback(r) PROVE StoreTypeOK'
    BY <2>6 DEF Rollback, NoTxn
  <2>7. CASE UNCHANGED storeVars
    BY <2>7 DEF storeVars
  <2>8. ASSUME NEW r \in Requests, NEW base \in 0..MaxVersion, SaveRefused(r, base)
        PROVE  StoreTypeOK'
    BY <2>8 DEF SaveRefused, storeVars
  <2> QED
    BY <2>1, <2>2, <2>3, <2>4, <2>5, <2>6, <2>7, <2>8 DEF StoreNext
<1> QED
  BY <1>1, <1>2, PTL DEF StoreSpec

-----------------------------------------------------------------------------
(* One instance for all requests                                           *)

\* What a transaction has SELECTed stays true until its INSERT or UPDATE: it is
\* alone, the version it compared is still the row's, and the tail it read is
\* still the log's.
LockDiscipline ==
    /\ \A q, r \in Requests : ~Idle(q) /\ ~Idle(r) => q = r
    /\ \A r \in Requests :
          /\ txn[r].kind = "save"  => txn[r].base = row.version
          /\ txn[r].kind = "audit" => txn[r].tail = Len(chain)

\* LockDiscipline carries ChainIntact: an event is chained to the tail its
\* SELECT saw, so the tail must not have moved.
IInv == StoreTypeOK /\ LockDiscipline /\ ChainIntact

\* The lock makes IInv inductive.
THEOREM SharedInvariant ==
    ASSUME SharedRepository
    PROVE  StoreSpec => []IInv
<1>1. StoreInit => IInv
  BY DEF StoreInit, IInv, StoreTypeOK, LockDiscipline, ChainIntact,
         VerifyAuditChain, Idle, NoTxn
<1>2. IInv /\ [StoreNext]_storeVars => LockDiscipline' /\ ChainIntact'
  <2> SUFFICES ASSUME IInv, [StoreNext]_storeVars
               PROVE  LockDiscipline' /\ ChainIntact'
    OBVIOUS
  <2> USE DEF IInv, StoreTypeOK, LockDiscipline, ChainIntact,
              VerifyAuditChain, Idle
  <2>1. ASSUME NEW r \in Requests, NEW base \in 0..MaxVersion, NEW c \in Contents,
               SaveSelect(r, base, c)
        PROVE  LockDiscipline' /\ ChainIntact'
    BY <2>1 DEF SaveSelect, SaveTxn, LockFree
  <2>2. ASSUME NEW r \in Requests, SaveUpdate(r)
        PROVE  LockDiscipline' /\ ChainIntact'
    BY <2>2 DEF SaveUpdate, NoTxn
  <2>3. ASSUME NEW r \in Requests, SaveInsert(r)
        PROVE  LockDiscipline' /\ ChainIntact'
    BY <2>3 DEF SaveInsert, NoTxn
  <2>4. ASSUME NEW r \in Requests, AuditSelect(r)
        PROVE  LockDiscipline' /\ ChainIntact'
    BY <2>4 DEF AuditSelect, AuditTxn, LockFree
  <2>5. ASSUME NEW r \in Requests, AuditInsert(r)
        PROVE  LockDiscipline' /\ ChainIntact'
    <3>1. LockDiscipline'
      BY <2>5 DEF AuditInsert, NoTxn
    <3>2. chain' = Append(chain, Len(chain))
      BY <2>5 DEF AuditInsert
    <3>3. ChainIntact'
      BY <3>2
    <3> QED
      BY <3>1, <3>3
  <2>6. ASSUME NEW r \in Requests, Rollback(r)
        PROVE  LockDiscipline' /\ ChainIntact'
    BY <2>6 DEF Rollback, NoTxn
  <2>7. CASE UNCHANGED storeVars
    BY <2>7 DEF storeVars
  <2>8. ASSUME NEW r \in Requests, NEW base \in 0..MaxVersion, SaveRefused(r, base)
        PROVE  LockDiscipline' /\ ChainIntact'
    BY <2>8 DEF SaveRefused, storeVars
  <2> QED
    BY <2>1, <2>2, <2>3, <2>4, <2>5, <2>6, <2>7, <2>8 DEF StoreNext
<1>3. StoreSpec => []StoreTypeOK
  BY StoreTypeCorrect
<1>4. StoreTypeOK' /\ LockDiscipline' /\ ChainIntact' => IInv'
  BY DEF IInv
<1> QED
  BY <1>1, <1>2, <1>3, <1>4, PTL DEF StoreSpec

\* verify_audit_chain succeeds in every state.
THEOREM ChainNeverForked ==
    ASSUME SharedRepository
    PROVE  StoreSpec => []ChainIntact
<1>1. IInv => ChainIntact
  BY DEF IInv
<1> QED
  BY <1>1, SharedInvariant, PTL

\* What a transaction has SELECTed is still true when it writes.
THEOREM SelectedStaysTrue ==
    ASSUME SharedRepository
    PROVE  StoreSpec => []LockDiscipline
<1>1. IInv => LockDiscipline
  BY DEF IInv
<1> QED
  BY <1>1, SharedInvariant, PTL

\* Every save replaces exactly the version its caller had read.
THEOREM SavesNeverLost ==
    ASSUME SharedRepository
    PROVE  StoreSpec => NoLostUpdate
<1>1. IInv /\ [StoreNext]_storeVars =>
        [row' # row =>
            \E r \in Requests :
                /\ txn[r].kind = "save"
                /\ txn[r].base = row.version
                /\ row' = [version |-> row.version + 1,
                           content |-> txn[r].content]]_storeVars
  <2> SUFFICES ASSUME IInv, StoreNext, row' # row
               PROVE  \E r \in Requests :
                        /\ txn[r].kind = "save"
                        /\ txn[r].base = row.version
                        /\ row' = [version |-> row.version + 1,
                                   content |-> txn[r].content]
    BY DEF storeVars
  <2>1. PICK r \in Requests : SaveUpdate(r) \/ SaveInsert(r)
    BY DEF StoreNext, SaveSelect, SaveRefused, AuditSelect, AuditInsert,
           Rollback, storeVars
  <2>2. txn[r].kind = "save" /\ txn[r].base = row.version
    BY <2>1 DEF IInv, LockDiscipline, SaveUpdate, SaveInsert
  <2>3. row' = [version |-> row.version + 1, content |-> txn[r].content]
    BY <2>1, <2>2 DEF SaveUpdate, SaveInsert
  <2> QED
    BY <2>2, <2>3
<1> QED
  BY <1>1, SharedInvariant, PTL DEF StoreSpec, NoLostUpdate

\* The store is a CaseLedger: each of its steps is one of the ledger's, or
\* changes nothing the ledger's callers see.
THEOREM StoreImplementsLedger ==
    ASSUME SharedRepository
    PROVE  StoreSpec => ImplementsLedger
<1>1. StoreInit => Ledger!LedgerInit
  BY DEF StoreInit, Ledger!LedgerInit
<1>2. IInv /\ [StoreNext]_storeVars => [Ledger!LedgerNext]_<<row, chain>>
  <2> SUFFICES ASSUME IInv, [StoreNext]_storeVars,
                      ~ UNCHANGED <<row, chain>>
               PROVE  Ledger!LedgerNext
    OBVIOUS
  <2> USE DEF IInv, LockDiscipline, StoreTypeOK
  <2>1. ASSUME NEW r \in Requests, SaveUpdate(r) \/ SaveInsert(r)
        PROVE  Ledger!LedgerNext
    <3>1. /\ row' = [version |-> row.version + 1, content |-> txn[r].content]
          /\ UNCHANGED chain
      BY <2>1 DEF SaveUpdate, SaveInsert
    <3>2. txn[r].content \in Contents
      BY <2>1 DEF SaveUpdate, SaveInsert
    <3> QED
      BY <3>1, <3>2 DEF Ledger!LedgerNext, Ledger!Save
  <2>2. ASSUME NEW r \in Requests, AuditInsert(r)
        PROVE  Ledger!LedgerNext
    BY <2>2 DEF AuditInsert, Ledger!LedgerNext, Ledger!Record
  <2> QED
    BY <2>1, <2>2 DEF StoreNext, SaveSelect, SaveRefused, AuditSelect,
                      Rollback, storeVars
<1> QED
  BY <1>1, <1>2, SharedInvariant, PTL DEF StoreSpec, ImplementsLedger, Ledger!LedgerSpec
=============================================================================
