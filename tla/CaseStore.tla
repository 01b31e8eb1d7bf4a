------------------------------ MODULE CaseStore ------------------------------
(***************************************************************************)
(* V2Repository's versioned case row and hash-chained audit log.           *)
(*                                                                         *)
(* save_case and append_audit are each one transaction of two statements:  *)
(* a SELECT, and an INSERT or UPDATE that relies on what it returned.  A   *)
(* transaction open between its statements is kept in txn.  Every instance *)
(* of V2Repository holds its own RLock across both statements.  The        *)
(* routers build a new instance for each call unless one was passed to     *)
(* create_router(repository=...): SharedRepository says which.             *)
(*                                                                         *)
(* An audit event is named by its place in the log and stored as the place *)
(* its prev_hash names (0 for GENESIS); event hashes never collide.        *)
(***************************************************************************)
EXTENDS Naturals, Sequences

CONSTANTS
    Requests,           \* requests being handled; one thread or task each
    Contents,           \* what state_json may hold
    NoContent,          \* no row
    SharedRepository,   \* do all requests go through one V2Repository?
    MaxVersion,         \* bound: saves of the row
    MaxEvents           \* bound: events in the log

ASSUME StoreAssumption ==
    /\ SharedRepository \in BOOLEAN
    /\ MaxVersion \in Nat
    /\ MaxEvents \in Nat

VARIABLES
    row,        \* the case's row of "cases"; version 0 when there is none
    chain,      \* "audit_events" of the case
    txn         \* each request's open transaction

storeVars == <<row, chain, txn>>

NoTxn == [kind |-> "none", base |-> 0, content |-> NoContent, tail |-> 0]

SaveTxn(base, content) ==
    [kind |-> "save", base |-> base, content |-> content, tail |-> 0]

AuditTxn(tail) ==
    [kind |-> "audit", base |-> 0, content |-> NoContent, tail |-> tail]

StoreTypeOK ==
    /\ row \in [version : Nat, content : Contents \cup {NoContent}]
    /\ chain \in Seq(Nat)
    /\ txn \in [Requests -> [kind    : {"none", "save", "audit"},
                             base    : Nat,
                             content : Contents \cup {NoContent},
                             tail    : Nat]]
    /\ \A r \in Requests : txn[r].kind = "save" => txn[r].content \in Contents

StoreInit ==
    /\ row = [version |-> 0, content |-> NoContent]
    /\ chain = <<>>
    /\ txn = [r \in Requests |-> NoTxn]

Idle(r) == txn[r].kind = "none"

\* Mutant: the statements run without the lock.
LockFreeNever == TRUE

\* "with self._lock": no other transaction of the same instance is open.
LockFree == SharedRepository => \A q \in Requests : Idle(q)

-----------------------------------------------------------------------------
(* save_case(state, expected_version=base)                                 *)

\* Mutant: expected_version is not compared.
SaveSelectUnchecked(r, base, content) ==
    /\ LockFree
    /\ Idle(r)
    /\ txn' = [txn EXCEPT ![r] = SaveTxn(base, content)]
    /\ UNCHANGED <<row, chain>>

\* SELECT version, and the comparison with expected_version that follows.
SaveSelect(r, base, content) ==
    /\ LockFree
    /\ Idle(r)
    /\ base = row.version
    /\ txn' = [txn EXCEPT ![r] = SaveTxn(base, content)]
    /\ UNCHANGED <<row, chain>>

\* StateConflictError: the SELECT found another version.
SaveRefused(r, base) ==
    /\ LockFree
    /\ Idle(r)
    /\ base # row.version
    /\ UNCHANGED storeVars

\* Mutant: the version is not incremented.
SaveUpdateSameVersion(r) ==
    /\ txn[r].kind = "save" /\ txn[r].base > 0
    /\ row' = [version |-> txn[r].base, content |-> txn[r].content]
    /\ txn' = [txn EXCEPT ![r] = NoTxn]
    /\ UNCHANGED chain

\* UPDATE ... WHERE case_id = ?: the version is not part of the condition.
SaveUpdate(r) ==
    /\ txn[r].kind = "save" /\ txn[r].base > 0
    /\ row' = [version |-> txn[r].base + 1, content |-> txn[r].content]
    /\ txn' = [txn EXCEPT ![r] = NoTxn]
    /\ UNCHANGED chain

\* INSERT: the primary key lets only the first one in.
SaveInsert(r) ==
    /\ txn[r].kind = "save" /\ txn[r].base = 0
    /\ row.version = 0
    /\ row' = [version |-> 1, content |-> txn[r].content]
    /\ txn' = [txn EXCEPT ![r] = NoTxn]
    /\ UNCHANGED chain

\* The key exists (IntegrityError), or the connection fails: nothing is kept.
Rollback(r) ==
    /\ ~Idle(r)
    /\ txn' = [txn EXCEPT ![r] = NoTxn]
    /\ UNCHANGED <<row, chain>>

-----------------------------------------------------------------------------
(* append_audit and verify_audit_chain                                     *)

\* SELECT event_hash ... ORDER BY sequence DESC LIMIT 1.
AuditSelect(r) ==
    /\ LockFree
    /\ Idle(r)
    /\ Len(chain) < MaxEvents
    /\ txn' = [txn EXCEPT ![r] = AuditTxn(Len(chain))]
    /\ UNCHANGED <<row, chain>>

AuditInsert(r) ==
    /\ txn[r].kind = "audit"
    /\ chain' = Append(chain, txn[r].tail)
    /\ txn' = [txn EXCEPT ![r] = NoTxn]
    /\ UNCHANGED row

VerifyAuditChain == \A i \in DOMAIN chain : chain[i] = i - 1

-----------------------------------------------------------------------------
(* Any client: a save may bring any content and any expected version.      *)

StoreNext ==
    \E r \in Requests :
        \/ \E base \in 0..MaxVersion, c \in Contents :
              base < MaxVersion /\ SaveSelect(r, base, c)
        \/ \E base \in 0..MaxVersion : SaveRefused(r, base)
        \/ SaveUpdate(r)
        \/ SaveInsert(r)
        \/ AuditSelect(r)
        \/ AuditInsert(r)
        \/ Rollback(r)

StoreSpec == StoreInit /\ [][StoreNext]_storeVars

-----------------------------------------------------------------------------
(* Properties                                                              *)

\* "Case state optimistic locking by version" (plan_v2/13, section 2): a save
\* replaces exactly the version its expected_version named, so nothing another
\* request wrote in between is overwritten, and the version grows by one.
NoLostUpdate ==
    [][row' # row =>
        \E r \in Requests :
            /\ txn[r].kind = "save"
            /\ txn[r].base = row.version
            /\ row' = [version |-> row.version + 1, content |-> txn[r].content]]_storeVars

\* "hash-chained audit" (repository.py:1): verify_audit_chain never fails on
\* a log that only append_audit wrote.
ChainIntact == VerifyAuditChain

\* With one instance for all, the two-statement transactions of save_case and
\* append_audit look atomic: the store implements CaseLedger's compare-and-set
\* row and chained log.
Ledger == INSTANCE CaseLedger
ImplementsLedger == Ledger!LedgerSpec
=============================================================================
