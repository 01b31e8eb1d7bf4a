------------------------------ MODULE CaseLedger ------------------------------
(***************************************************************************)
(* What V2Repository promises its callers: a case whose every save is an   *)
(* atomic compare-and-set on its version, and a log whose every event is   *)
(* chained to the one before it.                                           *)
(***************************************************************************)
EXTENDS Naturals, Sequences

CONSTANTS
    Contents,       \* what a case may hold
    NoContent       \* there is no case yet

VARIABLES
    row,            \* the case: [version, content]
    chain           \* the log: each event's predecessor, 0 for none

LedgerInit ==
    /\ row = [version |-> 0, content |-> NoContent]
    /\ chain = <<>>

\* The caller read the present version, and its content becomes the next one.
Save(content) ==
    /\ row' = [version |-> row.version + 1, content |-> content]
    /\ UNCHANGED chain

Record ==
    /\ chain' = Append(chain, Len(chain))
    /\ UNCHANGED row

LedgerNext == (\E c \in Contents : Save(c)) \/ Record

LedgerSpec == LedgerInit /\ [][LedgerNext]_<<row, chain>>
=============================================================================
