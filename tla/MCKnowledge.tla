--------------------------- MODULE MCKnowledge ---------------------------
EXTENDS KnowledgePlane, TLC
CONSTANTS rule, note, page, a, b
MCSlot == [e \in Entries |-> IF e = page THEN 2 ELSE 1]
\* A new text, a retirement with an end date, a new text for a retired entry.
MCBodies ==
    {[text |-> b, until |-> None, quarantined |-> None],
     [text |-> None, until |-> 0, quarantined |-> TRUE],
     [text |-> a, until |-> None, quarantined |-> FALSE]}
Symmetry == Permutations(Editors)
=============================================================================
