------------------------- MODULE MCKnowledgeSearch -------------------------
(***************************************************************************)
(* An instance of KnowledgeSearch for TLC: one file of one chunk.          *)
(***************************************************************************)
EXTENDS KnowledgeSearch, TLC

CONSTANTS s1, p1, w1, x1, x2, q1

MCKeys == Sources \X TaskTypes
MCChunkCount == s1 :> 1

\* A file that is uploaded while something fails, and one that is there, with
\* its index, and is removed or described, perhaps over a connection that drops.
NewFile == [files |-> {}, edits |-> s1 :> 1, asks |-> {s1},
            faults |-> 1, drops |-> 0, wiki |-> p1 :> {}, pages |-> Pages]
OldFile == [files |-> {s1}, edits |-> s1 :> 1, asks |-> {s1},
            faults |-> 0, drops |-> 1, wiki |-> p1 :> {s1}, pages |-> Pages]
MCStarts == {NewFile, OldFile}
=============================================================================
