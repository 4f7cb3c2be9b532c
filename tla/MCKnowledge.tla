---------------------------- MODULE MCKnowledge ----------------------------
(***************************************************************************)
(* An instance of KnowledgeBase for TLC.                                   *)
(***************************************************************************)
EXTENDS KnowledgeBase, TLC

CONSTANTS s1, s2, p1, p2, w1, w2

MCKeys == Sources \X TaskTypes
MCChunkCount == s1 :> 1 @@ s2 :> 2

\* A first upload whose parse is disturbed; one whose worker stalls over a
\* commit that went unanswered; one whose file is removed, or asked for again,
\* while it is parsed; one whose file is removed and comes back while it is
\* parsed; a page over two files that change; two pages over two files, of which
\* one changes while something fails and a connection is lost; and a page that is
\* written for one file from what another page cites of the other.
NoWiki == p1 :> {} @@ p2 :> {}
Nothing == [files |-> {}, edits |-> s1 :> 0 @@ s2 :> 0, asks |-> Sources,
            faults |-> 0, drops |-> 0, wiki |-> NoWiki, pages |-> {}]
Disturbed == [Nothing EXCEPT !.edits[s2] = 1, !.faults = 1]
Unanswered == [Nothing EXCEPT !.edits[s1] = 1, !.faults = 2]
Asked == [Nothing EXCEPT !.edits[s2] = 2]
Returning == [Nothing EXCEPT !.edits[s2] = 3, !.asks = {}]
TwoFiles == [Nothing EXCEPT !.files = {s1, s2}, !.wiki[p1] = {s1, s2},
                            !.pages = {p1}, !.edits = s1 :> 1 @@ s2 :> 1]
Dropping == [Nothing EXCEPT !.files = {s1, s2}, !.pages = {p1, p2},
                            !.wiki = p1 :> {s1, s2} @@ p2 :> {s1, s2},
                            !.edits[s1] = 1, !.faults = 1, !.drops = 1]
NewPage == [TwoFiles EXCEPT !.wiki[p1] = {s2}, !.pages = {p2}]
MCStarts ==
    {Disturbed, Unanswered, Asked, Returning, TwoFiles, Dropping, NewPage}

AnyWorker == Permutations(Workers)
=============================================================================
