--------------------------- MODULE KnowledgeBase ---------------------------
(***************************************************************************)
(* One user's knowledge base and the knowledge workers that maintain it:   *)
(* the evidence, wiki and document tables of knowledge_store.cpp, the task *)
(* loop of knowledge_worker.cpp and WikiCompiler::Compile, over the queue  *)
(* of KnowledgeQueue and under a user who uploads and removes files.       *)
(*                                                                         *)
(* A worker's pc is the next call it makes.  A method of KnowledgeStore is *)
(* one transaction or one autocommitted statement, hence one step, with    *)
(* two exceptions.  PublishWikiPatch looks at its citations without a lock *)
(* and commits later.  And the store connects again, without a word, when  *)
(* it finds its connection gone (knowledge_store.cpp:71): the transaction  *)
(* open until then is rolled back and the rest of its statements run one   *)
(* by one.  What lies between two calls (a download, an embedding, an LLM  *)
(* answer) is where other workers, the user and the clock take their steps.*)
(*                                                                         *)
(* Chunks are counted, not numbered, and a citation names the generation   *)
(* its chunk belongs to.  Only a page's current revision is kept: nothing  *)
(* reads a superseded one.  What the LLM answers is any patch that         *)
(* ParseAndValidateWikiPatch lets through, of at most one page.            *)
(***************************************************************************)
EXTENDS KnowledgeQueue, Sequences

CONSTANTS
    Sources,        \* digests of the user's files
    Pages,          \* wiki page keys
    ChunkCount,     \* chunks the text of each file is cut into
    MaxGen, MaxRev, \* bounds on generations and page revisions
    Starts          \* first states, and their bounds: the files already
                    \* there, how often the user may upload, remove or
                    \* describe each source, which of them the user describes,
                    \* how many crashes, stalls and lost answers and how many
                    \* lost connections there are, the sources each page cites
                    \* and the pages the LLM may write

Gens == 1..MaxGen
TaskTypes == {"parse_source", "delete_source", "compile_wiki", "repair_wiki"}
Evidence == Sources \X Gens

ASSUME BaseAssumption ==
    /\ Keys = Sources \X TaskTypes
    /\ MaxGen \in Nat \ {0}
    /\ MaxRev \in Nat \ {0}
    /\ \A start \in Starts : /\ start.files \subseteq Sources
                              /\ start.edits \in [Sources -> Nat]
                              /\ start.asks \subseteq Sources
                              /\ start.faults \in Nat
                              /\ start.drops \in Nat
                              /\ start.wiki \in [Pages -> SUBSET start.files]
                              /\ start.pages \subseteq Pages
    /\ ChunkCount \in [Sources -> Nat \ {0}]

VARIABLES
    relation, \* the user's rows of user_file_list, by digest
    doc,      \* knowledge_document
    evidence, \* knowledge_chunk and the chunks' knowledge_vector rows
    page,     \* llm_wiki_page with its current revision and citations
    work,     \* what each worker is doing
    budget,   \* edits and faults left, sources the user may describe and
              \* pages the LLM may write
    torn,     \* history: the sources and pages a transaction of whose lost its
              \* connection half way
    overtaken \* history: the evidence deleted while a patch that had just
              \* checked its citations was about to cite it

history == <<torn, overtaken>>
knowledge == <<relation, doc, evidence, page, history>>
vars == <<queue, knowledge, work, budget>>

NoDoc == [gen |-> 0, published |-> 0, evidence |-> "none", wiki |-> "none"]
NoGen == [state |-> "NONE", rows |-> 0, vectors |-> FALSE]
NoPage == [status |-> "none", rev |-> 0, cites |-> {}, stale |-> {}]
Idle == [pc |-> "idle", gen |-> 0, n |-> 0, page |-> {}, base |-> 0,
         cites |-> {}, more |-> FALSE, tx |-> "none", at |-> 0, mark |-> {}]

GenRow == [state : {"NONE", "STAGING", "PUBLISHED", "SUPERSEDED", "DELETED"},
           rows : Nat, vectors : BOOLEAN]
DocRow == [gen : 0..MaxGen, published : 0..MaxGen,
           evidence : {"none", "EXTRACTING", "READY", "FAILED", "DELETED"},
           wiki : {"none", "PENDING", "READY", "FAILED", "STALE"}]
PageRow == [status : {"none", "ACTIVE", "STALE", "RETIRED"}, rev : 0..MaxRev,
            cites : SUBSET Evidence, stale : SUBSET Evidence]

\* A knowledge base that has settled over the files uploaded so far: their
\* evidence is published and pages were written that cite it.
StartsFrom(start) ==
    /\ relation = start.files
    /\ doc = [s \in Sources |->
                IF s \in start.files
                THEN [gen |-> 1, published |-> 1, evidence |-> "READY",
                      wiki |-> "READY"]
                ELSE NoDoc]
    /\ evidence = [s \in Sources |-> [g \in Gens |->
                     IF s \in start.files /\ g = 1
                     THEN [state |-> "PUBLISHED", rows |-> ChunkCount[s],
                           vectors |-> TRUE]
                     ELSE NoGen]]
    /\ page = [p \in Pages |->
                 IF start.wiki[p] = {} THEN NoPage
                 ELSE [status |-> "ACTIVE", rev |-> 1,
                       cites |-> start.wiki[p] \X {1}, stale |-> {}]]
    /\ budget = [edits |-> start.edits, asks |-> start.asks,
                 faults |-> start.faults, drops |-> start.drops,
                 pages |-> start.pages]

Init ==
    /\ QInit
    /\ \E start \in Starts : StartsFrom(start)
    /\ work = [w \in Workers |-> Idle]
    /\ torn = {} /\ overtaken = {}

----------------------------------------------------------------------------
SourceOf(w) == task[claim[w].id].key[1]
TypeOf(w) == task[claim[w].id].key[2]
At(w, pc) == work[w].pc = pc
Goto(w, pc) == work' = [work EXCEPT ![w].pc = pc]

----------------------------------------------------------------------------
(* The user.                                                               *)

Edit(s) ==
    /\ budget.edits[s] > 0
    /\ budget' = [budget EXCEPT !.edits[s] = @ - 1]

Fault ==
    /\ budget.faults > 0
    /\ budget' = [budget EXCEPT !.faults = @ - 1]

Drop ==
    /\ budget.drops > 0
    /\ budget' = [budget EXCEPT !.drops = @ - 1]

\* BeginSourceRead holds a share lock on the source's relation until the
\* compiler has its answers, and the publication of its patch locks it again.
SourceLocked(s) ==
    \E w \in Workers :
        /\ At(w, "generate") \/ (At(w, "cite") /\ TypeOf(w) = "compile_wiki")
        /\ SourceOf(w) = s

\* A committed upload adds the relation and its parse task together.  The
\* transaction looks for a duplicate task first and commits later: UploadOpen
\* is the first half, and while it is open Describe may queue the same task.
UploadKnown(s) ==
    /\ Edit(s)
    /\ Duplicate(<<s, "parse_source">>)
    /\ relation' = relation \cup {s}
    /\ UNCHANGED <<queue, doc, evidence, page, history, work>>

UploadOpen(s) ==
    /\ Edit(s)
    /\ StageEnqueue(<<s, "parse_source">>)
    /\ UNCHANGED <<knowledge, work>>

UploadCommit(s) ==
    /\ CommitStaged(<<s, "parse_source">>)
    /\ relation' = relation \cup {s}
    /\ UNCHANGED <<doc, evidence, page, history, work, budget>>

UploadRollback(s) ==
    /\ DropStaged(<<s, "parse_source">>)
    /\ UNCHANGED <<knowledge, work, budget>>

RemoveFile(s) ==
    /\ Edit(s)
    /\ s \in relation
    /\ ~SourceLocked(s)
    /\ relation' = relation \ {s}
    /\ Enqueue(<<s, "delete_source">>)
    /\ UNCHANGED <<doc, evidence, page, history, work>>

\* The describe command asks for a file to be parsed again, or for one the user
\* does not have: the worker finds that out.
Describe(s) ==
    /\ Edit(s)
    /\ s \in budget.asks
    /\ Enqueue(<<s, "parse_source">>)
    /\ UNCHANGED <<knowledge, work>>

----------------------------------------------------------------------------
(* The worker loop.                                                        *)

FirstCall(type) ==
    CASE type = "parse_source"  -> "load"
      [] type = "delete_source" -> "delete"
      [] type = "compile_wiki"  -> "open"
      [] type = "repair_wiki"   -> "repair"

Pick(w) ==
    /\ At(w, "idle")
    /\ ClaimTask(w)
    /\ work' = [work EXCEPT ![w].pc =
                  FirstCall(task[claim'[w].id].key[2])]
    /\ UNCHANGED <<knowledge, budget>>

Rest(w) == work' = [work EXCEPT ![w] = Idle]

Finish(w) ==
    /\ At(w, "finish")
    /\ FinishTask(w)
    /\ Rest(w)
    /\ UNCHANGED <<knowledge, budget>>

Skip(w) ==
    /\ At(w, "skip")
    /\ SkipTask(w)
    /\ Rest(w)
    /\ UNCHANGED <<knowledge, budget>>

\* A wiki task that failed for good is also recorded in the document, by a
\* statement of its own: MarkWikiFailed.
Fail(w) ==
    /\ work[w].pc \in {"fail", "giveup"}
    /\ FailTask(w, At(w, "fail"))
    /\ LET lost == Fenced(w) /\ TypeOf(w) \in {"compile_wiki", "repair_wiki"}
                     /\ task'[claim[w].id].status = "failed"
       IN work' = [work EXCEPT ![w] =
                     IF lost THEN [Idle EXCEPT !.pc = "mark",
                                               !.mark = {SourceOf(w)}]
                             ELSE Idle]
    /\ UNCHANGED <<knowledge, budget>>

MarkWikiFailed(w) ==
    /\ At(w, "mark")
    /\ doc' = [s \in Sources |->
                 IF s \in work[w].mark /\ doc[s] # NoDoc
                 THEN [doc[s] EXCEPT !.wiki = "FAILED"] ELSE doc[s]]
    /\ Rest(w)
    /\ UNCHANGED <<queue, relation, evidence, page, history, budget>>

Crash(w) ==
    /\ Fault
    /\ Forget(w)
    /\ Rest(w)
    /\ UNCHANGED knowledge

\* A worker that still holds its claim stalls past the lease; the lease of
\* one that is gone runs out by itself.
Stall(w) ==
    /\ Fault
    /\ Fenced(w)
    /\ LeaseExpires(claim[w].id)
    /\ UNCHANGED <<knowledge, work>>

Abandoned(i) == \A w \in Workers : claim[w].id # i \/ ~Fenced(w)
LeaseRunsOut(i) ==
    /\ Abandoned(i)
    /\ LeaseExpires(i)
    /\ UNCHANGED <<knowledge, work, budget>>

BecomesDue(i) == RetryDue(i) /\ UNCHANGED <<knowledge, work, budget>>

RecoverRetry(w) ==
    /\ At(w, "idle")
    /\ \E i \in TaskIds : Lapsed(i) /\ task[i].retry < MaxRetry
    /\ RequeueExpired
    /\ UNCHANGED <<knowledge, work, budget>>

RecoverFail(w) ==
    /\ At(w, "idle")
    /\ \E i \in TaskIds : Exhausted(i)
    /\ FailExhausted
    /\ LET about(s, types) ==
             \E i \in TaskIds, t \in types :
                 Exhausted(i) /\ task[i].key = <<s, t>>
           failed(s) ==
             [doc[s] EXCEPT
                !.evidence = IF about(s, {"parse_source"}) THEN "FAILED" ELSE @,
                !.wiki = IF about(s, {"compile_wiki", "repair_wiki"})
                         THEN "FAILED" ELSE @]
       IN doc' = [s \in Sources |->
                    IF doc[s] = NoDoc THEN NoDoc ELSE failed(s)]
    /\ UNCHANGED <<relation, evidence, page, history, work, budget>>

----------------------------------------------------------------------------
(* parse_source: ProcessSource.                                            *)

\* What the file yields: chunks to embed, a reason to try again (download,
\* extraction, a lost lease), one not to (no API key), or nothing to parse.
\* The lease is renewed on the way, and looked at again by the next call.
LoadSource(w) ==
    /\ At(w, "load")
    /\ IF SourceOf(w) \in relation
       THEN \E pc \in {"begin", "fail", "giveup", "skip"} : Goto(w, pc)
       ELSE Goto(w, "lookup")
    /\ UNCHANGED <<queue, knowledge, budget>>

\* The second look, SourceRelationExists, decides whether to try again.
LookupSource(w) ==
    /\ At(w, "lookup")
    /\ Goto(w, IF SourceOf(w) \in relation THEN "fail" ELSE "giveup")
    /\ UNCHANGED <<queue, knowledge, budget>>

\* Mutant of NextGeneration: a retry writes over the generation it finds.
SameGeneration(s) == IF doc[s].gen = 0 THEN 1 ELSE doc[s].gen

NextGeneration(s) == doc[s].gen + 1

Extracting(row, g) ==
    [row EXCEPT !.gen = g, !.evidence = "EXTRACTING",
                !.wiki = IF row.wiki = "none" THEN "PENDING" ELSE row.wiki]

BeginEvidenceGeneration(w) ==
    LET s == SourceOf(w)
        g == NextGeneration(s)
    IN /\ At(w, "begin")
       /\ IF Fenced(w) /\ s \in relation
          THEN /\ g \in Gens
               /\ doc' = [doc EXCEPT ![s] = Extracting(doc[s], g)]
               /\ work' = [work EXCEPT ![w] =
                             [@ EXCEPT !.pc = "embed", !.gen = g, !.n = 0]]
          ELSE Goto(w, "fail") /\ UNCHANGED doc
       /\ UNCHANGED <<queue, relation, evidence, page, history, budget>>

\* RenewTask and the embedding of the next chunk.
EmbedChunk(w) ==
    /\ At(w, "embed")
    /\ work[w].n < ChunkCount[SourceOf(w)]
    /\ \/ Fenced(w) /\ Goto(w, "put")
       \/ Goto(w, "abort")
    /\ UNCHANGED <<queue, knowledge, budget>>

Staged(row) ==
    [state |-> "STAGING",
     rows |-> IF row.state = "STAGING" THEN row.rows + 1 ELSE 1,
     vectors |-> TRUE]

Stepped(row) == [row EXCEPT !.pc = "embed", !.n = row.n + 1]

\* PutStagingChunk and PutVector: no fence, the lease may be gone by now.
PutChunk(w) ==
    /\ At(w, "put")
    /\ evidence' = [evidence EXCEPT ![SourceOf(w)][work[w].gen] = Staged(@)]
    /\ work' = [work EXCEPT ![w] = Stepped(work[w])]
    /\ UNCHANGED <<queue, relation, doc, page, history, budget>>

\* Mutant of Complete: publish whatever has been staged.
AnyStaged(s, g) == evidence[s][g].state = "STAGING"

Complete(s, g) ==
    evidence[s][g].state = "STAGING" /\ evidence[s][g].rows = ChunkCount[s]

CanPublish(w) ==
    LET s == SourceOf(w)
    IN /\ Fenced(w)
       /\ s \in relation
       /\ doc[s].gen = work[w].gen
       /\ Complete(s, work[w].gen)

\* Mutant of Publishing: only the generation before this one is superseded.
PublishingNext(rows, g) ==
    [h \in Gens |->
        IF h = g THEN [rows[h] EXCEPT !.state = "PUBLISHED"]
        ELSE IF h = g - 1 /\ rows[h].state = "PUBLISHED"
        THEN [rows[h] EXCEPT !.state = "SUPERSEDED", !.vectors = FALSE]
        ELSE rows[h]]

Superseded(row) ==
    IF row.state = "PUBLISHED"
    THEN [row EXCEPT !.state = "SUPERSEDED", !.vectors = FALSE] ELSE row
Publishing(rows, g) ==
    [h \in Gens |-> IF h = g THEN [rows[h] EXCEPT !.state = "PUBLISHED"]
                    ELSE Superseded(rows[h])]

\* A transaction that committed although its answer was lost reads as failed.
Answer(w, pc, failure) ==
    \/ Goto(w, pc) /\ UNCHANGED budget
    \/ Goto(w, failure) /\ Fault

PublishEvidenceGeneration(w) ==
    LET s == SourceOf(w)
        g == work[w].gen
    IN /\ At(w, "embed")
       /\ work[w].n = ChunkCount[s]
       /\ IF CanPublish(w)
          THEN /\ evidence' = [evidence EXCEPT ![s] = Publishing(@, g)]
               /\ doc' = [doc EXCEPT ![s] =
                            [@ EXCEPT !.published = g, !.evidence = "READY"]]
               /\ Enqueue(<<s, "compile_wiki">>)
               /\ Answer(w, "finish", "abort")
          ELSE /\ Goto(w, "abort")
               /\ UNCHANGED <<queue, doc, evidence, budget>>
       /\ UNCHANGED <<relation, page, history>>

\* Mutant of Cleaned: the cleanup forgets that a generation may be published.
CleanedAll(row) == [row EXCEPT !.state = "DELETED", !.rows = 0, !.vectors = FALSE]

Cleaned(row) ==
    IF row.state = "STAGING"
    THEN [row EXCEPT !.state = "DELETED", !.rows = 0, !.vectors = FALSE]
    ELSE [row EXCEPT !.vectors = FALSE]

\* What the document says of a parse that failed and of a file that is gone;
\* a document there is no row of stays that way.
ParseFailed(row) == IF row = NoDoc THEN row ELSE [row EXCEPT !.evidence = "FAILED"]
SourceGone(row) ==
    IF row = NoDoc THEN row
    ELSE [row EXCEPT !.evidence = "DELETED", !.wiki = "STALE"]

AbortEvidenceGeneration(w) ==
    LET s == SourceOf(w)
    IN /\ At(w, "abort")
       /\ evidence' = [evidence EXCEPT ![s][work[w].gen] = Cleaned(@)]
       /\ doc' = [doc EXCEPT ![s] =
            IF ~Fenced(w) THEN @
            ELSE IF s \in relation THEN ParseFailed(@) ELSE SourceGone(@)]
       /\ Goto(w, "fail")
       /\ UNCHANGED <<queue, relation, page, history, budget>>

----------------------------------------------------------------------------
(* delete_source: DeleteSourceKnowledge.                                   *)

Usable(c) == evidence[c[1]][c[2]].state = "PUBLISHED" /\ c[1] \in relation
Cites(p, s) == \E c \in page[p].cites \cup page[p].stale : c[1] = s

Forgotten(row) ==
    IF row.state = "NONE" THEN row
    ELSE [row EXCEPT !.state = "DELETED", !.rows = 0, !.vectors = FALSE]

Uncited(row, s) ==
    LET gone == {c \in row.cites : c[1] = s}
    IN [row EXCEPT !.cites = @ \ gone, !.stale = @ \cup gone]
Retired(row, s) ==
    IF \E c \in row.cites \cup row.stale : c[1] = s
    THEN [row EXCEPT !.status =
            IF \E c \in row.cites : Usable(c) THEN "STALE" ELSE "RETIRED"]
    ELSE row
PageWithout(p, s) == Retired(Uncited(page[p], s), s)

NeedsRepair(s) ==
    \E p \in Pages : Cites(p, s) /\ PageWithout(p, s).status = "STALE"

\* A patch that is about to commit has its page locked.
PageHeld(p) == \E w \in Workers : At(w, "cite") /\ p \in work[w].page
Waits(w) == \E p \in Pages : Cites(p, SourceOf(w)) /\ PageHeld(p)

\* What the step deletes of the evidence that a patch is about to cite.
Watch ==
    overtaken' = overtaken \cup
        {c \in Evidence :
            /\ evidence[c[1]][c[2]].state # "DELETED"
            /\ evidence'[c[1]][c[2]].state = "DELETED"
            /\ \E w \in Workers : At(w, "cite") /\ c \in work[w].cites}

\* A delete that meets a locked page waits, or is the victim of a deadlock.
DeleteSourceKnowledge(w) ==
    LET s == SourceOf(w)
    IN /\ At(w, "delete")
       /\ \/ /\ ~Fenced(w) \/ (s \notin relation /\ Waits(w))
             /\ Goto(w, "fail")
             /\ UNCHANGED <<queue, doc, evidence, page, overtaken, budget>>
          \/ /\ Fenced(w) /\ s \in relation
             /\ Goto(w, "finish")
             /\ UNCHANGED <<queue, doc, evidence, page, overtaken, budget>>
          \/ /\ Fenced(w) /\ s \notin relation /\ ~Waits(w)
             /\ doc' = [doc EXCEPT ![s] = SourceGone(@)]
             /\ evidence' = [evidence EXCEPT ![s] =
                               [g \in Gens |-> Forgotten(@[g])]]
             /\ Watch
             /\ page' = [p \in Pages |-> PageWithout(p, s)]
             /\ IF NeedsRepair(s) THEN Enqueue(<<s, "repair_wiki">>)
                                  ELSE UNCHANGED queue
             /\ Answer(w, "finish", "fail")
       /\ UNCHANGED <<relation, torn>>

----------------------------------------------------------------------------
(* compile_wiki and repair_wiki: WikiCompiler::Compile.                    *)

Valid(p) ==
    /\ page[p].status = "ACTIVE"
    /\ page[p].cites # {}
    /\ \A c \in page[p].cites : Usable(c)

\* SourceRelationExists and BeginSourceRead look one after the other.
OpenSource(w) ==
    /\ At(w, "open")
    /\ \/ SourceOf(w) \in relation /\ Goto(w, "generate")
       \/ SourceOf(w) \notin relation
            /\ \E pc \in {"fail", "giveup"} : Goto(w, pc)
    /\ UNCHANGED <<queue, knowledge, budget>>

\* The patch the LLM makes of the pages and evidence it was shown: nothing, or
\* one page over the revision it was shown, or a page it takes for new.
Patch(w, p, base, cites) ==
    work' = [work EXCEPT ![w] =
               [@ EXCEPT !.pc = "patch", !.page = p, !.base = base,
                         !.cites = cites]]

HasEvidence(s) ==
    /\ doc[s].published \in Gens
    /\ evidence[s][doc[s].published].state = "PUBLISHED"
    /\ evidence[s][doc[s].published].vectors

\* Any page may cite what any of the pages shown cites, and the source.
GenerateWiki(w) ==
    LET s == SourceOf(w)
        shown == UNION {page[p].cites : p \in {q \in Pages : Valid(q)}}
    IN /\ At(w, "generate") \/ At(w, "unlocked")
       /\ \/ /\ Fenced(w) /\ HasEvidence(s)
             /\ \/ Patch(w, {}, 0, {})
                \/ \E p \in budget.pages,
                      cites \in SUBSET (shown \cup {<<s, doc[s].published>>}) :
                     Patch(w, {p}, IF Valid(p) THEN page[p].rev ELSE 0, cites)
          \/ Goto(w, "fail")
       /\ UNCHANGED <<queue, knowledge, budget>>

StaleFor(p, s) ==
    /\ page[p].status = "STALE"
    /\ Cites(p, s)
    /\ \E c \in page[p].cites : Usable(c)

GenerateRepair(w) ==
    LET s == SourceOf(w)
        stale == {p \in Pages : StaleFor(p, s)}
        shown == {c \in UNION {page[p].cites : p \in stale} : Usable(c)}
    IN /\ At(w, "repair")
       /\ \/ stale = {} /\ Goto(w, "finish")
          \/ /\ Fenced(w)
             /\ \E p \in stale, cites \in SUBSET shown :
                  Patch(w, {p}, page[p].rev, cites)
          \/ stale # {} /\ Goto(w, "fail")
       /\ UNCHANGED <<queue, knowledge, budget>>

BaseIsCurrent(w) == \A p \in work[w].page : work[w].base = page[p].rev

\* Mutant of StillCitable: the citations were checked when the LLM was asked.
CitableThen(w) == TRUE

StillCitable(w) == \A c \in work[w].cites : Usable(c)

Repairing(w) == TypeOf(w) = "repair_wiki"
CanPatch(w) ==
    /\ Fenced(w)
    /\ Repairing(w) \/ SourceOf(w) \in relation
    /\ BaseIsCurrent(w)
    /\ StillCitable(w)

\* Mutant of Rewritten: the page takes its revision's state.
RewrittenAs(p, cites) ==
    [status |-> "PUBLISHED", rev |-> page[p].rev + 1, cites |-> cites,
     stale |-> {}]

Rewritten(p, cites) ==
    [status |-> "ACTIVE", rev |-> page[p].rev + 1, cites |-> cites,
     stale |-> {}]

OthersStale(w) == \E p \in Pages \ work[w].page : StaleFor(p, SourceOf(w))

\* The checks.  The page and the relation are read and locked; the citations,
\* and whether other pages wait for repair, are read from the snapshot that the
\* first citation takes.
CheckCitations(w) ==
    /\ At(w, "patch")
    /\ \A p \in work[w].page : ~PageHeld(p)
    /\ IF CanPatch(w)
       THEN work' = [work EXCEPT ![w] =
                       [@ EXCEPT !.pc = "cite", !.more = OthersStale(w)]]
       ELSE Goto(w, "fail")
    /\ UNCHANGED <<queue, knowledge, budget>>

Continues(w) ==
    /\ Repairing(w)
    /\ IF work[w].cites = {} THEN OthersStale(w) ELSE work[w].more

WikiState == IF \E p \in Pages : Valid(p)' THEN "READY" ELSE "PENDING"

\* A delete waits for the page this transaction has locked.
Contended(w) ==
    \E v \in Workers : /\ At(v, "delete")
                       /\ \E p \in work[w].page : Cites(p, SourceOf(v))

\* The rest of the transaction, over the page it has locked.
PublishWikiPatch(w) ==
    LET s == SourceOf(w)
    IN /\ At(w, "cite")
       /\ UNCHANGED <<relation, evidence, history>>
       /\ \/ /\ Fenced(w)
             /\ \A p \in work[w].page : page[p].rev < MaxRev
             /\ page' = [p \in Pages |->
                           IF p \in work[w].page
                           THEN Rewritten(p, work[w].cites) ELSE page[p]]
             /\ doc' = [doc EXCEPT ![s].wiki =
                  IF Repairing(w) \/ doc[s].evidence = "DELETED" THEN @
                  ELSE WikiState]
             /\ IF Continues(w)
                THEN ContinueTask(w) /\ Rest(w) /\ UNCHANGED budget
                ELSE Answer(w, "finish", "fail") /\ UNCHANGED queue
          \/ /\ ~Fenced(w) \/ Contended(w)
             /\ Goto(w, "fail")
             /\ UNCHANGED <<queue, doc, page, budget>>

----------------------------------------------------------------------------
(* A connection that is lost in the middle of a transaction.  What had been *)
(* done of it is rolled back and its locks go; the next statement connects  *)
(* again, and it and those after it commit by themselves.                   *)

\* The statements each transaction makes after its checks.
Statements ==
    [begin   |-> <<"number">>,
     publish |-> <<"unvector", "supersede", "publish", "document", "enqueue">>,
     unfenced |-> <<"silence", "unstage">>,
     failed  |-> <<"silence", "unstage", "failed">>,
     gone    |-> <<"silence", "unstage", "gone">>,
     delete  |-> <<"gone", "uncite", "forget", "silence all", "retire", "repair">>,
     patch   |-> <<"page", "revision", "point", "state">>]

\* The evidence transaction a worker has open, past its checks.
InTransaction(w, tx) ==
    LET s == SourceOf(w)
    IN \/ /\ tx = "begin" /\ At(w, "begin")
          /\ Fenced(w) /\ s \in relation /\ NextGeneration(s) \in Gens
       \/ /\ tx = "publish" /\ At(w, "embed")
          /\ work[w].n = ChunkCount[s] /\ CanPublish(w)
       \/ /\ tx = "unfenced" /\ At(w, "abort") /\ ~Fenced(w)
       \/ /\ tx = "failed" /\ At(w, "abort") /\ Fenced(w) /\ s \in relation
       \/ /\ tx = "gone" /\ At(w, "abort") /\ Fenced(w) /\ s \notin relation
       \/ /\ tx = "delete" /\ At(w, "delete")
          /\ Fenced(w) /\ s \notin relation /\ ~Waits(w)

\* The first statement that is run again: those before it are lost.
From(tx) == 1..Len(Statements[tx]) + 1

LoseEvidence(w) ==
    /\ Drop
    /\ \E tx \in DOMAIN Statements :
         /\ InTransaction(w, tx)
         /\ \E at \in From(tx) :
              work' = [work EXCEPT ![w] =
                         [@ EXCEPT !.pc = "torn", !.tx = tx, !.at = at,
                                   !.gen = IF tx = "begin"
                                           THEN NextGeneration(SourceOf(w))
                                           ELSE work[w].gen]]
    /\ torn' = torn \cup {SourceOf(w)}
    /\ UNCHANGED <<queue, relation, doc, evidence, page, overtaken>>

\* A patch whose new revision is lost points its page to nothing.
LosePatch(w) ==
    /\ Drop
    /\ At(w, "cite")
    /\ \E at \in From("patch") :
         work' = [work EXCEPT ![w] =
                    [@ EXCEPT !.pc = "torn patch", !.at = at,
                              !.cites = IF at > 2 THEN {}
                                        ELSE work[w].cites]]
    /\ torn' = torn \cup work[w].page
    /\ UNCHANGED <<queue, relation, doc, evidence, page, overtaken>>

\* The compiler reads on without its share lock.
LoseRead(w) ==
    /\ Drop
    /\ At(w, "generate")
    /\ Goto(w, "unlocked")
    /\ UNCHANGED <<queue, knowledge>>

Lose(w) == LoseEvidence(w) \/ LosePatch(w) \/ LoseRead(w)

Now(w) == Statements[work[w].tx][work[w].at]
Onward(w) == work' = [work EXCEPT ![w] = [@ EXCEPT !.at = work[w].at + 1]]

DocumentAfter(now, row, g) ==
    CASE now = "number"   -> Extracting(row, g)
      [] now = "document" -> [row EXCEPT !.published = g, !.evidence = "READY"]
      [] now = "failed"   -> ParseFailed(row)
      [] now = "gone"     -> SourceGone(row)
      [] OTHER            -> row

Silent(row) == [row EXCEPT !.vectors = FALSE]

GenerationAfter(now, row, current) ==
    CASE now = "unvector" /\ row.state = "PUBLISHED"  -> Silent(row)
      [] now = "supersede" /\ row.state = "PUBLISHED" ->
             [row EXCEPT !.state = "SUPERSEDED"]
      [] now = "publish" /\ current /\ row.state = "STAGING" ->
             [row EXCEPT !.state = "PUBLISHED"]
      [] now = "silence" /\ current -> Silent(row)
      [] now = "unstage" /\ current /\ row.state = "STAGING" ->
             [row EXCEPT !.state = "DELETED", !.rows = 0]
      [] now = "forget" /\ row.state # "NONE" ->
             [row EXCEPT !.state = "DELETED", !.rows = 0]
      [] now = "silence all" -> Silent(row)
      [] OTHER -> row

PageAfter(now, row, s) ==
    CASE now = "uncite" -> Uncited(row, s)
      [] now = "retire" -> Retired(row, s)
      [] OTHER          -> row

\* The next statement of a torn evidence transaction.
RunEvidence(w) ==
    LET s == SourceOf(w)
        g == work[w].gen
        now == Now(w)
    IN /\ At(w, "torn")
       /\ work[w].at <= Len(Statements[work[w].tx])
       /\ now = "retire" => ~Waits(w)
       /\ doc' = [doc EXCEPT ![s] = DocumentAfter(now, @, g)]
       /\ evidence' = [evidence EXCEPT ![s] =
                         [h \in Gens |-> GenerationAfter(now, @[h], h = g)]]
       /\ page' = [p \in Pages |-> PageAfter(now, page[p], s)]
       /\ CASE now = "enqueue" -> Enqueue(<<s, "compile_wiki">>)
            [] now = "repair" /\ \E p \in Pages :
                 Cites(p, s) /\ page[p].status = "STALE" ->
                                  Enqueue(<<s, "repair_wiki">>)
            [] OTHER -> UNCHANGED queue
       /\ Onward(w)
       /\ Watch
       /\ UNCHANGED <<relation, torn, budget>>

\* It ends as if it had been whole, with the look at the lease that the
\* publication and the delete take before they commit.
EndEvidence(w) ==
    /\ At(w, "torn")
    /\ work[w].at > Len(Statements[work[w].tx])
    /\ Goto(w, CASE work[w].tx = "begin" -> "embed"
                 [] work[w].tx = "publish" ->
                      IF Fenced(w) THEN "finish" ELSE "abort"
                 [] work[w].tx = "delete" /\ Fenced(w) -> "finish"
                 [] OTHER -> "fail")
    /\ UNCHANGED <<queue, knowledge, budget>>

\* The next statement of a torn patch.  A citation that a delete has met since
\* it was inserted is stale.
RunPatch(w) ==
    LET now == Statements.patch[work[w].at]
        mine == work[w].page
    IN /\ At(w, "torn patch")
       /\ work[w].at <= Len(Statements.patch)
       /\ \A p \in mine : now \in {"page", "point"} => ~PageHeld(p)
       /\ UNCHANGED <<queue, relation, evidence, history, budget>>
       /\ \/ /\ now = "page"
             /\ page' = [p \in Pages |->
                           IF p \in mine THEN [page[p] EXCEPT !.status = "ACTIVE"]
                                        ELSE page[p]]
             /\ IF BaseIsCurrent(w) THEN Onward(w) ELSE Goto(w, "fail")
             /\ UNCHANGED doc
          \/ /\ now = "revision"
             /\ IF StillCitable(w) THEN Onward(w) ELSE Goto(w, "fail")
             /\ UNCHANGED <<doc, page>>
          \/ /\ now = "point"
             /\ \A p \in mine : page[p].rev < MaxRev
             /\ \E stale \in SUBSET {c \in work[w].cites :
                               evidence[c[1]][c[2]].state = "DELETED"} :
                  page' = [p \in Pages |->
                    IF p \in mine /\ page[p].status # "none"
                    THEN [Rewritten(p, work[w].cites \ stale)
                            EXCEPT !.stale = stale]
                    ELSE page[p]]
             /\ Onward(w)
             /\ UNCHANGED doc
          \/ /\ now = "state"
             /\ UNCHANGED page
             /\ doc' = [doc EXCEPT ![SourceOf(w)].wiki =
                  IF Repairing(w) \/ doc[SourceOf(w)].evidence = "DELETED" THEN @
                  ELSE WikiState]
             /\ Onward(w)

EndPatch(w) ==
    /\ At(w, "torn patch")
    /\ work[w].at > Len(Statements.patch)
    /\ IF Fenced(w) /\ Repairing(w) /\ OthersStale(w)
       THEN ContinueTask(w) /\ Rest(w)
       ELSE Goto(w, IF Fenced(w) THEN "finish" ELSE "fail") /\ UNCHANGED queue
    /\ UNCHANGED <<knowledge, budget>>

\* A statement that fails ends what is left of a torn transaction.
Fails(w) ==
    /\ At(w, "torn") \/ At(w, "torn patch")
    /\ Fault
    /\ Goto(w, IF At(w, "torn") /\ work[w].tx = "publish" THEN "abort" ELSE "fail")
    /\ UNCHANGED <<queue, knowledge>>

TornStep(w) == RunEvidence(w) \/ EndEvidence(w) \/ RunPatch(w) \/ EndPatch(w)

----------------------------------------------------------------------------
UserNext ==
    \E s \in Sources :
        \/ UploadKnown(s) \/ UploadOpen(s) \/ UploadCommit(s)
        \/ UploadRollback(s) \/ RemoveFile(s) \/ Describe(s)

WorkerStep(w) ==
    \/ Pick(w) \/ Finish(w) \/ Skip(w) \/ Fail(w) \/ MarkWikiFailed(w)
    \/ RecoverRetry(w) \/ RecoverFail(w)
    \/ LoadSource(w) \/ LookupSource(w)
    \/ BeginEvidenceGeneration(w) \/ EmbedChunk(w) \/ PutChunk(w)
    \/ PublishEvidenceGeneration(w) \/ AbortEvidenceGeneration(w)
    \/ DeleteSourceKnowledge(w)
    \/ OpenSource(w) \/ GenerateWiki(w) \/ GenerateRepair(w)
    \/ CheckCitations(w) \/ PublishWikiPatch(w)

Next ==
    \/ UserNext
    \/ \E w \in Workers :
         \/ WorkerStep(w) \/ Crash(w) \/ Stall(w)
         \/ Lose(w) \/ TornStep(w) \/ Fails(w)
    \/ \E i \in TaskIds : LeaseRunsOut(i) \/ BecomesDue(i)

Spec == Init /\ [][Next]_vars

----------------------------------------------------------------------------
\* Every row holds values its columns may hold.
TypeOK ==
    /\ task \in [TaskIds -> TaskRow]
    /\ staged \subseteq Keys
    /\ claim \in [Workers -> Claim]
    /\ relation \subseteq Sources
    /\ doc \in [Sources -> DocRow]
    /\ evidence \in [Sources -> [Gens -> GenRow]]
    /\ page \in [Pages -> PageRow]
    /\ torn \subseteq Sources \cup Pages
    /\ overtaken \subseteq Evidence

\* The workers and the user drive the queue only as the queue allows: the
\* detailed knowledge base implements KnowledgeQueue.
ImplementsQueue == QueueSpec

OnePublished(s) ==
    \A g, h \in Gens :
        evidence[s][g].state = "PUBLISHED" /\ evidence[s][h].state = "PUBLISHED"
        => g = h

\* However parses fail, overlap or outlive their lease, a source has at most
\* one published generation of evidence, unless one of its own transactions
\* lost its connection half way: whatever happens to the other sources does not
\* spread to it.
OneGeneration == \A s \in Sources \ torn : OnePublished(s)

\* A parse of the file is to come, or ended without success.
Unparsed(s) ==
    \E i \in TaskIds :
        task[i].key = <<s, "parse_source">> /\ task[i].status # "success"

\* A document that reads READY has all chunks of its published generation,
\* although a delete may run between two chunks of a parse and the file come
\* back before it publishes.  The vectors are there too, unless a parse whose
\* commit went unanswered has withdrawn them, and then its task does not read
\* as a success: it is tried again, or was when its worker stalled.  A source
\* one of whose transactions was torn by a lost connection is excepted: its
\* READY may be all that was committed.
ReadyComplete ==
    \A s \in Sources \ torn :
        doc[s].evidence = "READY" =>
            LET row == evidence[s][doc[s].published]
            IN /\ row.state = "PUBLISHED"
               /\ row.rows = ChunkCount[s]
               /\ row.vectors \/ Unparsed(s)

\* A failed parse never costs a file its evidence (README: staging that fails
\* does not overwrite the old version): what is published stays until a newer
\* generation takes its place or the file is gone.  Sources with a torn
\* transaction are excepted: the retirement of the old generation may be
\* committed alone.
PublishedKept ==
    [][\A s \in Sources \ torn, g \in Gens :
         evidence[s][g].state = "PUBLISHED" =>
            \/ evidence'[s][g].state = "PUBLISHED"
            \/ \E h \in Gens : h > g /\ evidence'[s][h].state = "PUBLISHED"
            \/ s \notin relation]_vars

Kept(c) == evidence[c[1]][c[2]].state \in {"PUBLISHED", "SUPERSEDED"}

\* A page cites deleted evidence as live only where the deletion overtook the
\* patch: it was committed between the look at the citations and the commit.
\* The LLM being shown evidence before its file is removed and answering after
\* is not enough, nor is any other order of deletes, repairs and patches.  The
\* pages and sources of torn transactions are excepted.
DeletedNotCited ==
    \A p \in Pages \ torn : \A c \in page[p].cites :
        c \in overtaken \/ c[1] \in torn \/ Kept(c)

\* A task that is queued ends, whoever crashes or stalls over it.
TasksEnd ==
    \A i \in TaskIds :
        task[i].status \in {"pending", "running"} ~> task[i].status \in Terminal
=============================================================================
