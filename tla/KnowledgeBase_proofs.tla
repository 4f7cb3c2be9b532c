------------------------ MODULE KnowledgeBase_proofs ------------------------
(***************************************************************************)
(* Theorems about KnowledgeBase for any number of workers, sources, pages  *)
(* and chunks, any uploads and removals and any crashes, stalls and lost   *)
(* answers and connections: the knowledge base drives its queue as         *)
(* KnowledgeQueue allows, and its evidence and wiki stay consistent but    *)
(* where a transaction was torn.                                           *)
(***************************************************************************)
EXTENDS KnowledgeBase, KnowledgeQueue_proofs

----------------------------------------------------------------------------
(* The queue.                                                              *)

LEMMA KeysOfTasks ==
    ASSUME NEW s \in Sources, NEW t \in TaskTypes
    PROVE  <<s, t>> \in Keys
  BY BaseAssumption DEF BaseAssumption

\* A worker that holds a row works on one of the user's sources.
LEMMA HeldSource ==
    ASSUME QInv, NEW w \in Workers, claim[w].id \in TaskIds
    PROVE  SourceOf(w) \in Sources /\ TypeOf(w) \in TaskTypes
<1>1. task[claim[w].id].key \in Keys
  BY DEF QInv, Inserts, Keyed
<1>2. task[claim[w].id].key \in Sources \X TaskTypes
  BY <1>1, BaseAssumption DEF BaseAssumption
<1> QED BY <1>2 DEF SourceOf, TypeOf

LEMMA UserDrives ==
    ASSUME QInv, UserNext
    PROVE  [QNext]_queue
<1>1. PICK s \in Sources :
        \/ UploadKnown(s) \/ UploadOpen(s) \/ UploadCommit(s)
        \/ UploadRollback(s) \/ RemoveFile(s) \/ Describe(s)
  BY DEF UserNext
<1>2. <<s, "parse_source">> \in Keys /\ <<s, "delete_source">> \in Keys
  BY KeysOfTasks DEF TaskTypes
<1>3. \/ UNCHANGED queue
      \/ \E k \in Keys :
           Enqueue(k) \/ StageEnqueue(k) \/ CommitStaged(k) \/ DropStaged(k)
  BY <1>1, <1>2
  DEF UploadKnown, UploadOpen, UploadCommit, UploadRollback, RemoveFile,
      Describe, queue
<1> QED BY <1>3, Zenon DEF QNext

LEMMA WorkerDrives ==
    ASSUME QInv, NEW w \in Workers, WorkerStep(w)
    PROVE  [QNext]_queue
<1>1. ASSUME UNCHANGED queue PROVE [QNext]_queue
  BY <1>1
<1>2. CASE \/ Pick(w) \/ Finish(w) \/ Skip(w)
  <2>1. ClaimTask(w) \/ FinishTask(w) \/ SkipTask(w)
    BY <1>2 DEF Pick, Finish, Skip
  <2> QED BY <2>1, Zenon DEF QNext
<1>3. CASE Fail(w)
  <2>1. At(w, "fail") \in BOOLEAN /\ FailTask(w, At(w, "fail"))
    BY <1>3 DEF Fail, At
  <2>2. \E retryable \in BOOLEAN : FailTask(w, retryable)
    BY <2>1, Zenon
  <2> QED BY <2>2, Zenon DEF QNext
<1>4. CASE RecoverRetry(w) \/ RecoverFail(w)
  BY <1>4, Zenon DEF RecoverRetry, RecoverFail, QNext
<1>5. CASE PublishEvidenceGeneration(w)
  <2>1. CASE CanPublish(w)
    <3>1. claim[w].id \in TaskIds
      BY <2>1 DEF CanPublish, Fenced
    <3>2. <<SourceOf(w), "compile_wiki">> \in Keys
      BY <3>1, HeldSource, KeysOfTasks DEF TaskTypes
    <3>3. Enqueue(<<SourceOf(w), "compile_wiki">>)
      BY <1>5, <2>1 DEF PublishEvidenceGeneration
    <3> QED BY <3>2, <3>3, Zenon DEF QNext
  <2>2. CASE ~CanPublish(w)
    BY <1>1, <1>5, <2>2, Zenon DEF PublishEvidenceGeneration
  <2> QED BY <2>1, <2>2
<1>6. CASE DeleteSourceKnowledge(w)
  <2>1. CASE UNCHANGED queue
    BY <1>1, <2>1
  <2>2. CASE ~UNCHANGED queue
    <3>1. Fenced(w) /\ Enqueue(<<SourceOf(w), "repair_wiki">>)
      BY <1>6, <2>2, Zenon DEF DeleteSourceKnowledge
    <3>2. claim[w].id \in TaskIds
      BY <3>1 DEF Fenced
    <3>3. <<SourceOf(w), "repair_wiki">> \in Keys
      BY <3>2, HeldSource, KeysOfTasks DEF TaskTypes
    <3> QED BY <3>1, <3>3, Zenon DEF QNext
  <2> QED BY <2>1, <2>2
<1>7. CASE PublishWikiPatch(w)
  <2>1. ContinueTask(w) \/ UNCHANGED queue
    BY <1>7, Zenon DEF PublishWikiPatch
  <2> QED BY <1>1, <2>1, Zenon DEF QNext
<1>8. CASE \/ MarkWikiFailed(w) \/ LoadSource(w) \/ LookupSource(w)
           \/ BeginEvidenceGeneration(w) \/ EmbedChunk(w) \/ PutChunk(w)
           \/ AbortEvidenceGeneration(w) \/ OpenSource(w) \/ GenerateWiki(w)
           \/ GenerateRepair(w) \/ CheckCitations(w)
  <2>1. UNCHANGED queue
    BY <1>8, Zenon
    DEF MarkWikiFailed, LoadSource, LookupSource, BeginEvidenceGeneration,
        EmbedChunk, PutChunk, AbortEvidenceGeneration, OpenSource,
        GenerateWiki, GenerateRepair, CheckCitations
  <2> QED BY <1>1, <2>1
<1> QED BY <1>2, <1>3, <1>4, <1>5, <1>6, <1>7, <1>8, Zenon DEF WorkerStep

\* A lost connection, and what still runs of the transaction it tore.
Tearing(w) == Lose(w) \/ TornStep(w) \/ Fails(w)

LEMMA TearingQueue ==
    ASSUME NEW w \in Workers, Tearing(w)
    PROVE  \/ UNCHANGED queue
           \/ /\ At(w, "torn") /\ UNCHANGED claim
              /\ \E t \in TaskTypes \ {"parse_source"} :
                   Enqueue(<<SourceOf(w), t>>)
           \/ ContinueTask(w) /\ EndPatch(w)
<1>1. CASE Lose(w)
  BY <1>1, Zenon DEF Lose, LoseEvidence, LosePatch, LoseRead
<1>2. CASE Fails(w)
  BY <1>2, Zenon DEF Fails
<1>3. CASE RunEvidence(w)
  <2>1. \/ UNCHANGED queue
        \/ Enqueue(<<SourceOf(w), "compile_wiki">>)
        \/ Enqueue(<<SourceOf(w), "repair_wiki">>)
    BY <1>3 DEF RunEvidence
  <2>2. "compile_wiki" \in TaskTypes \ {"parse_source"}
        /\ "repair_wiki" \in TaskTypes \ {"parse_source"}
    BY DEF TaskTypes
  <2>3. At(w, "torn")
    BY <1>3 DEF RunEvidence
  <2>4. ASSUME NEW k, Enqueue(k) PROVE UNCHANGED claim
    BY <2>4, Zenon DEF Enqueue
  <2> QED BY <2>1, <2>2, <2>3, <2>4, Zenon
<1>4. CASE EndEvidence(w) \/ RunPatch(w)
  BY <1>4, Zenon DEF EndEvidence, RunPatch
<1>5. CASE EndPatch(w)
  BY <1>5, Zenon DEF EndPatch
<1> QED BY <1>1, <1>2, <1>3, <1>4, <1>5 DEF Tearing, TornStep

\* A worker in the middle of a transaction holds a row.
InHand ==
    \A w \in Workers :
        work[w].pc \in {"cite", "torn", "torn patch"} => claim[w].id \in TaskIds

LEMMA BaseDrivesQueue ==
    ASSUME QInv, InHand, [Next]_vars
    PROVE  [QNext]_queue
<1>1. CASE UserNext
  BY <1>1, UserDrives
<1>2. ASSUME NEW w \in Workers, WorkerStep(w)
      PROVE  [QNext]_queue
  BY <1>2, WorkerDrives
<1>3. ASSUME NEW w \in Workers, Crash(w) \/ Stall(w)
      PROVE  [QNext]_queue
  <2>1. CASE Crash(w)
    BY <2>1, Zenon DEF Crash, QNext
  <2>2. CASE Stall(w)
    <3>1. claim[w].id \in TaskIds /\ LeaseExpires(claim[w].id)
      BY <2>2 DEF Stall, Fenced
    <3> QED BY <3>1, Zenon DEF QNext
  <2> QED BY <1>3, <2>1, <2>2
<1>4. ASSUME NEW i \in TaskIds, LeaseRunsOut(i) \/ BecomesDue(i)
      PROVE  [QNext]_queue
  <2>1. LeaseExpires(i) \/ RetryDue(i)
    BY <1>4 DEF LeaseRunsOut, BecomesDue
  <2> QED BY <2>1, Zenon DEF QNext
<1>5. CASE UNCHANGED vars
  BY <1>5, Zenon DEF vars, queue
<1>6. ASSUME NEW w \in Workers, Tearing(w)
      PROVE  [QNext]_queue
  <2>1. ASSUME At(w, "torn"), NEW t \in TaskTypes,
               Enqueue(<<SourceOf(w), t>>)
        PROVE  [QNext]_queue
    <3>1. <<SourceOf(w), t>> \in Keys
      BY <2>1, HeldSource, KeysOfTasks DEF InHand, At
    <3> QED BY <2>1, <3>1, Zenon DEF QNext
  <2>2. CASE UNCHANGED queue
    BY <2>2
  <2>3. CASE ContinueTask(w)
    BY <2>3, Zenon DEF QNext
  <2>4. CASE /\ At(w, "torn")
             /\ \E t \in TaskTypes \ {"parse_source"} :
                  Enqueue(<<SourceOf(w), t>>)
    BY <2>1, <2>4
  <2> QED BY <1>6, <2>2, <2>3, <2>4, TearingQueue, Zenon
<1> QED BY <1>1, <1>2, <1>3, <1>4, <1>5, <1>6, Zenon DEF Next, Tearing

----------------------------------------------------------------------------
(* The invariant of the tables and of the workers over them.               *)

Calls == {"idle", "finish", "skip", "fail", "giveup", "mark", "load",
          "lookup", "begin", "embed", "put", "abort", "delete", "open",
          "generate", "unlocked", "repair", "patch", "cite", "torn",
          "torn patch"}
Transactions == {"none", "begin", "publish", "unfenced", "failed", "gone",
                 "delete"}
WorkRow == [pc : Calls, gen : 0..MaxGen, n : Nat, page : SUBSET Pages,
            base : 0..MaxRev, cites : SUBSET Evidence, more : BOOLEAN,
            tx : Transactions, at : Nat, mark : SUBSET Sources]
BudgetRow == [edits : [Sources -> Nat], asks : SUBSET Sources, faults : Nat,
              drops : Nat, pages : SUBSET Pages]

RelationOK == relation \subseteq Sources
DocOK == doc \in [Sources -> DocRow]
EvidenceOK == evidence \in [Sources -> [Gens -> GenRow]]
PageOK == page \in [Pages -> PageRow]
WorkOK == work \in [Workers -> WorkRow]
BudgetOK == budget \in BudgetRow
HistoryOK == torn \subseteq Sources \cup Pages /\ overtaken \subseteq Evidence

Parsing(w) == work[w].pc \in {"embed", "put"}
Building(w) == Parsing(w) \/ work[w].pc = "abort"
Settled == {"PUBLISHED", "SUPERSEDED"}
Whole(w) == SourceOf(w) \notin torn

\* A worker that builds a generation holds a row, and its generation was given
\* out to nobody else.
Owned ==
    /\ \A w \in Workers :
         Building(w) => /\ claim[w].id \in TaskIds
                        /\ work[w].gen \in Gens
                        /\ Whole(w) => work[w].gen <= doc[SourceOf(w)].gen
    /\ \A v, w \in Workers :
         /\ v # w /\ Building(v) /\ Building(w)
         /\ SourceOf(v) = SourceOf(w) /\ Whole(w)
         => work[v].gen # work[w].gen

\* What a worker still parses into has never been published.
Fresh ==
    \A w \in Workers :
        Parsing(w) /\ Whole(w) =>
            evidence[SourceOf(w)][work[w].gen].state \notin Settled

\* A generation that was not given out yet has no evidence.
Untouched ==
    \A s \in Sources \ torn, g \in Gens :
        g > doc[s].gen => evidence[s][g].state = "NONE"

\* What is left of a transaction is run for what was torn, and for a generation
\* that there may be.
Torn ==
    \A w \in Workers :
        /\ At(w, "torn") => /\ SourceOf(w) \in torn
                            /\ work[w].tx # "delete" => work[w].gen \in Gens
        /\ At(w, "torn patch") => work[w].page \subseteq torn

\* A patch that has looked at its citations knows of the deletes that overtook
\* it.
Citable(c) == c \in overtaken \/ c[1] \in torn \/ Kept(c)
Citing ==
    \A w \in Workers : At(w, "cite") => \A c \in work[w].cites : Citable(c)

BInv ==
    /\ QInv
    /\ RelationOK /\ DocOK /\ EvidenceOK /\ PageOK /\ WorkOK /\ BudgetOK
    /\ HistoryOK
    /\ InHand /\ Torn
    /\ Owned /\ Fresh /\ Untouched
    /\ OneGeneration /\ Citing /\ DeletedNotCited

LEMMA Bounds ==
    /\ MaxGen \in Nat /\ MaxRev \in Nat
    /\ 1 \in Gens /\ 1 \in 0..MaxGen /\ 1 \in 0..MaxRev
    /\ 0 \in 0..MaxGen /\ 0 \in 0..MaxRev
  BY BaseAssumption DEF BaseAssumption, Gens

LEMMA Nothings ==
    /\ NoDoc \in DocRow
    /\ NoGen \in GenRow
    /\ NoPage \in PageRow
    /\ Idle \in WorkRow
<1> USE Bounds
<1>1. NoDoc \in DocRow
  BY DEF NoDoc, DocRow
<1>2. NoGen \in GenRow
  BY DEF NoGen, GenRow
<1>3. NoPage \in PageRow
  BY DEF NoPage, PageRow
<1>4. Idle \in WorkRow
  BY DEF Idle, WorkRow, Calls, Transactions
<1> QED BY <1>1, <1>2, <1>3, <1>4

LEMMA BInit == Init => BInv
<1> SUFFICES ASSUME Init PROVE BInv
  OBVIOUS
<1> PICK start \in Starts : StartsFrom(start)
  BY DEF Init
<1> DEFINE first == [gen |-> 1, published |-> 1, evidence |-> "READY",
                     wiki |-> "READY"]
           built(s) == [state |-> "PUBLISHED", rows |-> ChunkCount[s],
                        vectors |-> TRUE]
           written(p) == [status |-> "ACTIVE", rev |-> 1,
                          cites |-> start.wiki[p] \X {1}, stale |-> {}]
<1>1. /\ start.files \subseteq Sources
      /\ start.edits \in [Sources -> Nat]
      /\ start.asks \subseteq Sources
      /\ start.faults \in Nat
      /\ start.drops \in Nat
      /\ start.wiki \in [Pages -> SUBSET start.files]
      /\ start.pages \subseteq Pages
      /\ ChunkCount \in [Sources -> Nat \ {0}]
  BY BaseAssumption DEF BaseAssumption
<1>2. QInv
  BY QInitInv DEF Init
<1>3. RelationOK
  BY <1>1 DEF StartsFrom, RelationOK
<1>4. DocOK
  <2>1. first \in DocRow
    BY Bounds DEF DocRow
  <2> QED BY <2>1, Nothings DEF StartsFrom, DocOK
<1>5. EvidenceOK
  <2>1. \A s \in Sources : built(s) \in GenRow
    BY <1>1 DEF GenRow
  <2> QED BY <2>1, Nothings DEF StartsFrom, EvidenceOK
<1>6. PageOK
  <2>1. \A p \in Pages : start.wiki[p] \X {1} \subseteq Evidence
    BY <1>1, Bounds DEF Evidence
  <2>2. \A p \in Pages : written(p) \in PageRow
    BY <2>1, Bounds DEF PageRow
  <2> QED BY <2>2, Nothings DEF StartsFrom, PageOK
<1>7. WorkOK /\ \A w \in Workers : work[w].pc = "idle"
  <2>1. \A w \in Workers : work[w] = Idle
    BY DEF Init
  <2> QED BY <2>1, Nothings DEF Init, WorkOK, Idle
<1>8. BudgetOK
  BY <1>1 DEF StartsFrom, BudgetOK, BudgetRow
<1>9. /\ \A s \in Sources : \A g \in Gens :
           /\ s \in start.files /\ g = 1 => evidence[s][g].state = "PUBLISHED"
           /\ ~(s \in start.files /\ g = 1) => evidence[s][g].state = "NONE"
      /\ \A s \in Sources :
           /\ s \in start.files => doc[s].gen = 1
           /\ s \notin start.files => doc[s].gen = 0
  BY DEF StartsFrom, NoGen, NoDoc
<1>10. /\ Owned /\ Fresh /\ InHand /\ Torn /\ Citing
       /\ HistoryOK
  BY <1>7 DEF Init, Owned, Fresh, InHand, Torn, Citing, HistoryOK, Building,
              Parsing, At
<1>11. Untouched
  <2> SUFFICES ASSUME NEW s \in Sources, NEW g \in Gens, g > doc[s].gen
               PROVE  evidence[s][g].state = "NONE"
    BY DEF Untouched
  <2>1. g \in Nat
    BY DEF Gens
  <2> QED BY <1>9, <2>1
<1>12. OneGeneration
  <2> SUFFICES ASSUME NEW s \in Sources, NEW g \in Gens,
                      evidence[s][g].state = "PUBLISHED"
               PROVE  g = 1
    BY DEF OneGeneration, OnePublished
  <2> QED BY <1>9
<1>13. DeletedNotCited
  <2> SUFFICES ASSUME NEW p \in Pages, NEW c \in page[p].cites
               PROVE  evidence[c[1]][c[2]].state = "PUBLISHED"
    BY DEF DeletedNotCited, Kept
  <2>1. page[p] = IF start.wiki[p] = {} THEN NoPage ELSE written(p)
    BY DEF StartsFrom
  <2>2. c \in start.wiki[p] \X {1}
    BY <2>1 DEF NoPage
  <2>3. c[1] \in start.files /\ c[2] = 1
    BY <1>1, <2>2
  <2> QED BY <1>1, <1>9, <2>3, Bounds, Zenon
<1> QED BY <1>2, <1>3, <1>4, <1>5, <1>6, <1>7, <1>8, <1>10, <1>11, <1>12,
           <1>13 DEF BInv

----------------------------------------------------------------------------
(* Which steps touch which table.                                          *)

DocStep(w) ==
    \/ MarkWikiFailed(w) \/ RecoverFail(w) \/ BeginEvidenceGeneration(w)
    \/ PublishEvidenceGeneration(w) \/ AbortEvidenceGeneration(w)
    \/ DeleteSourceKnowledge(w) \/ PublishWikiPatch(w)
EvidenceStep(w) ==
    \/ PutChunk(w) \/ PublishEvidenceGeneration(w)
    \/ AbortEvidenceGeneration(w) \/ DeleteSourceKnowledge(w)
PageStep(w) == DeleteSourceKnowledge(w) \/ PublishWikiPatch(w)
QuietStep(w) ==
    \/ Pick(w) \/ Finish(w) \/ Skip(w) \/ Fail(w) \/ RecoverRetry(w)
    \/ LoadSource(w) \/ LookupSource(w) \/ EmbedChunk(w)
    \/ OpenSource(w) \/ GenerateWiki(w) \/ GenerateRepair(w)
    \/ CheckCitations(w)

LEMMA QuietTables ==
    ASSUME NEW w \in Workers, QuietStep(w)
    PROVE  UNCHANGED knowledge /\ UNCHANGED budget
  BY Zenon
  DEF QuietStep, Pick, Finish, Skip, Fail, RecoverRetry, LoadSource,
      LookupSource, EmbedChunk, OpenSource, GenerateWiki, GenerateRepair,
      CheckCitations

LEMMA WorkerTables ==
    ASSUME NEW w \in Workers, WorkerStep(w)
    PROVE  /\ relation' = relation
           /\ torn' = torn
           /\ overtaken' = overtaken \/ DeleteSourceKnowledge(w)
           /\ doc' = doc \/ DocStep(w)
           /\ evidence' = evidence \/ EvidenceStep(w)
           /\ page' = page \/ PageStep(w)
           /\ budget' = budget \/ Fault
<1>1. CASE QuietStep(w)
  BY <1>1, QuietTables DEF knowledge, history
<1>2. CASE MarkWikiFailed(w) \/ RecoverFail(w)
  BY <1>2 DEF MarkWikiFailed, RecoverFail, DocStep, history
<1>3. CASE BeginEvidenceGeneration(w)
  BY <1>3 DEF BeginEvidenceGeneration, DocStep, history
<1>4. CASE PutChunk(w)
  BY <1>4 DEF PutChunk, EvidenceStep, history
<1>5. CASE AbortEvidenceGeneration(w)
  BY <1>5 DEF AbortEvidenceGeneration, EvidenceStep, DocStep, history
<1>6. CASE PublishEvidenceGeneration(w)
  <2>1. relation' = relation /\ page' = page /\ UNCHANGED history
    BY <1>6 DEF PublishEvidenceGeneration
  <2>2. budget' = budget \/ Fault
    BY <1>6, Zenon DEF PublishEvidenceGeneration, Answer
  <2> QED BY <1>6, <2>1, <2>2 DEF EvidenceStep, DocStep, history
<1>7. CASE DeleteSourceKnowledge(w)
  <2>1. relation' = relation /\ torn' = torn
    BY <1>7 DEF DeleteSourceKnowledge
  <2>2. budget' = budget \/ Fault
    BY <1>7, Zenon DEF DeleteSourceKnowledge, Answer
  <2> QED BY <1>7, <2>1, <2>2 DEF EvidenceStep, DocStep, PageStep
<1>8. CASE PublishWikiPatch(w)
  <2>1. relation' = relation /\ evidence' = evidence /\ UNCHANGED history
    BY <1>8 DEF PublishWikiPatch
  <2>2. budget' = budget \/ Fault
    BY <1>8, Zenon DEF PublishWikiPatch, Answer
  <2> QED BY <1>8, <2>1, <2>2 DEF DocStep, PageStep, history
<1> QED BY <1>1, <1>2, <1>3, <1>4, <1>5, <1>6, <1>7, <1>8, Zenon
        DEF WorkerStep, QuietStep

\* Every other step: it leaves the evidence and the wiki alone.
Other ==
    \/ UserNext
    \/ \E w \in Workers : Crash(w) \/ Stall(w)
    \/ \E i \in TaskIds : LeaseRunsOut(i) \/ BecomesDue(i)
    \/ UNCHANGED vars

LEMMA OtherSteps ==
    ASSUME Other
    PROVE  /\ doc' = doc /\ evidence' = evidence /\ page' = page
           /\ torn' = torn /\ overtaken' = overtaken
           /\ \/ relation' = relation
              \/ \E s \in Sources :
                   relation' = relation \cup {s} \/ relation' = relation \ {s}
           /\ \/ budget' = budget \/ Fault
              \/ \E s \in Sources : Edit(s)
           /\ \/ work' = work
              \/ \E w \in Workers : Crash(w)
           /\ \/ UNCHANGED claim
              \/ \E w \in Workers : Crash(w)
<1>1. CASE UserNext
  <2>1. PICK s \in Sources :
          \/ UploadKnown(s) \/ UploadOpen(s) \/ UploadCommit(s)
          \/ UploadRollback(s) \/ RemoveFile(s) \/ Describe(s)
    BY <1>1 DEF UserNext
  <2>2. doc' = doc /\ evidence' = evidence /\ page' = page /\ work' = work
        /\ claim' = claim /\ torn' = torn /\ overtaken' = overtaken
    BY <2>1
    DEF UploadKnown, UploadOpen, UploadCommit, UploadRollback, RemoveFile,
        Describe, knowledge, history, queue, StageEnqueue, CommitStaged,
        DropStaged, Enqueue
  <2>3. \/ relation' = relation
        \/ relation' = relation \cup {s} \/ relation' = relation \ {s}
    BY <2>1
    DEF UploadKnown, UploadOpen, UploadCommit, UploadRollback, RemoveFile,
        Describe, knowledge
  <2>4. budget' = budget \/ Edit(s)
    BY <2>1
    DEF UploadKnown, UploadOpen, UploadCommit, UploadRollback, RemoveFile,
        Describe
  <2> QED BY <2>2, <2>3, <2>4
<1>2. CASE \E w \in Workers : Crash(w)
  BY <1>2, Zenon DEF Crash, knowledge, history
<1>3. CASE \E w \in Workers : Stall(w)
  BY <1>3, Zenon DEF Stall, knowledge, history, LeaseExpires
<1>4. CASE \E i \in TaskIds : LeaseRunsOut(i) \/ BecomesDue(i)
  BY <1>4, Zenon
  DEF LeaseRunsOut, BecomesDue, knowledge, history, LeaseExpires, RetryDue
<1>5. CASE UNCHANGED vars
  BY <1>5 DEF vars, knowledge, history, queue
<1> QED BY <1>1, <1>2, <1>3, <1>4, <1>5 DEF Other

LEMMA EveryStep ==
    ASSUME [Next]_vars
    PROVE  Other \/ \E w \in Workers : WorkerStep(w) \/ Tearing(w)
  BY Zenon DEF Next, Other, Tearing

----------------------------------------------------------------------------
(* The budget and the workers.                                             *)

LEMMA BudgetTypes ==
    ASSUME BudgetOK,
           budget' = budget \/ Fault \/ Drop \/ \E s \in Sources : Edit(s)
    PROVE  BudgetOK'
<1>1. CASE Fault \/ Drop
  BY <1>1 DEF Fault, Drop, BudgetOK, BudgetRow
<1>2. ASSUME NEW s \in Sources, Edit(s)
      PROVE  BudgetOK'
  <2> DEFINE left == [budget.edits EXCEPT ![s] = budget.edits[s] - 1]
  <2>1. left \in [Sources -> Nat]
    BY <1>2 DEF Edit, BudgetOK, BudgetRow
  <2>2. budget' = [budget EXCEPT !.edits = left]
    BY <1>2 DEF Edit, BudgetOK, BudgetRow
  <2> QED BY <2>1, <2>2 DEF BudgetOK, BudgetRow
<1> QED BY <1>1, <1>2 DEF BudgetOK

\* After a worker's step only its own work is another, and if it builds a
\* generation it has just begun it or goes on with it.
Begun(w) == BeginEvidenceGeneration(w) /\ Fenced(w) /\ SourceOf(w) \in relation
Midway == {"cite", "torn", "torn patch"}
Checked(w) == CheckCitations(w) /\ CanPatch(w)
Carries(w) ==
    \E row \in WorkRow :
        /\ work' = [work EXCEPT ![w] = row]
        /\ row.pc \in Midway =>
             /\ Checked(w) /\ claim' = claim
             /\ row.pc = "cite" /\ row.cites = work[w].cites
        /\ row.pc \in {"embed", "put", "abort"} =>
             \/ Begun(w)
             \/ /\ Building(w)
                /\ row.gen = work[w].gen
                /\ claim' = claim
                /\ row.pc \in {"embed", "put"} => Parsing(w)

LEMMA GoesOn ==
    ASSUME WorkOK, NEW w \in Workers, NEW pc \in Calls \ Midway, Goto(w, pc),
           pc \in {"embed", "put"} => Parsing(w) /\ claim' = claim,
           pc = "abort" => Building(w) /\ claim' = claim
    PROVE  Carries(w)
<1> DEFINE row == [work[w] EXCEPT !.pc = pc]
<1>1. work[w] \in WorkRow
  BY DEF WorkOK
<1>2. row \in WorkRow /\ row.pc = pc /\ row.gen = work[w].gen
  BY <1>1 DEF WorkRow
<1>3. work' = [work EXCEPT ![w] = row]
  BY DEF Goto
<1> QED BY <1>2, <1>3 DEF Carries, Building, Midway

LEMMA GoesIdle ==
    ASSUME WorkOK, NEW w \in Workers, Rest(w)
    PROVE  Carries(w)
<1>1. Idle \in WorkRow /\ Idle.pc = "idle"
  BY Nothings DEF Idle
<1> QED BY <1>1 DEF Rest, Carries, Midway

LEMMA GoesWith ==
    ASSUME WorkOK, NEW w \in Workers, NEW p \in SUBSET Pages,
           NEW base \in 0..MaxRev, NEW cites \in SUBSET Evidence,
           Patch(w, p, base, cites)
    PROVE  Carries(w)
<1> DEFINE row == [work[w] EXCEPT !.pc = "patch", !.page = p, !.base = base,
                                  !.cites = cites]
<1>1. work[w] \in WorkRow
  BY DEF WorkOK
<1>2. row \in WorkRow /\ row.pc = "patch"
  BY <1>1 DEF WorkRow, Calls
<1>3. work' = [work EXCEPT ![w] = row]
  BY DEF Patch
<1> QED BY <1>2, <1>3 DEF Carries, Midway

LEMMA PickCarries ==
    ASSUME BInv, NEW w \in Workers, Pick(w)
    PROVE  Carries(w)
<1>1. PICK i \in TaskIds :
        /\ Oldest(i)
        /\ claim' = [claim EXCEPT ![w] = [id |-> i, epoch |-> task[i].epoch + 1,
                                          retry |-> task[i].retry]]
  BY DEF Pick, ClaimTask
<1>2. claim'[w].id = i
  BY <1>1 DEF BInv, QInv, QTypeOK
<1>3. task[i].key \in Keys
  BY <1>1 DEF Oldest, Claimable, BInv, QInv, Keyed
<1>4. task[i].key[2] \in TaskTypes
  BY <1>3, BaseAssumption DEF BaseAssumption
<1>5. FirstCall(task[i].key[2]) \in {"load", "delete", "open", "repair"}
  BY <1>4 DEF FirstCall, TaskTypes
<1>6. Goto(w, FirstCall(task[i].key[2]))
  BY <1>2 DEF Pick, Goto
<1> QED BY <1>5, <1>6, GoesOn DEF BInv, Calls, Midway

LEMMA FailCarries ==
    ASSUME BInv, NEW w \in Workers, Fail(w)
    PROVE  Carries(w)
<1> DEFINE row == [Idle EXCEPT !.pc = "mark", !.mark = {SourceOf(w)}]
<1>1. CASE Rest(w)
  BY <1>1, GoesIdle DEF BInv
<1>2. CASE ~Rest(w)
  <2>1. Fenced(w) /\ work' = [work EXCEPT ![w] = row]
    BY <1>2, Zenon DEF Fail, Rest
  <2>2. SourceOf(w) \in Sources
    BY <2>1, HeldSource DEF BInv, Fenced
  <2>3. row \in WorkRow /\ row.pc = "mark"
    BY <2>2, Nothings DEF Idle, WorkRow, Calls
  <2> QED BY <2>1, <2>3 DEF Carries, Midway
<1> QED BY <1>1, <1>2

LEMMA BeginCarries ==
    ASSUME BInv, NEW w \in Workers, BeginEvidenceGeneration(w)
    PROVE  Carries(w)
<1> DEFINE g == NextGeneration(SourceOf(w))
           row == [work[w] EXCEPT !.pc = "embed", !.gen = g, !.n = 0]
<1>1. CASE Fenced(w) /\ SourceOf(w) \in relation
  <2>1. g \in Gens /\ work' = [work EXCEPT ![w] = row]
    BY <1>1 DEF BeginEvidenceGeneration
  <2>2. work[w] \in WorkRow /\ g \in 0..MaxGen
    BY <2>1, Bounds DEF BInv, WorkOK, Gens
  <2>3. row \in WorkRow /\ row.pc = "embed"
    BY <2>2 DEF WorkRow, Calls
  <2>4. Begun(w)
    BY <1>1 DEF Begun
  <2> QED BY <2>1, <2>3, <2>4 DEF Carries, Midway
<1>2. CASE ~(Fenced(w) /\ SourceOf(w) \in relation)
  <2>1. Goto(w, "fail")
    BY <1>2, Zenon DEF BeginEvidenceGeneration
  <2> QED BY <2>1, GoesOn DEF BInv, Calls, Midway
<1> QED BY <1>1, <1>2

LEMMA SteppedRow ==
    ASSUME NEW row \in WorkRow
    PROVE  /\ Stepped(row) \in WorkRow /\ Stepped(row).gen = row.gen
           /\ Stepped(row).pc = "embed"
<1>1. ASSUME NEW m \in Nat
      PROVE  LET r == [row EXCEPT !.pc = "embed", !.n = m]
             IN  r \in WorkRow /\ r.gen = row.gen /\ r.pc = "embed"
  BY DEF WorkRow, Calls
<1>2. row.n + 1 \in Nat
  BY DEF WorkRow
<1> QED BY <1>1, <1>2 DEF Stepped

LEMMA ParseCarries ==
    ASSUME BInv, NEW w \in Workers,
           \/ EmbedChunk(w) \/ PutChunk(w) \/ PublishEvidenceGeneration(w)
           \/ AbortEvidenceGeneration(w)
    PROVE  Carries(w)
<1>1. CASE EmbedChunk(w)
  <2>1. Parsing(w) /\ Building(w) /\ claim' = claim
    BY <1>1 DEF EmbedChunk, At, Parsing, Building, queue
  <2>2. Goto(w, "put") \/ Goto(w, "abort")
    BY <1>1 DEF EmbedChunk
  <2> QED BY <2>1, <2>2, GoesOn DEF BInv, Calls, Midway
<1>2. CASE PutChunk(w)
  <2>1. Parsing(w) /\ Building(w) /\ claim' = claim
    BY <1>2 DEF PutChunk, At, Parsing, Building, queue
  <2>2. work[w] \in WorkRow
    BY DEF BInv, WorkOK
  <2>3. /\ Stepped(work[w]) \in WorkRow
        /\ Stepped(work[w]).gen = work[w].gen
        /\ Stepped(work[w]).pc = "embed"
    BY <2>2, SteppedRow
  <2>4. work' = [work EXCEPT ![w] = Stepped(work[w])]
    BY <1>2 DEF PutChunk
  <2> QED BY <2>1, <2>3, <2>4 DEF Carries, Midway
<1>3. CASE PublishEvidenceGeneration(w)
  <2>1. Parsing(w) /\ Building(w)
    BY <1>3 DEF PublishEvidenceGeneration, At, Parsing, Building
  <2>2. claim' = claim
    BY <1>3, Zenon DEF PublishEvidenceGeneration, Enqueue, queue
  <2>3. Goto(w, "finish") \/ Goto(w, "abort")
    BY <1>3, Zenon DEF PublishEvidenceGeneration, Answer
  <2> QED BY <2>1, <2>2, <2>3, GoesOn DEF BInv, Calls, Midway
<1>4. CASE AbortEvidenceGeneration(w)
  BY <1>4, GoesOn DEF AbortEvidenceGeneration, BInv, Calls, Midway
<1> QED BY <1>1, <1>2, <1>3, <1>4

LEMMA GenerateCarries ==
    ASSUME BInv, NEW w \in Workers,
           GenerateWiki(w) \/ GenerateRepair(w)
    PROVE  Carries(w)
<1>1. page \in [Pages -> PageRow] /\ budget.pages \subseteq Pages
  BY DEF BInv, PageOK, BudgetOK, BudgetRow
<1>2. \A p \in Pages : page[p].cites \subseteq Evidence /\ page[p].rev \in 0..MaxRev
  BY <1>1 DEF PageRow
<1>3. CASE GenerateWiki(w)
  <2>1. CASE Patch(w, {}, 0, {})
    BY <2>1, GoesWith, Bounds DEF BInv
  <2>2. CASE Goto(w, "fail")
    BY <2>2, GoesOn DEF BInv, Calls, Midway
  <2>3. CASE ~Patch(w, {}, 0, {}) /\ ~Goto(w, "fail")
    <3> DEFINE s == SourceOf(w)
               shown == UNION {page[p].cites : p \in {q \in Pages : Valid(q)}}
               base(p) == IF Valid(p) THEN page[p].rev ELSE 0
    <3>1. /\ Fenced(w) /\ HasEvidence(s)
          /\ \E p \in budget.pages :
               \E cites \in SUBSET (shown \cup {<<s, doc[s].published>>}) :
                 Patch(w, {p}, base(p), cites)
      BY <1>3, <2>3, Zenon DEF GenerateWiki
    <3>2. PICK p \in budget.pages :
            \E cites \in SUBSET (shown \cup {<<s, doc[s].published>>}) :
               Patch(w, {p}, base(p), cites)
      BY <3>1
    <3>3. PICK cites \in SUBSET (shown \cup {<<s, doc[s].published>>}) :
             Patch(w, {p}, base(p), cites)
      BY <3>2
    <3>4. p \in Pages /\ <<s, doc[s].published>> \in Evidence
      BY <1>1, <3>1, HeldSource DEF HasEvidence, Evidence, Fenced, BInv
    <3>5. shown \subseteq Evidence /\ base(p) \in 0..MaxRev
      BY <1>2, <3>4, Bounds
    <3>6. cites \in SUBSET Evidence /\ {p} \in SUBSET Pages
      BY <3>3, <3>4, <3>5
    <3> QED BY <3>3, <3>5, <3>6, GoesWith DEF BInv
  <2> QED BY <2>1, <2>2, <2>3
<1>4. CASE GenerateRepair(w)
  <2>1. CASE Goto(w, "finish") \/ Goto(w, "fail")
    BY <2>1, GoesOn DEF BInv, Calls, Midway
  <2>2. CASE ~(Goto(w, "finish") \/ Goto(w, "fail"))
    <3> DEFINE stale == {p \in Pages : StaleFor(p, SourceOf(w))}
               shown == {c \in UNION {page[p].cites : p \in stale} : Usable(c)}
    <3>1. \E p \in stale, cites \in SUBSET shown :
            Patch(w, {p}, page[p].rev, cites)
      BY <1>4, <2>2, Zenon DEF GenerateRepair
    <3>2. PICK p \in stale, cites \in SUBSET shown :
            Patch(w, {p}, page[p].rev, cites)
      BY <3>1
    <3>3. shown \subseteq Evidence
      BY <1>2
    <3>4. p \in Pages /\ {p} \in SUBSET Pages /\ cites \in SUBSET Evidence
      BY <3>2, <3>3
    <3> QED BY <1>2, <3>2, <3>4, GoesWith DEF BInv
  <2> QED BY <2>1, <2>2
<1> QED BY <1>3, <1>4

LEMMA CheckCarries ==
    ASSUME BInv, NEW w \in Workers, CheckCitations(w)
    PROVE  Carries(w)
<1>1. CASE CanPatch(w)
  <2>1. \E more \in BOOLEAN :
          work' = [work EXCEPT ![w] =
                     [work[w] EXCEPT !.pc = "cite", !.more = more]]
    <3>1. OthersStale(w) \in BOOLEAN
      BY DEF OthersStale
    <3>2. work' = [work EXCEPT ![w] =
                     [work[w] EXCEPT !.pc = "cite", !.more = OthersStale(w)]]
      BY <1>1 DEF CheckCitations
    <3> QED BY <3>1, <3>2
  <2>2. PICK more \in BOOLEAN :
          work' = [work EXCEPT ![w] =
                     [work[w] EXCEPT !.pc = "cite", !.more = more]]
    BY <2>1
  <2> DEFINE row == [work[w] EXCEPT !.pc = "cite", !.more = more]
  <2>3. work[w] \in WorkRow
    BY DEF BInv, WorkOK
  <2>4. row \in WorkRow /\ row.pc = "cite" /\ row.cites = work[w].cites
    BY <2>3 DEF WorkRow, Calls
  <2>5. Checked(w) /\ claim' = claim
    BY <1>1 DEF Checked, CheckCitations, queue
  <2> QED BY <2>2, <2>4, <2>5 DEF Carries
<1>2. CASE ~CanPatch(w)
  <2>1. Goto(w, "fail")
    BY <1>2 DEF CheckCitations
  <2> QED BY <2>1, GoesOn DEF BInv, Calls, Midway
<1> QED BY <1>1, <1>2

LEMMA WorkerCarries ==
    ASSUME BInv, NEW w \in Workers, WorkerStep(w)
    PROVE  Carries(w)
<1>1. CASE Finish(w) \/ Skip(w) \/ MarkWikiFailed(w)
  BY <1>1, GoesIdle DEF Finish, Skip, MarkWikiFailed, BInv
<1>2. CASE RecoverRetry(w) \/ RecoverFail(w)
  <2>1. work' = work /\ At(w, "idle")
    BY <1>2 DEF RecoverRetry, RecoverFail
  <2>2. Goto(w, "idle")
    BY <2>1 DEF Goto, At, BInv, WorkOK, WorkRow
  <2> QED BY <2>2, GoesOn DEF BInv, Calls, Midway
<1>3. CASE LoadSource(w) \/ LookupSource(w) \/ OpenSource(w)
  <2>1. \E pc \in {"begin", "fail", "giveup", "skip", "lookup", "generate"} :
          Goto(w, pc)
    BY <1>3 DEF LoadSource, LookupSource, OpenSource
  <2> QED BY <2>1, GoesOn DEF BInv, Calls, Midway
<1>4. CASE DeleteSourceKnowledge(w)
  <2>1. Goto(w, "finish") \/ Goto(w, "fail")
    BY <1>4, Zenon DEF DeleteSourceKnowledge, Answer
  <2> QED BY <2>1, GoesOn DEF BInv, Calls, Midway
<1>5. CASE PublishWikiPatch(w)
  <2>1. Goto(w, "finish") \/ Goto(w, "fail") \/ Rest(w)
    BY <1>5, Zenon DEF PublishWikiPatch, Answer
  <2> QED BY <2>1, GoesOn, GoesIdle DEF BInv, Calls, Midway
<1>6. CASE Pick(w)
  BY <1>6, PickCarries
<1>7. CASE Fail(w)
  BY <1>7, FailCarries
<1>8. CASE BeginEvidenceGeneration(w)
  BY <1>8, BeginCarries
<1>9. CASE \/ EmbedChunk(w) \/ PutChunk(w) \/ PublishEvidenceGeneration(w)
           \/ AbortEvidenceGeneration(w)
  BY <1>9, ParseCarries
<1>10. CASE GenerateWiki(w) \/ GenerateRepair(w)
  BY <1>10, GenerateCarries
<1>11. CASE CheckCitations(w)
  BY <1>11, CheckCarries
<1> QED BY <1>1, <1>2, <1>3, <1>4, <1>5, <1>6, <1>7, <1>8, <1>9, <1>10, <1>11
        DEF WorkerStep

\* A step of one worker leaves the claims of the others alone.
LEMMA OthersClaims ==
    ASSUME NEW w \in Workers, WorkerStep(w), NEW v \in Workers, v # w
    PROVE  claim'[v] = claim[v]
<1>1. CASE claim' = claim
  BY <1>1
<1>2. CASE \E c : claim' = [claim EXCEPT ![w] = c]
  BY <1>2
<1>3. CASE Pick(w)
  BY <1>2, <1>3 DEF Pick, ClaimTask
<1>4. CASE Finish(w) \/ Skip(w) \/ Fail(w)
  BY <1>2, <1>4
  DEF Finish, Skip, Fail, FinishTask, SkipTask, FailTask, Settle
<1>5. CASE PublishWikiPatch(w)
  BY <1>1, <1>2, <1>5, Zenon
  DEF PublishWikiPatch, ContinueTask, Settle, queue
<1>6. CASE PublishEvidenceGeneration(w) \/ DeleteSourceKnowledge(w)
  BY <1>1, <1>6, Zenon
  DEF PublishEvidenceGeneration, DeleteSourceKnowledge, Enqueue, queue
<1>7. CASE RecoverRetry(w) \/ RecoverFail(w)
  BY <1>1, <1>7
  DEF RecoverRetry, RecoverFail, RequeueExpired, FailExhausted
<1>8. CASE \/ MarkWikiFailed(w) \/ LoadSource(w) \/ LookupSource(w)
           \/ BeginEvidenceGeneration(w) \/ EmbedChunk(w) \/ PutChunk(w)
           \/ AbortEvidenceGeneration(w) \/ OpenSource(w) \/ GenerateWiki(w)
           \/ GenerateRepair(w) \/ CheckCitations(w)
  <2>1. claim' = claim
    BY <1>8, Zenon
    DEF MarkWikiFailed, LoadSource, LookupSource, BeginEvidenceGeneration,
        EmbedChunk, PutChunk, AbortEvidenceGeneration, OpenSource,
        GenerateWiki, GenerateRepair, CheckCitations, queue
  <2> QED BY <1>1, <2>1
<1> QED BY <1>3, <1>4, <1>5, <1>6, <1>7, <1>8 DEF WorkerStep

\* Who builds a generation after a step has begun it in the step or built it
\* before, under the same claim.
GoesOnBuilding(v) ==
    Building(v)' => /\ Building(v)
                    /\ work'[v].gen = work[v].gen
                    /\ claim'[v] = claim[v]
                    /\ Parsing(v)' => Parsing(v)

\* Who is in the middle of a transaction has just checked its citations or was
\* there before.
HoldsOn(v) == work'[v].pc \in Midway => work'[v] = work[v] /\ claim'[v] = claim[v]

LEMMA WorkerBuilds ==
    ASSUME BInv, NEW w \in Workers, WorkerStep(w), NEW v \in Workers
    PROVE  /\ WorkOK'
           /\ GoesOnBuilding(v) \/ (v = w /\ Begun(w))
           /\ \/ HoldsOn(v)
              \/ /\ v = w /\ Checked(w) /\ claim' = claim
                 /\ work'[v].pc = "cite" /\ work'[v].cites = work[v].cites
<1>1. PICK row \in WorkRow :
        /\ work' = [work EXCEPT ![w] = row]
        /\ row.pc \in Midway =>
             /\ Checked(w) /\ claim' = claim
             /\ row.pc = "cite" /\ row.cites = work[w].cites
        /\ row.pc \in {"embed", "put", "abort"} =>
             \/ Begun(w)
             \/ /\ Building(w)
                /\ row.gen = work[w].gen
                /\ claim' = claim
                /\ row.pc \in {"embed", "put"} => Parsing(w)
  BY WorkerCarries DEF Carries
<1>2. work \in [Workers -> WorkRow]
  BY DEF BInv, WorkOK
<1>3. WorkOK'
  BY <1>1, <1>2 DEF WorkOK
<1>4. CASE v = w
  <2>1. work'[v] = row
    BY <1>1, <1>2, <1>4
  <2> QED BY <1>1, <1>3, <1>4, <2>1
          DEF GoesOnBuilding, Building, Parsing, HoldsOn
<1>5. CASE v # w
  <2>1. work'[v] = work[v] /\ claim'[v] = claim[v]
    BY <1>1, <1>2, <1>5, OthersClaims
  <2> QED BY <1>3, <2>1 DEF GoesOnBuilding, Building, Parsing, HoldsOn
<1> QED BY <1>4, <1>5

LEMMA OtherBuilds ==
    ASSUME BInv, Other, NEW v \in Workers
    PROVE  WorkOK' /\ GoesOnBuilding(v) /\ HoldsOn(v)
<1>1. CASE work' = work /\ UNCHANGED claim
  BY <1>1 DEF BInv, WorkOK, GoesOnBuilding, Building, Parsing, HoldsOn
<1>2. ASSUME NEW w \in Workers, Crash(w)
      PROVE  WorkOK' /\ GoesOnBuilding(v) /\ HoldsOn(v)
  <2>1. /\ work' = [work EXCEPT ![w] = Idle]
        /\ claim' = [claim EXCEPT ![w] = NoClaim]
    BY <1>2 DEF Crash, Rest, Forget
  <2>2. work \in [Workers -> WorkRow]
    BY DEF BInv, WorkOK
  <2>3. Idle \in WorkRow /\ Idle.pc = "idle"
    BY Nothings DEF Idle
  <2>4. WorkOK'
    BY <2>1, <2>2, <2>3 DEF WorkOK
  <2>5. CASE v = w
    <3>1. work'[v] = Idle
      BY <2>1, <2>2, <2>5
    <3> QED BY <2>3, <2>4, <3>1
            DEF GoesOnBuilding, Building, Parsing, HoldsOn, Midway
  <2>6. CASE v # w
    <3>1. work'[v] = work[v] /\ claim'[v] = claim[v]
      BY <2>1, <2>2, <2>6
    <3> QED BY <2>4, <3>1 DEF GoesOnBuilding, Building, Parsing, HoldsOn
  <2> QED BY <2>5, <2>6
<1> QED BY <1>1, <1>2, OtherSteps

----------------------------------------------------------------------------
(* Generations in the making.                                              *)

LEMMA Builder ==
    ASSUME BInv, NEW w \in Workers, Building(w)
    PROVE  /\ claim[w].id \in TaskIds
           /\ SourceOf(w) \in Sources
           /\ work[w].gen \in Gens
           /\ Whole(w) => work[w].gen <= doc[SourceOf(w)].gen
<1>1. /\ claim[w].id \in TaskIds /\ work[w].gen \in Gens
      /\ Whole(w) => work[w].gen <= doc[SourceOf(w)].gen
  BY DEF BInv, Owned
<1>2. SourceOf(w) \in Sources
  BY <1>1, HeldSource DEF BInv
<1> QED BY <1>1, <1>2

\* The source of a row that a worker holds does not change under it.
LEMMA SameRow ==
    ASSUME BInv, [Next]_vars, NEW w \in Workers, claim[w].id \in TaskIds,
           claim'[w] = claim[w]
    PROVE  SourceOf(w)' = SourceOf(w) /\ TypeOf(w)' = TypeOf(w)
<1>1. task'[claim[w].id].key = task[claim[w].id].key
  BY BaseDrivesQueue, KeysStay DEF BInv, QInv, Inserts
<1> QED BY <1>1 DEF SourceOf, TypeOf

LEMMA SameSource ==
    ASSUME BInv, [Next]_vars, NEW w \in Workers, Building(w),
           claim'[w] = claim[w]
    PROVE  SourceOf(w)' = SourceOf(w)
  BY Builder, SameRow

SameGens == \A s \in Sources : doc'[s].gen = doc[s].gen

LEMMA OwnedFrame ==
    ASSUME BInv, [Next]_vars, SameGens, torn' = torn,
           \A v \in Workers : GoesOnBuilding(v)
    PROVE  Owned'
<1>1. ASSUME NEW w \in Workers, Building(w)'
      PROVE  /\ claim'[w].id \in TaskIds
             /\ work'[w].gen \in Gens
             /\ Whole(w)' => work'[w].gen <= doc'[SourceOf(w)'].gen
             /\ Whole(w)' = Whole(w)
             /\ Building(w)
             /\ work'[w].gen = work[w].gen
             /\ SourceOf(w)' = SourceOf(w)
  <2>1. /\ Building(w)
        /\ work'[w].gen = work[w].gen
        /\ claim'[w] = claim[w]
    BY <1>1 DEF GoesOnBuilding
  <2>2. /\ SourceOf(w)' = SourceOf(w) /\ SourceOf(w) \in Sources
        /\ Whole(w)' = Whole(w)
    BY <2>1, SameSource, Builder DEF Whole
  <2>3. /\ claim[w].id \in TaskIds /\ work[w].gen \in Gens
        /\ Whole(w) => work[w].gen <= doc[SourceOf(w)].gen
    BY <2>1, Builder
  <2> QED BY <2>1, <2>2, <2>3 DEF SameGens
<1>2. ASSUME NEW v \in Workers, NEW w \in Workers, v # w, Building(v)',
             Building(w)', SourceOf(v)' = SourceOf(w)', Whole(w)'
      PROVE  work'[v].gen # work'[w].gen
  BY <1>1, <1>2 DEF BInv, Owned
<1> QED BY <1>1, <1>2 DEF Owned

\* A step that settles no generation but those nobody parses into.
LEMMA FreshFrame ==
    ASSUME BInv, [Next]_vars, torn' = torn,
           \A v \in Workers : GoesOnBuilding(v),
           \A v \in Workers :
              Parsing(v) /\ Parsing(v)' /\ Whole(v)
              /\ evidence'[SourceOf(v)][work[v].gen].state \in Settled
              => evidence[SourceOf(v)][work[v].gen].state \in Settled
    PROVE  Fresh'
<1> SUFFICES ASSUME NEW v \in Workers, Parsing(v)', Whole(v)'
             PROVE  evidence'[SourceOf(v)'][work'[v].gen].state \notin Settled
  BY DEF Fresh
<1>1. /\ Building(v) /\ Parsing(v)
      /\ work'[v].gen = work[v].gen /\ claim'[v] = claim[v]
  BY DEF GoesOnBuilding, Building
<1>2. SourceOf(v)' = SourceOf(v) /\ Whole(v)
  BY <1>1, SameSource DEF Whole
<1>3. evidence[SourceOf(v)][work[v].gen].state \notin Settled
  BY <1>1, <1>2 DEF BInv, Fresh
<1> QED BY <1>1, <1>2, <1>3

LEMMA UntouchedFrame ==
    ASSUME BInv, SameGens, torn' = torn,
           \A s \in Sources \ torn, g \in Gens :
              evidence[s][g].state = "NONE" /\ evidence'[s][g].state # "NONE"
              => g <= doc[s].gen
    PROVE  Untouched'
<1> SUFFICES ASSUME NEW s \in Sources \ torn, NEW g \in Gens, g > doc'[s].gen
             PROVE  evidence'[s][g].state = "NONE"
  BY DEF Untouched
<1>1. doc[s].gen \in Nat /\ g \in Nat
  BY Bounds DEF BInv, DocOK, DocRow, Gens
<1>2. g > doc[s].gen /\ ~(g <= doc[s].gen)
  BY <1>1 DEF SameGens
<1> QED BY <1>2 DEF BInv, Untouched

----------------------------------------------------------------------------
(* The document table.                                                     *)

Evidences == {"none", "EXTRACTING", "READY", "FAILED", "DELETED"}
Wikis == {"none", "PENDING", "READY", "FAILED", "STALE"}
SameGen(row, r) == r \in DocRow /\ r.gen = row.gen

LEMMA DocRows ==
    ASSUME NEW row \in DocRow
    PROVE  /\ row.evidence \in Evidences
           /\ row.wiki \in Wikis
           /\ \A k \in Wikis : SameGen(row, [row EXCEPT !.wiki = k])
           /\ \A e \in Evidences : SameGen(row, [row EXCEPT !.evidence = e])
           /\ \A e \in Evidences, k \in Wikis :
                SameGen(row, [row EXCEPT !.evidence = e, !.wiki = k])
           /\ \A n \in Gens, e \in Evidences :
                SameGen(row, [row EXCEPT !.published = n, !.evidence = e])
<1> USE DEF DocRow, Evidences, Wikis, SameGen
<1>1. row.evidence \in Evidences /\ row.wiki \in Wikis
  OBVIOUS
<1>2. ASSUME NEW k \in Wikis
      PROVE  SameGen(row, [row EXCEPT !.wiki = k])
  OBVIOUS
<1>3. ASSUME NEW e \in Evidences
      PROVE  SameGen(row, [row EXCEPT !.evidence = e])
  OBVIOUS
<1>4. ASSUME NEW e \in Evidences, NEW k \in Wikis
      PROVE  SameGen(row, [row EXCEPT !.evidence = e, !.wiki = k])
  OBVIOUS
<1>5. ASSUME NEW n \in Gens, NEW e \in Evidences
      PROVE  SameGen(row, [row EXCEPT !.published = n, !.evidence = e])
  <2>1. n \in 0..MaxGen
    BY Bounds DEF Gens
  <2> QED BY <2>1
<1> QED BY <1>1, <1>2, <1>3, <1>4, <1>5, Zenon

\* The row of one document changes, to one of the same generation.
OneDoc(s) ==
    \E row : SameGen(doc[s], row) /\ doc' = [doc EXCEPT ![s] = row]

LEMMA OneDocKeeps ==
    ASSUME DocOK, NEW s \in Sources, OneDoc(s)
    PROVE  DocOK' /\ SameGens
  BY DEF DocOK, OneDoc, SameGens, SameGen

LEMMA RecoveredDocs ==
    ASSUME BInv, NEW w \in Workers, MarkWikiFailed(w) \/ RecoverFail(w)
    PROVE  DocOK' /\ SameGens
<1>1. \A s \in Sources : doc[s] \in DocRow
  BY DEF BInv, DocOK
<1>2. "FAILED" \in Wikis
  BY DEF Wikis
<1>3. CASE MarkWikiFailed(w)
  <2>1. ASSUME NEW s \in Sources
        PROVE  doc'[s] \in DocRow /\ doc'[s].gen = doc[s].gen
    <3>1. doc'[s] = doc[s] \/ doc'[s] = [doc[s] EXCEPT !.wiki = "FAILED"]
      BY <1>3 DEF MarkWikiFailed
    <3>2. SameGen(doc[s], [doc[s] EXCEPT !.wiki = "FAILED"])
      BY <1>1, <1>2, DocRows, Zenon
    <3> QED BY <1>1, <3>1, <3>2 DEF SameGen
  <2>2. doc' = [s \in Sources |-> doc'[s]]
    BY <1>3 DEF MarkWikiFailed
  <2> QED BY <2>1, <2>2 DEF DocOK, SameGens
<1>4. CASE RecoverFail(w)
  <2> DEFINE about(s, types) ==
               \E i \in TaskIds, t \in types :
                   Exhausted(i) /\ task[i].key = <<s, t>>
             e(s) == IF about(s, {"parse_source"}) THEN "FAILED"
                     ELSE doc[s].evidence
             k(s) == IF about(s, {"compile_wiki", "repair_wiki"}) THEN "FAILED"
                     ELSE doc[s].wiki
  <2>1. doc' = [s \in Sources |->
                  IF doc[s] = NoDoc THEN NoDoc
                  ELSE [doc[s] EXCEPT !.evidence = e(s), !.wiki = k(s)]]
    BY <1>4 DEF RecoverFail
  <2>2. ASSUME NEW s \in Sources
        PROVE  doc'[s] \in DocRow /\ doc'[s].gen = doc[s].gen
    <3> HIDE DEF about
    <3>1. doc[s].evidence \in Evidences /\ doc[s].wiki \in Wikis
      BY <1>1, DocRows
    <3>2. e(s) \in Evidences /\ k(s) \in Wikis
      BY <3>1 DEF Evidences, Wikis
    <3> HIDE DEF e, k
    <3>3. \/ doc'[s] = doc[s]
          \/ doc'[s] = [doc[s] EXCEPT !.evidence = e(s), !.wiki = k(s)]
      BY <2>1
    <3>4. SameGen(doc[s], [doc[s] EXCEPT !.evidence = e(s), !.wiki = k(s)])
      BY <1>1, <3>2, DocRows, Zenon
    <3> QED BY <1>1, <3>3, <3>4 DEF SameGen
  <2>3. doc' = [s \in Sources |-> doc'[s]]
    BY <2>1
  <2> QED BY <2>2, <2>3 DEF DocOK, SameGens
<1> QED BY <1>3, <1>4

LEMMA ParsedDocs ==
    ASSUME BInv, NEW w \in Workers,
           PublishEvidenceGeneration(w) \/ AbortEvidenceGeneration(w)
    PROVE  DocOK' /\ SameGens
<1> DEFINE s == SourceOf(w)
<1>1. Building(w)
  BY DEF PublishEvidenceGeneration, AbortEvidenceGeneration, At, Building,
         Parsing
<1>2. s \in Sources /\ doc[s] \in DocRow /\ work[w].gen \in Gens
  BY <1>1, Builder DEF BInv, DocOK
<1>3. CASE doc' = doc
  BY <1>3 DEF BInv, DocOK, SameGens
<1>4. CASE PublishEvidenceGeneration(w) /\ CanPublish(w)
  <2>1. doc' = [doc EXCEPT ![s] =
                  [doc[s] EXCEPT !.published = work[w].gen, !.evidence = "READY"]]
    BY <1>4 DEF PublishEvidenceGeneration
  <2>2. SameGen(doc[s], [doc[s] EXCEPT !.published = work[w].gen,
                                       !.evidence = "READY"])
    BY <1>2, DocRows, Zenon DEF Evidences
  <2>3. OneDoc(s)
    BY <2>1, <2>2, Zenon DEF OneDoc
  <2> QED BY <1>2, <2>3, OneDocKeeps DEF BInv
<1>5. CASE PublishEvidenceGeneration(w) /\ ~CanPublish(w)
  BY <1>3, <1>5, Zenon DEF PublishEvidenceGeneration
<1>6. CASE AbortEvidenceGeneration(w)
  <2>1. \/ doc' = [doc EXCEPT ![s] = doc[s]]
        \/ doc' = [doc EXCEPT ![s] = [doc[s] EXCEPT !.evidence = "FAILED"]]
        \/ doc' = [doc EXCEPT ![s] = [doc[s] EXCEPT !.evidence = "DELETED",
                                                    !.wiki = "STALE"]]
    BY <1>6 DEF AbortEvidenceGeneration, ParseFailed, SourceGone
  <2>2. /\ SameGen(doc[s], doc[s])
        /\ SameGen(doc[s], [doc[s] EXCEPT !.evidence = "FAILED"])
        /\ SameGen(doc[s], [doc[s] EXCEPT !.evidence = "DELETED",
                                          !.wiki = "STALE"])
    BY <1>2 DEF SameGen, DocRow
  <2>3. OneDoc(s)
    BY <2>1, <2>2, Zenon DEF OneDoc
  <2> QED BY <1>2, <2>3, OneDocKeeps DEF BInv
<1> QED BY <1>4, <1>5, <1>6

LEMMA RemovedDocs ==
    ASSUME BInv, NEW w \in Workers,
           DeleteSourceKnowledge(w) \/ PublishWikiPatch(w)
    PROVE  DocOK' /\ SameGens
<1> DEFINE s == SourceOf(w)
<1>1. CASE doc' = doc
  BY <1>1 DEF BInv, DocOK, SameGens
<1>2. ASSUME Fenced(w)
      PROVE  s \in Sources /\ doc[s] \in DocRow
  BY <1>2, HeldSource DEF Fenced, BInv, DocOK
<1>3. CASE DeleteSourceKnowledge(w) /\ doc' # doc
  <2>1. /\ Fenced(w)
        /\ doc' = [doc EXCEPT ![s] =
             IF doc[s] = NoDoc THEN doc[s]
             ELSE [doc[s] EXCEPT !.evidence = "DELETED", !.wiki = "STALE"]]
    BY <1>3 DEF DeleteSourceKnowledge, SourceGone
  <2>2. /\ SameGen(doc[s], doc[s])
        /\ SameGen(doc[s], [doc[s] EXCEPT !.evidence = "DELETED",
                                          !.wiki = "STALE"])
    BY <1>2, <2>1 DEF SameGen, DocRow
  <2>3. OneDoc(s)
    BY <2>1, <2>2 DEF OneDoc
  <2> QED BY <1>2, <2>1, <2>3, OneDocKeeps DEF BInv
<1>4. CASE PublishWikiPatch(w) /\ doc' # doc
  <2> DEFINE k == IF Repairing(w) \/ doc[s].evidence = "DELETED"
                  THEN doc[s].wiki ELSE WikiState
  <2>1. Fenced(w)
    BY <1>4, Zenon DEF PublishWikiPatch
  <2>2. doc' = [doc EXCEPT ![s].wiki = k]
    BY <1>4 DEF PublishWikiPatch
  <2>3. k \in Wikis
    <3>1. doc[s].wiki \in Wikis
      BY <1>2, <2>1, DocRows
    <3> QED BY <3>1 DEF Wikis, WikiState
  <2> HIDE DEF k
  <2>4. doc' = [doc EXCEPT ![s] = [doc[s] EXCEPT !.wiki = k]]
    BY <2>2
  <2>5. SameGen(doc[s], [doc[s] EXCEPT !.wiki = k])
    BY <1>2, <2>1, <2>3, DocRows, Zenon
  <2>6. OneDoc(s)
    BY <2>4, <2>5, Zenon DEF OneDoc
  <2> QED BY <1>2, <2>1, <2>6, OneDocKeeps DEF BInv
<1> QED BY <1>1, <1>3, <1>4

LEMMA DocsKept ==
    ASSUME BInv, NEW w \in Workers, WorkerStep(w), ~Begun(w)
    PROVE  DocOK' /\ SameGens
<1>1. CASE doc' = doc
  BY <1>1 DEF BInv, DocOK, SameGens
<1>2. CASE BeginEvidenceGeneration(w)
  <2>1. ~(Fenced(w) /\ SourceOf(w) \in relation)
    BY <1>2 DEF Begun
  <2>2. doc' = doc
    BY <1>2, <2>1, Zenon DEF BeginEvidenceGeneration
  <2> QED BY <1>1, <2>2
<1>3. doc' = doc \/ DocStep(w)
  BY WorkerTables
<1> QED BY <1>1, <1>2, <1>3, RecoveredDocs, ParsedDocs, RemovedDocs, Zenon
        DEF DocStep

----------------------------------------------------------------------------
(* A generation begins.                                                    *)

LEMMA ExtractingRow ==
    ASSUME NEW row \in DocRow, NEW g \in 0..MaxGen
    PROVE  Extracting(row, g) \in DocRow /\ Extracting(row, g).gen = g
<1>1. ASSUME NEW k \in Wikis
      PROVE  LET r == [row EXCEPT !.gen = g, !.evidence = "EXTRACTING",
                                  !.wiki = k]
             IN  r \in DocRow /\ r.gen = g
  BY DEF DocRow, Wikis
<1>2. (IF row.wiki = "none" THEN "PENDING" ELSE row.wiki) \in Wikis
  BY DEF DocRow, Wikis
<1> QED BY <1>1, <1>2, Zenon DEF Extracting

LEMMA BeginKeeps ==
    ASSUME BInv, [Next]_vars, NEW w \in Workers, WorkerStep(w), Begun(w)
    PROVE  DocOK' /\ Owned' /\ Fresh' /\ Untouched'
<1> DEFINE s == SourceOf(w)
           g == NextGeneration(s)
<1>1. /\ g \in Gens
      /\ doc' = [doc EXCEPT ![s] = Extracting(doc[s], g)]
      /\ work' = [work EXCEPT ![w] =
                    [work[w] EXCEPT !.pc = "embed", !.gen = g, !.n = 0]]
      /\ UNCHANGED <<queue, evidence, torn>>
  BY DEF Begun, BeginEvidenceGeneration, history
<1>2. /\ claim[w].id \in TaskIds
      /\ s \in Sources /\ doc[s] \in DocRow
  BY HeldSource DEF Begun, Fenced, BInv, DocOK
<1>3. \A v \in Workers : /\ SourceOf(v)' = SourceOf(v) /\ claim'[v] = claim[v]
                         /\ Whole(v)' = Whole(v)
  BY <1>1 DEF queue, SourceOf, Whole
<1>4. /\ \A t \in Sources : doc[t].gen \in Nat
      /\ g = doc[s].gen + 1
  BY DEF BInv, DocOK, DocRow, NextGeneration
<1>5. /\ DocOK'
      /\ doc'[s].gen = g
      /\ \A t \in Sources : t # s => doc'[t].gen = doc[t].gen
  <2>1. Extracting(doc[s], g) \in DocRow /\ Extracting(doc[s], g).gen = g
    BY <1>1, <1>2, ExtractingRow, Bounds DEF Gens
  <2> HIDE DEF g
  <2> QED BY <1>1, <1>2, <2>1 DEF BInv, DocOK
<1>6. \A t \in Sources : doc[t].gen <= doc'[t].gen /\ doc'[t].gen \in Nat
  BY <1>4, <1>5
<1>7. work'[w].gen = g
  BY <1>1 DEF BInv, WorkOK, WorkRow
<1>8. ASSUME NEW v \in Workers, v # w, Building(v)'
      PROVE  /\ Building(v) /\ work'[v].gen = work[v].gen
             /\ SourceOf(v) \in Sources
             /\ work[v].gen \in Gens
             /\ Whole(v) => work[v].gen <= doc[SourceOf(v)].gen
             /\ claim[v].id \in TaskIds
             /\ Parsing(v)' => Parsing(v)
  <2>1. /\ Building(v) /\ work'[v].gen = work[v].gen
        /\ Parsing(v)' => Parsing(v)
    BY <1>8, WorkerBuilds DEF GoesOnBuilding
  <2> QED BY <2>1, Builder
<1>9. ASSUME NEW v \in Workers, Building(v)'
      PROVE  /\ claim'[v].id \in TaskIds
             /\ work'[v].gen \in Gens
             /\ Whole(v)' => work'[v].gen <= doc'[SourceOf(v)'].gen
  <2>1. CASE v = w
    <3>1. g <= g
      BY <1>2, <1>4
    <3> HIDE DEF g
    <3> QED BY <1>1, <1>2, <1>3, <1>5, <1>7, <2>1, <3>1
  <2>2. CASE v # w
    <3>1. /\ SourceOf(v) \in Sources /\ work'[v].gen = work[v].gen
          /\ work[v].gen \in Gens
          /\ Whole(v) => work[v].gen <= doc[SourceOf(v)].gen
          /\ claim[v].id \in TaskIds
      BY <1>8, <1>9, <2>2
    <3>2. Whole(v) => work[v].gen <= doc'[SourceOf(v)].gen
      BY <1>4, <1>6, <3>1 DEF Gens
    <3> QED BY <1>3, <3>1, <3>2
  <2> QED BY <2>1, <2>2
\* Nobody else builds the new generation.
<1>10. ASSUME NEW v \in Workers, v # w, Building(v)', SourceOf(v)' = s,
              Whole(v)
       PROVE  work'[v].gen # g
  <2>1. /\ work'[v].gen = work[v].gen
        /\ work[v].gen \in Gens /\ work[v].gen <= doc[s].gen
    BY <1>3, <1>8, <1>10
  <2> QED BY <1>2, <1>4, <2>1 DEF Gens
<1>11. Owned'
  <2>1. ASSUME NEW v \in Workers, NEW x \in Workers, v # x, Building(v)',
               Building(x)', SourceOf(v)' = SourceOf(x)', Whole(x)'
        PROVE  work'[v].gen # work'[x].gen
    <3> Whole(v) /\ Whole(x)
      BY <1>3, <2>1 DEF Whole
    <3>1. CASE v = w \/ x = w
      BY <1>3, <1>7, <1>10, <2>1, <3>1
    <3>2. CASE v # w /\ x # w
      <4>1. /\ Building(v) /\ Building(x)
            /\ work'[v].gen = work[v].gen /\ work'[x].gen = work[x].gen
            /\ SourceOf(v) = SourceOf(x)
        BY <1>3, <1>8, <2>1, <3>2
      <4> QED BY <2>1, <4>1 DEF BInv, Owned
    <3> QED BY <3>1, <3>2
  <2> QED BY <1>9, <2>1 DEF Owned
<1>12. Fresh'
  <2> SUFFICES ASSUME NEW v \in Workers, Parsing(v)', Whole(v)'
               PROVE  evidence'[SourceOf(v)'][work'[v].gen].state \notin Settled
    BY DEF Fresh
  <2> Whole(v)
    BY <1>3
  <2>1. CASE v = w
    <3>1. g > doc[s].gen
      BY <1>2, <1>4
    <3>2. evidence[s][g].state = "NONE"
      BY <1>1, <1>2, <2>1, <3>1 DEF BInv, Untouched, Whole
    <3> QED BY <1>1, <1>3, <1>7, <2>1, <3>2 DEF Settled
  <2>2. CASE v # w
    <3>1. Parsing(v) /\ work'[v].gen = work[v].gen
      BY <1>8, <2>2 DEF Building
    <3> QED BY <1>1, <1>3, <3>1 DEF BInv, Fresh
  <2> QED BY <2>1, <2>2
<1>13. Untouched'
  <2> SUFFICES ASSUME NEW t \in Sources \ torn, NEW h \in Gens,
                      h > doc'[t].gen
               PROVE  evidence'[t][h].state = "NONE"
    BY <1>1 DEF Untouched
  <2>1. h \in Nat
    BY DEF Gens
  <2>2. h > doc[t].gen
    BY <1>4, <1>6, <2>1
  <2> QED BY <1>1, <2>2 DEF BInv, Untouched
<1> QED BY <1>5, <1>11, <1>12, <1>13

----------------------------------------------------------------------------
(* The evidence.                                                           *)

\* What PublishedKept asks of a step.
Stays ==
    \A s \in Sources \ torn, g \in Gens :
        evidence[s][g].state = "PUBLISHED" =>
           \/ evidence'[s][g].state = "PUBLISHED"
           \/ \E h \in Gens : h > g /\ evidence'[s][h].state = "PUBLISHED"
           \/ s \notin relation

\* A step that makes nothing settled and unsettles nothing.
Tame ==
    \A s \in Sources \ torn, g \in Gens :
        \/ evidence'[s][g].state = evidence[s][g].state
        \/ /\ evidence[s][g].state \notin Settled
           /\ evidence'[s][g].state \notin Settled
           /\ g <= doc[s].gen

LEMMA TameKeeps ==
    ASSUME BInv, [Next]_vars, SameGens, torn' = torn,
           \A v \in Workers : GoesOnBuilding(v), Tame
    PROVE  Fresh' /\ Untouched' /\ OneGeneration' /\ Stays
<1>1. Fresh'
  <2>1. ASSUME NEW v \in Workers, Parsing(v), Whole(v),
               evidence'[SourceOf(v)][work[v].gen].state \in Settled
        PROVE  evidence[SourceOf(v)][work[v].gen].state \in Settled
    <3>1. SourceOf(v) \in Sources \ torn /\ work[v].gen \in Gens
      BY <2>1, Builder DEF Building, Whole
    <3> QED BY <2>1, <3>1 DEF Tame
  <2> QED BY <2>1, FreshFrame
<1>2. Untouched'
  BY UntouchedFrame DEF Tame
<1>3. OneGeneration'
  BY DEF Tame, BInv, OneGeneration, OnePublished, Settled
<1>4. Stays
  BY DEF Tame, Stays, Settled
<1> QED BY <1>1, <1>2, <1>3, <1>4

\* What is settled stays so, unless it was torn.
StaysSettled ==
    \A s \in Sources \ torn, g \in Gens :
        evidence[s][g].state \in Settled => evidence'[s][g].state \in Settled

LEMMA CitableStays ==
    ASSUME torn' = torn, overtaken \subseteq overtaken', StaysSettled,
           NEW c \in Evidence, Citable(c)
    PROVE  Citable(c)'
<1>1. c[1] \in Sources /\ c[2] \in Gens
  BY DEF Evidence
<1> QED BY <1>1 DEF Citable, Kept, StaysSettled, Settled

\* A worker is where it was in its transaction, or has just checked what it
\* cites.
TaskMoves(v) ==
    \/ HoldsOn(v)
    \/ /\ work'[v].pc = "cite" /\ claim'[v].id \in TaskIds
       /\ \A c \in work'[v].cites : c \in Evidence /\ Usable(c)

LEMMA WorkerMoves ==
    ASSUME BInv, NEW w \in Workers, WorkerStep(w), NEW v \in Workers
    PROVE  TaskMoves(v) /\ (~Checked(w) => HoldsOn(v))
<1>1. CASE HoldsOn(v)
  BY <1>1 DEF TaskMoves
<1>2. CASE /\ v = w /\ Checked(w) /\ claim' = claim
           /\ work'[v].pc = "cite" /\ work'[v].cites = work[v].cites
  <2>1. Fenced(w) /\ StillCitable(w)
    BY <1>2 DEF Checked, CanPatch
  <2>2. claim[w].id \in TaskIds /\ \A c \in work[w].cites : Usable(c)
    BY <2>1 DEF Fenced, StillCitable
  <2>3. work[w].cites \subseteq Evidence
    BY DEF BInv, WorkOK, WorkRow
  <2> QED BY <1>2, <2>2, <2>3 DEF TaskMoves
<1> QED BY <1>1, <1>2, WorkerBuilds

LEMMA MidwayFrame ==
    ASSUME BInv, [Next]_vars, torn' = torn,
           \A v \in Workers : TaskMoves(v)
    PROVE  InHand' /\ Torn'
<1>1. ASSUME NEW v \in Workers, HoldsOn(v), work'[v].pc \in Midway
      PROVE  /\ claim'[v].id \in TaskIds
             /\ work'[v] = work[v]
             /\ SourceOf(v)' = SourceOf(v)
  <2>1. work'[v] = work[v] /\ claim'[v] = claim[v]
    BY <1>1 DEF HoldsOn
  <2>2. claim[v].id \in TaskIds
    BY <1>1, <2>1 DEF BInv, InHand, Midway
  <2> QED BY <2>1, <2>2, SameRow
<1>2. InHand'
  BY <1>1 DEF InHand, Midway, TaskMoves
<1>3. Torn'
  BY <1>1 DEF Torn, At, Midway, BInv, TaskMoves
<1> QED BY <1>2, <1>3

LEMMA CitingFrame ==
    ASSUME BInv, torn' = torn, overtaken \subseteq overtaken', StaysSettled,
           \A v \in Workers : TaskMoves(v)
    PROVE  Citing'
<1> SUFFICES ASSUME NEW v \in Workers, At(v, "cite")', NEW c \in work'[v].cites
             PROVE  Citable(c)'
  BY DEF Citing
<1>1. CASE HoldsOn(v)
  <2>1. work'[v] = work[v] /\ At(v, "cite")
    BY <1>1 DEF HoldsOn, At, Midway
  <2>2. c \in Evidence /\ Citable(c)
    BY <2>1 DEF BInv, WorkOK, WorkRow, Citing
  <2> QED BY <2>2, CitableStays
<1>2. CASE ~HoldsOn(v)
  <2>1. c \in Evidence /\ Usable(c)
    BY <1>2 DEF TaskMoves
  <2> QED BY <2>1, CitableStays DEF Usable, Citable, Kept
<1> QED BY <1>1, <1>2

LEMMA PagesFrame ==
    ASSUME BInv, page' = page, torn' = torn, overtaken \subseteq overtaken',
           StaysSettled
    PROVE  DeletedNotCited'
<1> SUFFICES ASSUME NEW p \in Pages \ torn, NEW c \in page[p].cites
             PROVE  Citable(c)'
  BY DEF DeletedNotCited, Citable
<1>1. c \in Evidence /\ Citable(c)
  BY DEF BInv, PageOK, PageRow, DeletedNotCited, Citable
<1> QED BY <1>1, CitableStays

\* Only one row of the evidence changes.
OneRow(s, g, row) ==
    /\ row \in GenRow
    /\ evidence' = [evidence EXCEPT ![s][g] = row]

LEMMA OneRowChanges ==
    ASSUME EvidenceOK, NEW s \in Sources, NEW g \in Gens, NEW row,
           OneRow(s, g, row)
    PROVE  /\ EvidenceOK'
           /\ evidence'[s][g] = row
           /\ \A t \in Sources, h \in Gens :
                t # s \/ h # g => evidence'[t][h] = evidence[t][h]
  BY DEF EvidenceOK, OneRow

LEMMA StagedRow ==
    ASSUME NEW row \in GenRow
    PROVE  Staged(row) \in GenRow /\ Staged(row).state = "STAGING"
<1>1. (IF row.state = "STAGING" THEN row.rows + 1 ELSE 1) \in Nat
  BY DEF GenRow
<1> QED BY <1>1 DEF Staged, GenRow

LEMMA CleanedRow ==
    ASSUME NEW row \in GenRow
    PROVE  /\ Cleaned(row) \in GenRow
           /\ \/ Cleaned(row).state = row.state
              \/ row.state = "STAGING" /\ Cleaned(row).state = "DELETED"
  BY DEF Cleaned, GenRow

\* The steps of workers and of others that tear nothing.
Steady ==
    /\ SameGens
    /\ torn' = torn /\ overtaken \subseteq overtaken'
    /\ \A v \in Workers : GoesOnBuilding(v) /\ TaskMoves(v)

LEMMA BuildingKeeps ==
    ASSUME BInv, [Next]_vars, Steady,
           NEW w \in Workers, PutChunk(w) \/ AbortEvidenceGeneration(w)
    PROVE  /\ EvidenceOK' /\ Tame
           /\ Fresh' /\ Untouched' /\ OneGeneration' /\ Stays
           /\ Citing' /\ DeletedNotCited'
<1> DEFINE s == SourceOf(w)
           g == work[w].gen
<1>1. Building(w)
  BY DEF PutChunk, AbortEvidenceGeneration, At, Building, Parsing
<1>2. /\ s \in Sources /\ g \in Gens /\ (s \notin torn => g <= doc[s].gen)
      /\ evidence[s][g] \in GenRow
  BY <1>1, Builder DEF BInv, EvidenceOK, Whole
<1>3. \E row : /\ OneRow(s, g, row)
               /\ \/ s \in torn
                  \/ row.state = evidence[s][g].state
                  \/ /\ evidence[s][g].state \notin Settled
                     /\ row.state \notin Settled
  <2>1. CASE PutChunk(w)
    <3>1. s \in torn \/ evidence[s][g].state \notin Settled
      BY <2>1 DEF PutChunk, At, Parsing, BInv, Fresh, Whole
    <3>2. evidence' = [evidence EXCEPT ![s][g] = Staged(evidence[s][g])]
      BY <1>2, <2>1 DEF PutChunk, BInv, EvidenceOK
    <3> QED BY <1>2, <3>1, <3>2, StagedRow DEF OneRow, Settled
  <2>2. CASE AbortEvidenceGeneration(w)
    <3>1. evidence' = [evidence EXCEPT ![s][g] = Cleaned(evidence[s][g])]
      BY <1>2, <2>2 DEF AbortEvidenceGeneration, BInv, EvidenceOK
    <3> QED BY <1>2, <3>1, CleanedRow DEF OneRow, Settled
  <2> QED BY <2>1, <2>2
<1>4. EvidenceOK' /\ Tame
  BY <1>2, <1>3, OneRowChanges DEF BInv, Tame
<1>5. page' = page /\ StaysSettled
  BY <1>4 DEF PutChunk, AbortEvidenceGeneration, Tame, StaysSettled
<1>6. Citing' /\ DeletedNotCited'
  BY <1>5, CitingFrame, PagesFrame DEF Steady
<1> QED BY <1>4, <1>6, TameKeeps DEF Steady

LEMMA SupersededRow ==
    ASSUME NEW row \in GenRow
    PROVE  /\ Superseded(row) \in GenRow
           /\ Superseded(row).state # "PUBLISHED"
           /\ row.state \notin Settled => Superseded(row).state = row.state
           /\ row.state \in Settled => Superseded(row).state \in Settled
  BY DEF Superseded, GenRow, Settled

LEMMA PublishKeeps ==
    ASSUME BInv, [Next]_vars, Steady,
           NEW w \in Workers, WorkerStep(w), PublishEvidenceGeneration(w),
           CanPublish(w)
    PROVE  /\ EvidenceOK'
           /\ Fresh' /\ Untouched' /\ OneGeneration' /\ Stays
           /\ Citing' /\ DeletedNotCited'
<1> DEFINE s == SourceOf(w)
           g == work[w].gen
<1>1. Building(w) /\ Parsing(w)
  BY DEF PublishEvidenceGeneration, At, Building, Parsing
<1>2. /\ s \in Sources /\ g \in Gens
      /\ doc[s].gen = g /\ evidence[s][g].state = "STAGING"
  BY <1>1, Builder DEF CanPublish, Complete
<1>3. evidence' = [evidence EXCEPT ![s] = Publishing(evidence[s], g)]
  BY DEF PublishEvidenceGeneration
<1>4. \A t \in Sources, h \in Gens : evidence[t][h] \in GenRow
  BY DEF BInv, EvidenceOK
<1>5. Publishing(evidence[s], g) \in [Gens -> GenRow]
  <2>1. [evidence[s][g] EXCEPT !.state = "PUBLISHED"] \in GenRow
    BY <1>2, <1>4 DEF GenRow
  <2>2. \A h \in Gens : Superseded(evidence[s][h]) \in GenRow
    BY <1>2, <1>4, SupersededRow
  <2> QED BY <2>1, <2>2 DEF Publishing
<1>6. /\ evidence'[s][g].state = "PUBLISHED"
      /\ \A h \in Gens : h # g => evidence'[s][h] = Superseded(evidence[s][h])
      /\ \A t \in Sources : t # s => evidence'[t] = evidence[t]
  <2>1. evidence'[s] = Publishing(evidence[s], g)
    BY <1>2, <1>3 DEF BInv, EvidenceOK
  <2>2. [evidence[s][g] EXCEPT !.state = "PUBLISHED"].state = "PUBLISHED"
    BY <1>2, <1>4 DEF GenRow
  <2> QED BY <1>2, <1>3, <2>1, <2>2 DEF Publishing, BInv, EvidenceOK
<1>7. EvidenceOK'
  BY <1>2, <1>3, <1>5 DEF BInv, EvidenceOK
\* Nothing but the published generation is settled, and settled ones stay so.
<1>8. ASSUME NEW t \in Sources, NEW h \in Gens
      PROVE  /\ evidence[t][h].state \in Settled
                => evidence'[t][h].state \in Settled
             /\ evidence'[t][h].state \in Settled
                => evidence[t][h].state \in Settled \/ (t = s /\ h = g)
  BY <1>4, <1>6, SupersededRow DEF Settled
<1>9. Fresh'
  <2>1. ~Parsing(w)'
    <3>1. Goto(w, "finish") \/ Goto(w, "abort")
      BY Zenon DEF PublishEvidenceGeneration, Answer
    <3>2. work'[w].pc \in {"finish", "abort"}
      BY <3>1 DEF Goto, BInv, WorkOK, WorkRow
    <3> QED BY <3>2 DEF Parsing
  <2>2. ASSUME NEW v \in Workers, Parsing(v), Parsing(v)', Whole(v),
               evidence'[SourceOf(v)][work[v].gen].state \in Settled
        PROVE  evidence[SourceOf(v)][work[v].gen].state \in Settled
    <3>1. v # w
      BY <2>1, <2>2
    <3>2. SourceOf(v) # s \/ work[v].gen # g
      BY <1>1, <2>2, <3>1 DEF BInv, Owned, Building
    <3>3. SourceOf(v) \in Sources /\ work[v].gen \in Gens
      BY <2>2, Builder DEF Building
    <3> QED BY <1>8, <2>2, <3>2, <3>3
  <2> QED BY <2>2, FreshFrame DEF Steady
<1>10. Untouched'
  <2>1. ASSUME NEW t \in Sources, NEW h \in Gens,
               evidence[t][h].state = "NONE", evidence'[t][h].state # "NONE"
        PROVE  h <= doc[t].gen
    <3>1. CASE t = s /\ h = g
      BY <1>2, <3>1 DEF Gens
    <3>2. CASE ~(t = s /\ h = g)
      BY <1>4, <1>6, <2>1, <3>2, SupersededRow DEF Settled
    <3> QED BY <3>1, <3>2
  <2> QED BY <2>1, UntouchedFrame DEF Steady
<1>11. OneGeneration'
  <2> SUFFICES ASSUME NEW t \in Sources \ torn, NEW h \in Gens, NEW j \in Gens,
                      evidence'[t][h].state = "PUBLISHED",
                      evidence'[t][j].state = "PUBLISHED"
               PROVE  h = j
    BY DEF OneGeneration, OnePublished, Steady
  <2>1. CASE t = s
    BY <1>2, <1>4, <1>6, <2>1, SupersededRow
  <2>2. CASE t # s
    BY <1>6, <2>2 DEF BInv, OneGeneration, OnePublished
  <2> QED BY <2>1, <2>2
\* The new generation is the latest, so it takes the place of the old one.
<1>12. Stays
  <2> SUFFICES ASSUME NEW t \in Sources \ torn, NEW h \in Gens,
                      evidence[t][h].state = "PUBLISHED"
               PROVE  \/ evidence'[t][h].state = "PUBLISHED"
                      \/ \E j \in Gens :
                           j > h /\ evidence'[t][j].state = "PUBLISHED"
    BY DEF Stays
  <2>1. CASE t # s
    BY <1>6, <2>1
  <2>2. CASE t = s
    <3>1. h # g /\ g \in Nat /\ h \in Nat
      BY <1>2, <2>2 DEF Gens
    <3>2. ~(h > doc[s].gen)
      BY <2>2 DEF BInv, Untouched
    <3>3. g > h
      BY <1>2, <3>1, <3>2
    <3> QED BY <1>2, <1>6, <2>2, <3>3
  <2> QED BY <2>1, <2>2
<1>13. page' = page
  BY DEF PublishEvidenceGeneration
<1>14. Citing' /\ DeletedNotCited'
  <2>1. StaysSettled
    BY <1>8 DEF StaysSettled
  <2> QED BY <1>13, <2>1, CitingFrame, PagesFrame DEF Steady
<1> QED BY <1>7, <1>9, <1>10, <1>11, <1>12, <1>14

----------------------------------------------------------------------------
(* The source is removed.                                                  *)

LEMMA ForgottenRow ==
    ASSUME NEW row \in GenRow
    PROVE  /\ Forgotten(row) \in GenRow
           /\ Forgotten(row).state \notin Settled
           /\ row.state \in Settled => Forgotten(row).state = "DELETED"
           /\ row.state = "NONE" => Forgotten(row).state = "NONE"
  BY DEF Forgotten, GenRow, Settled

LEMMA UncitedRow ==
    ASSUME NEW row \in PageRow, NEW s
    PROVE  /\ Uncited(row, s) \in PageRow
           /\ \A c \in Uncited(row, s).cites : c \in row.cites /\ c[1] # s
<1> DEFINE gone == {c \in row.cites : c[1] = s}
           left == row.cites \ gone
           met == row.stale \cup gone
<1>1. left \in SUBSET Evidence /\ met \in SUBSET Evidence
  BY DEF PageRow
<1>2. Uncited(row, s) = [row EXCEPT !.cites = left, !.stale = met]
  BY DEF Uncited
<1>3. \A c \in left : c \in row.cites /\ c[1] # s
  OBVIOUS
<1> HIDE DEF gone, left, met
<1> QED BY <1>1, <1>2, <1>3 DEF PageRow

LEMMA RetiredRow ==
    ASSUME NEW row \in PageRow, NEW s
    PROVE  Retired(row, s) \in PageRow /\ Retired(row, s).cites = row.cites
<1> DEFINE status == IF \E c \in row.cites : Usable(c) THEN "STALE"
                     ELSE "RETIRED"
<1>1. \/ Retired(row, s) = row
      \/ Retired(row, s) = [row EXCEPT !.status = status]
  BY DEF Retired
<1>2. status \in {"STALE", "RETIRED"}
  OBVIOUS
<1> HIDE DEF status
<1> QED BY <1>1, <1>2 DEF PageRow

LEMMA PageWithoutRow ==
    ASSUME PageOK, NEW p \in Pages, NEW s
    PROVE  /\ PageWithout(p, s) \in PageRow
           /\ \A c \in PageWithout(p, s).cites :
                c \in page[p].cites /\ c[1] # s
<1>1. page[p] \in PageRow
  BY DEF PageOK
<1> QED BY <1>1, UncitedRow, RetiredRow DEF PageWithout

LEMMA DeleteKeeps ==
    ASSUME BInv, [Next]_vars, Steady, \A v \in Workers : HoldsOn(v),
           NEW w \in Workers, DeleteSourceKnowledge(w),
           ~(evidence' = evidence /\ page' = page)
    PROVE  /\ EvidenceOK' /\ PageOK' /\ HistoryOK'
           /\ Fresh' /\ Untouched' /\ OneGeneration' /\ Stays
           /\ Citing' /\ DeletedNotCited'
<1> DEFINE s == SourceOf(w)
           rows == [g \in Gens |-> Forgotten(evidence[s][g])]
<1>1. /\ Fenced(w) /\ s \notin relation
      /\ evidence' = [evidence EXCEPT ![s] = rows]
      /\ page' = [p \in Pages |-> PageWithout(p, s)]
      /\ Watch
  BY DEF DeleteSourceKnowledge
<1>2. s \in Sources
  BY <1>1, HeldSource DEF Fenced, BInv
<1>3. \A t \in Sources, h \in Gens : evidence[t][h] \in GenRow
  BY DEF BInv, EvidenceOK
<1>4. rows \in [Gens -> GenRow]
  BY <1>2, <1>3, ForgottenRow
<1>5. EvidenceOK'
  BY <1>1, <1>2, <1>4 DEF BInv, EvidenceOK
<1>6. /\ \A h \in Gens : evidence'[s][h] = Forgotten(evidence[s][h])
      /\ \A t \in Sources : t # s => evidence'[t] = evidence[t]
  BY <1>1, <1>2 DEF BInv, EvidenceOK
<1>7. \A h \in Gens :
        /\ evidence'[s][h].state \notin Settled
        /\ evidence[s][h].state = "NONE" => evidence'[s][h].state = "NONE"
        /\ evidence[s][h].state \in Settled =>
             evidence'[s][h].state = "DELETED"
  BY <1>2, <1>3, <1>6, ForgottenRow
<1>8. Fresh'
  <2>1. ASSUME NEW v \in Workers, Parsing(v),
               evidence'[SourceOf(v)][work[v].gen].state \in Settled
        PROVE  evidence[SourceOf(v)][work[v].gen].state \in Settled
    <3>1. SourceOf(v) \in Sources /\ work[v].gen \in Gens
      BY <2>1, Builder DEF Building
    <3> QED BY <1>6, <1>7, <2>1, <3>1
  <2> QED BY <2>1, FreshFrame DEF Steady
<1>9. Untouched'
  <2>1. ASSUME NEW t \in Sources, NEW h \in Gens,
               evidence[t][h].state = "NONE"
        PROVE  evidence'[t][h].state = "NONE"
    BY <1>6, <1>7, <2>1
  <2> QED BY <2>1, UntouchedFrame DEF Steady
<1>10. OneGeneration'
  BY <1>6, <1>7 DEF BInv, OneGeneration, OnePublished, Settled, Steady
<1>11. Stays
  BY <1>1, <1>6 DEF Stays
<1>12. PageOK'
  BY <1>1, PageWithoutRow DEF BInv, PageOK
<1>13. HistoryOK'
  <2>1. overtaken' \subseteq overtaken \cup Evidence
    BY <1>1 DEF Watch
  <2> QED BY <2>1 DEF BInv, HistoryOK, Steady
<1>14. DeletedNotCited'
  <2> SUFFICES ASSUME NEW p \in Pages \ torn, NEW c \in page'[p].cites
               PROVE  Citable(c)'
    BY DEF DeletedNotCited, Citable, Steady
  <2>1. c \in page[p].cites /\ c[1] # s
    BY <1>1, PageWithoutRow DEF BInv
  <2>2. c[1] \in Sources /\ Citable(c)
    BY <2>1 DEF BInv, PageOK, PageRow, Evidence, DeletedNotCited, Citable
  <2> QED BY <1>6, <2>1, <2>2 DEF Citable, Kept, Steady
\* A patch that cites what is deleted here is recorded as overtaken.
<1>15. Citing'
  <2> SUFFICES ASSUME NEW v \in Workers, At(v, "cite")',
                      NEW c \in work'[v].cites
               PROVE  Citable(c)'
    BY DEF Citing
  <2>1. At(v, "cite") /\ c \in work[v].cites
    BY DEF HoldsOn, At, Midway
  <2>2. c \in Evidence /\ c[1] \in Sources /\ c[2] \in Gens
    BY <2>1 DEF BInv, WorkOK, WorkRow, Evidence
  <2>3. Citable(c)
    BY <2>1 DEF BInv, Citing
  <2>4. CASE c \in overtaken \/ c[1] \in torn
    BY <2>4 DEF Citable, Steady
  <2>5. CASE Kept(c) /\ c[1] # s
    BY <1>6, <2>2, <2>5 DEF Citable, Kept
  <2>6. CASE Kept(c) /\ c[1] = s
    <3>1. evidence'[c[1]][c[2]].state = "DELETED"
      BY <1>7, <2>2, <2>6 DEF Kept, Settled
    <3>2. evidence[c[1]][c[2]].state # "DELETED"
      BY <2>6 DEF Kept
    <3>3. c \in overtaken'
      BY <1>1, <2>1, <2>2, <3>1, <3>2 DEF Watch
    <3> QED BY <3>3 DEF Citable
  <2> QED BY <2>3, <2>4, <2>5, <2>6 DEF Citable
<1> QED BY <1>5, <1>8, <1>9, <1>10, <1>11, <1>12, <1>13, <1>14, <1>15

----------------------------------------------------------------------------
(* The wiki is patched.                                                    *)

LEMMA RewrittenRow ==
    ASSUME PageOK, NEW p \in Pages, page[p].rev < MaxRev,
           NEW cites \in SUBSET Evidence
    PROVE  Rewritten(p, cites) \in PageRow
           /\ Rewritten(p, cites).cites = cites
<1>1. page[p].rev + 1 \in 0..MaxRev
  BY Bounds DEF PageOK, PageRow
<1> QED BY <1>1 DEF Rewritten, PageRow

\* A patch cites what it has looked at, kept or overtaken since.
LEMMA PatchKeeps ==
    ASSUME BInv, NEW w \in Workers, PublishWikiPatch(w), page' # page
    PROVE  PageOK' /\ DeletedNotCited'
<1> DEFINE cites == work[w].cites
<1>1. At(w, "cite") /\ UNCHANGED <<evidence, torn, overtaken>>
  BY DEF PublishWikiPatch, history
<1>2. /\ \A p \in work[w].page : page[p].rev < MaxRev
      /\ page' = [p \in Pages |-> IF p \in work[w].page
                                  THEN Rewritten(p, cites) ELSE page[p]]
  BY DEF PublishWikiPatch
<1>3. cites \in SUBSET Evidence
  BY DEF BInv, WorkOK, WorkRow
<1>4. \A p \in Pages :
        \/ page'[p] = page[p]
        \/ page'[p] \in PageRow /\ page'[p].cites = cites
  BY <1>2, <1>3, RewrittenRow DEF BInv
<1>5. PageOK'
  BY <1>2, <1>4 DEF BInv, PageOK
<1>6. DeletedNotCited'
  <2> SUFFICES ASSUME NEW p \in Pages \ torn, NEW c \in page'[p].cites
               PROVE  Citable(c)
    BY <1>1 DEF DeletedNotCited, Citable, Kept
  <2>1. CASE page'[p] = page[p]
    BY <2>1 DEF BInv, DeletedNotCited, Citable
  <2>2. CASE page'[p].cites = cites
    BY <1>1, <2>2 DEF BInv, Citing
  <2> QED BY <1>4, <2>1, <2>2
<1> QED BY <1>5, <1>6

----------------------------------------------------------------------------
(* A transaction that lost its connection.                                 *)

\* What such a step leaves alone: all that is not torn.
TornTables ==
    /\ relation' = relation
    /\ torn \subseteq torn' /\ overtaken \subseteq overtaken'
    /\ \A t \in Sources \ torn :
         /\ evidence'[t] = evidence[t]
         /\ doc'[t].gen = doc[t].gen
         /\ doc'[t].published = doc[t].published
         /\ doc'[t].evidence = doc[t].evidence
    /\ \A p \in Pages \ torn : page'[p].cites \subseteq page[p].cites

\* What the transactions of documents, evidence and pages leave, row by row.
LEMMA DocumentAfterRow ==
    ASSUME NEW row \in DocRow, NEW g \in 0..MaxGen, NEW now
    PROVE  DocumentAfter(now, row, g) \in DocRow
<1>1. CASE now = "number"
  BY <1>1, ExtractingRow DEF DocumentAfter
<1>2. CASE now = "document"
  BY <1>2 DEF DocumentAfter, DocRow
<1>3. CASE now = "failed"
  BY <1>3 DEF DocumentAfter, DocRow, ParseFailed
<1>4. CASE now = "gone"
  BY <1>4 DEF DocumentAfter, DocRow, SourceGone
<1>5. CASE now \notin {"number", "document", "failed", "gone"}
  BY <1>5 DEF DocumentAfter
<1> QED BY <1>1, <1>2, <1>3, <1>4, <1>5

LEMMA GenerationAfterRow ==
    ASSUME NEW row \in GenRow, NEW now, NEW current \in BOOLEAN
    PROVE  GenerationAfter(now, row, current) \in GenRow
<1>1. Silent(row) \in GenRow
  BY DEF Silent, GenRow
<1>2. /\ [row EXCEPT !.state = "SUPERSEDED"] \in GenRow
      /\ [row EXCEPT !.state = "PUBLISHED"] \in GenRow
      /\ [row EXCEPT !.state = "DELETED", !.rows = 0] \in GenRow
  BY DEF GenRow
<1> QED BY <1>1, <1>2, Zenon DEF GenerationAfter

LEMMA PageAfterRow ==
    ASSUME NEW row \in PageRow, NEW now, NEW s
    PROVE  /\ PageAfter(now, row, s) \in PageRow
           /\ PageAfter(now, row, s).cites \subseteq row.cites
<1>1. CASE now = "uncite"
  BY <1>1, UncitedRow DEF PageAfter
<1>2. CASE now = "retire" /\ now # "uncite"
  BY <1>2, RetiredRow DEF PageAfter
<1>3. CASE now \notin {"uncite", "retire"}
  BY <1>3 DEF PageAfter
<1> QED BY <1>1, <1>2, <1>3

LEMMA LoseTables ==
    ASSUME BInv, NEW w \in Workers, Lose(w)
    PROVE  /\ UNCHANGED <<queue, relation, doc, evidence, page, overtaken>>
           /\ torn \subseteq torn' /\ HistoryOK'
           /\ Drop
<1>1. CASE LoseEvidence(w)
  <2>1. claim[w].id \in TaskIds
    BY <1>1, Builder
    DEF LoseEvidence, InTransaction, Fenced, At, Building, Parsing
  <2>2. SourceOf(w) \in Sources
    BY <2>1, HeldSource DEF BInv
  <2> QED BY <1>1, <2>2 DEF LoseEvidence, BInv, HistoryOK
<1>2. CASE LosePatch(w)
  <2>1. work[w].page \subseteq Pages
    BY DEF BInv, WorkOK, WorkRow
  <2> QED BY <1>2, <2>1 DEF LosePatch, BInv, HistoryOK
<1>3. CASE LoseRead(w)
  BY <1>3 DEF LoseRead, knowledge, history, BInv, HistoryOK
<1> QED BY <1>1, <1>2, <1>3 DEF Lose

LEMMA LosesTo ==
    ASSUME BInv, NEW w \in Workers, Lose(w)
    PROVE  work'[w].pc \in {"torn", "torn patch", "unlocked"}
<1>1. work \in [Workers -> WorkRow] /\ work[w] \in WorkRow
  BY DEF BInv, WorkOK
<1>2. CASE LoseEvidence(w)
  <2>1. PICK tx, at :
          work' = [work EXCEPT ![w] =
             [work[w] EXCEPT !.pc = "torn", !.tx = tx, !.at = at,
                             !.gen = IF tx = "begin"
                                     THEN NextGeneration(SourceOf(w))
                                     ELSE work[w].gen]]
    BY <1>1, <1>2 DEF LoseEvidence
  <2> QED BY <1>1, <2>1 DEF WorkRow
<1>3. CASE LosePatch(w)
  <2>1. PICK at :
          work' = [work EXCEPT ![w] =
             [work[w] EXCEPT !.pc = "torn patch", !.at = at,
                             !.cites = IF at > 2 THEN {} ELSE work[w].cites]]
    BY <1>1, <1>3 DEF LosePatch
  <2> QED BY <1>1, <2>1 DEF WorkRow
<1>4. CASE LoseRead(w)
  BY <1>1, <1>4 DEF LoseRead, Goto, WorkRow
<1> QED BY <1>2, <1>3, <1>4 DEF Lose

LEMMA RunEvidenceTables ==
    ASSUME BInv, NEW w \in Workers, RunEvidence(w)
    PROVE  /\ TornTables /\ DocOK' /\ EvidenceOK' /\ PageOK' /\ HistoryOK'
           /\ torn' = torn /\ budget' = budget
<1> DEFINE s == SourceOf(w)
           g == work[w].gen
           now == Now(w)
           rows == [h \in Gens |-> GenerationAfter(now, evidence[s][h], h = g)]
<1>1. s \in Sources /\ s \in torn
  <2>1. claim[w].id \in TaskIds /\ s \in torn
    BY DEF RunEvidence, At, BInv, InHand, Torn
  <2> QED BY <2>1, HeldSource DEF BInv
<1>2. /\ doc' = [doc EXCEPT ![s] = DocumentAfter(now, doc[s], g)]
      /\ evidence' = [evidence EXCEPT ![s] = rows]
      /\ page' = [p \in Pages |-> PageAfter(now, page[p], s)]
      /\ Watch
      /\ UNCHANGED <<relation, torn, budget>>
  BY DEF RunEvidence
<1>3. g \in 0..MaxGen
  BY DEF BInv, WorkOK, WorkRow
<1>4. DocumentAfter(now, doc[s], g) \in DocRow
  BY <1>1, <1>3, DocumentAfterRow DEF BInv, DocOK
<1>5. \A h \in Gens : GenerationAfter(now, evidence[s][h], h = g) \in GenRow
  BY <1>1, GenerationAfterRow DEF BInv, EvidenceOK
<1>6. \A p \in Pages : /\ PageAfter(now, page[p], s) \in PageRow
                       /\ PageAfter(now, page[p], s).cites \subseteq page[p].cites
  BY PageAfterRow DEF BInv, PageOK
<1>7. rows \in [Gens -> GenRow]
  BY <1>5
<1>8. DocOK' /\ \A t \in Sources \ torn : doc'[t] = doc[t]
  BY <1>1, <1>2, <1>4 DEF BInv, DocOK
<1> HIDE DEF rows
<1>9. EvidenceOK' /\ \A t \in Sources \ torn : evidence'[t] = evidence[t]
  BY <1>1, <1>2, <1>7 DEF BInv, EvidenceOK
<1>10. PageOK' /\ \A p \in Pages : page'[p].cites \subseteq page[p].cites
  BY <1>2, <1>6 DEF PageOK
<1>11. overtaken \subseteq overtaken' /\ overtaken' \subseteq overtaken \cup Evidence
  BY <1>2 DEF Watch
<1>12. HistoryOK'
  BY <1>2, <1>11 DEF BInv, HistoryOK
<1> QED BY <1>2, <1>8, <1>9, <1>10, <1>11, <1>12 DEF TornTables

LEMMA RunPatchTables ==
    ASSUME BInv, NEW w \in Workers, RunPatch(w)
    PROVE  /\ TornTables /\ DocOK' /\ PageOK'
           /\ UNCHANGED <<queue, evidence, history, budget>>
<1> DEFINE s == SourceOf(w)
           mine == work[w].page
           now == Statements.patch[work[w].at]
<1>1. s \in Sources /\ mine \subseteq torn
  <2>1. claim[w].id \in TaskIds /\ mine \subseteq torn
    BY DEF RunPatch, At, BInv, InHand, Torn
  <2> QED BY <2>1, HeldSource DEF BInv
<1>2. UNCHANGED <<queue, relation, evidence, history, budget>>
  BY DEF RunPatch
<1>3. /\ DocOK'
      /\ \A t \in Sources : /\ doc'[t].gen = doc[t].gen
                            /\ doc'[t].published = doc[t].published
                            /\ doc'[t].evidence = doc[t].evidence
  <2>1. CASE doc' = doc
    BY <2>1 DEF BInv, DocOK
  <2>2. CASE doc' # doc
    <3>1. PICK k : k \in Wikis /\ doc' = [doc EXCEPT ![s].wiki = k]
      <4> DEFINE k == IF Repairing(w) \/ doc[s].evidence = "DELETED"
                      THEN doc[s].wiki ELSE WikiState
      <4>1. doc' = [doc EXCEPT ![s].wiki = k]
        BY <1>1, <2>2 DEF RunPatch, BInv, DocOK
      <4>2. doc[s].wiki \in Wikis
        BY <1>1 DEF BInv, DocOK, DocRow, Wikis
      <4>3. WikiState \in Wikis
        BY DEF WikiState, Wikis
      <4>4. k \in Wikis
        BY <4>2, <4>3, Zenon
      <4> HIDE DEF k
      <4> QED BY <4>1, <4>4
    <3>2. \A row \in DocRow : [row EXCEPT !.wiki = k] \in DocRow
      BY <3>1 DEF DocRow, Wikis
    <3>3. doc[s] \in DocRow
      BY <1>1 DEF BInv, DocOK
    <3>4. doc' = [doc EXCEPT ![s] = [doc[s] EXCEPT !.wiki = k]]
      BY <3>1
    <3>5. DocOK'
      BY <1>1, <3>2, <3>3, <3>4 DEF BInv, DocOK
    <3>6. \A t \in Sources : doc[t] \in DocRow
      BY DEF BInv, DocOK
    <3> QED BY <1>1, <3>4, <3>5, <3>6 DEF BInv, DocOK, DocRow
  <2> QED BY <2>1, <2>2
<1>4. PageOK' /\ \A p \in Pages \ torn : page'[p] = page[p]
  <2>1. CASE page' = page
    BY <2>1 DEF BInv, PageOK
  <2>2. CASE now = "page"
    <3>1. page' = [p \in Pages |->
                     IF p \in mine THEN [page[p] EXCEPT !.status = "ACTIVE"]
                                   ELSE page[p]]
      BY <2>2 DEF RunPatch
    <3>2. \A row \in PageRow : [row EXCEPT !.status = "ACTIVE"] \in PageRow
      BY DEF PageRow
    <3> QED BY <1>1, <3>1, <3>2 DEF BInv, PageOK
  <2>3. CASE now = "point"
    <3>1. PICK stale \in SUBSET {c \in work[w].cites :
                                   evidence[c[1]][c[2]].state = "DELETED"} :
            page' = [p \in Pages |->
               IF p \in mine /\ page[p].status # "none"
               THEN [Rewritten(p, work[w].cites \ stale) EXCEPT !.stale = stale]
               ELSE page[p]]
      BY <2>3 DEF RunPatch
    <3>2. /\ work[w].cites \ stale \in SUBSET Evidence
          /\ stale \in SUBSET Evidence
      BY DEF BInv, WorkOK, WorkRow
    <3>3. \A row \in PageRow : [row EXCEPT !.stale = stale] \in PageRow
      BY <3>2 DEF PageRow
    <3>4. \A p \in mine : page[p].rev < MaxRev
      BY <2>3 DEF RunPatch
    <3>5. \A p \in Pages : p \in mine =>
            Rewritten(p, work[w].cites \ stale) \in PageRow
      BY <3>2, <3>4, RewrittenRow DEF BInv
    <3> QED BY <1>1, <3>1, <3>3, <3>5 DEF BInv, PageOK
  <2>4. CASE now \notin {"page", "point"}
    BY <2>1, <2>4 DEF RunPatch
  <2> QED BY <2>2, <2>3, <2>4
<1> QED BY <1>2, <1>3, <1>4 DEF TornTables, history

LEMMA TearingTables ==
    ASSUME BInv, NEW w \in Workers, Tearing(w)
    PROVE  /\ TornTables
           /\ DocOK' /\ EvidenceOK' /\ PageOK' /\ HistoryOK'
           /\ budget' = budget \/ Fault \/ Drop
<1>1. ASSUME UNCHANGED <<relation, doc, evidence, page, overtaken>>,
             torn \subseteq torn'
      PROVE  TornTables /\ DocOK' /\ EvidenceOK' /\ PageOK'
  BY <1>1 DEF TornTables, BInv, DocOK, EvidenceOK, PageOK
<1>2. CASE Lose(w)
  BY <1>1, <1>2, LoseTables
<1>3. CASE RunEvidence(w)
  BY <1>3, RunEvidenceTables
<1>4. CASE RunPatch(w)
  <2>1. EvidenceOK' /\ HistoryOK'
    BY <1>4, RunPatchTables DEF BInv, EvidenceOK, HistoryOK, history
  <2> QED BY <1>4, <2>1, RunPatchTables
<1>5. CASE EndEvidence(w) \/ EndPatch(w) \/ Fails(w)
  <2>1. UNCHANGED knowledge /\ (budget' = budget \/ Fault)
    BY <1>5, Zenon DEF EndEvidence, EndPatch, Fails
  <2> QED BY <1>1, <2>1 DEF knowledge, history, BInv, HistoryOK
<1> QED BY <1>2, <1>3, <1>4, <1>5 DEF Tearing, TornStep

\* Where the worker goes whose connection was lost.
TearsTo(w) ==
    \E row \in WorkRow :
        /\ work' = [work EXCEPT ![w] = row]
        /\ row.pc \notin {"put", "cite"}
        /\ row.pc \in {"embed", "abort", "torn", "torn patch"} =>
             claim[w].id \in TaskIds /\ claim' = claim
        /\ row.pc \in {"embed", "abort", "torn"} => SourceOf(w) \in torn'
        /\ row.pc \in {"embed", "abort"} => row.gen \in Gens
        /\ row.pc = "torn" /\ row.tx # "delete" => row.gen \in Gens
        /\ row.pc = "torn patch" => row.page \subseteq torn'

LEMMA LoseTears ==
    ASSUME BInv, NEW w \in Workers, Lose(w)
    PROVE  TearsTo(w)
<1>1. work[w] \in WorkRow /\ work \in [Workers -> WorkRow]
  BY DEF BInv, WorkOK
<1>2. claim' = claim
  BY LoseTables DEF queue
<1>3. CASE LoseEvidence(w)
  <2>1. PICK tx, at :
          /\ tx \in DOMAIN Statements /\ at \in From(tx)
          /\ InTransaction(w, tx)
          /\ work' = [work EXCEPT ![w] =
               [work[w] EXCEPT !.pc = "torn", !.tx = tx, !.at = at,
                               !.gen = IF tx = "begin"
                                       THEN NextGeneration(SourceOf(w))
                                       ELSE work[w].gen]]
    BY <1>1, <1>3 DEF LoseEvidence
  <2>2. claim[w].id \in TaskIds /\ SourceOf(w) \in torn'
    BY <1>3, <2>1, Builder
    DEF LoseEvidence, InTransaction, Fenced, At, Building, Parsing
  <2>3. tx \in Transactions /\ at \in Nat
    BY <2>1 DEF InTransaction, Transactions, From
  <2> DEFINE gen == IF tx = "begin" THEN NextGeneration(SourceOf(w))
                    ELSE work[w].gen
             row == [work[w] EXCEPT !.pc = "torn", !.tx = tx, !.at = at,
                                    !.gen = gen]
  <2>4. gen \in 0..MaxGen /\ (tx # "delete" => gen \in Gens)
    <3>1. CASE tx = "begin"
      BY <2>1, <3>1, Bounds DEF InTransaction, Gens
    <3>2. CASE tx = "delete"
      BY <1>1, <3>2 DEF WorkRow
    <3>3. CASE tx \notin {"begin", "delete"}
      <4>1. Building(w)
        BY <2>1, <3>3 DEF InTransaction, At, Building, Parsing
      <4> QED BY <1>1, <3>3, <4>1, Builder DEF WorkRow
    <3> QED BY <3>1, <3>2, <3>3
  <2>5. work' = [work EXCEPT ![w] = row]
    BY <2>1
  <2> HIDE DEF gen
  <2>6. /\ row \in WorkRow /\ row.pc = "torn" /\ row.tx = tx
        /\ row.gen = gen
    BY <1>1, <2>3, <2>4 DEF WorkRow, Calls
  <2> HIDE DEF row
  <2> QED BY <1>2, <2>2, <2>4, <2>5, <2>6 DEF TearsTo
<1>4. CASE LosePatch(w)
  <2>1. PICK at \in From("patch") :
          work' = [work EXCEPT ![w] =
                     [work[w] EXCEPT !.pc = "torn patch", !.at = at,
                                     !.cites = IF at > 2 THEN {}
                                               ELSE work[w].cites]]
    BY <1>1, <1>4 DEF LosePatch
  <2>2. claim[w].id \in TaskIds /\ work[w].page \subseteq torn'
    BY <1>4 DEF LosePatch, BInv, InHand, At
  <2>3. at \in Nat
    BY DEF From
  <2> DEFINE cites == IF at > 2 THEN {} ELSE work[w].cites
             row == [work[w] EXCEPT !.pc = "torn patch", !.at = at,
                                    !.cites = cites]
  <2>4. cites \in SUBSET Evidence
    BY <1>1 DEF WorkRow
  <2>5. work' = [work EXCEPT ![w] = row]
    BY <2>1
  <2> HIDE DEF cites
  <2>6. row \in WorkRow /\ row.pc = "torn patch" /\ row.page = work[w].page
    BY <1>1, <2>3, <2>4 DEF WorkRow, Calls
  <2> HIDE DEF row
  <2> QED BY <1>2, <2>2, <2>5, <2>6 DEF TearsTo
<1>5. CASE LoseRead(w)
  <2> DEFINE row == [work[w] EXCEPT !.pc = "unlocked"]
  <2>1. row \in WorkRow /\ row.pc = "unlocked"
    BY <1>1 DEF WorkRow, Calls
  <2>2. work' = [work EXCEPT ![w] = row]
    BY <1>5 DEF LoseRead, Goto
  <2> HIDE DEF row
  <2> QED BY <2>1, <2>2 DEF TearsTo
<1> QED BY <1>3, <1>4, <1>5 DEF Lose

LEMMA TearsOn ==
    ASSUME BInv, NEW w \in Workers, NEW pc \in Calls \ {"put", "cite"},
           torn' = torn, Goto(w, pc),
           pc \in {"torn", "torn patch"} => At(w, pc) /\ claim' = claim,
           pc \in {"embed", "abort"} =>
             At(w, "torn") /\ work[w].tx # "delete" /\ claim' = claim
    PROVE  TearsTo(w)
<1> DEFINE row == [work[w] EXCEPT !.pc = pc]
<1>1. work[w] \in WorkRow
  BY DEF BInv, WorkOK
<1>2. /\ row \in WorkRow /\ row.pc = pc /\ row.tx = work[w].tx
      /\ row.gen = work[w].gen /\ row.page = work[w].page
  BY <1>1 DEF WorkRow
<1>3. work' = [work EXCEPT ![w] = row]
  BY DEF Goto
<1>4. /\ At(w, "torn") => /\ claim[w].id \in TaskIds
                          /\ SourceOf(w) \in torn
                          /\ work[w].tx # "delete" => work[w].gen \in Gens
      /\ At(w, "torn patch") => /\ claim[w].id \in TaskIds
                                /\ work[w].page \subseteq torn
  BY DEF BInv, InHand, Torn, At
<1> HIDE DEF row
<1> QED BY <1>2, <1>3, <1>4 DEF TearsTo, At

LEMMA OnwardRow ==
    ASSUME NEW row \in WorkRow
    PROVE  LET next == [row EXCEPT !.at = row.at + 1]
           IN  /\ next \in WorkRow /\ next.pc = row.pc /\ next.tx = row.tx
               /\ next.gen = row.gen /\ next.page = row.page
<1>1. row.at + 1 \in Nat
  BY DEF WorkRow
<1> QED BY <1>1 DEF WorkRow

LEMMA OnwardTears ==
    ASSUME BInv, NEW w \in Workers, At(w, "torn") \/ At(w, "torn patch"),
           Onward(w), torn' = torn, claim' = claim
    PROVE  TearsTo(w)
<1> DEFINE row == [work[w] EXCEPT !.at = work[w].at + 1]
<1>1. work[w] \in WorkRow
  BY DEF BInv, WorkOK
<1>2. /\ row \in WorkRow /\ row.pc = work[w].pc /\ row.tx = work[w].tx
      /\ row.gen = work[w].gen /\ row.page = work[w].page
  BY <1>1, OnwardRow, Zenon
<1>3. work' = [work EXCEPT ![w] = row]
  BY DEF Onward
<1>4. /\ At(w, "torn") => /\ claim[w].id \in TaskIds
                          /\ SourceOf(w) \in torn
                          /\ work[w].tx # "delete" => work[w].gen \in Gens
      /\ At(w, "torn patch") => /\ claim[w].id \in TaskIds
                                /\ work[w].page \subseteq torn
  BY DEF BInv, InHand, Torn, At
<1> HIDE DEF row
<1> QED BY <1>2, <1>3, <1>4 DEF TearsTo, At

LEMMA Tears ==
    ASSUME BInv, NEW w \in Workers, Tearing(w)
    PROVE  TearsTo(w)
<1>1. CASE Lose(w)
  BY <1>1, LoseTears
<1>2. CASE RunEvidence(w)
  <2>1. At(w, "torn") /\ Onward(w) /\ torn' = torn
    BY <1>2 DEF RunEvidence
  <2>2. claim' = claim
    BY <1>2, Zenon DEF RunEvidence, Enqueue, queue
  <2> QED BY <2>1, <2>2, OnwardTears
<1>3. CASE EndEvidence(w)
  <2>1. At(w, "torn") /\ torn' = torn /\ claim' = claim
    BY <1>3 DEF EndEvidence, knowledge, history, queue
  <2>2. \/ Goto(w, "finish") \/ Goto(w, "fail")
        \/ /\ work[w].tx # "delete"
           /\ Goto(w, "embed") \/ Goto(w, "abort")
    BY <1>3 DEF EndEvidence
  <2> QED BY <2>1, <2>2, TearsOn DEF Calls
<1>4. CASE RunPatch(w)
  <2>1. At(w, "torn patch") /\ torn' = torn /\ claim' = claim
    BY <1>4 DEF RunPatch, history, queue
  <2>2. Onward(w) \/ Goto(w, "fail")
    BY <1>4, Zenon DEF RunPatch
  <2> QED BY <2>1, <2>2, OnwardTears, TearsOn DEF Calls
<1>5. CASE EndPatch(w)
  <2>1. At(w, "torn patch") /\ torn' = torn
    BY <1>5 DEF EndPatch, knowledge, history
  <2>2. Goto(w, "finish") \/ Goto(w, "fail") \/ Rest(w)
    BY <1>5, Zenon DEF EndPatch
  <2>3. CASE Rest(w)
    <3>1. Idle \in WorkRow /\ Idle.pc = "idle"
      BY Nothings DEF Idle
    <3> QED BY <2>3, <3>1 DEF Rest, TearsTo
  <2> QED BY <2>1, <2>2, <2>3, TearsOn DEF Calls
<1>6. CASE Fails(w)
  <2>1. torn' = torn /\ claim' = claim
    BY <1>6 DEF Fails, knowledge, history, queue
  <2>2. \/ Goto(w, "fail")
        \/ At(w, "torn") /\ work[w].tx # "delete" /\ Goto(w, "abort")
    BY <1>6 DEF Fails
  <2> QED BY <2>1, <2>2, TearsOn DEF Calls
<1> QED BY <1>1, <1>2, <1>3, <1>4, <1>5, <1>6 DEF Tearing, TornStep

\* The others are where they were.
LEMMA OthersRest ==
    ASSUME BInv, NEW w \in Workers, Tearing(w), NEW v \in Workers, v # w
    PROVE  work'[v] = work[v] /\ claim'[v] = claim[v]
<1>1. work'[v] = work[v]
  BY Tears DEF TearsTo, BInv, WorkOK
<1>2. CASE claim' = claim
  BY <1>1, <1>2
<1>3. CASE ContinueTask(w)
  <2>1. \E c : claim' = [claim EXCEPT ![w] = c]
    BY <1>3, Zenon DEF ContinueTask, Settle
  <2> QED BY <1>1, <2>1
<1>4. UNCHANGED queue => claim' = claim
  BY DEF queue
<1> QED BY <1>2, <1>3, <1>4, TearingQueue, Zenon

\* What is left to prove when the queue, the relation and the budget are done.
Keeps ==
    /\ DocOK' /\ EvidenceOK' /\ PageOK' /\ WorkOK' /\ HistoryOK'
    /\ InHand' /\ Torn'
    /\ Owned' /\ Fresh' /\ Untouched'
    /\ OneGeneration' /\ Citing' /\ DeletedNotCited'
    /\ Stays

LEMMA TornRows ==
    ASSUME BInv, [Next]_vars, NEW w \in Workers, Tearing(w), NEW v \in Workers,
           claim[v].id \in TaskIds, v # w
    PROVE  /\ work'[v] = work[v] /\ claim'[v] = claim[v]
           /\ SourceOf(v)' = SourceOf(v)
  BY OthersRest, SameRow

LEMMA TearMidway ==
    ASSUME BInv, [Next]_vars, NEW w \in Workers, Tearing(w)
    PROVE  InHand' /\ Torn'
<1>1. PICK row \in WorkRow :
        /\ work' = [work EXCEPT ![w] = row]
        /\ row.pc \notin {"put", "cite"}
        /\ row.pc \in {"embed", "abort", "torn", "torn patch"} =>
             claim[w].id \in TaskIds /\ claim' = claim
        /\ row.pc \in {"embed", "abort", "torn"} => SourceOf(w) \in torn'
        /\ row.pc = "torn" /\ row.tx # "delete" => row.gen \in Gens
        /\ row.pc = "torn patch" => row.page \subseteq torn'
  BY Tears DEF TearsTo
<1>2. work'[w] = row /\ torn \subseteq torn'
  BY <1>1, TearingTables DEF BInv, WorkOK, TornTables
<1>3. ASSUME claim[w].id \in TaskIds, claim' = claim
      PROVE  SourceOf(w)' = SourceOf(w)
  BY <1>3, SameRow
<1>4. ASSUME NEW v \in Workers, v # w, work'[v].pc \in Midway
      PROVE  /\ claim'[v].id \in TaskIds /\ work'[v] = work[v]
             /\ SourceOf(v)' = SourceOf(v)
  <2>1. work'[v] = work[v]
    BY <1>4, OthersRest
  <2>2. claim[v].id \in TaskIds
    BY <1>4, <2>1 DEF BInv, InHand, Midway
  <2> QED BY <1>4, <2>1, <2>2, TornRows
<1>5. InHand'
  BY <1>1, <1>2, <1>4 DEF InHand, Midway
<1>6. Torn'
  BY <1>1, <1>2, <1>3, <1>4 DEF Torn, At, Midway, BInv
<1> QED BY <1>5, <1>6

LEMMA TearBuilds ==
    ASSUME BInv, [Next]_vars, NEW w \in Workers, Tearing(w)
    PROVE  Owned' /\ Fresh'
<1>1. PICK row \in WorkRow :
        /\ work' = [work EXCEPT ![w] = row]
        /\ row.pc \notin {"put", "cite"}
        /\ row.pc \in {"embed", "abort", "torn", "torn patch"} =>
             claim[w].id \in TaskIds /\ claim' = claim
        /\ row.pc \in {"embed", "abort", "torn"} => SourceOf(w) \in torn'
        /\ row.pc \in {"embed", "abort"} => row.gen \in Gens
  BY Tears DEF TearsTo
<1>2. work'[w] = row /\ torn \subseteq torn'
  BY <1>1, TearingTables DEF BInv, WorkOK, TornTables
\* The worker itself builds nothing that is whole.
<1>3. ASSUME Building(w)'
      PROVE  /\ claim'[w].id \in TaskIds /\ work'[w].gen \in Gens
             /\ ~Whole(w)'
  <2>1. row.pc \in {"embed", "abort"}
    BY <1>1, <1>2, <1>3 DEF Building, Parsing
  <2>2. SourceOf(w)' = SourceOf(w)
    BY <1>1, <2>1, SameRow
  <2> QED BY <1>1, <1>2, <2>1, <2>2 DEF Whole
<1>4. ASSUME NEW v \in Workers, v # w, Building(v)'
      PROVE  /\ Building(v) /\ work'[v] = work[v] /\ claim'[v] = claim[v]
             /\ SourceOf(v)' = SourceOf(v) /\ SourceOf(v) \in Sources
             /\ claim[v].id \in TaskIds /\ work[v].gen \in Gens
             /\ Whole(v)' => Whole(v)
             /\ Whole(v) => work[v].gen <= doc[SourceOf(v)].gen
  <2>1. work'[v] = work[v] /\ Building(v)
    BY <1>4, OthersRest DEF Building, Parsing
  <2>2. /\ claim[v].id \in TaskIds /\ SourceOf(v) \in Sources
        /\ work[v].gen \in Gens
        /\ Whole(v) => work[v].gen <= doc[SourceOf(v)].gen
    BY <2>1, Builder
  <2>3. claim'[v] = claim[v] /\ SourceOf(v)' = SourceOf(v)
    BY <1>4, <2>2, TornRows
  <2> QED BY <1>2, <2>1, <2>2, <2>3 DEF Whole
<1>5. \A t \in Sources \ torn : evidence'[t] = evidence[t]
                                /\ doc'[t].gen = doc[t].gen
  BY TearingTables DEF TornTables
<1>6. Owned'
  <2>1. ASSUME NEW v \in Workers, Building(v)'
        PROVE  /\ claim'[v].id \in TaskIds
               /\ work'[v].gen \in Gens
               /\ Whole(v)' => work'[v].gen <= doc'[SourceOf(v)'].gen
    BY <1>3, <1>4, <1>5, <2>1 DEF Whole
  <2>2. ASSUME NEW u \in Workers, NEW v \in Workers, u # v, Building(u)',
               Building(v)', SourceOf(u)' = SourceOf(v)', Whole(v)'
        PROVE  work'[u].gen # work'[v].gen
    <3>1. Whole(u)'
      BY <2>2 DEF Whole
    <3>2. u # w /\ v # w
      BY <1>3, <2>2, <3>1
    <3> QED BY <1>4, <2>2, <3>2 DEF BInv, Owned
  <2> QED BY <2>1, <2>2 DEF Owned
<1>7. Fresh'
  <2> SUFFICES ASSUME NEW v \in Workers, Parsing(v)', Whole(v)'
               PROVE  evidence'[SourceOf(v)'][work'[v].gen].state \notin Settled
    BY DEF Fresh
  <2>1. v # w /\ Building(v)'
    BY <1>3 DEF Building
  <2>2. Parsing(v)
    BY <1>4, <2>1 DEF Parsing
  <2>3. evidence[SourceOf(v)][work[v].gen].state \notin Settled
    BY <1>4, <2>1, <2>2 DEF BInv, Fresh
  <2> QED BY <1>4, <1>5, <2>1, <2>3 DEF Whole
<1> QED BY <1>6, <1>7

\* What a torn transaction does stays with what it tore.
LEMMA TearKeeps ==
    ASSUME BInv, [Next]_vars, NEW w \in Workers, Tearing(w)
    PROVE  Keeps
<1>1. /\ DocOK' /\ EvidenceOK' /\ PageOK' /\ HistoryOK'
      /\ torn \subseteq torn' /\ overtaken \subseteq overtaken'
      /\ \A t \in Sources \ torn : evidence'[t] = evidence[t]
                                   /\ doc'[t].gen = doc[t].gen
      /\ \A p \in Pages \ torn : page'[p].cites \subseteq page[p].cites
  BY TearingTables DEF TornTables
<1>2. WorkOK'
  BY Tears DEF TearsTo, BInv, WorkOK
<1>3. Untouched' /\ OneGeneration' /\ Stays
  BY <1>1 DEF BInv, Untouched, OneGeneration, OnePublished, Stays
<1>4. ASSUME NEW c \in Evidence, Citable(c)
      PROVE  Citable(c)'
  BY <1>1, <1>4 DEF Citable, Kept, Evidence
<1>5. Citing'
  <2> SUFFICES ASSUME NEW v \in Workers, At(v, "cite")',
                      NEW c \in work'[v].cites
               PROVE  Citable(c)'
    BY DEF Citing
  <2>1. v # w
    BY Tears DEF TearsTo, At, BInv, WorkOK
  <2>2. work'[v] = work[v] /\ At(v, "cite")
    BY <2>1, OthersRest DEF At
  <2>3. c \in Evidence /\ Citable(c)
    BY <2>2 DEF BInv, WorkOK, WorkRow, Citing
  <2> QED BY <1>4, <2>3
<1>6. DeletedNotCited'
  <2> SUFFICES ASSUME NEW p \in Pages \ torn', NEW c \in page'[p].cites
               PROVE  Citable(c)'
    BY DEF DeletedNotCited, Citable
  <2>1. c \in page[p].cites /\ p \notin torn
    BY <1>1
  <2>2. c \in Evidence /\ Citable(c)
    BY <2>1 DEF BInv, PageOK, PageRow, DeletedNotCited, Citable
  <2> QED BY <1>4, <2>2
<1> QED BY <1>1, <1>2, <1>3, <1>5, <1>6, TearMidway, TearBuilds DEF Keeps

----------------------------------------------------------------------------
(* All steps.                                                              *)

\* A step that leaves the evidence and the pages alone.
LEMMA QuietKeeps ==
    ASSUME BInv, [Next]_vars, Steady, evidence' = evidence,
           overtaken' = overtaken
    PROVE  /\ EvidenceOK' /\ HistoryOK'
           /\ Fresh' /\ Untouched' /\ OneGeneration' /\ Stays /\ Citing'
           /\ page' = page => PageOK' /\ DeletedNotCited'
<1>1. Tame /\ StaysSettled
  BY DEF Tame, StaysSettled
<1>2. EvidenceOK' /\ HistoryOK' /\ (page' = page => PageOK')
  BY DEF BInv, EvidenceOK, HistoryOK, PageOK, Steady
<1>3. Citing' /\ (page' = page => DeletedNotCited')
  BY <1>1, CitingFrame, PagesFrame DEF Steady
<1> QED BY <1>1, <1>2, <1>3, TameKeeps DEF Steady

LEMMA SteadyKeeps ==
    ASSUME BInv, [Next]_vars, Steady
    PROVE  Owned' /\ InHand' /\ Torn'
  BY OwnedFrame, MidwayFrame DEF Steady

LEMMA BegunKeeps ==
    ASSUME BInv, [Next]_vars, NEW w \in Workers, WorkerStep(w), Begun(w)
    PROVE  Keeps
<1>1. WorkOK'
  BY WorkerBuilds
<1>2. DocOK' /\ Owned' /\ Fresh' /\ Untouched'
  BY BeginKeeps
<1>3. evidence' = evidence /\ page' = page /\ UNCHANGED history
  BY DEF Begun, BeginEvidenceGeneration
<1>4. torn' = torn /\ overtaken' = overtaken
  BY <1>3 DEF history
<1>5. EvidenceOK' /\ PageOK' /\ HistoryOK'
  BY <1>3, <1>4 DEF BInv, EvidenceOK, PageOK, HistoryOK
<1>6. OneGeneration' /\ Stays /\ StaysSettled
  BY <1>3, <1>4 DEF BInv, OneGeneration, OnePublished, Stays, StaysSettled
<1>7. \A v \in Workers : TaskMoves(v)
  BY WorkerMoves
<1>8. InHand' /\ Torn' /\ Citing' /\ DeletedNotCited'
  BY <1>3, <1>4, <1>6, <1>7, MidwayFrame, CitingFrame, PagesFrame
<1> QED BY <1>1, <1>2, <1>5, <1>6, <1>8 DEF Keeps

LEMMA WorkerKeeps ==
    ASSUME BInv, [Next]_vars, NEW w \in Workers, WorkerStep(w), ~Begun(w)
    PROVE  Keeps
<1>1. WorkOK' /\ DocOK' /\ SameGens
  BY WorkerBuilds, DocsKept
<1>2. torn' = torn /\ (overtaken' = overtaken \/ DeleteSourceKnowledge(w))
  BY WorkerTables
<1>3. overtaken \subseteq overtaken'
  BY <1>2 DEF DeleteSourceKnowledge, Watch
<1>4. Steady
  BY <1>1, <1>2, <1>3, WorkerBuilds, WorkerMoves DEF Steady
<1>5. Owned' /\ InHand' /\ Torn'
  BY <1>4, SteadyKeeps
<1>6. HistoryOK' \/ DeleteSourceKnowledge(w)
  BY <1>2 DEF BInv, HistoryOK
<1>7. page' = page => PageOK'
  BY DEF BInv, PageOK
<1>8. CASE evidence' = evidence /\ page' = page /\ overtaken' = overtaken
  BY <1>1, <1>4, <1>5, <1>8, QuietKeeps DEF Keeps
<1>9. CASE PutChunk(w) \/ AbortEvidenceGeneration(w)
  <2>1. page' = page /\ UNCHANGED history
    BY <1>9 DEF PutChunk, AbortEvidenceGeneration
  <2>2. HistoryOK'
    BY <2>1 DEF history, BInv, HistoryOK
  <2> QED BY <1>1, <1>4, <1>5, <1>7, <1>9, <2>1, <2>2, BuildingKeeps DEF Keeps
<1>10. CASE PublishEvidenceGeneration(w)
  <2>1. page' = page /\ overtaken' = overtaken
    BY <1>10 DEF PublishEvidenceGeneration, history
  <2>2. CASE CanPublish(w)
    <3>1. HistoryOK'
      BY <1>2, <2>1 DEF BInv, HistoryOK
    <3> QED BY <1>1, <1>4, <1>5, <1>7, <1>10, <2>1, <2>2, <3>1, PublishKeeps
            DEF Keeps
  <2>3. CASE ~CanPublish(w)
    <3>1. evidence' = evidence
      BY <1>10, <2>3, Zenon DEF PublishEvidenceGeneration
    <3> QED BY <1>8, <2>1, <3>1
  <2> QED BY <2>2, <2>3
<1>11. CASE DeleteSourceKnowledge(w)
  <2>1. CASE ~(evidence' = evidence /\ page' = page)
    <3>1. ~Checked(w)
      BY <1>11 DEF DeleteSourceKnowledge, Checked, CheckCitations, At
    <3>2. \A v \in Workers : HoldsOn(v)
      BY <3>1, WorkerMoves
    <3> QED BY <1>1, <1>4, <1>5, <1>11, <2>1, <3>2, DeleteKeeps DEF Keeps
  <2>2. CASE evidence' = evidence /\ page' = page
    <3>1. overtaken' = overtaken
      BY <1>11, <2>2 DEF DeleteSourceKnowledge, Watch
    <3> QED BY <1>8, <2>2, <3>1
  <2> QED BY <2>1, <2>2
<1>12. CASE PublishWikiPatch(w)
  <2>1. evidence' = evidence /\ overtaken' = overtaken
    BY <1>12 DEF PublishWikiPatch, history
  <2>2. CASE page' # page
    <3>1. PageOK' /\ DeletedNotCited'
      BY <1>12, <2>2, PatchKeeps
    <3> QED BY <1>1, <1>4, <1>5, <2>1, <3>1, QuietKeeps DEF Keeps
  <2> QED BY <1>8, <2>1, <2>2
<1>13. /\ evidence' = evidence \/ EvidenceStep(w)
       /\ page' = page \/ PageStep(w)
  BY WorkerTables
<1> QED BY <1>2, <1>8, <1>9, <1>10, <1>11, <1>12, <1>13, Zenon
        DEF EvidenceStep, PageStep

LEMMA OtherKeeps ==
    ASSUME BInv, [Next]_vars, Other
    PROVE  Keeps
<1>1. /\ doc' = doc /\ evidence' = evidence /\ page' = page
      /\ torn' = torn /\ overtaken' = overtaken
  BY OtherSteps
<1>2. DocOK' /\ SameGens
  BY <1>1 DEF BInv, DocOK, SameGens
<1>3. Steady
  BY <1>1, <1>2, OtherBuilds DEF Steady, TaskMoves
<1>4. WorkOK'
  <2>1. CASE Workers = {}
    <3>1. work' = work
      BY <2>1, OtherSteps
    <3> QED BY <3>1 DEF BInv, WorkOK
  <2> QED BY <2>1, OtherBuilds
<1> QED BY <1>1, <1>2, <1>3, <1>4, SteadyKeeps, QuietKeeps DEF Keeps

LEMMA TablesTypes ==
    ASSUME BInv, [Next]_vars
    PROVE  RelationOK' /\ BudgetOK'
<1>1. /\ \/ relation' = relation
         \/ \E s \in Sources :
              relation' = relation \cup {s} \/ relation' = relation \ {s}
      /\ budget' = budget \/ Fault \/ Drop \/ \E s \in Sources : Edit(s)
  <2>1. CASE Other
    BY <2>1, OtherSteps
  <2>2. ASSUME NEW w \in Workers, WorkerStep(w)
        PROVE  relation' = relation /\ (budget' = budget \/ Fault)
    BY <2>2, WorkerTables
  <2>3. ASSUME NEW w \in Workers, Tearing(w)
        PROVE  relation' = relation /\ (budget' = budget \/ Fault \/ Drop)
    BY <2>3, TearingTables DEF TornTables
  <2> QED BY <2>1, <2>2, <2>3, EveryStep
<1>2. RelationOK'
  BY <1>1 DEF BInv, RelationOK
<1> QED BY <1>1, <1>2, BudgetTypes DEF BInv

LEMMA BInvKept ==
    ASSUME BInv, [Next]_vars
    PROVE  BInv' /\ Stays
<1>1. QInv'
  BY BaseDrivesQueue, QInvKept DEF BInv
<1>2. Keeps
  BY EveryStep, OtherKeeps, BegunKeeps, WorkerKeeps, TearKeeps
<1> QED BY <1>1, <1>2, TablesTypes DEF Keeps, BInv

----------------------------------------------------------------------------
(* Documents that read READY.                                              *)

\* The calls that a task of each type makes, before those that end it.
CallsOf(type) ==
    CASE type = "parse_source"  -> {"load", "lookup", "begin", "embed", "put",
                                    "abort", "skip", "torn"}
      [] type = "delete_source" -> {"delete", "torn"}
      [] type = "compile_wiki"  -> {"open", "generate", "unlocked", "patch",
                                    "cite", "torn patch"}
      [] type = "repair_wiki"   -> {"repair", "patch", "cite", "torn patch"}
Ending == {"finish", "fail", "giveup"}
Resting == {"idle", "mark"}

\* A worker makes the calls of the task it claimed.
OnTask ==
    \A w \in Workers :
        work[w].pc \notin Resting =>
           /\ claim[w].id \in TaskIds
           /\ work[w].pc \in CallsOf(TypeOf(w)) \cup Ending
OnParse ==
    \A w \in Workers :
        At(w, "torn") /\ work[w].tx # "delete" => TypeOf(w) = "parse_source"

\* A task that is no success, and that no worker is about to make one.
Open(i) ==
    /\ task[i].status \notin {"none", "success"}
    /\ \A v \in Workers : At(v, "finish") /\ Fenced(v) => claim[v].id # i

\* Whoever may still withdraw the vectors of the generation that is published
\* has a task that is open: its commit went unanswered.
Unanswered ==
    \A w \in Workers :
        Building(w) /\ Whole(w) /\ work[w].gen = doc[SourceOf(w)].published
        => Open(claim[w].id)

StagedWhole ==
    \A s \in Sources \ torn, g \in Gens :
        evidence[s][g].state = "STAGING" => evidence[s][g].vectors

ReadyRow(s) ==
    /\ doc[s].published \in Gens
    /\ evidence[s][doc[s].published].state = "PUBLISHED"
    /\ evidence[s][doc[s].published].rows = ChunkCount[s]
    /\ \/ evidence[s][doc[s].published].vectors
       \/ \E i \in TaskIds : task[i].key = <<s, "parse_source">> /\ Open(i)

Ready ==
    \A s \in Sources \ torn :
        /\ doc[s].published <= doc[s].gen
        /\ doc[s].evidence = "READY" => ReadyRow(s)

RInv == BInv /\ OnTask /\ OnParse /\ Unanswered /\ StagedWhole /\ Ready

LEMMA RInit == Init => RInv
<1> SUFFICES ASSUME Init PROVE RInv
  OBVIOUS
<1> PICK start \in Starts : StartsFrom(start)
  BY DEF Init
<1>1. BInv
  BY BInit
<1>2. \A w \in Workers : work[w].pc = "idle"
  BY DEF Init, Idle
<1>3. OnTask /\ OnParse /\ Unanswered
  BY <1>2 DEF OnTask, OnParse, At, Resting, Unanswered, Building, Parsing
<1>4. StagedWhole
  BY DEF StartsFrom, StagedWhole, NoGen
<1>5. Ready
  <2> SUFFICES ASSUME NEW s \in Sources
               PROVE  /\ doc[s].published <= doc[s].gen
                      /\ doc[s].evidence = "READY" => ReadyRow(s)
    BY DEF Ready
  <2>1. CASE s \in start.files
    <3>1. /\ doc[s].published = 1 /\ doc[s].gen = 1
          /\ evidence[s][1] = [state |-> "PUBLISHED", rows |-> ChunkCount[s],
                               vectors |-> TRUE]
      BY <2>1, Bounds DEF StartsFrom
    <3> QED BY <3>1, Bounds DEF ReadyRow
  <2>2. CASE s \notin start.files
    <3>1. doc[s] = NoDoc
      BY <2>2 DEF StartsFrom
    <3> QED BY <3>1 DEF NoDoc
  <2> QED BY <2>1, <2>2
<1> QED BY <1>1, <1>3, <1>4, <1>5 DEF RInv

\* Which calls are whose.
LEMMA CallTypes ==
    ASSUME NEW type \in TaskTypes
    PROVE  /\ FirstCall(type) \in CallsOf(type)
           /\ \A pc \in {"load", "lookup", "begin", "embed", "put", "abort"} :
                pc \in CallsOf(type) \cup Ending => type = "parse_source"
           /\ "delete" \in CallsOf(type) \cup Ending => type = "delete_source"
           /\ \A pc \in {"open", "generate", "unlocked"} :
                pc \in CallsOf(type) \cup Ending => type = "compile_wiki"
           /\ "repair" \in CallsOf(type) \cup Ending => type = "repair_wiki"
           /\ \A pc \in {"patch", "cite", "torn patch"} :
                pc \in CallsOf(type) \cup Ending =>
                  type \in {"compile_wiki", "repair_wiki"}
  BY DEF TaskTypes, FirstCall, CallsOf, Ending

\* The type of the task a worker is at, from its call.
LEMMA TaskAt ==
    ASSUME RInv, NEW w \in Workers, work[w].pc \notin Resting
    PROVE  /\ claim[w].id \in TaskIds
           /\ SourceOf(w) \in Sources /\ TypeOf(w) \in TaskTypes
           /\ task[claim[w].id].key = <<SourceOf(w), TypeOf(w)>>
           /\ task[claim[w].id].status # "none"
           /\ work[w].pc \in CallsOf(TypeOf(w)) \cup Ending
<1>1. /\ claim[w].id \in TaskIds
      /\ work[w].pc \in CallsOf(TypeOf(w)) \cup Ending
  BY DEF RInv, OnTask
<1>2. SourceOf(w) \in Sources /\ TypeOf(w) \in TaskTypes
  BY <1>1, HeldSource DEF RInv, BInv
<1>3. task[claim[w].id].status # "none" /\ task[claim[w].id].key \in Keys
  BY <1>1 DEF RInv, BInv, QInv, Inserts, Keyed
<1>4. task[claim[w].id].key \in Sources \X TaskTypes
  BY <1>3, BaseAssumption DEF BaseAssumption
<1> QED BY <1>1, <1>2, <1>3, <1>4 DEF SourceOf, TypeOf

LEMMA TypeAt ==
    ASSUME RInv, NEW w \in Workers
    PROVE  /\ work[w].pc \in {"load", "lookup", "begin", "embed", "put", "abort"}
                => TypeOf(w) = "parse_source"
           /\ work[w].pc = "delete" => TypeOf(w) = "delete_source"
           /\ work[w].pc \in {"open", "generate", "unlocked"} =>
                TypeOf(w) = "compile_wiki"
           /\ work[w].pc = "repair" => TypeOf(w) = "repair_wiki"
           /\ work[w].pc \in {"patch", "cite", "torn patch"} =>
                TypeOf(w) \in {"compile_wiki", "repair_wiki"}
<1>1. ASSUME work[w].pc \notin Resting
      PROVE  /\ TypeOf(w) \in TaskTypes
             /\ work[w].pc \in CallsOf(TypeOf(w)) \cup Ending
  BY <1>1, TaskAt
<1>2. CASE work[w].pc \in {"load", "lookup", "begin", "embed", "put", "abort"}
  <2>1. work[w].pc \notin Resting
    BY <1>2 DEF Resting
  <2>2. TypeOf(w) = "parse_source"
    BY <1>1, <1>2, <2>1, CallTypes, Zenon
  <2> QED BY <1>2, <2>2
<1>3. CASE work[w].pc \in {"delete", "repair"}
  <2>1. work[w].pc \notin Resting
    BY <1>3 DEF Resting
  <2> QED BY <1>1, <1>3, <2>1, CallTypes
<1>4. CASE work[w].pc \in {"open", "generate", "unlocked"}
  <2>1. work[w].pc \notin Resting
    BY <1>4 DEF Resting
  <2>2. TypeOf(w) = "compile_wiki"
    BY <1>1, <1>4, <2>1, CallTypes, Zenon
  <2> QED BY <1>4, <2>2
<1>5. CASE work[w].pc \in {"patch", "cite", "torn patch"}
  <2>1. work[w].pc \notin Resting
    BY <1>5 DEF Resting
  <2>2. TypeOf(w) \in {"compile_wiki", "repair_wiki"}
    BY <1>1, <1>5, <2>1, CallTypes, Zenon
  <2> QED BY <1>5, <2>2
<1> QED BY <1>2, <1>3, <1>4, <1>5

\* A worker's step leads from a call to another of its task, or it rests.
LEMMA NextCall ==
    ASSUME RInv, NEW w \in Workers, WorkerStep(w), ~Pick(w)
    PROVE  \/ work'[w].pc \in Resting
           \/ /\ work[w].pc \notin Resting
              /\ claim' = claim
              /\ work'[w].pc \in CallsOf(TypeOf(w)) \cup Ending
<1>1. work \in [Workers -> WorkRow] /\ work[w] \in WorkRow
  BY DEF RInv, BInv, WorkOK
<1> DEFINE Goes(pc) == /\ work[w].pc \notin Resting
                       /\ claim' = claim
                       /\ work'[w].pc = pc
                       /\ pc \in CallsOf(TypeOf(w)) \cup Ending
<1>2. \A pc \in Calls : Goto(w, pc) => work'[w].pc = pc
  BY <1>1 DEF Goto, WorkRow
<1>3. Rest(w) => work'[w].pc \in Resting
  BY <1>1 DEF Rest, Idle, Resting
<1>4. CASE Finish(w) \/ Skip(w) \/ MarkWikiFailed(w)
  BY <1>3, <1>4 DEF Finish, Skip, MarkWikiFailed
<1>5. CASE Fail(w)
  <2>1. CASE Rest(w)
    BY <1>3, <2>1
  <2>2. CASE work' = [work EXCEPT ![w] =
                        [Idle EXCEPT !.pc = "mark", !.mark = {SourceOf(w)}]]
    BY <1>1, <2>2 DEF Resting, Idle
  <2> QED BY <1>5, <2>1, <2>2, Zenon DEF Fail, Rest
<1>6. CASE RecoverRetry(w) \/ RecoverFail(w)
  BY <1>6 DEF RecoverRetry, RecoverFail, At, Resting
<1>7. CASE LoadSource(w) \/ LookupSource(w)
  <2>1. /\ work[w].pc \in {"load", "lookup"} /\ claim' = claim
        /\ \E pc \in {"begin", "fail", "giveup", "skip", "lookup"} : Goto(w, pc)
    BY <1>7 DEF LoadSource, LookupSource, At, queue
  <2>2. TypeOf(w) = "parse_source"
    BY <2>1, TypeAt
  <2> QED BY <1>2, <2>1, <2>2 DEF Resting, Calls, CallsOf, Ending
<1>8. CASE BeginEvidenceGeneration(w)
  <2>1. work[w].pc = "begin" /\ claim' = claim
    BY <1>8 DEF BeginEvidenceGeneration, At, queue
  <2>2. TypeOf(w) = "parse_source"
    BY <2>1, TypeAt
  <2>3. work'[w].pc \in {"embed", "fail"}
    <3>1. CASE Goto(w, "fail")
      BY <1>2, <3>1 DEF Calls
    <3>2. CASE work' = [work EXCEPT ![w] = [work[w] EXCEPT !.pc = "embed",
                          !.gen = NextGeneration(SourceOf(w)), !.n = 0]]
      BY <1>1, <3>2 DEF WorkRow
    <3> QED BY <1>8, <3>1, <3>2, Zenon DEF BeginEvidenceGeneration
  <2> QED BY <2>1, <2>2, <2>3 DEF Resting, CallsOf, Ending
<1>9. CASE EmbedChunk(w) \/ PutChunk(w) \/ AbortEvidenceGeneration(w)
  <2>1. work[w].pc \in {"embed", "put", "abort"} /\ claim' = claim
    BY <1>9 DEF EmbedChunk, PutChunk, AbortEvidenceGeneration, At, queue
  <2>2. TypeOf(w) = "parse_source"
    BY <2>1, TypeAt
  <2>3. work'[w].pc \in {"embed", "put", "abort", "fail"}
    <3>1. CASE Goto(w, "put") \/ Goto(w, "abort") \/ Goto(w, "fail")
      BY <1>2, <3>1 DEF Calls
    <3>2. CASE work' = [work EXCEPT ![w] = Stepped(work[w])]
      <4>1. Stepped(work[w]).pc = "embed"
        BY <1>1 DEF Stepped, WorkRow
      <4> QED BY <1>1, <3>2, <4>1
    <3> QED BY <1>9, <3>1, <3>2
            DEF EmbedChunk, PutChunk, AbortEvidenceGeneration
  <2> QED BY <2>1, <2>2, <2>3 DEF Resting, CallsOf, Ending
<1>10. CASE PublishEvidenceGeneration(w)
  <2>1. work[w].pc = "embed"
    BY <1>10 DEF PublishEvidenceGeneration, At
  <2>2. claim' = claim
    BY <1>10, Zenon DEF PublishEvidenceGeneration, Enqueue, queue
  <2>3. TypeOf(w) = "parse_source"
    BY <2>1, TypeAt
  <2>4. Goto(w, "finish") \/ Goto(w, "abort")
    BY <1>10, Zenon DEF PublishEvidenceGeneration, Answer
  <2> QED BY <1>2, <2>1, <2>2, <2>3, <2>4 DEF Resting, Calls, CallsOf, Ending
<1>11. CASE DeleteSourceKnowledge(w)
  <2>1. work[w].pc = "delete"
    BY <1>11 DEF DeleteSourceKnowledge, At
  <2>2. claim' = claim
    BY <1>11, Zenon DEF DeleteSourceKnowledge, Enqueue, queue
  <2>3. Goto(w, "finish") \/ Goto(w, "fail")
    BY <1>11, Zenon DEF DeleteSourceKnowledge, Answer
  <2> QED BY <1>2, <2>1, <2>2, <2>3 DEF Resting, Calls, Ending
<1>12. CASE OpenSource(w) \/ GenerateWiki(w) \/ GenerateRepair(w)
  <2>1. /\ work[w].pc \in {"open", "generate", "unlocked", "repair"}
        /\ claim' = claim
    BY <1>12 DEF OpenSource, GenerateWiki, GenerateRepair, At, queue
  <2>2. \/ work[w].pc = "open" /\ Goto(w, "generate")
        \/ \E pc \in {"fail", "giveup", "finish"} : Goto(w, pc)
        \/ /\ work[w].pc \in {"generate", "unlocked", "repair"}
           /\ \E p, base, cites : Patch(w, p, base, cites)
    BY <1>12, Zenon DEF OpenSource, GenerateWiki, GenerateRepair, At
  <2>3. CASE \E pc \in {"fail", "giveup", "finish"} : Goto(w, pc)
    BY <1>2, <2>1, <2>3 DEF Calls, Resting, Ending
  <2>4. CASE work[w].pc = "open" /\ Goto(w, "generate")
    <3>1. TypeOf(w) = "compile_wiki"
      BY <2>4, TypeAt
    <3> QED BY <1>2, <2>1, <2>4, <3>1 DEF Calls, Resting, CallsOf
  <2>5. CASE /\ work[w].pc \in {"generate", "unlocked", "repair"}
             /\ \E p, base, cites : Patch(w, p, base, cites)
    <3>1. TypeOf(w) \in {"compile_wiki", "repair_wiki"}
      BY <2>5, TypeAt
    <3>2. work'[w].pc = "patch"
      BY <1>1, <2>5 DEF Patch, WorkRow
    <3> QED BY <2>1, <3>1, <3>2 DEF Resting, CallsOf
  <2> QED BY <2>2, <2>3, <2>4, <2>5
<1>13. CASE PublishWikiPatch(w)
  <2>1. work[w].pc = "cite"
    BY <1>13 DEF PublishWikiPatch, At
  <2>2. CASE Rest(w)
    BY <1>3, <2>2
  <2>3. CASE ~Rest(w)
    <3>1. claim' = claim
      BY <1>13, <2>3, Zenon DEF PublishWikiPatch, queue
    <3>2. Goto(w, "finish") \/ Goto(w, "fail")
      BY <1>13, <2>3, Zenon DEF PublishWikiPatch, Answer
    <3> QED BY <1>2, <2>1, <3>1, <3>2 DEF Resting, Calls, Ending
  <2> QED BY <2>2, <2>3
<1>14. CASE CheckCitations(w)
  <2>1. work[w].pc = "patch" /\ claim' = claim
    BY <1>14 DEF CheckCitations, At, queue
  <2>2. TypeOf(w) \in {"compile_wiki", "repair_wiki"}
    BY <2>1, TypeAt
  <2>3. work'[w].pc \in {"cite", "fail"}
    <3>1. CASE Goto(w, "fail")
      BY <1>2, <3>1 DEF Calls
    <3>2. CASE work' = [work EXCEPT ![w] = [work[w] EXCEPT !.pc = "cite",
                                              !.more = OthersStale(w)]]
      BY <1>1, <3>2 DEF WorkRow
    <3> QED BY <1>14, <3>1, <3>2, Zenon DEF CheckCitations
  <2> QED BY <2>1, <2>2, <2>3 DEF Resting, CallsOf, Ending
<1> QED BY <1>4, <1>5, <1>6, <1>7, <1>8, <1>9, <1>10, <1>11, <1>12, <1>13,
           <1>14, Zenon DEF WorkerStep

\* So do the steps of a torn transaction.
LEMMA NextTorn ==
    ASSUME RInv, NEW w \in Workers, Tearing(w)
    PROVE  \/ work'[w].pc \in Resting
           \/ /\ work[w].pc \notin Resting
              /\ claim' = claim
              /\ work'[w].pc \in CallsOf(TypeOf(w)) \cup Ending
              /\ work'[w].pc = "torn" /\ work'[w].tx # "delete" =>
                   TypeOf(w) = "parse_source"
<1>1. work \in [Workers -> WorkRow] /\ work[w] \in WorkRow
  BY DEF RInv, BInv, WorkOK
<1>2. \A pc \in Calls : Goto(w, pc) => work'[w].pc = pc
  BY <1>1 DEF Goto, WorkRow
<1>3. Onward(w) => work'[w].pc = work[w].pc /\ work'[w].tx = work[w].tx
  BY <1>1 DEF Onward, WorkRow
<1>4. CASE LoseEvidence(w)
  <2>1. claim' = claim
    BY <1>4 DEF LoseEvidence, queue
  <2>2. PICK tx, at :
          /\ InTransaction(w, tx)
          /\ work' = [work EXCEPT ![w] =
               [work[w] EXCEPT !.pc = "torn", !.tx = tx, !.at = at,
                               !.gen = IF tx = "begin"
                                       THEN NextGeneration(SourceOf(w))
                                       ELSE work[w].gen]]
    BY <1>1, <1>4 DEF LoseEvidence
  <2>3. work'[w].pc = "torn" /\ work'[w].tx = tx
    BY <1>1, <2>2 DEF WorkRow
  <2>4. \/ tx # "delete" /\ work[w].pc \in {"begin", "embed", "abort"}
        \/ tx = "delete" /\ work[w].pc = "delete"
    BY <2>2 DEF InTransaction, At
  <2>5. \/ tx # "delete" /\ TypeOf(w) = "parse_source"
        \/ tx = "delete" /\ TypeOf(w) = "delete_source"
    BY <2>4, TypeAt
  <2> QED BY <2>1, <2>3, <2>4, <2>5 DEF Resting, CallsOf
<1>5. CASE LosePatch(w)
  <2>1. work[w].pc = "cite" /\ claim' = claim
    BY <1>5 DEF LosePatch, At, queue
  <2>2. TypeOf(w) \in {"compile_wiki", "repair_wiki"}
    BY <2>1, TypeAt
  <2>3. work'[w].pc = "torn patch"
    BY <1>1, <1>5 DEF LosePatch, WorkRow
  <2> QED BY <2>1, <2>2, <2>3 DEF Resting, CallsOf
<1>6. CASE LoseRead(w)
  <2>1. work[w].pc = "generate" /\ claim' = claim
    BY <1>6 DEF LoseRead, At, queue
  <2>2. TypeOf(w) = "compile_wiki"
    BY <2>1, TypeAt
  <2>3. work'[w].pc = "unlocked"
    BY <1>2, <1>6 DEF LoseRead, Calls
  <2> QED BY <2>1, <2>2, <2>3 DEF Resting, CallsOf
<1>7. CASE RunEvidence(w)
  <2>1. work[w].pc = "torn" /\ Onward(w)
    BY <1>7 DEF RunEvidence, At
  <2>2. claim' = claim
    BY <1>7, Zenon DEF RunEvidence, Enqueue, queue
  <2>3. "torn" \in CallsOf(TypeOf(w)) \cup Ending
    BY <2>1, TaskAt DEF Resting
  <2> QED BY <1>3, <2>1, <2>2, <2>3 DEF RInv, OnParse, At, Resting
<1>8. CASE EndEvidence(w)
  <2>1. work[w].pc = "torn" /\ claim' = claim
    BY <1>8 DEF EndEvidence, At, queue
  <2>2. \/ Goto(w, "finish") \/ Goto(w, "fail")
        \/ /\ work[w].tx # "delete"
           /\ Goto(w, "embed") \/ Goto(w, "abort")
    BY <1>8 DEF EndEvidence
  <2>3. work[w].tx # "delete" => TypeOf(w) = "parse_source"
    BY <2>1 DEF RInv, OnParse, At
  <2> QED BY <1>2, <2>1, <2>2, <2>3 DEF Calls, Resting, CallsOf, Ending
<1>9. CASE RunPatch(w)
  <2>1. work[w].pc = "torn patch" /\ claim' = claim
    BY <1>9 DEF RunPatch, At, queue
  <2>2. Onward(w) \/ Goto(w, "fail")
    BY <1>9, Zenon DEF RunPatch
  <2>3. "torn patch" \in CallsOf(TypeOf(w)) \cup Ending
    BY <2>1, TaskAt DEF Resting
  <2> QED BY <1>2, <1>3, <2>1, <2>2, <2>3 DEF Calls, Resting, Ending
<1>10. CASE EndPatch(w)
  <2>1. work[w].pc = "torn patch"
    BY <1>10 DEF EndPatch, At
  <2>2. CASE Rest(w)
    BY <1>1, <2>2 DEF Rest, Idle, Resting
  <2>3. CASE ~Rest(w)
    <3>1. claim' = claim /\ (Goto(w, "finish") \/ Goto(w, "fail"))
      BY <1>10, <2>3, Zenon DEF EndPatch, queue
    <3> QED BY <1>2, <2>1, <3>1 DEF Resting, Calls, Ending
  <2> QED BY <2>2, <2>3
<1>11. CASE Fails(w)
  <2>1. work[w].pc \in {"torn", "torn patch"} /\ claim' = claim
    BY <1>11 DEF Fails, At, queue
  <2>2. \/ Goto(w, "fail")
        \/ At(w, "torn") /\ work[w].tx # "delete" /\ Goto(w, "abort")
    BY <1>11 DEF Fails
  <2> QED BY <1>2, <2>1, <2>2
          DEF Calls, Resting, CallsOf, Ending, RInv, OnParse
<1> QED BY <1>4, <1>5, <1>6, <1>7, <1>8, <1>9, <1>10, <1>11
        DEF Tearing, TornStep, Lose

LEMMA OnTaskKept ==
    ASSUME RInv, [Next]_vars
    PROVE  OnTask'
<1> SUFFICES ASSUME NEW v \in Workers, work'[v].pc \notin Resting
             PROVE  /\ claim'[v].id \in TaskIds
                    /\ work'[v].pc \in CallsOf(TypeOf(v)') \cup Ending
  BY DEF OnTask
<1>1. BInv /\ QInv /\ [QNext]_queue
  BY BaseDrivesQueue DEF RInv, BInv
<1>2. CASE /\ claim'[v] = claim[v] /\ work[v].pc \notin Resting
           /\ work'[v].pc \in CallsOf(TypeOf(v)) \cup Ending
  <2>1. /\ claim[v].id \in TaskIds
        /\ task'[claim[v].id].key = task[claim[v].id].key
    BY <1>1, <1>2, TaskAt, KeysStay
  <2> QED BY <1>2, <2>1 DEF TypeOf
<1>3. CASE Other
  <2>1. CASE work' = work /\ claim' = claim
    BY <1>2, <2>1, TaskAt
  <2>2. ASSUME NEW w \in Workers, Crash(w)
        PROVE  claim'[v] = claim[v] /\ work'[v] = work[v]
    <3>1. /\ work' = [work EXCEPT ![w] = Idle]
          /\ claim' = [claim EXCEPT ![w] = NoClaim]
      BY <2>2 DEF Crash, Rest, Forget
    <3>2. v # w
      BY <1>1, <3>1 DEF BInv, WorkOK, Idle, Resting
    <3> QED BY <3>1, <3>2
  <2>3. CASE \E w \in Workers : Crash(w)
    BY <1>2, <2>2, <2>3, TaskAt
  <2> QED BY <1>3, <2>1, <2>3, OtherSteps
<1>4. ASSUME NEW w \in Workers, WorkerStep(w)
      PROVE  /\ claim'[v].id \in TaskIds
             /\ work'[v].pc \in CallsOf(TypeOf(v)') \cup Ending
  <2>1. CASE v # w
    <3>1. PICK row : work' = [work EXCEPT ![w] = row]
      BY <1>1, <1>4, WorkerCarries DEF Carries
    <3>2. work'[v] = work[v] /\ claim'[v] = claim[v]
      BY <1>1, <1>4, <2>1, <3>1, OthersClaims
    <3> QED BY <1>2, <3>2, TaskAt
  <2>2. CASE v = w /\ ~Pick(w)
    BY <1>2, <1>4, <2>2, NextCall
  <2>3. CASE v = w /\ Pick(w)
    <3>1. PICK i \in TaskIds :
            /\ Oldest(i)
            /\ task' = [task EXCEPT ![i] = ClaimedRow(task[i], w)]
            /\ claim' = [claim EXCEPT ![w] =
                 [id |-> i, epoch |-> task[i].epoch + 1,
                  retry |-> task[i].retry]]
      BY <2>3 DEF Pick, ClaimTask
    <3>2. claim'[w].id = i
      BY <1>1, <3>1 DEF QInv, QTypeOK
    <3>3. task'[i].key = task[i].key /\ task[i].key \in Keys
      <4>1. task[i] \in TaskRow /\ task'[i] = ClaimedRow(task[i], w)
        BY <1>1, <3>1 DEF QInv, QTypeOK
      <4>2. task[i].status # "none"
        BY <3>1 DEF Oldest, Claimable
      <4> QED BY <1>1, <4>1, <4>2, ClaimedRowType DEF QInv, Keyed
    <3>4. TypeOf(w)' = task[i].key[2] /\ task[i].key[2] \in TaskTypes
      BY <3>2, <3>3, BaseAssumption DEF TypeOf, BaseAssumption
    <3>5. work'[w].pc = FirstCall(task[i].key[2])
      BY <1>1, <2>3, <3>2 DEF Pick, BInv, WorkOK, WorkRow
    <3> QED BY <2>3, <3>2, <3>4, <3>5, CallTypes
  <2> QED BY <2>1, <2>2, <2>3
<1>5. ASSUME NEW w \in Workers, Tearing(w)
      PROVE  /\ claim'[v].id \in TaskIds
             /\ work'[v].pc \in CallsOf(TypeOf(v)') \cup Ending
  <2>1. CASE v # w
    <3>1. work'[v] = work[v] /\ claim'[v] = claim[v]
      BY <1>1, <1>5, <2>1, OthersRest
    <3> QED BY <1>2, <3>1, TaskAt
  <2>2. CASE v = w
    BY <1>2, <1>5, <2>2, NextTorn
  <2> QED BY <2>1, <2>2
<1> QED BY <1>3, <1>4, <1>5, EveryStep

LEMMA OnParseKept ==
    ASSUME RInv, [Next]_vars
    PROVE  OnParse'
<1> SUFFICES ASSUME NEW v \in Workers, work'[v].pc = "torn",
                    work'[v].tx # "delete"
             PROVE  TypeOf(v)' = "parse_source"
  BY DEF OnParse, At
<1>1. BInv
  BY DEF RInv
<1>2. CASE work'[v] = work[v] /\ claim'[v] = claim[v]
  <2>1. TypeOf(v) = "parse_source" /\ claim[v].id \in TaskIds
    BY <1>2 DEF RInv, BInv, InHand, OnParse, At
  <2> QED BY <1>1, <1>2, <2>1, SameRow
<1>3. CASE Other
  BY <1>1, <1>2, <1>3, OtherBuilds DEF HoldsOn, Midway
<1>4. ASSUME NEW w \in Workers, WorkerStep(w)
      PROVE  TypeOf(v)' = "parse_source"
  BY <1>1, <1>2, <1>4, WorkerBuilds DEF HoldsOn, Midway
<1>5. ASSUME NEW w \in Workers, Tearing(w)
      PROVE  TypeOf(v)' = "parse_source"
  <2>1. CASE v # w
    BY <1>1, <1>2, <1>5, <2>1, OthersRest
  <2>2. CASE v = w
    <3>1. /\ work[v].pc \notin Resting /\ claim' = claim
          /\ TypeOf(v) = "parse_source"
      BY <1>5, <2>2, NextTorn DEF Resting
    <3> QED BY <1>1, <3>1, TaskAt, SameRow
  <2> QED BY <2>1, <2>2
<1> QED BY <1>3, <1>4, <1>5, EveryStep

\* Only the worker that finishes a task makes it a success.
LEMMA SettledAs ==
    ASSUME QInv, NEW w \in Workers, NEW row, Settle(w, row),
           NEW i \in TaskIds, row.status # "success",
           task'[i].status = "success"
    PROVE  task[i].status = "success"
<1>1. CASE task' = task
  BY <1>1
<1>2. CASE Fenced(w) /\ task' = [task EXCEPT ![claim[w].id] = row]
  BY <1>2 DEF Fenced, QInv, QTypeOK
<1> QED BY <1>1, <1>2 DEF Settle

LEMMA InsertedAs ==
    ASSUME QInv, NEW k \in Keys, Enqueue(k) \/ CommitStaged(k),
           NEW i \in TaskIds, task'[i].status = "success"
    PROVE  task[i].status = "success"
<1>1. CASE task' = task
  BY <1>1
<1>2. ASSUME NEW j \in TaskIds, task' = [task EXCEPT ![j] = Inserted(k)]
      PROVE  task[i].status = "success"
  BY <1>2, InsertedRow DEF QInv, QTypeOK
<1> QED BY <1>1, <1>2 DEF Enqueue, CommitStaged

LEMMA SuccessByFinish ==
    ASSUME BInv, [Next]_vars, NEW i \in TaskIds,
           task[i].status # "success", task'[i].status = "success"
    PROVE  \E w \in Workers : Finish(w) /\ Fenced(w) /\ claim[w].id = i
<1>1. QInv /\ task[i] \in TaskRow
  BY DEF BInv, QInv, QTypeOK
<1>2. task' # task
  OBVIOUS
<1>3. ASSUME NEW k \in Keys, Enqueue(k) \/ CommitStaged(k)
      PROVE  FALSE
  BY <1>1, <1>3, InsertedAs
<1>4. ASSUME UserNext
      PROVE  FALSE
  <2>1. PICK s \in Sources :
          \/ UploadKnown(s) \/ UploadOpen(s) \/ UploadCommit(s)
          \/ UploadRollback(s) \/ RemoveFile(s) \/ Describe(s)
    BY <1>4 DEF UserNext
  <2>2. <<s, "parse_source">> \in Keys /\ <<s, "delete_source">> \in Keys
    BY KeysOfTasks DEF TaskTypes
  <2> QED BY <1>2, <1>3, <2>1, <2>2, Zenon
          DEF UploadKnown, UploadOpen, UploadCommit, UploadRollback,
              RemoveFile, Describe, queue, StageEnqueue, DropStaged
<1>5. ASSUME NEW j \in TaskIds,
             task' = [task EXCEPT ![j].lease = "expired"]
             \/ task' = [task EXCEPT ![j].due = TRUE]
      PROVE  FALSE
  <2>1. task[j] \in TaskRow
    BY <1>1 DEF QInv, QTypeOK
  <2> QED BY <1>1, <1>5, <2>1 DEF QInv, QTypeOK, TaskRow
<1>6. ASSUME \/ \E w \in Workers : Crash(w) \/ Stall(w)
             \/ \E j \in TaskIds : LeaseRunsOut(j) \/ BecomesDue(j)
      PROVE  FALSE
  <2>1. CASE \E w \in Workers : Crash(w)
    BY <1>2, <2>1 DEF Crash, Forget
  <2>2. ASSUME NEW w \in Workers, Stall(w)
        PROVE  FALSE
    <3>1. claim[w].id \in TaskIds
          /\ task' = [task EXCEPT ![claim[w].id].lease = "expired"]
      BY <2>2 DEF Stall, Fenced, LeaseExpires
    <3> QED BY <1>5, <3>1
  <2>3. ASSUME NEW j \in TaskIds, LeaseRunsOut(j) \/ BecomesDue(j)
        PROVE  FALSE
    BY <1>5, <2>3 DEF LeaseRunsOut, BecomesDue, LeaseExpires, RetryDue
  <2> QED BY <1>6, <2>1, <2>2, <2>3
<1>7. ~Other
  <2>1. ~UNCHANGED vars
    BY <1>2, Zenon DEF vars, queue
  <2> QED BY <1>4, <1>6, <2>1, Zenon DEF Other
<1>8. PICK w \in Workers : WorkerStep(w) \/ Tearing(w)
  BY <1>7, EveryStep
<1>9. ASSUME NEW row, Settle(w, row), row.status # "success"
      PROVE  FALSE
  BY <1>1, <1>9, SettledAs
<1>10. CASE Pick(w)
  <2>1. PICK j \in TaskIds : task' = [task EXCEPT ![j] = ClaimedRow(task[j], w)]
    BY <1>10 DEF Pick, ClaimTask
  <2>2. i = j => task'[i].status = "running"
    BY <1>1, <2>1, ClaimedRowType DEF QInv, QTypeOK
  <2>3. i # j => task'[i] = task[i]
    BY <2>1
  <2> QED BY <2>2, <2>3
<1>11. CASE Finish(w)
  <2>1. Fenced(w)
    BY <1>2, <1>11, Zenon DEF Finish, FinishTask, Settle
  <2>2. task' = [task EXCEPT ![claim[w].id] =
                   DoneRow(task[claim[w].id], "success")]
    BY <1>11, <2>1, Zenon DEF Finish, FinishTask, Settle
  <2>3. claim[w].id = i
    BY <2>2
  <2> QED BY <1>11, <2>1, <2>3
<1>12. CASE Skip(w)
  <2>1. claim[w].id \in TaskIds
    <3>1. Fenced(w)
      BY <1>2, <1>12, Zenon DEF Skip, SkipTask, Settle
    <3> QED BY <3>1 DEF Fenced
  <2>2. DoneRow(task[claim[w].id], "skipped").status = "skipped"
    BY <1>1, <2>1, DoneRowType DEF QInv, QTypeOK, Statuses, Terminal
  <2> QED BY <1>9, <1>12, <2>2 DEF Skip, SkipTask
<1>13. CASE Fail(w) \/ ContinueTask(w)
  <2> DEFINE row(st, n, d) == WaitingRow(task[claim[w].id], st, n, d)
  <2>1. claim[w].id \in TaskIds
    <3>1. Fenced(w)
      BY <1>2, <1>13, Zenon DEF Fail, FailTask, ContinueTask, Settle
    <3> QED BY <3>1 DEF Fenced
  <2>2. task[claim[w].id] \in TaskRow
    BY <1>1, <2>1 DEF QInv, QTypeOK
  <2>3. \E st \in {"pending", "failed"} : \E n, d : Settle(w, row(st, n, d))
    BY <1>13, Zenon DEF Fail, FailTask, ContinueTask
  <2>4. ASSUME NEW st \in {"pending", "failed"}, NEW n, NEW d
        PROVE  row(st, n, d).status # "success"
    BY <2>2 DEF WaitingRow, TaskRow
  <2> QED BY <1>9, <2>3, <2>4
<1>14. CASE RecoverRetry(w) \/ RecoverFail(w)
  <2>1. \/ task'[i] = task[i]
        \/ \E st \in {"pending", "failed"} : \E n, d :
             task'[i] = WaitingRow(task[i], st, n, d)
    <3>1. RequeueExpired \/ FailExhausted
      BY <1>14 DEF RecoverRetry, RecoverFail
    <3> DEFINE again == WaitingRow(task[i], "pending", task[i].retry + 1, FALSE)
               lost == WaitingRow(task[i], "failed", task[i].retry + 1, FALSE)
    <3>2. task'[i] \in {task[i], again, lost}
      BY <3>1 DEF RequeueExpired, FailExhausted
    <3> QED BY <3>2, Zenon
  <2>2. ASSUME NEW st \in {"pending", "failed"}, NEW n, NEW d
        PROVE  WaitingRow(task[i], st, n, d).status # "success"
    BY <1>1 DEF WaitingRow, TaskRow
  <2> QED BY <2>1, <2>2
<1>15. CASE \/ PublishEvidenceGeneration(w) \/ DeleteSourceKnowledge(w)
            \/ (PublishWikiPatch(w) /\ ~ContinueTask(w))
  <2>1. Fenced(w) => SourceOf(w) \in Sources
    BY <1>1, HeldSource DEF Fenced
  <2>2. ASSUME Fenced(w), NEW t \in {"compile_wiki", "repair_wiki"}
        PROVE  <<SourceOf(w), t>> \in Keys
    BY <2>1, <2>2, KeysOfTasks DEF TaskTypes
  <2>3. \/ task' = task
        \/ Fenced(w) /\ \E t \in {"compile_wiki", "repair_wiki"} :
             Enqueue(<<SourceOf(w), t>>)
    BY <1>15, Zenon
    DEF PublishEvidenceGeneration, DeleteSourceKnowledge, PublishWikiPatch,
        CanPublish, queue
  <2> QED BY <1>2, <1>3, <2>2, <2>3
<1>16. CASE \/ MarkWikiFailed(w) \/ LoadSource(w) \/ LookupSource(w)
            \/ BeginEvidenceGeneration(w) \/ EmbedChunk(w) \/ PutChunk(w)
            \/ AbortEvidenceGeneration(w) \/ OpenSource(w) \/ GenerateWiki(w)
            \/ GenerateRepair(w) \/ CheckCitations(w)
  <2>1. task' = task
    BY <1>16, Zenon
    DEF MarkWikiFailed, LoadSource, LookupSource, BeginEvidenceGeneration,
        EmbedChunk, PutChunk, AbortEvidenceGeneration, OpenSource,
        GenerateWiki, GenerateRepair, CheckCitations, queue
  <2> QED BY <1>2, <2>1
<1>17. CASE Tearing(w)
  <2>1. ASSUME At(w, "torn"), NEW t \in TaskTypes, Enqueue(<<SourceOf(w), t>>)
        PROVE  FALSE
    <3>1. <<SourceOf(w), t>> \in Keys
      BY <1>1, <2>1, HeldSource, KeysOfTasks DEF BInv, InHand, At
    <3> QED BY <1>3, <2>1, <3>1
  <2>2. ~UNCHANGED queue
    BY <1>2 DEF queue
  <2> QED BY <1>13, <1>17, <2>1, <2>2, TearingQueue, Zenon
<1> QED BY <1>8, <1>10, <1>11, <1>12, <1>13, <1>14, <1>15, <1>16, <1>17, Zenon
        DEF WorkerStep

\* The publication that makes a worker end its task as a success.
Publishes(w) == PublishEvidenceGeneration(w) /\ CanPublish(w)

\* A parse task that is open stays so, until a worker publishes for it.
LEMMA OpenStays ==
    ASSUME RInv, [Next]_vars, NEW i \in TaskIds, NEW s \in Sources \ torn, Open(i),
           task[i].key = <<s, "parse_source">>,
           \A w \in Workers :
              WorkerStep(w) /\ Publishes(w) => claim[w].id # i
    PROVE  Open(i)'
<1>1. BInv /\ QInv /\ [QNext]_queue
  BY BaseDrivesQueue DEF RInv, BInv
<1>2. task'[i].status \notin {"none", "success"}
  <2>1. ASSUME NEW w \in Workers, Finish(w), Fenced(w), claim[w].id = i
        PROVE  FALSE
    BY <2>1 DEF Finish, Open
  <2>2. task'[i].status # "none"
    BY <1>1, KeysStay DEF Open
  <2> QED BY <1>1, <2>1, <2>2, SuccessByFinish DEF Open
<1>3. ASSUME NEW v \in Workers, At(v, "finish")', Fenced(v)', claim'[v].id = i
      PROVE  FALSE
  <2>1. CASE At(v, "finish") /\ claim'[v] = claim[v]
    BY <1>1, <1>3, <2>1, FencedBack DEF Open
  <2>2. CASE Other
    <3>1. CASE work' = work /\ claim' = claim
      BY <1>3, <2>1, <3>1 DEF At
    <3>2. ASSUME NEW w \in Workers, Crash(w)
          PROVE  work'[v] = work[v] /\ claim'[v] = claim[v]
      <4>1. /\ work' = [work EXCEPT ![w] = Idle]
            /\ claim' = [claim EXCEPT ![w] = NoClaim]
        BY <3>2 DEF Crash, Rest, Forget
      <4>2. v # w
        BY <1>1, <1>3, <4>1 DEF At, BInv, WorkOK, Idle
      <4> QED BY <4>1, <4>2
    <3> QED BY <1>3, <2>1, <2>2, <3>1, <3>2, OtherSteps DEF At
  <2>3. ASSUME NEW w \in Workers, WorkerStep(w), v # w
        PROVE  FALSE
    <3>1. PICK row : work' = [work EXCEPT ![w] = row]
      BY <1>1, <2>3, WorkerCarries DEF Carries
    <3>2. work'[v] = work[v] /\ claim'[v] = claim[v]
      BY <1>1, <2>3, <3>1, OthersClaims
    <3> QED BY <1>3, <2>1, <3>2 DEF At
  <2>4. ASSUME WorkerStep(v)
        PROVE  FALSE
    <3>1. ~Pick(v)
      <4>1. ASSUME Pick(v) PROVE FALSE
        <5>1. PICK j \in TaskIds :
                /\ Oldest(j)
                /\ claim' = [claim EXCEPT ![v] =
                     [id |-> j, epoch |-> task[j].epoch + 1,
                      retry |-> task[j].retry]]
          BY <4>1 DEF Pick, ClaimTask
        <5>2. claim'[v].id = j /\ task[j].key \in Keys
          BY <1>1, <5>1 DEF QInv, QTypeOK, Oldest, Claimable, Keyed
        <5>3. task[j].key[2] \in TaskTypes
          BY <5>2, BaseAssumption DEF BaseAssumption
        <5>4. work'[v].pc = FirstCall(task[j].key[2])
          BY <1>1, <4>1, <5>2 DEF Pick, BInv, WorkOK, WorkRow
        <5> QED BY <1>3, <5>3, <5>4 DEF At, TaskTypes, FirstCall
      <4> QED BY <4>1
    <3>2. /\ work[v].pc \notin Resting
          /\ claim' = claim
      BY <1>3, <2>4, <3>1, NextCall DEF At, Resting
    <3>3. TypeOf(v) = "parse_source"
      BY <1>3, <3>2 DEF TypeOf
    <3>4. work[v].pc \in CallsOf("parse_source") \cup Ending
      BY <3>2, <3>3, TaskAt
    <3>5. ~At(v, "finish")
      BY <1>3, <2>1, <3>2
    <3>6. work[v].pc \notin {"idle", "mark", "delete", "open", "generate",
                             "unlocked", "repair", "patch", "cite", "finish"}
      BY <3>2, <3>4, <3>5 DEF CallsOf, Ending, Resting, At
    <3>7. work \in [Workers -> WorkRow]
      BY <1>1 DEF BInv, WorkOK
    <3>8. /\ \A pc \in Calls : Goto(v, pc) => pc = "finish"
          /\ ~Rest(v)
      BY <1>3, <3>7 DEF Goto, Rest, At, Idle, WorkRow
    <3>9. work' # work
      BY <1>3, <3>5 DEF At
    <3>10. PublishEvidenceGeneration(v)
      <4>1. ~(Finish(v) \/ Skip(v) \/ MarkWikiFailed(v) \/ RecoverRetry(v)
              \/ RecoverFail(v) \/ LoadSource(v) \/ LookupSource(v)
              \/ EmbedChunk(v) \/ AbortEvidenceGeneration(v)
              \/ DeleteSourceKnowledge(v) \/ OpenSource(v) \/ GenerateWiki(v)
              \/ GenerateRepair(v) \/ CheckCitations(v)
              \/ PublishWikiPatch(v))
        BY <3>6, <3>8, <3>9
        DEF Calls, At, Finish, Skip, MarkWikiFailed, RecoverRetry, RecoverFail,
            LoadSource, LookupSource, EmbedChunk, AbortEvidenceGeneration,
            DeleteSourceKnowledge, OpenSource, GenerateWiki, GenerateRepair,
            CheckCitations, PublishWikiPatch
      <4>2. ~PutChunk(v)
        BY <1>3, <3>7 DEF PutChunk, Stepped, At, WorkRow
      <4>3. ~Fail(v)
        <5>1. ASSUME Fail(v) PROVE FALSE
          <6>1. work' = [work EXCEPT ![v] = [Idle EXCEPT !.pc = "mark",
                                                         !.mark = {SourceOf(v)}]]
            BY <3>8, <5>1, Zenon DEF Fail, Rest
          <6> QED BY <1>3, <3>7, <6>1 DEF At, Idle
        <5> QED BY <5>1
      <4>4. ~BeginEvidenceGeneration(v)
        <5>1. ASSUME BeginEvidenceGeneration(v) PROVE FALSE
          <6>1. CASE Goto(v, "fail")
            BY <3>8, <6>1 DEF Calls
          <6>2. CASE work' = [work EXCEPT ![v] = [work[v] EXCEPT !.pc = "embed",
                                 !.gen = NextGeneration(SourceOf(v)), !.n = 0]]
            BY <1>3, <3>7, <6>2 DEF At, WorkRow
          <6> QED BY <5>1, <6>1, <6>2, Zenon DEF BeginEvidenceGeneration
        <5> QED BY <5>1
      <4> QED BY <2>4, <3>1, <4>1, <4>2, <4>3, <4>4 DEF WorkerStep
    <3>11. CanPublish(v)
      <4>1. CASE ~CanPublish(v)
        <5>1. Goto(v, "abort")
          BY <3>10, <4>1, Zenon DEF PublishEvidenceGeneration
        <5> QED BY <3>8, <5>1 DEF Calls
      <4> QED BY <4>1
    <3> QED BY <1>3, <2>4, <3>2, <3>10, <3>11 DEF Publishes
\* A torn transaction ends the task of a source that it tore.
  <2>5. ASSUME NEW w \in Workers, Tearing(w), v # w
        PROVE  FALSE
    <3>1. work'[v] = work[v] /\ claim'[v] = claim[v]
      BY <1>1, <2>5, OthersRest
    <3> QED BY <1>3, <2>1, <3>1 DEF At
  <2>6. ASSUME Tearing(v)
        PROVE  FALSE
    <3>1. claim' = claim
      BY <1>3, <2>6, NextTorn DEF At, Resting
    <3>2. SourceOf(v) = s /\ TypeOf(v) = "parse_source"
      BY <1>3, <3>1 DEF SourceOf, TypeOf
    <3>3. ~At(v, "torn") /\ ~At(v, "torn patch") /\ ~At(v, "finish")
      <4>1. ~At(v, "torn")
        BY <1>1, <3>2 DEF BInv, Torn
      <4>2. ~At(v, "torn patch")
        BY <3>2, TypeAt DEF At
      <4>3. ~At(v, "finish")
        BY <1>3, <2>1, <3>1
      <4> QED BY <4>1, <4>2, <4>3
    <3>4. Lose(v)
      BY <2>6, <3>3
      DEF Tearing, TornStep, Fails, RunEvidence, EndEvidence, RunPatch, EndPatch
    <3> QED BY <1>1, <1>3, <3>4, LosesTo DEF At
  <2> QED BY <2>2, <2>3, <2>4, <2>5, <2>6, EveryStep
<1> QED BY <1>2, <1>3 DEF Open

\* A worker that builds a generation is at a parse of its source.
LEMMA BuilderTask ==
    ASSUME RInv, NEW w \in Workers, Building(w)
    PROVE  /\ claim[w].id \in TaskIds
           /\ SourceOf(w) \in Sources
           /\ task[claim[w].id].key = <<SourceOf(w), "parse_source">>
           /\ task[claim[w].id].status # "none"
<1>1. work[w].pc \in {"embed", "put", "abort"} /\ work[w].pc \notin Resting
  BY DEF Building, Parsing, Resting
<1> QED BY <1>1, TaskAt, TypeAt

LEMMA Publisher ==
    ASSUME BInv, NEW w \in Workers, Publishes(w)
    PROVE  /\ work[w].pc = "embed" /\ Building(w)
           /\ work'[w].pc \in {"finish", "abort"}
           /\ claim' = claim
           /\ Fenced(w)
<1>1. Goto(w, "finish") \/ Goto(w, "abort")
  BY Zenon DEF Publishes, PublishEvidenceGeneration, Answer
<1>2. work'[w].pc \in {"finish", "abort"}
  BY <1>1 DEF Goto, BInv, WorkOK, WorkRow
<1>3. work[w].pc = "embed" /\ claim' = claim /\ Fenced(w)
  BY DEF Publishes, PublishEvidenceGeneration, At, Enqueue, CanPublish
<1> QED BY <1>2, <1>3 DEF Building, Parsing

\* Nobody else publishes in the step.
LEMMA PublishesAlone ==
    ASSUME BInv, NEW w \in Workers, Publishes(w)
    PROVE  /\ ~Other
           /\ \A v \in Workers : WorkerStep(v) => v = w
<1>1. work[w].pc = "embed" /\ work'[w].pc \in {"finish", "abort"}
  BY Publisher
<1>2. work \in [Workers -> WorkRow]
  BY DEF BInv, WorkOK
<1>3. ASSUME Other PROVE FALSE
  <2>1. ASSUME NEW v \in Workers, Crash(v) PROVE FALSE
    BY <1>1, <1>2, <2>1 DEF Crash, Rest, Idle
  <2> QED BY <1>1, <1>3, <2>1, OtherSteps
<1>4. ASSUME NEW v \in Workers, WorkerStep(v), v # w PROVE FALSE
  <2>1. PICK row : work' = [work EXCEPT ![v] = row]
    BY <1>4, WorkerCarries DEF Carries
  <2> QED BY <1>1, <1>2, <1>4, <2>1
<1> QED BY <1>3, <1>4

\* What a document becomes when no generation of it is published.
Later(row, r) ==
    /\ r.published = row.published
    /\ r.gen >= row.gen
    /\ r.evidence = "READY" => row.evidence = "READY"

LEMMA LaterRows ==
    ASSUME NEW row \in DocRow
    PROVE  /\ Later(row, row)
           /\ \A k : Later(row, [row EXCEPT !.wiki = k])
           /\ \A k : \A e \in {row.evidence, "FAILED", "DELETED"} :
                Later(row, [row EXCEPT !.evidence = e, !.wiki = k])
           /\ Later(row, [row EXCEPT !.evidence = "FAILED"])
           /\ \A g \in Gens : g >= row.gen => Later(row, Extracting(row, g))
<1> USE DEF Later, DocRow
<1>1. Later(row, row) /\ row.gen \in Nat
  BY Bounds
<1>2. ASSUME NEW k
      PROVE  Later(row, [row EXCEPT !.wiki = k])
  BY <1>1
<1>3. ASSUME NEW k, NEW e \in {row.evidence, "FAILED", "DELETED"}
      PROVE  Later(row, [row EXCEPT !.evidence = e, !.wiki = k])
  BY <1>1
<1>4. Later(row, [row EXCEPT !.evidence = "FAILED"])
  BY <1>1
<1>5. ASSUME NEW g \in Gens, g >= row.gen
      PROVE  Later(row, Extracting(row, g))
  <2>1. ASSUME NEW k
        PROVE  Later(row, [row EXCEPT !.gen = g, !.evidence = "EXTRACTING",
                                      !.wiki = k])
    BY <1>5
  <2> QED BY <2>1, Zenon DEF Extracting
<1> QED BY <1>1, <1>2, <1>3, <1>4, <1>5

LaterDocs == \A s \in Sources : Later(doc[s], doc'[s])

LEMMA OneLater ==
    ASSUME DocOK, NEW s \in Sources, NEW r, Later(doc[s], r),
           doc' = [doc EXCEPT ![s] = r]
    PROVE  LaterDocs
<1>1. \A t \in Sources : Later(doc[t], doc[t])
  BY LaterRows DEF DocOK
<1> QED BY <1>1 DEF LaterDocs, DocOK

LEMMA DocsGoOn ==
    ASSUME BInv, NEW w \in Workers, WorkerStep(w), ~Publishes(w)
    PROVE  LaterDocs
<1> DEFINE s == SourceOf(w)
<1>1. \A t \in Sources : doc[t] \in DocRow
  BY DEF BInv, DocOK
<1>2. CASE doc' = doc
  BY <1>1, <1>2, LaterRows DEF LaterDocs
<1>3. ASSUME Fenced(w) \/ Building(w)
      PROVE  s \in Sources
  BY <1>3, HeldSource, Builder DEF Fenced, BInv
<1>4. CASE MarkWikiFailed(w)
  <2> SUFFICES ASSUME NEW t \in Sources PROVE Later(doc[t], doc'[t])
    BY DEF LaterDocs
  <2>1. doc'[t] = doc[t] \/ doc'[t] = [doc[t] EXCEPT !.wiki = "FAILED"]
    BY <1>4 DEF MarkWikiFailed
  <2>2. Later(doc[t], doc[t]) /\ Later(doc[t], [doc[t] EXCEPT !.wiki = "FAILED"])
    BY <1>1, LaterRows, Zenon
  <2> QED BY <2>1, <2>2, Zenon
<1>5. CASE RecoverFail(w)
  <2> DEFINE about(t, types) ==
               \E i \in TaskIds, type \in types :
                   Exhausted(i) /\ task[i].key = <<t, type>>
             e(t) == IF about(t, {"parse_source"}) THEN "FAILED"
                     ELSE doc[t].evidence
             k(t) == IF about(t, {"compile_wiki", "repair_wiki"}) THEN "FAILED"
                     ELSE doc[t].wiki
  <2>1. doc' = [t \in Sources |->
                  IF doc[t] = NoDoc THEN NoDoc
                  ELSE [doc[t] EXCEPT !.evidence = e(t), !.wiki = k(t)]]
    BY <1>5 DEF RecoverFail
  <2> SUFFICES ASSUME NEW t \in Sources PROVE Later(doc[t], doc'[t])
    BY DEF LaterDocs
  <2> HIDE DEF about
  <2>2. e(t) \in {doc[t].evidence, "FAILED", "DELETED"}
    OBVIOUS
  <2> HIDE DEF e, k
  <2>3. \/ doc'[t] = doc[t]
        \/ doc'[t] = [doc[t] EXCEPT !.evidence = e(t), !.wiki = k(t)]
    BY <2>1
  <2>4. /\ Later(doc[t], doc[t])
        /\ Later(doc[t], [doc[t] EXCEPT !.evidence = e(t), !.wiki = k(t)])
    BY <1>1, <2>2, LaterRows, Zenon
  <2> QED BY <2>3, <2>4, Zenon
<1>6. CASE BeginEvidenceGeneration(w) /\ doc' # doc
  <2>1. /\ Fenced(w) /\ NextGeneration(s) \in Gens
        /\ doc' = [doc EXCEPT ![s] = Extracting(doc[s], NextGeneration(s))]
    BY <1>6, Zenon DEF BeginEvidenceGeneration
  <2>2. s \in Sources /\ doc[s].gen \in Nat
    BY <1>1, <1>3, <2>1, Bounds DEF DocRow
  <2>3. NextGeneration(s) >= doc[s].gen
    BY <2>2 DEF NextGeneration
  <2>4. Later(doc[s], Extracting(doc[s], NextGeneration(s)))
    BY <1>1, <2>1, <2>2, <2>3, LaterRows
  <2> QED BY <2>1, <2>2, <2>4, OneLater DEF BInv
<1>7. CASE PublishEvidenceGeneration(w)
  BY <1>2, <1>7, Zenon DEF Publishes, PublishEvidenceGeneration
<1>8. CASE AbortEvidenceGeneration(w)
  <2>1. s \in Sources
    BY <1>3, <1>8 DEF AbortEvidenceGeneration, At, Building
  <2>2. \/ doc' = [doc EXCEPT ![s] = doc[s]]
        \/ doc' = [doc EXCEPT ![s] = [doc[s] EXCEPT !.evidence = "FAILED"]]
        \/ doc' = [doc EXCEPT ![s] = [doc[s] EXCEPT !.evidence = "DELETED",
                                                    !.wiki = "STALE"]]
    BY <1>8 DEF AbortEvidenceGeneration, ParseFailed, SourceGone
  <2>3. /\ Later(doc[s], doc[s])
        /\ Later(doc[s], [doc[s] EXCEPT !.evidence = "FAILED"])
        /\ Later(doc[s], [doc[s] EXCEPT !.evidence = "DELETED",
                                        !.wiki = "STALE"])
    BY <1>1, <2>1, LaterRows
  <2> QED BY <2>1, <2>2, <2>3, OneLater DEF BInv
<1>9. CASE DeleteSourceKnowledge(w) /\ doc' # doc
  <2>1. /\ Fenced(w)
        /\ doc' = [doc EXCEPT ![s] =
             IF doc[s] = NoDoc THEN doc[s]
             ELSE [doc[s] EXCEPT !.evidence = "DELETED", !.wiki = "STALE"]]
    BY <1>9 DEF DeleteSourceKnowledge, SourceGone
  <2>2. /\ Later(doc[s], doc[s])
        /\ Later(doc[s], [doc[s] EXCEPT !.evidence = "DELETED",
                                        !.wiki = "STALE"])
    BY <1>1, <1>3, <2>1, LaterRows
  <2> QED BY <1>3, <2>1, <2>2, OneLater DEF BInv
<1>10. CASE PublishWikiPatch(w) /\ doc' # doc
  <2> DEFINE k == IF Repairing(w) \/ doc[s].evidence = "DELETED"
                  THEN doc[s].wiki ELSE WikiState
  <2>1. Fenced(w)
    BY <1>10, Zenon DEF PublishWikiPatch
  <2>2. doc' = [doc EXCEPT ![s].wiki = k]
    BY <1>10 DEF PublishWikiPatch
  <2> HIDE DEF k
  <2>3. doc' = [doc EXCEPT ![s] = [doc[s] EXCEPT !.wiki = k]]
    BY <2>2
  <2>4. Later(doc[s], [doc[s] EXCEPT !.wiki = k])
    BY <1>1, <1>3, <2>1, LaterRows
  <2> QED BY <1>3, <2>1, <2>3, <2>4, OneLater DEF BInv
<1>11. doc' = doc \/ DocStep(w)
  BY WorkerTables
<1> QED BY <1>2, <1>4, <1>5, <1>6, <1>7, <1>8, <1>9, <1>10, <1>11, Zenon
        DEF DocStep

\* The generation that is published keeps its chunks while the document reads
\* READY, and its vectors unless its own worker withdraws them.
KeepsRow(s) ==
    LET g == doc[s].published
    IN /\ evidence'[s][g].state = "PUBLISHED"
       /\ evidence'[s][g].rows = evidence[s][g].rows
       /\ \/ evidence'[s][g].vectors = evidence[s][g].vectors
          \/ \E w \in Workers :
               Building(w) /\ SourceOf(w) = s /\ work[w].gen = g

LEMMA CleanedPublished ==
    ASSUME NEW row \in GenRow
    PROVE  /\ Forgotten(row).state # "STAGING"
           /\ Cleaned(row).state # "STAGING"
           /\ row.state = "PUBLISHED" =>
                Cleaned(row).state = "PUBLISHED" /\ Cleaned(row).rows = row.rows
  BY DEF Cleaned, Forgotten, GenRow

LEMMA StagedVectors ==
    ASSUME NEW row \in GenRow
    PROVE  Staged(row).vectors = TRUE
  BY DEF Staged

\* A step that publishes nothing leaves the evidence of documents that read
\* READY, and stages no chunk without its vector.
LEMMA EvidenceGoesOn ==
    ASSUME RInv, NEW w \in Workers, WorkerStep(w), ~Publishes(w)
    PROVE  /\ StagedWhole'
           /\ \A s \in Sources \ torn :
                /\ doc'[s].evidence = "READY"
                /\ doc[s].published \in Gens
                /\ evidence[s][doc[s].published].state = "PUBLISHED"
                => KeepsRow(s)
<1> DEFINE s == SourceOf(w)
           g == work[w].gen
<1>1. BInv /\ StagedWhole /\ \A t \in Sources, h \in Gens : evidence[t][h] \in GenRow
  BY DEF RInv, BInv, EvidenceOK
<1>7. torn' = torn
  BY WorkerTables
<1>2. CASE evidence' = evidence
  BY <1>1, <1>2, <1>7 DEF StagedWhole, KeepsRow
<1>3. CASE PutChunk(w) \/ AbortEvidenceGeneration(w)
  <2>1. Building(w)
    BY <1>3 DEF PutChunk, AbortEvidenceGeneration, At, Building, Parsing
  <2>2. s \in Sources /\ g \in Gens /\ evidence[s][g] \in GenRow
    BY <1>1, <2>1, Builder
  <2>3. PICK row :
          /\ OneRow(s, g, row)
          /\ row.state = "STAGING" => row.vectors
          /\ evidence[s][g].state = "PUBLISHED" =>
               \/ s \in torn
               \/ row.state = "PUBLISHED" /\ row.rows = evidence[s][g].rows
    <3>1. CASE PutChunk(w)
      <4>1. s \in torn \/ evidence[s][g].state # "PUBLISHED"
        BY <1>1, <3>1 DEF PutChunk, At, Parsing, BInv, Fresh, Settled, Whole
      <4>2. evidence' = [evidence EXCEPT ![s][g] = Staged(evidence[s][g])]
        BY <1>1, <2>2, <3>1 DEF PutChunk, BInv, EvidenceOK
      <4> QED BY <2>2, <4>1, <4>2, StagedRow, StagedVectors DEF OneRow
    <3>2. CASE AbortEvidenceGeneration(w)
      <4>1. evidence' = [evidence EXCEPT ![s][g] = Cleaned(evidence[s][g])]
        BY <1>1, <2>2, <3>2 DEF AbortEvidenceGeneration, BInv, EvidenceOK
      <4> DEFINE row == Cleaned(evidence[s][g])
      <4>2. row \in GenRow /\ OneRow(s, g, row)
        BY <2>2, <4>1, CleanedRow DEF OneRow
      <4>3. row.state # "STAGING"
        BY <2>2, CleanedPublished
      <4>4. evidence[s][g].state = "PUBLISHED" =>
              row.state = "PUBLISHED" /\ row.rows = evidence[s][g].rows
        BY <2>2, CleanedPublished
      <4> HIDE DEF row
      <4> QED BY <4>2, <4>3, <4>4
    <3> QED BY <1>3, <3>1, <3>2
  <2>4. /\ evidence'[s][g] = row
        /\ \A t \in Sources, h \in Gens :
             t # s \/ h # g => evidence'[t][h] = evidence[t][h]
    BY <1>1, <2>2, <2>3, OneRowChanges DEF BInv
  <2>5. StagedWhole'
    BY <1>1, <1>7, <2>3, <2>4 DEF StagedWhole
  <2>6. ASSUME NEW t \in Sources \ torn, doc[t].published \in Gens,
               evidence[t][doc[t].published].state = "PUBLISHED"
        PROVE  KeepsRow(t)
    <3>1. CASE t = s /\ doc[t].published = g
      BY <2>1, <2>3, <2>4, <2>6, <3>1 DEF KeepsRow
    <3>2. CASE ~(t = s /\ doc[t].published = g)
      BY <2>4, <2>6, <3>2 DEF KeepsRow
    <3> QED BY <3>1, <3>2
  <2> QED BY <2>5, <2>6
<1>4. CASE PublishEvidenceGeneration(w)
  BY <1>2, <1>4, Zenon DEF Publishes, PublishEvidenceGeneration
<1>5. CASE DeleteSourceKnowledge(w) /\ evidence' # evidence
  <2>1. /\ Fenced(w)
        /\ evidence' = [evidence EXCEPT ![s] =
                          [h \in Gens |-> Forgotten(evidence[s][h])]]
        /\ doc' = [doc EXCEPT ![s] =
             IF doc[s] = NoDoc THEN doc[s]
             ELSE [doc[s] EXCEPT !.evidence = "DELETED", !.wiki = "STALE"]]
    BY <1>5 DEF DeleteSourceKnowledge, SourceGone
  <2>2. s \in Sources
    BY <1>1, <2>1, HeldSource DEF Fenced, BInv
  <2>3. doc'[s].evidence # "READY"
    BY <1>1, <2>1, <2>2 DEF BInv, DocOK, DocRow, NoDoc
  <2>4. /\ \A h \in Gens : evidence'[s][h] = Forgotten(evidence[s][h])
        /\ \A t \in Sources : t # s => evidence'[t] = evidence[t]
    BY <1>1, <2>1, <2>2 DEF BInv, EvidenceOK
  <2>5. \A h \in Gens : evidence'[s][h].state # "STAGING"
    BY <1>1, <2>2, <2>4, CleanedPublished
  <2>6. StagedWhole'
    BY <1>1, <1>7, <2>4, <2>5 DEF StagedWhole
  <2>7. ASSUME NEW t \in Sources, doc'[t].evidence = "READY",
               evidence[t][doc[t].published].state = "PUBLISHED"
        PROVE  KeepsRow(t)
    BY <2>3, <2>4, <2>7 DEF KeepsRow
  <2> QED BY <2>6, <2>7
<1>6. evidence' = evidence \/ EvidenceStep(w)
  BY WorkerTables
<1> QED BY <1>2, <1>3, <1>4, <1>5, <1>6, Zenon DEF EvidenceStep

\* A worker that goes on building keeps its source and its generation.
LEMMA BuildsOn ==
    ASSUME RInv, [Next]_vars, NEW v \in Workers, Building(v)',
           GoesOnBuilding(v)
    PROVE  /\ Building(v)
           /\ work'[v].gen = work[v].gen /\ claim'[v] = claim[v]
           /\ SourceOf(v)' = SourceOf(v)
<1>1. /\ Building(v)
      /\ work'[v].gen = work[v].gen /\ claim'[v] = claim[v]
  BY DEF GoesOnBuilding
<1>2. SourceOf(v)' = SourceOf(v)
  BY <1>1, SameSource DEF RInv
<1> QED BY <1>1, <1>2

\* Nobody publishes in the step, or loses a connection.
Unpublished ==
    /\ \A w \in Workers : WorkerStep(w) => ~Publishes(w)
    /\ Other \/ \E w \in Workers : WorkerStep(w)

LEMMA QuietDocs ==
    ASSUME RInv, [Next]_vars, Unpublished
    PROVE  /\ LaterDocs
           /\ StagedWhole'
           /\ \A s \in Sources \ torn :
                /\ doc'[s].evidence = "READY"
                /\ doc[s].published \in Gens
                /\ evidence[s][doc[s].published].state = "PUBLISHED"
                => KeepsRow(s)
<1>1. CASE Other
  <2>1. doc' = doc /\ evidence' = evidence /\ torn' = torn
    BY <1>1, OtherSteps
  <2>2. \A s \in Sources : Later(doc[s], doc[s])
    BY LaterRows DEF RInv, BInv, DocOK
  <2> QED BY <2>1, <2>2 DEF LaterDocs, RInv, StagedWhole, KeepsRow
<1>2. ASSUME NEW w \in Workers, WorkerStep(w)
      PROVE  /\ LaterDocs
             /\ StagedWhole'
             /\ \A s \in Sources \ torn :
                  /\ doc'[s].evidence = "READY"
                  /\ doc[s].published \in Gens
                  /\ evidence[s][doc[s].published].state = "PUBLISHED"
                  => KeepsRow(s)
  <2>1. BInv /\ ~Publishes(w)
    BY <1>2 DEF Unpublished, RInv
  <2>2. LaterDocs
    BY <1>2, <2>1, DocsGoOn
  <2> QED BY <1>2, <2>1, <2>2, EvidenceGoesOn
<1> QED BY <1>1, <1>2 DEF Unpublished

\* What is torn stays so.
LEMMA QuietTorn ==
    ASSUME Unpublished
    PROVE  torn' = torn
  BY OtherSteps, WorkerTables DEF Unpublished

\* An open task of a source stays open while nobody publishes.
LEMMA QuietOpen ==
    ASSUME RInv, [Next]_vars, Unpublished, NEW i \in TaskIds,
           NEW s \in Sources \ torn, task[i].key = <<s, "parse_source">>, Open(i)
    PROVE  Open(i)' /\ task'[i].key = <<s, "parse_source">>
<1>1. Open(i)'
  BY OpenStays DEF Unpublished
<1>2. task'[i].key = task[i].key
  BY BaseDrivesQueue, KeysStay DEF Open, RInv, BInv
<1> QED BY <1>1, <1>2

LEMMA QuietUnanswered ==
    ASSUME RInv, [Next]_vars, Unpublished
    PROVE  Unanswered'
<1> SUFFICES ASSUME NEW v \in Workers, Building(v)', SourceOf(v)' \notin torn,
                    work'[v].gen = doc'[SourceOf(v)'].published
             PROVE  Open(claim[v].id)' /\ claim'[v] = claim[v]
  BY QuietTorn DEF Unanswered, Whole
<1>1. LaterDocs
  BY QuietDocs
<1>2. CASE GoesOnBuilding(v)
  <2>1. /\ Building(v) /\ claim'[v] = claim[v]
        /\ work'[v].gen = work[v].gen /\ SourceOf(v)' = SourceOf(v)
    BY <1>2, BuildsOn
  <2>2. /\ claim[v].id \in TaskIds /\ SourceOf(v) \in Sources
        /\ task[claim[v].id].key = <<SourceOf(v), "parse_source">>
    BY <2>1, BuilderTask
  <2>3. work[v].gen = doc[SourceOf(v)].published
    BY <1>1, <2>1, <2>2 DEF LaterDocs, Later
  <2>4. Open(claim[v].id)
    BY <2>1, <2>3 DEF RInv, Unanswered, Whole
  <2> QED BY <2>1, <2>2, <2>4, QuietOpen
\* A new generation is not the one that is published.
<1>3. ASSUME WorkerStep(v), Begun(v)
      PROVE  FALSE
  <2> DEFINE s == SourceOf(v)
             g == NextGeneration(s)
  <2>1. /\ work' = [work EXCEPT ![v] =
                      [work[v] EXCEPT !.pc = "embed", !.gen = g, !.n = 0]]
        /\ UNCHANGED queue
    BY <1>3 DEF Begun, BeginEvidenceGeneration
  <2>2. s \in Sources
    BY <1>3, HeldSource DEF Begun, Fenced, RInv, BInv
  <2>3. work'[v].gen = g
    BY <2>1 DEF RInv, BInv, WorkOK, WorkRow
  <2>4. SourceOf(v)' = s
    BY <2>1 DEF queue, SourceOf
  <2>5. /\ doc[s].published <= doc[s].gen
        /\ doc[s].published \in Nat /\ doc[s].gen \in Nat
    BY <2>2, <2>4, Bounds DEF RInv, Ready, BInv, DocOK, DocRow
  <2>6. g # doc[s].published
    BY <2>5 DEF NextGeneration
  <2>7. doc'[s].published = doc[s].published
    BY <1>1, <2>2 DEF LaterDocs, Later
  <2> QED BY <2>3, <2>4, <2>6, <2>7
<1>4. CASE Other
  BY <1>2, <1>4, OtherBuilds DEF RInv
<1>5. ASSUME NEW w \in Workers, WorkerStep(w)
      PROVE  Open(claim[v].id)' /\ claim'[v] = claim[v]
  BY <1>2, <1>3, <1>5, WorkerBuilds DEF RInv
<1> QED BY <1>4, <1>5 DEF Unpublished

LEMMA QuietReady ==
    ASSUME RInv, [Next]_vars, Unpublished
    PROVE  Ready'
<1> SUFFICES ASSUME NEW s \in Sources \ torn
             PROVE  /\ doc'[s].published <= doc'[s].gen
                    /\ doc'[s].evidence = "READY" => ReadyRow(s)'
  BY QuietTorn DEF Ready
<1>1. /\ Later(doc[s], doc'[s])
      /\ BInv' /\ doc[s] \in DocRow /\ doc'[s] \in DocRow
  BY QuietDocs, BInvKept DEF LaterDocs, RInv, BInv, DocOK
<1>2. doc'[s].published <= doc'[s].gen
  <2>1. doc[s].published <= doc[s].gen
    BY DEF RInv, Ready
  <2> QED BY <1>1, <2>1, Bounds DEF Later, DocRow
<1>3. ASSUME doc'[s].evidence = "READY"
      PROVE  ReadyRow(s)'
  <2> DEFINE g == doc[s].published
  <2>1. ReadyRow(s) /\ doc'[s].published = g
    BY <1>1, <1>3 DEF Later, RInv, Ready
  <2>2. g \in Gens /\ KeepsRow(s)
    BY <1>3, <2>1, QuietDocs DEF ReadyRow
  <2>3. /\ evidence'[s][g].state = "PUBLISHED"
        /\ evidence'[s][g].rows = ChunkCount[s]
    BY <2>1, <2>2 DEF ReadyRow, KeepsRow
  <2>4. ASSUME NEW i \in TaskIds, task[i].key = <<s, "parse_source">>, Open(i)
        PROVE  ReadyRow(s)'
    <3>1. Open(i)' /\ task'[i].key = <<s, "parse_source">>
      BY <2>4, QuietOpen
    <3> QED BY <2>1, <2>2, <2>3, <3>1 DEF ReadyRow
  <2>5. CASE evidence'[s][g].vectors = evidence[s][g].vectors
    <3>1. CASE evidence[s][g].vectors
      BY <2>1, <2>2, <2>3, <2>5, <3>1 DEF ReadyRow
    <3>2. CASE ~evidence[s][g].vectors
      BY <2>1, <2>4, <3>2 DEF ReadyRow
    <3> QED BY <3>1, <3>2
  <2>6. ASSUME NEW w \in Workers, Building(w), SourceOf(w) = s,
               work[w].gen = g
        PROVE  ReadyRow(s)'
    <3>1. /\ claim[w].id \in TaskIds
          /\ task[claim[w].id].key = <<s, "parse_source">>
      BY <2>6, BuilderTask
    <3>2. Open(claim[w].id)
      BY <2>6 DEF RInv, Unanswered, Whole
    <3> QED BY <2>4, <3>1, <3>2
  <2> QED BY <2>2, <2>5, <2>6 DEF KeepsRow
<1> QED BY <1>2, <1>3

\* The step of a worker that publishes: the row it publishes is whole, and
\* the other documents stay as they are.
LEMMA PublishingWhole ==
    ASSUME RInv, NEW w \in Workers, Publishes(w)
    PROVE  /\ SourceOf(w) \in Sources /\ work[w].gen \in Gens
           /\ doc[SourceOf(w)].gen = work[w].gen
           /\ doc'[SourceOf(w)].gen = work[w].gen
           /\ doc'[SourceOf(w)].published = work[w].gen
           /\ LET row == evidence'[SourceOf(w)][work[w].gen]
              IN /\ row.state = "PUBLISHED"
                 /\ row.rows = ChunkCount[SourceOf(w)]
                 /\ Whole(w) => row.vectors
           /\ \A t \in Sources : t # SourceOf(w) =>
                doc'[t] = doc[t] /\ evidence'[t] = evidence[t]
           /\ Whole(w) => \A h \in Gens :
                evidence'[SourceOf(w)][h].state = "STAGING" =>
                evidence'[SourceOf(w)][h].vectors
<1> DEFINE s == SourceOf(w)
           g == work[w].gen
<1>1. BInv /\ Building(w)
  BY Publisher DEF RInv
<1>2. /\ s \in Sources /\ g \in Gens
      /\ doc[s] \in DocRow /\ evidence[s] \in [Gens -> GenRow]
  BY <1>1, Builder DEF BInv, DocOK, EvidenceOK
<1>3. /\ doc[s].gen = g
      /\ evidence[s][g].state = "STAGING"
      /\ evidence[s][g].rows = ChunkCount[s]
  BY DEF Publishes, CanPublish, Complete
<1>4. /\ evidence' = [evidence EXCEPT ![s] = Publishing(evidence[s], g)]
      /\ doc' = [doc EXCEPT ![s] =
                   [doc[s] EXCEPT !.published = g, !.evidence = "READY"]]
  BY DEF Publishes, PublishEvidenceGeneration
<1>5. evidence'[s] = Publishing(evidence[s], g)
  BY <1>1, <1>2, <1>4 DEF BInv, EvidenceOK
<1>6. evidence'[s][g] = [evidence[s][g] EXCEPT !.state = "PUBLISHED"]
  BY <1>2, <1>5 DEF Publishing
<1>7. Whole(w) => evidence[s][g].vectors
  BY <1>2, <1>3 DEF RInv, StagedWhole, Whole
<1>8. /\ evidence'[s][g].state = "PUBLISHED"
      /\ evidence'[s][g].rows = ChunkCount[s]
      /\ Whole(w) => evidence'[s][g].vectors
  BY <1>2, <1>3, <1>6, <1>7 DEF GenRow
<1>9. doc'[s].gen = g /\ doc'[s].published = g
  BY <1>1, <1>2, <1>3, <1>4 DEF BInv, DocOK, DocRow
<1>10. \A t \in Sources : t # s => doc'[t] = doc[t] /\ evidence'[t] = evidence[t]
  BY <1>1, <1>4 DEF BInv, DocOK, EvidenceOK
<1>11. ASSUME Whole(w), NEW h \in Gens, evidence'[s][h].state = "STAGING"
       PROVE  evidence'[s][h].vectors
  <2>1. h # g /\ evidence'[s][h] = Superseded(evidence[s][h])
    BY <1>5, <1>8, <1>11 DEF Publishing
  <2>2. evidence[s][h].state = "STAGING" /\ evidence'[s][h] = evidence[s][h]
    BY <1>2, <1>11, <2>1 DEF Superseded, GenRow
  <2> QED BY <1>2, <1>11, <2>2 DEF RInv, StagedWhole, Whole
<1> QED BY <1>2, <1>3, <1>8, <1>9, <1>10, <1>11

\* The publisher's own task is open if its answer is lost: it still runs, and
\* nobody else holds it.
LEMMA PublisherOpen ==
    ASSUME RInv, [Next]_vars, NEW w \in Workers, WorkerStep(w), Publishes(w),
           work'[w].pc # "finish"
    PROVE  Open(claim[w].id)'
<1> DEFINE i == claim[w].id
<1>1. BInv /\ QInv /\ [QNext]_queue
  BY BaseDrivesQueue DEF RInv, BInv
<1>2. /\ Fenced(w) /\ i \in TaskIds /\ task[i].status = "running"
      /\ task[i].worker = w /\ claim' = claim
  BY <1>1, Publisher DEF Fenced
<1>3. task'[i].status = "running"
  <2>1. Enqueue(<<SourceOf(w), "compile_wiki">>)
    BY DEF Publishes, PublishEvidenceGeneration
  <2>2. CASE task' = task
    BY <1>2, <2>2
  <2>3. ASSUME NEW j \in TaskIds, IsNext(j), NEW row,
               task' = [task EXCEPT ![j] = row]
        PROVE  task'[i].status = "running"
    BY <1>1, <1>2, <2>3 DEF IsNext, FreeIds, QInv, QTypeOK
  <2> QED BY <2>1, <2>2, <2>3, Zenon DEF Enqueue
<1>4. ASSUME NEW v \in Workers, At(v, "finish")', Fenced(v)', claim'[v].id = i
      PROVE  FALSE
  <2>1. v # w
    BY <1>4 DEF At
  <2>2. Fenced(v)
    BY <1>1, <1>2, <1>4, FencedBack
  <2>3. task[i].worker = v
    BY <1>2, <1>4, <2>2 DEF Fenced
  <2> QED BY <1>2, <2>1, <2>3
<1> QED BY <1>2, <1>3, <1>4 DEF Open

LEMMA PublishReady ==
    ASSUME RInv, [Next]_vars, NEW w \in Workers, WorkerStep(w), Publishes(w)
    PROVE  StagedWhole' /\ Ready' /\ Unanswered'
<1> DEFINE s == SourceOf(w)
           g == work[w].gen
<1>1. BInv /\ QInv /\ [QNext]_queue
  BY BaseDrivesQueue DEF RInv, BInv
<1>2. /\ s \in Sources /\ g \in Gens /\ Building(w)
      /\ claim[w].id \in TaskIds
      /\ task[claim[w].id].key = <<s, "parse_source">>
  BY <1>1, Publisher, BuilderTask, PublishingWhole
<1>7. torn' = torn
  BY WorkerTables
<1>3. StagedWhole'
  BY <1>2, <1>7, PublishingWhole DEF RInv, StagedWhole, Whole
\* The tasks of other sources stay open.
<1>4. ASSUME NEW i \in TaskIds, NEW t \in Sources \ torn, t # s,
             task[i].key = <<t, "parse_source">>, Open(i)
      PROVE  Open(i)' /\ task'[i].key = <<t, "parse_source">>
  <2>1. claim[w].id # i
    BY <1>2, <1>4
  <2>2. \A v \in Workers : WorkerStep(v) /\ Publishes(v) => claim[v].id # i
    BY <1>1, <2>1, PublishesAlone
  <2>3. Open(i)'
    BY <1>4, <2>2, OpenStays
  <2>4. task'[i].key = task[i].key
    BY <1>1, <1>4, KeysStay DEF Open
  <2> QED BY <1>4, <2>3, <2>4
<1>5. Ready'
  <2> SUFFICES ASSUME NEW t \in Sources \ torn
               PROVE  /\ doc'[t].published <= doc'[t].gen
                      /\ doc'[t].evidence = "READY" => ReadyRow(t)'
    BY <1>7 DEF Ready
  <2>1. CASE t = s
    <3>1. g <= g
      BY <1>2 DEF Gens
    <3> QED BY <1>2, <2>1, <3>1, PublishingWhole DEF ReadyRow, Whole
  <2>2. CASE t # s
    <3>1. doc'[t] = doc[t] /\ evidence'[t] = evidence[t]
      BY <2>2, PublishingWhole
    <3>2. /\ doc[t].published <= doc[t].gen
          /\ doc[t].evidence = "READY" => ReadyRow(t)
      BY DEF RInv, Ready
    <3>3. ReadyRow(t) => ReadyRow(t)'
      BY <1>4, <2>2, <3>1 DEF ReadyRow
    <3> QED BY <3>1, <3>2, <3>3
  <2> QED BY <2>1, <2>2
<1>6. Unanswered'
  <2> SUFFICES ASSUME NEW v \in Workers, Building(v)', SourceOf(v)' \notin torn,
                      work'[v].gen = doc'[SourceOf(v)'].published
               PROVE  Open(claim[v].id)' /\ claim'[v] = claim[v]
    BY <1>7 DEF Unanswered, Whole
  <2>1. GoesOnBuilding(v)
    <3>1. ~(v = w /\ Begun(w))
      <4>1. work[w].pc = "embed"
        BY <1>1, Publisher
      <4> QED BY <4>1 DEF Begun, BeginEvidenceGeneration, At
    <3> QED BY <1>1, <3>1, WorkerBuilds
  <2>2. /\ Building(v) /\ claim'[v] = claim[v]
        /\ work'[v].gen = work[v].gen /\ SourceOf(v)' = SourceOf(v)
    BY <2>1, BuildsOn
  <2>3. /\ claim[v].id \in TaskIds /\ SourceOf(v) \in Sources
        /\ task[claim[v].id].key = <<SourceOf(v), "parse_source">>
    BY <2>2, BuilderTask
  <2>4. CASE SourceOf(v) # s
    <3>1. work[v].gen = doc[SourceOf(v)].published
      BY <2>2, <2>3, <2>4, PublishingWhole
    <3>2. Open(claim[v].id)
      BY <2>2, <3>1 DEF RInv, Unanswered, Whole
    <3> QED BY <1>4, <2>2, <2>3, <2>4, <3>2
  <2>5. CASE SourceOf(v) = s
    <3>1. work[v].gen = g
      BY <2>2, <2>5, PublishingWhole
    <3>2. v = w
      BY <1>1, <1>2, <2>2, <2>5, <3>1 DEF BInv, Owned, Whole
    <3>3. work'[w].pc # "finish"
      BY <3>2 DEF Building, Parsing
    <3> QED BY <2>2, <3>2, <3>3, PublisherOpen
  <2> QED BY <2>4, <2>5
<1> QED BY <1>3, <1>5, <1>6

\* A transaction that lost its connection says nothing of what is whole.
LEMMA TearReady ==
    ASSUME RInv, [Next]_vars, NEW w \in Workers, Tearing(w), ~Other,
           \A v \in Workers : WorkerStep(v) => ~Publishes(v)
    PROVE  StagedWhole' /\ Ready' /\ Unanswered'
<1>1. /\ torn \subseteq torn'
      /\ \A t \in Sources \ torn : /\ evidence'[t] = evidence[t]
                                    /\ doc'[t].gen = doc[t].gen
                                    /\ doc'[t].published = doc[t].published
                                    /\ doc'[t].evidence = doc[t].evidence
  BY TearingTables DEF TornTables, RInv
<1>2. ASSUME NEW i \in TaskIds, NEW t \in Sources \ torn,
             task[i].key = <<t, "parse_source">>, Open(i)
      PROVE  Open(i)' /\ task'[i].key = <<t, "parse_source">>
  <2>1. Open(i)'
    BY <1>2, OpenStays
  <2>2. task'[i].key = task[i].key
    BY <1>2, BaseDrivesQueue, KeysStay DEF Open, RInv, BInv
  <2> QED BY <1>2, <2>1, <2>2
<1>3. StagedWhole'
  BY <1>1 DEF RInv, StagedWhole
<1>4. Ready'
  <2> SUFFICES ASSUME NEW t \in Sources \ torn
               PROVE  /\ doc'[t].published <= doc'[t].gen
                      /\ doc'[t].evidence = "READY" => ReadyRow(t)'
    BY <1>1 DEF Ready
  <2>1. /\ doc[t].published <= doc[t].gen
        /\ doc[t].evidence = "READY" => ReadyRow(t)
    BY DEF RInv, Ready
  <2>2. ReadyRow(t) => ReadyRow(t)'
    BY <1>1, <1>2 DEF ReadyRow
  <2> QED BY <1>1, <2>1, <2>2
<1>5. Unanswered'
  <2> SUFFICES ASSUME NEW v \in Workers, Building(v)', Whole(v)',
                      work'[v].gen = doc'[SourceOf(v)'].published
               PROVE  Open(claim[v].id)' /\ claim'[v] = claim[v]
    BY DEF Unanswered
  <2>1. v # w
    <3>1. ASSUME v = w PROVE FALSE
      <4>1. /\ SourceOf(w) \in torn' /\ claim[w].id \in TaskIds
            /\ claim' = claim
        BY <3>1, Tears
        DEF TearsTo, Building, Parsing, RInv, BInv, WorkOK
      <4>2. SourceOf(w)' = SourceOf(w)
        BY <4>1, SameRow DEF RInv
      <4> QED BY <3>1, <4>1, <4>2 DEF Whole
    <3> QED BY <3>1
  <2>2. work'[v] = work[v] /\ claim'[v] = claim[v] /\ Building(v)
    BY <2>1, OthersRest DEF Building, Parsing, RInv
  <2>3. /\ claim[v].id \in TaskIds /\ SourceOf(v) \in Sources
        /\ task[claim[v].id].key = <<SourceOf(v), "parse_source">>
    BY <2>2, BuilderTask
  <2>4. SourceOf(v)' = SourceOf(v)
    BY <2>2, <2>3, SameRow DEF RInv
  <2>5. SourceOf(v) \in Sources \ torn
    BY <1>1, <2>3, <2>4 DEF Whole
  <2>6. Open(claim[v].id)
    BY <1>1, <2>2, <2>4, <2>5 DEF RInv, Unanswered, Whole
  <2> QED BY <1>2, <2>2, <2>3, <2>5, <2>6
<1> QED BY <1>3, <1>4, <1>5

LEMMA RInvKept ==
    ASSUME RInv, [Next]_vars
    PROVE  RInv'
<1>1. BInv' /\ OnTask' /\ OnParse'
  BY BInvKept, OnTaskKept, OnParseKept DEF RInv
<1>2. CASE Unpublished
  BY <1>1, <1>2, QuietDocs, QuietReady, QuietUnanswered DEF RInv
<1>3. CASE \E w \in Workers : WorkerStep(w) /\ Publishes(w)
  BY <1>1, <1>3, PublishReady DEF RInv
<1>4. CASE ~Unpublished /\ \A w \in Workers : WorkerStep(w) => ~Publishes(w)
  <2>1. ~Other /\ \E w \in Workers : Tearing(w)
    BY <1>4, EveryStep DEF Unpublished
  <2> QED BY <1>1, <1>4, <2>1, TearReady DEF RInv
<1> QED BY <1>2, <1>3, <1>4

----------------------------------------------------------------------------
(* What holds of every behaviour.                                          *)

\* The knowledge base implements the queue: a user who uploads and removes
\* files and workers who parse, compile and repair call it as it allows, over
\* connections that are lost or not.
THEOREM BaseImplementsQueue == Spec => ImplementsQueue
<1>1. Init => QInit
  BY DEF Init
<1>2. BInv /\ [Next]_vars => [QNext]_queue
  BY BaseDrivesQueue DEF BInv
<1>3. BInv /\ [Next]_vars => BInv'
  BY BInvKept
<1> QED BY <1>1, <1>2, <1>3, BInit, PTL DEF Spec, ImplementsQueue, QueueSpec

\* So every task of the knowledge base is tried within its budget.
THEOREM BaseRetriesBounded == Spec => []RetryBudget
<1> QED BY BaseImplementsQueue, RetriesBounded, PTL DEF ImplementsQueue

\* Every row of the knowledge base holds values its columns may hold.
THEOREM BaseTypeCorrect == Spec => []TypeOK
<1>1. BInv => TypeOK
  BY DEF BInv, QInv, QTypeOK, TypeOK, RelationOK, DocOK, EvidenceOK, PageOK,
         HistoryOK
<1>2. BInv /\ [Next]_vars => BInv'
  BY BInvKept
<1> QED BY <1>1, <1>2, BInit, PTL DEF Spec

\* A source has at most one published generation of evidence, however its
\* parses fail, overlap or outlive their lease and whatever connections are
\* lost, unless one was lost in the middle of its own transactions.
THEOREM EvidenceConsistent == Spec => []OneGeneration
<1>1. BInv => OneGeneration
  BY DEF BInv
<1>2. BInv /\ [Next]_vars => BInv'
  BY BInvKept
<1> QED BY <1>1, <1>2, BInit, PTL DEF Spec

\* No page cites deleted evidence as live, although the LLM was shown it before
\* the file was removed and answers after, unless the delete was committed
\* between the look at the citations and the commit of the patch, or a
\* transaction of the page or of the source was torn.
THEOREM DeletedStaysUncited == Spec => []DeletedNotCited
<1>1. BInv => DeletedNotCited
  BY DEF BInv
<1>2. BInv /\ [Next]_vars => BInv'
  BY BInvKept
<1> QED BY <1>1, <1>2, BInit, PTL DEF Spec

\* A document that reads READY has all its chunks, and its vectors unless a
\* parse whose commit went unanswered has withdrawn them, and then a parse of
\* the file has not ended in success.  The source's own transactions lost no
\* connection half way.
THEOREM ReadyIsComplete == Spec => []ReadyComplete
<1>1. RInv => ReadyComplete
  <2> SUFFICES ASSUME RInv, NEW s \in Sources \ torn, doc[s].evidence = "READY"
               PROVE  LET row == evidence[s][doc[s].published]
                      IN /\ row.state = "PUBLISHED"
                         /\ row.rows = ChunkCount[s]
                         /\ row.vectors \/ Unparsed(s)
    BY DEF ReadyComplete
  <2>1. ReadyRow(s)
    BY DEF RInv, Ready
  <2>2. \A i \in TaskIds : Open(i) => task[i].status # "success"
    BY DEF Open
  <2> QED BY <2>1, <2>2 DEF ReadyRow, Unparsed
<1>2. RInv /\ [Next]_vars => RInv'
  BY RInvKept
<1> QED BY <1>1, <1>2, RInit, PTL DEF Spec

\* A failed or overtaken parse never costs a file its evidence, unless one of
\* its own transactions is torn.
THEOREM EvidenceStays == Spec => PublishedKept
<1>1. BInv /\ [Next]_vars =>
        [\A s \in Sources \ torn, g \in Gens :
           evidence[s][g].state = "PUBLISHED" =>
              \/ evidence'[s][g].state = "PUBLISHED"
              \/ \E h \in Gens : h > g /\ evidence'[s][h].state = "PUBLISHED"
              \/ s \notin relation]_vars
  BY BInvKept DEF Stays
<1>2. BInv /\ [Next]_vars => BInv'
  BY BInvKept
<1> QED BY <1>1, <1>2, BInit, PTL DEF Spec, PublishedKept
=============================================================================
