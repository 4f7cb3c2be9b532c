----------------------- MODULE KnowledgeSearch_proofs -----------------------
(***************************************************************************)
(* Theorems about KnowledgeSearch: its searches always find an index, the  *)
(* index goes forward over files that never change, and one that is up to  *)
(* date covers every file that was never removed or torn.                  *)
(*                                                                         *)
(* SearchSpec is not an instance of Spec, since an index worker uses up    *)
(* faults, but its steps are steps of the knowledge base or leave all but  *)
(* the budget alone, and so they keep the invariant BInv.                  *)
(***************************************************************************)
EXTENDS KnowledgeSearch, KnowledgeBase_proofs

\* The numbers and the file the model starts from are within its bounds.
LEMMA IndexBounds ==
    /\ MaxDirty \in Nat /\ 0 \in 0..MaxDirty /\ 1 \in 1..MaxDirty
    /\ MaxBuild \in Nat /\ 0 \in 0..MaxBuild /\ 1 \in 1..MaxBuild
    /\ <<1, 1>> \in Paths
  BY IndexAssumption DEF IndexAssumption, Paths

----------------------------------------------------------------------------
(* The invariant.                                                          *)

IndexRow == [dirty : 0..MaxDirty, published : 0..MaxDirty,
             fileEpoch : 0..MaxBuild, epoch : 0..MaxBuild,
             worker : IndexWorkers \cup {NoBuilder},
             lease : {"none", "live", "expired"}]
BuildCalls == {"idle", "load", "build", "publish", "fail"}
BuildRow == [pc : BuildCalls, gen : 0..MaxDirty, epoch : 0..MaxBuild,
             found : SUBSET Entries]
Snapshots == (SUBSET Entries) \cup {NoFile}
SearchRow == [pc : {"idle", "open"}, path : Paths \cup {<<0, 0>>}]

IndexTyped ==
    /\ index \in IndexRow
    /\ builder \in [IndexWorkers -> BuildRow]
    /\ snapshot \in [Paths -> Snapshots]
    /\ search \in [Searches -> SearchRow]

Busy(x) == ~Doing(x, "idle")
BuildsFor(x) == PathOf(builder[x].gen, builder[x].epoch)

\* A lease epoch is given out once, so that each build has a file of its own:
\* it is not there before it is built and stays once it is.
FilesOwned ==
    /\ \A x \in IndexWorkers :
         Busy(x) => /\ builder[x].gen \in 1..index.dirty
                    /\ builder[x].epoch \in 1..index.epoch
    /\ \A x, y \in IndexWorkers :
         Busy(x) /\ Busy(y) /\ builder[x].epoch = builder[y].epoch => x = y
    /\ \A f \in Paths : snapshot[f] # NoFile => f[2] <= index.epoch
    /\ \A x \in IndexWorkers :
         Doing(x, "load") \/ Doing(x, "build") => snapshot[BuildsFor(x)] = NoFile
    /\ \A x \in IndexWorkers : Doing(x, "publish") => snapshot[BuildsFor(x)] # NoFile

\* The index is as old as the build it was published from, and whoever has the
\* current lease builds a newer one.
IndexOrder ==
    /\ index.published <= index.dirty
    /\ \A x \in IndexWorkers :
         Busy(x) /\ builder[x].epoch = index.epoch
         => index.published < builder[x].gen

\* What is published, and what a search is about to open, is there.
FilesThere ==
    /\ index.published > 0 => /\ PublishedFile \in Paths
                              /\ snapshot[PublishedFile] # NoFile
    /\ \A q \in Searches :
         search[q].pc = "open" => /\ search[q].path \in Paths
                                  /\ snapshot[search[q].path] # NoFile

\* A snapshot without anything that was left out of it wrongly.
Excused(s) == Removed(s) \/ s \in torn
Covers(found) == \A c \in ActiveChunks : c \in found \/ Excused(c[1])

\* Evidence is published for a file that is there, and it takes a removal for
\* the file to go.
PublishedHeld ==
    \A s \in Sources, g \in Gens :
        evidence[s][g].state = "PUBLISHED" => s \in relation \/ Excused(s)

\* What was loaded for the dirty generation, and was built or published from
\* it, covers all there is as long as nothing is marked dirty again.
Covered ==
    /\ \A x \in IndexWorkers :
         builder[x].gen = index.dirty =>
            /\ Doing(x, "build") => Covers(builder[x].found)
            /\ Doing(x, "publish") => Covers(snapshot[BuildsFor(x)])
    /\ index.published > 0 /\ index.dirty = index.published
       => Covers(snapshot[PublishedFile])

\* A row that was not inserted yet is about nothing.
EmptyRows == \A i \in TaskIds : task[i].status = "none" => task[i].key = NoKey

Side == IndexTyped /\ FilesOwned /\ IndexOrder /\ FilesThere
Held == EmptyRows /\ PublishedHeld

SearchInv == BInv /\ Held /\ Side /\ Covered

----------------------------------------------------------------------------
(* The first states.                                                       *)

LEMMA ActiveEntries ==
    ASSUME PageOK
    PROVE  Active \in SUBSET Entries /\ Active # NoFile
<1>1. ActiveChunks \subseteq Entries
  BY DEF ActiveChunks, Entries
<1>2. ActivePages \subseteq Entries
  BY DEF ActivePages, Entries, PageOK, PageRow
<1>3. Active \in SUBSET Entries
  BY <1>1, <1>2 DEF Active
<1> QED BY <1>3, IndexAssumption DEF IndexAssumption

LEMMA SearchBegins == SearchInit => SearchInv
<1> SUFFICES ASSUME SearchInit PROVE SearchInv
  OBVIOUS
<1> USE DEF SearchInit, IndexInit
<1>1. BInv
  BY BInit
<1>2. DEFINE one == IF relation = {} THEN 0 ELSE 1
<1>3. /\ index.dirty = one /\ index.published = one /\ index.fileEpoch = one
      /\ index.epoch = one
      /\ one \in 0..1
  OBVIOUS
<1>4. IndexTyped
  <2>1. one \in 0..MaxDirty /\ one \in 0..MaxBuild
    BY IndexBounds
  <2>2. index \in IndexRow
    BY <2>1 DEF IndexRow
  <2>3. builder \in [IndexWorkers -> BuildRow]
    BY IndexBounds DEF NoBuild, BuildRow, BuildCalls
  <2>4. snapshot \in [Paths -> Snapshots]
    BY <1>1, ActiveEntries DEF Snapshots, BInv
  <2>5. search \in [Searches -> SearchRow]
    BY DEF NoSearch, SearchRow
  <2> QED BY <2>2, <2>3, <2>4, <2>5 DEF IndexTyped
<1>5. \A x \in IndexWorkers : builder[x].pc = "idle"
  BY DEF NoBuild
<1>6. FilesOwned
  <2>1. ASSUME NEW f \in Paths, snapshot[f] # NoFile
        PROVE  f[2] <= index.epoch
    BY <2>1
  <2> QED BY <1>5, <2>1 DEF FilesOwned, Busy, Doing
<1>7. IndexOrder
  BY <1>5 DEF IndexOrder, Busy, Doing
<1>8. relation # {} => PublishedFile = <<1, 1>> /\ snapshot[<<1, 1>>] = Active
  BY IndexBounds DEF PublishedFile, PathOf
<1>9. FilesThere
  <2>1. \A q \in Searches : search[q].pc # "open"
    BY DEF NoSearch
  <2> QED BY <1>1, <1>3, <1>8, <2>1, IndexBounds, ActiveEntries
          DEF FilesThere, BInv
<1>10. PublishedHeld
  <2>1. PICK start \in Starts : StartsFrom(start)
    BY DEF Init
  <2> QED BY <2>1 DEF StartsFrom, PublishedHeld, NoGen
<1>11. Covered
  <2>1. ActiveChunks \subseteq Active
    BY DEF Active
  <2> QED BY <1>3, <1>5, <1>8, <2>1 DEF Covered, Covers, Doing
<1>12. EmptyRows
  BY DEF Init, QInit, NoTask, EmptyRows
<1> QED BY <1>1, <1>4, <1>6, <1>7, <1>9, <1>10, <1>11, <1>12
        DEF SearchInv, Side, Held
----------------------------------------------------------------------------
(* The steps of the knowledge base.                                        *)

\* A step that uses up a fault at most.
LEMMA FaultKeeps ==
    ASSUME BInv, UNCHANGED <<queue, knowledge, work>>, budget' = budget \/ Fault
    PROVE  BInv'
<1>1. /\ task' = task /\ staged' = staged /\ claim' = claim
      /\ relation' = relation /\ doc' = doc /\ evidence' = evidence
      /\ page' = page /\ work' = work
      /\ torn' = torn /\ overtaken' = overtaken
  BY DEF queue, knowledge, history
<1>2. BudgetOK'
  BY BudgetTypes DEF BInv
<1>3. QInv'
  BY <1>1 DEF BInv, QInv, QTypeOK, Linked, Fenced, Keyed, Inserts, RetryBudget
<1>4. RelationOK' /\ DocOK' /\ EvidenceOK' /\ PageOK' /\ WorkOK' /\ HistoryOK'
  BY <1>1
  DEF BInv, RelationOK, DocOK, EvidenceOK, PageOK, WorkOK, HistoryOK
<1>5. InHand' /\ Torn' /\ Owned' /\ Fresh'
  <2>1. \A w \in Workers : /\ SourceOf(w)' = SourceOf(w)
                            /\ Whole(w)' = Whole(w)
                            /\ Building(w)' = Building(w)
                            /\ Parsing(w)' = Parsing(w)
    BY <1>1 DEF SourceOf, Whole, Building, Parsing
  <2>2. InHand' /\ Torn'
    BY <1>1, <2>1 DEF BInv, InHand, Torn, At
  <2>3. Owned' /\ Fresh'
    BY <1>1, <2>1 DEF BInv, Owned, Fresh
  <2> QED BY <2>2, <2>3
<1>6. Untouched' /\ OneGeneration'
  BY <1>1 DEF BInv, Untouched, OneGeneration, OnePublished
<1>7. Citing' /\ DeletedNotCited'
  BY <1>1 DEF BInv, Citing, Citable, Kept, At, DeletedNotCited
<1> QED BY <1>2, <1>3, <1>4, <1>5, <1>6, <1>7 DEF BInv

\* A file that was removed once stays one that was.
LEMMA RemovedStays ==
    ASSUME BInv, EmptyRows, [Next]_vars
    PROVE  /\ EmptyRows'
           /\ \A s \in Sources : Excused(s) => Excused(s)'
<1>1. QInv /\ [QNext]_queue
  BY BaseDrivesQueue DEF BInv
<1>2. EmptyRows'
  BY <1>1, EmptyStay, KeysStay DEF EmptyRows
<1>3. ASSUME NEW s \in Sources, Removed(s)
      PROVE  Removed(s)'
  <2>1. PICK i \in TaskIds : task[i].key = <<s, "delete_source">>
    BY <1>3 DEF Removed
  <2>2. <<s, "delete_source">> # NoKey
    BY KeysOfTasks, QueueAssumption DEF TaskTypes, QueueAssumption
  <2>3. task'[i].key = task[i].key
    BY <1>1, <2>1, <2>2, KeysStay DEF EmptyRows
  <2> QED BY <2>1, <2>3 DEF Removed
<1>4. torn \subseteq torn'
  BY EveryStep, OtherSteps, WorkerTables, TearingTables DEF TornTables
<1> QED BY <1>2, <1>3, <1>4 DEF Excused

LEMMA RemovalLeavesTask ==
    ASSUME BInv, NEW s \in Sources, RemoveFile(s)
    PROVE  Removed(s)'
<1>1. Enqueue(<<s, "delete_source">>)
  BY DEF RemoveFile
<1>2. CASE Duplicate(<<s, "delete_source">>) /\ task' = task
  BY <1>2 DEF Duplicate, Removed
<1>3. ASSUME NEW i \in TaskIds,
             task' = [task EXCEPT ![i] = Inserted(<<s, "delete_source">>)]
      PROVE  Removed(s)'
  <2>1. task'[i] = Inserted(<<s, "delete_source">>)
    BY <1>3 DEF BInv, QInv, QTypeOK
  <2>2. Inserted(<<s, "delete_source">>).key = <<s, "delete_source">>
    BY InsertedRow, KeysOfTasks DEF TaskTypes
  <2> QED BY <2>1, <2>2 DEF Removed
<1> QED BY <1>1, <1>2, <1>3 DEF Enqueue

\* A relation goes only by RemoveFile, and comes only for a user's step.
LEMMA RelationLost ==
    ASSUME BInv, [Next]_vars, NEW s \in Sources, s \in relation, s \notin relation'
    PROVE  Removed(s)'
<1>1. CASE UserNext
  <2>1. PICK t \in Sources :
          \/ UploadKnown(t) \/ UploadOpen(t) \/ UploadCommit(t)
          \/ UploadRollback(t) \/ RemoveFile(t) \/ Describe(t)
    BY <1>1 DEF UserNext
  <2>2. ~(relation' = relation \/ relation' = relation \cup {t})
    OBVIOUS
  <2>3. RemoveFile(t)
    BY <2>1, <2>2
    DEF UploadKnown, UploadOpen, UploadCommit, UploadRollback, Describe,
        knowledge
  <2>4. relation' = relation \ {t}
    BY <2>3 DEF RemoveFile
  <2>5. s = t
    BY <2>4
  <2> QED BY <2>3, <2>5, RemovalLeavesTask
<1>2. CASE ~UserNext
  <2>1. relation' = relation
    <3>1. CASE \E w \in Workers : WorkerStep(w) \/ Tearing(w)
      BY <3>1, WorkerTables, TearingTables DEF TornTables
    <3>2. CASE \E w \in Workers : Crash(w) \/ Stall(w)
      BY <3>2, Zenon DEF Crash, Stall, knowledge
    <3>3. CASE \E i \in TaskIds : LeaseRunsOut(i) \/ BecomesDue(i)
      BY <3>3, Zenon DEF LeaseRunsOut, BecomesDue, knowledge
    <3>4. CASE UNCHANGED vars
      BY <3>4 DEF vars, knowledge
    <3> QED BY <1>2, <3>1, <3>2, <3>3, <3>4, EveryStep DEF Other
  <2> QED BY <2>1
<1> QED BY <1>1, <1>2

\* The evidence that a worker's step publishes: of a file that is there, by a
\* transaction that marks the index dirty.
LEMMA NewlyPublished ==
    ASSUME BInv, NEW w \in Workers, WorkerStep(w),
           NEW s \in Sources, NEW g \in Gens,
           evidence'[s][g].state = "PUBLISHED",
           \/ evidence[s][g].state # "PUBLISHED"
           \/ evidence'[s][g].vectors /\ ~evidence[s][g].vectors
    PROVE  s \in relation /\ Republishes(w)
<1>1. evidence[s][g] \in GenRow
  BY DEF BInv, EvidenceOK
<1>2. EvidenceStep(w)
  BY WorkerTables
<1>3. CASE PutChunk(w) \/ AbortEvidenceGeneration(w)
  <2>1. Building(w)
    BY <1>3 DEF PutChunk, AbortEvidenceGeneration, At, Building, Parsing
  <2>2. /\ SourceOf(w) \in Sources /\ work[w].gen \in Gens
        /\ evidence[SourceOf(w)][work[w].gen] \in GenRow
    BY <2>1, Builder DEF BInv, EvidenceOK
  <2>3. \E row : /\ OneRow(SourceOf(w), work[w].gen, row)
                 /\ row.state = "PUBLISHED" =>
                      /\ evidence[SourceOf(w)][work[w].gen].state = "PUBLISHED"
                      /\ row.vectors = FALSE
    <3> DEFINE old == evidence[SourceOf(w)][work[w].gen]
    <3>1. CASE PutChunk(w)
      <4>1. evidence' = [evidence EXCEPT
                           ![SourceOf(w)][work[w].gen] = Staged(old)]
        BY <2>2, <3>1 DEF PutChunk, BInv, EvidenceOK
      <4>2. Staged(old) \in GenRow /\ Staged(old).state = "STAGING"
        BY <2>2, StagedRow
      <4> QED BY <4>1, <4>2 DEF OneRow
    <3>2. CASE AbortEvidenceGeneration(w)
      <4>1. evidence' = [evidence EXCEPT
                           ![SourceOf(w)][work[w].gen] = Cleaned(old)]
        BY <2>2, <3>2 DEF AbortEvidenceGeneration, BInv, EvidenceOK
      <4>2. /\ Cleaned(old) \in GenRow
            /\ Cleaned(old).vectors = FALSE
            /\ Cleaned(old).state = "PUBLISHED" => old.state = "PUBLISHED"
        BY <2>2 DEF Cleaned, GenRow
      <4> QED BY <4>1, <4>2 DEF OneRow
    <3> QED BY <1>3, <3>1, <3>2
  <2>4. PICK row : /\ OneRow(SourceOf(w), work[w].gen, row)
                   /\ row.state = "PUBLISHED" =>
                        /\ evidence[SourceOf(w)][work[w].gen].state = "PUBLISHED"
                        /\ row.vectors = FALSE
    BY <2>3
  <2>5. /\ evidence'[SourceOf(w)][work[w].gen] = row
        /\ s # SourceOf(w) \/ g # work[w].gen
           => evidence'[s][g] = evidence[s][g]
    BY <2>2, <2>4, OneRowChanges DEF BInv
  <2> QED BY <2>4, <2>5
<1>4. CASE PublishEvidenceGeneration(w)
  <2>1. CanPublish(w)
    <3>1. CASE ~CanPublish(w)
      <4>1. evidence' = evidence
        BY <1>4, <3>1, Zenon DEF PublishEvidenceGeneration
      <4> QED BY <4>1
    <3> QED BY <3>1
  <2>2. /\ Republishes(w)
        /\ SourceOf(w) \in relation
        /\ evidence' = [evidence EXCEPT
                          ![SourceOf(w)] = Publishing(@, work[w].gen)]
    BY <1>4, <2>1
    DEF PublishEvidenceGeneration, Republishes, InTransaction, CanPublish
  <2>3. CASE s = SourceOf(w)
    BY <2>2, <2>3
  <2>4. CASE s # SourceOf(w)
    <3>1. evidence'[s] = evidence[s]
      BY <2>2, <2>4 DEF BInv, EvidenceOK
    <3> QED BY <3>1
  <2> QED BY <2>3, <2>4
<1>5. CASE DeleteSourceKnowledge(w)
  <2>1. /\ Fenced(w)
        /\ evidence' = [evidence EXCEPT
              ![SourceOf(w)] = [h \in Gens |-> Forgotten(@[h])]]
    BY <1>5 DEF DeleteSourceKnowledge
  <2>2. SourceOf(w) \in Sources
    BY <2>1, HeldSource DEF Fenced, BInv
  <2>3. CASE s = SourceOf(w)
    <3>1. evidence'[s][g] = Forgotten(evidence[s][g])
      BY <2>1, <2>2, <2>3 DEF BInv, EvidenceOK
    <3> QED BY <1>1, <3>1, ForgottenRow DEF Settled
  <2>4. CASE s # SourceOf(w)
    <3>1. evidence'[s] = evidence[s]
      BY <2>1, <2>4 DEF BInv, EvidenceOK
    <3> QED BY <3>1
  <2> QED BY <2>3, <2>4
<1> QED BY <1>2, <1>3, <1>4, <1>5 DEF EvidenceStep

LEMMA HeldKeeps ==
    ASSUME BInv, Held, [Next]_vars
    PROVE  Held'
<1>1. EmptyRows' /\ \A s \in Sources : Excused(s) => Excused(s)'
  BY RemovedStays DEF Held
<1>2. ASSUME NEW s \in Sources, NEW g \in Gens,
             evidence'[s][g].state = "PUBLISHED"
      PROVE  s \in relation' \/ Excused(s)'
  <2>1. s \in relation \/ Excused(s)
    <3>1. CASE evidence[s][g].state = "PUBLISHED"
      BY <3>1 DEF Held, PublishedHeld
    <3>2. CASE evidence[s][g].state # "PUBLISHED"
      <4>1. ~Other
        BY <1>2, <3>2, OtherSteps
      <4>2. ASSUME NEW w \in Workers, Tearing(w)
            PROVE  Excused(s)
        BY <1>2, <3>2, <4>2, TearingTables DEF TornTables, Excused
      <4> QED BY <1>2, <3>2, <4>1, <4>2, EveryStep, NewlyPublished
    <3> QED BY <3>1, <3>2
  <2> QED BY <1>1, <2>1, RelationLost DEF Excused
<1> QED BY <1>1, <1>2 DEF Held, PublishedHeld

\* Unless the index is marked dirty, a chunk comes to be shown only when its
\* file was removed and is back.
LEMMA CoversStays ==
    ASSUME BInv, Held, [Next]_vars,
           \/ Other
           \/ \E w \in Workers : \/ WorkerStep(w) /\ ~Republishes(w)
                               \/ Tearing(w)
    PROVE  \A found : Covers(found) => Covers(found)'
<1>1. ASSUME NEW c \in ActiveChunks', c[1] \notin torn
      PROVE  c \in ActiveChunks \/ Excused(c[1])
  <2>1. /\ c \in Evidence /\ c[1] \in Sources /\ c[2] \in Gens
        /\ evidence'[c[1]][c[2]].state = "PUBLISHED"
        /\ evidence'[c[1]][c[2]].vectors
        /\ c[1] \in relation'
    BY <1>1 DEF ActiveChunks, Usable, Evidence
  <2>2. /\ evidence[c[1]][c[2]].state = "PUBLISHED"
        /\ evidence[c[1]][c[2]].vectors
    <3>1. CASE Other
      BY <2>1, <3>1, OtherSteps
    <3>2. ASSUME NEW w \in Workers, WorkerStep(w), ~Republishes(w)
          PROVE  /\ evidence[c[1]][c[2]].state = "PUBLISHED"
                 /\ evidence[c[1]][c[2]].vectors
      BY <2>1, <3>2, NewlyPublished
    <3>3. ASSUME NEW w \in Workers, Tearing(w)
          PROVE  evidence'[c[1]] = evidence[c[1]]
      BY <1>1, <2>1, <3>3, TearingTables DEF TornTables
    <3> QED BY <2>1, <3>1, <3>2, <3>3
  <2>3. CASE c[1] \in relation
    BY <2>1, <2>2, <2>3 DEF ActiveChunks, Usable
  <2>4. CASE c[1] \notin relation
    BY <2>1, <2>2, <2>4 DEF Held, PublishedHeld
  <2> QED BY <2>3, <2>4
<1>2. \A s \in Sources : Excused(s) => Excused(s)'
  BY RemovedStays DEF Held
<1>3. \A c \in ActiveChunks' : c[1] \in Sources
  BY DEF ActiveChunks, Evidence
<1> QED BY <1>1, <1>2, <1>3 DEF Covers, Excused

----------------------------------------------------------------------------
(* The index and its files.                                                *)

\* What IndexForward asks of a step.
Forward ==
    /\ index'.published >= index.published
    /\ \A f \in Paths : snapshot[f] # NoFile => snapshot'[f] = snapshot[f]

LEMMA IndexNumbers ==
    ASSUME Side
    PROVE  /\ index.dirty \in Nat /\ index.published \in Nat
           /\ index.epoch \in Nat /\ index.fileEpoch \in Nat
           /\ index.dirty <= MaxDirty /\ index.epoch <= MaxBuild
           /\ \A x \in IndexWorkers :
                builder[x].gen \in Nat /\ builder[x].epoch \in Nat
  BY IndexBounds DEF Side, IndexTyped, IndexRow, BuildRow

LEMMA BuildPaths ==
    ASSUME Side, NEW x \in IndexWorkers, Busy(x)
    PROVE  BuildsFor(x) \in Paths /\ BuildsFor(x)[2] = builder[x].epoch
<1>1. builder[x].gen \in 1..MaxDirty /\ builder[x].epoch \in 1..MaxBuild
  BY IndexNumbers, IndexBounds DEF Side, FilesOwned
<1> QED BY <1>1 DEF BuildsFor, PathOf, Paths

\* The index row stays, or only its dirty generation or its lease changes.
LEMMA RowKeeps ==
    ASSUME Side, UNCHANGED <<builder, snapshot, search>>,
           \/ index' = index
           \/ MarkIndexDirty
           \/ index' = [index EXCEPT !.lease = "expired"]
    PROVE  Side' /\ Forward
<1>1. /\ index' \in IndexRow
      /\ index'.published = index.published
      /\ index'.epoch = index.epoch /\ index'.fileEpoch = index.fileEpoch
      /\ index'.dirty >= index.dirty
  <2>1. CASE MarkIndexDirty
    <3>1. index.dirty + 1 \in 0..MaxDirty /\ index.dirty + 1 >= index.dirty
      BY <2>1, IndexNumbers, IndexBounds DEF MarkIndexDirty
    <3>2. index' = [index EXCEPT !.dirty = index.dirty + 1]
      BY <2>1 DEF MarkIndexDirty
    <3> QED BY <3>1, <3>2 DEF Side, IndexTyped, IndexRow
  <2>2. CASE index' = index \/ index' = [index EXCEPT !.lease = "expired"]
    BY <2>2, IndexNumbers DEF Side, IndexTyped, IndexRow
  <2> QED BY <2>1, <2>2
<1>2. IndexTyped'
  BY <1>1 DEF Side, IndexTyped
<1>3. index'.dirty \in Nat
  BY <1>1, IndexBounds DEF IndexRow
<1>4. FilesOwned'
  <2>1. \A x \in IndexWorkers : Busy(x) => builder[x].gen \in 1..index'.dirty
    BY <1>1, <1>3, IndexNumbers DEF Side, FilesOwned
  <2> QED BY <1>1, <2>1 DEF Side, FilesOwned, Busy, Doing, BuildsFor, PathOf
<1>5. IndexOrder'
  BY <1>1, <1>3, IndexNumbers DEF Side, IndexOrder, Busy, Doing
<1>6. FilesThere'
  BY <1>1 DEF Side, FilesThere, PublishedFile, PathOf
<1>7. Forward
  BY <1>1, IndexNumbers DEF Forward
<1> QED BY <1>2, <1>4, <1>5, <1>6, <1>7 DEF Side

LEMMA ClaimSide ==
    ASSUME Side, NEW x \in IndexWorkers, ClaimDirtyIndex(x)
    PROVE  Side' /\ Forward
<1> DEFINE next == index.epoch + 1
           row == [pc |-> "load", gen |-> index.dirty, epoch |-> next,
                   found |-> {}]
<1>1. /\ ~Busy(x)
      /\ index.dirty > index.published
      /\ index.epoch < MaxBuild
      /\ index' = [index EXCEPT !.worker = x, !.lease = "live",
                                !.epoch = next]
      /\ builder' = [builder EXCEPT ![x] = row]
      /\ snapshot' = snapshot /\ search' = search
  BY DEF ClaimDirtyIndex, Busy
<1>2. /\ index.dirty \in 1..index.dirty /\ index.dirty \in 0..MaxDirty
      /\ index.dirty \in 1..MaxDirty
      /\ next \in 1..MaxBuild /\ next \in 0..MaxBuild /\ next \in 1..next
      /\ next \in Nat /\ next > index.epoch
  BY <1>1, IndexNumbers, IndexBounds
<1>3. row \in BuildRow
  BY <1>2 DEF BuildRow, BuildCalls
<1>4. /\ index' \in IndexRow
      /\ index'.epoch = next /\ index'.dirty = index.dirty
      /\ index'.published = index.published
      /\ index'.fileEpoch = index.fileEpoch
  BY <1>1, <1>2 DEF Side, IndexTyped, IndexRow
<1>5. /\ builder' \in [IndexWorkers -> BuildRow]
      /\ builder'[x] = row
      /\ \A y \in IndexWorkers : y # x => builder'[y] = builder[y]
  BY <1>1, <1>3 DEF Side, IndexTyped
<1> HIDE DEF next
<1>6. IndexTyped'
  BY <1>1, <1>4, <1>5 DEF Side, IndexTyped
\* The epoch is a new one: no build and no file has it yet.
<1>7. /\ \A y \in IndexWorkers : Busy(y) => builder[y].epoch < next
      /\ \A f \in Paths : snapshot[f] # NoFile => f[2] < next
  <2>1. \A y \in IndexWorkers : Busy(y) => builder[y].epoch <= index.epoch
    BY IndexNumbers DEF Side, FilesOwned
  <2>2. \A f \in Paths : f[2] \in Nat
    BY DEF Paths
  <2> QED BY <1>2, <2>1, <2>2, IndexNumbers DEF Side, FilesOwned
<1>8. FilesOwned'
  <2>1. ASSUME NEW y \in IndexWorkers, Busy(y)'
        PROVE  /\ builder'[y].gen \in 1..index'.dirty
               /\ builder'[y].epoch \in 1..index'.epoch
               /\ y # x => Busy(y) /\ builder'[y].epoch < next
    <3>1. CASE y = x
      BY <1>2, <1>4, <1>5, <3>1
    <3>2. CASE y # x
      <4>1. Busy(y) /\ builder'[y] = builder[y]
        BY <1>5, <2>1, <3>2 DEF Busy, Doing
      <4>2. /\ builder[y].gen \in 1..index.dirty
            /\ builder[y].epoch \in 1..index.epoch
        BY <4>1 DEF Side, FilesOwned
      <4> QED BY <1>2, <1>4, <1>7, <4>1, <4>2, IndexNumbers
    <3> QED BY <3>1, <3>2
  <2>2. ASSUME NEW y \in IndexWorkers, NEW z \in IndexWorkers, Busy(y)',
               Busy(z)', builder'[y].epoch = builder'[z].epoch
        PROVE  y = z
    <3>1. \A v \in IndexWorkers : v # x /\ Busy(v)' => builder'[v].epoch # next
      BY <1>2, <2>1, IndexNumbers, <1>5
    <3>2. CASE y = x \/ z = x
      BY <1>5, <2>2, <3>1, <3>2
    <3>3. CASE y # x /\ z # x
      BY <1>5, <2>1, <2>2, <3>3 DEF Side, FilesOwned
    <3> QED BY <3>2, <3>3
  <2>3. ASSUME NEW f \in Paths, snapshot'[f] # NoFile
        PROVE  f[2] <= index'.epoch
    BY <1>1, <1>2, <1>4, <1>7, <2>3 DEF Paths
  <2>4. ASSUME NEW y \in IndexWorkers, Doing(y, "load")' \/ Doing(y, "build")'
        PROVE  snapshot'[BuildsFor(y)'] = NoFile
    <3>1. CASE y = x
      <4>1. BuildsFor(y)' = <<index.dirty, next>>
        BY <1>5, <3>1 DEF BuildsFor, PathOf
      <4>2. <<index.dirty, next>> \in Paths /\ ~(next < next)
        BY <1>2 DEF Paths
      <4> QED BY <1>1, <1>7, <4>1, <4>2
    <3>2. CASE y # x
      BY <1>1, <1>5, <2>4, <3>2 DEF Side, FilesOwned, Doing, BuildsFor, PathOf
    <3> QED BY <3>1, <3>2
  <2>5. ASSUME NEW y \in IndexWorkers, Doing(y, "publish")'
        PROVE  snapshot'[BuildsFor(y)'] # NoFile
    <3>1. y # x
      BY <1>5, <2>5 DEF Doing
    <3> QED BY <1>1, <1>5, <2>5, <3>1
            DEF Side, FilesOwned, Doing, BuildsFor, PathOf
  <2> QED BY <2>1, <2>2, <2>3, <2>4, <2>5 DEF FilesOwned
<1>9. IndexOrder'
  <2> SUFFICES ASSUME NEW y \in IndexWorkers, Busy(y)',
                      builder'[y].epoch = index'.epoch
               PROVE  index'.published < builder'[y].gen
    BY <1>4 DEF Side, IndexOrder
  <2>1. y = x
    <3>1. ASSUME y # x PROVE FALSE
      <4>1. Busy(y) /\ builder'[y] = builder[y]
        BY <1>5, <3>1 DEF Busy, Doing
      <4>2. builder[y].epoch < next /\ builder[y].epoch = next
        BY <1>4, <1>7, <4>1
      <4> QED BY <1>2, <4>2
    <3> QED BY <3>1
  <2> QED BY <1>1, <1>4, <1>5, <2>1, IndexNumbers
<1>10. FilesThere'
  BY <1>1, <1>4 DEF Side, FilesThere, PublishedFile, PathOf
<1>11. Forward
  BY <1>1, <1>4, IndexNumbers DEF Forward
<1> QED BY <1>6, <1>8, <1>9, <1>10, <1>11 DEF Side

\* A worker goes on with its build, or leaves it.
Moves(x, row) ==
    /\ builder' = [builder EXCEPT ![x] = row]
    /\ row \in BuildRow
    /\ row.pc # "idle" => row.gen = builder[x].gen /\ row.epoch = builder[x].epoch

LEMMA MovedBuilders ==
    ASSUME Side, NEW x \in IndexWorkers, NEW row, Moves(x, row)
    PROVE  /\ builder' \in [IndexWorkers -> BuildRow]
           /\ builder'[x] = row
           /\ \A y \in IndexWorkers : y # x => builder'[y] = builder[y]
           /\ \A y \in IndexWorkers :
                Busy(y)' => y = x \/ Busy(y)
           /\ \A y \in IndexWorkers :
                Busy(y)' => /\ builder'[y].gen = builder[y].gen
                            /\ builder'[y].epoch = builder[y].epoch
                            /\ BuildsFor(y)' = BuildsFor(y)
<1>1. /\ builder' \in [IndexWorkers -> BuildRow]
      /\ builder'[x] = row
      /\ \A y \in IndexWorkers : y # x => builder'[y] = builder[y]
  BY DEF Moves, Side, IndexTyped
<1>2. ASSUME NEW y \in IndexWorkers, Busy(y)'
      PROVE  /\ builder'[y].gen = builder[y].gen
             /\ builder'[y].epoch = builder[y].epoch
             /\ y = x \/ Busy(y)
  BY <1>1, <1>2 DEF Busy, Doing, Moves
<1> QED BY <1>1, <1>2 DEF BuildsFor, PathOf

\* What becomes of a build keeps its file its own.
LEMMA MovesKeepFiles ==
    ASSUME Side, NEW x \in IndexWorkers, Busy(x), NEW row, Moves(x, row),
           index'.dirty = index.dirty, index'.epoch = index.epoch,
           snapshot' \in [Paths -> Snapshots],
           \A f \in Paths : f # BuildsFor(x) => snapshot'[f] = snapshot[f],
           row.pc \in {"load", "build"} => snapshot'[BuildsFor(x)] = NoFile,
           row.pc = "publish" => snapshot'[BuildsFor(x)] # NoFile
    PROVE  FilesOwned'
<1>1. /\ \A y \in IndexWorkers : y # x => builder'[y] = builder[y]
      /\ builder'[x] = row
      /\ \A y \in IndexWorkers :
           Busy(y)' => /\ Busy(y)
                       /\ builder'[y].gen = builder[y].gen
                       /\ builder'[y].epoch = builder[y].epoch
                       /\ BuildsFor(y)' = BuildsFor(y)
  BY MovedBuilders
<1>2. \A y \in IndexWorkers :
        Busy(y)' => /\ builder'[y].gen \in 1..index'.dirty
                    /\ builder'[y].epoch \in 1..index'.epoch
  BY <1>1 DEF Side, FilesOwned
<1>3. \A y, z \in IndexWorkers :
        Busy(y)' /\ Busy(z)' /\ builder'[y].epoch = builder'[z].epoch => y = z
  BY <1>1 DEF Side, FilesOwned
<1>4. ASSUME NEW f \in Paths, snapshot'[f] # NoFile
      PROVE  f[2] <= index'.epoch
  <2>1. CASE f = BuildsFor(x)
    <3>1. f[2] = builder[x].epoch
      BY <2>1, BuildPaths
    <3>2. builder[x].epoch \in 1..index.epoch
      BY DEF Side, FilesOwned
    <3> QED BY <3>1, <3>2, IndexNumbers
  <2>2. CASE f # BuildsFor(x)
    BY <1>4, <2>2 DEF Side, FilesOwned
  <2> QED BY <2>1, <2>2
\* Another build has another epoch, hence another file.
<1>5. ASSUME NEW y \in IndexWorkers, y # x, Busy(y)'
      PROVE  snapshot'[BuildsFor(y)'] = snapshot[BuildsFor(y)]
  <2>1. BuildsFor(y) \in Paths /\ BuildsFor(y)[2] = builder[y].epoch
    BY <1>1, <1>5, BuildPaths
  <2>2. builder[y].epoch # builder[x].epoch
    BY <1>1, <1>5 DEF Side, FilesOwned
  <2>3. BuildsFor(y) # BuildsFor(x)
    BY <2>1, <2>2, BuildPaths
  <2> QED BY <1>1, <1>5, <2>1, <2>3
<1>6. ASSUME NEW y \in IndexWorkers, Doing(y, "load")' \/ Doing(y, "build")'
      PROVE  snapshot'[BuildsFor(y)'] = NoFile
  <2>1. Busy(y)'
    BY <1>6 DEF Busy, Doing
  <2>2. CASE y = x
    BY <1>1, <1>6, <2>1, <2>2 DEF Doing
  <2>3. CASE y # x
    BY <1>1, <1>5, <1>6, <2>1, <2>3 DEF Doing, Side, FilesOwned
  <2> QED BY <2>2, <2>3
<1>7. ASSUME NEW y \in IndexWorkers, Doing(y, "publish")'
      PROVE  snapshot'[BuildsFor(y)'] # NoFile
  <2>1. Busy(y)'
    BY <1>7 DEF Busy, Doing
  <2>2. CASE y = x
    BY <1>1, <1>7, <2>1, <2>2 DEF Doing
  <2>3. CASE y # x
    BY <1>1, <1>5, <1>7, <2>1, <2>3 DEF Doing, Side, FilesOwned
  <2> QED BY <2>2, <2>3
<1> QED BY <1>2, <1>3, <1>4, <1>6, <1>7 DEF FilesOwned

\* The index row keeps its numbers while the build moves on.
LEMMA MovesKeepSide ==
    ASSUME Side, NEW x \in IndexWorkers, Busy(x), NEW row, Moves(x, row),
           index' \in IndexRow,
           index'.dirty = index.dirty, index'.epoch = index.epoch,
           index'.published = index.published,
           index'.fileEpoch = index.fileEpoch,
           search' = search,
           snapshot' \in [Paths -> Snapshots],
           \A f \in Paths : f # BuildsFor(x) => snapshot'[f] = snapshot[f],
           snapshot[BuildsFor(x)] # NoFile => snapshot' = snapshot,
           row.pc \in {"load", "build"} => snapshot'[BuildsFor(x)] = NoFile,
           row.pc = "publish" => snapshot'[BuildsFor(x)] # NoFile
    PROVE  Side' /\ Forward
<1>1. FilesOwned'
  BY MovesKeepFiles
<1>2. IndexTyped'
  BY MovedBuilders DEF Side, IndexTyped
<1>3. IndexOrder'
  BY MovedBuilders DEF Side, IndexOrder
<1>4. \A f \in Paths : snapshot[f] # NoFile => snapshot'[f] = snapshot[f]
  OBVIOUS
<1>5. FilesThere'
  BY <1>4 DEF Side, FilesThere, PublishedFile, PathOf
<1>6. Forward
  BY <1>4, IndexNumbers DEF Forward
<1> QED BY <1>1, <1>2, <1>3, <1>5, <1>6 DEF Side

LEMMA BuildMoves ==
    ASSUME Side, NEW x \in IndexWorkers
    PROVE  /\ \A pc \in BuildCalls \ {"idle"} :
                Step(x, pc) => Moves(x, [builder[x] EXCEPT !.pc = pc])
           /\ builder' = [builder EXCEPT ![x] = NoBuild] => Moves(x, NoBuild)
           /\ builder[x] \in BuildRow
<1>1. builder \in [IndexWorkers -> BuildRow] /\ builder[x] \in BuildRow
  BY DEF Side, IndexTyped
<1>2. NoBuild \in BuildRow /\ NoBuild.pc = "idle"
  BY IndexBounds DEF NoBuild, BuildRow, BuildCalls
<1>3. ASSUME NEW pc \in BuildCalls \ {"idle"}, Step(x, pc)
      PROVE  Moves(x, [builder[x] EXCEPT !.pc = pc])
  BY <1>1, <1>3 DEF Step, Moves, BuildRow
<1> QED BY <1>1, <1>2, <1>3 DEF Moves

LEMMA LoadSide ==
    ASSUME BInv, Side, NEW x \in IndexWorkers, LoadActiveVectors(x)
    PROVE  Side' /\ Forward
<1>1. /\ Doing(x, "load") /\ Busy(x)
      /\ index' = index /\ snapshot' = snapshot /\ search' = search
  BY DEF LoadActiveVectors, Busy, Doing
<1>2. \E row : /\ Moves(x, row)
               /\ row.pc \in {"build", "fail"}
  <2>1. CASE builder' = [builder EXCEPT ![x] =
                           [@ EXCEPT !.pc = "build", !.found = Active]]
    <3> DEFINE row == [builder[x] EXCEPT !.pc = "build", !.found = Active]
    <3>1. row \in BuildRow /\ row.pc = "build" /\ row.gen = builder[x].gen
          /\ row.epoch = builder[x].epoch
      BY BuildMoves, ActiveEntries DEF BuildRow, BuildCalls, BInv
    <3>2. builder' = [builder EXCEPT ![x] = row]
      BY <2>1
    <3> HIDE DEF row
    <3> QED BY <3>1, <3>2 DEF Moves
  <2>2. CASE Step(x, "fail")
    <3>1. [builder[x] EXCEPT !.pc = "fail"].pc = "fail"
      BY BuildMoves DEF BuildRow
    <3> QED BY <2>2, <3>1, BuildMoves DEF BuildCalls
  <2> QED BY <2>1, <2>2 DEF LoadActiveVectors
<1>3. snapshot[BuildsFor(x)] = NoFile
  BY <1>1 DEF Side, FilesOwned
<1>4. index' \in IndexRow /\ snapshot' \in [Paths -> Snapshots]
  BY <1>1 DEF Side, IndexTyped
<1> QED BY <1>1, <1>2, <1>3, <1>4, MovesKeepSide

LEMMA BuildSide ==
    ASSUME Side, NEW x \in IndexWorkers, BuildSnapshot(x)
    PROVE  Side' /\ Forward
<1>1. /\ Doing(x, "build") /\ Busy(x)
      /\ index' = index /\ search' = search
  BY DEF BuildSnapshot, Busy, Doing
<1>2. /\ snapshot[BuildsFor(x)] = NoFile /\ BuildsFor(x) \in Paths
      /\ snapshot \in [Paths -> Snapshots] /\ index' \in IndexRow
  BY <1>1, BuildPaths DEF Side, FilesOwned, IndexTyped
<1>3. CASE Step(x, "publish")
           /\ snapshot' = [snapshot EXCEPT ![BuildsFor(x)] = builder[x].found]
  <2> DEFINE row == [builder[x] EXCEPT !.pc = "publish"]
  <2>1. Moves(x, row) /\ row.pc = "publish"
    BY <1>3, BuildMoves DEF BuildCalls, BuildRow
  <2>2. builder[x].found \in Snapshots /\ builder[x].found # NoFile
    BY BuildMoves, IndexAssumption DEF BuildRow, Snapshots, IndexAssumption
  <2>3. /\ snapshot' \in [Paths -> Snapshots]
        /\ snapshot'[BuildsFor(x)] # NoFile
        /\ \A f \in Paths : f # BuildsFor(x) => snapshot'[f] = snapshot[f]
    BY <1>2, <1>3, <2>2
  <2> HIDE DEF row
  <2> QED BY <1>1, <1>2, <2>1, <2>3, MovesKeepSide
<1>4. CASE Step(x, "fail") /\ snapshot' = snapshot
  <2> DEFINE row == [builder[x] EXCEPT !.pc = "fail"]
  <2>1. Moves(x, row) /\ row.pc = "fail"
    BY <1>4, BuildMoves DEF BuildCalls, BuildRow
  <2> HIDE DEF row
  <2> QED BY <1>1, <1>2, <1>4, <2>1, MovesKeepSide
<1> QED BY <1>3, <1>4 DEF BuildSnapshot, BuildsFor

LEMMA PublishSide ==
    ASSUME Side, NEW x \in IndexWorkers, PublishIndexGeneration(x)
    PROVE  Side' /\ Forward
<1>1. /\ Doing(x, "publish") /\ Busy(x)
      /\ snapshot' = snapshot /\ search' = search
      /\ snapshot \in [Paths -> Snapshots]
  BY DEF PublishIndexGeneration, Busy, Doing, Side, IndexTyped
<1>2. CASE MayPublish(x)
  <2>1. /\ index' = PublishedRow(x)
        /\ Moves(x, NoBuild)
        /\ builder[x].epoch = index.epoch
    BY <1>2, BuildMoves DEF PublishIndexGeneration, MayPublish, HoldsIndex
  <2>2. /\ builder[x].gen \in 0..MaxDirty /\ builder[x].epoch \in 0..MaxBuild
        /\ builder[x].gen \in 1..index.dirty
        /\ index.published < builder[x].gen
    BY <1>1, <2>1, BuildMoves DEF BuildRow, Side, FilesOwned, IndexOrder
  <2>3. /\ index' \in IndexRow
        /\ index'.dirty = index.dirty /\ index'.epoch = index.epoch
        /\ index'.published = builder[x].gen
        /\ index'.fileEpoch = builder[x].epoch
    BY <2>1, <2>2 DEF PublishedRow, Side, IndexTyped, IndexRow
  <2>4. NoBuild.pc = "idle"
    BY DEF NoBuild
  <2>5. FilesOwned'
    BY <1>1, <2>1, <2>3, <2>4, MovesKeepFiles
  <2>6. IndexTyped'
    BY <1>1, <2>1, <2>3, MovedBuilders DEF Side, IndexTyped
  \* Whoever else builds has another epoch than the current one.
  <2>7. IndexOrder'
    <3>1. ASSUME NEW y \in IndexWorkers, Busy(y)'
          PROVE  builder'[y].epoch # index'.epoch
      <4>1. y # x /\ Busy(y) /\ builder'[y] = builder[y]
        BY <2>1, <2>4, <3>1, MovedBuilders DEF Busy, Doing
      <4> QED BY <1>1, <2>1, <2>3, <4>1 DEF Side, FilesOwned
    <3>2. index'.published <= index'.dirty
      BY <2>2, <2>3, IndexNumbers
    <3> QED BY <3>1, <3>2 DEF IndexOrder
  <2>8. FilesThere'
    <3>1. PublishedFile' = BuildsFor(x) /\ BuildsFor(x) \in Paths
      BY <1>1, <2>3, BuildPaths DEF PublishedFile, PathOf, BuildsFor
    <3>2. snapshot'[BuildsFor(x)] # NoFile
      BY <1>1 DEF Side, FilesOwned
    <3> QED BY <1>1, <3>1, <3>2 DEF Side, FilesThere
  <2>9. Forward
    BY <1>1, <2>2, <2>3, IndexNumbers DEF Forward
  <2> QED BY <2>5, <2>6, <2>7, <2>8, <2>9 DEF Side
<1>3. CASE ~MayPublish(x)
  <2> DEFINE row == [builder[x] EXCEPT !.pc = "fail"]
  <2>1. Moves(x, row) /\ row.pc = "fail" /\ index' = index
    BY <1>3, BuildMoves DEF PublishIndexGeneration, BuildCalls, BuildRow
  <2>2. index' \in IndexRow
    BY <2>1 DEF Side, IndexTyped
  <2> HIDE DEF row
  <2> QED BY <1>1, <2>1, <2>2, MovesKeepSide
<1> QED BY <1>2, <1>3

LEMMA LeaveSide ==
    ASSUME Side, NEW x \in IndexWorkers,
           FailIndexGeneration(x) \/ IndexCrash(x)
    PROVE  Side' /\ Forward
<1>1. /\ Busy(x) /\ Moves(x, NoBuild) /\ NoBuild.pc = "idle"
      /\ snapshot' = snapshot /\ search' = search
      /\ snapshot \in [Paths -> Snapshots]
  BY BuildMoves
  DEF FailIndexGeneration, IndexCrash, Busy, Doing, NoBuild, Side, IndexTyped
<1>2. index' = index \/ index' = [index EXCEPT !.worker = NoBuilder,
                                              !.lease = "none"]
  BY DEF FailIndexGeneration, IndexCrash
<1>3. /\ index' \in IndexRow
      /\ index'.dirty = index.dirty /\ index'.epoch = index.epoch
      /\ index'.published = index.published
      /\ index'.fileEpoch = index.fileEpoch
  BY <1>2 DEF Side, IndexTyped, IndexRow
<1> QED BY <1>1, <1>3, MovesKeepSide

LEMMA SearchSide ==
    ASSUME Side, NEW q \in Searches, LoadIndexState(q) \/ LoadCachedIndex(q)
    PROVE  Side' /\ Forward
<1>1. index' = index /\ builder' = builder /\ snapshot' = snapshot
  BY DEF LoadIndexState, LoadCachedIndex
<1>2. \E row \in SearchRow :
        /\ search' = [search EXCEPT ![q] = row]
        /\ row.pc = "open" => row.path \in Paths /\ snapshot[row.path] # NoFile
  <2>1. CASE LoadIndexState(q)
    <3>1. /\ PublishedFile \in Paths /\ snapshot[PublishedFile] # NoFile
          /\ search' = [search EXCEPT ![q] =
                          [pc |-> "open", path |-> PublishedFile]]
      BY <2>1, IndexNumbers DEF LoadIndexState, Side, FilesThere
    <3>2. [pc |-> "open", path |-> PublishedFile] \in SearchRow
      BY <3>1 DEF SearchRow
    <3> QED BY <3>1, <3>2
  <2>2. CASE LoadCachedIndex(q)
    <3>1. snapshot[search[q].path] # NoFile
      BY <2>2 DEF LoadCachedIndex, Side, FilesThere
    <3>2. search' = [search EXCEPT ![q] = NoSearch]
      BY <2>2, <3>1 DEF LoadCachedIndex
    <3>3. NoSearch \in SearchRow /\ NoSearch.pc = "idle"
      BY DEF NoSearch, SearchRow
    <3> QED BY <3>2, <3>3
  <2> QED BY <2>1, <2>2
<1>3. IndexTyped' /\ FilesThere'
  BY <1>1, <1>2 DEF Side, IndexTyped, FilesThere, PublishedFile, PathOf
<1>4. FilesOwned' /\ IndexOrder'
  BY <1>1 DEF Side, FilesOwned, IndexOrder, Busy, Doing, BuildsFor, PathOf
<1>5. Forward
  BY <1>1, IndexNumbers DEF Forward
<1> QED BY <1>3, <1>4, <1>5 DEF Side

----------------------------------------------------------------------------
(* What the snapshots cover.                                               *)

\* The index is marked dirty: nothing that is built or published is up to date.
LEMMA MarkCovers ==
    ASSUME Side, MarkIndexDirty, builder' = builder
    PROVE  Covered'
<1>1. index'.dirty = index.dirty + 1 /\ index'.published = index.published
  BY DEF MarkIndexDirty, Side, IndexTyped, IndexRow
<1>2. \A x \in IndexWorkers : Busy(x) => builder[x].gen # index'.dirty
  BY <1>1, IndexNumbers DEF Side, FilesOwned
<1>3. index'.dirty # index'.published
  BY <1>1, IndexNumbers DEF Side, IndexOrder
<1> QED BY <1>2, <1>3 DEF Covered, Busy, Doing

\* The index, its builds and its files are left alone.
LEMMA SameCovers ==
    ASSUME Covered, UNCHANGED <<builder, snapshot>>,
           index'.dirty = index.dirty, index'.published = index.published,
           index'.fileEpoch = index.fileEpoch,
           \A found : Covers(found) => Covers(found)'
    PROVE  Covered'
<1>1. \A x \in IndexWorkers : /\ builder'[x] = builder[x]
                              /\ Doing(x, "build")' => Doing(x, "build")
                              /\ Doing(x, "publish")' => Doing(x, "publish")
                              /\ BuildsFor(x)' = BuildsFor(x)
  BY DEF Doing, BuildsFor, PathOf
<1>2. PublishedFile' = PublishedFile
  BY DEF PublishedFile, PathOf
<1> QED BY <1>1, <1>2 DEF Covered, Covers

\* A build begins, ends or goes on.
LEMMA BuildCovers ==
    ASSUME Side, Covered, Forward, NEW x \in IndexWorkers,
           \A y \in IndexWorkers : y # x => builder'[y] = builder[y],
           index'.dirty = index.dirty,
           \A found : Covers(found) => Covers(found)',
           Doing(x, "build")' => Covers(builder'[x].found),
           Doing(x, "publish")' /\ builder'[x].gen = index.dirty
             => Covers(snapshot'[BuildsFor(x)']),
           \/ /\ index'.published = index.published
              /\ index'.fileEpoch = index.fileEpoch
           \/ index'.published = index.dirty => Covers(snapshot'[PublishedFile'])
    PROVE  Covered'
<1>1. ASSUME NEW y \in IndexWorkers, y # x, builder'[y].gen = index'.dirty
      PROVE  /\ Doing(y, "build")' => Covers(builder'[y].found)
             /\ Doing(y, "publish")' => Covers(snapshot'[BuildsFor(y)'])
  <2>1. builder'[y] = builder[y] /\ BuildsFor(y)' = BuildsFor(y)
    BY <1>1 DEF BuildsFor, PathOf
  <2>2. CASE Doing(y, "publish")'
    <3>1. Doing(y, "publish") /\ Busy(y)
      BY <2>1, <2>2 DEF Doing, Busy
    <3>2. BuildsFor(y) \in Paths /\ snapshot[BuildsFor(y)] # NoFile
      BY <3>1, BuildPaths DEF Side, FilesOwned
    <3>3. snapshot'[BuildsFor(y)] = snapshot[BuildsFor(y)]
      BY <3>2 DEF Forward
    <3> QED BY <1>1, <2>1, <2>2, <3>1, <3>3 DEF Covered, Doing
  <2>3. CASE Doing(y, "build")'
    BY <1>1, <2>1, <2>3 DEF Covered, Doing
  <2> QED BY <2>2, <2>3
<1>2. ASSUME index'.published > 0, index'.dirty = index'.published
      PROVE  Covers(snapshot'[PublishedFile'])
  <2>1. CASE /\ index'.published = index.published
             /\ index'.fileEpoch = index.fileEpoch
    <3>1. PublishedFile' = PublishedFile
      BY <2>1 DEF PublishedFile, PathOf
    <3>2. PublishedFile \in Paths /\ snapshot[PublishedFile] # NoFile
      BY <1>2, <2>1 DEF Side, FilesThere
    <3>3. snapshot'[PublishedFile] = snapshot[PublishedFile]
      BY <3>2 DEF Forward
    <3> QED BY <1>2, <2>1, <3>1, <3>3 DEF Covered
  <2> QED BY <1>2, <2>1
<1>3. \A found : Covers(found) => Covers(found)'
  OBVIOUS
<1>4. \A y \in IndexWorkers :
        builder'[y].gen = index'.dirty =>
          /\ Doing(y, "build")' => Covers(builder'[y].found)
          /\ Doing(y, "publish")' => Covers(snapshot'[BuildsFor(y)'])
  BY <1>1
<1> QED BY <1>2, <1>3, <1>4 DEF Covered, Covers

LEMMA IndexStepCovers ==
    ASSUME SearchInv, Forward, NEW x \in IndexWorkers,
           IndexStep(x) \/ IndexCrash(x)
    PROVE  Covered'
<1>1. Side /\ Covered
  BY DEF SearchInv
<1>2. \A found : Covers(found) => Covers(found)'
  <2>1. /\ task' = task /\ relation' = relation /\ evidence' = evidence
        /\ torn' = torn
    BY Zenon
    DEF IndexStep, IndexCrash, ClaimDirtyIndex, LoadActiveVectors,
        BuildSnapshot, PublishIndexGeneration, FailIndexGeneration, vars,
        knowledge, history, queue
  <2> QED BY <2>1 DEF Covers, ActiveChunks, Usable, Removed, Excused
<1>3. index \in IndexRow /\ builder \in [IndexWorkers -> BuildRow]
      /\ snapshot \in [Paths -> Snapshots]
  BY <1>1 DEF Side, IndexTyped
<1>4. CASE ClaimDirtyIndex(x)
  <2>1. /\ index'.dirty = index.dirty /\ index'.published = index.published
        /\ index'.fileEpoch = index.fileEpoch
    BY <1>3, <1>4 DEF ClaimDirtyIndex, IndexRow
  <2>2. /\ builder'[x].pc = "load"
        /\ \A y \in IndexWorkers : y # x => builder'[y] = builder[y]
    BY <1>3, <1>4 DEF ClaimDirtyIndex
  <2> QED BY <1>1, <1>2, <2>1, <2>2, BuildCovers DEF Doing
<1>5. CASE LoadActiveVectors(x)
  <2>1. index' = index
    BY <1>5 DEF LoadActiveVectors
  <2>2. /\ \/ builder'[x].pc = "build" /\ builder'[x].found = Active
           \/ builder'[x].pc = "fail"
        /\ \A y \in IndexWorkers : y # x => builder'[y] = builder[y]
    BY <1>3, <1>5 DEF LoadActiveVectors, Step, BuildRow
  <2>3. Covers(Active)
    BY DEF Covers, Active
  <2> QED BY <1>1, <1>2, <2>1, <2>2, <2>3, BuildCovers DEF Doing
<1>6. CASE BuildSnapshot(x)
  <2>1. index' = index /\ Doing(x, "build") /\ Busy(x)
    BY <1>6 DEF BuildSnapshot, Doing, Busy
  <2>2. /\ builder'[x].pc \in {"publish", "fail"}
        /\ builder'[x].gen = builder[x].gen
        /\ BuildsFor(x)' = BuildsFor(x)
        /\ \A y \in IndexWorkers : y # x => builder'[y] = builder[y]
    BY <1>3, <1>6 DEF BuildSnapshot, Step, BuildRow, BuildsFor, PathOf
  <2>3. builder'[x].pc = "publish" => snapshot'[BuildsFor(x)] = builder[x].found
    <3>1. BuildsFor(x) \in Paths
      BY <1>1, <2>1, BuildPaths
    <3>2. CASE snapshot' = [snapshot EXCEPT ![BuildsFor(x)] = builder[x].found]
      BY <1>3, <3>1, <3>2
    <3>3. CASE Step(x, "fail")
      BY <1>3, <3>3 DEF Step, BuildRow
    <3> QED BY <1>6, <3>2, <3>3 DEF BuildSnapshot, BuildsFor
  <2>4. builder[x].gen = index.dirty => Covers(builder[x].found)
    BY <1>1, <2>1 DEF Covered
  <2>5. Doing(x, "publish")' /\ builder'[x].gen = index.dirty
        => Covers(snapshot'[BuildsFor(x)'])
    BY <2>2, <2>3, <2>4 DEF Doing
  <2> QED BY <1>1, <1>2, <2>1, <2>2, <2>5, BuildCovers DEF Doing
<1>7. CASE PublishIndexGeneration(x)
  <2>1. snapshot' = snapshot /\ Doing(x, "publish")
    BY <1>7 DEF PublishIndexGeneration
  <2>2. /\ builder'[x].pc \in {"idle", "fail"}
        /\ \A y \in IndexWorkers : y # x => builder'[y] = builder[y]
    BY <1>3, <1>7 DEF PublishIndexGeneration, Step, NoBuild, BuildRow
  <2>3. CASE MayPublish(x)
    <3>1. /\ index'.published = builder[x].gen /\ index'.dirty = index.dirty
          /\ PublishedFile' = BuildsFor(x)
      BY <1>3, <1>7, <2>3
      DEF PublishIndexGeneration, PublishedRow, IndexRow, PublishedFile,
          PathOf, BuildsFor
    <3>2. index'.published = index.dirty => Covers(snapshot'[PublishedFile'])
      BY <1>1, <2>1, <3>1 DEF Covered
    <3> QED BY <1>1, <1>2, <2>2, <3>1, <3>2, BuildCovers DEF Doing
  <2>4. CASE ~MayPublish(x)
    <3>1. index' = index
      BY <1>7, <2>4 DEF PublishIndexGeneration
    <3> QED BY <1>1, <1>2, <2>2, <3>1, BuildCovers DEF Doing
  <2> QED BY <2>3, <2>4
<1>8. CASE FailIndexGeneration(x) \/ IndexCrash(x)
  <2>1. /\ index'.dirty = index.dirty /\ index'.published = index.published
        /\ index'.fileEpoch = index.fileEpoch
    BY <1>3, <1>8 DEF FailIndexGeneration, IndexCrash, IndexRow
  <2>2. /\ builder'[x].pc = "idle"
        /\ \A y \in IndexWorkers : y # x => builder'[y] = builder[y]
    BY <1>3, <1>8 DEF FailIndexGeneration, IndexCrash, NoBuild
  <2> QED BY <1>1, <1>2, <2>1, <2>2, BuildCovers DEF Doing
<1> QED BY <1>4, <1>5, <1>6, <1>7, <1>8 DEF IndexStep

----------------------------------------------------------------------------
(* All steps.                                                              *)

LEMMA BaseStepKeeps ==
    ASSUME SearchInv, Around \/ \E w \in Workers : Work(w) \/ TornWork(w)
    PROVE  SearchInv' /\ Forward
<1>1. BInv /\ Held /\ Side /\ Covered
  BY DEF SearchInv
<1>2. /\ [Next]_vars
      /\ UNCHANGED <<builder, snapshot, search>>
      /\ \/ MarkIndexDirty
         \/ /\ index' = index
            /\ \/ Other
               \/ \E w \in Workers : \/ WorkerStep(w) /\ ~Republishes(w)
                                   \/ Tearing(w)
  <2>1. CASE Around \/ \E w \in Workers : Work(w)
    BY <2>1, Zenon DEF Around, Work, Next, Other, indexVars
  <2>2. ASSUME NEW w \in Workers, TornWork(w)
        PROVE  /\ Tearing(w)
               /\ UNCHANGED <<builder, snapshot, search>>
               /\ MarkIndexDirty \/ index' = index
    BY <2>2, Zenon DEF TornWork, Tearing, TornStep
  <2> QED BY <2>1, <2>2, Zenon DEF Next, Tearing
<1>3. BInv' /\ Held'
  BY <1>1, <1>2, BInvKept, HeldKeeps
<1>4. Side' /\ Forward
  BY <1>1, <1>2, RowKeeps
<1>5. Covered'
  <2>1. CASE MarkIndexDirty
    BY <1>1, <1>2, <2>1, MarkCovers
  <2>2. CASE /\ index' = index
             /\ \/ Other
                \/ \E w \in Workers : \/ WorkerStep(w) /\ ~Republishes(w)
                                    \/ Tearing(w)
    <3>1. \A found : Covers(found) => Covers(found)'
      BY <1>1, <1>2, <2>2, CoversStays
    <3> QED BY <1>1, <1>2, <2>2, <3>1, SameCovers
  <2> QED BY <1>2, <2>1, <2>2
<1> QED BY <1>3, <1>4, <1>5 DEF SearchInv

\* The steps beside the knowledge base leave its tables alone.
LEMMA BesideKeeps ==
    ASSUME BInv, Held, UNCHANGED <<queue, knowledge, work>>,
           budget' = budget \/ Fault
    PROVE  BInv' /\ Held' /\ \A found : Covers(found) => Covers(found)'
<1>1. /\ task' = task /\ relation' = relation /\ evidence' = evidence
      /\ torn' = torn
  BY DEF queue, knowledge, history
<1>2. Held'
  BY <1>1 DEF Held, EmptyRows, PublishedHeld, Removed, Excused
<1>3. \A found : Covers(found) => Covers(found)'
  BY <1>1 DEF Covers, ActiveChunks, Usable, Removed, Excused
<1> QED BY <1>2, <1>3, FaultKeeps

LEMMA SearchInvKept ==
    ASSUME SearchInv, [SearchNext]_allVars
    PROVE  SearchInv' /\ Forward
<1>1. BInv /\ Held /\ Side /\ Covered
  BY DEF SearchInv
<1>2. CASE Around \/ \E w \in Workers : Work(w) \/ TornWork(w)
  BY <1>2, BaseStepKeeps
<1>3. ASSUME NEW x \in IndexWorkers, IndexStep(x) \/ IndexCrash(x)
      PROVE  SearchInv' /\ Forward
  <2>1. UNCHANGED <<queue, knowledge, work>> /\ (budget' = budget \/ Fault)
    BY <1>3, Zenon
    DEF IndexStep, IndexCrash, ClaimDirtyIndex, LoadActiveVectors,
        BuildSnapshot, PublishIndexGeneration, FailIndexGeneration, vars
  <2>2. Side' /\ Forward
    BY <1>1, <1>3, ClaimSide, LoadSide, BuildSide, PublishSide, LeaveSide
    DEF IndexStep
  <2>3. Covered'
    BY <1>3, <2>2, IndexStepCovers
  <2> QED BY <1>1, <2>1, <2>2, <2>3, BesideKeeps DEF SearchInv
<1>4. CASE Rebuild
  <2>1. /\ UNCHANGED <<queue, knowledge, work>> /\ Fault
        /\ MarkIndexDirty /\ UNCHANGED <<builder, snapshot, search>>
    BY <1>4 DEF Rebuild
  <2> QED BY <1>1, <2>1, RowKeeps, MarkCovers, BesideKeeps DEF SearchInv
<1>5. CASE IndexLeaseExpires
  <2>1. /\ UNCHANGED <<queue, knowledge, work>> /\ (budget' = budget \/ Fault)
        /\ index' = [index EXCEPT !.lease = "expired"]
        /\ UNCHANGED <<builder, snapshot, search>>
    BY <1>5 DEF IndexLeaseExpires
  <2>2. Side' /\ Forward
    BY <1>1, <2>1, RowKeeps
  <2>3. /\ index'.dirty = index.dirty /\ index'.published = index.published
        /\ index'.fileEpoch = index.fileEpoch
    BY <1>1, <2>1 DEF Side, IndexTyped, IndexRow
  <2>4. BInv' /\ Held' /\ \A found : Covers(found) => Covers(found)'
    BY <1>1, <2>1, BesideKeeps
  <2>5. Covered'
    BY <1>1, <2>1, <2>3, <2>4, SameCovers
  <2> QED BY <2>2, <2>4, <2>5 DEF SearchInv
<1>6. ASSUME NEW q \in Searches, LoadIndexState(q) \/ LoadCachedIndex(q)
      PROVE  SearchInv' /\ Forward
  <2>1. /\ UNCHANGED <<queue, knowledge, work>> /\ budget' = budget
        /\ index' = index /\ UNCHANGED <<builder, snapshot>>
    BY <1>6 DEF LoadIndexState, LoadCachedIndex, vars
  <2>2. BInv' /\ Held' /\ \A found : Covers(found) => Covers(found)'
    BY <1>1, <2>1, BesideKeeps
  <2>3. Covered'
    BY <1>1, <2>1, <2>2, SameCovers
  <2> QED BY <1>1, <1>6, <2>2, <2>3, SearchSide DEF SearchInv
<1>7. CASE UNCHANGED allVars
  <2>1. UNCHANGED vars /\ UNCHANGED indexVars
    BY <1>7 DEF allVars
  <2>2. /\ UNCHANGED <<queue, knowledge, work>> /\ budget' = budget
        /\ index' = index /\ UNCHANGED <<builder, snapshot, search>>
    BY <2>1 DEF vars, indexVars
  <2>3. BInv' /\ Held' /\ \A found : Covers(found) => Covers(found)'
    BY <1>1, <2>2, BesideKeeps
  <2>4. Covered'
    BY <1>1, <2>2, <2>3, SameCovers
  <2>5. Side' /\ Forward
    BY <1>1, <2>2, RowKeeps
  <2> QED BY <2>3, <2>4, <2>5 DEF SearchInv
<1> QED BY <1>2, <1>3, <1>4, <1>5, <1>6, <1>7, Zenon DEF SearchNext

LEMMA SearchInvariant == SearchSpec => []SearchInv
<1>1. SearchInv /\ [SearchNext]_allVars => SearchInv'
  BY SearchInvKept
<1> QED BY <1>1, SearchBegins, PTL DEF SearchSpec

----------------------------------------------------------------------------
(* The theorems.                                                           *)

\* A search never finds its index unavailable: the pair it read names a file
\* that was there then and is there when it is opened.
THEOREM SearchesFindIndex == SearchSpec => []SearchAvailable
<1>1. SearchInv => SearchAvailable
  BY DEF SearchInv, Side, IndexTyped, SearchRow, SearchAvailable
<1> QED BY <1>1, SearchInvariant, PTL

\* The index covers every chunk of a file that was never removed, as soon as
\* it is up to date, unless a transaction of the file was torn.
THEOREM IndexIsComplete == SearchSpec => []IndexCovers
<1>1. SearchInv => IndexCovers
  <2> SUFFICES ASSUME SearchInv, index.published > 0,
                      index.dirty = index.published
               PROVE  \A c \in ActiveChunks :
                        \/ c \in Found(PublishedFile)
                        \/ Removed(c[1]) \/ c[1] \in torn
    BY DEF IndexCovers
  <2>1. Covers(snapshot[PublishedFile]) /\ snapshot[PublishedFile] # NoFile
    BY DEF SearchInv, Covered, Side, FilesThere
  <2> QED BY <2>1 DEF Covers, Excused, Found
<1> QED BY <1>1, SearchInvariant, PTL

\* A published snapshot never changes and the index never goes back, although
\* a builder that lost its lease may be at work on a file all the while.
THEOREM IndexGoesForward == SearchSpec => IndexForward
<1>1. SearchInv /\ [SearchNext]_allVars =>
        [/\ index'.published >= index.published
         /\ \A f \in Paths :
              snapshot[f] # NoFile => snapshot'[f] = snapshot[f]]_allVars
  BY SearchInvKept DEF Forward
<1> QED BY <1>1, SearchInvariant, PTL DEF SearchSpec, IndexForward
=============================================================================
