-------------------------- MODULE KnowledgeSearch --------------------------
(***************************************************************************)
(* The knowledge base with its vector index and searches over it.  The     *)
(* index is a file per published generation: a transaction that changes    *)
(* what can be found marks the user's index dirty, knowledge_index_worker  *)
(* claims the dirty generation under a lease, loads the active vectors,    *)
(* writes a snapshot file that nobody touches again, and publishes its     *)
(* generation and lease epoch, which name the file.  A search reads the    *)
(* published pair, loads that file and asks MySQL which of its hits are    *)
(* still there to be shown.                                                *)
(*                                                                         *)
(* A snapshot is the set of what it finds: the chunks of a generation, or  *)
(* a page's revision.  The calls between a knowledge worker and the store  *)
(* are those of KnowledgeBase; MarkIndexDirty is part of three of them.    *)
(***************************************************************************)
EXTENDS KnowledgeBase

CONSTANTS
    IndexWorkers,       \* index worker processes
    Searches,           \* searches in progress
    MaxDirty, MaxBuild, \* bounds on dirty_generation and the lease epoch
    NoBuilder, NoFile

\* What a snapshot may hold: chunks, by generation, and revisions of pages.
Entries == Evidence \cup (Pages \X (0..MaxRev))

ASSUME IndexAssumption ==
    /\ MaxDirty \in Nat \ {0}
    /\ MaxBuild \in Nat \ {0}
    /\ NoBuilder \notin IndexWorkers
    /\ \A found \in SUBSET Entries : found # NoFile

VARIABLES
    index,    \* the user's row of knowledge_index_state
    builder,  \* what each index worker holds in memory
    snapshot, \* the files vectors.<generation>.<epoch>.faiss
    search    \* what each search holds in memory

indexVars == <<index, builder, snapshot, search>>
allVars == <<vars, indexVars>>

Paths == (1..MaxDirty) \X (1..MaxBuild)
NoBuild == [pc |-> "idle", gen |-> 0, epoch |-> 0, found |-> {}]
NoSearch == [pc |-> "idle", path |-> <<0, 0>>]

\* A base with files starts with their index built.
IndexInit ==
    /\ index = [dirty |-> IF relation = {} THEN 0 ELSE 1,
                published |-> IF relation = {} THEN 0 ELSE 1,
                fileEpoch |-> IF relation = {} THEN 0 ELSE 1,
                epoch |-> IF relation = {} THEN 0 ELSE 1,
                worker |-> NoBuilder, lease |-> "none"]
    /\ builder = [x \in IndexWorkers |-> NoBuild]
    /\ search = [q \in Searches |-> NoSearch]

\* What LoadActiveVectors and LoadSearchHydration let through.
ActiveChunks ==
    {c \in Evidence : Usable(c) /\ evidence[c[1]][c[2]].vectors}
ActivePages ==
    {<<p, page[p].rev>> : p \in {q \in Pages : Valid(q)}}
Active == ActiveChunks \cup ActivePages

SearchInit ==
    /\ Init
    /\ IndexInit
    /\ snapshot = [f \in Paths |->
                     IF f = <<1, 1>> /\ relation # {} THEN Active ELSE NoFile]

----------------------------------------------------------------------------
(* MarkIndexDirty, inside the transactions that change what can be found   *)
(* and for the rebuild command.                                            *)

\* A knowledge worker commits such a transaction.
Republishes(w) ==
    \/ InTransaction(w, "publish")
    \/ InTransaction(w, "delete")
    \/ At(w, "cite") /\ Fenced(w) /\ (work[w].page = {} \/ page' # page)

MarkIndexDirty ==
    /\ index.dirty < MaxDirty
    /\ index' = [index EXCEPT !.dirty = @ + 1]

\* Mutant of Work: the publication of evidence forgets the index.
WorkForgetful(w) ==
    /\ WorkerStep(w)
    /\ IF Republishes(w) /\ ~At(w, "embed") THEN MarkIndexDirty
                                            ELSE UNCHANGED index
    /\ UNCHANGED <<builder, snapshot, search>>

Work(w) ==
    /\ WorkerStep(w)
    /\ IF Republishes(w) THEN MarkIndexDirty ELSE UNCHANGED index
    /\ UNCHANGED <<builder, snapshot, search>>

\* The mark is a statement of the transaction, after the look at the lease: one
\* that is torn ends with it or has lost it.
TornWork(w) ==
    /\ \/ (EndEvidence(w) \/ EndPatch(w)) /\ (MarkIndexDirty \/ UNCHANGED index)
       \/ /\ Lose(w) \/ RunEvidence(w) \/ RunPatch(w) \/ Fails(w)
          /\ UNCHANGED index
    /\ UNCHANGED <<builder, snapshot, search>>

Around ==
    /\ \/ UserNext
       \/ \E w \in Workers : Crash(w) \/ Stall(w)
       \/ \E i \in TaskIds : LeaseRunsOut(i) \/ BecomesDue(i)
    /\ UNCHANGED indexVars

Rebuild ==
    /\ Fault
    /\ MarkIndexDirty
    /\ UNCHANGED <<queue, knowledge, work, builder, snapshot, search>>

----------------------------------------------------------------------------
(* knowledge_index_worker.                                                 *)

Step(x, pc) == builder' = [builder EXCEPT ![x].pc = pc]
Doing(x, pc) == builder[x].pc = pc

\* Mutant of ClaimDirtyIndex: only an index that was given back is claimed.
ClaimReturned(x) ==
    /\ Doing(x, "idle")
    /\ index.dirty > index.published
    /\ index.lease = "none"
    /\ index.epoch < MaxBuild
    /\ index' = [index EXCEPT !.worker = x, !.lease = "live",
                              !.epoch = @ + 1]
    /\ builder' = [builder EXCEPT ![x] =
                     [pc |-> "load", gen |-> index.dirty,
                      epoch |-> index.epoch + 1, found |-> {}]]
    /\ UNCHANGED <<vars, snapshot, search>>

ClaimDirtyIndex(x) ==
    /\ Doing(x, "idle")
    /\ index.dirty > index.published
    /\ index.lease # "live"
    /\ index.epoch < MaxBuild
    /\ index' = [index EXCEPT !.worker = x, !.lease = "live",
                              !.epoch = @ + 1]
    /\ builder' = [builder EXCEPT ![x] =
                     [pc |-> "load", gen |-> index.dirty,
                      epoch |-> index.epoch + 1, found |-> {}]]
    /\ UNCHANGED <<vars, snapshot, search>>

LoadActiveVectors(x) ==
    /\ Doing(x, "load")
    /\ \/ builder' = [builder EXCEPT ![x] =
                        [@ EXCEPT !.pc = "build", !.found = Active]]
          /\ UNCHANGED budget
       \/ Step(x, "fail") /\ Fault
    /\ UNCHANGED <<queue, knowledge, work, index, snapshot, search>>

\* Mutant of PathOf: the file is named for its generation alone.
PathOfGeneration(gen, epoch) == <<gen, 1>>

PathOf(gen, epoch) == <<gen, epoch>>

\* The file is written under another name, synced and renamed.
BuildSnapshot(x) ==
    /\ Doing(x, "build")
    /\ \/ /\ snapshot' = [snapshot EXCEPT
                ![PathOf(builder[x].gen, builder[x].epoch)] = builder[x].found]
          /\ Step(x, "publish")
          /\ UNCHANGED budget
       \/ Step(x, "fail") /\ Fault /\ UNCHANGED snapshot
    /\ UNCHANGED <<queue, knowledge, work, index, search>>

HoldsIndex(x) == index.worker = x /\ index.epoch = builder[x].epoch

\* Mutant of PublishedRow: what is dirty now is taken for what was built.
PublishedNow(x) ==
    [index EXCEPT !.published = index.dirty, !.fileEpoch = builder[x].epoch,
                  !.worker = NoBuilder, !.lease = "none"]

PublishedRow(x) ==
    [index EXCEPT !.published = builder[x].gen, !.fileEpoch = builder[x].epoch,
                  !.worker = NoBuilder, !.lease = "none"]

\* Mutant of MayPublish: no fence.
AnyonePublishes(x) == index.dirty >= builder[x].gen

MayPublish(x) ==
    /\ HoldsIndex(x)
    /\ index.lease = "live"
    /\ index.dirty >= builder[x].gen

PublishIndexGeneration(x) ==
    /\ Doing(x, "publish")
    /\ IF MayPublish(x)
       THEN index' = PublishedRow(x) /\ builder' = [builder EXCEPT ![x] = NoBuild]
       ELSE Step(x, "fail") /\ UNCHANGED index
    /\ UNCHANGED <<vars, snapshot, search>>

\* The lease need not be live to be given back.
FailIndexGeneration(x) ==
    /\ Doing(x, "fail")
    /\ index' = IF HoldsIndex(x) /\ index.dirty >= builder[x].gen
                THEN [index EXCEPT !.worker = NoBuilder, !.lease = "none"]
                ELSE index
    /\ builder' = [builder EXCEPT ![x] = NoBuild]
    /\ UNCHANGED <<vars, snapshot, search>>

IndexCrash(x) ==
    /\ Fault
    /\ ~Doing(x, "idle")
    /\ builder' = [builder EXCEPT ![x] = NoBuild]
    /\ UNCHANGED <<queue, knowledge, work, index, snapshot, search>>

\* Ten minutes pass: over a worker that is gone, or over one that stalls.
IndexLeaseExpires ==
    /\ index.lease = "live"
    /\ \/ UNCHANGED budget /\ \A x \in IndexWorkers : Doing(x, "idle") \/ ~HoldsIndex(x)
       \/ Fault
    /\ index' = [index EXCEPT !.lease = "expired"]
    /\ UNCHANGED <<queue, knowledge, work, builder, snapshot, search>>

----------------------------------------------------------------------------
(* HandleSearch, once the query is embedded.                               *)

PublishedFile == PathOf(index.published, index.fileEpoch)

LoadIndexState(q) ==
    /\ search[q].pc = "idle"
    /\ index.published > 0
    /\ search' = [search EXCEPT ![q] = [pc |-> "open", path |-> PublishedFile]]
    /\ UNCHANGED <<vars, index, builder, snapshot>>

\* LoadCachedIndex: the file, or the copy of it this process holds, which is
\* the same because a file never changes.  A search that finds none answers
\* "index unavailable"; one that does shows those of its hits that are Active.
LoadCachedIndex(q) ==
    /\ search[q].pc = "open"
    /\ search' = [search EXCEPT ![q] =
                    IF snapshot[search[q].path] = NoFile
                    THEN [@ EXCEPT !.pc = "unavailable"] ELSE NoSearch]
    /\ UNCHANGED <<vars, index, builder, snapshot>>

----------------------------------------------------------------------------
IndexStep(x) ==
    \/ ClaimDirtyIndex(x) \/ LoadActiveVectors(x) \/ BuildSnapshot(x)
    \/ PublishIndexGeneration(x) \/ FailIndexGeneration(x)

SearchNext ==
    \/ \E w \in Workers : Work(w) \/ TornWork(w)
    \/ Around \/ Rebuild
    \/ \E x \in IndexWorkers : IndexStep(x) \/ IndexCrash(x)
    \/ IndexLeaseExpires
    \/ \E q \in Searches :
         LoadIndexState(q) \/ LoadCachedIndex(q)

SearchSpec == SearchInit /\ [][SearchNext]_allVars

\* The worker processes run on (start.sh starts one again when it ends), time
\* passes, and a transaction that was opened ends.
Working(w) ==
    \/ Work(w)
    \/ TornWork(w) /\ (At(w, "torn") \/ At(w, "torn patch")) /\ UNCHANGED budget
FairSearchSpec ==
    /\ SearchSpec
    /\ \A w \in Workers : WF_allVars(Working(w))
    /\ \A i \in TaskIds :
         /\ WF_allVars(LeaseRunsOut(i) /\ UNCHANGED indexVars)
         /\ WF_allVars(BecomesDue(i) /\ UNCHANGED indexVars)
    /\ \A s \in Sources : WF_allVars(UploadCommit(s) /\ UNCHANGED indexVars)
    /\ \A x \in IndexWorkers : WF_allVars(IndexStep(x))
    /\ WF_allVars(IndexLeaseExpires)

----------------------------------------------------------------------------
Found(f) == IF snapshot[f] = NoFile THEN {} ELSE snapshot[f]

\* The user has removed the file at some time.
Removed(s) == \E i \in TaskIds : task[i].key = <<s, "delete_source">>

\* An index that is up to date finds every chunk of a file that was never
\* removed, whatever was published while a snapshot was being built or its
\* builder stalled.  One that was removed may come back while the task that
\* parsed it is about to end: no task is added then and no build is asked for,
\* and an index built in between does without its chunks.  A source one of whose
\* transactions was torn by a lost connection is excepted: its evidence may be
\* published without the mark.
IndexCovers ==
    (index.published > 0 /\ index.dirty = index.published) =>
        \A c \in ActiveChunks :
            c \in Found(PublishedFile) \/ Removed(c[1]) \/ c[1] \in torn

\* A search never finds its index unavailable (architecture-workflows.md:356:
\* while an index is built, searches go on reading the published one).
SearchAvailable == \A q \in Searches : search[q].pc # "unavailable"

\* A snapshot that was published never changes under the searches that have it
\* open or cached, and a search never goes back to an older index.
IndexForward ==
    [][/\ index'.published >= index.published
       /\ \A f \in Paths :
            snapshot[f] # NoFile => snapshot'[f] = snapshot[f]]_allVars

\* An index that is dirty is rebuilt: however builds fail, crash or stall, it
\* is up to date again some time after the changes end.
IndexSettles ==
    []<>(index.dirty = index.published)
=============================================================================
