--------------------------- MODULE MetadataStore ---------------------------
(***************************************************************************)
(* The V2 metadata store: the MySQL tables of docker/mysql/hydra_v2.sql    *)
(* and the transactions of common/storage_metadata_store.cpp over them.    *)
(*                                                                         *)
(* Every public method of the class MetadataStore runs one transaction, so *)
(* a committed call is one atomic step here and a call that is rolled back *)
(* (a failed guard, a deadlock victim, a lost connection) leaves every     *)
(* table as it was.  The methods take their arguments from the network, so *)
(* Next lets any caller make any call at any time with any upload, part,   *)
(* lease epoch and backend file; the gateway and the GC worker that make   *)
(* them in a particular order are in the module ObjectStore.               *)
(*                                                                         *)
(* Time is abstracted to what the guards compare: a lease is live until    *)
(* LeaseExpires makes it expired, and the deadlines that only enable a     *)
(* worker's scan (expires_at, gc_after, next_retry_at, updated_at of a     *)
(* DELETING row) are the worker's free choice of a subset of the rows.     *)
(***************************************************************************)
EXTENDS Integers, Sequences, FiniteSets

CONSTANTS
    Users, Names, Digests,  \* accounts, file names, content digests (md5)
    Chunks,                 \* chunk keys: the unique pair (sha256, size)
    Files,                  \* declared contents: a digest and a chunk layout
    Uploads,                \* upload_session ids
    Backends,               \* FastDFS file ids
    DigestOf, LayoutOf,     \* [Files -> Digests], [Files -> Seq(Chunks)]
    UserOf, NameOf, FileOf, \* what each upload session declared when opened
    LegacyRelations,        \* user_file_list rows that predate V2
    NoUpload, NoBackend, NoFile,
    MaxEpoch                \* bound on lease_epoch

ASSUME StoreAssumption ==
    /\ DigestOf \in [Files -> Digests]
    /\ LayoutOf \in [Files -> Seq(Chunks)]
    /\ UserOf \in [Uploads -> Users]
    /\ NameOf \in [Uploads -> Names]
    /\ FileOf \in [Uploads -> Files]
    /\ LegacyRelations \subseteq Users \X Digests \X Names
    /\ IsFiniteSet(LegacyRelations)
    /\ NoUpload \notin Uploads
    /\ NoBackend \notin Backends
    /\ NoFile \notin Files
    /\ MaxEpoch \in Nat
    /\ IsFiniteSet(Digests)

VARIABLES
    session,     \* upload_session.state, "NONE" when there is no row
    part,        \* upload_part rows of each session
    chunk,       \* chunk_blob rows
    file,        \* file_info with its object_manifest and manifest_chunk rows
    relation,    \* user_file_list: <<user, digest, name>>
    userCount,   \* user_file_count of each user
    shared,      \* share_file_list: <<user, digest, name>>
    publicCount, \* user_file_count of FILE_PUBLIC_COUNT
    tasks        \* queued rows of ai_parse_task: <<user, digest, type>>

ownership == <<relation, userCount, shared, publicCount, tasks>>
tables == <<session, part, chunk, file, ownership>>

Index == UNION {DOMAIN LayoutOf[f] : f \in Files}
Parts(u) == DOMAIN LayoutOf[FileOf[u]]
ChunkOf(u, i) == LayoutOf[FileOf[u]][i]
ChunksOf(f) == {LayoutOf[f][i] : i \in DOMAIN LayoutOf[f]}

ActiveStates == {"INIT", "UPLOADING", "COMMITTING"}
SessionStates == ActiveStates \cup {"NONE", "COMMITTED", "ABORTED", "EXPIRED"}
ChunkStates ==
    {"NONE", "UPLOADING", "READY", "GC_PENDING", "DELETING", "FAILED"}

\* A missing row of chunk_blob, with the values its columns default to.
NoChunkRow == [state |-> "NONE", backend |-> NoBackend, ref |-> 0,
               owner |-> NoUpload, lease |-> "none", epoch |-> 0,
               gcAfter |-> FALSE]
NoPartRow == [state |-> "NONE", bound |-> FALSE]
NoFileRow == [mode |-> "none", count |-> 0, source |-> NoFile]

ChunkRow == [state : ChunkStates, backend : Backends \cup {NoBackend},
             ref : Nat, owner : Uploads \cup {NoUpload},
             lease : {"none", "live", "expired"}, epoch : 0..MaxEpoch,
             gcAfter : BOOLEAN]
PartRow == [state : {"NONE", "MISSING", "UPLOADING", "READY"},
            bound : BOOLEAN]
FileRow == [mode : {"none", "manifest", "legacy"}, count : Nat,
            source : Files \cup {NoFile}]
Relations == Users \X Digests \X Names
Tasks == Users \X Digests \X {"parse_source", "delete_source"}

RelationsOf(d) == {r \in relation : r[2] = d}
LegacyOf(d) == {r \in LegacyRelations : r[2] = d}
OwnedBy(user) == {r \in relation : r[1] = user}

Init ==
    /\ session = [u \in Uploads |-> "NONE"]
    /\ part = [u \in Uploads |-> [i \in Index |-> NoPartRow]]
    /\ chunk = [c \in Chunks |-> NoChunkRow]
    /\ file = [d \in Digests |->
                 IF LegacyOf(d) = {} THEN NoFileRow
                 ELSE [mode |-> "legacy", count |-> Cardinality(LegacyOf(d)),
                       source |-> NoFile]]
    /\ relation = LegacyRelations
    /\ userCount = [user \in Users |->
                      Cardinality({r \in LegacyRelations : r[1] = user})]
    /\ shared = {}
    /\ publicCount = 0
    /\ tasks = {}

----------------------------------------------------------------------------
(* Opening a session: InitOrResume.                                        *)

\* The row a session is left with after it declared a part of this chunk: a
\* missing row is inserted, its own reservation renewed, an expired one taken
\* over, a row waiting for GC revived, and any other row only referred to.
Bumps(row, u) ==
    \/ row.state = "UPLOADING" /\ row.owner # u /\ row.lease # "live"
    \/ row.state \in {"GC_PENDING", "FAILED"}

Reserved(row, u) ==
    CASE row.state = "NONE" ->
           [NoChunkRow EXCEPT !.state = "UPLOADING", !.owner = u,
                              !.lease = "live"]
      [] row.state = "UPLOADING" /\ row.owner = u ->
           [row EXCEPT !.lease = "live"]
      [] Bumps(row, u) ->
           [row EXCEPT !.state = "UPLOADING", !.owner = u, !.lease = "live",
                       !.epoch = @ + 1]
      [] OTHER -> row

\* Mutant of Reservable: a row that GC holds is bound to like any other.
ReservableByGc(row, u) ==
    /\ row.state \in {"GC_PENDING", "FAILED"} => row.ref = 0
    /\ Bumps(row, u) => row.epoch < MaxEpoch

Reservable(row, u) ==
    /\ row.state # "DELETING"
    /\ row.state \in {"GC_PENDING", "FAILED"} => row.ref = 0
    /\ Bumps(row, u) => row.epoch < MaxEpoch

RelationOf(u) == <<UserOf[u], DigestOf[FileOf[u]], NameOf[u]>>
New(u) == RelationOf(u) \notin relation

\* Mutant of AddRelation: an INSERT IGNORE that inserted nothing is counted.
AddRelationAgain(u) ==
    /\ relation' = relation \cup {RelationOf(u)}
    /\ userCount' = [userCount EXCEPT ![UserOf[u]] = @ + 1]

\* A relation is counted for its user when it is inserted, not when it was
\* there already.
AddRelation(u) ==
    /\ relation' = relation \cup {RelationOf(u)}
    /\ userCount' = [userCount EXCEPT ![UserOf[u]] =
                       IF New(u) THEN @ + 1 ELSE @]

\* Mutant of InstantHit: the new relation is not counted in file_info.
InstantHitUncounted(u) ==
    /\ session[u] = "NONE"
    /\ file[DigestOf[FileOf[u]]].mode # "none"
    /\ \E r \in relation : r[1] = UserOf[u] /\ r[2] = DigestOf[FileOf[u]]
    /\ session' = [session EXCEPT ![u] = "COMMITTED"]
    /\ AddRelation(u)
    /\ UNCHANGED <<part, chunk, file, shared, publicCount, tasks>>

\* A digest the user already owns is committed at once, without its parts.
InstantHit(u) ==
    LET d == DigestOf[FileOf[u]]
    IN  /\ session[u] = "NONE"
        /\ file[d].mode # "none"
        /\ \E owned \in relation : owned[1] = UserOf[u] /\ owned[2] = d
        /\ session' = [session EXCEPT ![u] = "COMMITTED"]
        /\ AddRelation(u)
        /\ file' = [file EXCEPT ![d].count = IF New(u) THEN @ + 1 ELSE @]
        /\ UNCHANGED <<part, chunk, shared, publicCount, tasks>>

\* A session is created or resumed and all its chunks are reserved, or the
\* transaction is rolled back.  A second declaration of one chunk finds the
\* row the first one left and renews it.
InitOrResume(u) ==
    LET row(i) == Reserved(chunk[ChunkOf(u, i)], u)
    IN  /\ session[u] \in {"NONE"} \cup ActiveStates
        /\ \A i \in Parts(u) : Reservable(chunk[ChunkOf(u, i)], u)
        /\ session' = [session EXCEPT ![u] =
                         IF @ = "NONE" THEN "UPLOADING" ELSE @]
        /\ chunk' = [c \in Chunks |-> IF c \in ChunksOf(FileOf[u])
                                      THEN Reserved(chunk[c], u) ELSE chunk[c]]
        /\ part' = [part EXCEPT ![u] = [i \in Index |->
             IF i \notin Parts(u) THEN part[u][i]
             ELSE [bound |-> TRUE,
                   state |-> IF row(i).state = "READY" THEN "READY"
                             ELSE "UPLOADING"]]]
        /\ UNCHANGED <<file, ownership>>

----------------------------------------------------------------------------
(* Uploading a part: claim the chunk, record its blob, publish or give up. *)

Bound(u, i) == part[u][i].bound
RowOf(u, i) == chunk[ChunkOf(u, i)]

\* A recorded blob is handed back to the session that owns the row, so that
\* a retry finalizes it instead of storing it a second time.
Recorded(u, i) ==
    /\ RowOf(u, i).state = "UPLOADING"
    /\ RowOf(u, i).owner = u
    /\ RowOf(u, i).backend # NoBackend

\* Another request of the same session is taken to be storing the blob.
InFlight(u, i) ==
    /\ RowOf(u, i).state = "UPLOADING"
    /\ RowOf(u, i).owner = u
    /\ RowOf(u, i).backend = NoBackend
    /\ RowOf(u, i).lease = "live"
    /\ RowOf(u, i).epoch # 0

\* Mutant of Claimable: a row that GC holds may be revived, too.
ClaimableFromGc(u, i) ==
    /\ Bound(u, i)
    /\ RowOf(u, i).ref = 0
    /\ RowOf(u, i).state # "READY"
    /\ ~InFlight(u, i)
    /\ RowOf(u, i).lease # "live" \/ RowOf(u, i).owner = u

Claimable(u, i) ==
    /\ Bound(u, i)
    /\ RowOf(u, i).ref = 0
    /\ RowOf(u, i).state # "READY"
    /\ ~InFlight(u, i)
    /\ \/ Recorded(u, i)
       \/ RowOf(u, i).state \in {"FAILED", "GC_PENDING"}
       \/ /\ RowOf(u, i).state = "UPLOADING"
          /\ RowOf(u, i).owner = u \/ RowOf(u, i).lease # "live"

\* Mutant of Claimed: the new owner works under the epoch of the old one.
ClaimedSameEpoch(row, u) ==
    [row EXCEPT !.state = "UPLOADING", !.owner = u, !.lease = "live",
                !.gcAfter = FALSE]

Claimed(row, u) ==
    [row EXCEPT !.state = "UPLOADING", !.owner = u, !.lease = "live",
                !.epoch = @ + 1, !.gcAfter = FALSE]

ClaimPartUpload(u, i) ==
    LET c == ChunkOf(u, i)
    IN  /\ i \in Parts(u)
        /\ Claimable(u, i)
        /\ IF Recorded(u, i) THEN chunk' = chunk
           ELSE /\ chunk[c].epoch < MaxEpoch
                /\ chunk' = [chunk EXCEPT ![c] = Claimed(chunk[c], u)]
        /\ UNCHANGED <<session, part, file, ownership>>

\* The fence of every later call: the row still has this owner and epoch.
Holds(u, i, epoch) ==
    /\ i \in Parts(u)
    /\ Bound(u, i)
    /\ RowOf(u, i).owner = u
    /\ RowOf(u, i).epoch = epoch

CanRecord(u, i, epoch, backend) ==
    /\ Holds(u, i, epoch)
    /\ RowOf(u, i).state = "UPLOADING"
    /\ RowOf(u, i).ref = 0
    /\ RowOf(u, i).backend # backend

RecordPartBackend(u, i, epoch, backend) ==
    /\ CanRecord(u, i, epoch, backend)
    /\ chunk' = [chunk EXCEPT ![ChunkOf(u, i)].backend = backend]
    /\ UNCHANGED <<session, part, file, ownership>>

CanPublish(u, i, epoch) ==
    /\ Holds(u, i, epoch)
    /\ RowOf(u, i).state = "UPLOADING"

Published(row, backend) ==
    [row EXCEPT !.state = "READY", !.backend = backend, !.owner = NoUpload,
                !.lease = "none"]

MarkPartReady(u, i, epoch, backend) ==
    LET c == ChunkOf(u, i)
    IN  /\ CanPublish(u, i, epoch)
        /\ chunk' = [chunk EXCEPT ![c] = Published(chunk[c], backend)]
        /\ part' = [v \in Uploads |-> [j \in Index |->
             IF j \in Parts(v) /\ Bound(v, j) /\ ChunkOf(v, j) = c
             THEN [part[v][j] EXCEPT !.state = "READY"] ELSE part[v][j]]]
        /\ UNCHANGED <<session, file, ownership>>

CanFail(u, i, epoch) == Holds(u, i, epoch) /\ RowOf(u, i).ref = 0

\* Mutant of Failed: gc_after is not set.
FailedUnscheduled(row, backend) ==
    [row EXCEPT !.state = "GC_PENDING", !.owner = NoUpload, !.lease = "none",
                !.backend = IF backend = NoBackend THEN @ ELSE backend]

\* The row waits for GC with the caller's blob, or the one it had if the
\* caller has none.
Failed(row, backend) ==
    [row EXCEPT !.state = "GC_PENDING", !.owner = NoUpload, !.lease = "none",
                !.gcAfter = TRUE,
                !.backend = IF backend = NoBackend THEN @ ELSE backend]

\* Mutant of MarkPartFailed: upload_part gets a state Init does not know.
MarkPartFailedState(u, i, epoch, backend) ==
    /\ CanFail(u, i, epoch)
    /\ chunk' = [chunk EXCEPT ![ChunkOf(u, i)] = Failed(@, backend)]
    /\ part' = [part EXCEPT ![u][i].state = "FAILED"]
    /\ UNCHANGED <<session, file, ownership>>

MarkPartFailed(u, i, epoch, backend) ==
    LET c == ChunkOf(u, i)
    IN  /\ CanFail(u, i, epoch)
        /\ chunk' = [chunk EXCEPT ![c] = Failed(chunk[c], backend)]
        /\ part' = [part EXCEPT ![u][i].state = "MISSING"]
        /\ UNCHANGED <<session, file, ownership>>

----------------------------------------------------------------------------
(* Committing, aborting and deleting.                                      *)

Occurrences(f, c) == {i \in DOMAIN LayoutOf[f] : LayoutOf[f][i] = c}

\* Some other active session has a part bound to the chunk.
WantedByOther(u, c, states) ==
    \E v \in Uploads \ {u} : /\ states[v] \in ActiveStates
                             /\ \E j \in Parts(v) : Bound(v, j) /\ ChunkOf(v, j) = c

HasPartOn(u, c) == \E i \in Parts(u) : Bound(u, i) /\ ChunkOf(u, i) = c

Discarded(row) == [row EXCEPT !.state = "GC_PENDING", !.owner = NoUpload,
                              !.lease = "none", !.gcAfter = TRUE]

\* Mutant of Surplus: committed manifests are not asked.
SurplusIfUnwanted(u, c, states) ==
    /\ HasPartOn(u, c)
    /\ chunk[c].state = "READY"
    /\ ~WantedByOther(u, c, states)

\* An unreferenced READY chunk of u that no other session is waiting for.
Surplus(u, c, states) ==
    /\ HasPartOn(u, c)
    /\ chunk[c].state = "READY"
    /\ chunk[c].ref = 0
    /\ ~WantedByOther(u, c, states)

\* What the end of session u gives back.
GivenUp(u, c, states) ==
    \/ Surplus(u, c, states)
    \/ /\ HasPartOn(u, c)
       /\ chunk[c].state \in {"UPLOADING", "FAILED"}
       /\ chunk[c].owner = u
       /\ chunk[c].ref = 0

AllPartsReady(u) == \A i \in Index : part[u][i].state \in {"NONE", "READY"}

\* Mutant of CommitNew: a chunk is counted once for the whole manifest.
CommitNewOnce(u, d) ==
    /\ file[d].mode = "none"
    /\ \A i \in Parts(u) : Bound(u, i) /\ RowOf(u, i).state = "READY"
    /\ chunk' = [c \in Chunks |-> IF c \in ChunksOf(FileOf[u])
                                  THEN [chunk[c] EXCEPT !.ref = @ + 1]
                                  ELSE chunk[c]]
    /\ file' = [file EXCEPT ![d] =
         [mode |-> "manifest", count |-> 1, source |-> FileOf[u]]]

\* The manifest is copied from upload_part: an unbound part has no chunk_id to
\* copy.  That no part's row is missing is ActivePartsBound.
CommitNew(u, d) ==
    /\ file[d].mode = "none"
    /\ \A i \in Parts(u) : Bound(u, i) /\ RowOf(u, i).state = "READY"
    /\ chunk' = [c \in Chunks |->
         IF c \in ChunksOf(FileOf[u])
         THEN [chunk[c] EXCEPT
                 !.ref = @ + Cardinality(Occurrences(FileOf[u], c)),
                 !.gcAfter = FALSE]
         ELSE chunk[c]]
    /\ file' = [file EXCEPT ![d] =
         [mode |-> "manifest", count |-> 1, source |-> FileOf[u]]]

\* The bytes are known: the declared layout must be the manifest's, and a
\* file of the legacy path is only shared with its owner.
CommitExisting(u, d) ==
    /\ \/ /\ file[d].mode = "manifest"
          /\ LayoutOf[file[d].source] = LayoutOf[FileOf[u]]
       \/ /\ file[d].mode = "legacy"
          /\ \E r \in relation : r[1] = UserOf[u] /\ r[2] = d
    /\ chunk' = [c \in Chunks |-> IF Surplus(u, c, session)
                                  THEN Discarded(chunk[c]) ELSE chunk[c]]
    /\ file' = [file EXCEPT ![d].count = IF New(u) THEN @ + 1 ELSE @]

Commit(u) ==
    LET d == DigestOf[FileOf[u]]
    IN  /\ session[u] \in {"UPLOADING", "COMMITTING"}
        /\ AllPartsReady(u)
        /\ CommitNew(u, d) \/ CommitExisting(u, d)
        /\ AddRelation(u)
        /\ tasks' = tasks \cup {<<UserOf[u], d, "parse_source">>}
        /\ session' = [session EXCEPT ![u] = "COMMITTED"]
        /\ UNCHANGED <<part, shared, publicCount>>

\* The session changes only for its own user; the chunks do not ask whose
\* call it was, nor whether the session had ended before.
Abort(u, user) ==
    /\ session[u] # "NONE"
    /\ session' = [session EXCEPT ![u] =
         IF user = UserOf[u] /\ @ \notin {"COMMITTED", "ABORTED"}
         THEN "ABORTED" ELSE @]
    /\ chunk' = [c \in Chunks |-> IF GivenUp(u, c, session)
                                  THEN Discarded(chunk[c]) ELSE chunk[c]]
    /\ UNCHANGED <<part, file, ownership>>

\* Each row of the manifest gives one reference back, and a chunk without
\* references waits for GC.
DropManifest(d) ==
    LET uses(c) == Cardinality(Occurrences(file[d].source, c))
    IN  /\ chunk' = [c \in Chunks |->
             IF c \notin ChunksOf(file[d].source) THEN chunk[c]
             ELSE IF chunk[c].ref > uses(c)
             THEN [chunk[c] EXCEPT !.ref = @ - uses(c)]
             ELSE [chunk[c] EXCEPT !.ref = 0, !.state = "GC_PENDING",
                                   !.gcAfter = TRUE]]
        /\ file' = [file EXCEPT ![d] = NoFileRow]

\* Mutant of ReleaseFile: off by one, the last relation but one is the last.
ReleaseFileEarly(d) ==
    IF file[d].count > 2
    THEN file' = [file EXCEPT ![d].count = @ - 1] /\ chunk' = chunk
    ELSE DropManifest(d)

\* Only the last relation of a file takes its manifest with it.
ReleaseFile(d) ==
    IF file[d].count > 1
    THEN file' = [file EXCEPT ![d].count = @ - 1] /\ chunk' = chunk
    ELSE DropManifest(d)

\* The share of a relation goes with it, and its count in the public total.
Unshare(r) ==
    /\ shared' = shared \ {r}
    /\ publicCount' = IF r \notin shared THEN publicCount
                      ELSE IF publicCount > 0 THEN publicCount - 1 ELSE 0

DeleteObjectForUser(user, d, name) ==
    LET r == <<user, d, name>>
    IN  /\ file[d].mode = "manifest"
        /\ r \in relation
        /\ relation' = relation \ {r}
        /\ Unshare(r)
        /\ userCount' = [userCount EXCEPT ![user] = IF @ > 0 THEN @ - 1 ELSE 0]
        /\ tasks' = tasks \cup {<<user, d, "delete_source">>}
        /\ ReleaseFile(d)
        /\ UNCHANGED <<session, part>>

----------------------------------------------------------------------------
(* The recovery scans of the GC worker.                                    *)

\* Sessions past expires_at end, and every ended session gives back what it
\* held, as Abort does.
ReconcileExpiredUploads(expired) ==
    /\ \A u \in expired : session[u] \in {"INIT", "UPLOADING"}
    /\ session' = [u \in Uploads |->
                     IF u \in expired THEN "EXPIRED" ELSE session[u]]
    /\ chunk' = [c \in Chunks |->
         IF \E u \in Uploads : /\ session'[u] \in {"ABORTED", "EXPIRED"}
                               /\ GivenUp(u, c, session')
         THEN Discarded(chunk[c]) ELSE chunk[c]]
    /\ UNCHANGED <<part, file, ownership>>

WantedByActive(c) ==
    \E u \in Uploads : session[u] \in ActiveStates /\ HasPartOn(u, c)

\* Mutant of Eligible: active sessions are not asked.
EligibleIfUnreferenced(c, stale) ==
    /\ chunk[c].state = "GC_PENDING" \/ c \in stale
    /\ chunk[c].ref = 0
    /\ chunk[c].gcAfter

\* A row of an earlier cycle that stayed DELETING is a candidate again.
Eligible(c, stale) ==
    /\ chunk[c].state = "GC_PENDING" \/ c \in stale
    /\ chunk[c].ref = 0
    /\ chunk[c].gcAfter
    /\ ~WantedByActive(c)

\* stale: the DELETING rows unchanged for 15 minutes; batch: the candidates
\* whose deadlines have passed, at most the limit of one call.
ClaimGc(stale, batch) ==
    /\ \A c \in stale : chunk[c].state = "DELETING"
    /\ \A c \in batch : Eligible(c, stale)
    /\ chunk' = [c \in Chunks |->
         IF c \in batch THEN [chunk[c] EXCEPT !.state = "DELETING"]
         ELSE IF c \in stale THEN [chunk[c] EXCEPT !.state = "GC_PENDING"]
         ELSE chunk[c]]
    /\ UNCHANGED <<session, part, file, ownership>>

\* The blob is gone: the parts of ended sessions are removed with the row,
\* and the foreign key unbinds any part that still refers to it.
FinishGcDeleted(c) ==
    LET gone == chunk[c].state = "DELETING" /\ chunk[c].ref = 0
        refers(u, i) == i \in Parts(u) /\ Bound(u, i) /\ ChunkOf(u, i) = c
    IN  /\ part' = [u \in Uploads |-> [i \in Index |->
             IF ~refers(u, i) THEN part[u][i]
             ELSE IF session[u] \in {"ABORTED", "EXPIRED", "COMMITTED"}
             THEN NoPartRow
             ELSE IF gone THEN [part[u][i] EXCEPT !.bound = FALSE]
             ELSE part[u][i]]]
        /\ chunk' = [chunk EXCEPT ![c] = IF gone THEN NoChunkRow ELSE @]
        /\ UNCHANGED <<session, file, ownership>>

\* The blob could not be deleted, or the rows could not be removed: the row
\* is queued again with the blob it had.
FinishGcRetry(c) ==
    /\ chunk[c].state = "DELETING"
    /\ chunk' = [chunk EXCEPT ![c].state = "GC_PENDING"]
    /\ UNCHANGED <<session, part, file, ownership>>

----------------------------------------------------------------------------
(* The surroundings: time and the knowledge worker.                        *)

LeaseExpires(c) ==
    /\ chunk[c].lease = "live"
    /\ chunk' = [chunk EXCEPT ![c].lease = "expired"]
    /\ UNCHANGED <<session, part, file, ownership>>

\* A knowledge worker finishes a queued task.
TaskDone(t) ==
    /\ t \in tasks
    /\ tasks' = tasks \ {t}
    /\ UNCHANGED <<session, part, chunk, file, relation, userCount, shared,
                   publicCount>>

Epochs == 0..MaxEpoch

UploadCalls ==
    \E u \in Uploads :
        \/ InstantHit(u)
        \/ InitOrResume(u)
        \/ Commit(u)
        \/ \E user \in Users : Abort(u, user)

PartCalls ==
    \E u \in Uploads, i \in Index, e \in Epochs :
        \/ ClaimPartUpload(u, i)
        \/ \E b \in Backends : RecordPartBackend(u, i, e, b)
        \/ \E b \in Backends : MarkPartReady(u, i, e, b)
        \/ \E b \in Backends \cup {NoBackend} : MarkPartFailed(u, i, e, b)

GcCalls ==
    \/ \E expired \in SUBSET Uploads : ReconcileExpiredUploads(expired)
    \/ \E stale, batch \in SUBSET Chunks : ClaimGc(stale, batch)
    \/ \E c \in Chunks : FinishGcDeleted(c) \/ FinishGcRetry(c)

FileCalls ==
    \E user \in Users, d \in Digests, n \in Names :
        DeleteObjectForUser(user, d, n)

Next ==
    \/ UploadCalls \/ PartCalls \/ GcCalls \/ FileCalls
    \/ \E c \in Chunks : LeaseExpires(c)
    \/ \E t \in Tasks : TaskDone(t)

Spec == Init /\ [][Next]_tables

----------------------------------------------------------------------------
(* Properties.                                                             *)

\* Every table holds rows of its schema: the column values the SQL of
\* storage_metadata_store.cpp may write and no others.
TypeOK ==
    /\ session \in [Uploads -> SessionStates]
    /\ part \in [Uploads -> [Index -> PartRow]]
    /\ chunk \in [Chunks -> ChunkRow]
    /\ file \in [Digests -> FileRow]
    /\ relation \subseteq Relations
    /\ userCount \in [Users -> Nat]
    /\ shared \subseteq Relations
    /\ publicCount \in Int
    /\ tasks \subseteq Tasks

\* manifest_chunk rows that refer to a chunk, of one file and of all.
ReferencesIn(d, c) ==
    IF file[d].mode = "manifest"
    THEN {d} \X Occurrences(file[d].source, c) ELSE {}
References(c) == UNION {ReferencesIn(d, c) : d \in Digests}

\* ref_count of every chunk_blob row is the number of manifest_chunk rows
\* that refer to it, although commits and deletes change it one part at a
\* time and several manifests share the chunk.
RefCountExact == \A c \in Chunks : chunk[c].ref = Cardinality(References(c))

\* A chunk some manifest refers to is READY, has a blob and no owner: no
\* late failure report, abort, expiry or GC cycle takes it away.
ReferencedReady ==
    \A c \in Chunks : References(c) # {} =>
        /\ chunk[c].state = "READY"
        /\ chunk[c].backend # NoBackend
        /\ chunk[c].owner = NoUpload

\* file_info.count is the number of user_file_list rows of the digest, and
\* a digest with relations has a file_info row: the last delete removes the
\* manifest and no earlier one does.
FileCountExact ==
    \A d \in Digests :
        /\ file[d].count = Cardinality(RelationsOf(d))
        /\ file[d].mode = "none" <=> RelationsOf(d) = {}

\* user_file_count.count is the number of files the user owns, whichever of
\* the instant hit, the commit and the delete touched the relation.
UserCountExact ==
    \A user \in Users : userCount[user] = Cardinality(OwnedBy(user))

\* GC never holds a chunk an active session has bound a part to: an init
\* that meets a DELETING row is rolled back and ClaimGc skips wanted rows.
DeletingIsUnwanted ==
    \A c \in Chunks : chunk[c].state = "DELETING" =>
        chunk[c].ref = 0 /\ ~WantedByActive(c)

\* An active session keeps every row it declared, bound to a chunk that is
\* still there, so Commit's scan of upload_part never misses a part.
ActivePartsBound ==
    \A u \in Uploads : session[u] \in ActiveStates =>
        \A i \in Parts(u) :
            /\ part[u][i].state # "NONE"
            /\ Bound(u, i)
            /\ RowOf(u, i).state # "NONE"

\* A row that waits for GC or is held by it has a gc_after to be found by,
\* and only a row being uploaded has an owner and a lease.
GcScheduled ==
    \A c \in Chunks :
        /\ chunk[c].state \in {"GC_PENDING", "DELETING"} => chunk[c].gcAfter
        /\ chunk[c].owner # NoUpload <=> chunk[c].state = "UPLOADING"
        /\ chunk[c].lease # "none" <=> chunk[c].state = "UPLOADING"

\* lease_epoch of a row never falls while the row exists, and a new owner
\* never takes over under the epoch of the one before.
EpochFences ==
    [][\A c \in Chunks : chunk'[c].state # "NONE" =>
         /\ chunk'[c].epoch >= chunk[c].epoch
         /\ (chunk[c].owner # chunk'[c].owner /\ chunk'[c].owner # NoUpload
               /\ chunk[c].state # "NONE")
              => chunk'[c].epoch > chunk[c].epoch]_tables

\* What a file reads back as by its tables: the chunks of its manifest, where
\* one that is not READY with a blob is a gap in the object.
ContentOf(d) ==
    [mode |-> file[d].mode,
     bytes |-> IF file[d].mode # "manifest" THEN <<>>
               ELSE [i \in DOMAIN LayoutOf[file[d].source] |->
                      LET c == LayoutOf[file[d].source][i]
                      IN  IF chunk[c].state = "READY" /\ chunk[c].backend # NoBackend
                          THEN c ELSE "gap"]]

Catalog == INSTANCE ObjectCatalog WITH
    owned <- relation, content <- [d \in Digests |-> ContentOf(d)]

\* The store implements the catalog: the bytes of an owned digest never have
\* a gap and never change, go with its last relation, and nobody gains a
\* relation by naming a digest without uploading it or owning it already.
ImplementsCatalog == Catalog!CatalogSpec
=============================================================================
