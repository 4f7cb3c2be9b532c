----------------------- MODULE MetadataStore_proofs -----------------------
(***************************************************************************)
(* Theorems about MetadataStore for every value of its constants: any      *)
(* number of users, sessions, chunks and files, any layouts, any callers.  *)
(***************************************************************************)
EXTENDS MetadataStore, FiniteSetTheorems, FunctionTheorems, TLAPS

----------------------------------------------------------------------------
(* What the row operators return.                                          *)

\* Column values a missing row defaults to are values of the schema.
LEMMA NoRows ==
    /\ NoChunkRow \in ChunkRow
    /\ NoPartRow \in PartRow
    /\ NoFileRow \in FileRow
<1>1. 0 \in Nat /\ 0 \in 0..MaxEpoch
  BY StoreAssumption DEF StoreAssumption
<1>2. FALSE \in BOOLEAN
  OBVIOUS
<1>3. NoChunkRow \in ChunkRow
  BY <1>1, <1>2, Zenon DEF NoChunkRow, ChunkRow, ChunkStates
<1>4. NoPartRow \in PartRow
  BY <1>2, Zenon DEF NoPartRow, PartRow
<1>5. NoFileRow \in FileRow
  BY <1>1, Zenon DEF NoFileRow, FileRow
<1> QED BY <1>3, <1>4, <1>5

\* A reservation is a row of the schema, as the bound on the epoch was kept.
LEMMA ReservedType ==
    ASSUME NEW row \in ChunkRow, NEW u \in Uploads, Reservable(row, u)
    PROVE  Reserved(row, u) \in ChunkRow
<1>1. CASE row.state = "NONE"
  <2>1. Reserved(row, u) =
          [NoChunkRow EXCEPT !.state = "UPLOADING", !.owner = u,
                             !.lease = "live"]
    BY <1>1 DEF Reserved, Bumps
  <2> QED BY <2>1, NoRows DEF ChunkRow, ChunkStates
<1>2. CASE row.state = "UPLOADING" /\ row.owner = u
  <2>1. Reserved(row, u) = [row EXCEPT !.lease = "live"]
    BY <1>2 DEF Reserved, Bumps
  <2> QED BY <2>1 DEF ChunkRow
<1>3. CASE Bumps(row, u)
  <2>1. /\ row.state # "NONE"
        /\ ~(row.state = "UPLOADING" /\ row.owner = u)
        /\ row.epoch + 1 \in 0..MaxEpoch
    BY <1>3, StoreAssumption
    DEF Reservable, Bumps, ChunkRow, StoreAssumption
  <2>2. Reserved(row, u) =
          [row EXCEPT !.state = "UPLOADING", !.owner = u, !.lease = "live",
                      !.epoch = row.epoch + 1]
    BY <1>3, <2>1 DEF Reserved
  <2> QED BY <2>1, <2>2 DEF ChunkRow, ChunkStates
<1>4. CASE /\ row.state # "NONE"
           /\ ~(row.state = "UPLOADING" /\ row.owner = u)
           /\ ~Bumps(row, u)
  BY <1>4 DEF Reserved
<1> QED BY <1>1, <1>2, <1>3, <1>4

LEMMA DiscardedType ==
    ASSUME NEW row \in ChunkRow
    PROVE  Discarded(row) \in ChunkRow
  BY DEF Discarded, ChunkRow, ChunkStates

LEMMA ClaimedType ==
    ASSUME NEW row \in ChunkRow, NEW u \in Uploads, row.epoch < MaxEpoch
    PROVE  Claimed(row, u) \in ChunkRow
<1>1. row.epoch + 1 \in 0..MaxEpoch
  BY StoreAssumption DEF ChunkRow, StoreAssumption
<1>2. Claimed(row, u) =
        [row EXCEPT !.state = "UPLOADING", !.owner = u, !.lease = "live",
                    !.epoch = row.epoch + 1, !.gcAfter = FALSE]
  BY DEF Claimed
<1> QED BY <1>1, <1>2 DEF ChunkRow, ChunkStates

LEMMA PublishedType ==
    ASSUME NEW row \in ChunkRow, NEW b \in Backends
    PROVE  Published(row, b) \in ChunkRow
  BY DEF Published, ChunkRow, ChunkStates

LEMMA FailedRowType ==
    ASSUME NEW row \in ChunkRow, NEW b \in Backends \cup {NoBackend}
    PROVE  Failed(row, b) \in ChunkRow
<1>1. (IF b = NoBackend THEN row.backend ELSE b) \in Backends \cup {NoBackend}
  BY DEF ChunkRow
<1> QED BY <1>1 DEF Failed, ChunkRow, ChunkStates

\* A chunk occurs in a layout finitely often.
LEMMA OccurrencesFinite ==
    ASSUME NEW f \in Files, NEW c
    PROVE  /\ IsFiniteSet(Occurrences(f, c))
           /\ Cardinality(Occurrences(f, c)) \in Nat
           /\ c \notin ChunksOf(f) => Occurrences(f, c) = {}
           /\ c \in ChunksOf(f) => Cardinality(Occurrences(f, c)) > 0
<1>1. LayoutOf[f] \in Seq(Chunks)
  BY StoreAssumption DEF StoreAssumption
<1>2. DOMAIN LayoutOf[f] = 1..Len(LayoutOf[f]) /\ Len(LayoutOf[f]) \in Nat
  BY <1>1
<1>3. IsFiniteSet(1..Len(LayoutOf[f]))
  BY <1>2, FS_Interval
<1>4. Occurrences(f, c) \subseteq 1..Len(LayoutOf[f])
  BY <1>2 DEF Occurrences
<1>5. IsFiniteSet(Occurrences(f, c))
  BY <1>3, <1>4, FS_Subset
<1>6. Cardinality(Occurrences(f, c)) \in Nat
  BY <1>5, FS_CardinalityType
<1>7. Cardinality(Occurrences(f, c)) = 0 <=> Occurrences(f, c) = {}
  BY <1>5, FS_EmptySet
<1>8. c \in ChunksOf(f) <=> Occurrences(f, c) # {}
  BY DEF ChunksOf, Occurrences
<1> QED BY <1>5, <1>6, <1>7, <1>8

\* A declared part names a chunk of the layout its upload declared.
LEMMA DeclaredPart ==
    ASSUME NEW u \in Uploads
    PROVE  /\ FileOf[u] \in Files
           /\ UserOf[u] \in Users
           /\ NameOf[u] \in Names
           /\ \A f \in Files : DigestOf[f] \in Digests
           /\ \A i \in Parts(u) :
                /\ i \in Index
                /\ ChunkOf(u, i) \in Chunks
                /\ ChunkOf(u, i) \in ChunksOf(FileOf[u])
<1>1. /\ FileOf[u] \in Files
      /\ UserOf[u] \in Users
      /\ NameOf[u] \in Names
      /\ \A f \in Files : DigestOf[f] \in Digests
  BY StoreAssumption DEF StoreAssumption
<1>2. LayoutOf[FileOf[u]] \in Seq(Chunks)
  BY <1>1, StoreAssumption DEF StoreAssumption
<1>3. ASSUME NEW i \in Parts(u)
      PROVE  /\ i \in Index
             /\ ChunkOf(u, i) \in Chunks
             /\ ChunkOf(u, i) \in ChunksOf(FileOf[u])
  BY <1>1, <1>2 DEF Parts, Index, ChunkOf, ChunksOf
<1> QED BY <1>1, <1>3

----------------------------------------------------------------------------
(* Type correctness.                                                       *)

LEMMA InitType == ASSUME Init PROVE TypeOK
<1>1. ASSUME NEW S \in SUBSET LegacyRelations
      PROVE  Cardinality(S) \in Nat
  BY StoreAssumption, FS_Subset, FS_CardinalityType DEF StoreAssumption
<1>2. session \in [Uploads -> SessionStates]
  BY DEF Init, SessionStates
<1>3. part \in [Uploads -> [Index -> PartRow]]
  BY NoRows DEF Init
<1>4. chunk \in [Chunks -> ChunkRow]
  BY NoRows DEF Init
<1>5. file \in [Digests -> FileRow]
  <2>1. \A d \in Digests : Cardinality(LegacyOf(d)) \in Nat
    BY <1>1 DEF LegacyOf
  <2>2. \A d \in Digests :
          [mode |-> "legacy", count |-> Cardinality(LegacyOf(d)),
           source |-> NoFile] \in FileRow
    BY <2>1 DEF FileRow
  <2> QED BY <2>2, NoRows DEF Init
<1>6. relation \subseteq Relations
  BY StoreAssumption DEF Init, Relations, StoreAssumption
<1>7. userCount \in [Users -> Nat]
  BY <1>1 DEF Init
<1>8. shared \subseteq Relations /\ publicCount \in Int /\ tasks \subseteq Tasks
  BY DEF Init
<1> QED BY <1>2, <1>3, <1>4, <1>5, <1>6, <1>7, <1>8 DEF TypeOK

\* What every transaction on the chunk rows keeps: a row is replaced by a row.
LEMMA OwnershipUnchanged ==
    ASSUME TypeOK, UNCHANGED ownership
    PROVE  /\ relation' \subseteq Relations
           /\ userCount' \in [Users -> Nat]
           /\ shared' \subseteq Relations
           /\ publicCount' \in Int
           /\ tasks' \subseteq Tasks
  BY DEF TypeOK, ownership

LEMMA AddRelationType ==
    ASSUME TypeOK, NEW u \in Uploads, AddRelation(u)
    PROVE  relation' \subseteq Relations /\ userCount' \in [Users -> Nat]
<1>1. UserOf[u] \in Users /\ RelationOf(u) \in Relations
  BY DeclaredPart DEF RelationOf, Relations
<1>2. userCount' \in [Users -> Nat]
  BY <1>1 DEF AddRelation, TypeOK
<1> QED BY <1>1, <1>2 DEF AddRelation, TypeOK

LEMMA InstantHitType ==
    ASSUME TypeOK, NEW u \in Uploads, InstantHit(u) PROVE TypeOK'
<1> DEFINE d == DigestOf[FileOf[u]]
<1>1. d \in Digests
  BY DeclaredPart
<1>2. relation' \subseteq Relations /\ userCount' \in [Users -> Nat]
  BY AddRelationType DEF InstantHit
<1>3. file' \in [Digests -> FileRow]
  <2>1. file[d] \in FileRow /\ file[d].count + 1 \in Nat
    BY <1>1 DEF TypeOK, FileRow
  <2>2. [file[d] EXCEPT !.count = IF New(u)
                                  THEN file[d].count + 1 ELSE file[d].count]
          \in FileRow
    BY <2>1 DEF FileRow
  <2>3. file' = [file EXCEPT ![d] =
          [file[d] EXCEPT !.count = IF New(u)
                                    THEN file[d].count + 1 ELSE file[d].count]]
    BY <1>1 DEF InstantHit, TypeOK
  <2> QED BY <2>2, <2>3 DEF TypeOK
<1>4. session' \in [Uploads -> SessionStates]
  BY DEF InstantHit, TypeOK, SessionStates
<1> QED BY <1>2, <1>3, <1>4 DEF InstantHit, TypeOK

LEMMA InitOrResumeType ==
    ASSUME TypeOK, NEW u \in Uploads, InitOrResume(u) PROVE TypeOK'
<1>1. \A c \in ChunksOf(FileOf[u]) : Reservable(chunk[c], u)
  BY DEF InitOrResume, ChunksOf, ChunkOf, Parts
<1>2. chunk' \in [Chunks -> ChunkRow]
  BY <1>1, ReservedType DEF InitOrResume, TypeOK
<1>3. session' \in [Uploads -> SessionStates]
  BY DEF InitOrResume, TypeOK, SessionStates, ActiveStates
<1>4. part' \in [Uploads -> [Index -> PartRow]]
  BY DEF InitOrResume, TypeOK, PartRow
<1> QED BY <1>2, <1>3, <1>4, OwnershipUnchanged DEF InitOrResume, TypeOK

LEMMA ClaimType ==
    ASSUME TypeOK, NEW u \in Uploads, NEW i \in Index, ClaimPartUpload(u, i)
    PROVE  TypeOK'
<1> DEFINE c == ChunkOf(u, i)
<1>1. c \in Chunks /\ chunk[c] \in ChunkRow
  BY DeclaredPart DEF ClaimPartUpload, TypeOK
<1>2. CASE chunk' = chunk
  BY <1>2, OwnershipUnchanged DEF ClaimPartUpload, TypeOK
<1>3. CASE /\ chunk[c].epoch < MaxEpoch
           /\ chunk' = [chunk EXCEPT ![c] = Claimed(chunk[c], u)]
  <2>1. Claimed(chunk[c], u) \in ChunkRow
    BY <1>1, <1>3, ClaimedType
  <2>2. chunk' \in [Chunks -> ChunkRow]
    BY <1>1, <1>3, <2>1 DEF TypeOK
  <2> QED BY <2>2, OwnershipUnchanged DEF ClaimPartUpload, TypeOK
<1> QED BY <1>2, <1>3 DEF ClaimPartUpload

LEMMA RecordType ==
    ASSUME TypeOK, NEW u \in Uploads, NEW i \in Index, NEW e, NEW b \in Backends,
           RecordPartBackend(u, i, e, b)
    PROVE  TypeOK'
<1>1. chunk' \in [Chunks -> ChunkRow]
  BY DEF RecordPartBackend, TypeOK, ChunkRow
<1> QED BY <1>1, OwnershipUnchanged DEF RecordPartBackend, TypeOK

LEMMA ReadyType ==
    ASSUME TypeOK, NEW u \in Uploads, NEW i \in Index, NEW e, NEW b \in Backends,
           MarkPartReady(u, i, e, b)
    PROVE  TypeOK'
<1> DEFINE c == ChunkOf(u, i)
<1>1. c \in Chunks /\ chunk[c] \in ChunkRow
  BY DeclaredPart DEF MarkPartReady, CanPublish, Holds, TypeOK
<1>2. Published(chunk[c], b) \in ChunkRow
  BY <1>1, PublishedType
<1>3. chunk' \in [Chunks -> ChunkRow]
  BY <1>1, <1>2 DEF MarkPartReady, TypeOK
<1>4. part' \in [Uploads -> [Index -> PartRow]]
  <2>1. \A row \in PartRow : [row EXCEPT !.state = "READY"] \in PartRow
    BY DEF PartRow
  <2>2. \A v \in Uploads, j \in Index : part[v][j] \in PartRow
    BY DEF TypeOK
  <2> QED BY <2>1, <2>2 DEF MarkPartReady
<1> QED BY <1>3, <1>4, OwnershipUnchanged DEF MarkPartReady, TypeOK

LEMMA FailedType ==
    ASSUME TypeOK, NEW u \in Uploads, NEW i \in Index, NEW e,
           NEW b \in Backends \cup {NoBackend}, MarkPartFailed(u, i, e, b)
    PROVE  TypeOK'
<1> DEFINE c == ChunkOf(u, i)
<1>1. c \in Chunks /\ chunk[c] \in ChunkRow
  BY DeclaredPart DEF MarkPartFailed, CanFail, Holds, TypeOK
<1>2. Failed(chunk[c], b) \in ChunkRow
  BY <1>1, FailedRowType
<1>3. chunk' \in [Chunks -> ChunkRow]
  BY <1>1, <1>2 DEF MarkPartFailed, TypeOK
<1>4. part' \in [Uploads -> [Index -> PartRow]]
  <2>1. /\ part[u] \in [Index -> PartRow]
        /\ [part[u][i] EXCEPT !.state = "MISSING"] \in PartRow
    BY DEF TypeOK, PartRow
  <2>2. part' = [part EXCEPT ![u] = [part[u] EXCEPT ![i] =
          [part[u][i] EXCEPT !.state = "MISSING"]]]
    BY <2>1 DEF MarkPartFailed, TypeOK
  <2>3. [part[u] EXCEPT ![i] = [part[u][i] EXCEPT !.state = "MISSING"]]
          \in [Index -> PartRow]
    BY <2>1
  <2> QED BY <2>2, <2>3 DEF TypeOK
<1> QED BY <1>3, <1>4, OwnershipUnchanged DEF MarkPartFailed, TypeOK

LEMMA CommitType ==
    ASSUME TypeOK, NEW u \in Uploads, Commit(u) PROVE TypeOK'
<1> DEFINE f == FileOf[u]
           d == DigestOf[f]
<1>1. f \in Files /\ d \in Digests /\ UserOf[u] \in Users
  BY DeclaredPart
<1>2. relation' \subseteq Relations /\ userCount' \in [Users -> Nat]
  BY AddRelationType DEF Commit
<1>3. tasks' \subseteq Tasks
  BY <1>1 DEF Commit, TypeOK, Tasks
<1>4. session' \in [Uploads -> SessionStates]
  BY DEF Commit, TypeOK, SessionStates
<1>5. ASSUME CommitNew(u, d)
      PROVE  chunk' \in [Chunks -> ChunkRow] /\ file' \in [Digests -> FileRow]
  <2>1. ASSUME NEW c \in Chunks
        PROVE  [chunk[c] EXCEPT
                  !.ref = chunk[c].ref + Cardinality(Occurrences(f, c)),
                  !.gcAfter = FALSE] \in ChunkRow
    <3>1. chunk[c] \in ChunkRow
      BY DEF TypeOK
    <3>2. chunk[c].ref + Cardinality(Occurrences(f, c)) \in Nat
      BY <1>1, <3>1, OccurrencesFinite DEF ChunkRow
    <3> QED BY <3>1, <3>2 DEF ChunkRow
  <2>2. chunk' \in [Chunks -> ChunkRow]
    BY <1>5, <2>1 DEF CommitNew, TypeOK
  <2>3. [mode |-> "manifest", count |-> 1, source |-> f] \in FileRow
    BY <1>1 DEF FileRow
  <2>4. file' \in [Digests -> FileRow]
    BY <1>5, <2>3 DEF CommitNew, TypeOK
  <2> QED BY <2>2, <2>4
<1>6. ASSUME CommitExisting(u, d)
      PROVE  chunk' \in [Chunks -> ChunkRow] /\ file' \in [Digests -> FileRow]
  <2>1. chunk' \in [Chunks -> ChunkRow]
    BY <1>6, DiscardedType DEF CommitExisting, TypeOK
  <2>2. file[d] \in FileRow /\ file[d].count + 1 \in Nat
    BY <1>1 DEF TypeOK, FileRow
  <2>3. [file[d] EXCEPT !.count = IF New(u)
                                  THEN file[d].count + 1 ELSE file[d].count]
          \in FileRow
    BY <2>2 DEF FileRow
  <2>4. file' = [file EXCEPT ![d] =
          [file[d] EXCEPT !.count = IF New(u)
                                    THEN file[d].count + 1 ELSE file[d].count]]
    BY <1>1, <1>6 DEF CommitExisting, TypeOK
  <2>5. file' \in [Digests -> FileRow]
    BY <2>3, <2>4 DEF TypeOK
  <2> QED BY <2>1, <2>5
<1>7. chunk' \in [Chunks -> ChunkRow] /\ file' \in [Digests -> FileRow]
  BY <1>5, <1>6 DEF Commit
<1>8. UNCHANGED <<part, shared, publicCount>>
  BY DEF Commit
<1> QED BY <1>2, <1>3, <1>4, <1>7, <1>8 DEF TypeOK

LEMMA AbortType ==
    ASSUME TypeOK, NEW u \in Uploads, NEW user \in Users, Abort(u, user)
    PROVE  TypeOK'
<1>1. chunk' \in [Chunks -> ChunkRow]
  BY DiscardedType DEF Abort, TypeOK
<1>2. session' \in [Uploads -> SessionStates]
  BY DEF Abort, TypeOK, SessionStates
<1> QED BY <1>1, <1>2, OwnershipUnchanged DEF Abort, TypeOK

\* One chunk row after the last relation of digest d is gone.
LEMMA DropManifestType ==
    ASSUME TypeOK, NEW d \in Digests, file[d].source \in Files,
           DropManifest(d)
    PROVE  chunk' \in [Chunks -> ChunkRow] /\ file' \in [Digests -> FileRow]
<1> DEFINE uses(c) == Cardinality(Occurrences(file[d].source, c))
<1>1. ASSUME NEW c \in Chunks, chunk[c].ref > uses(c)
      PROVE  [chunk[c] EXCEPT !.ref = chunk[c].ref - uses(c)] \in ChunkRow
  <2>1. chunk[c] \in ChunkRow
    BY DEF TypeOK
  <2>2. chunk[c].ref - uses(c) \in Nat
    BY <1>1, <2>1, OccurrencesFinite DEF ChunkRow
  <2> QED BY <2>1, <2>2 DEF ChunkRow
<1>2. ASSUME NEW c \in Chunks
      PROVE  [chunk[c] EXCEPT !.ref = 0, !.state = "GC_PENDING",
                              !.gcAfter = TRUE] \in ChunkRow
  <2>1. chunk[c] \in ChunkRow
    BY DEF TypeOK
  <2> QED BY <2>1 DEF ChunkRow, ChunkStates
<1>3. chunk' = [c \in Chunks |->
         IF c \notin ChunksOf(file[d].source) THEN chunk[c]
         ELSE IF chunk[c].ref > uses(c)
         THEN [chunk[c] EXCEPT !.ref = chunk[c].ref - uses(c)]
         ELSE [chunk[c] EXCEPT !.ref = 0, !.state = "GC_PENDING",
                               !.gcAfter = TRUE]]
  BY DEF DropManifest
<1>4. chunk' \in [Chunks -> ChunkRow]
  <2>1. \A c \in Chunks : chunk[c] \in ChunkRow
    BY DEF TypeOK
  <2> HIDE DEF uses
  <2> QED BY <1>1, <1>2, <1>3, <2>1
<1>5. file' \in [Digests -> FileRow]
  BY NoRows DEF DropManifest, TypeOK
<1> QED BY <1>4, <1>5

\* A file of the V2 path names the declared content its layout came from.
ManifestSources ==
    \A d \in Digests : file[d].mode = "manifest" => file[d].source \in Files

LEMMA DeleteType ==
    ASSUME TypeOK, ManifestSources,
           NEW user \in Users, NEW d \in Digests, NEW n \in Names,
           DeleteObjectForUser(user, d, n)
    PROVE  TypeOK'
<1>1. relation' \subseteq Relations /\ shared' \subseteq Relations
  BY DEF DeleteObjectForUser, ReleaseFile, Unshare, TypeOK
<1>2. publicCount' \in Int
  BY DEF DeleteObjectForUser, ReleaseFile, Unshare, TypeOK
<1>3. userCount' \in [Users -> Nat]
  BY DEF DeleteObjectForUser, ReleaseFile, Unshare, TypeOK
<1>4. tasks' \subseteq Tasks
  BY DEF DeleteObjectForUser, ReleaseFile, Unshare, TypeOK, Tasks
<1>5. CASE file[d].count > 1 /\ chunk' = chunk
           /\ file' = [file EXCEPT ![d].count = @ - 1]
  <2>1. file[d] \in FileRow /\ file[d].count - 1 \in Nat
    BY <1>5 DEF TypeOK, FileRow
  <2>2. [file[d] EXCEPT !.count = file[d].count - 1] \in FileRow
    BY <2>1 DEF FileRow
  <2>3. file' = [file EXCEPT ![d] = [file[d] EXCEPT !.count = file[d].count - 1]]
    BY <1>5 DEF TypeOK
  <2>4. file' \in [Digests -> FileRow]
    BY <2>2, <2>3 DEF TypeOK
  <2> QED
    BY <1>1, <1>2, <1>3, <1>4, <1>5, <2>4 DEF DeleteObjectForUser, ReleaseFile, Unshare, TypeOK
<1>6. CASE DropManifest(d)
  <2>1. file[d].source \in Files
    BY DEF ManifestSources, DeleteObjectForUser
  <2>2. chunk' \in [Chunks -> ChunkRow] /\ file' \in [Digests -> FileRow]
    BY <1>6, <2>1, DropManifestType
  <2> QED BY <1>1, <1>2, <1>3, <1>4, <2>2 DEF DeleteObjectForUser, ReleaseFile, Unshare, TypeOK
<1> QED BY <1>5, <1>6 DEF DeleteObjectForUser, ReleaseFile, Unshare

LEMMA ReconcileType ==
    ASSUME TypeOK, NEW expired \in SUBSET Uploads,
           ReconcileExpiredUploads(expired)
    PROVE  TypeOK'
<1>1. session' \in [Uploads -> SessionStates]
  BY DEF ReconcileExpiredUploads, TypeOK, SessionStates
<1>2. chunk' \in [Chunks -> ChunkRow]
  BY DiscardedType DEF ReconcileExpiredUploads, TypeOK
<1> QED BY <1>1, <1>2, OwnershipUnchanged DEF ReconcileExpiredUploads, TypeOK

LEMMA ClaimGcType ==
    ASSUME TypeOK, NEW stale, NEW batch, ClaimGc(stale, batch)
    PROVE  TypeOK'
<1>1. \A row \in ChunkRow : /\ [row EXCEPT !.state = "DELETING"] \in ChunkRow
                            /\ [row EXCEPT !.state = "GC_PENDING"] \in ChunkRow
  BY DEF ChunkRow, ChunkStates
<1>2. chunk' \in [Chunks -> ChunkRow]
  BY <1>1 DEF ClaimGc, TypeOK
<1> QED BY <1>2, OwnershipUnchanged DEF ClaimGc, TypeOK

LEMMA FinishGcType ==
    ASSUME TypeOK, NEW c \in Chunks, FinishGcDeleted(c) \/ FinishGcRetry(c)
    PROVE  TypeOK'
<1>1. CASE FinishGcDeleted(c)
  <2>1. \A row \in PartRow : [row EXCEPT !.bound = FALSE] \in PartRow
    BY DEF PartRow
  <2>2. \A u \in Uploads, i \in Index : part[u][i] \in PartRow
    BY DEF TypeOK
  <2>3. part' \in [Uploads -> [Index -> PartRow]]
    BY <1>1, <2>1, <2>2, NoRows DEF FinishGcDeleted
  <2>4. chunk' \in [Chunks -> ChunkRow]
    BY <1>1, NoRows DEF FinishGcDeleted, TypeOK
  <2> QED BY <1>1, <2>3, <2>4, OwnershipUnchanged DEF FinishGcDeleted, TypeOK
<1>2. CASE FinishGcRetry(c)
  <2>1. \A row \in ChunkRow : [row EXCEPT !.state = "GC_PENDING"] \in ChunkRow
    BY DEF ChunkRow, ChunkStates
  <2>2. chunk' = [chunk EXCEPT ![c] = [chunk[c] EXCEPT !.state = "GC_PENDING"]]
    BY <1>2 DEF FinishGcRetry, TypeOK
  <2>3. chunk' \in [Chunks -> ChunkRow]
    BY <2>1, <2>2 DEF TypeOK
  <2> QED BY <1>2, <2>3, OwnershipUnchanged DEF FinishGcRetry, TypeOK
<1> QED BY <1>1, <1>2

LEMMA SurroundingsType ==
    ASSUME TypeOK,
           \/ \E c \in Chunks : LeaseExpires(c)
           \/ \E t \in Tasks : TaskDone(t)
    PROVE  TypeOK'
<1>1. ASSUME NEW c \in Chunks, LeaseExpires(c) PROVE TypeOK'
  <2>1. chunk' \in [Chunks -> ChunkRow]
    BY <1>1 DEF LeaseExpires, TypeOK, ChunkRow
  <2> QED BY <1>1, <2>1, OwnershipUnchanged DEF LeaseExpires, TypeOK
<1>2. ASSUME NEW t \in Tasks, TaskDone(t) PROVE TypeOK'
  BY <1>2 DEF TaskDone, TypeOK
<1> QED BY <1>1, <1>2

\* Storage mode and layout of every file stand.
SameManifests ==
    \A d \in Digests : /\ file'[d].mode = file[d].mode
                       /\ file'[d].source = file[d].source

\* The steps that touch no file_info row.
LEMMA FileUnchanged ==
    /\ \A u, user : InitOrResume(u) \/ Abort(u, user) => file' = file
    /\ \A u, i : ClaimPartUpload(u, i) => file' = file
    /\ \A u, i, e, b : \/ RecordPartBackend(u, i, e, b)
                       \/ MarkPartReady(u, i, e, b)
                       \/ MarkPartFailed(u, i, e, b)
                      => file' = file
    /\ \A stale, batch : \/ ReconcileExpiredUploads(stale)
                         \/ ClaimGc(stale, batch)
                        => file' = file
    /\ \A c : FinishGcDeleted(c) \/ FinishGcRetry(c) => file' = file
    /\ \A c : LeaseExpires(c) \/ TaskDone(c) => file' = file
<1>1. \A u, user : InitOrResume(u) \/ Abort(u, user) => file' = file
  BY DEF InitOrResume, Abort
<1>2. \A u, i : ClaimPartUpload(u, i) => file' = file
  BY DEF ClaimPartUpload
<1>3. \A u, i, e, b : \/ RecordPartBackend(u, i, e, b)
                     \/ MarkPartReady(u, i, e, b)
                     \/ MarkPartFailed(u, i, e, b)
                    => file' = file
  BY DEF RecordPartBackend, MarkPartReady, MarkPartFailed
<1>4. \A stale, batch : \/ ReconcileExpiredUploads(stale)
                       \/ ClaimGc(stale, batch)
                      => file' = file
  BY DEF ReconcileExpiredUploads, ClaimGc
<1>5. \A c : FinishGcDeleted(c) \/ FinishGcRetry(c) => file' = file
  BY DEF FinishGcDeleted, FinishGcRetry
<1>6. \A c : LeaseExpires(c) \/ TaskDone(c) => file' = file
  BY DEF LeaseExpires, TaskDone
<1> QED BY <1>1, <1>2, <1>3, <1>4, <1>5, <1>6

\* Counting a relation of a file in or out leaves its manifest alone.
LEMMA CountOnly ==
    ASSUME TypeOK, NEW d \in Digests, NEW n,
           file' = [file EXCEPT ![d] = [file[d] EXCEPT !.count = n]]
    PROVE  SameManifests
<1>1. \A x \in Digests : file[x] \in FileRow
  BY DEF TypeOK
<1>2. /\ [file[d] EXCEPT !.count = n].mode = file[d].mode
      /\ [file[d] EXCEPT !.count = n].source = file[d].source
  BY <1>1 DEF FileRow
<1>3. \A x \in Digests : file'[x] = IF x = d THEN [file[d] EXCEPT !.count = n]
                                    ELSE file[x]
  BY DEF TypeOK
<1> QED BY <1>2, <1>3 DEF SameManifests

LEMMA InstantHitManifests ==
    ASSUME TypeOK, NEW u \in Uploads, InstantHit(u) PROVE SameManifests
<1> DEFINE d == DigestOf[FileOf[u]]
           n == IF New(u) THEN file[d].count + 1 ELSE file[d].count
<1>1. d \in Digests
  BY DeclaredPart
<1>2. file' = [file EXCEPT ![d] = [file[d] EXCEPT !.count = n]]
  BY <1>1 DEF InstantHit, TypeOK
<1> QED BY <1>1, <1>2, CountOnly

LEMMA CommitExistingManifests ==
    ASSUME TypeOK, NEW u \in Uploads, NEW d \in Digests,
           CommitExisting(u, d)
    PROVE  SameManifests
<1> DEFINE n == IF New(u) THEN file[d].count + 1 ELSE file[d].count
<1>1. file' = [file EXCEPT ![d] = [file[d] EXCEPT !.count = n]]
  BY DEF CommitExisting, TypeOK
<1> QED BY <1>1, CountOnly

LEMMA DeleteManifests ==
    ASSUME TypeOK, NEW user, NEW d \in Digests, NEW name,
           DeleteObjectForUser(user, d, name), ~DropManifest(d)
    PROVE  SameManifests /\ chunk' = chunk
<1>1. /\ file' = [file EXCEPT ![d] = [file[d] EXCEPT !.count = file[d].count - 1]]
      /\ chunk' = chunk
  BY DEF DeleteObjectForUser, ReleaseFile, Unshare, TypeOK
<1> QED BY <1>1, CountOnly

\* Only two steps make or drop a manifest.
LEMMA ManifestSteps ==
    ASSUME TypeOK, Next
    PROVE  \/ SameManifests
           \/ \E u \in Uploads : Commit(u) /\ CommitNew(u, DigestOf[FileOf[u]])
           \/ \E user \in Users, d \in Digests, n \in Names :
                DeleteObjectForUser(user, d, n) /\ DropManifest(d)
<1>1. CASE file' = file
  BY <1>1 DEF SameManifests
<1>2. CASE UploadCalls
  <2>1. ASSUME NEW u \in Uploads, Commit(u),
               ~CommitNew(u, DigestOf[FileOf[u]])
        PROVE  SameManifests
    BY <2>1, DeclaredPart, CommitExistingManifests DEF Commit
  <2> QED
    BY <1>1, <1>2, <2>1, InstantHitManifests, FileUnchanged DEF UploadCalls
<1>3. CASE PartCalls
  BY <1>1, <1>3, FileUnchanged DEF PartCalls
<1>4. CASE GcCalls
  BY <1>1, <1>4, FileUnchanged DEF GcCalls
<1>5. CASE FileCalls
  BY <1>1, <1>5, FileUnchanged, DeleteManifests DEF FileCalls
<1>6. CASE \/ \E c \in Chunks : LeaseExpires(c)
           \/ \E t \in Tasks : TaskDone(t)
  BY <1>1, <1>6, FileUnchanged
<1> QED BY <1>2, <1>3, <1>4, <1>5, <1>6 DEF Next

\* Manifest sources are declared contents: only a commit makes a manifest.
LEMMA ManifestSourcesStep ==
    ASSUME TypeOK, ManifestSources, Next PROVE ManifestSources'
<1>1. CASE SameManifests
  BY <1>1 DEF ManifestSources, SameManifests
<1>2. ASSUME NEW u \in Uploads, CommitNew(u, DigestOf[FileOf[u]])
      PROVE  ManifestSources'
  BY <1>2, DeclaredPart DEF CommitNew, ManifestSources, TypeOK
<1>3. ASSUME NEW d \in Digests, DropManifest(d)
      PROVE  ManifestSources'
  BY <1>3 DEF DropManifest, NoFileRow, ManifestSources, TypeOK
<1> QED BY <1>1, <1>2, <1>3, ManifestSteps

LEMMA NextType ==
    ASSUME TypeOK, ManifestSources, Next PROVE TypeOK'
<1>1. CASE UploadCalls
  BY <1>1, InstantHitType, InitOrResumeType, CommitType, AbortType
  DEF UploadCalls
<1>2. CASE PartCalls
  BY <1>2, ClaimType, RecordType, ReadyType, FailedType DEF PartCalls
<1>3. CASE GcCalls
  BY <1>3, ReconcileType, ClaimGcType, FinishGcType DEF GcCalls
<1>4. CASE FileCalls
  BY <1>4, DeleteType, SurroundingsType DEF FileCalls
<1>5. CASE \/ \E c \in Chunks : LeaseExpires(c)
           \/ \E t \in Tasks : TaskDone(t)
  BY <1>5, SurroundingsType
<1> QED BY <1>1, <1>2, <1>3, <1>4, <1>5 DEF Next

\* Every call of every method, by any caller with any arguments, leaves rows
\* that the schema of hydra_v2.sql admits.
THEOREM TypeCorrect == Spec => []TypeOK
<1> DEFINE Inv == TypeOK /\ ManifestSources
<1>1. Init => Inv
  BY InitType DEF Init, ManifestSources, NoFileRow
<1>2. Inv /\ [Next]_tables => Inv'
  <2>1. CASE Next
    BY <2>1, NextType, ManifestSourcesStep
  <2>2. CASE UNCHANGED tables
    BY <2>2 DEF tables, ownership, TypeOK, ManifestSources
  <2> QED BY <2>1, <2>2
<1> QED BY <1>1, <1>2, PTL DEF Spec

----------------------------------------------------------------------------
(* Reference counting.                                                     *)

\* One chunk row by itself: only an upload has an owner and a lease, a row
\* meant for GC can be found by it, and a READY row names its blob.
RowOK(row) ==
    /\ row.state \in {"GC_PENDING", "DELETING"} => row.gcAfter
    /\ row.owner # NoUpload <=> row.state = "UPLOADING"
    /\ row.lease # "none" <=> row.state = "UPLOADING"
    /\ row.state = "READY" => row.backend # NoBackend
RowsOK == \A c \in Chunks : RowOK(chunk[c])

\* The inductive invariant behind reference counting.  A row is taken back
\* only when its ref is 0: that protects the referenced rows (ReferencedReady)
\* as long as ref is not 0 for them (RefCountExact), which survives commits
\* and deletes as long as the rows they count on are READY ones.
RefInv == TypeOK /\ ManifestSources /\ RowsOK /\ RefCountExact /\ ReferencedReady

\* The manifest rows on a chunk are finitely many, of disjoint files.
LEMMA ReferencesFinite ==
    ASSUME TypeOK, ManifestSources, NEW c \in Chunks
    PROVE  /\ IsFiniteSet(References(c))
           /\ Cardinality(References(c)) \in Nat
           /\ Cardinality(References(c)) = 0 <=> References(c) = {}
           /\ \A d \in Digests : IsFiniteSet(ReferencesIn(d, c))
<1>1. ASSUME NEW d \in Digests PROVE IsFiniteSet(ReferencesIn(d, c))
  <2>1. CASE file[d].mode = "manifest"
    <3>1. IsFiniteSet(Occurrences(file[d].source, c))
      BY <2>1, OccurrencesFinite DEF ManifestSources
    <3>2. IsFiniteSet({d})
      BY FS_Singleton
    <3>3. IsFiniteSet({d} \X Occurrences(file[d].source, c))
      BY <3>1, <3>2, FS_Product
    <3> QED BY <2>1, <3>3 DEF ReferencesIn
  <2>2. CASE file[d].mode # "manifest"
    BY <2>2, FS_EmptySet DEF ReferencesIn
  <2> QED BY <2>1, <2>2
<1>2. IsFiniteSet({ReferencesIn(d, c) : d \in Digests})
  <2> DEFINE In == [d \in Digests |-> ReferencesIn(d, c)]
             S == {ReferencesIn(d, c) : d \in Digests}
  <2>1. In \in Surjection(Digests, S)
    BY DEF Surjection
  <2>2. IsFiniteSet(Digests)
    BY StoreAssumption DEF StoreAssumption
  <2> HIDE DEF In, S
  <2>3. IsFiniteSet(S)
    BY <2>1, <2>2, FS_Surjection
  <2> QED BY <2>3 DEF S
<1>3. IsFiniteSet(References(c))
  BY <1>1, <1>2, FS_UNION DEF References
<1> QED BY <1>1, <1>3, FS_CardinalityType, FS_EmptySet

\* With the manifests unchanged the references are.
LEMMA ReferencesFrame ==
    ASSUME SameManifests, NEW c PROVE References(c)' = References(c)
<1>1. \A d \in Digests : ReferencesIn(d, c)' = ReferencesIn(d, c)
  BY DEF SameManifests, ReferencesIn
<1> QED BY <1>1 DEF References

\* Only a READY row has references.
LEMMA ReferencedRow ==
    ASSUME RefInv, NEW c \in Chunks, chunk[c].ref # 0
    PROVE  References(c) # {} /\ chunk[c].state = "READY"
  BY ReferencesFinite DEF RefInv, RefCountExact, ReferencedReady

\* What a step that is not a commit or a last delete does to a row.
RowKept(old, new) ==
    /\ RowOK(new)
    /\ new.ref = old.ref
    /\ old.ref # 0 => /\ new.state = old.state
                      /\ new.backend = old.backend
                      /\ new.owner = old.owner
RowsKept == \A c \in Chunks : RowKept(chunk[c], chunk'[c])

LEMMA RowsKeptStep ==
    ASSUME RefInv, TypeOK', ManifestSources', SameManifests, RowsKept
    PROVE  RefInv'
<1>1. \A c \in Chunks : References(c)' = References(c)
  BY ReferencesFrame
<1>2. RefCountExact'
  BY <1>1 DEF RefInv, RefCountExact, RowsKept, RowKept
<1>3. ReferencedReady'
  <2> SUFFICES ASSUME NEW c \in Chunks, References(c) # {}
               PROVE  /\ chunk'[c].state = "READY"
                      /\ chunk'[c].backend # NoBackend
                      /\ chunk'[c].owner = NoUpload
    BY <1>1 DEF ReferencedReady
  <2>1. chunk[c].ref # 0
    BY ReferencesFinite DEF RefInv, RefCountExact
  <2> QED BY <2>1 DEF RefInv, ReferencedReady, RowsKept, RowKept
<1>4. RowsOK'
  BY DEF RowsOK, RowsKept, RowKept
<1> QED BY <1>2, <1>3, <1>4 DEF RefInv

\* The row operators keep what RowsKept asks for.
LEMMA ReservedKept ==
    ASSUME NEW row \in ChunkRow, RowOK(row), NEW u \in Uploads,
           Reservable(row, u), row.ref # 0 => row.state = "READY"
    PROVE  RowKept(row, Reserved(row, u))
<1>0. CASE row.state = "NONE"
  <2>1. Reserved(row, u) =
          [NoChunkRow EXCEPT !.state = "UPLOADING", !.owner = u,
                             !.lease = "live"]
    BY <1>0 DEF Reserved, Bumps
  <2>2. u # NoUpload
    BY StoreAssumption DEF StoreAssumption
  <2> QED BY <1>0, <2>1, <2>2 DEF RowKept, RowOK, NoChunkRow
<1>1. CASE row.state = "UPLOADING" /\ row.owner = u
  <2>1. Reserved(row, u) = [row EXCEPT !.lease = "live"]
    BY <1>1 DEF Reserved, Bumps
  <2> QED BY <1>1, <2>1 DEF RowKept, RowOK, ChunkRow
<1>2. CASE Bumps(row, u)
  <2>1. /\ row.state # "NONE"
        /\ ~(row.state = "UPLOADING" /\ row.owner = u)
        /\ row.state # "READY"
    BY <1>2 DEF Bumps
  <2>2. Reserved(row, u) =
          [row EXCEPT !.state = "UPLOADING", !.owner = u, !.lease = "live",
                      !.epoch = row.epoch + 1]
    BY <1>2, <2>1 DEF Reserved
  <2>3. u # NoUpload
    BY StoreAssumption DEF StoreAssumption
  <2> QED BY <2>1, <2>2, <2>3 DEF RowKept, RowOK, ChunkRow
<1>3. CASE /\ row.state # "NONE"
           /\ ~(row.state = "UPLOADING" /\ row.owner = u)
           /\ ~Bumps(row, u)
  BY <1>3 DEF Reserved, RowKept
<1> QED BY <1>0, <1>1, <1>2, <1>3

LEMMA ClaimedKept ==
    ASSUME NEW row \in ChunkRow, NEW u \in Uploads, row.ref = 0
    PROVE  RowKept(row, Claimed(row, u))
<1>1. u # NoUpload
  BY StoreAssumption DEF StoreAssumption
<1>2. Claimed(row, u) =
        [row EXCEPT !.state = "UPLOADING", !.owner = u, !.lease = "live",
                    !.epoch = row.epoch + 1, !.gcAfter = FALSE]
  BY DEF Claimed
<1> QED BY <1>1, <1>2 DEF RowKept, RowOK, ChunkRow

LEMMA PublishedKept ==
    ASSUME NEW row \in ChunkRow, NEW b \in Backends, row.ref = 0
    PROVE  RowKept(row, Published(row, b))
<1>1. b # NoBackend
  BY StoreAssumption DEF StoreAssumption
<1> QED BY <1>1 DEF Published, RowKept, RowOK, ChunkRow

LEMMA FailedKept ==
    ASSUME NEW row \in ChunkRow, NEW b, row.ref = 0
    PROVE  RowKept(row, Failed(row, b))
  BY DEF Failed, RowKept, RowOK, ChunkRow

LEMMA DiscardedKept ==
    ASSUME NEW row \in ChunkRow, row.ref = 0
    PROVE  RowKept(row, Discarded(row))
  BY DEF Discarded, RowKept, RowOK, ChunkRow

\* The same, transaction by transaction.
LEMMA UnchangedKept ==
    ASSUME RefInv, chunk' = chunk PROVE RowsKept
  BY DEF RefInv, RowsOK, RowsKept, RowKept

LEMMA InitOrResumeKept ==
    ASSUME RefInv, NEW u \in Uploads, InitOrResume(u) PROVE RowsKept
<1>1. \A c \in ChunksOf(FileOf[u]) : Reservable(chunk[c], u)
  BY DEF InitOrResume, ChunksOf, ChunkOf, Parts
<1>2. ASSUME NEW c \in Chunks PROVE RowKept(chunk[c], chunk'[c])
  <2>1. chunk[c] \in ChunkRow /\ RowOK(chunk[c])
    BY DEF RefInv, TypeOK, RowsOK
  <2>2. CASE c \in ChunksOf(FileOf[u])
    BY <1>1, <2>1, <2>2, ReferencedRow, ReservedKept DEF InitOrResume
  <2>3. CASE c \notin ChunksOf(FileOf[u])
    BY <2>1, <2>3 DEF InitOrResume, RowKept
  <2> QED BY <2>2, <2>3
<1> QED BY <1>2 DEF RowsKept

\* One row is replaced and the others stand.
LEMMA OneRowKept ==
    ASSUME RefInv, NEW c \in Chunks, NEW row, RowKept(chunk[c], row),
           chunk' = [chunk EXCEPT ![c] = row]
    PROVE  RowsKept
<1>1. \A x \in Chunks : chunk'[x] = IF x = c THEN row ELSE chunk[x]
  BY DEF RefInv, TypeOK
<1>2. \A x \in Chunks : RowKept(chunk[x], chunk[x])
  BY DEF RefInv, RowsOK, RowKept
<1> QED BY <1>1, <1>2 DEF RowsKept

LEMMA PartCallKept ==
    ASSUME RefInv, NEW u \in Uploads, NEW i \in Index, NEW e,
           NEW b \in Backends \cup {NoBackend},
           \/ ClaimPartUpload(u, i)
           \/ b \in Backends /\ RecordPartBackend(u, i, e, b)
           \/ b \in Backends /\ MarkPartReady(u, i, e, b)
           \/ MarkPartFailed(u, i, e, b)
    PROVE  RowsKept
<1> DEFINE c == ChunkOf(u, i)
<1>1. c \in Chunks /\ chunk[c] \in ChunkRow /\ RowOK(chunk[c])
  BY DeclaredPart
  DEF ClaimPartUpload, RecordPartBackend, CanRecord, MarkPartReady, CanPublish,
      MarkPartFailed, CanFail, Holds, RefInv, TypeOK, RowsOK
<1>2. CASE ClaimPartUpload(u, i)
  <2>1. chunk[c].ref = 0
    BY <1>2 DEF ClaimPartUpload, Claimable, RowOf
  <2>2. RowKept(chunk[c], Claimed(chunk[c], u))
    BY <1>1, <2>1, ClaimedKept
  <2> QED BY <1>1, <1>2, <2>2, OneRowKept, UnchangedKept DEF ClaimPartUpload
<1>3. CASE b \in Backends /\ RecordPartBackend(u, i, e, b)
  <2>1. chunk[c].ref = 0 /\ chunk[c].state = "UPLOADING"
    BY <1>3 DEF RecordPartBackend, CanRecord, RowOf
  <2>2. RowKept(chunk[c], [chunk[c] EXCEPT !.backend = b])
    BY <1>1, <2>1 DEF RowKept, RowOK, ChunkRow
  <2>3. chunk' = [chunk EXCEPT ![c] = [chunk[c] EXCEPT !.backend = b]]
    BY <1>3 DEF RecordPartBackend, RefInv, TypeOK
  <2> QED BY <1>1, <2>2, <2>3, OneRowKept
<1>4. CASE b \in Backends /\ MarkPartReady(u, i, e, b)
  <2>1. chunk[c].state = "UPLOADING"
    BY <1>4 DEF MarkPartReady, CanPublish, RowOf
  <2>2. RowKept(chunk[c], Published(chunk[c], b))
    BY <1>1, <1>4, <2>1, ReferencedRow, PublishedKept
  <2> QED BY <1>1, <1>4, <2>2, OneRowKept DEF MarkPartReady
<1>5. CASE MarkPartFailed(u, i, e, b)
  <2>1. chunk[c].ref = 0
    BY <1>5 DEF MarkPartFailed, CanFail, RowOf
  <2>2. RowKept(chunk[c], Failed(chunk[c], b))
    BY <1>1, <2>1, FailedKept
  <2> QED BY <1>1, <1>5, <2>2, OneRowKept DEF MarkPartFailed
<1> QED BY <1>2, <1>3, <1>4, <1>5

\* A transaction that gives back unreferenced rows and nothing else.
LEMMA DiscardKept ==
    ASSUME RefInv, NEW S, \A c \in Chunks \cap S : chunk[c].ref = 0,
           chunk' = [c \in Chunks |-> IF c \in S THEN Discarded(chunk[c])
                                      ELSE chunk[c]]
    PROVE  RowsKept
<1>1. \A c \in Chunks : chunk[c] \in ChunkRow /\ RowKept(chunk[c], chunk[c])
  BY DEF RefInv, TypeOK, RowsOK, RowKept
<1>2. \A c \in Chunks \cap S : RowKept(chunk[c], Discarded(chunk[c]))
  BY <1>1, DiscardedKept
<1> QED BY <1>1, <1>2 DEF RowsKept

LEMMA EndOfSessionKept ==
    ASSUME RefInv,
           \/ \E u \in Uploads : \E user : Abort(u, user)
           \/ \E u \in Uploads : \E d : CommitExisting(u, d)
           \/ \E expired : ReconcileExpiredUploads(expired)
    PROVE  RowsKept
<1>1. ASSUME NEW u \in Uploads, NEW user, Abort(u, user) PROVE RowsKept
  <2> DEFINE S == {c \in Chunks : GivenUp(u, c, session)}
  <2>1. \A c \in Chunks \cap S : chunk[c].ref = 0
    BY DEF GivenUp, Surplus
  <2>2. chunk' = [c \in Chunks |-> IF c \in S THEN Discarded(chunk[c])
                                   ELSE chunk[c]]
    BY <1>1 DEF Abort
  <2> HIDE DEF S
  <2> QED BY <2>1, <2>2, DiscardKept
<1>2. ASSUME NEW u \in Uploads, NEW d, CommitExisting(u, d)
      PROVE  RowsKept
  <2> DEFINE S == {c \in Chunks : Surplus(u, c, session)}
  <2>1. \A c \in Chunks \cap S : chunk[c].ref = 0
    BY DEF Surplus
  <2>2. chunk' = [c \in Chunks |-> IF c \in S THEN Discarded(chunk[c])
                                   ELSE chunk[c]]
    BY <1>2 DEF CommitExisting
  <2> HIDE DEF S
  <2> QED BY <2>1, <2>2, DiscardKept
<1>3. ASSUME NEW expired, ReconcileExpiredUploads(expired) PROVE RowsKept
  <2> DEFINE S == {c \in Chunks :
                     \E u \in Uploads : /\ session'[u] \in {"ABORTED", "EXPIRED"}
                                        /\ GivenUp(u, c, session')}
  <2>1. \A c \in Chunks \cap S : chunk[c].ref = 0
    BY DEF GivenUp, Surplus
  <2>2. chunk' = [c \in Chunks |-> IF c \in S THEN Discarded(chunk[c])
                                   ELSE chunk[c]]
    BY <1>3 DEF ReconcileExpiredUploads
  <2> HIDE DEF S
  <2> QED BY <2>1, <2>2, DiscardKept
<1> QED BY <1>1, <1>2, <1>3

LEMMA GcCallKept ==
    ASSUME RefInv,
           \/ \E stale, batch : ClaimGc(stale, batch)
           \/ \E c \in Chunks : FinishGcDeleted(c) \/ FinishGcRetry(c)
    PROVE  RowsKept
<1>1. ASSUME NEW stale, NEW batch, ClaimGc(stale, batch) PROVE RowsKept
  <2> SUFFICES ASSUME NEW c \in Chunks PROVE RowKept(chunk[c], chunk'[c])
    BY DEF RowsKept
  <2>1. chunk[c] \in ChunkRow /\ RowOK(chunk[c])
    BY DEF RefInv, TypeOK, RowsOK
  <2>2. CASE c \in batch
    <3>1. chunk[c].ref = 0 /\ chunk[c].gcAfter
      BY <1>1, <2>2 DEF ClaimGc, Eligible
    <3>2. chunk[c].state \in {"GC_PENDING", "DELETING"}
      BY <1>1, <2>2 DEF ClaimGc, Eligible
    <3>3. chunk'[c] = [chunk[c] EXCEPT !.state = "DELETING"]
      BY <1>1, <2>2 DEF ClaimGc
    <3> QED BY <2>1, <3>1, <3>2, <3>3 DEF RowKept, RowOK, ChunkRow
  <2>3. CASE c \notin batch /\ c \in stale
    <3>1. chunk[c].state = "DELETING" /\ chunk[c].ref = 0
      BY <1>1, <2>3, ReferencedRow DEF ClaimGc
    <3>2. chunk'[c] = [chunk[c] EXCEPT !.state = "GC_PENDING"]
      BY <1>1, <2>3 DEF ClaimGc
    <3> QED BY <2>1, <3>1, <3>2 DEF RowKept, RowOK, ChunkRow
  <2>4. CASE c \notin batch /\ c \notin stale
    BY <1>1, <2>1, <2>4 DEF ClaimGc, RowKept
  <2> QED BY <2>2, <2>3, <2>4
<1>2. ASSUME NEW c \in Chunks, FinishGcDeleted(c) PROVE RowsKept
  <2>1. CASE chunk[c].state = "DELETING" /\ chunk[c].ref = 0
    <3>1. RowKept(chunk[c], NoChunkRow)
      BY <2>1 DEF RowKept, RowOK, NoChunkRow
    <3> QED BY <1>2, <2>1, <3>1, OneRowKept DEF FinishGcDeleted
  <2>2. CASE ~(chunk[c].state = "DELETING" /\ chunk[c].ref = 0)
    <3>1. chunk' = chunk
      BY <1>2, <2>2 DEF FinishGcDeleted, RefInv, TypeOK
    <3> QED BY <3>1, UnchangedKept
  <2> QED BY <2>1, <2>2
<1>3. ASSUME NEW c \in Chunks, FinishGcRetry(c) PROVE RowsKept
  <2>1. chunk[c] \in ChunkRow /\ RowOK(chunk[c]) /\ chunk[c].state = "DELETING"
    BY <1>3 DEF RefInv, TypeOK, RowsOK, FinishGcRetry
  <2>2. RowKept(chunk[c], [chunk[c] EXCEPT !.state = "GC_PENDING"])
    BY <2>1, ReferencedRow DEF RowKept, RowOK, ChunkRow
  <2>3. chunk' = [chunk EXCEPT ![c] = [chunk[c] EXCEPT !.state = "GC_PENDING"]]
    BY <1>3 DEF FinishGcRetry, RefInv, TypeOK
  <2> QED BY <2>2, <2>3, OneRowKept
<1> QED BY <1>1, <1>2, <1>3

LEMMA LeaseKept ==
    ASSUME RefInv, NEW c \in Chunks, LeaseExpires(c) PROVE RowsKept
<1>1. chunk[c] \in ChunkRow /\ RowOK(chunk[c]) /\ chunk[c].lease = "live"
  BY DEF RefInv, TypeOK, RowsOK, LeaseExpires
<1>2. RowKept(chunk[c], [chunk[c] EXCEPT !.lease = "expired"])
  BY <1>1 DEF RowKept, RowOK, ChunkRow
<1>3. chunk' = [chunk EXCEPT ![c] = [chunk[c] EXCEPT !.lease = "expired"]]
  BY DEF LeaseExpires, RefInv, TypeOK
<1> QED BY <1>2, <1>3, OneRowKept

\* Tagged with a digest, positions stay as many as they are.
LEMMA TaggedCount ==
    ASSUME NEW d, NEW S, IsFiniteSet(S)
    PROVE  IsFiniteSet({d} \X S) /\ Cardinality({d} \X S) = Cardinality(S)
<1>1. IsFiniteSet({d}) /\ Cardinality({d}) = 1
  BY FS_Singleton
<1>2. /\ IsFiniteSet({d} \X S)
      /\ Cardinality({d} \X S) = Cardinality({d}) * Cardinality(S)
  BY <1>1, FS_Product
<1>3. Cardinality(S) \in Nat
  BY FS_CardinalityType
<1> QED BY <1>1, <1>2, <1>3

\* Adding one file's manifest rows to those of the others adds their number.
Disjoint(A, B) == A \cap B = {}

LEMMA DisjointCount ==
    ASSUME NEW A, NEW B, IsFiniteSet(A), IsFiniteSet(B), Disjoint(A, B)
    PROVE  Cardinality(A \cup B) = Cardinality(A) + Cardinality(B)
<1>1. Cardinality(A) \in Nat /\ Cardinality(B) \in Nat
  BY FS_CardinalityType
<1>2. Cardinality(A \cap B) = 0
  BY FS_EmptySet DEF Disjoint
<1>3. Cardinality(A \cup B) =
        Cardinality(A) + Cardinality(B) - Cardinality(A \cap B)
  BY FS_Union
<1> QED BY <1>1, <1>2, <1>3

\* The manifest rows of a file carry its digest.
LEMMA ReferencesTagged ==
    ASSUME NEW c, NEW d, NEW p \in ReferencesIn(d, c) PROVE p[1] = d
  BY DEF ReferencesIn

\* A first commit adds the manifest rows of the new file.
LEMMA CommitNewReferences ==
    ASSUME RefInv, NEW u \in Uploads, NEW c \in Chunks,
           CommitNew(u, DigestOf[FileOf[u]])
    PROVE  /\ References(c)' = References(c)
                 \cup ({DigestOf[FileOf[u]]} \X Occurrences(FileOf[u], c))
           /\ \A p \in References(c) : p[1] # DigestOf[FileOf[u]]
<1> DEFINE f == FileOf[u]
           d == DigestOf[f]
           row == [mode |-> "manifest", count |-> 1, source |-> f]
<1>1. d \in Digests
  BY DeclaredPart
<1>2. file' = [file EXCEPT ![d] = row] /\ file[d].mode = "none"
  BY DEF CommitNew
<1>3. \A x \in Digests : file'[x] = IF x = d THEN row ELSE file[x]
  BY <1>2 DEF RefInv, TypeOK
<1>4. \A x \in Digests \ {d} : ReferencesIn(x, c)' = ReferencesIn(x, c)
  BY <1>3 DEF ReferencesIn
<1>5. ReferencesIn(d, c) = {}
  BY <1>2 DEF ReferencesIn
<1>6. ReferencesIn(d, c)' = {d} \X Occurrences(f, c)
  BY <1>1, <1>3 DEF ReferencesIn
<1>7. \A p \in References(c) : p[1] # d
  BY <1>5, ReferencesTagged DEF References
<1>8. References(c)' = References(c) \cup ({d} \X Occurrences(f, c))
  BY <1>1, <1>4, <1>5, <1>6 DEF References
<1> QED BY <1>7, <1>8

LEMMA CommitNewStep ==
    ASSUME RefInv, TypeOK', ManifestSources', NEW u \in Uploads,
           CommitNew(u, DigestOf[FileOf[u]])
    PROVE  RefInv'
<1> DEFINE f == FileOf[u]
           d == DigestOf[f]
           more(c) == Cardinality(Occurrences(f, c))
<1>1. f \in Files
  BY DeclaredPart
<1>2. ASSUME NEW c \in Chunks, c \in ChunksOf(f)
      PROVE  /\ chunk'[c].ref = chunk[c].ref + more(c)
             /\ chunk'[c].state = "READY" /\ chunk[c].state = "READY"
             /\ chunk'[c].backend = chunk[c].backend
             /\ chunk'[c].owner = chunk[c].owner
             /\ chunk'[c].lease = chunk[c].lease
  <2>1. chunk[c] \in ChunkRow /\ chunk[c].state = "READY"
    BY <1>2 DEF RefInv, TypeOK, CommitNew, ChunksOf, Parts, ChunkOf, RowOf
  <2>2. chunk'[c] = [chunk[c] EXCEPT !.ref = chunk[c].ref + more(c),
                                     !.gcAfter = FALSE]
    BY <1>2 DEF CommitNew
  <2> HIDE DEF more
  <2> QED BY <2>1, <2>2 DEF ChunkRow
<1>3. \A c \in Chunks : c \notin ChunksOf(f) => chunk'[c] = chunk[c]
  BY DEF CommitNew
<1>4. ASSUME NEW c \in Chunks
      PROVE  chunk'[c].ref = Cardinality(References(c)')
  <2>1. IsFiniteSet(References(c)) /\ IsFiniteSet(Occurrences(f, c))
    BY <1>1, ReferencesFinite, OccurrencesFinite DEF RefInv
  <2>2. Cardinality(References(c)') = Cardinality(References(c)) + more(c)
    <3>1. /\ References(c)' = References(c) \cup ({d} \X Occurrences(f, c))
          /\ \A p \in References(c) : p[1] # d
      BY CommitNewReferences
    <3> DEFINE A == References(c)
               B == {d} \X Occurrences(f, c)
    <3>2. /\ IsFiniteSet(A) /\ IsFiniteSet(B) /\ Disjoint(A, B)
          /\ Cardinality(B) = more(c)
      BY <2>1, <3>1, TaggedCount DEF Disjoint
    <3> HIDE DEF A, B
    <3>3. Cardinality(A \cup B) = Cardinality(A) + Cardinality(B)
      BY <3>2, DisjointCount
    <3> QED BY <3>1, <3>2, <3>3 DEF A, B
  <2>3. chunk[c].ref = Cardinality(References(c)) /\ chunk[c].ref \in Nat
    BY DEF RefInv, RefCountExact, TypeOK, ChunkRow
  <2>4. CASE c \in ChunksOf(f)
    BY <1>2, <2>2, <2>3, <2>4
  <2>5. CASE c \notin ChunksOf(f)
    <3>1. more(c) = 0
      BY <1>1, <2>5, OccurrencesFinite, FS_EmptySet
    <3> QED BY <1>3, <2>2, <2>3, <2>5, <3>1
  <2> QED BY <2>4, <2>5
<1>5. ASSUME NEW c \in Chunks, References(c)' # {}
      PROVE  /\ chunk'[c].state = "READY"
             /\ chunk'[c].backend # NoBackend
             /\ chunk'[c].owner = NoUpload
  <2>1. CASE c \in ChunksOf(f)
    BY <1>2, <2>1 DEF RefInv, RowsOK, RowOK
  <2>2. CASE c \notin ChunksOf(f)
    <3>1. Occurrences(f, c) = {}
      BY <1>1, <2>2, OccurrencesFinite
    <3>2. References(c) # {}
      BY <1>5, <3>1, CommitNewReferences
    <3> QED BY <1>3, <2>2, <3>2 DEF RefInv, ReferencedReady
  <2> QED BY <2>1, <2>2
<1>6. ASSUME NEW c \in Chunks PROVE RowOK(chunk'[c])
  BY <1>2, <1>3 DEF RefInv, RowsOK, RowOK
<1> HIDE DEF f, more
<1> QED BY <1>4, <1>5, <1>6 DEF RefInv, RefCountExact, ReferencedReady, RowsOK

\* The last delete takes the manifest rows of its file and no others.
LEMMA DropManifestReferences ==
    ASSUME RefInv, NEW d \in Digests, file[d].mode = "manifest",
           NEW c \in Chunks, DropManifest(d)
    PROVE  /\ References(c) = References(c)'
                 \cup ({d} \X Occurrences(file[d].source, c))
           /\ \A p \in References(c)' : p[1] # d
<1>1. file' = [file EXCEPT ![d] = NoFileRow]
  BY DEF DropManifest
<1>2. \A x \in Digests : file'[x] = IF x = d THEN NoFileRow ELSE file[x]
  BY <1>1 DEF RefInv, TypeOK
<1>3. \A x \in Digests \ {d} : ReferencesIn(x, c)' = ReferencesIn(x, c)
  BY <1>2 DEF ReferencesIn
<1>4. ReferencesIn(d, c) = {d} \X Occurrences(file[d].source, c)
  BY DEF ReferencesIn
<1>5. ReferencesIn(d, c)' = {}
  BY <1>2 DEF ReferencesIn, NoFileRow
<1>6. References(c)' = UNION {ReferencesIn(x, c) : x \in Digests \ {d}}
  BY <1>3, <1>5 DEF References
<1>7. \A p \in References(c)' : p[1] # d
  BY <1>6, ReferencesTagged
<1>8. References(c) = References(c)' \cup ({d} \X Occurrences(file[d].source, c))
  BY <1>4, <1>6 DEF References
<1> QED BY <1>7, <1>8

LEMMA DropManifestStep ==
    ASSUME RefInv, TypeOK', ManifestSources', NEW d \in Digests,
           file[d].mode = "manifest", DropManifest(d)
    PROVE  RefInv'
<1> DEFINE f == file[d].source
           uses(c) == Cardinality(Occurrences(f, c))
<1>1. f \in Files
  BY DEF RefInv, ManifestSources
<1>2. ASSUME NEW c \in Chunks
      PROVE  /\ chunk[c].ref = Cardinality(References(c)') + uses(c)
             /\ Cardinality(References(c)') \in Nat
             /\ Cardinality(References(c)') = 0 <=> References(c)' = {}
             /\ uses(c) \in Nat
             /\ c \notin ChunksOf(f) => uses(c) = 0
             /\ c \in ChunksOf(f) => uses(c) > 0
  <2>1. IsFiniteSet(References(c)) /\ IsFiniteSet(Occurrences(f, c))
    BY <1>1, ReferencesFinite, OccurrencesFinite DEF RefInv
  <2>2. References(c)' \subseteq References(c)
    BY DropManifestReferences
  <2>3. IsFiniteSet(References(c)')
    BY <2>1, <2>2, FS_Subset
  <2>4. Cardinality(References(c)) = Cardinality(References(c)') + uses(c)
    <3>1. /\ References(c) = References(c)' \cup ({d} \X Occurrences(f, c))
          /\ \A p \in References(c)' : p[1] # d
      BY DropManifestReferences
    <3> DEFINE A == References(c)'
               B == {d} \X Occurrences(f, c)
    <3>2. /\ IsFiniteSet(A) /\ IsFiniteSet(B) /\ Disjoint(A, B)
          /\ Cardinality(B) = uses(c)
      BY <2>1, <2>3, <3>1, TaggedCount DEF Disjoint
    <3> HIDE DEF A, B
    <3>3. Cardinality(A \cup B) = Cardinality(A) + Cardinality(B)
      BY <3>2, DisjointCount
    <3> QED BY <3>1, <3>2, <3>3 DEF A, B
  <2>5. chunk[c].ref = Cardinality(References(c))
    BY DEF RefInv, RefCountExact
  <2> QED
    BY <1>1, <2>3, <2>4, <2>5, OccurrencesFinite, FS_EmptySet, FS_CardinalityType
<1>3. ASSUME NEW c \in Chunks
      PROVE  chunk[c] \in ChunkRow /\ RowOK(chunk[c])
  BY DEF RefInv, TypeOK, RowsOK
<1>4. ASSUME NEW c \in Chunks, uses(c) > 0
      PROVE  /\ chunk[c].state = "READY"
             /\ chunk[c].owner = NoUpload
             /\ chunk[c].lease = "none"
  <2>1. chunk[c].ref # 0
    BY <1>2, <1>4
  <2> QED BY <1>3, <2>1, ReferencedRow DEF RowOK
<1>5. ASSUME NEW c \in Chunks, c \in ChunksOf(f), chunk[c].ref > uses(c)
      PROVE  /\ chunk'[c].ref = chunk[c].ref - uses(c)
             /\ chunk'[c].state = chunk[c].state
             /\ chunk'[c].backend = chunk[c].backend
             /\ chunk'[c].owner = chunk[c].owner
             /\ RowOK(chunk'[c])
  <2>1. chunk'[c] = [chunk[c] EXCEPT !.ref = chunk[c].ref - uses(c)]
    BY <1>5 DEF DropManifest
  <2> HIDE DEF uses
  <2> QED BY <1>3, <2>1 DEF ChunkRow, RowOK
<1>6. ASSUME NEW c \in Chunks, c \in ChunksOf(f), ~(chunk[c].ref > uses(c))
      PROVE  chunk'[c].ref = 0 /\ RowOK(chunk'[c])
  <2>1. chunk'[c] = [chunk[c] EXCEPT !.ref = 0, !.state = "GC_PENDING",
                                     !.gcAfter = TRUE]
    BY <1>6 DEF DropManifest
  <2>2. chunk[c].owner = NoUpload /\ chunk[c].lease = "none"
    BY <1>2, <1>4, <1>6
  <2> QED BY <1>3, <2>1, <2>2 DEF ChunkRow, RowOK
<1>7. ASSUME NEW c \in Chunks, c \notin ChunksOf(f)
      PROVE  chunk'[c] = chunk[c]
  BY <1>7 DEF DropManifest
<1> HIDE DEF uses, f
<1>8. ASSUME NEW c \in Chunks
      PROVE  chunk'[c].ref = Cardinality(References(c)') /\ RowOK(chunk'[c])
  BY <1>2, <1>3, <1>5, <1>6, <1>7
<1>9. ASSUME NEW c \in Chunks, References(c)' # {}
      PROVE  /\ chunk'[c].state = "READY"
             /\ chunk'[c].backend # NoBackend
             /\ chunk'[c].owner = NoUpload
  <2>1. References(c) # {}
    BY <1>9, DropManifestReferences
  <2>2. /\ chunk[c].state = "READY"
        /\ chunk[c].backend # NoBackend
        /\ chunk[c].owner = NoUpload
    BY <2>1 DEF RefInv, ReferencedReady
  <2> QED BY <1>2, <1>5, <1>7, <1>9, <2>2
<1> QED BY <1>8, <1>9 DEF RefInv, RefCountExact, ReferencedReady, RowsOK

----------------------------------------------------------------------------

LEMMA RefInvInit == ASSUME Init PROVE RefInv
<1>1. TypeOK /\ ManifestSources
  BY InitType DEF Init, ManifestSources, NoFileRow
<1>2. \A c \in Chunks : chunk[c] = NoChunkRow
  BY DEF Init
<1>3. \A d \in Digests, c \in Chunks : ReferencesIn(d, c) = {}
  BY DEF Init, ReferencesIn, NoFileRow
<1>4. \A c \in Chunks : References(c) = {}
  BY <1>3 DEF References
<1> QED
  BY <1>1, <1>2, <1>4, FS_EmptySet
  DEF RefInv, RowsOK, RowOK, NoChunkRow, RefCountExact, ReferencedReady

LEMMA RefInvNext == ASSUME RefInv, Next PROVE RefInv'
<1>1. TypeOK' /\ ManifestSources'
  BY NextType, ManifestSourcesStep DEF RefInv
<1>2. CASE SameManifests /\ RowsKept
  BY <1>1, <1>2, RowsKeptStep
<1>3. ASSUME NEW u \in Uploads, CommitNew(u, DigestOf[FileOf[u]])
      PROVE  RefInv'
  BY <1>1, <1>3, CommitNewStep
<1>4. ASSUME NEW user \in Users, NEW d \in Digests, NEW n \in Names,
             DeleteObjectForUser(user, d, n), DropManifest(d)
      PROVE  RefInv'
  BY <1>1, <1>4, DropManifestStep DEF DeleteObjectForUser, ReleaseFile, Unshare
<1>5. ASSUME SameManifests PROVE RefInv'
  <2>1. CASE UploadCalls
    <3>1. ASSUME NEW u \in Uploads, InstantHit(u) PROVE RowsKept
      BY <3>1, UnchangedKept DEF InstantHit
    <3>2. ASSUME NEW u \in Uploads, Commit(u),
                 ~CommitNew(u, DigestOf[FileOf[u]])
          PROVE  RowsKept
      BY <3>2, EndOfSessionKept DEF Commit
    <3> QED
      BY <1>2, <1>3, <1>5, <2>1, <3>1, <3>2, InitOrResumeKept, EndOfSessionKept
      DEF UploadCalls
  <2>2. CASE PartCalls
    BY <1>2, <1>5, <2>2, PartCallKept DEF PartCalls
  <2>3. CASE GcCalls
    BY <1>2, <1>5, <2>3, EndOfSessionKept, GcCallKept DEF GcCalls
  <2>4. CASE FileCalls
    <3>1. ASSUME NEW user \in Users, NEW d \in Digests, NEW n \in Names,
                 DeleteObjectForUser(user, d, n), ~DropManifest(d)
          PROVE  RowsKept
      BY <3>1, DeleteManifests, UnchangedKept DEF RefInv
    <3> QED BY <1>2, <1>4, <1>5, <2>4, <3>1 DEF FileCalls
  <2>5. CASE \/ \E c \in Chunks : LeaseExpires(c)
             \/ \E t \in Tasks : TaskDone(t)
    BY <1>2, <1>5, <2>5, LeaseKept, UnchangedKept DEF TaskDone
  <2> QED BY <2>1, <2>2, <2>3, <2>4, <2>5 DEF Next
<1> QED BY <1>3, <1>4, <1>5, ManifestSteps DEF RefInv

LEMMA RefInvariant == Spec => []RefInv
<1>1. Init => RefInv
  BY RefInvInit
<1>2. RefInv /\ [Next]_tables => RefInv'
  <2>1. CASE UNCHANGED tables
    BY <2>1 DEF tables, ownership, RefInv, TypeOK, ManifestSources, RowsOK,
                RefCountExact, ReferencedReady, References, ReferencesIn
  <2> QED BY <2>1, RefInvNext
<1> QED BY <1>1, <1>2, PTL DEF Spec

\* ref_count is the number of manifest rows that refer to the chunk, whatever
\* calls are made, in any order, with whatever arguments.
THEOREM RefCountsExact == Spec => []RefCountExact
<1>1. RefInv => RefCountExact
  BY DEF RefInv
<1> QED BY <1>1, RefInvariant, PTL

\* A chunk a committed file refers to stays READY with its blob: no abort,
\* expiry, late failure report or GC cycle takes it.
THEOREM ReferencesSafe == Spec => []ReferencedReady
<1>1. RefInv => ReferencedReady
  BY DEF RefInv
<1> QED BY <1>1, RefInvariant, PTL

\* Every row waiting for GC or held by it has the gc_after by which the scan
\* finds it, and owner and lease go together with the upload.
THEOREM GcFindsItsRows == Spec => []GcScheduled
<1>1. RefInv => GcScheduled
  BY DEF RefInv, RowsOK, RowOK, GcScheduled
<1> QED BY <1>1, RefInvariant, PTL

----------------------------------------------------------------------------
(* Sessions, GC and the lease epoch.                                       *)

\* A missing row starts over with epoch 0.
FreshRow(row) == row.state = "NONE" => row.epoch = 0
FreshRows == \A c \in Chunks : FreshRow(chunk[c])

\* How the epoch of one row moves while the row exists.
EpochMoves(old, new) ==
    new.state # "NONE" =>
      /\ new.epoch >= old.epoch
      /\ (old.owner # new.owner /\ new.owner # NoUpload /\ old.state # "NONE")
           => new.epoch > old.epoch

\* What a step that is not GC's does to a row: it neither removes it nor
\* hands it to GC.
RowStands(old, new) ==
    /\ FreshRow(new)
    /\ EpochMoves(old, new)
    /\ new.state = "NONE" => old.state = "NONE"
    /\ new.state = "DELETING" => old.state = "DELETING"
RowsStand == \A c \in Chunks : RowStands(chunk[c], chunk'[c])

LEMMA ReservedStands ==
    ASSUME NEW row \in ChunkRow, FreshRow(row), NEW u \in Uploads,
           Reservable(row, u)
    PROVE  /\ RowStands(row, Reserved(row, u))
           /\ Reserved(row, u).state \notin {"NONE", "DELETING"}
<1>1. row.epoch \in Nat /\ row.state # "DELETING"
  BY StoreAssumption DEF ChunkRow, Reservable, StoreAssumption
<1>2. CASE row.state = "NONE"
  <2>1. Reserved(row, u) =
          [NoChunkRow EXCEPT !.state = "UPLOADING", !.owner = u,
                             !.lease = "live"]
    BY <1>2 DEF Reserved, Bumps
  <2> QED BY <1>2, <2>1 DEF RowStands, EpochMoves, FreshRow, NoChunkRow
<1>3. CASE row.state = "UPLOADING" /\ row.owner = u
  <2>1. Reserved(row, u) = [row EXCEPT !.lease = "live"]
    BY <1>3 DEF Reserved, Bumps
  <2> QED BY <1>1, <1>3, <2>1 DEF RowStands, EpochMoves, FreshRow, ChunkRow
<1>4. CASE Bumps(row, u)
  <2>1. row.state # "NONE" /\ ~(row.state = "UPLOADING" /\ row.owner = u)
    BY <1>4 DEF Bumps
  <2>2. Reserved(row, u) =
          [row EXCEPT !.state = "UPLOADING", !.owner = u, !.lease = "live",
                      !.epoch = row.epoch + 1]
    BY <1>4, <2>1 DEF Reserved
  <2> QED BY <1>1, <2>1, <2>2 DEF RowStands, EpochMoves, FreshRow, ChunkRow
<1>5. CASE /\ row.state # "NONE"
           /\ ~(row.state = "UPLOADING" /\ row.owner = u)
           /\ ~Bumps(row, u)
  <2>1. Reserved(row, u) = row
    BY <1>5 DEF Reserved
  <2> QED BY <1>1, <1>5, <2>1 DEF RowStands, EpochMoves, FreshRow
<1> QED BY <1>2, <1>3, <1>4, <1>5

LEMMA ClaimedStands ==
    ASSUME NEW row \in ChunkRow, NEW u PROVE RowStands(row, Claimed(row, u))
<1>1. row.epoch \in Nat
  BY StoreAssumption DEF ChunkRow, StoreAssumption
<1>2. Claimed(row, u) =
        [row EXCEPT !.state = "UPLOADING", !.owner = u, !.lease = "live",
                    !.epoch = row.epoch + 1, !.gcAfter = FALSE]
  BY DEF Claimed
<1> QED BY <1>1, <1>2 DEF RowStands, EpochMoves, FreshRow, ChunkRow

LEMMA ReleasedStands ==
    ASSUME NEW row \in ChunkRow, FreshRow(row), NEW b
    PROVE  /\ RowStands(row, row)
           /\ RowStands(row, Published(row, b))
           /\ RowStands(row, Failed(row, b))
           /\ RowStands(row, Discarded(row))
<1>1. row.epoch \in Nat
  BY StoreAssumption DEF ChunkRow, StoreAssumption
<1>2. RowStands(row, row)
  BY <1>1 DEF RowStands, EpochMoves, FreshRow
<1>3. RowStands(row, Published(row, b))
  BY <1>1 DEF RowStands, EpochMoves, FreshRow, Published, ChunkRow
<1>4. RowStands(row, Failed(row, b))
  BY <1>1 DEF RowStands, EpochMoves, FreshRow, Failed, ChunkRow
<1>5. RowStands(row, Discarded(row))
  BY <1>1 DEF RowStands, EpochMoves, FreshRow, Discarded, ChunkRow
<1> QED BY <1>2, <1>3, <1>4, <1>5

LEMMA OneRowStands ==
    ASSUME TypeOK, FreshRows, NEW c \in Chunks, NEW row,
           RowStands(chunk[c], row), chunk' = [chunk EXCEPT ![c] = row]
    PROVE  RowsStand
<1>1. \A x \in Chunks : chunk'[x] = IF x = c THEN row ELSE chunk[x]
  BY DEF TypeOK
<1>2. \A x \in Chunks : RowStands(chunk[x], chunk[x])
  BY ReleasedStands DEF TypeOK, FreshRows
<1> QED BY <1>1, <1>2 DEF RowsStand

LEMMA UnchangedStands ==
    ASSUME TypeOK, FreshRows, chunk' = chunk PROVE RowsStand
  BY ReleasedStands DEF TypeOK, FreshRows, RowsStand

\* A transaction that gives rows back and changes nothing else.
LEMMA DiscardStands ==
    ASSUME TypeOK, FreshRows, NEW S,
           chunk' = [c \in Chunks |-> IF c \in S THEN Discarded(chunk[c])
                                      ELSE chunk[c]]
    PROVE  RowsStand
  BY ReleasedStands DEF TypeOK, FreshRows, RowsStand

LEMMA EndOfSessionStands ==
    ASSUME TypeOK, FreshRows,
           \/ \E u \in Uploads : \E user : Abort(u, user)
           \/ \E u \in Uploads : \E d : CommitExisting(u, d)
           \/ \E expired : ReconcileExpiredUploads(expired)
    PROVE  RowsStand
<1>1. ASSUME NEW u \in Uploads, NEW user, Abort(u, user) PROVE RowsStand
  <2> DEFINE S == {c \in Chunks : GivenUp(u, c, session)}
  <2>1. chunk' = [c \in Chunks |-> IF c \in S THEN Discarded(chunk[c])
                                   ELSE chunk[c]]
    BY <1>1 DEF Abort
  <2> HIDE DEF S
  <2> QED BY <2>1, DiscardStands
<1>2. ASSUME NEW u \in Uploads, NEW d, CommitExisting(u, d)
      PROVE  RowsStand
  <2> DEFINE S == {c \in Chunks : Surplus(u, c, session)}
  <2>1. chunk' = [c \in Chunks |-> IF c \in S THEN Discarded(chunk[c])
                                   ELSE chunk[c]]
    BY <1>2 DEF CommitExisting
  <2> HIDE DEF S
  <2> QED BY <2>1, DiscardStands
<1>3. ASSUME NEW expired, ReconcileExpiredUploads(expired) PROVE RowsStand
  <2> DEFINE S == {c \in Chunks :
                     \E u \in Uploads : /\ session'[u] \in {"ABORTED", "EXPIRED"}
                                        /\ GivenUp(u, c, session')}
  <2>1. chunk' = [c \in Chunks |-> IF c \in S THEN Discarded(chunk[c])
                                   ELSE chunk[c]]
    BY <1>3 DEF ReconcileExpiredUploads
  <2> HIDE DEF S
  <2> QED BY <2>1, DiscardStands
<1> QED BY <1>1, <1>2, <1>3

LEMMA PartCallStands ==
    ASSUME TypeOK, FreshRows, NEW u \in Uploads, NEW i \in Index, NEW e, NEW b,
           \/ ClaimPartUpload(u, i)
           \/ RecordPartBackend(u, i, e, b)
           \/ MarkPartReady(u, i, e, b)
           \/ MarkPartFailed(u, i, e, b)
    PROVE  RowsStand
<1> DEFINE c == ChunkOf(u, i)
<1>1. c \in Chunks /\ chunk[c] \in ChunkRow /\ FreshRow(chunk[c])
  BY DeclaredPart
  DEF ClaimPartUpload, RecordPartBackend, CanRecord, MarkPartReady, CanPublish,
      MarkPartFailed, CanFail, Holds, TypeOK, FreshRows
<1>2. CASE ClaimPartUpload(u, i)
  <2>1. RowStands(chunk[c], Claimed(chunk[c], u))
    BY <1>1, ClaimedStands
  <2> QED BY <1>1, <1>2, <2>1, OneRowStands, UnchangedStands DEF ClaimPartUpload
<1>3. CASE RecordPartBackend(u, i, e, b)
  <2>1. chunk[c].epoch \in Nat
    BY <1>1, StoreAssumption DEF ChunkRow, StoreAssumption
  <2>2. RowStands(chunk[c], [chunk[c] EXCEPT !.backend = b])
    BY <1>1, <2>1 DEF RowStands, EpochMoves, FreshRow, ChunkRow
  <2>3. chunk' = [chunk EXCEPT ![c] = [chunk[c] EXCEPT !.backend = b]]
    BY <1>3 DEF RecordPartBackend, TypeOK
  <2> QED BY <1>1, <2>2, <2>3, OneRowStands
<1>4. CASE MarkPartReady(u, i, e, b)
  BY <1>1, <1>4, ReleasedStands, OneRowStands DEF MarkPartReady
<1>5. CASE MarkPartFailed(u, i, e, b)
  BY <1>1, <1>5, ReleasedStands, OneRowStands DEF MarkPartFailed
<1> QED BY <1>2, <1>3, <1>4, <1>5

LEMMA InitOrResumeStands ==
    ASSUME TypeOK, FreshRows, NEW u \in Uploads, InitOrResume(u)
    PROVE  /\ RowsStand
           /\ \A c \in ChunksOf(FileOf[u]) :
                chunk'[c].state \notin {"NONE", "DELETING"}
<1>1. \A c \in ChunksOf(FileOf[u]) : Reservable(chunk[c], u)
  BY DEF InitOrResume, ChunksOf, ChunkOf, Parts
<1>2. ASSUME NEW c \in Chunks
      PROVE  /\ RowStands(chunk[c], chunk'[c])
             /\ c \in ChunksOf(FileOf[u])
                  => chunk'[c].state \notin {"NONE", "DELETING"}
  <2>1. chunk[c] \in ChunkRow /\ FreshRow(chunk[c])
    BY DEF TypeOK, FreshRows
  <2>2. CASE c \in ChunksOf(FileOf[u])
    BY <1>1, <2>1, <2>2, ReservedStands DEF InitOrResume
  <2>3. CASE c \notin ChunksOf(FileOf[u])
    BY <2>1, <2>3, ReleasedStands DEF InitOrResume
  <2> QED BY <2>2, <2>3
<1>3. ChunksOf(FileOf[u]) \subseteq Chunks
  BY DeclaredPart DEF ChunksOf, Parts, ChunkOf
<1> QED BY <1>2, <1>3 DEF RowsStand

LEMMA FileRowsStand ==
    ASSUME TypeOK, FreshRows,
           \/ \E u \in Uploads : \E d : CommitNew(u, d)
           \/ \E d : DropManifest(d)
    PROVE  RowsStand
<1>1. ASSUME NEW row \in ChunkRow, FreshRow(row), NEW n
      PROVE  /\ RowStands(row, [row EXCEPT !.ref = n, !.gcAfter = FALSE])
             /\ RowStands(row, [row EXCEPT !.ref = n])
             /\ RowStands(row, [row EXCEPT !.ref = 0, !.state = "GC_PENDING",
                                           !.gcAfter = TRUE])
  <2>1. row.epoch \in Nat
    BY StoreAssumption DEF ChunkRow, StoreAssumption
  <2>2. RowStands(row, [row EXCEPT !.ref = n, !.gcAfter = FALSE])
    BY <1>1, <2>1 DEF RowStands, EpochMoves, FreshRow, ChunkRow
  <2>3. RowStands(row, [row EXCEPT !.ref = n])
    BY <1>1, <2>1 DEF RowStands, EpochMoves, FreshRow, ChunkRow
  <2>4. RowStands(row, [row EXCEPT !.ref = 0, !.state = "GC_PENDING",
                                   !.gcAfter = TRUE])
    BY <1>1, <2>1 DEF RowStands, EpochMoves, FreshRow, ChunkRow
  <2> QED BY <2>2, <2>3, <2>4
<1>2. \A c \in Chunks : /\ chunk[c] \in ChunkRow /\ FreshRow(chunk[c])
                        /\ RowStands(chunk[c], chunk[c])
  BY ReleasedStands DEF TypeOK, FreshRows
<1>3. ASSUME NEW u \in Uploads, NEW d, CommitNew(u, d) PROVE RowsStand
  <2> DEFINE n(c) == chunk[c].ref + Cardinality(Occurrences(FileOf[u], c))
  <2>1. chunk' = [c \in Chunks |->
           IF c \in ChunksOf(FileOf[u])
           THEN [chunk[c] EXCEPT !.ref = n(c), !.gcAfter = FALSE]
           ELSE chunk[c]]
    BY <1>3 DEF CommitNew
  <2> HIDE DEF n
  <2> QED BY <1>1, <1>2, <2>1 DEF RowsStand
<1>4. ASSUME NEW d, DropManifest(d) PROVE RowsStand
  <2> DEFINE uses(c) == Cardinality(Occurrences(file[d].source, c))
             n(c) == chunk[c].ref - uses(c)
  <2>1. chunk' = [c \in Chunks |->
           IF c \notin ChunksOf(file[d].source) THEN chunk[c]
           ELSE IF chunk[c].ref > uses(c)
           THEN [chunk[c] EXCEPT !.ref = n(c)]
           ELSE [chunk[c] EXCEPT !.ref = 0, !.state = "GC_PENDING",
                                 !.gcAfter = TRUE]]
    BY <1>4 DEF DropManifest
  <2> HIDE DEF n, uses
  <2> QED BY <1>1, <1>2, <2>1 DEF RowsStand
<1> QED BY <1>3, <1>4

LEMMA GcRows ==
    ASSUME TypeOK, FreshRows,
           \/ \E stale, batch : ClaimGc(stale, batch)
           \/ \E c \in Chunks : FinishGcDeleted(c) \/ FinishGcRetry(c)
    PROVE  \A c \in Chunks : /\ FreshRow(chunk'[c])
                             /\ EpochMoves(chunk[c], chunk'[c])
<1>1. \A c \in Chunks : /\ chunk[c] \in ChunkRow /\ FreshRow(chunk[c])
                        /\ EpochMoves(chunk[c], chunk[c])
  BY ReleasedStands DEF TypeOK, FreshRows, RowStands
<1>2. ASSUME NEW row \in ChunkRow, NEW s \in {"DELETING", "GC_PENDING"}
      PROVE  /\ FreshRow([row EXCEPT !.state = s])
             /\ EpochMoves(row, [row EXCEPT !.state = s])
  <2>1. row.epoch \in Nat
    BY StoreAssumption DEF ChunkRow, StoreAssumption
  <2> QED BY <1>2, <2>1 DEF EpochMoves, FreshRow, ChunkRow
<1>3. ASSUME NEW stale, NEW batch, ClaimGc(stale, batch), NEW c \in Chunks
      PROVE  FreshRow(chunk'[c]) /\ EpochMoves(chunk[c], chunk'[c])
  BY <1>1, <1>2, <1>3 DEF ClaimGc
<1>4. ASSUME NEW c \in Chunks, FinishGcDeleted(c), NEW x \in Chunks
      PROVE  FreshRow(chunk'[x]) /\ EpochMoves(chunk[x], chunk'[x])
  <2>1. FreshRow(NoChunkRow) /\ EpochMoves(chunk[c], NoChunkRow)
    BY DEF FreshRow, EpochMoves, NoChunkRow
  <2>2. chunk'[x] = IF x = c /\ chunk[c].state = "DELETING" /\ chunk[c].ref = 0
                    THEN NoChunkRow ELSE chunk[x]
    BY <1>4 DEF FinishGcDeleted, TypeOK
  <2> QED BY <1>1, <2>1, <2>2
<1>5. ASSUME NEW c \in Chunks, FinishGcRetry(c), NEW x \in Chunks
      PROVE  FreshRow(chunk'[x]) /\ EpochMoves(chunk[x], chunk'[x])
  <2>1. chunk'[x] = IF x = c THEN [chunk[c] EXCEPT !.state = "GC_PENDING"]
                    ELSE chunk[x]
    BY <1>5 DEF FinishGcRetry, TypeOK
  <2> QED BY <1>1, <1>2, <2>1
<1> QED BY <1>3, <1>4, <1>5

LEMMA LeaseStands ==
    ASSUME TypeOK, FreshRows, NEW c \in Chunks, LeaseExpires(c)
    PROVE  RowsStand
<1>1. chunk[c] \in ChunkRow /\ FreshRow(chunk[c])
  BY DEF TypeOK, FreshRows
<1>2. chunk[c].epoch \in Nat
  BY <1>1, StoreAssumption DEF ChunkRow, StoreAssumption
<1>3. RowStands(chunk[c], [chunk[c] EXCEPT !.lease = "expired"])
  BY <1>1, <1>2 DEF RowStands, EpochMoves, FreshRow, ChunkRow
<1>4. chunk' = [chunk EXCEPT ![c] = [chunk[c] EXCEPT !.lease = "expired"]]
  BY DEF LeaseExpires, TypeOK
<1> QED BY <1>3, <1>4, OneRowStands

\* GC's calls are the only ones that remove rows or take them for deletion.
GcRowStep ==
    \/ \E stale, batch : ClaimGc(stale, batch)
    \/ \E c \in Chunks : FinishGcDeleted(c) \/ FinishGcRetry(c)

LEMMA RowsStandOrGc ==
    ASSUME TypeOK, FreshRows, Next PROVE RowsStand \/ GcRowStep
<1>1. CASE UploadCalls
  <2>1. ASSUME NEW u \in Uploads, Commit(u) PROVE RowsStand
    BY <2>1, FileRowsStand, EndOfSessionStands DEF Commit
  <2>2. ASSUME NEW u \in Uploads, InstantHit(u) PROVE RowsStand
    BY <2>2, UnchangedStands DEF InstantHit
  <2> QED
    BY <1>1, <2>1, <2>2, InitOrResumeStands, EndOfSessionStands DEF UploadCalls
<1>2. CASE PartCalls
  BY <1>2, PartCallStands DEF PartCalls
<1>3. CASE GcCalls
  BY <1>3, EndOfSessionStands DEF GcCalls, GcRowStep
<1>4. CASE FileCalls
  <2>1. ASSUME NEW user, NEW d, NEW n, DeleteObjectForUser(user, d, n)
        PROVE  RowsStand
    BY <2>1, FileRowsStand, UnchangedStands
    DEF DeleteObjectForUser, ReleaseFile, Unshare
  <2> QED BY <1>4, <2>1 DEF FileCalls
<1>5. CASE \/ \E c \in Chunks : LeaseExpires(c)
           \/ \E t \in Tasks : TaskDone(t)
  BY <1>5, LeaseStands, UnchangedStands DEF TaskDone
<1> QED BY <1>1, <1>2, <1>3, <1>4, <1>5 DEF Next

LEMMA EpochStep ==
    ASSUME TypeOK, FreshRows, Next
    PROVE  \A c \in Chunks : /\ FreshRow(chunk'[c])
                             /\ EpochMoves(chunk[c], chunk'[c])
  BY RowsStandOrGc, GcRows DEF RowsStand, RowStands, GcRowStep

\* lease_epoch fences: it never falls while the row exists and a takeover
\* always raises it, so a stale owner is told from the current one.
THEOREM EpochsFence == Spec => EpochFences
<1> DEFINE Inv == RefInv /\ FreshRows
           Moves == \A c \in Chunks : EpochMoves(chunk[c], chunk'[c])
<1>1. Init => Inv
  BY RefInvInit DEF Init, FreshRows, FreshRow, NoChunkRow
<1>2. Inv /\ [Next]_tables => Inv'
  <2>1. CASE UNCHANGED tables
    BY <2>1 DEF tables, ownership, RefInv, TypeOK, ManifestSources, RowsOK,
                RefCountExact, ReferencedReady, References, ReferencesIn,
                FreshRows
  <2>2. CASE Next
    BY <2>2, RefInvNext, EpochStep DEF RefInv, FreshRows
  <2> QED BY <2>1, <2>2
<1>3. Inv /\ [Next]_tables => [Moves]_tables
  BY EpochStep DEF RefInv
<1>4. Spec => [][Moves]_tables
  <2> HIDE DEF Moves, Inv
  <2> QED BY <1>1, <1>2, <1>3, PTL DEF Spec
<1> QED BY <1>4 DEF EpochFences, EpochMoves

\* What a step leaves of the sessions that are active after it: they were
\* active before, with the same parts.
SessionsStand ==
    \A u \in Uploads : session'[u] \in ActiveStates =>
        /\ session[u] \in ActiveStates
        /\ \A i \in Parts(u) :
             /\ part'[u][i].bound = part[u][i].bound
             /\ part'[u][i].state = "NONE" => part[u][i].state = "NONE"

\* What stands between GC and the active sessions.
SessionInv == RefInv /\ FreshRows /\ ActivePartsBound /\ DeletingIsUnwanted

\* GC holds no row that is referred to: ref_count protects the committed
\* files, and the bound parts protect the sessions that are under way.
Unreferenced ==
    \A c \in Chunks : chunk[c].state = "DELETING" => chunk[c].ref = 0

LEMMA DeletingUnreferenced == RefInv' => Unreferenced'
<1>1. RefInv => Unreferenced
  BY ReferencedRow DEF Unreferenced
<1> QED BY <1>1, PTL

LEMMA SessionsStandStep ==
    ASSUME SessionInv, RefInv', FreshRows', RowsStand, SessionsStand
    PROVE  SessionInv'
<1>1. \A u \in Uploads : \A i \in Parts(u) : ChunkOf(u, i) \in Chunks
  BY DeclaredPart
<1>2. ActivePartsBound'
  <2> SUFFICES ASSUME NEW u \in Uploads, session'[u] \in ActiveStates,
                      NEW i \in Parts(u)
               PROVE  /\ part'[u][i].state # "NONE"
                      /\ part'[u][i].bound
                      /\ chunk'[ChunkOf(u, i)].state # "NONE"
    BY DEF ActivePartsBound, Bound, RowOf
  <2>1. /\ part[u][i].state # "NONE"
        /\ part[u][i].bound
        /\ chunk[ChunkOf(u, i)].state # "NONE"
    BY DEF SessionInv, ActivePartsBound, Bound, RowOf, SessionsStand
  <2> QED BY <1>1, <2>1 DEF SessionsStand, RowsStand, RowStands
<1>3. DeletingIsUnwanted'
  <2> SUFFICES ASSUME NEW c \in Chunks, chunk'[c].state = "DELETING",
                      NEW u \in Uploads, session'[u] \in ActiveStates,
                      NEW i \in Parts(u), part'[u][i].bound, ChunkOf(u, i) = c
               PROVE  FALSE
    BY DeletingUnreferenced
    DEF Unreferenced, DeletingIsUnwanted, WantedByActive, HasPartOn, Bound
  <2>1. chunk[c].state = "DELETING"
    BY DEF RowsStand, RowStands
  <2>2. session[u] \in ActiveStates /\ part[u][i].bound
    BY DEF SessionsStand
  <2> QED
    BY <2>1, <2>2
    DEF SessionInv, DeletingIsUnwanted, WantedByActive, HasPartOn, Bound
<1> QED BY <1>2, <1>3 DEF SessionInv

LEMMA SessionsUnchanged ==
    ASSUME session' = session, part' = part PROVE SessionsStand
  BY DEF SessionsStand

\* Steps that end sessions, or touch parts only to set their progress.
LEMMA EndedSessionsStand ==
    ASSUME TypeOK,
           \/ \E u \in Uploads : InstantHit(u) \/ Commit(u)
           \/ \E u \in Uploads : \E user : Abort(u, user)
           \/ \E expired : ReconcileExpiredUploads(expired)
    PROVE  SessionsStand
<1>1. ASSUME NEW u \in Uploads, InstantHit(u) \/ Commit(u)
      PROVE  SessionsStand
  <2>1. session' = [session EXCEPT ![u] = "COMMITTED"] /\ part' = part
    BY <1>1 DEF InstantHit, Commit
  <2> QED BY <2>1 DEF TypeOK, SessionsStand, ActiveStates
<1>2. ASSUME NEW u \in Uploads, NEW user, Abort(u, user) PROVE SessionsStand
  <2>1. /\ part' = part
        /\ session' = session \/ session' = [session EXCEPT ![u] = "ABORTED"]
    BY <1>2 DEF Abort, TypeOK
  <2> QED BY <2>1 DEF TypeOK, SessionsStand, ActiveStates
<1>3. ASSUME NEW expired, ReconcileExpiredUploads(expired)
      PROVE  SessionsStand
  BY <1>3 DEF ReconcileExpiredUploads, SessionsStand, ActiveStates
<1> QED BY <1>1, <1>2, <1>3

LEMMA PartCallsSessions ==
    ASSUME TypeOK, NEW u \in Uploads, NEW i \in Index, NEW e, NEW b,
           \/ ClaimPartUpload(u, i)
           \/ RecordPartBackend(u, i, e, b)
           \/ MarkPartReady(u, i, e, b)
           \/ MarkPartFailed(u, i, e, b)
    PROVE  SessionsStand
<1>1. \A v \in Uploads : \A j \in Parts(v) : j \in Index
  BY DeclaredPart
<1>2. \A row \in PartRow, s \in {"READY", "MISSING"} :
        /\ [row EXCEPT !.state = s].bound = row.bound
        /\ [row EXCEPT !.state = s].state = s
  BY DEF PartRow
<1>3. \A v \in Uploads, j \in Index : part[v][j] \in PartRow
  BY DEF TypeOK
<1>4. CASE ClaimPartUpload(u, i) \/ RecordPartBackend(u, i, e, b)
  BY <1>4, SessionsUnchanged DEF ClaimPartUpload, RecordPartBackend
<1>5. CASE MarkPartReady(u, i, e, b)
  BY <1>1, <1>2, <1>3, <1>5 DEF MarkPartReady, SessionsStand
<1>6. CASE MarkPartFailed(u, i, e, b)
  <2>1. session' = session /\ part' = [part EXCEPT ![u][i].state = "MISSING"]
    BY <1>6 DEF MarkPartFailed
  <2>2. \A v \in Uploads, j \in Index :
          part'[v][j] = IF v = u /\ j = i
                        THEN [part[u][i] EXCEPT !.state = "MISSING"]
                        ELSE part[v][j]
    BY <2>1 DEF TypeOK
  <2> QED BY <1>1, <1>2, <1>3, <2>1, <2>2 DEF SessionsStand
<1> QED BY <1>4, <1>5, <1>6

\* A session opened or resumed binds all its parts to rows GC does not hold.
LEMMA InitOrResumeSessions ==
    ASSUME SessionInv, RefInv', FreshRows', NEW u \in Uploads, InitOrResume(u)
    PROVE  SessionInv'
<1>1. /\ RowsStand
      /\ \A c \in ChunksOf(FileOf[u]) :
           chunk'[c].state \notin {"NONE", "DELETING"}
  BY InitOrResumeStands DEF SessionInv, RefInv
<1>2. \A i \in Parts(u) : i \in Index /\ ChunkOf(u, i) \in ChunksOf(FileOf[u])
  BY DeclaredPart DEF ChunksOf, Parts, ChunkOf
<1>3. \A i \in Parts(u) : part'[u][i].bound /\ part'[u][i].state # "NONE"
  BY <1>2 DEF InitOrResume, SessionInv, RefInv, TypeOK
<1>4. \A v \in Uploads \ {u} : session'[v] = session[v] /\ part'[v] = part[v]
  BY DEF InitOrResume, SessionInv, RefInv, TypeOK
<1>5. \A v \in Uploads : \A i \in Parts(v) : ChunkOf(v, i) \in Chunks
  BY DeclaredPart
<1>6. ActivePartsBound'
  <2> SUFFICES ASSUME NEW v \in Uploads, session'[v] \in ActiveStates,
                      NEW i \in Parts(v)
               PROVE  /\ part'[v][i].state # "NONE"
                      /\ part'[v][i].bound
                      /\ chunk'[ChunkOf(v, i)].state # "NONE"
    BY DEF ActivePartsBound, Bound, RowOf
  <2>1. CASE v = u
    BY <1>1, <1>2, <1>3, <2>1
  <2>2. CASE v # u
    <3>1. /\ part[v][i].state # "NONE"
          /\ part[v][i].bound
          /\ chunk[ChunkOf(v, i)].state # "NONE"
      BY <1>4, <2>2 DEF SessionInv, ActivePartsBound, Bound, RowOf
    <3> QED BY <1>1, <1>4, <1>5, <2>2, <3>1 DEF RowsStand, RowStands
  <2> QED BY <2>1, <2>2
<1>7. DeletingIsUnwanted'
  <2> SUFFICES ASSUME NEW c \in Chunks, chunk'[c].state = "DELETING",
                      NEW v \in Uploads, session'[v] \in ActiveStates,
                      NEW i \in Parts(v), part'[v][i].bound, ChunkOf(v, i) = c
               PROVE  FALSE
    BY DeletingUnreferenced
    DEF Unreferenced, DeletingIsUnwanted, WantedByActive, HasPartOn, Bound
  <2>1. v # u
    BY <1>1, <1>2
  <2>2. chunk[c].state = "DELETING"
    BY <1>1 DEF RowsStand, RowStands
  <2> QED
    BY <1>4, <2>1, <2>2
    DEF SessionInv, DeletingIsUnwanted, WantedByActive, HasPartOn, Bound
<1> QED BY <1>6, <1>7 DEF SessionInv

\* GC takes only rows no active session wants, and keeps the parts of the
\* active sessions when it removes one.
LEMMA GcSessions ==
    ASSUME SessionInv, RefInv', FreshRows', GcRowStep
    PROVE  SessionInv'
<1>1. ASSUME NEW stale, NEW batch, ClaimGc(stale, batch) PROVE SessionInv'
  <2>1. session' = session /\ part' = part
    BY <1>1 DEF ClaimGc
  <2>2. \A c \in Chunks : WantedByActive(c)' = WantedByActive(c)
    BY <2>1 DEF WantedByActive, HasPartOn, Bound
  <2>3. ASSUME NEW c \in Chunks
        PROVE  /\ chunk'[c].state = "NONE" => chunk[c].state = "NONE"
               /\ chunk'[c].state = "DELETING" => ~WantedByActive(c)
    <3>1. chunk[c] \in ChunkRow
      BY DEF SessionInv, RefInv, TypeOK
    <3>2. CASE c \in batch
      BY <1>1, <3>1, <3>2 DEF ClaimGc, Eligible, ChunkRow
    <3>3. CASE c \notin batch
      BY <1>1, <3>1, <3>3 DEF ClaimGc, ChunkRow, SessionInv, DeletingIsUnwanted
    <3> QED BY <3>2, <3>3
  <2>4. ActivePartsBound'
    BY <2>1, <2>3, DeclaredPart DEF SessionInv, ActivePartsBound, Bound, RowOf
  <2>5. DeletingIsUnwanted'
    BY <2>2, <2>3, DeletingUnreferenced DEF Unreferenced, DeletingIsUnwanted
  <2> QED BY <2>4, <2>5 DEF SessionInv
<1>2. ASSUME NEW c \in Chunks, FinishGcDeleted(c),
             chunk[c].state = "DELETING", chunk[c].ref = 0
      PROVE  SessionInv'
  <2>1. /\ session' = session
        /\ \A x \in Chunks : chunk'[x] = IF x = c THEN NoChunkRow ELSE chunk[x]
    BY <1>2 DEF FinishGcDeleted, SessionInv, RefInv, TypeOK
  <2>2. \A u \in Uploads : \A i \in Parts(u) : i \in Index /\ ChunkOf(u, i) \in Chunks
    BY DeclaredPart
  <2>3. \A u \in Uploads : \A i \in Parts(u) :
          session[u] \in ActiveStates => /\ Bound(u, i)
                                         /\ ChunkOf(u, i) # c
    BY <1>2 DEF SessionInv, DeletingIsUnwanted, WantedByActive, HasPartOn,
                ActivePartsBound
  <2>4. \A u \in Uploads : \A i \in Parts(u) :
          session[u] \in ActiveStates => part'[u][i] = part[u][i]
    BY <1>2, <2>2, <2>3 DEF FinishGcDeleted
  <2>5. ActivePartsBound'
    BY <2>1, <2>2, <2>3, <2>4 DEF SessionInv, ActivePartsBound, Bound, RowOf
  <2>6. DeletingIsUnwanted'
    <3> SUFFICES ASSUME NEW x \in Chunks, chunk'[x].state = "DELETING",
                        NEW u \in Uploads, session'[u] \in ActiveStates,
                        NEW i \in Parts(u), part'[u][i].bound, ChunkOf(u, i) = x
                 PROVE  FALSE
      BY DeletingUnreferenced
      DEF Unreferenced, DeletingIsUnwanted, WantedByActive, HasPartOn,
          Bound
    <3>1. chunk[x].state = "DELETING"
      BY <2>1 DEF NoChunkRow
    <3> QED
      BY <2>1, <2>4, <3>1
      DEF SessionInv, DeletingIsUnwanted, WantedByActive, HasPartOn, Bound
  <2> QED BY <2>5, <2>6 DEF SessionInv
<1>3. ASSUME NEW c \in Chunks, FinishGcDeleted(c),
             ~(chunk[c].state = "DELETING" /\ chunk[c].ref = 0)
      PROVE  SessionInv'
  <2>1. session' = session /\ chunk' = chunk
    BY <1>3 DEF FinishGcDeleted, SessionInv, RefInv, TypeOK
  <2>2. \A u \in Uploads, i \in Index :
          session[u] \in ActiveStates => part'[u][i] = part[u][i]
    BY <1>3 DEF FinishGcDeleted, ActiveStates
  <2>3. SessionsStand
    BY <2>1, <2>2, DeclaredPart DEF SessionsStand
  <2>4. RowsStand
    BY <2>1, UnchangedStands DEF SessionInv, RefInv
  <2> QED BY <2>3, <2>4, SessionsStandStep
<1>4. ASSUME NEW c \in Chunks, FinishGcRetry(c) PROVE SessionInv'
  <2>1. /\ session' = session /\ part' = part
        /\ \A x \in Chunks :
             chunk'[x] = IF x = c THEN [chunk[c] EXCEPT !.state = "GC_PENDING"]
                         ELSE chunk[x]
    BY <1>4 DEF FinishGcRetry, SessionInv, RefInv, TypeOK
  <2>2. RowsStand
    <3>1. chunk[c] \in ChunkRow /\ FreshRow(chunk[c])
      BY DEF SessionInv, RefInv, TypeOK, FreshRows
    <3>2. chunk[c].epoch \in Nat
      BY <3>1, StoreAssumption DEF ChunkRow, StoreAssumption
    <3>3. RowStands(chunk[c], [chunk[c] EXCEPT !.state = "GC_PENDING"])
      BY <3>1, <3>2 DEF RowStands, EpochMoves, FreshRow, ChunkRow
    <3>4. \A x \in Chunks : RowStands(chunk[x], chunk[x])
      BY ReleasedStands DEF SessionInv, RefInv, TypeOK, FreshRows
    <3> QED BY <2>1, <3>3, <3>4 DEF RowsStand
  <2> QED BY <2>1, <2>2, SessionsUnchanged, SessionsStandStep
<1> QED BY <1>1, <1>2, <1>3, <1>4 DEF GcRowStep

LEMMA SessionInvNext ==
    ASSUME SessionInv, Next PROVE SessionInv'
<1>1. TypeOK /\ FreshRows /\ RefInv' /\ FreshRows'
  BY RefInvNext, EpochStep DEF SessionInv, RefInv, FreshRows
<1>2. CASE GcRowStep
  BY <1>1, <1>2, GcSessions
<1>3. CASE RowsStand /\ SessionsStand
  BY <1>1, <1>3, SessionsStandStep
<1>4. CASE UploadCalls
  <2>1. ASSUME NEW u \in Uploads, InitOrResume(u) PROVE SessionInv'
    BY <1>1, <2>1, InitOrResumeSessions
  <2>2. ASSUME ~\E u \in Uploads : InitOrResume(u) PROVE SessionsStand
    BY <1>1, <1>4, <2>2, EndedSessionsStand DEF UploadCalls
  <2> QED BY <1>1, <1>2, <1>3, <2>1, <2>2, RowsStandOrGc
<1>5. CASE PartCalls
  BY <1>1, <1>2, <1>3, <1>5, PartCallsSessions, RowsStandOrGc DEF PartCalls
<1>6. CASE GcCalls
  BY <1>1, <1>2, <1>3, <1>6, EndedSessionsStand, RowsStandOrGc
  DEF GcCalls, GcRowStep
<1>7. CASE FileCalls
  <2>1. session' = session /\ part' = part
    BY <1>7 DEF FileCalls, DeleteObjectForUser
  <2> QED BY <1>1, <1>2, <1>3, <2>1, SessionsUnchanged, RowsStandOrGc
<1>8. CASE \/ \E c \in Chunks : LeaseExpires(c)
           \/ \E t \in Tasks : TaskDone(t)
  <2>1. session' = session /\ part' = part
    BY <1>8 DEF LeaseExpires, TaskDone
  <2> QED BY <1>1, <1>2, <1>3, <2>1, SessionsUnchanged, RowsStandOrGc
<1> QED BY <1>4, <1>5, <1>6, <1>7, <1>8 DEF Next

LEMMA SessionInvInit == ASSUME Init PROVE SessionInv
<1>1. RefInv /\ FreshRows
  BY RefInvInit DEF Init, FreshRows, FreshRow, NoChunkRow
<1>2. ActivePartsBound
  BY DEF Init, ActivePartsBound, ActiveStates
<1>3. DeletingIsUnwanted
  BY DEF Init, DeletingIsUnwanted, NoChunkRow
<1> QED BY <1>1, <1>2, <1>3 DEF SessionInv

LEMMA SessionInvariant == Spec => []SessionInv
<1>1. Init => SessionInv
  BY SessionInvInit
<1>2. SessionInv /\ [Next]_tables => SessionInv'
  <2>1. CASE UNCHANGED tables
    BY <2>1 DEF tables, ownership, SessionInv, RefInv, TypeOK, ManifestSources,
                RowsOK, RefCountExact, ReferencedReady, References,
                ReferencesIn, FreshRows, ActivePartsBound, Bound, RowOf,
                DeletingIsUnwanted, WantedByActive, HasPartOn
  <2> QED BY <2>1, SessionInvNext
<1> QED BY <1>1, <1>2, PTL DEF Spec

\* GC never holds a chunk that an active session has bound a part to, in
\* whatever order inits, commits, aborts and GC cycles interleave.
THEOREM GcLeavesWanted == Spec => []DeletingIsUnwanted
<1>1. SessionInv => DeletingIsUnwanted
  BY DEF SessionInv
<1> QED BY <1>1, SessionInvariant, PTL

\* An active session keeps every part it declared, bound to a row that is
\* there: neither GC nor another session's end takes one away before Commit.
THEOREM PartsStayBound == Spec => []ActivePartsBound
<1>1. SessionInv => ActivePartsBound
  BY DEF SessionInv
<1> QED BY <1>1, SessionInvariant, PTL
=============================================================================
