----------------------- MODULE ObjectCatalog_proofs -----------------------
(***************************************************************************)
(* What users see of the metadata store, proved for every value of its     *)
(* constants: the file counts of the listings are exact, and the store     *)
(* implements ObjectCatalog, the catalog without chunks and GC.            *)
(***************************************************************************)
EXTENDS MetadataStore_proofs

----------------------------------------------------------------------------
(* Counting relations.                                                     *)

\* The relations of a file or of a user are some of finitely many.
LEMMA RelationSets ==
    ASSUME IsFiniteSet(relation)
    PROVE  /\ \A d : /\ IsFiniteSet(RelationsOf(d))
                     /\ Cardinality(RelationsOf(d)) \in Nat
                     /\ Cardinality(RelationsOf(d)) = 0 <=> RelationsOf(d) = {}
           /\ \A user : /\ IsFiniteSet(OwnedBy(user))
                        /\ Cardinality(OwnedBy(user)) \in Nat
                        /\ Cardinality(OwnedBy(user)) = 0 <=> OwnedBy(user) = {}
<1>1. \A d : RelationsOf(d) \subseteq relation /\ OwnedBy(d) \subseteq relation
  BY DEF RelationsOf, OwnedBy
<1>2. \A d : IsFiniteSet(RelationsOf(d)) /\ IsFiniteSet(OwnedBy(d))
  BY <1>1, FS_Subset
<1> QED BY <1>2, FS_CardinalityType, FS_EmptySet

LEMMA RelationAdded ==
    ASSUME IsFiniteSet(relation), NEW r, relation' = relation \cup {r}
    PROVE  /\ IsFiniteSet(relation')
           /\ \A d : Cardinality(RelationsOf(d)') =
                IF r \notin relation /\ r[2] = d
                THEN Cardinality(RelationsOf(d)) + 1
                ELSE Cardinality(RelationsOf(d))
           /\ \A user : Cardinality(OwnedBy(user)') =
                IF r \notin relation /\ r[1] = user
                THEN Cardinality(OwnedBy(user)) + 1
                ELSE Cardinality(OwnedBy(user))
<1>1. \A d : /\ RelationsOf(d)' = IF r[2] = d THEN RelationsOf(d) \cup {r}
                                  ELSE RelationsOf(d)
             /\ r \in RelationsOf(d) <=> r \in relation /\ r[2] = d
  BY DEF RelationsOf
<1>2. \A user : /\ OwnedBy(user)' = IF r[1] = user THEN OwnedBy(user) \cup {r}
                                    ELSE OwnedBy(user)
                /\ r \in OwnedBy(user) <=> r \in relation /\ r[1] = user
  BY DEF OwnedBy
<1> QED BY <1>1, <1>2, RelationSets, FS_AddElement

LEMMA RelationRemoved ==
    ASSUME IsFiniteSet(relation), NEW r \in relation,
           relation' = relation \ {r}
    PROVE  /\ IsFiniteSet(relation')
           /\ \A d : Cardinality(RelationsOf(d)') =
                IF r[2] = d THEN Cardinality(RelationsOf(d)) - 1
                ELSE Cardinality(RelationsOf(d))
           /\ \A user : Cardinality(OwnedBy(user)') =
                IF r[1] = user THEN Cardinality(OwnedBy(user)) - 1
                ELSE Cardinality(OwnedBy(user))
<1>1. \A d : /\ RelationsOf(d)' = IF r[2] = d THEN RelationsOf(d) \ {r}
                                  ELSE RelationsOf(d)
             /\ r \in RelationsOf(d) <=> r[2] = d
  BY DEF RelationsOf
<1>2. \A user : /\ OwnedBy(user)' = IF r[1] = user THEN OwnedBy(user) \ {r}
                                    ELSE OwnedBy(user)
                /\ r \in OwnedBy(user) <=> r[1] = user
  BY DEF OwnedBy
<1> QED BY <1>1, <1>2, RelationSets, FS_RemoveElement

\* The counts agree with the relations, which are finitely many.  That a file
\* without relations has no row is what lets a first commit start from 1.
CountInv ==
    RefInv /\ IsFiniteSet(relation) /\ FileCountExact /\ UserCountExact

LEMMA CountFrame ==
    ASSUME CountInv, RefInv', relation' = relation, userCount' = userCount,
           file' = file
    PROVE  CountInv'
  BY DEF CountInv, FileCountExact, UserCountExact, RelationsOf, OwnedBy

\* A relation the call adds is counted for its user; what remains is to count
\* it for its file.
LEMMA AddedCount ==
    ASSUME CountInv, RefInv', NEW u \in Uploads, AddRelation(u),
           LET d == DigestOf[FileOf[u]]
           IN  /\ file'[d].mode # "none"
               /\ file'[d].count = file[d].count + IF New(u) THEN 1 ELSE 0
               /\ file[d].mode = "none" => New(u)
               /\ \A x \in Digests \ {d} : file'[x] = file[x]
    PROVE  CountInv'
<1> DEFINE r == RelationOf(u)
           d == DigestOf[FileOf[u]]
<1>1. relation' = relation \cup {r} /\ (New(u) <=> r \notin relation)
  BY DEF AddRelation, New
<1>2. r[1] = UserOf[u] /\ r[2] = d /\ UserOf[u] \in Users /\ d \in Digests
  BY DeclaredPart DEF RelationOf
<1>3. IsFiniteSet(relation) /\ IsFiniteSet(relation')
  BY <1>1, RelationAdded DEF CountInv
<1>4. UserCountExact'
  <2> SUFFICES ASSUME NEW user \in Users
               PROVE  userCount'[user] = Cardinality(OwnedBy(user)')
    BY DEF UserCountExact
  <2>1. userCount[user] = Cardinality(OwnedBy(user))
    BY DEF CountInv, UserCountExact
  <2>2. userCount'[user] = IF user = UserOf[u] /\ New(u)
                           THEN userCount[user] + 1 ELSE userCount[user]
    BY <1>2 DEF AddRelation, CountInv, RefInv, TypeOK
  <2>3. Cardinality(OwnedBy(user)') =
          IF r \notin relation /\ r[1] = user THEN Cardinality(OwnedBy(user)) + 1
          ELSE Cardinality(OwnedBy(user))
    BY <1>1, <1>3, RelationAdded
  <2> HIDE DEF r
  <2> QED BY <1>1, <1>2, <2>1, <2>2, <2>3
<1>5. FileCountExact'
  <2> SUFFICES ASSUME NEW x \in Digests
               PROVE  /\ file'[x].count = Cardinality(RelationsOf(x)')
                      /\ file'[x].mode = "none" <=> RelationsOf(x)' = {}
    BY DEF FileCountExact
  <2>1. /\ file[x].count = Cardinality(RelationsOf(x))
        /\ file[x].mode = "none" <=> RelationsOf(x) = {}
        /\ Cardinality(RelationsOf(x)) \in Nat
    BY <1>3, RelationSets DEF CountInv, FileCountExact
  <2>2. Cardinality(RelationsOf(x)') =
          IF r \notin relation /\ r[2] = x
          THEN Cardinality(RelationsOf(x)) + 1 ELSE Cardinality(RelationsOf(x))
    BY <1>1, <1>3, RelationAdded
  <2>3. x = d => r \in RelationsOf(x)'
    BY <1>1, <1>2 DEF RelationsOf
  <2>4. x # d => RelationsOf(x)' = RelationsOf(x)
    BY <1>1, <1>2 DEF RelationsOf
  <2>5. CASE x = d
    BY <1>1, <1>2, <2>1, <2>2, <2>3, <2>5
  <2>6. CASE x # d
    BY <1>2, <2>1, <2>4, <2>6
  <2> QED BY <2>5, <2>6
<1> QED BY <1>3, <1>4, <1>5 DEF CountInv

LEMMA InstantHitCount ==
    ASSUME CountInv, RefInv', NEW u \in Uploads, InstantHit(u) PROVE CountInv'
<1> DEFINE d == DigestOf[FileOf[u]]
           n == IF New(u) THEN file[d].count + 1 ELSE file[d].count
<1>1. d \in Digests /\ file[d] \in FileRow
  BY DeclaredPart DEF CountInv, RefInv, TypeOK
<1>2. file' = [file EXCEPT ![d] = [file[d] EXCEPT !.count = n]]
  BY <1>1 DEF InstantHit, CountInv, RefInv, TypeOK
<1>3. \A x \in Digests : file'[x] = IF x = d THEN [file[d] EXCEPT !.count = n]
                                    ELSE file[x]
  BY <1>2 DEF CountInv, RefInv, TypeOK
<1>4. file'[d].mode = file[d].mode /\ file'[d].count = n
  <2> HIDE DEF n
  <2> QED BY <1>1, <1>3 DEF FileRow
<1>5. n = file[d].count + IF New(u) THEN 1 ELSE 0
  BY <1>1 DEF FileRow
<1> QED BY <1>1, <1>3, <1>4, <1>5, AddedCount DEF InstantHit

LEMMA CommitCount ==
    ASSUME CountInv, RefInv', NEW u \in Uploads, Commit(u) PROVE CountInv'
<1> DEFINE d == DigestOf[FileOf[u]]
           n == IF New(u) THEN file[d].count + 1 ELSE file[d].count
<1>1. d \in Digests /\ file[d] \in FileRow
  BY DeclaredPart DEF CountInv, RefInv, TypeOK
<1>2. CASE CommitNew(u, d)
  <2>1. /\ file[d].mode = "none"
        /\ \A x \in Digests :
             file'[x] = IF x = d THEN [mode |-> "manifest", count |-> 1,
                                       source |-> FileOf[u]]
                        ELSE file[x]
    BY <1>2 DEF CommitNew, CountInv, RefInv, TypeOK
  <2>2. RelationsOf(d) = {} /\ file[d].count = 0
    BY <1>1, <2>1, FS_EmptySet DEF CountInv, FileCountExact
  <2>3. New(u)
    BY <2>2 DEF New, RelationOf, RelationsOf
  <2>4. file'[d].mode = "manifest" /\ file'[d].count = 1
    BY <1>1, <2>1
  <2> QED BY <1>1, <2>1, <2>2, <2>3, <2>4, AddedCount DEF Commit
<1>3. CASE CommitExisting(u, d)
  <2>1. file[d].mode # "none"
    BY <1>3 DEF CommitExisting
  <2>2. file' = [file EXCEPT ![d] = [file[d] EXCEPT !.count = n]]
    BY <1>1, <1>3 DEF CommitExisting, CountInv, RefInv, TypeOK
  <2>3. \A x \in Digests : file'[x] = IF x = d
                                      THEN [file[d] EXCEPT !.count = n]
                                      ELSE file[x]
    BY <2>2 DEF CountInv, RefInv, TypeOK
  <2>4. file'[d].mode = file[d].mode /\ file'[d].count = n
    <3> HIDE DEF n
    <3> QED BY <1>1, <2>3 DEF FileRow
  <2>5. n = file[d].count + IF New(u) THEN 1 ELSE 0
    BY <1>1 DEF FileRow
  <2> QED BY <1>1, <2>1, <2>3, <2>4, <2>5, AddedCount DEF Commit
<1> QED BY <1>2, <1>3 DEF Commit

\* What a delete does to the row of its file: the last relation takes it.
LEMMA DeletedFile ==
    ASSUME CountInv, NEW user \in Users, NEW d \in Digests, NEW n \in Names,
           DeleteObjectForUser(user, d, n)
    PROVE  /\ <<user, d, n>> \in relation
           /\ relation' = relation \ {<<user, d, n>>}
           /\ \A x \in Digests \ {d} : file'[x] = file[x]
           /\ RelationsOf(d)' # {} => /\ ~DropManifest(d)
                                      /\ file'[d].mode = file[d].mode
                                      /\ file'[d].count = file[d].count - 1
           /\ RelationsOf(d)' = {} => /\ DropManifest(d)
                                      /\ file[d].count = 1
                                      /\ file'[d] = NoFileRow
<1> DEFINE r == <<user, d, n>>
<1>1. r \in relation /\ relation' = relation \ {r}
  BY DEF DeleteObjectForUser
<1>2. file[d] \in FileRow /\ file[d].count = Cardinality(RelationsOf(d))
  BY DEF CountInv, FileCountExact, RefInv, TypeOK
<1>3. /\ Cardinality(RelationsOf(d)') = file[d].count - 1
      /\ Cardinality(RelationsOf(d)') \in Nat
      /\ Cardinality(RelationsOf(d)') = 0 <=> RelationsOf(d)' = {}
  <2>1. IsFiniteSet(relation)
    BY DEF CountInv
  <2>2. IsFiniteSet(RelationsOf(d)')
    <3>1. RelationsOf(d)' \subseteq relation
      BY <1>1 DEF RelationsOf
    <3> QED BY <2>1, <3>1, FS_Subset
  <2>3. Cardinality(RelationsOf(d)') = Cardinality(RelationsOf(d)) - 1
    BY <1>1, <2>1, RelationRemoved
  <2> QED BY <1>2, <2>2, <2>3, FS_CardinalityType, FS_EmptySet
<1>4. CASE file[d].count > 1
  <2>1. file' = [file EXCEPT ![d] = [file[d] EXCEPT !.count = file[d].count - 1]]
    BY <1>4 DEF DeleteObjectForUser, ReleaseFile, Unshare, CountInv, RefInv, TypeOK
  <2>2. \A x \in Digests :
          file'[x] = IF x = d THEN [file[d] EXCEPT !.count = file[d].count - 1]
                     ELSE file[x]
    BY <2>1 DEF CountInv, RefInv, TypeOK
  <2>3. /\ file'[d].mode = file[d].mode
        /\ file'[d].count = file[d].count - 1
    BY <1>2, <2>2 DEF FileRow
  <2>4. RelationsOf(d)' # {}
    BY <1>2, <1>3, <1>4 DEF FileRow
  <2>5. ~DropManifest(d)
    <3>1. file[d].mode # "none"
      BY DEF DeleteObjectForUser
    <3>2. ASSUME DropManifest(d) PROVE file'[d].mode = "none"
      <4>1. file' = [file EXCEPT ![d] = NoFileRow]
        BY <3>2 DEF DropManifest
      <4> QED BY <4>1 DEF NoFileRow, CountInv, RefInv, TypeOK
    <3> QED BY <2>3, <3>1, <3>2
  <2> QED BY <1>1, <2>2, <2>3, <2>4, <2>5
<1>5. CASE ~(file[d].count > 1)
  <2>1. file' = [file EXCEPT ![d] = NoFileRow] /\ DropManifest(d)
    BY <1>5 DEF DeleteObjectForUser, ReleaseFile, Unshare, DropManifest
  <2>2. \A x \in Digests : file'[x] = IF x = d THEN NoFileRow ELSE file[x]
    BY <2>1 DEF CountInv, RefInv, TypeOK
  <2>3. file[d].count \in Nat
    BY <1>2 DEF FileRow
  <2>4. RelationsOf(d)' = {} /\ file[d].count = 1
    BY <1>3, <1>5, <2>3
  <2> QED BY <1>1, <2>1, <2>2, <2>4
<1> QED BY <1>4, <1>5

LEMMA DeleteCount ==
    ASSUME CountInv, RefInv', NEW user \in Users, NEW d \in Digests,
           NEW n \in Names, DeleteObjectForUser(user, d, n)
    PROVE  CountInv'
<1> DEFINE r == <<user, d, n>>
<1>1. r \in relation /\ relation' = relation \ {r} /\ r[1] = user /\ r[2] = d
  BY DeletedFile
<1>2. IsFiniteSet(relation) /\ IsFiniteSet(relation')
  BY <1>1, RelationRemoved DEF CountInv
<1>3. UserCountExact'
  <2> SUFFICES ASSUME NEW x \in Users
               PROVE  userCount'[x] = Cardinality(OwnedBy(x)')
    BY DEF UserCountExact
  <2>1. /\ userCount[x] = Cardinality(OwnedBy(x))
        /\ Cardinality(OwnedBy(x)) \in Nat
        /\ Cardinality(OwnedBy(x)) = 0 <=> OwnedBy(x) = {}
    BY <1>2, RelationSets DEF CountInv, UserCountExact
  <2>2. x = user => OwnedBy(x) # {}
    BY <1>1 DEF OwnedBy
  <2>3. userCount'[x] = IF x = user /\ userCount[x] > 0
                        THEN userCount[x] - 1
                        ELSE IF x = user THEN 0 ELSE userCount[x]
    BY DEF DeleteObjectForUser, CountInv, RefInv, TypeOK
  <2>4. Cardinality(OwnedBy(x)') = IF r[1] = x THEN Cardinality(OwnedBy(x)) - 1
                                   ELSE Cardinality(OwnedBy(x))
    BY <1>1, <1>2, RelationRemoved
  <2> HIDE DEF r
  <2> QED BY <1>1, <2>1, <2>2, <2>3, <2>4
<1>4. FileCountExact'
  <2> SUFFICES ASSUME NEW x \in Digests
               PROVE  /\ file'[x].count = Cardinality(RelationsOf(x)')
                      /\ file'[x].mode = "none" <=> RelationsOf(x)' = {}
    BY DEF FileCountExact
  <2>1. /\ file[x].count = Cardinality(RelationsOf(x))
        /\ file[x].mode = "none" <=> RelationsOf(x) = {}
    BY DEF CountInv, FileCountExact
  <2>2. Cardinality(RelationsOf(x)') =
          IF r[2] = x THEN Cardinality(RelationsOf(x)) - 1
          ELSE Cardinality(RelationsOf(x))
    BY <1>1, <1>2, RelationRemoved
  <2>3. CASE x # d
    <3>1. RelationsOf(x)' = RelationsOf(x)
      BY <1>1, <2>3 DEF RelationsOf
    <3> QED BY <2>1, <2>3, <3>1, DeletedFile
  <2>4. CASE x = d /\ RelationsOf(x)' = {}
    <3>1. file'[x] = NoFileRow
      BY <2>4, DeletedFile
    <3>2. Cardinality(RelationsOf(x)') = 0
      BY <2>4, FS_EmptySet
    <3> QED BY <2>4, <3>1, <3>2 DEF NoFileRow
  <2>5. CASE x = d /\ RelationsOf(x)' # {}
    <3>1. file[d].mode # "none"
      BY DEF DeleteObjectForUser
    <3> QED BY <1>1, <2>1, <2>2, <2>5, <3>1, DeletedFile
  <2> QED BY <2>3, <2>4, <2>5
<1> QED BY <1>2, <1>3, <1>4 DEF CountInv

LEMMA CountInvInit == ASSUME Init PROVE CountInv
<1>1. RefInv /\ IsFiniteSet(relation)
  BY RefInvInit, StoreAssumption DEF Init, StoreAssumption
<1>2. UserCountExact
  BY DEF Init, UserCountExact, OwnedBy
<1>3. FileCountExact
  <2> SUFFICES ASSUME NEW d \in Digests
               PROVE  /\ file[d].count = Cardinality(RelationsOf(d))
                      /\ file[d].mode = "none" <=> RelationsOf(d) = {}
    BY DEF FileCountExact
  <2>1. RelationsOf(d) = LegacyOf(d)
    BY DEF Init, RelationsOf, LegacyOf
  <2>2. CASE LegacyOf(d) = {}
    BY <2>1, <2>2, FS_EmptySet DEF Init, NoFileRow
  <2>3. CASE LegacyOf(d) # {}
    BY <2>1, <2>3 DEF Init
  <2> QED BY <2>2, <2>3
<1> QED BY <1>1, <1>2, <1>3 DEF CountInv

\* The steps that add or remove no relation touch no count either.
LEMMA OtherSteps ==
    ASSUME Next,
           ~\E u \in Uploads : InstantHit(u) \/ Commit(u),
           ~\E user \in Users, d \in Digests, n \in Names :
              DeleteObjectForUser(user, d, n)
    PROVE  relation' = relation /\ userCount' = userCount /\ file' = file
<1>1. ownership' = ownership => relation' = relation /\ userCount' = userCount
  BY DEF ownership
<1>2. CASE UploadCalls
  BY <1>1, <1>2 DEF UploadCalls, InitOrResume, Abort
<1>3. CASE PartCalls
  BY <1>1, <1>3
  DEF PartCalls, ClaimPartUpload, RecordPartBackend, MarkPartReady,
      MarkPartFailed
<1>4. CASE GcCalls
  BY <1>1, <1>4
  DEF GcCalls, ReconcileExpiredUploads, ClaimGc, FinishGcDeleted, FinishGcRetry
<1>5. CASE \/ \E c \in Chunks : LeaseExpires(c)
           \/ \E t \in Tasks : TaskDone(t)
  BY <1>1, <1>5 DEF LeaseExpires, TaskDone
<1> QED BY <1>2, <1>3, <1>4, <1>5 DEF Next, FileCalls

LEMMA CountInvNext == ASSUME CountInv, Next PROVE CountInv'
<1>1. RefInv'
  BY RefInvNext DEF CountInv
<1>2. CASE \E u \in Uploads : InstantHit(u) \/ Commit(u)
  BY <1>1, <1>2, InstantHitCount, CommitCount
<1>3. CASE \E user \in Users, d \in Digests, n \in Names :
             DeleteObjectForUser(user, d, n)
  BY <1>1, <1>3, DeleteCount
<1> QED BY <1>1, <1>2, <1>3, OtherSteps, CountFrame

LEMMA CountInvariant == Spec => []CountInv
<1>1. Init => CountInv
  BY CountInvInit
<1>2. CountInv /\ [Next]_tables => CountInv'
  <2>1. ASSUME CountInv, UNCHANGED tables PROVE CountInv'
    <3>1. RefInv'
      BY <2>1 DEF tables, ownership, CountInv, RefInv, TypeOK, ManifestSources,
                  RowsOK, RefCountExact, ReferencedReady, References,
                  ReferencesIn
    <3> QED BY <2>1, <3>1, CountFrame DEF tables, ownership
  <2> QED BY <2>1, CountInvNext
<1> QED BY <1>1, <1>2, PTL DEF Spec

\* file_info.count is the number of the file's relations and the row is there
\* exactly while somebody owns the file, so only the last delete removes it.
THEOREM FileCountsExact == Spec => []FileCountExact
<1>1. CountInv => FileCountExact
  BY DEF CountInv
<1> QED BY <1>1, CountInvariant, PTL

\* user_file_count.count is the number of files the user owns.
THEOREM UserCountsExact == Spec => []UserCountExact
<1>1. CountInv => UserCountExact
  BY DEF CountInv
<1> QED BY <1>1, CountInvariant, PTL

----------------------------------------------------------------------------
(* The catalog is implemented.                                             *)

\* What a file reads back as by its file_info row alone.
ReadsAs(row) ==
    IF row.mode = "manifest"
    THEN [mode |-> "manifest", bytes |-> LayoutOf[row.source]]
    ELSE [mode |-> row.mode, bytes |-> <<>>]

ReadsWhole == \A d \in Digests : ContentOf(d) = ReadsAs(file[d])

\* A manifest has no gap: each of its chunks is referred to, hence READY.
LEMMA NoGaps == ASSUME RefInv PROVE ReadsWhole
<1> SUFFICES ASSUME NEW d \in Digests PROVE ContentOf(d) = ReadsAs(file[d])
  BY DEF ReadsWhole
<1>1. CASE file[d].mode = "manifest"
  <2> DEFINE layout == LayoutOf[file[d].source]
  <2>1. layout \in Seq(Chunks)
    BY <1>1, StoreAssumption DEF RefInv, ManifestSources, StoreAssumption
  <2>2. ASSUME NEW i \in DOMAIN layout
        PROVE  /\ layout[i] \in Chunks
               /\ chunk[layout[i]].state = "READY"
               /\ chunk[layout[i]].backend # NoBackend
    <3>1. layout[i] \in Chunks
      BY <2>1, <2>2
    <3>2. i \in Occurrences(file[d].source, layout[i])
      BY <2>2 DEF Occurrences
    <3>3. <<d, i>> \in ReferencesIn(d, layout[i])
      BY <1>1, <3>2 DEF ReferencesIn
    <3>4. References(layout[i]) # {}
      BY <3>3 DEF References
    <3> QED BY <3>1, <3>4 DEF RefInv, ReferencedReady
  <2> DEFINE read == [i \in DOMAIN layout |->
                        IF /\ chunk[layout[i]].state = "READY"
                           /\ chunk[layout[i]].backend # NoBackend
                        THEN layout[i] ELSE "gap"]
  <2>3. read = layout
    <3>1. layout = [i \in DOMAIN layout |-> layout[i]]
      BY <2>1
    <3> HIDE DEF layout
    <3> QED BY <2>2, <3>1
  <2>4. ContentOf(d) = [mode |-> file[d].mode, bytes |-> read]
    BY <1>1 DEF ContentOf
  <2> HIDE DEF read
  <2> QED BY <1>1, <2>3, <2>4 DEF ReadsAs
<1>2. CASE file[d].mode # "manifest"
  BY <1>2 DEF ContentOf, ReadsAs
<1> QED BY <1>1, <1>2

LEMMA NoGapsNext == RefInv' => ReadsWhole'
<1>1. RefInv => ReadsWhole
  BY NoGaps
<1> QED BY <1>1, PTL

\* While the manifests stand, so does what the files read back as.
LEMMA ContentStands ==
    ASSUME RefInv, RefInv', SameManifests
    PROVE  \A d \in Digests : ContentOf(d)' = ContentOf(d)
<1>1. ReadsWhole /\ ReadsWhole'
  BY NoGaps, NoGapsNext
<1>2. \A d \in Digests : ReadsAs(file'[d]) = ReadsAs(file[d])
  BY DEF SameManifests, ReadsAs
<1> QED BY <1>1, <1>2 DEF ReadsWhole

LEMMA CatalogInitially == ASSUME Init PROVE Catalog!CatalogInit
<1>1. \A d \in Digests : ContentOf(d) = ReadsAs(file[d])
  BY RefInvInit, NoGaps DEF ReadsWhole
<1>2. \A d \in Digests : (\E r \in LegacyRelations : r[2] = d)
                           <=> LegacyOf(d) # {}
  BY DEF LegacyOf
<1>3. ASSUME NEW d \in Digests
      PROVE  ReadsAs(file[d]) = IF LegacyOf(d) # {} THEN Catalog!LegacyContent
                                ELSE Catalog!NoContent
  BY DEF Init, ReadsAs, NoFileRow, Catalog!LegacyContent, Catalog!NoContent
<1> QED BY <1>1, <1>2, <1>3 DEF Init, Catalog!CatalogInit

\* An instant hit adds a relation to a file its user owned already.
LEMMA InstantHitUploads ==
    ASSUME RefInv, RefInv', NEW u \in Uploads, InstantHit(u)
    PROVE  Catalog!Upload(u)
<1> DEFINE d == DigestOf[FileOf[u]]
           content == [x \in Digests |-> ContentOf(x)]
<1>1. d \in Digests
  BY DeclaredPart
<1>2. \A x \in Digests : ContentOf(x)' = ContentOf(x)
  BY InstantHitManifests, ContentStands DEF RefInv
<1>3. content' = content
  BY <1>2
<1>4. ContentOf(d) # Catalog!NoContent
  BY DEF InstantHit, ContentOf, Catalog!NoContent
<1>5. relation' = relation \cup {<<UserOf[u], d, NameOf[u]>>}
  BY DEF InstantHit, AddRelation, RelationOf
<1>6. Catalog!Owns(UserOf[u], d)
  BY DEF InstantHit, Catalog!Owns
<1> QED BY <1>1, <1>3, <1>4, <1>5, <1>6 DEF Catalog!Upload

\* A commit uploads the declared bytes, the same bytes again, or a new name
\* for a legacy file its user owned already.
LEMMA CommitUploads ==
    ASSUME RefInv, RefInv', NEW u \in Uploads, Commit(u)
    PROVE  Catalog!Upload(u)
<1> DEFINE d == DigestOf[FileOf[u]]
           content == [x \in Digests |-> ContentOf(x)]
<1>1. d \in Digests
  BY DeclaredPart
<1>2. ReadsWhole /\ ReadsWhole'
  BY NoGaps, NoGapsNext
<1>3. relation' = relation \cup {<<UserOf[u], d, NameOf[u]>>}
  BY DEF Commit, AddRelation, RelationOf
<1>4. CASE CommitNew(u, d)
  <2>1. file[d].mode = "none"
        /\ \A x \in Digests :
             file'[x] = IF x = d THEN [mode |-> "manifest", count |-> 1,
                                       source |-> FileOf[u]]
                        ELSE file[x]
    BY <1>4 DEF CommitNew, RefInv, TypeOK
  <2>2. ContentOf(d) = Catalog!NoContent
    BY <2>1 DEF ContentOf, Catalog!NoContent
  <2>3. ContentOf(d)' = Catalog!Declared(u)
    BY <1>1, <1>2, <2>1 DEF ReadsWhole, ReadsAs, Catalog!Declared
  <2>4. \A x \in Digests \ {d} : ContentOf(x)' = ContentOf(x)
    BY <1>2, <2>1 DEF ReadsWhole
  <2>5. content' = [content EXCEPT ![d] = Catalog!Declared(u)]
    BY <1>1, <2>3, <2>4
  <2> QED BY <1>1, <1>3, <2>2, <2>5 DEF Catalog!Upload
<1>5. CASE CommitExisting(u, d)
  <2>1. \A x \in Digests : ContentOf(x)' = ContentOf(x)
    BY <1>1, <1>5, CommitExistingManifests, ContentStands DEF RefInv
  <2>2. content' = content
    BY <2>1
  <2>3. ContentOf(d) # Catalog!NoContent
    BY <1>5 DEF CommitExisting, ContentOf, Catalog!NoContent
  <2>4. ContentOf(d) = Catalog!Declared(u) \/ Catalog!Owns(UserOf[u], d)
    BY <1>1, <1>2, <1>5
    DEF CommitExisting, ReadsWhole, ReadsAs, Catalog!Declared, Catalog!Owns
  <2> QED BY <1>1, <1>3, <2>2, <2>3, <2>4 DEF Catalog!Upload
<1> QED BY <1>4, <1>5 DEF Commit

\* A delete takes the bytes with the last relation and no earlier.
LEMMA DeleteDeletes ==
    ASSUME CountInv, RefInv', NEW user \in Users, NEW d \in Digests,
           NEW n \in Names, DeleteObjectForUser(user, d, n)
    PROVE  \E r \in relation : Catalog!Delete(r)
<1> DEFINE r == <<user, d, n>>
           content == [x \in Digests |-> ContentOf(x)]
<1>1. r \in relation /\ relation' = relation \ {r} /\ r[2] = d
  BY DeletedFile
<1>2. content[d].mode = "manifest"
  BY DEF DeleteObjectForUser, ContentOf
<1>3. (\E s \in relation' : s[2] = d) <=> RelationsOf(d)' # {}
  BY DEF RelationsOf
<1>4. CASE RelationsOf(d)' # {}
  <2>1. SameManifests
    BY <1>4, DeletedFile, DeleteManifests DEF CountInv, RefInv
  <2>2. content' = content
    BY <2>1, ContentStands DEF CountInv
  <2>3. Catalog!Delete(r)
    BY <1>1, <1>2, <1>3, <1>4, <2>2 DEF Catalog!Delete
  <2> QED BY <1>1, <2>3
<1>5. CASE RelationsOf(d)' = {}
  <2>1. \A x \in Digests : file'[x] = IF x = d THEN NoFileRow ELSE file[x]
    BY <1>5, DeletedFile
  <2>2. ReadsWhole /\ ReadsWhole'
    BY NoGaps, NoGapsNext DEF CountInv
  <2>3. ContentOf(d)' = Catalog!NoContent
    BY <2>1, <2>2 DEF ReadsWhole, ReadsAs, NoFileRow, Catalog!NoContent
  <2>4. \A x \in Digests \ {d} : ContentOf(x)' = ContentOf(x)
    BY <2>1, <2>2 DEF ReadsWhole
  <2>5. content' = [content EXCEPT ![d] = Catalog!NoContent]
    BY <2>3, <2>4
  <2>6. Catalog!Delete(r)
    BY <1>1, <1>2, <1>3, <1>5, <2>5 DEF Catalog!Delete
  <2> QED BY <1>1, <2>6
<1> QED BY <1>4, <1>5

\* Every transaction of the store is an upload, a delete or nothing at all to
\* the catalog.
LEMMA CatalogStep ==
    ASSUME CountInv, CountInv', [Next]_tables
    PROVE  [Catalog!CatalogNext]_<<relation, [d \in Digests |-> ContentOf(d)]>>
<1>1. RefInv /\ RefInv'
  BY DEF CountInv
<1>2. CASE \E u \in Uploads : InstantHit(u) \/ Commit(u)
  BY <1>1, <1>2, InstantHitUploads, CommitUploads DEF Catalog!CatalogNext
<1>3. CASE \E user \in Users, d \in Digests, n \in Names :
             DeleteObjectForUser(user, d, n)
  BY <1>1, <1>3, DeleteDeletes DEF Catalog!CatalogNext
<1>4. ASSUME relation' = relation, file' = file
      PROVE  UNCHANGED <<relation, [d \in Digests |-> ContentOf(d)]>>
  <2>1. SameManifests
    BY <1>4 DEF SameManifests
  <2>2. \A d \in Digests : ContentOf(d)' = ContentOf(d)
    BY <1>1, <2>1, ContentStands
  <2> QED BY <1>4, <2>2
<1>5. CASE UNCHANGED tables
  BY <1>4, <1>5 DEF tables, ownership
<1> QED BY <1>2, <1>3, <1>4, <1>5, OtherSteps

\* The metadata store implements the catalog: the bytes of an owned digest
\* never have a gap and never change, they go with its last relation, and
\* naming a digest gains nobody a relation.  Parts, retries, aborts, expiries
\* and GC are steps the catalog does not see.
THEOREM StoreImplementsCatalog == Spec => ImplementsCatalog
<1>1. Init => Catalog!CatalogInit
  BY CatalogInitially
<1>2. CountInv /\ CountInv' /\ [Next]_tables
        => [Catalog!CatalogNext]_<<relation, [d \in Digests |-> ContentOf(d)]>>
  BY CatalogStep
<1> QED
  BY <1>1, <1>2, CountInvariant, PTL
  DEF Spec, ImplementsCatalog, Catalog!CatalogSpec
===========================================================================
