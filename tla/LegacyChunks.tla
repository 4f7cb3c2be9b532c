---------------------------- MODULE LegacyChunks ----------------------------
(***************************************************************************)
(* Uploads in chunks: chunk_init_cgi.c opens or resumes the upload of a    *)
(* digest in Redis, chunk_upload_cgi.c (several processes) puts a part     *)
(* file under /tmp/chunks and lists its index, chunk_merge_cgi.c appends   *)
(* the parts to one FastDFS file under a lock and binds it to the user.    *)
(***************************************************************************)
EXTENDS LegacyUploads

CONSTANT Uploaders   \* the chunk_upload processes

VARIABLES
    progress,   \* Redis hash chunk:<digest>
    mergeLock,  \* Redis key chunk_merge_lock:<digest>
    disk        \* part files under /tmp/chunks/<digest>

chunkVars == <<progress, mergeLock, disk>>

\* Fields of the hash: chunk_count and filesize, the uploaded_idx fields, the
\* list they are joined to, and whether the key has its 24 hours to live.
Progress == [known : BOOLEAN, index : SUBSET Whole, listed : SUBSET Whole,
             expires : BOOLEAN]
NewProgress == [known |-> FALSE, index |-> {}, listed |-> {},
                expires |-> FALSE]
NewLock == {TRUE}

ChunkInit ==
    /\ progress = [f \in Files |-> {}]
    /\ mergeLock = [f \in Files |-> {}]
    /\ disk = [f \in Files |-> {}]

\* HSET creates the key it does not find.
Hash(f) == IF progress[f] = {} THEN NewProgress ELSE Only(progress[f])
SetHash(c, row) == progress' = [progress EXCEPT ![req[c].file] = {row}]

---------------------------------------------------------------------------
(* chunk_init: an upload that has a key is resumed with the list it has.   *)

InitExists(c) ==
    /\ At(c, "InitExists")
    /\ IF progress[req[c].file] # {} THEN Ends(c) ELSE GoTo(c, "InitName")
    /\ OnlyReq /\ UNCHANGED chunkVars

\* filename and filesize
InitName(c) ==
    /\ At(c, "InitName")
    /\ SetHash(c, Hash(req[c].file))
    /\ GoTo(c, "InitKnown")
    /\ OnlyReq /\ UNCHANGED <<mergeLock, disk>>

\* chunk_count and user
InitKnown(c) ==
    /\ At(c, "InitKnown")
    /\ SetHash(c, [Hash(req[c].file) EXCEPT !.known = TRUE])
    /\ GoTo(c, "InitListed")
    /\ OnlyReq /\ UNCHANGED <<mergeLock, disk>>

InitListed(c) ==
    /\ At(c, "InitListed")
    /\ SetHash(c, [Hash(req[c].file) EXCEPT !.listed = {}])
    /\ GoTo(c, "InitExpire")
    /\ OnlyReq /\ UNCHANGED <<mergeLock, disk>>

\* EXPIRE of a key that is gone does nothing.
InitExpire(c) ==
    /\ At(c, "InitExpire")
    /\ progress' = [progress EXCEPT ![req[c].file] =
                        {[r EXCEPT !.expires = TRUE] : r \in @}]
    /\ Ends(c)
    /\ OnlyReq /\ UNCHANGED <<mergeLock, disk>>

\* The key runs out; the part files stay.
KeyExpires(f) ==
    /\ \E r \in progress[f] : r.expires
    /\ progress' = [progress EXCEPT ![f] = {}]
    /\ UNCHANGED <<legacyVars, mergeLock, disk>>

---------------------------------------------------------------------------
(* chunk_upload *)

\* The part appears whole: it is linked under its name once it is written.
PartWrite(c) ==
    /\ At(c, "PartWrite")
    /\ disk' = [disk EXCEPT ![req[c].file] = @ \cup {req[c].part}]
    /\ GoTo(c, "PartList")
    /\ OnlyReq /\ UNCHANGED <<progress, mergeLock>>

\* The script joins the list with every uploaded_idx field, in one step.
PartList(c) ==
    /\ At(c, "PartList")
    /\ LET r == Hash(req[c].file)
           all == r.index \cup {req[c].part}
       IN  SetHash(c, [r EXCEPT !.index = all, !.listed = @ \cup all])
    /\ Ends(c)
    /\ OnlyReq /\ UNCHANGED <<mergeLock, disk>>

---------------------------------------------------------------------------
(* chunk_merge *)

MergeLocked(c) ==
    /\ At(c, "MergeLocked")
    /\ IF mergeLock[req[c].file] # {}
       THEN Ends(c) /\ UNCHANGED mergeLock
       ELSE /\ mergeLock' = [mergeLock EXCEPT ![req[c].file] = NewLock]
            /\ req' = [req EXCEPT ![c].step = "MergeCount",
                                  ![c].after = "MergeClean"]
    /\ OnlyReq /\ UNCHANGED <<progress, disk>>

\* Mutant of MergeVerify: an incomplete upload keeps the lock.
VerifyKeeps(c) ==
    /\ At(c, "MergeVerify")
    /\ IF (\E r \in progress[req[c].file] : r.known)
          /\ Whole \subseteq disk[req[c].file]
       THEN req' = [req EXCEPT ![c].step = "MergePart",
                               ![c].after = "MergeForget"]
       ELSE Ends(c)
    /\ OnlyReq /\ UNCHANGED chunkVars

\* The hash has the number of chunks, and each is on disk.
MergeVerify(c) ==
    /\ At(c, "MergeVerify")
    /\ IF (\E r \in progress[req[c].file] : r.known)
          /\ Whole \subseteq disk[req[c].file]
       THEN req' = [req EXCEPT ![c].step = "MergePart",
                               ![c].after = "MergeForget"]
       ELSE Fails(c)
    /\ OnlyReq /\ UNCHANGED chunkVars

Merging(c) == {b \in stored : b.file = req[c].file /\ b.no = req[c].no}
Merged(c) == UNION {b.parts : b \in Merging(c)}

\* The part that was being appended stays on disk, those before it do not.
AppendFails(c) ==
    /\ At(c, "MergePart")
    /\ Fault
    /\ Fails(c)
    /\ UNCHANGED <<fileTables, shareTables, pictureTables, public, stored,
                   arriving>>

(***************************************************************************)
(* The first part makes the FastDFS file and the others are appended, each *)
(* removed from disk once it is in.                                        *)
(***************************************************************************)
MergePart(c) ==
    /\ At(c, "MergePart")
    /\ LET i == Cardinality(Merged(c)) + 1
       IN  /\ stored' = (stored \ Merging(c)) \cup
                {[file |-> req[c].file, no |-> req[c].no, parts |-> 1..i]}
           /\ disk' = [disk EXCEPT ![req[c].file] = @ \ {i}]
           /\ IF i = Parts THEN GoTo(c, "StoreOwned") ELSE UNCHANGED req
    /\ UNCHANGED <<fileTables, shareTables, pictureTables, public, arriving,
                   faults, progress, mergeLock>>

\* cleanup_chunk_upload_state: the key goes first, the files after it.
MergeClean(c) ==
    /\ At(c, "MergeClean")
    /\ progress' = [progress EXCEPT ![req[c].file] = {}]
    /\ GoTo(c, "MergeUnlink")
    /\ OnlyReq /\ UNCHANGED <<mergeLock, disk>>

MergeUnlink(c) ==
    /\ At(c, "MergeUnlink")
    /\ disk' = [disk EXCEPT ![req[c].file] = {}]
    /\ GoTo(c, "MergeRelease")
    /\ OnlyReq /\ UNCHANGED <<progress, mergeLock>>

MergeForget(c) ==
    /\ At(c, "MergeForget")
    /\ progress' = [progress EXCEPT ![req[c].file] = {}]
    /\ GoTo(c, "MergeRelease")
    /\ OnlyReq /\ UNCHANGED <<mergeLock, disk>>

\* The one process that merges holds the token of the lock, if there is one.
MergeRelease(c) ==
    /\ At(c, "MergeRelease")
    /\ mergeLock' = [mergeLock EXCEPT ![req[c].file] = {}]
    /\ Ends(c)
    /\ OnlyReq /\ UNCHANGED <<progress, disk>>

LockExpires(f) ==
    /\ mergeLock[f] # {}
    /\ mergeLock' = [mergeLock EXCEPT ![f] = {}]
    /\ UNCHANGED <<legacyVars, progress, disk>>

\* A statement of the lookup or of the store fails.
StatementFails(c) ==
    /\ req[c] # Idle
    /\ req[c].step \in {"MergeCount", "MergeOwned", "StoreInsert", "BindCount",
                        "BindRelation", "ReadOwned", "WriteOwned"}
    /\ Fault
    /\ Fails(c)
    /\ UNCHANGED <<fileTables, shareTables, pictureTables, public, stored,
                   arriving>>

\* The counter of a user cannot be read: the file is stored, not counted.
OwnedUnread(c) ==
    /\ req[c] # Idle
    /\ req[c].after = "MergeForget"
    /\ Misread(c, "ReadOwned", "MergeForget")

Merge(c) ==
    \/ MergeLocked(c) \/ MergeVerify(c) \/ MergePart(c)
    \/ MergeClean(c) \/ MergeUnlink(c) \/ MergeForget(c) \/ MergeRelease(c)
    \/ /\ \/ ReuseCount(c, "MergeCount", "MergeOwned", "MergeVerify")
          \/ ReuseOwned(c, "MergeOwned")
          \/ StoreInfo(c) \/ Bind(c) \/ AppendFails(c) \/ StatementFails(c)
          \/ OwnedUnread(c)
       /\ UNCHANGED chunkVars

ChunkInitProgram ==
    LET c == "chunk_init"
    IN  \/ Accept(c, {"InitExists"}) /\ UNCHANGED chunkVars
        \/ InitExists(c) \/ InitName(c) \/ InitKnown(c)
        \/ InitListed(c) \/ InitExpire(c)

ChunkUploadProgram ==
    \E c \in Uploaders :
        \/ Accept(c, {"PartWrite"}) /\ UNCHANGED chunkVars
        \/ PartWrite(c) \/ PartList(c)

ChunkMergeProgram ==
    LET c == "chunk_merge"
    IN  (Accept(c, {"MergeLocked"}) /\ UNCHANGED chunkVars) \/ Merge(c)
=============================================================================
