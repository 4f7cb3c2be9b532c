------------------------------ MODULE LegacyCgi ------------------------------
(***************************************************************************)
(* The legacy programs and the V2 gateway on one database.  The gateway's  *)
(* commit and delete are transactions; everything else interleaves by the  *)
(* statement.  A behaviour starts from a consistent library and a set of   *)
(* requests that arrive in any order.                                      *)
(***************************************************************************)
EXTENDS LegacyShares, LegacyChunks, SharedPictures

VARIABLES
    serial,   \* history: no request overlapped another, failed or was refused
              \* between two of its writes
    rebuilt,  \* history: the ranking has been rebuilt and nothing happened since
    kept,     \* history: files whose file_info outlived its blob, because the
              \* DELETE of a cancelled picture failed unnoticed
    twinned   \* history: a user has had two links of one url

cgiVars == <<legacyVars, chunkVars, serial, rebuilt, kept, twinned>>

Programs == {"dealfile", "dealsharefile", "sharefiles", "md5", "upload",
             "sharepicture", "chunk_init", "chunk_merge"} \cup Uploaders

\* One process serves one request at a time; only chunk_upload has several.
\* Each request has a number of its own, later than that of the blobs, links
\* and urls there are, a client numbers the parts of a file from its first to
\* its last, and the libraries have at most one share of a file.
ASSUME CgiAssumption ==
    /\ IsFiniteSet(Users) /\ IsFiniteSet(Files)
    /\ Uploaders \cap {"dealfile", "dealsharefile", "sharefiles", "md5",
                       "upload", "sharepicture", "chunk_init",
                       "chunk_merge"} = {}
    /\ \A w \in Workloads :
        /\ w.requests \subseteq Request
        /\ \A r \in w.requests :
            /\ r.no > FirstBlob
            /\ r.op = "PartWrite" => r.part \in Whole
        /\ \A r, s \in w.requests : r.no = s.no => r = s
        /\ w.library.shares \subseteq w.library.owns
        /\ w.library.owns \subseteq Users \X Files
        /\ \A p, q \in w.library.shares : p[2] = q[2] => p = q
        /\ w.library.links \subseteq PictureRow
        /\ IsFiniteSet(w.library.links)
        /\ \A p, q \in w.library.links : p.id = q.id => p = q
        /\ \A p \in w.library.links : \A r \in w.requests :
            p.id # r.no /\ p.url # r.no

Busy == {c \in Programs : req[c] # Idle}

(***************************************************************************)
(* A library: who owns and shares which file, the links to pictures, the   *)
(* manifest objects among the files, and whether Redis has the ranking.    *)
(***************************************************************************)
OwnersOf(lib, f) == {u \in Users : <<u, f>> \in lib.owns}
LinksOf(lib, f) == {p \in lib.links : p.file = f}
CountRow(S) == IF S = {} THEN {} ELSE {Cardinality(S)}

\* Two links of one user with one url.
Twins == \E p, q \in pictures : p # q /\ p.user = q.user /\ p.url = q.url

InfoOf(lib, f) ==
    LET n == Cardinality(OwnersOf(lib, f)) + Cardinality(LinksOf(lib, f))
    IN  IF n = 0 THEN {}
        ELSE {[count |-> n,
               blob |-> IF f \in lib.manifests THEN NoBlob ELSE FirstBlob]}

Init ==
    /\ \E w \in Workloads :
        LET lib == w.library
        IN  /\ arriving = w.requests
            /\ info = [f \in Files |-> InfoOf(lib, f)]
            /\ relation = [p \in Users \X Files |->
                    IF p \in lib.owns
                    THEN {[shared |-> p \in lib.shares, views |-> 0]} ELSE {}]
            /\ owned = [u \in Users |->
                            CountRow({p \in lib.owns : p[1] = u})]
            /\ total = CountRow(lib.shares)
            /\ shares = {[user |-> p[1], file |-> p[2], token |-> 0,
                          views |-> 0] : p \in lib.shares}
            /\ pictures = lib.links
            /\ pictureCount = [u \in Users |->
                                   CountRow({p \in lib.links : p.user = u})]
            /\ ranking = [f \in Files |->
                    IF lib.ranked /\ \E p \in lib.shares : p[2] = f
                    THEN {0} ELSE {}]
            /\ names = {f \in Files : ranking[f] # {}}
            /\ stored = {[file |-> f, no |-> FirstBlob, parts |-> Whole] :
                            f \in {g \in Files : \E r \in info[g] :
                                                    r.blob = FirstBlob}}
    /\ req = [c \in Programs |-> Idle]
    /\ faults = 0
    /\ ChunkInit
    /\ serial = TRUE /\ rebuilt = FALSE /\ kept = {} /\ twinned = Twins

---------------------------------------------------------------------------
(* The gateway on the tables it shares with the legacy programs. *)

Less1(rows) == {Less(n) : n \in rows}

Arrives(op) == {r \in arriving : r.op = op}
GatewayOnly == UNCHANGED <<pictureTables, public, stored, req, faults,
                           chunkVars>>

(***************************************************************************)
(* Commit: a new object gets a file_info row without a blob; an object     *)
(* that is there is counted up when the user did not have it.  A file of   *)
(* the legacy path is left to the users who own it.                        *)
(***************************************************************************)
V2Commit ==
    \E r \in Arrives("V2Commit") :
        /\ arriving' = arriving \ {r}
        /\ LET p == <<r.user, r.file>>
               new == relation[p] = {}
               legacy == \E i \in info[r.file] : i.blob # NoBlob
           IN  IF legacy \/ (~new /\ info[r.file] # {})
               THEN UNCHANGED fileTables
               ELSE /\ info' = [info EXCEPT ![r.file] =
                        IF @ = {} THEN {[count |-> 1, blob |-> NoBlob]}
                        ELSE {[i EXCEPT !.count = i.count + 1] : i \in @}]
                    /\ relation' = [relation EXCEPT ![p] =
                                        IF new THEN {NewRelation} ELSE @]
                    /\ owned' = [owned EXCEPT ![r.user] =
                                     IF new THEN CountedUp(@, @) ELSE @]
        /\ UNCHANGED shareTables /\ GatewayOnly

V2Delete ==
    \E r \in Arrives("V2Delete") :
        /\ arriving' = arriving \ {r}
        /\ LET p == <<r.user, r.file>>
               rows == {i \in info[r.file] : i.blob = NoBlob}
               own == {s \in SharesOf(r.file) : s.user = r.user}
           IN  IF rows = {} \/ relation[p] = {}
               THEN UNCHANGED <<fileTables, shareTables>>
               ELSE /\ relation' = [relation EXCEPT ![p] = {}]
                    /\ shares' = shares \ own
                    /\ total' = IF own = {} THEN total ELSE Less1(total)
                    /\ owned' = [owned EXCEPT ![r.user] = Less1(@)]
                    /\ info' = [info EXCEPT ![r.file] =
                            {[i EXCEPT !.count = i.count - 1] :
                                i \in {j \in rows : j.count > 1}}]
        /\ GatewayOnly

---------------------------------------------------------------------------

Crash(c) == Stops(c) /\ UNCHANGED chunkVars

\* A picture is refused after its row was inserted: its file is gone.
HalfShared == At("sharepicture", "PictureRead")
              /\ req["sharepicture"]' = Idle
DeleteSkipped == At("sharepicture", "DropInfo") /\ faults' # faults

Watch ==
    /\ serial' = (/\ serial /\ faults' = faults /\ ~HalfShared
                  /\ Cardinality(Busy') <= 1)
    /\ kept' = IF DeleteSkipped THEN kept \cup {req["sharepicture"].file}
               ELSE kept
    /\ twinned' = (twinned \/ Twins')

\* A rebuild counts from the clearing of the ranking, when it is by itself.
Rebuilding == At("sharefiles", "RankClear") /\ Busy = {"sharefiles"}

LegacyStep ==
    \/ (DealFile \/ DealShareFile \/ Md5Program \/ UploadProgram
        \/ PictureProgram) /\ UNCHANGED chunkVars
    \/ ChunkInitProgram \/ ChunkUploadProgram \/ ChunkMergeProgram
    \/ \E c \in Programs : Crash(c)

Next ==
    \/ LegacyStep /\ rebuilt' = FALSE /\ Watch
    \/ /\ ShareFiles /\ UNCHANGED chunkVars
       /\ rebuilt' = (faults' = faults /\ (rebuilt \/ Rebuilding))
       /\ Watch
    \/ /\ V2Commit \/ V2Delete
       /\ rebuilt' = FALSE
       /\ serial' = (serial /\ Busy = {})
       /\ UNCHANGED <<kept, twinned>>
    \/ /\ \E f \in Files : KeyExpires(f) \/ LockExpires(f)
       /\ UNCHANGED <<serial, rebuilt, kept, twinned>>

Spec == Init /\ [][Next]_cgiVars

---------------------------------------------------------------------------
(* Properties. *)

\* Counts are never negative, a public total may be; every row is well formed.
TypeOK ==
    /\ \A f \in Files :
        /\ IsRow(info[f], InfoRow) /\ IsRow(ranking[f], Nat)
        /\ IsRow(progress[f], Progress) /\ IsRow(mergeLock[f], NewLock)
    /\ \A p \in Users \X Files : IsRow(relation[p], RelationRow)
    /\ \A u \in Users : IsRow(owned[u], Nat) /\ IsRow(pictureCount[u], Nat)
    /\ IsRow(total, Int)
    /\ shares \subseteq ShareRow /\ pictures \subseteq PictureRow
    /\ names \subseteq Files /\ stored \subseteq Blob
    /\ disk \in [Files -> SUBSET Whole]

(***************************************************************************)
(* A file has at most one public share, whoever owns it, while no          *)
(* statement fails: share_file asks Redis, which may have lost the member  *)
(* or miss it, and then MySQL.  (A failed lookup in MySQL is taken for a   *)
(* file nobody shares.)                                                    *)
(***************************************************************************)
OneShare == faults = 0 => \A f \in Files : Cardinality(SharesOf(f)) <= 1

(***************************************************************************)
(* Requests that are served one after the other leave the counters exact:  *)
(* file_info.count is the number of owners and picture links of the file,  *)
(* and each user's counters the number of their files and links.  (Unless  *)
(* a user has had two links of one url: cancelling them deletes both and   *)
(* counts one.)                                                            *)
(***************************************************************************)
Owners(f) == {u \in Users : relation[<<u, f>>] # {}}
Links(f) == {p \in pictures : p.file = f}
Number(rows, n) == IF rows = {} THEN n = 0 ELSE rows = {n}
FileCounts ==
    \A f \in Files : Number({r.count : r \in info[f]},
                            Cardinality(Owners(f)) + Cardinality(Links(f)))
SerialCounts ==
    serial /\ ~twinned /\ Busy = {} =>
        /\ FileCounts
        /\ \A u \in Users :
            /\ Number(owned[u], Cardinality({f \in Files : u \in Owners(f)}))
            /\ Number(pictureCount[u],
                      Cardinality({p \in pictures : p.user = u}))

(***************************************************************************)
(* The blob a file_info row names is stored with all its parts, whatever   *)
(* interleaves or stops: a delete removes the row before the blob, an      *)
(* upload inserts it after, and a merge that fails has no row.  (Except    *)
(* after a failed DELETE that cancel_share_picture does not check.)        *)
(***************************************************************************)
BlobBehindInfo ==
    \A f \in Files \ kept : \A r \in info[f] :
        r.blob = NoBlob
            \/ [file |-> f, no |-> r.blob, parts |-> Whole] \in stored

(***************************************************************************)
(* A rebuild of the ranking that was not disturbed leaves Redis with the   *)
(* shares of MySQL and their views, and a name for each.                   *)
(***************************************************************************)
RankingExact ==
    rebuilt /\ req["sharefiles"] = Idle =>
        /\ \A f \in Files : IF SharesOf(f) = {} THEN ranking[f] = {}
                            ELSE \E r \in SharesOf(f) : ranking[f] = {r.views}
        /\ names = Listed

(***************************************************************************)
(* Whatever way chunk_merge answers, it gives its lock back: a retry does  *)
(* not have to wait for the ten minutes of the lock, unless a process or a *)
(* statement failed.                                                       *)
(***************************************************************************)
LockReleased ==
    faults = 0 /\ req["chunk_merge"] = Idle =>
        \A f \in Files : mergeLock[f] = {}

(***************************************************************************)
(* The list that chunk_init resumes an upload with names parts that are    *)
(* still there (chunk_init_cgi.c: a broken upload continues).              *)
(***************************************************************************)
ResumableList ==
    \A f \in Files : \A r \in progress[f] :
        req["chunk_merge"] = Idle => r.listed \subseteq disk[f]
=============================================================================
