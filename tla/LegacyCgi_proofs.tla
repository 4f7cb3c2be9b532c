--------------------------- MODULE LegacyCgi_proofs ---------------------------
(***************************************************************************)
(* Theorems about LegacyCgi, for any users, files, parts, uploaders and    *)
(* workloads: its rows are well formed, a file has one public share at     *)
(* most, chunk_merge gives its lock back, the blob of a file is there and  *)
(* whole, a rebuild of the ranking is exact, and requests that do not      *)
(* overlap leave exact counters.                                           *)
(***************************************************************************)
EXTENDS LegacyCgi, FiniteSetTheorems, TLAPS

----------------------------------------------------------------------------
(* Rows found by a unique key.                                             *)

\* No row, or one with a value in S.
Rows(S) == {{}} \cup {{x} : x \in S}

LEMMA RowsAreRows ==
    ASSUME NEW S, NEW rows \in Rows(S) PROVE IsRow(rows, S)
<1>1. CASE rows = {}
  BY <1>1, FS_EmptySet DEF IsRow
<1>2. ASSUME NEW x \in S, rows = {x} PROVE IsRow(rows, S)
  <2>1. Cardinality({x}) = 1
    BY FS_Singleton
  <2> QED BY <1>2, <2>1 DEF IsRow
<1> QED BY <1>1, <1>2 DEF Rows

LEMMA OnlyRow ==
    ASSUME NEW rows, rows # {} PROVE Only(rows) \in rows
  BY DEF Only

\* The updates of counted rows.
LEMMA CountRows ==
    ASSUME NEW rows \in Rows(InfoRow), NEW n \in Nat
    PROVE  SetCount(rows, n) \in Rows(InfoRow)
<1>1. CASE rows = {}
  BY <1>1 DEF SetCount, Rows
<1>2. ASSUME NEW r \in InfoRow, rows = {r}
      PROVE  SetCount(rows, n) \in Rows(InfoRow)
  <2>1. [r EXCEPT !.count = n] \in InfoRow
    BY DEF InfoRow
  <2>2. SetCount(rows, n) = {[r EXCEPT !.count = n]}
    BY <1>2 DEF SetCount
  <2> QED BY <2>1, <2>2 DEF Rows
<1> QED BY <1>1, <1>2 DEF Rows

LEMMA CountedRows ==
    ASSUME NEW rows \in Rows(InfoRow)
    PROVE  /\ Counts(rows) \in Rows(Nat)
           /\ Counts(rows) = {} <=> rows = {}
           /\ {r.blob : r \in rows} \in SUBSET Nat
<1>1. CASE rows = {}
  BY <1>1 DEF Counts, Rows
<1>2. ASSUME NEW r \in InfoRow, rows = {r}
      PROVE  /\ Counts(rows) \in Rows(Nat)
             /\ Counts(rows) = {} <=> rows = {}
             /\ {x.blob : x \in rows} \in SUBSET Nat
  <2>1. Counts(rows) = {r.count} /\ {x.blob : x \in rows} = {r.blob}
    BY <1>2 DEF Counts
  <2> QED BY <1>2, <2>1 DEF Rows, InfoRow
<1> QED BY <1>1, <1>2 DEF Rows

LEMMA UpRows ==
    ASSUME NEW S, S = Nat \/ S = Int, NEW rows \in Rows(S),
           NEW read \in Rows(S)
    PROVE  CountedUp(rows, read) \in Rows(S)
<1>1. CASE read = {}
  <2>1. {1} \in Rows(S)
    BY DEF Rows
  <2> QED BY <1>1, <2>1 DEF CountedUp
<1>2. ASSUME NEW n \in S, read = {n} PROVE CountedUp(rows, read) \in Rows(S)
  <2>1. {k + 1 : k \in read} = {n + 1} /\ n + 1 \in S
    BY <1>2
  <2> QED BY <1>2, <2>1 DEF CountedUp, Rows
<1> QED BY <1>1, <1>2 DEF Rows

\* A value that was read is written back less one.
LEMMA DownRows ==
    ASSUME NEW read
    PROVE  /\ read \in Rows(Int) => {n - 1 : n \in read} \in Rows(Int)
           /\ read \in Rows(Nat) /\ 0 \notin read
              => {n - 1 : n \in read} \in Rows(Nat)
<1>1. CASE read = {}
  BY <1>1 DEF Rows
<1>2. ASSUME NEW n \in Int, read = {n}
      PROVE  /\ {k - 1 : k \in read} \in Rows(Int)
             /\ n \in Nat /\ 0 \notin read => {k - 1 : k \in read} \in Rows(Nat)
  <2>1. {k - 1 : k \in read} = {n - 1}
    BY <1>2
  <2> QED BY <1>2, <2>1 DEF Rows
<1>3. ASSUME read \in Rows(Int), read # {}
      PROVE  {n - 1 : n \in read} \in Rows(Int)
  BY <1>2, <1>3 DEF Rows
<1>4. ASSUME read \in Rows(Nat), read # {}, 0 \notin read
      PROVE  {n - 1 : n \in read} \in Rows(Nat)
  BY <1>2, <1>4 DEF Rows
<1> QED BY <1>1, <1>3, <1>4 DEF Rows

----------------------------------------------------------------------------
(* The requests.                                                           *)

\* What a handler has read where it is going to use it.
WellRead(s, rows) ==
    /\ s \in {"BindCount", "Md5Owned", "UploadOwned", "MergeOwned",
              "DelWriteCount", "PictureCount", "VisitWrite", "VisitExists",
              "VisitBump", "VisitRank"} => \E n \in Nat : rows = {n}
    /\ s \in {"WriteOwned", "PictureWriteOwn", "DelRelation", "DropWriteOwn"}
       => rows \in Rows(Nat)
    /\ s \in {"ShareWriteTotal", "DelWriteTotal"} => rows \in Rows(Int)
    /\ s = "CancelWriteTotal" => \E n \in Int : rows = {n}
    /\ s \in {"ViewOwn", "ViewShare"} => \E r \in RelationRow : rows = {r}
    /\ s \in {"DelInfo", "DelBlob", "DropInfo", "DropBlob"} => rows \subseteq Nat
    /\ s \in {"DropCount", "DropRow"} => rows \in Rows(InfoRow)
    /\ s \in {"RankAdd", "RankName"} => rows \subseteq ShareRow
    /\ s \in {"BrowseFile", "BrowseWrite"} => rows # {} /\ rows \subseteq Nat

Joints == {"", "DelUnrank", "DelReadOwned", "MergeClean", "MergeForget"}

\* A request that is served, r.
Fields == {"step", "user", "file", "part", "no", "read", "after"}
Handled(r) ==
    /\ DOMAIN r = Fields
    /\ r.step # "idle"
    /\ r.user \in Users /\ r.file \in Files
    /\ r.part \in Nat /\ r.no \in Nat /\ r.after \in Joints
    /\ WellRead(r.step, r.read)
    /\ r.step \in {"PartWrite", "PartList"} => r.part \in Whole

RequestsOK ==
    /\ DOMAIN req = Programs
    /\ \A c \in Programs : req[c] = Idle \/ Handled(req[c])

OthersWait(c) ==
    /\ DOMAIN req' = Programs
    /\ \A d \in Programs \ {c} : req'[d] = req[d]

\* Program c goes on to step s with these rows.
Goes(c, s, rows, after) ==
    /\ OthersWait(c)
    /\ DOMAIN req'[c] = Fields
    /\ req'[c].step = s /\ req'[c].read = rows /\ req'[c].after = after
    /\ req'[c].user = req[c].user /\ req'[c].file = req[c].file
    /\ req'[c].part = req[c].part /\ req'[c].no = req[c].no

\* The steps before an upload has stored its blob, and before it has inserted
\* its row.
PreStore == {"UploadCount", "UploadOwned", "StoreBlob", "MergeLocked",
             "MergeCount", "MergeOwned", "MergeVerify"}
PreInsert == {"StoreOwned", "StoreRead", "StoreInsert"}
Early == PreStore \cup {"MergePart"} \cup PreInsert

\* The blobs that the rows read for step s name, for a delete.
Naming(s, rows) ==
    IF s \in {"DelInfo", "DelBlob", "DropInfo", "DropBlob"} THEN rows
    ELSE IF s \in {"DropCount", "DropRow"} THEN {r.blob : r \in rows}
    ELSE {}
Named(r) == IF r = Idle THEN {} ELSE Naming(r.step, r.read)
Blobs(rows) == {r.blob : r \in rows}

\* The steps that need something of the tables.
Far == {"idle", "PartWrite", "PartList", "UploadCount", "UploadOwned",
        "StoreBlob", "MergeLocked", "MergeCount", "MergeOwned", "MergeVerify",
        "MergePart", "StoreOwned", "StoreRead", "StoreInsert", "DelInfo",
        "DelBlob", "DropInfo", "DropBlob", "DropCount", "DropRow",
        "ShareMark", "ShareInsert"}

\* The steps that need none of this.
Plain(s) == s \notin Far /\ WellRead(s, {})

\* Program c ends its request or goes on with it.  It names no blob that it did
\* not name and that is not its file's, and has stored no blob; it is going to
\* remove blobs when the row is gone, or its DELETE failed unnoticed.
Follows(c) ==
    /\ OthersWait(c)
    /\ \/ req'[c] = Idle
       \/ /\ req[c] # Idle
          /\ req'[c] # Idle
          /\ req'[c].no = req[c].no
          /\ req'[c].step \in Early => req'[c].file = req[c].file
          /\ req'[c].step \in PreStore \cup {"MergePart"}
             => req[c].step \in PreStore
          /\ req'[c].step \in PreInsert => req[c].step \in PreInsert
          /\ Naming(req'[c].step, req'[c].read)
                 \subseteq Named(req[c]) \cup Blobs(info[req[c].file])
          /\ req'[c].step \in {"DelBlob", "DropBlob"}
             => /\ req'[c].file = req[c].file
                /\ \/ info'[req[c].file] = {}
                   \/ req[c].step = "DropInfo" /\ faults' # faults
          /\ req'[c].step \in {"ShareMark", "ShareInsert"}
             => /\ req'[c].file = req[c].file
                /\ \/ SharesOf(req[c].file) = {} \/ req[c].step = "ShareMark"
                   \/ faults' # 0

LEMMA IdleStep == Idle.step = "idle"
  BY DEF Idle

LEMMA Serves ==
    ASSUME RequestsOK, NEW c \in Programs, req[c] # Idle
    PROVE  /\ Handled(req[c])
           /\ Key(c) \in Users \X Files
  BY DEF RequestsOK, Handled, Key

LEMMA Steps ==
    ASSUME RequestsOK, NEW c \in Programs, req[c] # Idle, NEW s
    PROVE  /\ \A rows : Reads(c, s, rows) => Goes(c, s, rows, req[c].after)
           /\ GoTo(c, s) => Goes(c, s, {}, req[c].after)
           /\ req' = [req EXCEPT ![c].step = s]
              => Goes(c, s, req[c].read, req[c].after)
           /\ \A a : req' = [req EXCEPT ![c].step = s, ![c].after = a]
                     => Goes(c, s, req[c].read, a)
<1>1. DOMAIN req = Programs /\ DOMAIN req[c] = Fields
  BY Serves DEF RequestsOK, Handled
<1> QED BY <1>1 DEF Reads, GoTo, Goes, OthersWait, Fields

LEMMA EndsHere ==
    ASSUME RequestsOK, NEW c \in Programs, Ends(c)
    PROVE  RequestsOK' /\ Follows(c) /\ req'[c] = Idle
  BY DEF Ends, RequestsOK, OthersWait, Follows

LEMMA OneGoes ==
    ASSUME RequestsOK, NEW c \in Programs, req[c] # Idle, NEW s, NEW rows,
           NEW a \in Joints, WellRead(s, rows),
           s \notin {"idle", "PartWrite", "PartList"},
           Goes(c, s, rows, a)
    PROVE  RequestsOK' /\ req'[c] # Idle
<1>1. Handled(req'[c]) /\ req'[c] # Idle
  BY Serves, IdleStep DEF Handled, Goes
<1> QED BY <1>1 DEF Goes, OthersWait, RequestsOK

LEMMA OneFollows ==
    ASSUME RequestsOK, NEW c \in Programs, req[c] # Idle, NEW s, NEW rows,
           NEW a \in Joints, WellRead(s, rows), s \notin Far,
           Goes(c, s, rows, a)
    PROVE  RequestsOK' /\ Follows(c)
<1>1. s \notin {"idle", "PartWrite", "PartList"} /\ s \notin Early
      /\ Naming(s, rows) = {}
      /\ s \notin {"DelBlob", "DropBlob", "ShareMark", "ShareInsert"}
  BY DEF Far, Early, PreStore, PreInsert, Naming
<1>2. RequestsOK' /\ req'[c] # Idle
  BY <1>1, OneGoes
<1> QED BY <1>1, <1>2 DEF Follows, Goes, Early

\* A step on the way to the row of a blob that was stored, or to its removal.
LEMMA EarlyOn ==
    ASSUME RequestsOK, NEW c \in Programs, req[c] # Idle, NEW s, NEW rows,
           NEW a \in Joints, WellRead(s, rows), Goes(c, s, rows, a),
           s \in Early,
           s \in PreStore \cup {"MergePart"} => req[c].step \in PreStore,
           s \in PreInsert => req[c].step \in PreInsert
    PROVE  RequestsOK' /\ Follows(c)
<1>1. s \notin {"idle", "PartWrite", "PartList"} /\ Naming(s, rows) = {}
      /\ s \notin {"DelBlob", "DropBlob", "ShareMark", "ShareInsert"}
  BY DEF Early, PreStore, PreInsert, Naming
<1>2. RequestsOK' /\ req'[c] # Idle
  BY <1>1, OneGoes
<1> QED BY <1>1, <1>2 DEF Follows, Goes

LEMMA NamesOn ==
    ASSUME RequestsOK, NEW c \in Programs, req[c] # Idle, NEW s, NEW rows,
           NEW a \in Joints, WellRead(s, rows), Goes(c, s, rows, a),
           s \in {"DelInfo", "DelBlob", "DropInfo", "DropBlob", "DropCount",
                  "DropRow"},
           Naming(s, rows) \subseteq
               Naming(req[c].step, req[c].read) \cup Blobs(info[req[c].file]),
           s \in {"DelBlob", "DropBlob"}
           => \/ info'[req[c].file] = {}
              \/ req[c].step = "DropInfo" /\ faults' # faults
    PROVE  RequestsOK' /\ Follows(c)
<1>1. s \notin {"idle", "PartWrite", "PartList"} /\ s \notin Early
  BY DEF Early, PreStore, PreInsert
<1>2. RequestsOK' /\ req'[c] # Idle
  BY <1>1, OneGoes
<1> QED BY <1>1, <1>2 DEF Follows, Goes, Early, Named

\* A file is going to be shared.
LEMMA SharesOn ==
    ASSUME RequestsOK, NEW c \in Programs, req[c] # Idle, NEW s,
           s \in {"ShareMark", "ShareInsert"}, GoTo(c, s),
           \/ SharesOf(req[c].file) = {} \/ req[c].step = "ShareMark"
           \/ faults' # 0
    PROVE  RequestsOK' /\ Follows(c)
<1>1. /\ s \notin {"idle", "PartWrite", "PartList"} /\ s \notin Early
      /\ Naming(s, {}) = {} /\ s \notin {"DelBlob", "DropBlob"}
      /\ WellRead(s, {})
  BY DEF Early, PreStore, PreInsert, Naming, WellRead
<1>2. Goes(c, s, {}, req[c].after) /\ req[c].after \in Joints
  BY Steps, Serves DEF Handled
<1>3. RequestsOK' /\ req'[c] # Idle
  BY <1>1, <1>2, OneGoes
<1> QED BY <1>1, <1>2, <1>3 DEF Follows, Goes, Early

LEMMA ReadsOn ==
    ASSUME RequestsOK, NEW c \in Programs, req[c] # Idle, NEW s, NEW rows,
           WellRead(s, rows), s \notin Far, Reads(c, s, rows)
    PROVE  RequestsOK' /\ Follows(c)
  BY Steps, OneFollows, Serves DEF Handled

LEMMA GoesOn ==
    ASSUME RequestsOK, NEW c \in Programs, req[c] # Idle, NEW s, Plain(s),
           GoTo(c, s)
    PROVE  RequestsOK' /\ Follows(c)
  BY Steps, OneFollows, Serves DEF Handled, Plain

LEMMA KeepsOn ==
    ASSUME RequestsOK, NEW c \in Programs, req[c] # Idle, NEW s,
           WellRead(s, req[c].read), s \notin Far,
           req' = [req EXCEPT ![c].step = s]
    PROVE  RequestsOK' /\ Follows(c)
  BY Steps, OneFollows, Serves DEF Handled

\* Program c goes on to step s with the file of a row it found.
Finds(c, s, f, rows) ==
    /\ OthersWait(c)
    /\ DOMAIN req'[c] = Fields
    /\ req'[c].step = s /\ req'[c].read = rows /\ req'[c].file = f
    /\ req'[c].after = req[c].after /\ req'[c].user = req[c].user
    /\ req'[c].part = req[c].part /\ req'[c].no = req[c].no

LEMMA FindSteps ==
    ASSUME RequestsOK, NEW c \in Programs, req[c] # Idle, NEW s, NEW f, NEW rows
    PROVE  /\ req' = [req EXCEPT ![c].step = s, ![c].file = f]
              => Finds(c, s, f, req[c].read)
           /\ req' = [req EXCEPT ![c].step = s, ![c].file = f, ![c].read = rows]
              => Finds(c, s, f, rows)
<1>1. DOMAIN req = Programs /\ DOMAIN req[c] = Fields
  BY Serves DEF RequestsOK, Handled
<1> QED BY <1>1 DEF Finds, OthersWait, Fields

LEMMA FindsOn ==
    ASSUME RequestsOK, NEW c \in Programs, req[c] # Idle, NEW s, NEW rows,
           WellRead(s, rows), s \notin Far, NEW f \in Files,
           Finds(c, s, f, rows)
    PROVE  RequestsOK' /\ Follows(c)
<1>1. s \notin {"idle", "PartWrite", "PartList"} /\ s \notin Early
      /\ Naming(s, rows) = {}
      /\ s \notin {"DelBlob", "DropBlob", "ShareMark", "ShareInsert"}
  BY DEF Far, Early, PreStore, PreInsert, Naming
<1>2. Handled(req'[c]) /\ req'[c] # Idle
  BY <1>1, Serves, IdleStep DEF Handled, Finds
<1>3. RequestsOK'
  BY <1>2 DEF Finds, OthersWait, RequestsOK
<1> QED BY <1>1, <1>2, <1>3 DEF Follows, Finds, Early

\* A request that goes on with the rows it has.
LEMMA KeepsNumber ==
    ASSUME RequestsOK, NEW c \in Programs, req[c] # Idle,
           NEW s, s \in {"BindCount", "VisitExists", "VisitBump", "VisitRank"},
           req[c].step \in {"Md5Owned", "UploadOwned", "MergeOwned",
                            "VisitWrite", "VisitExists"},
           req' = [req EXCEPT ![c].step = s]
    PROVE  RequestsOK' /\ Follows(c)
<1>1. \E n \in Nat : req[c].read = {n}
  BY Serves DEF Handled, WellRead
<1>2. WellRead(s, req[c].read)
  BY <1>1 DEF WellRead
<1> QED BY <1>2, KeepsOn DEF Far

LEMMA KeepsRows ==
    ASSUME RequestsOK, NEW c \in Programs, req[c] # Idle, NEW s,
           \/ req[c].step = "DelInfo" /\ s = "DelBlob"
           \/ req[c].step = "DropInfo" /\ s = "DropBlob"
           \/ req[c].step = "DropCount" /\ s = "DropRow"
           \/ req[c].step = "BrowseFile" /\ s = "BrowseWrite"
           \/ req[c].step = "RankName" /\ s = "RankAdd",
           s \in {"DelBlob", "DropBlob"}
           => \/ info'[req[c].file] = {}
              \/ req[c].step = "DropInfo" /\ faults' # faults,
           req' = [req EXCEPT ![c].step = s]
    PROVE  RequestsOK' /\ Follows(c)
<1>1. WellRead(req[c].step, req[c].read)
  BY Serves DEF Handled
<1>2. WellRead(s, req[c].read)
  BY <1>1 DEF WellRead
<1>3. CASE s \in {"BrowseWrite", "RankAdd"}
  BY <1>2, <1>3, KeepsOn DEF Far
<1>4. CASE s \in {"DelBlob", "DropBlob", "DropRow"}
  <2>1. Naming(s, req[c].read) = Naming(req[c].step, req[c].read)
    BY <1>4 DEF Naming
  <2>2. Goes(c, s, req[c].read, req[c].after) /\ req[c].after \in Joints
    BY Steps, Serves DEF Handled
  <2> QED BY <1>2, <1>4, <2>1, <2>2, NamesOn
<1> QED BY <1>3, <1>4

\* The steps of an upload on its way to storing its blob or inserting its row.
LEMMA EarlyGoes ==
    ASSUME RequestsOK, NEW c \in Programs, req[c] # Idle, NEW s,
           s \in Early \ {"UploadOwned", "MergeOwned"},
           s \in PreStore \cup {"MergePart"} => req[c].step \in PreStore,
           s \in PreInsert => req[c].step \in PreInsert,
           GoTo(c, s)
    PROVE  RequestsOK' /\ Follows(c)
<1>1. WellRead(s, {})
  BY DEF WellRead, Early, PreStore, PreInsert
<1>2. Goes(c, s, {}, req[c].after) /\ req[c].after \in Joints
  BY Steps, Serves DEF Handled
<1> QED BY <1>1, <1>2, EarlyOn

LEMMA EarlyForks ==
    ASSUME RequestsOK, NEW c \in Programs, req[c] # Idle, NEW a \in Joints,
           NEW s, s \in {"MergeCount", "MergePart"}, req[c].step \in PreStore,
           req' = [req EXCEPT ![c].step = s, ![c].after = a]
    PROVE  RequestsOK' /\ Follows(c)
<1>1. WellRead(s, req[c].read) /\ s \in Early /\ s \notin PreInsert
  BY DEF WellRead, Early, PreStore, PreInsert
<1>2. Goes(c, s, req[c].read, a)
  BY Steps
<1> QED BY <1>1, <1>2, EarlyOn

LEMMA ForksOn ==
    ASSUME RequestsOK, NEW c \in Programs, req[c] # Idle, NEW s,
           WellRead(s, req[c].read), s \notin Far,
           NEW a \in Joints,
           req' = [req EXCEPT ![c].step = s, ![c].after = a]
    PROVE  RequestsOK' /\ Follows(c)
  BY Steps, OneFollows, Serves DEF Handled

LEMMA PlainJoints ==
    Plain("MergeRelease") /\ \A a \in Joints \ {""} : Plain(a)
<1>1. /\ Plain("DelUnrank") /\ Plain("DelReadOwned")
      /\ Plain("MergeClean") /\ Plain("MergeForget")
      /\ Plain("MergeRelease")
  BY DEF Plain, Far, WellRead
<1> QED BY <1>1 DEF Joints

LEMMA JoinsOn ==
    ASSUME RequestsOK, NEW c \in Programs, req[c] # Idle, Joins(c) \/ Fails(c)
    PROVE  RequestsOK' /\ Follows(c)
<1>1. CASE Ends(c)
  BY <1>1, EndsHere
<1>2. CASE GoTo(c, "MergeRelease")
  BY <1>2, PlainJoints, GoesOn
<1>3. CASE req[c].after # "" /\ GoTo(c, req[c].after)
  <2>1. req[c].after \in Joints \ {""}
    BY <1>3, Serves DEF Handled
  <2> QED BY <1>3, <2>1, PlainJoints, GoesOn
<1> QED BY <1>1, <1>2, <1>3 DEF Joins, Fails

\* Every request that is still to come, and the rows of every table.
Arriving ==
    /\ arriving \subseteq Request
    /\ \A r \in arriving : r.op = "PartWrite" => r.part \in Whole

LEMMA AcceptsOne ==
    ASSUME RequestsOK, Arriving, NEW c \in Programs, NEW ops, Accept(c, ops),
           \A o \in ops : o \notin {"idle", "PartList"} /\ WellRead(o, {})
    PROVE  RequestsOK'
<1> PICK r \in arriving : r.op \in ops /\ req' = [req EXCEPT ![c] = Serving(r)]
  BY DEF Accept
<1>1. Handled(Serving(r))
  BY DEF Handled, Serving, Arriving, Request, Fields, Joints
<1> QED BY <1>1 DEF RequestsOK

TablesOK ==
    /\ info \in [Files -> Rows(InfoRow)]
    /\ relation \in [Users \X Files -> Rows(RelationRow)]
    /\ owned \in [Users -> Rows(Nat)]
    /\ total \in Rows(Int)
    /\ shares \subseteq ShareRow
    /\ pictures \subseteq PictureRow
    /\ pictureCount \in [Users -> Rows(Nat)]
    /\ ranking \in [Files -> Rows(Nat)]
    /\ names \subseteq Files
    /\ stored \subseteq Blob
ChunksOK ==
    /\ progress \in [Files -> Rows(Progress)]
    /\ mergeLock \in [Files -> Rows(NewLock)]
    /\ disk \in [Files -> SUBSET Whole]

Typed == RequestsOK /\ Arriving /\ TablesOK /\ ChunksOK /\ faults \in Nat

\* The row of a request's file, and what it says of its user.
LEMMA OwnRows ==
    ASSUME RequestsOK, TablesOK, NEW c \in Programs, req[c] # Idle
    PROVE  /\ info[req[c].file] \in Rows(InfoRow)
           /\ relation[Key(c)] \in Rows(RelationRow)
           /\ owned[req[c].user] \in Rows(Nat)
           /\ pictureCount[req[c].user] \in Rows(Nat)
           /\ ranking[req[c].file] \in Rows(Nat)
  BY Serves DEF TablesOK, Handled

LEMMA OneInRows ==
    ASSUME NEW S, NEW rows \in Rows(S), rows # {}
    PROVE  \E x \in S : rows = {x}
  BY DEF Rows

LEMMA ShareRequests ==
    ASSUME Typed, NEW c \in Programs, Share(c)
    PROVE  RequestsOK' /\ Follows(c)
<1> USE DEF At
<1>1. CASE ShareExists(c)
  BY <1>1, EndsHere, GoesOn DEF ShareExists, Plain, Far, WellRead, Typed
<1>2. CASE ShareFind(c)
  BY <1>2, EndsHere, SharesOn DEF ShareFind, Typed
<1>3. CASE ShareMark(c)
  BY <1>3, EndsHere, SharesOn DEF ShareMark, Typed
<1>4. CASE ShareInsert(c)
  BY <1>4, GoesOn DEF ShareInsert, Plain, Far, WellRead, Typed
<1>5. CASE ShareReadTotal(c)
  BY <1>5, ReadsOn DEF ShareReadTotal, WellRead, Far, Typed, TablesOK
<1>6. CASE ShareWriteTotal(c)
  BY <1>6, EndsHere, GoesOn DEF ShareWriteTotal, Plain, Far, WellRead, Typed
<1>7. CASE ShareRank(c)
  BY <1>7, GoesOn DEF ShareRank, Plain, Far, WellRead, Typed
<1>8. CASE ShareName(c)
  BY <1>8, EndsHere DEF ShareName, Typed
<1>9. CASE Misread(c, "ShareFind", "ShareMark")
  BY <1>9, SharesOn DEF Misread, Fault, Typed
<1>10. CASE Misread(c, "ShareReadTotal", "ShareRank")
  BY <1>10, GoesOn DEF Misread, Plain, Far, WellRead, Typed
<1> QED BY <1>1, <1>2, <1>3, <1>4, <1>5, <1>6, <1>7, <1>8, <1>9, <1>10
        DEF Share

LEMMA CountRead ==
    ASSUME RequestsOK, TablesOK, NEW c \in Programs, req[c] # Idle,
           info[req[c].file] # {}
    PROVE  \E n \in Nat : Counts(info[req[c].file]) = {n}
  BY OwnRows, CountedRows, OneInRows

LEMMA BindRequests ==
    ASSUME Typed, NEW c \in Programs, Bind(c)
    PROVE  RequestsOK' /\ Follows(c)
<1> USE DEF At
<1>1. CASE BindCount(c)
  BY <1>1, GoesOn DEF BindCount, Plain, Far, WellRead, Typed
<1>2. CASE BindRelation(c)
  BY <1>2, GoesOn, JoinsOn DEF BindRelation, Plain, Far, WellRead, Typed
<1>3. CASE ReadOwned(c)
  BY <1>3, ReadsOn, OwnRows DEF ReadOwned, WellRead, Far, Typed
<1>4. CASE WriteOwned(c)
  BY <1>4, JoinsOn DEF WriteOwned, Typed
<1> QED BY <1>1, <1>2, <1>3, <1>4 DEF Bind

LEMMA DeleteRequests ==
    ASSUME Typed, NEW c \in Programs, Delete(c)
    PROVE  RequestsOK' /\ Follows(c)
<1> USE DEF At
<1>1. CASE DelExists(c)
  <2>1. CASE Ends(c)
    BY <1>1, <2>1, EndsHere DEF DelExists, Typed
  <2>2. CASE req' = [req EXCEPT ![c].step = "DelShare", ![c].after = "DelUnrank"]
    BY <1>1, <2>2, ForksOn DEF DelExists, WellRead, Far, Joints, Typed
  <2>3. CASE req' = [req EXCEPT ![c].step = "DelStatus",
                                ![c].after = "DelReadOwned"]
    BY <1>1, <2>3, ForksOn DEF DelExists, WellRead, Far, Joints, Typed
  <2> QED BY <1>1, <2>1, <2>2, <2>3 DEF DelExists
<1>2. CASE DelStatus(c)
  BY <1>2, GoesOn DEF DelStatus, Plain, Far, WellRead, Typed
<1>3. CASE DelShare(c)
  BY <1>3, GoesOn DEF DelShare, Plain, Far, WellRead, Typed
<1>4. CASE DelReadTotal(c)
  BY <1>4, EndsHere, ReadsOn DEF DelReadTotal, WellRead, Far, Typed, TablesOK
<1>5. CASE DelWriteTotal(c)
  BY <1>5, JoinsOn DEF DelWriteTotal, Typed
<1>6. CASE DelUnrank(c)
  BY <1>6, GoesOn DEF DelUnrank, Plain, Far, WellRead, Typed
<1>7. CASE DelUnname(c)
  BY <1>7, GoesOn DEF DelUnname, Plain, Far, WellRead, Typed
<1>8. CASE DelReadOwned(c)
  BY <1>8, EndsHere, ReadsOn, OwnRows DEF DelReadOwned, WellRead, Far, Typed
<1>9. CASE DelRelation(c)
  BY <1>9, EndsHere, GoesOn DEF DelRelation, Plain, Far, WellRead, Typed
<1>10. CASE DelReadCount(c)
  <2>1. CASE info[req[c].file] = {}
    BY <1>10, <2>1, EndsHere DEF DelReadCount, Typed
  <2>2. ASSUME info[req[c].file] # {} PROVE RequestsOK' /\ Follows(c)
    <3>1. \E n \in Nat : Counts(info[req[c].file]) = {n}
      BY <1>10, <2>2, CountRead DEF DelReadCount, Typed
    <3>2. WellRead("DelWriteCount", Counts(info[req[c].file]))
      BY <3>1 DEF WellRead
    <3> QED BY <1>10, <2>2, <3>2, ReadsOn DEF DelReadCount, Far, Typed
  <2> QED BY <2>1, <2>2
<1>11. CASE DelWriteCount(c)
  BY <1>11, EndsHere, GoesOn DEF DelWriteCount, Plain, Far, WellRead, Typed
<1>12. CASE DelReadBlob(c)
  <2> DEFINE blobs == {r.blob : r \in info[req[c].file]}
  <2>1. CASE info[req[c].file] = {}
    BY <1>12, <2>1, EndsHere DEF DelReadBlob, Typed
  <2>2. CASE info[req[c].file] # {}
    <3>1. blobs \subseteq Nat
      BY <1>12, CountedRows, OwnRows DEF DelReadBlob, Typed
    <3>2. Goes(c, "DelInfo", blobs, req[c].after) /\ req[c].after \in Joints
      BY <1>12, <2>2, Steps, Serves DEF DelReadBlob, Handled, Typed
    <3>3. WellRead("DelInfo", blobs)
          /\ Naming("DelInfo", blobs) \subseteq Blobs(info[req[c].file])
      BY <3>1 DEF WellRead, Naming, Blobs
    <3> QED BY <1>12, <3>2, <3>3, NamesOn DEF DelReadBlob, Typed
  <2> QED BY <2>1, <2>2
<1>13. CASE DelRemoves(c)
  <2>1. CASE RemoveInfo(c, "DelInfo", "DelBlob")
    <3>1. info'[req[c].file] = {}
      BY <2>1, Serves DEF RemoveInfo, Typed, TablesOK, Handled
    <3> QED BY <2>1, <3>1, KeepsRows DEF RemoveInfo, Typed
  <2>2. CASE RemoveBlob(c, "DelBlob", Ends(c))
    BY <2>2, EndsHere DEF RemoveBlob, Typed
  <2> QED BY <1>13, <2>1, <2>2 DEF DelRemoves
<1> QED BY <1>1, <1>2, <1>3, <1>4, <1>5, <1>6, <1>7, <1>8, <1>9, <1>10, <1>11,
       <1>12, <1>13 DEF Delete

LEMMA ViewRequests ==
    ASSUME Typed, NEW c \in Programs, View(c)
    PROVE  RequestsOK' /\ Follows(c)
<1> USE DEF At
<1>1. CASE ViewRead(c)
  BY <1>1, EndsHere, ReadsOn, OwnRows, OneInRows
  DEF ViewRead, Owns, WellRead, Far, Typed
<1>2. CASE ViewOwn(c)
  <2>1. WellRead("ViewShare", req[c].read)
    BY <1>2, Serves DEF ViewOwn, Handled, WellRead, Typed
  <2> QED BY <1>2, <2>1, EndsHere, KeepsOn DEF ViewOwn, Far, Typed
<1>3. CASE ViewShare(c)
  BY <1>3, GoesOn DEF ViewShare, Plain, Far, WellRead, Typed
<1>4. CASE ViewRank(c)
  BY <1>4, EndsHere DEF ViewRank, Typed
<1> QED BY <1>1, <1>2, <1>3, <1>4 DEF View

LEMMA VisitRequests ==
    ASSUME Typed, NEW c \in Programs, Visit(c)
    PROVE  RequestsOK' /\ Follows(c)
<1> USE DEF At
<1>1. CASE VisitRead(c)
  <2>1. CASE Ends(c)
    BY <2>1, EndsHere DEF Typed
  <2>2. ASSUME NEW r \in SharesOf(req[c].file), Reads(c, "VisitWrite", {r.views})
        PROVE  RequestsOK' /\ Follows(c)
    <3>1. WellRead("VisitWrite", {r.views})
      BY <2>2 DEF SharesOf, ShareRow, WellRead, Typed, TablesOK
    <3> QED BY <1>1, <2>2, <3>1, ReadsOn DEF VisitRead, Far, Typed
  <2> QED BY <1>1, <2>1, <2>2 DEF VisitRead
<1>2. CASE VisitWrite(c)
  BY <1>2, KeepsNumber DEF VisitWrite, Typed
<1>3. CASE VisitExists(c)
  BY <1>3, EndsHere, KeepsNumber DEF VisitExists, Typed
<1>4. CASE VisitBump(c)
  BY <1>4, EndsHere DEF VisitBump, Typed
<1>5. CASE VisitRank(c)
  BY <1>5, GoesOn DEF VisitRank, Plain, Far, WellRead, Typed
<1>6. CASE ShareName(c)
  BY <1>6, EndsHere DEF ShareName, Typed
<1> QED BY <1>1, <1>2, <1>3, <1>4, <1>5, <1>6 DEF Visit

LEMMA CancelRequests ==
    ASSUME Typed, NEW c \in Programs, Cancel(c)
    PROVE  RequestsOK' /\ Follows(c)
<1> USE DEF At
<1>1. CASE CancelMark(c)
  BY <1>1, GoesOn DEF CancelMark, Plain, Far, WellRead, Typed
<1>2. CASE CancelReadTotal(c)
  BY <1>2, EndsHere, ReadsOn, OneInRows
  DEF CancelReadTotal, WellRead, Far, Typed, TablesOK
<1>3. CASE CancelWriteTotal(c)
  BY <1>3, GoesOn DEF CancelWriteTotal, Plain, Far, WellRead, Typed
<1>4. CASE CancelShare(c)
  BY <1>4, GoesOn DEF CancelShare, Plain, Far, WellRead, Typed
<1>5. CASE CancelUnrank(c)
  BY <1>5, EndsHere, GoesOn DEF CancelUnrank, Plain, Far, WellRead, Typed
<1>6. CASE CancelName(c)
  BY <1>6, EndsHere DEF CancelName, Typed
<1> QED BY <1>1, <1>2, <1>3, <1>4, <1>5, <1>6 DEF Cancel

LEMMA SaveRequests ==
    ASSUME Typed, NEW c \in Programs, Save(c)
    PROVE  RequestsOK' /\ Follows(c)
<1> USE DEF At
<1>1. CASE SaveOwned(c)
  BY <1>1, EndsHere, GoesOn DEF SaveOwned, Plain, Far, WellRead, Typed
<1>2. CASE SaveRead(c)
  BY <1>2, EndsHere, ReadsOn, CountRead DEF SaveRead, WellRead, Far, Typed
<1>3. CASE Bind(c)
  BY <1>3, BindRequests DEF Typed
<1>4. CASE Misread(c, "SaveOwned", "SaveRead")
  BY <1>4, GoesOn DEF Misread, Plain, Far, WellRead, Typed
<1> QED BY <1>1, <1>2, <1>3, <1>4 DEF Save

LEMMA RankRequests ==
    ASSUME Typed, NEW c \in Programs, RankList(c)
    PROVE  RequestsOK' /\ Follows(c)
<1> USE DEF At
<1>1. CASE RankTotal(c)
  BY <1>1, EndsHere, GoesOn DEF RankTotal, Plain, Far, WellRead, Typed
<1>2. CASE RankSql(c)
  BY <1>2, ReadsOn DEF RankSql, WellRead, Far, Typed
<1>3. CASE RankCard(c)
  BY <1>3, EndsHere, GoesOn DEF RankCard, Plain, Far, WellRead, Typed
<1>4. CASE RankClear(c)
  BY <1>4, GoesOn DEF RankClear, Plain, Far, WellRead, Typed
<1>5. CASE RankClearNames(c)
  BY <1>5, GoesOn DEF RankClearNames, Plain, Far, WellRead, Typed
<1>6. CASE RankRead(c)
  BY <1>6, EndsHere, ReadsOn DEF RankRead, WellRead, Far, Typed, TablesOK
<1>7. CASE RankAdd(c)
  <2>1. PICK r \in req[c].read :
          req' = [req EXCEPT ![c].step = "RankName", ![c].file = r.file,
                             ![c].read = @ \ {r}]
    BY <1>7 DEF RankAdd, Topmost
  <2>2. Handled(req[c]) /\ req[c].read \subseteq ShareRow
    BY <1>7, Serves DEF RankAdd, Handled, WellRead, Far, Typed
  <2>3. r.file \in Files
    BY <2>2 DEF ShareRow
  <2>4. /\ DOMAIN req' = Programs
        /\ \A d \in Programs \ {c} : req'[d] = req[d]
        /\ DOMAIN req'[c] = Fields
        /\ req'[c].step = "RankName" /\ req'[c].read = req[c].read \ {r}
        /\ req'[c].file = r.file
        /\ req'[c].user = req[c].user /\ req'[c].part = req[c].part
        /\ req'[c].no = req[c].no /\ req'[c].after = req[c].after
    BY <2>1, <2>2 DEF Typed, RequestsOK, Handled, Fields
  <2>5. Handled(req'[c])
    BY <2>2, <2>3, <2>4 DEF Handled, WellRead
  <2>6. RequestsOK' /\ req'[c] # Idle
    BY <2>4, <2>5, IdleStep DEF Typed, RequestsOK, Handled
  <2>7. Naming("RankName", req'[c].read) = {}
        /\ "RankName" \notin Early \cup PreStore \cup PreInsert
        /\ "RankName" # "MergePart"
    BY DEF Naming, Early, PreStore, PreInsert
  <2> QED BY <1>7, <2>4, <2>6, <2>7 DEF RankAdd, Follows, OthersWait
<1>8. CASE RankName(c)
  BY <1>8, EndsHere, KeepsRows DEF RankName, Typed
<1> QED BY <1>1, <1>2, <1>3, <1>4, <1>5, <1>6, <1>7, <1>8 DEF RankList

LEMMA InstantRequests ==
    ASSUME Typed, NEW c \in Programs, InstantUpload(c)
    PROVE  RequestsOK' /\ Follows(c)
<1> USE DEF At
<1>1. CASE Md5Count(c)
  BY <1>1, EndsHere, ReadsOn, CountRead DEF Md5Count, WellRead, Far, Typed
<1>2. CASE Md5Owned(c)
  BY <1>2, EndsHere, KeepsNumber DEF Md5Owned, Typed
<1>3. CASE Bind(c)
  BY <1>3, BindRequests DEF Typed
<1>4. CASE Skips(c, "Md5Owned", "BindCount")
  BY <1>4, KeepsNumber DEF Skips, Typed
<1> QED BY <1>1, <1>2, <1>3, <1>4 DEF InstantUpload

LEMMA ReuseRequests ==
    ASSUME Typed, NEW c \in Programs,
           \/ ReuseCount(c, "UploadCount", "UploadOwned", "StoreBlob")
           \/ ReuseOwned(c, "UploadOwned")
           \/ ReuseCount(c, "MergeCount", "MergeOwned", "MergeVerify")
           \/ ReuseOwned(c, "MergeOwned")
    PROVE  RequestsOK' /\ Follows(c)
<1> USE DEF At
<1>1. CASE \/ ReuseCount(c, "UploadCount", "UploadOwned", "StoreBlob")
           \/ ReuseCount(c, "MergeCount", "MergeOwned", "MergeVerify")
  <2>0. req[c] # Idle /\ req[c].step \in {"UploadCount", "MergeCount"}
    BY <1>1 DEF ReuseCount
  <2>1. CASE info[req[c].file] = {}
    <3>1. GoTo(c, "StoreBlob") \/ GoTo(c, "MergeVerify")
      BY <1>1, <2>1 DEF ReuseCount
    <3>2. /\ {"StoreBlob", "MergeVerify"}
                 \subseteq Early \ {"UploadOwned", "MergeOwned"}
          /\ "StoreBlob" \notin PreInsert /\ "MergeVerify" \notin PreInsert
          /\ req[c].step \in PreStore
      BY <2>0 DEF Early, PreStore, PreInsert
    <3> QED BY <2>0, <3>1, <3>2, EarlyGoes DEF Typed
  <2>2. CASE info[req[c].file] # {}
    <3>1. PICK s \in {"UploadOwned", "MergeOwned"} :
            Reads(c, s, Counts(info[req[c].file]))
      BY <1>1, <2>2 DEF ReuseCount
    <3>2. \E n \in Nat : Counts(info[req[c].file]) = {n}
      BY <2>0, <2>2, CountRead DEF Typed
    <3>3. WellRead(s, Counts(info[req[c].file]))
      BY <3>2 DEF WellRead
    <3>4. /\ Goes(c, s, Counts(info[req[c].file]), req[c].after)
          /\ req[c].after \in Joints
      BY <2>0, <3>1, Steps, Serves DEF Handled, Typed
    <3>5. s \in Early /\ s \notin PreInsert /\ req[c].step \in PreStore
      BY <2>0 DEF Early, PreStore, PreInsert
    <3> QED BY <2>0, <3>3, <3>4, <3>5, EarlyOn DEF Typed
  <2> QED BY <2>1, <2>2
<1>2. CASE ReuseOwned(c, "UploadOwned") \/ ReuseOwned(c, "MergeOwned")
  BY <1>2, JoinsOn, KeepsNumber DEF ReuseOwned, Typed
<1> QED BY <1>1, <1>2

LEMMA StoreRequests ==
    ASSUME Typed, NEW c \in Programs, StoreInfo(c)
    PROVE  RequestsOK' /\ Follows(c)
<1> USE DEF At
<1>1. CASE StoreOwned(c)
  BY <1>1, EarlyGoes, JoinsOn
  DEF StoreOwned, Early, PreStore, PreInsert, Joints, Typed
<1>2. CASE StoreRead(c)
  <2>1. CASE info[req[c].file] = {}
    BY <1>2, <2>1, EarlyGoes
    DEF StoreRead, Early, PreStore, PreInsert, Joints, Typed
  <2>2. CASE info[req[c].file] # {}
    BY <1>2, <2>2, ReadsOn, CountRead DEF StoreRead, WellRead, Far, Typed
  <2> QED BY <2>1, <2>2
<1>3. CASE StoreInsert(c)
  BY <1>3, GoesOn, JoinsOn DEF StoreInsert, Plain, Far, WellRead, Typed
<1>4. CASE \/ Misread(c, "StoreOwned", "StoreRead")
           \/ Misread(c, "StoreRead", "StoreInsert")
  BY <1>4, EarlyGoes DEF Misread, Early, PreStore, PreInsert, Joints, Typed
<1> QED BY <1>1, <1>2, <1>3, <1>4 DEF StoreInfo

\* A blob has been stored.
LEMMA Stores ==
    ASSUME RequestsOK, NEW c \in Programs, req[c] # Idle, GoTo(c, "StoreOwned")
    PROVE  /\ RequestsOK' /\ req'[c] # Idle
           /\ Goes(c, "StoreOwned", {}, req[c].after)
<1>1. Goes(c, "StoreOwned", {}, req[c].after) /\ req[c].after \in Joints
  BY Steps, Serves DEF Handled
<1> QED BY <1>1, OneGoes DEF WellRead

LEMMA UploadRequests ==
    ASSUME Typed, NEW c \in Programs, UploadFile(c)
    PROVE  RequestsOK' /\ (StoreBlob(c) \/ Follows(c))
<1> USE DEF At
<1>1. CASE \/ ReuseCount(c, "UploadCount", "UploadOwned", "StoreBlob")
           \/ ReuseOwned(c, "UploadOwned")
  BY <1>1, ReuseRequests DEF Typed
<1>2. CASE StoreBlob(c)
  BY <1>2, Stores DEF StoreBlob, Typed
<1>3. CASE StoreInfo(c)
  BY <1>3, StoreRequests DEF Typed
<1>4. CASE Bind(c)
  BY <1>4, BindRequests DEF Typed
<1> QED BY <1>1, <1>2, <1>3, <1>4 DEF UploadFile

LEMMA PictureRequests ==
    ASSUME Typed, NEW c \in Programs, SharePicture(c)
    PROVE  RequestsOK' /\ Follows(c)
<1> USE DEF At
<1>1. CASE PictureInsert(c)
  BY <1>1, GoesOn DEF PictureInsert, Plain, Far, WellRead, Typed
<1>2. CASE PictureRead(c)
  BY <1>2, EndsHere, ReadsOn, CountRead DEF PictureRead, WellRead, Far, Typed
<1>3. CASE PictureCount(c)
  BY <1>3, GoesOn DEF PictureCount, Plain, Far, WellRead, Typed
<1>4. CASE PictureReadOwn(c)
  BY <1>4, ReadsOn, OwnRows DEF PictureReadOwn, WellRead, Far, Typed
<1>5. CASE PictureWriteOwn(c)
  BY <1>5, EndsHere DEF PictureWriteOwn, Typed
<1> QED BY <1>1, <1>2, <1>3, <1>4, <1>5 DEF SharePicture

LEMMA DropRequests ==
    ASSUME Typed, NEW c \in Programs, CancelPicture(c)
    PROVE  RequestsOK' /\ Follows(c)
<1> USE DEF At
<1>1. CASE DropFind(c)
  <2>1. CASE OwnLink(c) = {}
    BY <1>1, <2>1, EndsHere DEF DropFind, Typed
  <2>2. ASSUME NEW p \in OwnLink(c),
               req' = [req EXCEPT ![c].step = "DropReadOwn", ![c].file = p.file]
        PROVE  RequestsOK' /\ Follows(c)
    <3>1. p.file \in Files
      BY DEF OwnLink, Link, PictureRow, Typed, TablesOK
    <3>2. Finds(c, "DropReadOwn", p.file, req[c].read)
      BY <1>1, <2>2, FindSteps DEF DropFind, Typed
    <3>3. WellRead("DropReadOwn", req[c].read) /\ "DropReadOwn" \notin Far
      BY DEF WellRead, Far
    <3> QED BY <1>1, <3>1, <3>2, <3>3, FindsOn DEF DropFind, Typed
  <2> QED BY <1>1, <2>1, <2>2 DEF DropFind
<1>2. CASE DropReadOwn(c)
  BY <1>2, EndsHere, ReadsOn, OwnRows DEF DropReadOwn, WellRead, Far, Typed
<1>3. CASE DropWriteOwn(c)
  BY <1>3, GoesOn DEF DropWriteOwn, Plain, Far, WellRead, Typed
<1>4. CASE DropRead(c)
  <2>1. /\ Goes(c, "DropCount", info[req[c].file], req[c].after)
        /\ req[c].after \in Joints
    BY <1>4, Steps, Serves DEF DropRead, Handled, Typed
  <2>2. /\ WellRead("DropCount", info[req[c].file])
        /\ Naming("DropCount", info[req[c].file])
               \subseteq Blobs(info[req[c].file])
    BY <1>4, OwnRows DEF DropRead, WellRead, Naming, Blobs, Typed
  <2> QED BY <1>4, <2>1, <2>2, NamesOn DEF DropRead, Typed
<1>5. CASE DropCount(c)
  BY <1>5, KeepsRows DEF DropCount, Typed
<1>6. CASE DropRow(c)
  <2>1. req[c].read \in Rows(InfoRow)
    BY <1>6, Serves DEF DropRow, Handled, WellRead, Far, Typed
  <2>2. {r.blob : r \in req[c].read} \subseteq Nat
    BY <2>1, CountedRows
  <2>3. CASE LastUse(req[c].read)
    <3>1. Reads(c, "DropInfo", {r.blob : r \in req[c].read})
      BY <1>6, <2>3 DEF DropRow, Reads
    <3>2. /\ Goes(c, "DropInfo", {r.blob : r \in req[c].read}, req[c].after)
          /\ req[c].after \in Joints
      BY <1>6, <3>1, Steps, Serves DEF DropRow, Handled, Typed
    <3>3. /\ WellRead("DropInfo", {r.blob : r \in req[c].read})
          /\ Naming("DropInfo", {r.blob : r \in req[c].read})
                 \subseteq Naming(req[c].step, req[c].read)
      BY <1>6, <2>2 DEF DropRow, WellRead, Naming
    <3> QED BY <1>6, <3>2, <3>3, NamesOn DEF DropRow, Typed
  <2>4. CASE ~LastUse(req[c].read)
    BY <1>6, <2>4, EndsHere DEF DropRow, Typed
  <2> QED BY <2>3, <2>4
<1>7. CASE DropInfo(c)
  <2>1. info'[req[c].file] = {}
    BY <1>7, Serves DEF DropInfo, Typed, TablesOK, Handled
  <2> QED BY <1>7, <2>1, KeepsRows DEF DropInfo, Typed
<1>8. CASE DropBlob(c)
  BY <1>8, EndsHere DEF DropBlob, Typed
<1>9. CASE DropSkips(c)
  <2>1. CASE Skips(c, "DropWriteOwn", "DropRead")
    <3>1. WellRead("DropRead", req[c].read)
      BY DEF WellRead, Far
    <3>2. req[c] # Idle /\ req' = [req EXCEPT ![c].step = "DropRead"]
      BY <2>1 DEF Skips
    <3>3. "DropRead" \notin Far
      BY DEF Far
    <3> QED BY <3>1, <3>2, <3>3, KeepsOn DEF Typed
  <2>2. CASE \/ Skips(c, "DropCount", "DropRow")
             \/ Skips(c, "DropInfo", "DropBlob")
    <3>1. faults' # faults
      BY <2>2 DEF Skips, Fault, Typed
    <3> QED BY <2>2, <3>1, KeepsRows DEF Skips, Typed
  <2> QED BY <1>9, <2>1, <2>2 DEF DropSkips
<1> QED BY <1>1, <1>2, <1>3, <1>4, <1>5, <1>6, <1>7, <1>8, <1>9 DEF
       CancelPicture

LEMMA BrowseRequests ==
    ASSUME Typed, NEW c \in Programs, BrowsePicture(c)
    PROVE  RequestsOK' /\ Follows(c)
<1> USE DEF At
<1>1. CASE BrowseRead(c)
  <2>1. CASE Link(c) = {}
    BY <1>1, <2>1, EndsHere DEF BrowseRead, Typed
  <2>2. ASSUME NEW p \in Link(c),
               req' = [req EXCEPT ![c].step = "BrowseFile", ![c].file = p.file,
                                  ![c].read = {p.views}]
        PROVE  RequestsOK' /\ Follows(c)
    <3>1. p.file \in Files /\ p.views \in Nat
      BY DEF Link, PictureRow, Typed, TablesOK
    <3>2. Finds(c, "BrowseFile", p.file, {p.views})
      BY <1>1, <2>2, FindSteps DEF BrowseRead, Typed
    <3>3. WellRead("BrowseFile", {p.views}) /\ "BrowseFile" \notin Far
      BY <3>1 DEF WellRead, Far
    <3> QED BY <1>1, <3>1, <3>2, <3>3, FindsOn DEF BrowseRead, Typed
  <2> QED BY <1>1, <2>1, <2>2 DEF BrowseRead
<1>2. CASE BrowseFile(c)
  BY <1>2, EndsHere, KeepsRows DEF BrowseFile, Typed
<1>3. CASE BrowseWrite(c)
  BY <1>3, EndsHere DEF BrowseWrite, Typed
<1> QED BY <1>1, <1>2, <1>3 DEF BrowsePicture

LEMMA InitRequests ==
    ASSUME Typed, NEW c \in Programs, 
           InitExists(c) \/ InitName(c) \/ InitKnown(c) \/ InitListed(c)
           \/ InitExpire(c)
    PROVE  RequestsOK' /\ Follows(c)
<1> USE DEF At
<1>1. CASE InitExists(c)
  BY <1>1, EndsHere, GoesOn DEF InitExists, Plain, Far, WellRead, Typed
<1>2. CASE InitName(c)
  BY <1>2, GoesOn DEF InitName, Plain, Far, WellRead, Typed
<1>3. CASE InitKnown(c)
  BY <1>3, GoesOn DEF InitKnown, Plain, Far, WellRead, Typed
<1>4. CASE InitListed(c)
  BY <1>4, GoesOn DEF InitListed, Plain, Far, WellRead, Typed
<1>5. CASE InitExpire(c)
  BY <1>5, EndsHere DEF InitExpire, Typed
<1> QED BY <1>1, <1>2, <1>3, <1>4, <1>5

LEMMA PartRequests ==
    ASSUME Typed, NEW c \in Programs, PartWrite(c) \/ PartList(c)
    PROVE  RequestsOK' /\ Follows(c)
<1> USE DEF At
<1>1. CASE PartWrite(c)
  <2>1. Goes(c, "PartList", {}, req[c].after)
    BY <1>1, Steps DEF PartWrite, Typed
  <2>2. Handled(req[c]) /\ req[c].part \in Whole
    BY <1>1, Serves DEF PartWrite, Handled, Typed
  <2>3. Handled(req'[c])
    BY <2>1, <2>2 DEF Goes, Handled, WellRead
  <2>4. RequestsOK' /\ req'[c] # Idle
    BY <2>1, <2>3, IdleStep DEF Goes, OthersWait, RequestsOK, Handled, Typed
  <2>5. Naming("PartList", {}) = {}
        /\ "PartList" \notin Early \cup PreStore \cup PreInsert
        /\ "PartList" # "MergePart"
    BY DEF Naming, Early, PreStore, PreInsert
  <2> QED BY <1>1, <2>1, <2>4, <2>5 DEF PartWrite, Follows, Goes
<1>2. CASE PartList(c)
  BY <1>2, EndsHere DEF PartList, Typed
<1> QED BY <1>1, <1>2

LEMMA MergeRequests ==
    ASSUME Typed, NEW c \in Programs, Merge(c)
    PROVE  RequestsOK' /\ (MergePart(c) \/ Follows(c))
<1> USE DEF At
<1>1. CASE MergeLocked(c)
  <2>1. req[c].step \in PreStore /\ "MergeClean" \in Joints
    BY <1>1 DEF MergeLocked, PreStore, Joints
  <2> QED BY <1>1, <2>1, EndsHere, EarlyForks DEF MergeLocked, Typed
<1>2. CASE MergeVerify(c)
  <2>1. req[c].step \in PreStore /\ "MergeForget" \in Joints
    BY <1>2 DEF MergeVerify, PreStore, Joints
  <2> QED BY <1>2, <2>1, JoinsOn, EarlyForks DEF MergeVerify, Typed
<1>3. CASE MergePart(c)
  BY <1>3, Stores DEF MergePart, Typed, RequestsOK
<1>4. CASE MergeClean(c)
  BY <1>4, GoesOn DEF MergeClean, Plain, Far, WellRead, Typed
<1>5. CASE MergeUnlink(c)
  BY <1>5, GoesOn DEF MergeUnlink, Plain, Far, WellRead, Typed
<1>6. CASE MergeForget(c)
  BY <1>6, GoesOn DEF MergeForget, Plain, Far, WellRead, Typed
<1>7. CASE MergeRelease(c)
  BY <1>7, EndsHere DEF MergeRelease, Typed
<1>8. CASE \/ ReuseCount(c, "MergeCount", "MergeOwned", "MergeVerify")
           \/ ReuseOwned(c, "MergeOwned")
  BY <1>8, ReuseRequests DEF Typed
<1>9. CASE StoreInfo(c) \/ Bind(c)
  BY <1>9, StoreRequests, BindRequests DEF Typed
<1>10. CASE AppendFails(c) \/ StatementFails(c)
  BY <1>10, JoinsOn DEF AppendFails, StatementFails, Typed
<1>11. CASE OwnedUnread(c)
  BY <1>11, GoesOn DEF OwnedUnread, Misread, Plain, Far, WellRead, Typed
<1> QED BY <1>1, <1>2, <1>3, <1>4, <1>5, <1>6, <1>7, <1>8, <1>9, <1>10, <1>11
       DEF Merge

----------------------------------------------------------------------------
(* The tables.                                                             *)

LEMMA RelationRows ==
    ASSUME NEW rows \in Rows(RelationRow), NEW b \in BOOLEAN, NEW n \in Nat
    PROVE  /\ {[r EXCEPT !.shared = b] : r \in rows} \in Rows(RelationRow)
           /\ {[r EXCEPT !.views = n] : r \in rows} \in Rows(RelationRow)
<1>1. CASE rows = {}
  BY <1>1 DEF Rows
<1>2. ASSUME NEW r \in RelationRow, rows = {r}
      PROVE  /\ {[x EXCEPT !.shared = b] : x \in rows} \in Rows(RelationRow)
             /\ {[x EXCEPT !.views = n] : x \in rows} \in Rows(RelationRow)
  <2>1. [r EXCEPT !.shared = b] \in RelationRow
        /\ [r EXCEPT !.views = n] \in RelationRow
    BY DEF RelationRow
  <2>2. /\ {[x EXCEPT !.shared = b] : x \in rows} = {[r EXCEPT !.shared = b]}
        /\ {[x EXCEPT !.views = n] : x \in rows} = {[r EXCEPT !.views = n]}
    BY <1>2
  <2> QED BY <2>1, <2>2 DEF Rows
<1> QED BY <1>1, <1>2 DEF Rows

\* A step that writes one table.
LEMMA SameTables ==
    ASSUME TablesOK, UNCHANGED <<fileTables, shareTables, pictureTables, public,
                                 stored>>
    PROVE  TablesOK'
  BY DEF TablesOK, fileTables, shareTables, pictureTables, public

LEMMA WritesInfo ==
    ASSUME TablesOK, NEW f \in Files, NEW rows \in Rows(InfoRow),
           info' = [info EXCEPT ![f] = rows],
           UNCHANGED <<relation, owned>>, OnlyFiles
    PROVE  TablesOK'
  BY DEF TablesOK, OnlyFiles, shareTables, pictureTables, public

LEMMA WritesRelation ==
    ASSUME TablesOK, NEW p \in Users \X Files, NEW rows \in Rows(RelationRow),
           relation' = [relation EXCEPT ![p] = rows],
           UNCHANGED <<info, owned>>, OnlyFiles
    PROVE  TablesOK'
  BY DEF TablesOK, OnlyFiles, shareTables, pictureTables, public

LEMMA WritesOwned ==
    ASSUME TablesOK, NEW u \in Users, NEW rows \in Rows(Nat),
           owned' = [owned EXCEPT ![u] = rows],
           UNCHANGED <<info, relation>>, OnlyFiles
    PROVE  TablesOK'
  BY DEF TablesOK, OnlyFiles, shareTables, pictureTables, public

LEMMA WritesShares ==
    ASSUME TablesOK, shares' \subseteq ShareRow, total' \in Rows(Int),
           OnlyShares
    PROVE  TablesOK'
  BY DEF TablesOK, OnlyShares, fileTables, pictureTables, public

LEMMA WritesPictures ==
    ASSUME TablesOK, pictures' \subseteq PictureRow,
           pictureCount' \in [Users -> Rows(Nat)],
           UNCHANGED <<fileTables, shareTables, public, stored>>
    PROVE  TablesOK'
  BY DEF TablesOK, fileTables, shareTables, public

LEMMA WritesRedis ==
    ASSUME TablesOK, ranking' \in [Files -> Rows(Nat)], names' \subseteq Files,
           OnlyPublic
    PROVE  TablesOK'
  BY DEF TablesOK, OnlyPublic, fileTables, shareTables, pictureTables

LEMMA WritesBlobs ==
    ASSUME TablesOK, stored' \subseteq Blob,
           UNCHANGED <<fileTables, shareTables, pictureTables, public>>
    PROVE  TablesOK'
  BY DEF TablesOK, fileTables, shareTables, pictureTables, public

LEMMA Ranks ==
    ASSUME TablesOK, NEW f \in Files, NEW score \in Rows(Nat), Rank(f, score)
    PROVE  TablesOK'
<1>1. ranking' \in [Files -> Rows(Nat)] /\ names' \subseteq Files
  BY DEF Rank, TablesOK
<1> QED BY <1>1, WritesRedis DEF Rank

LEMMA Names ==
    ASSUME TablesOK, NEW N \in SUBSET Files, Name(N) PROVE TablesOK'
<1>1. ranking' \in [Files -> Rows(Nat)] /\ names' \subseteq Files
  BY DEF Name, TablesOK
<1> QED BY <1>1, WritesRedis DEF Name

LEMMA BumpedRows ==
    ASSUME TablesOK, NEW f \in Files
    PROVE  Bumped(f) \in Rows(Nat) /\ {0} \in Rows(Nat) /\ {} \in Rows(Nat)
<1>1. ranking[f] \in Rows(Nat) /\ {1} \in Rows(Nat) /\ {0} \in Rows(Nat)
  BY DEF TablesOK, Rows
<1>2. CASE ranking[f] = {}
  BY <1>1, <1>2 DEF Bumped, Rows
<1>3. ASSUME NEW n \in Nat, ranking[f] = {n} PROVE Bumped(f) \in Rows(Nat)
  <2>1. {k + 1 : k \in ranking[f]} = {n + 1}
    BY <1>3
  <2> QED BY <1>1, <2>1 DEF Bumped, Rows
<1> QED BY <1>1, <1>2, <1>3 DEF Rows

\* The rows a statement is going to write.
LEMMA ReadRows ==
    ASSUME RequestsOK, NEW c \in Programs, req[c] # Idle
    PROVE  WellRead(req[c].step, req[c].read)
  BY Serves DEF Handled

LEMMA OnlyOne == ASSUME NEW x PROVE Only({x}) = x
  BY DEF Only

LEMMA ShareTables ==
    ASSUME Typed, NEW c \in Programs, Share(c) PROVE TablesOK'
<1> USE DEF At, Typed
<1>0. req[c] # Idle => req[c].file \in Files
  BY Serves DEF Handled
<1>1. CASE \/ ShareExists(c) \/ ShareReadTotal(c)
           \/ Misread(c, "ShareFind", "ShareMark")
           \/ Misread(c, "ShareReadTotal", "ShareRank")
  BY <1>1, SameTables DEF ShareExists, ShareReadTotal, Misread, OnlyReq
<1>2. CASE ShareFind(c)
  BY <1>0, <1>2, SameTables, Ranks, BumpedRows DEF ShareFind, OnlyReq
<1>3. CASE ShareMark(c)
  <2>1. CASE UNCHANGED relation
    BY <1>3, <2>1, SameTables DEF ShareMark, OnlyFiles, fileTables
  <2>2. CASE relation' = [relation EXCEPT ![Key(c)] =
                              {[r EXCEPT !.shared = TRUE] : r \in @}]
    BY <1>3, <2>2, RelationRows, WritesRelation, Serves, OwnRows
    DEF ShareMark, OnlyFiles
  <2> QED BY <1>3, <2>1, <2>2 DEF ShareMark
<1>4. CASE ShareInsert(c)
  <2>1. [user |-> req[c].user, file |-> req[c].file, token |-> req[c].no,
         views |-> 0] \in ShareRow
    BY <1>4, Serves DEF ShareInsert, Handled, ShareRow
  <2>2. shares' \subseteq ShareRow /\ total' \in Rows(Int)
    BY <1>4, <2>1 DEF ShareInsert, TablesOK
  <2> QED BY <1>4, <2>2, WritesShares DEF ShareInsert
<1>6. CASE ShareWriteTotal(c)
  <2>1. req[c].read \in Rows(Int)
    BY <1>6, ReadRows DEF ShareWriteTotal, WellRead
  <2>2. shares' \subseteq ShareRow /\ total' \in Rows(Int)
    BY <1>6, <2>1, UpRows DEF ShareWriteTotal, TablesOK
  <2> QED BY <1>6, <2>2, WritesShares DEF ShareWriteTotal
<1>7. CASE ShareRank(c)
  BY <1>0, <1>7, Ranks, BumpedRows DEF ShareRank
<1>8. CASE ShareName(c)
  BY <1>0, <1>8, Names DEF ShareName, TablesOK
<1> QED BY <1>1, <1>2, <1>3, <1>4, <1>6, <1>7, <1>8 DEF Share

LEMMA BindTables ==
    ASSUME Typed, NEW c \in Programs, Bind(c) PROVE TablesOK'
<1> USE DEF At, Typed
<1>0. req[c] # Idle => req[c].file \in Files /\ req[c].user \in Users
  BY Serves DEF Handled
<1>1. CASE BindCount(c)
  <2>1. PICK n \in Nat : req[c].read = {n}
    BY <1>1, ReadRows DEF BindCount, WellRead
  <2>2. Only(req[c].read) = n
    BY <2>1, OnlyOne
  <2>3. Only(req[c].read) + 1 \in Nat
    BY <2>2
  <2> QED BY <1>0, <1>1, <2>3, CountRows, OwnRows, WritesInfo DEF BindCount
<1>2. CASE BindRelation(c)
  <2>1. {NewRelation} \in Rows(RelationRow)
    BY DEF Rows, NewRelation, RelationRow
  <2> QED BY <1>2, <2>1, Serves, WritesRelation, SameTables
          DEF BindRelation, OnlyFiles, fileTables
<1>3. CASE ReadOwned(c)
  BY <1>3, SameTables DEF ReadOwned, OnlyReq
<1>4. CASE WriteOwned(c)
  <2>1. req[c].read \in Rows(Nat)
    BY <1>4, ReadRows DEF WriteOwned, WellRead
  <2> QED BY <1>0, <1>4, <2>1, UpRows, OwnRows, WritesOwned DEF WriteOwned
<1> QED BY <1>1, <1>2, <1>3, <1>4 DEF Bind

LEMMA DeleteTables ==
    ASSUME Typed, NEW c \in Programs, Delete(c) PROVE TablesOK'
<1> USE DEF At, Typed
<1>0. req[c] # Idle => req[c].file \in Files /\ req[c].user \in Users
  BY Serves DEF Handled
<1>e. {} \in Rows(InfoRow) /\ {} \in Rows(RelationRow)
  BY DEF Rows
<1>1. CASE \/ DelExists(c) \/ DelStatus(c) \/ DelReadTotal(c) \/ DelReadOwned(c)
           \/ DelReadCount(c) \/ DelReadBlob(c)
  BY <1>1, SameTables DEF DelExists, DelStatus, DelReadTotal, DelReadOwned,
                          DelReadCount, DelReadBlob, OnlyReq
<1>2. CASE DelShare(c)
  BY <1>2, WritesShares DEF DelShare, TablesOK
<1>3. CASE DelWriteTotal(c)
  <2>1. req[c].read \in Rows(Int)
    BY <1>3, ReadRows DEF DelWriteTotal, WellRead
  <2>2. total' \in Rows(Int)
    BY <1>3, <2>1, DownRows DEF DelWriteTotal, Rows
  <2> QED BY <1>3, <2>2, WritesShares DEF DelWriteTotal, TablesOK
<1>4. CASE DelUnrank(c)
  BY <1>0, <1>4, Ranks, BumpedRows DEF DelUnrank
<1>5. CASE DelUnname(c)
  BY <1>0, <1>5, Names DEF DelUnname, TablesOK
<1>6. CASE DelRelation(c)
  <2>1. req[c].read \in Rows(Nat)
    BY <1>6, ReadRows DEF DelRelation, WellRead
  <2>2. (IF owned[req[c].user] = {} \/ 0 \in req[c].read
         THEN owned[req[c].user] ELSE {n - 1 : n \in req[c].read}) \in Rows(Nat)
    BY <1>6, <2>1, DownRows, OwnRows DEF DelRelation
  <2>3. CASE Owns(c)
    <3>1. /\ relation' = [relation EXCEPT ![Key(c)] = {}]
          /\ owned' = [owned EXCEPT ![req[c].user] =
                          IF owned[req[c].user] = {} \/ 0 \in req[c].read
                          THEN owned[req[c].user]
                          ELSE {n - 1 : n \in req[c].read}]
      BY <1>6, <2>3, <1>0 DEF DelRelation, TablesOK
    <3> HIDE DEF At, Typed
    <3>2. owned' \in [Users -> Rows(Nat)]
      BY <1>0, <1>6, <2>2, <3>1 DEF DelRelation, At, Typed, TablesOK
    <3>3. relation' \in [Users \X Files -> Rows(RelationRow)]
      BY <1>e, <3>1 DEF Typed, TablesOK
    <3> QED
      BY <1>6, <3>2, <3>3 DEF DelRelation, Typed, TablesOK, OnlyFiles,
                              shareTables, pictureTables, public
  <2> QED BY <1>6, <2>3, SameTables DEF DelRelation, OnlyFiles, fileTables
<1>7. CASE DelWriteCount(c)
  <2>1. PICK n \in Nat : req[c].read = {n}
    BY <1>7, ReadRows DEF DelWriteCount, WellRead
  <2>2. Only(req[c].read) = n
    BY <2>1, OnlyOne
  <2>3. Less(Only(req[c].read)) \in Nat
    BY <2>2 DEF Less
  <2> QED BY <1>0, <1>7, <2>3, CountRows, OwnRows, WritesInfo DEF DelWriteCount
<1>8. CASE DelRemoves(c)
  <2>1. CASE RemoveInfo(c, "DelInfo", "DelBlob")
    BY <1>0, <1>e, <2>1, WritesInfo DEF RemoveInfo
  <2>2. CASE RemoveBlob(c, "DelBlob", Ends(c))
    BY <2>2, WritesBlobs DEF RemoveBlob, TablesOK
  <2> QED BY <1>8, <2>1, <2>2 DEF DelRemoves
<1> QED BY <1>1, <1>2, <1>3, <1>4, <1>5, <1>6, <1>7, <1>8 DEF Delete

LEMMA ViewTables ==
    ASSUME Typed, NEW c \in Programs, View(c) PROVE TablesOK'
<1> USE DEF At, Typed
<1>0. req[c] # Idle => req[c].file \in Files /\ req[c].user \in Users
  BY Serves DEF Handled
<1>1. CASE ViewRead(c)
  BY <1>1, SameTables DEF ViewRead, OnlyReq
<1>2. req[c] # Idle /\ req[c].step \in {"ViewOwn", "ViewShare"}
      => Seen(c).views + 1 \in Nat
  <2>1. req[c] # Idle /\ req[c].step \in {"ViewOwn", "ViewShare"}
        => \E r \in RelationRow : req[c].read = {r}
    BY ReadRows DEF WellRead
  <2>2. \A r \in RelationRow : req[c].read = {r} => Seen(c) = r
    BY OnlyOne DEF Seen
  <2>3. \A r \in RelationRow : r.views + 1 \in Nat
    BY DEF RelationRow
  <2> QED BY <2>1, <2>2, <2>3
<1>3. CASE ViewOwn(c)
  <2>1. {[r EXCEPT !.views = Seen(c).views + 1] : r \in relation[Key(c)]}
            \in Rows(RelationRow)
    BY <1>2, <1>3, RelationRows, OwnRows DEF ViewOwn
  <2> QED BY <1>3, <2>1, Serves, WritesRelation DEF ViewOwn
<1>4. CASE ViewShare(c)
  <2>1. \A r \in ShareRow : [r EXCEPT !.views = Seen(c).views + 1] \in ShareRow
    BY <1>2, <1>4 DEF ViewShare, ShareRow
  <2>2. shares' \subseteq ShareRow /\ total' \in Rows(Int)
    BY <1>4, <2>1 DEF ViewShare, ShareOf, SharesOf, TablesOK
  <2> QED BY <1>4, <2>2, WritesShares DEF ViewShare
<1>5. CASE ViewRank(c)
  BY <1>0, <1>5, Ranks, BumpedRows DEF ViewRank
<1> QED BY <1>1, <1>3, <1>4, <1>5 DEF View

LEMMA VisitTables ==
    ASSUME Typed, NEW c \in Programs, Visit(c) PROVE TablesOK'
<1> USE DEF At, Typed
<1>0. req[c] # Idle => req[c].file \in Files /\ req[c].user \in Users
  BY Serves DEF Handled
<1>1. CASE VisitRead(c) \/ VisitExists(c)
  BY <1>1, SameTables DEF VisitRead, VisitExists, OnlyReq
<1>2. req[c] # Idle /\ req[c].step \in {"VisitWrite", "VisitRank"}
      => Seen(c) + 1 \in Nat /\ {Seen(c) + 1} \in Rows(Nat)
  <2>1. req[c] # Idle /\ req[c].step \in {"VisitWrite", "VisitRank"}
        => \E n \in Nat : req[c].read = {n}
    BY ReadRows DEF WellRead
  <2>2. \A n \in Nat : req[c].read = {n} => Seen(c) = n
    BY OnlyOne DEF Seen
  <2>3. \A n \in Nat : n + 1 \in Nat /\ {n + 1} \in Rows(Nat)
    BY DEF Rows
  <2> QED BY <2>1, <2>2, <2>3
<1>3. CASE VisitWrite(c)
  <2>1. \A r \in ShareRow : [r EXCEPT !.views = Seen(c) + 1] \in ShareRow
    BY <1>2, <1>3 DEF VisitWrite, ShareRow
  <2>2. shares' \subseteq ShareRow /\ total' \in Rows(Int)
    BY <1>3, <2>1 DEF VisitWrite, TablesOK
  <2> QED BY <1>3, <2>2, WritesShares DEF VisitWrite
<1>4. CASE VisitBump(c)
  BY <1>0, <1>4, Ranks, BumpedRows DEF VisitBump
<1>5. CASE VisitRank(c)
  BY <1>0, <1>2, <1>5, Ranks DEF VisitRank
<1>6. CASE ShareName(c)
  BY <1>0, <1>6, Names DEF ShareName, TablesOK
<1> QED BY <1>1, <1>3, <1>4, <1>5, <1>6 DEF Visit

LEMMA CancelTables ==
    ASSUME Typed, NEW c \in Programs, Cancel(c) PROVE TablesOK'
<1> USE DEF At, Typed
<1>0. req[c] # Idle => req[c].file \in Files /\ req[c].user \in Users
  BY Serves DEF Handled
<1>1. CASE CancelMark(c)
  BY <1>1, RelationRows, WritesRelation, Serves, OwnRows DEF CancelMark
<1>2. CASE CancelReadTotal(c)
  BY <1>2, SameTables DEF CancelReadTotal, OnlyReq
<1>3. CASE CancelWriteTotal(c)
  <2>1. PICK n \in Int : req[c].read = {n}
    BY <1>3, ReadRows DEF CancelWriteTotal, WellRead
  <2>2. Seen(c) = n
    BY <2>1, OnlyOne DEF Seen
  <2>3. total' \in Rows(Int)
    BY <1>3, <2>2 DEF CancelWriteTotal, Rows
  <2> QED BY <1>3, <2>3, WritesShares DEF CancelWriteTotal, TablesOK
<1>4. CASE CancelShare(c)
  BY <1>4, WritesShares DEF CancelShare, TablesOK
<1>5. CASE CancelUnrank(c)
  <2>1. ranking' \in [Files -> Rows(Nat)]
    BY <1>0, <1>5, BumpedRows DEF CancelUnrank, TablesOK
  <2> QED BY <1>5, <2>1, WritesRedis DEF CancelUnrank, TablesOK
<1>6. CASE CancelName(c)
  BY <1>6, WritesRedis DEF CancelName, TablesOK
<1> QED BY <1>1, <1>2, <1>3, <1>4, <1>5, <1>6 DEF Cancel

LEMMA SaveTables ==
    ASSUME Typed, NEW c \in Programs, Save(c) PROVE TablesOK'
  BY BindTables, SameTables
  DEF Save, SaveOwned, SaveRead, Misread, OnlyReq, Typed

LEMMA RankTables ==
    ASSUME Typed, NEW c \in Programs, RankList(c) PROVE TablesOK'
<1> USE DEF At, Typed
<1>1. CASE RankTotal(c) \/ RankSql(c) \/ RankCard(c) \/ RankRead(c)
  BY <1>1, SameTables DEF RankTotal, RankSql, RankCard, RankRead, OnlyReq
<1>2. CASE RankClear(c)
  <2>1. ranking' \in [Files -> Rows(Nat)]
    BY <1>2 DEF RankClear, TablesOK, Rows
  <2> QED BY <1>2, <2>1, WritesRedis DEF RankClear, TablesOK
<1>3. CASE RankClearNames(c)
  BY <1>3, Names DEF RankClearNames
<1>4. CASE RankAdd(c)
  <2>1. req[c].read \subseteq ShareRow
    BY <1>4, ReadRows DEF RankAdd, WellRead
  <2>2. \A r \in ShareRow : r.file \in Files /\ {r.views} \in Rows(Nat)
    BY DEF ShareRow, Rows
  <2> QED BY <1>4, <2>1, <2>2, Ranks DEF RankAdd, Topmost
<1>5. CASE RankName(c)
  BY <1>5, Names, Serves DEF RankName, Handled, TablesOK
<1> QED BY <1>1, <1>2, <1>3, <1>4, <1>5 DEF RankList

LEMMA StoreTables ==
    ASSUME Typed, NEW c \in Programs, StoreInfo(c) PROVE TablesOK'
<1> USE DEF At, Typed
<1>1. CASE \/ StoreOwned(c) \/ StoreRead(c)
           \/ Misread(c, "StoreOwned", "StoreRead")
           \/ Misread(c, "StoreRead", "StoreInsert")
  BY <1>1, SameTables DEF StoreOwned, StoreRead, Misread, OnlyReq
<1>2. CASE StoreInsert(c)
  <2>1. /\ req[c].file \in Files
        /\ {[count |-> 1, blob |-> req[c].no]} \in Rows(InfoRow)
    BY <1>2, Serves DEF StoreInsert, Handled, Rows, InfoRow
  <2> QED BY <1>2, <2>1, WritesInfo, SameTables
          DEF StoreInsert, OnlyFiles, fileTables
<1> QED BY <1>1, <1>2 DEF StoreInfo

LEMMA InstantTables ==
    ASSUME Typed, NEW c \in Programs, InstantUpload(c) PROVE TablesOK'
  BY BindTables, SameTables
  DEF InstantUpload, Md5Count, Md5Owned, Skips, OnlyReq, Typed

LEMMA UploadTables ==
    ASSUME Typed, NEW c \in Programs, UploadFile(c) PROVE TablesOK'
<1> USE DEF At, Typed
<1>1. CASE StoreBlob(c)
  <2>1. [file |-> req[c].file, no |-> req[c].no, parts |-> Whole] \in Blob
    BY <1>1, Serves DEF StoreBlob, Handled, Blob
  <2> QED BY <1>1, <2>1, WritesBlobs DEF StoreBlob, TablesOK
<1> QED BY <1>1, BindTables, StoreTables, SameTables
        DEF UploadFile, ReuseCount, ReuseOwned, OnlyReq

LEMMA PictureTables ==
    ASSUME Typed, NEW c \in Programs, SharePicture(c) PROVE TablesOK'
<1> USE DEF At, Typed
<1>1. CASE PictureInsert(c)
  <2>1. PICK url \in Urls(c) : pictures' = pictures \cup
          {[id |-> req[c].no, user |-> req[c].user, file |-> req[c].file,
            url |-> url, views |-> 0]}
    BY <1>1 DEF PictureInsert
  <2>2. req[c].no \in Nat /\ req[c].user \in Users /\ req[c].file \in Files
    BY <1>1, Serves DEF PictureInsert, Handled
  <2>3. url \in Nat
    BY <2>1, <2>2 DEF Urls, TablesOK, PictureRow
  <2>4. [id |-> req[c].no, user |-> req[c].user, file |-> req[c].file,
         url |-> url, views |-> 0] \in PictureRow
    BY <2>2, <2>3 DEF PictureRow
  <2> QED BY <1>1, <2>1, <2>4, WritesPictures DEF PictureInsert, TablesOK
<1>2. CASE PictureRead(c) \/ PictureReadOwn(c)
  BY <1>2, SameTables DEF PictureRead, PictureReadOwn, OnlyReq
<1>3. CASE PictureCount(c)
  <2>1. PICK n \in Nat : req[c].read = {n}
    BY <1>3, ReadRows DEF PictureCount, WellRead
  <2>2. Only(req[c].read) = n /\ req[c].file \in Files
    BY <1>3, <2>1, OnlyOne, Serves DEF PictureCount, Handled
  <2>3. Only(req[c].read) + 1 \in Nat
    BY <2>2
  <2> QED BY <1>3, <2>2, <2>3, CountRows, OwnRows, WritesInfo DEF PictureCount
<1>4. CASE PictureWriteOwn(c)
  <2>1. req[c].read \in Rows(Nat)
    BY <1>4, ReadRows DEF PictureWriteOwn, WellRead
  <2>2. CountedUp(pictureCount[req[c].user], req[c].read) \in Rows(Nat)
    BY <1>4, <2>1, UpRows, OwnRows DEF PictureWriteOwn
  <2>3. pictureCount' \in [Users -> Rows(Nat)]
    BY <1>4, <2>2 DEF PictureWriteOwn, TablesOK
  <2> QED BY <1>4, <2>3, WritesPictures DEF PictureWriteOwn, TablesOK
<1> QED BY <1>1, <1>2, <1>3, <1>4 DEF SharePicture

LEMMA DropTables ==
    ASSUME Typed, NEW c \in Programs, CancelPicture(c) PROVE TablesOK'
<1> USE DEF At, Typed
<1>1. CASE DropFind(c) \/ DropReadOwn(c) \/ DropRead(c) \/ DropSkips(c)
  BY <1>1, SameTables DEF DropFind, DropReadOwn, DropRead, DropSkips, Skips,
                          OnlyReq
<1>2. CASE DropWriteOwn(c)
  <2>1. req[c].read \in Rows(Nat)
    BY <1>2, ReadRows DEF DropWriteOwn, WellRead
  <2>2. 0 \notin req[c].read => {n - 1 : n \in req[c].read} \in Rows(Nat)
    BY <2>1, DownRows
  <2>3. pictureCount' \in [Users -> Rows(Nat)]
    BY <1>2, <2>2 DEF DropWriteOwn, TablesOK
  <2> QED BY <1>2, <2>3, WritesPictures DEF DropWriteOwn, TablesOK
<1>3. CASE DropCount(c)
  <2>1. req[c].read \in Rows(InfoRow)
    BY <1>3, ReadRows DEF DropCount, WellRead
  <2>2. CASE \E r \in req[c].read : r.count > 0
    <3>1. PICK r \in InfoRow : req[c].read = {r} /\ r.count > 0
      BY <2>1, <2>2 DEF Rows
    <3>2. Only(req[c].read) = r /\ req[c].file \in Files
      BY <1>3, <3>1, OnlyOne, Serves DEF DropCount, Handled
    <3>3. Only(req[c].read).count - 1 \in Nat
      BY <3>1, <3>2 DEF InfoRow
    <3> QED BY <1>3, <2>2, <3>2, <3>3, CountRows, OwnRows, WritesInfo
            DEF DropCount
  <2>3. CASE ~\E r \in req[c].read : r.count > 0
    <3>1. info' = info
      BY <1>3, <2>3 DEF DropCount, TablesOK
    <3> QED BY <1>3, <3>1, SameTables DEF DropCount, OnlyFiles, fileTables
  <2> QED BY <2>2, <2>3
<1>4. CASE DropRow(c)
  BY <1>4, WritesPictures DEF DropRow, TablesOK
<1>5. CASE DropInfo(c)
  <2>1. {} \in Rows(InfoRow) /\ req[c].file \in Files
    BY <1>5, Serves DEF DropInfo, Handled, Rows
  <2> QED BY <1>5, <2>1, WritesInfo DEF DropInfo
<1>6. CASE DropBlob(c)
  BY <1>6, WritesBlobs DEF DropBlob, TablesOK
<1> QED BY <1>1, <1>2, <1>3, <1>4, <1>5, <1>6 DEF CancelPicture

LEMMA BrowseTables ==
    ASSUME Typed, NEW c \in Programs, BrowsePicture(c) PROVE TablesOK'
<1> USE DEF At, Typed
<1>1. CASE BrowseRead(c) \/ BrowseFile(c)
  BY <1>1, SameTables DEF BrowseRead, BrowseFile, OnlyReq
<1>2. CASE BrowseWrite(c)
  <2>1. Only(req[c].read) + 1 \in Nat
    <3>1. req[c].read # {} /\ req[c].read \subseteq Nat
      BY <1>2, ReadRows DEF BrowseWrite, WellRead
    <3> QED BY <3>1, OnlyRow
  <2>2. \A r \in PictureRow :
          [r EXCEPT !.views = Only(req[c].read) + 1] \in PictureRow
    BY <2>1 DEF PictureRow
  <2>3. pictures' \subseteq PictureRow
    BY <1>2, <2>2 DEF BrowseWrite, Link, TablesOK
  <2> QED BY <1>2, <2>3, WritesPictures DEF BrowseWrite, TablesOK
<1> QED BY <1>1, <1>2 DEF BrowsePicture

LEMMA HashRow ==
    ASSUME Typed, NEW f \in Files
    PROVE  Hash(f) \in Progress /\ progress[f] \in Rows(Progress)
<1>1. NewProgress \in Progress
  BY DEF NewProgress, Progress
<1>2. progress[f] \in Rows(Progress)
  BY DEF Typed, ChunksOK
<1>3. ASSUME progress[f] # {} PROVE Hash(f) \in Progress
  <2>1. progress[f] \subseteq Progress
    BY <1>2 DEF Rows
  <2> QED BY <1>3, <2>1, OnlyRow DEF Hash
<1> QED BY <1>1, <1>2, <1>3 DEF Hash

LEMMA WritesHash ==
    ASSUME Typed, NEW f \in Files, NEW rows \in Rows(Progress),
           progress' = [progress EXCEPT ![f] = rows],
           UNCHANGED <<mergeLock, disk>>
    PROVE  ChunksOK'
  BY DEF Typed, ChunksOK

LEMMA InitChunks ==
    ASSUME Typed, NEW c \in Programs, 
           InitExists(c) \/ InitName(c) \/ InitKnown(c) \/ InitListed(c)
           \/ InitExpire(c)
    PROVE  ChunksOK' /\ OnlyReq
<1> USE DEF At
<1>0. req[c] # Idle => req[c].file \in Files
  BY Serves DEF Typed, Handled
<1>1. CASE InitExists(c)
  BY <1>1 DEF InitExists, Typed, ChunksOK, chunkVars
<1>2. CASE InitName(c)
  <2>1. {Hash(req[c].file)} \in Rows(Progress)
    BY <1>0, <1>2, HashRow DEF InitName, Rows
  <2> QED BY <1>0, <1>2, <2>1, WritesHash DEF InitName, SetHash
<1>3. CASE InitKnown(c)
  <2>1. \A r \in Progress : [r EXCEPT !.known = TRUE] \in Progress
    BY DEF Progress
  <2>2. {[Hash(req[c].file) EXCEPT !.known = TRUE]} \in Rows(Progress)
    BY <1>0, <1>3, <2>1, HashRow DEF InitKnown, Rows
  <2> QED BY <1>0, <1>3, <2>2, WritesHash DEF InitKnown, SetHash
<1>4. CASE InitListed(c)
  <2>1. \A r \in Progress : [r EXCEPT !.listed = {}] \in Progress
    BY DEF Progress
  <2>2. {[Hash(req[c].file) EXCEPT !.listed = {}]} \in Rows(Progress)
    BY <1>0, <1>4, <2>1, HashRow DEF InitListed, Rows
  <2> QED BY <1>0, <1>4, <2>2, WritesHash DEF InitListed, SetHash
<1>5. CASE InitExpire(c)
  <2>1. \A r \in Progress : [r EXCEPT !.expires = TRUE] \in Progress
    BY DEF Progress
  <2>2. progress[req[c].file] \in Rows(Progress)
    BY <1>0, <1>5, HashRow DEF InitExpire
  <2>3. {[r EXCEPT !.expires = TRUE] : r \in progress[req[c].file]}
            \in Rows(Progress)
    <3>1. CASE progress[req[c].file] = {}
      BY <3>1 DEF Rows
    <3>2. ASSUME NEW r \in Progress, progress[req[c].file] = {r}
          PROVE  {[x EXCEPT !.expires = TRUE] : x \in progress[req[c].file]}
                     = {[r EXCEPT !.expires = TRUE]}
      BY <3>2
    <3> QED BY <2>1, <2>2, <3>1, <3>2 DEF Rows
  <2> QED BY <1>0, <1>5, <2>3, WritesHash DEF InitExpire
<1> QED BY <1>1, <1>2, <1>3, <1>4, <1>5

LEMMA PartChunks ==
    ASSUME Typed, NEW c \in Programs, PartWrite(c) \/ PartList(c)
    PROVE  ChunksOK' /\ OnlyReq
<1> USE DEF At
<1>0. req[c] # Idle => req[c].file \in Files
  BY Serves DEF Typed, Handled
<1>1. CASE PartWrite(c)
  <2>1. req[c].part \in Whole
    BY <1>1, Serves DEF PartWrite, Typed, Handled
  <2> QED BY <1>0, <1>1, <2>1 DEF PartWrite, Typed, ChunksOK
<1>2. CASE PartList(c)
  <2> DEFINE r == Hash(req[c].file)
             all == r.index \cup {req[c].part}
  <2>1. req[c].part \in Whole
    BY <1>2, Serves DEF PartList, Typed, Handled
  <2>2. \A h \in Progress : \A A \in SUBSET Whole :
          [h EXCEPT !.index = A, !.listed = @ \cup A] \in Progress
    BY DEF Progress
  <2>3. r \in Progress /\ all \in SUBSET Whole
    BY <1>0, <1>2, <2>1, HashRow DEF PartList, Progress
  <2>4. {[r EXCEPT !.index = all, !.listed = @ \cup all]} \in Rows(Progress)
    BY <2>2, <2>3 DEF Rows
  <2> QED BY <1>0, <1>2, <2>4, WritesHash DEF PartList, SetHash
<1> QED BY <1>1, <1>2

LEMMA MergeChunks ==
    ASSUME Typed, NEW c \in Programs, Merge(c)
    PROVE  ChunksOK'
<1> USE DEF At, Typed
<1>0. req[c] # Idle => req[c].file \in Files
  BY Serves DEF Handled
<1>1. CASE UNCHANGED chunkVars
  BY <1>1 DEF chunkVars, ChunksOK
<1>2. CASE MergeLocked(c)
  <2>1. NewLock \in Rows(NewLock)
    BY DEF NewLock, Rows
  <2> QED BY <1>0, <1>2, <2>1 DEF MergeLocked, ChunksOK
<1>3. CASE MergePart(c)
  BY <1>0, <1>3 DEF MergePart, ChunksOK
<1>4. CASE MergeClean(c) \/ MergeForget(c)
  <2>1. {} \in Rows(Progress)
    BY DEF Rows
  <2> QED BY <1>0, <1>4, <2>1, WritesHash DEF MergeClean, MergeForget
<1>5. CASE MergeUnlink(c)
  BY <1>0, <1>5 DEF MergeUnlink, ChunksOK
<1>6. CASE MergeRelease(c)
  <2>1. {} \in Rows(NewLock)
    BY DEF Rows
  <2> QED BY <1>0, <1>6, <2>1 DEF MergeRelease, ChunksOK
<1>7. CASE MergeVerify(c)
  BY <1>1, <1>7 DEF MergeVerify
<1> QED BY <1>1, <1>2, <1>3, <1>4, <1>5, <1>6, <1>7 DEF Merge


----------------------------------------------------------------------------
(* Numbers: each request has its own, and a blob has that of its upload.   *)

\* No row of file_info names the blob of this number, nor a row that a handler
\* has read.
Unnamed(n) ==
    /\ \A f \in Files : \A r \in info[f] : r.blob # n
    /\ \A c \in Programs : n \notin Named(req[c])
Unstored(n) == \A b \in stored : b.no # n

Numbers ==
    /\ \A r \in arriving :
        r.no > FirstBlob /\ Unnamed(r.no) /\ Unstored(r.no)
    /\ \A r, s \in arriving : r.no = s.no => r = s
    /\ \A c \in Busy : req[c].no > FirstBlob
    /\ \A c \in Busy : \A r \in arriving : r.no # req[c].no
    /\ \A c, d \in Busy : req[c].no = req[d].no => c = d

\* What is stored for the request of c, which has no row yet.
Uploading(c) ==
    /\ req[c].step \in Early => Unnamed(req[c].no)
    /\ req[c].step \in PreStore => Unstored(req[c].no)
    /\ req[c].step = "MergePart"
       => \/ Merging(c) = {}
          \/ \E k \in 1..(Parts - 1) : Merging(c) =
                {[file |-> req[c].file, no |-> req[c].no, parts |-> 1..k]}
    /\ req[c].step \in PreInsert
       => [file |-> req[c].file, no |-> req[c].no, parts |-> Whole] \in stored

NumbersOK == Numbers /\ \A c \in Busy : Uploading(c)

\* The rows of file_info after a step of c: no blob is new but the one c has
\* stored.
InfoFrom(c) ==
    \A f \in Files : \A r \in info'[f] :
        \/ r.blob = NoBlob
        \/ r.blob \in Blobs(info[f])
        \/ /\ req[c] # Idle /\ req[c].step \in PreInsert
           /\ f = req[c].file /\ r.blob = req[c].no
           /\ req'[c] = Idle \/ req'[c].step \notin Early

\* The blobs after a step of c: one is removed when its row is gone.
BlobsFrom(c) ==
    /\ stored' \subseteq stored
    /\ \A b \in stored \ stored' :
        /\ req[c] # Idle /\ req[c].step \in {"DelBlob", "DropBlob"}
        /\ b.file = req[c].file /\ b.no \in req[c].read

Effect(c) ==
    /\ Follows(c) /\ arriving' = arriving /\ InfoFrom(c) /\ BlobsFrom(c)

LEMMA UnnamedStays ==
    ASSUME NEW c \in Programs, Follows(c) \/ req' = req, InfoFrom(c),
           NEW n, n # NoBlob, Unnamed(n),
           req[c] # Idle => req[c].file \in Files,
           \/ req[c] = Idle \/ n # req[c].no
           \/ req'[c] # Idle /\ req'[c].step \in Early
    PROVE  Unnamed(n)'
<1>1. \A f \in Files : \A r \in info'[f] : r.blob # n
  BY DEF InfoFrom, Unnamed, Blobs
<1>2. ASSUME NEW d \in Programs PROVE n \notin Named(req[d])'
  <2>1. CASE req'[d] = req[d]
    BY <2>1 DEF Unnamed, Named
  <2>2. CASE d = c /\ req'[c] = Idle
    BY <2>2 DEF Named
  <2>3. CASE d = c /\ req'[c] # Idle /\ Follows(c)
    <3>1. Named(req[c])' = Naming(req'[c].step, req'[c].read)
      BY <2>3 DEF Named
    <3>2. n \notin Blobs(info[req[c].file])
      BY <2>3 DEF Unnamed, Blobs, Follows
    <3> QED BY <2>3, <3>1, <3>2 DEF Follows, Unnamed
  <2> QED BY <2>1, <2>2, <2>3 DEF Follows, OthersWait
<1> QED BY <1>1, <1>2 DEF Unnamed

LEMMA NumbersStay ==
    ASSUME Typed, NumbersOK, NEW c \in Programs,
           Follows(c) \/ req' = req, arriving' \subseteq arriving,
           InfoFrom(c), BlobsFrom(c)
    PROVE  NumbersOK'
<1>1. req[c] # Idle => req[c].file \in Files
  BY Serves DEF Typed, Handled
<1>2. \A d \in Busy' : d \in Busy /\ req'[d].no = req[d].no
  BY DEF Busy, Follows, OthersWait
<1>3. \A d \in Busy : req[d].no # NoBlob
  BY DEF NumbersOK, Numbers, FirstBlob, NoBlob
<1>4. ASSUME NEW r \in arriving'
      PROVE  (r.no > FirstBlob /\ Unnamed(r.no) /\ Unstored(r.no))'
  <2>1. r \in arriving /\ r.no # NoBlob
    BY DEF NumbersOK, Numbers, FirstBlob, NoBlob
  <2>2. Unnamed(r.no)'
    BY <1>1, <2>1, UnnamedStays DEF NumbersOK, Numbers, Busy
  <2>3. Unstored(r.no)'
    BY <2>1 DEF NumbersOK, Numbers, Unstored, BlobsFrom
  <2> QED BY <2>1, <2>2, <2>3 DEF NumbersOK, Numbers
<1>5. Numbers'
  BY <1>2, <1>4 DEF NumbersOK, Numbers
<1>6. ASSUME NEW d \in Busy' PROVE Uploading(d)'
  <2>1. d \in Busy /\ req'[d].no = req[d].no /\ Uploading(d)
        /\ req[d].no # NoBlob
    BY <1>2, <1>3 DEF NumbersOK
  <2>2. /\ req'[d].step \in Early
           => req[d].step \in Early /\ req'[d].file = req[d].file
        /\ req'[d].step \in PreStore => req[d].step \in PreStore
        /\ req'[d].step \in PreInsert => req[d].step \in PreInsert
        /\ req'[d].step = "MergePart" => req[d].step \in PreStore
                                         \/ req[d].step = "MergePart"
    BY DEF Busy, Follows, OthersWait, Early
  <2>3. ASSUME req'[d].step \in Early PROVE Unnamed(req[d].no)'
    BY <1>1, <2>1, <2>2, <2>3, UnnamedStays
    DEF Uploading, Busy, NumbersOK, Numbers
  <2>4. ASSUME req'[d].step \in Early
        PROVE  \A b : b.no = req[d].no => (b \in stored <=> b \in stored')
    <3>1. req[c] # Idle /\ req[c].step \in {"DelBlob", "DropBlob"}
          => req[d].no \notin req[c].read
      BY <2>1, <2>2, <2>4 DEF Uploading, Unnamed, Named, Naming, Busy
    <3> QED BY <3>1 DEF BlobsFrom
  <2>5. ASSUME req'[d].step \in PreStore PROVE Unstored(req[d].no)'
    BY <2>1, <2>2, <2>5 DEF Uploading, Unstored, BlobsFrom
  <2>6. ASSUME req'[d].step = "MergePart"
        PROVE  Merging(d)' = Merging(d)
    BY <2>1, <2>2, <2>4, <2>6 DEF Merging, Early
  <2>7. ASSUME req'[d].step = "MergePart"
        PROVE  \/ Merging(d) = {}
               \/ \E k \in 1..(Parts - 1) : Merging(d) =
                   {[file |-> req[d].file, no |-> req[d].no, parts |-> 1..k]}
    BY <2>1, <2>2, <2>7 DEF Uploading, Merging, Unstored
  <2>8. ASSUME req'[d].step \in PreInsert
        PROVE  [file |-> req[d].file, no |-> req[d].no, parts |-> Whole]
                   \in stored'
    BY <2>1, <2>2, <2>4, <2>8 DEF Uploading, Early
  <2>9. "MergePart" \in Early /\ PreInsert \subseteq Early
    BY DEF Early
  <2> QED BY <2>1, <2>2, <2>3, <2>5, <2>6, <2>7, <2>8, <2>9 DEF Uploading
<1> QED BY <1>5, <1>6 DEF NumbersOK

\* The parts that are in are the first ones, and not all.
LEMMA MergedParts ==
    ASSUME Typed, NumbersOK, NEW c \in Busy, req[c].step = "MergePart"
    PROVE  Cardinality(Merged(c)) + 1 \in 1..Parts
<1>1. CASE Merging(c) = {}
  <2>1. Cardinality(Merged(c)) = 0
    BY <1>1, FS_EmptySet DEF Merged
  <2> QED BY <2>1, LegacyAssumption
<1>2. ASSUME NEW k \in 1..(Parts - 1), Merging(c) =
          {[file |-> req[c].file, no |-> req[c].no, parts |-> 1..k]}
      PROVE  Cardinality(Merged(c)) + 1 \in 1..Parts
  <2>1. Merged(c) = 1..k
    BY <1>2 DEF Merged
  <2>2. Cardinality(1..k) = k
    BY FS_Interval, LegacyAssumption
  <2> QED BY <2>1, <2>2, LegacyAssumption
<1> QED BY <1>1, <1>2 DEF NumbersOK, Uploading

LEMMA MergeTables ==
    ASSUME Typed, NumbersOK, NEW c \in Programs, Merge(c)
    PROVE  TablesOK'
<1> USE DEF At, Typed
<1>1. CASE MergePart(c)
  <2> DEFINE i == Cardinality(Merged(c)) + 1
  <2>1. stored' = (stored \ Merging(c)) \cup
                {[file |-> req[c].file, no |-> req[c].no, parts |-> 1..i]}
    BY <1>1 DEF MergePart
  <2>2. i \in 1..Parts
    BY <1>1, MergedParts DEF MergePart, Busy
  <2>3. 1..i \subseteq Whole
    BY <2>2, LegacyAssumption DEF Whole
  <2> HIDE DEF i
  <2>4. [file |-> req[c].file, no |-> req[c].no, parts |-> 1..i] \in Blob
    BY <1>1, <2>3, Serves DEF MergePart, Handled, Blob
  <2>5. stored' \subseteq Blob
    BY <2>1, <2>4 DEF TablesOK
  <2> QED BY <1>1, <2>5, WritesBlobs DEF MergePart
<1>2. CASE StoreInfo(c) \/ Bind(c)
  BY <1>2, StoreTables, BindTables
<1>3. CASE OnlyReq \/ AppendFails(c) \/ StatementFails(c) \/ OwnedUnread(c)
  BY <1>3, SameTables
  DEF OnlyReq, AppendFails, StatementFails, OwnedUnread, Misread
<1> QED BY <1>1, <1>2, <1>3
        DEF Merge, MergeLocked, MergeVerify, MergeClean, MergeUnlink,
            MergeForget, MergeRelease, ReuseCount, ReuseOwned

\* A program stores a blob, or a part of it.
LEMMA NumbersStore ==
    ASSUME Typed, NumbersOK, NEW c \in Busy, OthersWait(c),
           req[c].step \in Early, req'[c] # Idle, req'[c].no = req[c].no,
           Named(req'[c]) = {}, UNCHANGED <<info, arriving>>,
           \A b : b.no # req[c].no => (b \in stored <=> b \in stored'),
           Unnamed(req[c].no)' => Uploading(c)'
    PROVE  NumbersOK'
<1>1. \A n : Unnamed(n) => Unnamed(n)'
  BY DEF Unnamed, OthersWait, Named
<1>2. Busy' = Busy /\ \A d \in Busy : req'[d].no = req[d].no
  BY DEF Busy, OthersWait
<1>3. Numbers'
  BY <1>1, <1>2 DEF NumbersOK, Numbers, Unstored
<1>4. Uploading(c)'
  BY <1>1 DEF NumbersOK, Uploading
<1>5. ASSUME NEW d \in Busy, d # c PROVE Uploading(d)'
  <2>1. req'[d] = req[d] /\ req[d].no # req[c].no
    BY <1>5 DEF OthersWait, Busy, NumbersOK, Numbers
  <2>2. Merging(d)' = Merging(d)
    BY <2>1 DEF Merging
  <2>3. Unstored(req[d].no) => Unstored(req[d].no)'
    BY <2>1 DEF Unstored
  <2>4. Uploading(d)
    BY DEF NumbersOK
  <2> QED BY <1>1, <2>1, <2>2, <2>3, <2>4 DEF Uploading
<1> QED BY <1>2, <1>3, <1>4, <1>5 DEF NumbersOK

LEMMA StoreBlobNumbers ==
    ASSUME Typed, NumbersOK, NEW c \in Programs, StoreBlob(c)
    PROVE  NumbersOK'
<1>1. c \in Busy /\ req[c].step = "StoreBlob"
  BY DEF StoreBlob, At, Busy
<1>2. /\ Goes(c, "StoreOwned", {}, req[c].after) /\ req'[c] # Idle
  BY <1>1, Stores DEF StoreBlob, Typed, Busy
<1>3. Named(req'[c]) = {}
  BY <1>2 DEF Named, Naming, Goes
<1>4. Unnamed(req[c].no)' => Uploading(c)'
  BY <1>2 DEF StoreBlob, Uploading, Goes, PreStore, PreInsert, Early
<1> QED BY <1>1, <1>2, <1>3, <1>4, NumbersStore
        DEF StoreBlob, Goes, Early, PreStore, fileTables

LEMMA MergePartNumbers ==
    ASSUME Typed, NumbersOK, NEW c \in Programs, MergePart(c)
    PROVE  NumbersOK'
<1> DEFINE i == Cardinality(Merged(c)) + 1
           new == [file |-> req[c].file, no |-> req[c].no, parts |-> 1..i]
<1>1. c \in Busy /\ req[c].step = "MergePart" /\ req[c] # Idle
  BY DEF MergePart, At, Busy
<1>2. /\ stored' = (stored \ Merging(c)) \cup {new}
      /\ UNCHANGED <<info, arriving>>
      /\ i = Parts => GoTo(c, "StoreOwned")
      /\ i # Parts => UNCHANGED req
  BY DEF MergePart, fileTables
<1>3. i \in 1..Parts
  BY <1>1, MergedParts
<1> HIDE DEF i
<1>4. \A b : b.no # req[c].no => (b \in stored <=> b \in stored')
  BY <1>2 DEF Merging
<1>5. "MergePart" \in Early /\ Naming("MergePart", req[c].read) = {}
  BY DEF Early, Naming
<1>6. CASE i = Parts
  <2>1. /\ Goes(c, "StoreOwned", {}, req[c].after) /\ req'[c] # Idle
    BY <1>1, <1>2, <1>6, Stores DEF Typed, Busy
  <2>2. Named(req'[c]) = {}
    BY <2>1 DEF Named, Naming, Goes
  <2>3. Unnamed(req[c].no)' => Uploading(c)'
    BY <1>2, <1>6, <2>1
    DEF Uploading, Goes, PreStore, PreInsert, Early, Whole
  <2> QED BY <1>1, <1>2, <1>4, <1>5, <2>1, <2>2, <2>3, NumbersStore DEF Goes
<1>7. CASE i # Parts
  <2>1. req' = req /\ OthersWait(c) /\ Named(req'[c]) = {}
    BY <1>1, <1>2, <1>5, <1>7 DEF OthersWait, Typed, RequestsOK, Named
  <2>2. i \in 1..(Parts - 1)
    BY <1>3, <1>7, LegacyAssumption
  <2>3. Merging(c)' = {new}
    BY <1>2, <2>1 DEF Merging
  <2>4. Unnamed(req[c].no)' => Uploading(c)'
    BY <1>1, <2>1, <2>2, <2>3 DEF Uploading, PreStore, PreInsert
  <2> QED BY <1>1, <1>2, <1>4, <1>5, <2>1, <2>4, NumbersStore
<1> QED BY <1>6, <1>7

\* A request arrives.
LEMMA AcceptNumbers ==
    ASSUME Typed, NumbersOK, NEW c \in Programs, NEW ops, Accept(c, ops),
           \A o \in ops : o # "MergePart" /\ o \notin PreInsert
                          /\ Naming(o, {}) = {}
    PROVE  NumbersOK'
<1> PICK r \in arriving : /\ r.op \in ops
                          /\ req' = [req EXCEPT ![c] = Serving(r)]
                          /\ arriving' = arriving \ {r}
  BY DEF Accept
<1>1. /\ req[c] = Idle /\ info' = info /\ stored' = stored
      /\ req'[c].no = r.no /\ req'[c].step = r.op /\ req'[c].read = {}
      /\ OthersWait(c)
  BY DEF Accept, fileTables, Serving, OthersWait, Typed, RequestsOK
<1>2. Named(req'[c]) = {}
  BY <1>1 DEF Named
<1>3. \A n : Unnamed(n) => Unnamed(n)'
  BY <1>1, <1>2 DEF Unnamed, OthersWait, Named
<1>4. /\ Busy' \subseteq Busy \cup {c} /\ c \notin Busy
      /\ \A d \in Busy' \ {c} : req'[d] = req[d] /\ d \in Busy
  BY <1>1 DEF Busy, OthersWait
<1>5. Numbers'
  BY <1>1, <1>3, <1>4 DEF NumbersOK, Numbers, Unstored
<1>6. Uploading(c)'
  <2>1. Unnamed(r.no)' /\ Unstored(r.no)'
    BY <1>1, <1>3 DEF NumbersOK, Numbers, Unstored
  <2> QED BY <1>1, <2>1 DEF Uploading
<1>7. ASSUME NEW d \in Busy' \ {c} PROVE Uploading(d)'
  <2>1. Uploading(d) /\ req'[d] = req[d]
    BY <1>4 DEF NumbersOK
  <2>2. Merging(d)' = Merging(d)
    BY <1>1, <2>1 DEF Merging
  <2> QED BY <1>1, <1>3, <2>1, <2>2 DEF Uploading, Unstored
<1> QED BY <1>5, <1>6, <1>7 DEF NumbersOK

----------------------------------------------------------------------------
(* The effect of every handler on the blobs and on what names them.        *)

LEMMA KeepsBlobs ==
    ASSUME NEW c, UNCHANGED <<info, stored, arriving>>
    PROVE  InfoFrom(c) /\ BlobsFrom(c) /\ arriving' = arriving
  BY DEF InfoFrom, BlobsFrom, Blobs

LEMMA CountsBlobs ==
    ASSUME Typed, NEW c, NEW f \in Files, NEW n,
           info' = [info EXCEPT ![f] = SetCount(@, n)]
    PROVE  InfoFrom(c)
<1>1. ASSUME NEW g \in Files, NEW r \in info'[g] PROVE r.blob \in Blobs(info[g])
  <2>1. CASE g # f
    BY <1>1, <2>1 DEF Blobs, Typed, TablesOK
  <2>2. CASE g = f
    <3>1. PICK q \in info[f] : r = [q EXCEPT !.count = n]
      BY <1>1, <2>2 DEF SetCount, Typed, TablesOK
    <3>2. info[f] \in Rows(InfoRow)
      BY DEF Typed, TablesOK
    <3>3. q \in InfoRow
      BY <3>2 DEF Rows
    <3>4. r.blob = q.blob
      BY <3>1, <3>3 DEF InfoRow
    <3> QED BY <2>2, <3>4 DEF Blobs
  <2> QED BY <2>1, <2>2
<1> QED BY <1>1 DEF InfoFrom

LEMMA DropsRow ==
    ASSUME Typed, NEW c, NEW f \in Files, info' = [info EXCEPT ![f] = {}]
    PROVE  InfoFrom(c)
  BY DEF InfoFrom, Blobs, Typed, TablesOK

LEMMA ShareEffect ==
    ASSUME Typed, NEW c \in Programs, Share(c) PROVE Effect(c)
<1>1. UNCHANGED <<info, stored, arriving>>
  BY DEF Share, ShareExists, ShareFind, ShareMark, ShareInsert, ShareReadTotal,
         ShareWriteTotal, ShareRank, ShareName, Misread, OnlyReq, OnlyFiles,
         OnlyShares, Rank, Name, OnlyPublic, fileTables
<1> QED BY <1>1, ShareRequests, KeepsBlobs DEF Effect

LEMMA BindEffect ==
    ASSUME Typed, NEW c \in Programs, Bind(c) PROVE Effect(c)
<1> USE DEF OnlyFiles
<1>1. UNCHANGED <<stored, arriving>>
  BY DEF Bind, BindCount, BindRelation, ReadOwned, WriteOwned, OnlyReq
<1>2. CASE BindCount(c)
  <2>1. InfoFrom(c)
    BY <1>2, CountsBlobs, Serves DEF BindCount, At, Typed, Handled
  <2> QED BY <1>1, <2>1, BindRequests DEF Effect, BlobsFrom
<1>3. CASE UNCHANGED info
  BY <1>1, <1>3, BindRequests, KeepsBlobs DEF Effect
<1> QED BY <1>2, <1>3
        DEF Bind, BindRelation, ReadOwned, WriteOwned, OnlyReq, fileTables

LEMMA DeleteEffect ==
    ASSUME Typed, NEW c \in Programs, Delete(c) PROVE Effect(c)
<1> USE DEF OnlyFiles
<1>0. req[c] # Idle => req[c].file \in Files
  BY Serves DEF Typed, Handled
<1>1. arriving' = arriving /\ Follows(c)
  BY DeleteRequests
  DEF Delete, DelExists, DelStatus, DelShare, DelReadTotal, DelWriteTotal,
      DelUnrank, DelUnname, DelReadOwned, DelRelation, DelReadCount,
      DelWriteCount, DelReadBlob, DelRemoves, RemoveInfo, RemoveBlob, OnlyReq,
      OnlyShares, Rank, Name, OnlyPublic
<1>2. CASE DelWriteCount(c)
  BY <1>0, <1>1, <1>2, CountsBlobs DEF DelWriteCount, At, Effect, BlobsFrom
<1>3. CASE RemoveInfo(c, "DelInfo", "DelBlob")
  BY <1>0, <1>1, <1>3, DropsRow DEF RemoveInfo, At, Effect, BlobsFrom
<1>4. CASE RemoveBlob(c, "DelBlob", Ends(c))
  <2>1. InfoFrom(c)
    BY <1>4 DEF RemoveBlob, fileTables, InfoFrom, Blobs
  <2>2. BlobsFrom(c)
    BY <1>4 DEF RemoveBlob, BlobsFrom, At
  <2> QED BY <1>1, <2>1, <2>2 DEF Effect
<1>5. CASE UNCHANGED <<info, stored>>
  BY <1>1, <1>5, KeepsBlobs DEF Effect
<1> QED
  BY <1>2, <1>3, <1>4, <1>5
  DEF Delete, DelExists, DelStatus, DelShare, DelReadTotal, DelWriteTotal,
      DelUnrank, DelUnname, DelReadOwned, DelRelation, DelReadCount,
      DelReadBlob, DelRemoves, OnlyReq, OnlyShares, Rank, Name, OnlyPublic,
      fileTables

LEMMA ViewEffect ==
    ASSUME Typed, NEW c \in Programs, View(c) PROVE Effect(c)
<1>1. UNCHANGED <<info, stored, arriving>>
  BY DEF View, ViewRead, ViewOwn, ViewShare, ViewRank, OnlyReq, OnlyFiles,
         OnlyShares, Rank, OnlyPublic, fileTables
<1> QED BY <1>1, ViewRequests, KeepsBlobs DEF Effect

LEMMA VisitEffect ==
    ASSUME Typed, NEW c \in Programs, Visit(c) PROVE Effect(c)
<1>1. UNCHANGED <<info, stored, arriving>>
  BY DEF Visit, VisitRead, VisitWrite, VisitExists, VisitBump, VisitRank,
         ShareName, OnlyReq, OnlyShares, Rank, Name, OnlyPublic, fileTables
<1> QED BY <1>1, VisitRequests, KeepsBlobs DEF Effect

LEMMA CancelEffect ==
    ASSUME Typed, NEW c \in Programs, Cancel(c) PROVE Effect(c)
<1>1. UNCHANGED <<info, stored, arriving>>
  BY DEF Cancel, CancelMark, CancelReadTotal, CancelWriteTotal, CancelShare,
         CancelUnrank, CancelName, OnlyReq, OnlyFiles, OnlyShares, OnlyPublic,
         fileTables
<1> QED BY <1>1, CancelRequests, KeepsBlobs DEF Effect

LEMMA SaveEffect ==
    ASSUME Typed, NEW c \in Programs, Save(c) PROVE Effect(c)
<1>1. CASE UNCHANGED <<info, stored, arriving>>
  BY <1>1, SaveRequests, KeepsBlobs DEF Effect
<1> QED BY <1>1, BindEffect DEF Save, SaveOwned, SaveRead, Misread, OnlyReq,
                                fileTables

LEMMA RankEffect ==
    ASSUME Typed, NEW c \in Programs, RankList(c) PROVE Effect(c)
<1>1. UNCHANGED <<info, stored, arriving>>
  BY DEF RankList, RankTotal, RankSql, RankCard, RankClear, RankClearNames,
         RankRead, RankAdd, RankName, OnlyReq, Rank, Name, OnlyPublic,
         fileTables
<1> QED BY <1>1, RankRequests, KeepsBlobs DEF Effect

LEMMA InstantEffect ==
    ASSUME Typed, NEW c \in Programs, InstantUpload(c) PROVE Effect(c)
<1>1. CASE UNCHANGED <<info, stored, arriving>>
  BY <1>1, InstantRequests, KeepsBlobs DEF Effect
<1> QED BY <1>1, BindEffect DEF InstantUpload, Md5Count, Md5Owned, Skips,
                                OnlyReq, fileTables

LEMMA StoreEffect ==
    ASSUME Typed, NEW c \in Programs, StoreInfo(c) PROVE Effect(c)
<1>1. CASE UNCHANGED <<info, stored, arriving>>
  BY <1>1, StoreRequests, KeepsBlobs DEF Effect
<1>2. CASE StoreInsert(c) /\ info[req[c].file] = {}
  <2>1. /\ req[c] # Idle /\ req[c].step \in PreInsert /\ req[c].file \in Files
        /\ req'[c].step = "BindRelation" /\ "BindRelation" \notin Early
    BY <1>2, Serves, Steps
    DEF StoreInsert, At, PreInsert, PreStore, Early, Goes, Typed, Handled
  <2>2. InfoFrom(c)
    BY <1>2, <2>1 DEF StoreInsert, InfoFrom, Blobs, Typed, TablesOK
  <2> QED BY <1>2, <2>2, StoreRequests
          DEF StoreInfo, StoreInsert, OnlyFiles, Effect, BlobsFrom
<1> QED BY <1>1, <1>2
        DEF StoreInfo, StoreOwned, StoreRead, StoreInsert, Misread, OnlyReq,
            OnlyFiles, fileTables

LEMMA UploadEffect ==
    ASSUME Typed, NEW c \in Programs, UploadFile(c)
    PROVE  StoreBlob(c) \/ Effect(c)
<1>1. CASE UNCHANGED <<info, stored, arriving>>
  BY <1>1, UploadRequests, KeepsBlobs DEF Effect
<1> QED BY <1>1, BindEffect, StoreEffect
        DEF UploadFile, ReuseCount, ReuseOwned, OnlyReq, fileTables

LEMMA PictureEffect ==
    ASSUME Typed, NEW c \in Programs, SharePicture(c) PROVE Effect(c)
<1> USE DEF OnlyFiles
<1>1. UNCHANGED <<stored, arriving>>
  BY DEF SharePicture, PictureInsert, PictureRead, PictureCount,
         PictureReadOwn, PictureWriteOwn, OnlyReq
<1>2. CASE PictureCount(c)
  <2>1. InfoFrom(c)
    BY <1>2, CountsBlobs, Serves DEF PictureCount, At, Typed, Handled
  <2> QED BY <1>1, <2>1, PictureRequests DEF Effect, BlobsFrom
<1>3. CASE UNCHANGED info
  BY <1>1, <1>3, PictureRequests, KeepsBlobs DEF Effect
<1> QED BY <1>2, <1>3
        DEF SharePicture, PictureInsert, PictureRead, PictureReadOwn,
            PictureWriteOwn, OnlyReq, fileTables

LEMMA DropEffect ==
    ASSUME Typed, NEW c \in Programs, CancelPicture(c) PROVE Effect(c)
<1> USE DEF OnlyFiles
<1>0. req[c] # Idle => req[c].file \in Files
  BY Serves DEF Typed, Handled
<1>1. arriving' = arriving /\ Follows(c)
  BY DropRequests
  DEF CancelPicture, DropFind, DropReadOwn, DropWriteOwn, DropRead, DropCount,
      DropRow, DropInfo, DropBlob, DropSkips, Skips, OnlyReq
<1>2. CASE DropCount(c)
  <2>1. CASE info' = info
    BY <1>1, <1>2, <2>1, KeepsBlobs DEF DropCount, Effect
  <2>2. CASE info' = [info EXCEPT ![req[c].file] =
                          SetCount(@, Only(req[c].read).count - 1)]
    BY <1>0, <1>1, <1>2, <2>2, CountsBlobs
    DEF DropCount, At, Effect, BlobsFrom
  <2> QED BY <1>2, <2>1, <2>2 DEF DropCount, Typed, TablesOK
<1>3. CASE DropInfo(c)
  BY <1>0, <1>1, <1>3, DropsRow DEF DropInfo, At, Effect, BlobsFrom
<1>4. CASE DropBlob(c)
  <2>1. InfoFrom(c)
    BY <1>4 DEF DropBlob, fileTables, InfoFrom, Blobs
  <2>2. BlobsFrom(c)
    BY <1>4 DEF DropBlob, BlobsFrom, At
  <2> QED BY <1>1, <2>1, <2>2 DEF Effect
<1>5. CASE UNCHANGED <<info, stored>>
  BY <1>1, <1>5, KeepsBlobs DEF Effect
<1> QED
  BY <1>2, <1>3, <1>4, <1>5
  DEF CancelPicture, DropFind, DropReadOwn, DropWriteOwn, DropRead, DropRow,
      DropSkips, Skips, OnlyReq, fileTables

LEMMA BrowseEffect ==
    ASSUME Typed, NEW c \in Programs, BrowsePicture(c) PROVE Effect(c)
<1>1. UNCHANGED <<info, stored, arriving>>
  BY DEF BrowsePicture, BrowseRead, BrowseFile, BrowseWrite, OnlyReq,
         fileTables
<1> QED BY <1>1, BrowseRequests, KeepsBlobs DEF Effect

LEMMA ChunkEffect ==
    ASSUME Typed, NEW c \in Programs,
           \/ InitExists(c) \/ InitName(c) \/ InitKnown(c) \/ InitListed(c)
           \/ InitExpire(c) \/ PartWrite(c) \/ PartList(c)
    PROVE  Effect(c)
<1>1. UNCHANGED <<info, stored, arriving>>
  BY InitChunks, PartChunks DEF OnlyReq, fileTables
<1> QED BY <1>1, InitRequests, PartRequests, KeepsBlobs DEF Effect

LEMMA MergeEffect ==
    ASSUME Typed, NEW c \in Programs, Merge(c)
    PROVE  MergePart(c) \/ Effect(c)
<1>1. CASE UNCHANGED <<info, stored, arriving>>
  BY <1>1, MergeRequests, KeepsBlobs DEF Effect
<1> QED BY <1>1, BindEffect, StoreEffect
        DEF Merge, MergeLocked, MergeVerify, MergeClean, MergeUnlink,
            MergeForget, MergeRelease, ReuseCount, ReuseOwned, AppendFails,
            StatementFails, OwnedUnread, Misread, OnlyReq, fileTables

----------------------------------------------------------------------------
(* The blob of a row, and the row of a blob that is about to be removed.   *)

Removed == {"DelBlob", "DropBlob"}

BlobsOK ==
    /\ BlobBehindInfo
    /\ \A c \in Busy : req[c].step \in Removed =>
        \/ req[c].file \in kept
        \/ \A r \in info[req[c].file] :
            r.blob = NoBlob \/ r.blob \notin req[c].read

LEMMA BlobsStay ==
    ASSUME Typed, NumbersOK, BlobsOK, NEW c \in Programs,
           Follows(c) \/ req' = req, InfoFrom(c), BlobsFrom(c),
           kept \subseteq kept',
           req'[c] # req[c] /\ req'[c] # Idle /\ req'[c].step \in Removed
           => info'[req'[c].file] = {} \/ req'[c].file \in kept'
    PROVE  BlobsOK'
<1>0. /\ req[c] # Idle => c \in Busy
      /\ PreInsert \cap Removed = {} /\ PreInsert \subseteq Early
  BY DEF Busy, PreInsert, Removed, Early
<1>1. ASSUME NEW f \in Files \ kept', NEW r \in info'[f], r.blob # NoBlob
      PROVE  [file |-> f, no |-> r.blob, parts |-> Whole] \in stored'
  <2> DEFINE b == [file |-> f, no |-> r.blob, parts |-> Whole]
  <2>1. CASE r.blob \in Blobs(info[f])
    <3>1. b \in stored
      BY <1>1, <2>1 DEF BlobsOK, BlobBehindInfo, Blobs
    <3>2. ASSUME b \notin stored' PROVE FALSE
      <4>1. /\ req[c] # Idle /\ req[c].step \in Removed
            /\ b.file = req[c].file /\ b.no \in req[c].read
        BY <3>1, <3>2 DEF BlobsFrom, Removed
      <4>2. f = req[c].file /\ r.blob \in req[c].read
        BY <4>1
      <4> QED BY <1>0, <1>1, <2>1, <4>1, <4>2 DEF BlobsOK, Blobs
    <3> QED BY <3>2
  <2>2. CASE /\ req[c] # Idle /\ req[c].step \in PreInsert
             /\ f = req[c].file /\ r.blob = req[c].no
    BY <1>0, <2>2 DEF NumbersOK, Uploading, BlobsFrom, Removed
  <2> QED BY <1>1, <2>1, <2>2 DEF InfoFrom
<1>2. ASSUME NEW d \in Busy', req'[d].step \in Removed, req'[d] = req[d],
             req[d].file \notin kept',
             NEW r \in info'[req[d].file], r.blob # NoBlob
      PROVE  r.blob \notin req[d].read
  <2>1. d \in Busy /\ req[d].step \in Removed /\ req[d].file \in Files
    BY <1>2, Serves DEF Busy, Typed, Handled
  <2>2. CASE r.blob \in Blobs(info[req[d].file])
    BY <1>2, <2>1, <2>2 DEF BlobsOK, Blobs
  <2>3. CASE req[c] # Idle /\ req[c].step \in PreInsert /\ r.blob = req[c].no
    <3>1. req[c].no \notin Named(req[d])
      BY <1>0, <2>3 DEF NumbersOK, Uploading, Unnamed, Busy
    <3> QED BY <2>1, <2>3, <3>1 DEF Named, Naming, Removed, Busy
  <2> QED BY <1>2, <2>1, <2>2, <2>3 DEF InfoFrom
<1>3. ASSUME NEW d \in Busy', req'[d] # req[d]
      PROVE  d = c /\ req'[c] # Idle
  BY <1>3 DEF Follows, OthersWait, Busy
<1>4. BlobBehindInfo'
  BY <1>1 DEF BlobBehindInfo
<1>5. ASSUME NEW d \in Busy', req'[d].step \in Removed
      PROVE  \/ req'[d].file \in kept'
             \/ \A r \in info'[req'[d].file] :
                    r.blob = NoBlob \/ r.blob \notin req'[d].read
  BY <1>2, <1>3, <1>5
<1> QED BY <1>4, <1>5 DEF BlobsOK

LEMMA BlobsStore ==
    ASSUME Typed, NumbersOK, BlobsOK, NEW c \in Busy, OthersWait(c),
           req[c].step \in Early, req'[c] # Idle, req'[c].step \notin Removed,
           UNCHANGED <<info, kept>>,
           \A b : b.no # req[c].no => (b \in stored <=> b \in stored')
    PROVE  BlobsOK'
<1>1. BlobBehindInfo'
  <2>1. \A f \in Files : \A r \in info[f] : r.blob # req[c].no
    BY DEF NumbersOK, Uploading, Unnamed
  <2> QED BY <2>1 DEF BlobsOK, BlobBehindInfo
<1>2. \A d \in Busy' : req'[d].step \in Removed
                       => d \in Busy /\ req'[d] = req[d]
  BY DEF OthersWait, Busy
<1> QED BY <1>1, <1>2 DEF BlobsOK

LEMMA AcceptBlobs ==
    ASSUME Typed, BlobsOK, NEW c \in Programs, NEW ops, Accept(c, ops),
           \A o \in ops : o \notin Removed, kept' = kept
    PROVE  BlobsOK'
<1> PICK r \in arriving : /\ r.op \in ops
                          /\ req' = [req EXCEPT ![c] = Serving(r)]
  BY DEF Accept
<1>1. /\ info' = info /\ stored' = stored
      /\ req'[c].step = r.op /\ OthersWait(c)
  BY DEF Accept, fileTables, Serving, OthersWait, Typed, RequestsOK
<1>2. \A d \in Busy' : req'[d].step \in Removed
                       => d \in Busy /\ req'[d] = req[d]
  BY <1>1 DEF OthersWait, Busy
<1>3. BlobBehindInfo'
  BY <1>1 DEF BlobsOK, BlobBehindInfo
<1> QED BY <1>1, <1>2, <1>3 DEF BlobsOK

LEMMA StoreBlobBlobs ==
    ASSUME Typed, NumbersOK, BlobsOK, NEW c \in Programs, StoreBlob(c),
           kept' = kept
    PROVE  BlobsOK'
<1>1. c \in Busy /\ req[c].step \in Early
  BY DEF StoreBlob, At, Busy, Early, PreStore
<1>2. Goes(c, "StoreOwned", {}, req[c].after) /\ req'[c] # Idle
  BY <1>1, Stores DEF StoreBlob, Typed, Busy
<1>3. req'[c].step \notin Removed /\ OthersWait(c)
  BY <1>2 DEF Goes, Removed
<1>4. /\ info' = info
      /\ \A b : b.no # req[c].no => (b \in stored <=> b \in stored')
  BY DEF StoreBlob, fileTables
<1> QED BY <1>1, <1>2, <1>3, <1>4, BlobsStore

LEMMA MergePartBlobs ==
    ASSUME Typed, NumbersOK, BlobsOK, NEW c \in Programs, MergePart(c),
           kept' = kept
    PROVE  BlobsOK'
<1>1. c \in Busy /\ req[c].step = "MergePart" /\ req[c].step \in Early
  BY DEF MergePart, At, Busy, Early
<1>2. /\ OthersWait(c) /\ req'[c] # Idle /\ req'[c].step \notin Removed
  <2>1. CASE GoTo(c, "StoreOwned")
    <3>1. Goes(c, "StoreOwned", {}, req[c].after) /\ req'[c] # Idle
      BY <1>1, <2>1, Stores DEF Typed, Busy
    <3> QED BY <3>1 DEF Goes, Removed
  <2>2. CASE UNCHANGED req
    BY <1>1, <2>2 DEF Removed, OthersWait, Typed, RequestsOK, Busy
  <2> QED BY <2>1, <2>2 DEF MergePart
<1>3. /\ info' = info
      /\ \A b : b.no # req[c].no => (b \in stored <=> b \in stored')
  BY DEF MergePart, fileTables, Merging
<1> QED BY <1>1, <1>2, <1>3, BlobsStore

----------------------------------------------------------------------------
(* One share of a file.                                                    *)

Sharing == {"ShareMark", "ShareInsert"}

\* No two shares of one file; dealfile found none of the file it is sharing.
OneOK ==
    faults = 0 =>
        /\ \A r, s \in shares : r.file = s.file => r = s
        /\ req["dealfile"] # Idle /\ req["dealfile"].step \in Sharing
           => SharesOf(req["dealfile"].file) = {}

\* A step that leaves the shares, removes some or counts their views.
SharesFrom ==
    /\ \A s \in shares' : \E r \in shares : s.file = r.file
    /\ (\A r, s \in shares : r.file = s.file => r = s)
       => \A r, s \in shares' : r.file = s.file => r = s

LEMMA OneStays ==
    ASSUME Typed, OneOK, NEW c \in Programs, Follows(c) \/ req' = req,
           SharesFrom, faults' = 0 => faults = 0
    PROVE  OneOK'
<1> SUFFICES ASSUME faults' = 0 PROVE
        /\ \A r, s \in shares' : r.file = s.file => r = s
        /\ req'["dealfile"] # Idle /\ req'["dealfile"].step \in Sharing
           => \A r \in shares' : r.file # req'["dealfile"].file
  BY DEF OneOK, SharesOf
<1>1. \A r, s \in shares' : r.file = s.file => r = s
  BY DEF OneOK, SharesFrom
<1>2. ASSUME req'["dealfile"] # Idle, req'["dealfile"].step \in Sharing
      PROVE  SharesOf(req'["dealfile"].file) = {}
  <2>1. CASE req'["dealfile"] = req["dealfile"]
    BY <1>2, <2>1 DEF OneOK
  <2>2. CASE req'["dealfile"] # req["dealfile"]
    <3>1. c = "dealfile" /\ Follows(c)
      BY <2>2 DEF Follows, OthersWait, Programs
    <3>2. /\ req[c] # Idle /\ req'[c].file = req[c].file
          /\ SharesOf(req[c].file) = {} \/ req[c].step = "ShareMark"
      BY <1>2, <3>1 DEF Follows, Sharing
    <3> QED BY <3>1, <3>2 DEF OneOK, Sharing
  <2> QED BY <2>1, <2>2
<1>3. \A f : SharesOf(f) = {} => \A r \in shares' : r.file # f
  BY DEF SharesFrom, SharesOf
<1> QED BY <1>1, <1>2, <1>3

\* The row that share_file inserts is the only one of its file.
LEMMA OneInserts ==
    ASSUME Typed, OneOK, ShareInsert("dealfile") PROVE OneOK'
<1> DEFINE c == "dealfile"
           new == [user |-> req[c].user, file |-> req[c].file,
                   token |-> req[c].no, views |-> 0]
<1>1. /\ req[c] # Idle /\ req[c].step = "ShareInsert" /\ c \in Programs
      /\ shares' = shares \cup {new} /\ faults' = faults
      /\ GoTo(c, "ShareReadTotal")
  BY DEF ShareInsert, At, OnlyShares, Programs
<1>2. Goes(c, "ShareReadTotal", {}, req[c].after)
  BY <1>1, Steps DEF Typed
<1>3. req'[c].step \notin Sharing
  BY <1>2 DEF Goes, Sharing
<1>4. ASSUME faults = 0 PROVE \A r, s \in shares' : r.file = s.file => r = s
  <2>1. \A r \in shares : r.file # req[c].file
    BY <1>1, <1>4 DEF OneOK, SharesOf, Sharing
  <2> QED BY <1>1, <1>4, <2>1 DEF OneOK
<1> QED BY <1>1, <1>3, <1>4 DEF OneOK

LEMMA SameShares ==
    ASSUME shares' \subseteq shares PROVE SharesFrom
  BY DEF SharesFrom

LEMMA ShareShares ==
    ASSUME NEW c \in Programs, Share(c)
    PROVE  SharesFrom \/ ShareInsert(c)
<1>1. CASE UNCHANGED shares
  BY <1>1, SameShares
<1> QED BY <1>1
        DEF Share, ShareExists, ShareFind, ShareMark, ShareReadTotal,
            ShareWriteTotal, ShareRank, ShareName, Misread, OnlyReq, OnlyFiles,
            Rank, Name, OnlyPublic, shareTables

LEMMA DeleteShares ==
    ASSUME NEW c \in Programs, Delete(c) PROVE SharesFrom
<1>1. shares' \subseteq shares
  BY DEF Delete, DelExists, DelStatus, DelShare, DelReadTotal, DelWriteTotal,
         DelUnrank, DelUnname, DelReadOwned, DelRelation, DelReadCount,
         DelWriteCount, DelReadBlob, DelRemoves, RemoveInfo, RemoveBlob,
         OnlyReq, OnlyFiles, Rank, Name, OnlyPublic, shareTables
<1> QED BY <1>1, SameShares

LEMMA ViewShares ==
    ASSUME Typed, NEW c \in Programs, View(c) PROVE SharesFrom
<1>1. CASE UNCHANGED shares
  BY <1>1, SameShares
<1>2. CASE ViewShare(c)
  <2> DEFINE n == Seen(c).views + 1
  <2>1. shares' = (shares \ ShareOf(c)) \cup
                      {[r EXCEPT !.views = n] : r \in ShareOf(c)}
    BY <1>2 DEF ViewShare
  <2>2. \A r \in shares : [r EXCEPT !.views = n].file = r.file
    BY DEF Typed, TablesOK, ShareRow
  <2>3. ShareOf(c) \subseteq shares
    BY DEF ShareOf, SharesOf
  <2> HIDE DEF n
  <2>4. \A s \in shares' : \E r \in shares :
            /\ s.file = r.file
            /\ s = IF r \in ShareOf(c) THEN [r EXCEPT !.views = n] ELSE r
    BY <2>1, <2>2, <2>3
  <2> QED BY <2>4 DEF SharesFrom
<1> QED BY <1>1, <1>2
        DEF View, ViewRead, ViewOwn, ViewRank, OnlyReq, OnlyFiles, Rank,
            OnlyPublic, shareTables

LEMMA VisitShares ==
    ASSUME Typed, NEW c \in Programs, Visit(c) PROVE SharesFrom
<1>1. CASE UNCHANGED shares
  BY <1>1, SameShares
<1>2. CASE VisitWrite(c)
  <2> DEFINE Shown(r) == IF r.file = req[c].file
                         THEN [r EXCEPT !.views = Seen(c) + 1] ELSE r
  <2>1. shares' = {Shown(r) : r \in shares}
    BY <1>2 DEF VisitWrite
  <2>2. \A r \in shares : Shown(r).file = r.file
    BY DEF Typed, TablesOK, ShareRow
  <2> HIDE DEF Shown
  <2> QED BY <2>1, <2>2 DEF SharesFrom
<1> QED BY <1>1, <1>2
        DEF Visit, VisitRead, VisitExists, VisitBump, VisitRank, ShareName,
            OnlyReq, Rank, Name, OnlyPublic, shareTables

LEMMA CancelShares ==
    ASSUME NEW c \in Programs, Cancel(c) PROVE SharesFrom
<1>1. shares' \subseteq shares
  BY DEF Cancel, CancelMark, CancelReadTotal, CancelWriteTotal, CancelShare,
         CancelUnrank, CancelName, OnlyReq, OnlyFiles, OnlyPublic, shareTables
<1> QED BY <1>1, SameShares

LEMMA OtherShares ==
    ASSUME NEW c,
           \/ Save(c) \/ RankList(c) \/ InstantUpload(c) \/ UploadFile(c)
           \/ SharePicture(c) \/ CancelPicture(c) \/ BrowsePicture(c)
           \/ Merge(c)
    PROVE  SharesFrom
<1> USE DEF OnlyReq, OnlyFiles, shareTables
<1>0. Bind(c) \/ StoreInfo(c) => UNCHANGED shares
  BY DEF Bind, BindCount, BindRelation, ReadOwned, WriteOwned, StoreInfo,
         StoreOwned, StoreRead, StoreInsert, Misread
<1>1. Save(c) \/ InstantUpload(c) \/ UploadFile(c) => UNCHANGED shares
  BY <1>0 DEF Save, SaveOwned, SaveRead, Misread, InstantUpload, Md5Count,
              Md5Owned, Skips, UploadFile, ReuseCount, ReuseOwned, StoreBlob
<1>2. RankList(c) => UNCHANGED shares
  BY DEF RankList, RankTotal, RankSql, RankCard, RankClear, RankClearNames,
         RankRead, RankAdd, RankName, Rank, Name, OnlyPublic
<1>3. SharePicture(c) \/ BrowsePicture(c) => UNCHANGED shares
  BY DEF SharePicture, PictureInsert, PictureRead, PictureCount,
         PictureReadOwn, PictureWriteOwn, BrowsePicture, BrowseRead,
         BrowseFile, BrowseWrite
<1>4. CancelPicture(c) => UNCHANGED shares
  BY DEF CancelPicture, DropFind, DropReadOwn, DropWriteOwn, DropRead,
         DropCount, DropRow, DropInfo, DropBlob, DropSkips, Skips
<1>5. Merge(c) => UNCHANGED shares
  BY <1>0 DEF Merge, MergeLocked, MergeVerify, MergePart, MergeClean,
              MergeUnlink, MergeForget, MergeRelease, ReuseCount, ReuseOwned,
              AppendFails, StatementFails, OwnedUnread, Misread
<1> QED BY <1>1, <1>2, <1>3, <1>4, <1>5, SameShares

----------------------------------------------------------------------------
(* The lock of chunk_merge.                                                *)

\* Without a failure, the one program that merges is serving the file whose
\* lock is set, and its path leads to the release.
LocksOK ==
    faults = 0 =>
        \A f \in Files : mergeLock[f] # {} =>
            LET q == req["chunk_merge"]
            IN  /\ q # Idle /\ q.file = f
                /\ q.step # "MergeLocked" /\ q.after # ""

LEMMA LocksStay ==
    ASSUME LocksOK, UNCHANGED mergeLock, faults' = 0 => faults = 0,
           \/ req'["chunk_merge"] = req["chunk_merge"]
           \/ faults' # 0
           \/ req["chunk_merge"] = Idle
    PROVE  LocksOK'
  BY DEF LocksOK

\* The program that merges goes on.
LEMMA LocksGo ==
    ASSUME LocksOK, UNCHANGED mergeLock, faults' = 0 => faults = 0,
           NEW c \in Programs, c = "chunk_merge", req'[c] # Idle, NEW s,
           NEW rows, Goes(c, s, rows, req[c].after), s # "MergeLocked"
    PROVE  LocksOK'
  BY DEF LocksOK, Goes

LEMMA MergeLocks ==
    ASSUME Typed, LocksOK, Merge("chunk_merge"), faults' = 0 => faults = 0
    PROVE  LocksOK'
<1> SUFFICES ASSUME faults' = 0, faults = 0 PROVE LocksOK'
  BY DEF LocksOK
<1> DEFINE c == "chunk_merge"
<1> USE DEF At
<1>0. c \in Programs /\ DOMAIN req = Programs
  BY DEF Programs, Typed, RequestsOK
<1>1. CASE MergeLocked(c)
  <2>1. \A f \in Files : mergeLock[f] = {}
    BY <1>1 DEF LocksOK, MergeLocked
  <2>2. req[c].file \in Files /\ mergeLock \in [Files -> Rows(NewLock)]
    BY <1>0, <1>1, Serves DEF MergeLocked, Typed, Handled, ChunksOK
  <2>3. /\ mergeLock' = [mergeLock EXCEPT ![req[c].file] = NewLock]
        /\ req' = [req EXCEPT ![c].step = "MergeCount",
                              ![c].after = "MergeClean"]
    BY <1>1, <2>1, <2>2 DEF MergeLocked
  <2>4. /\ Goes(c, "MergeCount", req[c].read, "MergeClean")
        /\ "MergeClean" \in Joints
    BY <1>0, <1>1, <2>3, Steps DEF MergeLocked, Typed, Joints
  <2>5. req'[c] # Idle
    BY <2>4, IdleStep DEF Goes
  <2> QED BY <2>1, <2>2, <2>3, <2>4, <2>5 DEF LocksOK, Goes
<1>2. CASE MergeRelease(c)
  BY <1>2 DEF LocksOK, MergeRelease, Typed, ChunksOK
<1>3. ASSUME req[c] # Idle, NEW s, NEW rows, s \notin {"idle", "MergeLocked"},
             Goes(c, s, rows, req[c].after), UNCHANGED mergeLock
      PROVE  LocksOK'
  <2>1. req'[c] # Idle
    BY <1>3, IdleStep DEF Goes
  <2> QED BY <1>0, <1>3, <2>1, LocksGo
<1>4. ASSUME req[c] # Idle, req[c].after = "", req[c].step # "MergeLocked",
             UNCHANGED mergeLock
      PROVE  LocksOK'
  BY <1>4 DEF LocksOK
<1>5. ASSUME req[c] # Idle, NEW s, s \notin {"idle", "MergeLocked"},
             GoTo(c, s) \/ (\E rows : Reads(c, s, rows))
             \/ req' = [req EXCEPT ![c].step = s],
             UNCHANGED mergeLock
      PROVE  LocksOK'
  <2>1. PICK rows : Goes(c, s, rows, req[c].after)
    BY <1>0, <1>5, Steps DEF Typed
  <2> QED BY <1>3, <1>5, <2>1
<1>6. ASSUME req[c] # Idle, req[c].step # "MergeLocked", Joins(c) \/ Fails(c),
             UNCHANGED mergeLock
      PROVE  LocksOK'
  <2>1. CASE req[c].after = ""
    BY <1>4, <1>6, <2>1
  <2>2. CASE req[c].after # ""
    <3>1. PICK s \in {"MergeRelease", req[c].after} : GoTo(c, s)
      BY <1>6, <2>2 DEF Joins, Fails
    <3>2. s \notin {"idle", "MergeLocked"}
      BY <1>0, <1>6, Serves DEF Typed, Handled, Joints
    <3> QED BY <1>5, <1>6, <3>1, <3>2
  <2> QED BY <2>1, <2>2
<1>7. CASE MergeVerify(c)
  <2>1. CASE Fails(c)
    BY <1>6, <1>7, <2>1 DEF MergeVerify, chunkVars
  <2>2. CASE req' = [req EXCEPT ![c].step = "MergePart",
                                ![c].after = "MergeForget"]
    <3>1. Goes(c, "MergePart", req[c].read, "MergeForget")
      BY <1>0, <1>7, <2>2, Steps DEF MergeVerify, Typed
    <3>2. req'[c] # Idle
      BY <3>1, IdleStep DEF Goes
    <3> QED BY <1>7, <3>1, <3>2 DEF LocksOK, Goes, MergeVerify, chunkVars
  <2> QED BY <1>7, <2>1, <2>2 DEF MergeVerify
<1>8. CASE MergePart(c)
  <2>1. CASE GoTo(c, "StoreOwned")
    BY <1>5, <1>8, <2>1 DEF MergePart
  <2>2. CASE UNCHANGED req
    BY <1>8, <2>2, LocksStay DEF MergePart
  <2> QED BY <1>8, <2>1, <2>2 DEF MergePart
<1>9. CASE MergeClean(c) \/ MergeUnlink(c) \/ MergeForget(c)
  BY <1>5, <1>9 DEF MergeClean, MergeUnlink, MergeForget
<1>10. CASE ReuseCount(c, "MergeCount", "MergeOwned", "MergeVerify")
            /\ UNCHANGED chunkVars
  BY <1>5, <1>10 DEF ReuseCount, chunkVars
<1>11. CASE ReuseOwned(c, "MergeOwned") /\ UNCHANGED chunkVars
  BY <1>5, <1>6, <1>11 DEF ReuseOwned, chunkVars
<1>12. CASE StoreInfo(c) /\ UNCHANGED chunkVars
  <2>1. CASE StoreOwned(c)
    BY <1>5, <1>6, <1>12, <2>1 DEF StoreOwned, chunkVars
  <2>2. CASE StoreRead(c)
    BY <1>5, <1>12, <2>2 DEF StoreRead, chunkVars
  <2>3. CASE StoreInsert(c)
    BY <1>5, <1>6, <1>12, <2>3 DEF StoreInsert, chunkVars
  <2>4. ~Misread(c, "StoreOwned", "StoreRead")
        /\ ~Misread(c, "StoreRead", "StoreInsert")
    BY DEF Misread, Fault
  <2> QED BY <1>12, <2>1, <2>2, <2>3, <2>4 DEF StoreInfo
<1>13. CASE Bind(c) /\ UNCHANGED chunkVars
  <2>1. CASE BindCount(c) \/ ReadOwned(c)
    BY <1>5, <1>13, <2>1 DEF BindCount, ReadOwned, chunkVars
  <2>2. CASE BindRelation(c)
    BY <1>5, <1>6, <1>13, <2>2 DEF BindRelation, chunkVars
  <2>3. CASE WriteOwned(c)
    BY <1>6, <1>13, <2>3 DEF WriteOwned, chunkVars
  <2> QED BY <1>13, <2>1, <2>2, <2>3 DEF Bind
<1>14. ~AppendFails(c) /\ ~StatementFails(c) /\ ~OwnedUnread(c)
  BY DEF AppendFails, StatementFails, OwnedUnread, Misread, Fault
<1> QED BY <1>1, <1>2, <1>7, <1>8, <1>9, <1>10, <1>11, <1>12, <1>13, <1>14
        DEF Merge

----------------------------------------------------------------------------
(* The invariant, and the steps that keep it.                              *)

IInv == Typed /\ NumbersOK /\ BlobsOK /\ OneOK /\ LocksOK

LEMMA FaultsGo ==
    ASSUME Typed, faults' = faults \/ Fault
    PROVE  faults' \in Nat /\ (faults' = 0 => faults = 0)
  BY DEF Typed, Fault

\* What the steps of the programs must still show.
LEMMA Effects ==
    ASSUME IInv, NEW c \in Programs, Effect(c), RequestsOK', TablesOK',
           ChunksOK', SharesFrom, faults' = faults \/ Fault, Watch, LocksOK',
           req'[c] # Idle /\ req[c].step = "DropInfo"
           => faults' = faults \/ c = "sharepicture"
    PROVE  IInv'
<1>1. faults' \in Nat /\ (faults' = 0 => faults = 0)
  BY FaultsGo DEF IInv
<1>2. Arriving'
  BY DEF IInv, Typed, Arriving, Effect
<1>3. NumbersOK'
  BY NumbersStay DEF IInv, Effect
<1>4. kept \subseteq kept'
  BY DEF Watch
<1>5. ASSUME req'[c] # Idle, req'[c].step \in Removed
      PROVE  info'[req'[c].file] = {} \/ req'[c].file \in kept'
  <2>1. /\ req[c] # Idle
        /\ req'[c].file = req[c].file
        /\ \/ info'[req[c].file] = {}
           \/ req[c].step = "DropInfo" /\ faults' # faults
    <3>1. Follows(c) /\ req'[c].step \in {"DelBlob", "DropBlob"}
      BY <1>5 DEF Effect, Removed
    <3> QED BY <1>5, <3>1 DEF Follows
  <2> QED BY <1>5, <2>1 DEF Watch, DeleteSkipped, At
<1>6. BlobsOK'
  BY <1>4, <1>5, BlobsStay DEF IInv, Effect
<1>7. OneOK'
  BY <1>1, OneStays DEF IInv, Effect
<1> QED BY <1>1, <1>2, <1>3, <1>6, <1>7 DEF IInv, Typed

\* What the steps that leave the programs where they are must still show.
LEMMA Rests ==
    ASSUME IInv, NEW c \in Programs, arriving' \subseteq arriving, TablesOK',
           ChunksOK', InfoFrom(c), BlobsFrom(c), SharesFrom, LocksOK',
           UNCHANGED <<req, faults, kept>>
    PROVE  IInv'
<1>1. RequestsOK' /\ Arriving' /\ faults' \in Nat
  BY DEF IInv, Typed, RequestsOK, Arriving
<1>2. NumbersOK'
  BY NumbersStay DEF IInv
<1>3. BlobsOK'
  BY BlobsStay DEF IInv
<1>4. OneOK'
  BY OneStays DEF IInv
<1> QED BY <1>1, <1>2, <1>3, <1>4 DEF IInv, Typed

\* The first step of a handler.
Opening(o) ==
    /\ o \notin {"idle", "PartList", "MergePart"} \cup PreInsert \cup Removed
                  \cup Sharing
    /\ WellRead(o, {}) /\ Naming(o, {}) = {}

LEMMA Openings ==
    \A o \in {"ShareExists", "DelExists", "ViewRead", "VisitRead", "CancelMark",
               "SaveOwned", "RankTotal", "Md5Count", "UploadCount",
               "PictureInsert", "DropFind", "BrowseRead", "InitExists",
               "PartWrite", "MergeLocked"} : Opening(o)
  BY DEF Opening, PreInsert, Removed, Sharing, WellRead, Naming

LEMMA AcceptStep ==
    ASSUME IInv, NEW c \in Programs, NEW ops, \A o \in ops : Opening(o),
           Accept(c, ops), UNCHANGED chunkVars, Watch
    PROVE  IInv'
<1>1. /\ RequestsOK' /\ TablesOK' /\ ChunksOK'
      /\ faults' = faults /\ faults \in Nat
  <2>1. RequestsOK'
    BY AcceptsOne DEF IInv, Typed, Opening
  <2>2. TablesOK' /\ faults' = faults /\ faults \in Nat
    BY SameTables DEF Accept, IInv, Typed
  <2> QED BY <2>1, <2>2 DEF IInv, Typed, ChunksOK, chunkVars
<1>2. PICK r \in arriving : /\ r.op \in ops /\ req[c] = Idle
                             /\ req' = [req EXCEPT ![c] = Serving(r)]
                             /\ arriving' = arriving \ {r}
  BY DEF Accept
<1>3. Arriving'
  BY <1>2 DEF IInv, Typed, Arriving
<1>4. NumbersOK'
  BY AcceptNumbers DEF IInv, Opening
<1>5. kept' = kept
  BY <1>1 DEF Watch, DeleteSkipped
<1>6. BlobsOK'
  BY <1>5, AcceptBlobs DEF IInv, Opening
<1>7. DOMAIN req = Programs
  BY DEF IInv, Typed, RequestsOK
<1>8. OneOK'
  <2>1. shares' = shares /\ Serving(r).step \notin Sharing
    BY <1>2 DEF Accept, shareTables, Serving, Opening
  <2> QED BY <1>1, <1>2, <1>7, <2>1 DEF IInv, OneOK, SharesOf, Programs
<1>9. LocksOK'
  BY <1>1, <1>2, <1>7, LocksStay DEF IInv, chunkVars
<1> QED BY <1>1, <1>3, <1>4, <1>6, <1>8, <1>9 DEF IInv, Typed

LEMMA CrashStep ==
    ASSUME IInv, NEW c \in Programs, Crash(c), Watch PROVE IInv'
<1> USE DEF Crash, Stops
<1>1. RequestsOK' /\ Follows(c) /\ req'[c] = Idle
  BY EndsHere DEF IInv, Typed
<1>2. Effect(c)
  BY <1>1, KeepsBlobs DEF Effect, fileTables
<1>3. TablesOK' /\ ChunksOK'
  BY SameTables DEF IInv, Typed, ChunksOK, chunkVars
<1>4. SharesFrom
  BY SameShares DEF shareTables
<1>5. LocksOK'
  <2>1. faults' = faults + 1 /\ faults \in Nat
    BY DEF IInv, Typed, Fault
  <2>2. faults' # 0
    BY <2>1
  <2> QED BY <2>2 DEF LocksOK
<1> QED BY <1>1, <1>2, <1>3, <1>4, <1>5, Effects

\* A step that is no failure, or one of a statement that is not the DELETE of
\* a cancelled picture.
Steady(c) ==
    /\ faults' = faults \/ Fault
    /\ req[c].step = "DropInfo" => faults' = faults

LEMMA SharesSteady ==
    ASSUME NEW c, Share(c) \/ View(c) \/ Visit(c) \/ RankList(c)
    PROVE  Steady(c)
<1> USE DEF Steady, At, Rank, Name, OnlyReq, OnlyFiles, OnlyShares, Misread
<1>1. CASE Share(c)
  BY <1>1 DEF Share, ShareExists, ShareFind, ShareMark, ShareInsert,
              ShareReadTotal, ShareWriteTotal, ShareRank, ShareName
<1>2. CASE View(c)
  BY <1>2 DEF View, ViewRead, ViewOwn, ViewShare, ViewRank
<1>3. CASE Visit(c)
  BY <1>3 DEF Visit, VisitRead, VisitWrite, VisitExists, VisitBump,
              VisitRank, ShareName
<1>4. CASE RankList(c)
  BY <1>4 DEF RankList, RankTotal, RankSql, RankCard, RankClear,
              RankClearNames, RankRead, RankAdd, RankName
<1> QED BY <1>1, <1>2, <1>3, <1>4

LEMMA DeleteSteady ==
    ASSUME NEW c, Delete(c) \/ Cancel(c) PROVE Steady(c)
<1> USE DEF Steady, At, Rank, Name, OnlyReq, OnlyFiles, OnlyShares
<1>1. CASE Delete(c)
  BY <1>1 DEF Delete, DelExists, DelStatus, DelShare, DelReadTotal,
              DelWriteTotal, DelUnrank, DelUnname, DelReadOwned, DelRelation,
              DelReadCount, DelWriteCount, DelReadBlob, DelRemoves,
              RemoveInfo, RemoveBlob
<1>2. CASE Cancel(c)
  BY <1>2 DEF Cancel, CancelMark, CancelReadTotal, CancelWriteTotal,
              CancelShare, CancelUnrank, CancelName
<1> QED BY <1>1, <1>2

LEMMA BindSteady ==
    ASSUME NEW c,
           Save(c) \/ InstantUpload(c) \/ UploadFile(c) \/ Merge(c)
    PROVE  Steady(c)
<1> USE DEF Steady, At, OnlyReq, OnlyFiles, Misread, Skips
<1>1. Bind(c) \/ StoreInfo(c) => Steady(c)
  BY DEF Bind, BindCount, BindRelation, ReadOwned, WriteOwned, StoreInfo,
         StoreOwned, StoreRead, StoreInsert
<1>2. CASE Save(c)
  BY <1>1, <1>2 DEF Save, SaveOwned, SaveRead
<1>3. CASE InstantUpload(c)
  BY <1>1, <1>3 DEF InstantUpload, Md5Count, Md5Owned
<1>4. CASE UploadFile(c)
  BY <1>1, <1>4 DEF UploadFile, ReuseCount, ReuseOwned, StoreBlob
<1>5. CASE Merge(c)
  BY <1>1, <1>5 DEF Merge, MergeLocked, MergeVerify, MergePart, MergeClean,
        MergeUnlink, MergeForget, MergeRelease, ReuseCount, ReuseOwned,
        AppendFails, StatementFails, OwnedUnread
<1> QED BY <1>2, <1>3, <1>4, <1>5

LEMMA PictureSteady ==
    ASSUME NEW c
    PROVE  /\ SharePicture(c) \/ BrowsePicture(c) => Steady(c)
           /\ CancelPicture(c) => faults' = faults \/ Fault
<1> USE DEF OnlyReq, OnlyFiles, Skips, At
<1>1. SharePicture(c) => Steady(c)
  BY DEF Steady, SharePicture, PictureInsert, PictureRead, PictureCount,
         PictureReadOwn, PictureWriteOwn
<1>2. BrowsePicture(c) => Steady(c)
  BY DEF Steady, BrowsePicture, BrowseRead, BrowseFile, BrowseWrite
<1>3. CancelPicture(c) => faults' = faults \/ Fault
  BY DEF CancelPicture, DropFind, DropReadOwn, DropWriteOwn, DropRead,
         DropCount, DropRow, DropInfo, DropBlob, DropSkips
<1> QED BY <1>1, <1>2, <1>3

\* A program that does not merge leaves the locks.
LEMMA OthersLocks ==
    ASSUME IInv, NEW c \in Programs, c # "chunk_merge",
           Follows(c) \/ OthersWait(c), UNCHANGED mergeLock, faults' = faults \/ Fault
    PROVE  LocksOK'
<1>1. req'["chunk_merge"] = req["chunk_merge"]
  BY DEF Follows, OthersWait, Programs
<1> QED BY <1>1, FaultsGo, LocksStay DEF IInv

LEMMA StoreBlobStep ==
    ASSUME IInv, NEW c \in Programs, c # "chunk_merge", StoreBlob(c),
           TablesOK', Watch, UNCHANGED chunkVars
    PROVE  IInv'
<1>1. req[c] # Idle /\ RequestsOK' /\ OthersWait(c) /\ req'[c] # Idle
      /\ req'[c].step = "StoreOwned"
  BY Stores DEF StoreBlob, At, IInv, Typed, Goes
<1>2. faults' = faults /\ arriving' = arriving /\ shares' = shares
  BY DEF StoreBlob, shareTables
<1>3. kept' = kept
  BY <1>2 DEF Watch, DeleteSkipped
<1>4. NumbersOK' /\ BlobsOK'
  BY <1>3, StoreBlobNumbers, StoreBlobBlobs DEF IInv
<1>5. LocksOK'
  BY <1>1, <1>2, OthersLocks DEF chunkVars
<1>6. OneOK'
  BY <1>1, <1>2 DEF IInv, OneOK, OthersWait, Sharing, SharesOf, Programs
<1> QED BY <1>1, <1>2, <1>4, <1>5, <1>6
        DEF IInv, Typed, Arriving, ChunksOK, chunkVars

LEMMA MergePartStep ==
    ASSUME IInv, NEW c \in Programs, c = "chunk_merge", MergePart(c), Watch
    PROVE  IInv'
<1>1. Merge(c)
  BY DEF Merge
<1>2. RequestsOK' /\ TablesOK' /\ ChunksOK'
  BY <1>1, MergeRequests, MergeTables, MergeChunks DEF IInv
<1>3. faults' = faults /\ arriving' = arriving /\ shares' = shares
  BY DEF MergePart, shareTables
<1>4. kept' = kept
  BY <1>3 DEF Watch, DeleteSkipped
<1>5. NumbersOK' /\ BlobsOK'
  BY <1>4, MergePartNumbers, MergePartBlobs DEF IInv
<1>6. LocksOK'
  BY <1>1, <1>3, MergeLocks DEF IInv
<1>7. req'["dealfile"] = req["dealfile"]
  <2>1. DOMAIN req = Programs /\ "dealfile" \in Programs
    BY DEF IInv, Typed, RequestsOK, Programs
  <2> QED BY <2>1 DEF MergePart, GoTo
<1>8. OneOK'
  BY <1>3, <1>7 DEF IInv, OneOK, SharesOf
<1> QED BY <1>2, <1>3, <1>5, <1>6, <1>8 DEF IInv, Typed, Arriving

\* A step of a handler on the tables.
LEMMA HandlerStep ==
    ASSUME IInv, NEW c \in Programs, c # "chunk_merge", Effect(c), RequestsOK',
           TablesOK', SharesFrom, UNCHANGED chunkVars, Watch,
           \/ Steady(c)
           \/ c = "sharepicture" /\ (faults' = faults \/ Fault)
    PROVE  IInv'
<1>1. ChunksOK' /\ LocksOK'
  BY OthersLocks DEF IInv, Typed, ChunksOK, chunkVars, Effect, Steady
<1> QED BY <1>1, Effects DEF Steady

LEMMA DealFileStep ==
    ASSUME IInv, DealFile, UNCHANGED chunkVars, Watch PROVE IInv'
<1> DEFINE c == "dealfile"
<1>0. Typed /\ c \in Programs /\ c # "chunk_merge"
  BY DEF IInv, Programs
<1>1. CASE Accept(c, {"ShareExists", "DelExists", "ViewRead"})
  BY <1>0, <1>1, AcceptStep, Openings
<1>2. CASE ShareInsert(c)
  <2>1. Share(c)
    BY <1>2 DEF Share
  <2>2. /\ Effect(c) /\ RequestsOK' /\ TablesOK' /\ faults' = faults
        /\ stored' = stored /\ info' = info
    BY <1>0, <1>2, <2>1, ShareEffect, ShareRequests, ShareTables
       DEF ShareInsert, OnlyShares, fileTables
  <2>3. ChunksOK' /\ LocksOK'
    BY <1>0, <2>2, OthersLocks DEF Typed, ChunksOK, chunkVars, Effect
  <2>4. OneOK'
    BY <1>0, <1>2, OneInserts DEF IInv
  <2>5. kept' = kept
    BY <2>2 DEF Watch, DeleteSkipped
  <2>6. NumbersOK'
    BY <1>0, <2>2, NumbersStay DEF IInv, Effect
  <2>7. req'[c] # Idle => req'[c].step \notin Removed
    <3>1. RequestsOK /\ req[c] # Idle /\ GoTo(c, "ShareReadTotal")
      BY <1>2 DEF IInv, Typed, ShareInsert, At
    <3>2. Goes(c, "ShareReadTotal", {}, req[c].after)
      BY <1>0, <3>1, Steps
    <3> QED BY <3>2 DEF Goes, Removed
  <2>8. BlobsOK'
    BY <1>0, <2>2, <2>5, <2>7, BlobsStay DEF IInv, Effect
  <2> QED BY <1>0, <2>2, <2>3, <2>4, <2>6, <2>8
          DEF IInv, Typed, Arriving, Effect
<1>3. CASE Share(c) /\ ~ShareInsert(c)
  BY <1>0, <1>3, ShareEffect, ShareRequests, ShareTables, ShareShares,
     SharesSteady, HandlerStep
<1>4. CASE Delete(c)
  BY <1>0, <1>4, DeleteEffect, DeleteRequests, DeleteTables, DeleteShares,
     DeleteSteady, HandlerStep
<1>5. CASE View(c)
  BY <1>0, <1>5, ViewEffect, ViewRequests, ViewTables, ViewShares,
     SharesSteady, HandlerStep
<1> QED BY <1>1, <1>2, <1>3, <1>4, <1>5 DEF DealFile

LEMMA DealShareFileStep ==
    ASSUME IInv, DealShareFile, UNCHANGED chunkVars, Watch PROVE IInv'
<1> DEFINE c == "dealsharefile"
<1>0. Typed /\ c \in Programs /\ c # "chunk_merge"
  BY DEF IInv, Programs
<1>1. CASE Accept(c, {"VisitRead", "CancelMark", "SaveOwned"})
  BY <1>0, <1>1, AcceptStep, Openings
<1>2. CASE Visit(c)
  BY <1>0, <1>2, VisitEffect, VisitRequests, VisitTables, VisitShares,
     SharesSteady, HandlerStep
<1>3. CASE Cancel(c)
  BY <1>0, <1>3, CancelEffect, CancelRequests, CancelTables, CancelShares,
     DeleteSteady, HandlerStep
<1>4. CASE Save(c)
  BY <1>0, <1>4, SaveEffect, SaveRequests, SaveTables, OtherShares,
     BindSteady, HandlerStep
<1> QED BY <1>1, <1>2, <1>3, <1>4 DEF DealShareFile

LEMMA ShareFilesStep ==
    ASSUME IInv, ShareFiles, UNCHANGED chunkVars, Watch PROVE IInv'
<1> DEFINE c == "sharefiles"
<1>0. Typed /\ c \in Programs /\ c # "chunk_merge"
  BY DEF IInv, Programs
<1>1. CASE Accept(c, {"RankTotal"})
  BY <1>0, <1>1, AcceptStep, Openings
<1>2. CASE RankList(c)
  BY <1>0, <1>2, RankEffect, RankRequests, RankTables, OtherShares,
     SharesSteady, HandlerStep
<1> QED BY <1>1, <1>2 DEF ShareFiles

LEMMA UploadsStep ==
    ASSUME IInv, Md5Program \/ UploadProgram, UNCHANGED chunkVars, Watch
    PROVE  IInv'
<1>0. /\ Typed /\ "md5" \in Programs /\ "upload" \in Programs
      /\ "md5" # "chunk_merge" /\ "upload" # "chunk_merge"
  BY DEF IInv, Programs
<1>1. CASE Md5Program
  <2>1. CASE Accept("md5", {"Md5Count"})
    BY <1>0, <2>1, AcceptStep, Openings
  <2>2. CASE InstantUpload("md5")
    BY <1>0, <2>2, InstantEffect, InstantRequests, InstantTables,
       OtherShares, BindSteady, HandlerStep
  <2> QED BY <1>1, <2>1, <2>2 DEF Md5Program
<1>2. CASE UploadProgram
  <2>1. CASE Accept("upload", {"UploadCount"})
    BY <1>0, <2>1, AcceptStep, Openings
  <2>2. CASE StoreBlob("upload")
    BY <1>0, <2>2, UploadTables, StoreBlobStep DEF UploadFile
  <2>3. CASE UploadFile("upload") /\ ~StoreBlob("upload")
    BY <1>0, <2>3, UploadEffect, UploadRequests, UploadTables, OtherShares,
       BindSteady, HandlerStep
  <2> QED BY <1>2, <2>1, <2>2, <2>3 DEF UploadProgram
<1> QED BY <1>1, <1>2

LEMMA PictureStep ==
    ASSUME IInv, PictureProgram, UNCHANGED chunkVars, Watch PROVE IInv'
<1> DEFINE c == "sharepicture"
<1>0. Typed /\ c \in Programs /\ c # "chunk_merge"
  BY DEF IInv, Programs
<1>1. CASE Accept(c, {"PictureInsert", "DropFind", "BrowseRead"})
  BY <1>0, <1>1, AcceptStep, Openings
<1>2. CASE SharePicture(c)
  BY <1>0, <1>2, PictureEffect, PictureRequests, PictureTables, OtherShares,
     PictureSteady, HandlerStep
<1>3. CASE CancelPicture(c)
  BY <1>0, <1>3, DropEffect, DropRequests, DropTables, OtherShares,
     PictureSteady, HandlerStep
<1>4. CASE BrowsePicture(c)
  BY <1>0, <1>4, BrowseEffect, BrowseRequests, BrowseTables, OtherShares,
     PictureSteady, HandlerStep
<1> QED BY <1>1, <1>2, <1>3, <1>4 DEF PictureProgram

\* A step on the progress or the parts of a chunked upload.
LEMMA ChunkStep ==
    ASSUME IInv, Watch, NEW c \in Programs, c # "chunk_merge",
           \/ InitExists(c) \/ InitName(c) \/ InitKnown(c) \/ InitListed(c)
           \/ InitExpire(c) \/ PartWrite(c) \/ PartList(c)
    PROVE  IInv'
<1>1. Effect(c) /\ RequestsOK' /\ ChunksOK' /\ OnlyReq
  BY ChunkEffect, InitRequests, PartRequests, InitChunks, PartChunks DEF IInv
<1>2. TablesOK' /\ SharesFrom /\ faults' = faults
  BY <1>1, SameTables, SameShares DEF OnlyReq, IInv, Typed, shareTables
<1>3. mergeLock' = mergeLock
  BY DEF InitExists, InitName, InitKnown, InitListed, InitExpire, PartWrite,
         PartList, chunkVars, SetHash
<1>4. LocksOK'
  BY <1>1, <1>2, <1>3, OthersLocks DEF Effect
<1> QED BY <1>1, <1>2, <1>4, Effects

LEMMA ChunksStep ==
    ASSUME IInv, Watch,
           ChunkInitProgram \/ ChunkUploadProgram \/ ChunkMergeProgram
    PROVE  IInv'
<1>1. CASE ChunkInitProgram
  <2>1. "chunk_init" \in Programs /\ "chunk_init" # "chunk_merge"
    BY DEF Programs
  <2> QED BY <1>1, <2>1, AcceptStep, Openings, ChunkStep
          DEF ChunkInitProgram
<1>2. CASE ChunkUploadProgram
  <2>1. PICK c \in Uploaders :
            \/ Accept(c, {"PartWrite"}) /\ UNCHANGED chunkVars
            \/ PartWrite(c) \/ PartList(c)
    BY <1>2 DEF ChunkUploadProgram
  <2>2. c \in Programs /\ c # "chunk_merge"
    BY CgiAssumption DEF Programs
  <2> QED BY <2>1, <2>2, AcceptStep, Openings, ChunkStep
<1>3. CASE ChunkMergeProgram
  <2> DEFINE c == "chunk_merge"
  <2>0. Typed /\ c \in Programs
    BY DEF IInv, Programs
  <2>1. CASE Accept(c, {"MergeLocked"}) /\ UNCHANGED chunkVars
    BY <2>0, <2>1, AcceptStep, Openings
  <2>2. CASE MergePart(c)
    BY <2>0, <2>2, MergePartStep
  <2>3. CASE Merge(c) /\ ~MergePart(c)
    <3>1. Effect(c) /\ RequestsOK' /\ TablesOK' /\ ChunksOK' /\ SharesFrom
          /\ Steady(c)
      BY <2>0, <2>3, MergeEffect, MergeRequests, MergeTables, MergeChunks,
         OtherShares, BindSteady DEF IInv
    <3>2. LocksOK'
      BY <2>0, <2>3, <3>1, FaultsGo, MergeLocks DEF IInv, Steady
    <3> QED BY <2>0, <3>1, <3>2, Effects DEF Steady
  <2> QED BY <1>3, <2>1, <2>2, <2>3 DEF ChunkMergeProgram
<1> QED BY <1>1, <1>2, <1>3

\* The counts that the gateway writes.
LEMMA GatewayRows ==
    /\ \A rows \in Rows(Nat) : Less1(rows) \in Rows(Nat)
    /\ \A rows \in Rows(Int) : Less1(rows) \in Rows(Int)
    /\ \A rows \in Rows(InfoRow) :
        /\ {[i EXCEPT !.count = i.count + 1] : i \in rows} \in Rows(InfoRow)
        /\ {[i EXCEPT !.count = i.count - 1] :
                i \in {j \in rows : j.count > 1}} \in Rows(InfoRow)
<1>1. ASSUME NEW S, S = Nat \/ S = Int, NEW rows \in Rows(S)
      PROVE  Less1(rows) \in Rows(S)
  <2>1. CASE rows = {}
    BY <2>1 DEF Less1, Rows
  <2>2. ASSUME NEW n \in S, rows = {n} PROVE Less1(rows) \in Rows(S)
    <3>1. Less1(rows) = {Less(n)} /\ Less(n) \in S
      BY <1>1, <2>2 DEF Less1, Less
    <3> QED BY <3>1 DEF Rows
  <2> QED BY <2>1, <2>2 DEF Rows
<1>2. ASSUME NEW rows \in Rows(InfoRow)
      PROVE
        /\ {[i EXCEPT !.count = i.count + 1] : i \in rows} \in Rows(InfoRow)
        /\ {[i EXCEPT !.count = i.count - 1] :
                i \in {j \in rows : j.count > 1}} \in Rows(InfoRow)
  <2>1. CASE rows = {}
    BY <2>1 DEF Rows
  <2>2. ASSUME NEW r \in InfoRow, rows = {r}
        PROVE
          /\ {[i EXCEPT !.count = i.count + 1] : i \in rows} \in Rows(InfoRow)
          /\ {[i EXCEPT !.count = i.count - 1] :
                  i \in {j \in rows : j.count > 1}} \in Rows(InfoRow)
    <3>1. [r EXCEPT !.count = r.count + 1] \in InfoRow
      BY DEF InfoRow
    <3>2. r.count > 1 => [r EXCEPT !.count = r.count - 1] \in InfoRow
      BY DEF InfoRow
    <3>3. {[i EXCEPT !.count = i.count + 1] : i \in rows}
              = {[r EXCEPT !.count = r.count + 1]}
      BY <2>2
    <3>4. {j \in rows : j.count > 1} = IF r.count > 1 THEN {r} ELSE {}
      BY <2>2
    <3>5. {[i EXCEPT !.count = i.count - 1] : i \in {j \in rows : j.count > 1}}
              = IF r.count > 1 THEN {[r EXCEPT !.count = r.count - 1]} ELSE {}
      BY <3>4
    <3> QED BY <3>1, <3>2, <3>3, <3>5 DEF Rows
  <2> QED BY <2>1, <2>2 DEF Rows
<1> QED BY <1>1, <1>2

LEMMA CommitStep ==
    ASSUME IInv, V2Commit, UNCHANGED kept PROVE IInv'
<1> DEFINE c == "dealfile"
<1>1. c \in Programs /\ Typed
  BY DEF IInv, Programs
<1>2. PICK r \in Arrives("V2Commit") : V2Commit!(r)
  BY DEF V2Commit
<1>3. r.user \in Users /\ r.file \in Files /\ arriving' \subseteq arriving
  BY <1>1, <1>2 DEF Arrives, Typed, Arriving, Request
<1>4. BlobsFrom(c) /\ SharesFrom /\ LocksOK' /\ ChunksOK'
      /\ UNCHANGED <<req, faults, kept>>
  <2>1. UNCHANGED <<shares, stored, req, faults, mergeLock, progress, disk>>
    BY <1>2 DEF GatewayOnly, shareTables, chunkVars
  <2> QED BY <2>1, SameShares DEF BlobsFrom, IInv, Typed, ChunksOK, LocksOK
<1>5. CASE UNCHANGED fileTables
  <2>1. TablesOK' /\ InfoFrom(c)
    BY <1>1, <1>2, <1>5, SameTables
       DEF GatewayOnly, Typed, InfoFrom, Blobs, fileTables
  <2> QED BY <1>1, <1>3, <1>4, <2>1, Rests
<1>6. CASE ~UNCHANGED fileTables
  <2> DEFINE p == <<r.user, r.file>>
             new == relation[p] = {}
             row == IF info[r.file] = {} THEN {[count |-> 1, blob |-> NoBlob]}
                    ELSE {[i EXCEPT !.count = i.count + 1] : i \in info[r.file]}
  <2>1. /\ info' = [info EXCEPT ![r.file] = row]
        /\ relation' = [relation EXCEPT ![p] =
                            IF new THEN {NewRelation} ELSE @]
        /\ owned' = [owned EXCEPT ![r.user] =
                            IF new THEN CountedUp(@, @) ELSE @]
        /\ UNCHANGED <<shareTables, pictureTables, public, stored>>
    BY <1>2, <1>6 DEF GatewayOnly
  <2>2. row \in Rows(InfoRow)
    <3>1. {[count |-> 1, blob |-> NoBlob]} \in Rows(InfoRow)
      BY DEF Rows, InfoRow, NoBlob
    <3>2. info[r.file] \in Rows(InfoRow)
      BY <1>1, <1>3 DEF Typed, TablesOK
    <3> QED BY <3>1, <3>2, GatewayRows
  <2>3. owned[r.user] \in Rows(Nat)
        /\ CountedUp(owned[r.user], owned[r.user]) \in Rows(Nat)
    BY <1>1, <1>3, UpRows DEF Typed, TablesOK
  <2>4. {NewRelation} \in Rows(RelationRow)
    BY DEF Rows, NewRelation, RelationRow
  <2>5. \A i \in row : i.blob = NoBlob \/ i.blob \in Blobs(info[r.file])
    <3>1. \A i \in info[r.file] : i \in InfoRow
      BY <1>1, <1>3 DEF Typed, TablesOK, Rows
    <3>2. \A i \in info[r.file] : [i EXCEPT !.count = i.count + 1].blob = i.blob
      BY <3>1 DEF InfoRow
    <3>3. CASE info[r.file] = {}
      BY <3>3
    <3>4. CASE info[r.file] # {}
      BY <3>2, <3>4 DEF Blobs
    <3> QED BY <3>3, <3>4
  <2> HIDE DEF row
  <2>6. InfoFrom(c)
    BY <1>1, <1>3, <2>1, <2>5 DEF InfoFrom, Blobs, Typed, TablesOK
  <2>7. TablesOK'
    <3>1. info' \in [Files -> Rows(InfoRow)]
      BY <1>1, <1>3, <2>1, <2>2 DEF Typed, TablesOK
    <3>2. relation' \in [Users \X Files -> Rows(RelationRow)]
      BY <1>1, <1>3, <2>1, <2>4 DEF Typed, TablesOK
    <3>3. owned' \in [Users -> Rows(Nat)]
      BY <1>1, <1>3, <2>1, <2>3 DEF Typed, TablesOK
    <3> QED BY <1>1, <2>1, <3>1, <3>2, <3>3
            DEF Typed, TablesOK, shareTables, pictureTables, public
  <2> QED BY <1>1, <1>3, <1>4, <2>6, <2>7, Rests
<1> QED BY <1>5, <1>6

LEMMA GatewayDeleteStep ==
    ASSUME IInv, V2Delete, UNCHANGED kept PROVE IInv'
<1> DEFINE c == "dealfile"
<1>1. c \in Programs /\ Typed
  BY DEF IInv, Programs
<1>2. PICK r \in Arrives("V2Delete") : V2Delete!(r)
  BY DEF V2Delete
<1>3. r.user \in Users /\ r.file \in Files /\ arriving' \subseteq arriving
  BY <1>1, <1>2 DEF Arrives, Typed, Arriving, Request
<1>4. BlobsFrom(c) /\ SharesFrom /\ LocksOK' /\ ChunksOK'
      /\ UNCHANGED <<req, faults, kept>>
  <2>1. /\ UNCHANGED <<stored, req, faults, mergeLock, progress, disk>>
        /\ shares' \subseteq shares
    BY <1>2 DEF GatewayOnly, shareTables, chunkVars
  <2> QED BY <2>1, SameShares DEF BlobsFrom, IInv, Typed, ChunksOK, LocksOK
<1>5. CASE UNCHANGED <<fileTables, shareTables>>
  <2>1. TablesOK' /\ InfoFrom(c)
    BY <1>1, <1>2, <1>5, SameTables
       DEF GatewayOnly, Typed, InfoFrom, Blobs, fileTables
  <2> QED BY <1>1, <1>3, <1>4, <2>1, Rests
<1>6. CASE ~UNCHANGED <<fileTables, shareTables>>
  <2> DEFINE rows == {i \in info[r.file] : i.blob = NoBlob}
             left == {[i EXCEPT !.count = i.count - 1] :
                         i \in {j \in rows : j.count > 1}}
  <2>1. /\ info' = [info EXCEPT ![r.file] = left]
        /\ relation' = [relation EXCEPT ![<<r.user, r.file>>] = {}]
        /\ owned' = [owned EXCEPT ![r.user] = Less1(@)]
        /\ shares' \subseteq shares
        /\ total' = total \/ total' = Less1(total)
        /\ UNCHANGED <<pictureTables, public, stored>>
    BY <1>2, <1>6 DEF GatewayOnly
  <2>2. rows \in Rows(InfoRow) /\ \A i \in rows : i \in InfoRow
    BY <1>1, <1>3 DEF Typed, TablesOK, Rows
  <2>3. left \in Rows(InfoRow)
    BY <2>2, GatewayRows
  <2>4. \A i \in left : i.blob = NoBlob
    BY <2>2 DEF InfoRow
  <2>5. Less1(owned[r.user]) \in Rows(Nat) /\ Less1(total) \in Rows(Int)
    BY <1>1, <1>3, GatewayRows DEF Typed, TablesOK
  <2> HIDE DEF rows, left
  <2>6. InfoFrom(c)
    BY <1>1, <1>3, <2>1, <2>4 DEF InfoFrom, Blobs, Typed, TablesOK
  <2>7. TablesOK'
    <3>1. info' \in [Files -> Rows(InfoRow)]
      BY <1>1, <1>3, <2>1, <2>3 DEF Typed, TablesOK
    <3>2. relation' \in [Users \X Files -> Rows(RelationRow)]
      BY <1>1, <1>3, <2>1 DEF Typed, TablesOK, Rows
    <3>3. owned' \in [Users -> Rows(Nat)] /\ total' \in Rows(Int)
      BY <1>1, <1>3, <2>1, <2>5 DEF Typed, TablesOK
    <3> QED BY <1>1, <2>1, <3>1, <3>2, <3>3
            DEF Typed, TablesOK, pictureTables, public
  <2> QED BY <1>1, <1>3, <1>4, <2>6, <2>7, Rests
<1> QED BY <1>5, <1>6

\* A key of Redis that expires, or no step at all.
LEMMA ExpiryStep ==
    ASSUME IInv, UNCHANGED kept,
           \/ \E f \in Files : KeyExpires(f) \/ LockExpires(f)
           \/ UNCHANGED <<legacyVars, chunkVars>>
    PROVE  IInv'
<1> DEFINE c == "dealfile"
<1>1. c \in Programs /\ UNCHANGED legacyVars
  BY DEF KeyExpires, LockExpires, Programs
<1>2. TablesOK' /\ InfoFrom(c) /\ BlobsFrom(c) /\ SharesFrom
      /\ arriving' \subseteq arriving /\ UNCHANGED <<req, faults, kept>>
  BY <1>1, SameTables, SameShares, KeepsBlobs
     DEF legacyVars, fileTables, shareTables, IInv, Typed
<1>3. LocksOK' /\ ChunksOK'
  <2>1. CASE UNCHANGED <<legacyVars, chunkVars>>
    BY <1>2, <2>1 DEF IInv, Typed, LocksOK, ChunksOK, chunkVars
  <2>2. ASSUME NEW f \in Files, KeyExpires(f) PROVE LocksOK' /\ ChunksOK'
    BY <1>2, <2>2 DEF IInv, Typed, LocksOK, ChunksOK, KeyExpires, Rows
  <2>3. ASSUME NEW f \in Files, LockExpires(f) PROVE LocksOK' /\ ChunksOK'
    BY <1>2, <2>3 DEF IInv, Typed, LocksOK, ChunksOK, LockExpires, Rows
  <2> QED BY <2>1, <2>2, <2>3
<1> QED BY <1>1, <1>2, <1>3, Rests

LEMMA NextKeeps ==
    ASSUME IInv, [Next]_cgiVars PROVE IInv'
<1>1. ASSUME LegacyStep, Watch PROVE IInv'
  BY <1>1, DealFileStep, DealShareFileStep, UploadsStep, PictureStep,
     ChunksStep, CrashStep DEF LegacyStep
<1>2. ASSUME ShareFiles, UNCHANGED chunkVars, Watch PROVE IInv'
  BY <1>2, ShareFilesStep
<1>3. ASSUME V2Commit \/ V2Delete, UNCHANGED kept PROVE IInv'
  BY <1>3, CommitStep, GatewayDeleteStep
<1>4. ASSUME \E f \in Files : KeyExpires(f) \/ LockExpires(f), UNCHANGED kept
      PROVE  IInv'
  BY <1>4, ExpiryStep
<1>5. ASSUME UNCHANGED cgiVars PROVE IInv'
  BY <1>5, ExpiryStep DEF cgiVars
<1> QED BY <1>1, <1>2, <1>3, <1>4, <1>5 DEF Next

----------------------------------------------------------------------------
(* The libraries that a behaviour starts with.                             *)

Libraries == {w.library : w \in Workloads}

LEMMA LibraryCounts ==
    ASSUME NEW lib \in Libraries
    PROVE  /\ \A f \in Files : InfoOf(lib, f) \in Rows(InfoRow)
           /\ \A f \in Files : \A r \in InfoOf(lib, f) :
                r.blob \in {NoBlob, FirstBlob}
           /\ CountRow(lib.shares) \in Rows(Int)
           /\ \A u \in Users :
                /\ CountRow({p \in lib.owns : p[1] = u}) \in Rows(Nat)
                /\ CountRow({p \in lib.links : p.user = u}) \in Rows(Nat)
<1>1. /\ lib.shares \subseteq lib.owns /\ lib.owns \subseteq Users \X Files
      /\ IsFiniteSet(lib.links) /\ IsFiniteSet(Users) /\ IsFiniteSet(Files)
  BY CgiAssumption DEF Libraries
<1>2. IsFiniteSet(lib.owns) /\ IsFiniteSet(lib.shares)
  <2>1. IsFiniteSet(Users \X Files)
    BY <1>1, FS_Product
  <2> QED BY <1>1, <2>1, FS_Subset
<1>3. ASSUME NEW S, IsFiniteSet(S) PROVE CountRow(S) \in Rows(Nat)
  BY <1>3, FS_CardinalityType DEF CountRow, Rows
<1>4. CountRow(lib.shares) \in Rows(Int)
  BY <1>2, <1>3 DEF Rows
<1>5. ASSUME NEW u \in Users
      PROVE  /\ CountRow({p \in lib.owns : p[1] = u}) \in Rows(Nat)
             /\ CountRow({p \in lib.links : p.user = u}) \in Rows(Nat)
  <2>1. {p \in lib.owns : p[1] = u} \subseteq lib.owns
        /\ {p \in lib.links : p.user = u} \subseteq lib.links
    OBVIOUS
  <2>2. IsFiniteSet({p \in lib.owns : p[1] = u})
        /\ IsFiniteSet({p \in lib.links : p.user = u})
    BY <1>1, <1>2, <2>1, FS_Subset
  <2> QED BY <1>3, <2>2
<1>6. ASSUME NEW f \in Files
      PROVE  /\ InfoOf(lib, f) \in Rows(InfoRow)
             /\ \A r \in InfoOf(lib, f) : r.blob \in {NoBlob, FirstBlob}
  <2> DEFINE n == Cardinality(OwnersOf(lib, f)) + Cardinality(LinksOf(lib, f))
             b == IF f \in lib.manifests THEN NoBlob ELSE FirstBlob
  <2>1. OwnersOf(lib, f) \subseteq Users /\ LinksOf(lib, f) \subseteq lib.links
    BY DEF OwnersOf, LinksOf
  <2>2. n \in Nat
    BY <1>1, <2>1, FS_Subset, FS_CardinalityType
  <2>3. b \in {NoBlob, FirstBlob} /\ b \in Nat
    BY DEF NoBlob, FirstBlob
  <2>4. InfoOf(lib, f) = IF n = 0 THEN {} ELSE {[count |-> n, blob |-> b]}
    BY DEF InfoOf
  <2> HIDE DEF n, b
  <2> QED BY <2>2, <2>3, <2>4 DEF Rows, InfoRow
<1> QED BY <1>4, <1>5, <1>6

LEMMA InitHolds == Init => IInv
<1> SUFFICES ASSUME Init PROVE IInv
  OBVIOUS
<1>1. PICK w \in Workloads : Init!1!(w)
  BY DEF Init
<1> DEFINE lib == w.library
<1>2. lib \in Libraries
  BY DEF Libraries
<1>3. /\ w.requests \subseteq Request
      /\ \A r \in w.requests :
            /\ r.no > FirstBlob
            /\ r.op = "PartWrite" => r.part \in Whole
      /\ \A r, s \in w.requests : r.no = s.no => r = s
      /\ lib.shares \subseteq Users \X Files
      /\ \A p, q \in lib.shares : p[2] = q[2] => p = q
      /\ lib.links \subseteq PictureRow
  BY CgiAssumption
<1>4. /\ req = [c \in Programs |-> Idle] /\ faults = 0 /\ kept = {}
      /\ progress = [f \in Files |-> {}] /\ mergeLock = [f \in Files |-> {}]
      /\ disk = [f \in Files |-> {}]
  BY DEF Init, ChunkInit
<1>5. RequestsOK /\ Arriving /\ ChunksOK /\ Busy = {}
  <2>1. RequestsOK /\ Busy = {}
    BY <1>4 DEF RequestsOK, Busy
  <2>2. arriving = w.requests
    BY <1>1
  <2>3. Arriving
    BY <1>3, <2>2 DEF Arriving
  <2>4. ChunksOK
    BY <1>4 DEF ChunksOK, Rows
  <2> QED BY <2>1, <2>3, <2>4
<1>6. shares = {[user |-> p[1], file |-> p[2], token |-> 0, views |-> 0] :
                    p \in lib.shares}
  BY <1>1
<1>7. shares \subseteq ShareRow /\ \A r, s \in shares : r.file = s.file => r = s
  BY <1>3, <1>6 DEF ShareRow
<1>8. info \in [Files -> Rows(InfoRow)]
      /\ \A f \in Files : \A r \in info[f] : r.blob \in {NoBlob, FirstBlob}
  BY <1>1, <1>2, LibraryCounts
<1>9. stored = {[file |-> f, no |-> FirstBlob, parts |-> Whole] :
                    f \in {g \in Files : \E r \in info[g] : r.blob = FirstBlob}}
  BY <1>1
<1>10. TablesOK
  <2>1. relation \in [Users \X Files -> Rows(RelationRow)]
    <3>1. \A b \in BOOLEAN : {[shared |-> b, views |-> 0]} \in Rows(RelationRow)
      BY DEF Rows, RelationRow
    <3>2. \A p : (p \in lib.shares) \in BOOLEAN
      OBVIOUS
    <3>3. {} \in Rows(RelationRow)
      BY DEF Rows
    <3> QED BY <1>1, <3>1, <3>2, <3>3
  <2>2. owned \in [Users -> Rows(Nat)] /\ pictureCount \in [Users -> Rows(Nat)]
        /\ total \in Rows(Int)
    BY <1>1, <1>2, LibraryCounts
  <2>3. ranking \in [Files -> Rows(Nat)]
    BY <1>1 DEF Rows
  <2>4. names \subseteq Files /\ pictures \subseteq PictureRow
    BY <1>1, <1>3
  <2>5. stored \subseteq Blob
    BY <1>9 DEF Blob, FirstBlob
  <2> QED BY <1>7, <1>8, <2>1, <2>2, <2>3, <2>4, <2>5 DEF TablesOK
<1>11. Typed
  BY <1>4, <1>5, <1>10 DEF Typed
<1>12. NumbersOK
  <2>1. arriving = w.requests /\ \A c \in Programs : Named(req[c]) = {}
    BY <1>1, <1>4 DEF Named
  <2>2. ASSUME NEW r \in arriving PROVE Unnamed(r.no) /\ Unstored(r.no)
    <3>1. r \in Request /\ r.no > FirstBlob
      BY <1>3, <2>1
    <3>2. r.no # NoBlob /\ r.no # FirstBlob
      BY <3>1 DEF NoBlob, FirstBlob, Request
    <3>3. Unnamed(r.no)
      BY <1>8, <2>1, <3>2 DEF Unnamed
    <3>4. Unstored(r.no)
      BY <1>9, <3>2 DEF Unstored
    <3> QED BY <3>3, <3>4
  <2> QED BY <1>3, <1>5, <2>1, <2>2 DEF NumbersOK, Numbers
<1>13. BlobsOK
  BY <1>5, <1>8, <1>9 DEF BlobsOK, BlobBehindInfo
<1>14. OneOK /\ LocksOK
  BY <1>4, <1>7 DEF OneOK, LocksOK, Programs
<1> QED BY <1>11, <1>12, <1>13, <1>14 DEF IInv

LEMMA Invariance == Spec => []IInv
<1> QED BY InitHolds, NextKeeps, PTL DEF Spec

----------------------------------------------------------------------------
(* A rebuild of the ranking.                                               *)

\* The ranking has a share of each file whose shares are not all still to be
\* copied, and its names are theirs.
Copied(left) ==
    \A f \in Files :
        IF SharesOf(f) \subseteq left THEN ranking[f] = {}
        ELSE \E r \in SharesOf(f) : ranking[f] = {r.views}
Begun(left) == {f \in Files : ~(SharesOf(f) \subseteq left)}
Exact == Copied({}) /\ names = Begun({})

RankOK ==
    LET q == req["sharefiles"]
    IN  rebuilt =>
        /\ q = Idle \/ q.step \in {"RankTotal", "RankSql", "RankCard",
                                   "RankClear"} => Exact
        /\ q # Idle =>
            /\ q.step \in {"RankClearNames", "RankRead"}
               => \A f \in Files : ranking[f] = {}
            /\ q.step = "RankRead" => names = {}
            /\ q.step \in {"RankAdd", "RankName"}
               => q.read \subseteq shares /\ Copied(q.read)
            /\ q.step = "RankAdd" => names = Begun(q.read)
            /\ q.step = "RankName" => names \cup {q.file} = Begun(q.read)

LEMMA RankStays ==
    ASSUME RankOK, UNCHANGED <<shares, ranking, names>>,
           req'["sharefiles"] = req["sharefiles"], rebuilt' = rebuilt
    PROVE  RankOK'
<1>1. \A f : SharesOf(f)' = SharesOf(f)
  BY DEF SharesOf
<1>2. Exact' = Exact
      /\ \A left : Begun(left)' = Begun(left) /\ (Copied(left) => Copied(left)')
  BY <1>1 DEF Exact, Begun, Copied
<1> QED BY <1>2 DEF RankOK

\* The rebuild is at its next step, and it has not read anything yet.
LEMMA RankMoves ==
    ASSUME NEW s, req'["sharefiles"] = Idle \/ req'["sharefiles"].step = s,
           s \in {"RankTotal", "RankSql", "RankCard", "RankClear"}, Exact,
           UNCHANGED <<shares, ranking, names>>
    PROVE  RankOK'
<1>1. \A f : SharesOf(f)' = SharesOf(f)
  BY DEF SharesOf
<1>2. Exact'
  BY <1>1 DEF Exact, Begun, Copied
<1> QED BY <1>2 DEF RankOK

LEMMA RankAdds ==
    ASSUME Typed, NEW left, NEW r \in left, left \subseteq shares, Copied(left),
           ranking' = [ranking EXCEPT ![r.file] = {r.views}], shares' = shares
    PROVE  /\ Copied(left \ {r})'
           /\ Begun(left \ {r})' = Begun(left) \cup {r.file}
<1>1. \A f : SharesOf(f)' = SharesOf(f)
  BY DEF SharesOf
<1>2. r.file \in Files /\ r \in SharesOf(r.file)
  BY DEF Typed, TablesOK, ShareRow, SharesOf
<1>3. ASSUME NEW f \in Files, f # r.file
      PROVE  SharesOf(f) \subseteq left \ {r} <=> SharesOf(f) \subseteq left
  BY <1>3 DEF SharesOf
<1>4. ~(SharesOf(r.file) \subseteq left \ {r})
  BY <1>2
<1>5. ranking'[r.file] = {r.views}
      /\ \A f \in Files \ {r.file} : ranking'[f] = ranking[f]
  BY <1>2 DEF Typed, TablesOK
<1>6. Copied(left \ {r})'
  <2> SUFFICES ASSUME NEW f \in Files
      PROVE  IF SharesOf(f) \subseteq left \ {r} THEN ranking'[f] = {}
             ELSE \E x \in SharesOf(f) : ranking'[f] = {x.views}
    BY <1>1 DEF Copied
  <2>1. CASE f = r.file
    BY <1>2, <1>4, <1>5, <2>1
  <2>2. CASE f # r.file
    BY <1>3, <1>5, <2>2 DEF Copied
  <2> QED BY <2>1, <2>2
<1>7. Begun(left \ {r})' = Begun(left) \cup {r.file}
  BY <1>1, <1>2, <1>3, <1>4 DEF Begun
<1> QED BY <1>6, <1>7

LEMMA RankListStays ==
    ASSUME IInv, RankOK, RankList("sharefiles"), faults' = faults,
           rebuilt \/ Rebuilding
    PROVE  RankOK'
<1> DEFINE c == "sharefiles"
           q == req[c]
<1>0. c \in Programs /\ RequestsOK /\ Typed /\ ~Fault
  BY DEF IInv, Typed, Programs, Fault
<1> USE DEF At
<1>1. CASE RankTotal(c)
  <2>1. q.step = "RankTotal" /\ q # Idle /\ Exact
    BY <1>1 DEF RankTotal, RankOK, Rebuilding
  <2>2. req'[c] = Idle \/ req'[c].step = "RankSql"
    BY <1>0, <1>1, Steps, EndsHere DEF RankTotal, Goes
  <2> QED BY <1>1, <2>1, <2>2, RankMoves
          DEF RankTotal, OnlyReq, shareTables, public
<1>2. CASE RankSql(c)
  <2>1. q.step = "RankSql" /\ q # Idle /\ Exact
    BY <1>2 DEF RankSql, RankOK, Rebuilding
  <2>2. req'[c].step = "RankCard"
    BY <1>0, <1>2, Steps DEF RankSql, Goes
  <2> QED BY <1>2, <2>1, <2>2, RankMoves
          DEF RankSql, OnlyReq, shareTables, public
<1>3. CASE RankCard(c)
  <2>1. q.step = "RankCard" /\ q # Idle /\ Exact
    BY <1>3 DEF RankCard, RankOK, Rebuilding
  <2>2. req'[c] = Idle \/ req'[c].step = "RankClear"
    BY <1>0, <1>3, Steps, EndsHere DEF RankCard, Goes
  <2> QED BY <1>3, <2>1, <2>2, RankMoves
          DEF RankCard, OnlyReq, shareTables, public
<1>4. CASE RankClear(c)
  <2>1. q # Idle /\ Goes(c, "RankClearNames", {}, q.after)
    BY <1>0, <1>4, Steps DEF RankClear
  <2>2. \A f \in Files : ranking'[f] = {}
    BY <1>0, <1>4 DEF RankClear
  <2>3. req'[c].step = "RankClearNames" /\ req'[c] # Idle
    BY <2>1, IdleStep DEF Goes
  <2> QED BY <2>2, <2>3 DEF RankOK
<1>5. CASE RankClearNames(c)
  <2>1. q # Idle /\ q.step = "RankClearNames" /\ rebuilt
    BY <1>5 DEF RankClearNames, Rebuilding
  <2>2. Goes(c, "RankRead", {}, q.after)
    BY <1>0, <1>5, Steps DEF RankClearNames
  <2>3. names' = {} /\ ranking' = ranking
    BY <1>0, <1>5 DEF RankClearNames, Name
  <2>4. \A f \in Files : ranking'[f] = {}
    BY <2>1, <2>3 DEF RankOK
  <2>5. req'[c].step = "RankRead" /\ req'[c] # Idle
    BY <2>2, IdleStep DEF Goes
  <2> QED BY <2>3, <2>4, <2>5 DEF RankOK
<1>6. CASE RankRead(c)
  <2>1. /\ q # Idle /\ q.step = "RankRead" /\ rebuilt
        /\ UNCHANGED <<shares, ranking, names>>
    BY <1>6 DEF RankRead, Rebuilding, OnlyReq, shareTables, public
  <2>2. names = {} /\ \A f \in Files : ranking[f] = {}
    BY <2>1 DEF RankOK
  <2>3. \A f \in Files : SharesOf(f)' = SharesOf(f) /\ SharesOf(f) \subseteq shares
    BY <2>1 DEF SharesOf
  <2>4. Copied(shares)' /\ Begun(shares)' = {}
    BY <2>1, <2>2, <2>3 DEF Copied, Begun
  <2>5. CASE shares = {}
    <3>1. req'[c] = Idle
      BY <1>0, <1>6, <2>5, EndsHere DEF RankRead
    <3>2. Exact'
      BY <2>1, <2>2, <2>4, <2>5 DEF Exact
    <3> QED BY <3>1, <3>2 DEF RankOK
  <2>6. CASE shares # {}
    <3>1. Goes(c, "RankAdd", shares, q.after)
      BY <1>0, <1>6, <2>6, Steps DEF RankRead
    <3>2. req'[c].step = "RankAdd" /\ req'[c].read = shares /\ req'[c] # Idle
      BY <3>1, IdleStep DEF Goes
    <3>3. Copied(req[c].read)' /\ Begun(req[c].read)' = {}
      BY <2>4, <3>2, <2>1 DEF Copied, Begun
    <3> QED BY <2>1, <2>2, <3>2, <3>3 DEF RankOK
  <2> QED BY <2>5, <2>6
<1>7. CASE RankAdd(c)
  <2>1. /\ q # Idle /\ q.step = "RankAdd" /\ rebuilt
        /\ q.read \subseteq shares /\ Copied(q.read) /\ names = Begun(q.read)
    BY <1>7 DEF RankAdd, Rebuilding, RankOK
  <2>2. PICK r \in q.read :
          /\ req' = [req EXCEPT ![c].step = "RankName", ![c].file = r.file,
                                ![c].read = @ \ {r}]
          /\ Rank(r.file, {r.views})
    BY <1>7 DEF RankAdd, Topmost
  <2>3. /\ ranking' = [ranking EXCEPT ![r.file] = {r.views}]
        /\ UNCHANGED <<shares, names>>
    BY <1>0, <2>2 DEF Rank, OnlyPublic, shareTables
  <2>4. DOMAIN req = Programs /\ DOMAIN q = Fields
    BY <1>0, <2>1, Serves DEF RequestsOK, Handled
  <2>5. /\ req'[c].step = "RankName" /\ req'[c].read = q.read \ {r}
        /\ req'[c].file = r.file
    BY <1>0, <2>2, <2>4 DEF Fields
  <2>0. PICK left : left = q.read
    OBVIOUS
  <2>6. /\ Copied(left \ {r})'
        /\ Begun(left \ {r})' = Begun(left) \cup {r.file}
    BY <1>0, <2>0, <2>1, <2>3, RankAdds
  <2>7. Copied(req[c].read)'
        /\ Begun(req[c].read)' = names' \cup {req'[c].file}
    BY <2>0, <2>1, <2>3, <2>5, <2>6 DEF Copied, Begun
  <2> QED BY <2>1, <2>3, <2>5, <2>7, IdleStep DEF RankOK
<1>8. CASE RankName(c)
  <2>1. /\ q # Idle /\ q.step = "RankName" /\ rebuilt
        /\ q.read \subseteq shares /\ Copied(q.read)
        /\ names \cup {q.file} = Begun(q.read)
    BY <1>8 DEF RankName, Rebuilding, RankOK
  <2>2. names' = Begun(q.read) /\ UNCHANGED <<shares, ranking>>
    BY <1>0, <1>8, <2>1 DEF RankName, Name, OnlyPublic, shareTables
  <2>3. \A f : SharesOf(f)' = SharesOf(f)
    BY <2>2 DEF SharesOf
  <2>4. CASE q.read = {}
    <3>1. req'[c] = Idle
      BY <1>0, <1>8, <2>4, EndsHere DEF RankName
    <3>2. Exact'
      BY <2>1, <2>2, <2>3, <2>4 DEF Exact, Copied, Begun
    <3> QED BY <3>1, <3>2 DEF RankOK
  <2>5. CASE q.read # {}
    <3>1. Goes(c, "RankAdd", q.read, q.after)
      BY <1>0, <1>8, <2>1, <2>5, Steps DEF RankName
    <3>2. req'[c].step = "RankAdd" /\ req'[c].read = q.read /\ req'[c] # Idle
      BY <3>1, IdleStep DEF Goes
    <3>3. Copied(req[c].read)' /\ Begun(req[c].read)' = names'
      BY <2>1, <2>2, <2>3, <3>2 DEF Copied, Begun
    <3> QED BY <2>1, <2>2, <3>2, <3>3 DEF RankOK
  <2> QED BY <2>4, <2>5
<1> QED BY <1>1, <1>2, <1>3, <1>4, <1>5, <1>6, <1>7, <1>8 DEF RankList

LEMMA RankKeeps ==
    ASSUME IInv, RankOK, [Next]_cgiVars PROVE RankOK'
<1>1. CASE ~rebuilt'
  BY <1>1 DEF RankOK
<1>2. ASSUME rebuilt', ShareFiles, rebuilt' = (faults' = faults /\ (rebuilt \/ Rebuilding))
      PROVE  RankOK'
  <2> DEFINE c == "sharefiles"
  <2>1. faults' = faults /\ (rebuilt \/ Rebuilding)
    BY <1>2
  <2>2. CASE RankList(c)
    BY <2>1, <2>2, RankListStays
  <2>3. CASE Accept(c, {"RankTotal"})
    <3>1. req[c] = Idle /\ Exact /\ UNCHANGED <<shares, ranking, names>>
      BY <2>1, <2>3 DEF Accept, RankOK, Rebuilding, At, shareTables, public
    <3>2. PICK r \in arriving : r.op = "RankTotal"
                                /\ req' = [req EXCEPT ![c] = Serving(r)]
      BY <2>3 DEF Accept
    <3>3. req'[c].step = "RankTotal"
      BY <3>2 DEF Serving, IInv, Typed, RequestsOK, Programs
    <3> QED BY <3>1, <3>3, RankMoves
  <2> QED BY <1>2, <2>2, <2>3 DEF ShareFiles
<1>3. CASE UNCHANGED <<legacyVars, rebuilt>>
  BY <1>3, RankStays DEF legacyVars, shareTables, public
<1> QED BY <1>1, <1>2, <1>3 DEF Next, KeyExpires, LockExpires, cgiVars

----------------------------------------------------------------------------
(* The counters, when requests are served one after the other.             *)

FilesOf(u) == {f \in Files : u \in Owners(f)}
PicturesOf(u) == {p \in pictures : p.user = u}
Refs(f) == Cardinality(Owners(f)) + Cardinality(Links(f))
Held(u) == Cardinality(FilesOf(u))
Shown(u) == Cardinality(PicturesOf(u))

\* The counters are exact, but for what is still due to those of a file and of
\* a user.
InfoBook(f, due) ==
    \A g \in Files :
        Number(Counts(info[g]), Refs(g) + IF g = f THEN due ELSE 0)
OwnedBook(u, due) ==
    \A v \in Users : Number(owned[v], Held(v) + IF v = u THEN due ELSE 0)
PictureBook(u, due) ==
    \A v \in Users :
        Number(pictureCount[v], Shown(v) + IF v = u THEN due ELSE 0)
Balanced ==
    /\ \A f \in Files : InfoBook(f, 0)
    /\ \A u \in Users : OwnedBook(u, 0) /\ PictureBook(u, 0)

\* What a request at step s owes the counters of its file and of its user.
InfoDue(s) ==
    IF s \in {"BindRelation", "DelReadCount", "DelWriteCount"} THEN 1
    ELSE IF s \in {"PictureRead", "PictureCount", "DropRow"} THEN -1 ELSE 0
OwnedDue(s) == IF s \in {"ReadOwned", "WriteOwned"} THEN -1 ELSE 0
PictureDue(s) ==
    IF s \in {"PictureRead", "PictureCount", "PictureReadOwn",
              "PictureWriteOwn", "DropRead", "DropCount", "DropRow"}
    THEN -1 ELSE 0

\* What a request knows at step s: its file f, its user u, its number n, the
\* link i it names, and the rows it has read.
Knows(s, f, u, n, i, rows) ==
    /\ s \in {"Md5Owned", "UploadOwned", "MergeOwned", "BindCount",
              "DelWriteCount", "PictureCount"}
       => rows = Counts(info[f]) /\ rows # {}
    /\ s \in {"BindCount", "BindRelation", "SaveRead", "StoreRead",
              "StoreInsert"} => relation[<<u, f>>] = {}
    /\ s = "StoreInsert" => info[f] = {}
    /\ s \in {"DelRelation", "WriteOwned"} => rows = owned[u]
    /\ s \in {"DelReadBlob", "DelInfo", "DropInfo"} => Refs(f) = 0
    /\ s \in {"PictureWriteOwn", "DropWriteOwn"} => rows = pictureCount[u]
    /\ s = "PictureInsert" => \A p \in pictures : p.id # n
    /\ s \in {"DropReadOwn", "DropWriteOwn", "DropRead", "DropCount", "DropRow"}
       => \E p \in pictures : p.url = i /\ p.user = u /\ p.file = f
    /\ s = "DropCount" => rows = info[f]
    /\ s = "DropRow" => \E r : rows = {r} /\ r.count = Refs(f)

Books(s, f, u, n, i, rows) ==
    /\ InfoBook(f, InfoDue(s)) /\ OwnedBook(u, OwnedDue(s))
    /\ PictureBook(u, PictureDue(s))
    /\ Knows(s, f, u, n, i, rows)

\* Rows of links are told apart by their id, which a request to come will not
\* take, and no user has two of one url.
LinksOK ==
    /\ IsFiniteSet(pictures)
    /\ \A p, q \in pictures : p.id = q.id => p = q
    /\ \A p, q \in pictures : p.user = q.user /\ p.url = q.url => p = q
    /\ \A r \in arriving : \A p \in pictures : p.id # r.no

\* The histories after which the counters are exact.
Orderly == serial /\ ~twinned

CountsOK == Orderly =>
    /\ LinksOK
    /\ \A c, d \in Busy : c = d
    /\ Busy = {} => Balanced
    /\ \A c \in Busy :
        LET q == req[c]
        IN  Books(q.step, q.file, q.user, q.no, q.part, q.read)

\* The steps that owe nothing and need not know anything.
Debts == {"Md5Owned", "UploadOwned", "MergeOwned", "BindCount", "BindRelation",
          "ReadOwned", "WriteOwned", "SaveRead", "StoreRead", "StoreInsert",
          "DelRelation", "DelReadCount", "DelWriteCount", "DelReadBlob",
          "DelInfo", "PictureInsert", "PictureRead", "PictureCount",
          "PictureReadOwn", "PictureWriteOwn", "DropReadOwn", "DropWriteOwn",
          "DropRead", "DropCount", "DropRow", "DropInfo"}

LEMMA NotEmpty ==
    ASSUME NEW S, IsFiniteSet(S), NEW x \in S
    PROVE  Cardinality(S) \in Nat /\ Cardinality(S) > 0
  BY FS_EmptySet, FS_CardinalityType

LEMMA OneMore ==
    ASSUME NEW S, IsFiniteSet(S), NEW x, x \notin S, NEW T, T = S \cup {x}
    PROVE  Cardinality(T) = Cardinality(S) + 1
<1>1. Cardinality(S \cup {x}) = Cardinality(S) + 1
  BY FS_AddElement
<1> QED BY <1>1, Zenon

LEMMA OneLess ==
    ASSUME NEW S, IsFiniteSet(S), NEW x \in S, NEW T, T = S \ {x}
    PROVE  Cardinality(T) = Cardinality(S) - 1
<1>1. Cardinality(S \ {x}) = Cardinality(S) - 1
  BY FS_RemoveElement
<1> QED BY <1>1, Zenon

LEMMA Sizes ==
    ASSUME Typed, IsFiniteSet(pictures)
    PROVE  /\ \A f : IsFiniteSet(Owners(f)) /\ IsFiniteSet(Links(f))
           /\ \A f : /\ Cardinality(Owners(f)) \in Nat
                     /\ Cardinality(Links(f)) \in Nat /\ Refs(f) \in Nat
           /\ \A u : IsFiniteSet(FilesOf(u)) /\ IsFiniteSet(PicturesOf(u))
           /\ \A u : Held(u) \in Nat /\ Shown(u) \in Nat
<1>1. IsFiniteSet(Users) /\ IsFiniteSet(Files)
  BY CgiAssumption
<1>2. \A f : IsFiniteSet(Owners(f)) /\ IsFiniteSet(Links(f))
  <2> TAKE f
  <2>1. Owners(f) \subseteq Users /\ Links(f) \subseteq pictures
    BY DEF Owners, Links
  <2> QED BY <1>1, <2>1, FS_Subset
<1>3. \A u : IsFiniteSet(FilesOf(u)) /\ IsFiniteSet(PicturesOf(u))
  <2> TAKE u
  <2>1. FilesOf(u) \subseteq Files /\ PicturesOf(u) \subseteq pictures
    BY DEF FilesOf, PicturesOf
  <2> QED BY <1>1, <2>1, FS_Subset
<1>4. \A f : Cardinality(Owners(f)) \in Nat /\ Cardinality(Links(f)) \in Nat
  BY <1>2, FS_CardinalityType
<1>5. \A u : Held(u) \in Nat /\ Shown(u) \in Nat
  BY <1>3, FS_CardinalityType DEF Held, Shown
<1> QED BY <1>2, <1>3, <1>4, <1>5 DEF Refs

\* A step changes the number of references to f by n, and those of the files
\* and links of u by k and l.
Shift(f, n, u, k, l) ==
    /\ \A g \in Files : Refs(g)' = Refs(g) + IF g = f THEN n ELSE 0
    /\ \A v \in Users : Held(v)' = Held(v) + IF v = u THEN k ELSE 0
    /\ \A v \in Users : Shown(v)' = Shown(v) + IF v = u THEN l ELSE 0

SameRelation == \A p \in Users \X Files : relation'[p] = {} <=> relation[p] = {}

LEMMA NoShift ==
    ASSUME Typed, IsFiniteSet(pictures), SameRelation, pictures' = pictures,
           NEW f, NEW u
    PROVE  /\ Shift(f, 0, u, 0, 0)
           /\ \A g \in Files : Refs(g)' = Refs(g)
<1>1. \A g \in Files : Owners(g)' = Owners(g) /\ Links(g)' = Links(g)
  BY DEF Owners, Links, SameRelation
<1>2. \A v \in Users : FilesOf(v)' = FilesOf(v) /\ PicturesOf(v)' = PicturesOf(v)
  BY <1>1 DEF FilesOf, PicturesOf
<1>3. \A g \in Files : Refs(g)' = Refs(g) /\ Refs(g) \in Nat
  BY <1>1, Sizes DEF Refs
<1>4. \A v \in Users : /\ Held(v)' = Held(v) /\ Held(v) \in Nat
                       /\ Shown(v)' = Shown(v) /\ Shown(v) \in Nat
  BY <1>2, Sizes DEF Held, Shown
<1> QED BY <1>3, <1>4 DEF Shift

LEMMA GainsRelation ==
    ASSUME Typed, IsFiniteSet(pictures), NEW f \in Files, NEW u \in Users,
           NEW rows, rows # {}, relation[<<u, f>>] = {},
           relation' = [relation EXCEPT ![<<u, f>>] = rows],
           pictures' = pictures
    PROVE  Shift(f, 1, u, 1, 0)
<1>1. \A g \in Files : /\ Owners(g)' = IF g = f THEN Owners(g) \cup {u}
                                       ELSE Owners(g)
                       /\ Links(g)' = Links(g)
  BY DEF Owners, Links, Typed, TablesOK
<1>2. u \notin Owners(f) /\ f \notin FilesOf(u)
  BY DEF Owners, FilesOf
<1>3. \A v \in Users : /\ FilesOf(v)' = IF v = u THEN FilesOf(v) \cup {f}
                                        ELSE FilesOf(v)
                       /\ PicturesOf(v)' = PicturesOf(v)
  BY <1>1, <1>2 DEF FilesOf, PicturesOf
<1>4. /\ Cardinality(Owners(f)') = Cardinality(Owners(f)) + 1
      /\ Cardinality(FilesOf(u)') = Cardinality(FilesOf(u)) + 1
  <2>1. Owners(f)' = Owners(f) \cup {u}
        /\ FilesOf(u)' = FilesOf(u) \cup {f}
    BY <1>1, <1>3
  <2> QED BY <1>2, <2>1, Sizes, OneMore
<1>5. \A g \in Files : Refs(g)' = Refs(g) + IF g = f THEN 1 ELSE 0
  <2> TAKE g \in Files
  <2>1. /\ Cardinality(Owners(g)) \in Nat /\ Cardinality(Links(g)) \in Nat
        /\ Refs(g) = Cardinality(Owners(g)) + Cardinality(Links(g))
        /\ Refs(g)' = Cardinality(Owners(g)') + Cardinality(Links(g)')
    BY Sizes DEF Refs
  <2>2. CASE g = f
    BY <1>1, <1>4, <2>1, <2>2
  <2>3. CASE g # f
    BY <1>1, <2>1, <2>3
  <2> QED BY <2>2, <2>3
<1>6. \A v \in Users : /\ Held(v)' = Held(v) + IF v = u THEN 1 ELSE 0
                       /\ Shown(v)' = Shown(v) + IF v = u THEN 0 ELSE 0
  <2> TAKE v \in Users
  <2>1. /\ Held(v) \in Nat /\ Shown(v) \in Nat
        /\ Held(v) = Cardinality(FilesOf(v))
        /\ Held(v)' = Cardinality(FilesOf(v)')
        /\ Shown(v) = Cardinality(PicturesOf(v))
        /\ Shown(v)' = Cardinality(PicturesOf(v)')
    BY Sizes DEF Held, Shown
  <2>2. CASE v = u
    BY <1>3, <1>4, <2>1, <2>2
  <2>3. CASE v # u
    BY <1>3, <2>1, <2>3
  <2> QED BY <2>2, <2>3
<1> QED BY <1>5, <1>6 DEF Shift

LEMMA LosesRelation ==
    ASSUME Typed, IsFiniteSet(pictures), NEW f \in Files, NEW u \in Users,
           relation[<<u, f>>] # {},
           relation' = [relation EXCEPT ![<<u, f>>] = {}],
           pictures' = pictures
    PROVE  /\ Shift(f, -1, u, -1, 0)
           /\ Refs(f) > 0 /\ Held(u) > 0
<1>1. \A g \in Files : /\ Owners(g)' = IF g = f THEN Owners(g) \ {u}
                                       ELSE Owners(g)
                       /\ Links(g)' = Links(g)
  BY DEF Owners, Links, Typed, TablesOK
<1>2. u \in Owners(f) /\ f \in FilesOf(u)
  BY DEF Owners, FilesOf
<1>3. \A v \in Users : /\ FilesOf(v)' = IF v = u THEN FilesOf(v) \ {f}
                                        ELSE FilesOf(v)
                       /\ PicturesOf(v)' = PicturesOf(v)
  BY <1>1, <1>2 DEF FilesOf, PicturesOf
<1>4. /\ Cardinality(Owners(f)') = Cardinality(Owners(f)) - 1
      /\ Cardinality(FilesOf(u)') = Cardinality(FilesOf(u)) - 1
  <2>1. Owners(f)' = Owners(f) \ {u}
        /\ FilesOf(u)' = FilesOf(u) \ {f}
    BY <1>1, <1>3
  <2> QED BY <1>2, <2>1, Sizes, OneLess
<1>5. Cardinality(Owners(f)) > 0 /\ Cardinality(FilesOf(u)) > 0
  BY <1>2, Sizes, NotEmpty
<1>6. \A g \in Files : Refs(g)' = Refs(g) + IF g = f THEN -1 ELSE 0
  <2> TAKE g \in Files
  <2>1. /\ Cardinality(Owners(g)) \in Nat /\ Cardinality(Links(g)) \in Nat
        /\ Refs(g) = Cardinality(Owners(g)) + Cardinality(Links(g))
        /\ Refs(g)' = Cardinality(Owners(g)') + Cardinality(Links(g)')
    BY Sizes DEF Refs
  <2>2. CASE g = f
    BY <1>1, <1>4, <2>1, <2>2
  <2>3. CASE g # f
    BY <1>1, <2>1, <2>3
  <2> QED BY <2>2, <2>3
<1>7. \A v \in Users : /\ Held(v)' = Held(v) + IF v = u THEN -1 ELSE 0
                       /\ Shown(v)' = Shown(v) + IF v = u THEN 0 ELSE 0
  <2> TAKE v \in Users
  <2>1. /\ Held(v) \in Nat /\ Shown(v) \in Nat
        /\ Held(v) = Cardinality(FilesOf(v))
        /\ Held(v)' = Cardinality(FilesOf(v)')
        /\ Shown(v) = Cardinality(PicturesOf(v))
        /\ Shown(v)' = Cardinality(PicturesOf(v)')
    BY Sizes DEF Held, Shown
  <2>2. CASE v = u
    BY <1>3, <1>4, <2>1, <2>2
  <2>3. CASE v # u
    BY <1>3, <2>1, <2>3
  <2> QED BY <2>2, <2>3
<1> QED BY <1>5, <1>6, <1>7, Sizes DEF Shift, Refs, Held

LEMMA GainsPicture ==
    ASSUME Typed, IsFiniteSet(pictures), NEW p, p \notin pictures,
           NEW f \in Files, NEW u \in Users, p.file = f, p.user = u,
           pictures' = pictures \cup {p}, SameRelation
    PROVE  Shift(f, 1, u, 0, 1)
<1>1. \A g \in Files : /\ Owners(g)' = Owners(g)
                       /\ Links(g)' = IF g = f THEN Links(g) \cup {p}
                                      ELSE Links(g)
  BY DEF Owners, Links, SameRelation
<1>2. p \notin Links(f) /\ p \notin PicturesOf(u)
  BY DEF Links, PicturesOf
<1>3. \A v \in Users : /\ FilesOf(v)' = FilesOf(v)
                       /\ PicturesOf(v)' = IF v = u THEN PicturesOf(v) \cup {p}
                                           ELSE PicturesOf(v)
  BY <1>1 DEF FilesOf, PicturesOf
<1>4. /\ Cardinality(Links(f)') = Cardinality(Links(f)) + 1
      /\ Cardinality(PicturesOf(u)') = Cardinality(PicturesOf(u)) + 1
  <2>1. Links(f)' = Links(f) \cup {p}
        /\ PicturesOf(u)' = PicturesOf(u) \cup {p}
    BY <1>1, <1>3
  <2> QED BY <1>2, <2>1, Sizes, OneMore
<1>5. \A g \in Files : Refs(g)' = Refs(g) + IF g = f THEN 1 ELSE 0
  <2> TAKE g \in Files
  <2>1. /\ Cardinality(Owners(g)) \in Nat /\ Cardinality(Links(g)) \in Nat
        /\ Refs(g) = Cardinality(Owners(g)) + Cardinality(Links(g))
        /\ Refs(g)' = Cardinality(Owners(g)') + Cardinality(Links(g)')
    BY Sizes DEF Refs
  <2>2. CASE g = f
    BY <1>1, <1>4, <2>1, <2>2
  <2>3. CASE g # f
    BY <1>1, <2>1, <2>3
  <2> QED BY <2>2, <2>3
<1>6. \A v \in Users : /\ Held(v)' = Held(v) + IF v = u THEN 0 ELSE 0
                       /\ Shown(v)' = Shown(v) + IF v = u THEN 1 ELSE 0
  <2> TAKE v \in Users
  <2>1. /\ Held(v) \in Nat /\ Shown(v) \in Nat
        /\ Held(v) = Cardinality(FilesOf(v))
        /\ Held(v)' = Cardinality(FilesOf(v)')
        /\ Shown(v) = Cardinality(PicturesOf(v))
        /\ Shown(v)' = Cardinality(PicturesOf(v)')
    BY Sizes DEF Held, Shown
  <2>2. CASE v = u
    BY <1>3, <1>4, <2>1, <2>2
  <2>3. CASE v # u
    BY <1>3, <2>1, <2>3
  <2> QED BY <2>2, <2>3
<1> QED BY <1>5, <1>6 DEF Shift

LEMMA LosesPicture ==
    ASSUME Typed, IsFiniteSet(pictures), NEW p \in pictures,
           NEW f \in Files, NEW u \in Users, p.file = f, p.user = u,
           pictures' = pictures \ {p}, SameRelation
    PROVE  Shift(f, -1, u, 0, -1)
<1>1. \A g \in Files : /\ Owners(g)' = Owners(g)
                       /\ Links(g)' = IF g = f THEN Links(g) \ {p}
                                      ELSE Links(g)
  BY DEF Owners, Links, SameRelation
<1>2. p \in Links(f) /\ p \in PicturesOf(u)
  BY DEF Links, PicturesOf
<1>3. \A v \in Users : /\ FilesOf(v)' = FilesOf(v)
                       /\ PicturesOf(v)' = IF v = u THEN PicturesOf(v) \ {p}
                                           ELSE PicturesOf(v)
  BY <1>1 DEF FilesOf, PicturesOf
<1>4. /\ Cardinality(Links(f)') = Cardinality(Links(f)) - 1
      /\ Cardinality(PicturesOf(u)') = Cardinality(PicturesOf(u)) - 1
  <2>1. Links(f)' = Links(f) \ {p}
        /\ PicturesOf(u)' = PicturesOf(u) \ {p}
    BY <1>1, <1>3
  <2> QED BY <1>2, <2>1, Sizes, OneLess
<1>5. \A g \in Files : Refs(g)' = Refs(g) + IF g = f THEN -1 ELSE 0
  <2> TAKE g \in Files
  <2>1. /\ Cardinality(Owners(g)) \in Nat /\ Cardinality(Links(g)) \in Nat
        /\ Refs(g) = Cardinality(Owners(g)) + Cardinality(Links(g))
        /\ Refs(g)' = Cardinality(Owners(g)') + Cardinality(Links(g)')
    BY Sizes DEF Refs
  <2>2. CASE g = f
    BY <1>1, <1>4, <2>1, <2>2
  <2>3. CASE g # f
    BY <1>1, <2>1, <2>3
  <2> QED BY <2>2, <2>3
<1>6. \A v \in Users : /\ Held(v)' = Held(v) + IF v = u THEN 0 ELSE 0
                       /\ Shown(v)' = Shown(v) + IF v = u THEN -1 ELSE 0
  <2> TAKE v \in Users
  <2>1. /\ Held(v) \in Nat /\ Shown(v) \in Nat
        /\ Held(v) = Cardinality(FilesOf(v))
        /\ Held(v)' = Cardinality(FilesOf(v)')
        /\ Shown(v) = Cardinality(PicturesOf(v))
        /\ Shown(v)' = Cardinality(PicturesOf(v)')
    BY Sizes DEF Held, Shown
  <2>2. CASE v = u
    BY <1>3, <1>4, <2>1, <2>2
  <2>3. CASE v # u
    BY <1>3, <2>1, <2>3
  <2> QED BY <2>2, <2>3
<1> QED BY <1>5, <1>6 DEF Shift

\* A link that is there is a reference and a link of its user.
LEMMA Linked ==
    ASSUME Typed, IsFiniteSet(pictures), NEW p \in pictures
    PROVE  Refs(p.file) > 0 /\ Shown(p.user) > 0
<1>1. p \in Links(p.file) /\ p \in PicturesOf(p.user)
  BY DEF Links, PicturesOf
<1>2. Cardinality(Links(p.file)) > 0 /\ Cardinality(PicturesOf(p.user)) > 0
  BY <1>1, Sizes, NotEmpty
<1> QED BY <1>2, Sizes DEF Refs, Shown

LEMMA Owned ==
    ASSUME Typed, IsFiniteSet(pictures), NEW u \in Users, NEW f \in Files,
           relation[<<u, f>>] # {}
    PROVE  Refs(f) > 0 /\ Held(u) > 0
<1>1. u \in Owners(f) /\ f \in FilesOf(u)
  BY DEF Owners, FilesOf
<1>2. Cardinality(Owners(f)) > 0 /\ Cardinality(FilesOf(u)) > 0
  BY <1>1, Sizes, NotEmpty
<1> QED BY <1>2, Sizes DEF Refs, Held

\* What a step makes of the books: of those of a counter it leaves alone, and
\* of those of one it writes.
LEMMA InfoKept ==
    ASSUME Typed, IsFiniteSet(pictures), info' = info, NEW f, NEW u,
           NEW n \in Int, NEW k, NEW l, Shift(f, n, u, k, l),
           NEW d \in Int, NEW e \in Int, d = n + e, InfoBook(f, d)
    PROVE  InfoBook(f, e)'
<1> SUFFICES ASSUME NEW g \in Files
    PROVE  Number(Counts(info[g]), Refs(g)' + IF g = f THEN e ELSE 0)
  BY DEF InfoBook
<1>1. /\ Number(Counts(info[g]), Refs(g) + IF g = f THEN d ELSE 0)
      /\ Refs(g)' = Refs(g) + IF g = f THEN n ELSE 0
      /\ Refs(g) \in Nat
  BY Sizes DEF InfoBook, Shift
<1>2. Refs(g)' + (IF g = f THEN e ELSE 0) = Refs(g) + (IF g = f THEN d ELSE 0)
  BY <1>1
<1> QED BY <1>1, <1>2, Zenon

LEMMA InfoWritten ==
    ASSUME Typed, IsFiniteSet(pictures), NEW f \in Files, NEW rows,
           info' = [info EXCEPT ![f] = rows], NEW u,
           NEW n \in Int, NEW k, NEW l, Shift(f, n, u, k, l),
           NEW d \in Int, NEW e \in Int, InfoBook(f, d),
           NEW m, m = Refs(f) + n + e, Number(Counts(rows), m)
    PROVE  InfoBook(f, e)'
<1> SUFFICES ASSUME NEW g \in Files
    PROVE  Number(Counts(info'[g]), Refs(g)' + IF g = f THEN e ELSE 0)
  BY DEF InfoBook
<1>1. /\ Number(Counts(info[g]), Refs(g) + IF g = f THEN d ELSE 0)
      /\ Refs(g)' = Refs(g) + IF g = f THEN n ELSE 0
      /\ Refs(g) \in Nat
  BY Sizes DEF InfoBook, Shift
<1>2. info'[g] = IF g = f THEN rows ELSE info[g]
  BY DEF Typed, TablesOK
<1>3. CASE g = f
  <2>1. Refs(g)' + (IF g = f THEN e ELSE 0) = m
    BY <1>1, <1>3
  <2>2. info'[g] = rows
    BY <1>2, <1>3
  <2> QED BY <2>1, <2>2, Zenon
<1>4. CASE g # f
  <2>1. /\ Refs(g)' + (IF g = f THEN e ELSE 0)
           = Refs(g) + (IF g = f THEN d ELSE 0)
        /\ info'[g] = info[g]
    BY <1>1, <1>2, <1>4
  <2> QED BY <1>1, <2>1, Zenon
<1> QED BY <1>3, <1>4

LEMMA OwnedKept ==
    ASSUME Typed, IsFiniteSet(pictures), owned' = owned, NEW f, NEW u,
           NEW n, NEW k \in Int, NEW l, Shift(f, n, u, k, l),
           NEW d \in Int, NEW e \in Int, d = k + e, OwnedBook(u, d)
    PROVE  OwnedBook(u, e)'
<1> SUFFICES ASSUME NEW v \in Users
    PROVE  Number(owned[v], Held(v)' + IF v = u THEN e ELSE 0)
  BY DEF OwnedBook
<1>1. /\ Number(owned[v], Held(v) + IF v = u THEN d ELSE 0)
      /\ Held(v)' = Held(v) + IF v = u THEN k ELSE 0
      /\ Held(v) \in Nat
  BY Sizes DEF OwnedBook, Shift
<1>2. Held(v)' + (IF v = u THEN e ELSE 0) = Held(v) + (IF v = u THEN d ELSE 0)
  BY <1>1
<1> QED BY <1>1, <1>2, Zenon

LEMMA OwnedWritten ==
    ASSUME Typed, IsFiniteSet(pictures), NEW u \in Users, NEW rows,
           owned' = [owned EXCEPT ![u] = rows], NEW f,
           NEW n, NEW k \in Int, NEW l, Shift(f, n, u, k, l),
           NEW d \in Int, NEW e \in Int, OwnedBook(u, d),
           NEW m, m = Held(u) + k + e, Number(rows, m)
    PROVE  OwnedBook(u, e)'
<1> SUFFICES ASSUME NEW v \in Users
    PROVE  Number(owned'[v], Held(v)' + IF v = u THEN e ELSE 0)
  BY DEF OwnedBook
<1>1. /\ Number(owned[v], Held(v) + IF v = u THEN d ELSE 0)
      /\ Held(v)' = Held(v) + IF v = u THEN k ELSE 0
      /\ Held(v) \in Nat
  BY Sizes DEF OwnedBook, Shift
<1>2. owned'[v] = IF v = u THEN rows ELSE owned[v]
  BY DEF Typed, TablesOK
<1>3. CASE v = u
  <2>1. Held(v)' + (IF v = u THEN e ELSE 0) = m
    BY <1>1, <1>3
  <2>2. owned'[v] = rows
    BY <1>2, <1>3
  <2> QED BY <2>1, <2>2, Zenon
<1>4. CASE v # u
  <2>1. /\ Held(v)' + (IF v = u THEN e ELSE 0)
           = Held(v) + (IF v = u THEN d ELSE 0)
        /\ owned'[v] = owned[v]
    BY <1>1, <1>2, <1>4
  <2> QED BY <1>1, <2>1, Zenon
<1> QED BY <1>3, <1>4

LEMMA PictureKept ==
    ASSUME Typed, IsFiniteSet(pictures), pictureCount' = pictureCount,
           NEW f, NEW u, NEW n, NEW k, NEW l \in Int, Shift(f, n, u, k, l),
           NEW d \in Int, NEW e \in Int, d = l + e, PictureBook(u, d)
    PROVE  PictureBook(u, e)'
<1> SUFFICES ASSUME NEW v \in Users
    PROVE  Number(pictureCount[v], Shown(v)' + IF v = u THEN e ELSE 0)
  BY DEF PictureBook
<1>1. /\ Number(pictureCount[v], Shown(v) + IF v = u THEN d ELSE 0)
      /\ Shown(v)' = Shown(v) + IF v = u THEN l ELSE 0
      /\ Shown(v) \in Nat
  BY Sizes DEF PictureBook, Shift
<1>2. Shown(v)' + (IF v = u THEN e ELSE 0) = Shown(v) + (IF v = u THEN d ELSE 0)
  BY <1>1
<1> QED BY <1>1, <1>2, Zenon

LEMMA PictureWritten ==
    ASSUME Typed, IsFiniteSet(pictures), NEW u \in Users, NEW rows,
           pictureCount' = [pictureCount EXCEPT ![u] = rows], NEW f,
           NEW n, NEW k, NEW l \in Int, Shift(f, n, u, k, l),
           NEW d \in Int, NEW e \in Int, PictureBook(u, d),
           NEW m, m = Shown(u) + l + e, Number(rows, m)
    PROVE  PictureBook(u, e)'
<1> SUFFICES ASSUME NEW v \in Users
    PROVE  Number(pictureCount'[v], Shown(v)' + IF v = u THEN e ELSE 0)
  BY DEF PictureBook
<1>1. /\ Number(pictureCount[v], Shown(v) + IF v = u THEN d ELSE 0)
      /\ Shown(v)' = Shown(v) + IF v = u THEN l ELSE 0
      /\ Shown(v) \in Nat
  BY Sizes DEF PictureBook, Shift
<1>2. pictureCount'[v] = IF v = u THEN rows ELSE pictureCount[v]
  BY DEF Typed, TablesOK
<1>3. CASE v = u
  <2>1. Shown(v)' + (IF v = u THEN e ELSE 0) = m
    BY <1>1, <1>3
  <2>2. pictureCount'[v] = rows
    BY <1>2, <1>3
  <2> QED BY <2>1, <2>2, Zenon
<1>4. CASE v # u
  <2>1. /\ Shown(v)' + (IF v = u THEN e ELSE 0)
           = Shown(v) + (IF v = u THEN d ELSE 0)
        /\ pictureCount'[v] = pictureCount[v]
    BY <1>1, <1>2, <1>4
  <2> QED BY <1>1, <2>1, Zenon
<1> QED BY <1>3, <1>4

\* Books that owe nothing are those of any file and user.
LEMMA ZeroBooksNext ==
    ASSUME NEW f, NEW u
    PROVE  /\ InfoBook(f, 0)' => \A g : InfoBook(g, 0)'
           /\ OwnedBook(u, 0)' => \A v : OwnedBook(v, 0)'
           /\ PictureBook(u, 0)' => \A v : PictureBook(v, 0)'
<1>1. \A g, h : (IF g = h THEN 0 ELSE 0) = 0
  OBVIOUS
<1> QED BY <1>1 DEF InfoBook, OwnedBook, PictureBook

----------------------------------------------------------------------------
(* The one request that is served.                                         *)

Asks(c, s, f, u, n, i, rows) ==
    /\ req[c] # Idle
    /\ req[c].step = s /\ req[c].file = f /\ req[c].user = u
    /\ req[c].no = n /\ req[c].part = i /\ req[c].read = rows

\* It is at step s, and nothing fails at this step.
Turn(c, s, f, u, n, i, rows) ==
    /\ IInv /\ CountsOK /\ Orderly /\ faults' = faults
    /\ c \in Programs /\ Asks(c, s, f, u, n, i, rows)

LEMMA BooksNow ==
    ASSUME NEW c, NEW s, NEW f, NEW u, NEW n, NEW i, NEW rows,
           Turn(c, s, f, u, n, i, rows)
    PROVE  /\ Books(s, f, u, n, i, rows) /\ LinksOK /\ IsFiniteSet(pictures)
           /\ f \in Files /\ u \in Users /\ WellRead(s, rows)
           /\ Typed /\ RequestsOK /\ TablesOK /\ ~Fault
           /\ Key(c) = <<u, f>>
<1>1. c \in Busy
  BY DEF Turn, Asks, Busy
<1>2. Books(s, f, u, n, i, rows) /\ LinksOK
  BY <1>1 DEF Turn, Asks, CountsOK
<1>3. Typed /\ RequestsOK /\ TablesOK /\ ~Fault
  BY DEF Turn, IInv, Typed, Fault
<1>4. f \in Files /\ u \in Users /\ WellRead(s, rows)
  BY <1>3, Serves DEF Turn, Asks, Handled
<1> QED BY <1>2, <1>3, <1>4 DEF LinksOK, Key, Turn, Asks

LEMMA AsksNext ==
    ASSUME NEW c, NEW s, NEW f, NEW u, NEW n, NEW i, NEW rows,
           Turn(c, s, f, u, n, i, rows), NEW t, t # "idle"
    PROVE  /\ \A x : Reads(c, t, x)
                     => OthersWait(c) /\ Asks(c, t, f, u, n, i, x)'
           /\ GoTo(c, t) => OthersWait(c) /\ Asks(c, t, f, u, n, i, {})'
           /\ req' = [req EXCEPT ![c].step = t]
              => OthersWait(c) /\ Asks(c, t, f, u, n, i, rows)'
           /\ \A g, x : Finds(c, t, g, x) => Asks(c, t, g, u, n, i, x)'
<1>1. RequestsOK /\ c \in Programs /\ req[c] # Idle
      /\ Asks(c, s, f, u, n, i, rows)
  BY BooksNow DEF Turn, Asks
<1>2. \A x, a : Goes(c, t, x, a) => OthersWait(c) /\ Asks(c, t, f, u, n, i, x)'
  BY <1>1, IdleStep DEF Goes, Asks
<1>3. \A g, x : Finds(c, t, g, x) => Asks(c, t, g, u, n, i, x)'
  BY <1>1, IdleStep DEF Finds, Asks
<1> QED BY <1>1, <1>2, <1>3, Steps DEF Asks

LEMMA EndsNext ==
    ASSUME NEW c, NEW s, NEW f, NEW u, NEW n, NEW i, NEW rows,
           Turn(c, s, f, u, n, i, rows), Ends(c)
    PROVE  OthersWait(c) /\ req'[c] = Idle
  BY BooksNow, EndsHere DEF Turn, Follows

LEMMA LinksKept ==
    ASSUME LinksOK, pictures' = pictures, arriving' \subseteq arriving
    PROVE  LinksOK'
  BY DEF LinksOK

LEMMA BooksGo ==
    ASSUME NEW c, NEW s, NEW f, NEW u, NEW n, NEW i, NEW rows,
           Turn(c, s, f, u, n, i, rows), LinksOK',
           OthersWait(c), NEW t, NEW g, NEW x, Asks(c, t, g, u, n, i, x)',
           Books(t, g, u, n, i, x)'
    PROVE  CountsOK'
<1>1. \A d \in Busy : d = c
  BY DEF Turn, Asks, Busy, CountsOK
<1>2. \A d \in Busy' : d = c
  BY <1>1 DEF OthersWait, Busy
<1>3. c \in Busy'
  BY DEF Turn, Asks, Busy
<1>4. Books(req[c].step, req[c].file, req[c].user, req[c].no, req[c].part,
            req[c].read)'
  BY DEF Asks, Books, Knows, InfoBook, OwnedBook, PictureBook, InfoDue,
         OwnedDue, PictureDue
<1> QED BY <1>2, <1>3, <1>4 DEF CountsOK

LEMMA BooksEnd ==
    ASSUME NEW c, NEW s, NEW f, NEW u, NEW n, NEW i, NEW rows,
           Turn(c, s, f, u, n, i, rows), LinksOK',
           OthersWait(c), req'[c] = Idle,
           InfoBook(f, 0)', OwnedBook(u, 0)', PictureBook(u, 0)'
    PROVE  CountsOK'
<1>1. \A d \in Busy : d = c
  BY DEF Turn, Asks, Busy, CountsOK
<1>2. Busy' = {}
  BY <1>1 DEF OthersWait, Busy
<1>3. Balanced'
  BY ZeroBooksNext DEF Balanced
<1> QED BY <1>2, <1>3 DEF CountsOK

\* The steps that owe nothing.
LEMMA NoDebts ==
    ASSUME NEW s, s \notin Debts
    PROVE  /\ InfoDue(s) = 0 /\ OwnedDue(s) = 0 /\ PictureDue(s) = 0
           /\ \A f, u, n, i, rows : Knows(s, f, u, n, i, rows)
  BY DEF Debts, InfoDue, OwnedDue, PictureDue, Knows

LEMMA NoDebtsNext ==
    ASSUME NEW s, s \notin Debts, NEW f, NEW u, NEW n, NEW i, NEW rows,
           InfoBook(f, 0)', OwnedBook(u, 0)', PictureBook(u, 0)', NEW g
    PROVE  Books(s, g, u, n, i, rows)'
<1>1. InfoBook(g, 0)'
  BY ZeroBooksNext
<1>2. InfoDue(s) = 0 /\ OwnedDue(s) = 0 /\ PictureDue(s) = 0
      /\ Knows(s, g, u, n, i, rows)'
  BY DEF Debts, InfoDue, OwnedDue, PictureDue, Knows
<1> QED BY <1>1, <1>2 DEF Books

----------------------------------------------------------------------------
(* Steps that leave the counters, owners and links alone.                  *)

SameBooks ==
    SameRelation /\ UNCHANGED <<info, owned, pictures, pictureCount, arriving>>

\* The request goes on to a step that owes nothing, or ends.
Free(c) == OthersWait(c) /\ (req'[c] = Idle \/ req'[c].step \notin Debts)

LEMMA FreeNext ==
    ASSUME NEW c, NEW s, NEW f, NEW u, NEW n, NEW i, NEW rows,
           Turn(c, s, f, u, n, i, rows), LinksOK', Free(c),
           InfoBook(f, 0)', OwnedBook(u, 0)', PictureBook(u, 0)'
    PROVE  CountsOK'
<1>1. CASE req'[c] = Idle
  BY <1>1, BooksEnd DEF Free
<1>2. CASE req'[c] # Idle
  <2>1. PICK t, g, v, m, j, x :
            /\ t = req'[c].step /\ g = req'[c].file /\ v = req'[c].user
            /\ m = req'[c].no /\ j = req'[c].part /\ x = req'[c].read
    OBVIOUS
  <2>2. \A d \in Busy' : d = c
    BY DEF Turn, Asks, Busy, CountsOK, Free, OthersWait
  <2>3. c \in Busy'
    BY <1>2 DEF Busy, Turn
  <2>4. t \notin Debts
    BY <1>2, <2>1 DEF Free
  <2>5. InfoBook(g, 0)' /\ OwnedBook(v, 0)' /\ PictureBook(v, 0)'
    BY ZeroBooksNext
  <2>6. Books(t, g, v, m, j, x)'
    BY <2>4, <2>5, NoDebtsNext
  <2>7. Books(req[c].step, req[c].file, req[c].user, req[c].no, req[c].part,
              req[c].read)'
    BY <2>1, <2>6
    DEF Books, Knows, InfoBook, OwnedBook, PictureBook, InfoDue, OwnedDue,
        PictureDue
  <2> QED BY <2>2, <2>3, <2>7 DEF CountsOK
<1> QED BY <1>1, <1>2

LEMMA FreeSteps ==
    ASSUME RequestsOK, NEW c \in Programs, req[c] # Idle
    PROVE  /\ Ends(c) => Free(c)
           /\ \A s : GoTo(c, s) /\ s \notin Debts => Free(c)
           /\ \A s : req' = [req EXCEPT ![c].step = s] /\ s \notin Debts
                     => Free(c)
           /\ \A s, rows : Reads(c, s, rows) /\ s \notin Debts => Free(c)
           /\ Joins(c) \/ Fails(c) => Free(c)
<1>1. Ends(c) => Free(c)
  BY EndsHere DEF Free, Follows
<1>2. ASSUME NEW s, s \notin Debts, NEW rows, NEW a, Goes(c, s, rows, a)
      PROVE  Free(c)
  BY <1>2 DEF Free, Goes
<1>3. \A s : GoTo(c, s) /\ s \notin Debts => Free(c)
  BY <1>2, Steps
<1>4. \A s : req' = [req EXCEPT ![c].step = s] /\ s \notin Debts => Free(c)
  BY <1>2, Steps
<1>5. \A s, rows : Reads(c, s, rows) /\ s \notin Debts => Free(c)
  BY <1>2, Steps
<1>6. "MergeRelease" \notin Debts
      /\ \A a \in Joints \ {""} : a \notin Debts
  BY DEF Joints, Debts
<1>7. req[c].after \in Joints
  BY Serves DEF Handled
<1>8. Joins(c) \/ Fails(c) => Free(c)
  <2>1. CASE GoTo(c, "MergeRelease")
    BY <1>3, <1>6, <2>1
  <2>2. CASE req[c].after # "" /\ GoTo(c, req[c].after)
    BY <1>3, <1>6, <1>7, <2>2
  <2> QED BY <1>1, <2>1, <2>2 DEF Joins, Fails
<1> QED BY <1>1, <1>3, <1>4, <1>5, <1>8

\* A step that leaves the books alone.
LEMMA BooksStay ==
    ASSUME NEW c, NEW s, NEW f, NEW u, NEW n, NEW i, NEW rows,
           Turn(c, s, f, u, n, i, rows), SameBooks
    PROVE  /\ LinksOK' /\ Shift(f, 0, u, 0, 0)
           /\ \A g \in Files : Refs(g)' = Refs(g)
           /\ InfoBook(f, InfoDue(s))' /\ OwnedBook(u, OwnedDue(s))'
           /\ PictureBook(u, PictureDue(s))'
<1>1. /\ Books(s, f, u, n, i, rows) /\ LinksOK /\ IsFiniteSet(pictures)
      /\ Typed /\ f \in Files /\ u \in Users
  BY BooksNow
<1>2. Shift(f, 0, u, 0, 0) /\ \A g \in Files : Refs(g)' = Refs(g)
  BY <1>1, NoShift DEF SameBooks
<1>3. /\ info' = info /\ owned' = owned /\ pictureCount' = pictureCount
  BY DEF SameBooks
<1>4. PICK d, o, p : d = InfoDue(s) /\ o = OwnedDue(s) /\ p = PictureDue(s)
  OBVIOUS
<1>5. d \in Int /\ o \in Int /\ p \in Int /\ d = 0 + d /\ o = 0 + o /\ p = 0 + p
  BY <1>4 DEF InfoDue, OwnedDue, PictureDue
<1>6. InfoBook(f, d) /\ OwnedBook(u, o) /\ PictureBook(u, p)
  BY <1>1, <1>4 DEF Books
<1>7. InfoBook(f, d)' /\ OwnedBook(u, o)' /\ PictureBook(u, p)'
  BY <1>1, <1>2, <1>3, <1>5, <1>6, InfoKept, OwnedKept, PictureKept
<1>8. LinksOK'
  BY <1>1, LinksKept DEF SameBooks
<1> QED BY <1>2, <1>4, <1>7, <1>8 DEF InfoBook, OwnedBook, PictureBook

Light(s) == InfoDue(s) = 0 /\ OwnedDue(s) = 0 /\ PictureDue(s) = 0

LEMMA StaysFree ==
    ASSUME NEW c, NEW s, NEW f, NEW u, NEW n, NEW i, NEW rows,
           Turn(c, s, f, u, n, i, rows), SameBooks, Light(s), Free(c)
    PROVE  CountsOK'
<1>1. LinksOK' /\ InfoBook(f, InfoDue(s))' /\ OwnedBook(u, OwnedDue(s))'
      /\ PictureBook(u, PictureDue(s))'
  BY BooksStay
<1>2. InfoBook(f, 0)' /\ OwnedBook(u, 0)' /\ PictureBook(u, 0)'
  BY <1>1 DEF Light
<1> QED BY <1>1, <1>2, FreeNext

LEMMA StaysGo ==
    ASSUME NEW c, NEW s, NEW f, NEW u, NEW n, NEW i, NEW rows,
           Turn(c, s, f, u, n, i, rows), SameBooks, OthersWait(c),
           NEW t, NEW x, Asks(c, t, f, u, n, i, x)',
           InfoDue(t) = InfoDue(s), OwnedDue(t) = OwnedDue(s),
           PictureDue(t) = PictureDue(s), Knows(t, f, u, n, i, x)'
    PROVE  CountsOK'
<1>1. LinksOK' /\ InfoBook(f, InfoDue(s))' /\ OwnedBook(u, OwnedDue(s))'
      /\ PictureBook(u, PictureDue(s))'
  BY BooksStay
<1>2. Books(t, f, u, n, i, x)'
  BY <1>1 DEF Books, InfoDue, OwnedDue, PictureDue
<1> QED BY <1>1, <1>2, BooksGo

\* A step that owes nothing and leaves the books alone.
Calm(c) ==
    req[c] # Idle /\ req[c].step \notin Debts /\ SameBooks /\ Free(c)

LEMMA CalmStep ==
    ASSUME IInv, CountsOK, Orderly, faults' = faults, NEW c \in Programs, Calm(c)
    PROVE  CountsOK'
<1> PICK s, f, u, n, i, rows : Turn(c, s, f, u, n, i, rows)
  BY DEF Calm, Turn, Asks
<1>1. Light(s)
  BY NoDebts DEF Turn, Asks, Calm, Light
<1> QED BY <1>1, StaysFree DEF Calm

\* The tables that a step leaves alone.
LEMMA OnlySame ==
    /\ OnlyReq => SameBooks
    /\ OnlyShares => SameBooks
    /\ OnlyPublic => SameBooks
    /\ SameRelation /\ UNCHANGED <<info, owned>> /\ OnlyFiles => SameBooks
  BY DEF OnlyReq, OnlyShares, OnlyPublic, OnlyFiles, fileTables, pictureTables,
         SameBooks, SameRelation

LEMMA CalmEnds ==
    ASSUME RequestsOK, NEW c \in Programs, req[c] # Idle,
           req[c].step \notin Debts, SameBooks, Ends(c)
    PROVE  Calm(c)
  BY FreeSteps DEF Calm

LEMMA CalmJoins ==
    ASSUME RequestsOK, NEW c \in Programs, req[c] # Idle,
           req[c].step \notin Debts, SameBooks, Joins(c) \/ Fails(c)
    PROVE  Calm(c)
  BY FreeSteps DEF Calm

LEMMA CalmGo ==
    ASSUME RequestsOK, NEW c \in Programs, req[c] # Idle,
           req[c].step \notin Debts, SameBooks, NEW s, s \notin Debts,
           GoTo(c, s)
    PROVE  Calm(c)
  BY FreeSteps DEF Calm

LEMMA CalmReads ==
    ASSUME RequestsOK, NEW c \in Programs, req[c] # Idle,
           req[c].step \notin Debts, SameBooks, NEW s, s \notin Debts,
           NEW rows, Reads(c, s, rows)
    PROVE  Calm(c)
  BY FreeSteps DEF Calm

LEMMA CalmKeeps ==
    ASSUME RequestsOK, NEW c \in Programs, req[c] # Idle,
           req[c].step \notin Debts, SameBooks, NEW s, s \notin Debts,
           req' = [req EXCEPT ![c].step = s]
    PROVE  Calm(c)
  BY FreeSteps DEF Calm

\* A relation row that is marked stays a row.
LEMMA RelationMarked ==
    ASSUME Typed, NEW k \in Users \X Files, NEW rows,
           rows = {} <=> relation[k] = {},
           relation' = [relation EXCEPT ![k] = rows],
           UNCHANGED <<info, owned>>, OnlyFiles
    PROVE  SameBooks
<1>1. SameRelation
  BY DEF SameRelation, Typed, TablesOK
<1> QED BY <1>1, OnlySame

LEMMA RanksSame ==
    ASSUME NEW f, NEW score, Rank(f, score) PROVE SameBooks
  BY OnlySame DEF Rank

LEMMA NamesSame ==
    ASSUME NEW N, Name(N) PROVE SameBooks
  BY OnlySame DEF Name

LEMMA ShareCalm ==
    ASSUME Typed, NEW c \in Programs, Share(c), faults' = faults
    PROVE  Calm(c)
<1> USE DEF At
<1>0. RequestsOK /\ ~Fault
  BY DEF Typed, Fault
<1>1. CASE ShareExists(c)
  BY <1>0, <1>1, CalmEnds, CalmGo, OnlySame DEF ShareExists, Debts
<1>2. CASE ShareFind(c)
  BY <1>0, <1>2, CalmEnds, CalmGo, OnlySame, RanksSame DEF ShareFind, Debts
<1>3. CASE ShareMark(c)
  <2>1. SameBooks
    <3>1. CASE UNCHANGED relation
      BY <1>3, <3>1, OnlySame DEF ShareMark, SameRelation
    <3>2. CASE relation' = [relation EXCEPT ![Key(c)] =
                                {[r EXCEPT !.shared = TRUE] : r \in @}]
      <4>1. Key(c) \in Users \X Files
        BY <1>0, <1>3, Serves DEF ShareMark
      <4> DEFINE rows == {[r EXCEPT !.shared = TRUE] : r \in relation[Key(c)]}
      <4>2. /\ rows = {} <=> relation[Key(c)] = {}
            /\ relation' = [relation EXCEPT ![Key(c)] = rows]
            /\ UNCHANGED <<info, owned>> /\ OnlyFiles
        BY <1>3, <3>2 DEF ShareMark
      <4> HIDE DEF rows
      <4> QED BY <4>1, <4>2, RelationMarked
    <3> QED BY <1>3, <3>1, <3>2 DEF ShareMark
  <2> QED BY <1>0, <1>3, <2>1, CalmEnds, CalmGo DEF ShareMark, Debts
<1>4. CASE ShareInsert(c)
  BY <1>0, <1>4, CalmGo, OnlySame DEF ShareInsert, Debts
<1>5. CASE ShareReadTotal(c)
  BY <1>0, <1>5, CalmReads, OnlySame DEF ShareReadTotal, Debts
<1>6. CASE ShareWriteTotal(c)
  BY <1>0, <1>6, CalmEnds, CalmGo, OnlySame DEF ShareWriteTotal, Debts
<1>7. CASE ShareRank(c)
  BY <1>0, <1>7, CalmGo, RanksSame DEF ShareRank, Debts
<1>8. CASE ShareName(c)
  BY <1>0, <1>8, CalmEnds, NamesSame DEF ShareName, Debts
<1>9. CASE \E s, t : Misread(c, s, t)
  BY <1>0, <1>9 DEF Misread
<1> QED BY <1>1, <1>2, <1>3, <1>4, <1>5, <1>6, <1>7, <1>8, <1>9 DEF Share

LEMMA ViewCalm ==
    ASSUME Typed, NEW c \in Programs, View(c), faults' = faults
    PROVE  Calm(c)
<1> USE DEF At
<1>0. RequestsOK
  BY DEF Typed
<1>1. CASE ViewRead(c)
  BY <1>0, <1>1, CalmEnds, CalmReads, OnlySame DEF ViewRead, Debts
<1>2. CASE ViewOwn(c)
  <2>1. Key(c) \in Users \X Files
    BY <1>0, <1>2, Serves DEF ViewOwn
  <2> DEFINE rows == {[r EXCEPT !.views = Seen(c).views + 1]
                        : r \in relation[Key(c)]}
  <2>2. /\ rows = {} <=> relation[Key(c)] = {}
        /\ relation' = [relation EXCEPT ![Key(c)] = rows]
        /\ UNCHANGED <<info, owned>> /\ OnlyFiles
    BY <1>2 DEF ViewOwn
  <2> HIDE DEF rows
  <2>3. SameBooks
    BY <2>1, <2>2, RelationMarked
  <2> QED BY <1>0, <1>2, <2>3, CalmEnds, CalmKeeps DEF ViewOwn, Debts
<1>3. CASE ViewShare(c)
  BY <1>0, <1>3, CalmGo, OnlySame DEF ViewShare, Debts
<1>4. CASE ViewRank(c)
  BY <1>0, <1>4, CalmEnds, RanksSame DEF ViewRank, Debts
<1> QED BY <1>1, <1>2, <1>3, <1>4 DEF View

LEMMA VisitCalm ==
    ASSUME Typed, NEW c \in Programs, Visit(c), faults' = faults
    PROVE  Calm(c)
<1> USE DEF At
<1>0. RequestsOK
  BY DEF Typed
<1>1. CASE VisitRead(c)
  BY <1>0, <1>1, CalmEnds, CalmReads, OnlySame DEF VisitRead, Debts
<1>2. CASE VisitWrite(c)
  BY <1>0, <1>2, CalmKeeps, OnlySame DEF VisitWrite, Debts
<1>3. CASE VisitExists(c)
  <2>1. CASE Ends(c)
    BY <1>0, <1>3, <2>1, CalmEnds, OnlySame DEF VisitExists, Debts
  <2>2. CASE ~Ends(c)
    <3> PICK s : s \in {"VisitBump", "VisitRank"}
                 /\ req' = [req EXCEPT ![c].step = s]
      BY <1>3, <2>2 DEF VisitExists
    <3> QED BY <1>0, <1>3, CalmKeeps, OnlySame DEF VisitExists, Debts
  <2> QED BY <2>1, <2>2
<1>4. CASE VisitBump(c)
  BY <1>0, <1>4, CalmEnds, RanksSame DEF VisitBump, Debts
<1>5. CASE VisitRank(c)
  BY <1>0, <1>5, CalmGo, RanksSame DEF VisitRank, Debts
<1>6. CASE ShareName(c)
  BY <1>0, <1>6, CalmEnds, NamesSame DEF ShareName, Debts
<1> QED BY <1>1, <1>2, <1>3, <1>4, <1>5, <1>6 DEF Visit

LEMMA CancelCalm ==
    ASSUME Typed, NEW c \in Programs, Cancel(c), faults' = faults
    PROVE  Calm(c)
<1> USE DEF At
<1>0. RequestsOK
  BY DEF Typed
<1>1. CASE CancelMark(c)
  <2>1. Key(c) \in Users \X Files
    BY <1>0, <1>1, Serves DEF CancelMark
  <2> DEFINE rows == {[r EXCEPT !.shared = FALSE] : r \in relation[Key(c)]}
  <2>2. /\ rows = {} <=> relation[Key(c)] = {}
        /\ relation' = [relation EXCEPT ![Key(c)] = rows]
        /\ UNCHANGED <<info, owned>> /\ OnlyFiles
    BY <1>1 DEF CancelMark
  <2> HIDE DEF rows
  <2>3. SameBooks
    BY <2>1, <2>2, RelationMarked
  <2> QED BY <1>0, <1>1, <2>3, CalmGo DEF CancelMark, Debts
<1>2. CASE CancelReadTotal(c)
  BY <1>0, <1>2, CalmEnds, CalmReads, OnlySame DEF CancelReadTotal, Debts
<1>3. CASE CancelWriteTotal(c)
  BY <1>0, <1>3, CalmGo, OnlySame DEF CancelWriteTotal, Debts
<1>4. CASE CancelShare(c)
  BY <1>0, <1>4, CalmGo, OnlySame DEF CancelShare, Debts
<1>5. CASE CancelUnrank(c)
  BY <1>0, <1>5, CalmEnds, CalmGo, OnlySame DEF CancelUnrank, Debts
<1>6. CASE CancelName(c)
  BY <1>0, <1>6, CalmEnds, OnlySame DEF CancelName, Debts
<1> QED BY <1>1, <1>2, <1>3, <1>4, <1>5, <1>6 DEF Cancel

LEMMA RankCalm ==
    ASSUME Typed, NEW c \in Programs, RankList(c), faults' = faults
    PROVE  Calm(c)
<1> USE DEF At
<1>0. RequestsOK
  BY DEF Typed
<1>1. CASE RankTotal(c)
  BY <1>0, <1>1, CalmEnds, CalmGo, OnlySame DEF RankTotal, Debts
<1>2. CASE RankSql(c)
  BY <1>0, <1>2, CalmReads, OnlySame DEF RankSql, Debts
<1>3. CASE RankCard(c)
  BY <1>0, <1>3, CalmEnds, CalmGo, OnlySame DEF RankCard, Debts
<1>4. CASE RankClear(c)
  BY <1>0, <1>4, CalmGo, OnlySame DEF RankClear, Debts
<1>5. CASE RankClearNames(c)
  BY <1>0, <1>5, CalmGo, NamesSame DEF RankClearNames, Debts
<1>6. CASE RankRead(c)
  BY <1>0, <1>6, CalmEnds, CalmReads, OnlySame DEF RankRead, Debts
<1>7. CASE RankAdd(c)
  <2> PICK r : /\ req' = [req EXCEPT ![c].step = "RankName",
                          ![c].file = r.file, ![c].read = @ \ {r}]
               /\ Rank(r.file, {r.views})
    BY <1>7 DEF RankAdd
  <2>1. Finds(c, "RankName", r.file, req[c].read \ {r})
    BY <1>0, <1>7, FindSteps DEF RankAdd
  <2>2. OthersWait(c) /\ req'[c].step = "RankName"
    BY <2>1 DEF Finds
  <2> QED BY <1>7, <2>2, RanksSame DEF RankAdd, Calm, Free, Debts
<1>8. CASE RankName(c)
  BY <1>0, <1>8, CalmEnds, CalmKeeps, NamesSame DEF RankName, Debts
<1> QED BY <1>1, <1>2, <1>3, <1>4, <1>5, <1>6, <1>7, <1>8 DEF RankList

LEMMA DelCalm ==
    ASSUME Typed, NEW c \in Programs, faults' = faults,
           \/ DelExists(c) \/ DelStatus(c) \/ DelShare(c) \/ DelReadTotal(c)
           \/ DelWriteTotal(c) \/ DelUnrank(c) \/ DelUnname(c)
           \/ RemoveBlob(c, "DelBlob", Ends(c))
    PROVE  Calm(c)
<1> USE DEF At
<1>0. RequestsOK
  BY DEF Typed
<1>1. CASE DelExists(c)
  <2>1. CASE Ends(c)
    BY <1>0, <1>1, <2>1, CalmEnds, OnlySame DEF DelExists, Debts
  <2>2. ASSUME NEW s, NEW a, s \in {"DelShare", "DelStatus"},
               req' = [req EXCEPT ![c].step = s, ![c].after = a]
        PROVE  Calm(c)
    <3>1. Goes(c, s, req[c].read, a)
      BY <1>0, <1>1, <2>2, Steps DEF DelExists
    <3>2. OthersWait(c) /\ req'[c].step = s
      BY <3>1 DEF Goes
    <3> QED BY <1>1, <2>2, <3>2, OnlySame DEF DelExists, Calm, Free, Debts
  <2> QED BY <1>1, <2>1, <2>2 DEF DelExists
<1>2. CASE DelStatus(c)
  BY <1>0, <1>2, CalmGo, OnlySame DEF DelStatus, Debts
<1>3. CASE DelShare(c)
  BY <1>0, <1>3, CalmGo, OnlySame DEF DelShare, Debts
<1>4. CASE DelReadTotal(c)
  BY <1>0, <1>4, CalmEnds, CalmReads, OnlySame DEF DelReadTotal, Debts
<1>5. CASE DelWriteTotal(c)
  BY <1>0, <1>5, CalmJoins, OnlySame DEF DelWriteTotal, Debts
<1>6. CASE DelUnrank(c)
  BY <1>0, <1>6, CalmGo, RanksSame DEF DelUnrank, Debts
<1>7. CASE DelUnname(c)
  BY <1>0, <1>7, CalmGo, NamesSame DEF DelUnname, Debts
<1>8. CASE RemoveBlob(c, "DelBlob", Ends(c))
  BY <1>0, <1>8, CalmEnds
  DEF RemoveBlob, Debts, SameBooks, SameRelation, fileTables, pictureTables
<1> QED BY <1>1, <1>2, <1>3, <1>4, <1>5, <1>6, <1>7, <1>8

LEMMA PicturesCalm ==
    ASSUME Typed, NEW c \in Programs, faults' = faults,
           DropBlob(c) \/ BrowseRead(c) \/ BrowseFile(c)
    PROVE  Calm(c)
<1> USE DEF At
<1>0. RequestsOK
  BY DEF Typed
<1>1. CASE DropBlob(c)
  BY <1>0, <1>1, CalmEnds
  DEF DropBlob, Debts, SameBooks, SameRelation, fileTables, pictureTables
<1>2. CASE BrowseRead(c)
  <2>1. CASE Ends(c)
    BY <1>0, <1>2, <2>1, CalmEnds, OnlySame DEF BrowseRead, Debts
  <2>2. CASE ~Ends(c)
    <3>0. PICK p \in Link(c) : req' = [req EXCEPT ![c].step = "BrowseFile",
                            ![c].file = p.file, ![c].read = {p.views}]
      BY <1>2, <2>2 DEF BrowseRead
    <3> PICK f, rows : f = p.file /\ rows = {p.views}
      OBVIOUS
    <3>5. req' = [req EXCEPT ![c].step = "BrowseFile", ![c].file = f,
                             ![c].read = rows]
      BY <3>0
    <3>1. Finds(c, "BrowseFile", f, rows)
      BY <1>0, <1>2, <3>5, FindSteps DEF BrowseRead
    <3>2. OthersWait(c) /\ req'[c].step = "BrowseFile"
      BY <3>1 DEF Finds
    <3> QED BY <1>2, <3>2, OnlySame DEF BrowseRead, Calm, Free, Debts
  <2> QED BY <2>1, <2>2
<1>3. CASE BrowseFile(c)
  BY <1>0, <1>3, CalmEnds, CalmKeeps, OnlySame DEF BrowseFile, Debts
<1> QED BY <1>1, <1>2, <1>3

LEMMA ChunksCalm ==
    ASSUME Typed, NEW c \in Programs, faults' = faults,
           \/ InitExists(c) \/ InitName(c) \/ InitKnown(c)
           \/ InitListed(c) \/ InitExpire(c)
           \/ PartWrite(c) \/ PartList(c)
    PROVE  Calm(c)
<1> USE DEF At
<1>0. RequestsOK
  BY DEF Typed
<1>1. CASE InitExists(c)
  BY <1>0, <1>1, CalmEnds, CalmGo, OnlySame DEF InitExists, Debts
<1>2. CASE InitName(c)
  BY <1>0, <1>2, CalmGo, OnlySame DEF InitName, Debts
<1>3. CASE InitKnown(c)
  BY <1>0, <1>3, CalmGo, OnlySame DEF InitKnown, Debts
<1>4. CASE InitListed(c)
  BY <1>0, <1>4, CalmGo, OnlySame DEF InitListed, Debts
<1>5. CASE InitExpire(c)
  BY <1>0, <1>5, CalmEnds, OnlySame DEF InitExpire, Debts
<1>6. CASE PartWrite(c)
  BY <1>0, <1>6, CalmGo, OnlySame DEF PartWrite, Debts
<1>7. CASE PartList(c)
  BY <1>0, <1>7, CalmEnds, OnlySame DEF PartList, Debts
<1> QED BY <1>1, <1>2, <1>3, <1>4, <1>5, <1>6, <1>7

LEMMA MergeCalm ==
    ASSUME Typed, NEW c \in Programs, faults' = faults,
           \/ MergeLocked(c) \/ MergeVerify(c) \/ MergePart(c)
           \/ MergeClean(c) \/ MergeUnlink(c) \/ MergeForget(c)
           \/ MergeRelease(c) \/ StoreBlob(c)
    PROVE  Calm(c)
<1> USE DEF At
<1>0. RequestsOK
  BY DEF Typed
<1>1. ASSUME NEW s, s \notin Debts, NEW a, SameBooks,
             req[c] # Idle, req[c].step \notin Debts,
             req' = [req EXCEPT ![c].step = s, ![c].after = a]
      PROVE  Calm(c)
  <2>1. Goes(c, s, req[c].read, a)
    BY <1>0, <1>1, Steps
  <2> QED BY <1>1, <2>1 DEF Goes, Calm, Free
<1>2. CASE MergeLocked(c)
  BY <1>0, <1>1, <1>2, CalmEnds, OnlySame DEF MergeLocked, Debts
<1>3. CASE MergeVerify(c)
  BY <1>0, <1>1, <1>3, CalmJoins, OnlySame DEF MergeVerify, Debts
<1>4. CASE MergePart(c)
  <2>1. SameBooks
    BY <1>4 DEF MergePart, SameBooks, SameRelation, fileTables, pictureTables
  <2>2. CASE GoTo(c, "StoreOwned")
    BY <1>0, <1>4, <2>1, <2>2, CalmGo DEF MergePart, Debts
  <2>3. CASE req' = req
    BY <1>0, <1>4, <2>1, <2>3
    DEF MergePart, Debts, Calm, Free, OthersWait, RequestsOK
  <2> QED BY <1>4, <2>2, <2>3 DEF MergePart
<1>5. CASE MergeClean(c)
  BY <1>0, <1>5, CalmGo, OnlySame DEF MergeClean, Debts
<1>6. CASE MergeUnlink(c)
  BY <1>0, <1>6, CalmGo, OnlySame DEF MergeUnlink, Debts
<1>7. CASE MergeForget(c)
  BY <1>0, <1>7, CalmGo, OnlySame DEF MergeForget, Debts
<1>8. CASE MergeRelease(c)
  BY <1>0, <1>8, CalmEnds, OnlySame DEF MergeRelease, Debts
<1>9. CASE StoreBlob(c)
  BY <1>0, <1>9, CalmGo
  DEF StoreBlob, Debts, SameBooks, SameRelation, fileTables, pictureTables
<1> QED BY <1>2, <1>3, <1>4, <1>5, <1>6, <1>7, <1>8, <1>9

----------------------------------------------------------------------------
(* Steps that owe or repay.                                                *)

\* The row of a counter that is exact.
LEMMA ExactCount ==
    ASSUME NEW rows \in Rows(InfoRow), rows # {}, NEW k \in Int,
           Number(Counts(rows), k)
    PROVE  /\ k \in Nat /\ Counts(rows) = {k} /\ Only(Counts(rows)) = k
           /\ \E r \in InfoRow : rows = {r} /\ r.count = k
           /\ \A m : Counts(SetCount(rows, m)) = {m}
<1>1. PICK r \in InfoRow : rows = {r}
  BY DEF Rows
<1>2. Counts(rows) = {r.count} /\ r.count \in Nat
  BY <1>1 DEF Counts, InfoRow
<1>3. Counts(rows) = {k} /\ r.count = k
  BY <1>2 DEF Number
<1>4. Only({k}) = k
  BY OnlyOne
<1>5. Only(Counts(rows)) = k
  BY <1>3, <1>4, Zenon
<1>6. ASSUME NEW m PROVE Counts(SetCount(rows, m)) = {m}
  <2>1. PICK x : x = [r EXCEPT !.count = m]
    OBVIOUS
  <2>2. SetCount(rows, m) = {x} /\ x.count = m
    BY <1>1, <2>1 DEF SetCount, InfoRow
  <2>3. {y.count : y \in {x}} = {m}
    BY <2>2
  <2> QED BY <2>2, <2>3, Zenon DEF Counts
<1>7. \E x \in InfoRow : rows = {x} /\ x.count = k
  BY <1>1, <1>3
<1> QED BY <1>2, <1>3, <1>5, <1>6, <1>7

LEMMA ExactUp ==
    ASSUME NEW rows \in Rows(Nat), NEW k \in Int, Number(rows, k)
    PROVE  Number(CountedUp(rows, rows), k + 1)
<1>1. CASE rows = {}
  BY <1>1 DEF Number, CountedUp
<1>2. CASE rows = {k}
  BY <1>2 DEF Number, CountedUp
<1> QED BY <1>1, <1>2 DEF Number

LEMMA ExactDown ==
    ASSUME NEW rows \in Rows(Nat), NEW k \in Int, Number(rows, k), k > 0
    PROVE  /\ rows = {k} /\ 0 \notin rows
           /\ Number({m - 1 : m \in rows}, k - 1)
<1>1. rows = {k}
  BY DEF Number
<1>2. {m - 1 : m \in rows} = {k - 1}
  BY <1>1
<1> QED BY <1>1, <1>2 DEF Number
\* The request that takes a step, and what is known of it.
LEMMA Turns ==
    ASSUME IInv, CountsOK, Orderly, faults' = faults, NEW c \in Programs,
           req[c] # Idle
    PROVE  \E s, f, u, n, i, rows : Turn(c, s, f, u, n, i, rows)
  BY DEF Turn, Asks

LEMMA BindCountBooks ==
    ASSUME NEW c, NEW s, NEW f, NEW u, NEW n, NEW i, NEW rows,
           Turn(c, s, f, u, n, i, rows), BindCount(c)
    PROVE  CountsOK'
<1>1. s = "BindCount" /\ info' = [info EXCEPT ![f] =
                                    SetCount(@, Only(rows) + 1)]
      /\ GoTo(c, "BindRelation") /\ UNCHANGED <<relation, owned>> /\ OnlyFiles
  BY DEF BindCount, At, Turn, Asks
<1>2. /\ Books(s, f, u, n, i, rows) /\ LinksOK /\ IsFiniteSet(pictures)
      /\ f \in Files /\ u \in Users /\ Typed /\ TablesOK
  BY BooksNow
<1>3. /\ InfoBook(f, 0) /\ OwnedBook(u, 0) /\ PictureBook(u, 0)
      /\ rows = Counts(info[f]) /\ rows # {} /\ relation[<<u, f>>] = {}
  BY <1>1, <1>2 DEF Books, Knows, InfoDue, OwnedDue, PictureDue
<1>4. /\ SameRelation /\ pictures' = pictures /\ owned' = owned
      /\ pictureCount' = pictureCount /\ arriving' = arriving
  BY <1>1 DEF SameRelation, OnlyFiles, pictureTables
<1>5. Shift(f, 0, u, 0, 0)
  BY <1>2, <1>4, NoShift
<1>6. OwnedBook(u, 0)' /\ PictureBook(u, 0)' /\ LinksOK'
  BY <1>2, <1>3, <1>4, <1>5, OwnedKept, PictureKept, LinksKept
<1>7. PICK k : k = Refs(f) /\ k \in Nat
  BY <1>2, Sizes
<1>8. Number(Counts(info[f]), k)
  BY <1>2, <1>3, <1>7 DEF InfoBook
<1>9. info[f] \in Rows(InfoRow) /\ info[f] # {}
  BY <1>2, <1>3 DEF TablesOK, Counts
<1>10. Only(rows) = k /\ Counts(SetCount(info[f], k + 1)) = {k + 1}
  BY <1>3, <1>7, <1>8, <1>9, ExactCount
<1>11. PICK new : new = SetCount(info[f], k + 1)
  OBVIOUS
<1>12. info' = [info EXCEPT ![f] = new] /\ Number(Counts(new), k + 1)
  BY <1>1, <1>7, <1>10, <1>11 DEF Number
<1>13. InfoBook(f, 1)'
  <2>1. 0 \in Int /\ 1 \in Int /\ k + 1 = Refs(f) + 0 + 1
    BY <1>7
  <2> QED BY <1>2, <1>3, <1>5, <1>12, <2>1, InfoWritten
<1>14. OthersWait(c) /\ Asks(c, "BindRelation", f, u, n, i, {})'
  BY <1>1, AsksNext
<1>15. Knows("BindRelation", f, u, n, i, {})'
  BY <1>1, <1>3 DEF Knows
<1>16. Books("BindRelation", f, u, n, i, {})'
  BY <1>6, <1>13, <1>15 DEF Books, InfoDue, OwnedDue, PictureDue
<1> QED BY <1>6, <1>14, <1>16, BooksGo

LEMMA BindRelationBooks ==
    ASSUME NEW c, NEW s, NEW f, NEW u, NEW n, NEW i, NEW rows,
           Turn(c, s, f, u, n, i, rows), BindRelation(c)
    PROVE  CountsOK'
<1>1. s = "BindRelation"
  BY DEF BindRelation, At, Turn, Asks
<1>2. /\ Books(s, f, u, n, i, rows) /\ LinksOK /\ IsFiniteSet(pictures)
      /\ f \in Files /\ u \in Users /\ Typed /\ Key(c) = <<u, f>>
  BY BooksNow
<1>3. /\ InfoBook(f, 1) /\ OwnedBook(u, 0) /\ PictureBook(u, 0)
      /\ relation[<<u, f>>] = {}
  BY <1>1, <1>2 DEF Books, Knows, InfoDue, OwnedDue, PictureDue
<1>4. /\ relation' = [relation EXCEPT ![<<u, f>>] = {NewRelation}]
      /\ GoTo(c, "ReadOwned") /\ UNCHANGED <<info, owned>> /\ OnlyFiles
  BY <1>2, <1>3 DEF BindRelation, Owns
<1>5. /\ pictures' = pictures /\ pictureCount' = pictureCount
      /\ arriving' = arriving
  BY <1>4 DEF OnlyFiles, pictureTables
<1>6. Shift(f, 1, u, 1, 0)
  BY <1>2, <1>3, <1>4, <1>5, GainsRelation
<1>7. /\ InfoBook(f, 0)' /\ OwnedBook(u, -1)' /\ PictureBook(u, 0)'
      /\ LinksOK'
  BY <1>2, <1>3, <1>4, <1>5, <1>6, InfoKept, OwnedKept, PictureKept, LinksKept
<1>8. OthersWait(c) /\ Asks(c, "ReadOwned", f, u, n, i, {})'
  BY <1>4, AsksNext
<1>9. Books("ReadOwned", f, u, n, i, {})'
  BY <1>7 DEF Books, Knows, InfoDue, OwnedDue, PictureDue
<1> QED BY <1>7, <1>8, <1>9, BooksGo

LEMMA ReadOwnedBooks ==
    ASSUME NEW c, NEW s, NEW f, NEW u, NEW n, NEW i, NEW rows,
           Turn(c, s, f, u, n, i, rows), ReadOwned(c)
    PROVE  CountsOK'
<1>1. s = "ReadOwned" /\ Reads(c, "WriteOwned", owned[u]) /\ OnlyReq
  BY DEF ReadOwned, At, Turn, Asks
<1>2. SameBooks
  BY <1>1, OnlySame
<1>3. OthersWait(c) /\ Asks(c, "WriteOwned", f, u, n, i, owned[u])'
  BY <1>1, <1>2, AsksNext DEF SameBooks, Asks
<1>4. Knows("WriteOwned", f, u, n, i, owned[u])'
  BY <1>2 DEF Knows, SameBooks
<1>5. /\ InfoDue("WriteOwned") = InfoDue(s)
      /\ OwnedDue("WriteOwned") = OwnedDue(s)
      /\ PictureDue("WriteOwned") = PictureDue(s)
  BY <1>1 DEF InfoDue, OwnedDue, PictureDue
<1>6. PICK x : x = owned[u] /\ x = owned'[u]
  BY <1>2 DEF SameBooks
<1>7. Asks(c, "WriteOwned", f, u, n, i, x)' /\ Knows("WriteOwned", f, u, n, i, x)'
  BY <1>3, <1>4, <1>6 DEF Asks, Knows
<1> QED BY <1>2, <1>3, <1>5, <1>7, StaysGo

LEMMA WriteOwnedBooks ==
    ASSUME NEW c, NEW s, NEW f, NEW u, NEW n, NEW i, NEW rows,
           Turn(c, s, f, u, n, i, rows), WriteOwned(c)
    PROVE  CountsOK'
<1>1. s = "WriteOwned" /\ owned' = [owned EXCEPT ![u] = CountedUp(@, rows)]
      /\ Joins(c) /\ UNCHANGED <<info, relation>> /\ OnlyFiles
  BY DEF WriteOwned, At, Turn, Asks
<1>2. /\ Books(s, f, u, n, i, rows) /\ LinksOK /\ IsFiniteSet(pictures)
      /\ f \in Files /\ u \in Users /\ Typed /\ TablesOK /\ RequestsOK
  BY BooksNow
<1>3. /\ InfoBook(f, 0) /\ OwnedBook(u, -1) /\ PictureBook(u, 0)
      /\ rows = owned[u]
  BY <1>1, <1>2 DEF Books, Knows, InfoDue, OwnedDue, PictureDue
<1>4. /\ SameRelation /\ pictures' = pictures /\ info' = info
      /\ pictureCount' = pictureCount /\ arriving' = arriving
  BY <1>1 DEF SameRelation, OnlyFiles, pictureTables
<1>5. Shift(f, 0, u, 0, 0)
  BY <1>2, <1>4, NoShift
<1>6. InfoBook(f, 0)' /\ PictureBook(u, 0)' /\ LinksOK'
  BY <1>2, <1>3, <1>4, <1>5, InfoKept, PictureKept, LinksKept
<1>7. PICK k : k = Held(u) - 1 /\ k \in Int /\ Number(owned[u], k)
  BY <1>2, <1>3, Sizes DEF OwnedBook
<1>8. owned[u] \in Rows(Nat)
  BY <1>2 DEF TablesOK
<1>9. Number(CountedUp(owned[u], owned[u]), k + 1)
  BY <1>7, <1>8, ExactUp
<1>10. k + 1 = Held(u) + 0 + 0
  BY <1>2, <1>7, Sizes
<1>11. PICK new : new = CountedUp(owned[u], owned[u])
  OBVIOUS
<1>12. owned' = [owned EXCEPT ![u] = new] /\ Number(new, k + 1)
  BY <1>1, <1>3, <1>9, <1>10, <1>11
<1>13. OwnedBook(u, 0)'
  <2>1. 0 \in Int /\ -1 \in Int
    OBVIOUS
  <2> QED BY <1>2, <1>3, <1>5, <1>10, <1>12, <2>1, OwnedWritten
<1>14. Free(c)
  BY <1>1, <1>2, FreeSteps DEF Turn, Asks
<1> QED BY <1>3, <1>6, <1>13, <1>14, FreeNext

LEMMA BindBooks ==
    ASSUME IInv, CountsOK, Orderly, faults' = faults, NEW c \in Programs, Bind(c)
    PROVE  CountsOK'
<1> PICK s, f, u, n, i, rows : Turn(c, s, f, u, n, i, rows)
  BY Turns DEF Bind, BindCount, BindRelation, ReadOwned, WriteOwned, At
<1> QED BY BindCountBooks, BindRelationBooks, ReadOwnedBooks, WriteOwnedBooks
        DEF Bind

LEMMA DelReadOwnedBooks ==
    ASSUME NEW c, NEW s, NEW f, NEW u, NEW n, NEW i, NEW rows,
           Turn(c, s, f, u, n, i, rows), DelReadOwned(c)
    PROVE  CountsOK'
<1>1. s = "DelReadOwned" /\ OnlyReq
  BY DEF DelReadOwned, At, Turn, Asks
<1>2. SameBooks /\ Light(s)
  BY <1>1, OnlySame DEF Light, InfoDue, OwnedDue, PictureDue
<1>3. CASE Ends(c)
  <2>1. Free(c)
    BY <1>3, BooksNow, FreeSteps DEF Turn, Asks
  <2> QED BY <1>2, <2>1, StaysFree
<1>4. CASE Reads(c, "DelRelation", owned[u])
  <2>1. PICK x : x = owned[u] /\ x = owned'[u]
    BY <1>2 DEF SameBooks
  <2>2. OthersWait(c) /\ Asks(c, "DelRelation", f, u, n, i, x)'
    BY <1>4, <2>1, AsksNext DEF Asks
  <2>3. Knows("DelRelation", f, u, n, i, x)'
    BY <2>1 DEF Knows
  <2>4. /\ InfoDue("DelRelation") = InfoDue(s)
        /\ OwnedDue("DelRelation") = OwnedDue(s)
        /\ PictureDue("DelRelation") = PictureDue(s)
    BY <1>1 DEF InfoDue, OwnedDue, PictureDue
  <2> QED BY <1>2, <2>2, <2>3, <2>4, StaysGo
<1> QED BY <1>3, <1>4 DEF DelReadOwned, Turn, Asks

LEMMA DelRelationBooks ==
    ASSUME NEW c, NEW s, NEW f, NEW u, NEW n, NEW i, NEW rows,
           Turn(c, s, f, u, n, i, rows), DelRelation(c)
    PROVE  CountsOK'
<1>1. s = "DelRelation" /\ info' = info /\ OnlyFiles
  BY DEF DelRelation, At, Turn, Asks
<1>2. /\ Books(s, f, u, n, i, rows) /\ LinksOK /\ IsFiniteSet(pictures)
      /\ f \in Files /\ u \in Users /\ Typed /\ TablesOK /\ RequestsOK
      /\ Key(c) = <<u, f>>
  BY BooksNow
<1>3. /\ InfoBook(f, 0) /\ OwnedBook(u, 0) /\ PictureBook(u, 0)
      /\ rows = owned[u]
  BY <1>1, <1>2 DEF Books, Knows, InfoDue, OwnedDue, PictureDue
<1>4. CASE ~Owns(c)
  <2>1. Ends(c) /\ SameBooks /\ Light(s)
    BY <1>1, <1>4, OnlySame
    DEF DelRelation, SameRelation, Light, InfoDue, OwnedDue, PictureDue
  <2>2. Free(c)
    BY <1>2, <2>1, FreeSteps DEF Turn, Asks
  <2> QED BY <2>1, <2>2, StaysFree
<1>5. CASE Owns(c)
  <2>1. /\ relation' = [relation EXCEPT ![<<u, f>>] = {}]
        /\ owned' = [owned EXCEPT ![u] = IF @ = {} \/ 0 \in rows THEN @
                                         ELSE {m - 1 : m \in rows}]
        /\ GoTo(c, "DelReadCount")
    BY <1>2, <1>5 DEF DelRelation, Turn, Asks
  <2>2. relation[<<u, f>>] # {}
    BY <1>2, <1>5 DEF Owns
  <2>3. /\ pictures' = pictures /\ pictureCount' = pictureCount
        /\ arriving' = arriving
    BY <1>1 DEF OnlyFiles, pictureTables
  <2>4. Shift(f, -1, u, -1, 0) /\ Held(u) > 0
    BY <1>2, <2>1, <2>2, <2>3, LosesRelation
  <2>5. PICK k : k = Held(u) /\ k \in Int /\ Number(owned[u], k)
    BY <1>2, <1>3, Sizes DEF OwnedBook
  <2>6. owned[u] \in Rows(Nat)
    BY <1>2 DEF TablesOK
  <2>7. owned[u] = {k} /\ 0 \notin owned[u]
        /\ Number({m - 1 : m \in owned[u]}, k - 1)
    BY <2>4, <2>5, <2>6, ExactDown
  <2>8. PICK new : new = {m - 1 : m \in owned[u]}
    OBVIOUS
  <2>9. owned' = [owned EXCEPT ![u] = new] /\ Number(new, k - 1)
    BY <1>3, <2>1, <2>7, <2>8
  <2>10. 0 \in Int /\ -1 \in Int /\ 1 \in Int /\ k - 1 = Held(u) + -1 + 0
         /\ 0 = -1 + 1 /\ 0 = 0 + 0
    BY <2>5
  <2>11. OwnedBook(u, 0)'
    BY <1>2, <1>3, <2>4, <2>9, <2>10, OwnedWritten
  <2>12. InfoBook(f, 1)' /\ PictureBook(u, 0)' /\ LinksOK'
    BY <1>1, <1>2, <1>3, <2>3, <2>4, <2>10, InfoKept, PictureKept, LinksKept
  <2>13. OthersWait(c) /\ Asks(c, "DelReadCount", f, u, n, i, {})'
    BY <2>1, AsksNext
  <2>14. Books("DelReadCount", f, u, n, i, {})'
    BY <2>11, <2>12 DEF Books, Knows, InfoDue, OwnedDue, PictureDue
  <2> QED BY <2>12, <2>13, <2>14, BooksGo
<1> QED BY <1>4, <1>5

LEMMA DelReadCountBooks ==
    ASSUME NEW c, NEW s, NEW f, NEW u, NEW n, NEW i, NEW rows,
           Turn(c, s, f, u, n, i, rows), DelReadCount(c)
    PROVE  CountsOK'
<1>1. s = "DelReadCount" /\ OnlyReq
  BY DEF DelReadCount, At, Turn, Asks
<1>2. SameBooks
  BY <1>1, OnlySame
<1>3. /\ Books(s, f, u, n, i, rows) /\ IsFiniteSet(pictures)
      /\ f \in Files /\ Typed
  BY BooksNow
<1>4. PICK k : k = Refs(f) + 1 /\ k > 0 /\ Number(Counts(info[f]), k)
  BY <1>1, <1>3, Sizes DEF Books, InfoDue, InfoBook
<1>5. Counts(info[f]) # {}
  BY <1>4 DEF Number
<1>6. info[f] # {}
  BY <1>5 DEF Counts
<1>7. Reads(c, "DelWriteCount", Counts(info[f]))
  BY <1>6 DEF DelReadCount, Turn, Asks
<1>8. PICK x : x = Counts(info[f]) /\ x = Counts(info'[f]) /\ x # {}
  BY <1>2, <1>5 DEF SameBooks
<1>9. OthersWait(c) /\ Asks(c, "DelWriteCount", f, u, n, i, x)'
  <2>1. Reads(c, "DelWriteCount", x)
    BY <1>7, <1>8, Zenon
  <2> QED BY <2>1, AsksNext
<1>10. Knows("DelWriteCount", f, u, n, i, x)'
  BY <1>8 DEF Knows
<1>11. /\ InfoDue("DelWriteCount") = InfoDue(s)
       /\ OwnedDue("DelWriteCount") = OwnedDue(s)
       /\ PictureDue("DelWriteCount") = PictureDue(s)
  BY <1>1 DEF InfoDue, OwnedDue, PictureDue
<1> QED BY <1>2, <1>9, <1>10, <1>11, StaysGo

LEMMA DelWriteCountBooks ==
    ASSUME NEW c, NEW s, NEW f, NEW u, NEW n, NEW i, NEW rows,
           Turn(c, s, f, u, n, i, rows), DelWriteCount(c)
    PROVE  CountsOK'
<1>1. s = "DelWriteCount" /\ UNCHANGED <<relation, owned>> /\ OnlyFiles
  BY DEF DelWriteCount, At, Turn, Asks
<1>2. /\ Books(s, f, u, n, i, rows) /\ LinksOK /\ IsFiniteSet(pictures)
      /\ f \in Files /\ u \in Users /\ Typed /\ TablesOK /\ RequestsOK
  BY BooksNow
<1>3. /\ InfoBook(f, 1) /\ OwnedBook(u, 0) /\ PictureBook(u, 0)
      /\ rows = Counts(info[f]) /\ rows # {}
  BY <1>1, <1>2 DEF Books, Knows, InfoDue, OwnedDue, PictureDue
<1>4. /\ SameRelation /\ pictures' = pictures /\ owned' = owned
      /\ pictureCount' = pictureCount /\ arriving' = arriving
  BY <1>1 DEF SameRelation, OnlyFiles, pictureTables
<1>5. Shift(f, 0, u, 0, 0) /\ \A g \in Files : Refs(g)' = Refs(g)
  BY <1>2, <1>4, NoShift
<1>6. OwnedBook(u, 0)' /\ PictureBook(u, 0)' /\ LinksOK'
  BY <1>2, <1>3, <1>4, <1>5, OwnedKept, PictureKept, LinksKept
<1>7. PICK k : k = Refs(f) + 1 /\ k \in Int /\ k > 0
               /\ Number(Counts(info[f]), k)
  BY <1>2, <1>3, Sizes DEF InfoBook
<1>8. info[f] \in Rows(InfoRow) /\ info[f] # {}
  BY <1>2, <1>3 DEF TablesOK, Counts
<1>9. Only(rows) = k /\ Counts(SetCount(info[f], k - 1)) = {k - 1}
  BY <1>3, <1>7, <1>8, ExactCount
<1>10. Less(k) = k - 1
  BY <1>7 DEF Less
<1>11. PICK new : new = SetCount(info[f], k - 1)
  OBVIOUS
<1>12. info' = [info EXCEPT ![f] = new]
       /\ IF k - 1 = 0 THEN GoTo(c, "DelReadBlob") ELSE Ends(c)
  BY <1>9, <1>10, <1>11 DEF DelWriteCount, Turn, Asks
<1>13. Number(Counts(new), k - 1)
  BY <1>9, <1>11 DEF Number
<1>14. 0 \in Int /\ 1 \in Int /\ k - 1 = Refs(f) + 0 + 0
  BY <1>2, <1>7, Sizes
<1>15. InfoBook(f, 0)'
  BY <1>2, <1>3, <1>5, <1>12, <1>13, <1>14, InfoWritten
<1>16. CASE k - 1 = 0
  <2>1. OthersWait(c) /\ Asks(c, "DelReadBlob", f, u, n, i, {})'
    BY <1>12, <1>16, AsksNext
  <2>2. Refs(f)' = 0
    BY <1>2, <1>5, <1>14, <1>16, Sizes
  <2>3. Books("DelReadBlob", f, u, n, i, {})'
    BY <1>6, <1>15, <2>2 DEF Books, Knows, InfoDue, OwnedDue, PictureDue
  <2> QED BY <1>6, <2>1, <2>3, BooksGo
<1>17. CASE k - 1 # 0
  <2>1. OthersWait(c) /\ req'[c] = Idle
    BY <1>12, <1>17, EndsNext
  <2> QED BY <1>6, <1>15, <2>1, BooksEnd
<1> QED BY <1>16, <1>17

LEMMA DelReadBlobBooks ==
    ASSUME NEW c, NEW s, NEW f, NEW u, NEW n, NEW i, NEW rows,
           Turn(c, s, f, u, n, i, rows), DelReadBlob(c)
    PROVE  CountsOK'
<1>1. s = "DelReadBlob" /\ OnlyReq
  BY DEF DelReadBlob, At, Turn, Asks
<1>2. SameBooks /\ Light(s)
  BY <1>1, OnlySame DEF Light, InfoDue, OwnedDue, PictureDue
<1>3. Books(s, f, u, n, i, rows) /\ f \in Files /\ RequestsOK
  BY BooksNow
<1>4. Refs(f) = 0
  BY <1>1, <1>3 DEF Books, Knows
<1>5. CASE Ends(c)
  <2>1. Free(c)
    BY <1>3, <1>5, FreeSteps DEF Turn, Asks
  <2> QED BY <1>2, <2>1, StaysFree
<1>6. CASE \E x : Reads(c, "DelInfo", x)
  <2> PICK x : Reads(c, "DelInfo", x)
    BY <1>6
  <2>1. OthersWait(c) /\ Asks(c, "DelInfo", f, u, n, i, x)'
    BY AsksNext
  <2>2. Refs(f)' = 0
    BY <1>2, <1>3, <1>4, BooksStay
  <2>3. Knows("DelInfo", f, u, n, i, x)'
    BY <2>2 DEF Knows
  <2>4. /\ InfoDue("DelInfo") = InfoDue(s) /\ OwnedDue("DelInfo") = OwnedDue(s)
        /\ PictureDue("DelInfo") = PictureDue(s)
    BY <1>1 DEF InfoDue, OwnedDue, PictureDue
  <2> QED BY <1>2, <2>1, <2>3, <2>4, StaysGo
<1> QED BY <1>5, <1>6 DEF DelReadBlob

\* The row goes when nothing refers to the file.
LEMMA RowGoesBooks ==
    ASSUME NEW c, NEW s, NEW f, NEW u, NEW n, NEW i, NEW rows,
           Turn(c, s, f, u, n, i, rows), s \in {"DelInfo", "DropInfo"},
           info' = [info EXCEPT ![f] = {}],
           UNCHANGED <<relation, owned>>, OnlyFiles,
           NEW t, t \notin Debts, req' = [req EXCEPT ![c].step = t]
    PROVE  CountsOK'
<1>1. /\ Books(s, f, u, n, i, rows) /\ LinksOK /\ IsFiniteSet(pictures)
      /\ f \in Files /\ u \in Users /\ Typed /\ RequestsOK
  BY BooksNow
<1>2. /\ InfoBook(f, 0) /\ OwnedBook(u, 0) /\ PictureBook(u, 0)
      /\ Refs(f) = 0
  BY <1>1 DEF Books, Knows, InfoDue, OwnedDue, PictureDue
<1>3. /\ SameRelation /\ pictures' = pictures /\ owned' = owned
      /\ pictureCount' = pictureCount /\ arriving' = arriving
  BY DEF SameRelation, OnlyFiles, pictureTables
<1>4. Shift(f, 0, u, 0, 0)
  BY <1>1, <1>3, NoShift
<1>5. OwnedBook(u, 0)' /\ PictureBook(u, 0)' /\ LinksOK'
  BY <1>1, <1>2, <1>3, <1>4, OwnedKept, PictureKept, LinksKept
<1>6. Number(Counts({}), 0) /\ 0 \in Int /\ 0 = Refs(f) + 0 + 0
  BY <1>2 DEF Number, Counts
<1>7. InfoBook(f, 0)'
  BY <1>1, <1>2, <1>4, <1>6, InfoWritten
<1>8. Free(c)
  BY <1>1, FreeSteps DEF Turn, Asks
<1> QED BY <1>5, <1>7, <1>8, FreeNext

LEMMA DeleteBooks ==
    ASSUME IInv, CountsOK, Orderly, faults' = faults, NEW c \in Programs,
           Delete(c)
    PROVE  CountsOK'
<1>1. CASE \/ DelExists(c) \/ DelStatus(c) \/ DelShare(c) \/ DelReadTotal(c)
           \/ DelWriteTotal(c) \/ DelUnrank(c) \/ DelUnname(c)
           \/ RemoveBlob(c, "DelBlob", Ends(c))
  BY <1>1, DelCalm, CalmStep DEF IInv
<1>2. CASE DelReadOwned(c) \/ DelRelation(c) \/ DelReadCount(c)
           \/ DelWriteCount(c) \/ DelReadBlob(c)
  <2> PICK s, f, u, n, i, rows : Turn(c, s, f, u, n, i, rows)
    BY <1>2, Turns
    DEF DelReadOwned, DelRelation, DelReadCount, DelWriteCount, DelReadBlob, At
  <2> QED BY <1>2, DelReadOwnedBooks, DelRelationBooks, DelReadCountBooks,
             DelWriteCountBooks, DelReadBlobBooks
<1>3. CASE RemoveInfo(c, "DelInfo", "DelBlob")
  <2> PICK s, f, u, n, i, rows : Turn(c, s, f, u, n, i, rows)
    BY <1>3, Turns DEF RemoveInfo, At
  <2>1. /\ s = "DelInfo" /\ info' = [info EXCEPT ![f] = {}]
        /\ UNCHANGED <<relation, owned>> /\ OnlyFiles
        /\ req' = [req EXCEPT ![c].step = "DelBlob"] /\ "DelBlob" \notin Debts
    BY <1>3 DEF RemoveInfo, At, Turn, Asks, Debts
  <2> QED BY <2>1, RowGoesBooks
<1> QED BY <1>1, <1>2, <1>3 DEF Delete, DelRemoves

\* A handler that looks for the row of its file reads its count and goes on.
LEMMA CountedGoes ==
    ASSUME NEW c, NEW s, NEW f, NEW u, NEW n, NEW i, NEW rows,
           Turn(c, s, f, u, n, i, rows), SameBooks, Light(s),
           NEW t, t \in {"Md5Owned", "UploadOwned", "MergeOwned", "BindCount"},
           t = "BindCount" => relation[<<u, f>>] = {},
           info[f] # {}, Reads(c, t, Counts(info[f]))
    PROVE  CountsOK'
<1>1. f \in Files /\ u \in Users
  BY BooksNow
<1>2. PICK x : x = Counts(info[f]) /\ x = Counts(info'[f])
  BY DEF SameBooks
<1>3. x # {}
  BY <1>2 DEF Counts
<1>4. OthersWait(c) /\ Asks(c, t, f, u, n, i, x)'
  <2>1. Reads(c, t, x)
    BY <1>2, Zenon
  <2> QED BY <2>1, AsksNext
<1>5. t = "BindCount" => relation'[<<u, f>>] = {}
  BY <1>1 DEF SameBooks, SameRelation
<1>6. Knows(t, f, u, n, i, x)'
  BY <1>2, <1>3, <1>5 DEF Knows
<1>7. /\ InfoDue(t) = InfoDue(s) /\ OwnedDue(t) = OwnedDue(s)
      /\ PictureDue(t) = PictureDue(s)
  BY DEF Light, InfoDue, OwnedDue, PictureDue
<1> QED BY <1>4, <1>6, <1>7, StaysGo

\* One that has read the count finds that the user does not have the file.
LEMMA LookedGoes ==
    ASSUME NEW c, NEW s, NEW f, NEW u, NEW n, NEW i, NEW rows,
           Turn(c, s, f, u, n, i, rows), SameBooks,
           s \in {"Md5Owned", "UploadOwned", "MergeOwned"}, ~Owns(c),
           req' = [req EXCEPT ![c].step = "BindCount"]
    PROVE  CountsOK'
<1>1. f \in Files /\ u \in Users /\ Key(c) = <<u, f>>
      /\ Books(s, f, u, n, i, rows)
  BY BooksNow
<1>2. rows = Counts(info[f]) /\ rows # {} /\ relation[<<u, f>>] = {}
  BY <1>1 DEF Books, Knows, Owns
<1>3. rows = Counts(info'[f]) /\ relation'[<<u, f>>] = {}
  BY <1>1, <1>2 DEF SameBooks, SameRelation
<1>4. OthersWait(c) /\ Asks(c, "BindCount", f, u, n, i, rows)'
  BY AsksNext
<1>5. Knows("BindCount", f, u, n, i, rows)'
  BY <1>2, <1>3 DEF Knows
<1>6. /\ InfoDue("BindCount") = InfoDue(s) /\ OwnedDue("BindCount") = OwnedDue(s)
      /\ PictureDue("BindCount") = PictureDue(s)
  BY DEF InfoDue, OwnedDue, PictureDue
<1> QED BY <1>4, <1>5, <1>6, StaysGo

\* One that has not goes on to look for the row.
LEMMA UnownedGoes ==
    ASSUME NEW c, NEW s, NEW f, NEW u, NEW n, NEW i, NEW rows,
           Turn(c, s, f, u, n, i, rows), SameBooks, Light(s), ~Owns(c),
           NEW t, t \in {"SaveRead", "StoreRead"}, GoTo(c, t)
    PROVE  CountsOK'
<1>1. f \in Files /\ u \in Users /\ Key(c) = <<u, f>>
  BY BooksNow
<1>2. relation'[<<u, f>>] = {}
  BY <1>1 DEF SameBooks, SameRelation, Owns
<1>3. OthersWait(c) /\ Asks(c, t, f, u, n, i, {})'
  BY AsksNext
<1>4. Knows(t, f, u, n, i, {})'
  BY <1>2 DEF Knows
<1>5. /\ InfoDue(t) = InfoDue(s) /\ OwnedDue(t) = OwnedDue(s)
      /\ PictureDue(t) = PictureDue(s)
  BY DEF Light, InfoDue, OwnedDue, PictureDue
<1> QED BY <1>3, <1>4, <1>5, StaysGo

LEMMA SaveBooks ==
    ASSUME IInv, CountsOK, Orderly, faults' = faults, NEW c \in Programs, Save(c)
    PROVE  CountsOK'
<1>1. CASE SaveOwned(c) \/ SaveRead(c)
  <2> PICK s, f, u, n, i, rows : Turn(c, s, f, u, n, i, rows)
    BY <1>1, Turns DEF SaveOwned, SaveRead, At
  <2>1. SameBooks
    BY <1>1, OnlySame DEF SaveOwned, SaveRead
  <2>2. Light(s)
    BY <1>1
    DEF SaveOwned, SaveRead, At, Turn, Asks, Light, InfoDue, OwnedDue, PictureDue
  <2>3. RequestsOK /\ Key(c) = <<u, f>> /\ Books(s, f, u, n, i, rows)
    BY BooksNow
  <2>4. CASE Ends(c)
    <3>1. Free(c)
      BY <2>3, <2>4, FreeSteps DEF Turn, Asks
    <3> QED BY <2>1, <2>2, <3>1, StaysFree
  <2>5. CASE SaveOwned(c) /\ ~Ends(c)
    BY <2>1, <2>2, <2>5, UnownedGoes DEF SaveOwned
  <2>6. CASE SaveRead(c) /\ ~Ends(c)
    <3>1. s = "SaveRead" /\ info[f] # {} /\ Reads(c, "BindCount", Counts(info[f]))
      BY <2>6 DEF SaveRead, At, Turn, Asks
    <3>2. relation[<<u, f>>] = {}
      BY <2>3, <3>1 DEF Books, Knows
    <3> QED BY <2>1, <2>2, <3>1, <3>2, CountedGoes
  <2> QED BY <1>1, <2>4, <2>5, <2>6
<1>2. CASE Bind(c)
  BY <1>2, BindBooks
<1>3. CASE Misread(c, "SaveOwned", "SaveRead")
  BY <1>3 DEF Misread, Fault, IInv, Typed
<1> QED BY <1>1, <1>2, <1>3 DEF Save

LEMMA InstantBooks ==
    ASSUME IInv, CountsOK, Orderly, faults' = faults, NEW c \in Programs,
           InstantUpload(c)
    PROVE  CountsOK'
<1>1. CASE Md5Count(c) \/ Md5Owned(c)
  <2> PICK s, f, u, n, i, rows : Turn(c, s, f, u, n, i, rows)
    BY <1>1, Turns DEF Md5Count, Md5Owned, At
  <2>1. SameBooks
    BY <1>1, OnlySame DEF Md5Count, Md5Owned
  <2>2. Light(s)
    BY <1>1
    DEF Md5Count, Md5Owned, At, Turn, Asks, Light, InfoDue, OwnedDue, PictureDue
  <2>3. RequestsOK
    BY BooksNow
  <2>4. CASE Ends(c)
    <3>1. Free(c)
      BY <2>3, <2>4, FreeSteps DEF Turn, Asks
    <3> QED BY <2>1, <2>2, <3>1, StaysFree
  <2>5. CASE Md5Count(c) /\ ~Ends(c)
    <3>1. info[f] # {} /\ Reads(c, "Md5Owned", Counts(info[f]))
      BY <2>5 DEF Md5Count, At, Turn, Asks
    <3> QED BY <2>1, <2>2, <3>1, CountedGoes
  <2>6. CASE Md5Owned(c) /\ ~Ends(c)
    <3>1. s = "Md5Owned" /\ ~Owns(c)
          /\ req' = [req EXCEPT ![c].step = "BindCount"]
      BY <2>6 DEF Md5Owned, At, Turn, Asks
    <3> QED BY <2>1, <3>1, LookedGoes
  <2> QED BY <1>1, <2>4, <2>5, <2>6
<1>2. CASE Bind(c)
  BY <1>2, BindBooks
<1>3. CASE Skips(c, "Md5Owned", "BindCount")
  BY <1>3 DEF Skips, Fault, IInv, Typed
<1> QED BY <1>1, <1>2, <1>3 DEF InstantUpload

LEMMA ReuseBooks ==
    ASSUME IInv, CountsOK, Orderly, faults' = faults, NEW c \in Programs,
           NEW from, NEW to, NEW absent,
           \/ /\ ReuseCount(c, from, to, absent)
              /\ from \notin Debts /\ absent \notin Debts
              /\ to \in {"UploadOwned", "MergeOwned"}
           \/ ReuseOwned(c, from) /\ from \in {"UploadOwned", "MergeOwned"}
    PROVE  CountsOK'
<1> PICK s, f, u, n, i, rows : Turn(c, s, f, u, n, i, rows)
  BY Turns DEF ReuseCount, ReuseOwned, At
<1>1. SameBooks
  BY OnlySame DEF ReuseCount, ReuseOwned
<1>2. s = from
  BY DEF ReuseCount, ReuseOwned, At, Turn, Asks
<1>3. Light(s)
  <2>1. CASE s \notin Debts
    BY <2>1, NoDebts DEF Light
  <2>2. CASE s \in {"UploadOwned", "MergeOwned"}
    BY <2>2 DEF Light, InfoDue, OwnedDue, PictureDue
  <2> QED BY <1>2, <2>1, <2>2
<1>4. RequestsOK /\ req[c] # Idle /\ c \in Programs
  BY BooksNow DEF Turn, Asks
<1>5. CASE ReuseOwned(c, from) /\ from \in {"UploadOwned", "MergeOwned"}
  <2>1. CASE Joins(c)
    BY <1>1, <1>3, <1>4, <2>1, FreeSteps, StaysFree
  <2>2. CASE ~Joins(c)
    BY <1>1, <1>2, <1>5, <2>2, LookedGoes DEF ReuseOwned
  <2> QED BY <2>1, <2>2
<1>6. CASE ReuseCount(c, from, to, absent) /\ absent \notin Debts
           /\ to \in {"UploadOwned", "MergeOwned"}
  <2>1. CASE info[f] = {}
    <3>1. GoTo(c, absent)
      BY <1>6, <2>1 DEF ReuseCount, Turn, Asks
    <3>2. Free(c)
      BY <1>4, <1>6, <3>1, FreeSteps
    <3> QED BY <1>1, <1>3, <3>2, StaysFree
  <2>2. CASE info[f] # {}
    <3>1. Reads(c, to, Counts(info[f]))
      BY <1>6, <2>2 DEF ReuseCount, Turn, Asks
    <3> QED BY <1>1, <1>3, <1>6, <2>2, <3>1, CountedGoes
  <2> QED BY <2>1, <2>2
<1> QED BY <1>5, <1>6

LEMMA StoreInsertBooks ==
    ASSUME NEW c, NEW s, NEW f, NEW u, NEW n, NEW i, NEW rows,
           Turn(c, s, f, u, n, i, rows), StoreInsert(c)
    PROVE  CountsOK'
<1>1. s = "StoreInsert" /\ UNCHANGED <<relation, owned>> /\ OnlyFiles
  BY DEF StoreInsert, At, Turn, Asks
<1>2. /\ Books(s, f, u, n, i, rows) /\ LinksOK /\ IsFiniteSet(pictures)
      /\ f \in Files /\ u \in Users /\ Typed
  BY BooksNow
<1>3. /\ InfoBook(f, 0) /\ OwnedBook(u, 0) /\ PictureBook(u, 0)
      /\ relation[<<u, f>>] = {} /\ info[f] = {}
  BY <1>1, <1>2 DEF Books, Knows, InfoDue, OwnedDue, PictureDue
<1>4. /\ SameRelation /\ pictures' = pictures /\ owned' = owned
      /\ pictureCount' = pictureCount /\ arriving' = arriving
  BY <1>1 DEF SameRelation, OnlyFiles, pictureTables
<1>5. Shift(f, 0, u, 0, 0)
  BY <1>2, <1>4, NoShift
<1>6. OwnedBook(u, 0)' /\ PictureBook(u, 0)' /\ LinksOK'
  BY <1>2, <1>3, <1>4, <1>5, OwnedKept, PictureKept, LinksKept
<1>7. Refs(f) = 0
  <2>1. Number(Counts(info[f]), Refs(f)) /\ Counts(info[f]) = {}
    BY <1>2, <1>3, Sizes DEF InfoBook, Counts
  <2> QED BY <2>1 DEF Number
<1>8. PICK new : new = {[count |-> 1, blob |-> n]}
  OBVIOUS
<1>9. info' = [info EXCEPT ![f] = new] /\ GoTo(c, "BindRelation")
  BY <1>3, <1>8 DEF StoreInsert, Turn, Asks
<1>10. Number(Counts(new), 1) /\ 0 \in Int /\ 1 \in Int /\ 1 = Refs(f) + 0 + 1
  BY <1>7, <1>8 DEF Number, Counts
<1>11. InfoBook(f, 1)'
  BY <1>2, <1>3, <1>5, <1>9, <1>10, InfoWritten
<1>12. OthersWait(c) /\ Asks(c, "BindRelation", f, u, n, i, {})'
  BY <1>9, AsksNext
<1>13. Knows("BindRelation", f, u, n, i, {})'
  BY <1>1, <1>3 DEF Knows
<1>14. Books("BindRelation", f, u, n, i, {})'
  BY <1>6, <1>11, <1>13 DEF Books, InfoDue, OwnedDue, PictureDue
<1> QED BY <1>6, <1>12, <1>14, BooksGo

LEMMA StoreBooks ==
    ASSUME IInv, CountsOK, Orderly, faults' = faults, NEW c \in Programs,
           StoreInfo(c)
    PROVE  CountsOK'
<1>1. CASE StoreOwned(c) \/ StoreRead(c)
  <2> PICK s, f, u, n, i, rows : Turn(c, s, f, u, n, i, rows)
    BY <1>1, Turns DEF StoreOwned, StoreRead, At
  <2>1. SameBooks
    BY <1>1, OnlySame DEF StoreOwned, StoreRead
  <2>2. Light(s)
    BY <1>1
    DEF StoreOwned, StoreRead, At, Turn, Asks, Light, InfoDue, OwnedDue,
        PictureDue
  <2>3. /\ RequestsOK /\ req[c] # Idle /\ c \in Programs
        /\ f \in Files /\ u \in Users /\ Books(s, f, u, n, i, rows)
    BY BooksNow DEF Turn, Asks
  <2>4. CASE StoreOwned(c)
    <3>1. CASE Joins(c)
      BY <2>1, <2>2, <2>3, <3>1, FreeSteps, StaysFree
    <3>2. CASE ~Joins(c)
      BY <2>1, <2>2, <2>4, <3>2, UnownedGoes DEF StoreOwned
    <3> QED BY <3>1, <3>2
  <2>5. CASE StoreRead(c)
    <3>1. s = "StoreRead"
      BY <2>5 DEF StoreRead, At, Turn, Asks
    <3>2. relation[<<u, f>>] = {}
      BY <2>3, <3>1 DEF Books, Knows
    <3>3. CASE info[f] # {}
      <4>1. Reads(c, "BindCount", Counts(info[f]))
        BY <2>5, <3>3 DEF StoreRead, Turn, Asks
      <4> QED BY <2>1, <2>2, <3>2, <3>3, <4>1, CountedGoes
    <3>4. CASE info[f] = {}
      <4>1. GoTo(c, "StoreInsert")
        BY <2>5, <3>4 DEF StoreRead, Turn, Asks
      <4>2. OthersWait(c) /\ Asks(c, "StoreInsert", f, u, n, i, {})'
        BY <4>1, AsksNext
      <4>3. Knows("StoreInsert", f, u, n, i, {})'
        BY <2>1, <2>3, <3>2, <3>4 DEF Knows, SameBooks, SameRelation
      <4>4. /\ InfoDue("StoreInsert") = InfoDue(s)
            /\ OwnedDue("StoreInsert") = OwnedDue(s)
            /\ PictureDue("StoreInsert") = PictureDue(s)
        BY <3>1 DEF InfoDue, OwnedDue, PictureDue
      <4> QED BY <2>1, <4>2, <4>3, <4>4, StaysGo
    <3> QED BY <3>3, <3>4
  <2> QED BY <1>1, <2>4, <2>5
<1>2. CASE StoreInsert(c)
  <2> PICK s, f, u, n, i, rows : Turn(c, s, f, u, n, i, rows)
    BY <1>2, Turns DEF StoreInsert, At
  <2> QED BY <1>2, StoreInsertBooks
<1>3. CASE \E s, t : Misread(c, s, t)
  BY <1>3 DEF Misread, Fault, IInv, Typed
<1> QED BY <1>1, <1>2, <1>3 DEF StoreInfo

LEMMA UploadBooks ==
    ASSUME IInv, CountsOK, Orderly, faults' = faults, NEW c \in Programs,
           UploadFile(c)
    PROVE  CountsOK'
<1>1. CASE ReuseCount(c, "UploadCount", "UploadOwned", "StoreBlob")
  BY <1>1, ReuseBooks DEF Debts
<1>2. CASE ReuseOwned(c, "UploadOwned")
  BY <1>2, ReuseBooks
<1>3. CASE StoreBlob(c)
  BY <1>3, MergeCalm, CalmStep DEF IInv
<1> QED BY <1>1, <1>2, <1>3, StoreBooks, BindBooks DEF UploadFile

LEMMA MergeBooks ==
    ASSUME IInv, CountsOK, Orderly, faults' = faults, NEW c \in Programs,
           Merge(c)
    PROVE  CountsOK'
<1>1. CASE \/ MergeLocked(c) \/ MergeVerify(c) \/ MergePart(c)
           \/ MergeClean(c) \/ MergeUnlink(c) \/ MergeForget(c)
           \/ MergeRelease(c)
  BY <1>1, MergeCalm, CalmStep DEF IInv
<1>2. CASE ReuseCount(c, "MergeCount", "MergeOwned", "MergeVerify")
  BY <1>2, ReuseBooks DEF Debts
<1>3. CASE ReuseOwned(c, "MergeOwned")
  BY <1>3, ReuseBooks
<1>4. CASE AppendFails(c) \/ StatementFails(c) \/ OwnedUnread(c)
  BY <1>4
  DEF AppendFails, StatementFails, OwnedUnread, Misread, Fault, IInv, Typed
<1> QED BY <1>1, <1>2, <1>3, <1>4, StoreBooks, BindBooks DEF Merge

----------------------------------------------------------------------------
(* Shared pictures.                                                        *)

LEMMA LinksMore ==
    ASSUME LinksOK, NEW p, \A q \in pictures : q.id # p.id,
           \A r \in arriving : p.id # r.no,
           pictures' = pictures \cup {p}, arriving' = arriving, ~Twins'
    PROVE  LinksOK'
<1>1. IsFiniteSet(pictures')
  BY FS_AddElement DEF LinksOK
<1>2. \A q, t \in pictures' : q.user = t.user /\ q.url = t.url => q = t
  BY DEF Twins
<1> QED BY <1>1, <1>2 DEF LinksOK

LEMMA LinksFewer ==
    ASSUME LinksOK, pictures' \subseteq pictures, arriving' = arriving
    PROVE  LinksOK'
<1>1. IsFiniteSet(pictures')
  BY FS_Subset DEF LinksOK
<1> QED BY <1>1 DEF LinksOK

LEMMA PictureInsertBooks ==
    ASSUME NEW c, NEW s, NEW f, NEW u, NEW n, NEW i, NEW rows,
           Turn(c, s, f, u, n, i, rows), PictureInsert(c), ~Twins'
    PROVE  CountsOK'
<1>0. PICK url \in Urls(c) : pictures' = pictures \cup
        {[id |-> n, user |-> u, file |-> f, url |-> url, views |-> 0]}
  BY DEF PictureInsert, Turn, Asks
<1>1. PICK p : p = [id |-> n, user |-> u, file |-> f, url |-> url, views |-> 0]
  OBVIOUS
<1>2. /\ s = "PictureInsert" /\ pictures' = pictures \cup {p}
      /\ GoTo(c, "PictureRead")
      /\ info' = info /\ owned' = owned /\ pictureCount' = pictureCount
      /\ arriving' = arriving /\ SameRelation
  BY <1>0, <1>1 DEF PictureInsert, At, Turn, Asks, SameRelation, fileTables
<1>3. /\ Books(s, f, u, n, i, rows) /\ LinksOK /\ IsFiniteSet(pictures)
      /\ f \in Files /\ u \in Users /\ Typed
  BY BooksNow
<1>4. /\ InfoBook(f, 0) /\ OwnedBook(u, 0) /\ PictureBook(u, 0)
      /\ \A q \in pictures : q.id # n
  BY <1>2, <1>3 DEF Books, Knows, InfoDue, OwnedDue, PictureDue
<1>5. p.file = f /\ p.user = u /\ p.id = n /\ p \notin pictures
  BY <1>1, <1>4
<1>6. Shift(f, 1, u, 0, 1)
  BY <1>2, <1>3, <1>5, GainsPicture
<1>7. 0 \in Int /\ 1 \in Int /\ -1 \in Int /\ 0 = 1 + -1 /\ 0 = 0 + 0
  OBVIOUS
<1>8. InfoBook(f, -1)' /\ OwnedBook(u, 0)' /\ PictureBook(u, -1)'
  BY <1>2, <1>3, <1>4, <1>6, <1>7, InfoKept, OwnedKept, PictureKept
<1>9. \A r \in arriving : n # r.no
  BY DEF Turn, Asks, IInv, NumbersOK, Numbers, Busy
<1>10. LinksOK'
  BY <1>2, <1>3, <1>4, <1>5, <1>9, LinksMore
<1>11. OthersWait(c) /\ Asks(c, "PictureRead", f, u, n, i, {})'
  BY <1>2, AsksNext
<1>12. Books("PictureRead", f, u, n, i, {})'
  BY <1>8 DEF Books, Knows, InfoDue, OwnedDue, PictureDue
<1> QED BY <1>10, <1>11, <1>12, BooksGo

\* A picture whose file has no row is refused after its row was inserted.
LEMMA PictureReadBooks ==
    ASSUME NEW c, NEW s, NEW f, NEW u, NEW n, NEW i, NEW rows,
           Turn(c, s, f, u, n, i, rows), PictureRead(c), req'[c] # Idle
    PROVE  CountsOK'
<1>1. s = "PictureRead" /\ OnlyReq
  BY DEF PictureRead, At, Turn, Asks
<1>2. SameBooks
  BY <1>1, OnlySame
<1>3. info[f] # {} /\ Reads(c, "PictureCount", Counts(info[f]))
  BY EndsNext DEF PictureRead, Turn, Asks
<1>4. PICK x : x = Counts(info[f]) /\ x = Counts(info'[f])
  BY <1>2 DEF SameBooks
<1>5. x # {}
  BY <1>3, <1>4 DEF Counts
<1>6. OthersWait(c) /\ Asks(c, "PictureCount", f, u, n, i, x)'
  <2>1. Reads(c, "PictureCount", x)
    BY <1>3, <1>4, Zenon
  <2> QED BY <2>1, AsksNext
<1>7. Knows("PictureCount", f, u, n, i, x)'
  BY <1>4, <1>5 DEF Knows
<1>8. /\ InfoDue("PictureCount") = InfoDue(s)
      /\ OwnedDue("PictureCount") = OwnedDue(s)
      /\ PictureDue("PictureCount") = PictureDue(s)
  BY <1>1 DEF InfoDue, OwnedDue, PictureDue
<1> QED BY <1>2, <1>6, <1>7, <1>8, StaysGo

LEMMA PictureCountBooks ==
    ASSUME NEW c, NEW s, NEW f, NEW u, NEW n, NEW i, NEW rows,
           Turn(c, s, f, u, n, i, rows), PictureCount(c)
    PROVE  CountsOK'
<1>1. s = "PictureCount" /\ info' = [info EXCEPT ![f] =
                                       SetCount(@, Only(rows) + 1)]
      /\ GoTo(c, "PictureReadOwn") /\ UNCHANGED <<relation, owned>>
      /\ OnlyFiles
  BY DEF PictureCount, At, Turn, Asks
<1>2. /\ Books(s, f, u, n, i, rows) /\ LinksOK /\ IsFiniteSet(pictures)
      /\ f \in Files /\ u \in Users /\ Typed /\ TablesOK
  BY BooksNow
<1>3. /\ InfoBook(f, -1) /\ OwnedBook(u, 0) /\ PictureBook(u, -1)
      /\ rows = Counts(info[f]) /\ rows # {}
  BY <1>1, <1>2 DEF Books, Knows, InfoDue, OwnedDue, PictureDue
<1>4. /\ SameRelation /\ pictures' = pictures /\ owned' = owned
      /\ pictureCount' = pictureCount /\ arriving' = arriving
  BY <1>1 DEF SameRelation, OnlyFiles, pictureTables
<1>5. Shift(f, 0, u, 0, 0)
  BY <1>2, <1>4, NoShift
<1>6. 0 \in Int /\ -1 \in Int /\ 0 = 0 + 0 /\ -1 = 0 + -1
  OBVIOUS
<1>7. OwnedBook(u, 0)' /\ PictureBook(u, -1)' /\ LinksOK'
  BY <1>2, <1>3, <1>4, <1>5, <1>6, OwnedKept, PictureKept, LinksKept
<1>8. PICK k : k = Refs(f) - 1 /\ k \in Int
  BY <1>2, Sizes
<1>9. Number(Counts(info[f]), k)
  BY <1>2, <1>3, <1>8, Sizes DEF InfoBook
<1>10. info[f] \in Rows(InfoRow) /\ info[f] # {}
  BY <1>2, <1>3 DEF TablesOK, Counts
<1>11. Only(rows) = k /\ Counts(SetCount(info[f], k + 1)) = {k + 1}
  BY <1>3, <1>8, <1>9, <1>10, ExactCount
<1>12. PICK new : new = SetCount(info[f], k + 1)
  OBVIOUS
<1>13. info' = [info EXCEPT ![f] = new] /\ Number(Counts(new), k + 1)
       /\ k + 1 = Refs(f) + 0 + 0
  BY <1>1, <1>2, <1>8, <1>11, <1>12, Sizes DEF Number
<1>14. InfoBook(f, 0)'
  BY <1>2, <1>3, <1>5, <1>6, <1>13, InfoWritten
<1>15. OthersWait(c) /\ Asks(c, "PictureReadOwn", f, u, n, i, {})'
  BY <1>1, AsksNext
<1>16. Books("PictureReadOwn", f, u, n, i, {})'
  BY <1>7, <1>14 DEF Books, Knows, InfoDue, OwnedDue, PictureDue
<1> QED BY <1>7, <1>15, <1>16, BooksGo

LEMMA PictureReadOwnBooks ==
    ASSUME NEW c, NEW s, NEW f, NEW u, NEW n, NEW i, NEW rows,
           Turn(c, s, f, u, n, i, rows), PictureReadOwn(c)
    PROVE  CountsOK'
<1>1. s = "PictureReadOwn" /\ Reads(c, "PictureWriteOwn", pictureCount[u])
      /\ OnlyReq
  BY DEF PictureReadOwn, At, Turn, Asks
<1>2. SameBooks
  BY <1>1, OnlySame
<1>3. PICK x : x = pictureCount[u] /\ x = pictureCount'[u]
  BY <1>2 DEF SameBooks
<1>4. OthersWait(c) /\ Asks(c, "PictureWriteOwn", f, u, n, i, x)'
  <2>1. Reads(c, "PictureWriteOwn", x)
    BY <1>1, <1>3, Zenon
  <2> QED BY <2>1, AsksNext
<1>5. Knows("PictureWriteOwn", f, u, n, i, x)'
  BY <1>3 DEF Knows
<1>6. /\ InfoDue("PictureWriteOwn") = InfoDue(s)
      /\ OwnedDue("PictureWriteOwn") = OwnedDue(s)
      /\ PictureDue("PictureWriteOwn") = PictureDue(s)
  BY <1>1 DEF InfoDue, OwnedDue, PictureDue
<1> QED BY <1>2, <1>4, <1>5, <1>6, StaysGo

LEMMA PictureWriteOwnBooks ==
    ASSUME NEW c, NEW s, NEW f, NEW u, NEW n, NEW i, NEW rows,
           Turn(c, s, f, u, n, i, rows), PictureWriteOwn(c)
    PROVE  CountsOK'
<1>1. s = "PictureWriteOwn"
      /\ pictureCount' = [pictureCount EXCEPT ![u] = CountedUp(@, rows)]
      /\ Ends(c)
      /\ UNCHANGED <<fileTables, shareTables, pictures, public, stored,
                     arriving, faults>>
  BY DEF PictureWriteOwn, At, Turn, Asks
<1>2. /\ Books(s, f, u, n, i, rows) /\ LinksOK /\ IsFiniteSet(pictures)
      /\ f \in Files /\ u \in Users /\ Typed /\ TablesOK
  BY BooksNow
<1>3. /\ InfoBook(f, 0) /\ OwnedBook(u, 0) /\ PictureBook(u, -1)
      /\ rows = pictureCount[u]
  BY <1>1, <1>2 DEF Books, Knows, InfoDue, OwnedDue, PictureDue
<1>4. /\ SameRelation /\ pictures' = pictures /\ info' = info
      /\ owned' = owned /\ arriving' = arriving
  BY <1>1 DEF SameRelation, fileTables
<1>5. Shift(f, 0, u, 0, 0)
  BY <1>2, <1>4, NoShift
<1>6. 0 \in Int /\ -1 \in Int /\ 0 = 0 + 0
  OBVIOUS
<1>7. InfoBook(f, 0)' /\ OwnedBook(u, 0)' /\ LinksOK'
  BY <1>2, <1>3, <1>4, <1>5, <1>6, InfoKept, OwnedKept, LinksKept
<1>8. PICK k : k = Shown(u) - 1 /\ k \in Int /\ Number(pictureCount[u], k)
  BY <1>2, <1>3, Sizes DEF PictureBook
<1>9. pictureCount[u] \in Rows(Nat)
  BY <1>2 DEF TablesOK
<1>10. Number(CountedUp(pictureCount[u], pictureCount[u]), k + 1)
  BY <1>8, <1>9, ExactUp
<1>11. PICK new : new = CountedUp(pictureCount[u], pictureCount[u])
  OBVIOUS
<1>12. pictureCount' = [pictureCount EXCEPT ![u] = new]
       /\ Number(new, k + 1)
  BY <1>1, <1>3, <1>10, <1>11
<1>13. k + 1 = Shown(u) + 0 + 0
  BY <1>2, <1>8, Sizes
<1>14. PictureBook(u, 0)'
  BY <1>2, <1>3, <1>5, <1>6, <1>12, <1>13, PictureWritten
<1>15. OthersWait(c) /\ req'[c] = Idle
  BY <1>1, EndsNext
<1> QED BY <1>7, <1>14, <1>15, BooksEnd

\* The link that a cancel has found.
Found(f, u, i) == \E p \in pictures : p.url = i /\ p.user = u /\ p.file = f

LEMMA FoundStays ==
    ASSUME NEW f, NEW u, NEW i, Found(f, u, i), pictures' = pictures
    PROVE  Found(f, u, i)'
  BY DEF Found

LEMMA DropFindBooks ==
    ASSUME NEW c, NEW s, NEW f, NEW u, NEW n, NEW i, NEW rows,
           Turn(c, s, f, u, n, i, rows), DropFind(c)
    PROVE  CountsOK'
<1>1. s = "DropFind" /\ OnlyReq
  BY DEF DropFind, At, Turn, Asks
<1>2. SameBooks /\ Light(s)
  BY <1>1, OnlySame DEF Light, InfoDue, OwnedDue, PictureDue
<1>3. RequestsOK /\ req[c] # Idle /\ c \in Programs
  BY BooksNow DEF Turn, Asks
<1>4. CASE OwnLink(c) = {}
  <2>1. Free(c)
    BY <1>3, <1>4, FreeSteps DEF DropFind
  <2> QED BY <1>2, <2>1, StaysFree
<1>5. CASE OwnLink(c) # {}
  <2>1. PICK p \in OwnLink(c) :
            req' = [req EXCEPT ![c].step = "DropReadOwn", ![c].file = p.file]
    BY <1>5 DEF DropFind
  <2>2. p \in pictures /\ p.url = i /\ p.user = u
    BY DEF OwnLink, Link, Turn, Asks
  <2>3. PICK g : g = p.file
    OBVIOUS
  <2>4. Finds(c, "DropReadOwn", g, rows)
    BY <1>3, <2>1, <2>3, FindSteps DEF Turn, Asks
  <2>5. OthersWait(c) /\ Asks(c, "DropReadOwn", g, u, n, i, rows)'
    BY <2>4, AsksNext DEF Finds
  <2>6. /\ LinksOK' /\ InfoBook(f, 0)' /\ OwnedBook(u, 0)'
        /\ PictureBook(u, 0)'
    BY <1>2, BooksStay DEF Light
  <2>7. InfoBook(g, 0)'
    BY <2>6, ZeroBooksNext
  <2>8. pictures' = pictures
    BY <1>2 DEF SameBooks
  <2>9. Found(g, u, i)'
    BY <2>2, <2>3, <2>8 DEF Found
  <2>10. Books("DropReadOwn", g, u, n, i, rows)'
    BY <2>6, <2>7, <2>9 DEF Books, Knows, Found, InfoDue, OwnedDue, PictureDue
  <2> QED BY <2>5, <2>6, <2>10, BooksGo
<1> QED BY <1>4, <1>5

LEMMA DropReadOwnBooks ==
    ASSUME NEW c, NEW s, NEW f, NEW u, NEW n, NEW i, NEW rows,
           Turn(c, s, f, u, n, i, rows), DropReadOwn(c)
    PROVE  CountsOK'
<1>1. s = "DropReadOwn" /\ OnlyReq
  BY DEF DropReadOwn, At, Turn, Asks
<1>2. SameBooks /\ Light(s)
  BY <1>1, OnlySame DEF Light, InfoDue, OwnedDue, PictureDue
<1>3. RequestsOK /\ req[c] # Idle /\ c \in Programs
      /\ Books(s, f, u, n, i, rows)
  BY BooksNow DEF Turn, Asks
<1>4. CASE Ends(c)
  BY <1>2, <1>3, <1>4, FreeSteps, StaysFree
<1>5. CASE Reads(c, "DropWriteOwn", pictureCount[u])
  <2>1. PICK x : x = pictureCount[u] /\ x = pictureCount'[u]
    BY <1>2 DEF SameBooks
  <2>2. OthersWait(c) /\ Asks(c, "DropWriteOwn", f, u, n, i, x)'
    <3>1. Reads(c, "DropWriteOwn", x)
      BY <1>5, <2>1, Zenon
    <3> QED BY <3>1, AsksNext
  <2>3. Found(f, u, i)
    BY <1>1, <1>3 DEF Books, Knows, Found
  <2>4. Found(f, u, i)'
    BY <1>2, <2>3, FoundStays DEF SameBooks
  <2>5. Knows("DropWriteOwn", f, u, n, i, x)'
    BY <2>1, <2>4 DEF Knows, Found
  <2>6. /\ InfoDue("DropWriteOwn") = InfoDue(s)
        /\ OwnedDue("DropWriteOwn") = OwnedDue(s)
        /\ PictureDue("DropWriteOwn") = PictureDue(s)
    BY <1>1 DEF InfoDue, OwnedDue, PictureDue
  <2> QED BY <1>2, <2>2, <2>5, <2>6, StaysGo
<1> QED BY <1>4, <1>5 DEF DropReadOwn, Turn, Asks

LEMMA DropWriteOwnBooks ==
    ASSUME NEW c, NEW s, NEW f, NEW u, NEW n, NEW i, NEW rows,
           Turn(c, s, f, u, n, i, rows), DropWriteOwn(c)
    PROVE  CountsOK'
<1>1. s = "DropWriteOwn"
      /\ pictureCount' = [pictureCount EXCEPT ![u] =
                            IF 0 \in rows THEN @ ELSE {m - 1 : m \in rows}]
      /\ GoTo(c, "DropRead")
      /\ UNCHANGED <<fileTables, shareTables, pictures, public, stored,
                     arriving, faults>>
  BY DEF DropWriteOwn, At, Turn, Asks
<1>2. /\ Books(s, f, u, n, i, rows) /\ LinksOK /\ IsFiniteSet(pictures)
      /\ f \in Files /\ u \in Users /\ Typed /\ TablesOK
  BY BooksNow
<1>3. /\ InfoBook(f, 0) /\ OwnedBook(u, 0) /\ PictureBook(u, 0)
      /\ rows = pictureCount[u] /\ Found(f, u, i)
  BY <1>1, <1>2 DEF Books, Knows, Found, InfoDue, OwnedDue, PictureDue
<1>4. /\ SameRelation /\ pictures' = pictures /\ info' = info
      /\ owned' = owned /\ arriving' = arriving
  BY <1>1 DEF SameRelation, fileTables
<1>5. Shift(f, 0, u, 0, 0)
  BY <1>2, <1>4, NoShift
<1>6. 0 \in Int /\ -1 \in Int /\ 0 = 0 + 0
  OBVIOUS
<1>7. InfoBook(f, 0)' /\ OwnedBook(u, 0)' /\ LinksOK'
  BY <1>2, <1>3, <1>4, <1>5, <1>6, InfoKept, OwnedKept, LinksKept
<1>8. Shown(u) > 0
  <2> PICK p \in pictures : p.user = u
    BY <1>3 DEF Found
  <2> QED BY <1>2, Linked
<1>9. PICK k : k = Shown(u) /\ k \in Int /\ k > 0
               /\ Number(pictureCount[u], k)
  BY <1>2, <1>3, <1>8, Sizes DEF PictureBook
<1>10. pictureCount[u] \in Rows(Nat)
  BY <1>2 DEF TablesOK
<1>11. 0 \notin pictureCount[u]
       /\ Number({m - 1 : m \in pictureCount[u]}, k - 1)
  BY <1>9, <1>10, ExactDown
<1>12. PICK new : new = {m - 1 : m \in pictureCount[u]}
  OBVIOUS
<1>13. pictureCount' = [pictureCount EXCEPT ![u] = new]
       /\ Number(new, k - 1)
  BY <1>1, <1>3, <1>11, <1>12
<1>14. k - 1 = Shown(u) + 0 + -1
  BY <1>9
<1>15. PictureBook(u, -1)'
  BY <1>2, <1>3, <1>5, <1>6, <1>13, <1>14, PictureWritten
<1>16. OthersWait(c) /\ Asks(c, "DropRead", f, u, n, i, {})'
  BY <1>1, AsksNext
<1>17. Found(f, u, i)'
  BY <1>3, <1>4, FoundStays
<1>18. Books("DropRead", f, u, n, i, {})'
  BY <1>7, <1>15, <1>17 DEF Books, Knows, Found, InfoDue, OwnedDue, PictureDue
<1> QED BY <1>7, <1>16, <1>18, BooksGo

LEMMA DropReadBooks ==
    ASSUME NEW c, NEW s, NEW f, NEW u, NEW n, NEW i, NEW rows,
           Turn(c, s, f, u, n, i, rows), DropRead(c)
    PROVE  CountsOK'
<1>1. s = "DropRead" /\ OnlyReq /\ Reads(c, "DropCount", info[f])
  BY DEF DropRead, At, Turn, Asks
<1>2. SameBooks /\ Books(s, f, u, n, i, rows)
  BY <1>1, OnlySame, BooksNow
<1>3. PICK x : x = info[f] /\ x = info'[f]
  BY <1>2 DEF SameBooks
<1>4. OthersWait(c) /\ Asks(c, "DropCount", f, u, n, i, x)'
  <2>1. Reads(c, "DropCount", x)
    BY <1>1, <1>3, Zenon
  <2> QED BY <2>1, AsksNext
<1>5. Found(f, u, i)
  BY <1>1, <1>2 DEF Books, Knows, Found
<1>6. Found(f, u, i)'
  BY <1>2, <1>5, FoundStays DEF SameBooks
<1>7. Knows("DropCount", f, u, n, i, x)'
  BY <1>3, <1>6 DEF Knows, Found
<1>8. /\ InfoDue("DropCount") = InfoDue(s)
      /\ OwnedDue("DropCount") = OwnedDue(s)
      /\ PictureDue("DropCount") = PictureDue(s)
  BY <1>1 DEF InfoDue, OwnedDue, PictureDue
<1> QED BY <1>2, <1>4, <1>7, <1>8, StaysGo

LEMMA DropCountBooks ==
    ASSUME NEW c, NEW s, NEW f, NEW u, NEW n, NEW i, NEW rows,
           Turn(c, s, f, u, n, i, rows), DropCount(c)
    PROVE  CountsOK'
<1>1. s = "DropCount"
      /\ info' = [info EXCEPT ![f] = IF \E r \in rows : r.count > 0
                      THEN SetCount(@, Only(rows).count - 1) ELSE @]
      /\ req' = [req EXCEPT ![c].step = "DropRow"]
      /\ UNCHANGED <<relation, owned>> /\ OnlyFiles
  BY DEF DropCount, At, Turn, Asks
<1>2. /\ Books(s, f, u, n, i, rows) /\ LinksOK /\ IsFiniteSet(pictures)
      /\ f \in Files /\ u \in Users /\ Typed /\ TablesOK
  BY BooksNow
<1>3. /\ InfoBook(f, 0) /\ OwnedBook(u, 0) /\ PictureBook(u, -1)
      /\ rows = info[f] /\ Found(f, u, i)
  BY <1>1, <1>2 DEF Books, Knows, Found, InfoDue, OwnedDue, PictureDue
<1>4. /\ SameRelation /\ pictures' = pictures /\ owned' = owned
      /\ pictureCount' = pictureCount /\ arriving' = arriving
  BY <1>1 DEF SameRelation, OnlyFiles, pictureTables
<1>5. Shift(f, 0, u, 0, 0) /\ \A g \in Files : Refs(g)' = Refs(g)
  BY <1>2, <1>4, NoShift
<1>6. 0 \in Int /\ -1 \in Int /\ 0 = 0 + 0 /\ -1 = 0 + -1
  OBVIOUS
<1>7. OwnedBook(u, 0)' /\ PictureBook(u, -1)' /\ LinksOK'
  BY <1>2, <1>3, <1>4, <1>5, <1>6, OwnedKept, PictureKept, LinksKept
<1>8. Refs(f) > 0
  <2> PICK p \in pictures : p.file = f
    BY <1>3 DEF Found
  <2> QED BY <1>2, Linked
<1>9. PICK k : k = Refs(f) /\ k \in Int /\ k > 0 /\ Number(Counts(info[f]), k)
  BY <1>2, <1>3, <1>8, Sizes DEF InfoBook
<1>10. info[f] \in Rows(InfoRow) /\ info[f] # {}
  <2>1. Counts(info[f]) # {}
    BY <1>9 DEF Number
  <2> QED BY <1>2, <2>1 DEF TablesOK, Counts
<1>11. PICK r \in InfoRow : info[f] = {r} /\ r.count = k
  BY <1>9, <1>10, ExactCount
<1>12. Counts(SetCount(info[f], k - 1)) = {k - 1}
  BY <1>9, <1>10, ExactCount
<1>13. Only(rows) = r /\ \E q \in rows : q.count > 0
  BY <1>3, <1>9, <1>11, OnlyOne
<1>14. PICK new : new = SetCount(info[f], k - 1)
  OBVIOUS
<1>15. info' = [info EXCEPT ![f] = new] /\ Number(Counts(new), k - 1)
       /\ k - 1 = Refs(f) + 0 + -1
  <2>1. Only(rows).count = k
    BY <1>11, <1>13, Zenon
  <2>2. info' = [info EXCEPT ![f] = new]
    BY <1>1, <1>13, <1>14, <2>1
  <2>3. Counts(new) = {k - 1}
    BY <1>12, <1>14, Zenon
  <2> QED BY <1>9, <2>2, <2>3 DEF Number
<1>16. InfoBook(f, -1)'
  BY <1>2, <1>3, <1>5, <1>6, <1>15, InfoWritten
<1>17. OthersWait(c) /\ Asks(c, "DropRow", f, u, n, i, rows)'
  BY <1>1, AsksNext
<1>18. Found(f, u, i)'
  BY <1>3, <1>4, FoundStays
<1>19. \E q : rows = {q} /\ q.count = Refs(f)'
  BY <1>2, <1>3, <1>5, <1>9, <1>11
<1>20. Knows("DropRow", f, u, n, i, rows)'
  BY <1>18, <1>19 DEF Knows, Found
<1>21. Books("DropRow", f, u, n, i, rows)'
  BY <1>7, <1>16, <1>20 DEF Books, InfoDue, OwnedDue, PictureDue
<1> QED BY <1>7, <1>17, <1>21, BooksGo

LEMMA DropRowBooks ==
    ASSUME NEW c, NEW s, NEW f, NEW u, NEW n, NEW i, NEW rows,
           Turn(c, s, f, u, n, i, rows), DropRow(c)
    PROVE  CountsOK'
<1>1. /\ Books(s, f, u, n, i, rows) /\ LinksOK /\ IsFiniteSet(pictures)
      /\ f \in Files /\ u \in Users /\ Typed /\ TablesOK /\ ~Fault
  BY BooksNow
<1>2. /\ s = "DropRow" /\ pictures' = pictures \ OwnLink(c)
      /\ info' = info /\ owned' = owned /\ pictureCount' = pictureCount
      /\ arriving' = arriving /\ SameRelation
  BY <1>1 DEF DropRow, At, Turn, Asks, SameRelation, fileTables
<1>3. /\ InfoBook(f, -1) /\ OwnedBook(u, 0) /\ PictureBook(u, -1)
      /\ Found(f, u, i) /\ \E r : rows = {r} /\ r.count = Refs(f)
  BY <1>1, <1>2 DEF Books, Knows, Found, InfoDue, OwnedDue, PictureDue
<1>4. PICK p \in pictures : p.url = i /\ p.user = u /\ p.file = f
  BY <1>3 DEF Found
<1>5. OwnLink(c) = {p}
  BY <1>1, <1>4 DEF OwnLink, Link, LinksOK, Turn, Asks
<1>6. pictures' = pictures \ {p}
  BY <1>2, <1>5
<1>7. Shift(f, -1, u, 0, -1)
  BY <1>1, <1>2, <1>4, <1>6, LosesPicture
<1>8. 0 \in Int /\ -1 \in Int /\ 0 = 0 + 0 /\ -1 = -1 + 0
  OBVIOUS
<1>9. InfoBook(f, 0)' /\ OwnedBook(u, 0)' /\ PictureBook(u, 0)'
  BY <1>1, <1>2, <1>3, <1>7, <1>8, InfoKept, OwnedKept, PictureKept
<1>10. LinksOK'
  BY <1>1, <1>2, LinksFewer
<1>11. CASE LastUse(rows)
  <2>1. Refs(f) <= 1 /\ Refs(f) > 0 /\ Refs(f) \in Nat
    <3>1. Refs(f) <= 1
      BY <1>3, <1>11 DEF LastUse
    <3> QED BY <1>1, <1>4, <3>1, Linked, Sizes
  <2>2. Refs(f)' = Refs(f) + -1
    BY <1>1, <1>7 DEF Shift
  <2>3. Refs(f)' = 0
    BY <2>1, <2>2
  <2>4. PICK x : x = {r.blob : r \in rows}
    OBVIOUS
  <2>5. Reads(c, "DropInfo", x)
    BY <1>11, <2>4 DEF DropRow, Reads, Turn, Asks
  <2>6. OthersWait(c) /\ Asks(c, "DropInfo", f, u, n, i, x)'
    BY <2>5, AsksNext
  <2>7. Books("DropInfo", f, u, n, i, x)'
    BY <1>9, <2>3 DEF Books, Knows, InfoDue, OwnedDue, PictureDue
  <2> QED BY <1>10, <2>6, <2>7, BooksGo
<1>12. CASE ~LastUse(rows)
  <2>1. Ends(c)
    BY <1>12 DEF DropRow, Turn, Asks
  <2>2. OthersWait(c) /\ req'[c] = Idle
    BY <2>1, EndsNext
  <2> QED BY <1>9, <1>10, <2>2, BooksEnd
<1> QED BY <1>11, <1>12

LEMMA Image ==
    ASSUME NEW S, IsFiniteSet(S), NEW h, NEW T, T = {h[x] : x \in S},
           \A x, y \in S : h[x] = h[y] => x = y
    PROVE  IsFiniteSet(T) /\ Cardinality(T) = Cardinality(S)
<1>1. PICK g : g = [x \in S |-> h[x]]
  OBVIOUS
<1>2. /\ g \in [S -> T]
      /\ \A x, y \in S : g[x] = g[y] => x = y
      /\ \A t \in T : \E x \in S : g[x] = t
  BY <1>1
<1>3. g \in Bijection(S, T)
  BY <1>2 DEF Bijection, Injection, Surjection, IsInjective
<1> QED BY <1>3, FS_Bijection DEF ExistsBijection

\* Rows of links are written over, by row.
LEMMA RewritesPictures ==
    ASSUME Typed, LinksOK, NEW h,
           \A p \in pictures : /\ h[p].id = p.id /\ h[p].user = p.user
                               /\ h[p].file = p.file /\ h[p].url = p.url,
           pictures' = {h[p] : p \in pictures}, SameRelation,
           arriving' = arriving, NEW f, NEW u
    PROVE  Shift(f, 0, u, 0, 0) /\ LinksOK'
<1>1. IsFiniteSet(pictures) /\ \A p, q \in pictures : h[p] = h[q] => p = q
  BY DEF LinksOK
<1>2. IsFiniteSet(pictures')
  BY <1>1, Image
<1>3. LinksOK'
  BY <1>2 DEF LinksOK
<1>4. ASSUME NEW S, S \subseteq pictures, IsFiniteSet(S), NEW T,
             T = {h[p] : p \in S}
      PROVE  Cardinality(T) = Cardinality(S)
  BY <1>1, <1>4, Image
<1>5. \A g \in Files : Refs(g)' = Refs(g) /\ Refs(g) \in Nat
  <2> TAKE g \in Files
  <2>1. Owners(g)' = Owners(g)
    BY DEF Owners, SameRelation
  <2>2. PICK S, T : S = Links(g) /\ T = Links(g)'
    OBVIOUS
  <2>3. S \subseteq pictures /\ T = {h[p] : p \in S}
    BY <2>2 DEF Links
  <2>4. Cardinality(T) = Cardinality(S)
    BY <1>1, <1>4, <2>2, <2>3, Sizes
  <2> QED BY <1>1, <2>1, <2>2, <2>4, Sizes DEF Refs
<1>6. \A v \in Users : /\ Held(v)' = Held(v) /\ Held(v) \in Nat
                       /\ Shown(v)' = Shown(v) /\ Shown(v) \in Nat
  <2> TAKE v \in Users
  <2>1. FilesOf(v)' = FilesOf(v)
    BY DEF FilesOf, Owners, SameRelation
  <2>2. PICK S, T : S = PicturesOf(v) /\ T = PicturesOf(v)'
    OBVIOUS
  <2>3. S \subseteq pictures /\ T = {h[p] : p \in S}
    BY <2>2 DEF PicturesOf
  <2>4. Cardinality(T) = Cardinality(S)
    BY <1>1, <1>4, <2>2, <2>3, Sizes
  <2> QED BY <1>1, <2>1, <2>2, <2>4, Sizes DEF Held, Shown
<1> QED BY <1>3, <1>5, <1>6 DEF Shift

LEMMA BrowseWriteBooks ==
    ASSUME NEW c, NEW s, NEW f, NEW u, NEW n, NEW i, NEW rows,
           Turn(c, s, f, u, n, i, rows), BrowseWrite(c)
    PROVE  CountsOK'
<1>1. /\ s = "BrowseWrite" /\ Ends(c)
      /\ info' = info /\ owned' = owned /\ pictureCount' = pictureCount
      /\ arriving' = arriving /\ SameRelation
  BY DEF BrowseWrite, At, Turn, Asks, SameRelation, fileTables
<1>2. /\ Books(s, f, u, n, i, rows) /\ LinksOK /\ IsFiniteSet(pictures)
      /\ f \in Files /\ u \in Users /\ Typed /\ TablesOK
  BY BooksNow
<1>3. InfoBook(f, 0) /\ OwnedBook(u, 0) /\ PictureBook(u, 0)
  BY <1>1, <1>2 DEF Books, Knows, InfoDue, OwnedDue, PictureDue
<1>4. PICK v : v = Only(rows) + 1
  OBVIOUS
<1>5. pictures' = (pictures \ Link(c)) \cup {[p EXCEPT !.views = v] : p \in Link(c)}
  BY <1>4 DEF BrowseWrite, Turn, Asks
<1>6. Shift(f, 0, u, 0, 0) /\ LinksOK'
  <2>1. PICK h : h = [p \in pictures |->
                        IF p \in Link(c) THEN [p EXCEPT !.views = v] ELSE p]
    OBVIOUS
  <2>2. ASSUME NEW p \in pictures
        PROVE  /\ h[p].id = p.id /\ h[p].user = p.user
               /\ h[p].file = p.file /\ h[p].url = p.url
    BY <1>2, <2>1 DEF TablesOK, PictureRow
  <2>3. pictures' = {h[p] : p \in pictures}
    BY <1>5, <2>1 DEF Link
  <2> QED BY <1>1, <1>2, <2>2, <2>3, RewritesPictures
<1>7. 0 \in Int /\ 0 = 0 + 0
  OBVIOUS
<1>8. InfoBook(f, 0)' /\ OwnedBook(u, 0)' /\ PictureBook(u, 0)'
  BY <1>1, <1>2, <1>3, <1>6, <1>7, InfoKept, OwnedKept, PictureKept
<1>9. OthersWait(c) /\ req'[c] = Idle
  BY <1>1, EndsNext
<1> QED BY <1>6, <1>8, <1>9, BooksEnd

LEMMA PicturesBooks ==
    ASSUME IInv, CountsOK, Orderly, faults' = faults, NEW c \in Programs,
           SharePicture(c) \/ CancelPicture(c) \/ BrowsePicture(c),
           ~(At(c, "PictureRead") /\ req'[c] = Idle), ~Twins'
    PROVE  CountsOK'
<1>1. CASE DropBlob(c) \/ BrowseRead(c) \/ BrowseFile(c)
  BY <1>1, PicturesCalm, CalmStep DEF IInv
<1>2. CASE DropSkips(c)
  BY <1>2 DEF DropSkips, Skips, Fault, IInv, Typed
<1>3. CASE DropInfo(c)
  <2> PICK s, f, u, n, i, rows : Turn(c, s, f, u, n, i, rows)
    BY <1>3, Turns DEF DropInfo, At
  <2>1. /\ s = "DropInfo" /\ info' = [info EXCEPT ![f] = {}]
        /\ UNCHANGED <<relation, owned>> /\ OnlyFiles
        /\ req' = [req EXCEPT ![c].step = "DropBlob"]
        /\ "DropBlob" \notin Debts
    BY <1>3 DEF DropInfo, At, Turn, Asks, Debts
  <2> QED BY <2>1, RowGoesBooks
<1>4. CASE SharePicture(c)
  <2> PICK s, f, u, n, i, rows : Turn(c, s, f, u, n, i, rows)
    BY <1>4, Turns
    DEF SharePicture, PictureInsert, PictureRead, PictureCount,
        PictureReadOwn, PictureWriteOwn, At
  <2>1. CASE PictureRead(c)
    BY <2>1, PictureReadBooks DEF PictureRead
  <2> QED BY <1>4, <2>1, PictureInsertBooks, PictureCountBooks,
             PictureReadOwnBooks, PictureWriteOwnBooks DEF SharePicture
<1>5. CASE DropFind(c) \/ DropReadOwn(c) \/ DropWriteOwn(c) \/ DropRead(c)
           \/ DropCount(c) \/ DropRow(c)
  <2> PICK s, f, u, n, i, rows : Turn(c, s, f, u, n, i, rows)
    BY <1>5, Turns
    DEF DropFind, DropReadOwn, DropWriteOwn, DropRead, DropCount, DropRow, At
  <2> QED BY <1>5, DropFindBooks, DropReadOwnBooks, DropWriteOwnBooks,
             DropReadBooks, DropCountBooks, DropRowBooks
<1>6. CASE BrowseWrite(c)
  <2> PICK s, f, u, n, i, rows : Turn(c, s, f, u, n, i, rows)
    BY <1>6, Turns DEF BrowseWrite, At
  <2> QED BY <1>6, BrowseWriteBooks
<1> QED BY <1>1, <1>2, <1>3, <1>4, <1>5, <1>6 DEF CancelPicture, BrowsePicture

----------------------------------------------------------------------------
(* Requests that come, and the gateway.                                    *)

LEMMA AcceptBooks ==
    ASSUME IInv, CountsOK, Orderly, NEW c \in Programs, NEW ops,
           Accept(c, ops), \A o \in ops : o \notin Debts \ {"PictureInsert"},
           Cardinality(Busy') <= 1
    PROVE  CountsOK'
<1>1. PICK r \in arriving : /\ r.op \in ops /\ req[c] = Idle
                             /\ req' = [req EXCEPT ![c] = Serving(r)]
                             /\ arriving' = arriving \ {r}
  BY DEF Accept
<1>2. /\ SameRelation /\ pictures' = pictures /\ info' = info
      /\ owned' = owned /\ pictureCount' = pictureCount
  BY DEF Accept, SameRelation, fileTables, pictureTables
<1>3. /\ Typed /\ r \in Request /\ DOMAIN req = Programs
      /\ r.user \in Users /\ r.file \in Files
  BY DEF IInv, Typed, Arriving, Request, RequestsOK
<1>4. req'[c] = Serving(r) /\ \A d \in Programs \ {c} : req'[d] = req[d]
  BY <1>1, <1>3
<1>5. \A d, e \in Busy : d = e
  BY DEF CountsOK
<1>6. c \notin Busy
  BY <1>1 DEF Busy
<1>7. Busy = {}
  <2> SUFFICES ASSUME NEW d \in Busy PROVE FALSE
    OBVIOUS
  <2>1. Busy = {d} /\ d # c /\ d \in Programs
    BY <1>5, <1>6 DEF Busy
  <2>2. PICK B : B = Busy'
    OBVIOUS
  <2>3. d \in B /\ B \subseteq {c, d}
    BY <1>4, <2>1, <2>2 DEF Busy
  <2>4. CASE c \in B
    <3>1. B = {d} \cup {c} /\ c \notin {d}
      BY <2>1, <2>3, <2>4
    <3>2. IsFiniteSet({d}) /\ Cardinality({d}) = 1
      BY FS_Singleton
    <3>3. Cardinality(B) = 2
      BY <3>1, <3>2, OneMore
    <3> QED BY <2>2, <3>3
  <2>5. CASE c \notin B
    <3>1. Serving(r) = Idle
      BY <1>4, <2>2, <2>5 DEF Busy
    <3> QED BY <3>1 DEF Serving, Idle
  <2> QED BY <2>4, <2>5
<1>8. /\ LinksOK /\ IsFiniteSet(pictures)
      /\ InfoBook(r.file, 0) /\ OwnedBook(r.user, 0) /\ PictureBook(r.user, 0)
  BY <1>3, <1>7 DEF CountsOK, Balanced, LinksOK
<1>9. PICK f, u : f = r.file /\ u = r.user
  OBVIOUS
<1>10. Shift(f, 0, u, 0, 0)
  BY <1>2, <1>3, <1>8, NoShift
<1>11. 0 \in Int /\ 0 = 0 + 0 /\ InfoBook(f, 0) /\ OwnedBook(u, 0)
       /\ PictureBook(u, 0)
  BY <1>8, <1>9
<1>12. InfoBook(f, 0)' /\ OwnedBook(u, 0)' /\ PictureBook(u, 0)'
  BY <1>2, <1>3, <1>8, <1>10, <1>11, InfoKept, OwnedKept, PictureKept
<1>13. LinksOK'
  BY <1>1, <1>2, <1>8, LinksKept
<1>14. \A d \in Busy' : d = c
  BY <1>4, <1>7 DEF Busy
<1>15. PICK s, n, i : s = r.op /\ n = r.no /\ i = r.part
  OBVIOUS
<1>16. \A p \in pictures : p.id # n
  BY <1>8, <1>15 DEF LinksOK
<1>17. Books(s, f, u, n, i, {})'
  <2>1. CASE s \notin Debts
    BY <1>12, <2>1, NoDebtsNext
  <2>2. CASE s = "PictureInsert"
    BY <1>2, <1>12, <1>16, <2>2 DEF Books, Knows, InfoDue, OwnedDue, PictureDue
  <2> QED BY <1>1, <1>15, <2>1, <2>2
<1>18. Books(req[c].step, req[c].file, req[c].user, req[c].no, req[c].part,
             req[c].read)'
  <2>1. PICK q : q = Serving(r)
    OBVIOUS
  <2>2. /\ q.step = s /\ q.file = f /\ q.user = u
        /\ q.no = n /\ q.part = i /\ q.read = {}
    BY <1>9, <1>15, <2>1 DEF Serving
  <2>3. req'[c] = q
    BY <1>4, <2>1
  <2>4. /\ req'[c].step = s /\ req'[c].file = f /\ req'[c].user = u
        /\ req'[c].no = n /\ req'[c].part = i /\ req'[c].read = {}
    BY <2>2, <2>3, Zenon
  <2> QED BY <1>17, <2>4
          DEF Books, Knows, InfoBook, OwnedBook, PictureBook, InfoDue,
              OwnedDue, PictureDue
<1>19. c \in Busy'
  <2>1. Serving(r) # Idle
    BY DEF Serving, Idle
  <2> QED BY <1>4, <2>1 DEF Busy
<1> QED BY <1>13, <1>14, <1>18, <1>19 DEF CountsOK

\* A transaction of the gateway, when no request is served.
LEMMA GatewayBooks ==
    ASSUME CountsOK, Orderly, Busy = {}, req' = req, LinksOK', NEW f, NEW u,
           InfoBook(f, 0)', OwnedBook(u, 0)', PictureBook(u, 0)'
    PROVE  CountsOK'
<1>1. Busy' = {}
  BY DEF Busy
<1>2. Balanced'
  BY ZeroBooksNext DEF Balanced
<1> QED BY <1>1, <1>2 DEF CountsOK

LEMMA CommitBooks ==
    ASSUME IInv, CountsOK, Orderly, Busy = {}, V2Commit
    PROVE  CountsOK'
<1>1. PICK r \in arriving :
        /\ arriving' = arriving \ {r}
        /\ LET p == <<r.user, r.file>>
               new == relation[p] = {}
               legacy == \E i \in info[r.file] : i.blob # NoBlob
           IN  IF legacy \/ (~new /\ info[r.file] # {})
               THEN UNCHANGED fileTables
               ELSE /\ info' = [info EXCEPT ![r.file] =
                        IF @ = {} THEN {[count |-> 1, blob |-> NoBlob]}
                        ELSE {[i EXCEPT !.count = i.count + 1] : i \in @}]
                    /\ relation' = [relation EXCEPT ![p] =
                                        IF new THEN {NewRelation} ELSE @]
                    /\ owned' = [owned EXCEPT ![r.user] =
                                     IF new THEN CountedUp(@, @) ELSE @]
  BY DEF V2Commit, Arrives
<1>2. /\ pictures' = pictures /\ pictureCount' = pictureCount /\ req' = req
  BY DEF V2Commit, GatewayOnly, pictureTables
<1>3. PICK u, f : u = r.user /\ f = r.file
  OBVIOUS
<1>4. u \in Users /\ f \in Files /\ Typed /\ TablesOK
  BY <1>3 DEF IInv, Typed, Arriving, Request
<1>5. LinksOK /\ IsFiniteSet(pictures) /\ Balanced
  BY DEF CountsOK, LinksOK
<1>6. InfoBook(f, 0) /\ OwnedBook(u, 0) /\ PictureBook(u, 0)
  BY <1>4, <1>5 DEF Balanced
<1>7. LinksOK'
  BY <1>1, <1>2, <1>5, LinksKept
<1>8. 0 \in Int /\ 1 \in Int /\ 0 = 0 + 0
  OBVIOUS
<1>9. PICK k : k = Refs(f) /\ k \in Nat /\ Number(Counts(info[f]), k)
  BY <1>4, <1>5, <1>6, Sizes DEF InfoBook
<1>10. CASE UNCHANGED fileTables
  <2>1. SameRelation /\ info' = info /\ owned' = owned
    BY <1>10 DEF SameRelation, fileTables
  <2>2. Shift(f, 0, u, 0, 0)
    BY <1>2, <1>4, <1>5, <2>1, NoShift
  <2>3. InfoBook(f, 0)' /\ OwnedBook(u, 0)' /\ PictureBook(u, 0)'
    BY <1>2, <1>4, <1>5, <1>6, <1>8, <2>1, <2>2, InfoKept, OwnedKept,
       PictureKept
  <2> QED BY <1>2, <1>7, <2>3, GatewayBooks
<1>11. CASE ~UNCHANGED fileTables
  <2>1. relation[<<u, f>>] = {}
    <3> SUFFICES ASSUME relation[<<u, f>>] # {} PROVE FALSE
      OBVIOUS
    <3>1. info[f] = {}
      BY <1>1, <1>3, <1>11
    <3>2. Counts(info[f]) = {}
      BY <3>1 DEF Counts
    <3>3. Refs(f) > 0
      BY <1>4, <1>5, Owned
    <3> QED BY <1>9, <3>2, <3>3 DEF Number
  <2>2. relation' = [relation EXCEPT ![<<u, f>>] = {NewRelation}]
    BY <1>1, <1>3, <1>11, <2>1
  <2>3. Shift(f, 1, u, 1, 0)
    BY <1>2, <1>4, <1>5, <2>1, <2>2, GainsRelation
  <2>4. PICK new : info' = [info EXCEPT ![f] = new]
                   /\ Number(Counts(new), k + 1)
    <3>1. CASE info[f] = {}
      <4>1. info' = [info EXCEPT ![f] = {[count |-> 1, blob |-> NoBlob]}]
        BY <1>1, <1>3, <1>11, <3>1
      <4>2. k = 0
        BY <1>9, <3>1 DEF Number, Counts
      <4>3. Number(Counts({[count |-> 1, blob |-> NoBlob]}), k + 1)
        BY <4>2 DEF Number, Counts
      <4> QED BY <4>1, <4>3
    <3>2. CASE info[f] # {}
      <4>1. info' = [info EXCEPT ![f] =
                        {[i EXCEPT !.count = i.count + 1] : i \in @}]
        BY <1>1, <1>3, <1>11, <3>2
      <4>2. PICK i \in InfoRow : info[f] = {i} /\ i.count = k
        BY <1>4, <1>9, <3>2, ExactCount DEF TablesOK
      <4>3. PICK j : j = [i EXCEPT !.count = i.count + 1]
        OBVIOUS
      <4>4. j.count = k + 1
        BY <4>2, <4>3 DEF InfoRow
      <4>5. info' = [info EXCEPT ![f] = {j}]
        BY <4>1, <4>2, <4>3
      <4>6. Number(Counts({j}), k + 1)
        BY <4>4 DEF Number, Counts
      <4> QED BY <4>5, <4>6
    <3> QED BY <3>1, <3>2
  <2>5. k + 1 = Refs(f) + 1 + 0
    BY <1>9
  <2>6. InfoBook(f, 0)'
    BY <1>4, <1>5, <1>6, <1>8, <2>3, <2>4, <2>5, InfoWritten
  <2>7. PICK h : h = Held(u) /\ h \in Int /\ Number(owned[u], h)
    BY <1>4, <1>5, <1>6, Sizes DEF OwnedBook
  <2>8. owned[u] \in Rows(Nat)
    BY <1>4 DEF TablesOK
  <2>9. PICK more : more = CountedUp(owned[u], owned[u])
    OBVIOUS
  <2>10. owned' = [owned EXCEPT ![u] = more]
    BY <1>1, <1>3, <1>11, <2>1, <2>9
  <2>11. Number(more, h + 1)
    BY <2>7, <2>8, <2>9, ExactUp
  <2>12. h + 1 = Held(u) + 1 + 0
    BY <2>7
  <2>13. OwnedBook(u, 0)'
    BY <1>4, <1>5, <1>6, <1>8, <2>3, <2>10, <2>11, <2>12, OwnedWritten
  <2>14. PictureBook(u, 0)'
    BY <1>2, <1>4, <1>5, <1>6, <1>8, <2>3, PictureKept
  <2> QED BY <1>2, <1>7, <2>6, <2>13, <2>14, GatewayBooks
<1> QED BY <1>10, <1>11

LEMMA GatewayDeleteBooks ==
    ASSUME IInv, CountsOK, Orderly, Busy = {}, V2Delete
    PROVE  CountsOK'
<1>1. PICK r \in arriving :
        /\ arriving' = arriving \ {r}
        /\ LET p == <<r.user, r.file>>
               rows == {i \in info[r.file] : i.blob = NoBlob}
               own == {s \in SharesOf(r.file) : s.user = r.user}
           IN  IF rows = {} \/ relation[p] = {}
               THEN UNCHANGED <<fileTables, shareTables>>
               ELSE /\ relation' = [relation EXCEPT ![p] = {}]
                    /\ owned' = [owned EXCEPT ![r.user] = Less1(@)]
                    /\ info' = [info EXCEPT ![r.file] =
                            {[i EXCEPT !.count = i.count - 1] :
                                i \in {j \in rows : j.count > 1}}]
  BY DEF V2Delete, Arrives
<1>2. /\ pictures' = pictures /\ pictureCount' = pictureCount /\ req' = req
  BY DEF V2Delete, GatewayOnly, pictureTables
<1>3. PICK u, f : u = r.user /\ f = r.file
  OBVIOUS
<1>4. u \in Users /\ f \in Files /\ Typed /\ TablesOK
  BY <1>3 DEF IInv, Typed, Arriving, Request
<1>5. LinksOK /\ IsFiniteSet(pictures) /\ Balanced
  BY DEF CountsOK, LinksOK
<1>6. InfoBook(f, 0) /\ OwnedBook(u, 0) /\ PictureBook(u, 0)
  BY <1>4, <1>5 DEF Balanced
<1>7. LinksOK'
  BY <1>1, <1>2, <1>5, LinksKept
<1>8. 0 \in Int /\ -1 \in Int /\ 0 = 0 + 0
  OBVIOUS
<1>9. PICK k : k = Refs(f) /\ k \in Nat /\ Number(Counts(info[f]), k)
  BY <1>4, <1>5, <1>6, Sizes DEF InfoBook
<1>10. CASE UNCHANGED <<fileTables, shareTables>>
  <2>1. SameRelation /\ info' = info /\ owned' = owned
    BY <1>10 DEF SameRelation, fileTables
  <2>2. Shift(f, 0, u, 0, 0)
    BY <1>2, <1>4, <1>5, <2>1, NoShift
  <2>3. InfoBook(f, 0)' /\ OwnedBook(u, 0)' /\ PictureBook(u, 0)'
    BY <1>2, <1>4, <1>5, <1>6, <1>8, <2>1, <2>2, InfoKept, OwnedKept,
       PictureKept
  <2> QED BY <1>2, <1>7, <2>3, GatewayBooks
<1>11. CASE ~UNCHANGED <<fileTables, shareTables>>
  <2>1. /\ relation[<<u, f>>] # {}
        /\ relation' = [relation EXCEPT ![<<u, f>>] = {}]
        /\ owned' = [owned EXCEPT ![u] = Less1(@)]
        /\ \E i \in info[f] : i.blob = NoBlob
        /\ info' = [info EXCEPT ![f] =
               {[i EXCEPT !.count = i.count - 1] :
                   i \in {j \in {h \in info[f] : h.blob = NoBlob} :
                              j.count > 1}}]
    BY <1>1, <1>3, <1>11
  <2>2. Shift(f, -1, u, -1, 0) /\ Refs(f) > 0 /\ Held(u) > 0
    BY <1>2, <1>4, <1>5, <2>1, LosesRelation
  <2>3. PICK i \in InfoRow : info[f] = {i} /\ i.count = k
    BY <1>4, <1>9, <2>1, ExactCount DEF TablesOK
  <2>4. PICK new : info' = [info EXCEPT ![f] = new]
                   /\ Number(Counts(new), k - 1)
    <3>1. i.blob = NoBlob
      BY <2>1, <2>3
    <3>2. PICK big : big = {j \in {h \in info[f] : h.blob = NoBlob} :
                                j.count > 1}
      OBVIOUS
    <3>3. CASE k > 1
      <4>1. big = {i}
        BY <2>3, <3>1, <3>2, <3>3
      <4>2. PICK j : j = [i EXCEPT !.count = i.count - 1]
        OBVIOUS
      <4>3. j.count = k - 1
        BY <2>3, <4>2 DEF InfoRow
      <4>4. {[x EXCEPT !.count = x.count - 1] : x \in big} = {j}
        BY <4>1, <4>2
      <4>5. info' = [info EXCEPT ![f] = {j}]
        BY <2>1, <3>2, <4>4
      <4>6. Number(Counts({j}), k - 1)
        BY <4>3 DEF Number, Counts
      <4> QED BY <4>5, <4>6
    <3>4. CASE ~(k > 1)
      <4>1. big = {}
        BY <2>3, <3>2, <3>4
      <4>2. {[x EXCEPT !.count = x.count - 1] : x \in big} = {}
        BY <4>1
      <4>3. info' = [info EXCEPT ![f] = {}]
        BY <2>1, <3>2, <4>2
      <4>4. k = 1
        BY <1>9, <2>2, <3>4
      <4>5. Number(Counts({}), k - 1)
        BY <4>4 DEF Number, Counts
      <4> QED BY <4>3, <4>5
    <3> QED BY <3>3, <3>4
  <2>5. k - 1 = Refs(f) + -1 + 0
    BY <1>9
  <2>6. InfoBook(f, 0)'
    BY <1>4, <1>5, <1>6, <1>8, <2>2, <2>4, <2>5, InfoWritten
  <2>7. PICK h : h = Held(u) /\ h \in Int /\ h > 0 /\ Number(owned[u], h)
    BY <1>4, <1>5, <1>6, <2>2, Sizes DEF OwnedBook
  <2>8. owned[u] = {h}
    BY <2>7 DEF Number
  <2>9. Less1(owned[u]) = {h - 1}
    BY <2>7, <2>8 DEF Less1, Less
  <2>10. PICK fewer : fewer = {h - 1}
    OBVIOUS
  <2>11. owned' = [owned EXCEPT ![u] = fewer] /\ Number(fewer, h - 1)
    BY <2>1, <2>9, <2>10 DEF Number
  <2>12. h - 1 = Held(u) + -1 + 0
    BY <2>7
  <2>13. OwnedBook(u, 0)'
    BY <1>4, <1>5, <1>6, <1>8, <2>2, <2>11, <2>12, OwnedWritten
  <2>14. PictureBook(u, 0)'
    BY <1>2, <1>4, <1>5, <1>6, <1>8, <2>2, PictureKept
  <2> QED BY <1>2, <1>7, <2>6, <2>13, <2>14, GatewayBooks
<1> QED BY <1>10, <1>11

----------------------------------------------------------------------------
(* Every step keeps the books.                                             *)

LEMMA BooksUnmoved ==
    ASSUME CountsOK, UNCHANGED legacyVars, Orderly' = Orderly
    PROVE  CountsOK'
<1>1. /\ info' = info /\ owned' = owned /\ relation' = relation
      /\ pictures' = pictures /\ pictureCount' = pictureCount
      /\ arriving' = arriving /\ req' = req
  BY DEF legacyVars, fileTables, pictureTables
<1>2. /\ \A f : Owners(f)' = Owners(f) /\ Links(f)' = Links(f)
      /\ Busy' = Busy
  BY <1>1 DEF Owners, Links, Busy
<1>3. /\ \A f : Refs(f)' = Refs(f)
      /\ \A u : FilesOf(u)' = FilesOf(u) /\ PicturesOf(u)' = PicturesOf(u)
  BY <1>1, <1>2 DEF Refs, FilesOf, PicturesOf
<1>4. \A u : Held(u)' = Held(u) /\ Shown(u)' = Shown(u)
  BY <1>3 DEF Held, Shown
<1>5. \A f, u, due : /\ InfoBook(f, due)' <=> InfoBook(f, due)
                     /\ OwnedBook(u, due)' <=> OwnedBook(u, due)
                     /\ PictureBook(u, due)' <=> PictureBook(u, due)
  BY <1>1, <1>3, <1>4 DEF InfoBook, OwnedBook, PictureBook
<1>6. \A s, f, u, n, i, rows :
        Knows(s, f, u, n, i, rows)' <=> Knows(s, f, u, n, i, rows)
  BY <1>1, <1>3 DEF Knows
<1>7. \A s, f, u, n, i, rows :
        Books(s, f, u, n, i, rows)' <=> Books(s, f, u, n, i, rows)
  BY <1>5, <1>6 DEF Books
<1>8. (LinksOK' <=> LinksOK) /\ (Balanced' <=> Balanced)
  BY <1>1, <1>5 DEF LinksOK, Balanced
<1> QED BY <1>1, <1>2, <1>7, <1>8 DEF CountsOK

LEMMA OpensBooks ==
    \A o \in {"ShareExists", "DelExists", "ViewRead", "VisitRead",
              "CancelMark", "SaveOwned", "RankTotal", "Md5Count",
              "UploadCount", "PictureInsert", "DropFind", "BrowseRead",
              "InitExists", "PartWrite", "MergeLocked"} :
        o \notin Debts \ {"PictureInsert"}
  BY DEF Debts

\* A step of a program while requests are served one after the other.
LEMMA ProgramBooks ==
    ASSUME IInv, CountsOK, Watch, Orderly',
           LegacyStep \/ ShareFiles
    PROVE  CountsOK'
<1>0. /\ Orderly /\ faults' = faults /\ Cardinality(Busy') <= 1
      /\ ~(At("sharepicture", "PictureRead") /\ req'["sharepicture"] = Idle)
      /\ ~Twins'
  BY DEF Watch, HalfShared, Orderly
<1>1. Typed /\ faults \in Nat
  BY DEF IInv, Typed
<1>2. ASSUME NEW c \in Programs, NEW ops, Accept(c, ops),
             \A o \in ops : o \notin Debts \ {"PictureInsert"}
      PROVE  CountsOK'
  BY <1>0, <1>2, AcceptBooks
<1>3. ASSUME NEW c \in Programs, Calm(c)
      PROVE  CountsOK'
  BY <1>0, <1>3, CalmStep
<1>4. {"dealfile", "dealsharefile", "sharefiles", "md5", "upload",
       "sharepicture", "chunk_init", "chunk_merge"} \subseteq Programs
      /\ Uploaders \subseteq Programs
  BY DEF Programs
<1>5. CASE DealFile
  <2>1. CASE Accept("dealfile", {"ShareExists", "DelExists", "ViewRead"})
    BY <1>2, <1>4, <2>1, OpensBooks
  <2>2. CASE Share("dealfile") \/ View("dealfile")
    BY <1>0, <1>1, <1>3, <1>4, <2>2, ShareCalm, ViewCalm
  <2>3. CASE Delete("dealfile")
    BY <1>0, <1>4, <2>3, DeleteBooks
  <2> QED BY <1>5, <2>1, <2>2, <2>3 DEF DealFile
<1>6. CASE DealShareFile
  <2>1. CASE Accept("dealsharefile", {"VisitRead", "CancelMark", "SaveOwned"})
    BY <1>2, <1>4, <2>1, OpensBooks
  <2>2. CASE Visit("dealsharefile") \/ Cancel("dealsharefile")
    BY <1>0, <1>1, <1>3, <1>4, <2>2, VisitCalm, CancelCalm
  <2>3. CASE Save("dealsharefile")
    BY <1>0, <1>4, <2>3, SaveBooks
  <2> QED BY <1>6, <2>1, <2>2, <2>3 DEF DealShareFile
<1>7. CASE ShareFiles
  <2>1. CASE Accept("sharefiles", {"RankTotal"})
    BY <1>2, <1>4, <2>1, OpensBooks
  <2>2. CASE RankList("sharefiles")
    BY <1>0, <1>1, <1>3, <1>4, <2>2, RankCalm
  <2> QED BY <1>7, <2>1, <2>2 DEF ShareFiles
<1>8. CASE Md5Program
  <2>1. CASE Accept("md5", {"Md5Count"})
    BY <1>2, <1>4, <2>1, OpensBooks
  <2>2. CASE InstantUpload("md5")
    BY <1>0, <1>4, <2>2, InstantBooks
  <2> QED BY <1>8, <2>1, <2>2 DEF Md5Program
<1>9. CASE UploadProgram
  <2>1. CASE Accept("upload", {"UploadCount"})
    BY <1>2, <1>4, <2>1, OpensBooks
  <2>2. CASE UploadFile("upload")
    BY <1>0, <1>4, <2>2, UploadBooks
  <2> QED BY <1>9, <2>1, <2>2 DEF UploadProgram
<1>10. CASE PictureProgram
  <2>1. CASE Accept("sharepicture", {"PictureInsert", "DropFind", "BrowseRead"})
    BY <1>2, <1>4, <2>1, OpensBooks
  <2>2. CASE \/ SharePicture("sharepicture") \/ CancelPicture("sharepicture")
             \/ BrowsePicture("sharepicture")
    BY <1>0, <1>4, <2>2, PicturesBooks
  <2> QED BY <1>10, <2>1, <2>2 DEF PictureProgram
<1>11. CASE ChunkInitProgram
  <2>1. CASE Accept("chunk_init", {"InitExists"})
    BY <1>2, <1>4, <2>1, OpensBooks
  <2>2. CASE \/ InitExists("chunk_init") \/ InitName("chunk_init")
             \/ InitKnown("chunk_init") \/ InitListed("chunk_init")
             \/ InitExpire("chunk_init")
    BY <1>0, <1>1, <1>3, <1>4, <2>2, ChunksCalm
  <2> QED BY <1>11, <2>1, <2>2 DEF ChunkInitProgram
<1>12. CASE ChunkUploadProgram
  <2> PICK c \in Uploaders :
            Accept(c, {"PartWrite"}) \/ PartWrite(c) \/ PartList(c)
    BY <1>12 DEF ChunkUploadProgram
  <2>1. CASE Accept(c, {"PartWrite"})
    BY <1>2, <1>4, <2>1, OpensBooks
  <2>2. CASE PartWrite(c) \/ PartList(c)
    BY <1>0, <1>1, <1>3, <1>4, <2>2, ChunksCalm
  <2> QED BY <2>1, <2>2
<1>13. CASE ChunkMergeProgram
  <2>1. CASE Accept("chunk_merge", {"MergeLocked"})
    BY <1>2, <1>4, <2>1, OpensBooks
  <2>2. CASE Merge("chunk_merge")
    BY <1>0, <1>4, <2>2, MergeBooks
  <2> QED BY <1>13, <2>1, <2>2 DEF ChunkMergeProgram
<1>14. ASSUME NEW c \in Programs, Crash(c) PROVE CountsOK'
  BY <1>0, <1>1, <1>14 DEF Crash, Stops, Fault
<1> QED BY <1>5, <1>6, <1>7, <1>8, <1>9, <1>10, <1>11, <1>12, <1>13, <1>14
        DEF LegacyStep

LEMMA CountsKeep ==
    ASSUME IInv, CountsOK, [Next]_cgiVars PROVE CountsOK'
<1> SUFFICES ASSUME Orderly' PROVE CountsOK'
  BY DEF CountsOK
<1>1. ASSUME LegacyStep \/ ShareFiles, Watch PROVE CountsOK'
  BY <1>1, ProgramBooks
<1>2. ASSUME V2Commit \/ V2Delete, serial' = (serial /\ Busy = {}),
             UNCHANGED twinned
      PROVE  CountsOK'
  <2>1. Orderly /\ Busy = {}
    BY <1>2, Zenon DEF Orderly
  <2> QED BY <1>2, <2>1, CommitBooks, GatewayDeleteBooks
<1>3. ASSUME NEW f \in Files, KeyExpires(f) \/ LockExpires(f),
             UNCHANGED <<serial, twinned>>
      PROVE  CountsOK'
  BY <1>3, BooksUnmoved DEF KeyExpires, LockExpires, Orderly
<1>4. ASSUME UNCHANGED cgiVars PROVE CountsOK'
  BY <1>4, BooksUnmoved DEF cgiVars, Orderly
<1> QED BY <1>1, <1>2, <1>3, <1>4 DEF Next

\* The counters of a library are those of its owners and links.
LEMMA CountRowNumber ==
    ASSUME NEW S, IsFiniteSet(S), NEW n, n = Cardinality(S)
    PROVE  Number(CountRow(S), n)
  BY FS_EmptySet DEF CountRow, Number

\* A user has as many files as pairs in the library.
LEMMA FilesOfPairs ==
    ASSUME NEW owns, owns \subseteq Users \X Files, NEW u \in Users
    PROVE  LET T == {p \in owns : p[1] = u}
               S == {f \in Files : <<u, f>> \in owns}
           IN  IsFiniteSet(T) /\ Cardinality(T) = Cardinality(S)
<1>1. PICK T, S : /\ T = {p \in owns : p[1] = u}
                  /\ S = {f \in Files : <<u, f>> \in owns}
  OBVIOUS
<1>2. IsFiniteSet(Files) /\ S \subseteq Files
  BY <1>1, CgiAssumption
<1>3. IsFiniteSet(S)
  BY <1>2, FS_Subset
<1>4. PICK g : g = [f \in S |-> <<u, f>>]
  OBVIOUS
<1>5. /\ g \in [S -> T]
      /\ \A a, b \in S : g[a] = g[b] => a = b
      /\ \A t \in T : \E f \in S : g[f] = t
  <2>1. g \in [S -> T]
    BY <1>1, <1>4
  <2>2. \A a, b \in S : g[a] = g[b] => a = b
    BY <1>4
  <2>3. ASSUME NEW t \in T PROVE \E f \in S : g[f] = t
    <3>1. t \in Users \X Files /\ t[1] = u /\ t \in owns
      BY <1>1
    <3>2. t = <<u, t[2]>> /\ t[2] \in Files
      BY <3>1
    <3>3. t[2] \in S /\ g[t[2]] = t
      BY <1>1, <1>4, <3>1, <3>2
    <3> QED BY <3>3
  <2> QED BY <2>1, <2>2, <2>3
<1>6. g \in Bijection(S, T)
  BY <1>5 DEF Bijection, Injection, Surjection, IsInjective
<1>7. IsFiniteSet(T) /\ Cardinality(T) = Cardinality(S)
  BY <1>3, <1>6, FS_Bijection DEF ExistsBijection
<1> QED BY <1>1, <1>7

LEMMA InitBooks == Init => CountsOK
<1> SUFFICES ASSUME Init, Orderly PROVE CountsOK
  BY DEF CountsOK
<1>1. PICK w \in Workloads : Init!1!(w)
  BY DEF Init
<1>2. PICK lib : lib = w.library
  OBVIOUS
<1>3. /\ arriving = w.requests /\ pictures = lib.links
      /\ info = [f \in Files |-> InfoOf(lib, f)]
      /\ relation = [p \in Users \X Files |->
            IF p \in lib.owns
            THEN {[shared |-> p \in lib.shares, views |-> 0]} ELSE {}]
      /\ owned = [u \in Users |-> CountRow({p \in lib.owns : p[1] = u})]
      /\ pictureCount = [u \in Users |->
                            CountRow({p \in lib.links : p.user = u})]
  BY <1>1, <1>2
<1>4. /\ lib.owns \subseteq Users \X Files /\ IsFiniteSet(lib.links)
      /\ \A p, q \in lib.links : p.id = q.id => p = q
      /\ \A p \in lib.links : \A r \in w.requests : p.id # r.no
  BY <1>2, CgiAssumption
<1>5. Busy = {}
  BY DEF Init, Busy
<1>6. LinksOK
  <2>1. ~Twins
    BY DEF Init, Orderly
  <2> QED BY <1>3, <1>4, <2>1 DEF LinksOK, Twins
<1>7. Typed
  BY InitHolds DEF IInv
<1>8. \A f \in Files : Owners(f) = OwnersOf(lib, f)
  BY <1>3 DEF Owners, OwnersOf
<1>9. \A f \in Files : Links(f) = LinksOf(lib, f)
  BY <1>3 DEF Links, LinksOf
<1>10. ASSUME NEW f \in Files PROVE Number(Counts(info[f]), Refs(f))
  <2>1. PICK n : /\ n = Cardinality(OwnersOf(lib, f))
                        + Cardinality(LinksOf(lib, f))
                 /\ n = Refs(f)
    BY <1>8, <1>9 DEF Refs
  <2>2. PICK b : b = IF f \in lib.manifests THEN NoBlob ELSE FirstBlob
    OBVIOUS
  <2>3. info[f] = IF n = 0 THEN {} ELSE {[count |-> n, blob |-> b]}
    BY <1>3, <2>1, <2>2 DEF InfoOf
  <2>4. Number(Counts(info[f]), n)
    <3>1. CASE n = 0
      BY <2>3, <3>1 DEF Number, Counts
    <3>2. CASE n # 0
      <4>1. PICK i : i = [count |-> n, blob |-> b]
        OBVIOUS
      <4>2. i.count = n /\ info[f] = {i}
        BY <2>3, <3>2, <4>1
      <4> QED BY <4>2 DEF Number, Counts
    <3> QED BY <3>1, <3>2
  <2> QED BY <2>1, <2>4
<1>11. ASSUME NEW u \in Users PROVE Number(owned[u], Held(u))
  <2>1. PICK T, S : /\ T = {p \in lib.owns : p[1] = u}
                    /\ S = {f \in Files : <<u, f>> \in lib.owns}
    OBVIOUS
  <2>2. IsFiniteSet(T) /\ Cardinality(T) = Cardinality(S)
    BY <1>4, <2>1, FilesOfPairs
  <2>3. FilesOf(u) = S
    BY <1>8, <2>1 DEF FilesOf, OwnersOf
  <2>4. owned[u] = CountRow(T)
    BY <1>3, <2>1
  <2> QED BY <2>2, <2>3, <2>4, CountRowNumber DEF Held
<1>12. ASSUME NEW u \in Users PROVE Number(pictureCount[u], Shown(u))
  <2>1. PICK S : S = {p \in lib.links : p.user = u}
    OBVIOUS
  <2>2. S \subseteq lib.links
    BY <2>1
  <2>3. IsFiniteSet(S)
    BY <1>4, <2>2, FS_Subset
  <2>4. pictureCount[u] = CountRow(S) /\ PicturesOf(u) = S
    BY <1>3, <2>1 DEF PicturesOf
  <2> QED BY <2>3, <2>4, CountRowNumber DEF Shown
<1>13. Balanced
  BY <1>6, <1>7, <1>10, <1>11, <1>12, Sizes
     DEF Balanced, InfoBook, OwnedBook, PictureBook, LinksOK
<1> QED BY <1>5, <1>6, <1>13 DEF CountsOK

LEMMA CountsHold == Spec => []CountsOK
<1>1. IInv /\ CountsOK /\ [Next]_cgiVars => CountsOK'
  BY CountsKeep
<1> QED BY <1>1, InitBooks, Invariance, PTL DEF Spec

----------------------------------------------------------------------------
(* Theorems.                                                               *)

(***************************************************************************)
(* Whatever requests the legacy programs and the gateway serve at a time,  *)
(* and whatever stops or fails, each table has one row at most for a key   *)
(* and no count of files, views or pictures falls below zero.              *)
(***************************************************************************)
THEOREM RowsAreWellFormed == Spec => []TypeOK
<1>1. IInv => TypeOK
  <2> SUFFICES ASSUME IInv PROVE TypeOK
    OBVIOUS
  <2>1. TablesOK /\ ChunksOK
    BY DEF IInv, Typed
  <2>2. \A f \in Files :
            /\ IsRow(info[f], InfoRow) /\ IsRow(ranking[f], Nat)
            /\ IsRow(progress[f], Progress) /\ IsRow(mergeLock[f], NewLock)
    BY <2>1, RowsAreRows DEF TablesOK, ChunksOK
  <2>3. \A p \in Users \X Files : IsRow(relation[p], RelationRow)
    BY <2>1, RowsAreRows DEF TablesOK
  <2>4. \A u \in Users : IsRow(owned[u], Nat) /\ IsRow(pictureCount[u], Nat)
    BY <2>1, RowsAreRows DEF TablesOK
  <2>5. IsRow(total, Int)
    BY <2>1, RowsAreRows DEF TablesOK
  <2> QED BY <2>1, <2>2, <2>3, <2>4, <2>5 DEF TypeOK, TablesOK, ChunksOK
<1> QED BY <1>1, Invariance, PTL

(***************************************************************************)
(* Without a failure no file is shared twice, though share_file asks Redis *)
(* first and reads and inserts in separate statements: the one dealfile    *)
(* process is all that inserts a share.                                    *)
(***************************************************************************)
THEOREM SharedOnce == Spec => []OneShare
<1>1. IInv => OneShare
  <2> SUFFICES ASSUME IInv, faults = 0, NEW f \in Files
               PROVE  Cardinality(SharesOf(f)) <= 1
    BY DEF OneShare
  <2>1. \A r, s \in SharesOf(f) : r = s
    BY DEF IInv, OneOK, SharesOf
  <2>2. CASE SharesOf(f) = {}
    <3>1. Cardinality({}) = 0
      BY FS_EmptySet
    <3> QED BY <2>2, <3>1
  <2>3. CASE SharesOf(f) # {}
    <3>1. PICK r : SharesOf(f) = {r}
      BY <2>1, <2>3
    <3>2. Cardinality({r}) = 1
      BY FS_Singleton
    <3> QED BY <3>1, <3>2
  <2> QED BY <2>2, <2>3
<1> QED BY <1>1, Invariance, PTL

(***************************************************************************)
(* The blob that a row of file_info names is stored and whole, in every    *)
(* interleaving of uploads, merges, deletes and cancelled pictures and     *)
(* whatever stops between two statements: only a DELETE of a cancelled     *)
(* picture that failed unnoticed leaves a row without its blob.            *)
(***************************************************************************)
THEOREM BlobsBehindRows == Spec => []BlobBehindInfo
<1>1. IInv => BlobBehindInfo
  BY DEF IInv, BlobsOK
<1> QED BY <1>1, Invariance, PTL

(***************************************************************************)
(* Without a failure chunk_merge holds no lock when it has answered,       *)
(* whichever way it went.                                                  *)
(***************************************************************************)
THEOREM MergeGivesBack == Spec => []LockReleased
<1>1. IInv => LockReleased
  BY DEF IInv, LocksOK, LockReleased
<1> QED BY <1>1, Invariance, PTL

(***************************************************************************)
(* A rebuild of the ranking that nothing disturbed leaves in Redis each    *)
(* public file of MySQL with the views of a share of it, its name, and     *)
(* nothing else, and lookups that follow leave it so.                      *)
(***************************************************************************)
THEOREM RebuiltIsExact == Spec => []RankingExact
<1>1. Init => RankOK
  BY DEF Init, RankOK
<1>2. IInv /\ RankOK => RankingExact
  <2> SUFFICES ASSUME RankOK, rebuilt, req["sharefiles"] = Idle
               PROVE  RankingExact
    BY DEF RankingExact
  <2>1. Exact
    BY DEF RankOK
  <2>2. \A f \in Files : ranking[f] # {} <=> SharesOf(f) # {}
    BY <2>1 DEF Exact, Copied
  <2> QED BY <2>1, <2>2 DEF Exact, Copied, Begun, RankingExact, Listed
<1> QED BY <1>1, <1>2, RankKeeps, Invariance, PTL DEF Spec

(***************************************************************************)
(* Requests that are served one after the other leave every counter at the *)
(* number of rows it stands for, whatever they are and in whatever order   *)
(* they come, the gateway's transactions among them: what a handler reads  *)
(* and writes back over several statements adds up.  (As long as no user   *)
(* has two picture links of one url, which nothing in the tables forbids.) *)
(***************************************************************************)
THEOREM CountersExact == Spec => []SerialCounts
<1>1. ASSUME Typed, CountsOK PROVE SerialCounts
  <2> SUFFICES ASSUME Orderly, Busy = {} PROVE SerialCounts
    BY DEF SerialCounts, Orderly
  <2>1. Balanced /\ IsFiniteSet(pictures)
    BY <1>1 DEF CountsOK, LinksOK
  <2>2. ASSUME NEW f \in Files
        PROVE  Number({r.count : r \in info[f]},
                      Cardinality(Owners(f)) + Cardinality(Links(f)))
    <3>1. Number(Counts(info[f]), Refs(f) + 0)
      BY <2>1 DEF Balanced, InfoBook
    <3>2. Refs(f) \in Nat
      BY <1>1, <2>1, Sizes
    <3>3. Refs(f) + 0 = Refs(f)
      BY <3>2
    <3> QED BY <3>1, <3>3 DEF Counts, Refs
  <2>3. ASSUME NEW u \in Users
        PROVE  /\ Number(owned[u],
                         Cardinality({f \in Files : u \in Owners(f)}))
               /\ Number(pictureCount[u],
                         Cardinality({p \in pictures : p.user = u}))
    <3>1. /\ Number(owned[u], Held(u) + 0)
          /\ Number(pictureCount[u], Shown(u) + 0)
      BY <2>1 DEF Balanced, OwnedBook, PictureBook
    <3>2. Held(u) \in Nat /\ Shown(u) \in Nat
      BY <1>1, <2>1, Sizes
    <3>3. Held(u) + 0 = Held(u) /\ Shown(u) + 0 = Shown(u)
      BY <3>2
    <3> QED BY <3>1, <3>3 DEF Held, Shown, FilesOf, PicturesOf
  <2> QED BY <2>2, <2>3 DEF SerialCounts, FileCounts
<1> QED BY <1>1, CountsHold, Invariance, PTL DEF IInv
=============================================================================
