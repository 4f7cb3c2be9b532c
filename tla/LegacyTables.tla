---------------------------- MODULE LegacyTables ----------------------------
(***************************************************************************)
(* What the legacy FastCGI programs share: the MySQL tables, the Redis     *)
(* ranking of public files, the FastDFS blobs, and the request that each   *)
(* program is serving.                                                     *)
(*                                                                         *)
(* docker/fastcgi_app/start.sh starts one process of each program (eight   *)
(* of chunk_upload), so a program serves one request at a time while the   *)
(* programs interleave.  A handler runs on autocommit: every SQL statement *)
(* and every Redis command is a step of its own, and a value that was read *)
(* is written back later.  A file is a digest with its one name; the name  *)
(* two users give to one digest is the same, as the public ranking keys    *)
(* files by digest and name.                                               *)
(*                                                                         *)
(* A row found by a unique key is a set with at most one element, empty    *)
(* when there is no row, and so is the result of a query for it.           *)
(***************************************************************************)
EXTENDS Integers, FiniteSets

CONSTANTS
    Users, Files,   \* accounts; files, by digest and name
    Parts,          \* number of chunks of a chunked upload
    Workloads,      \* sets of requests, one of which arrives
    MaxFaults       \* bound on failed statements and crashes

ASSUME LegacyAssumption == Parts \in Nat \ {0} /\ MaxFaults \in Nat

VARIABLES
    info,      \* file_info: count and stored blob of each digest
    relation,  \* user_file_list: sharing flag and views of <<user, file>>
    owned,     \* user_file_count of each user
    total,     \* user_file_count of FILE_PUBLIC_COUNT
    shares,    \* share_file_list rows
    pictures,  \* share_picture_list rows
    pictureCount, \* user_file_count of each user's shared pictures
    ranking,   \* Redis FILE_PUBLIC_ZSET: score of each public file
    names,     \* Redis FILE_NAME_HASH: files with a name
    stored,    \* FastDFS blobs, each with the parts it holds
    req,       \* the request each program is serving
    arriving,  \* requests still to arrive
    faults     \* faults so far

fileTables == <<info, relation, owned>>
shareTables == <<total, shares>>
pictureTables == <<pictures, pictureCount>>
public == <<ranking, names>>
legacyVars == <<fileTables, shareTables, pictureTables, public, stored, req,
                arriving, faults>>

Whole == 1..Parts
\* A manifest object of V2 has no blob of its own: its file_id is empty.
NoBlob == 0
\* The blob of a file that was there before the first request.
FirstBlob == 1
InfoRow == [count : Nat, blob : Nat]
RelationRow == [shared : BOOLEAN, views : Nat]
ShareRow == [user : Users, file : Files, token : Nat, views : Nat]
PictureRow == [id : Nat, user : Users, file : Files, url : Nat, views : Nat]
Blob == [file : Files, no : Nat, parts : SUBSET Whole]

IsRow(rows, S) == rows \subseteq S /\ Cardinality(rows) <= 1

(***************************************************************************)
(* A request: the first step of its handler, who asks for which file (and  *)
(* which part of it), and a number that tells its blob, share token or row *)
(* of a picture from others.  While it is served it has a next step, the   *)
(* rows its last query returned, and the step that follows when its path   *)
(* parts and joins again ("" if the request ends there).                   *)
(***************************************************************************)
Request == [op : STRING, user : Users, file : Files, part : Nat, no : Nat]

Serving(r) ==
    [step |-> r.op, user |-> r.user, file |-> r.file, part |-> r.part,
     no |-> r.no, read |-> {}, after |-> ""]

\* A program that serves none.
Idle == [step |-> "idle"]

Accept(c, ops) ==
    /\ req[c] = Idle
    /\ \E r \in arriving :
        /\ r.op \in ops
        /\ req' = [req EXCEPT ![c] = Serving(r)]
        /\ arriving' = arriving \ {r}
    /\ UNCHANGED <<fileTables, shareTables, pictureTables, public, stored,
                   faults>>

At(c, s) == req[c] # Idle /\ req[c].step = s
GoTo(c, s) == req' = [req EXCEPT ![c].step = s, ![c].read = {}]
Reads(c, s, rows) == req' = [req EXCEPT ![c].step = s, ![c].read = rows]
Ends(c) == req' = [req EXCEPT ![c] = Idle]
Joins(c) == IF req[c].after = "" THEN Ends(c) ELSE GoTo(c, req[c].after)
\* The chunk_merge program releases its lock whatever the outcome.
Fails(c) == IF c = "chunk_merge" THEN GoTo(c, "MergeRelease") ELSE Ends(c)
OnlyReq == UNCHANGED <<fileTables, shareTables, pictureTables, public, stored,
                       arriving, faults>>

\* What a step leaves alone besides the tables it names.
OnlyFiles == UNCHANGED <<shareTables, pictureTables, public, stored, arriving,
                         faults>>
OnlyShares == UNCHANGED <<fileTables, pictureTables, public, stored, arriving,
                          faults>>
OnlyPublic == UNCHANGED <<fileTables, shareTables, pictureTables, stored,
                          arriving>>

(***************************************************************************)
(* A statement or command fails, or the process dies: the handler stops    *)
(* where it is, and what it has written stays.                             *)
(***************************************************************************)
Fault == faults < MaxFaults /\ faults' = faults + 1

Stops(c) ==
    /\ req[c] # Idle
    /\ Fault
    /\ Ends(c)
    /\ UNCHANGED <<fileTables, shareTables, pictureTables, public, stored,
                   arriving>>

\* A query that fails where the handler looks for a row only, and goes on as
\* if there were none.
Misread(c, from, to) ==
    /\ At(c, from)
    /\ Fault
    /\ GoTo(c, to)
    /\ UNCHANGED <<fileTables, shareTables, pictureTables, public, stored,
                   arriving>>

\* A statement that fails unnoticed: the handler goes on with what it read.
Skips(c, from, to) ==
    /\ At(c, from)
    /\ Fault
    /\ req' = [req EXCEPT ![c].step = to]
    /\ UNCHANGED <<fileTables, shareTables, pictureTables, public, stored,
                   arriving>>

\* The pair a relation is found by.
Key(c) == <<req[c].user, req[c].file>>
Owns(c) == relation[Key(c)] # {}

\* The row of a query that returned one.
Only(rows) == CHOOSE x \in rows : TRUE

\* UPDATE ... SET count: a row that is gone is not written.
SetCount(rows, n) == {[r EXCEPT !.count = n] : r \in rows}
Counts(rows) == {r.count : r \in rows}

\* A counter row is inserted when none was read, and refused by its unique key
\* when another handler has inserted it since; otherwise the value read is
\* written back, counted up, if the row is still there.
CountedUp(rows, read) ==
    IF read = {} THEN IF rows = {} THEN {1} ELSE rows
    ELSE IF rows = {} THEN {} ELSE {n + 1 : n \in read}

(***************************************************************************)
(* The last steps of every handler that gives a user a file: save_file,    *)
(* deal_md5, bind_existing_file_to_user and store_fileinfo_to_mysql.  The  *)
(* request has read file_info.count.                                       *)
(***************************************************************************)
BindCount(c) ==
    /\ At(c, "BindCount")
    /\ info' = [info EXCEPT ![req[c].file] =
                    SetCount(@, Only(req[c].read) + 1)]
    /\ GoTo(c, "BindRelation")
    /\ UNCHANGED <<relation, owned>> /\ OnlyFiles

NewRelation == [shared |-> FALSE, views |-> 0]

\* The unique key of user_file_list refuses a second row of the same file.
BindRelation(c) ==
    /\ At(c, "BindRelation")
    /\ IF Owns(c)
       THEN Fails(c) /\ UNCHANGED relation
       ELSE /\ relation' = [relation EXCEPT ![Key(c)] = {NewRelation}]
            /\ GoTo(c, "ReadOwned")
    /\ UNCHANGED <<info, owned>> /\ OnlyFiles

ReadOwned(c) ==
    /\ At(c, "ReadOwned")
    /\ Reads(c, "WriteOwned", owned[req[c].user])
    /\ OnlyReq

WriteOwned(c) ==
    /\ At(c, "WriteOwned")
    /\ owned' = [owned EXCEPT ![req[c].user] = CountedUp(@, req[c].read)]
    /\ Joins(c)
    /\ UNCHANGED <<info, relation>> /\ OnlyFiles

Bind(c) == BindCount(c) \/ BindRelation(c) \/ ReadOwned(c) \/ WriteOwned(c)
=============================================================================
