---------------------------- MODULE SharedPictures ----------------------------
(***************************************************************************)
(* Pictures shared by a link with an extraction code: sharepicture_cgi.c.  *)
(* Each shared picture counts as a reference to its file.  A request that  *)
(* cancels or browses names the link by its url, in the field part, and    *)
(* takes the file from the link's row.                                     *)
(***************************************************************************)
EXTENDS LegacyTables

Link(c) == {p \in pictures : p.url = req[c].part}
OwnLink(c) == {p \in Link(c) : p.user = req[c].user}

---------------------------------------------------------------------------
(* request_share_picture: the row is inserted before the file is counted.  *)
(* The url is a digest of the file's digest, the second, and numbers drawn *)
(* from a generator that the second seeds; no key makes it unique.  It is  *)
(* new (the number of the request) unless a link of the file was made in   *)
(* this second; the rows are told apart by their id.                       *)

Urls(c) == {req[c].no} \cup {p.url : p \in {q \in pictures : q.file = req[c].file}}

PictureInsert(c) ==
    /\ At(c, "PictureInsert")
    /\ \E url \in Urls(c) :
        pictures' = pictures \cup
            {[id |-> req[c].no, user |-> req[c].user, file |-> req[c].file,
              url |-> url, views |-> 0]}
    /\ GoTo(c, "PictureRead")
    /\ UNCHANGED <<fileTables, shareTables, pictureCount, public, stored,
                   arriving, faults>>

PictureRead(c) ==
    /\ At(c, "PictureRead")
    /\ IF info[req[c].file] = {}
       THEN Ends(c) ELSE Reads(c, "PictureCount", Counts(info[req[c].file]))
    /\ OnlyReq

PictureCount(c) ==
    /\ At(c, "PictureCount")
    /\ info' = [info EXCEPT ![req[c].file] =
                    SetCount(@, Only(req[c].read) + 1)]
    /\ GoTo(c, "PictureReadOwn")
    /\ UNCHANGED <<relation, owned>> /\ OnlyFiles

PictureReadOwn(c) ==
    /\ At(c, "PictureReadOwn")
    /\ Reads(c, "PictureWriteOwn", pictureCount[req[c].user])
    /\ OnlyReq

PictureWriteOwn(c) ==
    /\ At(c, "PictureWriteOwn")
    /\ pictureCount' = [pictureCount EXCEPT ![req[c].user] =
                            CountedUp(@, req[c].read)]
    /\ Ends(c)
    /\ UNCHANGED <<fileTables, shareTables, pictures, public, stored,
                   arriving, faults>>

---------------------------------------------------------------------------
(* cancel_share_picture: one link is looked up and counted down; the rows  *)
(* deleted are all the user's links of the url.                            *)

DropFind(c) ==
    /\ At(c, "DropFind")
    /\ IF OwnLink(c) = {} THEN Ends(c)
       ELSE \E p \in OwnLink(c) :
                req' = [req EXCEPT ![c].step = "DropReadOwn", ![c].file = p.file]
    /\ OnlyReq

DropReadOwn(c) ==
    /\ At(c, "DropReadOwn")
    /\ IF pictureCount[req[c].user] = {}
       THEN Ends(c) ELSE Reads(c, "DropWriteOwn", pictureCount[req[c].user])
    /\ OnlyReq

DropWriteOwn(c) ==
    /\ At(c, "DropWriteOwn")
    /\ pictureCount' = [pictureCount EXCEPT ![req[c].user] =
                            IF 0 \in req[c].read THEN @
                            ELSE {n - 1 : n \in req[c].read}]
    /\ GoTo(c, "DropRead")
    /\ UNCHANGED <<fileTables, shareTables, pictures, public, stored,
                   arriving, faults>>

\* The row of file_info is read whole; without one the count is zero and
\* there is no blob.
DropRead(c) ==
    /\ At(c, "DropRead")
    /\ Reads(c, "DropCount", info[req[c].file])
    /\ OnlyReq

\* The reference given up is the last; a manifest object has no blob here.
LastUse(rows) == \E r \in rows : r.count <= 1 /\ r.blob # NoBlob

DropCount(c) ==
    /\ At(c, "DropCount")
    /\ info' = [info EXCEPT ![req[c].file] =
                    IF \E r \in req[c].read : r.count > 0
                    THEN SetCount(@, Only(req[c].read).count - 1) ELSE @]
    /\ req' = [req EXCEPT ![c].step = "DropRow"]
    /\ UNCHANGED <<relation, owned>> /\ OnlyFiles

DropRow(c) ==
    /\ At(c, "DropRow")
    /\ \/ pictures' = pictures \ OwnLink(c) /\ UNCHANGED faults
       \/ Fault /\ UNCHANGED pictures
    /\ IF LastUse(req[c].read)
       THEN req' = [req EXCEPT ![c].step = "DropInfo",
                               ![c].read = {r.blob : r \in @}]
       ELSE Ends(c)
    /\ UNCHANGED <<fileTables, shareTables, pictureCount, public, stored,
                   arriving>>

DropInfo(c) ==
    /\ At(c, "DropInfo")
    /\ info' = [info EXCEPT ![req[c].file] = {}]
    /\ req' = [req EXCEPT ![c].step = "DropBlob"]
    /\ UNCHANGED <<relation, owned>> /\ OnlyFiles

DropBlob(c) ==
    /\ At(c, "DropBlob")
    /\ stored' = {b \in stored : b.file # req[c].file \/ b.no \notin req[c].read}
    /\ Ends(c)
    /\ UNCHANGED <<fileTables, shareTables, pictureTables, public, arriving,
                   faults>>

\* The writes of a cancel are not checked.
DropSkips(c) ==
    \/ Skips(c, "DropWriteOwn", "DropRead")
    \/ Skips(c, "DropCount", "DropRow")
    \/ Skips(c, "DropInfo", "DropBlob")

---------------------------------------------------------------------------
(* browse_picture: the link answers only while its file is there. *)

BrowseRead(c) ==
    /\ At(c, "BrowseRead")
    /\ IF Link(c) = {}
       THEN Ends(c)
       ELSE \E p \in Link(c) :
                req' = [req EXCEPT ![c].step = "BrowseFile", ![c].file = p.file,
                                   ![c].read = {p.views}]
    /\ OnlyReq

BrowseFile(c) ==
    /\ At(c, "BrowseFile")
    /\ IF info[req[c].file] = {}
       THEN Ends(c) ELSE req' = [req EXCEPT ![c].step = "BrowseWrite"]
    /\ OnlyReq

BrowseWrite(c) ==
    /\ At(c, "BrowseWrite")
    /\ pictures' = (pictures \ Link(c)) \cup
            {[p EXCEPT !.views = Only(req[c].read) + 1] : p \in Link(c)}
    /\ Ends(c)
    /\ UNCHANGED <<fileTables, shareTables, pictureCount, public, stored,
                   arriving, faults>>

SharePicture(c) ==
    \/ PictureInsert(c) \/ PictureRead(c) \/ PictureCount(c)
    \/ PictureReadOwn(c) \/ PictureWriteOwn(c)

CancelPicture(c) ==
    \/ DropFind(c) \/ DropReadOwn(c) \/ DropWriteOwn(c) \/ DropRead(c)
    \/ DropCount(c) \/ DropRow(c) \/ DropInfo(c) \/ DropBlob(c)
    \/ DropSkips(c)

BrowsePicture(c) == BrowseRead(c) \/ BrowseFile(c) \/ BrowseWrite(c)

PictureProgram ==
    LET c == "sharepicture"
    IN  \/ Accept(c, {"PictureInsert", "DropFind", "BrowseRead"})
        \/ SharePicture(c) \/ CancelPicture(c) \/ BrowsePicture(c)
=============================================================================
