---------------------------- MODULE LegacyUploads ----------------------------
(***************************************************************************)
(* Uploads of a whole file: md5_cgi.c (instant upload of a digest that is  *)
(* stored already) and upload_cgi.c.  Both end with the steps of Bind; an  *)
(* upload first looks for the digest and stores a blob of its own only if  *)
(* it is not there.  The lookups and the store of chunk_merge_cgi.c are    *)
(* copies of upload_cgi.c.                                                 *)
(***************************************************************************)
EXTENDS LegacyTables

\* deal_md5: an instant upload fails when the digest is unknown.
Md5Count(c) ==
    /\ At(c, "Md5Count")
    /\ IF info[req[c].file] = {}
       THEN Ends(c) ELSE Reads(c, "Md5Owned", Counts(info[req[c].file]))
    /\ OnlyReq

\* Mutant of Md5Owned: the file is counted before its owner is looked up.
Md5Counted(c) ==
    /\ At(c, "Md5Owned")
    /\ req' = [req EXCEPT ![c].step = "BindCount"]
    /\ OnlyReq

Md5Owned(c) ==
    /\ At(c, "Md5Owned")
    /\ IF Owns(c) THEN Ends(c) ELSE req' = [req EXCEPT ![c].step = "BindCount"]
    /\ OnlyReq

\* A lookup that fails is taken for a user who does not have the file.
InstantUpload(c) ==
    \/ Md5Count(c) \/ Md5Owned(c) \/ Bind(c)
    \/ Skips(c, "Md5Owned", "BindCount")

---------------------------------------------------------------------------
(* bind_existing_file_to_user *)

ReuseCount(c, from, to, absent) ==
    /\ At(c, from)
    /\ IF info[req[c].file] = {}
       THEN GoTo(c, absent) ELSE Reads(c, to, Counts(info[req[c].file]))
    /\ OnlyReq

ReuseOwned(c, from) ==
    /\ At(c, from)
    /\ IF Owns(c) THEN Joins(c)
       ELSE req' = [req EXCEPT ![c].step = "BindCount"]
    /\ OnlyReq

---------------------------------------------------------------------------
(* upload_to_dstorage *)

StoreBlob(c) ==
    /\ At(c, "StoreBlob")
    /\ stored' = stored \cup {[file |-> req[c].file, no |-> req[c].no,
                               parts |-> Whole]}
    /\ GoTo(c, "StoreOwned")
    /\ UNCHANGED <<fileTables, shareTables, pictureTables, public, arriving,
                   faults>>

---------------------------------------------------------------------------
(* store_fileinfo_to_mysql.  The blob just stored is nobody's when the     *)
(* user has the file by now or the digest has a row by now.                *)

StoreOwned(c) ==
    /\ At(c, "StoreOwned")
    /\ IF Owns(c) THEN Joins(c) ELSE GoTo(c, "StoreRead")
    /\ OnlyReq

StoreRead(c) ==
    /\ At(c, "StoreRead")
    /\ IF info[req[c].file] = {}
       THEN GoTo(c, "StoreInsert")
       ELSE Reads(c, "BindCount", Counts(info[req[c].file]))
    /\ OnlyReq

\* The unique key of file_info refuses a second row of the digest.
StoreInsert(c) ==
    /\ At(c, "StoreInsert")
    /\ IF info[req[c].file] # {}
       THEN Fails(c) /\ UNCHANGED info
       ELSE /\ info' = [info EXCEPT ![req[c].file] =
                            {[count |-> 1, blob |-> req[c].no]}]
            /\ GoTo(c, "BindRelation")
    /\ UNCHANGED <<relation, owned>> /\ OnlyFiles

\* A lookup that fails is taken for a user who does not have the file, or for
\* an unknown digest.
StoreInfo(c) ==
    \/ StoreOwned(c) \/ StoreRead(c) \/ StoreInsert(c)
    \/ Misread(c, "StoreOwned", "StoreRead")
    \/ Misread(c, "StoreRead", "StoreInsert")

UploadFile(c) ==
    \/ ReuseCount(c, "UploadCount", "UploadOwned", "StoreBlob")
    \/ ReuseOwned(c, "UploadOwned")
    \/ StoreBlob(c) \/ StoreInfo(c) \/ Bind(c)

Md5Program ==
    LET c == "md5" IN Accept(c, {"Md5Count"}) \/ InstantUpload(c)

UploadProgram ==
    LET c == "upload" IN Accept(c, {"UploadCount"}) \/ UploadFile(c)
=============================================================================
