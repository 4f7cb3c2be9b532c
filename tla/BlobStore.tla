----------------------------- MODULE BlobStore -----------------------------
(***************************************************************************)
(* The physical blobs, as common/storage_blob_store.cpp uses FastDFS: an   *)
(* upload returns a file id nobody had before, and a delete succeeds for a *)
(* file that is already gone.  A blob is known by the chunk whose bytes it *)
(* holds; "corrupt" stands for bytes that hash to something else.  File    *)
(* ids and chunks are those of the metadata store; no transaction of the   *)
(* store touches a blob.                                                   *)
(***************************************************************************)
EXTENDS MetadataStore

\* A chunk key, a pair (sha256, size), is none of the marks below.
ASSUME BlobAssumption == Chunks \cap {"unused", "corrupt", "gone"} = {}

VARIABLE blob

BlobStates == Chunks \cup {"unused", "corrupt", "gone"}

BlobInit == blob = [b \in Backends |-> "unused"]

\* Bytes are stored under a fresh file id.
Store(b, bytes) ==
    /\ blob[b] = "unused"
    /\ blob' = [blob EXCEPT ![b] = bytes]

Remove(b) == blob' = [blob EXCEPT ![b] = "gone"]

Stored(b) == blob[b] \in Chunks \cup {"corrupt"}
=============================================================================
