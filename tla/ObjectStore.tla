---------------------------- MODULE ObjectStore ----------------------------
(***************************************************************************)
(* The V2 object store: gateway workers, the GC worker and clients over    *)
(* one metadata store and one blob store.                                  *)
(*                                                                         *)
(* init, commit, abort and delete are one transaction each, after which    *)
(* the handler only answers, so a client's call is that transaction: a     *)
(* crash on either side of it decides only whether the client hears of it, *)
(* and a client that did not may call again.  Shares and the knowledge     *)
(* workers do not meet blobs and are left to MetadataStore.                *)
(***************************************************************************)
EXTENDS StorageGateway, StorageGcWorker

vars == <<tables, blob, gatewayVars, gcVars>>

StoreInit == Init /\ BlobInit /\ GatewayInit /\ GcInit

ClientCall ==
    /\ \/ \E u \in Uploads :
            InstantHit(u) \/ InitOrResume(u) \/ Commit(u) \/ Abort(u, UserOf[u])
       \/ \E user \in Users, d \in Digests, n \in Names :
            DeleteObjectForUser(user, d, n)
    /\ UNCHANGED <<blob, gatewayVars, gcVars>>

TimePasses ==
    /\ \E c \in Chunks : LeaseExpires(c)
    /\ UNCHANGED <<blob, gatewayVars, gcVars>>

StoreNext ==
    \/ ClientCall
    \/ TimePasses
    \/ GatewayStep /\ UNCHANGED gcVars
    \/ GcStep /\ UNCHANGED gatewayVars

StoreSpec == StoreInit /\ [][StoreNext]_vars

\* A request that was begun goes on, and so does the GC loop; every chunk
\* whose deadline has passed is in some later batch, which ORDER BY id and
\* the backoff of failed rows see to.
GcClaims(c) == \E stale, batch \in SUBSET Chunks :
                   c \in batch /\ ClaimBatch(stale, batch) /\ NoGcFault
                     /\ UNCHANGED gatewayVars

GcLoop == (Reconcile \/ DeleteBlob \/ FinishDeleted \/ FinishRetry
             \/ ClaimBatch({}, {})) /\ UNCHANGED gatewayVars

Fairness ==
    /\ WF_vars(GcLoop)
    /\ \A c \in Chunks : SF_vars(GcClaims(c))
    /\ \A g \in Workers : WF_vars(HandlePart(g) /\ UNCHANGED gcVars)

FairSpec == StoreSpec /\ Fairness

----------------------------------------------------------------------------
(* Properties.                                                             *)

\* The processes stay in the states their code has, with the local variables
\* each of them needs, and no file id is more than unused, stored or gone.
StoreTypeOK ==
    /\ blob \in [Backends -> BlobStates]
    /\ worker \in [Workers -> WorkerState]
    /\ \A g \in Workers : ~At(g, "idle") => worker[g].upload \in Uploads
    /\ \A g \in Workers :
         worker[g].pc \in {"finalize", "record", "publish", "reject", "cleanup"}
             => worker[g].backend \in Backends
    /\ gatewayFaults \in 0..MaxGatewayFaults
    /\ gc \in GcState
    /\ gc.deleted \subseteq gc.batch
    /\ gcFaults \in 0..MaxGcFaults

\* A READY row names a blob that is stored and holds the bytes the chunk
\* was declared with, whatever became of the requests that wrote it: what a
\* commit refers to can be read.
ReadyBlobIntact ==
    \A c \in Chunks : chunk[c].state = "READY" => blob[chunk[c].backend] = c

\* What a download of a file reads: the bytes its blobs really hold.
ReadBack(d) ==
    [mode |-> file[d].mode,
     bytes |-> IF file[d].mode # "manifest" THEN <<>>
               ELSE [i \in DOMAIN LayoutOf[file[d].source] |->
                      LET b == chunk[LayoutOf[file[d].source][i]].backend
                      IN  IF b \in Backends THEN blob[b] ELSE "gap"]]

Downloads == INSTANCE ObjectCatalog WITH
    owned <- relation, content <- [d \in Digests |-> ReadBack(d)]

\* From end to end, an owned object downloads as the bytes that were declared
\* for it, although requests race, fail and die and GC deletes blobs.
DownloadsAsDeclared == Downloads!CatalogSpec

(***************************************************************************)
(* Whatever fails, dies or is deleted, of the gateway and of GC alike, a   *)
(* download that is sent has the declared bytes: each part of the file is  *)
(* stored with them, or its blob is gone and the download breaks off       *)
(* there.  No part is ever without a blob id, and none has other bytes.    *)
(***************************************************************************)
NoWrongBytes ==
    \A d \in Digests :
        file[d].mode = "manifest" =>
            \A i \in DOMAIN LayoutOf[file[d].source] :
                ReadBack(d).bytes[i] \in {LayoutOf[file[d].source][i], "gone"}

\* The request still owns the row it claimed.
Current(g) ==
    LET w == worker[g]
    IN  /\ w.pc \notin {"idle", "claim", "cleanup"}
        /\ Holds(w.upload, w.part, w.epoch)

\* Two requests that both still own one chunk are finishing the same blob:
\* a second physical write never starts while the first one may still be
\* recorded.
OneWriter ==
    \A g, h \in Workers :
        (g # h /\ Current(g) /\ Current(h)
           /\ ChunkOf(worker[g].upload, worker[g].part)
                = ChunkOf(worker[h].upload, worker[h].part))
        => worker[g].backend = worker[h].backend

\* A physical delete, by GC or by the gateway's own clean-up, never takes a
\* stored blob that a READY row names or that a request which owns its row
\* is about to publish.
DeletesOnlyGarbage ==
    [][\A b \in Backends : (Stored(b) /\ blob'[b] = "gone") =>
         /\ \A c \in Chunks :
              chunk[c].backend = b => chunk[c].state # "READY"
         /\ \A g \in Workers : Current(g) => worker[g].backend # b]_vars

\* A stored blob is still known: a row names it, or a request that will
\* report it, or a candidate of the GC worker.
BlobTracked ==
    \A b \in Backends : Stored(b) =>
        \/ \E c \in Chunks : chunk[c].backend = b
        \/ \E g \in Workers : worker[g].backend = b
        \/ \E x \in gc.batch : x.backend = b

\* A row that waits for GC, or was left DELETING by a worker that died, is
\* removed or taken up again by an upload: it does not wait for ever.
GarbageCollected ==
    \A c \in Chunks :
        chunk[c].state \in {"GC_PENDING", "DELETING"} ~>
            \/ chunk[c].state \notin {"GC_PENDING", "DELETING"}
            \/ WantedByActive(c)
=============================================================================
