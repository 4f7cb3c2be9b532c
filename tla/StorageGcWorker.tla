-------------------------- MODULE StorageGcWorker --------------------------
(***************************************************************************)
(* The loop of src_cgi/storage_gc_worker.cpp: reconcile ended sessions,    *)
(* claim a batch, then delete each candidate's blob and finish its row.    *)
(* The deployment runs one such process (docker/docker-compose.yaml) and   *)
(* restarts it when it dies.  Faults are as in StorageGateway, bounded by  *)
(* MaxGcFaults.                                                            *)
(***************************************************************************)
EXTENDS BlobStore

CONSTANT MaxGcFaults

ASSUME GcAssumption == MaxGcFaults \in Nat

VARIABLES gc, gcFaults

gcVars == <<gc, gcFaults>>

\* A candidate keeps the backend id it had when it was claimed.
Candidate == [chunk : Chunks, backend : Backends \cup {NoBackend}]

GcState == [pc : {"reconcile", "claim", "delete", "finish", "retry"},
            batch : SUBSET Candidate, deleted : SUBSET Candidate]

GcStart == [pc |-> "reconcile", batch |-> {}, deleted |-> {}]

GcInit == gc = GcStart /\ gcFaults = 0

GcFault == gcFaults < MaxGcFaults /\ gcFaults' = gcFaults + 1
NoGcFault == UNCHANGED gcFaults

Reconcile ==
    /\ gc.pc = "reconcile"
    /\ gc' = [gc EXCEPT !.pc = "claim"]
    /\ UNCHANGED blob
    /\ \/ /\ \E expired \in SUBSET Uploads : ReconcileExpiredUploads(expired)
          /\ NoGcFault
       \/ UNCHANGED tables /\ GcFault

\* A claim that fails, or whose answer is lost, starts the loop again.
ClaimBatch(stale, batch) ==
    LET candidates == {[chunk |-> c, backend |-> chunk[c].backend] : c \in batch}
    IN  /\ gc.pc = "claim"
        /\ UNCHANGED blob
        /\ \/ /\ ClaimGc(stale, batch)
              /\ NoGcFault
              /\ gc' = IF batch = {} THEN GcStart
                       ELSE [gc EXCEPT !.pc = "delete", !.batch = candidates]
           \/ ClaimGc(stale, batch) /\ GcFault /\ gc' = GcStart
           \/ UNCHANGED tables /\ GcFault /\ gc' = GcStart

\* A candidate without a blob counts as deleted.  A delete that is reported
\* to have failed may still have removed the blob.
DeleteBlob ==
    \E x \in gc.batch :
        /\ gc.pc = "delete"
        /\ UNCHANGED tables
        /\ \/ /\ x.backend = NoBackend
              /\ gc' = [gc EXCEPT !.pc = "finish", !.deleted = {x}]
              /\ UNCHANGED blob /\ NoGcFault
           \/ /\ x.backend # NoBackend
              /\ Remove(x.backend) /\ NoGcFault
              /\ gc' = [gc EXCEPT !.pc = "finish", !.deleted = {x}]
           \/ /\ x.backend # NoBackend
              /\ Remove(x.backend) \/ UNCHANGED blob
              /\ gc' = [gc EXCEPT !.pc = "retry", !.deleted = {x}]
              /\ GcFault

NextCandidate ==
    LET rest == gc.batch \ gc.deleted
    IN  gc' = IF rest = {} THEN GcStart
              ELSE [pc |-> "delete", batch |-> rest, deleted |-> {}]

\* Rows that cannot be removed are queued again, or left DELETING if even
\* that fails.
FinishDeleted ==
    /\ gc.pc = "finish"
    /\ NextCandidate
    /\ UNCHANGED blob
    /\ \/ (\E x \in gc.deleted : FinishGcDeleted(x.chunk)) /\ NoGcFault
       \/ (\E x \in gc.deleted : FinishGcRetry(x.chunk)) /\ GcFault
       \/ UNCHANGED tables /\ GcFault

FinishRetry ==
    /\ gc.pc = "retry"
    /\ NextCandidate
    /\ UNCHANGED blob
    /\ \/ (\E x \in gc.deleted : FinishGcRetry(x.chunk)) /\ NoGcFault
       \/ UNCHANGED tables /\ GcFault

\* The process dies and its batch with it: the rows stay DELETING.
GcCrash ==
    /\ gc # GcStart
    /\ gc' = GcStart
    /\ GcFault
    /\ UNCHANGED <<tables, blob>>

GcStep ==
    \/ Reconcile
    \/ \E stale, batch \in SUBSET Chunks : ClaimBatch(stale, batch)
    \/ DeleteBlob \/ FinishDeleted \/ FinishRetry \/ GcCrash
=============================================================================
