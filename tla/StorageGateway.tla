--------------------------- MODULE StorageGateway ---------------------------
(***************************************************************************)
(* The part handler of src_cgi/storage_gateway.cpp.  A gateway process     *)
(* serves one request at a time, so a worker is a request: its place in    *)
(* the handler and the local variables that outlive a transaction.         *)
(*                                                                         *)
(* A fault is a transaction that is rolled back although its guard held, a *)
(* COMMIT whose answer is lost, a blob store call that fails, or the death *)
(* of the process.  The guards bound their number by MaxGatewayFaults.     *)
(* A request that the admission bound or the circuit breaker turns away    *)
(* changes nothing and does not begin.                                     *)
(***************************************************************************)
EXTENDS BlobStore

CONSTANTS Workers, MaxGatewayFaults

ASSUME GatewayAssumption == MaxGatewayFaults \in Nat

VARIABLES worker, gatewayFaults

gatewayVars == <<worker, gatewayFaults>>

Idle == [pc |-> "idle", upload |-> NoUpload, part |-> 0, epoch |-> 0,
         backend |-> NoBackend]

WorkerState ==
    [pc : {"idle", "claim", "finalize", "put", "record", "publish", "fail",
           "reject", "cleanup"},
     upload : Uploads \cup {NoUpload}, part : Index \cup {0},
     epoch : 0..MaxEpoch, backend : Backends \cup {NoBackend}]

GatewayInit ==
    /\ worker = [g \in Workers |-> Idle]
    /\ gatewayFaults = 0

Fault ==
    /\ gatewayFaults < MaxGatewayFaults
    /\ gatewayFaults' = gatewayFaults + 1

NoFault == UNCHANGED gatewayFaults

At(g, pc) == worker[g].pc = pc
Goto(g, pc) == worker' = [worker EXCEPT ![g].pc = pc]
Done(g) == worker' = [worker EXCEPT ![g] = Idle]

\* The request names a declared part whose chunk is not READY.  The session need
\* only have a row: one that was aborted, has expired or is committed is not
\* refused here, nor by the claim.
BeginPart(g, u, i) ==
    /\ At(g, "idle")
    /\ session[u] # "NONE"
    /\ i \in Parts(u)
    /\ part[u][i].state # "NONE"
    /\ ~(Bound(u, i) /\ RowOf(u, i).state = "READY")
    /\ worker' = [worker EXCEPT ![g] =
                    [Idle EXCEPT !.pc = "claim", !.upload = u, !.part = i]]
    /\ NoFault
    /\ UNCHANGED <<tables, blob>>

\* Mutant of AfterClaim: a row claimed before is taken to have a blob.
AfterClaimByEpoch(row) == IF row.epoch > 1 THEN "finalize" ELSE "put"

\* A blob that is recorded already is finalized instead of stored again.
AfterClaim(row) == IF row.backend = NoBackend THEN "put" ELSE "finalize"

\* A grant carries the epoch and the blob the row already names, if any.  A
\* claim whose answer is lost is tried again; one that is denied is given up.
ClaimPart(g) ==
    LET u == worker[g].upload
        i == worker[g].part
        row == chunk'[ChunkOf(u, i)]
    IN  /\ At(g, "claim")
        /\ UNCHANGED blob
        /\ \/ /\ ClaimPartUpload(u, i)
              /\ worker' = [worker EXCEPT ![g].epoch = row.epoch,
                   ![g].backend = row.backend,
                   ![g].pc = AfterClaim(row)]
              /\ NoFault
           \/ ClaimPartUpload(u, i) /\ UNCHANGED worker /\ Fault
           \/ /\ ~Claimable(u, i)
              /\ Done(g) /\ NoFault /\ UNCHANGED tables
           \/ Done(g) /\ Fault /\ UNCHANGED tables

\* The retry's body is hashed and the recorded blob is published; whatever
\* comes of it, the request ends.
FinalizeRecorded(g) ==
    LET w == worker[g]
    IN  /\ At(g, "finalize")
        /\ Done(g)
        /\ NoFault
        /\ UNCHANGED blob
        /\ \/ MarkPartReady(w.upload, w.part, w.epoch, w.backend)
           \/ UNCHANGED tables

\* The body is streamed into a new blob and hashed on the way.  A failed
\* upload may have left its bytes behind without an id to name them.
PutBlob(g) ==
    LET w == worker[g]
        c == ChunkOf(w.upload, w.part)
    IN  /\ At(g, "put")
        /\ UNCHANGED tables
        /\ \/ \E b \in Backends :
                /\ Store(b, c) /\ NoFault
                /\ worker' = [worker EXCEPT ![g].pc = "record",
                                            ![g].backend = b]
           \/ \E b \in Backends :
                /\ Store(b, "corrupt") /\ NoFault
                /\ worker' = [worker EXCEPT ![g].pc = "reject",
                                            ![g].backend = b]
           \/ UNCHANGED blob /\ Fault /\ Goto(g, "fail")
           \/ (\E b \in Backends : Store(b, c)) /\ Fault /\ Goto(g, "fail")

RecordBlob(g) ==
    LET w == worker[g]
        u == w.upload
        i == w.part
    IN  /\ At(g, "record")
        /\ UNCHANGED blob
        /\ \/ /\ RecordPartBackend(u, i, w.epoch, w.backend)
              /\ Goto(g, "publish") /\ NoFault
           \/ /\ RecordPartBackend(u, i, w.epoch, w.backend)
              /\ Goto(g, "fail") /\ Fault
           \/ /\ ~CanRecord(u, i, w.epoch, w.backend)
              /\ Goto(g, "fail") /\ NoFault /\ UNCHANGED tables
           \/ Goto(g, "fail") /\ Fault /\ UNCHANGED tables

PublishPart(g) ==
    LET w == worker[g]
    IN  /\ At(g, "publish")
        /\ UNCHANGED blob
        /\ \/ /\ MarkPartReady(w.upload, w.part, w.epoch, w.backend)
              /\ Done(g) /\ NoFault
           \/ /\ MarkPartReady(w.upload, w.part, w.epoch, w.backend)
              /\ Goto(g, "fail") /\ Fault
           \/ /\ ~CanPublish(w.upload, w.part, w.epoch)
              /\ Goto(g, "fail") /\ NoFault /\ UNCHANGED tables
           \/ Goto(g, "fail") /\ Fault /\ UNCHANGED tables

\* The failure is reported with the blob's id, if one is known, so that GC
\* deletes it; the report's own result is ignored.
ReportFailure(g) ==
    LET w == worker[g]
    IN  /\ At(g, "fail")
        /\ Done(g)
        /\ UNCHANGED blob
        /\ \/ MarkPartFailed(w.upload, w.part, w.epoch, w.backend) /\ NoFault
           \/ /\ ~CanFail(w.upload, w.part, w.epoch)
              /\ UNCHANGED tables /\ NoFault
           \/ UNCHANGED tables /\ Fault

\* Mutant of RejectPart: the id of the rejected blob is reported.
RejectPartWithId(g) ==
    LET w == worker[g]
    IN  /\ At(g, "reject")
        /\ MarkPartFailed(w.upload, w.part, w.epoch, w.backend)
        /\ Done(g)
        /\ NoFault
        /\ UNCHANGED blob

\* Bytes that do not match are never recorded; only the owner the store
\* still accepts removes them.
RejectPart(g) ==
    LET w == worker[g]
    IN  /\ At(g, "reject")
        /\ UNCHANGED blob
        /\ \/ /\ MarkPartFailed(w.upload, w.part, w.epoch, NoBackend)
              /\ Goto(g, "cleanup") /\ NoFault
           \/ /\ MarkPartFailed(w.upload, w.part, w.epoch, NoBackend)
              /\ Done(g) /\ Fault
           \/ /\ ~CanFail(w.upload, w.part, w.epoch)
              /\ Done(g) /\ UNCHANGED tables /\ NoFault
           \/ Done(g) /\ UNCHANGED tables /\ Fault

RemoveRejected(g) ==
    /\ At(g, "cleanup")
    /\ Done(g)
    /\ UNCHANGED tables
    /\ \/ Remove(worker[g].backend) /\ NoFault
       \/ UNCHANGED blob /\ Fault

\* The process dies between two steps; another one takes its place.
WorkerCrash(g) ==
    /\ ~At(g, "idle")
    /\ Done(g)
    /\ Fault
    /\ UNCHANGED <<tables, blob>>

HandlePart(g) ==
    \/ ClaimPart(g) \/ FinalizeRecorded(g) \/ PutBlob(g) \/ RecordBlob(g)
    \/ PublishPart(g) \/ ReportFailure(g) \/ RejectPart(g) \/ RemoveRejected(g)

GatewayStep ==
    \E g \in Workers :
        \/ \E u \in Uploads, i \in Index : BeginPart(g, u, i)
        \/ HandlePart(g)
        \/ WorkerCrash(g)
=============================================================================
