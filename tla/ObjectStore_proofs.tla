------------------------ MODULE ObjectStore_proofs ------------------------
(***************************************************************************)
(* Theorems about ObjectStore for any number of gateway workers, sessions, *)
(* chunks, blobs and faults.                                               *)
(***************************************************************************)
EXTENDS ObjectStore, ObjectCatalog_proofs

Busy(g) == ~At(g, "idle")
ChunkFor(g) == ChunkOf(worker[g].upload, worker[g].part)
RowFor(g) == chunk[ChunkFor(g)]

\* What a request knows at each place in the handler.
WorkersKnow ==
    \A g \in Workers :
        /\ Busy(g) => worker[g].part \in Parts(worker[g].upload)
        /\ worker[g].pc \in {"idle", "claim", "put"}
             => worker[g].backend = NoBackend

\* And what the GC worker knows: a batch from the claim on, and one
\* candidate at a time.
GcKnows ==
    /\ gc.pc \in {"reconcile", "claim"} => gc.batch = {}
    /\ gc.pc \in {"reconcile", "claim", "delete"} => gc.deleted = {}
    /\ \A x, y \in gc.deleted : x = y

StoreTyped ==
    TypeOK /\ ManifestSources /\ StoreTypeOK /\ WorkersKnow /\ GcKnows

----------------------------------------------------------------------------
(* The outcomes of one step of a request.                                  *)

Request(pc, upload, part_, epoch, backend) ==
    [pc |-> pc, upload |-> upload, part |-> part_, epoch |-> epoch,
     backend |-> backend]

\* Request g is at pc now, with this epoch and blob.
Moved(g, pc, epoch, backend) ==
    worker' = [worker EXCEPT ![g] = Request(pc, worker[g].upload,
                                            worker[g].part, epoch, backend)]
MovedTo(g, pc) == Moved(g, pc, worker[g].epoch, worker[g].backend)

Opens(g) ==
    /\ At(g, "idle")
    /\ \E u \in Uploads : \E i \in Parts(u) :
         /\ session[u] # "NONE"
         /\ worker' = [worker EXCEPT ![g] =
                         Request("claim", u, i, 0, NoBackend)]
    /\ UNCHANGED <<tables, blob>>

IsGranted(g) ==
    /\ At(g, "claim")
    /\ ClaimPartUpload(worker[g].upload, worker[g].part)
    /\ \/ LET row == chunk'[ChunkFor(g)]
          IN  Moved(g, AfterClaim(row), row.epoch, row.backend)
       \/ worker' = worker
    /\ UNCHANGED blob

Ends(g) == Busy(g) /\ Done(g) /\ UNCHANGED <<tables, blob>>

Publishes(g) ==
    /\ worker[g].pc \in {"finalize", "publish"}
    /\ MarkPartReady(worker[g].upload, worker[g].part, worker[g].epoch,
                     worker[g].backend)
    /\ Done(g) \/ MovedTo(g, "fail")
    /\ UNCHANGED blob

Puts(g) ==
    /\ At(g, "put")
    /\ UNCHANGED tables
    /\ \E b \in Backends :
         \/ Store(b, ChunkFor(g)) /\ Moved(g, "record", worker[g].epoch, b)
         \/ Store(b, "corrupt") /\ Moved(g, "reject", worker[g].epoch, b)
         \/ Store(b, ChunkFor(g)) /\ MovedTo(g, "fail")

Records(g) ==
    /\ At(g, "record")
    /\ RecordPartBackend(worker[g].upload, worker[g].part, worker[g].epoch,
                         worker[g].backend)
    /\ MovedTo(g, "publish") \/ MovedTo(g, "fail")
    /\ UNCHANGED blob

GivesUp(g) ==
    /\ worker[g].pc \in {"put", "record", "publish"}
    /\ MovedTo(g, "fail")
    /\ UNCHANGED <<tables, blob>>

Reports(g) ==
    /\ At(g, "fail")
    /\ MarkPartFailed(worker[g].upload, worker[g].part, worker[g].epoch,
                      worker[g].backend)
    /\ Done(g)
    /\ UNCHANGED blob

Rejects(g) ==
    /\ At(g, "reject")
    /\ MarkPartFailed(worker[g].upload, worker[g].part, worker[g].epoch,
                      NoBackend)
    /\ MovedTo(g, "cleanup") \/ Done(g)
    /\ UNCHANGED blob

CleansUp(g) ==
    /\ At(g, "cleanup")
    /\ Remove(worker[g].backend)
    /\ Done(g)
    /\ UNCHANGED tables

GatewayMove(g) ==
    \/ Opens(g) \/ IsGranted(g) \/ Ends(g) \/ Publishes(g) \/ Puts(g)
    \/ Records(g) \/ GivesUp(g) \/ Reports(g) \/ Rejects(g) \/ CleansUp(g)

LEMMA WorkerIsRequest ==
    ASSUME worker \in [Workers -> WorkerState], NEW g \in Workers
    PROVE  worker[g] = Request(worker[g].pc, worker[g].upload, worker[g].part,
                               worker[g].epoch, worker[g].backend)
<1>1. worker[g] \in WorkerState
  OBVIOUS
<1> QED BY <1>1 DEF WorkerState, Request

LEMMA GotoMoves ==
    ASSUME worker \in [Workers -> WorkerState], NEW g \in Workers, NEW pc,
           Goto(g, pc)
    PROVE  MovedTo(g, pc)
<1>1. worker' = [worker EXCEPT ![g] = [worker[g] EXCEPT !.pc = pc]]
  BY DEF Goto
<1>2. PICK w : w = worker[g]
  OBVIOUS
<1>3. w = Request(w.pc, w.upload, w.part, w.epoch, w.backend)
  BY <1>2, WorkerIsRequest
<1>4. [w EXCEPT !.pc = pc] = Request(pc, w.upload, w.part, w.epoch, w.backend)
  BY <1>3 DEF Request
<1> QED BY <1>1, <1>2, <1>4 DEF MovedTo, Moved

LEMMA GrantMoves ==
    ASSUME worker \in [Workers -> WorkerState], NEW g \in Workers,
           NEW pc, NEW e, NEW b,
           worker' = [worker EXCEPT ![g].epoch = e, ![g].backend = b,
                                    ![g].pc = pc]
    PROVE  Moved(g, pc, e, b)
<1>1. PICK w : w = worker[g]
  OBVIOUS
<1>2. PICK w1 : w1 = [w EXCEPT !.epoch = e]
  OBVIOUS
<1>3. PICK w2 : w2 = [w1 EXCEPT !.backend = b]
  OBVIOUS
<1>4. w = Request(w.pc, w.upload, w.part, w.epoch, w.backend)
  BY <1>1, WorkerIsRequest
<1>5. w1 = Request(w.pc, w.upload, w.part, e, w.backend)
  BY <1>2, <1>4 DEF Request
<1>6. w2 = Request(w.pc, w.upload, w.part, e, b)
  BY <1>3, <1>5 DEF Request
<1>7. [w2 EXCEPT !.pc = pc] = Request(pc, w.upload, w.part, e, b)
  BY <1>6 DEF Request
<1>8. worker' = [worker EXCEPT ![g] = [w2 EXCEPT !.pc = pc]]
  BY <1>1, <1>2, <1>3
<1> QED BY <1>1, <1>7, <1>8 DEF Moved

LEMMA PutMoves ==
    ASSUME worker \in [Workers -> WorkerState], NEW g \in Workers,
           NEW pc, NEW b,
           worker' = [worker EXCEPT ![g].pc = pc, ![g].backend = b]
    PROVE  Moved(g, pc, worker[g].epoch, b)
<1>1. PICK w : w = worker[g]
  OBVIOUS
<1>2. PICK w1 : w1 = [w EXCEPT !.pc = pc]
  OBVIOUS
<1>3. w = Request(w.pc, w.upload, w.part, w.epoch, w.backend)
  BY <1>1, WorkerIsRequest
<1>4. w1 = Request(pc, w.upload, w.part, w.epoch, w.backend)
  BY <1>2, <1>3 DEF Request
<1>5. [w1 EXCEPT !.backend = b] = Request(pc, w.upload, w.part, w.epoch, b)
  BY <1>4 DEF Request
<1>6. worker' = [worker EXCEPT ![g] = [w1 EXCEPT !.backend = b]]
  BY <1>1, <1>2
<1> QED BY <1>1, <1>5, <1>6 DEF Moved

LEMMA BeginMoves ==
    ASSUME NEW u, NEW i
    PROVE  [Idle EXCEPT !.pc = "claim", !.upload = u, !.part = i]
             = Request("claim", u, i, 0, NoBackend)
<1>1. PICK w : w = Idle
  OBVIOUS
<1>2. PICK w1 : w1 = [w EXCEPT !.pc = "claim"]
  OBVIOUS
<1>3. PICK w2 : w2 = [w1 EXCEPT !.upload = u]
  OBVIOUS
<1>4. w = Request("idle", NoUpload, 0, 0, NoBackend)
  BY <1>1 DEF Idle, Request
<1>5. w1 = Request("claim", NoUpload, 0, 0, NoBackend)
  BY <1>2, <1>4 DEF Request
<1>6. w2 = Request("claim", u, 0, 0, NoBackend)
  BY <1>3, <1>5 DEF Request
<1>7. [w2 EXCEPT !.part = i] = Request("claim", u, i, 0, NoBackend)
  BY <1>6 DEF Request
<1> QED BY <1>1, <1>2, <1>3, <1>7

LEMMA GatewayMoves ==
    ASSUME StoreTyped, GatewayStep
    PROVE  \E g \in Workers : GatewayMove(g)
<1> USE DEF At
<1>1. worker \in [Workers -> WorkerState]
  BY DEF StoreTyped, StoreTypeOK
<1>2. ASSUME NEW g \in Workers, NEW u \in Uploads, NEW i \in Index,
             BeginPart(g, u, i)
      PROVE  Opens(g)
  <2>2. session[u] # "NONE" /\ i \in Parts(u)
    BY <1>2 DEF BeginPart
  <2>3. worker' = [worker EXCEPT ![g] =
                     [Idle EXCEPT !.pc = "claim", !.upload = u, !.part = i]]
    BY <1>2 DEF BeginPart
  <2>4. worker' = [worker EXCEPT ![g] = Request("claim", u, i, 0, NoBackend)]
    BY <2>3, BeginMoves
  <2> QED BY <1>2, <2>2, <2>4 DEF BeginPart, Opens
<1>3. ASSUME NEW g \in Workers, ClaimPart(g)
      PROVE  IsGranted(g) \/ Ends(g)
  BY <1>1, <1>3, GrantMoves DEF ClaimPart, IsGranted, Ends, Busy, ChunkFor
<1>4. ASSUME NEW g \in Workers, FinalizeRecorded(g)
      PROVE  Publishes(g) \/ Ends(g)
  BY <1>4 DEF FinalizeRecorded, Publishes, Ends, Busy
<1>5. ASSUME NEW g \in Workers, PutBlob(g)
      PROVE  Puts(g) \/ GivesUp(g)
  BY <1>1, <1>5, PutMoves, GotoMoves DEF PutBlob, Puts, GivesUp, ChunkFor
<1>6. ASSUME NEW g \in Workers, RecordBlob(g)
      PROVE  Records(g) \/ GivesUp(g)
  BY <1>1, <1>6, GotoMoves DEF RecordBlob, Records, GivesUp
<1>7. ASSUME NEW g \in Workers, PublishPart(g)
      PROVE  Publishes(g) \/ GivesUp(g)
  BY <1>1, <1>7, GotoMoves DEF PublishPart, Publishes, GivesUp
<1>8. ASSUME NEW g \in Workers, ReportFailure(g)
      PROVE  Reports(g) \/ Ends(g)
  BY <1>8 DEF ReportFailure, Reports, Ends, Busy
<1>9. ASSUME NEW g \in Workers, RejectPart(g)
      PROVE  Rejects(g) \/ Ends(g)
  BY <1>1, <1>9, GotoMoves DEF RejectPart, Rejects, Ends, Busy
<1>10. ASSUME NEW g \in Workers, RemoveRejected(g)
       PROVE  CleansUp(g) \/ Ends(g)
  BY <1>10 DEF RemoveRejected, CleansUp, Ends, Busy
<1>11. ASSUME NEW g \in Workers, WorkerCrash(g)
       PROVE  Ends(g)
  BY <1>11 DEF WorkerCrash, Ends, Busy
<1> QED
  BY <1>2, <1>3, <1>4, <1>5, <1>6, <1>7, <1>8, <1>9, <1>10, <1>11
  DEF GatewayStep, HandlePart, GatewayMove

----------------------------------------------------------------------------
(* Types, and the calls a request or the GC worker makes.                  *)

\* The calls of one step are calls that MetadataStore lets anybody make.
LEMMA StepIsCall ==
    ASSUME StoreTyped, StoreNext PROVE Next \/ UNCHANGED tables
<1>1. CASE ClientCall \/ TimePasses
  BY <1>1, DeclaredPart DEF ClientCall, TimePasses, Next, UploadCalls, FileCalls
<1>2. ASSUME NEW g \in Workers, GatewayMove(g)
      PROVE  Next \/ UNCHANGED tables
  <2>1. /\ worker[g].epoch \in Epochs
        /\ worker[g].backend \in Backends \cup {NoBackend}
        /\ worker[g].pc \in {"finalize", "record", "publish"}
             => worker[g].backend \in Backends
        /\ Busy(g) => /\ worker[g].upload \in Uploads
                      /\ worker[g].part \in Index
    BY DeclaredPart
    DEF StoreTyped, StoreTypeOK, WorkersKnow, WorkerState, Epochs, Busy
  <2>2. NoBackend \in Backends \cup {NoBackend} /\ 0 \in Epochs
    BY StoreAssumption DEF StoreAssumption, Epochs
  <2>3. PartCalls \/ UNCHANGED tables
    BY <1>2, <2>1, <2>2
    DEF GatewayMove, Opens, IsGranted, Ends, Publishes, Puts, Records, GivesUp,
        Reports, Rejects, CleansUp, At, Busy, PartCalls
  <2> QED BY <2>3 DEF Next
<1>3. CASE GcStep
  <2>1. \A x \in gc.deleted : x.chunk \in Chunks
    BY DEF StoreTyped, StoreTypeOK, GcState, Candidate
  <2>2. GcCalls \/ UNCHANGED tables
    BY <1>3, <2>1
    DEF GcStep, Reconcile, ClaimBatch, DeleteBlob, FinishDeleted, FinishRetry,
        GcCrash, GcCalls
  <2> QED BY <2>2 DEF Next
<1> QED BY <1>1, <1>2, <1>3, GatewayMoves DEF StoreNext

\* A request in the state its place in the handler asks for.
RequestOK(r) ==
    /\ r \in WorkerState
    /\ r.pc # "idle" => r.upload \in Uploads /\ r.part \in Parts(r.upload)
    /\ r.pc \in {"finalize", "record", "publish", "reject", "cleanup"}
         => r.backend \in Backends
    /\ r.pc \in {"idle", "claim", "put"} => r.backend = NoBackend

LEMMA RequestsOK ==
    StoreTypeOK /\ WorkersKnow
      <=> /\ worker \in [Workers -> WorkerState]
          /\ \A g \in Workers : RequestOK(worker[g])
          /\ blob \in [Backends -> BlobStates]
          /\ gatewayFaults \in 0..MaxGatewayFaults
          /\ gc \in GcState
          /\ gc.deleted \subseteq gc.batch
          /\ gcFaults \in 0..MaxGcFaults
  BY DEF StoreTypeOK, WorkersKnow, RequestOK, Busy, At

LEMMA NewRequestOK ==
    ASSUME NEW pc \in {"claim", "finalize", "put", "record", "publish", "fail",
                      "reject", "cleanup"},
           NEW u \in Uploads, NEW i \in Parts(u), NEW e \in 0..MaxEpoch,
           NEW b \in Backends \cup {NoBackend},
           pc \in {"finalize", "record", "publish", "reject", "cleanup"}
             => b \in Backends,
           pc \in {"claim", "put"} => b = NoBackend
    PROVE  RequestOK(Request(pc, u, i, e, b))
<1>1. i \in Index
  BY DeclaredPart
<1>2. Request(pc, u, i, e, b) \in WorkerState
  BY <1>1 DEF Request, WorkerState
<1> QED BY <1>2 DEF Request, RequestOK

LEMMA IdleOK == RequestOK(Idle)
<1>1. 0 \in 0..MaxEpoch
  BY StoreAssumption DEF StoreAssumption
<1> QED BY <1>1 DEF Idle, RequestOK, WorkerState

\* One step of a request leaves the others alone and the request in order.
LEMMA GatewayMoveType ==
    ASSUME StoreTyped, TypeOK', NEW g \in Workers, GatewayMove(g)
    PROVE  /\ blob' \in [Backends -> BlobStates]
           /\ worker' \in [Workers -> WorkerState]
           /\ \A h \in Workers : RequestOK(worker'[h])
           /\ \A h \in Workers \ {g} : worker'[h] = worker[h]
<1> DEFINE w == worker[g]
<1>1. /\ worker \in [Workers -> WorkerState]
      /\ \A h \in Workers : RequestOK(worker[h])
      /\ blob \in [Backends -> BlobStates]
  BY RequestsOK DEF StoreTyped
<1>2. /\ w \in WorkerState
      /\ w.pc # "idle" => w.upload \in Uploads /\ w.part \in Parts(w.upload)
      /\ w.pc \in {"finalize", "record", "publish", "reject", "cleanup"}
           => w.backend \in Backends
      /\ w.epoch \in 0..MaxEpoch
      /\ w.backend \in Backends \cup {NoBackend}
  BY <1>1 DEF RequestOK, WorkerState
<1>3. blob' \in [Backends -> BlobStates]
  <2>1. ASSUME NEW b \in Backends, NEW s \in BlobStates, Store(b, s)
        PROVE  blob' \in [Backends -> BlobStates]
    BY <1>1, <2>1 DEF Store
  <2>2. CASE UNCHANGED blob
    BY <1>1, <2>2
  <2>3. CASE Puts(g)
    <3>1. ChunkFor(g) \in BlobStates /\ "corrupt" \in BlobStates
      BY <1>2, <2>3, DeclaredPart DEF Puts, At, ChunkFor, BlobStates
    <3> QED BY <2>1, <2>3, <3>1 DEF Puts
  <2>4. CASE CleansUp(g)
    BY <1>1, <1>2, <2>4 DEF CleansUp, At, Remove, BlobStates
  <2> QED
    BY <2>2, <2>3, <2>4
    DEF GatewayMove, Opens, IsGranted, Ends, Publishes, Records, GivesUp,
        Reports, Rejects
<1>4. \E r : RequestOK(r) /\ worker' = [worker EXCEPT ![g] = r]
  <2>1. CASE Done(g)
    BY <2>1, IdleOK DEF Done
  <2>2. ASSUME NEW pc \in {"claim", "finalize", "put", "record", "publish",
                          "fail", "reject", "cleanup"},
               NEW e \in 0..MaxEpoch, NEW b \in Backends \cup {NoBackend},
               pc \in {"finalize", "record", "publish", "reject", "cleanup"}
                 => b \in Backends,
               pc \in {"claim", "put"} => b = NoBackend,
               Moved(g, pc, e, b), w.pc # "idle"
        PROVE  \E r : RequestOK(r) /\ worker' = [worker EXCEPT ![g] = r]
    <3>1. RequestOK(Request(pc, w.upload, w.part, e, b))
      BY <1>2, <2>2, NewRequestOK
    <3> QED BY <2>2, <3>1 DEF Moved
  <2>3. CASE Opens(g)
    <3>1. PICK u \in Uploads, i \in Index :
                 i \in Parts(u)
                 /\ worker' = [worker EXCEPT ![g] =
                                 Request("claim", u, i, 0, NoBackend)]
      BY <2>3, DeclaredPart DEF Opens
    <3>2. 0 \in 0..MaxEpoch
      BY StoreAssumption DEF StoreAssumption
    <3>3. RequestOK(Request("claim", u, i, 0, NoBackend))
      BY <3>1, <3>2, NewRequestOK
    <3> QED BY <3>1, <3>3
  <2>4. CASE IsGranted(g)
    <3>1. CASE worker' = worker
      BY <1>1, <3>1
    <3>2. CASE worker' # worker
      <4> DEFINE row == chunk'[ChunkFor(g)]
      <4>1. row \in ChunkRow
        BY <1>2, <2>4, DeclaredPart DEF IsGranted, At, ChunkFor, TypeOK
      <4>2. /\ row.epoch \in 0..MaxEpoch
            /\ row.backend \in Backends \cup {NoBackend}
        BY <4>1 DEF ChunkRow
      <4>3. Moved(g, AfterClaim(row), row.epoch, row.backend) /\ w.pc # "idle"
        BY <2>4, <3>2 DEF IsGranted, At
      <4>4. CASE row.backend = NoBackend
        BY <2>2, <4>2, <4>3, <4>4 DEF AfterClaim
      <4>5. CASE row.backend # NoBackend
        BY <2>2, <4>2, <4>3, <4>5 DEF AfterClaim
      <4> QED BY <4>4, <4>5
    <3> QED BY <3>1, <3>2
  <2>5. CASE Puts(g)
    <3>1. PICK b \in Backends : \/ Moved(g, "record", w.epoch, b)
                                \/ Moved(g, "reject", w.epoch, b)
                                \/ Moved(g, "fail", w.epoch, w.backend)
      BY <2>5 DEF Puts, MovedTo
    <3>2. w.pc # "idle"
      BY <2>5 DEF Puts, At
    <3> QED BY <1>2, <2>2, <3>1, <3>2
  <2>6. CASE Publishes(g) \/ Records(g) \/ GivesUp(g) \/ Rejects(g)
    <3>1. \/ Done(g)
          \/ Moved(g, "fail", w.epoch, w.backend) /\ w.pc # "idle"
          \/ Moved(g, "publish", w.epoch, w.backend) /\ w.pc = "record"
          \/ Moved(g, "cleanup", w.epoch, w.backend) /\ w.pc = "reject"
      BY <2>6 DEF Publishes, Records, GivesUp, Rejects, At, MovedTo
    <3> QED BY <1>2, <2>1, <2>2, <3>1
  <2> QED
    BY <2>1, <2>3, <2>4, <2>5, <2>6
    DEF GatewayMove, Ends, Reports, CleansUp
<1>5. PICK r : RequestOK(r) /\ worker' = [worker EXCEPT ![g] = r]
  BY <1>4
<1>6. r \in WorkerState
  BY <1>5 DEF RequestOK
<1> QED BY <1>1, <1>3, <1>5, <1>6

LEMMA GatewayFaultsType ==
    ASSUME gatewayFaults \in 0..MaxGatewayFaults, GatewayStep
    PROVE  gatewayFaults' \in 0..MaxGatewayFaults
<1>1. NoFault \/ Fault
  BY DEF GatewayStep, BeginPart, HandlePart, ClaimPart, FinalizeRecorded, PutBlob,
         RecordBlob, PublishPart, ReportFailure, RejectPart, RemoveRejected,
         WorkerCrash
<1> QED BY <1>1, GatewayAssumption DEF NoFault, Fault, GatewayAssumption

\* The GC worker's step on its own variables.
GcTyped ==
    /\ gc \in GcState
    /\ gc.deleted \subseteq gc.batch
    /\ gcFaults \in 0..MaxGcFaults
    /\ GcKnows

LEMMA GcStepType ==
    ASSUME StoreTyped, GcStep
    PROVE  GcTyped' /\ blob' \in [Backends -> BlobStates]
<1>1. GcTyped /\ blob \in [Backends -> BlobStates]
  BY DEF StoreTyped, StoreTypeOK, GcTyped
<1>2. gcFaults' \in 0..MaxGcFaults
  <2>1. NoGcFault \/ GcFault
    BY DEF GcStep, Reconcile, ClaimBatch, DeleteBlob, FinishDeleted, FinishRetry,
           GcCrash
  <2> QED BY <1>1, <2>1, GcAssumption DEF NoGcFault, GcFault, GcAssumption, GcTyped
<1>3. blob' \in [Backends -> BlobStates]
  <2>1. \A x \in gc.batch : x.backend \in Backends \cup {NoBackend}
    BY <1>1 DEF GcTyped, GcState, Candidate
  <2>2. UNCHANGED blob \/ \E b \in Backends : Remove(b)
    BY <2>1
    DEF GcStep, Reconcile, ClaimBatch, DeleteBlob, FinishDeleted, FinishRetry,
        GcCrash
  <2> QED BY <1>1, <2>2 DEF Remove, BlobStates
<1>4. gc' \in GcState /\ gc'.deleted \subseteq gc'.batch /\ GcKnows'
  <2> DEFINE Typed == gc' \in GcState /\ gc'.deleted \subseteq gc'.batch
                        /\ GcKnows'
  <2>1. gc \in GcState /\ gc.deleted \subseteq gc.batch /\ GcKnows
    BY <1>1 DEF GcTyped
  <2>2. ASSUME gc' = GcStart PROVE Typed
    BY <2>2 DEF GcStart, GcState, GcKnows
  <2>3. ASSUME Reconcile PROVE Typed
    BY <2>1, <2>3 DEF Reconcile, GcState, GcKnows
  <2>4. ASSUME NEW stale \in SUBSET Chunks, NEW batch \in SUBSET Chunks,
               ClaimBatch(stale, batch)
        PROVE  Typed
    <3> DEFINE candidates == {[chunk |-> c, backend |-> chunk[c].backend] :
                                c \in batch}
    <3>1. \A c \in batch :
            [chunk |-> c, backend |-> chunk[c].backend] \in Candidate
      BY DEF StoreTyped, TypeOK, ChunkRow, Candidate
    <3>2. candidates \subseteq Candidate
      BY <3>1
    <3>3. \/ gc' = GcStart
          \/ /\ gc.pc = "claim"
             /\ gc' = [gc EXCEPT !.pc = "delete", !.batch = candidates]
      BY <2>4 DEF ClaimBatch
    <3>5. CASE gc.pc = "claim"
               /\ gc' = [gc EXCEPT !.pc = "delete", !.batch = candidates]
      <4> HIDE DEF candidates
      <4>1. gc.deleted = {}
        BY <2>1, <3>5 DEF GcKnows
      <4>2. /\ gc'.pc = "delete"
            /\ gc'.batch = candidates
            /\ gc'.deleted = {}
            /\ gc' \in GcState
        BY <2>1, <3>2, <3>5, <4>1 DEF GcState
      <4> QED BY <4>2 DEF GcKnows
    <3> QED BY <2>2, <3>3, <3>5
  <2>5. ASSUME DeleteBlob PROVE Typed
    <3>1. PICK x \in gc.batch :
                 \/ gc' = [gc EXCEPT !.pc = "finish", !.deleted = {x}]
                 \/ gc' = [gc EXCEPT !.pc = "retry", !.deleted = {x}]
      BY <2>5 DEF DeleteBlob
    <3>2. x \in Candidate /\ gc.batch \subseteq Candidate
      BY <2>1 DEF GcState
    <3>3. {x} \in SUBSET Candidate
      BY <3>2
    <3>4. PICK found : found = {x}
      OBVIOUS
    <3>5. /\ gc'.pc \in {"finish", "retry"}
          /\ gc'.batch = gc.batch
          /\ gc'.deleted = found
          /\ gc' \in GcState
      BY <2>1, <3>1, <3>3, <3>4 DEF GcState
    <3> QED BY <3>4, <3>5 DEF GcKnows
  <2>6. ASSUME FinishDeleted \/ FinishRetry PROVE Typed
    <3> DEFINE rest == gc.batch \ gc.deleted
    <3>1. gc' = GcStart
          \/ gc' = [pc |-> "delete", batch |-> rest, deleted |-> {}]
      BY <2>6 DEF FinishDeleted, FinishRetry, NextCandidate
    <3>2. rest \subseteq Candidate
      BY <2>1 DEF GcState
    <3> QED BY <2>2, <3>1, <3>2 DEF GcState, GcKnows
  <2>7. ASSUME GcCrash PROVE Typed
    BY <2>2, <2>7 DEF GcCrash
  <2> QED BY <2>3, <2>4, <2>5, <2>6, <2>7 DEF GcStep
<1> QED BY <1>2, <1>3, <1>4 DEF GcTyped

LEMMA StoreTypedNext ==
    ASSUME StoreTyped, StoreNext PROVE StoreTyped'
<1>1. TypeOK' /\ ManifestSources'
  <2>1. CASE Next
    BY <2>1, NextType, ManifestSourcesStep DEF StoreTyped
  <2>2. CASE UNCHANGED tables
    BY <2>2 DEF tables, ownership, TypeOK, ManifestSources, StoreTyped
  <2> QED BY <2>1, <2>2, StepIsCall
<1>2. /\ worker \in [Workers -> WorkerState]
      /\ \A g \in Workers : RequestOK(worker[g])
      /\ blob \in [Backends -> BlobStates]
      /\ gatewayFaults \in 0..MaxGatewayFaults
      /\ GcTyped
  BY RequestsOK DEF StoreTyped, GcTyped
<1>3. CASE ClientCall \/ TimePasses
  <2>1. UNCHANGED <<blob, worker, gatewayFaults, gc, gcFaults>>
    BY <1>3 DEF ClientCall, TimePasses, gatewayVars, gcVars
  <2> QED
    BY <1>1, <2>1
    DEF StoreTyped, StoreTypeOK, WorkersKnow, GcKnows, Busy, At
<1>4. CASE GatewayStep /\ UNCHANGED gcVars
  <2>1. PICK g \in Workers : GatewayMove(g)
    BY <1>4, GatewayMoves
  <2>2. /\ blob' \in [Backends -> BlobStates]
        /\ worker' \in [Workers -> WorkerState]
        /\ \A h \in Workers : RequestOK(worker'[h])
    BY <1>1, <2>1, GatewayMoveType
  <2>3. gatewayFaults' \in 0..MaxGatewayFaults
    BY <1>2, <1>4, GatewayFaultsType
  <2>4. GcTyped'
    BY <1>2, <1>4 DEF gcVars, GcTyped, GcKnows
  <2>5. StoreTypeOK' /\ WorkersKnow' /\ GcKnows'
    BY <2>2, <2>3, <2>4
    DEF StoreTypeOK, WorkersKnow, RequestOK, Busy, At, GcTyped
  <2> QED BY <1>1, <2>5 DEF StoreTyped
<1>5. CASE GcStep /\ UNCHANGED gatewayVars
  <2>1. GcTyped' /\ blob' \in [Backends -> BlobStates]
    BY <1>5, GcStepType
  <2>2. StoreTypeOK' /\ WorkersKnow' /\ GcKnows'
    BY <1>2, <1>5, <2>1
    DEF StoreTypeOK, WorkersKnow, RequestOK, Busy, At, GcTyped, gatewayVars
  <2> QED BY <1>1, <2>2 DEF StoreTyped
<1> QED BY <1>3, <1>4, <1>5 DEF StoreNext

LEMMA StoreTypedInit == ASSUME StoreInit PROVE StoreTyped
<1>1. TypeOK /\ ManifestSources
  BY InitType DEF StoreInit, Init, ManifestSources, NoFileRow
<1>2. blob \in [Backends -> BlobStates]
  BY DEF StoreInit, BlobInit, BlobStates
<1>3. /\ worker \in [Workers -> WorkerState]
      /\ \A g \in Workers : RequestOK(worker[g])
  BY IdleOK DEF StoreInit, GatewayInit, RequestOK
<1>4. gatewayFaults \in 0..MaxGatewayFaults /\ gcFaults \in 0..MaxGcFaults
  BY GatewayAssumption, GcAssumption
  DEF StoreInit, GatewayInit, GcInit, GatewayAssumption, GcAssumption
<1>5. gc \in GcState /\ gc.deleted \subseteq gc.batch /\ GcKnows
  BY DEF StoreInit, GcInit, GcStart, GcState, GcKnows
<1> QED BY <1>1, <1>2, <1>3, <1>4, <1>5, RequestsOK DEF StoreTyped

LEMMA StoreTypedUnchanged ==
    ASSUME StoreTyped, UNCHANGED vars PROVE StoreTyped'
  BY DEF vars, tables, ownership, gatewayVars, gcVars, StoreTyped, TypeOK,
         ManifestSources, StoreTypeOK, WorkersKnow, GcKnows, Busy, At

LEMMA StoreTypedInvariant == StoreSpec => []StoreTyped
<1>1. StoreInit => StoreTyped
  BY StoreTypedInit
<1>2. StoreTyped /\ [StoreNext]_vars => StoreTyped'
  BY StoreTypedNext, StoreTypedUnchanged
<1> QED BY <1>1, <1>2, PTL DEF StoreSpec

\* Every request and the GC worker stay in the states their code has, with
\* the local variables each of them needs (StoreTypeOK).
THEOREM StoreTypeCorrect == StoreSpec => []StoreTypeOK
<1>1. StoreTyped => StoreTypeOK
  BY DEF StoreTyped
<1> QED BY <1>1, StoreTypedInvariant, PTL

\* The gateway, GC and clients together do to the tables only what the
\* metadata store allows anybody to do, so its theorems hold of the system.
THEOREM StoreRespectsMetadata == StoreSpec => Spec
<1>1. StoreInit => Init
  BY DEF StoreInit
<1>2. StoreTyped /\ [StoreNext]_vars => [Next]_tables
  BY StepIsCall DEF vars
<1> QED BY <1>1, <1>2, StoreTypedInvariant, PTL DEF StoreSpec, Spec

----------------------------------------------------------------------------
(* Bound parts: what keeps a request's row its own.                        *)

\* A part is bound to a row that exists, by a session that was opened.
BoundRows ==
    \A u \in Uploads : \A i \in Parts(u) :
        Bound(u, i) => session[u] # "NONE" /\ RowOf(u, i).state # "NONE"

\* Sessions stay opened, and only their opening binds parts.
PartsMove ==
    \A u \in Uploads :
        /\ session'[u] = "NONE" => session[u] = "NONE"
        /\ session[u] # "NONE" =>
             \A i \in Parts(u) : part'[u][i].bound => part[u][i].bound

\* The steps that bind nothing at all.
NothingBound ==
    \A u \in Uploads :
        /\ session'[u] = "NONE" => session[u] = "NONE"
        /\ \A i \in Parts(u) : part'[u][i].bound => part[u][i].bound

LEMMA SessionCallsBind ==
    ASSUME TypeOK,
           \/ \E u \in Uploads : InstantHit(u) \/ Commit(u)
           \/ \E u \in Uploads : \E user : Abort(u, user)
           \/ \E expired : ReconcileExpiredUploads(expired)
           \/ session' = session /\ part' = part
    PROVE  NothingBound
<1>1. ASSUME NEW u \in Uploads, InstantHit(u) \/ Commit(u)
      PROVE  NothingBound
  BY <1>1 DEF InstantHit, Commit, TypeOK, NothingBound
<1>2. ASSUME NEW u \in Uploads, NEW user, Abort(u, user) PROVE NothingBound
  BY <1>2 DEF Abort, TypeOK, NothingBound
<1>3. ASSUME NEW expired, ReconcileExpiredUploads(expired) PROVE NothingBound
  BY <1>3 DEF ReconcileExpiredUploads, NothingBound
<1>4. CASE session' = session /\ part' = part
  BY <1>4 DEF NothingBound
<1> QED BY <1>1, <1>2, <1>3, <1>4

LEMMA PartCallsBind ==
    ASSUME TypeOK, NEW u \in Uploads, NEW i \in Index, NEW e, NEW b,
           \/ ClaimPartUpload(u, i)
           \/ RecordPartBackend(u, i, e, b)
           \/ MarkPartReady(u, i, e, b)
           \/ MarkPartFailed(u, i, e, b)
    PROVE  NothingBound
<1>1. \A v \in Uploads : \A j \in Parts(v) : j \in Index
  BY DeclaredPart
<1>2. \A row \in PartRow, s \in {"READY", "MISSING"} :
        [row EXCEPT !.state = s].bound = row.bound
  BY DEF PartRow
<1>3. \A v \in Uploads, j \in Index : part[v][j] \in PartRow
  BY DEF TypeOK
<1>4. CASE ClaimPartUpload(u, i) \/ RecordPartBackend(u, i, e, b)
  BY <1>4 DEF ClaimPartUpload, RecordPartBackend, NothingBound
<1>5. CASE MarkPartReady(u, i, e, b)
  BY <1>1, <1>2, <1>3, <1>5 DEF MarkPartReady, NothingBound
<1>6. CASE MarkPartFailed(u, i, e, b)
  <2>1. session' = session /\ part' = [part EXCEPT ![u][i].state = "MISSING"]
    BY <1>6 DEF MarkPartFailed
  <2>2. \A v \in Uploads, j \in Index :
          part'[v][j] = IF v = u /\ j = i
                        THEN [part[u][i] EXCEPT !.state = "MISSING"]
                        ELSE part[v][j]
    BY <2>1 DEF TypeOK
  <2> QED BY <1>1, <1>2, <1>3, <2>1, <2>2 DEF NothingBound
<1> QED BY <1>4, <1>5, <1>6

LEMMA BoundRowsKept ==
    ASSUME BoundRows, NothingBound, RowsStand
    PROVE  PartsMove /\ BoundRows'
<1>1. \A u \in Uploads : \A i \in Parts(u) : ChunkOf(u, i) \in Chunks
  BY DeclaredPart
<1>2. BoundRows'
  <2> SUFFICES ASSUME NEW u \in Uploads, NEW i \in Parts(u), part'[u][i].bound
               PROVE  /\ session'[u] # "NONE"
                      /\ chunk'[ChunkOf(u, i)].state # "NONE"
    BY DEF BoundRows, Bound, RowOf
  <2>1. session[u] # "NONE" /\ chunk[ChunkOf(u, i)].state # "NONE"
    BY DEF NothingBound, BoundRows, Bound, RowOf
  <2> QED BY <1>1, <2>1 DEF NothingBound, RowsStand, RowStands
<1> QED BY <1>2 DEF NothingBound, PartsMove

LEMMA InitOrResumeBinds ==
    ASSUME SessionInv, BoundRows, NEW u \in Uploads, InitOrResume(u)
    PROVE  PartsMove /\ BoundRows'
<1>1. /\ RowsStand
      /\ \A c \in ChunksOf(FileOf[u]) :
           chunk'[c].state \notin {"NONE", "DELETING"}
  BY InitOrResumeStands DEF SessionInv, RefInv
<1>2. \A v \in Uploads : \A i \in Parts(v) :
        ChunkOf(v, i) \in Chunks /\ ChunkOf(v, i) \in ChunksOf(FileOf[v])
  BY DeclaredPart
<1>3. \A v \in Uploads \ {u} : session'[v] = session[v] /\ part'[v] = part[v]
  BY DEF InitOrResume, SessionInv, RefInv, TypeOK
<1>4. session'[u] # "NONE"
  BY DEF InitOrResume, SessionInv, RefInv, TypeOK
<1>5. PartsMove
  <2>1. session[u] # "NONE" => \A i \in Parts(u) : part[u][i].bound
    BY DEF InitOrResume, SessionInv, ActivePartsBound, Bound
  <2> QED BY <1>3, <1>4, <2>1 DEF PartsMove
<1>6. BoundRows'
  <2> SUFFICES ASSUME NEW v \in Uploads, NEW i \in Parts(v), part'[v][i].bound
               PROVE  /\ session'[v] # "NONE"
                      /\ chunk'[ChunkOf(v, i)].state # "NONE"
    BY DEF BoundRows, Bound, RowOf
  <2>1. CASE v = u
    BY <1>1, <1>2, <1>4, <2>1
  <2>2. CASE v # u
    <3>1. session[v] # "NONE" /\ chunk[ChunkOf(v, i)].state # "NONE"
      BY <1>3, <2>2 DEF BoundRows, Bound, RowOf
    <3> QED BY <1>1, <1>2, <1>3, <2>2, <3>1 DEF RowsStand, RowStands
  <2> QED BY <2>1, <2>2
<1> QED BY <1>5, <1>6

LEMMA GcBinds ==
    ASSUME SessionInv, BoundRows, GcRowStep
    PROVE  PartsMove /\ BoundRows'
<1> USE DEF SessionInv, RefInv, TypeOK
<1>1. \A u \in Uploads : \A i \in Parts(u) : i \in Index /\ ChunkOf(u, i) \in Chunks
  BY DeclaredPart
<1>2. ASSUME NEW stale, NEW batch, ClaimGc(stale, batch)
      PROVE  PartsMove /\ BoundRows'
  <2>1. session' = session /\ part' = part
    BY <1>2 DEF ClaimGc
  <2>2. \A c \in Chunks : chunk'[c].state = "NONE" => chunk[c].state = "NONE"
    BY <1>2 DEF ClaimGc, ChunkRow
  <2> QED BY <1>1, <2>1, <2>2 DEF BoundRows, Bound, RowOf, PartsMove
<1>3. ASSUME NEW c \in Chunks, FinishGcDeleted(c)
      PROVE  PartsMove /\ BoundRows'
  <2> DEFINE gone == chunk[c].state = "DELETING" /\ chunk[c].ref = 0
  <2>1. session' = session
    BY <1>3 DEF FinishGcDeleted
  <2>2. \A x \in Chunks :
          chunk'[x] = IF x = c /\ gone THEN NoChunkRow ELSE chunk[x]
    BY <1>3 DEF FinishGcDeleted
  <2>3. \A row \in PartRow : ~[row EXCEPT !.bound = FALSE].bound
    BY DEF PartRow
  <2>4. ASSUME NEW u \in Uploads, NEW i \in Parts(u), part'[u][i].bound
        PROVE  part[u][i].bound /\ ~(ChunkOf(u, i) = c /\ gone)
    <3>1. part[u][i] \in PartRow /\ ~NoPartRow.bound
      BY <1>1 DEF NoPartRow
    <3>2. part'[u][i] = IF ~(Bound(u, i) /\ ChunkOf(u, i) = c) THEN part[u][i]
                        ELSE IF session[u] \in {"ABORTED", "EXPIRED", "COMMITTED"}
                        THEN NoPartRow
                        ELSE IF gone THEN [part[u][i] EXCEPT !.bound = FALSE]
                        ELSE part[u][i]
      BY <1>1, <1>3 DEF FinishGcDeleted
    <3> QED BY <2>3, <2>4, <3>1, <3>2 DEF Bound
  <2> QED BY <1>1, <2>1, <2>2, <2>4 DEF BoundRows, Bound, RowOf, PartsMove
<1>4. ASSUME NEW c \in Chunks, FinishGcRetry(c)
      PROVE  PartsMove /\ BoundRows'
  <2>1. session' = session /\ part' = part
    BY <1>4 DEF FinishGcRetry
  <2>2. \A x \in Chunks : chunk'[x].state = "NONE" => chunk[x].state = "NONE"
    BY <1>4 DEF FinishGcRetry, ChunkRow
  <2> QED BY <1>1, <2>1, <2>2 DEF BoundRows, Bound, RowOf, PartsMove
<1> QED BY <1>2, <1>3, <1>4 DEF GcRowStep

LEMMA BoundMoves ==
    ASSUME SessionInv, BoundRows, Next PROVE PartsMove /\ BoundRows'
<1>1. TypeOK /\ FreshRows
  BY DEF SessionInv, RefInv
<1>2. CASE GcRowStep
  BY <1>2, GcBinds
<1>3. CASE RowsStand /\ NothingBound
  BY <1>3, BoundRowsKept
<1>4. CASE \E u \in Uploads : InitOrResume(u)
  BY <1>4, InitOrResumeBinds
<1>5. CASE /\ UploadCalls
           /\ ~\E u \in Uploads : InitOrResume(u)
  <2>1. NothingBound
    BY <1>1, <1>5, SessionCallsBind DEF UploadCalls
  <2> QED BY <1>1, <1>2, <1>3, <2>1, RowsStandOrGc
<1>6. CASE PartCalls
  BY <1>1, <1>2, <1>3, <1>6, PartCallsBind, RowsStandOrGc DEF PartCalls
<1>7. CASE GcCalls
  BY <1>1, <1>2, <1>3, <1>7, SessionCallsBind, RowsStandOrGc
  DEF GcCalls, GcRowStep
<1>8. CASE \/ FileCalls \/ \E c \in Chunks : LeaseExpires(c)
           \/ \E t \in Tasks : TaskDone(t)
  <2>1. session' = session /\ part' = part
    BY <1>8 DEF FileCalls, DeleteObjectForUser, LeaseExpires, TaskDone
  <2> QED BY <1>1, <1>2, <1>3, <2>1, SessionCallsBind, RowsStandOrGc
<1> QED BY <1>4, <1>5, <1>6, <1>7, <1>8 DEF Next

----------------------------------------------------------------------------
(* What each step does to the rows' blobs.                                 *)

\* A call that handles no blob may at most forget the one a row names, and
\* then the row is a new one or has no owner.
QuietRow(old, new) ==
    \/ new.backend = old.backend
    \/ new.backend = NoBackend /\ (old.state = "NONE" \/ new.owner = NoUpload)
QuietRows == \A c \in Chunks : QuietRow(chunk[c], chunk'[c])

\* Only GC touches the rows it holds.
SteadyRows ==
    \A c \in Chunks : chunk[c].state = "DELETING" => chunk'[c] = chunk[c]

LEMMA ReservedQuiet ==
    ASSUME NEW row \in ChunkRow, NEW u \in Uploads, Reservable(row, u)
    PROVE  QuietRow(row, Reserved(row, u)) /\ row.state # "DELETING"
<1>1. row.state # "DELETING"
  BY DEF Reservable
<1>2. CASE row.state = "NONE"
  <2>1. Reserved(row, u) =
          [NoChunkRow EXCEPT !.state = "UPLOADING", !.owner = u,
                             !.lease = "live"]
    BY <1>2 DEF Reserved, Bumps
  <2> QED BY <1>1, <1>2, <2>1 DEF QuietRow, NoChunkRow
<1>3. CASE row.state = "UPLOADING" /\ row.owner = u
  <2>1. Reserved(row, u) = [row EXCEPT !.lease = "live"]
    BY <1>3 DEF Reserved, Bumps
  <2> QED BY <1>1, <2>1 DEF QuietRow, ChunkRow
<1>4. CASE Bumps(row, u)
  <2>1. row.state # "NONE" /\ ~(row.state = "UPLOADING" /\ row.owner = u)
    BY <1>4 DEF Bumps
  <2>2. Reserved(row, u) =
          [row EXCEPT !.state = "UPLOADING", !.owner = u, !.lease = "live",
                      !.epoch = row.epoch + 1]
    BY <1>4, <2>1 DEF Reserved
  <2> QED BY <1>1, <2>2 DEF QuietRow, ChunkRow
<1>5. CASE /\ row.state # "NONE"
           /\ ~(row.state = "UPLOADING" /\ row.owner = u)
           /\ ~Bumps(row, u)
  <2>1. Reserved(row, u) = row
    BY <1>5 DEF Reserved
  <2> QED BY <1>1, <2>1 DEF QuietRow
<1> QED BY <1>2, <1>3, <1>4, <1>5

LEMMA UnchangedQuiet ==
    ASSUME chunk' = chunk PROVE QuietRows /\ SteadyRows
  BY DEF QuietRows, QuietRow, SteadyRows

LEMMA InitOrResumeQuiet ==
    ASSUME TypeOK, NEW u \in Uploads, InitOrResume(u)
    PROVE  QuietRows /\ SteadyRows
<1>1. \A c \in ChunksOf(FileOf[u]) : Reservable(chunk[c], u)
  BY DEF InitOrResume, ChunksOf, ChunkOf, Parts
<1>2. ASSUME NEW c \in Chunks
      PROVE  /\ QuietRow(chunk[c], chunk'[c])
             /\ chunk[c].state = "DELETING" => chunk'[c] = chunk[c]
  <2>1. chunk[c] \in ChunkRow
    BY DEF TypeOK
  <2>2. CASE c \in ChunksOf(FileOf[u])
    BY <1>1, <2>1, <2>2, ReservedQuiet DEF InitOrResume
  <2>3. CASE c \notin ChunksOf(FileOf[u])
    BY <2>3 DEF InitOrResume, QuietRow
  <2> QED BY <2>2, <2>3
<1> QED BY <1>2 DEF QuietRows, SteadyRows

LEMMA DiscardQuiet ==
    ASSUME TypeOK, NEW S, \A c \in Chunks \cap S : chunk[c].state # "DELETING",
           chunk' = [c \in Chunks |-> IF c \in S THEN Discarded(chunk[c])
                                      ELSE chunk[c]]
    PROVE  QuietRows /\ SteadyRows
<1>1. \A row \in ChunkRow : Discarded(row).backend = row.backend
  BY DEF Discarded, ChunkRow
<1>2. \A c \in Chunks : chunk[c] \in ChunkRow
  BY DEF TypeOK
<1> QED BY <1>1, <1>2 DEF QuietRows, QuietRow, SteadyRows

LEMMA EndOfSessionQuiet ==
    ASSUME TypeOK,
           \/ \E u \in Uploads : \E user : Abort(u, user)
           \/ \E u \in Uploads : \E d : CommitExisting(u, d)
           \/ \E expired : ReconcileExpiredUploads(expired)
    PROVE  QuietRows /\ SteadyRows
<1>1. ASSUME NEW u \in Uploads, NEW user, Abort(u, user)
      PROVE  QuietRows /\ SteadyRows
  <2> DEFINE S == {c \in Chunks : GivenUp(u, c, session)}
  <2>1. \A c \in Chunks \cap S : chunk[c].state # "DELETING"
    BY DEF GivenUp, Surplus
  <2>2. chunk' = [c \in Chunks |-> IF c \in S THEN Discarded(chunk[c])
                                   ELSE chunk[c]]
    BY <1>1 DEF Abort
  <2> HIDE DEF S
  <2> QED BY <2>1, <2>2, DiscardQuiet
<1>2. ASSUME NEW u \in Uploads, NEW d, CommitExisting(u, d)
      PROVE  QuietRows /\ SteadyRows
  <2> DEFINE S == {c \in Chunks : Surplus(u, c, session)}
  <2>1. \A c \in Chunks \cap S : chunk[c].state # "DELETING"
    BY DEF Surplus
  <2>2. chunk' = [c \in Chunks |-> IF c \in S THEN Discarded(chunk[c])
                                   ELSE chunk[c]]
    BY <1>2 DEF CommitExisting
  <2> HIDE DEF S
  <2> QED BY <2>1, <2>2, DiscardQuiet
<1>3. ASSUME NEW expired, ReconcileExpiredUploads(expired)
      PROVE  QuietRows /\ SteadyRows
  <2> DEFINE S == {c \in Chunks :
                     \E u \in Uploads : /\ session'[u] \in {"ABORTED", "EXPIRED"}
                                        /\ GivenUp(u, c, session')}
  <2>1. \A c \in Chunks \cap S : chunk[c].state # "DELETING"
    BY DEF GivenUp, Surplus
  <2>2. chunk' = [c \in Chunks |-> IF c \in S THEN Discarded(chunk[c])
                                   ELSE chunk[c]]
    BY <1>3 DEF ReconcileExpiredUploads
  <2> HIDE DEF S
  <2> QED BY <2>1, <2>2, DiscardQuiet
<1> QED BY <1>1, <1>2, <1>3

LEMMA CommitNewQuiet ==
    ASSUME TypeOK, NEW u \in Uploads, NEW d, CommitNew(u, d)
    PROVE  QuietRows /\ SteadyRows
<1> DEFINE n(c) == chunk[c].ref + Cardinality(Occurrences(FileOf[u], c))
<1>1. \A c \in Chunks : chunk[c] \in ChunkRow
  BY DEF TypeOK
<1>2. chunk' = [c \in Chunks |->
         IF c \in ChunksOf(FileOf[u])
         THEN [chunk[c] EXCEPT !.ref = n(c), !.gcAfter = FALSE]
         ELSE chunk[c]]
  BY DEF CommitNew
<1>3. \A c \in ChunksOf(FileOf[u]) : chunk[c].state = "READY"
  BY DEF CommitNew, ChunksOf, Parts, RowOf, ChunkOf
<1>4. \A row \in ChunkRow :
        \A m : [row EXCEPT !.ref = m, !.gcAfter = FALSE].backend = row.backend
  BY DEF ChunkRow
<1> HIDE DEF n
<1> QED BY <1>1, <1>2, <1>3, <1>4 DEF QuietRows, QuietRow, SteadyRows

LEMMA DropManifestQuiet ==
    ASSUME RefInv, NEW d \in Digests, file[d].mode = "manifest",
           DropManifest(d)
    PROVE  QuietRows /\ SteadyRows
<1> DEFINE uses(c) == Cardinality(Occurrences(file[d].source, c))
           n(c) == chunk[c].ref - uses(c)
<1>1. \A c \in Chunks : chunk[c] \in ChunkRow
  BY DEF RefInv, TypeOK
<1>2. chunk' = [c \in Chunks |->
         IF c \notin ChunksOf(file[d].source) THEN chunk[c]
         ELSE IF chunk[c].ref > uses(c)
         THEN [chunk[c] EXCEPT !.ref = n(c)]
         ELSE [chunk[c] EXCEPT !.ref = 0, !.state = "GC_PENDING",
                               !.gcAfter = TRUE]]
  BY DEF DropManifest
<1>3. ASSUME NEW c \in Chunks, c \in ChunksOf(file[d].source)
      PROVE  chunk[c].state = "READY"
  <2>1. PICK i \in DOMAIN LayoutOf[file[d].source] :
               LayoutOf[file[d].source][i] = c
    BY <1>3 DEF ChunksOf
  <2>2. <<d, i>> \in ReferencesIn(d, c)
    BY <2>1 DEF ReferencesIn, Occurrences
  <2>3. References(c) # {}
    BY <2>2 DEF References
  <2> QED BY <2>3 DEF RefInv, ReferencedReady
<1>4. \A row \in ChunkRow :
        /\ \A m : [row EXCEPT !.ref = m].backend = row.backend
        /\ [row EXCEPT !.ref = 0, !.state = "GC_PENDING",
                       !.gcAfter = TRUE].backend = row.backend
  BY DEF ChunkRow
<1> HIDE DEF n, uses
<1> QED BY <1>1, <1>2, <1>3, <1>4 DEF QuietRows, QuietRow, SteadyRows

\* Clients, time and the end of sessions handle no blob.
LEMMA CallsQuiet ==
    ASSUME SessionInv,
           ClientCall \/ TimePasses \/ \E expired : ReconcileExpiredUploads(expired)
    PROVE  QuietRows /\ SteadyRows
<1>1. RefInv /\ TypeOK
  BY DEF SessionInv, RefInv
<1>2. ASSUME NEW u \in Uploads, InstantHit(u) \/ Commit(u)
      PROVE  QuietRows /\ SteadyRows
  BY <1>1, <1>2, UnchangedQuiet, CommitNewQuiet, EndOfSessionQuiet
  DEF InstantHit, Commit
<1>3. ASSUME NEW user, NEW d \in Digests, NEW n, DeleteObjectForUser(user, d, n)
      PROVE  QuietRows /\ SteadyRows
  BY <1>1, <1>3, UnchangedQuiet, DropManifestQuiet
  DEF DeleteObjectForUser, ReleaseFile, Unshare
<1>4. ASSUME NEW c \in Chunks, LeaseExpires(c)
      PROVE  QuietRows /\ SteadyRows
  <2>1. chunk[c] \in ChunkRow /\ RowOK(chunk[c])
    BY <1>1 DEF RefInv, TypeOK, RowsOK
  <2>2. chunk[c].state # "DELETING"
    BY <1>4, <2>1 DEF LeaseExpires, RowOK
  <2>3. [chunk[c] EXCEPT !.lease = "expired"].backend = chunk[c].backend
    BY <2>1 DEF ChunkRow
  <2> QED
    BY <1>1, <1>4, <2>2, <2>3
    DEF LeaseExpires, TypeOK, QuietRows, QuietRow, SteadyRows
<1> QED
  BY <1>1, <1>2, <1>3, <1>4, InitOrResumeQuiet, EndOfSessionQuiet
  DEF ClientCall, TimePasses

----------------------------------------------------------------------------
(* The inductive invariant of the requests and their blobs.                *)

\* A request is made for a session that was opened.
SessionsKnown ==
    \A g \in Workers : Busy(g) => session[worker[g].upload] # "NONE"

\* The row of a request is never behind the epoch the request was granted.
FenceOf(g) ==
    (Busy(g) /\ ~At(g, "claim") /\ Bound(worker[g].upload, worker[g].part))
      => worker[g].epoch <= RowFor(g).epoch
Fenced == \A g \in Workers : FenceOf(g)

\* An owner that may still store a blob is the only one, and an owner of a
\* row that names a blob works on that very blob.
OwnerOK(g) ==
    Current(g) =>
      IF RowFor(g).backend = NoBackend
      THEN /\ worker[g].pc \in {"put", "record", "reject", "fail"}
           /\ \A h \in Workers \ {g} : Current(h) => ChunkFor(h) # ChunkFor(g)
      ELSE /\ worker[g].pc \in {"finalize", "publish", "fail"}
           /\ worker[g].backend = RowFor(g).backend
OwnersOK == \A g \in Workers : OwnerOK(g)

\* Blob b is known for chunk c.
NamedFor(c, b) ==
    \/ chunk[c].backend = b
    \/ \E g \in Workers : Busy(g) /\ ChunkFor(g) = c /\ worker[g].backend = b

\* A file id is known for one chunk only, and not before it was stored.
OneHome ==
    \A b \in Backends, c, x \in Chunks :
        NamedFor(c, b) /\ NamedFor(x, b) => c = x
NamedStored ==
    \A b \in Backends, c \in Chunks : NamedFor(c, b) => blob[b] # "unused"

\* Nobody but request g knows its blob.
Private(g) ==
    /\ \A c \in Chunks : chunk[c].backend # worker[g].backend
    /\ \A h \in Workers \ {g} : Busy(h) => worker[h].backend # worker[g].backend

\* The request stored a blob and has not told the row yet.
Unreported(g) ==
    \/ worker[g].pc \in {"record", "reject", "cleanup"}
    \/ /\ At(g, "fail")
       /\ worker[g].backend # NoBackend
       /\ Current(g)
       /\ RowFor(g).backend = NoBackend

PrivateBlobs == \A g \in Workers : Unreported(g) => Private(g)

\* The bytes of a blob that is not reported yet are the chunk's, unless they
\* were found not to match.
WorkerBlobs ==
    \A g \in Workers : Unreported(g) =>
        blob[worker[g].backend] =
          IF worker[g].pc \in {"reject", "cleanup"} THEN "corrupt"
          ELSE ChunkFor(g)

RequestInv ==
    /\ SessionsKnown /\ Fenced /\ OwnersOK
    /\ OneHome /\ NamedStored /\ PrivateBlobs /\ WorkerBlobs

\* How the tables move, as far as the requests are concerned.
TablesMove ==
    /\ BoundRows /\ BoundRows' /\ PartsMove
    /\ \A c \in Chunks : EpochMoves(chunk[c], chunk'[c])

\* Facts of the types, by request.
LEMMA BusyRequest ==
    ASSUME StoreTyped, NEW g \in Workers, Busy(g)
    PROVE  /\ worker[g].upload \in Uploads
           /\ worker[g].part \in Parts(worker[g].upload)
           /\ ChunkFor(g) \in Chunks
           /\ worker[g].epoch \in Nat
           /\ worker[g].backend \in Backends \cup {NoBackend}
           /\ worker[g].pc \in {"finalize", "record", "publish", "reject",
                                "cleanup"} => worker[g].backend \in Backends
<1>1. RequestOK(worker[g])
  BY RequestsOK DEF StoreTyped
<1> QED
  BY <1>1, DeclaredPart, StoreAssumption
  DEF Busy, At, RequestOK, WorkerState, ChunkFor, StoreAssumption

LEMMA UnreportedBlob ==
    ASSUME StoreTyped, NEW g \in Workers, Unreported(g)
    PROVE  Busy(g) /\ worker[g].backend \in Backends
<1>1. Busy(g)
  BY DEF Unreported, Busy, At
<1> QED BY <1>1, BusyRequest DEF Unreported, At

\* The fence of a request, seen from the row: a step that leaves its part bound
\* leaves the row there and ahead of its epoch, and does not give it back a
\* row it lost.
LEMMA FenceKept ==
    ASSUME StoreTyped, TypeOK', SessionsKnown, Fenced, TablesMove,
           NEW h \in Workers, Busy(h),
           NEW u, NEW i, NEW c, u = worker[h].upload, i = worker[h].part,
           c = ChunkFor(h)
    PROVE  /\ c \in Chunks /\ u # NoUpload
           /\ session'[u] # "NONE"
           /\ ~At(h, "claim") /\ part'[u][i].bound =>
                /\ part[u][i].bound
                /\ chunk[c].state # "NONE"
                /\ worker[h].epoch <= chunk[c].epoch
                /\ worker[h].epoch <= chunk'[c].epoch
                /\ chunk'[c].owner = u /\ chunk'[c].epoch = worker[h].epoch
                     => chunk[c].owner = u /\ chunk[c].epoch = worker[h].epoch
<1> DEFINE e == worker[h].epoch
<1>1. /\ u \in Uploads /\ i \in Parts(u) /\ c \in Chunks /\ e \in Nat
      /\ u # NoUpload /\ c = ChunkOf(u, i)
  BY BusyRequest, StoreAssumption DEF ChunkFor, StoreAssumption
<1>2. chunk[c].epoch \in Nat /\ chunk'[c].epoch \in Nat
  BY <1>1, StoreAssumption DEF StoreTyped, TypeOK, ChunkRow, StoreAssumption
<1>3. session[u] # "NONE" /\ session'[u] # "NONE"
  BY <1>1 DEF SessionsKnown, TablesMove, PartsMove
<1>4. ASSUME ~At(h, "claim"), part'[u][i].bound
      PROVE  /\ part[u][i].bound
             /\ chunk[c].state # "NONE"
             /\ e <= chunk[c].epoch
             /\ e <= chunk'[c].epoch
             /\ chunk'[c].owner = u /\ chunk'[c].epoch = e
                  => chunk[c].owner = u /\ chunk[c].epoch = e
  <2>1. part[u][i].bound
    BY <1>1, <1>3, <1>4 DEF TablesMove, PartsMove
  <2>2. chunk[c].state # "NONE" /\ chunk'[c].state # "NONE"
    BY <1>1, <1>4, <2>1 DEF TablesMove, BoundRows, Bound, RowOf
  <2>3. e <= chunk[c].epoch
    BY <1>4, <2>1 DEF Fenced, FenceOf, Bound, RowFor
  <2>4. /\ chunk'[c].epoch >= chunk[c].epoch
        /\ (chunk[c].owner # chunk'[c].owner /\ chunk'[c].owner # NoUpload)
             => chunk'[c].epoch > chunk[c].epoch
    BY <1>1, <2>2 DEF TablesMove, EpochMoves
  <2> HIDE DEF e
  <2> QED BY <1>1, <1>2, <2>1, <2>2, <2>3, <2>4
<1> QED BY <1>1, <1>3, <1>4

\* A request that a step leaves alone neither gains its row nor falls behind.
LEMMA RequestKept ==
    ASSUME StoreTyped, TypeOK', SessionsKnown, Fenced, TablesMove,
           NEW h \in Workers, worker'[h] = worker[h]
    PROVE  /\ Current(h)' => /\ Current(h)
                             /\ chunk[ChunkFor(h)].state # "NONE"
                             /\ chunk'[ChunkFor(h)].owner # NoUpload
           /\ FenceOf(h)'
           /\ Busy(h)' => session'[worker'[h].upload] # "NONE"
<1>1. CASE ~Busy(h)
  BY <1>1 DEF Busy, At, Current, FenceOf
<1>2. CASE Busy(h)
  BY <1>2, FenceKept
  DEF Current, Holds, FenceOf, Busy, At, Bound, RowOf, RowFor, ChunkFor
<1> QED BY <1>1, <1>2

\* A step that no request takes, which deletes at most blobs that no request
\* has still to report.
LEMMA RequestInvQuiet ==
    ASSUME StoreTyped, TypeOK', RequestInv, TablesMove, QuietRows,
           worker' = worker,
           \A b \in Backends :
             \/ blob'[b] = blob[b]
             \/ /\ blob'[b] = "gone"
                /\ \A g \in Workers : Unreported(g) => worker[g].backend # b
    PROVE  RequestInv'
<1> USE DEF RequestInv
<1>1. \A g \in Workers :
        /\ Current(g)' => /\ Current(g)
                          /\ chunk[ChunkFor(g)].state # "NONE"
                          /\ chunk'[ChunkFor(g)].owner # NoUpload
        /\ FenceOf(g)'
        /\ Busy(g)' => session'[worker'[g].upload] # "NONE"
  BY RequestKept
<1>2. SessionsKnown' /\ Fenced'
  BY <1>1 DEF SessionsKnown, Fenced
<1>3. \A g \in Workers : Current(g) => ChunkFor(g) \in Chunks
  BY BusyRequest DEF Current, Busy, At
<1>4. \A g \in Workers : Current(g)' =>
        chunk'[ChunkFor(g)].backend = chunk[ChunkFor(g)].backend
  BY <1>1, <1>3 DEF QuietRows, QuietRow
<1>5. OwnersOK'
  <2> SUFFICES ASSUME NEW g \in Workers, Current(g)' PROVE OwnerOK(g)'
    BY DEF OwnersOK, OwnerOK
  <2>1. Current(g) /\ OwnerOK(g)
    BY <1>1 DEF OwnersOK
  <2>2. \A h \in Workers : ChunkFor(h)' = ChunkFor(h)
    BY DEF ChunkFor
  <2> QED BY <1>1, <1>4, <2>1, <2>2 DEF OwnerOK, RowFor
<1>6. \A c \in Chunks : \A b \in Backends : NamedFor(c, b)' => NamedFor(c, b)
  BY StoreAssumption
  DEF NamedFor, QuietRows, QuietRow, Busy, At, ChunkFor, StoreAssumption
<1>7. OneHome'
  BY <1>6 DEF OneHome
<1>8. "gone" # "unused"
  OBVIOUS
<1>9. NamedStored'
  BY <1>6, <1>8 DEF NamedStored
<1>10. \A g \in Workers : Unreported(g)' => Unreported(g)
  BY <1>1, <1>4 DEF Unreported, At, RowFor, ChunkFor
<1>11. PrivateBlobs'
  <2> SUFFICES ASSUME NEW g \in Workers, Unreported(g)' PROVE Private(g)'
    BY DEF PrivateBlobs
  <2>1. Unreported(g) /\ Private(g) /\ worker[g].backend \in Backends
    BY <1>10, UnreportedBlob DEF PrivateBlobs
  <2> QED
    BY <2>1, StoreAssumption
    DEF Private, QuietRows, QuietRow, Busy, At, StoreAssumption
<1>12. WorkerBlobs'
  <2> SUFFICES ASSUME NEW g \in Workers, Unreported(g)'
               PROVE  blob'[worker[g].backend] =
                        IF worker[g].pc \in {"reject", "cleanup"} THEN "corrupt"
                        ELSE ChunkFor(g)
    BY DEF WorkerBlobs, ChunkFor
  <2>1. Unreported(g) /\ worker[g].backend \in Backends
    BY <1>10, UnreportedBlob
  <2>2. blob'[worker[g].backend] = blob[worker[g].backend]
    BY <2>1
  <2> QED BY <2>1, <2>2 DEF WorkerBlobs
<1> QED BY <1>2, <1>5, <1>7, <1>9, <1>11, <1>12

----------------------------------------------------------------------------
(* The steps of a request.                                                 *)

\* What the calls of a request do to the row of its part.
LEMMA PartCallRows ==
    ASSUME RefInv, NEW u \in Uploads, NEW i \in Parts(u), NEW e, NEW b,
           NEW c, c = ChunkOf(u, i),
           \/ ClaimPartUpload(u, i)
           \/ RecordPartBackend(u, i, e, b)
           \/ MarkPartReady(u, i, e, b)
           \/ MarkPartFailed(u, i, e, b)
    PROVE  /\ \A x \in Chunks \ {c} : chunk'[x] = chunk[x]
           /\ chunk[c].state # "DELETING"
           /\ ClaimPartUpload(u, i) =>
                /\ chunk'[c].backend = chunk[c].backend
                /\ \/ chunk' = chunk /\ chunk[c].backend # NoBackend
                   \/ chunk'[c].epoch = chunk[c].epoch + 1
           /\ RecordPartBackend(u, i, e, b) =>
                /\ chunk'[c].backend = b
                /\ chunk'[c].owner = chunk[c].owner
                /\ chunk'[c].epoch = chunk[c].epoch
           /\ MarkPartReady(u, i, e, b) =>
                chunk'[c].backend = b /\ chunk'[c].owner = NoUpload
           /\ MarkPartFailed(u, i, e, b) =>
                /\ chunk'[c].backend = IF b = NoBackend THEN chunk[c].backend
                                       ELSE b
                /\ chunk'[c].owner = NoUpload
<1>1. /\ c \in Chunks /\ chunk[c] \in ChunkRow /\ RowOK(chunk[c])
      /\ chunk \in [Chunks -> ChunkRow]
      /\ u # NoUpload
  BY DeclaredPart, StoreAssumption DEF RefInv, TypeOK, RowsOK, StoreAssumption
<1>2. ASSUME ClaimPartUpload(u, i)
      PROVE  /\ \A x \in Chunks \ {c} : chunk'[x] = chunk[x]
             /\ chunk[c].state # "DELETING"
             /\ chunk'[c].backend = chunk[c].backend
             /\ \/ chunk' = chunk /\ chunk[c].backend # NoBackend
                \/ chunk'[c].epoch = chunk[c].epoch + 1
  <2>1. chunk[c].state # "DELETING"
    BY <1>2 DEF ClaimPartUpload, Claimable, Recorded, RowOf
  <2>2. CASE Recorded(u, i)
    BY <1>2, <2>1, <2>2 DEF ClaimPartUpload, Recorded, RowOf
  <2>3. CASE ~Recorded(u, i)
    <3>1. chunk' = [chunk EXCEPT ![c] = Claimed(chunk[c], u)]
      BY <1>2, <2>3 DEF ClaimPartUpload
    <3>2. Claimed(chunk[c], u) =
            [chunk[c] EXCEPT !.state = "UPLOADING", !.owner = u,
                             !.lease = "live", !.epoch = chunk[c].epoch + 1,
                             !.gcAfter = FALSE]
      BY DEF Claimed
    <3>3. /\ Claimed(chunk[c], u).backend = chunk[c].backend
          /\ Claimed(chunk[c], u).epoch = chunk[c].epoch + 1
      BY <1>1, <3>2 DEF ChunkRow
    <3> QED BY <1>1, <2>1, <3>1, <3>3
  <2> QED BY <2>2, <2>3
<1>3. ASSUME RecordPartBackend(u, i, e, b)
      PROVE  /\ \A x \in Chunks \ {c} : chunk'[x] = chunk[x]
             /\ chunk[c].state # "DELETING"
             /\ chunk'[c].backend = b
             /\ chunk'[c].owner = chunk[c].owner
             /\ chunk'[c].epoch = chunk[c].epoch
  BY <1>1, <1>3 DEF RecordPartBackend, CanRecord, RowOf, ChunkRow
<1>4. ASSUME MarkPartReady(u, i, e, b)
      PROVE  /\ \A x \in Chunks \ {c} : chunk'[x] = chunk[x]
             /\ chunk[c].state # "DELETING"
             /\ chunk'[c].backend = b /\ chunk'[c].owner = NoUpload
  BY <1>1, <1>4 DEF MarkPartReady, CanPublish, RowOf, Published, ChunkRow
<1>5. ASSUME MarkPartFailed(u, i, e, b)
      PROVE  /\ \A x \in Chunks \ {c} : chunk'[x] = chunk[x]
             /\ chunk[c].state # "DELETING"
             /\ chunk'[c].backend = IF b = NoBackend THEN chunk[c].backend
                                    ELSE b
             /\ chunk'[c].owner = NoUpload
  <2>1. chunk[c].state # "DELETING"
    BY <1>1, <1>5 DEF MarkPartFailed, CanFail, Holds, RowOf, RowOK
  <2>2. chunk' = [chunk EXCEPT ![c] = Failed(chunk[c], b)]
    BY <1>5 DEF MarkPartFailed
  <2>3. /\ Failed(chunk[c], b).backend = IF b = NoBackend THEN chunk[c].backend
                                         ELSE b
        /\ Failed(chunk[c], b).owner = NoUpload
    BY <1>1 DEF Failed, ChunkRow
  <2> QED BY <1>1, <2>1, <2>2, <2>3
<1>6. ~(ClaimPartUpload(u, i) /\ chunk'[c].backend # chunk[c].backend)
  BY <1>2
<1> QED BY <1>2, <1>3, <1>4, <1>5

\* How request g may change what is known about blobs, other than by storing
\* a new one.
Tells(g) ==
    /\ \A h \in Workers \ {g} : worker'[h] = worker[h]
    \* A row is told of a blob by the owner that stored it.
    /\ \A c \in Chunks :
         \/ chunk'[c].backend = chunk[c].backend
         \/ /\ Current(g) /\ Unreported(g) /\ ~At(g, "reject")
            /\ c = ChunkFor(g)
            /\ chunk[c].backend = NoBackend
            /\ chunk'[c].backend = worker[g].backend
    \* The request keeps its blob or learns the one its row names.
    /\ \/ ~Busy(g)'
       \/ worker'[g].backend = NoBackend
       \/ /\ Busy(g)
          /\ ChunkFor(g)' = ChunkFor(g)
          /\ worker'[g].backend
               \in {worker[g].backend, chunk[ChunkFor(g)].backend}
    \* A blob that is still to be reported was so before.
    /\ Unreported(g)' =>
         /\ Unreported(g)
         /\ worker'[g].backend = worker[g].backend
         /\ ChunkFor(g)' = ChunkFor(g)
         /\ worker'[g].pc \in {"reject", "cleanup"}
              <=> worker[g].pc \in {"reject", "cleanup"}
         /\ \A c \in Chunks : chunk'[c].backend = chunk[c].backend
    \* It may delete a blob that nobody else knows.
    /\ \A b \in Backends :
         \/ blob'[b] = blob[b]
         \/ /\ At(g, "cleanup") /\ Unreported(g) /\ b = worker[g].backend
            /\ blob'[b] = "gone"
            /\ ~Busy(g)'

LEMMA RequestInvTells ==
    ASSUME StoreTyped, StoreTyped', RequestInv, TablesMove,
           NEW g \in Workers, Tells(g), OwnerOK(g)', FenceOf(g)',
           Busy(g)' => session'[worker'[g].upload] # "NONE"
    PROVE  RequestInv'
<1> USE DEF RequestInv
<1>1. \A h \in Workers \ {g} :
        /\ worker'[h] = worker[h]
        /\ Busy(h)' <=> Busy(h)
        /\ ChunkFor(h)' = ChunkFor(h)
        /\ Current(h)' => /\ Current(h)
                          /\ chunk[ChunkFor(h)].state # "NONE"
                          /\ chunk'[ChunkFor(h)].owner # NoUpload
        /\ FenceOf(h)'
        /\ Busy(h)' => session'[worker'[h].upload] # "NONE"
  <2>1. TypeOK'
    BY DEF StoreTyped
  <2> QED BY <2>1, RequestKept DEF Tells, Busy, At, ChunkFor
<1>2. SessionsKnown' /\ Fenced'
  BY <1>1 DEF SessionsKnown, Fenced
<1>3. ASSUME NEW h \in Workers \ {g}, Current(h)'
      PROVE  chunk'[ChunkFor(h)].backend = chunk[ChunkFor(h)].backend
  <2>1. Current(h) /\ ChunkFor(h) \in Chunks
    BY <1>1, <1>3, BusyRequest DEF Current, Busy, At
  <2>2. ASSUME Current(g), ChunkFor(h) = ChunkFor(g),
               chunk[ChunkFor(g)].backend = NoBackend
        PROVE  FALSE
    BY <2>1, <2>2 DEF OwnersOK, OwnerOK, RowFor
  <2> QED BY <2>1, <2>2 DEF Tells
<1>4. OwnersOK'
  <2> SUFFICES ASSUME NEW h \in Workers \ {g}, Current(h)' PROVE OwnerOK(h)'
    BY DEF OwnersOK, OwnerOK
  <2>1. /\ Current(h) /\ OwnerOK(h) /\ worker'[h] = worker[h]
        /\ RowFor(h)'.backend = RowFor(h).backend
    BY <1>1, <1>3 DEF OwnersOK, RowFor
  <2>2. CASE RowFor(h).backend # NoBackend
    BY <2>1, <2>2 DEF OwnerOK
  <2>3. CASE RowFor(h).backend = NoBackend
    <3>1. ASSUME NEW k \in Workers \ {h}, Current(k)',
                 ChunkFor(k)' = ChunkFor(h)'
          PROVE  FALSE
      <4>1. CASE k = g
        <5>1. RowFor(g)'.backend = NoBackend
          BY <2>1, <2>3, <3>1, <4>1 DEF RowFor
        <5> QED BY <3>1, <4>1, <5>1 DEF OwnerOK
      <4>2. CASE k # g
        BY <1>1, <2>1, <2>3, <3>1, <4>2 DEF OwnerOK
      <4> QED BY <4>1, <4>2
    <3> QED BY <2>1, <2>3, <3>1 DEF OwnerOK
  <2> QED BY <2>2, <2>3
<1>5. NoBackend \notin Backends
  BY StoreAssumption DEF StoreAssumption
<1>6. \A c \in Chunks : \A b \in Backends : NamedFor(c, b)' => NamedFor(c, b)
  <2> SUFFICES ASSUME NEW c \in Chunks, NEW b \in Backends, NamedFor(c, b)'
               PROVE  NamedFor(c, b)
    OBVIOUS
  <2>1. CASE chunk'[c].backend = b
    BY <2>1, UnreportedBlob DEF Tells, NamedFor
  <2>2. ASSUME NEW h \in Workers, Busy(h)', ChunkFor(h)' = c,
               worker'[h].backend = b
        PROVE  NamedFor(c, b)
    <3>1. CASE h # g
      BY <1>1, <2>2, <3>1 DEF NamedFor
    <3>2. CASE h = g
      BY <1>5, <2>2, <3>2 DEF Tells, NamedFor
    <3> QED BY <3>1, <3>2
  <2> QED BY <2>1, <2>2 DEF NamedFor
<1>7. OneHome'
  BY <1>6 DEF OneHome
<1>8. NamedStored'
  <2>1. "gone" # "unused"
    OBVIOUS
  <2> QED BY <1>6, <2>1 DEF NamedStored, Tells
<1>9. \A h \in Workers \ {g} : Unreported(h)' =>
        /\ Unreported(h) /\ Private(h)
        /\ worker[h].backend \in Backends
        /\ Busy(h)
  <2>1. \A h \in Workers \ {g} : Unreported(h)' => Unreported(h)
    BY <1>1, <1>3 DEF Unreported, At, RowFor
  <2> QED BY <2>1, UnreportedBlob DEF PrivateBlobs
<1>10. PrivateBlobs'
  <2>1. ASSUME NEW h \in Workers \ {g}, Unreported(h)' PROVE Private(h)'
    <3>1. \A c \in Chunks : chunk'[c].backend # worker[h].backend
      BY <1>9, <2>1, UnreportedBlob DEF Private, Tells
    <3>2. \A k \in Workers \ {g, h} :
            Busy(k)' => worker'[k].backend # worker[h].backend
      BY <1>1, <1>9, <2>1 DEF Private
    <3>3. Busy(g)' => worker'[g].backend # worker[h].backend
      <4>1. Busy(g) => ChunkFor(g) \in Chunks
        BY BusyRequest
      <4> QED BY <1>5, <1>9, <2>1, <4>1 DEF Private, Tells
    <3> QED BY <1>1, <3>1, <3>2, <3>3 DEF Private
  <2>2. ASSUME Unreported(g)' PROVE Private(g)'
    <3>1. Private(g) /\ worker'[g].backend = worker[g].backend
      BY <2>2 DEF Tells, PrivateBlobs
    <3> QED BY <1>1, <2>2, <3>1 DEF Private, Tells
  <2> QED BY <2>1, <2>2 DEF PrivateBlobs
<1>11. WorkerBlobs'
  <2>1. ASSUME NEW h \in Workers \ {g}, Unreported(h)'
        PROVE  blob'[worker[h].backend] = blob[worker[h].backend]
    <3>1. ~(Unreported(g) /\ worker[g].backend = worker[h].backend)
      BY <1>9, <2>1, UnreportedBlob DEF Private
    <3> QED BY <1>9, <2>1, <3>1 DEF Tells
  <2>2. ASSUME Unreported(g)'
        PROVE  blob'[worker[g].backend] = blob[worker[g].backend]
    <3>1. Busy(g)' /\ worker[g].backend \in Backends
      BY <2>2, UnreportedBlob DEF Tells, Unreported, Busy, At
    <3> QED BY <3>1 DEF Tells
  <2>3. ASSUME NEW h \in Workers, Unreported(h)'
        PROVE  blob'[worker'[h].backend] =
                 IF worker'[h].pc \in {"reject", "cleanup"} THEN "corrupt"
                 ELSE ChunkFor(h)'
    <3>1. CASE h # g
      BY <1>1, <1>9, <2>1, <2>3, <3>1 DEF WorkerBlobs
    <3>2. CASE h = g
      BY <2>2, <2>3, <3>2 DEF WorkerBlobs, Tells
    <3> QED BY <3>1, <3>2
  <2> QED BY <2>3 DEF WorkerBlobs
<1> QED BY <1>2, <1>4, <1>7, <1>8, <1>10, <1>11

LEMMA DoneFacts ==
    ASSUME StoreTyped, NEW g \in Workers, Done(g)
    PROVE  /\ \A h \in Workers \ {g} : worker'[h] = worker[h]
           /\ ~Busy(g)' /\ ~Current(g)' /\ ~Unreported(g)'
           /\ OwnerOK(g)' /\ FenceOf(g)'
<1>1. worker' = [worker EXCEPT ![g] = Idle] /\ worker \in [Workers -> WorkerState]
  BY DEF Done, StoreTyped, StoreTypeOK
<1>2. worker'[g].pc = "idle"
  BY <1>1 DEF Idle
<1> QED
  BY <1>1, <1>2 DEF Busy, At, Current, Unreported, OwnerOK, FenceOf

LEMMA MovedFacts ==
    ASSUME StoreTyped, NEW g \in Workers, NEW pc, NEW e, NEW b,
           Moved(g, pc, e, b)
    PROVE  /\ \A h \in Workers \ {g} : worker'[h] = worker[h]
           /\ worker'[g].pc = pc
           /\ worker'[g].upload = worker[g].upload
           /\ worker'[g].part = worker[g].part
           /\ worker'[g].epoch = e
           /\ worker'[g].backend = b
           /\ ChunkFor(g)' = ChunkFor(g)
<1>1. worker \in [Workers -> WorkerState]
  BY DEF StoreTyped, StoreTypeOK
<1>2. worker'[g] = Request(pc, worker[g].upload, worker[g].part, e, b)
  BY <1>1 DEF Moved
<1>3. \A h \in Workers \ {g} : worker'[h] = worker[h]
  BY <1>1 DEF Moved
<1> QED BY <1>2, <1>3 DEF Request, ChunkFor

\* What a step of request g has to show.
StepOK(g) ==
    /\ Tells(g) /\ OwnerOK(g)' /\ FenceOf(g)'
    /\ Busy(g)' => session'[worker'[g].upload] # "NONE"

Before(g) ==
    /\ StoreTyped /\ TypeOK' /\ SessionInv /\ RequestInv /\ TablesMove
    /\ g \in Workers

\* A step that ends the request and changes the row no more than the owner may.
LEMMA DoneStep ==
    ASSUME NEW g, Before(g), Done(g), blob' = blob,
           \A c \in Chunks :
             \/ chunk'[c].backend = chunk[c].backend
             \/ /\ Current(g) /\ Unreported(g) /\ ~At(g, "reject")
                /\ c = ChunkFor(g)
                /\ chunk[c].backend = NoBackend
                /\ chunk'[c].backend = worker[g].backend
    PROVE  StepOK(g)
<1>1. StoreTyped /\ g \in Workers
  BY DEF Before
<1> QED BY <1>1, DoneFacts DEF StepOK, Tells

\* A request past its claim that goes on with the epoch it has.
LEMMA GoesOn ==
    ASSUME NEW g, Before(g), Busy(g), ~At(g, "claim"), NEW pc, NEW b,
           Moved(g, pc, worker[g].epoch, b)
    PROVE  /\ FenceOf(g)'
           /\ session'[worker'[g].upload] # "NONE"
           /\ Current(g)' =>
                /\ Holds(worker[g].upload, worker[g].part, worker[g].epoch)
                /\ chunk'[ChunkFor(g)].owner # NoUpload
<1>1. StoreTyped /\ TypeOK' /\ SessionsKnown /\ Fenced /\ TablesMove
      /\ g \in Workers
  BY DEF Before, RequestInv
<1> DEFINE u == worker[g].upload
           i == worker[g].part
<1>2. /\ ChunkFor(g) \in Chunks /\ u # NoUpload
      /\ session'[u] # "NONE"
      /\ ~At(g, "claim") /\ part'[u][i].bound =>
           /\ part[u][i].bound
           /\ worker[g].epoch <= chunk'[ChunkFor(g)].epoch
           /\ chunk'[ChunkFor(g)].owner = u
              /\ chunk'[ChunkFor(g)].epoch = worker[g].epoch
                => /\ chunk[ChunkFor(g)].owner = u
                   /\ chunk[ChunkFor(g)].epoch = worker[g].epoch
  BY <1>1, FenceKept
<1>3. /\ worker'[g].upload = u
      /\ worker'[g].part = i
      /\ worker'[g].epoch = worker[g].epoch
      /\ ChunkFor(g)' = ChunkFor(g)
  BY <1>1, MovedFacts
<1> HIDE DEF u, i
<1>4. FenceOf(g)'
  BY <1>2, <1>3 DEF FenceOf, Bound, RowFor
<1>5. ASSUME Current(g)'
      PROVE  /\ Holds(u, i, worker[g].epoch)
             /\ chunk'[ChunkFor(g)].owner # NoUpload
  BY <1>2, <1>3, <1>5 DEF u, i, Current, Holds, Bound, RowOf, ChunkFor
<1> QED BY <1>2, <1>3, <1>4, <1>5 DEF u, i

LEMMA OpensStep ==
    ASSUME NEW g, Before(g), Opens(g) PROVE StepOK(g)
<1>1. StoreTyped /\ g \in Workers /\ worker \in [Workers -> WorkerState]
  BY DEF Before, StoreTyped, StoreTypeOK
<1>2. PICK u \in Uploads, i \in Index :
             /\ session[u] # "NONE"
             /\ worker' = [worker EXCEPT ![g] = Request("claim", u, i, 0, NoBackend)]
  BY DeclaredPart DEF Opens
<1>3. /\ \A h \in Workers \ {g} : worker'[h] = worker[h]
      /\ worker'[g].pc = "claim"
      /\ worker'[g].upload = u
      /\ worker'[g].backend = NoBackend
  BY <1>1, <1>2 DEF Request
<1>4. session' = session /\ chunk' = chunk /\ blob' = blob
  BY DEF Opens, tables
<1> QED
  BY <1>2, <1>3, <1>4
  DEF StepOK, Tells, OwnerOK, FenceOf, Current, Unreported, At

LEMMA GrantedStep ==
    ASSUME NEW g, Before(g), IsGranted(g) PROVE StepOK(g)
<1> DEFINE u == worker[g].upload
           i == worker[g].part
           c == ChunkFor(g)
           row == chunk'[c]
<1>1. /\ StoreTyped /\ TypeOK' /\ RefInv /\ SessionsKnown /\ Fenced
      /\ TablesMove /\ g \in Workers
  BY DEF Before, RequestInv, SessionInv
<1>2. Busy(g) /\ At(g, "claim") /\ blob' = blob
  BY DEF IsGranted, Busy, At
<1>3. /\ u \in Uploads /\ i \in Parts(u) /\ c \in Chunks /\ c = ChunkOf(u, i)
      /\ session'[u] # "NONE"
  BY <1>1, <1>2, BusyRequest, FenceKept DEF ChunkFor
<1>4. /\ \A x \in Chunks \ {c} : chunk'[x] = chunk[x]
      /\ row.backend = chunk[c].backend
      /\ \/ chunk' = chunk /\ row.backend # NoBackend
         \/ row.epoch = chunk[c].epoch + 1
  BY <1>1, <1>3, PartCallRows DEF IsGranted
<1>5. row.epoch \in Nat /\ chunk[c].epoch \in Nat
  BY <1>1, <1>3, StoreAssumption
  DEF StoreTyped, TypeOK, ChunkRow, StoreAssumption
<1>6. CASE worker' = worker
  <2>1. /\ \A h \in Workers : worker'[h] = worker[h]
        /\ worker'[g].pc = "claim"
        /\ ChunkFor(g)' = ChunkFor(g)
    BY <1>2, <1>6 DEF At, ChunkFor
  <2>2. OwnerOK(g)' /\ FenceOf(g)' /\ ~Unreported(g)'
    BY <2>1 DEF OwnerOK, FenceOf, Current, Unreported, At
  <2>3. \A x \in Chunks : chunk'[x].backend = chunk[x].backend
    BY <1>4
  <2>4. session'[worker'[g].upload] # "NONE"
    BY <1>3, <1>6
  <2>5. worker'[g].backend = worker[g].backend
    BY <1>1, <2>1
  <2> HIDE DEF c, u, i, row
  <2>6. Tells(g)
    BY <1>2, <2>1, <2>2, <2>3, <2>5 DEF Tells
  <2> QED BY <2>2, <2>4, <2>6 DEF StepOK
<1>7. CASE Moved(g, AfterClaim(row), row.epoch, row.backend)
  <2>1. /\ \A h \in Workers \ {g} : worker'[h] = worker[h]
        /\ worker'[g].pc = AfterClaim(row)
        /\ worker'[g].upload = u
        /\ worker'[g].part = i
        /\ worker'[g].epoch = row.epoch
        /\ worker'[g].backend = row.backend
        /\ ChunkFor(g)' = c
    BY <1>1, <1>7, MovedFacts
  <2>2. AfterClaim(row) = IF row.backend = NoBackend THEN "put" ELSE "finalize"
    BY DEF AfterClaim
  <2>3. FenceOf(g)'
    BY <1>5, <2>1 DEF FenceOf, RowFor
  <2>4. ASSUME row.backend = NoBackend, NEW h \in Workers \ {g}, Current(h)',
               ChunkFor(h)' = c
        PROVE  FALSE
    <3>1. Current(h) /\ ChunkFor(h) = c /\ worker'[h] = worker[h]
      BY <1>1, <2>1, <2>4, RequestKept DEF ChunkFor
    <3>2. chunk[c].epoch = worker[h].epoch /\ row.epoch = worker[h].epoch
      BY <2>4, <3>1 DEF Current, Holds, RowOf, ChunkFor
    <3> QED BY <1>4, <1>5, <2>4, <3>2
  <2>5. OwnerOK(g)'
    BY <2>1, <2>2, <2>4 DEF OwnerOK, RowFor
  <2>6. ~Unreported(g)'
    BY <2>1, <2>2 DEF Unreported, At
  <2>7. Tells(g)
    BY <1>2, <1>3, <1>4, <2>1, <2>6 DEF Tells
  <2> QED BY <1>3, <2>1, <2>3, <2>5, <2>7 DEF StepOK
<1> QED BY <1>6, <1>7 DEF IsGranted

\* What the fenced calls of a request know of their row.
LEMMA OwnerCalls ==
    ASSUME NEW g, Before(g), NEW b,
           \/ /\ worker[g].pc \in {"finalize", "publish"}
              /\ MarkPartReady(worker[g].upload, worker[g].part,
                               worker[g].epoch, b)
           \/ /\ worker[g].pc = "record"
              /\ RecordPartBackend(worker[g].upload, worker[g].part,
                                   worker[g].epoch, b)
           \/ /\ worker[g].pc \in {"fail", "reject"}
              /\ MarkPartFailed(worker[g].upload, worker[g].part,
                                worker[g].epoch, b)
    PROVE  /\ Busy(g) /\ ~At(g, "claim") /\ Current(g) /\ OwnerOK(g)
           /\ ChunkFor(g) \in Chunks
           /\ \A x \in Chunks \ {ChunkFor(g)} : chunk'[x] = chunk[x]
           /\ worker[g].pc = "record" =>
                chunk'[ChunkFor(g)].backend = b
           /\ worker[g].pc \in {"finalize", "publish"} =>
                /\ chunk'[ChunkFor(g)].backend = b
                /\ chunk'[ChunkFor(g)].owner = NoUpload
           /\ worker[g].pc \in {"fail", "reject"} =>
                /\ chunk'[ChunkFor(g)].backend =
                     IF b = NoBackend THEN chunk[ChunkFor(g)].backend ELSE b
                /\ chunk'[ChunkFor(g)].owner = NoUpload
<1>1. StoreTyped /\ RefInv /\ OwnersOK /\ g \in Workers
  BY DEF Before, RequestInv, SessionInv
<1>2. Busy(g) /\ ~At(g, "claim")
  BY DEF Busy, At
<1>3. Current(g)
  BY DEF Current, MarkPartReady, CanPublish, RecordPartBackend, CanRecord,
         MarkPartFailed, CanFail
<1>4. /\ worker[g].upload \in Uploads
      /\ worker[g].part \in Parts(worker[g].upload)
      /\ ChunkFor(g) \in Chunks
      /\ ChunkFor(g) = ChunkOf(worker[g].upload, worker[g].part)
  BY <1>1, <1>2, BusyRequest DEF ChunkFor
<1> QED BY <1>1, <1>2, <1>3, <1>4, PartCallRows DEF OwnersOK

LEMMA PublishesStep ==
    ASSUME NEW g, Before(g), Publishes(g) PROVE StepOK(g)
<1>1. StoreTyped /\ g \in Workers /\ blob' = blob
  BY DEF Before, Publishes
<1>2. /\ Busy(g) /\ ~At(g, "claim") /\ Current(g) /\ OwnerOK(g)
      /\ \A x \in Chunks \ {ChunkFor(g)} : chunk'[x] = chunk[x]
      /\ chunk'[ChunkFor(g)].backend = worker[g].backend
      /\ chunk'[ChunkFor(g)].owner = NoUpload
  BY OwnerCalls DEF Publishes
<1>3. \A c \in Chunks : chunk'[c].backend = chunk[c].backend
  BY <1>2 DEF Publishes, OwnerOK, RowFor
<1>4. CASE Done(g)
  BY <1>1, <1>3, <1>4, DoneStep
<1>5. CASE MovedTo(g, "fail")
  <2>1. /\ \A h \in Workers \ {g} : worker'[h] = worker[h]
        /\ worker'[g].pc = "fail"
        /\ worker'[g].backend = worker[g].backend
        /\ ChunkFor(g)' = ChunkFor(g)
    BY <1>1, <1>5, MovedFacts DEF MovedTo
  <2>2. FenceOf(g)' /\ session'[worker'[g].upload] # "NONE" /\ ~Current(g)'
    BY <1>2, <1>5, GoesOn DEF MovedTo
  <2> QED
    BY <1>1, <1>2, <1>3, <2>1, <2>2 DEF StepOK, Tells, OwnerOK, Unreported, At
<1> QED BY <1>4, <1>5 DEF Publishes

LEMMA RecordsStep ==
    ASSUME NEW g, Before(g), Records(g) PROVE StepOK(g)
<1>1. StoreTyped /\ g \in Workers /\ blob' = blob /\ worker[g].pc = "record"
  BY DEF Before, Records, At
<1>2. /\ Busy(g) /\ ~At(g, "claim") /\ Current(g) /\ OwnerOK(g)
      /\ \A x \in Chunks \ {ChunkFor(g)} : chunk'[x] = chunk[x]
      /\ chunk'[ChunkFor(g)].backend = worker[g].backend
  BY <1>1, OwnerCalls DEF Records
<1>3. /\ chunk[ChunkFor(g)].backend = NoBackend
      /\ Unreported(g) /\ ~At(g, "reject")
  BY <1>1, <1>2 DEF OwnerOK, RowFor, Unreported, At
<1>4. worker[g].backend \in Backends /\ worker[g].backend # NoBackend
  BY <1>1, <1>3, UnreportedBlob, StoreAssumption DEF StoreAssumption
<1>5. PICK pc \in {"publish", "fail"} : Moved(g, pc, worker[g].epoch, worker[g].backend)
  BY DEF Records, MovedTo
<1>6. /\ \A h \in Workers \ {g} : worker'[h] = worker[h]
      /\ worker'[g].pc = pc
      /\ worker'[g].backend = worker[g].backend
      /\ ChunkFor(g)' = ChunkFor(g)
  BY <1>1, <1>5, MovedFacts
<1>7. FenceOf(g)' /\ session'[worker'[g].upload] # "NONE"
  BY <1>2, <1>5, GoesOn
<1>8. OwnerOK(g)' /\ ~Unreported(g)'
  BY <1>2, <1>4, <1>6 DEF OwnerOK, RowFor, Unreported, At
<1> QED BY <1>1, <1>2, <1>3, <1>6, <1>7, <1>8 DEF StepOK, Tells

LEMMA GivesUpStep ==
    ASSUME NEW g, Before(g), GivesUp(g) PROVE StepOK(g)
<1>1. /\ StoreTyped /\ TypeOK' /\ SessionsKnown /\ Fenced /\ TablesMove
      /\ OwnersOK /\ g \in Workers /\ blob' = blob /\ chunk' = chunk
      /\ worker[g].pc \in {"put", "record", "publish"}
  BY DEF Before, RequestInv, GivesUp, tables
<1>2. Busy(g) /\ ~At(g, "claim")
  BY <1>1 DEF Busy, At
<1>3. /\ \A h \in Workers \ {g} : worker'[h] = worker[h]
      /\ worker'[g].pc = "fail"
      /\ worker'[g].backend = worker[g].backend
      /\ ChunkFor(g)' = ChunkFor(g)
  BY <1>1, MovedFacts DEF GivesUp, MovedTo
<1>4. /\ FenceOf(g)' /\ session'[worker'[g].upload] # "NONE"
      /\ Current(g)' => Current(g)
  BY <1>1, <1>2, GoesOn DEF GivesUp, MovedTo, Current
<1>5. \A h \in Workers \ {g} : Current(h)' => Current(h) /\ ChunkFor(h)' = ChunkFor(h)
  BY <1>1, <1>3, RequestKept DEF ChunkFor
<1>6. OwnerOK(g)'
  BY <1>1, <1>3, <1>4, <1>5 DEF OwnersOK, OwnerOK, RowFor
<1>7. worker[g].pc = "put" => worker[g].backend = NoBackend
  BY <1>1 DEF StoreTyped, WorkersKnow
<1>8. Unreported(g)' => Unreported(g) /\ worker[g].pc = "record"
  BY <1>1, <1>3, <1>4, <1>7 DEF OwnersOK, OwnerOK, RowFor, Unreported, At
<1> QED BY <1>1, <1>2, <1>3, <1>4, <1>6, <1>8 DEF StepOK, Tells

LEMMA ReportsStep ==
    ASSUME NEW g, Before(g), Reports(g) \/ Rejects(g) PROVE StepOK(g)
<1>1. StoreTyped /\ g \in Workers /\ blob' = blob
  BY DEF Before, Reports, Rejects
<1>2. CASE Reports(g)
  <2>1. /\ Current(g) /\ OwnerOK(g) /\ worker[g].pc = "fail"
        /\ \A x \in Chunks \ {ChunkFor(g)} : chunk'[x] = chunk[x]
        /\ chunk'[ChunkFor(g)].backend =
             IF worker[g].backend = NoBackend THEN chunk[ChunkFor(g)].backend
             ELSE worker[g].backend
    BY <1>2, OwnerCalls DEF Reports, At
  <2>2. \/ chunk'[ChunkFor(g)].backend = chunk[ChunkFor(g)].backend
        \/ /\ Unreported(g) /\ ~At(g, "reject")
           /\ chunk[ChunkFor(g)].backend = NoBackend
           /\ chunk'[ChunkFor(g)].backend = worker[g].backend
    BY <2>1 DEF OwnerOK, RowFor, Unreported, At
  <2>3. Done(g)
    BY <1>2 DEF Reports
  <2> QED BY <1>1, <2>1, <2>2, <2>3, DoneStep
<1>3. CASE Rejects(g)
  <2>1. /\ Busy(g) /\ ~At(g, "claim") /\ worker[g].pc = "reject"
        /\ \A x \in Chunks : chunk'[x].backend = chunk[x].backend
    BY <1>3, OwnerCalls DEF Rejects, At
  <2>2. CASE Done(g)
    BY <1>1, <2>1, <2>2, DoneStep
  <2>3. CASE MovedTo(g, "cleanup")
    <3>1. /\ \A h \in Workers \ {g} : worker'[h] = worker[h]
          /\ worker'[g].pc = "cleanup"
          /\ worker'[g].backend = worker[g].backend
          /\ ChunkFor(g)' = ChunkFor(g)
      BY <1>1, <2>3, MovedFacts DEF MovedTo
    <3>2. FenceOf(g)' /\ session'[worker'[g].upload] # "NONE"
      BY <2>1, <2>3, GoesOn DEF MovedTo
    <3> QED
      BY <1>1, <2>1, <3>1, <3>2
      DEF StepOK, Tells, OwnerOK, Current, Unreported, At
  <2> QED BY <1>3, <2>2, <2>3 DEF Rejects
<1> QED BY <1>2, <1>3

LEMMA EndsStep ==
    ASSUME NEW g, Before(g), Ends(g) \/ CleansUp(g) PROVE StepOK(g)
<1>1. StoreTyped /\ g \in Workers /\ Done(g) /\ chunk' = chunk
  BY DEF Before, Ends, CleansUp, tables
<1>2. CASE Ends(g)
  BY <1>1, <1>2, DoneStep DEF Ends
<1>3. CASE CleansUp(g)
  <2>1. Unreported(g) /\ At(g, "cleanup")
    BY <1>3 DEF CleansUp, At, Unreported
  <2>2. worker[g].backend \in Backends /\ blob \in [Backends -> BlobStates]
    BY <1>1, <2>1, UnreportedBlob DEF StoreTyped, StoreTypeOK
  <2>3. \A b \in Backends : blob'[b] = IF b = worker[g].backend THEN "gone"
                                       ELSE blob[b]
    BY <1>3, <2>2 DEF CleansUp, Remove
  <2> QED BY <1>1, <2>1, <2>3, DoneFacts DEF StepOK, Tells
<1> QED BY <1>2, <1>3

\* A blob is stored under an id nobody knows yet.
LEMMA PutsInv ==
    ASSUME NEW g, Before(g), Puts(g) PROVE RequestInv'
<1> DEFINE w == worker[g]
<1>1. /\ StoreTyped /\ TypeOK' /\ RequestInv /\ TablesMove
      /\ SessionsKnown /\ Fenced /\ OwnersOK /\ OneHome /\ NamedStored
      /\ PrivateBlobs /\ WorkerBlobs
      /\ g \in Workers /\ w.pc = "put" /\ w.backend = NoBackend
      /\ session' = session /\ part' = part /\ chunk' = chunk
      /\ blob \in [Backends -> BlobStates]
      /\ NoBackend \notin Backends
  BY StoreAssumption
  DEF Before, RequestInv, Puts, At, StoreTyped, StoreTypeOK, WorkersKnow,
      tables, StoreAssumption
<1>2. Busy(g) /\ ~At(g, "claim") /\ ChunkFor(g) \in Chunks
  BY <1>1, BusyRequest DEF Busy, At
<1>3. PICK b \in Backends, pc \in {"record", "reject", "fail"} :
        /\ blob[b] = "unused"
        /\ blob' = [blob EXCEPT ![b] = IF pc = "reject" THEN "corrupt"
                                       ELSE ChunkFor(g)]
        /\ Moved(g, pc, w.epoch, IF pc = "fail" THEN NoBackend ELSE b)
  <2>1. PICK b \in Backends :
          \/ Store(b, ChunkFor(g)) /\ Moved(g, "record", w.epoch, b)
          \/ Store(b, "corrupt") /\ Moved(g, "reject", w.epoch, b)
          \/ Store(b, ChunkFor(g)) /\ Moved(g, "fail", w.epoch, NoBackend)
    BY <1>1 DEF Puts, MovedTo
  <2>2. CASE Store(b, ChunkFor(g)) /\ Moved(g, "record", w.epoch, b)
    BY <2>2 DEF Store
  <2>3. CASE Store(b, "corrupt") /\ Moved(g, "reject", w.epoch, b)
    BY <2>3 DEF Store
  <2>4. CASE Store(b, ChunkFor(g)) /\ Moved(g, "fail", w.epoch, NoBackend)
    BY <2>4 DEF Store
  <2> QED BY <2>1, <2>2, <2>3, <2>4
<1>4. /\ \A h \in Workers \ {g} : worker'[h] = worker[h]
      /\ worker'[g].pc = pc
      /\ worker'[g].upload = w.upload
      /\ worker'[g].part = w.part
      /\ worker'[g].epoch = w.epoch
      /\ worker'[g].backend = IF pc = "fail" THEN NoBackend ELSE b
      /\ ChunkFor(g)' = ChunkFor(g)
  BY <1>1, <1>3, MovedFacts
<1>5. \A h \in Workers :
        /\ ChunkFor(h)' = ChunkFor(h)
        /\ RowFor(h)' = RowFor(h)
        /\ Busy(h)' <=> Busy(h)
        /\ Current(h)' <=> Current(h)
        /\ FenceOf(h)' <=> FenceOf(h)
  <2>1. \A h \in Workers : /\ worker'[h].upload = worker[h].upload
                           /\ worker'[h].part = worker[h].part
                           /\ worker'[h].epoch = worker[h].epoch
                           /\ \/ worker'[h].pc = worker[h].pc
                              \/ h = g /\ worker'[h].pc = pc
    BY <1>4
  <2>2. \A h \in Workers : ChunkFor(h)' = ChunkFor(h) /\ RowFor(h)' = RowFor(h)
    BY <1>1, <2>1 DEF ChunkFor, RowFor
  <2>3. \A h \in Workers : /\ Busy(h)' <=> Busy(h)
                           /\ Current(h)' <=> Current(h)
    BY <1>1, <2>1 DEF Busy, At, Current, Holds, Bound, RowOf
  <2>4. \A h \in Workers : FenceOf(h)' <=> FenceOf(h)
    BY <1>1, <2>1, <2>2, <2>3 DEF FenceOf, Bound, At
  <2> QED BY <2>2, <2>3, <2>4
<1>6. SessionsKnown' /\ Fenced'
  <2>1. \A h \in Workers : worker'[h].upload = worker[h].upload
    BY <1>4
  <2> QED BY <1>1, <1>5, <2>1 DEF SessionsKnown, Fenced
<1>7. OwnersOK'
  <2>1. OwnerOK(g)'
    BY <1>1, <1>4, <1>5 DEF OwnersOK, OwnerOK
  <2>2. ASSUME NEW h \in Workers \ {g} PROVE OwnerOK(h)'
    BY <1>1, <1>4, <1>5, <2>2 DEF OwnersOK, OwnerOK
  <2> QED BY <2>1, <2>2 DEF OwnersOK
<1>8. \A c \in Chunks : ~NamedFor(c, b)
  BY <1>1, <1>3 DEF NamedStored
<1>9. \A c \in Chunks : \A x \in Backends :
        NamedFor(c, x)' => NamedFor(c, x) \/ (x = b /\ c = ChunkFor(g))
  <2> SUFFICES ASSUME NEW c \in Chunks, NEW x \in Backends, NamedFor(c, x)'
               PROVE  NamedFor(c, x) \/ (x = b /\ c = ChunkFor(g))
    OBVIOUS
  <2>1. CASE chunk'[c].backend = x
    BY <1>1, <2>1 DEF NamedFor
  <2>2. ASSUME NEW h \in Workers, Busy(h)', ChunkFor(h)' = c,
               worker'[h].backend = x
        PROVE  NamedFor(c, x) \/ (x = b /\ c = ChunkFor(g))
    BY <1>1, <1>4, <1>5, <2>2 DEF NamedFor
  <2> QED BY <2>1, <2>2 DEF NamedFor
<1>10. OneHome'
  BY <1>1, <1>8, <1>9 DEF OneHome
<1>11. blob'[b] # "unused" /\ \A x \in Backends \ {b} : blob'[x] = blob[x]
  BY <1>1, <1>2, <1>3, BlobAssumption DEF BlobAssumption
<1>12. NamedStored'
  BY <1>1, <1>9, <1>11 DEF NamedStored
<1>13. \A h \in Workers \ {g} : Unreported(h)' =>
         /\ Unreported(h) /\ Private(h) /\ Busy(h)
         /\ worker[h].backend \in Backends
         /\ worker[h].backend # b
  <2>1. ASSUME NEW h \in Workers \ {g}, Unreported(h)'
        PROVE  Unreported(h)
    BY <1>4, <1>5, <2>1 DEF Unreported, At
  <2>2. ASSUME NEW h \in Workers, Unreported(h)
        PROVE  Busy(h) /\ worker[h].backend \in Backends /\ worker[h].backend # b
    <3>1. /\ Busy(h) /\ worker[h].backend \in Backends
          /\ ChunkFor(h) \in Chunks
      BY <1>1, <2>2, UnreportedBlob, BusyRequest
    <3> QED BY <1>8, <3>1 DEF NamedFor
  <2> QED BY <1>1, <2>1, <2>2 DEF PrivateBlobs
<1>14. Unreported(g)' => worker'[g].backend = b
  BY <1>4 DEF Unreported, At
<1>15. PrivateBlobs'
  <2>1. ASSUME NEW h \in Workers \ {g}, Unreported(h)' PROVE Private(h)'
    BY <1>1, <1>4, <1>5, <1>13, <2>1 DEF Private
  <2>2. ASSUME Unreported(g)' PROVE Private(g)'
    <3>1. \A c \in Chunks : chunk'[c].backend # b
      BY <1>1, <1>8 DEF NamedFor
    <3>2. \A h \in Workers \ {g} : Busy(h)' => worker'[h].backend # b
      BY <1>1, <1>4, <1>5, <1>8, BusyRequest DEF NamedFor
    <3> QED BY <1>14, <2>2, <3>1, <3>2 DEF Private
  <2> QED BY <2>1, <2>2 DEF PrivateBlobs
<1>16. WorkerBlobs'
  <2>1. ASSUME NEW h \in Workers, Unreported(h)'
        PROVE  blob'[worker'[h].backend] =
                 IF worker'[h].pc \in {"reject", "cleanup"} THEN "corrupt"
                 ELSE ChunkFor(h)'
    <3>1. CASE h # g
      BY <1>1, <1>4, <1>5, <1>11, <1>13, <2>1, <3>1 DEF WorkerBlobs
    <3>2. CASE h = g
      BY <1>1, <1>3, <1>4, <1>14, <2>1, <3>2
    <3> QED BY <3>1, <3>2
  <2> QED BY <2>1 DEF WorkerBlobs
<1> QED
  BY <1>6, <1>7, <1>10, <1>12, <1>15, <1>16 DEF RequestInv

LEMMA GatewayInv ==
    ASSUME NEW g, Before(g), StoreTyped', GatewayMove(g) PROVE RequestInv'
<1>1. CASE Puts(g)
  BY <1>1, PutsInv
<1>2. CASE ~Puts(g)
  <2>1. StepOK(g)
    BY <1>2, OpensStep, GrantedStep, PublishesStep, RecordsStep, GivesUpStep,
       ReportsStep, EndsStep
    DEF GatewayMove
  <2>2. StoreTyped /\ RequestInv /\ TablesMove /\ g \in Workers
    BY DEF Before
  <2> QED BY <2>1, <2>2, RequestInvTells DEF StepOK
<1> QED BY <1>1, <1>2

----------------------------------------------------------------------------
(* The GC worker's candidates and the rows' blobs.                         *)

\* The rows of the batch are GC's alone, with the blobs they were claimed with.
BatchHeld ==
    \A x \in gc.batch : /\ chunk[x.chunk].state = "DELETING"
                        /\ chunk[x.chunk].backend = x.backend

\* The blob a row names holds the bytes of the chunk, or GC removed it: while
\* the GC worker does not fail, only for the row that it removes next.
RowBlob(c) ==
    chunk[c].backend # NoBackend =>
      \/ blob[chunk[c].backend] = c
      \/ /\ blob[chunk[c].backend] = "gone"
         /\ gcFaults = 0 =>
              gc.pc = "finish" /\ \E x \in gc.deleted : x.chunk = c
RowBlobs == \A c \in Chunks : RowBlob(c)

StoreInv ==
    /\ StoreTyped /\ SessionInv /\ BoundRows
    /\ RequestInv /\ BatchHeld /\ RowBlobs

\* Candidates are told apart by their chunks.
LEMMA CandidateChunk ==
    ASSUME StoreTyped, BatchHeld
    PROVE  /\ \A x \in gc.batch : x.chunk \in Chunks
           /\ \A x, y \in gc.batch : x.chunk = y.chunk => x = y
<1>1. \A x \in gc.batch : x \in Candidate
  BY DEF StoreTyped, StoreTypeOK, GcState
<1> QED BY <1>1 DEF Candidate, BatchHeld

LEMMA TablesUnchanged ==
    ASSUME SessionInv, BoundRows, UNCHANGED tables
    PROVE  SessionInv' /\ TablesMove
<1>1. SessionInv'
  BY DEF tables, ownership, SessionInv, RefInv, TypeOK, ManifestSources,
         RowsOK, RefCountExact, ReferencedReady, References, ReferencesIn,
         FreshRows, ActivePartsBound, Bound, RowOf, DeletingIsUnwanted,
         WantedByActive, HasPartOn
<1>2. \A c \in Chunks : EpochMoves(chunk[c], chunk'[c])
  BY StoreAssumption
  DEF tables, SessionInv, RefInv, TypeOK, ChunkRow, EpochMoves, StoreAssumption
<1>3. BoundRows' /\ PartsMove
  BY DEF tables, BoundRows, PartsMove, Bound, RowOf
<1> QED BY <1>1, <1>2, <1>3 DEF TablesMove

LEMMA TablesStep ==
    ASSUME StoreTyped, SessionInv, BoundRows, StoreNext
    PROVE  SessionInv' /\ TablesMove
<1>1. CASE Next
  BY <1>1, SessionInvNext, BoundMoves, EpochStep
  DEF TablesMove, SessionInv, RefInv
<1>2. CASE UNCHANGED tables
  BY <1>2, TablesUnchanged
<1> QED BY <1>1, <1>2, StepIsCall

\* A step of clients, time or a reconciling GC worker.
LEMMA CallsInv ==
    ASSUME StoreInv, TypeOK', TablesMove, QuietRows, worker' = worker, blob' = blob,
           \/ SteadyRows /\ UNCHANGED <<gc, gcFaults>>
           \/ gc'.batch = {} /\ gc.pc # "finish" /\ (gcFaults' = 0 => gcFaults = 0)
    PROVE  RequestInv' /\ BatchHeld' /\ RowBlobs'
<1>1. RequestInv'
  BY RequestInvQuiet DEF StoreInv
<1>2. BatchHeld'
  BY CandidateChunk DEF StoreInv, BatchHeld, SteadyRows
<1>3. RowBlobs'
  BY DEF StoreInv, RowBlobs, RowBlob, QuietRows, QuietRow
<1> QED BY <1>1, <1>2, <1>3

LEMMA GatewayRowsSteady ==
    ASSUME NEW g, Before(g), GatewayMove(g) PROVE SteadyRows
<1>1. CASE UNCHANGED tables
  BY <1>1, UnchangedQuiet DEF tables
<1>2. ASSUME NEW b,
             \/ ClaimPartUpload(worker[g].upload, worker[g].part)
             \/ RecordPartBackend(worker[g].upload, worker[g].part,
                                  worker[g].epoch, b)
             \/ MarkPartReady(worker[g].upload, worker[g].part,
                              worker[g].epoch, b)
             \/ MarkPartFailed(worker[g].upload, worker[g].part,
                               worker[g].epoch, b),
             Busy(g)
      PROVE  SteadyRows
  <2>1. /\ RefInv
        /\ worker[g].upload \in Uploads
        /\ worker[g].part \in Parts(worker[g].upload)
    BY <1>2, BusyRequest DEF Before, SessionInv
  <2>2. PICK c : c = ChunkOf(worker[g].upload, worker[g].part)
    OBVIOUS
  <2>3. /\ \A x \in Chunks \ {c} : chunk'[x] = chunk[x]
        /\ chunk[c].state # "DELETING"
    BY <1>2, <2>1, <2>2, PartCallRows
  <2> QED BY <2>3 DEF SteadyRows
<1>3. CASE IsGranted(g) \/ Publishes(g) \/ Records(g) \/ Reports(g) \/ Rejects(g)
  <2>1. Busy(g)
    BY <1>3 DEF IsGranted, Publishes, Records, Reports, Rejects, At, Busy
  <2> QED
    BY <1>2, <1>3, <2>1
    DEF IsGranted, Publishes, Records, Reports, Rejects
<1> QED
  BY <1>1, <1>3
  DEF GatewayMove, Opens, Ends, Puts, GivesUp, CleansUp

\* A request stores under an unused id, deletes a blob no row names, and
\* tells a row only of a blob with the bytes of its chunk.
LEMMA GatewayRowBlobs ==
    ASSUME NEW g, Before(g), RowBlobs, GatewayMove(g), gc' = gc,
           gcFaults' = gcFaults
    PROVE  RowBlobs'
<1>1. /\ StoreTyped /\ NamedStored /\ PrivateBlobs /\ WorkerBlobs
      /\ g \in Workers
      /\ \A c \in Chunks : chunk[c].backend \in Backends \cup {NoBackend}
  BY DEF Before, RequestInv, StoreTyped, TypeOK, ChunkRow
<1>2. CASE Puts(g)
  <2>1. PICK b \in Backends : /\ blob[b] = "unused"
                              /\ \A x \in Backends \ {b} : blob'[x] = blob[x]
    BY <1>1, <1>2 DEF Puts, Store, StoreTyped, StoreTypeOK
  <2>2. chunk' = chunk
    BY <1>2 DEF Puts, tables
  <2>3. \A c \in Chunks : chunk[c].backend # b
    BY <1>1, <2>1 DEF NamedStored, NamedFor
  <2> QED BY <1>1, <2>1, <2>2, <2>3 DEF RowBlobs, RowBlob
<1>3. CASE ~Puts(g)
  <2>1. Tells(g)
    BY <1>3, OpensStep, GrantedStep, PublishesStep, RecordsStep, GivesUpStep,
       ReportsStep, EndsStep
    DEF GatewayMove, StepOK
  <2>2. Unreported(g) => /\ worker[g].backend \in Backends
                         /\ \A c \in Chunks : chunk[c].backend # worker[g].backend
    BY <1>1, UnreportedBlob DEF PrivateBlobs, Private
  <2>3. ASSUME NEW c \in Chunks PROVE RowBlob(c)'
    <3>1. CASE chunk'[c].backend = chunk[c].backend
      BY <1>1, <2>1, <2>2, <3>1 DEF RowBlobs, RowBlob, Tells
    <3>2. CASE /\ Current(g) /\ Unreported(g) /\ ~At(g, "reject")
               /\ c = ChunkFor(g)
               /\ chunk'[c].backend = worker[g].backend
      <4>1. ~At(g, "cleanup")
        BY <3>2 DEF Current, At
      <4>2. blob[worker[g].backend] = c
        BY <1>1, <3>2, <4>1 DEF WorkerBlobs, At
      <4>3. blob'[worker[g].backend] = blob[worker[g].backend]
        BY <2>1, <2>2, <3>2, <4>1 DEF Tells
      <4> QED BY <3>2, <4>2, <4>3 DEF RowBlob
    <3> QED BY <2>1, <3>1, <3>2 DEF Tells
  <2> QED BY <2>3 DEF RowBlobs
<1> QED BY <1>2, <1>3

LEMMA GatewayStepInv ==
    ASSUME StoreInv, StoreTyped', TablesMove, GatewayStep, UNCHANGED gcVars
    PROVE  RequestInv' /\ BatchHeld' /\ RowBlobs'
<1>1. PICK g \in Workers : GatewayMove(g)
  BY GatewayMoves DEF StoreInv
<1>2. Before(g) /\ RowBlobs /\ gc' = gc /\ gcFaults' = gcFaults
  BY DEF Before, StoreInv, StoreTyped, gcVars
<1>3. RequestInv'
  BY <1>1, <1>2, GatewayInv
<1>4. BatchHeld'
  <2>1. SteadyRows
    BY <1>1, <1>2, GatewayRowsSteady
  <2> QED BY <1>2, <2>1, CandidateChunk DEF StoreInv, BatchHeld, SteadyRows
<1>5. RowBlobs'
  BY <1>1, <1>2, GatewayRowBlobs
<1> QED BY <1>3, <1>4, <1>5

----------------------------------------------------------------------------
(* The steps of the GC worker.                                             *)

LEMMA GcFaultsGrow ==
    ASSUME StoreTyped, GcStep
    PROVE  /\ gcFaults' = 0 => gcFaults = 0
           /\ GcFault => gcFaults' # 0
<1>1. gcFaults \in Nat
  BY GcAssumption DEF StoreTyped, StoreTypeOK, GcAssumption
<1>2. NoGcFault \/ GcFault
  BY DEF GcStep, Reconcile, ClaimBatch, DeleteBlob, FinishDeleted, FinishRetry,
         GcCrash
<1> QED BY <1>1, <1>2 DEF NoGcFault, GcFault

LEMMA ReconcileInv ==
    ASSUME StoreInv, StoreTyped', TablesMove, Reconcile, UNCHANGED gatewayVars
    PROVE  RequestInv' /\ BatchHeld' /\ RowBlobs'
<1>1. QuietRows
  BY CallsQuiet, UnchangedQuiet DEF StoreInv, Reconcile, tables
<1>2. /\ worker' = worker /\ blob' = blob /\ TypeOK'
      /\ gc'.batch = {} /\ gc.pc # "finish"
  BY DEF Reconcile, gatewayVars, StoreTyped, StoreInv, GcKnows, StoreTypeOK, GcState
<1>3. gcFaults' = 0 => gcFaults = 0
  BY GcFaultsGrow DEF StoreInv, GcStep
<1> QED BY <1>1, <1>2, <1>3, CallsInv

LEMMA ClaimBatchInv ==
    ASSUME StoreInv, StoreTyped', TablesMove, UNCHANGED gatewayVars,
           NEW stale \in SUBSET Chunks, NEW batch \in SUBSET Chunks,
           ClaimBatch(stale, batch)
    PROVE  RequestInv' /\ BatchHeld' /\ RowBlobs'
<1> DEFINE candidates == {[chunk |-> c, backend |-> chunk[c].backend] :
                            c \in batch}
<1>1. \A c \in Chunks :
        /\ chunk'[c].backend = chunk[c].backend
        /\ ClaimGc(stale, batch) /\ c \in batch => chunk'[c].state = "DELETING"
  BY DEF ClaimBatch, ClaimGc, tables, StoreInv, StoreTyped, TypeOK, ChunkRow
<1>2. /\ worker' = worker /\ blob' = blob /\ TypeOK'
      /\ gc.pc = "claim"
      /\ GcKnows /\ gc \in GcState
  BY DEF ClaimBatch, gatewayVars, StoreTyped, StoreInv, StoreTypeOK
<1>3. gcFaults' = 0 => gcFaults = 0
  BY GcFaultsGrow DEF StoreInv, GcStep
<1>4. RequestInv'
  BY <1>1, <1>2, RequestInvQuiet DEF StoreInv, QuietRows, QuietRow
<1>5. RowBlobs'
  BY <1>1, <1>2, <1>3 DEF StoreInv, RowBlobs, RowBlob
<1>6. BatchHeld'
  <2>1. CASE gc' = GcStart
    BY <2>1 DEF GcStart, BatchHeld
  <2>2. CASE gc' # GcStart
    <3>1. ClaimGc(stale, batch) /\ gc' = [gc EXCEPT !.pc = "delete",
                                                   !.batch = candidates]
      BY <2>2 DEF ClaimBatch
    <3>2. gc'.batch = candidates
      <4> HIDE DEF candidates
      <4> QED BY <1>2, <3>1 DEF GcState
    <3>3. \A x \in candidates : \E c \in batch :
            x.chunk = c /\ x.backend = chunk[c].backend
      OBVIOUS
    <3> HIDE DEF candidates
    <3> QED BY <1>1, <3>1, <3>2, <3>3 DEF BatchHeld
  <2> QED BY <2>1, <2>2
<1> QED BY <1>4, <1>5, <1>6

\* A physical delete takes the blob of one candidate, which no request has
\* still to report and no other row names.
LEMMA DeleteBlobInv ==
    ASSUME StoreInv, StoreTyped', TablesMove, UNCHANGED gatewayVars, DeleteBlob
    PROVE  RequestInv' /\ BatchHeld' /\ RowBlobs'
<1>1. /\ StoreTyped /\ BatchHeld /\ RequestInv /\ TypeOK'
      /\ worker' = worker /\ chunk' = chunk
      /\ gc \in GcState /\ blob \in [Backends -> BlobStates]
  BY DEF StoreInv, StoreTyped, StoreTypeOK, DeleteBlob, gatewayVars, tables
<1>2. PICK x \in gc.batch :
             /\ gc.pc = "delete"
             /\ \/ /\ x.backend = NoBackend
                   /\ gc' = [gc EXCEPT !.pc = "finish", !.deleted = {x}]
                   /\ UNCHANGED blob /\ NoGcFault
                \/ /\ x.backend # NoBackend
                   /\ Remove(x.backend) /\ NoGcFault
                   /\ gc' = [gc EXCEPT !.pc = "finish", !.deleted = {x}]
                \/ /\ x.backend # NoBackend
                   /\ Remove(x.backend) \/ UNCHANGED blob
                   /\ gc' = [gc EXCEPT !.pc = "retry", !.deleted = {x}]
                   /\ GcFault
  BY DEF DeleteBlob
<1>3. /\ x.chunk \in Chunks
      /\ chunk[x.chunk].backend = x.backend
      /\ x.backend \in Backends \cup {NoBackend}
  BY <1>1, CandidateChunk DEF BatchHeld, StoreTyped, TypeOK, ChunkRow
<1>4. PICK found : found = {x}
  OBVIOUS
<1>5. /\ gc'.batch = gc.batch /\ gc'.deleted = found
      /\ GcFault \/ gc'.pc = "finish"
  BY <1>1, <1>2, <1>4 DEF GcState
<1>6. \A b \in Backends :
        \/ blob'[b] = blob[b]
        \/ blob'[b] = "gone" /\ b = x.backend
  BY <1>1, <1>2, <1>3 DEF Remove
<1>7. RequestInv'
  <2>1. \A g \in Workers : Unreported(g) => worker[g].backend # x.backend
    BY <1>1, <1>3 DEF RequestInv, PrivateBlobs, Private
  <2>2. QuietRows
    BY <1>1, UnchangedQuiet
  <2> QED BY <1>1, <1>6, <2>1, <2>2, RequestInvQuiet
<1>8. BatchHeld'
  BY <1>1, <1>5 DEF BatchHeld
<1>9. RowBlobs'
  <2> SUFFICES ASSUME NEW c \in Chunks, chunk[c].backend # NoBackend
               PROVE  \/ blob'[chunk[c].backend] = c
                      \/ /\ blob'[chunk[c].backend] = "gone"
                         /\ gcFaults' = 0 =>
                              gc'.pc = "finish" /\ \E y \in gc'.deleted : y.chunk = c
    BY <1>1 DEF RowBlobs, RowBlob
  <2>1. chunk[c].backend \in Backends
    BY <1>1 DEF StoreTyped, TypeOK, ChunkRow
  <2>2. GcFault => gcFaults' # 0
    BY <1>1, GcFaultsGrow DEF GcStep
  <2>3. CASE chunk[c].backend = x.backend
    <3>1. c = x.chunk
      BY <1>1, <1>3, <2>1, <2>3 DEF RequestInv, OneHome, NamedFor
    <3>2. \/ blob'[chunk[c].backend] = "gone"
          \/ blob'[chunk[c].backend] = blob[chunk[c].backend]
      BY <1>6, <2>1
    <3>3. \E y \in gc'.deleted : y.chunk = c
      BY <1>4, <1>5, <3>1
    <3>4. blob[chunk[c].backend] \in {c, "gone"}
      BY DEF StoreInv, RowBlobs, RowBlob
    <3> QED BY <1>5, <2>2, <3>2, <3>3, <3>4
  <2>4. CASE chunk[c].backend # x.backend
    <3>1. blob'[chunk[c].backend] = blob[chunk[c].backend]
      BY <1>6, <2>1, <2>4
    <3>2. gcFaults' = 0 => gcFaults = 0
      BY <1>1, GcFaultsGrow DEF GcStep
    <3> QED BY <1>2, <3>1, <3>2 DEF StoreInv, RowBlobs, RowBlob
  <2> QED BY <2>3, <2>4
<1> QED BY <1>7, <1>8, <1>9

\* The candidate is done with: its row is removed, which needs that nothing
\* refers to it, or queued again; the rest of the batch is left alone.
LEMMA FinishInv ==
    ASSUME StoreInv, StoreTyped', TablesMove, UNCHANGED gatewayVars,
           FinishDeleted \/ FinishRetry
    PROVE  RequestInv' /\ BatchHeld' /\ RowBlobs'
<1>1. /\ StoreTyped /\ BatchHeld /\ RequestInv /\ RowBlobs /\ TypeOK'
      /\ worker' = worker /\ blob' = blob
      /\ chunk \in [Chunks -> ChunkRow] /\ GcKnows
      /\ gc.deleted \subseteq gc.batch
  BY DEF StoreInv, StoreTyped, StoreTypeOK, FinishDeleted, FinishRetry, gatewayVars,
         TypeOK
<1>2. /\ gcFaults' = 0 => gcFaults = 0
      /\ GcFault => gcFaults' # 0
  BY <1>1, GcFaultsGrow DEF GcStep
<1>3. gc'.batch \subseteq gc.batch \ gc.deleted
  BY DEF FinishDeleted, FinishRetry, NextCandidate, GcStart
<1>4. ASSUME QuietRows,
             \A x \in gc.batch \ gc.deleted : chunk'[x.chunk] = chunk[x.chunk]
      PROVE  RequestInv' /\ BatchHeld'
  <2>1. RequestInv'
    BY <1>1, <1>4, RequestInvQuiet
  <2>2. BatchHeld'
    BY <1>1, <1>3, <1>4 DEF BatchHeld
  <2> QED BY <2>1, <2>2
<1>5. CASE \E x \in gc.deleted : FinishGcDeleted(x.chunk) /\ NoGcFault
  <2>1. PICK x \in gc.deleted : FinishGcDeleted(x.chunk)
    BY <1>5
  <2>2. PICK c \in Chunks : c = x.chunk
    BY <1>1, CandidateChunk
  <2>3. chunk[c].state = "DELETING" /\ chunk[c].ref = 0
    BY <1>1, <2>2 DEF BatchHeld, StoreInv, SessionInv, DeletingIsUnwanted
  <2>4. chunk' = [chunk EXCEPT ![c] = NoChunkRow]
    BY <2>1, <2>2, <2>3 DEF FinishGcDeleted
  <2>5. \A y \in Chunks : chunk'[y] = IF y = c THEN NoChunkRow ELSE chunk[y]
    BY <1>1, <2>4
  <2>6. QuietRows
    BY <2>5 DEF QuietRows, QuietRow, NoChunkRow
  <2>7. \A y \in gc.batch \ gc.deleted : chunk'[y.chunk] = chunk[y.chunk]
    BY <1>1, <2>2, <2>5, CandidateChunk
  <2>8. RowBlobs'
    <3> SUFFICES ASSUME NEW y \in Chunks PROVE RowBlob(y)'
      BY DEF RowBlobs, RowBlob
    <3>1. CASE y = c
      BY <2>5, <3>1 DEF RowBlob, NoChunkRow
    <3>2. CASE y # c
      <4>1. ~\E z \in gc.deleted : z.chunk = y
        BY <1>1, <2>2, <3>2 DEF GcKnows
      <4> QED BY <1>1, <1>2, <2>5, <3>2, <4>1 DEF RowBlobs, RowBlob
    <3> QED BY <3>1, <3>2
  <2> QED BY <1>4, <2>6, <2>7, <2>8
<1>6. CASE /\ \/ \E x \in gc.deleted : FinishGcRetry(x.chunk)
              \/ UNCHANGED tables
           /\ GcFault \/ gc.pc = "retry"
  <2>1. /\ \A c \in Chunks : chunk'[c].backend = chunk[c].backend
        /\ \A x \in gc.batch \ gc.deleted : chunk'[x.chunk] = chunk[x.chunk]
    <3>1. CASE UNCHANGED tables
      BY <3>1 DEF tables
    <3>2. CASE \E x \in gc.deleted : FinishGcRetry(x.chunk)
      <4>1. PICK x \in gc.deleted : FinishGcRetry(x.chunk)
        BY <3>2
      <4>2. PICK c \in Chunks : c = x.chunk
        BY <1>1, CandidateChunk
      <4>3. chunk' = [chunk EXCEPT ![c] = [chunk[c] EXCEPT !.state = "GC_PENDING"]]
        BY <4>1, <4>2 DEF FinishGcRetry
      <4>4. \A y \in Chunks : /\ y # c => chunk'[y] = chunk[y]
                              /\ chunk'[y].backend = chunk[y].backend
        BY <1>1, <4>3 DEF ChunkRow
      <4>5. \A y \in gc.batch \ gc.deleted : y.chunk \in Chunks /\ y.chunk # c
        BY <1>1, <4>2, CandidateChunk
      <4> QED BY <4>4, <4>5
    <3> QED BY <1>6, <3>1, <3>2
  <2>2. QuietRows
    BY <2>1 DEF QuietRows, QuietRow
  <2>3. RowBlobs'
    BY <1>1, <1>2, <1>6, <2>1 DEF RowBlobs, RowBlob
  <2> QED BY <1>4, <2>1, <2>2, <2>3
<1> QED BY <1>5, <1>6 DEF FinishDeleted, FinishRetry

\* A crash forgets the batch, whose rows stay as they are.
LEMMA GcCrashInv ==
    ASSUME StoreInv, StoreTyped', TablesMove, UNCHANGED gatewayVars, GcCrash
    PROVE  RequestInv' /\ BatchHeld' /\ RowBlobs'
<1>1. /\ StoreTyped /\ RequestInv /\ RowBlobs /\ TypeOK'
      /\ worker' = worker /\ blob' = blob /\ chunk' = chunk
  BY DEF StoreInv, StoreTyped, GcCrash, gatewayVars, tables
<1>2. RequestInv'
  BY <1>1, UnchangedQuiet, RequestInvQuiet
<1>3. BatchHeld'
  BY DEF GcCrash, GcStart, BatchHeld
<1>4. gcFaults' # 0
  BY <1>1, GcFaultsGrow DEF GcCrash, GcStep
<1>5. RowBlobs'
  BY <1>1, <1>4 DEF RowBlobs, RowBlob
<1> QED BY <1>2, <1>3, <1>5

LEMMA GcStepInv ==
    ASSUME StoreInv, StoreTyped', TablesMove, UNCHANGED gatewayVars, GcStep
    PROVE  RequestInv' /\ BatchHeld' /\ RowBlobs'
  BY ReconcileInv, ClaimBatchInv, DeleteBlobInv, FinishInv, GcCrashInv DEF GcStep

LEMMA StoreInvNext ==
    ASSUME StoreInv, StoreNext PROVE StoreInv'
<1>1. StoreTyped' /\ TypeOK'
  BY StoreTypedNext DEF StoreInv, StoreTyped
<1>2. SessionInv' /\ TablesMove
  BY TablesStep DEF StoreInv
<1>3. BoundRows'
  BY <1>2 DEF TablesMove
<1>4. CASE ClientCall \/ TimePasses
  <2>1. QuietRows /\ SteadyRows
    BY <1>4, CallsQuiet DEF StoreInv
  <2>2. /\ worker' = worker /\ blob' = blob
        /\ UNCHANGED <<gc, gcFaults>>
    BY <1>4 DEF ClientCall, TimePasses, gatewayVars, gcVars
  <2>3. RequestInv' /\ BatchHeld' /\ RowBlobs'
    BY <1>1, <1>2, <2>1, <2>2, CallsInv
  <2> QED BY <1>1, <1>2, <1>3, <2>3 DEF StoreInv
<1>5. CASE GatewayStep /\ UNCHANGED gcVars
  BY <1>1, <1>2, <1>3, <1>5, GatewayStepInv DEF StoreInv
<1>6. CASE GcStep /\ UNCHANGED gatewayVars
  BY <1>1, <1>2, <1>3, <1>6, GcStepInv DEF StoreInv
<1> QED BY <1>4, <1>5, <1>6 DEF StoreNext

LEMMA StoreInvInit == ASSUME StoreInit PROVE StoreInv
<1>1. StoreTyped /\ SessionInv
  BY StoreTypedInit, SessionInvInit DEF StoreInit
<1>2. /\ \A c \in Chunks : chunk[c].backend = NoBackend
      /\ \A g \in Workers : worker[g] = Idle
      /\ gc = GcStart
  BY DEF StoreInit, Init, NoChunkRow, GatewayInit, GcInit
<1>3. BoundRows
  BY DeclaredPart DEF StoreInit, Init, NoPartRow, BoundRows, Bound
<1>4. \A g \in Workers : ~Busy(g) /\ ~Current(g) /\ ~Unreported(g)
  BY <1>2 DEF Idle, Busy, At, Current, Unreported
<1>5. RequestInv
  BY <1>2, <1>4, StoreAssumption
  DEF RequestInv, SessionsKnown, Fenced, FenceOf, OwnersOK, OwnerOK, OneHome,
      NamedStored, NamedFor, PrivateBlobs, WorkerBlobs, StoreAssumption
<1>6. BatchHeld /\ RowBlobs
  BY <1>2 DEF BatchHeld, GcStart, RowBlobs, RowBlob
<1> QED BY <1>1, <1>3, <1>5, <1>6 DEF StoreInv

LEMMA StoreInvUnchanged ==
    ASSUME StoreInv, UNCHANGED vars PROVE StoreInv'
<1>1. StoreTyped' /\ TypeOK'
  BY StoreTypedUnchanged DEF StoreInv, StoreTyped
<1>2. UNCHANGED tables /\ UNCHANGED <<worker, blob, gc, gcFaults>> /\ chunk' = chunk
  BY DEF vars, gatewayVars, gcVars, tables
<1>3. SessionInv' /\ TablesMove /\ BoundRows'
  BY <1>2, TablesUnchanged DEF StoreInv, TablesMove
<1>4. RequestInv' /\ BatchHeld' /\ RowBlobs'
  BY <1>1, <1>2, <1>3, UnchangedQuiet, CallsInv
<1> QED BY <1>1, <1>3, <1>4 DEF StoreInv

LEMMA StoreInvariant == StoreSpec => []StoreInv
<1>1. StoreInit => StoreInv
  BY StoreInvInit
<1>2. StoreInv /\ [StoreNext]_vars => StoreInv'
  BY StoreInvNext, StoreInvUnchanged
<1> QED BY <1>1, <1>2, PTL DEF StoreSpec

----------------------------------------------------------------------------
(* Theorems.                                                               *)

\* Two requests that both still own a chunk finish the same blob, so a second
\* physical write never starts while the first may still be recorded.
THEOREM WritersAgree == StoreSpec => []OneWriter
<1>1. StoreInv => OneWriter
  <2> SUFFICES ASSUME StoreInv, NEW g \in Workers, NEW h \in Workers, g # h,
                      Current(g), Current(h), ChunkFor(g) = ChunkFor(h)
               PROVE  worker[g].backend = worker[h].backend
    BY DEF OneWriter, ChunkFor
  <2> QED BY DEF StoreInv, RequestInv, OwnersOK, OwnerOK, RowFor
<1> QED BY <1>1, StoreInvariant, PTL

\* What a physical delete may take.
LEMMA DeleteTakes ==
    ASSUME StoreInv, StoreNext, NEW b \in Backends, Stored(b), blob'[b] = "gone"
    PROVE  \/ \E g \in Workers : CleansUp(g) /\ worker[g].backend = b
           \/ \E x \in gc.batch : x.backend = b
<1>1. blob[b] # "gone" /\ blob[b] # "unused" /\ blob \in [Backends -> BlobStates]
  BY BlobAssumption DEF Stored, BlobAssumption, StoreInv, StoreTyped, StoreTypeOK
<1>2. CASE ClientCall \/ TimePasses
  BY <1>1, <1>2 DEF ClientCall, TimePasses
<1>3. CASE GatewayStep
  <2>1. PICK g \in Workers : GatewayMove(g)
    BY <1>3, GatewayMoves DEF StoreInv
  <2>2. CASE Puts(g)
    BY <1>1, <2>2 DEF Puts, Store
  <2>3. CASE CleansUp(g)
    BY <1>1, <2>3 DEF CleansUp, Remove
  <2> QED
    BY <1>1, <2>1, <2>2, <2>3
    DEF GatewayMove, Opens, IsGranted, Ends, Publishes, Records, GivesUp,
        Reports, Rejects
<1>4. CASE GcStep
  <2>1. DeleteBlob
    BY <1>1, <1>4 DEF GcStep, Reconcile, ClaimBatch, FinishDeleted, FinishRetry,
                      GcCrash
  <2> QED BY <1>1, <2>1 DEF DeleteBlob, Remove
<1> QED BY <1>2, <1>3, <1>4 DEF StoreNext

\* GC and the gateway's own clean-up delete only blobs that no READY row names
\* and no request that owns its row is about to publish.
THEOREM DeletesAreSafe == StoreSpec => DeletesOnlyGarbage
<1>1. ASSUME StoreInv, StoreNext, NEW b \in Backends, Stored(b),
             blob'[b] = "gone"
      PROVE  /\ \A c \in Chunks :
                  chunk[c].backend = b => chunk[c].state # "READY"
             /\ \A g \in Workers : Current(g) => worker[g].backend # b
  <2>1. CASE \E g \in Workers : CleansUp(g) /\ worker[g].backend = b
    <3>1. PICK g \in Workers : CleansUp(g) /\ worker[g].backend = b
      BY <2>1
    <3>2. Private(g) /\ ~Current(g)
      BY <1>1, <3>1
      DEF CleansUp, At, Unreported, StoreInv, RequestInv, PrivateBlobs, Current
    <3>3. \A h \in Workers \ {g} : Current(h) => Busy(h)
      BY DEF Current, Busy, At
    <3> QED BY <3>1, <3>2, <3>3 DEF Private
  <2>2. CASE \E x \in gc.batch : x.backend = b
    <3>1. PICK x \in gc.batch : x.backend = b
      BY <2>2
    <3>2. /\ x.chunk \in Chunks /\ chunk[x.chunk].state = "DELETING"
          /\ NamedFor(x.chunk, b)
      BY <1>1, <3>1, CandidateChunk DEF StoreInv, BatchHeld, NamedFor
    <3>3. \A c \in Chunks : NamedFor(c, b) => c = x.chunk
      BY <1>1, <3>2 DEF StoreInv, RequestInv, OneHome
    <3>4. ASSUME NEW g \in Workers, Current(g), worker[g].backend = b
          PROVE  FALSE
      <4>1. Busy(g)
        BY <3>4 DEF Current, Busy, At
      <4>2. ChunkFor(g) \in Chunks /\ worker[g].upload \in Uploads
        BY <1>1, <4>1, BusyRequest DEF StoreInv
      <4>3. ChunkFor(g) = x.chunk
        BY <3>3, <3>4, <4>1, <4>2 DEF NamedFor
      <4>4. chunk[x.chunk].owner = worker[g].upload
        BY <3>4, <4>3 DEF Current, Holds, RowOf, ChunkFor
      <4>5. RowOK(chunk[x.chunk])
        BY <1>1, <3>2 DEF StoreInv, SessionInv, RefInv, RowsOK
      <4> QED
        BY <3>2, <4>2, <4>4, <4>5, StoreAssumption DEF RowOK, StoreAssumption
    <3> QED BY <3>2, <3>3, <3>4 DEF NamedFor
  <2> QED BY <1>1, <2>1, <2>2, DeleteTakes
<1>2. StoreInv /\ [StoreNext]_vars =>
        [\A b \in Backends : (Stored(b) /\ blob'[b] = "gone") =>
           /\ \A c \in Chunks :
                chunk[c].backend = b => chunk[c].state # "READY"
           /\ \A g \in Workers : Current(g) => worker[g].backend # b]_vars
  BY <1>1
<1> QED BY <1>2, StoreInvariant, PTL DEF StoreSpec, DeletesOnlyGarbage

\* Without a fault of GC, the rows' invariant gives every READY row its blob.
LEMMA IntactBlobs == ASSUME StoreInv, gcFaults = 0 PROVE ReadyBlobIntact
<1> SUFFICES ASSUME NEW c \in Chunks, chunk[c].state = "READY"
             PROVE  blob[chunk[c].backend] = c
  BY DEF ReadyBlobIntact
<1>1. chunk[c].backend # NoBackend
  BY DEF StoreInv, SessionInv, RefInv, RowsOK, RowOK
<1>2. ASSUME NEW x \in gc.deleted PROVE x.chunk # c
  BY <1>2 DEF StoreInv, StoreTyped, StoreTypeOK, BatchHeld
<1> QED BY <1>1, <1>2 DEF StoreInv, RowBlobs, RowBlob

\* While the GC worker does not fail, a READY row names a stored blob with the
\* bytes of its chunk.  Without that restriction the property is false: the
\* run "revived" ends in a READY row whose blob GC had deleted.
THEOREM ReadyIsStored == StoreSpec => [](gcFaults = 0 => ReadyBlobIntact)
<1>1. StoreInv => (gcFaults = 0 => ReadyBlobIntact)
  BY IntactBlobs
<1> QED BY <1>1, StoreInvariant, PTL

\* The chunk of each part of a manifest names a blob, with its bytes or gone.
LEMMA ManifestBlob ==
    ASSUME StoreInv, NEW d \in Digests, file[d].mode = "manifest",
           NEW i \in DOMAIN LayoutOf[file[d].source],
           NEW c, c = LayoutOf[file[d].source][i]
    PROVE  /\ chunk[c].state = "READY" /\ chunk[c].backend # NoBackend
           /\ chunk[c].backend \in Backends
           /\ blob[chunk[c].backend] \in {c, "gone"}
           /\ gcFaults = 0 => blob[chunk[c].backend] = c
<1>1. LayoutOf[file[d].source] \in Seq(Chunks)
  BY StoreAssumption
  DEF StoreInv, StoreTyped, ManifestSources, StoreAssumption
<1>2. c \in Chunks
  BY <1>1
<1>3. i \in Occurrences(file[d].source, c)
  BY DEF Occurrences
<1>4. References(c) # {}
  <2>1. <<d, i>> \in ReferencesIn(d, c)
    BY <1>3 DEF ReferencesIn
  <2> QED BY <2>1 DEF References
<1>5. chunk[c].state = "READY" /\ chunk[c].backend # NoBackend
  BY <1>2, <1>4 DEF StoreInv, SessionInv, RefInv, ReferencedReady
<1>6. chunk[c].backend \in Backends
  BY <1>2, <1>5 DEF StoreInv, StoreTyped, TypeOK, ChunkRow
<1>7. blob[chunk[c].backend] \in {c, "gone"}
  BY <1>2, <1>5 DEF StoreInv, RowBlobs, RowBlob
<1>8. gcFaults = 0 => blob[chunk[c].backend] = c
  BY <1>2, <1>5, IntactBlobs DEF ReadyBlobIntact
<1> QED BY <1>5, <1>6, <1>7, <1>8

\* Whatever fails, of GC too, no download is sent bytes that were not declared:
\* a part whose blob GC took by mistake cannot be read at all.
THEOREM WrongBytesNever == StoreSpec => []NoWrongBytes
<1>1. StoreInv => NoWrongBytes
  <2> SUFFICES ASSUME StoreInv, NEW d \in Digests, file[d].mode = "manifest",
                      NEW i \in DOMAIN LayoutOf[file[d].source]
               PROVE  ReadBack(d).bytes[i]
                        \in {LayoutOf[file[d].source][i], "gone"}
    BY DEF NoWrongBytes
  <2> DEFINE layout == LayoutOf[file[d].source]
             stored == [j \in DOMAIN layout |->
                          LET b == chunk[layout[j]].backend
                          IN  IF b \in Backends THEN blob[b] ELSE "gap"]
  <2>1. ReadBack(d) = [mode |-> file[d].mode, bytes |-> stored]
    BY DEF ReadBack
  <2>2. PICK c : c = layout[i]
    OBVIOUS
  <2>3. chunk[c].backend \in Backends /\ blob[chunk[c].backend] \in {c, "gone"}
    BY <2>2, ManifestBlob
  <2>4. stored[i] \in {layout[i], "gone"}
    BY <2>2, <2>3
  <2>5. ReadBack(d).bytes = stored
    BY <2>1
  <2> QED BY <2>4, <2>5, Zenon
<1> QED BY <1>1, StoreInvariant, PTL

\* Then what a download reads is what the tables say.
LEMMA ReadsBack ==
    ASSUME StoreInv, gcFaults = 0
    PROVE  [d \in Digests |-> ReadBack(d)] = [d \in Digests |-> ContentOf(d)]
<1> SUFFICES ASSUME NEW d \in Digests PROVE ReadBack(d) = ContentOf(d)
  OBVIOUS
<1>1. CASE file[d].mode # "manifest"
  BY <1>1 DEF ReadBack, ContentOf
<1>2. CASE file[d].mode = "manifest"
  <2> DEFINE layout == LayoutOf[file[d].source]
  <2>1. layout \in Seq(Chunks)
    BY <1>2, StoreAssumption
    DEF StoreInv, StoreTyped, ManifestSources, StoreAssumption
  <2>2. ASSUME NEW i \in DOMAIN layout, NEW c, c = layout[i]
        PROVE  /\ chunk[c].state = "READY"
               /\ chunk[c].backend # NoBackend
               /\ chunk[c].backend \in Backends
               /\ blob[chunk[c].backend] = c
    BY <1>2, <2>2, ManifestBlob
  <2> DEFINE stored == [i \in DOMAIN layout |->
                          LET b == chunk[layout[i]].backend
                          IN  IF b \in Backends THEN blob[b] ELSE "gap"]
             recorded == [i \in DOMAIN layout |->
                            LET c == layout[i]
                            IN  IF chunk[c].state = "READY"
                                   /\ chunk[c].backend # NoBackend
                                THEN c ELSE "gap"]
  <2>3. stored = recorded
    BY <2>2
  <2>4. ReadBack(d) = [mode |-> file[d].mode, bytes |-> stored]
    BY <1>2 DEF ReadBack
  <2>5. ContentOf(d) = [mode |-> file[d].mode, bytes |-> recorded]
    BY <1>2 DEF ContentOf
  <2> QED BY <2>3, <2>4, <2>5
<1> QED BY <1>1, <1>2

LEMMA ReadsBackNext ==
    StoreInv' /\ (gcFaults = 0)' =>
      ([d \in Digests |-> ReadBack(d)] = [d \in Digests |-> ContentOf(d)])'
<1>1. StoreInv /\ gcFaults = 0 =>
        [d \in Digests |-> ReadBack(d)] = [d \in Digests |-> ContentOf(d)]
  BY ReadsBack
<1> QED BY <1>1, PTL

\* From end to end: as long as the GC worker does not fail, an owned object
\* downloads as the bytes that were declared for it, whatever the requests do.
THEOREM DownloadsKeepBytes ==
    StoreSpec /\ [](gcFaults = 0) => DownloadsAsDeclared
<1> DEFINE read == [d \in Digests |-> ReadBack(d)]
           content == [d \in Digests |-> ContentOf(d)]
<1>1. StoreInit /\ gcFaults = 0 => Downloads!CatalogInit
  <2> SUFFICES ASSUME StoreInit, gcFaults = 0 PROVE Downloads!CatalogInit
    OBVIOUS
  <2>1. Catalog!CatalogInit
    BY CatalogInitially DEF StoreInit
  <2>2. read = content
    BY StoreInvInit, ReadsBack
  <2> QED
    BY <2>1, <2>2
    DEF Catalog!CatalogInit, Downloads!CatalogInit, Catalog!LegacyContent,
        Catalog!NoContent, Downloads!LegacyContent, Downloads!NoContent
<1>2. StoreInv /\ StoreInv' /\ CountInv /\ CountInv' /\ [StoreNext]_vars
        /\ gcFaults = 0 /\ (gcFaults = 0)'
        => [Downloads!CatalogNext]_<<relation, [d \in Digests |-> ReadBack(d)]>>
  <2> SUFFICES ASSUME StoreInv, StoreInv', CountInv, CountInv', [StoreNext]_vars,
                      gcFaults = 0, (gcFaults = 0)'
               PROVE  [Downloads!CatalogNext]_<<relation, read>>
    OBVIOUS
  <2>1. [Catalog!CatalogNext]_<<relation, content>>
    <3>1. [Next]_tables
      BY StepIsCall DEF StoreInv, vars
    <3> QED BY <3>1, CatalogStep
  <2>2. read = content /\ read' = content'
    BY ReadsBack, ReadsBackNext
  <2>3. ASSUME NEW u \in Uploads, Catalog!Upload(u) PROVE Downloads!Upload(u)
    BY <2>2, <2>3
    DEF Catalog!Upload, Downloads!Upload, Catalog!NoContent, Downloads!NoContent,
        Catalog!Declared, Downloads!Declared, Catalog!Owns, Downloads!Owns
  <2>4. ASSUME NEW r \in relation, Catalog!Delete(r) PROVE Downloads!Delete(r)
    BY <2>2, <2>4
    DEF Catalog!Delete, Downloads!Delete, Catalog!NoContent, Downloads!NoContent
  <2>5. Catalog!CatalogNext => Downloads!CatalogNext
    BY <2>3, <2>4 DEF Catalog!CatalogNext, Downloads!CatalogNext
  <2> QED BY <2>1, <2>2, <2>5
<1>3. StoreSpec => []CountInv
  BY StoreRespectsMetadata, CountInvariant, PTL
<1> QED
  BY <1>1, <1>2, <1>3, StoreInvariant, PTL
  DEF StoreSpec, DownloadsAsDeclared, Downloads!CatalogSpec
===========================================================================
