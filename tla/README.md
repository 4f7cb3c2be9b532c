# HydraFS: a verification project

HydraFS is a cloud drive in C and C++: FastCGI programs behind Nginx, MySQL for
metadata, Redis for tokens and coordination, FastDFS for the bytes, and a
pipeline of workers that turns documents into a searchable knowledge base.
This directory holds TLA+ specifications of it, the TLC configurations that
check them on small instances, and TLAPS proofs of what holds on all.

Four parts of it keep shared state that processes race for, and are modelled:

- the **V2 object store** (HydraStore): content-addressed chunks with leases,
  reference counts and garbage collection, under upload sessions of many users,
  several gateway processes and a GC worker;
- the **circuit breaker** that guards its writes;
- the **knowledge base**: a task queue in MySQL, workers that publish
  generations of evidence and wiki revisions, index workers that publish
  snapshots, and searches over them;
- the **legacy programs**: share, delete, save, upload, chunked upload and
  picture links, statement by statement, beside the V2 transactions that use the
  same tables.

Source lines below are relative to the repository's root; "store" is
`common/storage_metadata_store.cpp`, "gateway" `src_cgi/storage_gateway.cpp` and
"knowledge store" `common/knowledge_store.cpp`.

## 1. Inventory

| Component | State it keeps | Operations | Meets others through | What is hard, what must hold |
|---|---|---|---|---|
| V2 metadata store (store, `docker/mysql/hydra_v2.sql`) | `upload_session`, `upload_part`, `chunk_blob`, `object_manifest`, `manifest_chunk`, `file_info`, `user_file_list`, `user_file_count` | InitOrResume, ClaimPartUpload, RecordPartBackend, MarkPartReady, MarkPartFailed, Commit, Abort, DeleteObjectForUser, ReconcileExpiredUploads, ClaimGc, FinishGc: one transaction each | every table is shared by all processes | stale owners and epochs, chunks shared by sessions and manifests; exact reference counts, referenced chunks stay READY, GC never meets an active session |
| Storage gateway (gateway) | local variables of one request | init, part, status, commit, abort, delete, download | the metadata store, the blob store, the breaker | a part is a claim, a physical write and two more transactions: any step may fail, be late or be the last one before a crash |
| Storage GC worker (`src_cgi/storage_gc_worker.cpp`) | the claimed batch | reconcile, claim, delete, finish | the same tables and blobs | a delete that succeeded is reported failed, or the row outlives it; must go on for ever |
| Blob store (`common/storage_blob_store.cpp`) | FastDFS files | Put, Get, Delete | gateway, GC | writes that leave no id behind, deletes reported as failed |
| Circuit breaker (`common/storage_resilience.cpp`) | window of samples and half-open state per process, three shared Redis keys | Allow, Record | gateway | probes that never report, a probe key that expires under its holder |
| Knowledge task queue (`common/knowledge_task.c`, knowledge store 108-420, `src_cgi/knowledge_worker.cpp`) | `ai_parse_task` | enqueue, claim, renew, finish, skip, fail, continue, recover | enqueued by uploads, deletes and other tasks | deduplication that cannot see uncommitted rows, expired leases, late reports; the retry budget holds and every task ends |
| Evidence (knowledge store, worker) | `knowledge_document`, `knowledge_chunk`, `knowledge_vector` | begin, stage, publish, abort a generation; delete a source | the wiki, the index, the search | generations are staged without a fence, parses overlap, a lost connection tears a transaction; one complete generation is published at a time and stays |
| Wiki compiler (`common/wiki_compiler.cpp`, knowledge store) | pages, revisions, citations | compile, repair, publish a patch | evidence it cites | the LLM answers long after it was shown the evidence; citations are looked at without a lock |
| Vector index (knowledge store 470-620, `src_cgi/knowledge_index_worker.cpp`, `common/faiss_snapshot.cpp`) | `knowledge_index_state`, snapshot files | mark dirty, claim, load, build, publish, fail | dirtied by evidence and wiki | builds that overlap or are late; the published one covers what may be shown |
| AI query (`src_cgi/ai_cgi.cpp`) | a cached index per process | search, chat, rebuild, describe | the published snapshot | the pointer moves between its two reads |
| Legacy share and delete (`src_cgi/dealfile_cgi.c`, `dealsharefile_cgi.c`, `sharefiles_cgi.c`) | `share_file_list`, `shared_status`, the public count, two Redis keys, the file tables | share, view, cancel, save, delete, ranking | V2 tables, one autocommitted statement at a time | two stores without a transaction, counters read and written back |
| Legacy upload (`upload_cgi.c`, `md5_cgi.c`) | `file_info`, `user_file_list`, `user_file_count`, a FastDFS file | instant upload, upload | the same tables | the blob is stored before the row |
| Chunked upload (`chunk_init_cgi.c`, `chunk_upload_cgi.c`, `chunk_merge_cgi.c`) | Redis hash and lock, part files | init, part, merge | the same tables | keys that expire, merges that race or stop half way |
| Picture links (`sharepicture_cgi.c`) | `share_picture_list`, a count | share, browse, cancel | counts `file_info` too | as file shares |
| Shared utilities (`common/deal_mysql.c`, `redis_op.c`, `util_cgi.c`) | none of their own | queries, Redis commands | all legacy programs | what a result code means |
| Put admission (gateway 134-152) | a counter per process | acquire, release | gateway | |
| Object reader (`common/storage_object_reader.cpp`) | none | read an object | blob store | the object may be deleted under the reader |
| Extraction, chunking, embedding API | none | pure functions and HTTP | knowledge worker | text arithmetic |
| Accounts and listings (`login_cgi.c`, `reg_cgi.c`, `myfiles_cgi.c`) | users, tokens | register, log in, list | all | |
| Upload client (`picture_bed/src/services`) | concurrency window, retry state | upload loop | gateway | |
| Vendored cJSON, user interface, deployment, benchmarks | | | | no program logic of their own |

**Not modelled, and why.** *Put admission* counts the puts of one process, and a
gateway process serves one request at a time: the count is never above one.
The *object reader* reads what `ReadBack` of `ObjectStore` gives; the rest of it is
temporary files. *Extraction, chunking and the embedding API* compute on text and
call HTTP services; they share no state, and what they yield is a free choice of
the worker model. *Accounts*: registration is one insert under a unique key and a
token one Redis key that the next login overwrites; the listings only read. The
*upload client*'s window is arithmetic on measured times, in one process; what it may
send is covered by clients that may call anything. `common/faiss_wrapper.cpp` is
linked into no program. cJSON is third-party code.

## 2. Modules

```
ObjectCatalog          what a user is promised            (abstract)
MetadataStore          tables, one action per transaction    implements ObjectCatalog
  MetadataStore_proofs   theorems
    ObjectCatalog_proofs   theorems on the counts and the refinement
BlobStore              EXTENDS MetadataStore: stored blobs
  StorageGateway         EXTENDS BlobStore: part requests, step by step
  StorageGcWorker        EXTENDS BlobStore: the GC loop, step by step
    ObjectStore            EXTENDS both: the whole store     implements ObjectCatalog
      ObjectStore_proofs     theorems, EXTENDS ObjectCatalog_proofs too
CircuitBreaker         the breakers of several workers and their Redis keys
  CircuitBreaker_proofs  theorems
KnowledgeQueue         ai_parse_task: producers, claims, retries, recovery
  KnowledgeQueue_proofs  theorems
  KnowledgeBase          EXTENDS KnowledgeQueue: user, workers, evidence, wiki
    KnowledgeBase_proofs   theorems                          implements KnowledgeQueue
    KnowledgeSearch        EXTENDS KnowledgeBase: index workers, snapshots, searches
      KnowledgeSearch_proofs  theorems, EXTENDS KnowledgeBase_proofs too
LegacyTables           tables, Redis keys and requests of the legacy programs
  LegacyShares           EXTENDS LegacyTables: share, view, cancel, save, delete, rank
  LegacyUploads          EXTENDS LegacyTables: instant upload, upload
    LegacyChunks           EXTENDS LegacyUploads: chunked upload
  SharedPictures         EXTENDS LegacyTables: picture links
    LegacyCgi              EXTENDS the three: all programs, and V2 commit and delete
      LegacyCgi_proofs       theorems
MCMetadataStore, MCObjectStore, MCCircuitBreaker, MCKnowledge, MCKnowledgeSearch,
MCLegacy               instances for TLC
```

**MetadataStore.** One variable per table or closely tied group: `session`,
`part`, `chunk`, `file` (`file_info` with its manifest and `manifest_chunk`
rows), `relation` (`user_file_list`), `userCount`, `shared` and `publicCount`
(written only as far as `DeleteObjectForUser` writes them) and `tasks`. Each
action is one method of the class in its committed form, and a transaction
that is rolled back changes nothing. The rows are records with the columns the
guards read; reading one action next to its SQL is meant to be easy:

| Action | Code | Notes |
|---|---|---|
| InstantHit, InitOrResume | store 318-483 | the early return for an owned digest; all parts are reserved or none |
| ClaimPartUpload | 519-570 | a recorded blob is handed back without a new epoch |
| RecordPartBackend, MarkPartReady, MarkPartFailed | 503-517, 485-501, 572-592 | fenced by owner and epoch; a row update that changes nothing has zero affected rows and fails (`CanRecord`) |
| Commit | 594-713 | a new manifest, the same manifest, or a legacy file its owner declares again |
| Abort, ReconcileExpiredUploads | 715-731, 792-811 | neither asks for the session's earlier state before giving chunks back |
| DeleteObjectForUser | 733-790 | one relation; the last one takes the manifest |
| ClaimGc, FinishGcDeleted, FinishGcRetry | 813-838, 840-865 | the foreign key of `hydra_v2.sql` 138-139 unbinds parts |
| LeaseExpires, TaskDone | | time, and a knowledge worker finishing a task |

The arguments come from the network, so `Next` lets anybody call anything
with any upload, part, epoch and blob: the fences in the tables are all that
is relied on. This makes the theorems about the tables independent of what
the gateway does.

**StorageGateway** is the `part` branch of the request loop (gateway 419-577).
Its states are the places between two effects: `claim`, `put`, `record`,
`publish`, `fail`, `reject`, `cleanup`, `finalize`. A fault is a rolled-back
transaction whose guard held, a COMMIT whose answer was lost, a failed FastDFS
call (with or without the bytes left behind), or the death of the process.
**StorageGcWorker** is the worker's loop in the same style. **ObjectStore**
interleaves any number of requests, the one GC worker the deployment starts
(`docker/docker-compose.yaml`) and client calls. init, commit, abort and delete
are a single transaction each, so they are client calls.

**CircuitBreaker** is `common/storage_resilience.cpp` with the call sites of the
part handler (gateway 477-536). A gateway worker is a process with one request
at a time and a breaker of its own; `breaker[w]` is that object and `redis` the
three keys. `ProbeAgain`, `AskOpen`, `AskMarker` and `TryProbe` are `Allow` cut at
its Redis commands, `Record` is one action, and `EndEarly` is a request that was
allowed and ends without `Record`. Redis may be away, the blob store may be well
or not, a key may expire at any time and the pool may be restarted
(`docker/fastcgi_app/start.sh` 26-40). It meets the object store only by
refusing parts, which there is a client that does not call, so the two are not
composed. `LuaCompares` is what Redis' Lua does with the comparison in
`PublishOpen`'s script; because of it the keys `open` and `degraded` are never
set (end of section 5), and the branches that read them are as unreachable as
in the code.

**KnowledgeQueue** has one action per statement on `ai_parse_task`. A worker keeps
the claim that `ClaimTask` returned, with the retry count it read, and presents it
however late; `Fenced` is what every consumer statement asks of the row. A
producer inside a larger transaction becomes visible at its COMMIT, after the
named lock is released (`StageEnqueue`, `CommitStaged`, `DropStaged`), so two tasks
of one key can wait together, as in the code.

**KnowledgeBase** adds the user, who uploads, removes and describes files, and the
workers. `work[w].pc` is the next call a worker makes to the store; between two
calls are downloads, embeddings and LLM answers, and other processes move.
Processing a source is `load`, `begin`, `embed`/`put` per chunk, `publish` or
`abort`; removing one is `delete`; `compile_wiki` and `repair_wiki` are `open`,
`generate` or `repair`, `patch` and `cite`. The LLM's answer is any patch that
`ParseAndValidateWikiPatch` lets through, of at most one page, with citations of
any evidence it was shown. `Answer` loses the answer to a COMMIT, `Stall` lets a
lease run out over a worker that goes on, `Crash` ends its process.

A method of the store is one transaction, hence one step, with two exceptions.

- *The patch.* `PublishWikiPatch` reads its citations with a plain SELECT
  (knowledge store 1013-1016), so a delete may be committed between that look and
  the COMMIT. `CheckCitations` is the transaction up to the look, the action
  `PublishWikiPatch` the rest. In between the worker is at `cite`: it holds the
  row of its page (upsert and FOR UPDATE, 979-986) and, when it compiles, that of
  the relation (942). So the file that is compiled cannot be removed, a second
  patch of the page waits, and a delete whose update of the pages (1093) meets the
  page waits or is a deadlock's victim (`Waits`, `Contended`); a delete that
  cites no locked page is not held up. `overtaken` remembers what was deleted
  while somebody was at `cite` with it.
- *A connection that is lost.* `Exec` and `Query` connect again without a word
  (71-95). `Lose` rolls back what a transaction has done and leaves the worker
  `torn` at any of its statements; `RunEvidence` and `RunPatch` run that one and
  those after it, each committed by itself, with everybody else's steps between
  them, and `EndEvidence` and `EndPatch` are the last look at the lease and the
  empty COMMIT. The statements of each transaction are listed in `Statements`.
  `LoseRead` is the compiler that reads on without its share lock. `torn`
  remembers the sources and pages of such transactions.

**KnowledgeSearch** adds the index row, the snapshot files and the searches. A
transaction of a knowledge worker that changes what can be found is the same
step with `MarkIndexDirty` (`Work`); one that was torn marks it with a statement of its
own, or has lost that (`TornWork`). A snapshot is the set of what it finds, in a file
named by generation and lease epoch; `LoadIndexState` and `LoadCachedIndex` are the
two reads of a search. The deployment starts one index worker
(`docs/ai/architecture-workflows.md` 37); the run has two, as the lease is there
for a second.

**LegacyTables** is what the legacy programs share. `docker/fastcgi_app/start.sh`
starts one process of each, eight of `chunk_upload`, so a program serves one
request (`req[c]`) and every SQL statement and Redis command is a step of its own;
`req[c].read` is what the last query returned, to be written back later. Rows found
by a unique key are sets with at most one element. `Fault` is a statement that
fails, `Stops` a process that dies. **LegacyShares**, **LegacyUploads**, **LegacyChunks**
and **SharedPictures** are the handlers, with action names made of the handler and
the statement (`DelExists`, `DelUnrank`, `BindCount`, `MergeVerify`). `Exists` is
`rop_zset_exit`, which asks ZLEXCOUNT: Redis defines its answer only for members
of equal scores, and otherwise a member may be missed or counted with others,
which the handlers take for an error. A picture link gets a url of its own or that
of another link of the file (`Urls`). **LegacyCgi** composes them with `V2Commit` and `V2Delete`, the V2
transactions as far as they touch the file and share tables, and keeps four
history variables for its properties: `serial` (no request overlapped, failed or
was refused half way), `rebuilt` (the ranking was rebuilt undisturbed), `kept`
(the DELETE of a cancelled picture failed unnoticed), `twinned` (a user has had two
links of one url).

Abstractions, all of them in the module comments as well:

- Time is what guards compare. A lease is live until `LeaseExpires`. Deadlines
  that only enable a scan (`expires_at`, `gc_after`, `next_retry_at`,
  `updated_at` of a DELETING row) are the worker's free choice of rows, which
  allows every timing and more; the retries of the knowledge queue become due by
  `RetryDue`.
- A chunk of the store is its unique key (sha256, size); a content is a digest and
  a layout of chunks. Two contents may declare one digest with different layouts,
  as MD5 collisions or a lying client may.
- Chunks of evidence are counted, and a citation names a generation.
- Only the current revision of a page is kept; nothing reads an older one.
- A download is what `ReadBack` gives at one moment. The code reads the ids at one
  moment and then blob after blob; as a blob that was stored only ever becomes
  "gone", what it reads later is what it would have read then, or nothing. That
  it is not nothing rests on the hour of `gc_after`, and durations are not modelled.
- The breaker's intervals are open or over, and may be over at any time; the
  smoothed round-trip time is over its limit or not, and a slow success may
  raise it, a quick one lower it.
- A legacy file is a digest with one name, as the public ranking keys files by
  both.
- `lease_epoch`, generations, revisions, dirty generations and task rows are
  bounded by `Max...` constants, in the guards of the updates that raise them. The
  columns are 64 bits wide.

## 3. Properties and runs

`TypeOK`, `StoreTypeOK` and `BreakerTypeOK` are the type invariants, all of them
proved. The others:

| Property | Says | Checked in |
|---|---|---|
| `RefCountExact` | `ref_count` is the number of `manifest_chunk` rows on the chunk | `sessions`, proved |
| `ReferencedReady` | a chunk a manifest refers to is READY, with a blob and without an owner | `sessions`, proved |
| `DeletingIsUnwanted` | GC never holds a chunk that is referenced or bound by an active session | `lease`, proved |
| `ActivePartsBound` | an active session keeps every declared part, bound to an existing chunk | `lease`, proved |
| `GcScheduled` | a row waiting for GC can be found by it; owner and lease exist exactly while UPLOADING | `lease`, proved |
| `EpochFences` | epochs never fall, and a change of owner raises them | `lease`, proved |
| `UserCountExact` | the user's counter is the number of files the user owns | `lease`, proved |
| `FileCountExact` | `file_info.count` is the number of relations, and the row is there exactly as long as there is one | `sessions`, proved |
| `ImplementsCatalog` | refinement: bytes of an owned digest have no gap, never change and go with the last relation; nobody gains a digest by naming it | `sessions`, proved |
| `ReadyBlobIntact` | a READY row's blob is stored and has the declared bytes | `gateway`; violated in `revived`; proved while GC does not fail |
| `OneWriter` | two requests that both own a chunk are finishing the same blob | `gateway`, proved |
| `DownloadsAsDeclared` | the refinement again, end to end, on the bytes the blobs really hold | `gateway`, proved while GC does not fail |
| `DeletesOnlyGarbage` | no physical delete takes a blob that a READY row names or an owning request is about to publish | `gateway`, `gc`, proved |
| `NoWrongBytes` | whatever fails, GC included, each part of a file is stored as declared or cannot be read at all | `gc`, proved |
| `GarbageCollected` | a row that waits for GC is removed, or taken up again | `gc` |
| `TwoWinsClose` | a half-open breaker closes only after two successful puts in a row | `probes`, proved |
| `ProbeTakenByTimeOnly` | no worker deletes or replaces the probe key of another, even one it held before | `probes`, proved |
| `Settles` | when the blob store is well for good and probes are reported, all breakers close for good | `probes` |
| `RetryBudget` | a task is tried `MaxRetry + 1` times and no more, whether tries end by a report, by a lease, or by both | `knowledge`, proved |
| `OneGeneration` | a source has at most one published generation, unless a transaction of its own was torn by a lost connection | `knowledge`, proved |
| `ReadyComplete` | a document that reads READY has all chunks of its published generation; and their vectors, unless a parse of the file has not ended in success; but for sources with a torn transaction | `knowledge`, proved |
| `PublishedKept` | published evidence stays until a newer generation takes its place or the file is gone; but for sources with a torn transaction | `knowledge`, proved |
| `DeletedNotCited` | a page cites deleted evidence as live only where the delete was committed between the patch's look at its citations and its commit, or a transaction was torn | `knowledge`, proved |
| `TasksEnd` | a queued task ends | `search` |
| `IndexSettles` | a dirty index is rebuilt | `search` |
| `IndexCovers` | an index that is up to date finds every chunk of a file that was never removed and had no transaction torn | `search`, proved |
| `SearchAvailable` | a search never finds the file it was pointed to missing | `search`, proved |
| `IndexForward` | a snapshot never changes once written, and the pointer never goes back | `search`, proved |
| `OneShare` | a file has at most one public share, while no statement fails | `legacy`, proved |
| `SerialCounts` | requests served one after the other leave all counters exact, as long as no user has had two links of one url | `legacy`, proved |
| `BlobBehindInfo` | the blob a `file_info` row names is stored, whole | `legacy`, proved |
| `RankingExact` | an undisturbed rebuild leaves Redis with MySQL's shares and views | `legacy`, proved |
| `LockReleased` | however `chunk_merge` answers, it gives its lock back | `legacy`, proved |
| `BlobTracked`, `UsableWithoutRedis`, `ResumableList` | what documents, comments and tests promise, see section 5 | violated |

Runs and their bounds:

| Run | Instance | Why it is enough |
|---|---|---|
| `lease` | 1 chunk, 3 sessions, one of which uses it twice, epochs to 2, a legacy relation that session repeats | takeover, retake and a late call of each owner; an ignored insert by commit and by instant hit |
| `sessions` | two cases: 3 sessions of 2 users with 2 names on one digest; or 2 sessions of 2 users whose objects `<<c1,c2>>` and `<<c1,c1>>` share a chunk; epochs to 1 | new commit, known digest and instant hit in every order with deletes; a shared, an own and a repeated chunk |
| `gateway` | 2 requests, 2 blobs, 1 chunk, 1 gateway fault | a lease lost at each step; symmetric in requests and blobs |
| `gc` | 1 request at a time, 2 blobs, two contents over the chunk, a fault of each process | liveness, so no symmetry |
| `probes` | 2 workers, window 4 with at least 3 samples, puts that succeed or fail late, the default rates, requests other than probes may end early | one failure opens, and stays in the window after the recovery it takes to close; a stale token of each worker and a recovery of the other |
| `knowledge` | 2 workers, 4 task rows, 1 retry, 2 pages, a file of 1 and a file of 2 chunks; seven starts: a first upload with one fault; one whose worker stalls over a commit that went unanswered (2 faults, the file of 1 chunk); a first upload that is removed or asked for again while it is parsed; one file uploaded, removed and uploaded again, and never asked for; a page over two files that are edited once each; two pages over two files of which one changes, with one fault and one lost connection; a page written for one file from what another page cites of the other, both edited once | overlapping parses need two workers and two chunks; the delete of another's evidence needs two files on one page; the delete that overtakes a patch needs a page that cites a file its task is not about; a torn transaction lasts one connection, and tears at each of its statements |
| `search` | 1 knowledge worker, 2 index workers, 1 search, 1 file that is new (with a fault) or old | an older build that is late needs a second builder and two changes |
| `legacy` | 2 users, 2 files, 2 parts, 21 workloads of 2 to 5 requests, 1 fault | each workload is a meeting of handlers that write the same rows; two processes of a kind only where several run |
| `mute` | 1 worker, probes may end early | counterexample for section 5 |
| `revived`, `orphan`, `resume` | at most one fault | counterexamples for section 5 |

Largest are `knowledge` (2.3 million distinct states, depth 64), `gateway`
(585 thousand), `legacy` (465 thousand) and `gc` (411 thousand).

Symmetry is used where the property does not name an element of the set.
Deadlock is checked in the runs of the store and of the breaker, which never
stop. In `knowledge`, `search`, `legacy` and `resume` the edits or requests are
finite: when they are used up and all work is done, the system rests. That it
does not rest too early is what `TasksEnd` and `IndexSettles` say.

With the default rates a window of four is over its limit with one
failure; the real one, of 16, with four. What matters is the same: failures
that a recovery leaves behind are still over the limit. Slow successes and the
round-trip limit they may raise are covered by the proofs, not by the run.

**Fairness** of `gc`: a request that was begun goes on, as nothing in the
handler waits for another process; the GC loop goes on, as it is restarted when
it dies; and a chunk that is eligible again and again is in some batch (strong
fairness of `ClaimBatch` for it), which `ORDER BY c.id LIMIT 32`, the back-off of
rows that failed and passing time justify while the eligible backlog is
finite. No client call is assumed to happen. **Fairness** of `probes` and
`mute`: parts keep coming to every worker (a client retries what was refused
with `Retry-After`), a request that was begun goes on, and intervals and keys
end. The blob store, Redis and the pool are not assumed to do anything.
**Fairness** of `search`: knowledge and index workers are started again when
they end (`start.sh`) and loop; leases and back-offs run out; a transaction that
was opened ends. No edit, search or fault is assumed.

## 4. Proofs

Every theorem is about **every** value of the constants: any number of users,
sessions, chunks, blobs, workers, sources, pages, searches, any layouts with
shared and repeated chunks, any bounds. Every assumption is a named `ASSUME` of
the module that declares the constants: `StoreAssumption`, `BlobAssumption` (a
chunk key is none of the marks a blob may have), `GatewayAssumption` and
`GcAssumption` (the fault bounds are numbers), `BreakerAssumption` (the ranges
the code enforces on its settings), `QueueAssumption`, `BaseAssumption` (one key
per source and kind of task, every source has a chunk, how runs may start),
`IndexAssumption`, `LegacyAssumption` (at least one part) and `CgiAssumption`: of
the legacy programs only `chunk_upload` runs as several processes; a request's
number, which stands for the file id FastDFS gives it, is its own; a client numbers
parts within the file (`chunk_upload` takes any index, and no merge reads one beyond
the count); and the library a behaviour starts with has its relations, at most one
share for each file, and links with ids of their own, whose urls may be each
other's but are not the fresh url of a link yet to be made.

### The store

`MetadataStore_proofs`, of `Spec` (anybody calls anything with any argument):

- `TypeCorrect`: `[]TypeOK`;
- `RefCountsExact`, `ReferencesSafe`: `[]RefCountExact`, `[]ReferencedReady`;
- `GcFindsItsRows`: `[]GcScheduled`; `EpochsFence`: `EpochFences`;
- `GcLeavesWanted`, `PartsStayBound`: `[]DeletingIsUnwanted`,
  `[]ActivePartsBound`.

`RefCountExact` and `ReferencedReady` need each other. `RefInv` adds `TypeOK`,
`ManifestSources` (a manifest was made from a declared content, so its
occurrences can be counted) and `RowsOK` (an UPLOADING row has an owner and a
lease, a READY row a blob and no owner, a row for GC its `gc_after`, which is
`GcScheduled`). Steps that make or drop no manifest leave all references as they
are (`ManifestSteps`, `ReferencesFrame`), so it is enough that they keep every
referenced row (`RowsKept`): each of their updates is guarded by `ref_count=0`
or `state='UPLOADING'`. A commit of a new digest adds the occurrences of its
layout to each chunk; dropping a manifest takes the same number away, and sends
a chunk to GC exactly when none is left.

`SessionInv` is `RefInv` with `FreshRows` (a missing row starts with epoch 0),
`ActivePartsBound` and `DeletingIsUnwanted`. The last two need each other as
well: GC claims only rows no active session has bound, an init binds only rows
GC does not hold, and a row GC removes was held by it, so it unbinds nobody who
is active. `RowStands` and `EpochMoves` say for one row what a step that is not
GC's may do.

`ObjectCatalog_proofs`:

- `FileCountsExact`, `UserCountsExact`: `[]FileCountExact`, `[]UserCountExact`;
- `StoreImplementsCatalog`: `Spec => ImplementsCatalog`, the refinement.

`CountInv` is `RefInv` with the two counts and a finite relation; a count is a
cardinality, so each step is a set that gains or loses one element. For the
refinement, `ReadsWhole`: with every referenced chunk READY, what a file reads
back as depends on its `file_info` row alone. Then each step is a catalog step
(`CatalogStep`) or leaves files and relations alone.

`ObjectStore_proofs`, of `StoreSpec` (requests step by step, GC, clients,
faults):

- `StoreTypeCorrect`: `[]StoreTypeOK`;
- `StoreRespectsMetadata`: `StoreSpec => Spec`, by which every theorem above
  holds of the whole store;
- `WritersAgree`: `[]OneWriter`; `DeletesAreSafe`: `DeletesOnlyGarbage`;
- `ReadyIsStored`: `[](gcFaults = 0 => ReadyBlobIntact)`;
- `DownloadsKeepBytes`: `StoreSpec /\ [](gcFaults = 0) => DownloadsAsDeclared`;
- `WrongBytesNever`: `[]NoWrongBytes`.

`gcFaults` counts the faults of the GC worker so far. Without the condition
`ReadyBlobIntact` and `DownloadsAsDeclared` are false, which is run `revived`; the
other theorems and all of the metadata's need none. `WrongBytesNever` says what is
left when GC fails: a file may have lost a part, but no part has bytes that were
not declared. `StoreInv` has, beside `SessionInv`:

- `Fenced`: while a request's part is bound, the row is never behind the epoch
  the request was granted, so an owner of the row with its epoch is *the* owner;
- `OwnersOK`: an owner whose row names no blob is alone with the row, one whose
  row names a blob works on that blob; this is `OneWriter` and more;
- `OneHome`, `NamedStored`: a file id is known for one chunk, and only after it
  was stored; `PrivateBlobs`, `WorkerBlobs`: nobody else knows a blob that is
  not reported yet, and its bytes are the chunk's unless they are on their way
  to be rejected. This is what makes the gateway's own deletes safe;
- `BatchHeld`: the rows of GC's batch are DELETING and still name the batch's
  blobs; `RowBlobs`: a row's blob is stored with the chunk's bytes, or gone, and
  without a fault of GC gone only between its physical delete and the removal of
  its row.

### The breaker

`CircuitBreaker_proofs`, for any number of workers, any window of at least two
samples and any rates: `BreakerTypeCorrect` (`[]BreakerTypeOK`),
`ClosesAfterTwoWins` (`TwoWinsClose`) and `ProbesKept` (`ProbeTakenByTimeOnly`).

`IInv`: a request that passed the first guard of `Allow` meets no open breaker,
since only its own `Record` opens it; and while a win is remembered, the last
sample of the window is the put that won it (`RowOK`). `ProbeStep`: the commands
a worker sends compare the probe key with its own token before they touch it.

### The knowledge base

`KnowledgeQueue_proofs`, of `QueueSpec` (any caller, any operation, any time):
`QueueTypeCorrect` (`[]QTypeOK`), `RetriesBounded` (`[]RetryBudget`) and
`EndedStays` (a task that has ended is not touched again).

A worker that fails a task writes the retry count it read at the claim plus one,
so `RetryBudget` needs `Linked`: while a claim is still good (its owner and
epoch are the row's), the row has the retry count the claim was made from. Each
claim takes a new epoch, and whatever settles or recovers the row gives up its
owner.

`KnowledgeBase_proofs`, of the workers over the queue:

- `BaseImplementsQueue`: `Spec => ImplementsQueue`, by `BaseDrivesQueue`, one
  case per action; so `BaseRetriesBounded`: `[]RetryBudget`;
- `BaseTypeCorrect`: `[]TypeOK`; `EvidenceConsistent`: `[]OneGeneration`;
  `DeletedStaysUncited`: `[]DeletedNotCited`;
- `EvidenceStays`: `PublishedKept`; `ReadyIsComplete`: `[]ReadyComplete`.

`BInv` is about workers that have lost their lease. The epoch fences the
publication, but a chunk is staged, and a failed parse cleaned up, without a
look at the lease. Three facts make that harmless. `Owned`: a worker that builds
a generation was given it, and nobody else parses into it, since the row counts
generations under a lock. `Fresh`: what a worker still parses into was never
published. `Untouched`: a generation nobody was given has no evidence. So a late
chunk never lands in what readers see, and publication moves forward only.

Connections may be lost in any of these proofs, and each statement of what they
tear is a case of its own. All that is taken out is the source itself: `Owned`,
`Fresh` and `Untouched` are about sources that are not in `torn`, and what a torn
transaction still runs touches no other source (`Torn`, `TearKeeps`). The page is
the other thing a transaction of one source may spoil for another, hence `torn`
has pages too. `Citing` is about the window in a patch: a worker between its look
and its commit has citations that are kept, were deleted since (`overtaken`), or
belong to a torn source; a delete that runs meanwhile is seen by `Watch`.

None of the exceptions in these properties is idle: without it, TLC violates the
property in the instance of run `knowledge`. `OneGeneration` and `PublishedKept`
fail 9 states into a second parse whose publication is torn, `ReadyComplete` and
`DeletedNotCited` after a torn delete, and `DeletedNotCited` after 17 states, with
no fault at all, where a delete overtakes a patch. Section 5 tells the traces.

`RInv` adds what a document that reads READY needs. `OnTask`: a worker makes the
calls of the task it claimed. `Unanswered`: who may still withdraw the vectors
of the published generation (a COMMIT that went unanswered) has an `Open` task,
one that is no success and that nobody with a good claim is about to make one.
Only `Finish` makes a success (`SuccessByFinish`), and under a good claim, so an
open task stays open until a worker publishes for it (`OpenStays`).
`StagedWhole`: staged evidence has its vectors. The publication itself compares
the rows with the number of chunks.

`KnowledgeSearch_proofs`, of `SearchSpec`: `SearchesFindIndex`
(`[]SearchAvailable`), `IndexIsComplete` (`[]IndexCovers`) and
`IndexGoesForward` (`IndexForward`).

`SearchInv` is `BInv` with: `FilesOwned` (each build has an epoch, hence a file,
of its own, not there before it is built), `IndexOrder` (the published
generation is not ahead of the dirty one, and whoever has the current lease
builds a newer one), `FilesThere` (what is published, or was read by a search
that has yet to open it, is a file), `Covered` (what was loaded for the dirty
generation covers all there is as long as nothing marks the index dirty again)
and `Held` (evidence is published for files that are there, or were removed
once). The last two leave out torn sources, whose evidence may be published
without the mark.

### The legacy programs

`LegacyCgi_proofs`, of `Spec` (any requests, each handler statement by
statement, a fault or a crash anywhere, V2 commits and deletes between):

- `RowsAreWellFormed`: `[]TypeOK`; `BlobsBehindRows`: `[]BlobBehindInfo`;
- `SharedOnce`: `[]OneShare`; `MergeGivesBack`: `[]LockReleased`;
- `RebuiltIsExact`: `[]RankingExact`; `CountersExact`: `[]SerialCounts`.

A handler is a path of statements, and what it does next depends on what it
read. `Handled` says of a request that is served which rows it holds at which
statement (`WellRead`): a value written back later is one that was read. Each
handler has a lemma for its requests (`Follows`), one for the tables, one for
the blobs and rows it may touch (`Effect`) and one for the shares. With them
`IInv` is kept by every step; its parts beside the types are:

- `NumbersOK`: the number of a request that is to arrive, or is on its way to
  its row, is named by no `file_info` row and by no delete that has read one;
  what it has stored so far is exactly what its statement says (`Uploading`):
  nothing, the first `k` parts, or the whole;
- `BlobsOK`: `BlobBehindInfo`, and a delete that is about to remove blobs has
  read ids that the row of its file names no more. The second is why a delete
  that is late is harmless: a blob is named by the row of its upload only, a
  row that is gone never comes back with an old id, and a failed DELETE of a
  cancelled picture is the exception (`kept`);
- `OneOK`: no two shares of a file, and when `share_file` is about to mark or
  insert, MySQL had no share of the file and still has none, because the one
  `dealfile` process alone inserts shares. Redis may answer as it likes;
- `LocksOK`: a lock that is set is that of the file `chunk_merge` serves, and
  the path of the request leads to the release (`after`).

`OneOK` and `LocksOK` are claimed while no fault has happened, as a lookup that
fails is taken for a file nobody shares, and a process that dies keeps its lock
until it expires. Nothing here bounds faults, users or requests.

Two theorems are about what many statements add up to, and each has an invariant
of its own beside `IInv`:

- `RankOK`: how far a rebuild of the ranking is. Between two statements, Redis has
  exactly the shares of the files whose rows are no longer to be copied, and the
  names of those files but one at most. Any other step takes the history variable
  `rebuilt` back, so nothing must be said of it.
- `CountsOK`: while requests do not overlap and no user has had two links of one
  url (`Orderly`), each counter is the number of rows it
  stands for but for what the one request that is served still owes it. `InfoDue`,
  `OwnedDue` and `PictureDue` give that for every statement of every handler: an
  upload that has counted the file up owes it a relation (1), one whose
  relation is in the table has yet to count its user's files up (-1), and so on.
  `Knows` says what the request has learned and may rely on, as nobody else moves:
  the rows it read are still there, no owner or link is left when it deletes the
  row. A statement moves a debt from one statement to the next (`Shift` says by how
  much a step changes the numbers of owners, files and links), and a request that
  ends owes nothing: the `...Books` lemmas, one for each statement that owes or
  repays, and `Calm` for all the others. The gateway's transactions come between
  two requests and balance in one step. The initial library balances by
  construction, which for a user's files needs that pairs and files are equally
  many (`FilesOfPairs`).

### What the proofs changed

Two properties had held in their runs only because of the bounds, and their
proofs would not close; TLC found the counterexamples with larger ones.
`ReadyComplete` had claimed the vectors whenever the task was over; a second
worker may end the task while the first, whose COMMIT went unanswered, has yet
to withdraw them. `IndexCovers` had claimed every file; one removed and uploaded
again at the wrong moment is missed. Both are now stated for what the code
gives, the `knowledge` run has a start that reaches the first, and section 5
describes both.

### Model-checked only

- Liveness, as fairness and ENABLED are beyond the prover: `GarbageCollected`,
  `Settles`, `TasksEnd`, `IndexSettles`. Every invariant and every action
  property of the passing runs is proved, and so are both refinements.
- The four violated properties, which have counterexamples.

## 5. Where the code and its documents disagree

Each is a `violation` run: TLC's counterexample is a behaviour of the code.

1. **`revived`.** A physical delete is reported to have failed although the blob
   is gone. `FinishGc` queues the row again as GC_PENDING with its id (store
   851-853), a part request claims it, is handed the recorded id and publishes it
   without a new put. The fallback that queues the row when its removal fails
   after a good delete (857-859) opens the same way. The comment at store 466-467
   excludes exactly that. A GC worker that dies after the delete is a lesser
   danger: its row is claimed again in the transaction that finds it stale
   (815-836), and is open to an upload only behind a backlog of more than 32.
2. **`orphan`.** A lease expires while the blob is being stored and another
   session takes over. The first writer's record and failure report are both
   refused and the handler deletes nothing (gateway 558-563). The design
   document (`docs/hydrastore-v2-design.md` 50-53) has such blobs repaired.
   No fault is needed.
3. **`mute`.** A request that was admitted as a half-open probe ends without
   `Record` when its claim is denied or it finalizes a recorded blob (gateway
   494-526). The breaker then waits for that report for ever and the worker
   refuses every part until the pool is restarted. The test's comment
   (`test/storage_resilience_test.cpp` 14) wants the local breaker to stay usable.
   `Settles` shows that this is all that is missing: where puts are reported,
   every breaker closes in the end.
4. **`resume`.** A merge removes each part as soon as it is appended
   (`src_cgi/chunk_merge_cgi.c` 350, 375). When a later append fails, or the merge
   dies, the list in Redis still names them, the client skips them, and every merge answers "chunks
   incomplete" until the key expires; `chunked_upload.md` 5 promises that an
   interrupted upload goes on from the finished parts.

The `gateway` run excludes faults of the GC worker because of the first.

Seen while modelling, without a run:

- Taking over at init raises the epoch, which the guard against a second put
  (store 542-546) takes for a put in flight: the status says "uploadable", the
  claim is denied until the lease expires. A claim whose answer was lost is denied
  in the same way.
- A part request of a committed session that arrives after the object was deleted
  publishes an unreferenced READY chunk that no recovery scan of the design
  document (61-62) finds.
- The script that publishes an open breaker compares a number with a string, which
  is an error in Redis' Lua 5.1, and the error reply is not read
  (`common/storage_resilience.cpp` 184-193). No key is ever set, so there is no
  breaker across gateways as README.md 82 and 222 have it. No Redis server was run.
- `Exec` and `Query` of the knowledge store reconnect inside a transaction
  (71-95): what was done is rolled back and the rest is committed statement by
  statement. When the connection drops behind the statement that supersedes the
  old evidence (458), two generations are published; when it drops before the old
  one is superseded and the process then fails, the file has none that is
  searched; when it drops behind 459, READY stands alone; before COMMIT, nothing
  is published and the task is done all the same. A delete that is torn leaves
  citations of deleted chunks live. `docs/ai/architecture.md` 50-51 has one
  generation published atomically. All of it is modelled (`Lose`, `RunEvidence`,
  `RunPatch`); the properties hold of every source and page whose own
  transactions were not torn.
- The look at the citations in `PublishWikiPatch` (1013-1016) locks nothing. A
  patch for one file may cite another, `DeleteSourceKnowledge` of which commits
  between the look and the patch's COMMIT: it does not see the new citation, and
  the page is left with an ACTIVE citation of a DELETED chunk that no repair task
  is about. `docs/ai/architecture.md` 59-61 has citations checked against
  published chunks. Modelled (`CheckCitations`, `overtaken`): `DeletedNotCited`
  holds of everything else, among it evidence that is deleted while the LLM
  answers. Readers ask again whether a cited chunk is published (141-165), so
  such a page is not shown.
- The named lock of `enqueue_knowledge_task` is released before the caller commits
  (`common/knowledge_task.c` 24-60), so it does not exclude a second row of a key.
  The model has both rows; workers fence what follows.
- A parse whose COMMIT went through but whose answer was lost runs its clean-up
  over the generation it published: the vectors are withdrawn, the rows stay, and
  the evidence is not searched until the task is tried again. If the lease runs
  out meanwhile, another worker may take the task first, find the document READY
  and skip it, or give it up, before the vectors go: the document then stays READY
  without them. `ReadyComplete` says what remains: some parse task of the file
  has not ended in success.
- A parse that has published and not yet ended counts as a duplicate
  (`common/knowledge_task.c` 44). When the file is removed and uploaded again just
  then, no task is added, the chunks are visible again, and an index built between
  the removal and the return does without them until something else marks it
  dirty. `IndexCovers` leaves out files that were removed once.
- Legacy handlers: a lookup that fails is taken for a file that is not shared
  (`dealfile_cgi.c` 265-280) or for a user who does not have it (`md5_cgi.c` 168);
  cancelling twice counts the public total down twice; `del` takes the total down
  for a file shared by somebody else; a V2 delete leaves the ranking's member; a
  part that arrives after the merge makes a hash without a time to live;
  `cancel_share_picture` does not check its DELETE of `file_info`
  (`sharepicture_cgi.c` 647); `file_info.count` is read and written back as a
  number (`dealsharefile_cgi.c` 421), so overlapping handlers lose updates; and
  `rop_zset_exit` asks ZLEXCOUNT of a set whose scores differ.
- The url of a picture link is the digest of the file, the second and four numbers
  of a generator that is seeded with that second (`sharepicture_cgi.c` 721-737,
  whose comment calls it unique), and no key of the table refuses a second one
  (`docker/mysql/init.sql` 50-60). Two links of a file made within a second have
  one url: a view counts for both, and when they are one user's, cancelling
  deletes both rows (636) and counts the file down once, so that its last owner's
  delete leaves the row and the blob. Modelled (`Urls`, workload `Twinned`):
  `SerialCounts` holds until a user has two links of one url (`twinned`), and
  fails after 20 states without that condition.

## 6. Limits

- `FileCountExact`, `UserCountExact` and `ImplementsCatalog` are about the V2
  writers alone. `LegacyCgi` has V2 commit and delete beside the legacy programs,
  but not the manifest and chunk rows.
- `SerialCounts` speaks of requests that do not overlap, do not fail and are not
  refused half way (a picture of a file that is gone is refused after its row was
  inserted, `HalfShared`), and `OneShare` of statements that do not fail: the code
  gives no more.
- MySQL's transactions are taken to be serializable as used here: each method
  reads the rows it decides on with `FOR UPDATE` or in the guard of an update.
  The citations of a patch are the exception, and modelled as such.
- Connections are lost in the middle of the transactions of evidence, patches,
  deletes and source reads. The other transactions keep theirs. For the claim of
  a task this leaves nothing out, as its UPDATE asks for `pending` again (199), and
  the publication of an index is one statement (559-563). The claim of an index
  build does not ask again whether the build is free (555): on a connection lost
  just before that UPDATE it may take over a build claimed since its SELECT, under
  the same epoch, and two workers then write one index directory. The properties of
  the index are about claims without this fault. The checks of a torn transaction are taken
  together, before the connection is lost; the statements on a revision and its
  claims are one (`"revision"`). When the statement that takes a new generation's
  number (388) is torn, two workers may hold one number, and what they stage
  under it is only counted roughly; such a source is in `torn`.
- A wiki patch writes one page at most, and links between pages are left out.
  The prompt's limits on the evidence shown are left out too: any of it may be cited.
- A parse task that finds no API key gives up like any other that does (`giveup`).
  A wiki task without one is not tried again (`knowledge_worker.cpp` 303); the
  model's may be, so `RetryBudget` is shown for more tries than the code makes.
- A link made after another of the same second was cancelled may get its url; the
  model repeats the urls of links that are there.
- `StoreBlob` of the legacy upload fails or stores. A child process whose `execlp`
  fails goes on in the parent's code (`upload_cgi.c` 742-765, 809-855) and would
  insert a row without a file id if the second client program could not be
  started either; an installation without the FastDFS client is left out.
- Snapshot files are never deleted, as nothing in the code deletes them.
- A failed download, authentication, parsing and formats are left out.

## 7. Plan

What remains, in this order:

1. A download that reads blob after blob, with a clock for `gc_after`.
2. Wiki patches of several pages and their links.
3. Lost connections in the claims of tasks and index builds.

## 8. Running

```
tlc -config MCMetadataStore_sessions.cfg MCMetadataStore.tla
tlc -config MCObjectStore_gateway.cfg MCObjectStore.tla
tlc -config MCCircuitBreaker_probes.cfg MCCircuitBreaker.tla
tlc -config MCKnowledge_knowledge.cfg MCKnowledge.tla
tlc -config MCKnowledgeSearch_search.cfg MCKnowledgeSearch.tla
tlc -config MCLegacy_legacy.cfg MCLegacy.tla
tlapm MetadataStore_proofs.tla
tlapm ObjectCatalog_proofs.tla
tlapm ObjectStore_proofs.tla
tlapm CircuitBreaker_proofs.tla
tlapm KnowledgeQueue_proofs.tla
tlapm KnowledgeBase_proofs.tla
tlapm KnowledgeSearch_proofs.tla
tlapm LegacyCgi_proofs.tla
```

`PROJECT.json` lists the runs, the source lines of every definition, the
hazards of the code with the properties that cover them, and for every
property a plausible bug that violates it.
