--------------------------- MODULE KnowledgeQueue ---------------------------
(***************************************************************************)
(* The knowledge task queue: the rows of ai_parse_task, the producer       *)
(* enqueue_knowledge_task of common/knowledge_task.c and the consumer      *)
(* operations ClaimTask .. RecoverExpiredTasks of knowledge_store.cpp.     *)
(*                                                                         *)
(* A worker keeps in memory the claim that ClaimTask returned (row id,     *)
(* lease epoch and the retry count it read) and presents it with every     *)
(* later call, however late that is; each consumer call is one statement,  *)
(* so it is one step here.  A producer inside a larger transaction makes   *)
(* its row visible only at COMMIT, after the named lock is released: that  *)
(* is StageEnqueue followed by CommitStaged or by DropStaged.              *)
(*                                                                         *)
(* A lease is live until LeaseExpires, and a retry is not due until        *)
(* RetryDue: the ten minutes and the 5/10/20 seconds of the code.  A row   *)
(* id is a number because ClaimTask takes the oldest row.                  *)
(***************************************************************************)
EXTENDS Integers, FiniteSets

CONSTANTS
    Workers,             \* worker ids, "knowledge:<pid>"
    Keys,                \* what a task is about: user, digest and task type
    MaxTasks, MaxEpoch,  \* bounds on the rows and on lease_epoch
    MaxRetry,            \* the retry budget, 3 in the code
    NoWorker, NoKey

ASSUME QueueAssumption ==
    /\ MaxTasks \in Nat
    /\ MaxEpoch \in Nat
    /\ MaxRetry \in Nat
    /\ NoWorker \notin Workers
    /\ NoKey \notin Keys

VARIABLES
    task,   \* ai_parse_task: the row of each id, "none" when not inserted
    staged, \* rows inserted by a transaction that has not committed yet
    claim   \* the claim each worker holds in memory

queue == <<task, staged, claim>>

TaskIds == 1..MaxTasks
Terminal == {"success", "skipped", "failed"}
Statuses == Terminal \cup {"none", "pending", "running"}

NoTask == [key |-> NoKey, status |-> "none", retry |-> 0,
           worker |-> NoWorker, epoch |-> 0, lease |-> "none", due |-> TRUE]
NoClaim == [id |-> 0, epoch |-> 0, retry |-> 0]

TaskRow == [key : Keys \cup {NoKey}, status : Statuses, retry : Nat,
            worker : Workers \cup {NoWorker}, epoch : Nat,
            lease : {"none", "live", "expired"}, due : BOOLEAN]
Claim == [id : 0..MaxTasks, epoch : Nat, retry : Nat]

QInit ==
    /\ task = [i \in TaskIds |-> NoTask]
    /\ staged = {}
    /\ claim = [w \in Workers |-> NoClaim]

----------------------------------------------------------------------------
(* Producers.                                                              *)

\* The COUNT of enqueue_knowledge_task: a row that waits, or one that runs
\* under a lease that has not expired.  Uncommitted rows are not seen.
Duplicate(k) ==
    \E i \in TaskIds :
        /\ task[i].key = k
        /\ \/ task[i].status = "pending"
           \/ task[i].status = "running" /\ task[i].lease = "live"

Inserted(k) == [NoTask EXCEPT !.key = k, !.status = "pending"]
FreeIds == {i \in TaskIds : task[i].status = "none"}
IsNext(i) == i \in FreeIds /\ \A j \in FreeIds : i <= j

\* The tables after rows of these keys are inserted in some order: the row of
\* a key that has a duplicate is not, and the call still succeeds.
Enqueue(k) ==
    /\ \/ Duplicate(k) /\ task' = task
       \/ ~Duplicate(k) /\ \E i \in TaskIds :
            IsNext(i) /\ task' = [task EXCEPT ![i] = Inserted(k)]
    /\ UNCHANGED <<staged, claim>>

StageEnqueue(k) ==
    /\ ~Duplicate(k)
    /\ k \notin staged
    /\ staged' = staged \cup {k}
    /\ UNCHANGED <<task, claim>>

CommitStaged(k) ==
    /\ k \in staged
    /\ staged' = staged \ {k}
    /\ \E i \in TaskIds :
           IsNext(i) /\ task' = [task EXCEPT ![i] = Inserted(k)]
    /\ UNCHANGED claim

DropStaged(k) ==
    /\ k \in staged
    /\ staged' = staged \ {k}
    /\ UNCHANGED <<task, claim>>

----------------------------------------------------------------------------
(* Consumers.                                                              *)

Claimable(i) == task[i].status = "pending" /\ task[i].due
Oldest(i) == Claimable(i) /\ \A j \in TaskIds : Claimable(j) => i <= j

ClaimedRow(row, w) ==
    [row EXCEPT !.status = "running", !.worker = w,
                !.epoch = row.epoch + 1, !.lease = "live"]

ClaimTask(w) ==
    /\ claim[w] = NoClaim
    /\ \E i \in TaskIds :
         /\ Oldest(i)
         /\ task[i].epoch < MaxEpoch
         /\ task' = [task EXCEPT ![i] = ClaimedRow(task[i], w)]
         /\ claim' = [claim EXCEPT ![w] =
                        [id |-> i, epoch |-> task[i].epoch + 1,
                         retry |-> task[i].retry]]
    /\ UNCHANGED staged

\* What every consumer statement, and VerifyTaskLeaseInTransaction, ask of
\* the row.  RenewTask asks it too and moves lease_until, which stays live.
Fenced(w) ==
    /\ claim[w].id \in TaskIds
    /\ LET row == task[claim[w].id]
       IN /\ row.status = "running"
          /\ row.worker = w
          /\ row.epoch = claim[w].epoch
          /\ row.lease = "live"

DoneRow(row, s) == [row EXCEPT !.status = s, !.lease = "none"]
WaitingRow(row, s, n, d) ==
    [row EXCEPT !.status = s, !.retry = n, !.worker = NoWorker,
                !.lease = "none", !.due = d]

\* A worker settles the task it holds: the row becomes this row if the claim
\* is still good and is left alone if not, and the worker moves on.
Settle(w, row) ==
    /\ claim[w] # NoClaim
    /\ IF Fenced(w) THEN task' = [task EXCEPT ![claim[w].id] = row]
                    ELSE task' = task
    /\ claim' = [claim EXCEPT ![w] = NoClaim]
    /\ UNCHANGED staged

FinishTask(w) == Settle(w, DoneRow(task[claim[w].id], "success"))
SkipTask(w) == Settle(w, DoneRow(task[claim[w].id], "skipped"))

\* A repair with more pages to do goes back to the queue without spending a
\* retry.
ContinueTask(w) ==
    Settle(w, WaitingRow(task[claim[w].id], "pending",
                         task[claim[w].id].retry, TRUE))

\* Mutant of FailTask: an off-by-one in the retry budget.
FailTaskOnceMore(w, retryable) ==
    LET next == claim[w].retry + 1
        again == retryable /\ claim[w].retry <= MaxRetry
    IN Settle(w, WaitingRow(task[claim[w].id],
                            IF again THEN "pending" ELSE "failed",
                            next, FALSE))

FailTask(w, retryable) ==
    LET next == claim[w].retry + 1
        again == retryable /\ next <= MaxRetry
    IN Settle(w, WaitingRow(task[claim[w].id],
                            IF again THEN "pending" ELSE "failed",
                            next, FALSE))

\* The worker's process ends, or its call to the server is lost.
Forget(w) ==
    /\ claim[w] # NoClaim
    /\ claim' = [claim EXCEPT ![w] = NoClaim]
    /\ UNCHANGED <<task, staged>>

\* The two statements of RecoverExpiredTasks, each over all rows.
Lapsed(i) == task[i].status = "running" /\ task[i].lease = "expired"

RequeueExpired ==
    /\ task' = [i \in TaskIds |->
                  IF Lapsed(i) /\ task[i].retry < MaxRetry
                  THEN WaitingRow(task[i], "pending", task[i].retry + 1, FALSE)
                  ELSE task[i]]
    /\ UNCHANGED <<staged, claim>>

\* Mutant of Exhausted: the second statement counts one retry more.
ExhaustedLater(i) == Lapsed(i) /\ task[i].retry > MaxRetry

Exhausted(i) == Lapsed(i) /\ task[i].retry >= MaxRetry
FailExhausted ==
    /\ task' = [i \in TaskIds |->
                  IF Exhausted(i)
                  THEN WaitingRow(task[i], "failed", task[i].retry + 1, FALSE)
                  ELSE task[i]]
    /\ UNCHANGED <<staged, claim>>

LeaseExpires(i) ==
    /\ task[i].status = "running"
    /\ task[i].lease = "live"
    /\ task' = [task EXCEPT ![i].lease = "expired"]
    /\ UNCHANGED <<staged, claim>>

RetryDue(i) ==
    /\ task[i].status = "pending"
    /\ ~task[i].due
    /\ task' = [task EXCEPT ![i].due = TRUE]
    /\ UNCHANGED <<staged, claim>>

QNext ==
    \/ \E k \in Keys :
         Enqueue(k) \/ StageEnqueue(k) \/ CommitStaged(k) \/ DropStaged(k)
    \/ \E w \in Workers :
         \/ ClaimTask(w) \/ FinishTask(w) \/ SkipTask(w) \/ ContinueTask(w)
         \/ Forget(w)
         \/ \E retryable \in BOOLEAN : FailTask(w, retryable)
    \/ RequeueExpired \/ FailExhausted
    \/ \E i \in TaskIds : LeaseExpires(i) \/ RetryDue(i)

QueueSpec == QInit /\ [][QNext]_queue

----------------------------------------------------------------------------
\* A task is tried MaxRetry + 1 times and no more, however its tries end: a
\* failure the worker reports from the count it read when it claimed, a lease
\* that ran out, or first one and then the other.
RetryBudget ==
    \A i \in TaskIds :
        /\ task[i].retry <= MaxRetry + 1
        /\ task[i].status \in {"pending", "running"} => task[i].retry <= MaxRetry
=============================================================================
