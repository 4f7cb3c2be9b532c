----------------------- MODULE KnowledgeQueue_proofs -----------------------
(***************************************************************************)
(* Theorems about the knowledge task queue for any workers, keys and       *)
(* bounds: its rows stay well formed, a task is tried within its budget,   *)
(* and a task that has ended stays as it is.                               *)
(***************************************************************************)
EXTENDS KnowledgeQueue, TLAPS

QTypeOK ==
    /\ task \in [TaskIds -> TaskRow]
    /\ staged \subseteq Keys
    /\ claim \in [Workers -> Claim]

\* A claim that is still good was made from the retry count the row has: a row
\* is settled or recovered only by giving up the claim on it.
Linked ==
    \A w \in Workers :
        Fenced(w) => claim[w].retry = task[claim[w].id].retry

\* A row that was inserted is about a key.
Keyed == \A i \in TaskIds : task[i].status # "none" => task[i].key \in Keys

\* A claim is on a row that was inserted.
Inserts == \A w \in Workers :
    claim[w].id \in TaskIds => task[claim[w].id].status # "none"

QInv == QTypeOK /\ Linked /\ Keyed /\ Inserts /\ RetryBudget

\* What one row may become in a step other than a claim: what it was, inserted,
\* settled or recovered without going over the budget, out of its lease, due.
RowStep(i) ==
    \/ task'[i] = task[i]
    \/ /\ task[i].status = "none"
       /\ \E k \in Keys : task'[i] = Inserted(k)
    \/ /\ task[i].status = "running"
       /\ \E s \in {"success", "skipped"} : task'[i] = DoneRow(task[i], s)
    \/ /\ task[i].status = "running"
       /\ \E n \in Nat, s \in {"pending", "failed"}, d \in BOOLEAN :
            /\ task'[i] = WaitingRow(task[i], s, n, d)
            /\ n <= MaxRetry + 1
            /\ s = "pending" => n <= MaxRetry
    \/ /\ task[i].status = "running"
       /\ task'[i] = [task[i] EXCEPT !.lease = "expired"]
    \/ /\ task[i].status = "pending"
       /\ task'[i] = [task[i] EXCEPT !.due = TRUE]

----------------------------------------------------------------------------
(* What the row operators return.                                          *)

LEMMA InsertedRow ==
    ASSUME NEW k \in Keys
    PROVE  /\ Inserted(k) \in TaskRow
           /\ Inserted(k).status = "pending"
           /\ Inserted(k).key = k
           /\ Inserted(k).retry = 0
  BY DEF Inserted, NoTask, TaskRow, Statuses

LEMMA ClaimedRowType ==
    ASSUME NEW row \in TaskRow, NEW w \in Workers
    PROVE  /\ ClaimedRow(row, w) \in TaskRow
           /\ ClaimedRow(row, w).key = row.key
           /\ ClaimedRow(row, w).retry = row.retry
           /\ ClaimedRow(row, w).status = "running"
           /\ ClaimedRow(row, w).worker = w
<1>1. row.epoch + 1 \in Nat
  BY DEF TaskRow
<1> QED BY <1>1 DEF ClaimedRow, TaskRow, Statuses

LEMMA DoneRowType ==
    ASSUME NEW row \in TaskRow, NEW s \in Statuses
    PROVE  /\ DoneRow(row, s) \in TaskRow
           /\ DoneRow(row, s).key = row.key
           /\ DoneRow(row, s).retry = row.retry
           /\ DoneRow(row, s).status = s
  BY DEF DoneRow, TaskRow

LEMMA WaitingRowType ==
    ASSUME NEW row \in TaskRow, NEW s \in Statuses, NEW n \in Nat,
           NEW d \in BOOLEAN
    PROVE  /\ WaitingRow(row, s, n, d) \in TaskRow
           /\ WaitingRow(row, s, n, d).key = row.key
           /\ WaitingRow(row, s, n, d).retry = n
           /\ WaitingRow(row, s, n, d).status = s
  BY DEF WaitingRow, TaskRow

LEMMA LeaseRowType ==
    ASSUME NEW row \in TaskRow
    PROVE  /\ [row EXCEPT !.lease = "expired"] \in TaskRow
           /\ [row EXCEPT !.due = TRUE] \in TaskRow
  BY DEF TaskRow

----------------------------------------------------------------------------
(* A step of the queue is a claim, or a RowStep of every row.              *)

\* An insertion touches one row, which was free.
LEMMA InsertSteps ==
    ASSUME QTypeOK, NEW k \in Keys, NEW j \in TaskIds, IsNext(j),
           task' = [task EXCEPT ![j] = Inserted(k)]
    PROVE  \A i \in TaskIds : RowStep(i)
<1>1. task[j].status = "none" /\ task'[j] = Inserted(k)
  BY DEF QTypeOK, IsNext, FreeIds
<1>2. \A i \in TaskIds : i # j => task'[i] = task[i]
  BY DEF QTypeOK
<1> QED BY <1>1, <1>2 DEF RowStep

\* A settled row is the one whose claim was good; any other is left alone.
LEMMA SettleSteps ==
    ASSUME QTypeOK, NEW w \in Workers, NEW row, Settle(w, row),
           Fenced(w) =>
             /\ task[claim[w].id].status = "running"
             /\ task'[claim[w].id] = row => RowStep(claim[w].id)
    PROVE  \A i \in TaskIds : RowStep(i)
<1>1. CASE Fenced(w)
  <2>1. claim[w].id \in TaskIds /\ task' = [task EXCEPT ![claim[w].id] = row]
    BY <1>1 DEF Settle, Fenced
  <2>2. task'[claim[w].id] = row
    BY <2>1 DEF QTypeOK
  <2>3. \A i \in TaskIds : i # claim[w].id => task'[i] = task[i]
    BY <2>1 DEF QTypeOK
  <2> QED BY <1>1, <2>1, <2>2, <2>3 DEF RowStep
<1>2. CASE ~Fenced(w)
  BY <1>2 DEF Settle, RowStep
<1> QED BY <1>1, <1>2

LEMMA Nats ==
    /\ MaxRetry \in Nat
    /\ \A n \in Nat : n <= MaxRetry => n + 1 <= MaxRetry + 1 /\ n + 1 \in Nat
    /\ \A n \in Nat : n < MaxRetry => n + 1 <= MaxRetry
  BY QueueAssumption DEF QueueAssumption

\* The retries a report or a recovery writes are within the budget.
LEMMA FailSteps ==
    ASSUME QInv, NEW w \in Workers, NEW retryable \in BOOLEAN,
           FailTask(w, retryable)
    PROVE  \A i \in TaskIds : RowStep(i)
<1> DEFINE next == claim[w].retry + 1
           again == retryable /\ next <= MaxRetry
           row == WaitingRow(task[claim[w].id],
                             IF again THEN "pending" ELSE "failed", next, FALSE)
<1>1. Settle(w, row)
  BY DEF FailTask
<1>2. ASSUME Fenced(w)
      PROVE  /\ task[claim[w].id].status = "running"
             /\ task'[claim[w].id] = row => RowStep(claim[w].id)
  <2>1. claim[w].id \in TaskIds /\ task[claim[w].id].status = "running"
    BY <1>2 DEF Fenced
  <2>2. claim[w].retry = task[claim[w].id].retry
    BY <1>2 DEF QInv, Linked
  <2>3. claim[w].retry \in Nat /\ claim[w].retry <= MaxRetry
    BY <2>1, <2>2 DEF QInv, QTypeOK, RetryBudget, TaskRow
  <2>4. next \in Nat /\ next <= MaxRetry + 1
    BY <2>3, Nats
  <2>5. CASE again
    <3>1. row = WaitingRow(task[claim[w].id], "pending", next, FALSE)
      BY <2>5
    <3>2. next <= MaxRetry
      BY <2>5
    <3> QED BY <2>1, <2>4, <3>1, <3>2, Zenon DEF RowStep
  <2>6. CASE ~again
    <3>1. row = WaitingRow(task[claim[w].id], "failed", next, FALSE)
      BY <2>6
    <3> QED BY <2>1, <2>4, <3>1, Zenon DEF RowStep
  <2> QED BY <2>5, <2>6
<1> HIDE DEF row
<1> QED BY <1>1, <1>2, SettleSteps, Zenon DEF QInv

LEMMA FinishSteps ==
    ASSUME QInv, NEW w \in Workers, NEW s \in {"success", "skipped"},
           Settle(w, DoneRow(task[claim[w].id], s))
    PROVE  \A i \in TaskIds : RowStep(i)
<1>1. Fenced(w) => task[claim[w].id].status = "running"
  BY DEF Fenced
<1>2. ASSUME Fenced(w), task'[claim[w].id] = DoneRow(task[claim[w].id], s)
      PROVE  RowStep(claim[w].id)
  BY <1>1, <1>2, Zenon DEF RowStep
<1> QED BY <1>1, <1>2, SettleSteps, Zenon DEF QInv

LEMMA ContinueSteps ==
    ASSUME QInv, NEW w \in Workers, ContinueTask(w)
    PROVE  \A i \in TaskIds : RowStep(i)
<1> DEFINE row == WaitingRow(task[claim[w].id], "pending",
                             task[claim[w].id].retry, TRUE)
<1>1. Settle(w, row)
  BY DEF ContinueTask
<1>2. ASSUME Fenced(w)
      PROVE  /\ task[claim[w].id].status = "running"
             /\ task'[claim[w].id] = row => RowStep(claim[w].id)
  <2>1. claim[w].id \in TaskIds /\ task[claim[w].id].status = "running"
    BY <1>2 DEF Fenced
  <2>2. task[claim[w].id].retry \in Nat /\ task[claim[w].id].retry <= MaxRetry
    BY <2>1 DEF QInv, QTypeOK, RetryBudget, TaskRow
  <2>3. task[claim[w].id].retry <= MaxRetry + 1
    BY <2>2, Nats
  <2> QED BY <2>1, <2>2, <2>3, Zenon DEF RowStep
<1> HIDE DEF row
<1> QED BY <1>1, <1>2, SettleSteps, Zenon DEF QInv

LEMMA RecoverSteps ==
    ASSUME QInv, RequeueExpired \/ FailExhausted
    PROVE  \A i \in TaskIds : RowStep(i)
<1> SUFFICES ASSUME NEW i \in TaskIds PROVE RowStep(i)
  OBVIOUS
<1>1. CASE Lapsed(i)
  <2>1. task[i].status = "running" /\ task[i].retry \in Nat
        /\ task[i].retry <= MaxRetry
    BY <1>1 DEF QInv, QTypeOK, RetryBudget, TaskRow, Lapsed
  <2>2. task[i].retry + 1 \in Nat /\ task[i].retry + 1 <= MaxRetry + 1
    BY <2>1, Nats
  <2>3. task[i].retry < MaxRetry => task[i].retry + 1 <= MaxRetry
    BY <2>1, Nats
  <2>4. CASE RequeueExpired
    <3>1. CASE task[i].retry < MaxRetry
      <4>1. task'[i] = WaitingRow(task[i], "pending", task[i].retry + 1, FALSE)
        BY <1>1, <2>4, <3>1 DEF RequeueExpired
      <4> QED BY <2>1, <2>2, <2>3, <3>1, <4>1, Zenon DEF RowStep
    <3>2. CASE ~(task[i].retry < MaxRetry)
      BY <1>1, <2>4, <3>2 DEF RequeueExpired, RowStep
    <3> QED BY <3>1, <3>2
  <2>5. CASE FailExhausted
    <3>1. CASE Exhausted(i)
      <4>1. task'[i] = WaitingRow(task[i], "failed", task[i].retry + 1, FALSE)
        BY <2>5, <3>1 DEF FailExhausted
      <4> QED BY <2>1, <2>2, <4>1, Zenon DEF RowStep
    <3>2. CASE ~Exhausted(i)
      BY <2>5, <3>2 DEF FailExhausted, RowStep
    <3> QED BY <3>1, <3>2
  <2> QED BY <2>4, <2>5
<1>2. CASE ~Lapsed(i)
  <2>1. ~Exhausted(i)
    BY <1>2 DEF Exhausted
  <2> QED BY <1>2, <2>1 DEF RequeueExpired, FailExhausted, RowStep
<1> QED BY <1>1, <1>2

LEMMA ClockSteps ==
    ASSUME QInv, NEW j \in TaskIds, LeaseExpires(j) \/ RetryDue(j)
    PROVE  \A i \in TaskIds : RowStep(i)
<1>1. CASE LeaseExpires(j)
  <2>1. task = [i \in TaskIds |-> task[i]] /\ task[j].status = "running"
    BY <1>1 DEF QInv, QTypeOK, LeaseExpires
  <2>2. /\ task'[j] = [task[j] EXCEPT !.lease = "expired"]
        /\ \A i \in TaskIds : i # j => task'[i] = task[i]
    BY <1>1, <2>1 DEF LeaseExpires
  <2> QED BY <2>1, <2>2, Zenon DEF RowStep
<1>2. CASE RetryDue(j)
  <2>1. task = [i \in TaskIds |-> task[i]] /\ task[j].status = "pending"
    BY <1>2 DEF QInv, QTypeOK, RetryDue
  <2>2. /\ task'[j] = [task[j] EXCEPT !.due = TRUE]
        /\ \A i \in TaskIds : i # j => task'[i] = task[i]
    BY <1>2, <2>1 DEF RetryDue
  <2> QED BY <2>1, <2>2, Zenon DEF RowStep
<1> QED BY <1>1, <1>2

LEMMA EnqueueSteps ==
    ASSUME QInv, NEW k \in Keys, Enqueue(k) \/ CommitStaged(k)
    PROVE  \A i \in TaskIds : RowStep(i)
<1>1. CASE task' = task
  BY <1>1 DEF RowStep
<1>2. CASE task' # task
  <2>1. PICK j \in TaskIds :
          IsNext(j) /\ task' = [task EXCEPT ![j] = Inserted(k)]
    BY <1>2 DEF Enqueue, CommitStaged
  <2> QED BY <2>1, InsertSteps DEF QInv
<1> QED BY <1>1, <1>2

\* Claims are given up, if anything, and the staged rows remain rows of keys.
ClaimsGivenUp == \A w \in Workers : claim'[w] = claim[w] \/ claim'[w] = NoClaim

LEMMA AllRowsStep ==
    ASSUME QInv, [QNext]_queue, \A w \in Workers : ~ClaimTask(w)
    PROVE  \A i \in TaskIds : RowStep(i)
<1>1. CASE task' = task
  BY <1>1 DEF RowStep
<1>2. ASSUME NEW k \in Keys,
             Enqueue(k) \/ StageEnqueue(k) \/ CommitStaged(k) \/ DropStaged(k)
      PROVE  \A i \in TaskIds : RowStep(i)
  BY <1>1, <1>2, EnqueueSteps DEF StageEnqueue, DropStaged
<1>3. ASSUME NEW w \in Workers,
             FinishTask(w) \/ SkipTask(w) \/ ContinueTask(w)
      PROVE  \A i \in TaskIds : RowStep(i)
  BY <1>3, FinishSteps, ContinueSteps, Zenon DEF FinishTask, SkipTask
<1>4. ASSUME NEW w \in Workers, Forget(w)
      PROVE  \A i \in TaskIds : RowStep(i)
  BY <1>1, <1>4 DEF Forget
<1>5. ASSUME NEW w \in Workers, NEW retryable \in BOOLEAN,
             FailTask(w, retryable)
      PROVE  \A i \in TaskIds : RowStep(i)
  BY <1>5, FailSteps
<1>6. CASE RequeueExpired \/ FailExhausted
  BY <1>6, RecoverSteps
<1>7. ASSUME NEW i \in TaskIds, LeaseExpires(i) \/ RetryDue(i)
      PROVE  \A j \in TaskIds : RowStep(j)
  BY <1>7, ClockSteps
<1>8. CASE UNCHANGED queue
  BY <1>1, <1>8 DEF queue
<1> QED BY <1>2, <1>3, <1>4, <1>5, <1>6, <1>7, <1>8, Zenon DEF QNext

LEMMA OtherTables ==
    ASSUME QInv, [QNext]_queue, \A w \in Workers : ~ClaimTask(w)
    PROVE  /\ ClaimsGivenUp
           /\ claim' \in [Workers -> Claim]
           /\ staged' \subseteq Keys
           /\ task' = [i \in TaskIds |-> task'[i]]
<1> USE DEF QInv, QTypeOK
<1>1. NoClaim \in Claim
  BY QueueAssumption DEF NoClaim, Claim, QueueAssumption
<1>2. ASSUME NEW w \in Workers, NEW row, Settle(w, row)
      PROVE  /\ claim' = [claim EXCEPT ![w] = NoClaim]
             /\ staged' = staged /\ task' = [i \in TaskIds |-> task'[i]]
  BY <1>2 DEF Settle
<1>3. ASSUME NEW w \in Workers, claim' = [claim EXCEPT ![w] = NoClaim]
      PROVE  ClaimsGivenUp /\ claim' \in [Workers -> Claim]
  BY <1>1, <1>3 DEF ClaimsGivenUp
<1>4. claim' = claim => ClaimsGivenUp /\ claim' \in [Workers -> Claim]
  BY DEF ClaimsGivenUp
<1>5. ASSUME NEW k \in Keys,
             Enqueue(k) \/ StageEnqueue(k) \/ CommitStaged(k) \/ DropStaged(k)
      PROVE  /\ claim' = claim /\ staged' \subseteq Keys
             /\ task' = [i \in TaskIds |-> task'[i]]
  BY <1>5 DEF Enqueue, StageEnqueue, CommitStaged, DropStaged
<1>6. ASSUME NEW w \in Workers,
             \/ FinishTask(w) \/ SkipTask(w) \/ ContinueTask(w)
             \/ \E retryable \in BOOLEAN : FailTask(w, retryable)
      PROVE  \E row : Settle(w, row)
  BY <1>6 DEF FinishTask, SkipTask, ContinueTask, FailTask
<1>7. ASSUME NEW w \in Workers, Forget(w)
      PROVE  /\ claim' = [claim EXCEPT ![w] = NoClaim]
             /\ staged' = staged /\ task' = [i \in TaskIds |-> task'[i]]
  BY <1>7 DEF Forget
<1>8. CASE \/ RequeueExpired \/ FailExhausted
           \/ \E i \in TaskIds : LeaseExpires(i) \/ RetryDue(i)
           \/ UNCHANGED queue
  <2>1. claim' = claim /\ staged' = staged /\ task' = [i \in TaskIds |-> task'[i]]
    BY <1>8 DEF RequeueExpired, FailExhausted, LeaseExpires, RetryDue, queue
  <2> QED BY <1>4, <2>1
<1>9. CASE \E k \in Keys :
             Enqueue(k) \/ StageEnqueue(k) \/ CommitStaged(k) \/ DropStaged(k)
  BY <1>4, <1>5, <1>9
<1>10. CASE \E w \in Workers :
             \/ FinishTask(w) \/ SkipTask(w) \/ ContinueTask(w)
             \/ \E retryable \in BOOLEAN : FailTask(w, retryable)
  BY <1>2, <1>3, <1>6, <1>10
<1>11. CASE \E w \in Workers : Forget(w)
  BY <1>3, <1>7, <1>11
<1> QED BY <1>8, <1>9, <1>10, <1>11, Zenon DEF QNext

----------------------------------------------------------------------------
(* The invariant.                                                          *)

LEMMA QInitInv == QInit => QInv
<1> SUFFICES ASSUME QInit PROVE QInv
  OBVIOUS
<1>1. NoTask \in TaskRow /\ NoTask.status = "none" /\ NoTask.retry = 0
  BY DEF NoTask, TaskRow, Statuses
<1>2. NoClaim \in Claim /\ NoClaim.id \notin TaskIds
  BY QueueAssumption DEF NoClaim, Claim, TaskIds, QueueAssumption
<1>3. QTypeOK
  BY <1>1, <1>2 DEF QInit, QTypeOK
<1>4. \A i \in TaskIds : task[i] = NoTask
  BY DEF QInit
<1>5. \A w \in Workers : claim[w] = NoClaim
  BY DEF QInit
<1>6. Linked
  BY <1>2, <1>5 DEF Linked, Fenced
<1>7. Keyed
  BY <1>1, <1>4 DEF Keyed
<1>8. RetryBudget
  BY <1>1, <1>4, Nats DEF RetryBudget
<1>9. Inserts
  BY <1>2, <1>5 DEF Inserts
<1> QED BY <1>3, <1>6, <1>7, <1>8, <1>9 DEF QInv

\* A step of a row keeps it well formed, about its key and within its budget;
\* and if it runs under a live lease after, then it is as it was.
LEMMA RowStepKeeps ==
    ASSUME QInv, NEW i \in TaskIds, RowStep(i)
    PROVE  /\ task'[i] \in TaskRow
           /\ task'[i].status # "none" => task'[i].key \in Keys
           /\ task[i].status # "none" =>
                task'[i].status # "none" /\ task'[i].key = task[i].key
           /\ task'[i].retry <= MaxRetry + 1
           /\ task'[i].status \in {"pending", "running"} =>
                task'[i].retry <= MaxRetry
           /\ task'[i].status = "running" /\ task'[i].lease = "live" =>
                task'[i] = task[i]
<1>1. /\ task[i] \in TaskRow
      /\ task[i].status # "none" => task[i].key \in Keys
      /\ task[i].retry <= MaxRetry + 1
      /\ task[i].status \in {"pending", "running"} => task[i].retry <= MaxRetry
  BY DEF QInv, QTypeOK, Keyed, RetryBudget
<1>2. CASE task'[i] = task[i]
  BY <1>1, <1>2
<1>3. CASE /\ task[i].status = "none"
           /\ \E k \in Keys : task'[i] = Inserted(k)
  <2>1. 0 <= MaxRetry /\ 0 <= MaxRetry + 1
    BY Nats
  <2> QED BY <1>3, <2>1, InsertedRow
<1>4. ASSUME NEW s \in {"success", "skipped"}, task[i].status = "running",
             task'[i] = DoneRow(task[i], s)
      PROVE  /\ task'[i] \in TaskRow
             /\ task'[i].key = task[i].key
             /\ task'[i].retry = task[i].retry
             /\ task'[i].status = s
  <2>1. s \in Statuses
    BY DEF Statuses, Terminal
  <2> QED BY <1>1, <1>4, <2>1, DoneRowType
<1>5. ASSUME NEW n \in Nat, NEW s \in {"pending", "failed"},
             NEW d \in BOOLEAN, task'[i] = WaitingRow(task[i], s, n, d)
      PROVE  /\ task'[i] \in TaskRow
             /\ task'[i].key = task[i].key
             /\ task'[i].retry = n
             /\ task'[i].status = s
  <2>1. s \in Statuses
    BY DEF Statuses, Terminal
  <2> QED BY <1>1, <1>5, <2>1, WaitingRowType
<1>6. CASE task'[i] = [task[i] EXCEPT !.lease = "expired"]
  <2>1. /\ task'[i] \in TaskRow
        /\ task'[i].key = task[i].key
        /\ task'[i].retry = task[i].retry
        /\ task'[i].status = task[i].status
        /\ task'[i].lease = "expired"
    BY <1>1, <1>6 DEF TaskRow
  <2> QED BY <1>1, <2>1
<1>7. CASE /\ task[i].status = "pending"
           /\ task'[i] = [task[i] EXCEPT !.due = TRUE]
  <2>1. /\ task'[i] \in TaskRow
        /\ task'[i].key = task[i].key
        /\ task'[i].retry = task[i].retry
        /\ task'[i].status = "pending"
    BY <1>1, <1>7 DEF TaskRow
  <2> QED BY <1>1, <1>7, <2>1
<1>8. CASE /\ task[i].status = "running"
           /\ \E s \in {"success", "skipped"} : task'[i] = DoneRow(task[i], s)
  BY <1>1, <1>4, <1>8
<1>9. CASE /\ task[i].status = "running"
           /\ \E n \in Nat, s \in {"pending", "failed"}, d \in BOOLEAN :
                /\ task'[i] = WaitingRow(task[i], s, n, d)
                /\ n <= MaxRetry + 1
                /\ s = "pending" => n <= MaxRetry
  <2>1. PICK n \in Nat, s \in {"pending", "failed"}, d \in BOOLEAN :
                /\ task'[i] = WaitingRow(task[i], s, n, d)
                /\ n <= MaxRetry + 1
                /\ s = "pending" => n <= MaxRetry
    BY <1>9
  <2>2. /\ task'[i] \in TaskRow
        /\ task'[i].key = task[i].key
        /\ task'[i].retry = n
        /\ task'[i].status = s
    BY <1>5, <2>1
  <2>3. task'[i].key \in Keys
    BY <1>1, <1>9, <2>2
  <2>4. task'[i].retry <= MaxRetry + 1
    BY <2>1, <2>2
  <2>5. task'[i].status = "pending" => task'[i].retry <= MaxRetry
    BY <2>1, <2>2
  <2>6. task'[i].status # "running"
    BY <2>2
  <2> QED BY <2>2, <2>3, <2>4, <2>5, <2>6
<1> QED BY <1>2, <1>3, <1>6, <1>7, <1>8, <1>9 DEF RowStep

LEMMA ClaimKeeps ==
    ASSUME QInv, NEW w \in Workers, ClaimTask(w)
    PROVE  QInv'
<1> USE DEF QInv
<1>1. PICK j \in TaskIds :
        /\ Oldest(j)
        /\ task' = [task EXCEPT ![j] = ClaimedRow(task[j], w)]
        /\ claim' = [claim EXCEPT ![w] =
                        [id |-> j, epoch |-> task[j].epoch + 1,
                         retry |-> task[j].retry]]
  BY DEF ClaimTask
<1>2. task[j].status = "pending" /\ task[j] \in TaskRow
  BY <1>1 DEF Oldest, Claimable, QTypeOK
<1>3. /\ task'[j] = ClaimedRow(task[j], w)
      /\ \A i \in TaskIds : i # j => task'[i] = task[i]
  BY <1>1 DEF QTypeOK
<1>4. /\ task'[j] \in TaskRow
      /\ task'[j].key = task[j].key
      /\ task'[j].retry = task[j].retry
      /\ task'[j].status = "running"
      /\ task'[j].worker = w
  BY <1>2, <1>3, ClaimedRowType
<1>5. /\ claim'[w].id = j /\ claim'[w].retry = task[j].retry
      /\ claim'[w] \in Claim
      /\ \A v \in Workers : v # w => claim'[v] = claim[v]
  BY <1>1, <1>2 DEF QTypeOK, Claim, TaskIds, TaskRow
<1>6. QTypeOK'
  <2>1. task' \in [TaskIds -> TaskRow]
    BY <1>1, <1>3, <1>4 DEF QTypeOK
  <2>2. claim' \in [Workers -> Claim]
    BY <1>1, <1>5 DEF QTypeOK
  <2> QED BY <2>1, <2>2 DEF ClaimTask, QTypeOK
<1>7. Linked'
  <2> SUFFICES ASSUME NEW v \in Workers, Fenced(v)'
               PROVE  claim'[v].retry = task'[claim'[v].id].retry
    BY DEF Linked
  <2>1. CASE v = w
    BY <1>4, <1>5, <2>1
  <2>2. CASE v # w
    <3>1. claim'[v] = claim[v] /\ claim[v].id # j
      BY <1>4, <1>5, <2>2 DEF Fenced
    <3>2. claim[v].id \in TaskIds /\ task'[claim[v].id] = task[claim[v].id]
      BY <1>3, <3>1 DEF Fenced
    <3>3. Fenced(v)
      BY <3>1, <3>2 DEF Fenced
    <3> QED BY <3>1, <3>2, <3>3 DEF Linked
  <2> QED BY <2>1, <2>2
<1>8. Keyed'
  BY <1>2, <1>3, <1>4 DEF Keyed
<1>9. RetryBudget'
  BY <1>2, <1>3, <1>4 DEF RetryBudget
<1>10. Inserts'
  BY <1>2, <1>3, <1>4, <1>5 DEF Inserts
<1> QED BY <1>6, <1>7, <1>8, <1>9, <1>10

LEMMA QInvKept ==
    ASSUME QInv, [QNext]_queue
    PROVE  QInv'
<1>1. CASE \E w \in Workers : ClaimTask(w)
  BY <1>1, ClaimKeeps
<1>2. CASE \A w \in Workers : ~ClaimTask(w)
  <2>1. \A i \in TaskIds : RowStep(i)
    BY <1>2, AllRowsStep
  <2>2. QTypeOK'
    BY <1>2, <2>1, RowStepKeeps, OtherTables DEF QTypeOK
  <2>3. Linked'
    <3> SUFFICES ASSUME NEW w \in Workers, Fenced(w)'
                 PROVE  claim'[w].retry = task'[claim'[w].id].retry
      BY DEF Linked
    <3>1. claim'[w].id \in TaskIds /\ NoClaim.id \notin TaskIds
      BY QueueAssumption DEF Fenced, NoClaim, TaskIds, QueueAssumption
    <3>2. claim'[w] = claim[w]
      BY <1>2, <3>1, OtherTables DEF ClaimsGivenUp
    <3>3. task'[claim[w].id] = task[claim[w].id]
      BY <2>1, <3>1, <3>2, RowStepKeeps DEF Fenced
    <3>4. Fenced(w)
      BY <3>1, <3>2, <3>3 DEF Fenced
    <3> QED BY <3>2, <3>3, <3>4 DEF QInv, Linked
  <2>4. Keyed' /\ RetryBudget'
    BY <2>1, RowStepKeeps DEF Keyed, RetryBudget
  <2>5. Inserts'
    <3>1. NoClaim.id \notin TaskIds
      BY QueueAssumption DEF NoClaim, TaskIds, QueueAssumption
    <3> QED BY <1>2, <2>1, <3>1, RowStepKeeps, OtherTables
            DEF QInv, Inserts, ClaimsGivenUp
  <2> QED BY <2>2, <2>3, <2>4, <2>5 DEF QInv
<1> QED BY <1>1, <1>2

\* A row that was inserted stays, and what it is about never changes.
LEMMA KeysStay ==
    ASSUME QInv, [QNext]_queue, NEW i \in TaskIds, task[i].status # "none"
    PROVE  task'[i].status # "none" /\ task'[i].key = task[i].key
<1>1. CASE \A w \in Workers : ~ClaimTask(w)
  BY <1>1, AllRowsStep, RowStepKeeps
<1>2. ASSUME NEW w \in Workers, ClaimTask(w)
      PROVE  task'[i].status # "none" /\ task'[i].key = task[i].key
  <2>1. PICK j \in TaskIds : task' = [task EXCEPT ![j] = ClaimedRow(task[j], w)]
    BY <1>2 DEF ClaimTask
  <2>2. task[j] \in TaskRow /\ (i # j => task'[i] = task[i])
        /\ (i = j => task'[i] = ClaimedRow(task[j], w))
    BY <2>1 DEF QInv, QTypeOK
  <2> QED BY <2>2, ClaimedRowType
<1> QED BY <1>1, <1>2

\* A row that is not inserted yet is left alone.
LEMMA EmptyStay ==
    ASSUME QInv, [QNext]_queue, NEW i \in TaskIds, task'[i].status = "none"
    PROVE  task'[i] = task[i]
<1>1. task[i].status = "none"
  BY KeysStay
<1>2. CASE \A w \in Workers : ~ClaimTask(w)
  <2>1. RowStep(i)
    BY <1>2, AllRowsStep
  <2>2. \A k \in Keys : Inserted(k).status = "pending"
    BY InsertedRow
  <2> QED BY <1>1, <2>1, <2>2 DEF RowStep
<1>3. ASSUME NEW w \in Workers, ClaimTask(w)
      PROVE  task'[i] = task[i]
  <2>1. PICK j \in TaskIds :
          /\ Oldest(j)
          /\ task' = [task EXCEPT ![j] = ClaimedRow(task[j], w)]
    BY <1>3 DEF ClaimTask
  <2>2. task[j].status = "pending"
    BY <2>1 DEF Oldest, Claimable
  <2> QED BY <1>1, <2>1, <2>2 DEF QInv, QTypeOK
<1> QED BY <1>2, <1>3

\* A claim that is not good any more never becomes good again.
LEMMA FencedBack ==
    ASSUME QInv, [QNext]_queue, NEW v \in Workers, claim'[v] = claim[v],
           Fenced(v)'
    PROVE  Fenced(v)
<1> DEFINE i == claim[v].id
<1>1. /\ i \in TaskIds
      /\ task'[i].status = "running" /\ task'[i].lease = "live"
      /\ task'[i].worker = v /\ task'[i].epoch = claim[v].epoch
  BY DEF Fenced
<1>2. CASE \A w \in Workers : ~ClaimTask(w)
  <2>1. task'[i] = task[i]
    BY <1>1, <1>2, AllRowsStep, RowStepKeeps
  <2> QED BY <1>1, <2>1 DEF Fenced
<1>3. ASSUME NEW w \in Workers, ClaimTask(w)
      PROVE  Fenced(v)
  <2>1. PICK j \in TaskIds :
          /\ task' = [task EXCEPT ![j] = ClaimedRow(task[j], w)]
          /\ claim' = [claim EXCEPT ![w] = [id |-> j, epoch |-> task[j].epoch + 1,
                                            retry |-> task[j].retry]]
          /\ claim[w] = NoClaim
    BY <1>3 DEF ClaimTask
  <2>2. claim'[w].id = j /\ claim[w].id = 0 /\ j # 0
    BY <2>1 DEF QInv, QTypeOK, NoClaim, TaskIds
  <2>3. v # w
    BY <2>2
  <2>4. i # j
    <3>1. i = j => task'[i].worker = w
      BY <2>1, ClaimedRowType DEF QInv, QTypeOK
    <3> QED BY <1>1, <2>3, <3>1
  <2>5. task'[i] = task[i]
    BY <1>1, <2>1, <2>4 DEF QInv, QTypeOK
  <2> QED BY <1>1, <2>5 DEF Fenced
<1> QED BY <1>2, <1>3

\* The rows of the queue hold values their columns may hold, whoever calls.
THEOREM QueueTypeCorrect == QueueSpec => []QTypeOK
<1>1. QInit => QInv
  BY QInitInv
<1>2. QInv /\ [QNext]_queue => QInv'
  BY QInvKept
<1>3. QInv => QTypeOK
  BY DEF QInv
<1> QED BY <1>1, <1>2, <1>3, PTL DEF QueueSpec

\* A task is tried MaxRetry + 1 times at most: a report of a worker that lost
\* its lease, a recovery and a repair that continues never add up to more.
THEOREM RetriesBounded == QueueSpec => []RetryBudget
<1>1. QInit => QInv
  BY QInitInv
<1>2. QInv /\ [QNext]_queue => QInv'
  BY QInvKept
<1>3. QInv => RetryBudget
  BY DEF QInv
<1> QED BY <1>1, <1>2, <1>3, PTL DEF QueueSpec

\* A task that has ended is never touched again: its failure is not retried by
\* a recovery, and a late report of its worker finds the fence closed.
EndedForGood ==
    [][\A i \in TaskIds :
         task[i].status \in Terminal => task'[i] = task[i]]_queue

THEOREM EndedStays == QueueSpec => EndedForGood
<1>1. ASSUME QInv, [QNext]_queue, NEW i \in TaskIds,
             task[i].status \in Terminal
      PROVE  task'[i] = task[i]
  <2>1. task[i].status \notin {"none", "pending", "running"}
    BY <1>1 DEF Terminal
  <2>2. CASE \A w \in Workers : ~ClaimTask(w)
    BY <1>1, <2>1, <2>2, AllRowsStep DEF RowStep
  <2>3. ASSUME NEW w \in Workers, ClaimTask(w)
        PROVE  task'[i] = task[i]
    <3>1. PICK j \in TaskIds :
            Oldest(j) /\ task' = [task EXCEPT ![j] = ClaimedRow(task[j], w)]
      BY <2>3 DEF ClaimTask
    <3>2. j # i
      BY <2>1, <3>1 DEF Oldest, Claimable
    <3> QED BY <1>1, <3>1, <3>2 DEF QInv, QTypeOK
  <2> QED BY <2>2, <2>3
<1>2. QInit => QInv
  BY QInitInv
<1>3. QInv /\ [QNext]_queue => QInv'
  BY QInvKept
<1>4. QInv /\ [QNext]_queue =>
        [\A i \in TaskIds :
           task[i].status \in Terminal => task'[i] = task[i]]_queue
  BY <1>1
<1> QED BY <1>2, <1>3, <1>4, PTL DEF QueueSpec, EndedForGood
=============================================================================
