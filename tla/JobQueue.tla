------------------------------ MODULE JobQueue ------------------------------
(***************************************************************************)
(* The persistent background-job queue of the API: the rows of the table   *)
(* background_jobs (JobQueueService) and the poll loops that drain it, one *)
(* per API process (JobWorkerService).                                     *)
(*                                                                         *)
(* Every queue method is one database transaction of its own, so it is one *)
(* action here, with two exceptions.  The handler runs between two of them *)
(* (claimNext commits before it starts, markDone follows its commit), and  *)
(* reapStuck reads its stale rows without locking them before it writes.   *)
(*                                                                         *)
(* Time is abstract.  A claimed row's locked_at is "fresh" until it grows  *)
(* older than JOBS_STUCK_MS ("stale"); a re-queued row is not due until    *)
(* its backoff has elapsed; a loop reaps once JOBS_REAP_EVERY_MS elapsed.  *)
(* Nothing relates the length of a handler to JOBS_STUCK_MS, so a slow     *)
(* worker's lock grows stale while it is alive.                            *)
(***************************************************************************)
EXTENDS Integers, FiniteSets

CONSTANTS
  Jobs,         \* the ids of the rows
  Workers,      \* the API processes, one poll loop each
  MaxAttempts,  \* max_attempts of each row
  DrainMax,     \* ticks per drain (100 in the code)
  MaxFaults     \* bound on crashes, stops and database errors

ASSUME JobsAssumption == Jobs \subseteq Nat \ {0}
ASSUME WorkersAssumption == IsFiniteSet(Workers)
ASSUME MaxAttemptsAssumption == MaxAttempts \in [Jobs -> Nat \ {0}]
ASSUME DrainMaxAssumption == DrainMax \in Nat \ {0}
ASSUME MaxFaultsAssumption == MaxFaults \in Nat

NoJob == 0

VARIABLES
  status,    \* row: background_jobs.status, "absent" before the insert commits
  attempts,  \* row: background_jobs.attempts
  lock,      \* row: locked_at, as "none" (NULL), "fresh" or "stale"
  due,       \* row: run_after <= now()
  ran,       \* some handler transaction of the job has committed
  pc,        \* process: where its poll loop is
  cjob,      \* process: ClaimedJob.id of the job it runs
  catt,      \* process: ClaimedJob.attempts, a copy taken at the claim
  seen,      \* process: the stale rows reapStuck selected
  drained,   \* process: n of drain()
  reapDue,   \* process: now - lastReapAt >= reapMs
  faults     \* faults so far

rowVars == <<status, attempts, lock, due>>
loopVars == <<pc, cjob, catt, seen, drained, reapDue>>
vars == <<status, attempts, lock, due, ran, pc, cjob, catt, seen, drained,
          reapDue, faults>>

Statuses == {"absent", "queued", "running", "done", "failed"}
Holding == {"handler", "markDone", "markFailed"}  \* the loop has a ClaimedJob
Phases == {"down", "poll", "reap", "reapWrite"} \cup Holding
Scan == [job : Jobs, att : Nat]

TypeOK ==
  /\ status \in [Jobs -> Statuses]
  /\ attempts \in [Jobs -> Nat]
  /\ lock \in [Jobs -> {"none", "fresh", "stale"}]
  /\ due \in [Jobs -> BOOLEAN]
  /\ ran \in [Jobs -> BOOLEAN]
  /\ pc \in [Workers -> Phases]
  /\ cjob \in [Workers -> Jobs \cup {NoJob}]
  /\ catt \in [Workers -> Nat]
  /\ seen \in [Workers -> SUBSET Scan]
  /\ drained \in [Workers -> 0..DrainMax]
  /\ reapDue \in [Workers -> BOOLEAN]
  /\ faults \in 0..MaxFaults
  /\ \A w \in Workers : pc[w] \in Holding => cjob[w] \in Jobs

Init ==
  /\ status = [j \in Jobs |-> "absent"]
  /\ attempts = [j \in Jobs |-> 0]
  /\ lock = [j \in Jobs |-> "none"]
  /\ due = [j \in Jobs |-> TRUE]
  /\ ran = [j \in Jobs |-> FALSE]
  /\ pc = [w \in Workers |-> "poll"]
  /\ cjob = [w \in Workers |-> NoJob]
  /\ catt = [w \in Workers |-> 0]
  /\ seen = [w \in Workers |-> {}]
  /\ drained = [w \in Workers |-> 0]
  /\ reapDue = [w \in Workers |-> TRUE]
  /\ faults = 0

-----------------------------------------------------------------------------
(* Rows.                                                                   *)

\* A request's transaction that called enqueue() commits.
Enqueue(j) ==
  /\ status[j] = "absent"
  /\ status' = [status EXCEPT ![j] = "queued"]
  /\ UNCHANGED <<attempts, lock, due, ran, loopVars, faults>>

\* A re-queued row's run_after passes.
BackoffElapses(j) ==
  /\ ~due[j]
  /\ due' = [due EXCEPT ![j] = TRUE]
  /\ UNCHANGED <<status, attempts, lock, ran, loopVars, faults>>

\* A claimed row's locked_at falls behind the cutoff, whatever its worker does.
LockGrowsStale(j) ==
  /\ lock[j] = "fresh"
  /\ lock' = [lock EXCEPT ![j] = "stale"]
  /\ UNCHANGED <<status, attempts, due, ran, loopVars, faults>>

Claimable(j) == status[j] = "queued" /\ due[j]

\* The two updates of markFailed and reapStuck, applied by id to whatever the
\* row has become: neither looks at the status it overwrites.
Requeue(j, after) ==
  /\ status' = [status EXCEPT ![j] = "queued"]
  /\ lock' = [lock EXCEPT ![j] = "none"]
  /\ due' = [due EXCEPT ![j] = after]

DeadLetter(j) ==
  /\ status' = [status EXCEPT ![j] = "failed"]
  /\ lock' = [lock EXCEPT ![j] = "none"]
  /\ UNCHANGED due

-----------------------------------------------------------------------------
(* The poll loop: schedule() -> drain() -> maybeReap() -> schedule().      *)

\* tick() returns: its local copy of the job is gone.
Release(w) ==
  /\ cjob' = [cjob EXCEPT ![w] = NoJob]
  /\ catt' = [catt EXCEPT ![w] = 0]

\* Mutants of Claim: no limit on the ticks of a drain; attempts counted elsewhere.
ClaimWithoutLimit(w) ==
  /\ pc[w] = "poll"
  /\ \E j \in Jobs :
       /\ Claimable(j)
       /\ status' = [status EXCEPT ![j] = "running"]
       /\ attempts' = [attempts EXCEPT ![j] = @ + 1]
       /\ lock' = [lock EXCEPT ![j] = "fresh"]
       /\ cjob' = [cjob EXCEPT ![w] = j]
       /\ catt' = [catt EXCEPT ![w] = attempts[j] + 1]
  /\ pc' = [pc EXCEPT ![w] = "handler"]
  /\ drained' = [drained EXCEPT ![w] = @ + 1]
  /\ UNCHANGED <<due, ran, seen, reapDue, faults>>

ClaimWithoutCounting(w) ==
  /\ pc[w] = "poll"
  /\ drained[w] < DrainMax
  /\ \E j \in Jobs :
       /\ Claimable(j)
       /\ status' = [status EXCEPT ![j] = "running"]
       /\ lock' = [lock EXCEPT ![j] = "fresh"]
       /\ cjob' = [cjob EXCEPT ![w] = j]
       /\ catt' = [catt EXCEPT ![w] = attempts[j]]
  /\ pc' = [pc EXCEPT ![w] = "handler"]
  /\ drained' = [drained EXCEPT ![w] = @ + 1]
  /\ UNCHANGED <<attempts, due, ran, seen, reapDue, faults>>

\* claimNext: a due row, the oldest that SKIP LOCKED does not pass over.  A passed row
\* may be claimable again when its holder rolls back or is the reaper, so any due row may
\* be taken.  The claim commits before the handler starts.
Claim(w) ==
  /\ pc[w] = "poll"
  /\ drained[w] < DrainMax
  /\ \E j \in Jobs :
       /\ Claimable(j)
       /\ status' = [status EXCEPT ![j] = "running"]
       /\ attempts' = [attempts EXCEPT ![j] = @ + 1]
       /\ lock' = [lock EXCEPT ![j] = "fresh"]
       /\ cjob' = [cjob EXCEPT ![w] = j]
       /\ catt' = [catt EXCEPT ![w] = attempts[j] + 1]
  /\ pc' = [pc EXCEPT ![w] = "handler"]
  /\ drained' = [drained EXCEPT ![w] = @ + 1]
  /\ UNCHANGED <<due, ran, seen, reapDue, faults>>

\* The reaper of another process may hold the row for its update.
ReapHolds(w, j) == \E v \in Workers \ {w} : \E r \in seen[v] : r.job = j

\* drain() returns: nothing to claim, or nothing that is not locked, or max ticks done.
DrainEnds(w) ==
  /\ pc[w] = "poll"
  /\ drained[w] = DrainMax \/ \A j \in Jobs : Claimable(j) => ReapHolds(w, j)
  /\ pc' = [pc EXCEPT ![w] = "reap"]
  /\ drained' = [drained EXCEPT ![w] = 0]
  /\ UNCHANGED <<rowVars, ran, cjob, catt, seen, reapDue, faults>>

\* The handler's tenant transaction commits; markDone has not run yet.
HandlerCommits(w) ==
  /\ pc[w] = "handler"
  /\ ran' = [ran EXCEPT ![cjob[w]] = TRUE]
  /\ pc' = [pc EXCEPT ![w] = "markDone"]
  /\ UNCHANGED <<rowVars, cjob, catt, seen, drained, reapDue, faults>>

\* Mutant of HandlerThrows: the failure is swallowed.
HandlerThrowsUnnoticed(w) ==
  /\ pc[w] = "handler"
  /\ pc' = [pc EXCEPT ![w] = "markDone"]
  /\ UNCHANGED <<rowVars, ran, cjob, catt, seen, drained, reapDue, faults>>

\* The handler throws and rolls back, or no handler is registered.
HandlerThrows(w) ==
  /\ pc[w] = "handler"
  /\ pc' = [pc EXCEPT ![w] = "markFailed"]
  /\ UNCHANGED <<rowVars, ran, cjob, catt, seen, drained, reapDue, faults>>

MarkDone(w) ==
  /\ pc[w] = "markDone"
  /\ status' = [status EXCEPT ![cjob[w]] = "done"]
  /\ lock' = [lock EXCEPT ![cjob[w]] = "none"]
  /\ pc' = [pc EXCEPT ![w] = "poll"]
  /\ Release(w)
  /\ UNCHANGED <<attempts, due, ran, seen, drained, reapDue, faults>>

\* Mutant of MarkFailed: gives up one attempt early.
MarkFailedEarly(w) ==
  /\ pc[w] = "markFailed"
  /\ IF catt[w] + 1 >= MaxAttempts[cjob[w]]
     THEN DeadLetter(cjob[w])
     ELSE Requeue(cjob[w], FALSE)
  /\ pc' = [pc EXCEPT ![w] = "poll"]
  /\ Release(w)
  /\ UNCHANGED <<attempts, ran, seen, drained, reapDue, faults>>

\* markFailed decides by the attempts of the claimed copy.
MarkFailed(w) ==
  /\ pc[w] = "markFailed"
  /\ IF catt[w] >= MaxAttempts[cjob[w]]
     THEN DeadLetter(cjob[w])
     ELSE Requeue(cjob[w], FALSE)
  /\ pc' = [pc EXCEPT ![w] = "poll"]
  /\ Release(w)
  /\ UNCHANGED <<attempts, ran, seen, drained, reapDue, faults>>

\* maybeReap is throttled by lastReapAt.
ReapThrottled(w) ==
  /\ pc[w] = "reap"
  /\ ~reapDue[w]
  /\ pc' = [pc EXCEPT ![w] = "poll"]
  /\ UNCHANGED <<rowVars, ran, cjob, catt, seen, drained, reapDue, faults>>

ReapIntervalElapses(w) ==
  /\ ~reapDue[w]
  /\ reapDue' = [reapDue EXCEPT ![w] = TRUE]
  /\ UNCHANGED <<rowVars, ran, pc, cjob, catt, seen, drained, faults>>

\* Mutant of StaleRows: only rows with retries left are looked for.
StaleRowsWithRetries ==
  {[job |-> j, att |-> attempts[j]] :
     j \in {k \in Jobs : /\ status[k] = "running" /\ lock[k] = "stale"
                         /\ attempts[k] < MaxAttempts[k]}}

StaleRows ==
  {[job |-> j, att |-> attempts[j]] :
     j \in {k \in Jobs : status[k] = "running" /\ lock[k] = "stale"}}

\* reapStuck's select: a plain read, so the rows may move on before its updates.
ReapScan(w) ==
  /\ pc[w] = "reap"
  /\ reapDue[w]
  /\ reapDue' = [reapDue EXCEPT ![w] = FALSE]
  /\ seen' = [seen EXCEPT ![w] = StaleRows]
  /\ pc' = [pc EXCEPT ![w] = "reapWrite"]
  /\ UNCHANGED <<rowVars, ran, cjob, catt, drained, faults>>

\* Mutants of Expired: one retry too many; the dead-letter branch forgotten.
ExpiredOffByOne(w, j) == \E r \in seen[w] : r.job = j /\ r.att <= MaxAttempts[j]
ExpiredAlways(w, j) == \E r \in seen[w] : r.job = j

Expired(w, j) == \E r \in seen[w] : r.job = j /\ r.att < MaxAttempts[j]
Exhausted(w, j) == \E r \in seen[w] : r.job = j /\ r.att >= MaxAttempts[j]

\* reapStuck's updates, committed together; they decide by the attempts read.
ReapWrite(w) ==
  /\ pc[w] = "reapWrite"
  /\ status' = [j \in Jobs |-> IF Expired(w, j) THEN "queued"
                               ELSE IF Exhausted(w, j) THEN "failed" ELSE status[j]]
  /\ lock' = [j \in Jobs |-> IF Expired(w, j) \/ Exhausted(w, j) THEN "none" ELSE lock[j]]
  /\ due' = [j \in Jobs |-> Expired(w, j) \/ due[j]]
  /\ seen' = [seen EXCEPT ![w] = {}]
  /\ pc' = [pc EXCEPT ![w] = "poll"]
  /\ UNCHANGED <<attempts, ran, cjob, catt, drained, reapDue, faults>>

-----------------------------------------------------------------------------
(* Faults.                                                                 *)

Fault == faults < MaxFaults /\ faults' = faults + 1

\* claimNext throws and its transaction rolls back: tick() returns false.
ClaimThrows(w) ==
  /\ Fault
  /\ pc[w] = "poll"
  /\ pc' = [pc EXCEPT ![w] = "reap"]
  /\ drained' = [drained EXCEPT ![w] = 0]
  /\ UNCHANGED <<rowVars, ran, cjob, catt, seen, reapDue>>

\* markDone throws, before or after its update took effect: the same catch that
\* handles a failed handler marks the job failed.
MarkDoneThrows(w) ==
  /\ Fault
  /\ pc[w] = "markDone"
  /\ \/ UNCHANGED <<status, lock>>
     \/ /\ status' = [status EXCEPT ![cjob[w]] = "done"]
        /\ lock' = [lock EXCEPT ![cjob[w]] = "none"]
  /\ pc' = [pc EXCEPT ![w] = "markFailed"]
  /\ UNCHANGED <<attempts, due, ran, cjob, catt, seen, drained, reapDue>>

\* markFailed throws out of tick() and drain(): the row stays as it is.
MarkFailedThrows(w) ==
  /\ Fault
  /\ pc[w] = "markFailed"
  /\ pc' = [pc EXCEPT ![w] = "reap"]
  /\ drained' = [drained EXCEPT ![w] = 0]
  /\ Release(w)
  /\ UNCHANGED <<rowVars, ran, seen, reapDue>>

\* reapStuck throws: logged, its transaction rolled back.
ReapThrows(w) ==
  /\ Fault
  /\ pc[w] = "reapWrite"
  /\ seen' = [seen EXCEPT ![w] = {}]
  /\ pc' = [pc EXCEPT ![w] = "poll"]
  /\ UNCHANGED <<rowVars, ran, cjob, catt, drained, reapDue>>

\* The process dies, or stops (onModuleDestroy) and exits: transactions in
\* flight roll back, a claimed row stays "running".
Crash(w) ==
  /\ Fault
  /\ pc[w] # "down"
  /\ pc' = [pc EXCEPT ![w] = "down"]
  /\ seen' = [seen EXCEPT ![w] = {}]
  /\ drained' = [drained EXCEPT ![w] = 0]
  /\ Release(w)
  /\ UNCHANGED <<rowVars, ran, reapDue>>

Restart(w) ==
  /\ pc[w] = "down"
  /\ pc' = [pc EXCEPT ![w] = "poll"]
  /\ reapDue' = [reapDue EXCEPT ![w] = TRUE]
  /\ UNCHANGED <<rowVars, ran, cjob, catt, seen, drained, faults>>

-----------------------------------------------------------------------------
Time(j) == BackoffElapses(j) \/ LockGrowsStale(j)

\* What the loop of w does when nothing goes wrong outside the handler.
Loop(w) ==
  \/ Claim(w) \/ DrainEnds(w)
  \/ HandlerCommits(w) \/ HandlerThrows(w)
  \/ MarkDone(w) \/ MarkFailed(w)
  \/ ReapThrottled(w) \/ ReapScan(w) \/ ReapWrite(w)
  \/ Restart(w)

Faulty(w) ==
  ClaimThrows(w) \/ MarkDoneThrows(w) \/ MarkFailedThrows(w) \/ ReapThrows(w) \/ Crash(w)

Next ==
  \/ \E j \in Jobs : Enqueue(j) \/ Time(j)
  \/ \E w \in Workers : Loop(w) \/ ReapIntervalElapses(w) \/ Faulty(w)

Spec == Init /\ [][Next]_vars

\* Clocks advance and loops run: setTimeout re-arms after every cycle, handlers
\* terminate, a dead process is restarted.  Enqueue and faults are owed nothing.
Fairness ==
  /\ \A j \in Jobs : WF_vars(BackoffElapses(j)) /\ WF_vars(LockGrowsStale(j))
  /\ \A w \in Workers : WF_vars(Loop(w)) /\ WF_vars(ReapIntervalElapses(w))

FairSpec == Spec /\ Fairness

-----------------------------------------------------------------------------
(* Properties.                                                             *)

\* A worker or a reaper that may still re-queue j by what it read before: it
\* holds a copy of the row from before the attempts were exhausted.
Token(w, j) ==
  \/ pc[w] \in Holding /\ cjob[w] = j /\ catt[w] < MaxAttempts[j]
  \/ pc[w] = "reapWrite" /\ \E r \in seen[w] : r.job = j /\ r.att < MaxAttempts[j]

\* Retries are bounded although nothing guards the updates: however late the
\* slow workers and reapers of a job write, it starts at most max_attempts times
\* and once more for every other process (markFailed, reapStuck, claimNext).
AttemptsBounded ==
  \A j \in Jobs : attempts[j] < MaxAttempts[j] + Cardinality(Workers)

\* A row is dead-lettered only when its retries are used up, also when the
\* decision was taken on a copy of the row (markFailed, reapStuck).
DeadOnlyWhenExhausted ==
  \A j \in Jobs : status[j] = "failed" => attempts[j] >= MaxAttempts[j]

\* A row says "done" only after a handler transaction of that job committed.
DoneOnlyAfterRun == \A j \in Jobs : status[j] = "done" => ran[j]

\* Two processes never run the same attempt of a job, and no copy is ahead of
\* its row: the claim is atomic (FOR UPDATE SKIP LOCKED, claimNext).
AttemptsAreExclusive ==
  \A v, w \in Workers :
    pc[v] \in Holding /\ pc[w] \in Holding /\ cjob[v] = cjob[w] =>
      /\ v # w => catt[v] # catt[w]
      /\ catt[w] <= attempts[cjob[w]]

\* A row that is queued or running is open to the one who enqueued it.
Outcome ==
  [j \in Jobs |-> IF status[j] \in {"queued", "running"} THEN "open" ELSE status[j]]

Pool == INSTANCE TaskPool WITH
  Tasks <- Jobs, Tries <- MaxAttempts, Processes <- Cardinality(Workers),
  outcome <- Outcome, tried <- attempts, worked <- ran

\* Seen from outside the queue is a pool of tasks: whatever rows slow workers, reapers
\* and faults overwrite, a job is done only after a handler of it committed, dead only
\* without retries, and re-opened only while another try stays within the bound
\* (job-queue.service.ts:34-36, at-least-once).
KeepsTaskPool == Pool!Spec

\* A settled job is re-opened only by a process that claimed or scanned it
\* before its retries were exhausted and writes after it settled; in particular
\* neither the reaper's own scan of a settled row nor a fresh claim re-opens it.
ReopenedOnlyByStaleCopy ==
  [][\A j \in Jobs :
       status[j] \in {"done", "failed"} /\ status'[j] = "queued" =>
         \E w \in Workers : Token(w, j) /\ ~Token(w, j)']_vars

\* The inductive strengthening of the invariants above: what every
\* copy knows is old, and how many re-queues are still outstanding.
Tokens(j) == {w \in Workers : Token(w, j)}

Waiting(j) == IF status[j] = "queued" THEN 1 ELSE 0

WithinBudget(j) ==
  attempts[j] >= MaxAttempts[j] =>
    attempts[j] + Waiting(j) + Cardinality(Tokens(j)) < MaxAttempts[j] + Cardinality(Workers)

RetryBudget == \A j \in Jobs : WithinBudget(j)

CopiesAreBehind ==
  \A w \in Workers :
    /\ pc[w] \in Holding => catt[w] <= attempts[cjob[w]]
    /\ \A r \in seen[w] : r.att <= attempts[r.job]

AbsentNeverClaimed == \A j \in Jobs : status[j] = "absent" => attempts[j] = 0

\* A row was claimed before anybody has a copy of it or settles it.
ClaimedFirst ==
  /\ \A j \in Jobs : status[j] \notin {"absent", "queued"} => attempts[j] > 0
  /\ \A w \in Workers :
       /\ pc[w] \in Holding => catt[w] > 0
       /\ \A r \in seen[w] : r.att > 0

MarkedDoneHasRun == \A w \in Workers : pc[w] = "markDone" => ran[cjob[w]]

IInv ==
  /\ TypeOK
  /\ AbsentNeverClaimed
  /\ ClaimedFirst
  /\ CopiesAreBehind
  /\ RetryBudget
  /\ DeadOnlyWhenExhausted
  /\ AttemptsAreExclusive
  /\ MarkedDoneHasRun
  /\ DoneOnlyAfterRun

\* Every enqueued job is settled in the end and stays settled, whatever workers
\* crashed, were slow or overwrote one another (at-least-once, ITGC-OP-04).
EventuallySettled ==
  \A j \in Jobs :
    status[j] # "absent" ~> [](status[j] \in {"done", "failed"})

\* job-queue.service.ts:101 says of a job that exhausts its retries that it
\* "will NEVER run again unless an operator intervenes".  No operator acts here.
DeadLetterIsFinal ==
  [][\A j \in Jobs : status[j] = "failed" => status'[j] \notin {"queued", "running"}]_vars

=============================================================================
