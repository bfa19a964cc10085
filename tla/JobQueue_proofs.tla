-------------------------- MODULE JobQueue_proofs --------------------------
(***************************************************************************)
(* Safety of the background-job queue for every set of jobs and processes. *)
(* IInv of JobQueue is inductive; the invariants of the run follow from it.*)
(***************************************************************************)
EXTENDS JobQueue, FiniteSetTheorems, TLAPS

USE JobsAssumption, MaxAttemptsAssumption, DrainMaxAssumption, MaxFaultsAssumption

(* The steps, grouped by what a proof has to distinguish.                  *)

\* The initial states are well typed and satisfy the strengthened invariant's
\* typing part (the defaults of background_jobs and of a fresh process).
LEMMA InitTyped == Init => TypeOK
BY DEF Init, TypeOK, Statuses, Phases, Holding, NoJob

\* Every step of the rows' clock and of enqueue() keeps the types.
LEMMA RowStepTyped ==
  ASSUME TypeOK, NEW j \in Jobs, Enqueue(j) \/ Time(j)
  PROVE  TypeOK'
<1>1. CASE Enqueue(j)
  BY <1>1 DEF TypeOK, Enqueue, Statuses, loopVars
<1>2. CASE BackoffElapses(j)
  BY <1>2 DEF TypeOK, BackoffElapses, loopVars
<1>3. CASE LockGrowsStale(j)
  BY <1>3 DEF TypeOK, LockGrowsStale, loopVars
<1>. QED  BY <1>1, <1>2, <1>3 DEF Time

\* Every step of a poll loop keeps the types.
LEMMA LoopStepTyped ==
  ASSUME TypeOK, NEW w \in Workers, Loop(w) \/ ReapIntervalElapses(w)
  PROVE  TypeOK'
<1>. USE DEF TypeOK, Phases, Holding, rowVars
<1>1. CASE Claim(w)
  BY <1>1 DEF Claim, Statuses
<1>2. CASE DrainEnds(w)
  BY <1>2 DEF DrainEnds
<1>3. CASE HandlerCommits(w)
  BY <1>3 DEF HandlerCommits
<1>4. CASE HandlerThrows(w)
  BY <1>4 DEF HandlerThrows
<1>5. CASE MarkDone(w)
  BY <1>5 DEF MarkDone, Release, NoJob, Statuses
<1>6. CASE MarkFailed(w)
  BY <1>6 DEF MarkFailed, Release, NoJob, Statuses, DeadLetter, Requeue
<1>7. CASE ReapThrottled(w)
  BY <1>7 DEF ReapThrottled
<1>8. CASE ReapScan(w)
  <2>1. StaleRows \in SUBSET Scan
    BY DEF StaleRows, Scan
  <2>. QED  BY <1>8, <2>1 DEF ReapScan
<1>9. CASE ReapWrite(w)
  <2>1. \A j \in Jobs : Expired(w, j) \in BOOLEAN
    BY DEF Expired
  <2>. QED  BY <1>9, <2>1 DEF ReapWrite, Statuses
<1>10. CASE Restart(w)
  BY <1>10 DEF Restart
<1>11. CASE ReapIntervalElapses(w)
  BY <1>11 DEF ReapIntervalElapses
<1>. QED
  BY <1>1, <1>2, <1>3, <1>4, <1>5, <1>6, <1>7, <1>8, <1>9, <1>10, <1>11 DEF Loop

\* Every fault keeps the types.
LEMMA FaultStepTyped ==
  ASSUME TypeOK, NEW w \in Workers, Faulty(w)
  PROVE  TypeOK'
<1>. USE DEF TypeOK, Phases, Holding, rowVars, Fault
<1>1. CASE ClaimThrows(w)
  BY <1>1 DEF ClaimThrows
<1>2. CASE MarkDoneThrows(w)
  BY <1>2 DEF MarkDoneThrows, Statuses
<1>3. CASE MarkFailedThrows(w)
  BY <1>3 DEF MarkFailedThrows, Release, NoJob
<1>4. CASE ReapThrows(w)
  BY <1>4 DEF ReapThrows
<1>5. CASE Crash(w)
  BY <1>5 DEF Crash, Release, NoJob
<1>. QED  BY <1>1, <1>2, <1>3, <1>4, <1>5 DEF Faulty

\* Every step of the rows and of the loops keeps the types.
LEMMA StepTyped == TypeOK /\ [Next]_vars => TypeOK'
<1>. SUFFICES ASSUME TypeOK, [Next]_vars  PROVE TypeOK'
  OBVIOUS
<1>1. CASE UNCHANGED vars
  BY <1>1 DEF TypeOK, vars
<1>2. CASE Next
  BY <1>2, RowStepTyped, LoopStepTyped, FaultStepTyped DEF Next
<1>. QED  BY <1>1, <1>2

\* The queue's rows and the poll loops keep their types (TypeOK of the run).
THEOREM TypeCorrect == Spec => []TypeOK
BY InitTyped, StepTyped, PTL DEF Spec

-----------------------------------------------------------------------------
(* Copies are behind their rows.                                           *)

\* No step lowers a row's attempts, and only its claim raises them.
LEMMA AttemptsGrow ==
  ASSUME TypeOK, [Next]_vars, NEW j \in Jobs
  PROVE  attempts[j] <= attempts'[j]
<1>1. CASE UNCHANGED attempts
  BY <1>1 DEF TypeOK
<1>2. CASE \E w \in Workers : Claim(w)
  BY <1>2 DEF Claim, TypeOK
<1>. QED
  BY <1>1, <1>2 DEF Next, Loop, Faulty, Time, vars, rowVars, Enqueue, BackoffElapses,
     LockGrowsStale, DrainEnds, HandlerCommits, HandlerThrows, MarkDone, MarkFailed,
     ReapThrottled, ReapScan, ReapWrite, Restart, ReapIntervalElapses, ClaimThrows,
     MarkDoneThrows, MarkFailedThrows, ReapThrows, Crash

\* A process keeps its copies, drops them, or takes them at a claim or a scan.
LEMMA CopiesFrame ==
  ASSUME TypeOK, [Next]_vars, NEW v \in Workers,
         ~Claim(v), ~ReapScan(v)
  PROVE  /\ pc'[v] \in Holding =>
              pc[v] \in Holding /\ cjob'[v] = cjob[v] /\ catt'[v] = catt[v]
         /\ pc'[v] = "reapWrite" => pc[v] = "reapWrite"
         /\ seen'[v] = seen[v] \/ seen'[v] = {}
<1>. USE DEF TypeOK, Holding, Phases
<1>1. CASE \E w \in Workers : Claim(w) \/ DrainEnds(w) \/ HandlerCommits(w) \/ HandlerThrows(w)
  BY <1>1 DEF Claim, DrainEnds, HandlerCommits, HandlerThrows
<1>2. CASE \E w \in Workers : MarkDone(w) \/ MarkFailed(w)
  BY <1>2 DEF MarkDone, MarkFailed, Release
<1>3. CASE \E w \in Workers : ReapThrottled(w) \/ ReapScan(w) \/ ReapWrite(w) \/ Restart(w)
  BY <1>3 DEF ReapThrottled, ReapScan, ReapWrite, Restart
<1>4. CASE \E w \in Workers : Faulty(w)
  BY <1>4 DEF Faulty, ClaimThrows, MarkDoneThrows, MarkFailedThrows, ReapThrows, Crash, Release
<1>5. CASE UNCHANGED <<pc, cjob, catt, seen>>
  BY <1>5
<1>. QED
  BY <1>1, <1>2, <1>3, <1>4, <1>5 DEF Next, Loop, Time, vars, loopVars, Enqueue,
     BackoffElapses, LockGrowsStale, ReapIntervalElapses

\* What a process read of a row never runs ahead of the row.
LEMMA CopiesStep == TypeOK /\ CopiesAreBehind /\ [Next]_vars => CopiesAreBehind'
<1>. SUFFICES ASSUME TypeOK, CopiesAreBehind, [Next]_vars, NEW v \in Workers
              PROVE  /\ pc'[v] \in Holding => catt'[v] <= attempts'[cjob'[v]]
                     /\ \A r \in seen'[v] : r.att <= attempts'[r.job]
  BY DEF CopiesAreBehind
<1>1. \A j \in Jobs : attempts[j] \in Nat /\ attempts'[j] \in Nat /\ attempts[j] <= attempts'[j]
  BY StepTyped, AttemptsGrow DEF TypeOK
<1>2. CASE Claim(v)
  BY <1>1, <1>2 DEF Claim, TypeOK, CopiesAreBehind, Scan
<1>3. CASE ReapScan(v)
  BY <1>1, <1>3 DEF ReapScan, StaleRows, TypeOK, CopiesAreBehind, Scan, Holding, rowVars
<1>4. CASE ~Claim(v) /\ ~ReapScan(v)
  <2>1. /\ pc'[v] \in Holding =>
              pc[v] \in Holding /\ cjob'[v] = cjob[v] /\ catt'[v] = catt[v]
        /\ seen'[v] = seen[v] \/ seen'[v] = {}
    BY <1>4, CopiesFrame
  <2>2. ASSUME pc'[v] \in Holding
        PROVE  catt'[v] <= attempts'[cjob'[v]]
    <3>1. cjob[v] \in Jobs /\ catt[v] \in Nat /\ catt[v] <= attempts[cjob[v]]
      BY <2>1, <2>2 DEF TypeOK, CopiesAreBehind
    <3>2. DEFINE k == cjob[v]
    <3>3. /\ attempts[k] \in Nat /\ attempts'[k] \in Nat /\ attempts[k] <= attempts'[k]
          /\ catt[v] \in Nat /\ catt[v] <= attempts[k]
      BY <1>1, <3>1
    <3>4. catt[v] <= attempts'[k]
      BY <3>3
    <3>. QED  BY <2>1, <2>2, <3>4
  <2>3. ASSUME NEW r \in seen'[v]
        PROVE  r.att <= attempts'[r.job]
    <3>1. r \in seen[v]
      BY <2>1
    <3>2. r.job \in Jobs /\ r.att \in Nat /\ r.att <= attempts[r.job]
      BY <3>1 DEF TypeOK, Scan, CopiesAreBehind
    <3>3. DEFINE k == r.job
    <3>4. /\ attempts[k] \in Nat /\ attempts'[k] \in Nat /\ attempts[k] <= attempts'[k]
          /\ r.att \in Nat /\ r.att <= attempts[k]
      BY <1>1, <3>2
    <3>. QED  BY <3>4
  <2>. QED  BY <2>2, <2>3
<1>. QED  BY <1>2, <1>3, <1>4

-----------------------------------------------------------------------------
(* The budget of re-queues.                                                *)

\* The processes that may still re-queue j are finitely many.
LEMMA TokensFinite ==
  ASSUME NEW j \in Jobs
  PROVE  /\ IsFiniteSet(Tokens(j))
         /\ Cardinality(Tokens(j)) \in Nat
         /\ Cardinality(Tokens(j)) <= Cardinality(Workers)
         /\ Cardinality(Workers) \in Nat
BY WorkersAssumption, FS_Subset, FS_CardinalityType DEF Tokens

\* The same in the next state: no process holds two tokens.
LEMMA TokensFiniteNext ==
  ASSUME NEW j \in Jobs
  PROVE  /\ IsFiniteSet(Tokens(j)')
         /\ Cardinality(Tokens(j)') \in Nat
BY WorkersAssumption, FS_Subset, FS_CardinalityType DEF Tokens

\* A step that adds no token, no waiting row and no attempt keeps the budget.
LEMMA BudgetKept ==
  ASSUME TypeOK, NEW j \in Jobs, WithinBudget(j),
         attempts'[j] = attempts[j],
         status'[j] = "queued" => status[j] = "queued",
         Tokens(j)' \subseteq Tokens(j)
  PROVE  WithinBudget(j)'
<1>1. Cardinality(Tokens(j)') <= Cardinality(Tokens(j))
  BY TokensFinite, FS_Subset
<1>2. Waiting(j) \in {0, 1} /\ Waiting(j)' \in {0, 1} /\ Waiting(j)' <= Waiting(j)
  BY DEF Waiting
<1>3. attempts[j] \in Nat /\ MaxAttempts[j] \in Nat
  BY DEF TypeOK
<1>. QED  BY <1>1, <1>2, <1>3, TokensFinite, TokensFiniteNext DEF WithinBudget

\* A late writer that re-queues a row spends its token on it.
LEMMA BudgetSpent ==
  ASSUME TypeOK, NEW j \in Jobs, WithinBudget(j),
         NEW w \in Tokens(j),
         attempts'[j] = attempts[j],
         Tokens(j)' \subseteq Tokens(j) \ {w}
  PROVE  WithinBudget(j)'
<1>1. Cardinality(Tokens(j)') <= Cardinality(Tokens(j)) - 1
  <2>1. /\ IsFiniteSet(Tokens(j) \ {w})
        /\ Cardinality(Tokens(j) \ {w}) = Cardinality(Tokens(j)) - 1
    BY TokensFinite, FS_RemoveElement
  <2>2. Cardinality(Tokens(j)') <= Cardinality(Tokens(j) \ {w})
    BY <2>1, FS_Subset
  <2>. QED  BY <2>1, <2>2
<1>2. Waiting(j) \in {0, 1} /\ Waiting(j)' \in {0, 1}
  BY DEF Waiting
<1>3. attempts[j] \in Nat /\ MaxAttempts[j] \in Nat
  BY DEF TypeOK
<1>. QED  BY <1>1, <1>2, <1>3, TokensFinite, TokensFiniteNext DEF WithinBudget

\* A claim turns a waiting row into an attempt; the claimer holds no token once
\* the attempts are exhausted.
LEMMA BudgetClaimed ==
  ASSUME TypeOK, NEW j \in Jobs, WithinBudget(j),
         NEW w \in Workers,
         status[j] = "queued", status'[j] = "running",
         attempts'[j] = attempts[j] + 1,
         attempts'[j] >= MaxAttempts[j] => Tokens(j)' \subseteq Tokens(j) \ {w}
  PROVE  WithinBudget(j)'
<1>1. SUFFICES ASSUME attempts'[j] >= MaxAttempts[j]
               PROVE  attempts'[j] + Waiting(j)' + Cardinality(Tokens(j)')
                        < MaxAttempts[j] + Cardinality(Workers)
  BY DEF WithinBudget
<1>2. Waiting(j) = 1 /\ Waiting(j)' = 0
  BY DEF Waiting
<1>3. attempts[j] \in Nat /\ MaxAttempts[j] \in Nat
  BY DEF TypeOK
<1>4. CASE attempts[j] >= MaxAttempts[j]
  <2>1. Cardinality(Tokens(j)') <= Cardinality(Tokens(j))
    BY <1>1, TokensFinite, FS_Subset
  <2>. QED  BY <1>2, <1>3, <1>4, <2>1, TokensFinite, TokensFiniteNext DEF WithinBudget
<1>5. CASE attempts[j] < MaxAttempts[j]
  <2>1. Tokens(j)' \subseteq Workers \ {w}
    BY <1>1 DEF Tokens
  <2>2. Cardinality(Tokens(j)') <= Cardinality(Workers) - 1
    <3>1. /\ IsFiniteSet(Workers \ {w})
          /\ Cardinality(Workers \ {w}) = Cardinality(Workers) - 1
      BY WorkersAssumption, FS_RemoveElement
    <3>2. Cardinality(Tokens(j)') <= Cardinality(Workers \ {w})
      BY <2>1, <3>1, FS_Subset
    <3>. QED  BY <3>1, <3>2
  <2>. QED  BY <1>2, <1>3, <1>5, <2>2, TokensFinite, TokensFiniteNext
<1>. QED  BY <1>3, <1>4, <1>5

\* A process that neither claims nor scans gains no token.
LEMMA NoNewToken ==
  ASSUME TypeOK, [Next]_vars, NEW j \in Jobs, NEW v \in Workers,
         ~Claim(v), ~ReapScan(v), Token(v, j)'
  PROVE  Token(v, j)
<1>1. CASE pc'[v] \in Holding /\ cjob'[v] = j /\ catt'[v] < MaxAttempts[j]
  BY <1>1, CopiesFrame DEF Token
<1>2. CASE pc'[v] = "reapWrite" /\ \E r \in seen'[v] : r.job = j /\ r.att < MaxAttempts[j]
  BY <1>2, CopiesFrame DEF Token
<1>. QED  BY <1>1, <1>2 DEF Token

\* Every re-queue spends a token, and a claim spends the waiting row: the budget holds.
LEMMA BudgetStep ==
  TypeOK /\ AbsentNeverClaimed /\ RetryBudget /\ [Next]_vars => RetryBudget'
<1>. SUFFICES ASSUME TypeOK, AbsentNeverClaimed, [Next]_vars,
                     NEW j \in Jobs, WithinBudget(j)
              PROVE  WithinBudget(j)'
  BY DEF RetryBudget
<1>1. CASE Enqueue(j)
  BY <1>1 DEF Enqueue, AbsentNeverClaimed, WithinBudget, TypeOK
<1>2. CASE \E w \in Workers : Claim(w)
  <2>1. PICK w \in Workers : Claim(w)
    BY <1>2
  <2>2. PICK k \in Jobs :
          /\ status[k] = "queued"
          /\ status' = [status EXCEPT ![k] = "running"]
          /\ attempts' = [attempts EXCEPT ![k] = @ + 1]
          /\ cjob' = [cjob EXCEPT ![w] = k]
          /\ catt' = [catt EXCEPT ![w] = attempts[k] + 1]
    BY <2>1 DEF Claim, Claimable
  <2>3. pc[w] = "poll" /\ pc' = [pc EXCEPT ![w] = "handler"]
    BY <2>1 DEF Claim
  <2>4. \A v \in Workers \ {w} : ~Claim(v) /\ ~ReapScan(v)
    BY <2>3 DEF Claim, ReapScan, TypeOK
  <2>5. \A v \in Workers \ {w} : Token(v, j)' => Token(v, j)
    BY <2>4, NoNewToken
  <2>6. CASE k = j
    <3>1. attempts'[j] >= MaxAttempts[j] => ~Token(w, j)'
      <4>1. pc'[w] = "handler" /\ catt'[w] = attempts[j] + 1
        BY <2>2, <2>3, <2>6 DEF TypeOK
      <4>2. attempts'[j] = attempts[j] + 1 /\ attempts[j] \in Nat /\ MaxAttempts[j] \in Nat
        BY <2>2, <2>6 DEF TypeOK
      <4>. QED  BY <4>1, <4>2 DEF Token
    <3>2. attempts'[j] >= MaxAttempts[j] => Tokens(j)' \subseteq Tokens(j) \ {w}
      BY <2>5, <3>1 DEF Tokens
    <3>3. status[j] = "queued" /\ status'[j] = "running" /\ attempts'[j] = attempts[j] + 1
      BY <2>2, <2>6 DEF TypeOK
    <3>. QED  BY <3>2, <3>3, BudgetClaimed
  <2>7. CASE k # j
    <3>1. ~Token(w, j)'
      BY <2>2, <2>3, <2>7 DEF Token, TypeOK, Holding
    <3>2. Tokens(j)' \subseteq Tokens(j)
      BY <2>5, <3>1 DEF Tokens
    <3>3. status'[j] = status[j] /\ attempts'[j] = attempts[j]
      BY <2>2, <2>7 DEF TypeOK
    <3>. QED  BY <3>2, <3>3, BudgetKept
  <2>. QED  BY <2>6, <2>7
<1>3. CASE \E w \in Workers : MarkFailed(w)
  <2>1. PICK w \in Workers : MarkFailed(w)
    BY <1>3
  <2>2. \A v \in Workers : ~Claim(v) /\ ~ReapScan(v)
    BY <2>1 DEF MarkFailed, Claim, ReapScan, TypeOK
  <2>3. Tokens(j)' \subseteq Tokens(j)
    BY <2>2, NoNewToken DEF Tokens
  <2>4. attempts'[j] = attempts[j]
    BY <2>1 DEF MarkFailed
  <2>5. CASE cjob[w] = j /\ catt[w] < MaxAttempts[j]
    <3>1. w \in Tokens(j)
      BY <2>1, <2>5 DEF MarkFailed, Tokens, Token, Holding
    <3>2. ~Token(w, j)'
      BY <2>1 DEF MarkFailed, Token, TypeOK, Holding
    <3>3. Tokens(j)' \subseteq Tokens(j) \ {w}
      BY <2>3, <3>2 DEF Tokens
    <3>. QED  BY <2>4, <3>1, <3>3, BudgetSpent
  <2>6. CASE ~(cjob[w] = j /\ catt[w] < MaxAttempts[j])
    <3>1. status'[j] = "queued" => status[j] = "queued"
      BY <2>1, <2>6 DEF MarkFailed, Requeue, DeadLetter, TypeOK
    <3>. QED  BY <2>3, <2>4, <3>1, BudgetKept
  <2>. QED  BY <2>5, <2>6
<1>4. CASE \E w \in Workers : ReapScan(w)
  <2>1. PICK w \in Workers : ReapScan(w)
    BY <1>4
  <2>2. \A v \in Workers \ {w} : ~Claim(v) /\ ~ReapScan(v)
    BY <2>1 DEF Claim, ReapScan, TypeOK
  <2>3. \A v \in Workers \ {w} : Token(v, j)' => Token(v, j)
    BY <2>2, NoNewToken
  <2>4. attempts'[j] = attempts[j] /\ status'[j] = status[j]
    BY <2>1 DEF ReapScan, rowVars
  <2>5. CASE attempts[j] < MaxAttempts[j]
    BY <2>4, <2>5 DEF WithinBudget, TypeOK
  <2>6. CASE attempts[j] >= MaxAttempts[j]
    <3>1. ~Token(w, j)'
      BY <2>1, <2>6 DEF ReapScan, Token, StaleRows, TypeOK, Holding
    <3>2. Tokens(j)' \subseteq Tokens(j)
      BY <2>3, <3>1 DEF Tokens
    <3>. QED  BY <2>4, <3>2, BudgetKept
  <2>. QED  BY <2>5, <2>6 DEF TypeOK
<1>5. CASE \E w \in Workers : ReapWrite(w)
  <2>1. PICK w \in Workers : ReapWrite(w)
    BY <1>5
  <2>2. \A v \in Workers : ~Claim(v) /\ ~ReapScan(v)
    BY <2>1 DEF ReapWrite, Claim, ReapScan, TypeOK
  <2>3. Tokens(j)' \subseteq Tokens(j)
    BY <2>2, NoNewToken DEF Tokens
  <2>4. attempts'[j] = attempts[j]
    BY <2>1 DEF ReapWrite
  <2>5. CASE Expired(w, j)
    <3>1. w \in Tokens(j)
      BY <2>1, <2>5 DEF ReapWrite, Tokens, Token, Expired
    <3>2. ~Token(w, j)'
      BY <2>1 DEF ReapWrite, Token, TypeOK, Holding
    <3>3. Tokens(j)' \subseteq Tokens(j) \ {w}
      BY <2>3, <3>2 DEF Tokens
    <3>. QED  BY <2>4, <3>1, <3>3, BudgetSpent
  <2>6. CASE ~Expired(w, j)
    <3>1. status'[j] = "queued" => status[j] = "queued"
      BY <2>1, <2>6 DEF ReapWrite
    <3>. QED  BY <2>3, <2>4, <3>1, BudgetKept
  <2>. QED  BY <2>5, <2>6
<1>6. CASE /\ ~Enqueue(j)
           /\ \A w \in Workers : /\ ~Claim(w) /\ ~MarkFailed(w)
                                /\ ~ReapScan(w) /\ ~ReapWrite(w)
  <2>1. Tokens(j)' \subseteq Tokens(j)
    BY <1>6, NoNewToken DEF Tokens
  <2>2. attempts'[j] = attempts[j] /\ (status'[j] = "queued" => status[j] = "queued")
    BY <1>6 DEF Next, Loop, Faulty, Time, vars, rowVars, Enqueue, BackoffElapses,
       LockGrowsStale, DrainEnds, HandlerCommits, HandlerThrows, MarkDone, ReapThrottled,
       Restart, ReapIntervalElapses, ClaimThrows, MarkDoneThrows, MarkFailedThrows,
       ReapThrows, Crash, TypeOK
  <2>. QED  BY <2>1, <2>2, BudgetKept
<1>. QED  BY <1>1, <1>2, <1>3, <1>4, <1>5, <1>6

-----------------------------------------------------------------------------
(* The other invariants, and the theorem.                                  *)

\* A row that was not inserted was not claimed.
LEMMA AbsentStep == TypeOK /\ AbsentNeverClaimed /\ [Next]_vars => AbsentNeverClaimed'
<1>. SUFFICES ASSUME TypeOK, AbsentNeverClaimed, [Next]_vars, NEW j \in Jobs,
                     status'[j] = "absent"
              PROVE  attempts'[j] = 0
  BY DEF AbsentNeverClaimed
<1>1. CASE \E w \in Workers : Claim(w)
  BY <1>1 DEF Claim, AbsentNeverClaimed, TypeOK
<1>2. CASE \A w \in Workers : ~Claim(w)
  <2>1. attempts'[j] = attempts[j] /\ status[j] = "absent"
    BY <1>2 DEF Next, Loop, Faulty, Time, vars, rowVars, Enqueue, BackoffElapses,
       LockGrowsStale, DrainEnds, HandlerCommits, HandlerThrows, MarkDone, MarkFailed,
       Requeue, DeadLetter, ReapThrottled, ReapScan, ReapWrite, Restart,
       ReapIntervalElapses, ClaimThrows, MarkDoneThrows, MarkFailedThrows, ReapThrows,
       Crash, TypeOK
  <2>. QED  BY <2>1 DEF AbsentNeverClaimed
<1>. QED  BY <1>1, <1>2

\* A row somebody has a copy of was claimed.
LEMMA CopiesTell ==
  ASSUME TypeOK, CopiesAreBehind, ClaimedFirst, NEW w \in Workers
  PROVE  /\ pc[w] \in Holding => cjob[w] \in Jobs /\ attempts[cjob[w]] > 0
         /\ \A r \in seen[w] : r.job \in Jobs /\ attempts[r.job] > 0
<1>1. \A a, b \in Nat : b > 0 /\ b <= a => a > 0
  OBVIOUS
<1>2. \A j \in Jobs : attempts[j] \in Nat
  BY DEF TypeOK
<1>3. ASSUME pc[w] \in Holding
      PROVE  cjob[w] \in Jobs /\ attempts[cjob[w]] > 0
  <2>1. cjob[w] \in Jobs /\ catt[w] \in Nat
    BY <1>3 DEF TypeOK
  <2>2. catt[w] > 0 /\ catt[w] <= attempts[cjob[w]]
    BY <1>3 DEF CopiesAreBehind, ClaimedFirst
  <2>. QED  BY <1>1, <1>2, <2>1, <2>2
<1>4. ASSUME NEW r \in seen[w]
      PROVE  r.job \in Jobs /\ attempts[r.job] > 0
  <2>1. r.job \in Jobs /\ r.att \in Nat
    BY DEF TypeOK, Scan
  <2>2. r.att > 0 /\ r.att <= attempts[r.job]
    BY DEF CopiesAreBehind, ClaimedFirst
  <2>. QED  BY <1>1, <1>2, <2>1, <2>2
<1>. QED  BY <1>3, <1>4

\* Whoever has a copy of a row has it from a claim or from a scan of a claimed row.
LEMMA ClaimedFirstStep ==
  TypeOK /\ CopiesAreBehind /\ ClaimedFirst /\ [Next]_vars => ClaimedFirst'
<1>. SUFFICES ASSUME TypeOK, CopiesAreBehind, ClaimedFirst, [Next]_vars  PROVE ClaimedFirst'
  OBVIOUS
<1>1. \A j \in Jobs : attempts[j] \in Nat /\ attempts'[j] \in Nat /\ attempts[j] <= attempts'[j]
  BY StepTyped, AttemptsGrow DEF TypeOK
<1>2. \A w \in Workers : pc[w] \in Holding => cjob[w] \in Jobs /\ attempts[cjob[w]] > 0
  BY CopiesTell
<1>3. \A w \in Workers : \A r \in seen[w] : r.job \in Jobs /\ attempts[r.job] > 0
  BY CopiesTell
<1>4. ASSUME NEW j \in Jobs, status'[j] \notin {"absent", "queued"}
      PROVE  attempts'[j] > 0
  <2>1. attempts[j] > 0 => attempts'[j] > 0
    BY <1>1
  <2>2. status'[j] = status[j] => attempts'[j] > 0
    BY <1>4, <2>1 DEF ClaimedFirst
  <2>3. ASSUME NEW w \in Workers, Claim(w)  PROVE attempts'[j] > 0
    BY <1>1, <2>2, <2>3 DEF Claim, TypeOK
  <2>4. ASSUME NEW w \in Workers, MarkDone(w) \/ MarkDoneThrows(w) \/ MarkFailed(w)
        PROVE  attempts'[j] > 0
    <3>1. cjob[w] # j => status'[j] = status[j]
      BY <2>4 DEF MarkDone, MarkDoneThrows, MarkFailed, Requeue, DeadLetter, TypeOK
    <3>2. pc[w] \in Holding
      BY <2>4 DEF MarkDone, MarkDoneThrows, MarkFailed, Holding
    <3>. QED  BY <1>2, <2>1, <2>2, <3>1, <3>2
  <2>5. ASSUME NEW w \in Workers, ReapWrite(w)  PROVE attempts'[j] > 0
    <3>1. CASE Expired(w, j) \/ Exhausted(w, j)
      BY <1>3, <2>1, <3>1 DEF Expired, Exhausted
    <3>2. CASE ~(Expired(w, j) \/ Exhausted(w, j))
      BY <2>2, <2>5, <3>2 DEF ReapWrite
    <3>. QED  BY <3>1, <3>2
  <2>6. ASSUME NEW i \in Jobs, Enqueue(i) \/ Time(i)  PROVE status'[j] = status[j]
    BY <1>4, <2>6 DEF Enqueue, Time, BackoffElapses, LockGrowsStale, TypeOK
  <2>7. ASSUME \A w \in Workers : /\ ~Claim(w) /\ ~MarkDone(w) /\ ~MarkDoneThrows(w)
                                  /\ ~MarkFailed(w) /\ ~ReapWrite(w),
               \A i \in Jobs : ~Enqueue(i) /\ ~Time(i)
        PROVE  status'[j] = status[j]
    BY <2>7 DEF Next, Loop, Faulty, vars, rowVars, DrainEnds, HandlerCommits,
       HandlerThrows, ReapThrottled, ReapScan, Restart, ReapIntervalElapses, ClaimThrows,
       MarkFailedThrows, ReapThrows, Crash
  <2>. QED  BY <2>2, <2>3, <2>4, <2>5, <2>6, <2>7
<1>5. ASSUME NEW v \in Workers
      PROVE  /\ pc'[v] \in Holding => catt'[v] > 0
             /\ \A r \in seen'[v] : r.att > 0
  <2>1. CASE Claim(v)
    BY <1>1, <2>1 DEF Claim, TypeOK, ClaimedFirst
  <2>2. CASE ReapScan(v)
    BY <2>2 DEF ReapScan, StaleRows, TypeOK, ClaimedFirst, Holding
  <2>3. CASE ~Claim(v) /\ ~ReapScan(v)
    BY <2>3, CopiesFrame DEF ClaimedFirst
  <2>. QED  BY <2>1, <2>2, <2>3
<1>. QED  BY <1>4, <1>5 DEF ClaimedFirst

\* Dead-lettering decides on copies, and copies are behind their rows.
LEMMA DeadStep ==
  TypeOK /\ CopiesAreBehind /\ DeadOnlyWhenExhausted /\ [Next]_vars => DeadOnlyWhenExhausted'
<1>. SUFFICES ASSUME TypeOK, CopiesAreBehind, DeadOnlyWhenExhausted, [Next]_vars,
                     NEW j \in Jobs, status'[j] = "failed"
              PROVE  attempts'[j] >= MaxAttempts[j]
  BY DEF DeadOnlyWhenExhausted
<1>1. attempts[j] \in Nat /\ attempts'[j] \in Nat /\ MaxAttempts[j] \in Nat
      /\ attempts[j] <= attempts'[j]
  BY StepTyped, AttemptsGrow DEF TypeOK
<1>2. SUFFICES attempts[j] >= MaxAttempts[j]
  BY <1>1
<1>3. CASE \E w \in Workers : MarkFailed(w)
  <2>1. PICK w \in Workers : MarkFailed(w)
    BY <1>3
  <2>2. CASE status[j] = "failed"
    BY <2>2 DEF DeadOnlyWhenExhausted
  <2>3. CASE status[j] # "failed"
    <3>1. cjob[w] = j /\ catt[w] >= MaxAttempts[j]
      BY <2>1, <2>3 DEF MarkFailed, Requeue, DeadLetter, TypeOK
    <3>2. catt[w] \in Nat /\ catt[w] <= attempts[j]
      BY <2>1, <3>1 DEF MarkFailed, CopiesAreBehind, Holding, TypeOK
    <3>. QED  BY <1>1, <3>1, <3>2
  <2>. QED  BY <2>2, <2>3
<1>4. CASE \E w \in Workers : ReapWrite(w)
  <2>1. PICK w \in Workers : ReapWrite(w)
    BY <1>4
  <2>2. CASE status[j] = "failed"
    BY <2>2 DEF DeadOnlyWhenExhausted
  <2>3. CASE status[j] # "failed"
    <3>1. PICK r \in seen[w] : r.job = j /\ r.att >= MaxAttempts[j]
      BY <2>1, <2>3 DEF ReapWrite, Exhausted, TypeOK
    <3>2. r.att \in Nat /\ r.att <= attempts[j]
      BY <3>1 DEF CopiesAreBehind, TypeOK, Scan
    <3>. QED  BY <1>1, <3>1, <3>2
  <2>. QED  BY <2>2, <2>3
<1>5. CASE \A w \in Workers : ~MarkFailed(w) /\ ~ReapWrite(w)
  <2>1. status[j] = "failed"
    BY <1>5 DEF Next, Loop, Faulty, Time, vars, rowVars, Enqueue, BackoffElapses,
       LockGrowsStale, Claim, DrainEnds, HandlerCommits, HandlerThrows, MarkDone,
       ReapThrottled, ReapScan, Restart, ReapIntervalElapses, ClaimThrows,
       MarkDoneThrows, MarkFailedThrows, ReapThrows, Crash, TypeOK
  <2>. QED  BY <2>1 DEF DeadOnlyWhenExhausted
<1>. QED  BY <1>3, <1>4, <1>5

\* A claim takes an attempt number above every copy that is about.
LEMMA ExclusiveStep ==
  TypeOK /\ CopiesAreBehind /\ AttemptsAreExclusive /\ [Next]_vars => AttemptsAreExclusive'
<1>. SUFFICES ASSUME TypeOK, CopiesAreBehind, AttemptsAreExclusive, [Next]_vars,
                     NEW u \in Workers, NEW v \in Workers,
                     pc'[u] \in Holding, pc'[v] \in Holding, cjob'[u] = cjob'[v]
              PROVE  /\ u # v => catt'[u] # catt'[v]
                     /\ catt'[v] <= attempts'[cjob'[v]]
  BY DEF AttemptsAreExclusive
<1>1. catt'[v] <= attempts'[cjob'[v]]
  BY CopiesStep DEF CopiesAreBehind
<1>2. ASSUME NEW x \in Workers, NEW y \in Workers, x # y, Claim(x),
             pc'[y] \in Holding, cjob'[x] = cjob'[y]
      PROVE  catt'[x] # catt'[y]
  <2>1. ~Claim(y) /\ ~ReapScan(y)
    <3>1. pc' = [pc EXCEPT ![x] = "handler"]
      BY <1>2 DEF Claim
    <3>2. pc[y] \in Holding
      BY <1>2, <3>1 DEF TypeOK
    <3>. QED  BY <3>2 DEF Claim, ReapScan, Holding
  <2>2. pc[y] \in Holding /\ cjob'[y] = cjob[y] /\ catt'[y] = catt[y]
    BY <1>2, <2>1, CopiesFrame
  <2>3. PICK k \in Jobs : cjob'[x] = k /\ catt'[x] = attempts[k] + 1
    BY <1>2 DEF Claim, TypeOK
  <2>4. cjob[y] = k /\ catt[y] \in Nat /\ catt[y] <= attempts[k] /\ attempts[k] \in Nat
    BY <1>2, <2>2, <2>3 DEF CopiesAreBehind, TypeOK
  <2>. QED  BY <2>2, <2>3, <2>4
<1>3. CASE Claim(u) \/ Claim(v)
  BY <1>1, <1>2, <1>3
<1>4. CASE ~Claim(u) /\ ~Claim(v)
  <2>1. ~ReapScan(u) /\ ~ReapScan(v)
    BY DEF ReapScan, TypeOK, Holding
  <2>2. /\ pc[u] \in Holding /\ cjob'[u] = cjob[u] /\ catt'[u] = catt[u]
        /\ pc[v] \in Holding /\ cjob'[v] = cjob[v] /\ catt'[v] = catt[v]
    BY <1>4, <2>1, CopiesFrame
  <2>. QED  BY <1>1, <2>2 DEF AttemptsAreExclusive
<1>. QED  BY <1>3, <1>4

\* A loop is at markDone only behind a committed handler, so a row is.
LEMMA DoneStep ==
  TypeOK /\ MarkedDoneHasRun /\ DoneOnlyAfterRun /\ [Next]_vars
    => MarkedDoneHasRun' /\ DoneOnlyAfterRun'
<1>. SUFFICES ASSUME TypeOK, MarkedDoneHasRun, DoneOnlyAfterRun, [Next]_vars
              PROVE  MarkedDoneHasRun' /\ DoneOnlyAfterRun'
  OBVIOUS
<1>. USE DEF TypeOK, MarkedDoneHasRun, DoneOnlyAfterRun, Holding, rowVars, loopVars
<1>1. CASE \E j \in Jobs : Enqueue(j) \/ Time(j)
  BY <1>1 DEF Enqueue, Time, BackoffElapses, LockGrowsStale
<1>2. CASE \E w \in Workers : Claim(w)
  BY <1>2 DEF Claim
<1>3. CASE \E w \in Workers : HandlerCommits(w)
  BY <1>3 DEF HandlerCommits
<1>4. CASE \E w \in Workers : MarkDone(w) \/ MarkDoneThrows(w)
  BY <1>4 DEF MarkDone, MarkDoneThrows, Release
<1>5. CASE \E w \in Workers : MarkFailed(w)
  BY <1>5 DEF MarkFailed, Requeue, DeadLetter, Release
<1>6. CASE \E w \in Workers : ReapWrite(w)
  BY <1>6 DEF ReapWrite
<1>7. CASE \E w \in Workers :
             \/ DrainEnds(w) \/ HandlerThrows(w) \/ ReapThrottled(w) \/ ReapScan(w)
             \/ Restart(w) \/ ReapIntervalElapses(w)
  BY <1>7 DEF DrainEnds, HandlerThrows, ReapThrottled, ReapScan, Restart, ReapIntervalElapses
<1>8. CASE \E w \in Workers :
             ClaimThrows(w) \/ MarkFailedThrows(w) \/ ReapThrows(w) \/ Crash(w)
  BY <1>8 DEF ClaimThrows, MarkFailedThrows, ReapThrows, Crash, Release
<1>9. CASE UNCHANGED vars
  BY <1>9 DEF vars
<1>. QED
  BY <1>1, <1>2, <1>3, <1>4, <1>5, <1>6, <1>7, <1>8, <1>9 DEF Next, Loop, Faulty

\* The strengthened invariant holds initially ...
LEMMA InitInvariant == Init => IInv
<1>. SUFFICES ASSUME Init  PROVE IInv
  OBVIOUS
<1>1. TypeOK
  BY InitTyped
<1>2. RetryBudget
  BY DEF Init, RetryBudget, WithinBudget
<1>3. /\ AbsentNeverClaimed /\ CopiesAreBehind /\ DeadOnlyWhenExhausted
      /\ AttemptsAreExclusive /\ MarkedDoneHasRun /\ DoneOnlyAfterRun
  BY DEF Init, AbsentNeverClaimed, CopiesAreBehind, DeadOnlyWhenExhausted,
     AttemptsAreExclusive, MarkedDoneHasRun, DoneOnlyAfterRun, Holding
<1>4. ClaimedFirst
  BY DEF Init, ClaimedFirst, Holding
<1>. QED  BY <1>1, <1>2, <1>3, <1>4 DEF IInv

\* ... and is kept by every step.
LEMMA StepInvariant == IInv /\ [Next]_vars => IInv'
BY StepTyped, AbsentStep, ClaimedFirstStep, CopiesStep, BudgetStep, DeadStep, ExclusiveStep, DoneStep DEF IInv

\* The budget bounds the attempts of every job.
LEMMA BudgetBoundsAttempts == TypeOK /\ RetryBudget => AttemptsBounded
<1>. SUFFICES ASSUME TypeOK, NEW j \in Jobs, WithinBudget(j)
              PROVE  attempts[j] < MaxAttempts[j] + Cardinality(Workers)
  BY DEF RetryBudget, AttemptsBounded
<1>1. /\ attempts[j] \in Nat /\ MaxAttempts[j] \in Nat /\ Waiting(j) \in {0, 1}
      /\ Cardinality(Tokens(j)) \in Nat /\ Cardinality(Workers) \in Nat
  BY TokensFinite DEF TypeOK, Waiting
<1>. QED  BY <1>1 DEF WithinBudget

\* However many processes write late, a job starts at most max_attempts times
\* and once more for every other process.
THEOREM RetriesBounded == Spec => []AttemptsBounded
<1>1. IInv => AttemptsBounded
  BY BudgetBoundsAttempts DEF IInv
<1>. QED  BY <1>1, InitInvariant, StepInvariant, PTL DEF Spec

\* A dead letter has used up its retries, whoever decided it on whatever copy.
THEOREM DeadLettersExhausted == Spec => []DeadOnlyWhenExhausted
<1>1. IInv => DeadOnlyWhenExhausted
  BY DEF IInv
<1>. QED  BY <1>1, InitInvariant, StepInvariant, PTL DEF Spec

\* No two processes run the same attempt of a job.
THEOREM ClaimsExclusive == Spec => []AttemptsAreExclusive
<1>1. IInv => AttemptsAreExclusive
  BY DEF IInv
<1>. QED  BY <1>1, InitInvariant, StepInvariant, PTL DEF Spec

\* A job is recorded as done only after its handler committed.
THEOREM DoneHasRun == Spec => []DoneOnlyAfterRun
<1>1. IInv => DoneOnlyAfterRun
  BY DEF IInv
<1>. QED  BY <1>1, InitInvariant, StepInvariant, PTL DEF Spec

\* Whoever re-queues a settled job gives up a token for it.
LEMMA ReopenStep ==
  ASSUME TypeOK, [Next]_vars, NEW j \in Jobs,
         status[j] \in {"done", "failed"}, status'[j] = "queued"
  PROVE  \E w \in Workers : Token(w, j) /\ ~Token(w, j)'
<1>. USE DEF TypeOK
<1>1. ASSUME NEW w \in Workers, MarkFailed(w)
      PROVE  Token(w, j) /\ ~Token(w, j)'
  <2>1. cjob[w] \in Jobs /\ cjob[w] = j /\ catt[w] < MaxAttempts[j]
    BY <1>1, MaxAttemptsAssumption DEF MarkFailed, DeadLetter, Requeue, Holding
  <2>2. pc[w] = "markFailed" /\ pc'[w] = "poll"
    BY <1>1 DEF MarkFailed
  <2>. QED  BY <2>1, <2>2 DEF Token, Holding
<1>2. ASSUME NEW w \in Workers, ReapWrite(w)
      PROVE  Token(w, j) /\ ~Token(w, j)'
  <2>1. Expired(w, j)
    BY <1>2 DEF ReapWrite
  <2>2. pc[w] = "reapWrite" /\ pc'[w] = "poll"
    BY <1>2 DEF ReapWrite
  <2>. QED  BY <2>1, <2>2 DEF Token, Holding, Expired
<1>3. ASSUME NEW i \in Jobs, Enqueue(i) \/ Time(i)  PROVE FALSE
  BY <1>3 DEF Enqueue, Time, BackoffElapses, LockGrowsStale
<1>4. ASSUME NEW w \in Workers,
             Claim(w) \/ MarkDone(w) \/ MarkDoneThrows(w)
      PROVE  FALSE
  BY <1>4 DEF Claim, MarkDone, MarkDoneThrows
<1>5. status' # status
  OBVIOUS
<1>6. ASSUME NEW w \in Workers,
             \/ DrainEnds(w) \/ HandlerCommits(w) \/ HandlerThrows(w) \/ ReapThrottled(w)
             \/ ReapScan(w) \/ Restart(w) \/ ReapIntervalElapses(w) \/ ClaimThrows(w)
             \/ MarkFailedThrows(w) \/ ReapThrows(w) \/ Crash(w)
      PROVE  FALSE
  BY <1>5, <1>6 DEF DrainEnds, HandlerCommits, HandlerThrows, ReapThrottled, ReapScan,
     Restart, ReapIntervalElapses, ClaimThrows, MarkFailedThrows, ReapThrows, Crash, rowVars
<1>7. ~UNCHANGED vars
  BY <1>5 DEF vars
<1>. QED
  BY <1>1, <1>2, <1>3, <1>4, <1>6, <1>7 DEF Next, Loop, Faulty

\* A settled job is re-opened only from a copy older than its last attempt.
THEOREM ReopenedByToken == Spec => ReopenedOnlyByStaleCopy
<1>1. TypeOK /\ [Next]_vars =>
        [\A j \in Jobs :
           status[j] \in {"done", "failed"} /\ status'[j] = "queued" =>
             \E w \in Workers : Token(w, j) /\ ~Token(w, j)']_vars
  BY ReopenStep
<1>. QED  BY <1>1, TypeCorrect, PTL DEF Spec, ReopenedOnlyByStaleCopy

\* Only a claim starts a job, and it starts a queued one.
LEMMA OnlyClaimsStart ==
  ASSUME TypeOK, [Next]_vars, NEW j \in Jobs, status'[j] = "running"
  PROVE  status[j] \in {"queued", "running"}
<1>. USE DEF TypeOK
<1>1. CASE status' = status
  BY <1>1
<1>2. ASSUME NEW i \in Jobs, Enqueue(i) \/ Time(i)
      PROVE  status[j] \in {"queued", "running"}
  BY <1>2 DEF Enqueue, Time, BackoffElapses, LockGrowsStale
<1>3. ASSUME NEW w \in Workers, Claim(w)
      PROVE  status[j] \in {"queued", "running"}
  BY <1>3 DEF Claim, Claimable
<1>4. ASSUME NEW w \in Workers, MarkDone(w) \/ MarkDoneThrows(w)
      PROVE  status[j] \in {"queued", "running"}
  BY <1>4 DEF MarkDone, MarkDoneThrows
<1>5. ASSUME NEW w \in Workers, MarkFailed(w)
      PROVE  status[j] \in {"queued", "running"}
  BY <1>5 DEF MarkFailed, Requeue, DeadLetter
<1>6. ASSUME NEW w \in Workers, ReapWrite(w)
      PROVE  status[j] \in {"queued", "running"}
  BY <1>6 DEF ReapWrite
<1>7. ASSUME NEW w \in Workers,
             \/ DrainEnds(w) \/ HandlerCommits(w) \/ HandlerThrows(w) \/ ReapThrottled(w)
             \/ ReapScan(w) \/ Restart(w) \/ ReapIntervalElapses(w) \/ ClaimThrows(w)
             \/ MarkFailedThrows(w) \/ ReapThrows(w) \/ Crash(w)
      PROVE  status' = status
  BY <1>7 DEF DrainEnds, HandlerCommits, HandlerThrows, ReapThrottled, ReapScan,
     Restart, ReapIntervalElapses, ClaimThrows, MarkFailedThrows, ReapThrows, Crash, rowVars
<1>8. CASE UNCHANGED vars
  BY <1>1, <1>8 DEF vars
<1>. QED
  BY <1>1, <1>2, <1>3, <1>4, <1>5, <1>6, <1>7, <1>8 DEF Next, Loop, Faulty

\* The comment on markFailed holds in a deployment with one process: nobody else has an
\* old copy of a dead letter, so it never runs again.
THEOREM OneProcessDeadLettersFinal ==
  ASSUME Cardinality(Workers) = 1
  PROVE  Spec => DeadLetterIsFinal
<1>1. ASSUME IInv, [Next]_vars, NEW j \in Jobs, status[j] = "failed"
      PROVE  status'[j] \notin {"queued", "running"}
  <2>1. TypeOK
    BY <1>1 DEF IInv
  <2>2. attempts[j] \in Nat /\ MaxAttempts[j] \in Nat /\ attempts[j] >= MaxAttempts[j]
    BY <1>1, <2>1, MaxAttemptsAssumption DEF IInv, DeadOnlyWhenExhausted, TypeOK
  <2>3. attempts[j] + 0 + Cardinality(Tokens(j)) < MaxAttempts[j] + Cardinality(Workers)
    BY <1>1, <2>2 DEF IInv, RetryBudget, WithinBudget, Waiting
  <2>4. Tokens(j) = {}
    <3>1. IsFiniteSet(Tokens(j)) /\ Cardinality(Tokens(j)) \in Nat
      BY TokensFinite
    <3>2. Cardinality(Tokens(j)) = 0
      BY <2>2, <2>3, <3>1
    <3>. QED  BY <3>1, <3>2, FS_EmptySet
  <2>5. status'[j] # "queued"
    BY <1>1, <2>1, <2>4, ReopenStep DEF Tokens
  <2>6. status'[j] # "running"
    BY <1>1, <2>1, OnlyClaimsStart
  <2>. QED  BY <2>5, <2>6
<1>2. IInv /\ [Next]_vars =>
        [\A j \in Jobs : status[j] = "failed" => status'[j] \notin {"queued", "running"}]_vars
  BY <1>1
<1>. QED  BY <1>2, InitInvariant, StepInvariant, PTL DEF Spec, DeadLetterIsFinal
-----------------------------------------------------------------------------
(* The queue is a pool of tasks.                                           *)

LEMMA PoolStarts == Init => Pool!Init
BY DEF Init, Pool!Init, Outcome

\* A row that is queued may be claimed within the bound.
RoomToTry ==
  Workers # {} =>
    \A j \in Jobs :
      status[j] = "queued" => attempts[j] + 1 < MaxAttempts[j] + Cardinality(Workers)

LEMMA BudgetLeavesRoom == TypeOK /\ RetryBudget => RoomToTry
<1>. SUFFICES ASSUME TypeOK, Workers # {}, NEW j \in Jobs, WithinBudget(j), status[j] = "queued"
              PROVE  attempts[j] + 1 < MaxAttempts[j] + Cardinality(Workers)
  BY DEF RetryBudget, RoomToTry
<1>1. /\ attempts[j] \in Nat /\ MaxAttempts[j] \in Nat /\ Waiting(j) = 1
      /\ Cardinality(Tokens(j)) \in Nat /\ Cardinality(Workers) \in Nat
  BY TokensFinite DEF TypeOK, Waiting
<1>2. Cardinality(Workers) > 0
  BY <1>1, WorkersAssumption, FS_EmptySet
<1>. QED  BY <1>1, <1>2 DEF WithinBudget

\* The steps of the pool as steps of a row.
RowStep(j) ==
  LET kept == attempts'[j] = attempts[j] /\ ran'[j] = ran[j] IN
  \/ kept /\ status[j] = "absent" /\ status'[j] = "queued"
  \/ /\ status[j] = "queued" /\ status'[j] = "running" /\ ran'[j] = ran[j]
     /\ attempts'[j] = attempts[j] + 1
  \/ status'[j] = status[j] /\ attempts'[j] = attempts[j] /\ attempts[j] > 0 /\ ran'[j]
  \/ kept /\ ran[j] /\ status'[j] = "done"
  \/ kept /\ status[j] # "absent" /\ status'[j] = "failed"
  \/ kept /\ status[j] # "absent" /\ status'[j] = "queued"
  \/ kept /\ status'[j] = status[j]

\* Every row takes such a step, whatever process writes it.
LEMMA RowsStep ==
  ASSUME IInv, [Next]_vars, NEW j \in Jobs
  PROVE  RowStep(j)
<1>. USE DEF RowStep
<1>1. TypeOK /\ AbsentNeverClaimed
  BY DEF IInv
<1>1a. \A k \in Jobs : attempts[k] > 0 => status[k] # "absent"
  BY <1>1 DEF AbsentNeverClaimed
<1>2. \A w \in Workers :
        pc[w] \in Holding =>
          cjob[w] \in Jobs /\ attempts[cjob[w]] > 0 /\ status[cjob[w]] # "absent"
  BY <1>1a, CopiesTell DEF IInv
<1>3. \A w \in Workers : \A r \in seen[w] : status[r.job] # "absent"
  BY <1>1a, CopiesTell DEF IInv
<1>4. ASSUME NEW i \in Jobs, Enqueue(i) \/ Time(i)  PROVE RowStep(j)
  BY <1>1, <1>4 DEF Enqueue, Time, BackoffElapses, LockGrowsStale, TypeOK
<1>5. ASSUME NEW w \in Workers, Claim(w)  PROVE RowStep(j)
  BY <1>1, <1>5 DEF Claim, Claimable, TypeOK
<1>6. ASSUME NEW w \in Workers, HandlerCommits(w)  PROVE RowStep(j)
  <2>1. pc[w] \in Holding /\ UNCHANGED <<status, attempts>>
        /\ ran' = [ran EXCEPT ![cjob[w]] = TRUE]
    BY <1>6 DEF HandlerCommits, rowVars, Holding
  <2>2. ran \in [Jobs -> BOOLEAN]
    BY <1>1 DEF TypeOK
  <2>. QED  BY <1>2, <2>1, <2>2
<1>7. ASSUME NEW w \in Workers, MarkDone(w) \/ MarkDoneThrows(w)  PROVE RowStep(j)
  <2>1. ran[cjob[w]] /\ cjob[w] \in Jobs
    BY <1>1, <1>7 DEF MarkDone, MarkDoneThrows, IInv, MarkedDoneHasRun, TypeOK, Holding
  <2>2. status \in [Jobs -> Statuses]
    BY <1>1 DEF TypeOK
  <2>. QED  BY <1>7, <2>1, <2>2 DEF MarkDone, MarkDoneThrows
<1>8. ASSUME NEW w \in Workers, MarkFailed(w)  PROVE RowStep(j)
  <2>1. cjob[w] \in Jobs /\ status[cjob[w]] # "absent"
    BY <1>2, <1>8 DEF MarkFailed, Holding
  <2>2. status \in [Jobs -> Statuses]
    BY <1>1 DEF TypeOK
  <2>. QED  BY <1>8, <2>1, <2>2 DEF MarkFailed, Requeue, DeadLetter
<1>9. ASSUME NEW w \in Workers, ReapWrite(w)  PROVE RowStep(j)
  <2>1. Expired(w, j) \/ Exhausted(w, j) => status[j] # "absent"
    BY <1>3 DEF Expired, Exhausted
  <2>. QED  BY <1>9, <2>1 DEF ReapWrite
<1>10. ASSUME NEW w \in Workers,
             \/ DrainEnds(w) \/ HandlerThrows(w) \/ ReapThrottled(w)
             \/ ReapScan(w) \/ Restart(w) \/ ReapIntervalElapses(w) \/ ClaimThrows(w)
             \/ MarkFailedThrows(w) \/ ReapThrows(w) \/ Crash(w)
      PROVE  RowStep(j)
  BY <1>10 DEF DrainEnds, HandlerThrows, ReapThrottled, ReapScan, Restart,
     ReapIntervalElapses, ClaimThrows, MarkFailedThrows, ReapThrows, Crash, rowVars
<1>11. CASE UNCHANGED vars
  BY <1>11 DEF vars
<1>. QED
  BY <1>4, <1>5, <1>6, <1>7, <1>8, <1>9, <1>10, <1>11 DEF Next, Loop, Faulty

\* Such a step is one of the pool.
LEMMA RowStepIsPoolStep ==
  ASSUME TypeOK, TypeOK', NEW j \in Jobs, RowStep(j),
         AttemptsBounded', DeadOnlyWhenExhausted', RoomToTry', Workers # {}
  PROVE  \/ Pool!Submit(j) \/ Pool!Try(j) \/ Pool!Work(j) \/ Pool!Finish(j)
         \/ Pool!GiveUp(j) \/ Pool!Reopen(j) \/ Pool!Rest(j)
<1>. DEFINE Open(s) == IF s \in {"queued", "running"} THEN "open" ELSE s
<1>1. Outcome[j] = Open(status[j]) /\ Outcome'[j] = Open(status'[j])
  BY DEF Outcome
<1>2. status[j] \in Statuses /\ status'[j] \in Statuses
  BY DEF TypeOK
<1>3. CASE status[j] = "absent" /\ status'[j] = "queued"
           /\ attempts'[j] = attempts[j] /\ ran'[j] = ran[j]
  BY <1>1, <1>3 DEF Pool!Submit
<1>4. CASE /\ status[j] = "queued" /\ status'[j] = "running" /\ ran'[j] = ran[j]
           /\ attempts'[j] = attempts[j] + 1
  BY <1>1, <1>4 DEF Pool!Try, Pool!MayTry, AttemptsBounded
<1>5. CASE status'[j] = status[j] /\ attempts'[j] = attempts[j] /\ attempts[j] > 0 /\ ran'[j]
  BY <1>1, <1>5 DEF Pool!Work
<1>6. CASE attempts'[j] = attempts[j] /\ ran'[j] = ran[j] /\ ran[j] /\ status'[j] = "done"
  BY <1>1, <1>6 DEF Pool!Finish
<1>7. CASE /\ attempts'[j] = attempts[j] /\ ran'[j] = ran[j]
           /\ status[j] # "absent" /\ status'[j] = "failed"
  BY <1>1, <1>2, <1>7 DEF Pool!GiveUp, DeadOnlyWhenExhausted, Statuses
<1>8. CASE /\ attempts'[j] = attempts[j] /\ ran'[j] = ran[j]
           /\ status[j] # "absent" /\ status'[j] = "queued"
  <2>1. Pool!MayTry(j)
    BY <1>8 DEF Pool!MayTry, RoomToTry
  <2>2. CASE status[j] \in {"queued", "running"}
    BY <1>1, <1>8, <2>2 DEF Pool!Rest
  <2>3. CASE status[j] \in {"done", "failed"}
    BY <1>1, <1>8, <2>1, <2>3 DEF Pool!Reopen
  <2>. QED  BY <1>2, <1>8, <2>2, <2>3 DEF Statuses
<1>9. CASE attempts'[j] = attempts[j] /\ ran'[j] = ran[j] /\ status'[j] = status[j]
  BY <1>1, <1>9 DEF Pool!Rest
<1>. QED  BY <1>3, <1>4, <1>5, <1>6, <1>7, <1>8, <1>9 DEF RowStep

\* A step of the queue is one of the pool.
LEMMA PoolStep == IInv /\ [Next]_vars => [Pool!Next]_(Pool!vars)
<1>. SUFFICES ASSUME IInv, [Next]_vars  PROVE [Pool!Next]_(Pool!vars)
  OBVIOUS
<1>1. IInv'
  BY StepInvariant
<1>2. (TypeOK /\ RetryBudget => AttemptsBounded)'
  BY BudgetBoundsAttempts, PTL
<1>3. (TypeOK /\ RetryBudget => RoomToTry)'
  BY BudgetLeavesRoom, PTL
<1>4. TypeOK /\ TypeOK' /\ AttemptsBounded' /\ DeadOnlyWhenExhausted' /\ RoomToTry'
  BY <1>1, <1>2, <1>3 DEF IInv
<1>5. CASE Workers # {}
  <2>1. \A j \in Jobs : \/ Pool!Submit(j) \/ Pool!Try(j) \/ Pool!Work(j) \/ Pool!Finish(j)
                        \/ Pool!GiveUp(j) \/ Pool!Reopen(j) \/ Pool!Rest(j)
    BY <1>4, <1>5, RowsStep, RowStepIsPoolStep
  <2>. QED  BY <2>1 DEF Pool!Next
<1>6. CASE Workers = {}
  <2>1. CASE UNCHANGED vars
    BY <2>1 DEF vars, Pool!vars, Outcome
  <2>2. ASSUME NEW i \in Jobs, Enqueue(i) \/ Time(i)  PROVE Pool!Next
    <3>. SUFFICES ASSUME NEW j \in Jobs  PROVE Pool!Submit(j) \/ Pool!Rest(j)
      BY DEF Pool!Next
    <3>1. /\ attempts'[j] = attempts[j] /\ ran'[j] = ran[j]
          /\ \/ status[j] = "absent" /\ status'[j] = "queued"
             \/ status'[j] = status[j]
      BY <1>4, <2>2 DEF Enqueue, Time, BackoffElapses, LockGrowsStale, TypeOK
    <3>. QED  BY <3>1 DEF Pool!Submit, Pool!Rest, Outcome
  <2>. QED  BY <1>6, <2>1, <2>2 DEF Next
<1>. QED  BY <1>5, <1>6

\* Processes that claim, crash and overwrite one another's rows implement a pool of
\* tasks that knows of none of that.
THEOREM QueueIsTaskPool == Spec => KeepsTaskPool
BY PoolStarts, PoolStep, InitInvariant, StepInvariant, PTL DEF Spec, KeepsTaskPool, Pool!Spec
=============================================================================
