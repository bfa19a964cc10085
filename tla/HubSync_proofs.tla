--------------------------- MODULE HubSync_proofs ---------------------------
(***************************************************************************)
(* Safety of the replay from hub to cloud, for any number of documents,    *)
(* push processes, concurrent requests and faults, and the proof that it   *)
(* implements Replay.  IInv of HubSync is inductive: what a request has    *)
(* read of the cloud stays true because no number leaves the cloud, and    *)
(* what it may still book is bounded by a budget that it uses up.          *)
(***************************************************************************)
EXTENDS HubSync, FiniteSetTheorems, TLAPS

bookVars == <<posted, rpc, batch, outcome>>

\* The five ways a request moves after it was sent.
RequestMoves(r) == Gate(r) \/ Book(r) \/ OpFails(r) \/ CommitWrites(r) \/ RollBack(r)

-----------------------------------------------------------------------------
(* Small facts.                                                            *)

\* There is one first document.
LEMMA FirstIsOne ==
  ASSUME NEW docs \in SUBSET Docs, NEW d, NEW e, IsFirst(d, docs), IsFirst(e, docs)
  PROVE  d = e
BY DocsAssumption DEF IsFirst

\* A step moves a request, sends one, or leaves requests and bookings alone.
LEMMA StepCases ==
  ASSUME [Next]_vars
  PROVE  \/ UNCHANGED bookVars
         \/ \E p \in Pushers : Send(p)
         \/ \E r \in Requests : RequestMoves(r)
<1>1. \A r \in Requests : Commit(r) \/ AnswerGarbled(r) => CommitWrites(r)
  BY DEF Commit, AnswerGarbled
<1>. QED  BY <1>1 DEF Next, PushStep, RequestStep, RequestMoves, bookVars, vars, cloudVars,
              requestVars, Complete, Collect, SkipRow, NextStage, LogRow, AnswerLost, PushDies,
              HubRestored, TakeNumber

\* What an answer of a request changes.
LEMMA AnswerMoves ==
  ASSUME TypeOK, NEW r \in Requests, NEW d \in Docs, NEW o \in Outcomes, Answer(r, d, o)
  PROVE  /\ rpc' \in [Requests -> {"idle", "gate", "book"}]
         /\ batch' \in [Requests -> SUBSET Docs]
         /\ outcome' \in [Requests -> [Docs -> Outcomes]]
         /\ rpc'[r] = "gate" /\ batch'[r] = batch[r] \ {d} /\ outcome'[r][d] = o
         /\ \A e \in Docs \ {d} : outcome'[r][e] = outcome[r][e]
         /\ \A q \in Requests \ {r} :
              rpc'[q] = rpc[q] /\ batch'[q] = batch[q] /\ outcome'[q] = outcome[q]
<1>1. outcome' = [outcome EXCEPT ![r] = [outcome[r] EXCEPT ![d] = o]]
  BY DEF Answer, TypeOK
<1>2. [outcome[r] EXCEPT ![d] = o] \in [Docs -> Outcomes]
  BY DEF TypeOK
<1>. QED  BY <1>1, <1>2 DEF Answer, TypeOK

\* What the end of a request changes.
LEMMA EndMoves ==
  ASSUME TypeOK, NEW r \in Requests, EndRequest(r)
  PROVE  /\ rpc' \in [Requests -> {"idle", "gate", "book"}]
         /\ batch' \in [Requests -> SUBSET Docs]
         /\ outcome' \in [Requests -> [Docs -> Outcomes]]
         /\ caller' \in [Requests -> Pushers \cup {Nobody}]
         /\ rpc'[r] = "idle" /\ batch'[r] = {} /\ outcome'[r] = NoOutcome
         /\ \A q \in Requests \ {r} :
              rpc'[q] = rpc[q] /\ batch'[q] = batch[q] /\ outcome'[q] = outcome[q]
<1>1. NoOutcome \in [Docs -> Outcomes]
  BY DEF NoOutcome, Outcomes
<1>. QED  BY <1>1 DEF EndRequest, TypeOK

\* An answer overwrites no log entry with anything but a status.
LEMMA LogStatusTyped == ASSUME NEW o PROVE LogStatus(o) \in {"pushed", "duplicate", "failed"}
BY DEF LogStatus

\* What a call that throws changes.
LEMMA ThrowMoves ==
  ASSUME TypeOK, NEW p \in Pushers, NEW r \in Requests, CallThrows(p, r)
  PROVE  /\ ppc' \in [Pushers -> {"idle", "send", "wait", "log"}]
         /\ answers' \in [Pushers -> [Docs -> Outcomes]]
         /\ \A q \in Pushers, d \in Docs :
              answers'[q][d] \in {"synced", "duplicate"} => answers'[q][d] = answers[q][d]
<1>. DEFINE failing == [d \in Docs |-> IF d \in batch[r] \/ outcome[r][d] # "none"
                                       THEN "failed" ELSE "none"]
<1>1. /\ failing \in [Docs -> Outcomes]
      /\ \A d \in Docs : failing[d] \notin {"synced", "duplicate"}
  BY DEF Outcomes
<1>2. answers' = answers \/ answers' = [answers EXCEPT ![p] = failing]
  BY DEF CallThrows
<1>3. ppc' \in [Pushers -> {"idle", "send", "wait", "log"}]
  BY DEF CallThrows, TypeOK
<1>. HIDE DEF failing
<1>. QED  BY <1>1, <1>2, <1>3 DEF TypeOK

-----------------------------------------------------------------------------
(* Types.                                                                  *)

LEMMA InitType == Init => TypeOK
BY FaultAssumption DEF Init, TypeOK, NoOutcome, LogStatuses, Outcomes, Stages, SaleNumbers

LEMMA PushTypes ==
  ASSUME TypeOK, NEW p \in Pushers,
         \/ Collect(p) \/ SkipRow(p) \/ Send(p) \/ NextStage(p) \/ LogRow(p)
         \/ AnswerLost(p) \/ PushDies(p)
  PROVE  TypeOK'
<1>1. CASE Collect(p)
  BY <1>1 DEF Collect, TypeOK, Candidates, Stages, hubVars, cloudVars, requestVars, Docs
<1>2. CASE Send(p)
  <2>1. NoOutcome \in [Docs -> Outcomes]
    BY DEF NoOutcome, Outcomes
  <2>2. PICK r \in Requests, docs \in SUBSET todo[p] :
          /\ rpc' = [rpc EXCEPT ![r] = "gate"]
          /\ batch' = [batch EXCEPT ![r] = docs]
          /\ outcome' = [outcome EXCEPT ![r] = NoOutcome]
          /\ caller' = [caller EXCEPT ![r] = p]
          /\ todo' = [todo EXCEPT ![p] = @ \ docs]
    BY <1>2 DEF Send
  <2>3. docs \subseteq Docs
    BY DEF TypeOK
  <2>. QED  BY <1>2, <2>1, <2>2, <2>3 DEF Send, TypeOK, hubVars, cloudVars
<1>3. CASE NextStage(p)
  <2>1. /\ ppc' \in [Pushers -> {"idle", "send", "wait", "log"}]
        /\ stage' \in [Pushers -> Stages]
        /\ todo' \in [Pushers -> SUBSET Docs]
    <3>1. Candidates(Papers) \subseteq Docs /\ Candidates(Tills) \subseteq Docs
      BY DEF Candidates, Docs
    <3>2. \/ stage[p] = "sales" \/ stage[p] = "papers" \/ stage[p] = "tills"
      BY DEF TypeOK, Stages
    <3>3. /\ \/ stage' = [stage EXCEPT ![p] = "papers"] \/ stage' = [stage EXCEPT ![p] = "tills"]
             \/ stage' = [stage EXCEPT ![p] = "sales"]
          /\ ppc' = ppc \/ ppc' = [ppc EXCEPT ![p] = "idle"]
          /\ todo' = todo \/ \E found \in SUBSET Docs : todo' = [todo EXCEPT ![p] = found]
      BY <1>3, <3>1, <3>2 DEF NextStage
    <3>. QED  BY <3>3 DEF TypeOK, Stages
  <2>. QED  BY <1>3, <2>1 DEF NextStage, TypeOK, hubVars, cloudVars, requestVars
<1>4. CASE LogRow(p)
  <2>1. PICK d \in Docs :
          /\ log' = [log EXCEPT ![d] = LogStatus(answers[p][d])]
          /\ answers' = [answers EXCEPT ![p] = [answers[p] EXCEPT ![d] = "none"]]
          /\ ppc' \in [Pushers -> {"idle", "send", "wait", "log"}]
    BY <1>4 DEF LogRow, TypeOK
  <2>2. log' \in [Docs -> LogStatuses]
    BY <2>1, LogStatusTyped DEF TypeOK, LogStatuses
  <2>3. answers' \in [Pushers -> [Docs -> Outcomes]]
    <3>1. [answers[p] EXCEPT ![d] = "none"] \in [Docs -> Outcomes]
      BY DEF TypeOK, Outcomes
    <3>. QED  BY <2>1, <3>1 DEF TypeOK
  <2>. QED  BY <1>4, <2>1, <2>2, <2>3 DEF LogRow, TypeOK, cloudVars, requestVars
<1>5. CASE AnswerLost(p)
  <2>1. PICK r \in Requests : CallThrows(p, r) /\ caller' = [caller EXCEPT ![r] = Nobody]
    BY <1>5 DEF AnswerLost
  <2>. QED  BY <1>5, <2>1, ThrowMoves, FaultAssumption DEF AnswerLost, Fault, TypeOK, hubVars, cloudVars
<1>6. CASE PushDies(p)
  <2>1. NoOutcome \in [Docs -> Outcomes]
    BY DEF NoOutcome, Outcomes
  <2>. QED  BY <1>6, <2>1, FaultAssumption
            DEF PushDies, Fault, TypeOK, hubVars, cloudVars, Stages
<1>7. CASE SkipRow(p)
  <2>1. PICK d \in todo[p] : /\ log' = [log EXCEPT ![d] = "skipped_unsupported"]
                             /\ todo' = [todo EXCEPT ![p] = todo[p] \ {d}]
    BY <1>7 DEF SkipRow
  <2>. QED  BY <1>7, <2>1 DEF SkipRow, TypeOK, LogStatuses, cloudVars, requestVars
<1>. QED  BY <1>1, <1>2, <1>3, <1>4, <1>5, <1>6, <1>7

\* What the commit of a request changes on the cloud.
LEMMA CommitTypes ==
  ASSUME TypeOK, NEW r \in Requests, CommitWrites(r)
  PROVE  /\ posted' \in [Docs -> Nat]
         /\ opStatus' \in [SaleNumbers -> {"none", "synced", "failed"}]
         /\ rpc' \in [Requests -> {"idle", "gate", "book"}]
         /\ batch' \in [Requests -> SUBSET Docs]
         /\ outcome' \in [Requests -> [Docs -> Outcomes]]
         /\ caller' \in [Requests -> Pushers \cup {Nobody}]
         /\ UNCHANGED <<captured, onHub, log, taken, stage, todo>>
<1>1. posted' \in [Docs -> Nat]
  BY DEF CommitWrites, TypeOK
<1>2. opStatus' \in [SaleNumbers -> {"none", "synced", "failed"}]
  BY DEF CommitWrites, TypeOK
<1>3. EndRequest(r)
  BY DEF CommitWrites
<1>. QED  BY <1>1, <1>2, <1>3, EndMoves DEF CommitWrites, hubVars

LEMMA RequestTypes ==
  ASSUME TypeOK, NEW r \in Requests,
         Gate(r) \/ Book(r) \/ OpFails(r) \/ Commit(r) \/ AnswerGarbled(r) \/ RollBack(r)
  PROVE  TypeOK'
<1>1. CASE Gate(r)
  <2>1. PICK d \in Docs :
          \/ \E o \in Outcomes : Answer(r, d, o)
          \/ rpc' = [rpc EXCEPT ![r] = "book"] /\ UNCHANGED <<batch, outcome>>
    BY <1>1 DEF Gate, TypeOK, Outcomes
  <2>. QED  BY <1>1, <2>1, AnswerMoves DEF Gate, TypeOK, hubVars, cloudVars, pushVars
<1>2. CASE Book(r)
  <2>1. PICK d \in Docs, o \in Outcomes : Answer(r, d, o)
    BY <1>2 DEF Book, TypeOK, Outcomes
  <2>. QED  BY <1>2, <2>1, AnswerMoves DEF Book, TypeOK, hubVars, cloudVars, pushVars
<1>3. CASE OpFails(r)
  <2>1. PICK d \in Docs, o \in Outcomes : Answer(r, d, o)
    BY <1>3 DEF OpFails, TypeOK, Outcomes
  <2>. QED  BY <1>3, <2>1, AnswerMoves, FaultAssumption
            DEF OpFails, Fault, TypeOK, hubVars, cloudVars, pushVars
<1>4. CASE Commit(r)
  <2>1. /\ ppc' \in [Pushers -> {"idle", "send", "wait", "log"}]
        /\ answers' \in [Pushers -> [Docs -> Outcomes]]
    <3>1. outcome[r] \in [Docs -> Outcomes] /\ caller[r] \in Pushers \cup {Nobody}
      BY DEF TypeOK
    <3>2. \/ ppc' = ppc /\ answers' = answers
          \/ \E p \in Pushers : /\ ppc' = [ppc EXCEPT ![p] = "log"]
                               /\ answers' = [answers EXCEPT ![p] = outcome[r]]
      BY <1>4, <3>1 DEF Commit
    <3>. QED  BY <3>1, <3>2 DEF TypeOK
  <2>2. CommitWrites(r) /\ UNCHANGED faults
    BY <1>4 DEF Commit
  <2>. QED  BY <2>1, <2>2, CommitTypes DEF TypeOK
<1>6. CASE AnswerGarbled(r)
  <2>1. /\ ppc' \in [Pushers -> {"idle", "send", "wait", "log"}]
        /\ answers' \in [Pushers -> [Docs -> Outcomes]]
    <3>1. caller[r] \in Pushers
      BY <1>6 DEF AnswerGarbled, TypeOK
    <3>2. PICK o \in [Docs -> Outcomes] : answers' = [answers EXCEPT ![caller[r]] = o]
      BY <1>6 DEF AnswerGarbled, Outcomes
    <3>. QED  BY <1>6, <3>1, <3>2 DEF AnswerGarbled, TypeOK
  <2>2. CommitWrites(r) /\ faults' \in 0 .. MaxFaults
    BY <1>6, FaultAssumption DEF AnswerGarbled, Fault, TypeOK
  <2>. QED  BY <2>1, <2>2, CommitTypes DEF TypeOK
<1>5. CASE RollBack(r)
  <2>1. /\ ppc' \in [Pushers -> {"idle", "send", "wait", "log"}]
        /\ answers' \in [Pushers -> [Docs -> Outcomes]]
    <3>1. CASE caller[r] = Nobody
      BY <1>5, <3>1 DEF RollBack, TypeOK
    <3>2. CASE caller[r] # Nobody
      <4>1. caller[r] \in Pushers /\ CallThrows(caller[r], r)
        BY <1>5, <3>2 DEF RollBack, TypeOK
      <4>. QED  BY <4>1, ThrowMoves
    <3>. QED  BY <3>1, <3>2
  <2>. QED  BY <1>5, <2>1, EndMoves, FaultAssumption
            DEF RollBack, Fault, TypeOK, hubVars, cloudVars
<1>. QED  BY <1>1, <1>2, <1>3, <1>4, <1>5, <1>6

LEMMA NextType == TypeOK /\ [Next]_vars => TypeOK'
<1>. SUFFICES ASSUME TypeOK, [Next]_vars PROVE TypeOK'
  OBVIOUS
<1>1. ASSUME NEW d \in Docs, Complete(d) PROVE TypeOK'
  BY <1>1 DEF Complete, TypeOK, cloudVars, pushVars, requestVars
<1>2. CASE HubRestored
  <2>1. log' \in [Docs -> LogStatuses] /\ onHub' \subseteq captured
    BY <1>2 DEF HubRestored, TypeOK, LogStatuses
  <2>. QED  BY <1>2, <2>1, FaultAssumption
            DEF HubRestored, Fault, TypeOK, cloudVars, pushVars, requestVars
<1>3. CASE UNCHANGED vars
  BY <1>3 DEF vars, hubVars, cloudVars, pushVars, requestVars, TypeOK
<1>4. ASSUME NEW n \in Shared, TakeNumber(n)  PROVE TypeOK'
  BY <1>4 DEF TakeNumber, TypeOK, hubVars, pushVars, requestVars
<1>. QED  BY <1>1, <1>2, <1>3, <1>4, PushTypes, RequestTypes DEF Next, PushStep, RequestStep

-----------------------------------------------------------------------------
(* What is known of the cloud stays true.                                  *)

\* A commit adds to what is booked, a document from elsewhere takes a number: no number
\* leaves the cloud.
LEMMA CloudGrows ==
  ASSUME TypeOK, [Next]_vars
  PROVE  /\ \A d \in Docs : posted'[d] >= posted[d]
         /\ OnCloud \subseteq OnCloud'
         /\ Held \subseteq Held'
<1>1. \A d \in Docs : posted'[d] >= posted[d] /\ posted'[d] \in Nat
  <2>1. CASE posted' = posted
    BY <2>1 DEF TypeOK
  <2>2. ASSUME NEW r \in Requests, CommitWrites(r)
        PROVE  \A d \in Docs : posted'[d] >= posted[d] /\ posted'[d] \in Nat
    BY <2>2 DEF CommitWrites, TypeOK
  <2>. QED  BY <2>1, <2>2, StepCases
            DEF bookVars, Send, RequestMoves, Gate, Book, OpFails, RollBack, cloudVars
<1>2. \A d \in Docs : posted[d] > 0 => posted'[d] > 0
  BY <1>1 DEF TypeOK
<1>3. taken \subseteq taken'
  BY DEF Next, PushStep, RequestStep, Complete, TakeNumber, Collect, SkipRow, Send, NextStage,
         LogRow, AnswerLost, PushDies, HubRestored, Gate, Book, OpFails, Commit, AnswerGarbled,
         CommitWrites, RollBack, vars, cloudVars
<1>. QED  BY <1>1, <1>2, <1>3 DEF OnCloud, Held

\* A request says duplicate only of a number that it sees on the cloud.
LEMMA OutcomesTrue ==
  ASSUME TypeOK, AnswersAreTrue, [Next]_vars, NEW r \in Requests, NEW d \in Docs,
         outcome'[r][d] = "duplicate"
  PROVE  Number[d] \in Held
<1>1. CASE UNCHANGED bookVars
  BY <1>1 DEF bookVars, AnswersAreTrue
<1>2. ASSUME NEW p \in Pushers, Send(p)  PROVE Number[d] \in Held
  <2>1. PICK q \in Requests : outcome' = [outcome EXCEPT ![q] = NoOutcome]
    BY <1>2 DEF Send
  <2>. QED  BY <2>1 DEF NoOutcome, TypeOK, AnswersAreTrue
<1>3. ASSUME NEW q \in Requests, RequestMoves(q)  PROVE Number[d] \in Held
  <2>1. CASE Gate(q)
    <3>1. PICK e \in Docs :
            \/ Answer(q, e, "duplicate") /\ Seen(e)
            \/ Answer(q, e, "failed")
            \/ UNCHANGED outcome
      BY <2>1 DEF Gate, TypeOK
    <3>. QED  BY <3>1, AnswerMoves DEF Outcomes, Seen, AnswersAreTrue
  <2>2. CASE Book(q) \/ OpFails(q)
    <3>1. PICK e \in Docs : Answer(q, e, "synced") \/ Answer(q, e, "failed")
      BY <2>2 DEF Book, OpFails, TypeOK
    <3>. QED  BY <3>1, AnswerMoves DEF Outcomes, AnswersAreTrue
  <2>3. CASE CommitWrites(q) \/ RollBack(q)
    <3>1. EndRequest(q)
      BY <2>3 DEF CommitWrites, RollBack
    <3>. QED  BY <3>1, EndMoves DEF NoOutcome, AnswersAreTrue
  <2>. QED  BY <1>3, <2>1, <2>2, <2>3 DEF RequestMoves
<1>. QED  BY <1>1, <1>2, <1>3, StepCases

\* A process is told of a success only by a request that committed.
LEMMA AnswersTrue ==
  ASSUME TypeOK, AnswersAreTrue, [Next]_vars, NEW p \in Pushers, NEW d \in Docs,
         answers'[p][d] \in {"synced", "duplicate"}
  PROVE  Number[d] \in Held'
<1>1. CASE answers'[p][d] = answers[p][d]
  BY <1>1, CloudGrows DEF AnswersAreTrue
<1>2. ASSUME NEW q \in Pushers, LogRow(q)  PROVE answers'[p][d] = answers[p][d]
  <2>1. PICK e \in Docs : answers' = [answers EXCEPT ![q] = [answers[q] EXCEPT ![e] = "none"]]
    BY <1>2 DEF LogRow
  <2>. QED  BY <2>1 DEF TypeOK
<1>3. ASSUME NEW q \in Pushers, AnswerLost(q)  PROVE answers'[p][d] = answers[p][d]
  <2>1. PICK r \in Requests : CallThrows(q, r)
    BY <1>3 DEF AnswerLost
  <2>. QED  BY <2>1, ThrowMoves
<1>4. ASSUME NEW q \in Pushers, PushDies(q)  PROVE answers'[p][d] = answers[p][d]
  BY <1>4 DEF PushDies, NoOutcome, TypeOK
<1>5. ASSUME NEW r \in Requests, RollBack(r)  PROVE answers'[p][d] = answers[p][d]
  <2>1. CASE caller[r] = Nobody
    BY <1>5, <2>1 DEF RollBack
  <2>2. CASE caller[r] # Nobody
    <3>1. caller[r] \in Pushers /\ CallThrows(caller[r], r)
      BY <1>5, <2>2 DEF RollBack, TypeOK
    <3>. QED  BY <3>1, ThrowMoves
  <2>. QED  BY <2>1, <2>2
<1>6. ASSUME NEW r \in Requests, CommitWrites(r), outcome[r][d] \in {"synced", "duplicate"}
      PROVE  Number[d] \in Held'
  <2>1. outcome[r][d] = "synced" => posted'[d] > 0
    BY <1>6 DEF CommitWrites, Written, TypeOK
  <2>2. outcome[r][d] = "duplicate" => Number[d] \in Held'
    BY CloudGrows DEF AnswersAreTrue
  <2>. QED  BY <1>6, <2>1, <2>2 DEF OnCloud, Held
<1>7. ASSUME NEW r \in Requests, Commit(r)
      PROVE  answers'[p][d] = answers[p][d] \/ answers'[p][d] = outcome[r][d]
  BY <1>7 DEF Commit, TypeOK
<1>8. ASSUME NEW r \in Requests, AnswerGarbled(r), answers'[p][d] # answers[p][d]
      PROVE  outcome[r][d] \in {"synced", "duplicate"}
  <2>1. d \notin Sales /\ outcome[r][d] # "none"
    BY <1>8 DEF AnswerGarbled, TypeOK
  <2>2. outcome[r][d] # "failed"
    BY <1>8, <2>1 DEF AnswerGarbled
  <2>. QED  BY <2>1, <2>2 DEF TypeOK, Outcomes
<1>9. \A r \in Requests : Commit(r) \/ AnswerGarbled(r) => CommitWrites(r)
  BY DEF Commit, AnswerGarbled
<1>10. CASE \E r \in Requests : Commit(r) \/ AnswerGarbled(r)
  BY <1>1, <1>6, <1>7, <1>8, <1>9, <1>10
<1>11. CASE UNCHANGED answers
  BY <1>1, <1>11
<1>. QED  BY <1>1, <1>2, <1>3, <1>4, <1>5, <1>10, <1>11
          DEF Next, PushStep, RequestStep, Complete, Collect, SkipRow, Send, NextStage,
              HubRestored, TakeNumber, Gate, Book, OpFails, vars, pushVars

\* The hub ticks off only what it was told to be on the cloud.
LEMMA LogTrue ==
  ASSUME TypeOK, AnswersAreTrue, TickedNumberIsHeld, [Next]_vars
  PROVE  \A d \in Logged' : Number[d] \in Held
<1>. SUFFICES ASSUME NEW d \in Docs, log'[d] \in {"pushed", "duplicate"}
              PROVE  Number[d] \in Held
  BY DEF Logged
<1>1. CASE log'[d] = log[d]
  BY <1>1 DEF TickedNumberIsHeld, Logged
<1>2. ASSUME NEW p \in Pushers, SkipRow(p)  PROVE log'[d] = log[d]
  BY <1>2 DEF SkipRow, TypeOK
<1>3. ASSUME NEW p \in Pushers, LogRow(p)  PROVE log'[d] = log[d] \/ Number[d] \in Held
  <2>1. PICK e \in Docs : log' = [log EXCEPT ![e] = LogStatus(answers[p][e])]
    BY <1>3 DEF LogRow
  <2>2. CASE d = e
    BY <2>1, <2>2 DEF LogStatus, AnswersAreTrue, TypeOK
  <2>. QED  BY <2>1, <2>2 DEF TypeOK
<1>4. CASE HubRestored
  BY <1>1, <1>4 DEF HubRestored
<1>5. CASE UNCHANGED log
  BY <1>1, <1>5
<1>. QED  BY <1>1, <1>2, <1>3, <1>4, <1>5
          DEF Next, PushStep, RequestStep, Complete, TakeNumber, Collect, Send, NextStage,
              AnswerLost, PushDies, Gate, Book, OpFails, Commit, AnswerGarbled, CommitWrites,
              RollBack, vars, hubVars

LEMMA TruthStep ==
  ASSUME TypeOK, AnswersAreTrue, TickedNumberIsHeld, [Next]_vars
  PROVE  AnswersAreTrue' /\ TickedNumberIsHeld'
<1>1. \A r \in Requests, d \in Docs : outcome'[r][d] = "duplicate" => Number[d] \in Held'
  BY OutcomesTrue, CloudGrows
<1>2. \A p \in Pushers, d \in Docs :
        answers'[p][d] \in {"synced", "duplicate"} => Number[d] \in Held'
  BY AnswersTrue
<1>. QED  BY <1>1, <1>2, LogTrue, CloudGrows DEF AnswersAreTrue, TickedNumberIsHeld

-----------------------------------------------------------------------------
(* Documents on their way come from the hub.                               *)

LEMMA FromHubStep ==
  ASSUME TypeOK, FromHub, [Next]_vars
  PROVE  FromHub'
<1>1. captured \subseteq captured'
  BY DEF Next, PushStep, RequestStep, Complete, TakeNumber, Collect, SkipRow, Send, NextStage,
         LogRow, AnswerLost, PushDies, HubRestored, Gate, Book, OpFails, Commit, AnswerGarbled,
         CommitWrites, RollBack, vars, hubVars
<1>2. \A p \in Pushers : todo'[p] \subseteq captured
  <2>1. CASE UNCHANGED todo
    BY <2>1 DEF FromHub
  <2>2. ASSUME NEW q \in Pushers, NEW found \in SUBSET captured, todo' = [todo EXCEPT ![q] = found]
        PROVE  \A p \in Pushers : todo'[p] \subseteq captured
    BY <2>2 DEF FromHub, TypeOK
  <2>3. ASSUME NEW p \in Pushers,
               Collect(p) \/ SkipRow(p) \/ NextStage(p) \/ Send(p) \/ PushDies(p)
        PROVE  UNCHANGED todo \/ \E found \in SUBSET captured : todo' = [todo EXCEPT ![p] = found]
    <3>1. \A docs : Candidates(docs) \subseteq captured
      BY DEF Candidates, TypeOK
    <3>2. CASE Collect(p)
      BY <3>1, <3>2 DEF Collect
    <3>3. CASE NextStage(p)
      <4>1. \/ stage[p] = "sales" \/ stage[p] = "papers" \/ stage[p] = "tills"
        BY DEF TypeOK, Stages
      <4>. QED  BY <3>1, <3>3, <4>1 DEF NextStage
    <3>4. CASE Send(p)
      <4>1. PICK docs \in SUBSET todo[p] : todo' = [todo EXCEPT ![p] = todo[p] \ docs]
        BY <3>4 DEF Send
      <4>. QED  BY <4>1 DEF FromHub
    <3>5. CASE PushDies(p)
      BY <3>5 DEF PushDies
    <3>6. CASE SkipRow(p)
      <4>1. PICK d \in todo[p] : todo' = [todo EXCEPT ![p] = todo[p] \ {d}]
        BY <3>6 DEF SkipRow
      <4>. QED  BY <4>1 DEF FromHub
    <3>. QED  BY <2>3, <3>2, <3>3, <3>4, <3>5, <3>6
  <2>. QED  BY <2>1, <2>2, <2>3
            DEF Next, PushStep, RequestStep, Complete, TakeNumber, LogRow, AnswerLost,
                HubRestored, Gate, Book, OpFails, Commit, AnswerGarbled, CommitWrites, RollBack,
                vars, pushVars
<1>3. ASSUME NEW r \in Requests
      PROVE  batch'[r] \cup {d \in Docs : outcome'[r][d] # "none"} \subseteq captured
  <2>1. CASE UNCHANGED bookVars
    BY <2>1 DEF bookVars, FromHub
  <2>2. ASSUME NEW p \in Pushers, Send(p)
        PROVE  batch'[r] \cup {d \in Docs : outcome'[r][d] # "none"} \subseteq captured
    <3>1. PICK q \in Requests, docs \in SUBSET todo[p] :
            /\ batch' = [batch EXCEPT ![q] = docs]
            /\ outcome' = [outcome EXCEPT ![q] = NoOutcome]
      BY <2>2 DEF Send
    <3>. QED  BY <3>1 DEF FromHub, TypeOK, NoOutcome
  <2>3. ASSUME NEW q \in Requests, RequestMoves(q)
        PROVE  batch'[r] \cup {d \in Docs : outcome'[r][d] # "none"} \subseteq captured
    <3>1. CASE Gate(q) \/ Book(q) \/ OpFails(q)
      <4>1. \/ UNCHANGED <<batch, outcome>>
            \/ \E d \in batch[q], o \in Outcomes : Answer(q, d, o)
        BY <3>1 DEF Gate, Book, OpFails, Outcomes
      <4>2. batch[q] \subseteq Docs
        BY DEF TypeOK
      <4>. QED  BY <4>1, <4>2, AnswerMoves DEF FromHub
    <3>2. CASE CommitWrites(q) \/ RollBack(q)
      <4>1. EndRequest(q)
        BY <3>2 DEF CommitWrites, RollBack
      <4>. QED  BY <4>1, EndMoves DEF FromHub, NoOutcome
    <3>. QED  BY <2>3, <3>1, <3>2 DEF RequestMoves
  <2>. QED  BY <2>1, <2>2, <2>3, StepCases
<1>. QED  BY <1>1, <1>2, <1>3 DEF FromHub
-----------------------------------------------------------------------------
(* Bookings.                                                               *)

\* A request that answers for a document books no other, and that one only if it did.
LEMMA AnswerBookings ==
  ASSUME TypeOK, NEW r \in Requests, NEW d \in Docs, NEW o \in Outcomes, Answer(r, d, o),
         r \in Booking(d) \/ o # "synced"
  PROVE  \A e \in Docs : Booking(e)' \subseteq Booking(e)
<1>. SUFFICES ASSUME NEW e \in Docs, NEW q \in Requests, q \in Booking(e)'
              PROVE  q \in Booking(e)
  BY DEF Booking
<1>1. CASE q # r
  BY <1>1, AnswerMoves DEF Booking, IsFirst
<1>2. CASE q = r
  <2>1. outcome'[r][e] = "synced"
    BY <1>2, AnswerMoves DEF Booking
  <2>. QED  BY <1>2, <2>1, AnswerMoves DEF Booking
<1>. QED  BY <1>1, <1>2

\* When a request ends it books nothing any more; the others are not disturbed.
LEMMA EndBookings ==
  ASSUME TypeOK, NEW r \in Requests, EndRequest(r)
  PROVE  \A e \in Docs : Booking(e)' \subseteq Booking(e) \ {r}
BY EndMoves DEF Booking, NoOutcome, IsFirst

\* A request enters the bookings of a document whose number is not on the cloud.
Enters(r, d) ==
  /\ UNCHANGED posted
  /\ posted[d] = 0 /\ Covered(d)
  /\ Booking(d)' \subseteq Booking(d) \cup {r}
  /\ \A e \in Docs \ {d} : Booking(e)' \subseteq Booking(e)

\* A request leaves all bookings, each with one booking made.
Leaves(r) ==
  \A e \in Docs :
    /\ Booking(e)' \subseteq Booking(e) \ {r}
    /\ posted'[e] = IF r \in Booking(e) THEN posted[e] + 1 ELSE posted[e]

\* The three things a step does to the bookings.
LEMMA BookingCases ==
  ASSUME TypeOK, [Next]_vars
  PROVE  \/ UNCHANGED posted /\ \A e \in Docs : Booking(e)' \subseteq Booking(e)
         \/ \E r \in Requests, d \in Docs : Enters(r, d)
         \/ \E r \in Requests : Leaves(r)
<1>1. CASE UNCHANGED bookVars
  BY <1>1 DEF bookVars, Booking, IsFirst
<1>2. ASSUME NEW p \in Pushers, Send(p)
      PROVE  UNCHANGED posted /\ \A e \in Docs : Booking(e)' \subseteq Booking(e)
  <2>1. PICK r \in Requests, docs \in SUBSET todo[p] :
          /\ rpc' = [rpc EXCEPT ![r] = "gate"]
          /\ batch' = [batch EXCEPT ![r] = docs]
          /\ outcome' = [outcome EXCEPT ![r] = NoOutcome]
    BY <1>2 DEF Send
  <2>2. \A e \in Docs : Booking(e)' \subseteq Booking(e)
    <3>. SUFFICES ASSUME NEW e \in Docs, NEW q \in Requests, q \in Booking(e)'
                  PROVE  q \in Booking(e)
      BY DEF Booking
    <3>1. q # r
      BY <2>1 DEF Booking, TypeOK, NoOutcome
    <3>. QED  BY <2>1, <3>1 DEF Booking, TypeOK, IsFirst
  <2>. QED  BY <1>2, <2>2 DEF Send, cloudVars
<1>3. ASSUME NEW r \in Requests, Gate(r)
      PROVE  \/ UNCHANGED posted /\ \A e \in Docs : Booking(e)' \subseteq Booking(e)
             \/ \E d \in Docs : Enters(r, d)
  <2>1. UNCHANGED posted
    BY <1>3 DEF Gate, cloudVars
  <2>2. PICK d \in batch[r] :
          /\ IsFirst(d, batch[r])
          /\ \/ Answer(r, d, "duplicate") \/ Answer(r, d, "failed")
             \/ /\ ~Seen(d) /\ Covered(d)
                /\ rpc' = [rpc EXCEPT ![r] = "book"] /\ UNCHANGED <<batch, outcome>>
    BY <1>3 DEF Gate
  <2>3. d \in Docs
    BY DEF TypeOK
  <2>4. CASE Answer(r, d, "duplicate") \/ Answer(r, d, "failed")
    BY <2>1, <2>3, <2>4, AnswerBookings DEF Outcomes
  <2>5. CASE /\ ~Seen(d) /\ Covered(d)
             /\ rpc' = [rpc EXCEPT ![r] = "book"] /\ UNCHANGED <<batch, outcome>>
    <3>1. posted[d] = 0
      BY <2>3, <2>5 DEF Seen, Held, OnCloud, TypeOK
    <3>2. \A e \in Docs : IsFirst(e, batch[r]) => e = d
      BY <2>2, FirstIsOne DEF TypeOK
    <3>3. /\ Booking(d)' \subseteq Booking(d) \cup {r}
          /\ \A e \in Docs \ {d} : Booking(e)' \subseteq Booking(e)
      BY <2>5, <3>2 DEF Booking, TypeOK, IsFirst
    <3>. QED  BY <2>1, <2>3, <2>5, <3>1, <3>3 DEF Enters
  <2>. QED  BY <2>2, <2>4, <2>5
<1>4. ASSUME NEW r \in Requests, Book(r) \/ OpFails(r)
      PROVE  UNCHANGED posted /\ \A e \in Docs : Booking(e)' \subseteq Booking(e)
  <2>1. PICK d \in batch[r], o \in {"synced", "failed"} :
          rpc[r] = "book" /\ IsFirst(d, batch[r]) /\ Answer(r, d, o)
    BY <1>4 DEF Book, OpFails
  <2>2. d \in Docs /\ r \in Booking(d)
    BY <2>1 DEF TypeOK, Booking
  <2>. QED  BY <1>4, <2>1, <2>2, AnswerBookings DEF Book, OpFails, cloudVars, Outcomes
<1>5. ASSUME NEW r \in Requests, CommitWrites(r)  PROVE Leaves(r)
  <2>1. EndRequest(r) /\ rpc[r] = "gate"
        /\ posted' = [d \in Docs |-> IF d \in Written(r) THEN posted[d] + 1 ELSE posted[d]]
    BY <1>5 DEF CommitWrites
  <2>2. \A e \in Docs : e \in Written(r) <=> r \in Booking(e)
    BY <2>1 DEF Written, Booking
  <2>. QED  BY <2>1, <2>2, EndBookings DEF Leaves
<1>6. ASSUME NEW r \in Requests, RollBack(r)
      PROVE  UNCHANGED posted /\ \A e \in Docs : Booking(e)' \subseteq Booking(e)
  <2>1. EndRequest(r)
    BY <1>6 DEF RollBack
  <2>. QED  BY <1>6, <2>1, EndBookings DEF RollBack, cloudVars
<1>. QED  BY <1>1, <1>2, <1>3, <1>4, <1>5, <1>6, StepCases DEF RequestMoves

\* The numbers of the sales of a till are on the cloud.
CoveredTill(t) == \A s \in TillSales[t] : Number[s] \in Held

\* A till is booked only over sales whose numbers are on the cloud.
LEMMA CoverStep ==
  ASSUME TypeOK, TillsCoverTheirSales, CoveredWhenBooked, [Next]_vars
  PROVE  TillsCoverTheirSales' /\ CoveredWhenBooked'
<1>. SUFFICES ASSUME NEW t \in Tills
              PROVE  t \in OnCloud' \/ Booking(t)' # {} => CoveredTill(t)
  BY CloudGrows DEF TillsCoverTheirSales, CoveredWhenBooked, CoveredTill
<1>. t \in Docs
  BY DEF Docs
<1>1. CASE UNCHANGED posted /\ \A e \in Docs : Booking(e)' \subseteq Booking(e)
  BY <1>1 DEF OnCloud, TillsCoverTheirSales, CoveredWhenBooked, CoveredTill
<1>2. ASSUME NEW r \in Requests, NEW d \in Docs, Enters(r, d)
      PROVE  t \in OnCloud' \/ Booking(t)' # {} => CoveredTill(t)
  <2>1. t \in OnCloud' => t \in OnCloud
    BY <1>2 DEF Enters, OnCloud
  <2>2. CASE t = d
    BY <1>2, <2>2 DEF Enters, Covered, CoveredTill
  <2>3. CASE t # d
    BY <1>2, <2>1, <2>3 DEF Enters, TillsCoverTheirSales, CoveredWhenBooked, CoveredTill
  <2>. QED  BY <2>2, <2>3
<1>3. ASSUME NEW r \in Requests, Leaves(r)
      PROVE  t \in OnCloud' \/ Booking(t)' # {} => CoveredTill(t)
  <2>1. t \in OnCloud' => t \in OnCloud \/ Booking(t) # {}
    BY <1>3 DEF Leaves, OnCloud
  <2>2. Booking(t)' # {} => Booking(t) # {}
    BY <1>3 DEF Leaves
  <2>. QED  BY <2>1, <2>2 DEF TillsCoverTheirSales, CoveredWhenBooked, CoveredTill
<1>. QED  BY <1>1, <1>2, <1>3, BookingCases

\* The bookings of a document are requests, of which there are finitely many.
LEMMA BookingsFinite ==
  ASSUME NEW S \in SUBSET Requests
  PROVE  /\ IsFiniteSet(S) /\ Cardinality(S) \in Nat
         /\ Cardinality(Requests) \in Nat /\ Cardinality(S) <= Cardinality(Requests)
BY RequestsAssumption, FS_Subset, FS_CardinalityType

\* The budget of a document whose bookings shrink lasts as well as before.
LEMMA BudgetShrinks ==
  ASSUME NEW before \in SUBSET Requests, NEW after \in SUBSET before, NEW n \in Nat,
         n + Cardinality(before) <= Cardinality(Requests)
  PROVE  n + Cardinality(after) <= Cardinality(Requests)
<1>1. Cardinality(after) <= Cardinality(before) /\ Cardinality(after) \in Nat
  BY BookingsFinite, FS_Subset, FS_CardinalityType
<1>. QED  BY <1>1, BookingsFinite

\* A request that made its booking leaves the budget.
LEMMA BudgetSpent ==
  ASSUME NEW before \in SUBSET Requests, NEW r \in before, NEW after \in SUBSET (before \ {r}),
         NEW n \in Nat, n + Cardinality(before) <= Cardinality(Requests)
  PROVE  n + 1 + Cardinality(after) <= Cardinality(Requests)
<1>1. /\ IsFiniteSet(before \ {r}) /\ Cardinality(before \ {r}) = Cardinality(before) - 1
      /\ Cardinality(before) \in Nat
  BY BookingsFinite, FS_RemoveElement
<1>2. Cardinality(after) <= Cardinality(before \ {r}) /\ Cardinality(after) \in Nat
  BY <1>1, FS_Subset, FS_CardinalityType
<1>. QED  BY <1>1, <1>2, BookingsFinite

\* A booking that was decided before another was visible still finds room: requests
\* that start after the first booking are told it is there.
LEMMA BudgetStep ==
  ASSUME TypeOK, BookingBudget, [Next]_vars
  PROVE  BookingBudget'
<1>. SUFFICES ASSUME NEW d \in Docs
              PROVE  posted'[d] + Cardinality(Booking(d)') <= Cardinality(Requests)
  BY DEF BookingBudget
<1>1. /\ Booking(d) \in SUBSET Requests /\ Booking(d)' \in SUBSET Requests
      /\ posted[d] \in Nat /\ posted[d] + Cardinality(Booking(d)) <= Cardinality(Requests)
  BY DEF Booking, TypeOK, BookingBudget
<1>2. ASSUME NEW before \in SUBSET Requests, NEW after \in SUBSET Requests,
             posted[d] + Cardinality(before) <= Cardinality(Requests),
             \/ posted'[d] = posted[d] /\ after \subseteq before
             \/ posted'[d] = 0
             \/ \E r \in before : posted'[d] = posted[d] + 1 /\ after \subseteq before \ {r}
      PROVE  posted'[d] + Cardinality(after) <= Cardinality(Requests)
  <2>1. CASE posted'[d] = posted[d] /\ after \subseteq before
    BY <1>1, <1>2, <2>1, BudgetShrinks
  <2>2. CASE posted'[d] = 0
    BY <2>2, BookingsFinite
  <2>3. CASE \E r \in before : posted'[d] = posted[d] + 1 /\ after \subseteq before \ {r}
    BY <1>1, <1>2, <2>3, BudgetSpent
  <2>. QED  BY <1>2, <2>1, <2>2, <2>3
<1>3. \/ posted'[d] = posted[d] /\ Booking(d)' \subseteq Booking(d)
      \/ posted'[d] = 0
      \/ \E r \in Booking(d) : posted'[d] = posted[d] + 1 /\ Booking(d)' \subseteq Booking(d) \ {r}
  <2>1. ASSUME NEW r \in Requests, NEW e \in Docs, Enters(r, e)
        PROVE  posted'[d] = 0 \/ (posted'[d] = posted[d] /\ Booking(d)' \subseteq Booking(d))
    BY <2>1 DEF Enters
  <2>2. ASSUME NEW r \in Requests, Leaves(r)
        PROVE  \/ posted'[d] = posted[d] /\ Booking(d)' \subseteq Booking(d)
               \/ r \in Booking(d) /\ posted'[d] = posted[d] + 1
                  /\ Booking(d)' \subseteq Booking(d) \ {r}
    BY <2>2 DEF Leaves
  <2>. QED  BY <2>1, <2>2, BookingCases
<1>. QED  BY <1>1, <1>2, <1>3

-----------------------------------------------------------------------------
(* Till sessions.                                                          *)

\* A request inserts a till only when no one has and no open request is about to.
LEMMA InsertedTill ==
  ASSUME TypeOK, [Next]_vars, NEW t \in Tills, NEW r \in Requests,
         outcome'[r][t] = "synced", outcome[r][t] # "synced"
  PROVE  /\ posted[t] = 0 /\ UNCHANGED posted
         /\ \A q \in Requests \ {r} : outcome[q][t] # "synced" /\ outcome'[q] = outcome[q]
<1>. t \in Docs
  BY DEF Docs
<1>1. CASE UNCHANGED bookVars
  BY <1>1 DEF bookVars
<1>2. ASSUME NEW p \in Pushers, Send(p)  PROVE FALSE
  <2>1. PICK q \in Requests : outcome' = [outcome EXCEPT ![q] = NoOutcome]
    BY <1>2 DEF Send
  <2>. QED  BY <2>1 DEF NoOutcome, TypeOK
<1>3. ASSUME NEW q \in Requests, Gate(q) \/ OpFails(q)  PROVE FALSE
  <2>1. \/ UNCHANGED outcome
        \/ \E d \in batch[q], o \in {"duplicate", "failed"} : Answer(q, d, o)
    BY <1>3 DEF Gate, OpFails
  <2>2. batch[q] \subseteq Docs
    BY DEF TypeOK
  <2>. QED  BY <2>1, <2>2, AnswerMoves DEF Outcomes
<1>4. ASSUME NEW q \in Requests, CommitWrites(q) \/ RollBack(q)  PROVE FALSE
  <2>1. EndRequest(q)
    BY <1>4 DEF CommitWrites, RollBack
  <2>. QED  BY <2>1, EndMoves DEF NoOutcome
<1>5. ASSUME NEW q \in Requests, Book(q)
      PROVE  /\ posted[t] = 0 /\ UNCHANGED posted
             /\ \A x \in Requests \ {r} : outcome[x][t] # "synced" /\ outcome'[x] = outcome[x]
  <2>1. PICK d \in batch[q] :
          /\ ~MustWait(q, d)
          /\ Answer(q, d, "failed") \/ Answer(q, d, "synced")
          /\ d \in Tills /\ Seen(d) => Answer(q, d, "failed")
    BY <1>5 DEF Book
  <2>2. d \in Docs
    BY DEF TypeOK
  <2>3. q = r /\ d = t
    BY <2>1, <2>2, AnswerMoves DEF Outcomes
  <2>4. posted[t] = 0
    <3>1. ~Seen(t)
      BY <2>1, <2>2, <2>3, AnswerMoves DEF Outcomes
    <3>. QED  BY <3>1 DEF Seen, Held, OnCloud, TypeOK
  <2>5. \A x \in Requests \ {r} : outcome'[x] = outcome[x]
    BY <2>1, <2>2, <2>3, AnswerMoves DEF Outcomes
  <2>6. \A x \in Requests \ {r} : outcome[x][t] # "synced"
    BY <2>1, <2>3 DEF MustWait, RowOpen
  <2>. QED  BY <1>5, <2>4, <2>5, <2>6 DEF Book, cloudVars
<1>. QED  BY <1>1, <1>2, <1>3, <1>4, <1>5, StepCases DEF RequestMoves

\* A till is posted only by the request that inserted it.
LEMMA PostedTill ==
  ASSUME TypeOK, [Next]_vars, NEW t \in Tills
  PROVE  \/ posted'[t] = posted[t]
         \/ \E r \in Requests : /\ outcome[r][t] = "synced" /\ outcome'[r][t] # "synced"
                                /\ posted'[t] = posted[t] + 1
<1>. t \in Docs
  BY DEF Docs
<1>1. ASSUME NEW r \in Requests, CommitWrites(r)
      PROVE  \/ posted'[t] = posted[t]
             \/ /\ outcome[r][t] = "synced" /\ outcome'[r][t] # "synced"
                /\ posted'[t] = posted[t] + 1
  <2>1. EndRequest(r)
    BY <1>1 DEF CommitWrites
  <2>2. outcome'[r][t] = "none"
    BY <2>1, EndMoves DEF NoOutcome
  <2>. QED  BY <1>1, <2>2 DEF CommitWrites, Written
<1>. QED  BY <1>1, StepCases
          DEF bookVars, Send, RequestMoves, Gate, Book, OpFails, RollBack, cloudVars

LEMMA TillStep ==
  ASSUME TypeOK, TillBookedOnce, OneTillInsert, [Next]_vars
  PROVE  TillBookedOnce' /\ OneTillInsert'
<1>. SUFFICES ASSUME NEW t \in Tills
              PROVE  /\ posted'[t] <= 1
                     /\ \A r \in Requests : outcome'[r][t] = "synced" =>
                          /\ posted'[t] = 0
                          /\ \A q \in Requests : outcome'[q][t] = "synced" => q = r
  BY DEF TillBookedOnce, OneTillInsert
<1>1. posted[t] <= 1 /\ posted[t] \in Nat
  BY DEF TillBookedOnce, TypeOK, Docs
<1>2. posted'[t] <= 1
  BY <1>1, PostedTill DEF OneTillInsert
<1>3. ASSUME NEW r \in Requests, outcome'[r][t] = "synced"
      PROVE  /\ posted'[t] = 0
             /\ \A q \in Requests : outcome'[q][t] = "synced" => q = r
  <2>1. CASE outcome[r][t] = "synced"
    <3>1. posted[t] = 0 /\ \A q \in Requests : outcome[q][t] = "synced" => q = r
      BY <2>1 DEF OneTillInsert
    <3>2. posted'[t] = 0
      BY <1>3, <3>1, PostedTill
    <3>3. ASSUME NEW q \in Requests, outcome'[q][t] = "synced", q # r  PROVE FALSE
      BY <2>1, <3>1, <3>3, InsertedTill
    <3>. QED  BY <3>2, <3>3
  <2>2. CASE outcome[r][t] # "synced"
    BY <1>3, <2>2, InsertedTill
  <2>. QED  BY <2>1, <2>2
<1>. QED  BY <1>2, <1>3

-----------------------------------------------------------------------------
(* The inductive invariant.                                                *)

LEMMA InitInv == Init => IInv
<1>. SUFFICES ASSUME Init PROVE IInv
  OBVIOUS
<1>1. \A d \in Docs : Booking(d) = {}
  BY DEF Init, Booking, NoOutcome
<1>2. BookingBudget
  BY <1>1, BookingsFinite, FS_EmptySet DEF BookingBudget, Init
<1>3. TypeOK
  BY InitType
<1>4. OnCloud = {} /\ Logged = {}
  BY DEF Init, OnCloud, Logged
<1>5. AnswersAreTrue /\ FromHub
  BY DEF Init, AnswersAreTrue, FromHub, NoOutcome
<1>6. TickedNumberIsHeld /\ TillsCoverTheirSales /\ CoveredWhenBooked
  BY <1>1, <1>4 DEF TickedNumberIsHeld, TillsCoverTheirSales, CoveredWhenBooked, Docs
<1>7. TillBookedOnce /\ OneTillInsert
  BY DEF Init, TillBookedOnce, OneTillInsert, NoOutcome, Docs
<1>. QED  BY <1>2, <1>3, <1>5, <1>6, <1>7 DEF IInv

LEMMA NextInv == IInv /\ [Next]_vars => IInv'
<1>. SUFFICES ASSUME IInv, [Next]_vars PROVE IInv'
  OBVIOUS
<1>1. TypeOK'
  BY NextType DEF IInv
<1>2. AnswersAreTrue' /\ TickedNumberIsHeld'
  BY TruthStep DEF IInv
<1>3. FromHub'
  BY FromHubStep DEF IInv
<1>4. TillsCoverTheirSales' /\ CoveredWhenBooked'
  BY CoverStep DEF IInv
<1>5. TillBookedOnce' /\ OneTillInsert'
  BY TillStep DEF IInv
<1>6. BookingBudget'
  BY BudgetStep DEF IInv
<1>. QED  BY <1>1, <1>2, <1>3, <1>4, <1>5, <1>6 DEF IInv

\* IInv holds in every reachable state of hub and cloud.
THEOREM Invariance == Spec => []IInv
BY InitInv, NextInv, PTL DEF Spec

\* Every variable keeps its type: a process and a request are always in one of the
\* states the code of hub-push.ts and of the hub's endpoints has.
THEOREM TypeCorrect == Spec => []TypeOK
<1>1. IInv => TypeOK
  BY DEF IInv
<1>. QED  BY <1>1, Invariance, PTL

\* hub_push_log ticks off a document only when the cloud holds its number, whatever
\* answers are lost or garbled, processes die, transactions roll back or backups are
\* restored.
THEOREM TickedNumbersAreHeld == Spec => []TickedNumberIsHeld
<1>1. IInv => TickedNumberIsHeld
  BY DEF IInv
<1>. QED  BY <1>1, Invariance, PTL

\* Were a number issued once, by this hub alone, nothing would be dropped silently: what
\* hub_push_log ticks off would be on the cloud.
THEOREM UniqueNumbersSuffice ==
  ASSUME Shared = {}, \A d, e \in Docs : Number[d] = Number[e] => d = e
  PROVE  Spec => []NeverSilentlyDropped
<1>1. ASSUME IInv  PROVE NeverSilentlyDropped
  <2>. SUFFICES ASSUME NEW d \in Logged  PROVE d \in OnCloud
    BY DEF NeverSilentlyDropped
  <2>1. d \in Docs /\ OnCloud \subseteq Docs
    BY DEF Logged, OnCloud
  <2>2. Number[d] \in Held /\ taken = {}
    BY <1>1 DEF IInv, TickedNumberIsHeld, TypeOK
  <2>. QED  BY <2>1, <2>2 DEF Held
<1>. QED  BY <1>1, Invariance, PTL

\* ingestTill certifies a till session only over a complete set of sale numbers, although
\* its check and its insert are two statements.
THEOREM TillsAreCovered == Spec => []TillsCoverTheirSales
<1>1. IInv => TillsCoverTheirSales
  BY DEF IInv
<1>. QED  BY <1>1, Invariance, PTL

\* A document is booked at most once per request that runs at the same time, and a
\* till session once: a later push finds what an earlier one booked.
THEOREM BookingsBounded == Spec => []BookedAgainOnlyByOverlap
<1>1. ASSUME IInv  PROVE BookedAgainOnlyByOverlap
  <2>1. ASSUME NEW d \in Docs  PROVE posted[d] <= Cardinality(Requests)
    <3>1. Booking(d) \in SUBSET Requests
      BY DEF Booking
    <3>. QED  BY <1>1, <3>1, BookingsFinite DEF IInv, BookingBudget, TypeOK
  <2>. QED  BY <1>1, <2>1 DEF IInv, TillBookedOnce, BookedAgainOnlyByOverlap
<1>. QED  BY <1>1, Invariance, PTL

\* The comments on replayed batches hold when the cloud serves the hub's calls one
\* after the other: no sale is booked twice, whatever is lost, repeated or restored.
THEOREM SerialCallsBookOnce ==
  ASSUME Cardinality(Requests) = 1
  PROVE  Spec => []SaleBookedOnce
<1>1. BookedAgainOnlyByOverlap => SaleBookedOnce
  BY DEF BookedAgainOnlyByOverlap, SaleBookedOnce, Docs
<1>. QED  BY <1>1, BookingsBounded, PTL

-----------------------------------------------------------------------------
(* Hub and cloud implement Replay.                                         *)

\* A commit takes over what the request has written, each with what it needs.
LEMMA CommitTakesOver ==
  ASSUME IInv, NEW r \in Requests, CommitWrites(r)
  PROVE  Promise!TakeOver(Written(r))
<1>1. Written(r) \subseteq captured
  BY DEF IInv, FromHub, Written
<1>2. ASSUME NEW d \in Written(r)  PROVE \A e \in Needs[d] : Number[e] \in Promise!Held
  <2>1. d \in Docs /\ r \in Booking(d)
    BY DEF Written, Booking
  <2>. QED  BY <2>1 DEF IInv, CoveredWhenBooked, Needs, Held, Promise!Held
<1>3. OnCloud' = OnCloud \cup Written(r)
  <2>1. \A d \in Docs : posted[d] \in Nat
    BY DEF IInv, TypeOK
  <2>. QED  BY <2>1 DEF CommitWrites, OnCloud, Written
<1>4. UNCHANGED <<captured, taken>> /\ Logged' = Logged
  BY DEF CommitWrites, hubVars, Logged
<1>. QED  BY <1>1, <1>2, <1>3, <1>4 DEF Promise!TakeOver

\* A logged row is a tick, or takes one away.
LEMMA LogTicks ==
  ASSUME IInv, NEW p \in Pushers, LogRow(p) \/ SkipRow(p)
  PROVE  \E d \in Docs : Promise!Tick(d) \/ Promise!Forget({d})
<1>1. PICK d \in Docs :
        \/ log' = [log EXCEPT ![d] = LogStatus(answers[p][d])]
        \/ log' = [log EXCEPT ![d] = "skipped_unsupported"]
  BY DEF LogRow, SkipRow, IInv, TypeOK
<1>2. UNCHANGED <<captured, taken>> /\ OnCloud' = OnCloud
  BY DEF LogRow, SkipRow, cloudVars, OnCloud
<1>3. log \in [Docs -> LogStatuses]
  BY DEF IInv, TypeOK
<1>4. CASE /\ log' = [log EXCEPT ![d] = LogStatus(answers[p][d])]
           /\ answers[p][d] \in {"synced", "duplicate"}
  <2>1. Number[d] \in Promise!Held
    BY <1>4 DEF IInv, AnswersAreTrue, Held, Promise!Held
  <2>2. Logged' = Logged \cup {d}
    BY <1>3, <1>4 DEF Logged, LogStatus
  <2>. QED  BY <1>2, <2>1, <2>2 DEF Promise!Tick
<1>5. CASE /\ log' = [log EXCEPT ![d] = LogStatus(answers[p][d])]
           /\ answers[p][d] \notin {"synced", "duplicate"}
  <2>1. Logged' = Logged \ {d}
    BY <1>3, <1>5 DEF Logged, LogStatus
  <2>. QED  BY <1>2, <2>1 DEF Promise!Forget
<1>6. CASE log' = [log EXCEPT ![d] = "skipped_unsupported"]
  <2>1. Logged' = Logged \ {d}
    BY <1>3, <1>6 DEF Logged
  <2>. QED  BY <1>2, <2>1 DEF Promise!Forget
<1>. QED  BY <1>1, <1>4, <1>5, <1>6

LEMMA PromiseStep ==
  ASSUME IInv, [Next]_vars
  PROVE  [Promise!Next]_(Promise!vars)
<1>1. ASSUME NEW d \in Docs, Complete(d)  PROVE Promise!Next
  <2>1. Needs[d] \subseteq captured
    BY <1>1 DEF Complete, Needs, IInv, TypeOK
  <2>2. OnCloud' = OnCloud /\ Logged' = Logged /\ taken' = taken
    BY <1>1 DEF Complete, cloudVars, OnCloud, Logged
  <2>. QED  BY <1>1, <2>1, <2>2 DEF Complete, Promise!Complete, Promise!Next
<1>2. ASSUME NEW n \in Shared, TakeNumber(n)  PROVE Promise!Next
  <2>1. OnCloud' = OnCloud /\ Logged' = Logged /\ captured' = captured
    BY <1>2 DEF TakeNumber, hubVars, OnCloud, Logged
  <2>. QED  BY <1>2, <2>1 DEF TakeNumber, Promise!Take, Promise!Next
<1>3. ASSUME NEW p \in Pushers, LogRow(p) \/ SkipRow(p)  PROVE Promise!Next
  <2>1. PICK d \in Docs : Promise!Tick(d) \/ Promise!Forget({d})
    BY <1>3, LogTicks
  <2>. QED  BY <2>1 DEF Promise!Next
<1>4. CASE HubRestored
  <2>1. PICK rows \in SUBSET Docs : log' = [d \in Docs |-> IF d \in rows THEN log[d] ELSE "none"]
    BY <1>4 DEF HubRestored, IInv, TypeOK
  <2>2. Logged' = Logged \ (Docs \ rows)
    BY <2>1 DEF Logged
  <2>. QED  BY <1>4, <2>2 DEF HubRestored, cloudVars, OnCloud, Promise!Forget, Promise!Next
<1>5. ASSUME NEW r \in Requests, CommitWrites(r)  PROVE Promise!Next
  BY <1>5, CommitTakesOver DEF Promise!Next, Written
<1>6. CASE UNCHANGED <<captured, log, posted, taken>>
  BY <1>6 DEF OnCloud, Logged, Promise!vars
<1>. QED  BY <1>1, <1>2, <1>3, <1>4, <1>5, <1>6
          DEF Next, PushStep, RequestStep, Collect, Send, NextStage, AnswerLost, PushDies, Gate,
              Book, OpFails, Commit, AnswerGarbled, RollBack, vars, hubVars, cloudVars

\* The pusher, the endpoints and their faults together implement Replay: whatever they
\* do, seen from outside documents are completed, taken over when what they need is
\* there, ticked off once their number is, and at worst forgotten by the hub.
THEOREM Refinement == Spec => KeepsPromise
<1>1. Init => Promise!Init
  BY DEF Init, OnCloud, Logged, Promise!Init
<1>2. IInv /\ [Next]_vars => [Promise!Next]_(Promise!vars)
  BY PromiseStep
<1>. QED  BY <1>1, <1>2, Invariance, PTL DEF Spec, Promise!Spec, KeepsPromise
=============================================================================
