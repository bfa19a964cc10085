------------------------------- MODULE HubSync -------------------------------
(***************************************************************************)
(* The store hub pushes what a branch did without the cloud: completed     *)
(* sales in one batch, then waste and count sheets, then closed tills, one *)
(* call each (database/hub-push.ts).  The cloud replays them               *)
(* (modules/hub, RestaurantOfflineSyncService.syncBatch).                  *)
(*                                                                         *)
(* A push is a process started by cron or by hand: nothing stops two of    *)
(* them from overlapping, it keeps what it read of hub_push_log, and each  *)
(* of its statements commits at once.  A call runs on the cloud as one     *)
(* READ COMMITTED transaction.  The hub may stop waiting for a call that   *)
(* goes on running; what it knows is hub_push_log alone.                   *)
(*                                                                         *)
(* Both sides find a document by its number, and the number is not the     *)
(* document: every database counts its own, so that the cloud or another   *)
(* hub may issue the same number, and so does this hub once its counters   *)
(* were restored from a backup.                                            *)
(***************************************************************************)
EXTENDS Integers, FiniteSets

CONSTANTS
  Sales, Papers, Tills,  \* ids of the hub's documents, in the order of capture
  TillSales,             \* sales settled in the window of a till session
  Number,                \* the number of a document: sale_no, waste_no, st_no, session_no
  Shared,                \* numbers that the cloud or another hub may issue as well
  Unsupported,           \* sales the pusher cannot replay (portal or split path, ...)
  Unsegregated,          \* count sheets that their counter posted
  Refused,               \* what the cloud never books: waste of perpetual items, ...
  Pushers,               \* push processes that may run at the same time
  Requests,              \* cloud transactions that may run at the same time: numbers
  Nobody,
  MaxFaults              \* bound on crashes, lost answers and failing operations

Docs == Sales \cup Papers \cup Tills

ASSUME DocsAssumption ==
  /\ Docs \subseteq Nat
  /\ Sales \cap Papers = {} /\ Sales \cap Tills = {} /\ Papers \cap Tills = {}
ASSUME TillAssumption == TillSales \in [Tills -> SUBSET Sales]
ASSUME NumberAssumption ==
  /\ Number \in [Docs -> Nat]
  /\ \A kind \in {Sales, Papers, Tills} : \A d \in kind, e \in Docs :
       Number[d] = Number[e] => e \in kind
ASSUME KindAssumption ==
  Unsupported \subseteq Sales /\ Unsegregated \subseteq Papers /\ Refused \subseteq Sales \cup Papers
ASSUME RequestsAssumption == Requests \subseteq Nat /\ IsFiniteSet(Requests)
ASSUME NobodyAssumption == Nobody \notin Pushers
ASSUME FaultAssumption == MaxFaults \in Nat

VARIABLES
  captured,\* every document the branch ever completed
  onHub,   \* those of them in the hub's database
  log,     \* hub_push_log.status of a document
  posted,  \* cloud: how often a document was booked (sale and GL, stock, session)
  taken,   \* cloud: shared numbers of documents that are not this hub's
  opStatus,\* cloud: pos_offline_sync.status of a sale number
  ppc,     \* push process: collecting, waiting for the cloud, logging
  stage,   \* push process: the kind of documents it is at
  todo,    \* push process: candidates it read and has not sent yet
  answers, \* push process: outcomes it has not logged yet
  rpc,     \* cloud request: the statement it has reached
  batch,   \* cloud request: documents it has not looked at yet
  outcome, \* cloud request: what it found or did so far
  caller,  \* cloud request: the process that still waits for it
  faults   \* faults so far

hubVars == <<captured, onHub, log>>
cloudVars == <<posted, taken, opStatus>>
pushVars == <<ppc, stage, todo, answers>>
requestVars == <<rpc, batch, outcome, caller>>
vars == <<hubVars, cloudVars, pushVars, requestVars, faults>>

SaleNumbers == {Number[s] : s \in Sales}

LogStatuses == {"none", "failed", "skipped_unsupported", "pushed", "duplicate"}
Outcomes == {"none", "synced", "duplicate", "failed"}
Stages == {"sales", "papers", "tills"}

TypeOK ==
  /\ captured \subseteq Docs
  /\ onHub \subseteq captured
  /\ log \in [Docs -> LogStatuses]
  /\ posted \in [Docs -> Nat]
  /\ taken \subseteq Shared
  /\ opStatus \in [SaleNumbers -> {"none", "synced", "failed"}]
  /\ ppc \in [Pushers -> {"idle", "send", "wait", "log"}]
  /\ stage \in [Pushers -> Stages]
  /\ todo \in [Pushers -> SUBSET Docs]
  /\ answers \in [Pushers -> [Docs -> Outcomes]]
  /\ rpc \in [Requests -> {"idle", "gate", "book"}]
  /\ batch \in [Requests -> SUBSET Docs]
  /\ outcome \in [Requests -> [Docs -> Outcomes]]
  /\ caller \in [Requests -> Pushers \cup {Nobody}]
  /\ faults \in 0 .. MaxFaults

NoOutcome == [d \in Docs |-> "none"]

Init ==
  /\ captured = {}
  /\ onHub = {}
  /\ log = [d \in Docs |-> "none"]
  /\ posted = [d \in Docs |-> 0]
  /\ taken = {}
  /\ opStatus = [n \in SaleNumbers |-> "none"]
  /\ ppc = [p \in Pushers |-> "idle"]
  /\ stage = [p \in Pushers |-> "sales"]
  /\ todo = [p \in Pushers |-> {}]
  /\ answers = [p \in Pushers |-> NoOutcome]
  /\ rpc = [r \in Requests |-> "idle"]
  /\ batch = [r \in Requests |-> {}]
  /\ outcome = [r \in Requests |-> NoOutcome]
  /\ caller = [r \in Requests |-> Nobody]
  /\ faults = 0

IsFirst(d, docs) == d \in docs /\ \A e \in docs : d <= e

Fault == faults < MaxFaults /\ faults' = faults + 1

-----------------------------------------------------------------------------
(* The branch                                                              *)

\* A sale is settled, a sheet posted, a till closed after the sales it covers.  Its
\* number is new to the hub's database, which may have lost another that had it.
Complete(d) ==
  /\ \A e \in captured : e < d
  /\ \A e \in onHub : Number[e] # Number[d]
  /\ d \in Tills => TillSales[d] \subseteq onHub
  /\ captured' = captured \cup {d}
  /\ onHub' = onHub \cup {d}
  /\ UNCHANGED <<log, cloudVars, pushVars, requestVars, faults>>

-----------------------------------------------------------------------------
(* The push process                                                        *)

\* Mutant of Candidates: a document that failed is not tried again.
CandidatesOnce(docs) == {d \in docs \cap onHub : log[d] = "none"}

\* No row of hub_push_log, or one that failed.
Candidates(docs) == {d \in docs \cap onHub : log[d] \in {"none", "failed"}}

\* pushHubSales reads the candidates.
Collect(p) ==
  /\ ppc[p] = "idle"
  /\ todo' = [todo EXCEPT ![p] = Candidates(Sales)]
  /\ ppc' = [ppc EXCEPT ![p] = "send"]
  /\ stage' = [stage EXCEPT ![p] = "sales"]
  /\ UNCHANGED <<hubVars, cloudVars, answers, requestVars, faults>>

\* Then it logs, one by one, those it cannot replay.
SkipRow(p) ==
  /\ ppc[p] = "send"
  /\ \E d \in todo[p] :
       /\ IsFirst(d, todo[p] \cap Unsupported)
       /\ log' = [log EXCEPT ![d] = "skipped_unsupported"]
       /\ todo' = [todo EXCEPT ![p] = @ \ {d}]
  /\ UNCHANGED <<captured, onHub, cloudVars, ppc, stage, answers, requestVars, faults>>

\* All sales go out in one signed batch, every other document in a call of its own.
Send(p) ==
  /\ ppc[p] = "send"
  /\ todo[p] \cap Unsupported = {}
  /\ \E r \in Requests, docs \in SUBSET todo[p] :
       /\ IsFirst(r, {q \in Requests : rpc[q] = "idle"})
       /\ IF stage[p] = "sales" THEN docs = todo[p] /\ docs # {}
                                ELSE \E d \in todo[p] : IsFirst(d, todo[p]) /\ docs = {d}
       /\ rpc' = [rpc EXCEPT ![r] = "gate"]
       /\ batch' = [batch EXCEPT ![r] = docs]
       /\ outcome' = [outcome EXCEPT ![r] = NoOutcome]
       /\ caller' = [caller EXCEPT ![r] = p]
       /\ todo' = [todo EXCEPT ![p] = @ \ docs]
  /\ ppc' = [ppc EXCEPT ![p] = "wait"]
  /\ UNCHANGED <<hubVars, cloudVars, stage, answers, faults>>

\* pushHubWaste and pushHubStocktakes follow pushHubSales, then comes pushHubTills.
NextStage(p) ==
  /\ ppc[p] = "send"
  /\ todo[p] = {}
  /\ CASE stage[p] = "sales" ->
            /\ stage' = [stage EXCEPT ![p] = "papers"]
            /\ todo' = [todo EXCEPT ![p] = Candidates(Papers)]
            /\ UNCHANGED ppc
       [] stage[p] = "papers" ->
            /\ stage' = [stage EXCEPT ![p] = "tills"]
            /\ todo' = [todo EXCEPT ![p] = Candidates(Tills)]
            /\ UNCHANGED ppc
       [] stage[p] = "tills" ->
            /\ stage' = [stage EXCEPT ![p] = "sales"]
            /\ ppc' = [ppc EXCEPT ![p] = "idle"]
            /\ UNCHANGED todo
  /\ UNCHANGED <<hubVars, cloudVars, answers, requestVars, faults>>

\* Mutant of LogStatus: the cloud's word is logged as it is.
LogStatusRaw(o) == o

\* Mutant of LogStatus: every answer counts as a success.
LogStatusBlind(o) == IF o = "duplicate" THEN "duplicate" ELSE "pushed"

LogStatus(o) ==
  CASE o = "synced" -> "pushed"
    [] o = "duplicate" -> "duplicate"
    [] OTHER -> "failed"

\* logRow: an upsert that overwrites whatever another process has logged.
LogRow(p) ==
  /\ ppc[p] = "log"
  /\ LET waiting == {d \in Docs : answers[p][d] # "none"} IN
       \E d \in waiting :
         /\ IsFirst(d, waiting)
         /\ log' = [log EXCEPT ![d] = LogStatus(answers[p][d])]
         /\ answers' = [answers EXCEPT ![p][d] = "none"]
         /\ ppc' = [ppc EXCEPT ![p] = IF waiting = {d} THEN "send" ELSE "log"]
  /\ UNCHANGED <<captured, onHub, cloudVars, stage, todo, requestVars, faults>>

\* The call throws.  pushHubSales does not catch that and the run is over with
\* nothing logged; the other stages log the document as failed and go on.
CallThrows(p, r) ==
  IF stage[p] = "sales"
  THEN /\ ppc' = [ppc EXCEPT ![p] = "idle"]
       /\ UNCHANGED answers
  ELSE /\ ppc' = [ppc EXCEPT ![p] = "log"]
       /\ answers' = [answers EXCEPT ![p] =
            [d \in Docs |-> IF d \in batch[r] \/ outcome[r][d] # "none"
                            THEN "failed" ELSE "none"]]

\* No answer arrives: the hub gives up, the request goes on alone.
AnswerLost(p) ==
  /\ Fault
  /\ \E r \in Requests :
       /\ rpc[r] # "idle"
       /\ caller[r] = p
       /\ CallThrows(p, r)
       /\ caller' = [caller EXCEPT ![r] = Nobody]
  /\ UNCHANGED <<hubVars, cloudVars, stage, todo, rpc, batch, outcome>>

\* The process dies between two statements; a request it sent goes on.
PushDies(p) ==
  /\ Fault
  /\ ppc[p] # "idle"
  /\ ppc' = [ppc EXCEPT ![p] = "idle"]
  /\ stage' = [stage EXCEPT ![p] = "sales"]
  /\ todo' = [todo EXCEPT ![p] = {}]
  /\ answers' = [answers EXCEPT ![p] = NoOutcome]
  /\ caller' = [r \in Requests |-> IF caller[r] = p THEN Nobody ELSE caller[r]]
  /\ UNCHANGED <<hubVars, cloudVars, rpc, batch, outcome>>

\* Mutant of HubRestored: the log comes from a newer backup than the documents.
HubRestoredMixed ==
  /\ Fault
  /\ ppc = [p \in Pushers |-> "idle"]
  /\ \E kept \in SUBSET onHub :
       /\ \A d \in kept, e \in onHub : e < d => e \in kept
       /\ onHub' = kept
       /\ log' = [d \in Docs |-> IF d \in kept THEN "pushed" ELSE "none"]
  /\ UNCHANGED <<captured, cloudVars, pushVars, requestVars>>

\* pg_restore brings back an older database: the documents completed since are gone
\* and their numbers will be issued again.  Of the log it has the rows of then; a row
\* that was failed before it was ticked counts as none.
HubRestored ==
  /\ Fault
  /\ ppc = [p \in Pushers |-> "idle"]
  /\ \E kept \in SUBSET onHub : \E rows \in SUBSET kept :
       /\ \A d \in kept, e \in onHub : e < d => e \in kept
       /\ onHub' = kept
       /\ log' = [d \in Docs |-> IF d \in rows THEN log[d] ELSE "none"]
  /\ UNCHANGED <<captured, cloudVars, pushVars, requestVars>>

-----------------------------------------------------------------------------
(* The cloud                                                               *)

OnCloud == {d \in Docs : posted[d] > 0}

\* The numbers under which the cloud holds a document, whose ever it is.
Held == taken \cup {Number[d] : d \in OnCloud}

\* Mutant of Covered: the sales of a till are not looked up.
CoveredNever(d) == TRUE

\* Every sale number of a till has a completed row of pos_offline_sync.
Covered(d) == d \in Tills => \A s \in TillSales[d] : Number[s] \in Held

\* Mutant of Seen: any pos_offline_sync row counts, a failed one too.
SeenAnyRow(d) == Number[d] \in Held \/ (d \in Sales /\ opStatus[Number[d]] # "none")

\* Mutant of Seen: the dedup ledger is not consulted for sales.
SeenNoLedger(d) == d \notin Sales /\ Number[d] \in Held

\* A sale is a duplicate when the pos_offline_sync row of its number has a sale number,
\* another document when a row has its waste_no, st_no or session_no.
Seen(d) == Number[d] \in Held

\* A row that carries this number and a unique index is written by another request
\* that is still open: the pos_offline_sync row of a sale or of its failure, the row
\* of a till.  (The counter row that numbers orders also serialises the sales of one
\* day; nothing here rests on it.)
RowOpen(n, others) ==
  \E q \in others, d \in Docs :
    /\ Number[d] = n
    /\ \/ d \in Sales /\ outcome[q][d] \in {"synced", "failed"}
       \/ d \in Tills /\ outcome[q][d] = "synced"

\* The cloud logs a waste sheet or opens a till of its own, or books a document of
\* another hub, under a number that this hub issues too.  session_no is unique.
TakeNumber(n) ==
  /\ n \in Shared \ taken
  /\ ~RowOpen(n, Requests)
  /\ \A t \in Tills : Number[t] = n => n \notin Held
  /\ taken' = taken \cup {n}
  /\ UNCHANGED <<hubVars, posted, opStatus, pushVars, requestVars, faults>>

Answer(r, d, o) ==
  /\ outcome' = [outcome EXCEPT ![r][d] = o]
  /\ batch' = [batch EXCEPT ![r] = @ \ {d}]
  /\ rpc' = [rpc EXCEPT ![r] = "gate"]

\* The check at the start of syncOne, ingestTill, logWaste, ingestHubStocktake: it
\* reads what is committed and takes no lock.  A sheet that one person counted and
\* posted is refused before it is looked up.
Gate(r) ==
  /\ rpc[r] = "gate"
  /\ \E d \in batch[r] :
       /\ IsFirst(d, batch[r])
       /\ IF d \in Unsegregated THEN Answer(r, d, "failed")
          ELSE IF Seen(d) THEN Answer(r, d, "duplicate")
          ELSE IF ~Covered(d) THEN Answer(r, d, "failed")
          ELSE rpc' = [rpc EXCEPT ![r] = "book"] /\ UNCHANGED <<batch, outcome>>
  /\ UNCHANGED <<hubVars, cloudVars, pushVars, caller, faults>>

\* What a request has written is its own until it commits.
Written(r) == {d \in Docs : outcome[r][d] = "synced"}

MustWait(r, d) == RowOpen(Number[d], Requests \ {r})

\* The sale, the stock or the session is written, unless the cloud refuses it for good
\* (USE_WRITEOFF, an item it does not sell).  The dedup row of a sale is an upsert: it
\* overwrites the row of whoever was first.  A till whose number is held by now
\* violates the unique index.
Book(r) ==
  /\ rpc[r] = "book"
  /\ \E d \in batch[r] :
       /\ IsFirst(d, batch[r])
       /\ ~MustWait(r, d)
       /\ Answer(r, d, IF d \in Refused \/ (d \in Tills /\ Seen(d)) THEN "failed" ELSE "synced")
  /\ UNCHANGED <<hubVars, cloudVars, pushVars, caller, faults>>

\* An operation throws (an item is sold out, a lock is a deadlock, ...).  For a
\* sale its savepoint is rolled back and a tombstone is written.
OpFails(r) ==
  /\ Fault
  /\ rpc[r] = "book"
  /\ \E d \in batch[r] :
       /\ IsFirst(d, batch[r])
       /\ d \in Sales => ~MustWait(r, d)
       /\ Answer(r, d, "failed")
  /\ UNCHANGED <<hubVars, cloudVars, pushVars, caller>>

EndRequest(r) ==
  /\ rpc' = [rpc EXCEPT ![r] = "idle"]
  /\ batch' = [batch EXCEPT ![r] = {}]
  /\ outcome' = [outcome EXCEPT ![r] = NoOutcome]
  /\ caller' = [caller EXCEPT ![r] = Nobody]

\* What the transaction leaves on the cloud.
CommitWrites(r) ==
  /\ rpc[r] = "gate"
  /\ batch[r] = {}
  /\ posted' = [d \in Docs |-> IF d \in Written(r) THEN posted[d] + 1 ELSE posted[d]]
  /\ opStatus' = [n \in SaleNumbers |->
       IF \E s \in Sales : Number[s] = n /\ outcome[r][s] = "synced" THEN "synced"
       ELSE IF \E s \in Sales : Number[s] = n /\ outcome[r][s] = "failed" THEN "failed"
       ELSE opStatus[n]]
  /\ EndRequest(r)
  /\ UNCHANGED <<hubVars, taken, stage, todo>>

\* The transaction commits; the answer reaches the process if it still waits.
Commit(r) ==
  /\ CommitWrites(r)
  /\ IF caller[r] = Nobody
     THEN UNCHANGED <<ppc, answers>>
     ELSE /\ ppc' = [ppc EXCEPT ![caller[r]] = "log"]
          /\ answers' = [answers EXCEPT ![caller[r]] = outcome[r]]
  /\ UNCHANGED faults

\* The answer arrives as 200 with a body that cannot be parsed.  post makes an empty
\* object of it: no results to log for the sales, a success for any other document.
AnswerGarbled(r) ==
  /\ Fault
  /\ CommitWrites(r)
  /\ caller[r] # Nobody
  /\ \A d \in Docs \ Sales : outcome[r][d] # "failed"
  /\ ppc' = [ppc EXCEPT ![caller[r]] = IF stage[caller[r]] = "sales" THEN "send" ELSE "log"]
  /\ answers' = [answers EXCEPT ![caller[r]] =
       [d \in Docs |-> IF d \notin Sales /\ outcome[r][d] # "none" THEN "synced" ELSE "none"]]

\* The transaction is rolled back (a lost connection, a restart of the cloud).
RollBack(r) ==
  /\ Fault
  /\ rpc[r] # "idle"
  /\ IF caller[r] = Nobody THEN UNCHANGED <<ppc, answers>> ELSE CallThrows(caller[r], r)
  /\ EndRequest(r)
  /\ UNCHANGED <<hubVars, cloudVars, stage, todo>>

-----------------------------------------------------------------------------
PushStep(p) == Collect(p) \/ SkipRow(p) \/ Send(p) \/ NextStage(p) \/ LogRow(p)

RequestStep(r) == Gate(r) \/ Book(r) \/ Commit(r)

Next ==
  \/ \E d \in Docs : Complete(d)
  \/ \E p \in Pushers : PushStep(p) \/ AnswerLost(p) \/ PushDies(p)
  \/ HubRestored
  \/ \E n \in Shared : TakeNumber(n)
  \/ \E r \in Requests : RequestStep(r) \/ OpFails(r) \/ AnswerGarbled(r) \/ RollBack(r)

Spec == Init /\ [][Next]_vars

\* Cron starts the push every five minutes: some push goes on, while another may hang.
\* The database answers.  Nothing is assumed of the branch, faults need not happen.
Fairness ==
  /\ WF_vars(\E p \in Pushers : PushStep(p))
  /\ \A r \in Requests : WF_vars(RequestStep(r))

FairSpec == Spec /\ Fairness

-----------------------------------------------------------------------------
(* Properties                                                              *)

Logged == {d \in Docs : log[d] \in {"pushed", "duplicate"}}

\* A document is ticked off only when the cloud holds its number, whatever calls were
\* lost, repeated, garbled or rolled back: it is there, or another document took its
\* number first.
TickedNumberIsHeld == \A d \in Logged : Number[d] \in Held

\* schema/hub.ts: hub_push_log is the visible ledger of what could not be replayed,
\* never a silent drop.  What it ticks off would be on the cloud.
NeverSilentlyDropped == Logged \subseteq OnCloud

\* A till session is certified only over sales whose numbers are all on the cloud.
TillsCoverTheirSales ==
  \A t \in Tills \cap OnCloud : \A s \in TillSales[t] : Number[s] \in Held

\* Only requests that overlap can book a document again: the number of bookings
\* never exceeds the number of requests that run at the same time, however often
\* the document is pushed.  A till session is booked once.
BookedAgainOnlyByOverlap ==
  /\ \A d \in Docs : posted[d] <= Cardinality(Requests)
  /\ \A t \in Tills : posted[t] <= 1

\* hub-push.ts and hub-sync.service.ts: a re-push lands as duplicate, also for two
\* overlapping pushes; a replayed batch cannot double-post.
SaleBookedOnce == \A s \in Sales : posted[s] <= 1

\* Documents that can get through: not the sales the pusher skips, what the cloud
\* refuses for good, nor the tills over any of these.
Hopeless == Unsupported \cup Unsegregated \cup Refused
Replayable == {d \in Docs \ Hopeless : d \in Tills => TillSales[d] \cap Hopeless = {}}

\* Once faults end and the branch is closed, every document in its database that can
\* get through stays ticked off, also when a late failure of an overlapping push had
\* overwritten the tick or a backup had lost it: there are finitely many documents.
EventuallyReplayed == <>[](onHub \cap Replayable \subseteq Logged)

Needs == [d \in Docs |-> IF d \in Tills THEN TillSales[d] ELSE {}]

Promise == INSTANCE Replay WITH onCloud <- OnCloud, ticked <- Logged

\* Hub and cloud together keep what Replay promises of the replay: nothing leaves the
\* cloud, arrives before what it needs, or is ticked off before its number is there.
KeepsPromise == Promise!Spec

-----------------------------------------------------------------------------
(* The inductive invariant                                                 *)

\* Requests that have booked a document or are about to.
Booking(d) ==
  {r \in Requests : outcome[r][d] = "synced" \/ (rpc[r] = "book" /\ IsFirst(d, batch[r]))}

\* What a request found, and what a process was told, is so: the number is held.
AnswersAreTrue ==
  /\ \A r \in Requests, d \in Docs : outcome[r][d] = "duplicate" => Number[d] \in Held
  /\ \A p \in Pushers, d \in Docs :
       answers[p][d] \in {"synced", "duplicate"} => Number[d] \in Held

\* Everything on its way was captured by the branch.
FromHub ==
  /\ \A p \in Pushers : todo[p] \subseteq captured
  /\ \A r \in Requests : batch[r] \cup {d \in Docs : outcome[r][d] # "none"} \subseteq captured

\* The check of a till still holds when the till is booked.
CoveredWhenBooked ==
  \A t \in Tills : Booking(t) # {} => \A s \in TillSales[t] : Number[s] \in Held

\* One open request at most has inserted a till, and then none has committed it.
OneTillInsert ==
  \A t \in Tills, r \in Requests :
    outcome[r][t] = "synced" =>
      posted[t] = 0 /\ \A q \in Requests : outcome[q][t] = "synced" => q = r

\* A booking uses up the request that makes it: one that starts later finds it.
BookingBudget == \A d \in Docs : posted[d] + Cardinality(Booking(d)) <= Cardinality(Requests)

TillBookedOnce == \A t \in Tills : posted[t] <= 1

IInv ==
  /\ TypeOK
  /\ AnswersAreTrue /\ TickedNumberIsHeld
  /\ FromHub
  /\ TillsCoverTheirSales /\ CoveredWhenBooked
  /\ TillBookedOnce /\ OneTillInsert
  /\ BookingBudget
=============================================================================
