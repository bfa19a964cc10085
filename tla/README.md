# Verification of the invisibleERP core

TLA+ models, TLC runs and TLAPS proofs for the transactional core of the
repository: the NestJS API under `src/apps/api`, its PostgreSQL tables and the
background workers inside it. Paths below are relative to `src/apps/api/src`
unless they start with `src/`.

## 1. The system

A monorepo: the API (about 160 feature modules over one PostgreSQL database),
a Next.js client, a shared package, a Python forecast service, ETL and
operations tools, a marketing platform, and a store hub that works offline.

What decides correctness is the same everywhere:

- every HTTP request runs in **one database transaction** opened by
  `common/tenant-tx.interceptor.ts`; a nested `db.transaction` is a savepoint,
  and a worker job gets the same treatment from `common/tenant-run.ts`;
- the isolation level is **READ COMMITTED** (nothing sets another), most reads
  take no lock, and most updates address a row **by id** without repeating the
  condition that was checked on the row read before;
- therefore two requests may decide on the same old row. What protects the data
  is a unique index, a trigger, a row lock (`FOR UPDATE`) or nothing.

All modules use that view: a read that a later write relies on is a step of its
own; the writes of a transaction become visible together, at its commit.

### Components

| component | state | operations | what makes it correct |
|---|---|---|---|
| job queue and worker (`modules/jobs`) | `background_jobs` rows; per process a poll loop | enqueue, claim, done, failed, reap | at-least-once, bounded retries, one process per attempt, every job settles |
| general ledger (`modules/ledger`) | `journal_entries`, `gl_audit_log`, `gl_period_balances`, `fiscal_periods` | post, approve, reject, reverse, open/close period, close year | one entry per posting key, Posted is final, snapshot = postings, a shut period takes no postings |
| governed close (`modules/ledger/close.service.ts`) | `close_runs`, `close_run_steps`, `fiscal_periods` | start, complete, auto-complete, lock, reopen | lock only when complete, order of steps, two persons |
| audit trail (`common/audit*`, `modules/audit-viewer`) | `audit_log` hash chains, `audit_expectations` | count, append, verify | rows link, losses show, writers do not starve |
| payments, refunds, tills (`modules/payments`) | `payments`, `payment_refunds`, `refund_requests`, `till_sessions` | tender, tip, capture, void, settle, refund, approve, close till | one tender per key, the posted tip is the charged one where the provider took the money, refunds never exceed the payment |
| gift cards (`modules/giftcards`) | cards, card transactions | issue, approve, redeem, credit | balance follows the transactions |
| workflow (`modules/workflow`) | definitions, steps, instances | start, act, cancel, escalate | no instance is stuck or decided twice |
| store hub sync (`database/hub-push.ts`, `modules/hub`) | `hub_push_log` on the hub; `pos_offline_sync`, sales, sheets and `till_sessions` on the cloud | collect, send, log; ingest | a tick stands for a number the cloud holds, tills come after their sales, what can get through arrives |
| AR/AP, procurement, inventory, costing, POS, restaurant | documents and sub-ledgers | life cycles that post through `postEntry` | documents and ledger agree |
| the rest: CRM, HCM, BI, AI, planning, web client, tools | | reporting, computation, record keeping | no concurrent protocol of their own |

Interactions: everything that books money calls `postEntry` inside its own
transaction; the close and the calendar endpoints share `fiscal_periods` with
every posting; every mutating request owes an audit row; long work is enqueued
in the request's transaction and run by a worker. A return refunds its payment in
the return's own transaction; a store hub replays its branch through the same
services the branch would have called online.

The hard behaviours are listed one by one in `PROJECT.json` ("hazards"), each at
its line: stale reads, lost and repeated work, crashes between two commits, row
locks that do not do what one expects under READ COMMITTED.

## 2. The modules

### JobQueue and TaskPool (`modules/jobs/job-queue.service.ts`, `job-worker.service.ts`)

`status`, `attempts`, `lock`, `due` are the columns of a row (`locked_at` and
`run_after` as what a comparison with the clock tells), `ran` says that a handler
transaction of the job committed. A process is `pc` (poll, handler, markDone,
markFailed, reap, reapWrite, down) with its copy of the claimed row (`cjob`,
`catt`), the rows its reaper selected (`seen`), the ticks of its drain
(`drained`) and its reap throttle (`reapDue`).

One action per transaction: `Claim`, the handler (`HandlerCommits` /
`HandlerThrows`), `MarkDone`, `MarkFailed`; `reapStuck` is two (`ReapScan`, an
unlocked select, and `ReapWrite`). `Claim` takes any due row, since `SKIP LOCKED` may
pass over older ones, and a drain ends early when the rows it could claim are held by
the reaper of another process (`ReapHolds`). `LockGrowsStale` is free to happen while the
handler runs: nothing bounds a handler by `JOBS_STUCK_MS`. Faults: errors of each
queue call, crashes, restarts.

`TaskPool` is the abstract specification, what the queue owes to those who enqueue: a
task is open until it is done or dead, tried a number of times, and worked on or not.
It has no processes, and every task moves on its own. `KeepsTaskPool` is `TaskPool` with
queued and running rows as open, `tried` as `attempts` and `worked` as `ran`. At least
once is visible in it: a settled task may be worked on, finished or given up again, and
re-opened, but only as long as another try stays below the bound.

### GeneralLedger and Journal (`modules/ledger/ledger-posting.service.ts`, `ledger-periods.service.ts`)

Entries are the ids of `journal_entries`; `applied` counts how often the lines of
an entry were added to the balance snapshot, `posts`, `approvals` and `reversals`
are the rows of `gl_audit_log`. A request moves through reads (`...Read`,
`...Gate`) to its commit (`...Commit`); `Abort` is any error: it rolls back.
`Taken` and the dedupe branch are the unique index `ux_je_idem` with
`onConflictDoNothing`, `TriggerBlocks` is the immutability trigger
(`src/apps/api/drizzle/0165_gl_immutability.sql`).

`Journal` is the abstract specification, what a reader of the ledger may rely on: a
book to which entries are only added, each under a header that stays, a key with a
reference used once, and a reversal that posts its contra entry in the step that marks
the entry. It has no requests, each operation is one step. `KeepsJournal` is `Journal`
with `book` as the headers of the rows written, `posted` as the rows that are Posted,
`proposed` as those without a POST row in the audit log, `reversed` as `is_reversed`
and `weight` as `applied`. It has two steps a bookkeeper would not ask for, because the
code takes them: a proposal may be approved again, and then counts again, and a
rejection is no step, since an approval that overlaps it still goes through.

### PeriodClose (`modules/ledger/close.service.ts`)

EXTENDS GeneralLedger and composes with it: `CloseNext` is a close request's step
or a ledger step. `completeStep` and `autoComplete` update steps behind row locks
(`StepsLocked`), read the checklist back (their own steps plus the committed ones)
and only then commit. They differ in the dependency of a step: `completeStep` looks it
up after it has read the run (phase `complete`), `autoComplete` decides on the one read
of run and steps it starts with (phase `auto`). The evidence that `autoComplete` looks
for is a nondeterministic choice.

### AuditTrail (`common/audit-writer.ts`, `audit.interceptor.ts`, `tenant-tx.interceptor.ts`, `modules/audit-viewer`)

A request opens its business transaction (`Begin`), commits it with the bump of
`audit_expectations` (`Commit`) or rolls both back (`RollBack`), or never had one
(`Refuse`); its audit row is owed from then on and written by `SelectLast`,
`LockLast`, `AppendRow`, or lost (`WriteFails`, `Crash`). A hash stands for the
row it was computed from. `Walks`, the orders in which the rows of
a chain may come back, `WalkOk` and `Shortfall` are what
`GET /api/admin/audit/verify` answers; the endpoint counts rows and requests in two
statements, which `Shortfall` reads at one moment (on a quiet chain there is no
difference).

The lock step is the interesting one. A `SELECT ... ORDER BY seq DESC LIMIT 1 FOR
UPDATE` that has to wait goes on with the row it had chosen; it is evaluated again
only when that row was updated meanwhile, and appending does not update it.

### HubSync and Replay (`database/hub-push.ts`, `modules/hub`, `RestaurantOfflineSyncService.syncBatch`)

A store hub sells while the cloud is out of reach. `hub-push.ts` reads what is not
in `hub_push_log` yet, or failed (`Collect`), logs one by one the sales it cannot
replay (`SkipRow`), and sends the rest: the sales in one batch, then waste and count
sheets, then closed tills. A push is a process (`ppc`, `stage`, `todo`, `answers`);
cron and a person may start two. A call is a transaction of the cloud (`rpc`, `batch`,
`outcome`), which knows its `caller` only as long as that one still waits. `Gate` is
the duplicate check, and for a till the check that its sales are there; `Book` writes,
uncommitted until `Commit`. `MustWait` is what makes a second writer wait: the unique
indexes of `pos_offline_sync` and of `session_no`. The upsert of the first lets the
waiting writer go on, the second makes it fail.

**Numbers.** Hub and cloud find a document by its number, and every database counts its
own: `TILL-20250101-001` is issued by a counter row that a hub neither inherits nor
prefixes, and `ingestTill` looks a `session_no` up without the tenant. So a document has
an identity and a `Number`; two documents may have the same one, and a number in `Shared`
may also be given to a document that is not this hub's (`TakeNumber`). `Seen` is the
check of the code: the cloud `Held`s the number, whoever's it is.

**Faults.** A lost answer (`AnswerLost`: the request goes on without anybody waiting),
a 200 whose body cannot be parsed (`AnswerGarbled`: `post` makes an empty object of it,
which logs nothing for a batch of sales and `pushed` for one document), a push that
dies, an operation that throws, a rolled back request. `HubRestored` is
the documented `pg_restore`: documents completed since the backup are gone, their numbers
will be issued again to others, and of `hub_push_log` there is what it held then. (A row
that was failed in the backup and ticked later comes back as none: both make the document
a candidate.) What `hub-push.ts` does with an exception differs by stage (`CallThrows`):
in the first it ends the run with nothing logged, later it logs one document as failed.

**Refusals for good.** Count sheets their counter posted (`Unsegregated`) are refused
before the duplicate check, waste of perpetual items and what the cloud does not sell
(`Refused`) when it is booked; the pusher tries them again for ever.

`Replay` is the abstract specification, four sets: the documents a branch captured,
those on the cloud, those ticked off, and the numbers that came from elsewhere. A tick
says that the cloud holds the number, no more, because that is all the code looks at.
`KeepsPromise` is `Replay` with `onCloud` as the documents booked at least once and
`ticked` as the rows of `hub_push_log` that say pushed or duplicate.

### Payments (`modules/payments/payments.service.ts`)

A payment is one record: its row, what was refunded of it, the tip that was posted and
what the payment service provider (PSP) took (`charged`). The PSP is external: its calls
(`PspCharges`, `PspCaptures`) take effect at once and survive a rollback. It takes a
hold once; a capture may also return without an exception and without the money
(`PspTakesNothing`, remembered in `untaken`), which `capture` does not tell apart. `ask`
are the refund requests. A request (`req`) carries what it has read: the tip before the
capture (`amount`), the status before the void (`result`), the refunds settled before,
read once for the approval gate (`Refund`, then `Gate` reads those that wait) and summed
again under the row lock (`prior`). `RowLocked` is that lock: refunds take it first, the
unlocked updates of capture, void and settle wait for it and then overwrite the status
by id. `Abort` after any step is an error: the row goes, the PSP's money stays.

### The MC modules

`MC<Module>` instantiates a module for TLC: symmetry sets and constant values that
a `.cfg` cannot write. No run replaces a definition. `CountingLemmas` models nothing:
it holds the facts on least elements and sums that several proofs need.

## 3. The runs

| run | instance | shows |
|---|---|---|
| `job_queue` | 2 jobs (2 and 1 attempts), 2 processes, 1 fault, drains of 2 | retries bounded, attempts exclusive, dead letters exhausted, a settled job is re-opened only by an old copy, the queue implements `TaskPool` (done means run), every job settles |
| `dead_letter` (violation) | 1 job, 2 processes, no fault | a dead letter does run again |
| `general_ledger` | 2 entries, 2 months, 2 requests | posting keys, reversals, snapshot against audit log, Posted is final, the ledger implements `Journal` |
| `snapshot_drift` (violation) | 1 draft, 2 approvals | the snapshot counts it twice |
| `period_close` | 1 month, 1 ledger request, 2 close requests, 2 users, 3 steps, of which one ticked by hand and one on evidence wait for the first | completeness, order, two persons; shut periods drain: the lock holds once in-flight requests ended |
| `locked_posting` (violation) | the same | a posting lands in a locked period |
| `audit_trail` | 4 requests, 2 chains | rows link, the walk finds exactly the forks, the completeness verdict, no writer waits for ever |
| `audit_fork` (violation) | 3 requests | the lock does not prevent a fork |
| `hub_sync` | 2 sales, one of which is skipped, a waste sheet that is refused, a till over the first sale whose number the cloud may issue too; 2 pushes, 2 cloud requests, 1 fault | a tick stands for a number the cloud holds, covered tills, bookings bounded, hub and cloud implement `Replay`, what can get through does |
| `hub_double_booking` (violation) | a sale, a sheet, a sale to skip; 2 pushes, no fault | two overlapping pushes book one sale twice |
| `hub_silent_drop` (violation) | a sale, a count sheet its counter posted, 2 tills of one number; 1 push, 1 request, 1 fault | a till is ticked off for another one's number and never reaches the cloud |
| `payments` | 2 requests at once, 5 in all; 2 payments of 3, 2 refund requests, threshold 2, tip 1 | keys, captures, tips, voids, refunds by all routes, approvals |

**Bounds.** Two processes are enough for every race of the queue, since an action
concerns a process and a row; a job with two attempts has a first and a last one,
a second job with one attempt is dead-lettered at once and shows that jobs do not
disturb each other; `MaxFaults = 1` lets a crash or an error hit any step. Two
ledger requests give every pairwise race; two entries let an entry and its contra,
or two entries of one key, exist; the two months distinguish the date of an entry
from that of its reversal and the year end. Four audit requests give a first row,
two writers behind it, and one to count. For the hub, one sale that goes through
and one that is skipped, a sheet that is refused and a till that has its sale before
it give each kind of document and each kind of end; a number issued twice is given by
the till's, and by the two tills of `hub_silent_drop`, where it is issued again after a
restore; two pushes and two cloud requests give every overlap, and one fault may hit any step.
Five payment requests are enough for a tender, its capture, and three that
disagree about it; a threshold of 2 and a payment of 3 let two small refunds
together cross what one alone may not; `MaxBegun` is the bound that makes the
instance finite, since a PSP can be asked for ever. `DrainMax` is 100 in the code and 2 in
the run: it only matters that it can be reached.

**Stopping.** `CHECK_DEADLOCK FALSE` stands where the instance really ends: the
audit requests, and the payment requests under `MaxBegun`, are finite in number.
The other instances never stop.

**Fairness.** `JobQueue`: each loop takes its enabled steps, because `schedule` re-arms
the timer in a `finally` whatever `drain` and `reap` did, a crashed process is restarted
by its platform, and clocks advance. Faults and enqueues are owed nothing, and a handler
may throw for ever. `AuditTrail`: the database answers each statement of an audit write;
nothing is assumed of requests or failures. `HubSync`: some push goes on (cron starts it
every five minutes: `src/docs/ops/store-hub-setup.md:118`), while another may hang for
ever, and the cloud's database answers each request; the branch, `HubRestored`,
`TakeNumber` and the faults are owed nothing, and faults are finitely many. Weak
fairness is enough everywhere. `PeriodClose`, `GeneralLedger` and `Payments` state none:
a user may always walk away from a request.

## 4. What the code does not keep

Six statements of comments in the code are refuted, each by a run of its own
(`PROJECT.json`, "findings", quotes them). For each there is a theorem that says under
which condition the statement would hold, so that a reader sees what a repair has to
establish; nothing in the code guarantees one of these conditions, though a deployment
with a single process meets the first.

1. A dead-lettered job can run again: `markFailed` overwrites by id from an old
   copy. What does hold, and is proved, is that the number of runs stays below
   `max_attempts` plus the number of processes. With a single process the statement
   itself holds (`OneProcessDeadLettersFinal`).
2. Two approvals of one draft put it in the balance snapshot twice. What holds:
   the snapshot equals the number of POST and APPROVE rows, so the drift shows in
   the audit log, and an entry approved again is the only kind of drift there is
   (`LedgerDrift`). One ledger request at a time cannot drift
   (`SerialLedgerCannotDrift`).
3. A posting that passed the period gate before the hard lock lands after it. What
   holds: no request passes the gate of a shut period, so the period is quiet once
   the requests in flight have ended. A lock that waits for them does reject postings
   (`DrainedLockHolds`).
4. The audit chain forks when two writers wait for one row. What holds: every row
   still follows a row of its own chain, and the walk reports exactly the forks.
   There are none while the writers of a chain do not overlap between the select and
   the insert (`SerialWritersCannotFork`), which an advisory lock on the chain would
   give and the lock on a row does not.
5. The hub ticks off a document that the cloud does not have. Its number is looked up
   there as it is, a `session_no` without even the tenant; when the cloud or another hub
   issued that number first, the answer is `duplicate`, and `hub_push_log`, which is to
   name "what could NOT be replayed, never a silent drop", names nothing. A hub restored
   from a backup does it to itself: it issues numbers again that it had pushed. What
   holds, and is proved: the cloud holds the number of whatever is ticked off
   (`TickedNumbersAreHeld`). Where each document has a number of its own, which a prefix
   per hub would give, renewed after a restore, nothing is dropped
   (`UniqueNumbersSuffice`).
6. Two overlapping pushes of the hub book a sale twice: the duplicate check of
   `syncOne` takes no lock, the sale is booked before the row that would stop it,
   and that row is an upsert. (The counter that numbers the orders of a day makes
   the second request wait, but after its check; the model does not rely on it.)
   Waste and count sheets have the same unlocked check and no unique index at all.
   `src/docs/ops/store-hub-setup.md:118-120` promises "never a second sale/GL" also
   for a restored hub; what it misses is the overlap here, and the numbers of item 5.
   What holds, and is proved: a document is booked at most once per request that runs at the same
   time, and a till once, since its index is not an upsert. If the cloud
   worked off one call at a time, every sale would be booked at most once whatever is lost,
   repeated or restored (`SerialCallsBookOnce`).

The models take more that is worth knowing as it is, or leave it out, and no run is
about it:

- `openPeriod`, `closePeriod` and `closeYear` write the status of a period without
  looking at it, and so lift a hard lock (`ledger-periods.service.ts:73`); the model does
  it too. No comment says they cannot, so no property does. `LockIsTwoPerson` is about who
  locked, not about who lifts.
- The completeness check counts a request whose audit row is still being written as a
  shortfall; once no write is in flight a shortfall is a lost row
  (`QuietShortfallIsLoss`). And it walks the chains that have rows
  (`audit-viewer.service.ts:149`): a chain that lost all of its rows is not reported.
- A charge can stay without a row: `recordTender` inserts the Pending row in the same
  transaction it calls the PSP in, so a rollback after the call removes the row with
  the transaction, whatever the comment at `payments.service.ts:81` says of it. The
  model takes this step; `OneTenderPerKey` speaks of rows.
- `capture` does not look at the status the PSP returns, only at exceptions
  (`payments.service.ts:253-271`). A gateway that answers Failed, Pending or Authorized
  (`gateways.ts:109,117,167-172`), and the mock that answers without a key, leave a payment
  Captured and a tip posted that nobody charged, against `gateways.ts:128-129` ("we NEVER
  report Captured for money that has not actually moved"). `TipChargedUnlessUntaken` is
  what remains: the posted tip is the charged one, except after such an answer.
- `approveRefund` twice at once runs the refund twice (`ApprovalRunsBounded` is the
  bound that holds; the row lock still keeps the sum within the payment), and a late
  `rejectRefund` overwrites an approval.
- A refund gated below the threshold may join others in flight: the comment at
  `payments.service.ts:297` says summing defeats a split; `UnapprovedBounded` is what
  the unlocked sum leaves.
- `voidPayment` accepts payments that are Refunded or Failed, and overwrites a
  capture it did not see.
- A sale the pusher skips as unsupported, or the cloud refuses every time, keeps the
  till of its session off the cloud for good; a refused sheet stays `failed` for itself.
  `Replayable` excludes them all: documented, to be entered by hand. The push repeats
  the refused ones for ever.
- An answer that cannot be parsed counts as a success (`hub-push.ts:434`). It does no
  harm to a document that was booked; the model takes it only for a 200, after which the
  cloud holds the number.
- A failed replay that waits for a successful one overwrites the `status` of its row
  in `pos_offline_sync` with 'failed'; the duplicate check looks at `sale_no`, which
  it leaves.
- Tills (not modelled): a movement may enter a till that was closed meanwhile, and a
  second close overwrites a close that waits for approval.

## 5. What is proved

`JobQueue_proofs` proves, for every set of jobs, every finite set of processes,
every `max_attempts` and every number of faults, from the named assumptions of
`JobQueue`:

- `TypeCorrect`: the type invariant;
- `RetriesBounded`, `DeadLettersExhausted`, `ClaimsExclusive`: the safety invariants
  of `job_queue`, and `DoneHasRun`, that a job is done only after a handler committed;
- `ReopenedByToken`: its action property `ReopenedOnlyByStaleCopy`;
- `QueueIsTaskPool`: `Spec => KeepsTaskPool`, the refinement.

The invariants are not inductive alone. `IInv` adds: copies of a row are never
ahead of it (`CopiesAreBehind`); a loop that is about to mark a job done has a
committed handler behind it (`MarkedDoneHasRun`); and the **retry budget**. A
process holds a *token* for a job when it may still re-queue it by what it read
before the attempts were exhausted. Once `attempts >= max_attempts`,
`attempts + (1 if queued) + (number of tokens) < max_attempts + (number of
processes)`: a re-queue turns a token into a queued row, a claim turns the queued
row into an attempt, and no new token can appear, since every fresh copy is an
exhausted one. The bound on the attempts follows, and so
does the guard of `TaskPool` for a re-opened task: the queued row itself is one of the
summands. `ClaimedFirst` (whoever has a copy of a row has it of a claimed one) gives that
nobody gives up or works on a task that was never tried. The refinement first says what
any step does to one row (`RowsStep`), then that this is a step of the pool.

`GeneralLedger_proofs` proves, for any entries, periods, refs and any finite set
of concurrent requests, every property of `general_ledger`:

- `LedgerTypes`, `LedgerSnapshot`, `LedgerIdempotent`, `LedgerReversals`,
  `LedgerApprovals`: its invariants;
- `LedgerPostedIsFinal`, an action property, and `LedgerShutPeriodsDrain`, that of
  `period_close` for the ledger on its own;
- `LedgerIsJournal`: `Spec => KeepsJournal`, the refinement.

`LedgerInvariant` establishes the inductive `IInv`. Beyond the invariants of the
run it says four things. `DraftsAreBusiness`: only manual and sub-ledger entries
wait for approval, so approving or rejecting never touches a contra entry.
`ReadHolds`: what a request has read of an entry survives until it writes, because
every step is `Persist` (a row keeps its header, a Posted one its status, a decided
one is never a draft again). `ApprovalBudget`: the approvals an entry has got plus
the requests on their way to approve it never exceed the number of requests; a
request that reads a draft finds no approval at all, and a commit takes a request
out of the second number as it adds one to the first. The books half of the proof
has one lemma for each thing a commit can do to the books (insert fresh rows,
approve, reject, reverse), the requests half one for each thing a read can find.
`BornOrApproved`: an entry is Posted when it is written or becomes so by approvals,
never both, so that an approval under way finds an entry that was proposed.

The refinement has one lemma per handler. A posting maps to `Propose` or `Post`, the
commit of an approval to `Approve`, that of a reversal to `Reverse` with the entry
`ReadHolds` still knows to be Posted and not reversed, `closePeriod` and `closeYear` to
`Post` of what they book or to a stutter, all reads, gates, rejections and aborts to a
stutter. All of this rests on the unique index and the trigger only; no lock is
involved.

`PeriodClose_proofs` proves every property of `period_close` for any months,
checklists, users and numbers of ledger and close requests: `CloseTypes`,
`CloseComplete`, `CloseOrdered`, `CloseTwoPersons`, `CloseLockedRunsDrain`, and
`CloseShutPeriodsDrain`. Composed with closes and reopens, the ledger also keeps its
safety invariants (`CloseKeepsBooks`) and implements `Journal` (`CloseIsJournal`): a
step of a close leaves everything the journal sees unchanged. `CloseIInv`
contains the ledger's `IInv`, which survives a close step by one lemma,
`CalendarKeepsIInv` of `GeneralLedger_proofs`: no invariant of the books speaks of
the calendar. The other half, `CloseHolds`, is what makes decisions on old reads
safe: steps never become un-Done, a run never goes away and its starter never
changes, so what a request read of them is still so when it writes. Only the close
locks a period (`LedgerLocksNothing`), hence a locked one has a run and a locker.

`AuditTrail_proofs` proves the four invariants of `audit_trail`, `TrailTypes`,
`TrailLinked`, `TrailVerdict` and `TrailWalk`, for any finite set of requests and any
chains. `WriterFits` ties the row a writer has selected to its chain; `CounterFits`
says that each bump belongs to a request that owes, has or lost its row. With no write
in flight the requests counted are the counted rows and the lost ones, the rows are the
counted and the uncounted ones, and the verdict is the comparison of what remains.

`TrailWalk` is about chains of any length. Every row but those numbered 1 follows a row
numbered one less, so a chain that numbers no two rows alike is numbered from 1 without
a gap; the walk sorts by the number, hence finds at each place the row the next one
follows. Where it would not, take the least such place. `TrailGapless` states what the argument
begins with: below the number of any row, every number from 1 is that of a row of its
chain, forked or not. `SerialWritersCannotFork` carries its own invariant
(`SerialIInv`): the row a writer has selected stays the last one, and numbers stay
apart; and it gives the walk the endpoint makes, since numbered rows can be sorted.

`HubSync_proofs` proves the safety half of `hub_sync` for any documents, numbers,
pushes, concurrent requests and faults: `TypeCorrect`, `TickedNumbersAreHeld`,
`TillsAreCovered`, `BookingsBounded`, and `Refinement`: `Spec => KeepsPromise`, each
step of hub and cloud being a step of `Replay` or a stutter. The invariant rests on
one fact, that no number leaves the cloud: an answer (`AnswersAreTrue`), a till's check
(`CoveredWhenBooked`) stay true however late they are used, and a garbled answer to one
document is no refusal, hence says what the transaction did. `UniqueNumbersSuffice` adds
that a held number which neither another document of the hub nor anybody else has is
that of the document itself.
`BookingBudget` counts
bookings plus the requests that are about to book: one that starts after a
booking finds it, so every booking uses up one of the requests that overlap.
`SerialCallsBookOnce` is this budget for one request.

`Payments_proofs` proves the nine properties of `payments` for any payments, keys,
refund requests, amounts and any finite set of requests: `TypeCorrect`, `KeysCharge`,
`RefundsBounded`, `RefundsOfReceived`, `TipsChargedOrUntaken`, `ApprovalsBounded`,
`CapturedLeft`, `PendingBounded`, `UnapprovedWithinGate`. `RequestFits` says what backs
each thing a request holds: a tender in the making has no row yet (the unique index
keeps its key single, `KeysUnique`), the sum of refunds is the current one as long as
the row is locked (`OneLock`), and the tip of a captured request is what the PSP took,
once, unless it answered without taking. Reads that nothing backs, those of void and
reject, appear in what the properties allow.

Two of them bound sums, and have an invariant of their own (`LimitsInvariance`).
`AsksLimit`: the refund requests that wait together ask for no more than the payment;
`requestRefund` adds up the waiting ones under the row lock, so two that are parked at
once see each other, and an approval or a rejection only takes from the sum.
`DirectLimit`: what was refunded without an approval plus the amounts of the refunds
past the gate is at most `Threshold - 1` for each request. A refund passes the gate when
what it has read stays below the threshold; the others that passed it are below it one
by one, and a commit moves its amount from one summand to the other.

`CountingLemmas` is what makes sums and walks provable. The induction theorems of the
library take an operator and cannot be used; here each induction is over a set: a
nonempty set of naturals has a least element (`LeastNat`), a nonempty set of subsets of
a finite set a minimal one (`MinimalSubset`), both from the well-foundedness of `<` on
the naturals. From them: the greatest value of a function on a finite set, and that
`SumFunctionOnSet` is a natural number, splits off an element, depends on nothing but the
summands, grows with the set and is bounded by the number of summands times their bound.

Only model-checked: `EventuallySettled`, `EventuallyAudited` and `EventuallyReplayed`,
since liveness under fairness, and `ENABLED`, are out of the prover's reach. The six
refuted properties of section 4 are no theorems, of course.

## 6. What is abstract, and what is left out

- Time is what a comparison with it tells; amounts are how often an entry was
  applied; people matter only where the maker-checker rules compare rows that
  requests change (the close), and are left out where they compare a constant
  column (`created_by`).
- One tenant, the leading ledger, one fiscal year. Row-level security is not
  modelled.
- `closeYear` is modelled for a year with a profit or loss to sweep, and posts its
  closing entry without amounts: a late posting missing from the sweep is a listed
  hazard without a property.
- Line validation, balancing, account rules, alerts, views; how a document number is
  made (the hub's models have a `Number`, and that others issue it too).
- Hub: waste and count sheets are one stage of papers, since both are sent one by one
  behind the same check; signatures, the snapshot that seeds a hub, its heartbeat and
  the fleet view are left out, and so is the cash arithmetic of a till. That an
  uncommitted row of a till's sales is not seen by its check is modelled; that a
  single sale inside a batch is a savepoint is modelled by its outcome.
- Payments: all payments have one amount and refunds whole units of it; cash change,
  currencies and receipts are left out. The counter rows that number documents
  serialise the requests of one day, and not those around midnight: they are left
  out, so nothing proved rests on them. The PSP is external: it throws, or answers, with
  the money or without, and takes a hold once (the mock, which would take it again, takes
  nothing at all).
- The components marked `not_modelled` in `PROJECT.json`, with the reason there.

## 7. Plan

Done: `JobQueue` with `TaskPool`, `GeneralLedger` with `Journal`, `PeriodClose`,
`AuditTrail`, `HubSync` with `Replay`, `Payments`, and proofs for all six. Left, in this order:

1. `Workflow`: instances, parallel approvers, escalation, redefinition of steps while
   instances are pending.
2. Tills of the cloud itself: movements, close, approval of a variance, with amounts
   and a clock; gift cards: issue approval, redemption under a row lock, credit.
3. AR/AP and inventory: documents that post through `postEntry`, composed with
   `GeneralLedger` as `PeriodClose` is.
4. More abstract specifications: an append-only log for `AuditTrail`, an account that
   is only drawn down for the refunds of `Payments`.
5. `closeYear` with amounts: a posting that commits after the year was aggregated.
