---------------------------- MODULE GeneralLedger ----------------------------
(***************************************************************************)
(* The general ledger of one tenant: journal entries, their audit log, the *)
(* period-balance snapshot and the fiscal calendar (LedgerPostingService,  *)
(* LedgerPeriodsService, and the immutability trigger of the database).    *)
(*                                                                         *)
(* A request is one READ COMMITTED transaction.  It reads without locking, *)
(* so each of its reads is a step of its own, and what it decided by them  *)
(* may be old when it writes; its writes become visible together, at its   *)
(* commit, which is the last step.  An update by id does not look at the   *)
(* row it meets, and waits for a concurrent writer of the same row.        *)
(*                                                                         *)
(* Amounts are abstract.  applied[e] counts how often the lines of entry e *)
(* were added to gl_period_balances, so a balance is the sum over e of     *)
(* applied[e] times the lines of e; a reversal carries its original's      *)
(* lines with debit and credit swapped.                                    *)
(*                                                                         *)
(* People are abstract too: the maker-checker rules compare the caller     *)
(* with created_by, which no request changes, so no interleaving can       *)
(* change what they decide.                                                *)
(***************************************************************************)
EXTENDS Integers, FiniteSets

CONSTANTS
  Entries,       \* the ids journal_entries can hand out (bigserial)
  Periods,       \* the months of one fiscal year
  YearEnd,       \* its last month
  Requests,      \* requests in flight at once
  Refs           \* source_refs of sub-ledger and loyalty postings

ASSUME EntriesAssumption == Entries \subseteq Nat \ {0}
ASSUME YearEndAssumption == YearEnd \in Periods
ASSUME RequestsAssumption == IsFiniteSet(Requests)
ASSUME RefsAssumption == Refs \subseteq Nat \ {0}

VARIABLES
  status,      \* journal_entries.status, "none" before the insert
  hdr,         \* the header columns that never change
  isReversed,  \* journal_entries.is_reversed
  applied,     \* how often the entry is in gl_period_balances
  posts,       \* gl_audit_log rows POST of the entry
  approvals,   \* gl_audit_log rows APPROVE of the entry
  reversals,   \* gl_audit_log rows REVERSE of the entry
  period,      \* fiscal_periods.status (no row counts as Open)
  rpc,         \* request: the statement it has reached
  arg          \* request: its arguments and what it has read

bookVars == <<status, hdr, isReversed, applied, posts, approvals, reversals>>
ledgerVars == <<status, hdr, isReversed, applied, posts, approvals, reversals, period>>
glVars == <<status, hdr, isReversed, applied, posts, approvals, reversals, period, rpc, arg>>

\* (source, source_ref); ref 0 is NULL.  The tenant and the ledger are fixed.
Sources == {"Manual", "Subledger", "LOYALTY", "REVERSAL", "CLOSE"}
Keys == [source : Sources, ref : Nat]
ManualKey == [source |-> "Manual", ref |-> 0]
CloseKey == [source |-> "CLOSE", ref |-> 1]
RevKey(e) == [source |-> "REVERSAL", ref |-> e]

Headers == [key : Keys, period : Periods]

Phases == {"idle", "post", "approveGate", "approveWrite", "rejectWrite",
           "revGate", "revWrite", "closeWrite", "yearWrite"}

Inserting == {"post", "revWrite"}
Deciding == {"approveGate", "approveWrite", "rejectWrite"}

LedgerTyped ==
  /\ status \in [Entries -> {"none", "Draft", "Posted", "Voided"}]
  /\ \A e \in Entries : status[e] # "none" => hdr[e] \in Headers
  /\ isReversed \in [Entries -> BOOLEAN]
  /\ applied \in [Entries -> Nat]
  /\ posts \in [Entries -> Nat]
  /\ approvals \in [Entries -> Nat]
  /\ reversals \in [Entries -> Nat]
  /\ period \in [Periods -> {"Open", "Closed", "Locked"}]

ArgTyped(r) ==
  /\ rpc[r] = "post" => arg[r].hdr \in Headers /\ arg[r].draft \in BOOLEAN
  /\ rpc[r] \in Deciding \cup {"revGate", "revWrite"} => arg[r].entry \in Entries
  /\ rpc[r] = "revWrite" => arg[r].hdr \in Headers
  /\ rpc[r] = "closeWrite" => arg[r].period \in Periods
  /\ rpc[r] \in {"closeWrite", "yearWrite"} =>
       arg[r].accrue \in BOOLEAN /\ arg[r].ref \in Refs

TypeOK ==
  /\ LedgerTyped
  /\ rpc \in [Requests -> Phases]
  /\ DOMAIN arg = Requests
  /\ \A r \in Requests : ArgTyped(r)

NoArg == [entry |-> 0]

Init ==
  /\ status = [e \in Entries |-> "none"]
  /\ hdr = [e \in Entries |-> NoArg]
  /\ isReversed = [e \in Entries |-> FALSE]
  /\ applied = [e \in Entries |-> 0]
  /\ posts = [e \in Entries |-> 0]
  /\ approvals = [e \in Entries |-> 0]
  /\ reversals = [e \in Entries |-> 0]
  /\ period = [p \in Periods |-> "Open"]
  /\ rpc = [r \in Requests |-> "idle"]
  /\ arg = [r \in Requests |-> NoArg]

-----------------------------------------------------------------------------
(* What the handlers share.                                                *)

Goto(r, pc, a) ==
  /\ rpc' = [rpc EXCEPT ![r] = pc]
  /\ arg' = [arg EXCEPT ![r] = a]

Finish(r) == Goto(r, "idle", NoArg)

\* Mutant of Barred: only a soft close stops a posting.
BarredWhenClosed(p, source, allowClosed) == period[p] = "Closed" /\ ~allowClosed

\* The period gates of postEntry.
Barred(p, source, allowClosed) ==
  \/ period[p] = "Locked" /\ source # "CLOSE"
  \/ period[p] = "Closed" /\ ~allowClosed

\* Mutant of Taken: the index covers no voided entries.
TakenUnlessVoided(key) ==
  key.ref # 0 /\ \E e \in Entries : status[e] \in {"Draft", "Posted"} /\ hdr[e].key = key

\* ux_je_idem: one entry per (source, source_ref), whatever its status; a
\* header insert that meets it does nothing.
Taken(key) == key.ref # 0 /\ \E e \in Entries : status[e] # "none" /\ hdr[e].key = key

\* Mutant of Header: the period is not derived from the entry's date.
HeaderWithoutPeriod(key, p) == [key |-> key, period |-> "none"]

Header(key, p) == [key |-> key, period |-> p]

Free == {e \in Entries : status[e] = "none"}

\* The next value of the sequence.
Next1(e) == e \in Free /\ \A f \in Free : e <= f

\* doInsert of postEntry for the rows of new, a function from fresh ids to
\* headers: those born Posted are added to the snapshot and logged as POST.
Insert(new, born) ==
  /\ status' = [e \in Entries |-> IF e \in DOMAIN new THEN born ELSE status[e]]
  /\ hdr' = [e \in Entries |-> IF e \in DOMAIN new THEN new[e] ELSE hdr[e]]
  /\ applied' = [e \in Entries |-> IF e \in DOMAIN new /\ born = "Posted"
                                   THEN applied[e] + 1 ELSE applied[e]]
  /\ posts' = [e \in Entries |-> IF e \in DOMAIN new /\ born = "Posted"
                                 THEN posts[e] + 1 ELSE posts[e]]

One(e, h) == [x \in {e} |-> h]

\* Mutant of InsertOrDedupe: the insert has no conflict target.
InsertAlways(h, born) == \E e \in Entries : Next1(e) /\ Insert(One(e, h), born)

InsertOrDedupe(h, born) ==
  \/ Taken(h.key) /\ UNCHANGED <<status, hdr, applied, posts>>
  \/ ~Taken(h.key) /\ \E e \in Entries : Next1(e) /\ Insert(One(e, h), born)

-----------------------------------------------------------------------------
(* postEntry                                                               *)

\* A caller posts: the period is read before anything is written.
PostGate(r) ==
  /\ rpc[r] = "idle"
  /\ \E p \in Periods, draft \in BOOLEAN,
       key \in {ManualKey} \cup [source : {"Subledger"}, ref : Refs] :
         /\ ~Barred(p, key.source, FALSE)
         /\ Goto(r, "post", [hdr |-> Header(key, p), draft |-> draft])
  /\ UNCHANGED ledgerVars

PostCommit(r) ==
  /\ rpc[r] = "post"
  /\ InsertOrDedupe(arg[r].hdr, IF arg[r].draft THEN "Draft" ELSE "Posted")
  /\ Finish(r)
  /\ UNCHANGED <<isReversed, approvals, reversals, period>>

-----------------------------------------------------------------------------
(* approveEntry and rejectEntry                                            *)

\* Mutant of ApproveRead: an entry approved earlier is not refused.
ApproveReadAgain(r) ==
  /\ rpc[r] = "idle"
  /\ \E e \in Entries :
       status[e] \in {"Draft", "Posted"} /\ Goto(r, "approveGate", [entry |-> e])
  /\ UNCHANGED ledgerVars

ApproveRead(r) ==
  /\ rpc[r] = "idle"
  /\ \E e \in Entries : status[e] = "Draft" /\ Goto(r, "approveGate", [entry |-> e])
  /\ UNCHANGED ledgerVars

ApproveGate(r) ==
  /\ rpc[r] = "approveGate"
  /\ period[hdr[arg[r].entry].period] = "Open"
  /\ Goto(r, "approveWrite", arg[r])
  /\ UNCHANGED ledgerVars

\* Mutant of ApproveCommit: the snapshot is left to the next backfill.
ApproveWithoutBalances(r) ==
  /\ rpc[r] = "approveWrite"
  /\ status' = [status EXCEPT ![arg[r].entry] = "Posted"]
  /\ approvals' = [approvals EXCEPT ![arg[r].entry] = @ + 1]
  /\ Finish(r)
  /\ UNCHANGED <<hdr, isReversed, applied, posts, reversals, period>>

\* The update does not repeat the check on Draft, and the trigger lets a Posted
\* row be set to Posted again.
ApproveCommit(r) ==
  /\ rpc[r] = "approveWrite"
  /\ LET e == arg[r].entry IN
       /\ status' = [status EXCEPT ![e] = "Posted"]
       /\ approvals' = [approvals EXCEPT ![e] = @ + 1]
       /\ applied' = [applied EXCEPT ![e] = @ + 1]
  /\ Finish(r)
  /\ UNCHANGED <<hdr, isReversed, posts, reversals, period>>

RejectRead(r) ==
  /\ rpc[r] = "idle"
  /\ \E e \in Entries : status[e] = "Draft" /\ Goto(r, "rejectWrite", [entry |-> e])
  /\ UNCHANGED ledgerVars

\* Mutant of TriggerBlocks: the trigger is not installed.
TriggerMissing(e) == FALSE

\* gl_block_posted_mutation raises when the row is Posted by now.
TriggerBlocks(e) == status[e] = "Posted"

RejectCommit(r) ==
  /\ rpc[r] = "rejectWrite"
  /\ LET e == arg[r].entry IN
       /\ ~TriggerBlocks(e)
       /\ status' = [status EXCEPT ![e] = "Voided"]
  /\ Finish(r)
  /\ UNCHANGED <<hdr, isReversed, applied, posts, approvals, reversals, period>>

-----------------------------------------------------------------------------
(* reverseEntry                                                            *)

ReverseRead(r) ==
  /\ rpc[r] = "idle"
  /\ \E e \in Entries :
       /\ status[e] = "Posted"
       /\ ~isReversed[e]
       /\ Goto(r, "revGate", [entry |-> e])
  /\ UNCHANGED ledgerVars

\* The contra entry goes through the gate of the period of its own date.
ReverseGate(r) ==
  /\ rpc[r] = "revGate"
  /\ \E p \in Periods :
       /\ ~Barred(p, "REVERSAL", FALSE)
       /\ Goto(r, "revWrite", [entry |-> arg[r].entry,
                               hdr |-> Header(RevKey(arg[r].entry), p)])
  /\ UNCHANGED ledgerVars

\* Mutant of ReverseCommit: the contra entry waits for approval.
ReverseAsDraft(r) ==
  /\ rpc[r] = "revWrite"
  /\ InsertOrDedupe(arg[r].hdr, "Draft")
  /\ isReversed' = [isReversed EXCEPT ![arg[r].entry] = TRUE]
  /\ reversals' = [reversals EXCEPT ![arg[r].entry] = @ + 1]
  /\ Finish(r)
  /\ UNCHANGED <<approvals, period>>

\* Whether the contra was inserted or is already there, the original is flagged.
ReverseCommit(r) ==
  /\ rpc[r] = "revWrite"
  /\ InsertOrDedupe(arg[r].hdr, "Posted")
  /\ isReversed' = [isReversed EXCEPT ![arg[r].entry] = TRUE]
  /\ reversals' = [reversals EXCEPT ![arg[r].entry] = @ + 1]
  /\ Finish(r)
  /\ UNCHANGED <<approvals, period>>

-----------------------------------------------------------------------------
(* Fiscal calendar: closePeriod, openPeriod, closeYear                     *)

\* openPeriod sets the status without looking at the old one.
OpenPeriod(p) ==
  /\ period' = [period EXCEPT ![p] = "Open"]
  /\ UNCHANGED <<bookVars, rpc, arg>>

LoyaltyKey(ref) == [source |-> "LOYALTY", ref |-> ref]

\* Both closes first accrue the loyalty liability into the period when points
\* moved; a refused accrual is swallowed.
AccrualAllowed(p, accrue) == accrue => ~Barred(p, "LOYALTY", FALSE)

ClosePeriodRead(r) ==
  /\ rpc[r] = "idle"
  /\ \E p \in Periods, accrue \in BOOLEAN, ref \in Refs :
       /\ AccrualAllowed(p, accrue)
       /\ Goto(r, "closeWrite", [period |-> p, accrue |-> accrue, ref |-> ref])
  /\ UNCHANGED ledgerVars

\* setPeriodStatus overwrites whatever status the period has by now.
ClosePeriodCommit(r) ==
  /\ rpc[r] = "closeWrite"
  /\ LET a == arg[r] IN
       /\ IF a.accrue
          THEN InsertOrDedupe(Header(LoyaltyKey(a.ref), a.period), "Posted")
          ELSE UNCHANGED <<status, hdr, applied, posts>>
       /\ period' = [period EXCEPT ![a.period] = "Closed"]
  /\ Finish(r)
  /\ UNCHANGED <<isReversed, approvals, reversals>>

\* closeYear (leading ledger) with a profit or loss to sweep; the gate lets CLOSE
\* through in every status.
CloseYearRead(r) ==
  /\ rpc[r] = "idle"
  /\ ~Taken(CloseKey)
  /\ \E e \in Entries : status[e] = "Posted"
  /\ \E accrue \in BOOLEAN, ref \in Refs :
       /\ AccrualAllowed(YearEnd, accrue)
       /\ Goto(r, "yearWrite", [accrue |-> accrue, ref |-> ref])
  /\ UNCHANGED ledgerVars

\* The accrual and the closing entry are inserted, then all months are closed.
CloseYearCommit(r) ==
  /\ rpc[r] = "yearWrite"
  /\ LET a == arg[r]
         keys == {k \in {CloseKey} \cup (IF a.accrue THEN {LoyaltyKey(a.ref)} ELSE {}) :
                    ~Taken(k)}
     IN \E rows \in SUBSET Free :
          \E new \in [rows -> {Header(k, YearEnd) : k \in keys}] :
            /\ \A k \in keys : \E e \in rows : new[e].key = k
            /\ \A e, f \in rows : new[e] = new[f] => e = f
            /\ \A e \in rows, f \in Free \ rows : e < f
            /\ Insert(new, "Posted")
  /\ period' = [p \in Periods |-> "Closed"]
  /\ Finish(r)
  /\ UNCHANGED <<isReversed, approvals, reversals>>

-----------------------------------------------------------------------------
\* A request fails (a later check, the trigger, the connection): rolled back.
Abort(r) ==
  /\ rpc[r] # "idle"
  /\ Finish(r)
  /\ UNCHANGED ledgerVars

Request(r) ==
  \/ PostGate(r) \/ PostCommit(r)
  \/ ApproveRead(r) \/ ApproveGate(r) \/ ApproveCommit(r)
  \/ RejectRead(r) \/ RejectCommit(r)
  \/ ReverseRead(r) \/ ReverseGate(r) \/ ReverseCommit(r)
  \/ ClosePeriodRead(r) \/ ClosePeriodCommit(r)
  \/ CloseYearRead(r) \/ CloseYearCommit(r)
  \/ Abort(r)

Next ==
  \/ \E r \in Requests : Request(r)
  \/ \E p \in Periods : OpenPeriod(p)

Spec == Init /\ [][Next]_glVars

-----------------------------------------------------------------------------
(* Properties.                                                             *)

\* The snapshot holds exactly what the GL audit log says was posted, and an
\* entry is in it exactly when it is Posted (bumpPeriodBalances shares the
\* transaction of the status and of the audit row).
SnapshotFollowsAudit ==
  \A e \in Entries :
    /\ applied[e] = posts[e] + approvals[e]
    /\ status[e] = "Posted" <=> applied[e] > 0

\* One entry per posting key, however many requests post it at once, and also
\* when the first one was rejected (ux_je_idem).
OneEntryPerKey ==
  \A e, f \in Entries :
    /\ status[e] # "none" /\ status[f] # "none"
    /\ hdr[e].key = hdr[f].key /\ hdr[e].key.ref # 0
    => e = f

Contras(e) == {c \in Entries : status[c] # "none" /\ hdr[c].key = RevKey(e)}

\* A flagged entry has one contra entry, Posted and once in the snapshot, and an
\* unflagged one has none, however many requests reverse the entry at once.
ReversedExactlyOnce ==
  \A e \in Entries :
    \/ ~isReversed[e] /\ Contras(e) = {}
    \/ /\ isReversed[e]
       /\ \E c \in Entries :
            Contras(e) = {c} /\ status[c] = "Posted" /\ applied[c] = 1

\* An entry is approved at most once by every request that was in flight when
\* it was first approved: no later request approves it again (approveEntry).
ApprovalsBounded == \A e \in Entries : approvals[e] <= Cardinality(Requests)

\* A Posted entry stays Posted with the same header, whichever of two decisions
\* commits last (gl_block_posted_mutation).
PostedIsFinal ==
  [][\A e \in Entries :
       status[e] = "Posted" => status'[e] = "Posted" /\ hdr'[e] = hdr[e]]_glVars

\* Requests past the gate of period p.
PastGate(p) ==
  {r \in Requests :
     \/ rpc[r] \in Inserting /\ arg[r].hdr.period = p
     \/ rpc[r] = "approveWrite" /\ hdr[arg[r].entry].period = p
     \/ rpc[r] = "closeWrite" /\ arg[r].accrue /\ arg[r].period = p
     \/ rpc[r] = "yearWrite" /\ arg[r].accrue /\ p = YearEnd}

PostedIn(p) ==
  {e \in Entries : status[e] = "Posted" /\ hdr[e].period = p /\ hdr[e].key # CloseKey}

\* While a period is not Open no further request passes its gate, and once those
\* that did have drained it takes no posting but the year-end entry, by any of
\* the paths that post (postEntry, approve, reverse, closePeriod, closeYear).
ShutPeriodsDrain ==
  [][\A p \in Periods :
       period[p] # "Open" =>
         /\ PastGate(p)' \subseteq PastGate(p)
         /\ PastGate(p) = {} => PostedIn(p)' = PostedIn(p)]_glVars

\* What the maker-checker cycle is about: everything else is born Posted.
Business == {"Manual", "Subledger"}

Written == Entries \ Free
Book == [e \in Written |-> hdr[e]]
Proposed == {e \in Written : posts[e] = 0}
Posted == {e \in Entries : status[e] = "Posted"}
Flagged == {e \in Entries : isReversed[e]}

AsJournal == INSTANCE Journal WITH
  Proposable <- Business, book <- Book, proposed <- Proposed,
  posted <- Posted, reversed <- Flagged, weight <- applied

\* To its readers the ledger is a journal: whatever transactions race, each entry
\* is written, approved and reversed in one step of its own (ux_je_idem, the
\* trigger, and status, snapshot and flags written in one transaction).
KeepsJournal == AsJournal!Spec

-----------------------------------------------------------------------------
(* The inductive strengthening of the invariants above.                    *)

DraftsAreBusiness ==
  \A e \in Entries : status[e] = "Draft" => hdr[e].key.source \in Business

\* An entry is born Posted or becomes so by approvals, never both.
BornOrApproved ==
  \A e \in Entries : posts[e] <= 1 /\ (posts[e] = 0 \/ approvals[e] = 0)

\* What a request has read of an entry still holds of it.
ReadHolds(r) ==
  /\ rpc[r] \in Deciding =>
       /\ status[arg[r].entry] # "none" /\ posts[arg[r].entry] = 0
       /\ hdr[arg[r].entry].key.source \in Business
  /\ rpc[r] \in {"revGate", "revWrite"} => status[arg[r].entry] = "Posted"
  /\ rpc[r] = "revWrite" => arg[r].hdr.key = RevKey(arg[r].entry)
  /\ rpc[r] = "post" => arg[r].hdr.key.source \in Business

Approving(e) ==
  {r \in Requests : rpc[r] \in {"approveGate", "approveWrite"} /\ arg[r].entry = e}

ApprovalBudget ==
  \A e \in Entries :
    /\ status[e] \in {"none", "Draft"} => approvals[e] = 0
    /\ approvals[e] + Cardinality(Approving(e)) <= Cardinality(Requests)

IInv ==
  /\ TypeOK
  /\ SnapshotFollowsAudit
  /\ OneEntryPerKey
  /\ ReversedExactlyOnce
  /\ DraftsAreBusiness
  /\ BornOrApproved
  /\ \A r \in Requests : ReadHolds(r)
  /\ ApprovalBudget

\* ledger-posting.service.ts:27 says of the balance snapshot that it "cannot
\* drift from a mutation this service can see": every Posted entry is in it once.
SnapshotCannotDrift ==
  \A e \in Entries : applied[e] = IF status[e] = "Posted" THEN 1 ELSE 0

\* What that leaves of it: only an entry approved more than once is in the snapshot
\* more than once, and then once for each approval.
DriftIsReapproval ==
  \A e \in Entries :
    status[e] = "Posted" => applied[e] = 1 \/ (approvals[e] > 1 /\ applied[e] = approvals[e])

=============================================================================
