------------------------------ MODULE AuditTrail ------------------------------
(***************************************************************************)
(* The request audit trail: a hash chain of audit_log rows per tenant      *)
(* (writeAuditRow), the expectation counter bumped inside the business     *)
(* transaction (TenantTxInterceptor), and the two checks of                *)
(* GET /api/admin/audit/verify.                                            *)
(*                                                                         *)
(* A request owes its row when its business transaction has ended; the row *)
(* is written afterwards, in a transaction of its own, which nobody waits  *)
(* for and which may fail or die with the process.  The statements of that *)
(* transaction run under READ COMMITTED: a writer that waited for the lock *)
(* on the last row goes on with the row it had selected before it waited.  *)
(*                                                                         *)
(* A hash stands for the row it was computed from, so prev_hash is the     *)
(* request whose row came before.  The sixteen shards of the counter only  *)
(* spread a row lock and are summed when read: expected is their sum.      *)
(***************************************************************************)
EXTENDS Integers, FiniteSets, SequencesExt

CONSTANTS
  Requests,      \* audited requests, each served once
  Tenants,       \* chains; the one of the requests without a tenant is one more
  NoTenant,
  NoRow

ASSUME TenantAssumption == NoTenant \notin Tenants
ASSUME NoRowAssumption == NoRow \notin Requests
ASSUME RequestsAssumption == IsFiniteSet(Requests)

VARIABLES
  pc,         \* where the request is
  tenant,     \* its tenant_id
  counted,    \* its business transaction committed a bump of expected
  last,       \* the row its audit write has selected
  seq,        \* audit_log.seq of its row, 0 while there is none
  prev,       \* audit_log.prev_hash of its row
  expected    \* audit_expectations.expected of a tenant

vars == <<pc, tenant, counted, last, seq, prev, expected>>

Chains == Tenants \cup {NoTenant}
Owing == {"owes", "queued", "holding"}

TypeOK ==
  /\ pc \in [Requests -> {"new", "running", "written", "lost"} \cup Owing]
  /\ tenant \in [Requests -> Chains]
  /\ counted \in [Requests -> BOOLEAN]
  /\ last \in [Requests -> Requests \cup {NoRow}]
  /\ seq \in [Requests -> Nat]
  /\ prev \in [Requests -> Requests \cup {NoRow}]
  /\ expected \in [Chains -> Nat]

Init ==
  /\ pc = [q \in Requests |-> "new"]
  /\ tenant = [q \in Requests |-> NoTenant]
  /\ counted = [q \in Requests |-> FALSE]
  /\ last = [q \in Requests |-> NoRow]
  /\ seq = [q \in Requests |-> 0]
  /\ prev = [q \in Requests |-> NoRow]
  /\ expected = [c \in Chains |-> 0]

Rows(c) == {q \in Requests : seq[q] > 0 /\ tenant[q] = c}

-----------------------------------------------------------------------------
(* The business transaction                                                *)

\* The transaction opens and bumps the counter, visible when it commits.
Begin(q) ==
  /\ pc[q] = "new"
  /\ \E c \in Chains : tenant' = [tenant EXCEPT ![q] = c]
  /\ pc' = [pc EXCEPT ![q] = "running"]
  /\ UNCHANGED <<counted, last, seq, prev, expected>>

\* A refusal of PlatformAdminGuard, or a @NoTx handler: a row is owed, no bump.
Refuse(q) ==
  /\ pc[q] = "new"
  /\ \E c \in Chains : tenant' = [tenant EXCEPT ![q] = c]
  /\ pc' = [pc EXCEPT ![q] = "owes"]
  /\ UNCHANGED <<counted, last, seq, prev, expected>>

Commit(q) ==
  /\ pc[q] = "running"
  /\ pc' = [pc EXCEPT ![q] = "owes"]
  /\ counted' = [counted EXCEPT ![q] = TRUE]
  /\ expected' = [expected EXCEPT ![tenant[q]] = @ + 1]
  /\ UNCHANGED <<tenant, last, seq, prev>>

\* Mutant of RollBack: the counter is bumped outside the business transaction.
RollBackCounted(q) ==
  /\ pc[q] = "running"
  /\ pc' = [pc EXCEPT ![q] = "owes"]
  /\ expected' = [expected EXCEPT ![tenant[q]] = @ + 1]
  /\ UNCHANGED <<tenant, counted, last, seq, prev>>

\* The handler threw: the bump rolls back too, and a 'fail' row is owed.
RollBack(q) ==
  /\ pc[q] = "running"
  /\ pc' = [pc EXCEPT ![q] = "owes"]
  /\ UNCHANGED <<tenant, counted, last, seq, prev, expected>>

-----------------------------------------------------------------------------
(* writeAuditRow                                                           *)

\* Mutant of LastOf: the latest row of any tenant.
LastOfAny(c) ==
  {q \in Requests : seq[q] > 0 /\ \A r \in Requests : seq[r] <= seq[q]}

\* The candidates of ORDER BY seq DESC LIMIT 1 in the chain of c.
LastOf(c) == {q \in Rows(c) : \A r \in Rows(c) : seq[r] <= seq[q]}

\* The select of the last row: in an empty chain there is nothing to lock.
SelectLast(q) ==
  /\ pc[q] = "owes"
  /\ \/ LastOf(tenant[q]) = {} /\ pc' = [pc EXCEPT ![q] = "holding"] /\ UNCHANGED last
     \/ \E l \in LastOf(tenant[q]) :
          last' = [last EXCEPT ![q] = l] /\ pc' = [pc EXCEPT ![q] = "queued"]
  /\ UNCHANGED <<tenant, counted, seq, prev, expected>>

\* Mutant of LockLast: a shared lock is taken with the select and then upgraded.
LockUpgrade(q) ==
  /\ pc[q] = "queued"
  /\ \A r \in Requests \ {q} : pc[r] \in {"queued", "holding"} => last[r] # last[q]
  /\ pc' = [pc EXCEPT ![q] = "holding"]
  /\ UNCHANGED <<tenant, counted, last, seq, prev, expected>>

\* FOR UPDATE: whoever waited goes on with the row selected before the wait.
LockLast(q) ==
  /\ pc[q] = "queued"
  /\ \A r \in Requests : pc[r] = "holding" => last[r] # last[q]
  /\ pc' = [pc EXCEPT ![q] = "holding"]
  /\ UNCHANGED <<tenant, counted, last, seq, prev, expected>>

NextSeq(l) == IF l = NoRow THEN 1 ELSE seq[l] + 1

\* Mutant of AppendRow: the row does not bind the hash before it.
AppendUnbound(q) ==
  /\ pc[q] = "holding"
  /\ pc' = [pc EXCEPT ![q] = "written"]
  /\ seq' = [seq EXCEPT ![q] = NextSeq(last[q])]
  /\ UNCHANGED <<tenant, counted, last, prev, expected>>

\* Mutant of AppendRow: seq is left to its default.
AppendUnnumbered(q) ==
  /\ pc[q] = "holding"
  /\ pc' = [pc EXCEPT ![q] = "written"]
  /\ seq' = [seq EXCEPT ![q] = NoRow]
  /\ prev' = [prev EXCEPT ![q] = last[q]]
  /\ UNCHANGED <<tenant, counted, last, expected>>

\* The insert commits and the lock is released.
AppendRow(q) ==
  /\ pc[q] = "holding"
  /\ pc' = [pc EXCEPT ![q] = "written"]
  /\ seq' = [seq EXCEPT ![q] = NextSeq(last[q])]
  /\ prev' = [prev EXCEPT ![q] = last[q]]
  /\ UNCHANGED <<tenant, counted, last, expected>>

\* A statement of the audit write throws: rolled back, swallowed, never retried.
WriteFails(q) ==
  /\ pc[q] \in Owing
  /\ pc' = [pc EXCEPT ![q] = "lost"]
  /\ UNCHANGED <<tenant, counted, last, seq, prev, expected>>

\* The process dies with the requests it is serving.
Crash ==
  /\ \E q \in Requests : pc[q] \in Owing \cup {"running"}
  /\ pc' = [q \in Requests |-> IF pc[q] \in Owing \cup {"running"} THEN "lost" ELSE pc[q]]
  /\ UNCHANGED <<tenant, counted, last, seq, prev, expected>>

Writer(q) == SelectLast(q) \/ LockLast(q) \/ AppendRow(q) \/ WriteFails(q)

Next ==
  \/ \E q \in Requests :
       Begin(q) \/ Refuse(q) \/ Commit(q) \/ RollBack(q) \/ Writer(q)
  \/ Crash

Spec == Init /\ [][Next]_vars

\* The database answers every statement of an audit write.
Fairness == \A q \in Requests : WF_vars(SelectLast(q) \/ LockLast(q) \/ AppendRow(q))

FairSpec == Spec /\ Fairness

-----------------------------------------------------------------------------
(* GET /api/admin/audit/verify, as it would answer in this state           *)

\* The orders in which verifyChain may get the rows of a chain: by seq, rows of the
\* same number either way round.
Walks(c) ==
  {w \in SetToSeqs(Rows(c)) : \A i, j \in DOMAIN w : i < j => seq[w[i]] <= seq[w[j]]}

WalkOk(w) ==
  \A i \in DOMAIN w : seq[w[i]] = i /\ prev[w[i]] = IF i = 1 THEN NoRow ELSE w[i - 1]

\* verifyCompleteness looks at the chains that have rows.  Its two statements, one for
\* the rows and one for the counters, are read here at one moment.
Shortfall(c) == Rows(c) # {} /\ Cardinality(Rows(c)) < expected[c]

-----------------------------------------------------------------------------
(* Properties.                                                             *)

\* Every row follows a row of its own chain and binds it, with rows lost, writers
\* racing and the process crashing: an omission leaves no gap (audit-writer.ts).
EveryRowLinked ==
  \A c \in Chains : \A q \in Rows(c) :
    \/ prev[q] = NoRow /\ seq[q] = 1
    \/ prev[q] \in Rows(c) /\ seq[q] = seq[prev[q]] + 1

\* The walk of verifyChain accepts a chain exactly when no two of its rows carry
\* the same number, in whatever order it gets them: forks are the only damage the
\* writers can do, and are seen.
WalkAcceptsLinear ==
  \A c \in Chains : \A w \in Walks(c) :
    WalkOk(w) <=> \A q, r \in Rows(c) : seq[q] = seq[r] => q = r

Quiet(c) == \A q \in Requests : tenant[q] = c => pc[q] \notin Owing

Lost(c) == {q \in Requests : pc[q] = "lost" /\ counted[q] /\ tenant[q] = c}
Uncounted(c) == {q \in Rows(c) : ~counted[q]}

\* With no audit write in flight, verifyCompleteness reports a shortfall exactly
\* when more rows were lost than rows without a bump hide, and the chain has a row.
VerdictWhenQuiet ==
  \A c \in Chains :
    Quiet(c) =>
      (Shortfall(c) <=>
         Rows(c) # {} /\ Cardinality(Lost(c)) > Cardinality(Uncounted(c)))

\* An owed row is written or given up: no audit write waits for ever behind the
\* others in the queue for the last row (FOR UPDATE).
EventuallyAudited ==
  \A q \in Requests : pc[q] = "owes" ~> pc[q] \in {"written", "lost"}

\* audit-writer.ts:109: "Lock the latest row (FOR UPDATE) so concurrent audit
\* writes can't fork the chain": no two rows follow the same row.
ChainCannotFork ==
  \A q, r \in Requests : prev[q] = prev[r] /\ prev[q] # NoRow => q = r

-----------------------------------------------------------------------------
(* The inductive strengthening of EveryRowLinked and VerdictWhenQuiet.     *)

\* Where a request is tells whether it has a row and what it has selected: a row of
\* its own chain, or none.
WriterFits(q) ==
  /\ seq[q] > 0 <=> pc[q] = "written"
  /\ pc[q] \in {"new", "running", "owes"} => last[q] = NoRow
  /\ pc[q] \in {"queued", "holding"} => last[q] \in Rows(tenant[q]) \cup {NoRow}
  /\ pc[q] = "queued" => last[q] # NoRow

Counted(c) == {q \in Requests : counted[q] /\ tenant[q] = c}

\* The counter of a chain counts the requests that committed a bump of it, and they
\* all owe a row, have one or have lost it.
CounterFits ==
  /\ \A c \in Chains : expected[c] = Cardinality(Counted(c))
  /\ \A q \in Requests : counted[q] => pc[q] \notin {"new", "running"}

IInv ==
  /\ TypeOK
  /\ \A q \in Requests : WriterFits(q)
  /\ EveryRowLinked
  /\ CounterFits

-----------------------------------------------------------------------------
(* What would keep the chains linear: one audit write of a chain at a time *)
(* between the select of the last row and the insert, which the row lock   *)
(* does not give.                                                          *)

OneWriterPerChain ==
  \A q, r \in Requests :
    /\ pc[q] \in {"queued", "holding"} /\ pc[r] \in {"queued", "holding"}
    /\ tenant[q] = tenant[r]
    => q = r

NumberedOnce == \A c \in Chains : \A q, r \in Rows(c) : seq[q] = seq[r] => q = r

\* The row a writer has selected is still the last one.
SelectedIsLast ==
  \A q \in Requests :
    pc[q] \in {"queued", "holding"} =>
      IF last[q] = NoRow THEN Rows(tenant[q]) = {} ELSE last[q] \in LastOf(tenant[q])

UnwrittenUnlinked == \A q \in Requests : seq[q] = 0 => prev[q] = NoRow

SerialIInv == NumberedOnce /\ SelectedIsLast /\ UnwrittenUnlinked
=============================================================================
