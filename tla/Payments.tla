------------------------------ MODULE Payments ------------------------------
(***************************************************************************)
(* Tenders, captures, voids and refunds (modules/payments).                *)
(*                                                                         *)
(* A request is one READ COMMITTED transaction: most operations read a     *)
(* payment without a lock and update it by id later; refunds lock the row  *)
(* first.  A row inserted by an open request is seen by nobody else, but a *)
(* second insert with its idempotency key waits for it.  The payment       *)
(* service provider (PSP) is outside the transaction: what it has taken    *)
(* stays taken when the request rolls back.  The counter rows that number  *)
(* tenders and refunds serialise those of one day; requests on both sides  *)
(* of midnight meet freely, and so they do here.                           *)
(***************************************************************************)
EXTENDS Integers, FiniteSets, Functions

CONSTANTS
  Requests,   \* requests in flight at once
  Pays,       \* ids of payments, one per attempt to charge
  Keys,       \* idempotency keys clients send
  Asks,       \* ids of refund_requests
  None,       \* no key, no payment, no refund request
  Amount,     \* the amount of every payment
  Threshold,  \* REFUND_APPROVAL_THRESHOLD
  MaxTip,     \* the tip ceiling
  MaxBegun    \* bound on the requests of a behaviour

ASSUME NoneAssumption == None \notin Keys /\ None \notin Pays /\ None \notin Asks
ASSUME AmountAssumption == Amount \in Nat \ {0} /\ MaxTip \in Nat
ASSUME ThresholdAssumption == Threshold \in Nat \ {0}
ASSUME RequestsAssumption == IsFiniteSet(Requests) /\ MaxBegun \in Nat

VARIABLES
  pay,   \* a payment: its row, its refunds, its tip posting, and the PSP's side
  ask,   \* a refund request
  req,   \* a request in flight: where it is and what it has read
  begun  \* requests so far

vars == <<pay, ask, req, begun>>

Statuses == {"none", "Pending", "Authorized", "Captured", "Failed", "Voided", "Refunded"}
Phases == {"idle", "insert", "charge", "record", "capture", "captured", "void", "settle",
           "gate", "lock", "write", "reject"}
Routes == {"direct", "return", "approval", "park"}

\* charged: what the PSP took.  untaken: it answered a capture without taking anything.
\* unapproved: refunded without a return or an approval.
PayRows == [status: Statuses, key: Keys \cup {None}, charged: 0 .. Amount + MaxTip,
            untaken: BOOLEAN, tip: 0 .. MaxTip, tipPosted: 0 .. MaxTip,
            refunded: Nat, unapproved: Nat]

\* runs: how often the refund of a request was carried out.
AskRows == [status: {"none", "PendingApproval", "Approved", "Rejected"},
            pay: Pays \cup {None}, amount: 0 .. Amount, runs: Nat]

\* result: what the PSP answered.  prior: refunds read at the gate, then under the row lock.
Reqs == [pc: Phases, pay: Pays \cup {None}, key: Keys \cup {None}, amount: 0 .. Amount + MaxTip,
         result: Statuses, route: Routes, ask: Asks \cup {None}, prior: Nat]

TypeOK ==
  /\ pay \in [Pays -> PayRows]
  /\ ask \in [Asks -> AskRows]
  /\ req \in [Requests -> Reqs]
  /\ begun \in 0 .. MaxBegun

NoPay == [status |-> "none", key |-> None, charged |-> 0, untaken |-> FALSE,
          tip |-> 0, tipPosted |-> 0, refunded |-> 0, unapproved |-> 0]
NoAsk == [status |-> "none", pay |-> None, amount |-> 0, runs |-> 0]
Idle == [pc |-> "idle", pay |-> None, key |-> None, amount |-> 0, result |-> "none",
         route |-> "direct", ask |-> None, prior |-> 0]

Init ==
  /\ pay = [p \in Pays |-> NoPay]
  /\ ask = [i \in Asks |-> NoAsk]
  /\ req = [r \in Requests |-> Idle]
  /\ begun = 0

Rows == {p \in Pays : pay[p].status # "none"}

\* Payments whose row is inserted but not committed, and who inserted it.
Inserting(r) == req[r].pc \in {"charge", "record"}

\* A refund holds the row lock from its read to its end.
RowLocked(p) == \E q \in Requests : req[q].pc = "write" /\ req[q].pay = p

Start(r, a) ==
  /\ req[r].pc = "idle"
  /\ begun < MaxBegun
  /\ begun' = begun + 1
  /\ req' = [req EXCEPT ![r] = a]

Done(r) == req' = [req EXCEPT ![r] = Idle]

\* Any error rolls the request back, at any point.
Abort(r) ==
  /\ req[r].pc # "idle"
  /\ Done(r)
  /\ UNCHANGED <<pay, ask, begun>>

-----------------------------------------------------------------------------
(* recordTender                                                            *)

KeyTaken(k) == k # None /\ \E p \in Rows : pay[p].key = k

\* Without a key, or with one that no committed row has, the tender is recorded.
TenderRead(r) ==
  /\ \E k \in Keys \cup {None} :
       /\ ~KeyTaken(k)
       /\ Start(r, [Idle EXCEPT !.pc = "insert", !.key = k])
  /\ UNCHANGED <<pay, ask>>

\* Mutant of TenderInsert: no unique index on the key.
TenderInsertNoIndex(r) ==
  /\ req[r].pc = "insert"
  /\ \E p \in Pays :
       /\ pay[p] = NoPay
       /\ \A q \in Requests : Inserting(q) => req[q].pay # p
       /\ req' = [req EXCEPT ![r].pc = "charge", ![r].pay = p]
  /\ UNCHANGED <<pay, ask, begun>>

\* ON CONFLICT DO NOTHING: waits for an open insert with the key, and returns the
\* committed row if there is one by now.
TenderInsert(r) ==
  /\ req[r].pc = "insert"
  /\ LET k == req[r].key IN
     IF KeyTaken(k) THEN Done(r)
     ELSE /\ \A q \in Requests : Inserting(q) => req[q].key \notin {k} \ {None}
          /\ \E p \in Pays :
               /\ pay[p] = NoPay
               /\ \A q \in Requests : Inserting(q) => req[q].pay # p
               /\ req' = [req EXCEPT ![r].pc = "charge", ![r].pay = p]
  /\ UNCHANGED <<pay, ask, begun>>

\* authorize or authorizeAndCapture.  An exception means Failed, whether or not
\* the PSP took the money.
PspCharges(r) ==
  /\ req[r].pc = "charge"
  /\ \E result \in {"Pending", "Authorized", "Captured", "Failed"}, c \in {0, Amount} :
       /\ result = "Captured" => c = Amount
       /\ result \in {"Pending", "Authorized"} => c = 0
       /\ pay' = [pay EXCEPT ![req[r].pay].charged = c]
       /\ req' = [req EXCEPT ![r].pc = "record", ![r].result = result]
  /\ UNCHANGED <<ask, begun>>

TenderCommit(r) ==
  /\ req[r].pc = "record"
  /\ pay' = [pay EXCEPT ![req[r].pay].status = req[r].result, ![req[r].pay].key = req[r].key]
  /\ Done(r)
  /\ UNCHANGED <<ask, begun>>

-----------------------------------------------------------------------------
(* adjustTip, capture, voidPayment, settle                                 *)

\* adjustTip reads and writes under the row lock.
AdjustTip(p, t) ==
  /\ pay[p].status = "Authorized"
  /\ ~RowLocked(p)
  /\ pay' = [pay EXCEPT ![p].tip = t]
  /\ UNCHANGED <<ask, req, begun>>

CaptureRead(r) ==
  /\ \E p \in Rows :
       /\ pay[p].status = "Authorized"
       /\ Start(r, [Idle EXCEPT !.pc = "capture", !.pay = p, !.amount = pay[p].tip])
  /\ UNCHANGED <<pay, ask>>

\* Mutant of PspCaptures: the hold is captured on top of what was taken.
PspCapturesAgain(r) ==
  /\ req[r].pc = "capture"
  /\ pay' = [pay EXCEPT ![req[r].pay].charged = @ + Amount + req[r].amount]
  /\ req' = [req EXCEPT ![r].pc = "captured"]
  /\ UNCHANGED <<ask, begun>>

\* The PSP takes a hold once.  An exception, also that of a second capture, fails the
\* request.
PspCaptures(r) ==
  /\ req[r].pc = "capture"
  /\ pay[req[r].pay].charged = 0
  /\ pay' = [pay EXCEPT ![req[r].pay].charged = Amount + req[r].amount]
  /\ req' = [req EXCEPT ![r].pc = "captured"]
  /\ UNCHANGED <<ask, begun>>

\* capture of the gateway also returns without an exception when nothing was taken
\* (Stripe's Failed, Pending and Authorized; a gateway that asks nobody), even for a
\* payment captured before; result.status is not looked at.
PspTakesNothing(r) ==
  /\ req[r].pc = "capture"
  /\ pay' = [pay EXCEPT ![req[r].pay].untaken = TRUE]
  /\ req' = [req EXCEPT ![r].pc = "captured"]
  /\ UNCHANGED <<ask, begun>>

\* Mutant of CaptureCommit: the tip is read again for its posting.
CaptureCommitFreshTip(r) ==
  LET p == req[r].pay IN
  /\ req[r].pc = "captured"
  /\ ~RowLocked(p)
  /\ pay' = [pay EXCEPT ![p].status = "Captured", ![p].tipPosted = pay[p].tip]
  /\ Done(r)
  /\ UNCHANGED <<ask, begun>>

\* The tip is posted once (POS_TIP is idempotent) and the status written by id,
\* whatever it is by now.
CaptureCommit(r) ==
  LET p == req[r].pay IN
  /\ req[r].pc = "captured"
  /\ ~RowLocked(p)
  /\ pay' = [pay EXCEPT ![p].status = "Captured",
                        ![p].tipPosted = IF @ = 0 THEN req[r].amount ELSE @]
  /\ Done(r)
  /\ UNCHANGED <<ask, begun>>

\* Mutant of VoidRead: a captured payment is not refused.
VoidReadAny(r) ==
  /\ \E p \in Rows : Start(r, [Idle EXCEPT !.pc = "void", !.pay = p, !.result = pay[p].status])
  /\ UNCHANGED <<pay, ask>>

\* Every status but Captured may be voided; result keeps what was read.
VoidRead(r) ==
  /\ \E p \in Rows :
       /\ pay[p].status # "Captured"
       /\ Start(r, [Idle EXCEPT !.pc = "void", !.pay = p, !.result = pay[p].status])
  /\ UNCHANGED <<pay, ask>>

VoidCommit(r) ==
  /\ req[r].pc = "void"
  /\ ~RowLocked(req[r].pay)
  /\ pay' = [pay EXCEPT ![req[r].pay].status = "Voided"]
  /\ Done(r)
  /\ UNCHANGED <<ask, begun>>

\* settle confirms a tender by hand or by a webhook.
SettleRead(r) ==
  /\ \E p \in Rows :
       /\ pay[p].status \in {"Pending", "Authorized"}
       /\ Start(r, [Idle EXCEPT !.pc = "settle", !.pay = p])
  /\ UNCHANGED <<pay, ask>>

SettleCommit(r) ==
  /\ req[r].pc = "settle"
  /\ ~RowLocked(req[r].pay)
  /\ pay' = [pay EXCEPT ![req[r].pay].status = "Captured"]
  /\ Done(r)
  /\ UNCHANGED <<ask, begun>>

-----------------------------------------------------------------------------
(* refund, requestRefund, approveRefund, rejectRefund                      *)

Waiting(p) == {i \in Asks : ask[i].status = "PendingApproval" /\ ask[i].pay = p}

PendingAmount(p) == SumFunctionOnSet([i \in Asks |-> ask[i].amount], Waiting(p))

\* Mutant of NeedsApproval: the threshold per call, as it once was.
NeedsApprovalPerCall(r) == req[r].amount >= Threshold

\* A refund on its way to the lock of its payment.
ToLock(p, a, route, i) ==
  [pc |-> "lock", pay |-> p, key |-> None, amount |-> a, result |-> "none",
   route |-> route, ask |-> i, prior |-> 0]

\* The gate of refund: the running total, read without a lock by two statements, the
\* settled refunds first.
NeedsApproval(r) == req[r].prior + PendingAmount(req[r].pay) + req[r].amount >= Threshold

Refund(r) ==
  /\ \E p \in Rows, a \in 1 .. Amount :
       Start(r, [pc |-> "gate", pay |-> p, key |-> None, amount |-> a, result |-> "none",
                 route |-> "direct", ask |-> None, prior |-> pay[p].refunded])
  /\ UNCHANGED <<pay, ask>>

Gate(r) ==
  /\ req[r].pc = "gate"
  /\ req' = [req EXCEPT ![r] = ToLock(req[r].pay, req[r].amount,
                                     IF NeedsApproval(r) THEN "park" ELSE "direct", None)]
  /\ UNCHANGED <<pay, ask, begun>>

\* The refund of a goods return is authorised by the return and not gated.
ReturnRefund(r) ==
  /\ \E p \in Rows, a \in 1 .. Amount :
       Start(r, ToLock(p, a, "return", None))
  /\ UNCHANGED <<pay, ask>>

Approving(i) == {r \in Requests : req[r].route = "approval" /\ req[r].ask = i}

\* Mutant of ApproveRead: the status of the request is not looked at.
ApproveReadAny(r) ==
  /\ \E i \in Asks :
       /\ ask[i].status # "none"
       /\ Start(r, ToLock(ask[i].pay, ask[i].amount, "approval", i))
  /\ UNCHANGED <<pay, ask>>

ApproveRead(r) ==
  /\ \E i \in Asks :
       /\ ask[i].status = "PendingApproval"
       /\ Start(r, ToLock(ask[i].pay, ask[i].amount, "approval", i))
  /\ UNCHANGED <<pay, ask>>

\* Mutant of LockRow: the payment is read without FOR UPDATE.
ReadRow(r) ==
  /\ req[r].pc = "lock"
  /\ LET p == req[r].pay IN
       /\ pay[p].status \in {"Captured", "Refunded"}
       /\ req' = [req EXCEPT ![r].pc = "write", ![r].prior = pay[p].refunded]
  /\ UNCHANGED <<pay, ask, begun>>

\* Mutant of LockRow: any payment may be refunded.
LockRowAnyStatus(r) ==
  /\ req[r].pc = "lock"
  /\ ~RowLocked(req[r].pay)
  /\ req' = [req EXCEPT ![r].pc = "write", ![r].prior = pay[req[r].pay].refunded]
  /\ UNCHANGED <<pay, ask, begun>>

\* SELECT ... FOR UPDATE of the payment, then the sum of its refunds.  Any other
\* status fails with NOT_REFUNDABLE.
LockRow(r) ==
  /\ req[r].pc = "lock"
  /\ LET p == req[r].pay IN
       /\ ~RowLocked(p)
       /\ pay[p].status \in {"Captured", "Refunded"}
       /\ req' = [req EXCEPT ![r].pc = "write", ![r].prior = pay[p].refunded]
  /\ UNCHANGED <<pay, ask, begun>>

\* The refund row, the status once all is refunded, and for an approval the
\* request, updated by id.  More than what remains fails with OVER_REFUND.
RefundCommit(r) ==
  LET p == req[r].pay   total == req[r].prior + req[r].amount   i == req[r].ask IN
  /\ req[r].pc = "write"
  /\ req[r].route # "park"
  /\ total <= Amount
  /\ pay' = [pay EXCEPT
       ![p].refunded = @ + req[r].amount,
       ![p].unapproved = IF req[r].route = "direct" THEN @ + req[r].amount ELSE @,
       ![p].status = IF total >= Amount THEN "Refunded" ELSE @]
  /\ ask' = IF req[r].route = "approval"
            THEN [ask EXCEPT ![i].status = "Approved", ![i].runs = @ + 1] ELSE ask
  /\ Done(r)
  /\ UNCHANGED begun

\* Mutant of ParkCommit: the requests that wait already are not counted.
ParkCommitAlone(r) ==
  LET p == req[r].pay IN
  /\ req[r].pc = "write"
  /\ req[r].route = "park"
  /\ req[r].prior + req[r].amount <= Amount
  /\ \E i \in Asks :
       /\ ask[i].status = "none"
       /\ ask' = [ask EXCEPT ![i] = [status |-> "PendingApproval", pay |-> p,
                                     amount |-> req[r].amount, runs |-> 0]]
  /\ Done(r)
  /\ UNCHANGED <<pay, begun>>

\* requestRefund also counts the requests that wait.
ParkCommit(r) ==
  LET p == req[r].pay IN
  /\ req[r].pc = "write"
  /\ req[r].route = "park"
  /\ req[r].prior + PendingAmount(p) + req[r].amount <= Amount
  /\ \E i \in Asks :
       /\ ask[i].status = "none"
       /\ ask' = [ask EXCEPT ![i] = [status |-> "PendingApproval", pay |-> p,
                                     amount |-> req[r].amount, runs |-> 0]]
  /\ Done(r)
  /\ UNCHANGED <<pay, begun>>

RejectRead(r) ==
  /\ \E i \in Asks :
       /\ ask[i].status = "PendingApproval"
       /\ Start(r, [Idle EXCEPT !.pc = "reject", !.ask = i])
  /\ UNCHANGED <<pay, ask>>

RejectCommit(r) ==
  /\ req[r].pc = "reject"
  /\ ask' = [ask EXCEPT ![req[r].ask].status = "Rejected"]
  /\ Done(r)
  /\ UNCHANGED <<pay, begun>>

-----------------------------------------------------------------------------
TenderStep(r) == TenderRead(r) \/ TenderInsert(r) \/ PspCharges(r) \/ TenderCommit(r)

CardStep(r) ==
  \/ CaptureRead(r) \/ PspCaptures(r) \/ PspTakesNothing(r) \/ CaptureCommit(r)
  \/ VoidRead(r) \/ VoidCommit(r) \/ SettleRead(r) \/ SettleCommit(r)

RefundStep(r) ==
  \/ Refund(r) \/ Gate(r) \/ ReturnRefund(r) \/ ApproveRead(r)
  \/ LockRow(r) \/ RefundCommit(r) \/ ParkCommit(r)
  \/ RejectRead(r) \/ RejectCommit(r)

Next ==
  \/ \E r \in Requests : TenderStep(r) \/ CardStep(r) \/ RefundStep(r) \/ Abort(r)
  \/ \E p \in Pays, t \in 0 .. MaxTip : AdjustTip(p, t)

Spec == Init /\ [][Next]_vars

-----------------------------------------------------------------------------
(* Properties                                                              *)

\* An idempotency key is charged by one tender: of all rows with the key,
\* committed or still being inserted, there is one.  Only money taken for a
\* request that rolled back can come on top.
OneTenderPerKey ==
  \A k \in Keys :
    Cardinality({p \in Rows : pay[p].key = k})
      + Cardinality({r \in Requests : Inserting(r) /\ req[r].key = k}) <= 1

\* Refunds never exceed the payment, whatever routes they take at the same time,
\* and all of it is refunded when its status says so.
RefundsWithinPayment ==
  \A p \in Pays :
    /\ pay[p].refunded <= Amount
    /\ pay[p].status = "Refunded" => pay[p].refunded = Amount

\* Only payments that count as received, or were voided by a stale read after
\* that, have refunds.
RefundsNeedReceipt ==
  \A p \in Pays : pay[p].refunded > 0 => pay[p].status \in {"Captured", "Refunded", "Voided"}

\* The refunds that wait for approval never exceed the payment together.
PendingWithinPayment == \A p \in Pays : PendingAmount(p) <= Amount

\* A tip posted to 2300 was charged: with the tip read before the capture, in the one
\* capture the PSP carried out, whatever adjustments and captures came between.  It may
\* differ only where the PSP answered a capture without taking the money.
TipChargedUnlessUntaken ==
  \A p \in Pays :
    pay[p].tipPosted > 0 => pay[p].charged = Amount + pay[p].tipPosted \/ pay[p].untaken

\* Refunds below the approval threshold can add up to more than it only as far as
\* requests in flight together let them: each of them stays below it.
UnapprovedBounded ==
  \A p \in Pays : pay[p].unapproved <= Cardinality(Requests) * (Threshold - 1)

\* A refund request is carried out again only by approvals that overlap: its runs
\* and the approvals of it in flight are never more than the requests at one time.
ApprovalRunsBounded ==
  \A i \in Asks : ask[i].runs + Cardinality(Approving(i)) <= Cardinality(Requests)

\* A captured payment is voided only by a request that had read it before the
\* capture, and otherwise left only by a full refund.
CapturedVoidedOnlyByStaleRead ==
  [][\A p \in Pays : pay[p].status = "Captured" /\ pay'[p].status # "Captured" =>
       \/ pay'[p].status = "Refunded" /\ pay'[p].refunded = Amount
       \/ /\ pay'[p].status = "Voided"
          /\ \E r \in Requests :
               req[r].pc = "void" /\ req[r].pay = p /\ req[r].result # "Captured"]_vars

-----------------------------------------------------------------------------
(* The inductive invariant                                                 *)

\* What a request holds fits the place it has reached: a tender in the making has no
\* row yet, everything else is about a row, the tip and what is left to refund are
\* those of the row while it is locked, and the PSP has taken what was captured or answered without.
RequestFits(r) ==
  /\ Inserting(r) => req[r].pay \in Pays /\ pay[req[r].pay].status = "none"
  /\ req[r].pc = "record" => req[r].result \in {"Pending", "Authorized", "Captured", "Failed"}
  /\ req[r].pc \in {"capture", "captured", "void", "settle", "gate", "lock", "write"} =>
       req[r].pay \in Rows
  /\ req[r].pc \in {"capture", "captured"} => req[r].amount <= MaxTip
  /\ req[r].pc = "captured" =>
       pay[req[r].pay].charged = Amount + req[r].amount \/ pay[req[r].pay].untaken
  /\ req[r].pc = "void" => req[r].result # "Captured"
  /\ req[r].pc \in {"gate", "lock", "write"} => req[r].amount <= Amount
  /\ req[r].pc = "gate" => req[r].route = "direct"
  /\ req[r].pc = "write" => /\ req[r].prior = pay[req[r].pay].refunded
                            /\ pay[req[r].pay].status \in {"Captured", "Refunded"}

RequestsFit == \A r \in Requests : RequestFits(r)

\* A refund request is about a row, and has not run while it waits.
AsksFit ==
  \A i \in Asks :
    /\ ask[i].status # "none" => ask[i].pay \in Rows
    /\ ask[i].status = "PendingApproval" => ask[i].runs = 0

\* An approval or rejection in flight is of a refund request that was made.
ApprovalsFit ==
  \A r \in Requests :
    req[r].route = "approval" \/ req[r].pc = "reject" => req[r].ask \in Asks /\ ask[req[r].ask].status # "none"

\* Two tenders in the making share neither the payment nor the key.
OneInserter ==
  \A r, q \in Requests :
    Inserting(r) /\ Inserting(q) /\ r # q =>
      req[r].pay # req[q].pay /\ (req[r].key = req[q].key => req[r].key = None)

\* A key is in one row, and in none while a tender with it is in the making.
KeysUnique ==
  /\ \A p, s \in Rows : pay[p].key = pay[s].key /\ pay[p].key # None => p = s
  /\ \A r \in Requests : Inserting(r) => ~KeyTaken(req[r].key)

OneLock ==
  \A r, q \in Requests :
    req[r].pc = "write" /\ req[q].pc = "write" /\ req[r].pay = req[q].pay => r = q

NothingPostedYet == \A p \in Pays \ Rows : pay[p].tipPosted = 0

IInv ==
  /\ TypeOK
  /\ RequestsFit /\ AsksFit /\ ApprovalsFit
  /\ OneInserter /\ KeysUnique /\ OneLock
  /\ RefundsWithinPayment /\ RefundsNeedReceipt
  /\ NothingPostedYet /\ TipChargedUnlessUntaken
  /\ ApprovalRunsBounded

-----------------------------------------------------------------------------
(* The inductive strengthening of PendingWithinPayment and                 *)
(* UnapprovedBounded: inductive together with IInv.                        *)

\* Refunds of a payment that passed the gate, or its first read, and are not yet written.
Direct(p) ==
  {r \in Requests :
     /\ req[r].route = "direct" /\ req[r].pay = p
     /\ \/ req[r].pc \in {"lock", "write"}
        \/ req[r].pc = "gate" /\ req[r].prior + req[r].amount < Threshold}

DirectAmount(p) == SumFunctionOnSet([r \in Requests |-> req[r].amount], Direct(p))

\* Finitely many refund requests were made, so that their amounts can be summed.
AsksLimit == IsFiniteSet({i \in Asks : ask[i].status # "none"}) /\ PendingWithinPayment

\* Each refund past the gate is below the threshold, and what they have refunded and
\* still will is within what the requests could each refund below it.
DirectLimit ==
  \A p \in Pays :
    /\ \A r \in Direct(p) : req[r].amount < Threshold
    /\ pay[p].unapproved <= pay[p].refunded
    /\ pay[p].unapproved + DirectAmount(p) <= Cardinality(Requests) * (Threshold - 1)
=============================================================================
