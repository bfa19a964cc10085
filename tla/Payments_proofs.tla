--------------------------- MODULE Payments_proofs ---------------------------
(***************************************************************************)
(* Safety of tenders, captures, voids and refunds for any number of        *)
(* payments, keys, refund requests and requests in flight.  IInv of        *)
(* Payments is inductive: what a request has read without a lock is only   *)
(* used where the PSP, a unique index or the row lock backs it.  The sums  *)
(* of what waits and of what is in flight follow, with AsksLimit and       *)
(* DirectLimit, inductive together with it.                                *)
(***************************************************************************)
EXTENDS Payments, CountingLemmas, FiniteSetTheorems, TLAPS

-----------------------------------------------------------------------------
(* What a request changes of itself and of its payment.                    *)

\* A request moves and no other does.
Moves(r) == /\ req' \in [Requests -> Reqs]
            /\ \A q \in Requests \ {r} : req'[q] = req[q]

\* One payment changes.
Touches(x) == /\ pay' \in [Pays -> PayRows]
              /\ \A p \in Pays \ {x} : pay'[p] = pay[p]

Begins(r) ==
  \/ TenderRead(r) \/ CaptureRead(r) \/ VoidRead(r) \/ SettleRead(r) \/ RejectRead(r)
  \/ Refund(r) \/ ReturnRefund(r) \/ ApproveRead(r)

\* A request begins without touching the database.
LEMMA BeginEffect ==
  ASSUME TypeOK, AsksFit, NEW r \in Requests, Begins(r)
  PROVE  /\ Moves(r) /\ UNCHANGED <<pay, ask>> /\ begun' \in 0 .. MaxBegun
         /\ req[r].pc = "idle"
         /\ req'[r].pc \notin {"charge", "record", "captured", "write"}
         /\ req'[r].pc \in {"capture", "void", "settle", "gate", "lock"} => req'[r].pay \in Rows
         /\ req'[r].pc = "capture" => req'[r].amount <= MaxTip
         /\ req'[r].pc = "void" => req'[r].result # "Captured"
         /\ req'[r].pc \in {"gate", "lock"} => req'[r].amount <= Amount
         /\ req'[r].pc = "gate" => req'[r].route = "direct"
         /\ req'[r].route = "approval" \/ req'[r].pc = "reject" =>
              req'[r].ask \in Asks /\ ask[req'[r].ask].status = "PendingApproval"
<1>1. Idle \in Reqs /\ Idle.route = "direct"
  BY AmountAssumption DEF Idle, Reqs, Statuses, Phases, Routes
<1>2. ASSUME NEW a \in Reqs, Start(r, a)
      PROVE  /\ Moves(r) /\ begun' \in 0 .. MaxBegun /\ req[r].pc = "idle" /\ req'[r] = a
  BY <1>2, RequestsAssumption DEF Start, Moves, TypeOK
<1>3. CASE TenderRead(r)
  <2>1. PICK k \in Keys \cup {None} : Start(r, [Idle EXCEPT !.pc = "insert", !.key = k])
    BY <1>3 DEF TenderRead
  <2>. DEFINE a == [Idle EXCEPT !.pc = "insert", !.key = k]
  <2>2. a \in Reqs /\ a.pc = "insert" /\ a.route = "direct"
    BY <1>1 DEF Reqs, Phases
  <2>. QED  BY <1>2, <1>3, <2>1, <2>2 DEF TenderRead
<1>4. CASE CaptureRead(r)
  <2>1. PICK p \in Rows : Start(r, [Idle EXCEPT !.pc = "capture", !.pay = p, !.amount = pay[p].tip])
    BY <1>4 DEF CaptureRead
  <2>2. /\ pay[p].tip \in 0 .. Amount + MaxTip /\ pay[p].tip <= MaxTip
        /\ p \in Pays \cup {None}
    BY AmountAssumption DEF TypeOK, PayRows, Rows
  <2>. DEFINE a == [Idle EXCEPT !.pc = "capture", !.pay = p, !.amount = pay[p].tip]
  <2>3. a \in Reqs /\ a.pc = "capture" /\ a.pay = p /\ a.amount = pay[p].tip /\ a.route = "direct"
    BY <1>1, <2>2 DEF Reqs, Phases
  <2>. QED  BY <1>2, <1>4, <2>1, <2>2, <2>3 DEF CaptureRead
<1>5. CASE VoidRead(r)
  <2>1. PICK p \in Rows :
          /\ pay[p].status # "Captured"
          /\ Start(r, [Idle EXCEPT !.pc = "void", !.pay = p, !.result = pay[p].status])
    BY <1>5 DEF VoidRead
  <2>2. pay[p].status \in Statuses /\ p \in Pays \cup {None}
    BY DEF TypeOK, PayRows, Rows
  <2>. DEFINE a == [Idle EXCEPT !.pc = "void", !.pay = p, !.result = pay[p].status]
  <2>3. a \in Reqs /\ a.pc = "void" /\ a.pay = p /\ a.result = pay[p].status /\ a.route = "direct"
    BY <1>1, <2>2 DEF Reqs, Phases
  <2>. QED  BY <1>2, <1>5, <2>1, <2>2, <2>3 DEF VoidRead
<1>6. CASE SettleRead(r)
  <2>1. PICK p \in Rows : Start(r, [Idle EXCEPT !.pc = "settle", !.pay = p])
    BY <1>6 DEF SettleRead
  <2>2. p \in Pays \cup {None}
    BY DEF Rows
  <2>. DEFINE a == [Idle EXCEPT !.pc = "settle", !.pay = p]
  <2>3. a \in Reqs /\ a.pc = "settle" /\ a.pay = p /\ a.route = "direct"
    BY <1>1, <2>2 DEF Reqs, Phases
  <2>. QED  BY <1>2, <1>6, <2>1, <2>3 DEF SettleRead
<1>7. CASE RejectRead(r)
  <2>1. PICK i \in Asks :
          /\ ask[i].status = "PendingApproval"
          /\ Start(r, [Idle EXCEPT !.pc = "reject", !.ask = i])
    BY <1>7 DEF RejectRead
  <2>. DEFINE a == [Idle EXCEPT !.pc = "reject", !.ask = i]
  <2>2. a \in Reqs /\ a.pc = "reject" /\ a.ask = i
    BY <1>1 DEF Reqs, Phases
  <2>. QED  BY <1>2, <1>7, <2>1, <2>2 DEF RejectRead
<1>8. ASSUME NEW p \in Rows, NEW x \in 0 .. Amount, NEW route \in Routes,
             NEW i \in Asks \cup {None}, Start(r, ToLock(p, x, route, i))
      PROVE  /\ Moves(r) /\ begun' \in 0 .. MaxBegun /\ req[r].pc = "idle"
             /\ req'[r].pc = "lock" /\ req'[r].pay = p /\ req'[r].amount <= Amount
             /\ req'[r].route = route /\ req'[r].ask = i
  <2>1. ToLock(p, x, route, i) \in Reqs
    BY AmountAssumption DEF ToLock, Reqs, Statuses, Phases, Rows
  <2>. QED  BY <1>2, <1>8, <2>1, AmountAssumption DEF ToLock
<1>9. CASE ReturnRefund(r)
  <2>1. PICK p \in Rows, x \in 1 .. Amount : Start(r, ToLock(p, x, "return", None))
    BY <1>9 DEF ReturnRefund
  <2>2. x \in 0 .. Amount
    BY AmountAssumption
  <2>. QED  BY <1>8, <1>9, <2>1, <2>2 DEF ReturnRefund, Routes
<1>11. CASE Refund(r)
  <2>1. PICK p \in Rows, x \in 1 .. Amount :
          Start(r, [pc |-> "gate", pay |-> p, key |-> None, amount |-> x, result |-> "none",
                    route |-> "direct", ask |-> None, prior |-> pay[p].refunded])
    BY <1>11 DEF Refund
  <2>. DEFINE a == [pc |-> "gate", pay |-> p, key |-> None, amount |-> x, result |-> "none",
                    route |-> "direct", ask |-> None, prior |-> pay[p].refunded]
  <2>2. p \in Pays /\ pay[p].refunded \in Nat /\ x \in 0 .. Amount + MaxTip /\ x <= Amount
    BY AmountAssumption DEF Rows, TypeOK, PayRows
  <2>3. /\ a \in Reqs /\ a.pc = "gate" /\ a.pay = p /\ a.amount = x /\ a.route = "direct"
    BY <2>2 DEF Reqs, Phases, Statuses, Routes
  <2>. QED  BY <1>2, <1>11, <2>1, <2>2, <2>3 DEF Refund
<1>10. CASE ApproveRead(r)
  <2>1. PICK i \in Asks :
          /\ ask[i].status = "PendingApproval"
          /\ Start(r, ToLock(ask[i].pay, ask[i].amount, "approval", i))
    BY <1>10 DEF ApproveRead
  <2>2. ask[i].amount \in 0 .. Amount /\ ask[i].pay \in Rows
    BY <2>1 DEF TypeOK, AskRows, AsksFit
  <2>. QED  BY <1>8, <1>10, <2>1, <2>2 DEF ApproveRead, Routes
<1>. QED  BY <1>3, <1>4, <1>5, <1>6, <1>7, <1>9, <1>10, <1>11 DEF Begins

LEMMA DoneEffect ==
  ASSUME TypeOK, NEW r \in Requests, Done(r)
  PROVE  Moves(r) /\ req'[r] = Idle /\ Idle.pc = "idle" /\ Idle.route = "direct"
<1>1. Idle \in Reqs
  BY AmountAssumption DEF Idle, Reqs, Statuses, Phases, Routes
<1>. QED  BY <1>1 DEF Done, Moves, TypeOK, Idle

-----------------------------------------------------------------------------
(* What a step leaves alone.                                               *)

LEMMA RowsArePays == Rows \subseteq Pays
BY DEF Rows

\* What the PSP did for a payment is as it was.
Kept(p) == pay'[p].charged = pay[p].charged /\ pay'[p].untaken = pay[p].untaken

\* Another request still fits when the rows it relies on did not change under it.
LEMMA FitFrame ==
  ASSUME TypeOK, RequestsFit, NEW r \in Requests, Moves(r), Rows \subseteq Rows',
         RequestFits(r)',
         \A q \in Requests \ {r} :
           /\ Inserting(q) => pay'[req[q].pay].status = pay[req[q].pay].status
           /\ req[q].pc = "captured" =>
                Kept(req[q].pay) \/ pay'[req[q].pay].untaken
           /\ req[q].pc = "write" => /\ pay'[req[q].pay].refunded = pay[req[q].pay].refunded
                                     /\ pay'[req[q].pay].status = pay[req[q].pay].status
  PROVE  RequestsFit'
<1>. SUFFICES ASSUME NEW q \in Requests \ {r} PROVE RequestFits(q)'
  BY DEF RequestsFit
<1>1. RequestFits(q) /\ req'[q] = req[q]
  BY DEF RequestsFit, Moves
<1>. QED  BY <1>1 DEF RequestFits, Inserting, Kept

\* No new tender is in the making and no lock was taken.
LEMMA LeaveFrame ==
  ASSUME OneInserter, OneLock, NEW r \in Requests, Moves(r), req'[r].pc # "write",
         Inserting(r)' => Inserting(r) /\ req'[r].pay = req[r].pay /\ req'[r].key = req[r].key
  PROVE  OneInserter' /\ OneLock'
<1>1. OneInserter'
  BY DEF OneInserter, Moves, Inserting
<1>2. OneLock'
  BY DEF OneLock, Moves
<1>. QED  BY <1>1, <1>2

\* No row came, and no key changed hands.
LEMMA KeyFrame ==
  ASSUME KeysUnique, NEW r \in Requests, Moves(r),
         Inserting(r)' => Inserting(r) /\ req'[r].key = req[r].key,
         \A p \in Pays : /\ pay'[p].status = "none" <=> pay[p].status = "none"
                         /\ pay'[p].key = pay[p].key
  PROVE  KeysUnique' /\ Rows' = Rows
<1>1. Rows' = Rows
  BY DEF Rows
<1>2. ASSUME NEW q \in Requests, Inserting(q)'  PROVE ~KeyTaken(req[q].key)'
  <2>1. Inserting(q) /\ req'[q].key = req[q].key
    BY <1>2 DEF Inserting, Moves
  <2>2. ~KeyTaken(req[q].key)
    BY <2>1 DEF KeysUnique
  <2>. QED  BY <1>1, <2>1, <2>2, RowsArePays DEF KeyTaken
<1>3. \A p, s \in Rows' : pay'[p].key = pay'[s].key /\ pay'[p].key # None => p = s
  BY <1>1, RowsArePays DEF KeysUnique
<1>. QED  BY <1>1, <1>2, <1>3 DEF KeysUnique

LEMMA SubsetSmaller ==
  ASSUME NEW S \in SUBSET Requests, NEW T \in SUBSET S
  PROVE  /\ Cardinality(T) <= Cardinality(S) /\ Cardinality(S) <= Cardinality(Requests)
         /\ Cardinality(T) \in Nat /\ Cardinality(S) \in Nat /\ Cardinality(Requests) \in Nat
BY RequestsAssumption, FS_Subset, FS_CardinalityType

\* No approval began and no refund request was carried out.
LEMMA RunsFrame ==
  ASSUME TypeOK, ApprovalsFit, ApprovalRunsBounded, NEW r \in Requests, Moves(r),
         \A i \in Asks : /\ ask'[i].runs = ask[i].runs
                         /\ ask'[i].status = "none" => ask[i].status = "none",
         req'[r].route = "approval" => req[r].route = "approval" /\ req'[r].ask = req[r].ask,
         req'[r].pc # "reject"
  PROVE  ApprovalRunsBounded' /\ ApprovalsFit'
<1>1. ASSUME NEW i \in Asks
      PROVE  ask'[i].runs + Cardinality(Approving(i)') <= Cardinality(Requests)
  <2>1. Approving(i) \in SUBSET Requests /\ Approving(i)' \in SUBSET Approving(i)
    BY DEF Approving, Moves
  <2>2. ask[i].runs \in Nat /\ ask[i].runs + Cardinality(Approving(i)) <= Cardinality(Requests)
    BY DEF ApprovalRunsBounded, TypeOK, AskRows
  <2>. HIDE DEF Approving
  <2>. QED  BY <2>1, <2>2, SubsetSmaller
<1>2. ApprovalsFit'
  BY DEF ApprovalsFit, Moves
<1>. QED  BY <1>1, <1>2 DEF ApprovalRunsBounded

\* The parts of the invariant that are about rows alone.
RowsFine == AsksFit /\ RefundsWithinPayment /\ RefundsNeedReceipt /\ NothingPostedYet /\ TipChargedUnlessUntaken

LEMMA QuietFrame ==
  ASSUME RowsFine, UNCHANGED <<pay, ask>>
  PROVE  RowsFine' /\ Rows' = Rows
BY DEF RowsFine, AsksFit, RefundsWithinPayment, RefundsNeedReceipt, NothingPostedYet,
       TipChargedUnlessUntaken, Rows

-----------------------------------------------------------------------------
(* Steps that touch no row.                                                *)

LEMMA BeginStep ==
  ASSUME IInv, NEW r \in Requests, Begins(r)
  PROVE  IInv'
<1>1. /\ Moves(r) /\ UNCHANGED <<pay, ask>> /\ begun' \in 0 .. MaxBegun
      /\ req'[r].pc \notin {"charge", "record", "captured", "write"}
      /\ req'[r].pc \in {"capture", "void", "settle", "gate", "lock"} => req'[r].pay \in Rows
      /\ req'[r].pc = "capture" => req'[r].amount <= MaxTip
      /\ req'[r].pc = "void" => req'[r].result # "Captured"
      /\ req'[r].pc \in {"gate", "lock"} => req'[r].amount <= Amount
      /\ req'[r].pc = "gate" => req'[r].route = "direct"
      /\ req'[r].route = "approval" \/ req'[r].pc = "reject" =>
           req'[r].ask \in Asks /\ ask[req'[r].ask].status = "PendingApproval"
  BY BeginEffect DEF IInv
<1>2. TypeOK'
  BY <1>1 DEF IInv, TypeOK, Moves
<1>3. RowsFine' /\ Rows' = Rows
  BY <1>1, QuietFrame DEF IInv, RowsFine
<1>4. RequestsFit'
  <2>1. RequestFits(r)'
    BY <1>1, <1>3 DEF RequestFits, Inserting
  <2>. QED  BY <1>1, <1>3, <2>1, FitFrame DEF IInv, Kept
<1>5. OneInserter' /\ OneLock' /\ KeysUnique'
  BY <1>1, LeaveFrame, KeyFrame DEF IInv, Inserting
<1>6. ApprovalRunsBounded'
  <2>. SUFFICES ASSUME NEW i \in Asks
                PROVE  ask'[i].runs + Cardinality(Approving(i)') <= Cardinality(Requests)
    BY DEF ApprovalRunsBounded
  <2>1. Approving(i) \in SUBSET Requests /\ Approving(i)' \in SUBSET Requests
    BY DEF Approving
  <2>2. /\ ask'[i].runs = ask[i].runs /\ ask[i].runs \in Nat
        /\ ask[i].runs + Cardinality(Approving(i)) <= Cardinality(Requests)
    BY <1>1 DEF IInv, ApprovalRunsBounded, TypeOK, AskRows
  <2>3. Approving(i)' \subseteq Approving(i) \/ ask[i].runs = 0
    BY <1>1 DEF Approving, Moves, IInv, AsksFit
  <2>. HIDE DEF Approving
  <2>. QED  BY <2>1, <2>2, <2>3, SubsetSmaller
<1>7. ApprovalsFit'
  BY <1>1 DEF IInv, ApprovalsFit, Moves
<1>. QED  BY <1>2, <1>3, <1>4, <1>5, <1>6, <1>7 DEF IInv, RowsFine

LEMMA DoneStep ==
  ASSUME IInv, NEW r \in Requests, Done(r), UNCHANGED <<pay, ask, begun>>
  PROVE  IInv'
<1>1. Moves(r) /\ UNCHANGED <<pay, ask, begun>> /\ req'[r].pc = "idle" /\ req'[r].route = "direct"
  BY DoneEffect DEF IInv
<1>2. TypeOK'
  BY <1>1 DEF IInv, TypeOK, Moves
<1>3. RowsFine' /\ Rows' = Rows
  BY <1>1, QuietFrame DEF IInv, RowsFine
<1>4. RequestsFit'
  <2>1. RequestFits(r)'
    BY <1>1 DEF RequestFits, Inserting
  <2>. QED  BY <1>1, <1>3, <2>1, FitFrame DEF IInv, Kept
<1>5. OneInserter' /\ OneLock' /\ KeysUnique' /\ ApprovalRunsBounded' /\ ApprovalsFit'
  BY <1>1, LeaveFrame, KeyFrame, RunsFrame DEF IInv, Inserting
<1>. QED  BY <1>2, <1>3, <1>4, <1>5 DEF IInv, RowsFine

LEMMA InsertStep ==
  ASSUME IInv, NEW r \in Requests, TenderInsert(r)
  PROVE  IInv'
<1>1. CASE KeyTaken(req[r].key)
  BY <1>1, DoneStep DEF TenderInsert
<1>2. CASE ~KeyTaken(req[r].key)
  <2>1. PICK p \in Pays :
          /\ pay[p] = NoPay
          /\ \A q \in Requests : Inserting(q) => req[q].key \notin {req[r].key} \ {None}
          /\ \A q \in Requests : Inserting(q) => req[q].pay # p
          /\ req' = [req EXCEPT ![r] = [req[r] EXCEPT !.pc = "charge", !.pay = p]]
    BY <1>2 DEF TenderInsert, IInv, TypeOK, Reqs
  <2>2. req[r] \in Reqs /\ "charge" \in Phases
    BY DEF IInv, TypeOK, Phases
  <2>. DEFINE a == [req[r] EXCEPT !.pc = "charge", !.pay = p]
  <2>3. /\ a \in Reqs /\ a.pc = "charge" /\ a.pay = p /\ a.key = req[r].key
        /\ a.route = req[r].route /\ a.ask = req[r].ask
    BY <2>2 DEF Reqs
  <2>4. /\ Moves(r) /\ UNCHANGED <<pay, ask, begun>>
        /\ req'[r].pc = "charge" /\ req'[r].pay = p /\ req'[r].key = req[r].key
        /\ req'[r].route = req[r].route /\ req'[r].ask = req[r].ask
    BY <2>1, <2>3 DEF TenderInsert, Moves, IInv, TypeOK
  <2>5. TypeOK'
    BY <2>4 DEF IInv, TypeOK, Moves
  <2>6. RowsFine' /\ Rows' = Rows
    BY <2>4, QuietFrame DEF IInv, RowsFine
  <2>7. RequestsFit'
    <3>1. RequestFits(r)'
      BY <2>1, <2>4 DEF RequestFits, Inserting, NoPay
    <3>. QED  BY <2>4, <2>6, <3>1, FitFrame DEF IInv, Kept
  <2>8. OneInserter'
    BY <2>1, <2>4 DEF IInv, OneInserter, Moves, Inserting
  <2>9. OneLock'
    BY <2>4 DEF IInv, OneLock, Moves
  <2>10. KeysUnique'
    <3>1. ASSUME NEW q \in Requests, Inserting(q)'  PROVE ~KeyTaken(req[q].key)'
      <4>1. ~KeyTaken(req'[q].key)
        BY <1>2, <2>4, <3>1 DEF IInv, KeysUnique, Inserting, Moves
      <4>. QED  BY <2>4, <2>6, <4>1 DEF KeyTaken
    <3>. QED  BY <2>4, <2>6, <3>1 DEF IInv, KeysUnique
  <2>11. ApprovalRunsBounded' /\ ApprovalsFit'
    BY <2>4, RunsFrame DEF IInv
  <2>. QED  BY <2>5, <2>6, <2>7, <2>8, <2>9, <2>10, <2>11 DEF IInv, RowsFine
<1>. QED  BY <1>1, <1>2

LEMMA LockStep ==
  ASSUME IInv, NEW r \in Requests, LockRow(r)
  PROVE  IInv'
<1>. DEFINE x == req[r].pay
            a == [req[r] EXCEPT !.pc = "write", !.prior = pay[x].refunded]
<1>1. x \in Rows /\ x \in Pays /\ pay[x].refunded \in Nat /\ req[r].amount <= Amount
  BY DEF LockRow, IInv, RequestsFit, RequestFits, TypeOK, PayRows, Rows
<1>2. /\ req' = [req EXCEPT ![r] = a] /\ ~RowLocked(x)
      /\ pay[x].status \in {"Captured", "Refunded"}
  BY DEF LockRow, IInv, TypeOK, Reqs
<1>3. req[r] \in Reqs /\ "write" \in Phases
  BY DEF IInv, TypeOK, Phases
<1>4. /\ a \in Reqs /\ a.pc = "write" /\ a.pay = x /\ a.amount = req[r].amount
      /\ a.prior = pay[x].refunded /\ a.route = req[r].route /\ a.ask = req[r].ask
  BY <1>1, <1>3 DEF Reqs
<1>5. /\ Moves(r) /\ UNCHANGED <<pay, ask, begun>>
      /\ req'[r].pc = "write" /\ req'[r].pay = x /\ req'[r].amount = req[r].amount
      /\ req'[r].prior = pay[x].refunded
      /\ req'[r].route = req[r].route /\ req'[r].ask = req[r].ask
  BY <1>2, <1>4 DEF LockRow, Moves, IInv, TypeOK
<1>. HIDE DEF x, a
<1>6. TypeOK'
  BY <1>5 DEF IInv, TypeOK, Moves
<1>7. RowsFine' /\ Rows' = Rows
  BY <1>5, QuietFrame DEF IInv, RowsFine
<1>8. RequestsFit'
  <2>1. RequestFits(r)'
    BY <1>1, <1>2, <1>5, <1>7 DEF RequestFits, Inserting
  <2>. QED  BY <1>5, <1>7, <2>1, FitFrame DEF IInv, Kept
<1>9. OneInserter' /\ KeysUnique' /\ ApprovalRunsBounded' /\ ApprovalsFit'
  <2>1. OneInserter'
    BY <1>5 DEF IInv, OneInserter, Moves, Inserting
  <2>. QED  BY <1>5, <2>1, KeyFrame, RunsFrame DEF IInv, Inserting
<1>10. OneLock'
  BY <1>2, <1>5 DEF IInv, OneLock, Moves, RowLocked
<1>. QED  BY <1>6, <1>7, <1>8, <1>9, <1>10 DEF IInv, RowsFine

\* The second read of the gate decides where the refund goes.
LEMMA GateEffect ==
  ASSUME TypeOK, NEW r \in Requests, Gate(r)
  PROVE  /\ Moves(r) /\ UNCHANGED <<pay, ask, begun>> /\ req[r].pc = "gate"
         /\ req'[r].pc = "lock" /\ req'[r].pay = req[r].pay /\ req'[r].amount = req[r].amount
         /\ req'[r].route = IF NeedsApproval(r) THEN "park" ELSE "direct"
<1>. DEFINE route == IF NeedsApproval(r) THEN "park" ELSE "direct"
            a == ToLock(req[r].pay, req[r].amount, route, None)
<1>1. req[r] \in Reqs /\ req' = [req EXCEPT ![r] = a]
  BY DEF Gate, TypeOK
<1>2. route \in Routes
  BY DEF Routes
<1>. HIDE DEF route
<1>3. a \in Reqs /\ a.pc = "lock" /\ a.pay = req[r].pay /\ a.amount = req[r].amount /\ a.route = route
  BY <1>1, <1>2 DEF ToLock, Reqs, Statuses, Phases
<1>. HIDE DEF a
<1>. QED  BY <1>1, <1>3 DEF Gate, Moves, TypeOK, route

LEMMA GateStep ==
  ASSUME IInv, NEW r \in Requests, Gate(r)
  PROVE  IInv'
<1>1. /\ Moves(r) /\ UNCHANGED <<pay, ask, begun>>
      /\ req'[r].pc = "lock" /\ req'[r].pay = req[r].pay /\ req'[r].amount = req[r].amount
      /\ req'[r].route \in {"park", "direct"} /\ req[r].pc = "gate"
  BY GateEffect DEF IInv
<1>2. TypeOK'
  BY <1>1 DEF IInv, TypeOK, Moves
<1>3. RowsFine' /\ Rows' = Rows
  BY <1>1, QuietFrame DEF IInv, RowsFine
<1>4. RequestsFit'
  <2>1. RequestFits(r)'
    BY <1>1, <1>3 DEF IInv, RequestsFit, RequestFits, Inserting
  <2>. QED  BY <1>1, <1>3, <2>1, FitFrame DEF IInv, Kept
<1>5. OneInserter' /\ OneLock' /\ KeysUnique' /\ ApprovalRunsBounded' /\ ApprovalsFit'
  BY <1>1, LeaveFrame, KeyFrame, RunsFrame DEF IInv, Inserting
<1>. QED  BY <1>2, <1>3, <1>4, <1>5 DEF IInv, RowsFine

-----------------------------------------------------------------------------
(* Steps that touch a payment.                                             *)

\* A request in the making changes what the PSP took, nothing of the row.
LEMMA ChargeStep ==
  ASSUME IInv, NEW r \in Requests, PspCharges(r)
  PROVE  IInv'
<1>. DEFINE x == req[r].pay
<1>1. x \in Pays /\ pay[x].status = "none" /\ Inserting(r)
  BY DEF PspCharges, IInv, RequestsFit, RequestFits, Inserting
<1>2. PICK result \in {"Pending", "Authorized", "Captured", "Failed"}, c \in {0, Amount} :
        /\ pay' = [pay EXCEPT ![x] = [pay[x] EXCEPT !.charged = c]]
        /\ req' = [req EXCEPT ![r] = [req[r] EXCEPT !.pc = "record", !.result = result]]
  BY DEF PspCharges, IInv, TypeOK, Reqs, PayRows
<1>3. req[r] \in Reqs /\ "record" \in Phases /\ result \in Statuses
      /\ pay[x] \in PayRows /\ c \in 0 .. Amount + MaxTip
  BY <1>1, AmountAssumption DEF IInv, TypeOK, Phases, Statuses
<1>. DEFINE a == [req[r] EXCEPT !.pc = "record", !.result = result]
            row == [pay[x] EXCEPT !.charged = c]
<1>4. /\ a \in Reqs /\ a.pc = "record" /\ a.pay = x /\ a.key = req[r].key /\ a.result = result
      /\ a.route = req[r].route /\ a.ask = req[r].ask
  BY <1>3 DEF Reqs
<1>5. /\ row \in PayRows /\ row.status = pay[x].status /\ row.key = pay[x].key
      /\ row.tipPosted = pay[x].tipPosted /\ row.refunded = pay[x].refunded
  BY <1>3 DEF PayRows
<1>6. /\ Moves(r) /\ UNCHANGED <<ask, begun>>
      /\ req'[r].pc = "record" /\ req'[r].pay = x /\ req'[r].key = req[r].key
      /\ req'[r].result = result /\ req'[r].route = req[r].route /\ req'[r].ask = req[r].ask
  BY <1>2, <1>4 DEF PspCharges, Moves, IInv, TypeOK
<1>7. /\ Touches(x)
      /\ \A p \in Pays : /\ pay'[p].status = pay[p].status /\ pay'[p].key = pay[p].key
                         /\ pay'[p].tipPosted = pay[p].tipPosted
                         /\ pay'[p].refunded = pay[p].refunded
  BY <1>1, <1>2, <1>5 DEF Touches, IInv, TypeOK
<1>. HIDE DEF x, a, row
<1>8. TypeOK'
  BY <1>6, <1>7 DEF IInv, TypeOK, Moves, Touches
<1>9. OneInserter' /\ OneLock' /\ KeysUnique' /\ Rows' = Rows
      /\ ApprovalRunsBounded' /\ ApprovalsFit'
  BY <1>1, <1>6, <1>7, LeaveFrame, KeyFrame, RunsFrame DEF IInv, Inserting, x
<1>10. RequestsFit'
  <2>1. RequestFits(r)'
    BY <1>1, <1>6, <1>7 DEF RequestFits, Inserting
  <2>2. ASSUME NEW q \in Requests \ {r}, req[q].pc \in {"captured", "write"}
        PROVE  req[q].pay \in Pays \ {x}
    BY <1>1, <2>2 DEF IInv, RequestsFit, RequestFits, Rows
  <2>3. ASSUME NEW q \in Requests \ {r}, Inserting(q)
        PROVE  req[q].pay \in Pays
    BY <2>3 DEF IInv, RequestsFit, RequestFits
  <2>. QED  BY <1>6, <1>7, <1>9, <2>1, <2>2, <2>3, FitFrame DEF IInv, Touches, Kept
<1>11. RowsFine'
  <2>1. AsksFit' /\ RefundsWithinPayment' /\ RefundsNeedReceipt' /\ NothingPostedYet'
    BY <1>6, <1>7, <1>9 DEF IInv, AsksFit, RefundsWithinPayment, RefundsNeedReceipt, NothingPostedYet
  <2>2. TipChargedUnlessUntaken'
    BY <1>1, <1>7 DEF IInv, TipChargedUnlessUntaken, NothingPostedYet, Touches, Rows
  <2>. QED  BY <2>1, <2>2 DEF RowsFine
<1>. QED  BY <1>8, <1>9, <1>10, <1>11 DEF IInv, RowsFine

\* The row of a tender becomes visible with the PSP's answer.
LEMMA RecordStep ==
  ASSUME IInv, NEW r \in Requests, TenderCommit(r)
  PROVE  IInv'
<1>. DEFINE x == req[r].pay
            row == [pay[x] EXCEPT !.status = req[r].result, !.key = req[r].key]
<1>1. /\ x \in Pays /\ pay[x].status = "none" /\ Inserting(r)
      /\ req[r].result \in {"Pending", "Authorized", "Captured", "Failed"}
  BY DEF TenderCommit, IInv, RequestsFit, RequestFits, Inserting
<1>2. pay' = [pay EXCEPT ![x] = row]
  BY DEF TenderCommit, IInv, TypeOK, PayRows
<1>3. pay[x] \in PayRows /\ req[r].result \in Statuses /\ req[r].key \in Keys \cup {None}
  BY <1>1 DEF IInv, TypeOK, Reqs
<1>4. /\ row \in PayRows /\ row.status = req[r].result /\ row.key = req[r].key
      /\ row.tipPosted = pay[x].tipPosted /\ row.refunded = pay[x].refunded
      /\ row.charged = pay[x].charged /\ row.untaken = pay[x].untaken
  BY <1>3 DEF PayRows
<1>5. Moves(r) /\ UNCHANGED <<ask, begun>> /\ req'[r].pc = "idle" /\ req'[r].route = "direct"
  BY DoneEffect DEF TenderCommit, IInv
<1>6. /\ Touches(x) /\ pay'[x].status = req[r].result /\ pay'[x].key = req[r].key
      /\ \A p \in Pays : /\ pay'[p].tipPosted = pay[p].tipPosted
                         /\ pay'[p].refunded = pay[p].refunded
                         /\ pay'[p].charged = pay[p].charged /\ pay'[p].untaken = pay[p].untaken
  BY <1>1, <1>2, <1>4 DEF Touches, IInv, TypeOK
<1>. HIDE DEF x, row
<1>7. Rows' = Rows \cup {x} /\ x \notin Rows
  BY <1>1, <1>6 DEF Rows, Touches
<1>8. TypeOK'
  BY <1>5, <1>6 DEF IInv, TypeOK, Moves, Touches
<1>9. OneInserter' /\ OneLock' /\ ApprovalRunsBounded' /\ ApprovalsFit'
  BY <1>5, LeaveFrame, RunsFrame DEF IInv, Inserting
<1>10. RequestsFit'
  <2>1. RequestFits(r)'
    BY <1>5 DEF RequestFits, Inserting
  <2>2. ASSUME NEW q \in Requests \ {r}, Inserting(q)  PROVE req[q].pay \in Pays \ {x}
    BY <1>1, <2>2 DEF IInv, RequestsFit, RequestFits, OneInserter, x
  <2>3. ASSUME NEW q \in Requests \ {r}, req[q].pc \in {"captured", "write"}
        PROVE  req[q].pay \in Pays \ {x}
    BY <1>7, <2>3, RowsArePays DEF IInv, RequestsFit, RequestFits
  <2>. QED  BY <1>5, <1>6, <1>7, <2>1, <2>2, <2>3, FitFrame DEF IInv, Touches, Kept
<1>11. KeysUnique'
  <2>1. ~KeyTaken(req[r].key)
    BY <1>1 DEF IInv, KeysUnique
  <2>2. \A p \in Rows : pay'[p].key = pay[p].key
    BY <1>6, <1>7, RowsArePays DEF Touches
  <2>3. \A p, s \in Rows' : pay'[p].key = pay'[s].key /\ pay'[p].key # None => p = s
    BY <1>6, <1>7, <2>1, <2>2 DEF IInv, KeysUnique, KeyTaken
  <2>4. ASSUME NEW q \in Requests, Inserting(q)'  PROVE ~KeyTaken(req[q].key)'
    <3>1. q # r /\ Inserting(q) /\ req'[q].key = req[q].key
      BY <1>5, <2>4 DEF Moves, Inserting
    <3>2. ~KeyTaken(req[q].key) /\ (req[q].key = req[r].key => req[q].key = None)
      BY <1>1, <3>1 DEF IInv, KeysUnique, OneInserter
    <3>. QED  BY <1>6, <1>7, <2>2, <3>1, <3>2 DEF KeyTaken
  <2>. QED  BY <2>3, <2>4 DEF KeysUnique
<1>12. RowsFine'
  <2>1. pay[x].refunded = 0
    BY <1>1, <1>3 DEF IInv, RefundsNeedReceipt, PayRows
  <2>2. AsksFit' /\ NothingPostedYet' /\ TipChargedUnlessUntaken'
    BY <1>5, <1>6, <1>7 DEF IInv, AsksFit, NothingPostedYet, TipChargedUnlessUntaken
  <2>3. RefundsWithinPayment' /\ RefundsNeedReceipt'
    BY <1>1, <1>6, <2>1 DEF IInv, RefundsWithinPayment, RefundsNeedReceipt, Touches
  <2>. QED  BY <2>2, <2>3 DEF RowsFine
<1>. QED  BY <1>8, <1>9, <1>10, <1>11, <1>12 DEF IInv, RowsFine

\* A row that nobody has locked gets a status, and perhaps the tip that was charged.
LEMMA StatusStep ==
  ASSUME IInv, NEW r \in Requests, Done(r), UNCHANGED <<ask, begun>>,
         NEW x \in Rows, ~RowLocked(x), Touches(x),
         pay'[x].status \in {"Captured", "Voided"}, pay'[x].key = pay[x].key,
         pay'[x].refunded = pay[x].refunded, Kept(x),
         pay'[x].tipPosted > 0 => pay[x].charged = Amount + pay'[x].tipPosted \/ pay[x].untaken
  PROVE  IInv'
<1>1. x \in Pays /\ pay[x].status # "none"
  BY DEF Rows
<1>2. Moves(r) /\ req'[r].pc = "idle" /\ req'[r].route = "direct"
  BY DoneEffect DEF IInv
<1>3. TypeOK'
  BY <1>2 DEF IInv, TypeOK, Moves, Touches
<1>4. OneInserter' /\ OneLock' /\ KeysUnique' /\ Rows' = Rows
      /\ ApprovalRunsBounded' /\ ApprovalsFit'
  BY <1>1, <1>2, LeaveFrame, KeyFrame, RunsFrame DEF IInv, Inserting, Touches
<1>5. RequestsFit'
  <2>1. RequestFits(r)'
    BY <1>2 DEF RequestFits, Inserting
  <2>2. ASSUME NEW q \in Requests \ {r}, Inserting(q)  PROVE req[q].pay \in Pays \ {x}
    BY <1>1, <2>2 DEF IInv, RequestsFit, RequestFits
  <2>3. ASSUME NEW q \in Requests \ {r}, req[q].pc = "write"
        PROVE  req[q].pay \in Pays \ {x}
    BY <2>3, RowsArePays DEF RowLocked, IInv, RequestsFit, RequestFits
  <2>4. ASSUME NEW q \in Requests \ {r}, req[q].pc = "captured"
        PROVE  Kept(req[q].pay)
    BY <2>4, RowsArePays DEF Touches, IInv, RequestsFit, RequestFits, Kept
  <2>. QED  BY <1>2, <1>4, <2>1, <2>2, <2>3, <2>4, FitFrame DEF IInv, Touches
<1>6. RowsFine'
  <2>1. AsksFit' /\ NothingPostedYet'
    BY <1>4 DEF IInv, AsksFit, NothingPostedYet, Touches
  <2>2. RefundsWithinPayment' /\ RefundsNeedReceipt' /\ TipChargedUnlessUntaken'
    BY <1>1 DEF IInv, RefundsWithinPayment, RefundsNeedReceipt, TipChargedUnlessUntaken, Touches,
               Kept
  <2>. QED  BY <2>1, <2>2 DEF RowsFine
<1>. QED  BY <1>3, <1>4, <1>5, <1>6 DEF IInv, RowsFine

LEMMA StatusSteps ==
  ASSUME IInv, NEW r \in Requests, CaptureCommit(r) \/ VoidCommit(r) \/ SettleCommit(r)
  PROVE  IInv'
<1>. DEFINE x == req[r].pay
<1>1. x \in Rows /\ x \in Pays /\ pay[x] \in PayRows /\ ~RowLocked(x) /\ Done(r)
      /\ UNCHANGED <<ask, begun>>
  BY DEF CaptureCommit, VoidCommit, SettleCommit, IInv, RequestsFit, RequestFits, Rows, TypeOK
<1>2. CASE CaptureCommit(r)
  <2>. DEFINE t == IF pay[x].tipPosted = 0 THEN req[r].amount ELSE pay[x].tipPosted
              row == [pay[x] EXCEPT !.status = "Captured", !.tipPosted = t]
  <2>1. /\ req[r].amount \in 0 .. MaxTip
        /\ pay[x].charged = Amount + req[r].amount \/ pay[x].untaken
    BY <1>2, AmountAssumption DEF CaptureCommit, IInv, TypeOK, Reqs, RequestsFit, RequestFits
  <2>2. /\ t \in 0 .. MaxTip /\ "Captured" \in Statuses
        /\ t > 0 => pay[x].charged = Amount + t \/ pay[x].untaken
    BY <1>1, <2>1 DEF IInv, TipChargedUnlessUntaken, PayRows, Statuses
  <2>3. pay' = [pay EXCEPT ![x] = row]
    BY <1>2 DEF CaptureCommit, IInv, TypeOK, PayRows
  <2>. HIDE DEF t
  <2>4. /\ row \in PayRows /\ row.status = "Captured" /\ row.key = pay[x].key
        /\ row.refunded = pay[x].refunded /\ row.charged = pay[x].charged /\ row.tipPosted = t
        /\ row.untaken = pay[x].untaken
    BY <1>1, <2>2 DEF PayRows
  <2>5. Touches(x) /\ pay'[x] = row /\ Kept(x)
    BY <1>1, <2>3, <2>4 DEF Touches, IInv, TypeOK, Kept
  <2>. HIDE DEF x, row
  <2>. QED  BY <1>1, <2>2, <2>4, <2>5, StatusStep
<1>3. ASSUME NEW s \in {"Captured", "Voided"}, pay' = [pay EXCEPT ![x].status = s]
      PROVE  IInv'
  <2>. DEFINE row == [pay[x] EXCEPT !.status = s]
  <2>1. pay' = [pay EXCEPT ![x] = row] /\ s \in Statuses
    BY <1>3 DEF IInv, TypeOK, PayRows, Statuses
  <2>2. /\ row \in PayRows /\ row.status = s /\ row.key = pay[x].key
        /\ row.refunded = pay[x].refunded /\ row.charged = pay[x].charged
        /\ row.tipPosted = pay[x].tipPosted /\ row.untaken = pay[x].untaken
    BY <1>1, <2>1 DEF PayRows
  <2>3. Touches(x) /\ pay'[x] = row /\ Kept(x)
    BY <1>1, <2>1, <2>2 DEF Touches, IInv, TypeOK, Kept
  <2>4. pay[x].tipPosted > 0 => pay[x].charged = Amount + pay[x].tipPosted \/ pay[x].untaken
    BY <1>1 DEF IInv, TipChargedUnlessUntaken
  <2>. HIDE DEF x, row
  <2>. QED  BY <1>1, <2>2, <2>3, <2>4, StatusStep
<1>. QED  BY <1>2, <1>3 DEF VoidCommit, SettleCommit

\* The PSP's side of a payment changes: what fitted still does, unless the PSP had
\* answered without taking.
LEMMA TakenStep ==
  ASSUME IInv, NEW r \in Requests, UNCHANGED <<ask, begun>>, Moves(r),
         NEW x \in Rows, x = req[r].pay, Touches(x),
         req[r].pc = "capture", req'[r].pc = "captured", req'[r].pay = x,
         req'[r].amount = req[r].amount, req'[r].route = req[r].route, req'[r].ask = req[r].ask,
         \A p \in Pays : /\ pay'[p].status = pay[p].status /\ pay'[p].key = pay[p].key
                         /\ pay'[p].tipPosted = pay[p].tipPosted
                         /\ pay'[p].refunded = pay[p].refunded,
         pay'[x].charged = Amount + req[r].amount \/ pay'[x].untaken,
         pay[x].untaken => pay'[x].untaken,
         pay'[x].untaken \/ pay[x].charged = 0
  PROVE  IInv'
<1>1. x \in Pays /\ req[r].amount <= MaxTip
  BY RowsArePays DEF IInv, RequestsFit, RequestFits
<1>2. TypeOK'
  BY DEF IInv, TypeOK, Moves, Touches
<1>3. OneInserter' /\ OneLock' /\ KeysUnique' /\ Rows' = Rows
      /\ ApprovalRunsBounded' /\ ApprovalsFit'
  BY LeaveFrame, KeyFrame, RunsFrame DEF IInv, Inserting
<1>4. RequestsFit'
  <2>1. RequestFits(r)'
    BY <1>1, <1>3 DEF RequestFits, Inserting
  <2>2. ASSUME NEW q \in Requests \ {r}, req[q].pc = "captured"
        PROVE  Kept(req[q].pay) \/ pay'[req[q].pay].untaken
    <3>1. /\ req[q].pay \in Pays /\ req[q].amount \in Nat
          /\ pay[req[q].pay].charged = Amount + req[q].amount \/ pay[req[q].pay].untaken
      BY <2>2, RowsArePays, AmountAssumption DEF IInv, RequestsFit, RequestFits, TypeOK, Reqs
    <3>2. CASE req[q].pay # x
      BY <3>1, <3>2 DEF Touches, Kept
    <3>3. CASE req[q].pay = x
      <4>1. Amount + req[q].amount # 0
        BY <3>1, AmountAssumption
      <4>. QED  BY <3>1, <3>3, <4>1
    <3>. QED  BY <3>2, <3>3
  <2>3. ASSUME NEW q \in Requests \ {r}, Inserting(q) \/ req[q].pc = "write"
        PROVE  req[q].pay \in Pays
    BY <2>3, RowsArePays DEF IInv, RequestsFit, RequestFits
  <2>. QED  BY <1>3, <2>1, <2>2, <2>3, FitFrame DEF IInv
<1>5. RowsFine'
  <2>1. AsksFit' /\ RefundsWithinPayment' /\ RefundsNeedReceipt' /\ NothingPostedYet'
    BY <1>3 DEF IInv, AsksFit, RefundsWithinPayment, RefundsNeedReceipt, NothingPostedYet
  <2>2. pay[x].tipPosted = 0 \/ pay'[x].untaken
    <3>1. pay[x].tipPosted \in Nat /\ Amount + pay[x].tipPosted # 0
      BY <1>1, AmountAssumption DEF IInv, TypeOK, PayRows
    <3>2. pay[x].tipPosted > 0 => pay[x].charged = Amount + pay[x].tipPosted \/ pay[x].untaken
      BY <1>1 DEF IInv, TipChargedUnlessUntaken
    <3>. QED  BY <3>1, <3>2
  <2>3. TipChargedUnlessUntaken'
    <3>1. ASSUME NEW p \in Pays, pay'[p].tipPosted > 0
          PROVE  pay'[p].charged = Amount + pay'[p].tipPosted \/ pay'[p].untaken
      <4>1. CASE p = x
        BY <2>2, <3>1, <4>1
      <4>2. CASE p # x
        BY <3>1, <4>2 DEF IInv, TipChargedUnlessUntaken, Touches
      <4>. QED  BY <4>1, <4>2
    <3>. QED  BY <3>1 DEF TipChargedUnlessUntaken
  <2>. QED  BY <2>1, <2>3 DEF RowsFine
<1>. QED  BY <1>2, <1>3, <1>4, <1>5 DEF IInv, RowsFine

\* A request that captures keeps what it read.
LEMMA CapturedEffect ==
  ASSUME IInv, NEW r \in Requests, PspCaptures(r) \/ PspTakesNothing(r)
  PROVE  /\ Moves(r) /\ UNCHANGED <<ask, begun>>
         /\ req[r].pc = "capture" /\ req'[r].pc = "captured" /\ req'[r].pay = req[r].pay
         /\ req'[r].amount = req[r].amount /\ req'[r].route = req[r].route
         /\ req'[r].ask = req[r].ask
         /\ req[r].pay \in Rows /\ req[r].pay \in Pays /\ pay[req[r].pay] \in PayRows
         /\ req[r].amount \in 0 .. MaxTip
<1>. DEFINE a == [req[r] EXCEPT !.pc = "captured"]
<1>1. /\ req[r].pay \in Rows /\ req[r].pay \in Pays /\ pay[req[r].pay] \in PayRows
      /\ req[r] \in Reqs /\ req[r].amount \in 0 .. MaxTip /\ req[r].pc = "capture"
  BY AmountAssumption
     DEF PspCaptures, PspTakesNothing, IInv, RequestsFit, RequestFits, Rows, TypeOK, Reqs
<1>2. req' = [req EXCEPT ![r] = a] /\ "captured" \in Phases
  BY DEF PspCaptures, PspTakesNothing, IInv, TypeOK, Reqs, Phases
<1>3. /\ a \in Reqs /\ a.pc = "captured" /\ a.pay = req[r].pay /\ a.amount = req[r].amount
      /\ a.route = req[r].route /\ a.ask = req[r].ask
  BY <1>1, <1>2 DEF Reqs
<1>. HIDE DEF a
<1>. QED  BY <1>1, <1>2, <1>3 DEF PspCaptures, PspTakesNothing, Moves, IInv, TypeOK

\* The PSP takes a hold once: unless it answered without taking, nothing was posted and
\* no other capture got through.
LEMMA CaptureStep ==
  ASSUME IInv, NEW r \in Requests, PspCaptures(r)
  PROVE  IInv'
<1>. DEFINE x == req[r].pay
            c == Amount + req[r].amount
            row == [pay[x] EXCEPT !.charged = c]
<1>1. pay' = [pay EXCEPT ![x] = row] /\ pay[x].charged = 0
  BY DEF PspCaptures, IInv, TypeOK, PayRows
<1>2. x \in Rows /\ x \in Pays /\ pay[x] \in PayRows /\ c \in 0 .. Amount + MaxTip
  BY CapturedEffect, AmountAssumption
<1>. HIDE DEF c
<1>3. /\ row \in PayRows /\ row.status = pay[x].status /\ row.key = pay[x].key
      /\ row.tipPosted = pay[x].tipPosted /\ row.refunded = pay[x].refunded /\ row.charged = c
      /\ row.untaken = pay[x].untaken
  BY <1>2 DEF PayRows
<1>4. /\ Touches(x) /\ pay'[x].charged = c /\ pay'[x].untaken = pay[x].untaken
      /\ \A p \in Pays : /\ pay'[p].status = pay[p].status /\ pay'[p].key = pay[p].key
                         /\ pay'[p].tipPosted = pay[p].tipPosted
                         /\ pay'[p].refunded = pay[p].refunded
  BY <1>1, <1>2, <1>3 DEF Touches, IInv, TypeOK
<1>. HIDE DEF x, row
<1>. QED  BY <1>1, <1>2, <1>4, CapturedEffect, TakenStep DEF c, x

\* The PSP answers without taking: from then on nothing is claimed of the charge.
LEMMA UntakenStep ==
  ASSUME IInv, NEW r \in Requests, PspTakesNothing(r)
  PROVE  IInv'
<1>. DEFINE x == req[r].pay
            row == [pay[x] EXCEPT !.untaken = TRUE]
<1>1. pay' = [pay EXCEPT ![x] = row]
  BY DEF PspTakesNothing, IInv, TypeOK, PayRows
<1>2. x \in Rows /\ x \in Pays /\ pay[x] \in PayRows
  BY CapturedEffect
<1>3. /\ row \in PayRows /\ row.status = pay[x].status /\ row.key = pay[x].key
      /\ row.tipPosted = pay[x].tipPosted /\ row.refunded = pay[x].refunded /\ row.untaken
  BY <1>2 DEF PayRows
<1>4. /\ Touches(x) /\ pay'[x].untaken
      /\ \A p \in Pays : /\ pay'[p].status = pay[p].status /\ pay'[p].key = pay[p].key
                         /\ pay'[p].tipPosted = pay[p].tipPosted
                         /\ pay'[p].refunded = pay[p].refunded
  BY <1>1, <1>2, <1>3 DEF Touches, IInv, TypeOK
<1>. HIDE DEF x, row
<1>. QED  BY <1>2, <1>4, CapturedEffect, TakenStep DEF x

LEMMA TipStep ==
  ASSUME IInv, NEW p \in Pays, NEW t \in 0 .. MaxTip, AdjustTip(p, t)
  PROVE  IInv'
<1>. DEFINE row == [pay[p] EXCEPT !.tip = t]
<1>1. pay' = [pay EXCEPT ![p] = row] /\ pay[p] \in PayRows
  BY DEF AdjustTip, IInv, TypeOK, PayRows
<1>2. /\ row \in PayRows /\ row.status = pay[p].status /\ row.key = pay[p].key
      /\ row.tipPosted = pay[p].tipPosted /\ row.refunded = pay[p].refunded
      /\ row.charged = pay[p].charged /\ row.untaken = pay[p].untaken
  BY <1>1 DEF PayRows
<1>3. /\ UNCHANGED <<ask, req, begun>> /\ pay' \in [Pays -> PayRows]
      /\ \A s \in Pays : /\ pay'[s].status = pay[s].status /\ pay'[s].key = pay[s].key
                         /\ pay'[s].tipPosted = pay[s].tipPosted
                         /\ pay'[s].refunded = pay[s].refunded
                         /\ pay'[s].charged = pay[s].charged /\ pay'[s].untaken = pay[s].untaken
  BY <1>1, <1>2 DEF AdjustTip, IInv, TypeOK
<1>. HIDE DEF row
<1>4. TypeOK' /\ Rows' = Rows
  BY <1>3 DEF IInv, TypeOK, Rows
<1>5. RequestsFit'
  <2>. SUFFICES ASSUME NEW q \in Requests PROVE RequestFits(q)'
    BY DEF RequestsFit
  <2>1. RequestFits(q)
    BY DEF IInv, RequestsFit
  <2>. QED  BY <1>3, <1>4, <2>1, RowsArePays DEF RequestFits, Inserting
<1>6. OneInserter' /\ OneLock' /\ ApprovalRunsBounded' /\ ApprovalsFit'
  BY <1>3 DEF IInv, OneInserter, OneLock, ApprovalRunsBounded, ApprovalsFit, Approving, Inserting
<1>7. KeysUnique'
  BY <1>3, <1>4, RowsArePays DEF IInv, KeysUnique, KeyTaken, Inserting
<1>8. RowsFine'
  BY <1>3, <1>4 DEF RowsFine, IInv, AsksFit, RefundsWithinPayment, RefundsNeedReceipt,
                    NothingPostedYet, TipChargedUnlessUntaken
<1>. QED  BY <1>4, <1>5, <1>6, <1>7, <1>8 DEF IInv, RowsFine

-----------------------------------------------------------------------------
(* Refunds.                                                                *)

\* The holder of the lock refunds what it knows is left.
LEMMA RefundEffect ==
  ASSUME IInv, NEW r \in Requests, RefundCommit(r)
  PROVE  LET x == req[r].pay IN
         /\ x \in Rows /\ Touches(x)
         /\ pay'[x].refunded = pay[x].refunded + req[r].amount /\ pay'[x].refunded <= Amount
         /\ \/ pay'[x].status = "Refunded" /\ pay'[x].refunded = Amount
            \/ pay'[x].status = pay[x].status /\ pay'[x].refunded < Amount
         /\ pay[x].status \in {"Captured", "Refunded"}
         /\ pay'[x].key = pay[x].key /\ Kept(x)
         /\ pay'[x].tipPosted = pay[x].tipPosted
<1>. DEFINE x == req[r].pay
            total == req[r].prior + req[r].amount
            back == pay[x].refunded + req[r].amount
            u == IF req[r].route = "direct" THEN pay[x].unapproved + req[r].amount
                                            ELSE pay[x].unapproved
            s == IF total >= Amount THEN "Refunded" ELSE pay[x].status
            row == [pay[x] EXCEPT !.refunded = back, !.unapproved = u, !.status = s]
<1>1. /\ x \in Rows /\ x \in Pays /\ pay[x] \in PayRows /\ req[r].prior = pay[x].refunded
      /\ pay[x].status \in {"Captured", "Refunded"} /\ total <= Amount /\ req[r].amount \in Nat
  BY AmountAssumption
     DEF RefundCommit, IInv, RequestsFit, RequestFits, Rows, TypeOK, Reqs
<1>2. back \in Nat /\ u \in Nat /\ s \in Statuses /\ back = total
  BY <1>1 DEF PayRows, Statuses
<1>3. pay' = [pay EXCEPT ![x] = row]
  BY DEF RefundCommit, IInv, TypeOK, PayRows
<1>4. (s = "Refunded" /\ back = Amount) \/ (s = pay[x].status /\ back < Amount)
  BY <1>1, <1>2, AmountAssumption
<1>. HIDE DEF back, u, s
<1>5. /\ row \in PayRows /\ row.refunded = back /\ row.status = s /\ row.key = pay[x].key
      /\ row.charged = pay[x].charged /\ row.tipPosted = pay[x].tipPosted
      /\ row.untaken = pay[x].untaken
  BY <1>1, <1>2 DEF PayRows
<1>6. Touches(x) /\ pay'[x] = row
  BY <1>1, <1>3, <1>5 DEF Touches, IInv, TypeOK
<1>. HIDE DEF row
<1>. QED  BY <1>1, <1>2, <1>4, <1>5, <1>6 DEF back, Kept

\* The refund request of an approval is marked, and has run once more.
LEMMA ApprovedEffect ==
  ASSUME IInv, NEW r \in Requests, RefundCommit(r)
  PROVE  /\ ask' \in [Asks -> AskRows]
         /\ \A i \in Asks :
              \/ ask'[i] = ask[i] /\ r \notin Approving(i)
              \/ /\ r \in Approving(i) /\ ask'[i].runs = ask[i].runs + 1
                 /\ ask'[i].status = "Approved" /\ ask'[i].pay = ask[i].pay
<1>. DEFINE i == req[r].ask
            row == [ask[i] EXCEPT !.status = "Approved", !.runs = @ + 1]
<1>1. CASE req[r].route = "approval" /\ i \in Asks
  <2>1. ask[i] \in AskRows /\ ask[i].runs + 1 \in Nat
    BY <1>1 DEF IInv, TypeOK, AskRows
  <2>2. ask' = [ask EXCEPT ![i] = row]
    BY <1>1 DEF RefundCommit, IInv, TypeOK, AskRows
  <2>3. /\ row \in AskRows /\ row.status = "Approved" /\ row.runs = ask[i].runs + 1
        /\ row.pay = ask[i].pay
    BY <2>1 DEF AskRows
  <2>. HIDE DEF row
  <2>. QED  BY <1>1, <2>2, <2>3 DEF IInv, TypeOK, Approving
<1>2. CASE ~(req[r].route = "approval" /\ i \in Asks)
  <2>1. ask' = ask
    BY <1>2 DEF RefundCommit, IInv, TypeOK
  <2>. QED  BY <1>2, <2>1 DEF IInv, TypeOK, Approving
<1>. QED  BY <1>1, <1>2

LEMMA PaidBackStep ==
  ASSUME IInv, NEW r \in Requests, RefundCommit(r)
  PROVE  IInv'
<1>. DEFINE x == req[r].pay
<1>1. /\ x \in Rows /\ x \in Pays /\ Touches(x)
      /\ pay'[x].refunded = pay[x].refunded + req[r].amount /\ pay'[x].refunded <= Amount
      /\ \/ pay'[x].status = "Refunded" /\ pay'[x].refunded = Amount
         \/ pay'[x].status = pay[x].status /\ pay'[x].refunded < Amount
      /\ pay[x].status \in {"Captured", "Refunded"}
      /\ pay'[x].key = pay[x].key /\ Kept(x)
      /\ pay'[x].tipPosted = pay[x].tipPosted
  BY RefundEffect, RowsArePays
<1>2. /\ Moves(r) /\ begun' = begun /\ req'[r].pc = "idle" /\ req'[r].route = "direct"
      /\ req[r].pc = "write"
  BY DoneEffect DEF IInv, RefundCommit
<1>3. /\ ask' \in [Asks -> AskRows]
      /\ \A i \in Asks :
           \/ ask'[i] = ask[i] /\ r \notin Approving(i)
           \/ /\ r \in Approving(i) /\ ask'[i].runs = ask[i].runs + 1
              /\ ask'[i].status = "Approved" /\ ask'[i].pay = ask[i].pay
  BY ApprovedEffect
<1>. HIDE DEF x
<1>4. TypeOK'
  BY <1>1, <1>2, <1>3 DEF IInv, TypeOK, Moves, Touches
<1>5. OneInserter' /\ OneLock' /\ KeysUnique' /\ Rows' = Rows
  BY <1>1, <1>2, LeaveFrame, KeyFrame DEF IInv, Inserting, Touches
<1>6. RequestsFit'
  <2>1. RequestFits(r)'
    BY <1>2 DEF RequestFits, Inserting
  <2>2. ASSUME NEW q \in Requests \ {r}, Inserting(q) \/ req[q].pc = "write"
        PROVE  req[q].pay \in Pays \ {x}
    BY <1>1, <1>2, <2>2, RowsArePays DEF IInv, RequestsFit, RequestFits, OneLock, x
  <2>3. ASSUME NEW q \in Requests \ {r}, req[q].pc = "captured"
        PROVE  Kept(req[q].pay)
    BY <1>1, <2>3, RowsArePays DEF Touches, IInv, RequestsFit, RequestFits, Kept
  <2>. QED  BY <1>2, <1>5, <2>1, <2>2, <2>3, <1>1, FitFrame DEF IInv, Touches, Inserting
<1>7. RowsFine'
  <2>1. AsksFit'
    <3>1. ASSUME NEW i \in Asks
          PROVE  /\ ask'[i].status # "none" => ask'[i].pay \in Rows
                 /\ ask'[i].status = "PendingApproval" => ask'[i].runs = 0
      <4>1. CASE ask'[i] = ask[i]
        BY <4>1 DEF IInv, AsksFit
      <4>2. CASE /\ r \in Approving(i) /\ ask'[i].status = "Approved"
                 /\ ask'[i].pay = ask[i].pay
        BY <4>2 DEF IInv, AsksFit, ApprovalsFit, Approving
      <4>. QED  BY <1>3, <4>1, <4>2
    <3>. QED  BY <1>5, <3>1 DEF AsksFit
  <2>2. RefundsWithinPayment' /\ RefundsNeedReceipt'
    <3>1. \A p \in Pays \ {x} : pay'[p] = pay[p]
      BY <1>1 DEF Touches
    <3>2. RefundsWithinPayment'
      <4>1. req[r].amount \in Nat /\ pay[x].refunded \in Nat
        BY <1>1, AmountAssumption DEF IInv, TypeOK, Reqs, PayRows
      <4>. QED  BY <1>1, <3>1, <4>1, AmountAssumption DEF IInv, RefundsWithinPayment
    <3>3. RefundsNeedReceipt'
      BY <1>1, <3>1 DEF IInv, RefundsNeedReceipt
    <3>. QED  BY <3>2, <3>3
  <2>3. NothingPostedYet' /\ TipChargedUnlessUntaken'
    BY <1>1, <1>5 DEF IInv, NothingPostedYet, TipChargedUnlessUntaken, Touches, Kept
  <2>. QED  BY <2>1, <2>2, <2>3 DEF RowsFine
<1>8. ApprovalRunsBounded'
  <2>. SUFFICES ASSUME NEW i \in Asks
                PROVE  ask'[i].runs + Cardinality(Approving(i)') <= Cardinality(Requests)
    BY DEF ApprovalRunsBounded
  <2>1. Approving(i) \in SUBSET Requests /\ Approving(i)' \in SUBSET (Approving(i) \ {r})
    BY <1>2 DEF Approving, Moves
  <2>2. ask[i].runs \in Nat /\ ask[i].runs + Cardinality(Approving(i)) <= Cardinality(Requests)
    BY DEF IInv, ApprovalRunsBounded, TypeOK, AskRows
  <2>3. \/ ask'[i].runs = ask[i].runs
        \/ r \in Approving(i) /\ ask'[i].runs = ask[i].runs + 1
    BY <1>3
  <2>. HIDE DEF Approving
  <2>4. CASE ask'[i].runs = ask[i].runs
    BY <2>1, <2>2, <2>4, SubsetSmaller
  <2>5. CASE r \in Approving(i) /\ ask'[i].runs = ask[i].runs + 1
    <3>1. IsFiniteSet(Approving(i))
      BY <2>1, RequestsAssumption, FS_Subset
    <3>2. Cardinality(Approving(i) \ {r}) = Cardinality(Approving(i)) - 1
      BY <2>5, <3>1, FS_RemoveElement
    <3>3. Cardinality(Approving(i)') <= Cardinality(Approving(i) \ {r})
      BY <2>1, SubsetSmaller
    <3>. QED  BY <2>1, <2>2, <2>5, <3>2, <3>3, SubsetSmaller
  <2>. QED  BY <2>3, <2>4, <2>5
<1>9. ApprovalsFit'
  <2>1. \A i \in Asks : ask[i].status # "none" => ask'[i].status # "none"
    BY <1>3
  <2>. QED  BY <1>2, <2>1 DEF IInv, ApprovalsFit, Moves
<1>. QED  BY <1>4, <1>5, <1>6, <1>7, <1>8, <1>9 DEF IInv, RowsFine

\* A refund request changes while no payment does.
LEMMA AskStep ==
  ASSUME IInv, NEW r \in Requests, Done(r), UNCHANGED <<pay, begun>>,
         ask' \in [Asks -> AskRows],
         \A i \in Asks :
           \/ ask'[i] = ask[i]
           \/ ask'[i].pay = ask[i].pay /\ ask'[i].runs = ask[i].runs /\ ask[i].status # "none"
                /\ ask'[i].status = "Rejected"
           \/ ask'[i].pay \in Rows /\ ask'[i].runs = 0 /\ ask[i].status = "none"
                /\ ask'[i].status = "PendingApproval"
  PROVE  IInv'
<1>1. Moves(r) /\ req'[r].pc = "idle" /\ req'[r].route = "direct"
  BY DoneEffect DEF IInv
<1>2. TypeOK'
  BY <1>1 DEF IInv, TypeOK, Moves
<1>3. Rows' = Rows
  BY DEF Rows
<1>4. RequestsFit'
  <2>1. RequestFits(r)'
    BY <1>1 DEF RequestFits, Inserting
  <2>. QED  BY <1>1, <1>3, <2>1, FitFrame DEF IInv, Kept
<1>5. OneInserter' /\ OneLock' /\ KeysUnique'
  BY <1>1, LeaveFrame, KeyFrame DEF IInv, Inserting
<1>6. AsksFit'
  BY <1>3 DEF IInv, AsksFit
<1>7. RefundsWithinPayment' /\ RefundsNeedReceipt' /\ NothingPostedYet' /\ TipChargedUnlessUntaken'
  BY <1>3 DEF IInv, RefundsWithinPayment, RefundsNeedReceipt, NothingPostedYet, TipChargedUnlessUntaken
<1>8. ApprovalsFit'
  BY <1>1 DEF IInv, ApprovalsFit, Moves
<1>9. ApprovalRunsBounded'
  <2>. SUFFICES ASSUME NEW i \in Asks
                PROVE  ask'[i].runs + Cardinality(Approving(i)') <= Cardinality(Requests)
    BY DEF ApprovalRunsBounded
  <2>1. Approving(i) \in SUBSET Requests /\ Approving(i)' \in SUBSET Approving(i)
    BY <1>1 DEF Approving, Moves
  <2>2. ask[i].runs \in Nat /\ ask[i].runs + Cardinality(Approving(i)) <= Cardinality(Requests)
    BY DEF IInv, ApprovalRunsBounded, TypeOK, AskRows
  <2>3. ask'[i].runs = ask[i].runs \/ ask'[i].runs = 0
    OBVIOUS
  <2>. HIDE DEF Approving
  <2>. QED  BY <2>1, <2>2, <2>3, SubsetSmaller
<1>. QED  BY <1>2, <1>4, <1>5, <1>6, <1>7, <1>8, <1>9 DEF IInv

LEMMA ParkStep ==
  ASSUME IInv, NEW r \in Requests, ParkCommit(r)
  PROVE  IInv'
<1>1. PICK i \in Asks :
        /\ ask[i].status = "none"
        /\ ask' = [ask EXCEPT ![i] = [status |-> "PendingApproval", pay |-> req[r].pay,
                                      amount |-> req[r].amount, runs |-> 0]]
  BY DEF ParkCommit
<1>2. req[r].pay \in Rows /\ req[r].pay \in Pays /\ req[r].amount \in 0 .. Amount
  BY AmountAssumption
     DEF ParkCommit, IInv, RequestsFit, RequestFits, Rows, TypeOK, Reqs
<1>3. [status |-> "PendingApproval", pay |-> req[r].pay, amount |-> req[r].amount, runs |-> 0]
        \in AskRows
  BY <1>2 DEF AskRows
<1>4. /\ ask' \in [Asks -> AskRows]
      /\ \A j \in Asks : \/ ask'[j] = ask[j]
                         \/ ask'[j].pay \in Rows /\ ask'[j].runs = 0 /\ ask[j].status = "none"
                              /\ ask'[j].status = "PendingApproval"
  BY <1>1, <1>2, <1>3 DEF IInv, TypeOK
<1>. QED  BY <1>4, AskStep DEF ParkCommit

\* A rejection writes by id, whatever has become of the request: it was made.
LEMMA RejectStep ==
  ASSUME IInv, NEW r \in Requests, RejectCommit(r)
  PROVE  IInv'
<1>. DEFINE i == req[r].ask
            row == [ask[i] EXCEPT !.status = "Rejected"]
<1>1. i \in Asks /\ ask[i] \in AskRows /\ ask[i].status # "none"
  BY DEF RejectCommit, IInv, TypeOK, ApprovalsFit
<1>2. ask' = [ask EXCEPT ![i] = row]
  BY DEF RejectCommit, IInv, TypeOK, AskRows
<1>3. row \in AskRows /\ row.status = "Rejected" /\ row.runs = ask[i].runs /\ row.pay = ask[i].pay
  BY <1>1 DEF AskRows
<1>. HIDE DEF i, row
<1>4. /\ ask' \in [Asks -> AskRows]
      /\ \A j \in Asks : \/ ask'[j] = ask[j]
                         \/ ask'[j].pay = ask[j].pay /\ ask'[j].runs = ask[j].runs
                              /\ ask[j].status # "none" /\ ask'[j].status = "Rejected"
  BY <1>1, <1>2, <1>3 DEF IInv, TypeOK
<1>. QED  BY <1>4, AskStep DEF RejectCommit

-----------------------------------------------------------------------------
(* The inductive invariant.                                                *)

LEMMA InitInv == Init => IInv
<1>. SUFFICES ASSUME Init PROVE IInv
  OBVIOUS
<1>1. TypeOK
  <2>1. Idle \in Reqs /\ NoPay \in PayRows /\ NoAsk \in AskRows
    BY AmountAssumption
       DEF Idle, NoPay, NoAsk, Reqs, PayRows, AskRows, Statuses, Phases, Routes
  <2>. QED  BY <2>1, RequestsAssumption DEF Init, TypeOK
<1>2. Rows = {}
  BY DEF Init, Rows, NoPay
<1>3. \A r \in Requests : req[r].pc = "idle" /\ req[r].route = "direct"
  BY DEF Init, Idle
<1>4. RequestsFit /\ OneInserter /\ OneLock /\ KeysUnique /\ ApprovalsFit
  BY <1>2, <1>3
     DEF RequestsFit, RequestFits, OneInserter, OneLock, KeysUnique, ApprovalsFit, Inserting
<1>5. AsksFit /\ RefundsWithinPayment /\ RefundsNeedReceipt /\ NothingPostedYet
      /\ TipChargedUnlessUntaken
  BY AmountAssumption
     DEF Init, NoPay, NoAsk, AsksFit, RefundsWithinPayment, RefundsNeedReceipt,
         NothingPostedYet, TipChargedUnlessUntaken
<1>6. ApprovalRunsBounded
  <2>1. \A i : Approving(i) = {}
    BY <1>3 DEF Approving
  <2>2. Cardinality({}) = 0 /\ Cardinality(Requests) \in Nat
    BY RequestsAssumption, FS_EmptySet, FS_CardinalityType
  <2>. QED  BY <2>1, <2>2 DEF Init, NoAsk, ApprovalRunsBounded
<1>. QED  BY <1>1, <1>4, <1>5, <1>6 DEF IInv

LEMMA NextInv == IInv /\ [Next]_vars => IInv'
<1>. SUFFICES ASSUME IInv, [Next]_vars PROVE IInv'
  OBVIOUS
<1>1. ASSUME NEW r \in Requests, Abort(r)  PROVE IInv'
  BY <1>1, DoneStep DEF Abort
<1>2. CASE UNCHANGED vars
  BY <1>2 DEF vars, IInv, TypeOK, RequestsFit, RequestFits, AsksFit, ApprovalsFit, OneInserter,
              KeysUnique, KeyTaken, OneLock, RefundsWithinPayment, RefundsNeedReceipt,
              NothingPostedYet, TipChargedUnlessUntaken, ApprovalRunsBounded, Approving, Inserting,
              Rows
<1>. QED  BY <1>1, <1>2, BeginStep, InsertStep, ChargeStep, RecordStep, CaptureStep, UntakenStep,
             StatusSteps, TipStep, GateStep, LockStep, PaidBackStep, ParkStep, RejectStep
          DEF Next, TenderStep, CardStep, RefundStep, Begins

\* IInv holds in every reachable state of the payments.
THEOREM Invariance == Spec => []IInv
BY InitInv, NextInv, PTL DEF Spec

\* Every variable keeps its type; in particular no more than the amount and the tip
\* ceiling is ever taken for a payment, whatever requests run at once.
THEOREM TypeCorrect == Spec => []TypeOK
<1>1. IInv => TypeOK
  BY DEF IInv
<1>. QED  BY <1>1, Invariance, PTL

\* recordTender charges an idempotency key by one tender: the unique index makes a
\* concurrent retry wait and then return the first.
THEOREM KeysCharge == Spec => []OneTenderPerKey
<1>1. ASSUME IInv  PROVE OneTenderPerKey
  <2>. SUFFICES ASSUME NEW k \in Keys
                PROVE  Cardinality({p \in Rows : pay[p].key = k})
                         + Cardinality({r \in Requests : Inserting(r) /\ req[r].key = k}) <= 1
    BY DEF OneTenderPerKey
  <2>. DEFINE S == {p \in Rows : pay[p].key = k}
              T == {r \in Requests : Inserting(r) /\ req[r].key = k}
  <2>1. k # None
    BY NoneAssumption
  <2>2. \A p, s \in S : p = s
    BY <1>1, <2>1 DEF IInv, KeysUnique
  <2>3. \A r, q \in T : r = q
    BY <1>1, <2>1 DEF IInv, OneInserter
  <2>4. S = {} \/ T = {}
    BY <1>1, <2>1 DEF IInv, KeysUnique, KeyTaken
  <2>. HIDE DEF S, T
  <2>5. (S = {} \/ \E p : S = {p}) /\ (T = {} \/ \E r : T = {r})
    BY <2>2, <2>3
  <2>6. /\ Cardinality(S) = 0 \/ Cardinality(S) = 1
        /\ Cardinality(T) = 0 \/ Cardinality(T) = 1
        /\ S = {} => Cardinality(S) = 0
        /\ T = {} => Cardinality(T) = 0
    BY <2>5, FS_EmptySet, FS_Singleton, Zenon
  <2>7. Cardinality(S) + Cardinality(T) <= 1
    BY <2>4, <2>6
  <2>. QED  BY <2>7 DEF S, T
<1>. QED  BY <1>1, Invariance, PTL

\* The row lock and the sum read under it keep all refunds of a payment within it,
\* whatever routes they take.
THEOREM RefundsBounded == Spec => []RefundsWithinPayment
<1>1. IInv => RefundsWithinPayment
  BY DEF IInv
<1>. QED  BY <1>1, Invariance, PTL

\* Nothing is refunded of a payment that was never received.
THEOREM RefundsOfReceived == Spec => []RefundsNeedReceipt
<1>1. IInv => RefundsNeedReceipt
  BY DEF IInv
<1>. QED  BY <1>1, Invariance, PTL

\* capture posts as a tip what the PSP charged as a tip, although the row may have been
\* adjusted or captured by another request in between; what it cannot exclude is a PSP
\* that answers without an exception and takes nothing.
THEOREM TipsChargedOrUntaken == Spec => []TipChargedUnlessUntaken
<1>1. IInv => TipChargedUnlessUntaken
  BY DEF IInv
<1>. QED  BY <1>1, Invariance, PTL

\* approveRefund runs a request again only as far as approvals overlap.
THEOREM ApprovalsBounded == Spec => []ApprovalRunsBounded
<1>1. IInv => ApprovalRunsBounded
  BY DEF IInv
<1>. QED  BY <1>1, Invariance, PTL

\* Only a void that had read the payment before its capture, or the last refund,
\* takes a payment out of Captured.
THEOREM CapturedLeft == Spec => CapturedVoidedOnlyByStaleRead
<1>. DEFINE Left(p) ==
       pay[p].status = "Captured" /\ pay'[p].status # "Captured" =>
         \/ pay'[p].status = "Refunded" /\ pay'[p].refunded = Amount
         \/ /\ pay'[p].status = "Voided"
            /\ \E r \in Requests :
                 req[r].pc = "void" /\ req[r].pay = p /\ req[r].result # "Captured"
<1>1. ASSUME IInv, [Next]_vars, NEW p \in Pays  PROVE Left(p)
  <2>1. CASE pay' = pay
    BY <2>1
  <2>2. ASSUME NEW r \in Requests, PspCharges(r) \/ PspCaptures(r) \/ PspTakesNothing(r)
        PROVE  Left(p)
    <3>1. pay[p].status = pay'[p].status
      <4>1. CASE PspCharges(r)
        BY <1>1, <4>1 DEF PspCharges, IInv, TypeOK, PayRows
      <4>2. CASE PspCaptures(r) \/ PspTakesNothing(r)
        BY <1>1, <4>2 DEF PspCaptures, PspTakesNothing, IInv, TypeOK, PayRows
      <4>. QED  BY <2>2, <4>1, <4>2
    <3>. QED  BY <3>1
  <2>3. ASSUME NEW s \in Pays, NEW t \in 0 .. MaxTip, AdjustTip(s, t)  PROVE Left(p)
    BY <1>1, <2>3 DEF AdjustTip, IInv, TypeOK, PayRows
  <2>4. ASSUME NEW r \in Requests, TenderCommit(r)  PROVE Left(p)
    <3>1. pay[req[r].pay].status = "none"
      BY <1>1, <2>4 DEF TenderCommit, IInv, RequestsFit, RequestFits, Inserting
    <3>. QED  BY <1>1, <2>4, <3>1 DEF TenderCommit, IInv, TypeOK, PayRows
  <2>5. ASSUME NEW r \in Requests, CaptureCommit(r) \/ SettleCommit(r)  PROVE Left(p)
    BY <1>1, <2>5 DEF CaptureCommit, SettleCommit, IInv, TypeOK, PayRows
  <2>6. ASSUME NEW r \in Requests, VoidCommit(r)  PROVE Left(p)
    <3>1. req[r].pc = "void" /\ req[r].result # "Captured"
      BY <1>1, <2>6 DEF VoidCommit, IInv, RequestsFit, RequestFits
    <3>. QED  BY <1>1, <2>6, <3>1 DEF VoidCommit, IInv, TypeOK, PayRows
  <2>7. ASSUME NEW r \in Requests, RefundCommit(r)  PROVE Left(p)
    BY <1>1, <2>7, RefundEffect DEF Touches
  <2>. QED  BY <1>1, <2>1, <2>2, <2>3, <2>4, <2>5, <2>6, <2>7
            DEF Next, TenderStep, CardStep, RefundStep, vars, TenderRead, TenderInsert,
                CaptureRead, VoidRead, SettleRead, Refund, Gate, ReturnRefund, ApproveRead,
                LockRow, ParkCommit, RejectRead, RejectCommit, Abort
<1>2. IInv /\ [Next]_vars =>
        [\A p \in Pays : Left(p)]_vars
  BY <1>1
<1>. QED  BY <1>2, Invariance, PTL DEF Spec, CapturedVoidedOnlyByStaleRead

-----------------------------------------------------------------------------
(* Refund requests that wait.                                              *)

\* No step but a new request lets more wait.
LEMMA AsksFrame ==
  ASSUME TypeOK, TypeOK', AsksLimit,
         \A i \in Asks :
           /\ ask'[i].status # "none" => ask[i].status # "none"
           /\ ask'[i].status = "PendingApproval" =>
                /\ ask[i].status = "PendingApproval"
                /\ ask'[i].pay = ask[i].pay /\ ask'[i].amount = ask[i].amount
  PROVE  AsksLimit'
<1>1. IsFiniteSet({i \in Asks : ask'[i].status # "none"})
  <2>1. {i \in Asks : ask'[i].status # "none"} \subseteq {i \in Asks : ask[i].status # "none"}
    OBVIOUS
  <2>. QED  BY <2>1, FS_Subset DEF AsksLimit
<1>2. ASSUME NEW p \in Pays  PROVE PendingAmount(p)' <= Amount
  <2>. DEFINE f == [i \in Asks |-> ask[i].amount]
              e == [i \in Asks |-> ask'[i].amount]
  <2>1. PICK W, V : W = Waiting(p) /\ V = Waiting(p)'
    OBVIOUS
  <2>2. V \subseteq W /\ \A i \in V : e[i] = f[i]
    BY <2>1 DEF Waiting
  <2>3. IsFiniteSet(W) /\ IsFiniteSet(V) /\ \A i \in W : f[i] \in Nat
    <3>1. W \subseteq {i \in Asks : ask[i].status # "none"} /\ V \subseteq {i \in Asks : ask[i].status # "none"}
      BY <2>1, <2>2 DEF Waiting
    <3>2. \A i \in Asks : f[i] \in Nat
      BY AmountAssumption DEF TypeOK, AskRows
    <3>. QED  BY <3>1, <3>2, FS_Subset DEF AsksLimit
  <2>4. PendingAmount(p) = SumFunctionOnSet(f, W) /\ PendingAmount(p)' = SumFunctionOnSet(e, V)
    BY <2>1 DEF PendingAmount
  <2>. HIDE DEF f, e
  <2>5. SumFunctionOnSet(f, V) = SumFunctionOnSet(e, V)
    BY <2>2, <2>3, SumCongruent
  <2>6. SumFunctionOnSet(f, V) <= SumFunctionOnSet(f, W)
    BY <2>2, <2>3, SumSubset
  <2>7. SumFunctionOnSet(f, V) \in Nat /\ SumFunctionOnSet(f, W) \in Nat
    BY <2>2, <2>3, SumNat
  <2>8. PendingAmount(p) <= Amount
    BY DEF AsksLimit, PendingWithinPayment
  <2>. QED  BY <2>4, <2>5, <2>6, <2>7, <2>8, AmountAssumption
<1>. QED  BY <1>1, <1>2 DEF AsksLimit, PendingWithinPayment

\* A new request waits only with what the others leave.
LEMMA ParkLimit ==
  ASSUME IInv, AsksLimit, NEW r \in Requests, ParkCommit(r)
  PROVE  AsksLimit'
<1>1. PICK j \in Asks :
        /\ ask[j].status = "none"
        /\ ask' = [ask EXCEPT ![j] = [status |-> "PendingApproval", pay |-> req[r].pay,
                                      amount |-> req[r].amount, runs |-> 0]]
  BY DEF ParkCommit
<1>2. PICK x : x = req[r].pay
  OBVIOUS
<1>3. /\ ask'[j].status = "PendingApproval" /\ ask'[j].pay = x /\ ask'[j].amount = req[r].amount
      /\ \A i \in Asks \ {j} : ask'[i] = ask[i]
  BY <1>1, <1>2 DEF IInv, TypeOK
<1>4. IsFiniteSet({i \in Asks : ask'[i].status # "none"})
  <2>1. {i \in Asks : ask'[i].status # "none"} = {i \in Asks : ask[i].status # "none"} \cup {j}
    BY <1>3
  <2>. QED  BY <2>1, FS_AddElement DEF AsksLimit
<1>5. ASSUME NEW p \in Pays  PROVE PendingAmount(p)' <= Amount
  <2>. DEFINE f == [i \in Asks |-> ask[i].amount]
              e == [i \in Asks |-> ask'[i].amount]
  <2>1. PICK W, V : W = Waiting(p) /\ V = Waiting(p)'
    OBVIOUS
  <2>2. \A i \in W : e[i] = f[i] /\ i # j
    BY <1>1, <1>3, <2>1 DEF Waiting
  <2>3. IsFiniteSet(W) /\ \A i \in Asks : f[i] \in Nat
    <3>1. W \subseteq {i \in Asks : ask[i].status # "none"}
      BY <2>1 DEF Waiting
    <3>2. \A i \in Asks : f[i] \in Nat
      BY AmountAssumption DEF IInv, TypeOK, AskRows
    <3>. QED  BY <3>1, <3>2, FS_Subset DEF AsksLimit
  <2>4. PendingAmount(p) = SumFunctionOnSet(f, W) /\ PendingAmount(p)' = SumFunctionOnSet(e, V)
    BY <2>1 DEF PendingAmount
  <2>5. IF p = x THEN V = W \cup {j} ELSE V = W
    BY <1>1, <1>3, <2>1 DEF Waiting
  <2>6. e[j] = req[r].amount /\ req[r].amount \in Nat /\ W \subseteq Asks
    BY <1>3, <2>1, AmountAssumption DEF IInv, TypeOK, Reqs, Waiting
  <2>. HIDE DEF f, e
  <2>7. SumFunctionOnSet(f, W) = SumFunctionOnSet(e, W) /\ SumFunctionOnSet(f, W) \in Nat
    BY <2>2, <2>3, <2>6, SumCongruent, SumNat
  <2>8. CASE p # x
    <3>1. PendingAmount(p) <= Amount
      BY DEF AsksLimit, PendingWithinPayment
    <3>. QED  BY <2>4, <2>5, <2>7, <2>8, <3>1
  <2>9. CASE p = x
    <3>1. IsFiniteSet(V) /\ V \ {j} = W /\ j \in V /\ \A i \in V : e[i] \in Nat
      BY <2>2, <2>3, <2>5, <2>6, <2>9, FS_AddElement
    <3>2. SumFunctionOnSet(e, V) = e[j] + SumFunctionOnSet(e, W)
      BY <3>1, SumTakeOut
    <3>3. req[r].prior + PendingAmount(x) + req[r].amount <= Amount /\ req[r].prior \in Nat
      BY <1>2 DEF ParkCommit, IInv, TypeOK, Reqs
    <3>. QED  BY <2>4, <2>6, <2>7, <2>9, <3>2, <3>3, AmountAssumption
  <2>. QED  BY <2>8, <2>9
<1>. QED  BY <1>4, <1>5 DEF AsksLimit, PendingWithinPayment

\* What waits can be added up.
LEMMA PendingNat ==
  ASSUME TypeOK, AsksLimit, NEW p \in Pays
  PROVE  PendingAmount(p) \in Nat
<1>. DEFINE f == [i \in Asks |-> ask[i].amount]
<1>1. IsFiniteSet(Waiting(p)) /\ \A i \in Waiting(p) : f[i] \in Nat
  <2>1. Waiting(p) \subseteq {i \in Asks : ask[i].status # "none"}
    BY DEF Waiting
  <2>2. \A i \in Waiting(p) : f[i] \in Nat
    BY AmountAssumption DEF TypeOK, AskRows, Waiting
  <2>. QED  BY <2>1, <2>2, FS_Subset DEF AsksLimit
<1>2. PendingAmount(p) = SumFunctionOnSet(f, Waiting(p))
  BY DEF PendingAmount
<1>. HIDE DEF f
<1>. QED  BY <1>1, <1>2, SumNat

-----------------------------------------------------------------------------
(* Refunds past the gate.                                                  *)

LEMMA DirectAmounts ==
  ASSUME TypeOK, DirectLimit, NEW p \in Pays
  PROVE  LET f == [q \in Requests |-> req[q].amount] IN
         /\ IsFiniteSet(Direct(p)) /\ Cardinality(Direct(p)) \in Nat
         /\ \A q \in Direct(p) : f[q] \in Nat /\ f[q] <= Threshold - 1
         /\ SumFunctionOnSet(f, Direct(p)) \in Nat
         /\ Threshold - 1 \in Nat /\ Cardinality(Requests) \in Nat
         /\ pay[p].unapproved \in Nat /\ pay[p].refunded \in Nat
<1>. DEFINE f == [q \in Requests |-> req[q].amount]
<1>1. IsFiniteSet(Direct(p)) /\ Cardinality(Direct(p)) \in Nat /\ Cardinality(Requests) \in Nat
  <2>1. Direct(p) \subseteq Requests
    BY DEF Direct
  <2>. QED  BY <2>1, RequestsAssumption, FS_Subset, FS_CardinalityType
<1>2. Threshold - 1 \in Nat
  BY ThresholdAssumption
<1>3. \A q \in Direct(p) : f[q] \in Nat /\ f[q] <= Threshold - 1
  BY <1>2, AmountAssumption, ThresholdAssumption DEF Direct, DirectLimit, TypeOK, Reqs
<1>4. SumFunctionOnSet(f, Direct(p)) \in Nat
  <2>. HIDE DEF f
  <2>. QED  BY <1>1, <1>3, SumNat
<1>5. pay[p].unapproved \in Nat /\ pay[p].refunded \in Nat
  BY DEF TypeOK, PayRows
<1>. QED  BY <1>1, <1>2, <1>3, <1>4, <1>5

\* No refund passes the gate, none past it is changed, and nothing is refunded by one.
LEMMA DirectFrame ==
  ASSUME TypeOK, TypeOK', DirectLimit, NEW p \in Pays,
         Direct(p)' \subseteq Direct(p),
         \A q \in Direct(p)' : req'[q].amount = req[q].amount,
         pay'[p].unapproved = pay[p].unapproved, pay[p].refunded <= pay'[p].refunded
  PROVE  /\ \A q \in Direct(p)' : req'[q].amount < Threshold
         /\ pay'[p].unapproved <= pay'[p].refunded
         /\ pay'[p].unapproved + DirectAmount(p)' <= Cardinality(Requests) * (Threshold - 1)
<1>. DEFINE f == [q \in Requests |-> req[q].amount]
            e == [q \in Requests |-> req'[q].amount]
<1>1. PICK W, V : W = Direct(p) /\ V = Direct(p)'
  OBVIOUS
<1>2. V \subseteq W /\ \A q \in V : e[q] = f[q]
  BY <1>1 DEF Direct
<1>3. /\ IsFiniteSet(W) /\ \A q \in W : f[q] \in Nat
      /\ pay[p].unapproved \in Nat /\ pay[p].refunded \in Nat
  BY <1>1, DirectAmounts
<1>4. DirectAmount(p) = SumFunctionOnSet(f, W) /\ DirectAmount(p)' = SumFunctionOnSet(e, V)
  BY <1>1 DEF DirectAmount
<1>5. pay[p].unapproved + SumFunctionOnSet(f, W) <= Cardinality(Requests) * (Threshold - 1)
  BY <1>4 DEF DirectLimit
<1>6. \A q \in V : req'[q].amount < Threshold
  BY <1>1, <1>2 DEF DirectLimit
<1>. HIDE DEF f, e
<1>7. IsFiniteSet(V)
  BY <1>2, <1>3, FS_Subset
<1>8. SumFunctionOnSet(e, V) = SumFunctionOnSet(f, V)
  BY <1>2, <1>7, SumCongruent
<1>9. SumFunctionOnSet(f, V) <= SumFunctionOnSet(f, W)
  BY <1>2, <1>3, SumSubset
<1>10. SumFunctionOnSet(f, V) \in Nat /\ SumFunctionOnSet(f, W) \in Nat
  BY <1>2, <1>3, <1>7, SumNat
<1>11. pay[p].unapproved <= pay[p].refunded /\ pay'[p].refunded \in Nat
  BY DEF DirectLimit, TypeOK, PayRows
<1>12. PICK b : b = Cardinality(Requests) * (Threshold - 1) /\ b \in Int
  <2>1. Cardinality(Requests) \in Nat /\ Threshold - 1 \in Nat
    BY DirectAmounts
  <2>. QED  BY <2>1
<1>13. pay'[p].unapproved + DirectAmount(p)' <= b
  BY <1>3, <1>4, <1>5, <1>8, <1>9, <1>10, <1>12
<1>. QED  BY <1>1, <1>3, <1>6, <1>11, <1>12, <1>13

LEMMA TimesMonotone ==
  ASSUME NEW m \in Nat, NEW n \in Nat, NEW c \in Nat, m <= n
  PROVE  m * c <= n * c
<1>1. PICK k \in Nat : n = m + k
  <2>1. n - m \in Nat /\ n = m + (n - m)
    OBVIOUS
  <2>. QED  BY <2>1
<1>2. n * c = m * c + k * c /\ k * c \in Nat /\ m * c \in Nat
  BY <1>1
<1>. QED  BY <1>2

\* A refund passes the gate with less than the threshold in all.
LEMMA DirectEnters ==
  ASSUME TypeOK, TypeOK', DirectLimit, NEW p \in Pays, NEW r \in Requests, r \notin Direct(p),
         Direct(p)' = Direct(p) \cup {r},
         \A q \in Direct(p) : req'[q].amount = req[q].amount,
         pay[p].unapproved + req'[r].amount < Threshold, UNCHANGED pay
  PROVE  /\ \A q \in Direct(p)' : req'[q].amount < Threshold
         /\ pay'[p].unapproved <= pay'[p].refunded
         /\ pay'[p].unapproved + DirectAmount(p)' <= Cardinality(Requests) * (Threshold - 1)
<1>. DEFINE f == [q \in Requests |-> req[q].amount]
            e == [q \in Requests |-> req'[q].amount]
<1>1. PICK W, V, c, u, k :
        W = Direct(p) /\ V = Direct(p)' /\ c = Threshold - 1 /\ u = pay[p].unapproved
          /\ k = Cardinality(Requests)
  OBVIOUS
<1>2. V = W \cup {r} /\ r \notin W /\ W \subseteq Requests /\ \A q \in W : e[q] = f[q]
  BY <1>1 DEF Direct
<1>3. /\ IsFiniteSet(W) /\ \A q \in W : f[q] \in Nat /\ f[q] <= c
      /\ Cardinality(W) \in Nat /\ c \in Nat /\ u \in Nat /\ k \in Nat
  BY <1>1, DirectAmounts
<1>4. DirectAmount(p)' = SumFunctionOnSet(e, V)
  BY <1>1 DEF DirectAmount
<1>5. e[r] = req'[r].amount /\ e[r] \in Nat /\ u + e[r] <= c
  <2>1. e[r] = req'[r].amount /\ e[r] \in Nat
    BY AmountAssumption DEF TypeOK, Reqs
  <2>. HIDE DEF e
  <2>. QED  BY <1>1, <1>3, <2>1, ThresholdAssumption
<1>. HIDE DEF f, e
<1>6. IsFiniteSet(V) /\ V \ {r} = W /\ r \in V /\ Cardinality(V) = Cardinality(W) + 1
      /\ \A q \in V : e[q] \in Nat
  BY <1>2, <1>3, <1>5, FS_AddElement
<1>7. SumFunctionOnSet(e, V) = e[r] + SumFunctionOnSet(f, W)
  <2>1. SumFunctionOnSet(e, V) = e[r] + SumFunctionOnSet(e, V \ {r})
    BY <1>6, SumTakeOut
  <2>2. SumFunctionOnSet(e, W) = SumFunctionOnSet(f, W)
    BY <1>2, <1>3, SumCongruent
  <2>. QED  BY <1>6, <2>1, <2>2
<1>8. SumFunctionOnSet(f, W) <= Cardinality(W) * c /\ SumFunctionOnSet(f, W) \in Nat
  BY <1>3, SumBound, SumNat
<1>9. Cardinality(V) \in Nat /\ Cardinality(V) <= k
  <2>1. V \subseteq Requests
    BY <1>2
  <2>. QED  BY <1>1, <2>1, RequestsAssumption, FS_Subset, FS_CardinalityType
<1>10. Cardinality(V) * c <= k * c
  BY <1>3, <1>9, TimesMonotone
<1>11. Cardinality(V) * c = Cardinality(W) * c + c /\ Cardinality(W) * c \in Nat /\ k * c \in Nat
  BY <1>3, <1>6
<1>12. u + SumFunctionOnSet(e, V) <= k * c
  BY <1>3, <1>5, <1>7, <1>8, <1>10, <1>11
<1>13. \A q \in V : req'[q].amount < Threshold
  <2>1. req'[r].amount < Threshold
    BY <1>3, <1>5, <1>1, ThresholdAssumption
  <2>. QED  BY <1>1, <1>2, <2>1 DEF DirectLimit
<1>. QED  BY <1>1, <1>4, <1>12, <1>13 DEF DirectLimit

\* A refund past the gate is written: it counts once, in flight before and paid after.
LEMMA DirectPaid ==
  ASSUME TypeOK, TypeOK', DirectLimit, NEW p \in Pays, NEW r \in Direct(p),
         Direct(p)' = Direct(p) \ {r},
         \A q \in Direct(p)' : req'[q].amount = req[q].amount,
         pay'[p].unapproved = pay[p].unapproved + req[r].amount,
         pay'[p].refunded = pay[p].refunded + req[r].amount
  PROVE  /\ \A q \in Direct(p)' : req'[q].amount < Threshold
         /\ pay'[p].unapproved <= pay'[p].refunded
         /\ pay'[p].unapproved + DirectAmount(p)' <= Cardinality(Requests) * (Threshold - 1)
<1>. DEFINE f == [q \in Requests |-> req[q].amount]
            e == [q \in Requests |-> req'[q].amount]
<1>1. PICK W, V, b : W = Direct(p) /\ V = Direct(p)' /\ b = Cardinality(Requests) * (Threshold - 1)
  OBVIOUS
<1>2. V = W \ {r} /\ r \in W /\ f[r] = req[r].amount /\ \A q \in V : e[q] = f[q]
  BY <1>1 DEF Direct
<1>3. /\ IsFiniteSet(W) /\ \A q \in W : f[q] \in Nat
      /\ pay[p].unapproved \in Nat /\ pay[p].refunded \in Nat /\ b \in Int
  <2>1. /\ IsFiniteSet(W) /\ \A q \in W : f[q] \in Nat
        /\ pay[p].unapproved \in Nat /\ pay[p].refunded \in Nat
        /\ Cardinality(Requests) \in Nat /\ Threshold - 1 \in Nat
    BY <1>1, DirectAmounts
  <2>. QED  BY <1>1, <2>1
<1>4. DirectAmount(p) = SumFunctionOnSet(f, W) /\ DirectAmount(p)' = SumFunctionOnSet(e, V)
  BY <1>1 DEF DirectAmount
<1>5. pay[p].unapproved + SumFunctionOnSet(f, W) <= b /\ pay[p].unapproved <= pay[p].refunded
  BY <1>1, <1>4 DEF DirectLimit
<1>6. \A q \in V : req'[q].amount < Threshold
  BY <1>1, <1>2 DEF DirectLimit
<1>. HIDE DEF f, e
<1>7. IsFiniteSet(V) /\ V \subseteq W
  BY <1>2, <1>3, FS_Subset
<1>8. SumFunctionOnSet(e, V) = SumFunctionOnSet(f, V) /\ SumFunctionOnSet(f, V) \in Nat
  BY <1>2, <1>3, <1>7, SumCongruent, SumNat
<1>9. SumFunctionOnSet(f, W) = f[r] + SumFunctionOnSet(f, V)
  BY <1>2, <1>3, SumTakeOut
<1>10. pay'[p].unapproved + DirectAmount(p)' <= b
  BY <1>2, <1>3, <1>4, <1>5, <1>8, <1>9
<1>11. pay'[p].unapproved <= pay'[p].refunded
  BY <1>2, <1>3, <1>5
<1>. QED  BY <1>1, <1>6, <1>10, <1>11

-----------------------------------------------------------------------------
(* The steps of the refund limits.                                         *)

\* A request that begins is where its first read took it.
LEMMA StartEffect ==
  ASSUME TypeOK, NEW r \in Requests, NEW a, Start(r, a)
  PROVE  req'[r] = a /\ (\A q \in Requests \ {r} : req'[q] = req[q]) /\ req[r].pc = "idle"
BY DEF Start, TypeOK

LEMMA ToLockFields ==
  ASSUME NEW p, NEW x, NEW route, NEW i
  PROVE  /\ ToLock(p, x, route, i).pc = "lock" /\ ToLock(p, x, route, i).pay = p
         /\ ToLock(p, x, route, i).amount = x /\ ToLock(p, x, route, i).route = route
BY DEF ToLock

\* Steps by which no refund passes the gate and none is written.
LEMMA QuietDirect ==
  ASSUME IInv, IInv', DirectLimit,
         \A q \in Requests :
           \/ req'[q] = req[q]
           \/ req'[q].pc \notin {"gate", "lock", "write"}
           \/ req'[q].route # "direct"
           \/ /\ req[q].pc \in {"lock", "write"} /\ req[q].route = "direct"
              /\ req'[q].pay = req[q].pay /\ req'[q].amount = req[q].amount,
         \A p \in Pays : /\ pay'[p].unapproved = pay[p].unapproved
                         /\ pay'[p].refunded = pay[p].refunded
  PROVE  DirectLimit'
<1>. SUFFICES ASSUME NEW p \in Pays
              PROVE  /\ \A q \in Direct(p)' : req'[q].amount < Threshold
                     /\ pay'[p].unapproved <= pay'[p].refunded
                     /\ pay'[p].unapproved + DirectAmount(p)' <= Cardinality(Requests) * (Threshold - 1)
  BY DEF DirectLimit
<1>1. Direct(p)' \subseteq Direct(p) /\ \A q \in Direct(p)' : req'[q].amount = req[q].amount
  BY DEF Direct
<1>2. pay'[p].unapproved = pay[p].unapproved /\ pay[p].refunded <= pay'[p].refunded
      /\ TypeOK /\ TypeOK'
  BY DEF IInv, TypeOK, PayRows
<1>. QED  BY <1>1, <1>2, DirectFrame

\* refund reads what was refunded before it takes the lock; with it an amount below the
\* threshold has all it takes to stay below it.
LEMMA GateEnter ==
  ASSUME IInv, IInv', DirectLimit, NEW r \in Requests, Refund(r)
  PROVE  DirectLimit'
<1>1. PICK s \in Rows, x \in 1 .. Amount :
        Start(r, [pc |-> "gate", pay |-> s, key |-> None, amount |-> x, result |-> "none",
                  route |-> "direct", ask |-> None, prior |-> pay[s].refunded])
  BY DEF Refund
<1>2. UNCHANGED <<pay, ask>> /\ s \in Pays /\ x \in Nat
  BY RowsArePays, AmountAssumption DEF Refund
<1>3. /\ \A q \in Requests \ {r} : req'[q] = req[q]
      /\ req[r].pc = "idle" /\ req'[r].pc = "gate" /\ req'[r].pay = s /\ req'[r].amount = x
      /\ req'[r].route = "direct" /\ req'[r].prior = pay[s].refunded
  BY <1>1, StartEffect DEF IInv
<1>. SUFFICES ASSUME NEW p \in Pays
              PROVE  /\ \A q \in Direct(p)' : req'[q].amount < Threshold
                     /\ pay'[p].unapproved <= pay'[p].refunded
                     /\ pay'[p].unapproved + DirectAmount(p)' <= Cardinality(Requests) * (Threshold - 1)
  BY DEF DirectLimit
<1>4. TypeOK /\ TypeOK' /\ r \notin Direct(p) /\ \A q \in Direct(p) : req'[q].amount = req[q].amount
  BY <1>3 DEF IInv, Direct
<1>5. CASE p = s /\ pay[s].refunded + x < Threshold
  <2>1. Direct(p)' = Direct(p) \cup {r}
    BY <1>3, <1>5 DEF Direct
  <2>2. pay[p].unapproved + x < Threshold
    <3>1. pay[p].unapproved <= pay[p].refunded
      BY DEF DirectLimit
    <3>2. pay[p].unapproved \in Nat /\ pay[p].refunded \in Nat
      BY DEF IInv, TypeOK, PayRows
    <3>. QED  BY <1>2, <1>5, <3>1, <3>2, ThresholdAssumption
  <2>. QED  BY <1>2, <1>3, <1>4, <2>1, <2>2, DirectEnters
<1>6. CASE ~(p = s /\ pay[s].refunded + x < Threshold)
  <2>1. Direct(p)' = Direct(p)
    BY <1>3, <1>6 DEF Direct
  <2>2. pay'[p].unapproved = pay[p].unapproved /\ pay[p].refunded <= pay'[p].refunded
    BY <1>2 DEF IInv, TypeOK, PayRows
  <2>. QED  BY <1>4, <2>1, <2>2, DirectFrame
<1>. QED  BY <1>5, <1>6

\* What waits can only park more: past the second read are requests that passed the first.
LEMMA GateLeave ==
  ASSUME IInv, IInv', AsksLimit, DirectLimit, NEW r \in Requests, Gate(r)
  PROVE  DirectLimit'
<1>1. /\ Moves(r) /\ UNCHANGED <<pay, ask>> /\ req[r].pc = "gate"
      /\ req'[r].pc = "lock" /\ req'[r].pay = req[r].pay /\ req'[r].amount = req[r].amount
      /\ req'[r].route = IF NeedsApproval(r) THEN "park" ELSE "direct"
  BY GateEffect DEF IInv
<1>. SUFFICES ASSUME NEW p \in Pays
              PROVE  /\ \A q \in Direct(p)' : req'[q].amount < Threshold
                     /\ pay'[p].unapproved <= pay'[p].refunded
                     /\ pay'[p].unapproved + DirectAmount(p)' <= Cardinality(Requests) * (Threshold - 1)
  BY DEF DirectLimit
<1>2. ASSUME r \in Direct(p)'  PROVE r \in Direct(p)
  <2>1. ~NeedsApproval(r) /\ req[r].pay = p
    BY <1>1, <1>2 DEF Direct
  <2>2. ~(req[r].prior + PendingAmount(p) + req[r].amount >= Threshold)
    BY <2>1 DEF NeedsApproval
  <2>3. PendingAmount(p) \in Nat
    BY PendingNat DEF IInv
  <2>4. req[r].prior \in Nat /\ req[r].amount \in Nat
    BY AmountAssumption DEF IInv, TypeOK, Reqs
  <2>5. req[r].prior + req[r].amount < Threshold
    BY <2>2, <2>3, <2>4, ThresholdAssumption
  <2>6. req[r].route = "direct"
    BY <1>1 DEF IInv, RequestsFit, RequestFits
  <2>. QED  BY <1>1, <2>1, <2>5, <2>6 DEF Direct
<1>3. Direct(p)' \subseteq Direct(p) /\ \A q \in Direct(p)' : req'[q].amount = req[q].amount
  BY <1>1, <1>2 DEF Direct, Moves
<1>4. TypeOK /\ TypeOK' /\ pay'[p].unapproved = pay[p].unapproved /\ pay[p].refunded <= pay'[p].refunded
  BY <1>1 DEF IInv, TypeOK, PayRows
<1>. QED  BY <1>3, <1>4, DirectFrame

\* Only a refund that passed the gate counts as unapproved.
LEMMA UnapprovedEffect ==
  ASSUME IInv, NEW r \in Requests, RefundCommit(r)
  PROVE  pay'[req[r].pay].unapproved =
           IF req[r].route = "direct" THEN pay[req[r].pay].unapproved + req[r].amount
                                      ELSE pay[req[r].pay].unapproved
<1>. DEFINE x == req[r].pay
            back == pay[x].refunded + req[r].amount
            u == IF req[r].route = "direct" THEN pay[x].unapproved + req[r].amount
                                            ELSE pay[x].unapproved
            s == IF req[r].prior + req[r].amount >= Amount THEN "Refunded" ELSE pay[x].status
            row == [pay[x] EXCEPT !.refunded = back, !.unapproved = u, !.status = s]
<1>1. x \in Pays /\ pay[x] \in PayRows
  BY RowsArePays DEF RefundCommit, IInv, RequestsFit, RequestFits, TypeOK
<1>2. pay' = [pay EXCEPT ![x] = row]
  BY DEF RefundCommit, IInv, TypeOK, PayRows
<1>. HIDE DEF back, u, s
<1>3. row.unapproved = u
  BY <1>1 DEF PayRows
<1>. HIDE DEF row
<1>4. pay'[x].unapproved = u
  BY <1>1, <1>2, <1>3 DEF IInv, TypeOK
<1>. QED  BY <1>4 DEF u

LEMMA WriteLimit ==
  ASSUME IInv, IInv', DirectLimit, NEW r \in Requests, RefundCommit(r)
  PROVE  DirectLimit'
<1>1. PICK x : x = req[r].pay
  OBVIOUS
<1>2. /\ x \in Pays /\ Touches(x) /\ pay'[x].refunded = pay[x].refunded + req[r].amount
      /\ pay'[x].unapproved = IF req[r].route = "direct" THEN pay[x].unapproved + req[r].amount
                                                       ELSE pay[x].unapproved
  BY <1>1, RefundEffect, UnapprovedEffect, RowsArePays
<1>3. /\ Moves(r) /\ req'[r].pc = "idle" /\ req[r].pc = "write" /\ req[r].amount \in Nat
  BY DoneEffect, AmountAssumption DEF IInv, RefundCommit, TypeOK, Reqs
<1>. SUFFICES ASSUME NEW p \in Pays
              PROVE  /\ \A q \in Direct(p)' : req'[q].amount < Threshold
                     /\ pay'[p].unapproved <= pay'[p].refunded
                     /\ pay'[p].unapproved + DirectAmount(p)' <= Cardinality(Requests) * (Threshold - 1)
  BY DEF DirectLimit
<1>4. Direct(p)' = Direct(p) \ {r} /\ \A q \in Direct(p)' : req'[q].amount = req[q].amount
  BY <1>3 DEF Direct, Moves
<1>5. TypeOK /\ TypeOK' /\ pay[p].refunded \in Nat /\ pay[p].unapproved \in Nat
  BY DEF IInv, TypeOK, PayRows
<1>6. CASE p = x /\ req[r].route = "direct"
  <2>1. r \in Direct(p)
    BY <1>1, <1>3, <1>6 DEF Direct
  <2>. QED  BY <1>2, <1>4, <1>5, <1>6, <2>1, DirectPaid
<1>7. CASE ~(p = x /\ req[r].route = "direct")
  <2>1. pay'[p].unapproved = pay[p].unapproved /\ pay[p].refunded <= pay'[p].refunded
    BY <1>2, <1>3, <1>5, <1>7 DEF Touches
  <2>2. Direct(p)' \subseteq Direct(p)
    BY <1>4
  <2>. QED  BY <1>4, <1>5, <2>1, <2>2, DirectFrame
<1>. QED  BY <1>6, <1>7

\* Steps of tenders, captures and voids refund nothing.
LEMMA MoneyFrame ==
  ASSUME IInv, NEW r \in Requests,
         PspCharges(r) \/ TenderCommit(r) \/ PspCaptures(r) \/ PspTakesNothing(r)
           \/ CaptureCommit(r) \/ VoidCommit(r) \/ SettleCommit(r)
  PROVE  /\ \A p \in Pays : pay'[p].unapproved = pay[p].unapproved /\ pay'[p].refunded = pay[p].refunded
         /\ ask' = ask
         /\ \A q \in Requests : req'[q] = req[q] \/ req'[q].pc \notin {"gate", "lock", "write"}
<1>1. pay \in [Pays -> PayRows] /\ req \in [Requests -> Reqs]
  BY DEF IInv, TypeOK
<1>2. CASE PspCharges(r)
  <2>1. PICK result, c :
          /\ pay' = [pay EXCEPT ![req[r].pay] = [pay[req[r].pay] EXCEPT !.charged = c]]
          /\ req' = [req EXCEPT ![r] = [req[r] EXCEPT !.pc = "record", !.result = result]]
    BY <1>1, <1>2 DEF PspCharges, Reqs, PayRows
  <2>2. \A q \in Requests : req'[q] = req[q] \/ req'[q].pc = "record"
    BY <1>1, <2>1 DEF Reqs
  <2>. QED  BY <1>1, <1>2, <2>1, <2>2 DEF PspCharges, PayRows
<1>3. CASE PspCaptures(r) \/ PspTakesNothing(r)
  <2>1. req' = [req EXCEPT ![r] = [req[r] EXCEPT !.pc = "captured"]]
    BY <1>1, <1>3 DEF PspCaptures, PspTakesNothing, Reqs
  <2>2. \A q \in Requests : req'[q] = req[q] \/ req'[q].pc = "captured"
    BY <1>1, <2>1 DEF Reqs
  <2>. QED  BY <1>1, <1>3, <2>2 DEF PspCaptures, PspTakesNothing, PayRows
<1>4. ASSUME Done(r)  PROVE \A q \in Requests : req'[q] = req[q] \/ req'[q].pc = "idle"
  BY <1>4, DoneEffect DEF IInv, Moves
<1>5. CASE TenderCommit(r)
  BY <1>1, <1>4, <1>5 DEF TenderCommit, PayRows
<1>6. CASE CaptureCommit(r)
  BY <1>1, <1>4, <1>6 DEF CaptureCommit, PayRows
<1>7. CASE VoidCommit(r) \/ SettleCommit(r)
  BY <1>1, <1>4, <1>7 DEF VoidCommit, SettleCommit, PayRows
<1>. QED  BY <1>2, <1>3, <1>5, <1>6, <1>7

\* A step of a request that only reads puts no refund past the gate, but for refund.
LEMMA ReadFrame ==
  ASSUME IInv, NEW r \in Requests,
         TenderRead(r) \/ CaptureRead(r) \/ VoidRead(r) \/ SettleRead(r) \/ RejectRead(r)
           \/ ReturnRefund(r) \/ ApproveRead(r) \/ TenderInsert(r) \/ Abort(r)
  PROVE  /\ UNCHANGED <<pay, ask>>
         /\ \A q \in Requests :
              req'[q] = req[q] \/ req'[q].pc \notin {"gate", "lock", "write"} \/ req'[q].route # "direct"
<1>1. req \in [Requests -> Reqs] /\ TypeOK
  BY DEF IInv, TypeOK
<1>2. ASSUME NEW a, Start(r, a), a.pc \notin {"gate", "lock", "write"} \/ a.route # "direct"
      PROVE  \A q \in Requests :
               req'[q] = req[q] \/ req'[q].pc \notin {"gate", "lock", "write"} \/ req'[q].route # "direct"
  BY <1>1, <1>2, StartEffect
<1>3. ASSUME Done(r)  PROVE \A q \in Requests : req'[q] = req[q] \/ req'[q].pc = "idle"
  BY <1>1, <1>3, DoneEffect DEF Moves
<1>4. CASE TenderRead(r)
  <2>1. PICK k \in Keys \cup {None} : Start(r, [Idle EXCEPT !.pc = "insert", !.key = k])
    BY <1>4 DEF TenderRead
  <2>2. [Idle EXCEPT !.pc = "insert", !.key = k].pc = "insert"
    BY DEF Idle
  <2>. QED  BY <1>2, <1>4, <2>1, <2>2 DEF TenderRead
<1>5. CASE CaptureRead(r)
  <2>1. PICK p \in Rows :
          Start(r, [Idle EXCEPT !.pc = "capture", !.pay = p, !.amount = pay[p].tip])
    BY <1>5 DEF CaptureRead
  <2>2. [Idle EXCEPT !.pc = "capture", !.pay = p, !.amount = pay[p].tip].pc = "capture"
    BY DEF Idle
  <2>. QED  BY <1>2, <1>5, <2>1, <2>2 DEF CaptureRead
<1>6. CASE VoidRead(r)
  <2>1. PICK p \in Rows :
          Start(r, [Idle EXCEPT !.pc = "void", !.pay = p, !.result = pay[p].status])
    BY <1>6 DEF VoidRead
  <2>2. [Idle EXCEPT !.pc = "void", !.pay = p, !.result = pay[p].status].pc = "void"
    BY DEF Idle
  <2>. QED  BY <1>2, <1>6, <2>1, <2>2 DEF VoidRead
<1>7. CASE SettleRead(r)
  <2>1. PICK p \in Rows : Start(r, [Idle EXCEPT !.pc = "settle", !.pay = p])
    BY <1>7 DEF SettleRead
  <2>2. [Idle EXCEPT !.pc = "settle", !.pay = p].pc = "settle"
    BY DEF Idle
  <2>. QED  BY <1>2, <1>7, <2>1, <2>2 DEF SettleRead
<1>8. CASE RejectRead(r)
  <2>1. PICK i \in Asks : Start(r, [Idle EXCEPT !.pc = "reject", !.ask = i])
    BY <1>8 DEF RejectRead
  <2>2. [Idle EXCEPT !.pc = "reject", !.ask = i].pc = "reject"
    BY DEF Idle
  <2>. QED  BY <1>2, <1>8, <2>1, <2>2 DEF RejectRead
<1>9. CASE ReturnRefund(r)
  <2>1. PICK p \in Rows, x \in 1 .. Amount : Start(r, ToLock(p, x, "return", None))
    BY <1>9 DEF ReturnRefund
  <2>. QED  BY <1>2, <1>9, <2>1, ToLockFields DEF ReturnRefund
<1>10. CASE ApproveRead(r)
  <2>1. PICK i \in Asks : Start(r, ToLock(ask[i].pay, ask[i].amount, "approval", i))
    BY <1>10 DEF ApproveRead
  <2>. QED  BY <1>2, <1>10, <2>1, ToLockFields DEF ApproveRead
<1>11. CASE Abort(r)
  BY <1>3, <1>11 DEF Abort
<1>12. CASE TenderInsert(r)
  <2>1. CASE Done(r)
    BY <1>3, <1>12, <2>1 DEF TenderInsert
  <2>2. CASE ~Done(r)
    <3>1. PICK p : req' = [req EXCEPT ![r] = [req[r] EXCEPT !.pc = "charge", !.pay = p]]
      BY <1>1, <1>12, <2>2 DEF TenderInsert, Reqs
    <3>2. \A q \in Requests : req'[q] = req[q] \/ req'[q].pc = "charge"
      BY <1>1, <3>1 DEF Reqs
    <3>. QED  BY <1>12, <3>2 DEF TenderInsert
  <2>. QED  BY <2>1, <2>2
<1>. QED  BY <1>4, <1>5, <1>6, <1>7, <1>8, <1>9, <1>10, <1>11, <1>12

LEMMA InitLimits == Init => AsksLimit /\ DirectLimit
<1>. SUFFICES ASSUME Init PROVE AsksLimit /\ DirectLimit
  OBVIOUS
<1>1. AsksLimit
  <2>1. {i \in Asks : ask[i].status # "none"} = {}
    BY DEF Init, NoAsk
  <2>2. ASSUME NEW p \in Pays  PROVE PendingAmount(p) <= Amount
    <3>1. Waiting(p) = {}
      BY DEF Init, NoAsk, Waiting
    <3>. QED  BY <3>1, SumEmpty, AmountAssumption DEF PendingAmount
  <2>. QED  BY <2>1, <2>2, FS_EmptySet DEF AsksLimit, PendingWithinPayment
<1>2. ASSUME NEW p \in Pays
      PROVE  /\ \A r \in Direct(p) : req[r].amount < Threshold
             /\ pay[p].unapproved <= pay[p].refunded
             /\ pay[p].unapproved + DirectAmount(p) <= Cardinality(Requests) * (Threshold - 1)
  <2>1. Direct(p) = {}
    BY DEF Init, Idle, Direct
  <2>2. DirectAmount(p) = 0
    BY <2>1, SumEmpty DEF DirectAmount
  <2>3. pay[p].unapproved = 0 /\ pay[p].refunded = 0
    BY DEF Init, NoPay
  <2>4. Cardinality(Requests) \in Nat /\ Threshold - 1 \in Nat
    BY RequestsAssumption, ThresholdAssumption, FS_CardinalityType
  <2>5. 0 <= Cardinality(Requests) * (Threshold - 1)
    BY <2>4
  <2>. QED  BY <2>1, <2>2, <2>3, <2>5
<1>. QED  BY <1>1, <1>2 DEF DirectLimit

LEMMA NextLimits ==
  IInv /\ IInv' /\ AsksLimit /\ DirectLimit /\ [Next]_vars => AsksLimit' /\ DirectLimit'
<1>. SUFFICES ASSUME IInv, IInv', AsksLimit, DirectLimit, [Next]_vars
              PROVE  AsksLimit' /\ DirectLimit'
  OBVIOUS
<1>1. TypeOK /\ TypeOK'
  BY DEF IInv
<1>2. ASSUME ask' = ask  PROVE AsksLimit'
  BY <1>1, <1>2, AsksFrame
<1>3. ASSUME NEW r \in Requests,
             PspCharges(r) \/ TenderCommit(r) \/ PspCaptures(r) \/ PspTakesNothing(r)
               \/ CaptureCommit(r) \/ VoidCommit(r) \/ SettleCommit(r)
      PROVE  AsksLimit' /\ DirectLimit'
  BY <1>2, <1>3, MoneyFrame, QuietDirect
<1>4. ASSUME NEW r \in Requests,
             TenderRead(r) \/ CaptureRead(r) \/ VoidRead(r) \/ SettleRead(r) \/ RejectRead(r)
               \/ ReturnRefund(r) \/ ApproveRead(r) \/ TenderInsert(r) \/ Abort(r)
      PROVE  AsksLimit' /\ DirectLimit'
  BY <1>2, <1>4, ReadFrame, QuietDirect
<1>5. ASSUME NEW r \in Requests, Refund(r) \/ Gate(r)  PROVE AsksLimit' /\ DirectLimit'
  BY <1>2, <1>5, GateEnter, GateLeave DEF Refund, Gate
<1>6. ASSUME NEW r \in Requests, LockRow(r)  PROVE AsksLimit' /\ DirectLimit'
  <2>1. req[r].pc = "lock" /\ req[r] \in Reqs /\ UNCHANGED <<pay, ask>>
        /\ req' = [req EXCEPT ![r] = [req[r] EXCEPT !.pc = "write", !.prior = pay[req[r].pay].refunded]]
    BY <1>1, <1>6 DEF LockRow, TypeOK, Reqs
  <2>2. /\ req'[r].route = req[r].route /\ req'[r].pay = req[r].pay /\ req'[r].amount = req[r].amount
        /\ \A q \in Requests \ {r} : req'[q] = req[q]
    BY <1>1, <2>1 DEF TypeOK, Reqs
  <2>3. DirectLimit'
    BY <2>1, <2>2, QuietDirect
  <2>. QED  BY <1>2, <2>1, <2>3
<1>7. ASSUME NEW r \in Requests, RefundCommit(r)  PROVE AsksLimit' /\ DirectLimit'
  <2>1. \A i \in Asks :
          \/ ask'[i] = ask[i]
          \/ ask[i].status # "none" /\ ask'[i].status = "Approved"
    BY <1>7, ApprovedEffect DEF IInv, ApprovalsFit, Approving
  <2>2. AsksLimit'
    BY <1>1, <2>1, AsksFrame
  <2>. QED  BY <1>7, <2>2, WriteLimit
<1>8. ASSUME NEW r \in Requests, Done(r), UNCHANGED pay  PROVE DirectLimit'
  <2>1. \A q \in Requests : req'[q] = req[q] \/ req'[q].pc \notin {"gate", "lock", "write"}
    BY <1>1, <1>8, DoneEffect DEF Moves
  <2>. QED  BY <1>8, <2>1, QuietDirect
<1>9. ASSUME NEW r \in Requests, ParkCommit(r)  PROVE AsksLimit' /\ DirectLimit'
  BY <1>8, <1>9, ParkLimit DEF ParkCommit
<1>10. ASSUME NEW r \in Requests, RejectCommit(r)  PROVE AsksLimit' /\ DirectLimit'
  <2>1. req[r].ask \in Asks /\ ask[req[r].ask].status # "none"
    BY <1>10 DEF RejectCommit, IInv, ApprovalsFit
  <2>2. \A i \in Asks :
          \/ ask'[i] = ask[i]
          \/ ask[i].status # "none" /\ ask'[i].status = "Rejected"
    BY <1>1, <1>10, <2>1 DEF RejectCommit, TypeOK, AskRows
  <2>3. AsksLimit'
    BY <1>1, <2>2, AsksFrame
  <2>. QED  BY <1>8, <1>10, <2>3 DEF RejectCommit
<1>11. ASSUME NEW p \in Pays, NEW t \in 0 .. MaxTip, AdjustTip(p, t)  PROVE AsksLimit' /\ DirectLimit'
  <2>1. \A s \in Pays : pay'[s].unapproved = pay[s].unapproved /\ pay'[s].refunded = pay[s].refunded
    BY <1>1, <1>11 DEF AdjustTip, TypeOK, PayRows
  <2>2. UNCHANGED <<ask, req>>
    BY <1>11 DEF AdjustTip
  <2>3. DirectLimit'
    BY <2>1, <2>2, QuietDirect
  <2>. QED  BY <1>2, <2>2, <2>3
<1>12. CASE UNCHANGED vars
  <2>1. UNCHANGED <<pay, ask, req>>
    BY <1>12 DEF vars
  <2>2. DirectLimit'
    BY <2>1, QuietDirect
  <2>. QED  BY <1>2, <2>1, <2>2
<1>. QED  BY <1>3, <1>4, <1>5, <1>6, <1>7, <1>9, <1>10, <1>11, <1>12
          DEF Next, TenderStep, CardStep, RefundStep

\* AsksLimit and DirectLimit hold in every reachable state of the payments.
THEOREM LimitsInvariance == Spec => [](AsksLimit /\ DirectLimit)
BY Invariance, InitLimits, NextLimits, PTL DEF Spec

\* requestRefund counts what already waits under the row lock: the requests that wait
\* for approval never exceed the payment together.
THEOREM PendingBounded == Spec => []PendingWithinPayment
<1>1. AsksLimit => PendingWithinPayment
  BY DEF AsksLimit
<1>. QED  BY <1>1, LimitsInvariance, PTL

\* refund gates on a running total it reads without a lock: what is refunded without an
\* approval can pass the threshold only as far as requests in flight together let it.
THEOREM UnapprovedWithinGate == Spec => []UnapprovedBounded
<1>1. ASSUME TypeOK, DirectLimit  PROVE UnapprovedBounded
  <2>. SUFFICES ASSUME NEW p \in Pays
                PROVE  pay[p].unapproved <= Cardinality(Requests) * (Threshold - 1)
    BY DEF UnapprovedBounded
  <2>1. DirectAmount(p) \in Nat
    BY <1>1, DirectAmounts DEF DirectAmount
  <2>2. /\ pay[p].unapproved \in Nat /\ Cardinality(Requests) \in Nat /\ Threshold - 1 \in Nat
        /\ pay[p].unapproved + DirectAmount(p) <= Cardinality(Requests) * (Threshold - 1)
    BY <1>1, DirectAmounts DEF DirectLimit
  <2>3. PICK b : b = Cardinality(Requests) * (Threshold - 1) /\ b \in Int
    BY <2>2
  <2>. QED  BY <2>1, <2>2, <2>3
<1>. QED  BY <1>1, LimitsInvariance, TypeCorrect, PTL
=============================================================================
