------------------------ MODULE GeneralLedger_proofs ------------------------
(***************************************************************************)
(* Safety of the general ledger, for any number of entries, periods and    *)
(* concurrent requests.  IInv of GeneralLedger is inductive.  A step moves *)
(* one request and does one of three things to the books: nothing, insert  *)
(* fresh rows under free keys, or decide one entry.                        *)
(***************************************************************************)
EXTENDS GeneralLedger, FiniteSetTheorems, TLAPS

\* What no step may undo: a row keeps its header and how it was born, a Posted
\* one its status.
Persist ==
  \A e \in Entries :
    /\ status[e] # "none" => status'[e] # "none" /\ hdr'[e] = hdr[e] /\ posts'[e] = posts[e]
    /\ status[e] = "Posted" => status'[e] = "Posted"
    /\ status[e] \notin {"none", "Draft"} => status'[e] \notin {"none", "Draft"}

\* The invariants that speak of the books only.
Books ==
  /\ LedgerTyped
  /\ SnapshotFollowsAudit
  /\ OneEntryPerKey
  /\ ReversedExactlyOnce
  /\ DraftsAreBusiness
  /\ BornOrApproved

\* The invariants that speak of the requests.
RequestsOK ==
  /\ rpc \in [Requests -> Phases]
  /\ DOMAIN arg = Requests
  /\ \A r \in Requests : ArgTyped(r) /\ ReadHolds(r)

\* The fresh rows of new may be inserted together.
Insertable(new, born) ==
  /\ DOMAIN new \subseteq Free
  /\ \A e \in DOMAIN new : new[e] \in Headers /\ ~Taken(new[e].key)
  /\ \A e, f \in DOMAIN new : new[e].key = new[f].key /\ new[e].key.ref # 0 => e = f
  /\ born \in {"Draft", "Posted"}
  /\ born = "Draft" => \A e \in DOMAIN new : new[e].key.source \in Business

-----------------------------------------------------------------------------
(* A request moves.                                                        *)

\* Goto changes the request it names, and no other.
LEMMA GotoMoves ==
  ASSUME rpc \in [Requests -> Phases], DOMAIN arg = Requests,
         NEW r \in Requests, NEW pc \in Phases, NEW a, Goto(r, pc, a)
  PROVE  /\ rpc' \in [Requests -> Phases]
         /\ DOMAIN arg' = Requests
         /\ rpc'[r] = pc /\ arg'[r] = a
         /\ \A q \in Requests \ {r} : rpc'[q] = rpc[q] /\ arg'[q] = arg[q]
BY DEF Goto

\* A header made of a key and a period is one.
LEMMA HeaderTyped ==
  ASSUME NEW k \in Keys, NEW p \in Periods
  PROVE  /\ Header(k, p) \in Headers
         /\ Header(k, p).key = k /\ Header(k, p).period = p
BY DEF Header, Headers

\* The keys that requests post under.
LEMMA KeysTyped ==
  /\ ManualKey \in Keys /\ ManualKey.source = "Manual" /\ ManualKey.ref = 0
  /\ CloseKey \in Keys /\ CloseKey.source = "CLOSE" /\ CloseKey.ref = 1
  /\ \A e \in Entries : RevKey(e) \in Keys /\ RevKey(e).source = "REVERSAL" /\ RevKey(e).ref = e
  /\ \A n \in Refs : LoyaltyKey(n) \in Keys /\ LoyaltyKey(n).source = "LOYALTY" /\ LoyaltyKey(n).ref = n
BY EntriesAssumption, RefsAssumption
   DEF ManualKey, CloseKey, RevKey, LoyaltyKey, Keys, Sources

-----------------------------------------------------------------------------
(* Fresh rows.                                                             *)

\* What an insert of fresh rows does to each entry.
LEMMA InsertRows ==
  ASSUME LedgerTyped, SnapshotFollowsAudit, NEW new, NEW born,
         Insertable(new, born), Insert(new, born), approvals' = approvals,
         NEW e \in Entries
  PROVE  /\ e \in DOMAIN new =>
              /\ status[e] = "none" /\ status'[e] = born /\ hdr'[e] = new[e]
              /\ applied[e] = 0 /\ posts[e] = 0 /\ approvals[e] = 0
              /\ applied'[e] = (IF born = "Posted" THEN 1 ELSE 0)
              /\ posts'[e] = applied'[e]
         /\ e \notin DOMAIN new =>
              /\ status'[e] = status[e] /\ hdr'[e] = hdr[e]
              /\ applied'[e] = applied[e] /\ posts'[e] = posts[e]
<1>1. CASE e \in DOMAIN new
  <2>1. status[e] = "none"
    BY <1>1 DEF Insertable, Free
  <2>2. applied[e] = 0 /\ posts[e] = 0 /\ approvals[e] = 0
    <3>1. applied[e] \in Nat /\ posts[e] \in Nat /\ approvals[e] \in Nat
      BY DEF LedgerTyped
    <3>2. applied[e] = posts[e] + approvals[e] /\ ~(applied[e] > 0)
      BY <2>1 DEF SnapshotFollowsAudit
    <3>. QED  BY <3>1, <3>2
  <2>. QED  BY <1>1, <2>1, <2>2 DEF Insert, Insertable
<1>2. CASE e \notin DOMAIN new
  BY <1>2 DEF Insert
<1>. QED  BY <1>1, <1>2

\* An insert of fresh rows keeps types, keys and the snapshot.
LEMMA InsertKeeps ==
  ASSUME LedgerTyped, SnapshotFollowsAudit, OneEntryPerKey, DraftsAreBusiness,
         BornOrApproved, NEW new, NEW born, Insertable(new, born), Insert(new, born),
         approvals' = approvals
  PROVE  /\ status' \in [Entries -> {"none", "Draft", "Posted", "Voided"}]
         /\ applied' \in [Entries -> Nat] /\ posts' \in [Entries -> Nat]
         /\ \A e \in Entries : status'[e] # "none" => hdr'[e] \in Headers
         /\ SnapshotFollowsAudit' /\ OneEntryPerKey' /\ DraftsAreBusiness'
         /\ BornOrApproved' /\ Persist
<1>1. /\ status' \in [Entries -> {"none", "Draft", "Posted", "Voided"}]
      /\ applied' \in [Entries -> Nat] /\ posts' \in [Entries -> Nat]
  BY DEF Insert, Insertable, LedgerTyped
<1>2. \A e \in Entries : status'[e] # "none" => hdr'[e] \in Headers
  BY InsertRows DEF Insertable, LedgerTyped
<1>3. SnapshotFollowsAudit'
  <2>. SUFFICES ASSUME NEW e \in Entries
                PROVE  /\ applied'[e] = posts'[e] + approvals'[e]
                       /\ status'[e] = "Posted" <=> applied'[e] > 0
    BY DEF SnapshotFollowsAudit
  <2>1. CASE e \in DOMAIN new
    BY <2>1, InsertRows DEF Insertable
  <2>2. CASE e \notin DOMAIN new
    BY <2>2, InsertRows DEF SnapshotFollowsAudit
  <2>. QED  BY <2>1, <2>2
<1>4. OneEntryPerKey'
  <2>. SUFFICES ASSUME NEW e \in Entries, NEW f \in Entries,
                       status'[e] # "none", status'[f] # "none",
                       hdr'[e].key = hdr'[f].key, hdr'[e].key.ref # 0
                PROVE  e = f
    BY DEF OneEntryPerKey
  <2>1. CASE e \in DOMAIN new /\ f \in DOMAIN new
    BY <2>1, InsertRows DEF Insertable
  <2>2. CASE e \notin DOMAIN new /\ f \notin DOMAIN new
    BY <2>2, InsertRows DEF OneEntryPerKey
  <2>3. CASE e \in DOMAIN new /\ f \notin DOMAIN new
    BY <2>3, InsertRows DEF Insertable, Taken
  <2>4. CASE e \notin DOMAIN new /\ f \in DOMAIN new
    BY <2>4, InsertRows DEF Insertable, Taken
  <2>. QED  BY <2>1, <2>2, <2>3, <2>4
<1>5. DraftsAreBusiness'
  BY InsertRows DEF DraftsAreBusiness, Insertable
<1>6. BornOrApproved'
  <2>. SUFFICES ASSUME NEW e \in Entries
                PROVE  posts'[e] <= 1 /\ (posts'[e] = 0 \/ approvals'[e] = 0)
    BY DEF BornOrApproved
  <2>1. CASE e \in DOMAIN new
    BY <2>1, InsertRows
  <2>2. CASE e \notin DOMAIN new
    BY <2>2, InsertRows DEF BornOrApproved
  <2>. QED  BY <2>1, <2>2
<1>7. Persist
  BY InsertRows DEF Persist, Insertable, Free
<1>. QED  BY <1>1, <1>2, <1>3, <1>4, <1>5, <1>6, <1>7

\* Rows that are no contra entries disturb no reversal.
LEMMA InsertNoContra ==
  ASSUME LedgerTyped, SnapshotFollowsAudit, ReversedExactlyOnce,
         NEW new, NEW born, Insertable(new, born), Insert(new, born),
         approvals' = approvals, isReversed' = isReversed,
         \A e \in DOMAIN new : new[e].key.source # "REVERSAL"
  PROVE  ReversedExactlyOnce'
<1>. SUFFICES ASSUME NEW e \in Entries
              PROVE  \/ ~isReversed[e] /\ Contras(e)' = {}
                     \/ /\ isReversed[e]
                        /\ \E c \in Entries :
                             Contras(e)' = {c} /\ status'[c] = "Posted" /\ applied'[c] = 1
  BY DEF ReversedExactlyOnce
<1>1. Contras(e)' = Contras(e)
  BY InsertRows, KeysTyped DEF Contras
<1>2. \A c \in Contras(e) : status'[c] = status[c] /\ applied'[c] = applied[c]
  BY InsertRows DEF Contras, Insertable, Free
<1>. QED  BY <1>1, <1>2 DEF ReversedExactlyOnce

\* One row, or none when its key is taken.
LEMMA InsertOneInsertable ==
  ASSUME NEW h \in Headers, NEW born \in {"Draft", "Posted"},
         born = "Draft" => h.key.source \in Business,
         InsertOrDedupe(h, born)
  PROVE  \/ Taken(h.key) /\ UNCHANGED <<status, hdr, applied, posts>>
         \/ \E e \in Free :
              /\ ~Taken(h.key)
              /\ Insertable(One(e, h), born) /\ Insert(One(e, h), born)
              /\ DOMAIN One(e, h) = {e} /\ One(e, h)[e] = h
BY DEF InsertOrDedupe, Next1, One, Insertable

-----------------------------------------------------------------------------
(* The books, whoever writes them.                                         *)

\* Nothing is written to the books.
LEMMA BooksUnchanged ==
  ASSUME Books, UNCHANGED bookVars, period' \in [Periods -> {"Open", "Closed", "Locked"}]
  PROVE  Books' /\ Persist
BY DEF Books, bookVars, LedgerTyped, SnapshotFollowsAudit, OneEntryPerKey,
       ReversedExactlyOnce, DraftsAreBusiness, BornOrApproved, Contras, Taken, Persist

\* Fresh rows that are no contra entries.
LEMMA BooksInserted ==
  ASSUME Books, NEW new, NEW born, Insertable(new, born), Insert(new, born),
         \A e \in DOMAIN new : new[e].key.source # "REVERSAL",
         UNCHANGED <<isReversed, approvals, reversals>>,
         period' \in [Periods -> {"Open", "Closed", "Locked"}]
  PROVE  Books' /\ Persist
<1>1. LedgerTyped'
  BY InsertKeeps DEF Books, LedgerTyped
<1>2. SnapshotFollowsAudit' /\ OneEntryPerKey' /\ DraftsAreBusiness' /\ BornOrApproved' /\ Persist
  BY InsertKeeps DEF Books
<1>3. ReversedExactlyOnce'
  BY InsertNoContra DEF Books
<1>. QED  BY <1>1, <1>2, <1>3 DEF Books

\* postEntry of one header that is no contra entry, or its dedupe.
LEMMA BooksPosted ==
  ASSUME Books, NEW h \in Headers, NEW born \in {"Draft", "Posted"},
         born = "Draft" => h.key.source \in Business, h.key.source # "REVERSAL",
         InsertOrDedupe(h, born), UNCHANGED <<isReversed, approvals, reversals>>,
         period' \in [Periods -> {"Open", "Closed", "Locked"}]
  PROVE  Books' /\ Persist
<1>1. CASE UNCHANGED <<status, hdr, applied, posts>>
  BY <1>1, BooksUnchanged DEF bookVars
<1>2. CASE \E e \in Free :
             /\ Insertable(One(e, h), born) /\ Insert(One(e, h), born)
             /\ DOMAIN One(e, h) = {e} /\ One(e, h)[e] = h
  BY <1>2, BooksInserted
<1>. QED  BY <1>1, <1>2, InsertOneInsertable

\* An entry that is no contra entry becomes Posted and enters the snapshot once more.
LEMMA BooksApproved ==
  ASSUME Books, NEW e \in Entries,
         status[e] # "none", posts[e] = 0, hdr[e].key.source \in Business,
         status' = [status EXCEPT ![e] = "Posted"],
         approvals' = [approvals EXCEPT ![e] = @ + 1],
         applied' = [applied EXCEPT ![e] = @ + 1],
         UNCHANGED <<hdr, isReversed, posts, reversals, period>>
  PROVE  Books' /\ Persist
<1>1. LedgerTyped' /\ Persist /\ OneEntryPerKey' /\ DraftsAreBusiness'
  BY DEF Books, LedgerTyped, OneEntryPerKey, DraftsAreBusiness, Persist
<1>2. SnapshotFollowsAudit'
  <2>. SUFFICES ASSUME NEW f \in Entries
                PROVE  /\ applied'[f] = posts'[f] + approvals'[f]
                       /\ status'[f] = "Posted" <=> applied'[f] > 0
    BY DEF SnapshotFollowsAudit
  <2>1. /\ applied[f] \in Nat /\ posts[f] \in Nat /\ approvals[f] \in Nat
        /\ applied[f] = posts[f] + approvals[f]
        /\ status[f] = "Posted" <=> applied[f] > 0
    BY DEF Books, LedgerTyped, SnapshotFollowsAudit
  <2>2. CASE f = e
    <3>1. /\ status'[f] = "Posted" /\ applied'[f] = applied[f] + 1
          /\ approvals'[f] = approvals[f] + 1 /\ posts'[f] = posts[f]
      BY <2>2 DEF Books, LedgerTyped
    <3>. QED  BY <2>1, <3>1
  <2>3. CASE f # e
    BY <2>1, <2>3 DEF Books, LedgerTyped
  <2>. QED  BY <2>2, <2>3
<1>3. ReversedExactlyOnce'
  <2>. SUFFICES ASSUME NEW f \in Entries
                PROVE  \/ ~isReversed[f] /\ Contras(f)' = {}
                       \/ /\ isReversed[f]
                          /\ \E c \in Entries :
                               Contras(f)' = {c} /\ status'[c] = "Posted" /\ applied'[c] = 1
    BY DEF ReversedExactlyOnce
  <2>1. Contras(f)' = Contras(f)
    BY DEF Contras, Books, LedgerTyped
  <2>2. \A c \in Contras(f) : status'[c] = status[c] /\ applied'[c] = applied[c]
    BY KeysTyped DEF Contras, Business, Books, LedgerTyped
  <2>. QED  BY <2>1, <2>2 DEF ReversedExactlyOnce, Books
<1>4. BornOrApproved'
  BY DEF Books, LedgerTyped, BornOrApproved
<1>. QED  BY <1>1, <1>2, <1>3, <1>4 DEF Books

\* An entry that is not Posted is voided.
LEMMA BooksRejected ==
  ASSUME Books, NEW e \in Entries, status[e] # "none", status[e] # "Posted",
         status' = [status EXCEPT ![e] = "Voided"],
         UNCHANGED <<hdr, isReversed, applied, posts, approvals, reversals, period>>
  PROVE  Books' /\ Persist
<1>1. LedgerTyped' /\ Persist /\ OneEntryPerKey' /\ DraftsAreBusiness'
  BY DEF Books, LedgerTyped, OneEntryPerKey, DraftsAreBusiness, Persist
<1>2. SnapshotFollowsAudit'
  BY DEF Books, LedgerTyped, SnapshotFollowsAudit
<1>3. ReversedExactlyOnce'
  <2>. SUFFICES ASSUME NEW f \in Entries
                PROVE  \/ ~isReversed[f] /\ Contras(f)' = {}
                       \/ /\ isReversed[f]
                          /\ \E c \in Entries :
                               Contras(f)' = {c} /\ status'[c] = "Posted" /\ applied'[c] = 1
    BY DEF ReversedExactlyOnce
  <2>1. Contras(f)' = Contras(f)
    BY DEF Contras, Books, LedgerTyped
  <2>2. \A c \in Contras(f) : status[c] = "Posted" => status'[c] = "Posted"
    BY DEF Books, LedgerTyped, Contras
  <2>. QED  BY <2>1, <2>2 DEF ReversedExactlyOnce, Books
<1>4. BornOrApproved'
  BY DEF Books, BornOrApproved
<1>. QED  BY <1>1, <1>2, <1>3, <1>4 DEF Books

\* An entry is reversed: its contra entry is inserted Posted, or is there already.
LEMMA BooksReversed ==
  ASSUME Books, NEW e \in Entries, NEW h \in Headers, h.key = RevKey(e),
         InsertOrDedupe(h, "Posted"),
         isReversed' = [isReversed EXCEPT ![e] = TRUE],
         reversals' = [reversals EXCEPT ![e] = @ + 1],
         UNCHANGED <<approvals, period>>
  PROVE  Books' /\ Persist
<1>1. isReversed' \in [Entries -> BOOLEAN] /\ reversals' \in [Entries -> Nat]
  BY DEF Books, LedgerTyped
<1>2. CASE Taken(h.key) /\ UNCHANGED <<status, hdr, applied, posts>>
  <2>1. /\ LedgerTyped' /\ Persist /\ OneEntryPerKey' /\ DraftsAreBusiness'
        /\ SnapshotFollowsAudit' /\ BornOrApproved'
    BY <1>1, <1>2 DEF Books, LedgerTyped, OneEntryPerKey, DraftsAreBusiness,
                      SnapshotFollowsAudit, BornOrApproved, Persist
  <2>2. Contras(e) # {}
    BY <1>2 DEF Taken, Contras
  <2>3. isReversed[e]
    BY <2>2 DEF Books, ReversedExactlyOnce
  <2>4. isReversed' = isReversed
    BY <2>3 DEF Books, LedgerTyped
  <2>5. ReversedExactlyOnce'
    BY <1>2, <2>4 DEF Books, ReversedExactlyOnce, Contras
  <2>. QED  BY <2>1, <2>5 DEF Books
<1>3. ASSUME NEW x \in Free, ~Taken(h.key),
             Insertable(One(x, h), "Posted"), Insert(One(x, h), "Posted"),
             DOMAIN One(x, h) = {x}, One(x, h)[x] = h
      PROVE  Books' /\ Persist
  <2>1. LedgerTyped'
    BY <1>1, <1>3, InsertKeeps DEF Books, LedgerTyped
  <2>2. SnapshotFollowsAudit' /\ OneEntryPerKey' /\ DraftsAreBusiness' /\ BornOrApproved' /\ Persist
    BY <1>3, InsertKeeps DEF Books
  <2>3. x \in Entries /\ status[x] = "none"
    BY DEF Free
  <2>4. /\ status'[x] = "Posted" /\ hdr'[x] = h /\ applied'[x] = 1
        /\ \A c \in Entries \ {x} :
             status'[c] = status[c] /\ hdr'[c] = hdr[c] /\ applied'[c] = applied[c]
    BY <1>3, <2>3, InsertRows DEF Books
  <2>5. ReversedExactlyOnce'
    <3>. SUFFICES ASSUME NEW f \in Entries
                  PROVE  \/ ~isReversed'[f] /\ Contras(f)' = {}
                         \/ /\ isReversed'[f]
                            /\ \E c \in Entries :
                                 Contras(f)' = {c} /\ status'[c] = "Posted" /\ applied'[c] = 1
      BY DEF ReversedExactlyOnce
    <3>1. CASE f = e
      <4>1. Contras(e) = {}
        <5>1. h.key.ref # 0
          BY KeysTyped, EntriesAssumption
        <5>. QED  BY <1>3, <5>1 DEF Taken, Contras
      <4>2. Contras(e)' = {x}
        BY <2>3, <2>4, <4>1 DEF Contras, RevKey
      <4>3. isReversed'[e]
        BY DEF Books, LedgerTyped
      <4>. QED  BY <2>3, <2>4, <3>1, <4>2, <4>3
    <3>2. CASE f # e
      <4>1. Contras(f)' = Contras(f)
        BY <2>3, <2>4, <3>2, KeysTyped DEF Contras
      <4>2. x \notin Contras(f)
        BY <2>3 DEF Contras
      <4>3. isReversed'[f] = isReversed[f]
        BY <3>2 DEF Books, LedgerTyped
      <4>4. \A c \in Contras(f) : status'[c] = status[c] /\ applied'[c] = applied[c]
        BY <2>4, <4>2 DEF Contras
      <4>5. \/ ~isReversed[f] /\ Contras(f) = {}
            \/ /\ isReversed[f]
               /\ \E c \in Entries :
                    Contras(f) = {c} /\ status[c] = "Posted" /\ applied[c] = 1
        BY DEF Books, ReversedExactlyOnce
      <4>. QED  BY <4>1, <4>3, <4>4, <4>5
    <3>. QED  BY <3>1, <3>2
  <2>. QED  BY <2>1, <2>2, <2>5 DEF Books
<1>. QED  BY <1>2, <1>3, InsertOneInsertable

-----------------------------------------------------------------------------
(* The requests, whatever the books do.                                    *)

\* A request that does not move still holds what it has read.
LEMMA OthersHold ==
  ASSUME LedgerTyped, RequestsOK, Persist, NEW q \in Requests,
         rpc'[q] = rpc[q], arg'[q] = arg[q]
  PROVE  ArgTyped(q)' /\ ReadHolds(q)'
<1>1. ArgTyped(q)'
  BY DEF RequestsOK, ArgTyped
<1>2. ReadHolds(q)'
  BY DEF RequestsOK, ArgTyped, ReadHolds, Persist, Deciding
<1>. QED  BY <1>1, <1>2

\* Only the request that moves is to be looked at.
LEMMA RequestsMove ==
  ASSUME LedgerTyped, RequestsOK, Persist,
         NEW r \in Requests, NEW pc \in Phases, NEW a, Goto(r, pc, a),
         rpc'[r] = pc /\ arg'[r] = a => ArgTyped(r)' /\ ReadHolds(r)'
  PROVE  RequestsOK'
<1>1. /\ rpc' \in [Requests -> Phases] /\ DOMAIN arg' = Requests
      /\ ArgTyped(r)' /\ ReadHolds(r)'
      /\ \A q \in Requests \ {r} : rpc'[q] = rpc[q] /\ arg'[q] = arg[q]
  BY GotoMoves DEF RequestsOK
<1>2. \A q \in Requests \ {r} : ArgTyped(q)' /\ ReadHolds(q)'
  BY <1>1, OthersHold
<1>. QED  BY <1>1, <1>2 DEF RequestsOK

\* A request that has ended holds nothing.
LEMMA RequestsFinish ==
  ASSUME LedgerTyped, RequestsOK, Persist, NEW r \in Requests, Finish(r)
  PROVE  RequestsOK'
<1>1. rpc'[r] = "idle" => ArgTyped(r)' /\ ReadHolds(r)'
  BY DEF ArgTyped, ReadHolds, Deciding
<1>. QED  BY <1>1, RequestsMove DEF Finish, Phases

\* The actions that only read.
Reading(r) ==
  \/ PostGate(r) \/ ApproveRead(r) \/ ApproveGate(r) \/ RejectRead(r)
  \/ ReverseRead(r) \/ ReverseGate(r) \/ ClosePeriodRead(r) \/ CloseYearRead(r)
  \/ Abort(r)

\* A read leaves the books alone.
LEMMA ReadingKeepsBooks ==
  ASSUME Books, NEW r \in Requests, Reading(r)
  PROVE  UNCHANGED ledgerVars /\ Books' /\ Persist
<1>1. UNCHANGED ledgerVars
  BY DEF Reading, PostGate, ApproveRead, ApproveGate, RejectRead, ReverseRead,
         ReverseGate, ClosePeriodRead, CloseYearRead, Abort
<1>. QED  BY <1>1, BooksUnchanged DEF ledgerVars, bookVars, Books, LedgerTyped

\* What a request has just read holds.
LEMMA ReadingMoves ==
  ASSUME Books, RequestsOK, NEW r \in Requests, Reading(r)
  PROVE  RequestsOK'
<1>. USE ReadingKeepsBooks DEF Books
<1>1. CASE PostGate(r)
  <2>1. PICK p \in Periods, draft \in BOOLEAN,
             key \in {ManualKey} \cup [source : {"Subledger"}, ref : Refs] :
          Goto(r, "post", [hdr |-> Header(key, p), draft |-> draft])
    BY <1>1 DEF PostGate
  <2>2. key \in Keys /\ key.source \in Business
    BY KeysTyped, RefsAssumption DEF Keys, Sources, Business
  <2>3. Header(key, p) \in Headers /\ Header(key, p).key = key
    BY <2>2, HeaderTyped
  <2>4. rpc'[r] = "post" /\ arg'[r] = [hdr |-> Header(key, p), draft |-> draft]
          => ArgTyped(r)' /\ ReadHolds(r)'
    BY <2>2, <2>3 DEF ArgTyped, ReadHolds, Deciding
  <2>. QED  BY <2>1, <2>4, RequestsMove DEF Phases
<1>2. CASE ApproveRead(r) \/ RejectRead(r)
  <2>1. PICK e \in Entries, pc \in {"approveGate", "rejectWrite"} :
          status[e] = "Draft" /\ Goto(r, pc, [entry |-> e])
    BY <1>2 DEF ApproveRead, RejectRead
  <2>2. posts[e] = 0
    <3>1. applied[e] \in Nat /\ posts[e] \in Nat /\ approvals[e] \in Nat
      BY DEF LedgerTyped
    <3>2. applied[e] = posts[e] + approvals[e] /\ ~(applied[e] > 0)
      BY <2>1 DEF SnapshotFollowsAudit
    <3>. QED  BY <3>1, <3>2
  <2>3. rpc'[r] = pc /\ arg'[r] = [entry |-> e] => ArgTyped(r)' /\ ReadHolds(r)'
    BY <2>1, <2>2, <1>2 DEF ArgTyped, ReadHolds, Deciding, DraftsAreBusiness, Persist
  <2>. QED  BY <2>1, <2>3, RequestsMove DEF Phases
<1>3. CASE ApproveGate(r)
  <2>1. rpc[r] = "approveGate" /\ Goto(r, "approveWrite", arg[r])
    BY <1>3 DEF ApproveGate
  <2>2. rpc'[r] = "approveWrite" /\ arg'[r] = arg[r] => ArgTyped(r)' /\ ReadHolds(r)'
    BY <2>1, <1>3 DEF RequestsOK, ArgTyped, ReadHolds, Deciding, Persist
  <2>. QED  BY <2>1, <2>2, RequestsMove DEF Phases
<1>4. CASE ReverseRead(r)
  <2>1. PICK e \in Entries : status[e] = "Posted" /\ Goto(r, "revGate", [entry |-> e])
    BY <1>4 DEF ReverseRead
  <2>2. rpc'[r] = "revGate" /\ arg'[r] = [entry |-> e] => ArgTyped(r)' /\ ReadHolds(r)'
    BY <2>1, <1>4 DEF ArgTyped, ReadHolds, Deciding, Persist
  <2>. QED  BY <2>1, <2>2, RequestsMove DEF Phases
<1>5. CASE ReverseGate(r)
  <2>1. PICK p \in Periods :
          Goto(r, "revWrite", [entry |-> arg[r].entry, hdr |-> Header(RevKey(arg[r].entry), p)])
    BY <1>5 DEF ReverseGate
  <2>2. arg[r].entry \in Entries /\ status[arg[r].entry] = "Posted"
    BY <1>5 DEF ReverseGate, RequestsOK, ArgTyped, ReadHolds
  <2>3. /\ Header(RevKey(arg[r].entry), p) \in Headers
        /\ Header(RevKey(arg[r].entry), p).key = RevKey(arg[r].entry)
    BY <2>2, KeysTyped, HeaderTyped
  <2>4. status'[arg[r].entry] = "Posted"
    BY <2>2, <1>5 DEF Reading, Persist
  <2>. DEFINE a == [entry |-> arg[r].entry, hdr |-> Header(RevKey(arg[r].entry), p)]
  <2>5. rpc'[r] = "revWrite" /\ arg'[r] = a => ArgTyped(r)' /\ ReadHolds(r)'
    <3>. SUFFICES ASSUME rpc'[r] = "revWrite", arg'[r].entry = arg[r].entry,
                         arg'[r].hdr \in Headers, arg'[r].hdr.key = RevKey(arg[r].entry)
                  PROVE  ArgTyped(r)' /\ ReadHolds(r)'
      BY <2>3
    <3>1. ArgTyped(r)'
      BY <2>2 DEF ArgTyped, Deciding
    <3>2. ReadHolds(r)'
      BY <2>4 DEF ReadHolds, Deciding, RevKey
    <3>. QED  BY <3>1, <3>2
  <2>. QED  BY <2>1, <2>5, <1>5, RequestsMove DEF Phases, Reading
<1>6. CASE ClosePeriodRead(r)
  <2>1. PICK p \in Periods, accrue \in BOOLEAN, ref \in Refs :
          Goto(r, "closeWrite", [period |-> p, accrue |-> accrue, ref |-> ref])
    BY <1>6 DEF ClosePeriodRead
  <2>2. rpc'[r] = "closeWrite" /\ arg'[r] = [period |-> p, accrue |-> accrue, ref |-> ref]
          => ArgTyped(r)' /\ ReadHolds(r)'
    BY DEF ArgTyped, ReadHolds, Deciding
  <2>. QED  BY <2>1, <2>2, <1>6, RequestsMove DEF Phases, Reading
<1>7. CASE CloseYearRead(r)
  <2>1. PICK accrue \in BOOLEAN, ref \in Refs :
          Goto(r, "yearWrite", [accrue |-> accrue, ref |-> ref])
    BY <1>7 DEF CloseYearRead
  <2>2. rpc'[r] = "yearWrite" /\ arg'[r] = [accrue |-> accrue, ref |-> ref]
          => ArgTyped(r)' /\ ReadHolds(r)'
    BY DEF ArgTyped, ReadHolds, Deciding
  <2>. QED  BY <2>1, <2>2, RequestsMove DEF Phases
<1>8. CASE Abort(r)
  BY <1>8, RequestsFinish DEF Abort
<1>. QED  BY <1>1, <1>2, <1>3, <1>4, <1>5, <1>6, <1>7, <1>8 DEF Reading

-----------------------------------------------------------------------------
(* The writes.                                                             *)

\* postEntry: a business entry, Draft or Posted.
LEMMA PostKeepsBooks ==
  ASSUME Books, RequestsOK, NEW r \in Requests, PostCommit(r)
  PROVE  Books' /\ Persist
<1>1. /\ arg[r].hdr \in Headers /\ arg[r].draft \in BOOLEAN
      /\ arg[r].hdr.key.source \in Business
  BY DEF PostCommit, RequestsOK, ArgTyped, ReadHolds
<1>2. PICK born \in {"Draft", "Posted"} : InsertOrDedupe(arg[r].hdr, born)
  BY <1>1 DEF PostCommit
<1>3. UNCHANGED <<isReversed, approvals, reversals>> /\ UNCHANGED period
  BY DEF PostCommit
<1>. QED  BY <1>1, <1>2, <1>3, BooksPosted DEF Business, Books, LedgerTyped

\* approveEntry: a business entry, Posted by now or not.
LEMMA ApproveKeepsBooks ==
  ASSUME Books, RequestsOK, NEW r \in Requests, ApproveCommit(r)
  PROVE  Books' /\ Persist
<1>1. /\ arg[r].entry \in Entries /\ status[arg[r].entry] # "none"
      /\ posts[arg[r].entry] = 0 /\ hdr[arg[r].entry].key.source \in Business
  BY DEF ApproveCommit, RequestsOK, ArgTyped, ReadHolds, Deciding
<1>. QED  BY <1>1, BooksApproved DEF ApproveCommit

\* rejectEntry: an entry the trigger lets be voided.
LEMMA RejectKeepsBooks ==
  ASSUME Books, RequestsOK, NEW r \in Requests, RejectCommit(r)
  PROVE  Books' /\ Persist
<1>1. /\ arg[r].entry \in Entries
      /\ status[arg[r].entry] # "none" /\ status[arg[r].entry] # "Posted"
  BY DEF RejectCommit, TriggerBlocks, RequestsOK, ArgTyped, ReadHolds, Deciding
<1>. QED  BY <1>1, BooksRejected DEF RejectCommit

\* reverseEntry: the contra entry of the entry that was read.
LEMMA ReverseKeepsBooks ==
  ASSUME Books, RequestsOK, NEW r \in Requests, ReverseCommit(r)
  PROVE  Books' /\ Persist
<1>1. /\ arg[r].entry \in Entries /\ arg[r].hdr \in Headers
      /\ arg[r].hdr.key = RevKey(arg[r].entry)
  BY DEF ReverseCommit, RequestsOK, ArgTyped, ReadHolds, Deciding
<1>. QED  BY <1>1, BooksReversed DEF ReverseCommit

\* closePeriod: the loyalty accrual, when there is one.
LEMMA ClosePeriodKeepsBooks ==
  ASSUME Books, RequestsOK, NEW r \in Requests, ClosePeriodCommit(r)
  PROVE  Books' /\ Persist
<1>. DEFINE h == Header(LoyaltyKey(arg[r].ref), arg[r].period)
<1>1. arg[r].period \in Periods /\ arg[r].ref \in Refs
  BY DEF ClosePeriodCommit, RequestsOK, ArgTyped
<1>2. h \in Headers /\ h.key = LoyaltyKey(arg[r].ref) /\ h.key.source = "LOYALTY"
  BY <1>1, KeysTyped, HeaderTyped
<1>3. UNCHANGED <<isReversed, approvals, reversals>>
  BY DEF ClosePeriodCommit
<1>4. period' \in [Periods -> {"Open", "Closed", "Locked"}]
  BY DEF ClosePeriodCommit, Books, LedgerTyped
<1>5. CASE UNCHANGED <<status, hdr, applied, posts>>
  BY <1>3, <1>4, <1>5, BooksUnchanged DEF bookVars
<1>6. CASE InsertOrDedupe(h, "Posted")
  <2>. HIDE DEF h
  <2>. QED  BY <1>2, <1>3, <1>4, <1>6, BooksPosted
<1>. QED  BY <1>5, <1>6 DEF ClosePeriodCommit

\* closeYear: the closing entry and the accrual, each under a free key.
LEMMA CloseYearInserts ==
  ASSUME RequestsOK, NEW r \in Requests, CloseYearCommit(r)
  PROVE  \E new : /\ Insertable(new, "Posted") /\ Insert(new, "Posted")
                  /\ \A e \in DOMAIN new : new[e].key.source # "REVERSAL"
<1>. DEFINE keys == {k \in {CloseKey} \cup (IF arg[r].accrue THEN {LoyaltyKey(arg[r].ref)} ELSE {}) :
                       ~Taken(k)}
<1>1. arg[r].ref \in Refs
  BY DEF CloseYearCommit, RequestsOK, ArgTyped
<1>2. PICK rows \in SUBSET Free :
        \E new \in [rows -> {Header(k, YearEnd) : k \in keys}] :
          /\ \A e, f \in rows : new[e] = new[f] => e = f
          /\ Insert(new, "Posted")
  BY DEF CloseYearCommit
<1>3. PICK new \in [rows -> {Header(k, YearEnd) : k \in keys}] :
        /\ \A e, f \in rows : new[e] = new[f] => e = f
        /\ Insert(new, "Posted")
  BY <1>2
<1>4. \A k \in keys : k \in Keys /\ k.source # "REVERSAL" /\ ~Taken(k)
  BY <1>1, KeysTyped
<1>. HIDE DEF keys
<1>5. \A k \in keys : Header(k, YearEnd) \in Headers /\ Header(k, YearEnd).key = k
  BY <1>4, HeaderTyped, YearEndAssumption
<1>6. \A e \in rows : /\ new[e] \in Headers /\ new[e].key \in keys
                      /\ new[e] = Header(new[e].key, YearEnd)
  BY <1>5
<1>7. Insertable(new, "Posted")
  BY <1>3, <1>4, <1>6 DEF Insertable
<1>. QED  BY <1>3, <1>4, <1>6, <1>7

LEMMA CloseYearKeepsBooks ==
  ASSUME Books, RequestsOK, NEW r \in Requests, CloseYearCommit(r)
  PROVE  Books' /\ Persist
<1>1. PICK new :
        /\ Insertable(new, "Posted") /\ Insert(new, "Posted")
        /\ \A e \in DOMAIN new : new[e].key.source # "REVERSAL"
  BY CloseYearInserts
<1>2. UNCHANGED <<isReversed, approvals, reversals>>
  BY DEF CloseYearCommit
<1>3. period' \in [Periods -> {"Open", "Closed", "Locked"}]
  BY DEF CloseYearCommit
<1>. QED  BY <1>1, <1>2, <1>3, BooksInserted

\* The actions that write.
Writing(r) ==
  \/ PostCommit(r) \/ ApproveCommit(r) \/ RejectCommit(r) \/ ReverseCommit(r)
  \/ ClosePeriodCommit(r) \/ CloseYearCommit(r)

\* A write keeps the books, and ends its request.
LEMMA WritingKeeps ==
  ASSUME Books, RequestsOK, NEW r \in Requests, Writing(r)
  PROVE  Books' /\ Persist /\ Finish(r) /\ RequestsOK'
<1>1. Books' /\ Persist
  BY PostKeepsBooks, ApproveKeepsBooks, RejectKeepsBooks, ReverseKeepsBooks,
     ClosePeriodKeepsBooks, CloseYearKeepsBooks DEF Writing
<1>2. Finish(r)
  BY DEF Writing, PostCommit, ApproveCommit, RejectCommit, ReverseCommit,
         ClosePeriodCommit, CloseYearCommit
<1>. QED  BY <1>1, <1>2, RequestsFinish DEF Books

-----------------------------------------------------------------------------
(* The budget of approvals.                                                *)

\* An entry nobody starts to approve keeps its budget.
LEMMA BudgetKept ==
  ASSUME LedgerTyped, ApprovalBudget, Persist, NEW e \in Entries,
         approvals'[e] = approvals[e], Approving(e)' \subseteq Approving(e)
  PROVE  /\ status'[e] \in {"none", "Draft"} => approvals'[e] = 0
         /\ approvals'[e] + Cardinality(Approving(e)') <= Cardinality(Requests)
<1>1. IsFiniteSet(Approving(e))
  BY RequestsAssumption, FS_Subset DEF Approving
<1>. DEFINE before == Approving(e)
            after == Approving(e)'
<1>2. /\ Cardinality(after) \in Nat /\ Cardinality(before) \in Nat
      /\ Cardinality(after) <= Cardinality(before)
  <2>1. IsFiniteSet(before) /\ after \in SUBSET before
    BY <1>1
  <2>. HIDE DEF before, after
  <2>. QED  BY <2>1, FS_Subset, FS_CardinalityType
<1>3. /\ approvals[e] \in Nat /\ Cardinality(Requests) \in Nat
      /\ approvals[e] + Cardinality(before) <= Cardinality(Requests)
  BY RequestsAssumption, FS_CardinalityType DEF LedgerTyped, ApprovalBudget
<1>4. approvals'[e] + Cardinality(after) <= Cardinality(Requests)
  <2>. HIDE DEF before, after
  <2>. QED  BY <1>2, <1>3
<1>5. status'[e] \in {"none", "Draft"} => approvals'[e] = 0
  BY DEF ApprovalBudget, Persist
<1>. QED  BY <1>4, <1>5

\* Only ApproveRead makes a request one that approves.
LEMMA ApprovingShrinks ==
  ASSUME RequestsOK, NEW r \in Requests, NEW pc \in Phases, NEW a, Goto(r, pc, a),
         \/ pc \notin {"approveGate", "approveWrite"}
         \/ rpc[r] = "approveGate" /\ a = arg[r],
         NEW e
  PROVE  Approving(e)' \subseteq Approving(e)
BY GotoMoves DEF RequestsOK, Approving

\* A request that reads a Draft finds no approval, so the budget is whole.
LEMMA ApproveReadBudget ==
  ASSUME LedgerTyped, RequestsOK, ApprovalBudget, Persist,
         NEW r \in Requests, ApproveRead(r)
  PROVE  ApprovalBudget'
<1>1. PICK e \in Entries : status[e] = "Draft" /\ Goto(r, "approveGate", [entry |-> e])
  BY DEF ApproveRead
<1>2. approvals' = approvals
  BY DEF ApproveRead, ledgerVars
<1>3. /\ approvals'[e] = 0
      /\ approvals'[e] + Cardinality(Approving(e)') <= Cardinality(Requests)
  <2>1. approvals'[e] = 0
    BY <1>1, <1>2 DEF ApprovalBudget
  <2>2. Approving(e)' \in SUBSET Requests
    BY DEF Approving
  <2>. DEFINE after == Approving(e)'
  <2>3. Cardinality(after) \in Nat /\ Cardinality(after) <= Cardinality(Requests)
    <3>1. after \in SUBSET Requests
      BY <2>2
    <3>. HIDE DEF after
    <3>. QED  BY <3>1, RequestsAssumption, FS_Subset, FS_CardinalityType
  <2>4. approvals'[e] + Cardinality(after) <= Cardinality(Requests)
    <3>. HIDE DEF after
    <3>. QED  BY <2>1, <2>3, RequestsAssumption, FS_CardinalityType
  <2>. QED  BY <2>1, <2>4
<1>4. \A f \in Entries \ {e} : Approving(f)' \subseteq Approving(f)
  <2>1. /\ rpc'[r] = "approveGate" /\ arg'[r] = [entry |-> e]
        /\ \A q \in Requests \ {r} : rpc'[q] = rpc[q] /\ arg'[q] = arg[q]
    BY <1>1, GotoMoves DEF RequestsOK, Phases
  <2>. QED  BY <2>1 DEF Approving
<1>5. ASSUME NEW f \in Entries
      PROVE  /\ status'[f] \in {"none", "Draft"} => approvals'[f] = 0
             /\ approvals'[f] + Cardinality(Approving(f)') <= Cardinality(Requests)
  BY <1>2, <1>3, <1>4, BudgetKept
<1>. QED  BY <1>5 DEF ApprovalBudget

\* An approval is taken out of the budget by the request that makes it.
LEMMA ApproveCommitBudget ==
  ASSUME LedgerTyped, RequestsOK, ApprovalBudget, Persist,
         NEW r \in Requests, ApproveCommit(r)
  PROVE  ApprovalBudget'
<1>1. PICK e \in Entries :
        /\ e = arg[r].entry /\ rpc[r] = "approveWrite" /\ Goto(r, "idle", NoArg)
        /\ status' = [status EXCEPT ![e] = "Posted"]
        /\ approvals' = [approvals EXCEPT ![e] = @ + 1]
  BY DEF ApproveCommit, Finish, RequestsOK, ArgTyped, Deciding
<1>. DEFINE before == Approving(e)
            after == Approving(e)'
<1>2. /\ rpc'[r] = "idle"
      /\ \A q \in Requests \ {r} : rpc'[q] = rpc[q] /\ arg'[q] = arg[q]
  BY <1>1, GotoMoves DEF RequestsOK, Phases
<1>3. /\ status'[e] = "Posted" /\ approvals'[e] = approvals[e] + 1
      /\ \A f \in Entries \ {e} : approvals'[f] = approvals[f]
  BY <1>1 DEF LedgerTyped
<1>4. r \in before /\ after \subseteq before \ {r} /\ IsFiniteSet(before)
  <2>1. r \in Approving(e) /\ Approving(e)' \subseteq Approving(e) \ {r}
    BY <1>1, <1>2 DEF Approving
  <2>2. IsFiniteSet(Approving(e))
    BY RequestsAssumption, FS_Subset DEF Approving
  <2>. QED  BY <2>1, <2>2
<1>5. /\ Cardinality(after) \in Nat /\ Cardinality(before) \in Nat
      /\ Cardinality(after) <= Cardinality(before) - 1
  <2>. HIDE DEF before, after
  <2>1. /\ IsFiniteSet(before \ {r}) /\ Cardinality(before \ {r}) = Cardinality(before) - 1
        /\ Cardinality(before) \in Nat
    BY <1>4, FS_RemoveElement, FS_CardinalityType
  <2>2. IsFiniteSet(after) /\ Cardinality(after) <= Cardinality(before \ {r})
    BY <1>4, <2>1, FS_Subset
  <2>. QED  BY <2>1, <2>2, FS_CardinalityType
<1>6. /\ approvals[e] \in Nat /\ Cardinality(Requests) \in Nat
      /\ approvals[e] + Cardinality(before) <= Cardinality(Requests)
  BY <1>1, RequestsAssumption, FS_CardinalityType DEF LedgerTyped, ApprovalBudget
<1>7. approvals'[e] + Cardinality(after) <= Cardinality(Requests)
  <2>. HIDE DEF before, after
  <2>. QED  BY <1>3, <1>5, <1>6
<1>8. \A f \in Entries : Approving(f)' \subseteq Approving(f)
  BY <1>1, ApprovingShrinks DEF Phases
<1>9. ASSUME NEW f \in Entries
      PROVE  /\ status'[f] \in {"none", "Draft"} => approvals'[f] = 0
             /\ approvals'[f] + Cardinality(Approving(f)') <= Cardinality(Requests)
  <2>1. CASE f = e
    BY <1>3, <1>7, <2>1
  <2>2. CASE f # e
    BY <1>3, <1>8, <2>2, BudgetKept
  <2>. QED  BY <2>1, <2>2
<1>. QED  BY <1>9 DEF ApprovalBudget

\* Every other step of a request leaves the approvals alone.
LEMMA RequestBudget ==
  ASSUME LedgerTyped, RequestsOK, ApprovalBudget, Persist,
         NEW r \in Requests, Request(r)
  PROVE  ApprovalBudget'
<1>1. CASE ApproveRead(r)
  BY <1>1, ApproveReadBudget
<1>2. CASE ApproveCommit(r)
  BY <1>2, ApproveCommitBudget
<1>3. CASE ~ApproveRead(r) /\ ~ApproveCommit(r)
  <2>1. approvals' = approvals
    BY <1>3 DEF Request, ledgerVars, PostGate, PostCommit, ApproveGate, RejectRead,
                RejectCommit, ReverseRead, ReverseGate, ReverseCommit, ClosePeriodRead,
                ClosePeriodCommit, CloseYearRead, CloseYearCommit, Abort
  <2>2. \E pc \in Phases : \E a :
          /\ Goto(r, pc, a)
          /\ \/ pc \notin {"approveGate", "approveWrite"}
             \/ rpc[r] = "approveGate" /\ a = arg[r]
    <3>1. CASE PostGate(r) \/ ClosePeriodRead(r) \/ CloseYearRead(r)
      BY <3>1 DEF PostGate, ClosePeriodRead, CloseYearRead, Phases
    <3>2. CASE ApproveGate(r) \/ RejectRead(r) \/ ReverseRead(r) \/ ReverseGate(r)
      BY <3>2 DEF ApproveGate, RejectRead, ReverseRead, ReverseGate, Phases
    <3>3. CASE Finish(r)
      BY <3>3 DEF Finish, Phases
    <3>4. PostCommit(r) \/ RejectCommit(r) \/ ReverseCommit(r) \/ ClosePeriodCommit(r)
            \/ CloseYearCommit(r) \/ Abort(r) => Finish(r)
      BY DEF PostCommit, RejectCommit, ReverseCommit, ClosePeriodCommit,
             CloseYearCommit, Abort
    <3>. QED  BY <1>3, <3>1, <3>2, <3>3, <3>4 DEF Request
  <2>3. \A e \in Entries : Approving(e)' \subseteq Approving(e)
    BY <2>2, ApprovingShrinks
  <2>4. ASSUME NEW e \in Entries
        PROVE  /\ status'[e] \in {"none", "Draft"} => approvals'[e] = 0
               /\ approvals'[e] + Cardinality(Approving(e)') <= Cardinality(Requests)
    BY <2>1, <2>3, BudgetKept
  <2>. QED  BY <2>4 DEF ApprovalBudget
<1>. QED  BY <1>1, <1>2, <1>3

-----------------------------------------------------------------------------
(* The inductive invariant.                                                *)

\* IInv, in the two halves the lemmas speak of.
LEMMA IInvHalves == IInv <=> Books /\ RequestsOK /\ ApprovalBudget
BY DEF IInv, TypeOK, Books, RequestsOK

\* An empty ledger, nobody at work.
LEMMA InitIInv == Init => IInv
<1>. SUFFICES ASSUME Init  PROVE IInv
  OBVIOUS
<1>1. Books
  BY DEF Init, Books, LedgerTyped, SnapshotFollowsAudit, OneEntryPerKey,
         ReversedExactlyOnce, Contras, DraftsAreBusiness, BornOrApproved
<1>2. RequestsOK
  BY DEF Init, RequestsOK, Phases, ArgTyped, ReadHolds, Deciding
<1>3. ApprovalBudget
  <2>1. \A e \in Entries : Approving(e) = {}
    BY DEF Init, Approving
  <2>2. Cardinality(Requests) \in Nat
    BY RequestsAssumption, FS_CardinalityType
  <2>. QED  BY <2>1, <2>2, FS_EmptySet DEF Init, ApprovalBudget
<1>. QED  BY <1>1, <1>2, <1>3, IInvHalves

\* A change of the calendar alone keeps the invariant.
LEMMA CalendarKeepsIInv ==
  ASSUME IInv, UNCHANGED <<bookVars, rpc, arg>>,
         period' \in [Periods -> {"Open", "Closed", "Locked"}]
  PROVE  IInv' /\ Persist
<1>1. Books /\ LedgerTyped /\ RequestsOK /\ ApprovalBudget
  BY IInvHalves DEF Books
<1>2. IInv' <=> Books' /\ RequestsOK' /\ ApprovalBudget'
  BY DEF IInv, TypeOK, Books, RequestsOK
<1>3. Books' /\ Persist
  BY <1>1, BooksUnchanged
<1>4. RequestsOK'
  BY <1>1, <1>3, OthersHold DEF RequestsOK
<1>5. ApprovalBudget'
  BY <1>1 DEF ApprovalBudget, Approving, bookVars
<1>. QED  BY <1>2, <1>3, <1>4, <1>5

\* No step of a request, no reopening of a period breaks it or undoes a posting.
LEMMA NextIInv ==
  ASSUME IInv, [Next]_glVars
  PROVE  IInv' /\ Persist
<1>. USE IInvHalves
<1>1. Books /\ LedgerTyped /\ RequestsOK /\ ApprovalBudget
  BY DEF Books
<1>2. IInv' <=> Books' /\ RequestsOK' /\ ApprovalBudget'
  BY DEF IInv, TypeOK, Books, RequestsOK
<1>3. ASSUME NEW r \in Requests, Request(r)
      PROVE  IInv' /\ Persist
  <2>1. Books' /\ Persist /\ RequestsOK'
    <3>1. CASE Reading(r)
      BY <1>1, <3>1, ReadingKeepsBooks, ReadingMoves
    <3>2. CASE Writing(r)
      BY <1>1, <3>2, WritingKeeps
    <3>. QED  BY <1>3, <3>1, <3>2 DEF Request, Reading, Writing
  <2>2. ApprovalBudget'
    BY <1>1, <1>3, <2>1, RequestBudget
  <2>. QED  BY <1>2, <2>1, <2>2
<1>4. ASSUME UNCHANGED <<bookVars, rpc, arg>>,
             period' \in [Periods -> {"Open", "Closed", "Locked"}]
      PROVE  IInv' /\ Persist
  BY <1>4, CalendarKeepsIInv
<1>5. ASSUME NEW p \in Periods, OpenPeriod(p)
      PROVE  IInv' /\ Persist
  BY <1>1, <1>4, <1>5 DEF OpenPeriod, LedgerTyped
<1>6. CASE UNCHANGED glVars
  BY <1>1, <1>4, <1>6 DEF glVars, bookVars, LedgerTyped
<1>. QED  BY <1>3, <1>5, <1>6 DEF Next

\* IInv is an invariant of the ledger.
THEOREM LedgerInvariant == Spec => []IInv
<1>1. IInv /\ [Next]_glVars => IInv'
  BY NextIInv
<1>. QED  BY <1>1, InitIInv, PTL DEF Spec

-----------------------------------------------------------------------------
(* What is promised.                                                       *)

\* Every variable of the ledger has its type.
THEOREM LedgerTypes == Spec => []TypeOK
BY LedgerInvariant, PTL DEF IInv

\* The balance snapshot is what the GL audit log says was posted.
THEOREM LedgerSnapshot == Spec => []SnapshotFollowsAudit
BY LedgerInvariant, PTL DEF IInv

\* One entry per posting key, under any number of concurrent posters.
THEOREM LedgerIdempotent == Spec => []OneEntryPerKey
BY LedgerInvariant, PTL DEF IInv

\* An entry has one Posted contra entry when it is flagged, and none before,
\* under any number of concurrent reversals.
THEOREM LedgerReversals == Spec => []ReversedExactlyOnce
BY LedgerInvariant, PTL DEF IInv

\* What is left of the budget of an entry bounds its approvals.
LEMMA BudgetBounds == IInv => ApprovalsBounded
<1>. SUFFICES ASSUME IInv, NEW e \in Entries
              PROVE  approvals[e] <= Cardinality(Requests)
  BY DEF ApprovalsBounded
<1>1. IsFiniteSet(Approving(e))
  BY RequestsAssumption, FS_Subset DEF Approving
<1>2. Cardinality(Approving(e)) \in Nat /\ Cardinality(Requests) \in Nat
  BY <1>1, RequestsAssumption, FS_CardinalityType
<1>3. /\ approvals[e] \in Nat
      /\ approvals[e] + Cardinality(Approving(e)) <= Cardinality(Requests)
  BY DEF IInv, TypeOK, LedgerTyped, ApprovalBudget
<1>. QED  BY <1>2, <1>3

\* No entry is approved more often than there are requests at once.
THEOREM LedgerApprovals == Spec => []ApprovalsBounded
BY BudgetBounds, LedgerInvariant, PTL

\* The snapshot drifts from the postings by repeated approvals and nothing else.
LEMMA Drift == IInv => DriftIsReapproval
<1>. SUFFICES ASSUME IInv, NEW e \in Entries, status[e] = "Posted"
              PROVE  applied[e] = 1 \/ (approvals[e] > 1 /\ applied[e] = approvals[e])
  BY DEF DriftIsReapproval
<1>1. applied[e] \in Nat /\ posts[e] \in Nat /\ approvals[e] \in Nat
  BY DEF IInv, TypeOK, LedgerTyped
<1>2. applied[e] = posts[e] + approvals[e] /\ applied[e] > 0
  BY DEF IInv, SnapshotFollowsAudit
<1>3. posts[e] <= 1 /\ (posts[e] = 0 \/ approvals[e] = 0)
  BY DEF IInv, BornOrApproved
<1>. QED  BY <1>1, <1>2, <1>3

THEOREM LedgerDrift == Spec => []DriftIsReapproval
BY Drift, LedgerInvariant, PTL

\* The comment on bumpPeriodBalances holds when ledger requests do not overlap: the
\* snapshot then counts every Posted entry once.
THEOREM SerialLedgerCannotDrift ==
  ASSUME Cardinality(Requests) = 1
  PROVE  Spec => []SnapshotCannotDrift
<1>1. ASSUME IInv  PROVE SnapshotCannotDrift
  <2>. SUFFICES ASSUME NEW e \in Entries
                PROVE  applied[e] = IF status[e] = "Posted" THEN 1 ELSE 0
    BY DEF SnapshotCannotDrift
  <2>1. applied[e] \in Nat /\ approvals[e] \in Nat
    BY <1>1 DEF IInv, TypeOK, LedgerTyped
  <2>2. approvals[e] <= 1
    BY <1>1, BudgetBounds DEF ApprovalsBounded
  <2>3. status[e] = "Posted" => applied[e] = 1 \/ approvals[e] > 1
    BY <1>1, Drift DEF DriftIsReapproval
  <2>4. status[e] # "Posted" => ~(applied[e] > 0)
    BY <1>1 DEF IInv, SnapshotFollowsAudit
  <2>. QED  BY <2>1, <2>2, <2>3, <2>4
<1>. QED  BY <1>1, LedgerInvariant, PTL

\* A Posted entry stays Posted under its header, whatever else is in flight.
THEOREM LedgerPostedIsFinal == Spec => PostedIsFinal
<1>1. IInv /\ [Next]_glVars =>
        [\A e \in Entries :
           status[e] = "Posted" => status'[e] = "Posted" /\ hdr'[e] = hdr[e]]_glVars
  BY NextIInv DEF Persist
<1>. QED  BY <1>1, LedgerInvariant, PTL DEF Spec, PostedIsFinal

-----------------------------------------------------------------------------
(* Shut periods drain.                                                     *)

\* What passes the gate of postEntry without being told otherwise finds it open.
LEMMA GateOpen ==
  ASSUME LedgerTyped, NEW p \in Periods, NEW s, s # "CLOSE", ~Barred(p, s, FALSE)
  PROVE  period[p] = "Open"
BY DEF LedgerTyped, Barred

\* A request that does not move passes no gate.
LEMMA OthersStayOut ==
  ASSUME RequestsOK, Persist, NEW q \in Requests, NEW p,
         rpc'[q] = rpc[q], arg'[q] = arg[q], q \in PastGate(p)'
  PROVE  q \in PastGate(p)
<1>1. rpc[q] = "approveWrite" => hdr'[arg[q].entry] = hdr[arg[q].entry]
  BY DEF RequestsOK, ArgTyped, ReadHolds, Deciding, Persist
<1>. QED  BY <1>1 DEF PastGate

\* Nor does a request that moves, while the period is not Open.
LEMMA MoverStaysOut ==
  ASSUME Books, RequestsOK, NEW r \in Requests, Request(r),
         NEW p \in Periods, period[p] # "Open"
  PROVE  r \notin PastGate(p)'
<1>. USE DEF Books
<1>1. CASE PostGate(r)
  <2>1. PICK p1 \in Periods, draft \in BOOLEAN,
             key \in {ManualKey} \cup [source : {"Subledger"}, ref : Refs] :
          /\ ~Barred(p1, key.source, FALSE)
          /\ Goto(r, "post", [hdr |-> Header(key, p1), draft |-> draft])
    BY <1>1 DEF PostGate
  <2>2. key.source # "CLOSE"
    BY KeysTyped
  <2>3. p1 # p
    BY <2>1, <2>2, GateOpen
  <2>4. rpc'[r] = "post" /\ arg'[r].hdr.period = p1
    BY <2>1, GotoMoves DEF RequestsOK, Phases, Header
  <2>. QED  BY <2>3, <2>4 DEF PastGate, Inserting
<1>2. CASE ApproveGate(r)
  <2>1. rpc'[r] = "approveWrite" /\ arg'[r] = arg[r] /\ hdr' = hdr
    BY <1>2, GotoMoves DEF ApproveGate, RequestsOK, Phases, ledgerVars
  <2>2. hdr[arg[r].entry].period # p
    BY <1>2 DEF ApproveGate
  <2>. QED  BY <2>1, <2>2 DEF PastGate, Inserting
<1>3. CASE ReverseGate(r)
  <2>1. PICK p1 \in Periods :
          /\ ~Barred(p1, "REVERSAL", FALSE)
          /\ Goto(r, "revWrite", [entry |-> arg[r].entry,
                                  hdr |-> Header(RevKey(arg[r].entry), p1)])
    BY <1>3 DEF ReverseGate
  <2>2. p1 # p
    BY <2>1, GateOpen
  <2>3. rpc'[r] = "revWrite" /\ arg'[r].hdr.period = p1
    BY <2>1, GotoMoves DEF RequestsOK, Phases, Header
  <2>. QED  BY <2>2, <2>3 DEF PastGate, Inserting
<1>4. CASE ClosePeriodRead(r)
  <2>1. PICK p1 \in Periods, accrue \in BOOLEAN, ref \in Refs :
          /\ AccrualAllowed(p1, accrue)
          /\ Goto(r, "closeWrite", [period |-> p1, accrue |-> accrue, ref |-> ref])
    BY <1>4 DEF ClosePeriodRead
  <2>2. accrue => p1 # p
    BY <2>1, GateOpen DEF AccrualAllowed
  <2>3. rpc'[r] = "closeWrite" /\ arg'[r].period = p1 /\ arg'[r].accrue = accrue
    BY <2>1, GotoMoves DEF RequestsOK, Phases
  <2>. QED  BY <2>2, <2>3 DEF PastGate, Inserting
<1>5. CASE CloseYearRead(r)
  <2>1. PICK accrue \in BOOLEAN, ref \in Refs :
          /\ AccrualAllowed(YearEnd, accrue)
          /\ Goto(r, "yearWrite", [accrue |-> accrue, ref |-> ref])
    BY <1>5 DEF CloseYearRead
  <2>2. accrue => YearEnd # p
    BY <2>1, GateOpen, YearEndAssumption DEF AccrualAllowed
  <2>3. rpc'[r] = "yearWrite" /\ arg'[r].accrue = accrue
    BY <2>1, GotoMoves DEF RequestsOK, Phases
  <2>. QED  BY <2>2, <2>3 DEF PastGate, Inserting
<1>6. CASE \E pc \in {"idle", "approveGate", "rejectWrite", "revGate"} : \E a : Goto(r, pc, a)
  <2>1. rpc'[r] \in {"idle", "approveGate", "rejectWrite", "revGate"}
    BY <1>6, GotoMoves DEF RequestsOK, Phases
  <2>. QED  BY <2>1 DEF PastGate, Inserting
<1>7. ApproveRead(r) \/ RejectRead(r) \/ ReverseRead(r)
        => \E pc \in {"idle", "approveGate", "rejectWrite", "revGate"} : \E a : Goto(r, pc, a)
  BY DEF ApproveRead, RejectRead, ReverseRead
<1>8. Writing(r) \/ Abort(r) => Goto(r, "idle", NoArg)
  BY WritingKeeps DEF Abort, Finish
<1>. QED  BY <1>1, <1>2, <1>3, <1>4, <1>5, <1>6, <1>7, <1>8 DEF Request, Writing

\* Rows of other periods, or the closing entry, post nothing in the period.
LEMMA InsertElsewhere ==
  ASSUME Books, NEW new, NEW born, Insertable(new, born), Insert(new, born),
         approvals' = approvals, NEW p,
         \A e \in DOMAIN new : new[e].period # p \/ new[e].key = CloseKey
  PROVE  PostedIn(p)' = PostedIn(p)
<1>1. \A e \in Entries : e \in PostedIn(p)' <=> e \in PostedIn(p)
  <2>. SUFFICES ASSUME NEW e \in Entries
                PROVE  e \in PostedIn(p)' <=> e \in PostedIn(p)
    OBVIOUS
  <2>1. CASE e \in DOMAIN new
    BY <2>1, InsertRows DEF Books, PostedIn
  <2>2. CASE e \notin DOMAIN new
    BY <2>2, InsertRows DEF Books, PostedIn
  <2>. QED  BY <2>1, <2>2
<1>. QED  BY <1>1 DEF PostedIn

\* The same for postEntry of one header.
LEMMA PostElsewhere ==
  ASSUME Books, NEW h \in Headers, NEW born \in {"Draft", "Posted"},
         born = "Draft" => h.key.source \in Business,
         InsertOrDedupe(h, born), approvals' = approvals, NEW p, h.period # p
  PROVE  PostedIn(p)' = PostedIn(p)
<1>1. CASE UNCHANGED <<status, hdr, applied, posts>>
  BY <1>1 DEF PostedIn
<1>2. ASSUME NEW e \in Free, Insertable(One(e, h), born), Insert(One(e, h), born),
             DOMAIN One(e, h) = {e}, One(e, h)[e] = h
      PROVE  PostedIn(p)' = PostedIn(p)
  BY <1>2, InsertElsewhere
<1>. QED  BY <1>1, <1>2, InsertOneInsertable

\* A write by a request that has not passed the gate of the period.
LEMMA WriteElsewhere ==
  ASSUME Books, RequestsOK, NEW r \in Requests, Writing(r), NEW p, r \notin PastGate(p)
  PROVE  PostedIn(p)' = PostedIn(p)
<1>1. CASE PostCommit(r)
  <2>1. /\ arg[r].hdr \in Headers /\ arg[r].draft \in BOOLEAN
        /\ arg[r].hdr.key.source \in Business /\ arg[r].hdr.period # p
    BY <1>1 DEF PostCommit, RequestsOK, ArgTyped, ReadHolds, PastGate, Inserting
  <2>2. PICK born \in {"Draft", "Posted"} : InsertOrDedupe(arg[r].hdr, born)
    BY <1>1, <2>1 DEF PostCommit
  <2>. QED  BY <1>1, <2>1, <2>2, PostElsewhere DEF PostCommit
<1>2. CASE ApproveCommit(r)
  <2>1. PICK e \in Entries :
          /\ status' = [status EXCEPT ![e] = "Posted"] /\ hdr' = hdr
          /\ hdr[e].period # p
    BY <1>2 DEF ApproveCommit, RequestsOK, ArgTyped, Deciding, PastGate
  <2>. QED  BY <2>1 DEF PostedIn, Books, LedgerTyped
<1>3. CASE RejectCommit(r)
  <2>1. PICK e \in Entries :
          /\ status' = [status EXCEPT ![e] = "Voided"] /\ hdr' = hdr
          /\ status[e] # "Posted"
    BY <1>3 DEF RejectCommit, TriggerBlocks, RequestsOK, ArgTyped, Deciding
  <2>. QED  BY <2>1 DEF PostedIn, Books, LedgerTyped
<1>4. CASE ReverseCommit(r)
  <2>1. arg[r].hdr \in Headers /\ arg[r].hdr.period # p
    BY <1>4 DEF ReverseCommit, RequestsOK, ArgTyped, PastGate, Inserting
  <2>. QED  BY <1>4, <2>1, PostElsewhere DEF ReverseCommit
<1>5. CASE ClosePeriodCommit(r)
  <2>. DEFINE h == Header(LoyaltyKey(arg[r].ref), arg[r].period)
  <2>1. arg[r].period \in Periods /\ arg[r].ref \in Refs
    BY <1>5 DEF ClosePeriodCommit, RequestsOK, ArgTyped
  <2>2. h \in Headers /\ h.period = arg[r].period
    BY <2>1, KeysTyped, HeaderTyped
  <2>3. CASE arg[r].accrue
    <3>1. h.period # p
      BY <1>5, <2>2, <2>3 DEF ClosePeriodCommit, PastGate
    <3>2. InsertOrDedupe(h, "Posted") /\ approvals' = approvals
      BY <1>5, <2>3 DEF ClosePeriodCommit
    <3>. HIDE DEF h
    <3>. QED  BY <2>2, <3>1, <3>2, PostElsewhere
  <2>4. CASE ~arg[r].accrue
    BY <1>5, <2>4 DEF ClosePeriodCommit, PostedIn
  <2>. QED  BY <2>3, <2>4
<1>6. CASE CloseYearCommit(r)
  <2>. DEFINE keys == {k \in {CloseKey} \cup (IF arg[r].accrue THEN {LoyaltyKey(arg[r].ref)} ELSE {}) :
                         ~Taken(k)}
  <2>1. PICK rows \in SUBSET Free :
          \E new \in [rows -> {Header(k, YearEnd) : k \in keys}] :
            /\ \A e, f \in rows : new[e] = new[f] => e = f
            /\ Insert(new, "Posted")
    BY <1>6 DEF CloseYearCommit
  <2>2. PICK new \in [rows -> {Header(k, YearEnd) : k \in keys}] :
          /\ \A e, f \in rows : new[e] = new[f] => e = f
          /\ Insert(new, "Posted")
    BY <2>1
  <2>3. \A k \in keys : k \in Keys /\ ~Taken(k)
    BY <1>6, KeysTyped DEF CloseYearCommit, RequestsOK, ArgTyped
  <2>4. \A k \in keys : k = CloseKey \/ YearEnd # p
    BY <1>6 DEF CloseYearCommit, PastGate
  <2>. HIDE DEF keys
  <2>5. \A k \in keys : /\ Header(k, YearEnd) \in Headers
                        /\ Header(k, YearEnd).key = k /\ Header(k, YearEnd).period = YearEnd
    BY <2>3, HeaderTyped, YearEndAssumption
  <2>6. \A e \in rows : /\ new[e] \in Headers /\ new[e].key \in keys
                        /\ new[e] = Header(new[e].key, YearEnd) /\ new[e].period = YearEnd
    BY <2>5
  <2>7. Insertable(new, "Posted")
    BY <2>2, <2>3, <2>6 DEF Insertable
  <2>8. \A e \in DOMAIN new : new[e].period # p \/ new[e].key = CloseKey
    BY <2>4, <2>6
  <2>9. approvals' = approvals
    BY <1>6 DEF CloseYearCommit
  <2>. QED  BY <2>2, <2>7, <2>8, <2>9, InsertElsewhere
<1>. QED  BY <1>1, <1>2, <1>3, <1>4, <1>5, <1>6 DEF Writing

\* A step while a period is not Open.
LEMMA ShutStep ==
  ASSUME IInv, [Next]_glVars, NEW p \in Periods, period[p] # "Open"
  PROVE  /\ PastGate(p)' \subseteq PastGate(p)
         /\ PastGate(p) = {} => PostedIn(p)' = PostedIn(p)
<1>1. Books /\ RequestsOK /\ Persist
  BY IInvHalves, NextIInv
<1>2. ASSUME NEW r \in Requests, Request(r)
      PROVE  /\ PastGate(p)' \subseteq PastGate(p)
             /\ PastGate(p) = {} => PostedIn(p)' = PostedIn(p)
  <2>1. \A q \in Requests \ {r} : rpc'[q] = rpc[q] /\ arg'[q] = arg[q]
    <3>1. \E pc \in Phases : \E a : Goto(r, pc, a)
      BY <1>2 DEF Request, PostGate, PostCommit, ApproveRead, ApproveGate, ApproveCommit,
            RejectRead, RejectCommit, ReverseRead, ReverseGate, ReverseCommit,
            ClosePeriodRead, ClosePeriodCommit, CloseYearRead, CloseYearCommit, Abort,
            Finish, Phases
    <3>. QED  BY <1>1, <3>1, GotoMoves DEF RequestsOK
  <2>2. PastGate(p)' \subseteq PastGate(p)
    <3>1. \A q \in PastGate(p)' : q \in Requests
      BY DEF PastGate
    <3>. QED  BY <1>1, <1>2, <2>1, <3>1, OthersStayOut, MoverStaysOut
  <2>3. ASSUME PastGate(p) = {}  PROVE PostedIn(p)' = PostedIn(p)
    <3>1. CASE Reading(r)
      BY <1>1, <3>1, ReadingKeepsBooks DEF ledgerVars, PostedIn
    <3>2. CASE Writing(r)
      BY <1>1, <2>3, <3>2, WriteElsewhere
    <3>. QED  BY <1>2, <3>1, <3>2 DEF Request, Reading, Writing
  <2>. QED  BY <2>2, <2>3
<1>3. CASE UNCHANGED <<bookVars, rpc, arg>>
  BY <1>3 DEF bookVars, PastGate, PostedIn
<1>. QED  BY <1>2, <1>3 DEF Next, OpenPeriod, glVars, bookVars

\* Once a period is not Open, the requests that passed its gate only become
\* fewer, and when none is left nothing but the year-end entry is posted in it.
THEOREM LedgerShutPeriodsDrain == Spec => ShutPeriodsDrain
<1>1. IInv /\ [Next]_glVars =>
        [\A p \in Periods :
           period[p] # "Open" =>
             /\ PastGate(p)' \subseteq PastGate(p)
             /\ PastGate(p) = {} => PostedIn(p)' = PostedIn(p)]_glVars
  BY ShutStep
<1>. QED  BY <1>1, LedgerInvariant, PTL DEF Spec, ShutPeriodsDrain

-----------------------------------------------------------------------------
(* The ledger is a journal.                                                *)

\* An insert of fresh rows writes them into the book.
LEMMA InsertWrites ==
  ASSUME Books, NEW new, NEW born, Insertable(new, born), Insert(new, born),
         approvals' = approvals
  PROVE  /\ AsJournal!Write(DOMAIN new)
         /\ \A e \in DOMAIN new : Book'[e] = new[e]
         /\ Proposed' = Proposed \cup (IF born = "Draft" THEN DOMAIN new ELSE {})
         /\ Posted' = Posted \cup (IF born = "Posted" THEN DOMAIN new ELSE {})
         /\ applied' = [e \in Entries |-> IF e \in DOMAIN new /\ born = "Posted"
                                          THEN applied[e] + 1 ELSE applied[e]]
<1>1. /\ DOMAIN new \subseteq Entries
      /\ \A e \in DOMAIN new : status[e] = "none" /\ new[e] \in Headers
      /\ born \in {"Draft", "Posted"}
  BY DEF Insertable, Free
<1>2. \A e \in Entries :
        /\ e \in DOMAIN new => /\ status'[e] = born /\ hdr'[e] = new[e]
                               /\ posts'[e] = IF born = "Posted" THEN 1 ELSE 0
        /\ e \notin DOMAIN new => /\ status'[e] = status[e] /\ hdr'[e] = hdr[e]
                                  /\ posts'[e] = posts[e]
  BY InsertRows DEF Books
<1>3. /\ Written' = Written \cup DOMAIN new /\ Written \cap DOMAIN new = {}
      /\ DOMAIN Book = Written /\ DOMAIN Book' = Written'
  BY <1>1, <1>2 DEF Written, Free, Book
<1>4. /\ \A e \in DOMAIN new : Book'[e] = new[e]
      /\ \A e \in Written : Book'[e] = Book[e]
      /\ \A e \in Written' : Book'[e] = hdr'[e] /\ status'[e] # "none" /\ e \in Entries
  BY <1>1, <1>2 DEF Written, Free, Book
<1>5. OneEntryPerKey'
  BY InsertKeeps DEF Books
<1>6. AsJournal!Write(DOMAIN new)
  <2>1. \A e \in DOMAIN new : \A f \in DOMAIN Book' \ {e} :
          Book'[e].key = Book'[f].key => Book'[e].key.ref = 0
    BY <1>3, <1>4, <1>5 DEF OneEntryPerKey
  <2>. QED  BY <1>1, <1>3, <1>4, <2>1 DEF AsJournal!Write
<1>7. Proposed' = Proposed \cup (IF born = "Draft" THEN DOMAIN new ELSE {})
  BY <1>1, <1>2, <1>3 DEF Proposed, Written, Free
<1>8. Posted' = Posted \cup (IF born = "Posted" THEN DOMAIN new ELSE {})
  BY <1>1, <1>2 DEF Posted
<1>9. applied' = [e \in Entries |-> IF e \in DOMAIN new /\ born = "Posted"
                                    THEN applied[e] + 1 ELSE applied[e]]
  BY DEF Insert
<1>. QED  BY <1>4, <1>6, <1>7, <1>8, <1>9

\* Rows that are no contra entries are proposed or posted.
LEMMA InsertIsStep ==
  ASSUME Books, NEW new, NEW born, Insertable(new, born), Insert(new, born),
         \A e \in DOMAIN new : new[e].key.source # "REVERSAL",
         UNCHANGED <<isReversed, approvals>>
  PROVE  AsJournal!Next
<1>1. DOMAIN new \in SUBSET Entries /\ born \in {"Draft", "Posted"}
  BY DEF Insertable, Free
<1>2. Flagged' = Flagged
  BY DEF Flagged
<1>3. CASE born = "Draft"
  <2>1. applied' = applied
    BY <1>3, InsertWrites DEF Books, LedgerTyped
  <2>2. AsJournal!Propose(DOMAIN new)
    BY <1>2, <1>3, <2>1, InsertWrites DEF AsJournal!Propose, Insertable
  <2>. QED  BY <1>1, <2>2 DEF AsJournal!Next
<1>4. CASE born = "Posted"
  <2>1. \A e \in DOMAIN new, f \in Entries : ~AsJournal!IsContra(Book'[e].key, f)
    BY InsertWrites DEF AsJournal!IsContra
  <2>2. AsJournal!Count(DOMAIN new)
    BY <1>4, InsertWrites DEF AsJournal!Count
  <2>3. AsJournal!Post(DOMAIN new)
    BY <1>2, <1>4, <2>1, <2>2, InsertWrites DEF AsJournal!Post
  <2>. QED  BY <1>1, <2>3 DEF AsJournal!Next
<1>. QED  BY <1>1, <1>3, <1>4

\* postEntry of one header, or its dedupe.
LEMMA PostIsStep ==
  ASSUME Books, NEW h \in Headers, NEW born \in {"Draft", "Posted"},
         born = "Draft" => h.key.source \in Business, h.key.source # "REVERSAL",
         InsertOrDedupe(h, born), UNCHANGED <<isReversed, approvals>>
  PROVE  [AsJournal!Next]_(AsJournal!vars)
<1>1. CASE UNCHANGED <<status, hdr, applied, posts>>
  BY <1>1 DEF AsJournal!vars, Book, Written, Free, Proposed, Posted, Flagged
<1>2. ASSUME NEW e \in Free, Insertable(One(e, h), born), Insert(One(e, h), born),
             DOMAIN One(e, h) = {e}, One(e, h)[e] = h
      PROVE  AsJournal!Next
  BY <1>2, InsertIsStep
<1>. QED  BY <1>1, <1>2, InsertOneInsertable

\* An approval of a proposed entry, the first one or another.
LEMMA ApproveIsStep ==
  ASSUME Books, RequestsOK, NEW r \in Requests, ApproveCommit(r)
  PROVE  AsJournal!Next
<1>1. PICK e \in Entries :
        /\ status[e] # "none" /\ posts[e] = 0
        /\ status' = [status EXCEPT ![e] = "Posted"]
        /\ applied' = [applied EXCEPT ![e] = @ + 1]
        /\ UNCHANGED <<hdr, posts, isReversed>>
  BY DEF ApproveCommit, RequestsOK, ArgTyped, ReadHolds, Deciding
<1>2. status \in [Entries -> {"none", "Draft", "Posted", "Voided"}] /\ applied \in [Entries -> Nat]
  BY DEF Books, LedgerTyped
<1>3. Free' = Free
  BY <1>1, <1>2 DEF Free
<1>4. Book' = Book /\ Proposed' = Proposed /\ Flagged' = Flagged
  BY <1>1, <1>3 DEF Book, Written, Proposed, Flagged
<1>5. e \in Proposed /\ Posted' = Posted \cup {e}
  BY <1>1, <1>2 DEF Proposed, Written, Free, Posted
<1>6. AsJournal!Count({e})
  BY <1>1, <1>2 DEF AsJournal!Count
<1>. QED  BY <1>4, <1>5, <1>6 DEF AsJournal!Approve, AsJournal!Next

\* A rejection is nothing to the journal: the entry was not posted.
LEMMA RejectIsStutter ==
  ASSUME Books, RequestsOK, NEW r \in Requests, RejectCommit(r)
  PROVE  UNCHANGED AsJournal!vars
<1>1. PICK e \in Entries :
        /\ status[e] # "none" /\ status[e] # "Posted"
        /\ status' = [status EXCEPT ![e] = "Voided"]
        /\ UNCHANGED <<hdr, posts, applied, isReversed>>
  BY DEF RejectCommit, TriggerBlocks, RequestsOK, ArgTyped, ReadHolds, Deciding
<1>2. Free' = Free /\ Posted' = Posted
  BY <1>1 DEF Free, Posted, Books, LedgerTyped
<1>. QED  BY <1>1, <1>2 DEF AsJournal!vars, Book, Written, Proposed, Flagged

\* The first reversal that commits posts the contra entry, later ones do nothing.
LEMMA ReverseIsStep ==
  ASSUME Books, RequestsOK, NEW r \in Requests, ReverseCommit(r)
  PROVE  [AsJournal!Next]_(AsJournal!vars)
<1>1. PICK e \in Entries, h \in Headers :
        /\ status[e] = "Posted" /\ h.key = RevKey(e)
        /\ InsertOrDedupe(h, "Posted")
        /\ isReversed' = [isReversed EXCEPT ![e] = TRUE]
        /\ approvals' = approvals
  BY DEF ReverseCommit, RequestsOK, ArgTyped, ReadHolds, Deciding
<1>2. isReversed \in [Entries -> BOOLEAN]
  BY DEF Books, LedgerTyped
<1>3. CASE Taken(h.key) /\ UNCHANGED <<status, hdr, applied, posts>>
  <2>1. Contras(e) # {}
    BY <1>1, <1>3 DEF Taken, Contras
  <2>2. isReversed' = isReversed
    BY <1>1, <1>2, <2>1 DEF Books, ReversedExactlyOnce
  <2>. QED  BY <1>3, <2>2 DEF AsJournal!vars, Book, Written, Free, Proposed, Posted, Flagged
<1>4. ASSUME NEW c \in Free, ~Taken(h.key),
             Insertable(One(c, h), "Posted"), Insert(One(c, h), "Posted"),
             DOMAIN One(c, h) = {c}, One(c, h)[c] = h
      PROVE  AsJournal!Next
  <2>1. c \in Entries
    BY DEF Free
  <2>2. Contras(e) = {}
    <3>1. h.key.ref # 0
      BY <1>1, KeysTyped, EntriesAssumption
    <3>. QED  BY <1>1, <1>4, <3>1 DEF Taken, Contras
  <2>3. e \in Posted \ Flagged
    BY <1>1, <1>2, <2>2 DEF Books, ReversedExactlyOnce, Posted, Flagged
  <2>4. Flagged' = Flagged \cup {e}
    BY <1>1, <1>2 DEF Flagged
  <2>5. /\ AsJournal!Write({c}) /\ Book'[c] = h
        /\ Proposed' = Proposed /\ Posted' = Posted \cup {c}
        /\ applied' = [x \in Entries |-> IF x \in {c} THEN applied[x] + 1 ELSE applied[x]]
    <3>1. PICK new : /\ Insertable(new, "Posted") /\ Insert(new, "Posted")
                     /\ DOMAIN new = {c} /\ new[c] = h
      BY <1>4
    <3>2. AsJournal!Write({c}) /\ Book'[c] = h
      BY <1>1, <3>1, InsertWrites
    <3>3. Proposed' = Proposed /\ Posted' = Posted \cup {c}
      BY <1>1, <3>1, InsertWrites
    <3>4. applied' = [x \in Entries |-> IF x \in {c} THEN applied[x] + 1 ELSE applied[x]]
      BY <3>1 DEF Insert
    <3>. QED  BY <3>2, <3>3, <3>4
  <2>6. AsJournal!IsContra(Book'[c].key, e)
    BY <1>1, <2>5 DEF AsJournal!IsContra, RevKey
  <2>7. AsJournal!Reverse(e, c)
    BY <2>3, <2>4, <2>5, <2>6 DEF AsJournal!Reverse, AsJournal!Count
  <2>. QED  BY <2>1, <2>7 DEF AsJournal!Next
<1>. QED  BY <1>1, <1>3, <1>4, InsertOneInsertable

\* Both closes post what they insert.
LEMMA ClosePeriodIsStep ==
  ASSUME Books, RequestsOK, NEW r \in Requests, ClosePeriodCommit(r)
  PROVE  [AsJournal!Next]_(AsJournal!vars)
<1>. DEFINE h == Header(LoyaltyKey(arg[r].ref), arg[r].period)
<1>1. h \in Headers /\ h.key.source = "LOYALTY"
  BY KeysTyped, HeaderTyped DEF ClosePeriodCommit, RequestsOK, ArgTyped
<1>2. UNCHANGED <<isReversed, approvals>>
  BY DEF ClosePeriodCommit
<1>3. CASE InsertOrDedupe(h, "Posted")
  <2>. HIDE DEF h
  <2>. QED  BY <1>1, <1>2, <1>3, PostIsStep
<1>4. CASE UNCHANGED <<status, hdr, applied, posts>>
  BY <1>2, <1>4 DEF AsJournal!vars, Book, Written, Free, Proposed, Posted, Flagged
<1>. QED  BY <1>3, <1>4 DEF ClosePeriodCommit

LEMMA CloseYearIsStep ==
  ASSUME Books, RequestsOK, NEW r \in Requests, CloseYearCommit(r)
  PROVE  AsJournal!Next
<1>1. PICK new :
        /\ Insertable(new, "Posted") /\ Insert(new, "Posted")
        /\ \A e \in DOMAIN new : new[e].key.source # "REVERSAL"
  BY CloseYearInserts
<1>2. UNCHANGED <<isReversed, approvals>>
  BY DEF CloseYearCommit
<1>. QED  BY <1>1, <1>2, InsertIsStep

\* Without a change of the books the journal stays as it is.
LEMMA JournalStays == ASSUME UNCHANGED bookVars PROVE UNCHANGED AsJournal!vars
BY DEF bookVars, AsJournal!vars, Book, Written, Free, Proposed, Posted, Flagged

\* The first page of the book is empty.
LEMMA JournalStarts == Init => AsJournal!Init
BY DEF Init, AsJournal!Init, Book, Written, Free, Proposed, Posted, Flagged

\* Whatever a request does is a step of the journal or none.
LEMMA JournalStep ==
  ASSUME IInv, [Next]_glVars
  PROVE  [AsJournal!Next]_(AsJournal!vars)
<1>1. Books /\ RequestsOK
  BY IInvHalves
<1>2. ASSUME UNCHANGED bookVars  PROVE UNCHANGED AsJournal!vars
  BY <1>2, JournalStays
<1>3. ASSUME NEW r \in Requests, Request(r)
      PROVE  [AsJournal!Next]_(AsJournal!vars)
  <2>1. CASE Reading(r)
    BY <1>1, <1>2, <2>1, ReadingKeepsBooks DEF ledgerVars, bookVars
  <2>2. CASE PostCommit(r)
    <3>1. /\ arg[r].hdr \in Headers /\ arg[r].draft \in BOOLEAN
          /\ arg[r].hdr.key.source \in Business
      BY <1>1, <2>2 DEF PostCommit, RequestsOK, ArgTyped, ReadHolds
    <3>2. PICK born \in {"Draft", "Posted"} : InsertOrDedupe(arg[r].hdr, born)
      BY <2>2, <3>1 DEF PostCommit
    <3>3. UNCHANGED <<isReversed, approvals>>
      BY <2>2 DEF PostCommit
    <3>. QED  BY <1>1, <3>1, <3>2, <3>3, PostIsStep DEF Business
  <2>. QED
    BY <1>1, <1>3, <2>1, <2>2, ApproveIsStep, RejectIsStutter, ReverseIsStep,
       ClosePeriodIsStep, CloseYearIsStep DEF Request, Reading
<1>. QED  BY <1>2, <1>3 DEF Next, OpenPeriod, glVars, bookVars

\* Seen from outside the ledger is a journal, for any number of racing requests:
\* entries are written once under their key, proposed ones posted, posted ones
\* reversed once, each in one step, and nothing is ever taken back.
THEOREM LedgerIsJournal == Spec => KeepsJournal
<1>1. IInv /\ [Next]_glVars => [AsJournal!Next]_(AsJournal!vars)
  BY JournalStep
<1>. QED  BY <1>1, JournalStarts, LedgerInvariant, PTL DEF Spec, AsJournal!Spec, KeepsJournal
=============================================================================
