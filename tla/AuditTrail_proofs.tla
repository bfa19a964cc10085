-------------------------- MODULE AuditTrail_proofs --------------------------
(***************************************************************************)
(* Safety of the audit trail, for any finite set of requests and any       *)
(* chains.  IInv of AuditTrail is inductive: rows stay once written, so a  *)
(* selected row is still in its chain when the next one is appended to it, *)
(* and each bump of the counter has a request of its own.                  *)
(***************************************************************************)
EXTENDS AuditTrail, CountingLemmas, FiniteSetTheorems, TLAPS

\* What no step may undo: a row stays, with its number, its link and its chain.
RowsStay ==
  \A q \in Requests :
    seq[q] > 0 => seq'[q] = seq[q] /\ prev'[q] = prev[q] /\ tenant'[q] = tenant[q]

LEMMA RowsOnlyGrow ==
  ASSUME RowsStay, TypeOK, NEW c
  PROVE  Rows(c) \subseteq Rows(c)'
BY DEF RowsStay, Rows, TypeOK

LEMMA InitIInv == Init => IInv
<1>. SUFFICES ASSUME Init PROVE IInv
  OBVIOUS
<1>1. TypeOK
  BY DEF Init, TypeOK, Chains, Owing
<1>2. \A q \in Requests : WriterFits(q)
  BY DEF Init, WriterFits
<1>3. EveryRowLinked
  BY DEF Init, EveryRowLinked, Rows
<1>4. \A c \in Chains : Counted(c) = {}
  BY DEF Init, Counted
<1>5. CounterFits
  BY <1>4, FS_EmptySet DEF Init, CounterFits
<1>. QED  BY <1>1, <1>2, <1>3, <1>5 DEF IInv

-----------------------------------------------------------------------------
(* Rows and writers.                                                       *)

\* A step that writes no row keeps the links.
LEMMA LinksStay ==
  ASSUME EveryRowLinked, UNCHANGED <<seq, prev>>, RowsStay, TypeOK
  PROVE  EveryRowLinked'
<1>1. \A c \in Chains : Rows(c)' = Rows(c)
  BY DEF Rows, RowsStay, TypeOK, Chains
<1>. QED  BY <1>1 DEF EveryRowLinked, Rows

\* What a writer has selected stays in its chain while other requests move.
LEMMA OthersFit ==
  ASSUME TypeOK, RowsStay, NEW q \in Requests, WriterFits(q),
         pc'[q] = pc[q], seq'[q] = seq[q], last'[q] = last[q], tenant'[q] = tenant[q]
  PROVE  WriterFits(q)'
BY RowsOnlyGrow DEF WriterFits

\* Requests that are new get a chain; the rest of the tables stays.
LEMMA OpenStep ==
  ASSUME IInv, NEW q \in Requests, Begin(q) \/ Refuse(q)
  PROVE  IInv'
<1>. USE DEF IInv
<1>1. PICK c \in Chains, s \in {"running", "owes"} :
        /\ pc[q] = "new"
        /\ tenant' = [tenant EXCEPT ![q] = c]
        /\ pc' = [pc EXCEPT ![q] = s]
        /\ UNCHANGED <<counted, last, seq, prev, expected>>
  BY DEF Begin, Refuse
<1>2. TypeOK' /\ RowsStay
  BY <1>1 DEF TypeOK, Owing, RowsStay, WriterFits
<1>3. WriterFits(q)'
  BY <1>1 DEF WriterFits, TypeOK
<1>4. \A r \in Requests : WriterFits(r)'
  BY <1>1, <1>2, <1>3, OthersFit DEF TypeOK
<1>5. EveryRowLinked'
  BY <1>1, <1>2, LinksStay
<1>6. ~counted[q] /\ counted' = counted /\ expected' = expected
  BY <1>1 DEF CounterFits
<1>7. \A d \in Chains : Counted(d)' = Counted(d)
  BY <1>1, <1>6 DEF Counted, TypeOK
<1>8. CounterFits'
  BY <1>1, <1>6, <1>7 DEF CounterFits, TypeOK
<1>. QED  BY <1>2, <1>4, <1>5, <1>8

\* The business transaction commits: the counter and the bump go together.
LEMMA CommitStep ==
  ASSUME IInv, NEW q \in Requests, Commit(q)
  PROVE  IInv'
<1>. USE DEF IInv
<1>1. /\ pc[q] = "running"
      /\ pc' = [pc EXCEPT ![q] = "owes"]
      /\ counted' = [counted EXCEPT ![q] = TRUE]
      /\ expected' = [expected EXCEPT ![tenant[q]] = @ + 1]
      /\ UNCHANGED <<tenant, last, seq, prev>>
  BY DEF Commit
<1>2. TypeOK' /\ RowsStay
  BY <1>1 DEF TypeOK, Owing, RowsStay
<1>3. \A r \in Requests : WriterFits(r)'
  BY <1>1, <1>2, OthersFit DEF WriterFits, TypeOK
<1>4. EveryRowLinked'
  BY <1>1, <1>2, LinksStay
<1>5. tenant[q] \in Chains /\ q \notin Counted(tenant[q])
  BY <1>1 DEF TypeOK, CounterFits, Counted
<1>6. Counted(tenant[q])' = Counted(tenant[q]) \cup {q}
  BY <1>1 DEF Counted, TypeOK
<1>7. \A d \in Chains \ {tenant[q]} : Counted(d)' = Counted(d)
  BY <1>1 DEF Counted, TypeOK
<1>8. IsFiniteSet(Counted(tenant[q]))
  BY RequestsAssumption, FS_Subset DEF Counted
<1>9. Cardinality(Counted(tenant[q])') = Cardinality(Counted(tenant[q])) + 1
  BY <1>5, <1>6, <1>8, FS_AddElement
<1>10. \A d \in Chains : expected'[d] = Cardinality(Counted(d)')
  BY <1>1, <1>5, <1>7, <1>9 DEF CounterFits, TypeOK
<1>11. CounterFits'
  BY <1>1, <1>10 DEF CounterFits, TypeOK
<1>. QED  BY <1>2, <1>3, <1>4, <1>11

\* Steps that neither count, number nor link: only pc and last change, and a bump
\* stays with a request that owes, has or has lost its row.
LEMMA QuietStep ==
  ASSUME IInv, TypeOK', UNCHANGED <<tenant, counted, seq, prev, expected>>,
         \A q \in Requests : WriterFits(q)',
         \A q \in Requests : pc'[q] \in {"new", "running"} => pc[q] \in {"new", "running"}
  PROVE  IInv'
<1>1. RowsStay /\ TypeOK /\ EveryRowLinked
  BY DEF RowsStay, IInv
<1>2. EveryRowLinked'
  BY <1>1, LinksStay
<1>3. \A d \in Chains : Counted(d)' = Counted(d)
  BY DEF Counted
<1>4. CounterFits'
  BY <1>3 DEF CounterFits, IInv
<1>. QED  BY <1>2, <1>4 DEF IInv

LEMMA RollBackStep ==
  ASSUME IInv, NEW q \in Requests, RollBack(q)
  PROVE  IInv'
<1>1. TypeOK' /\ RowsStay
  BY DEF IInv, TypeOK, Owing, RowsStay, RollBack
<1>2. \A r \in Requests : WriterFits(r)'
  BY <1>1, OthersFit DEF IInv, TypeOK, RollBack, WriterFits
<1>. QED  BY <1>1, <1>2, QuietStep DEF RollBack, IInv, TypeOK

LEMMA SelectStep ==
  ASSUME IInv, NEW q \in Requests, SelectLast(q)
  PROVE  IInv'
<1>1. PICK l \in Requests \cup {NoRow}, s \in {"queued", "holding"} :
        /\ pc[q] = "owes"
        /\ l \in Rows(tenant[q]) \cup {NoRow}
        /\ s = "queued" => l # NoRow
        /\ pc' = [pc EXCEPT ![q] = s]
        /\ last' = [last EXCEPT ![q] = l]
        /\ UNCHANGED <<tenant, counted, seq, prev, expected>>
  <2>1. CASE LastOf(tenant[q]) = {} /\ pc' = [pc EXCEPT ![q] = "holding"] /\ UNCHANGED last
    <3>1. pc[q] = "owes" /\ last[q] = NoRow /\ last' = [last EXCEPT ![q] = NoRow]
      BY <2>1 DEF SelectLast, IInv, WriterFits, TypeOK
    <3>. QED  BY <2>1, <3>1 DEF SelectLast
  <2>2. ASSUME NEW l \in LastOf(tenant[q]), last' = [last EXCEPT ![q] = l],
               pc' = [pc EXCEPT ![q] = "queued"]
        PROVE  l \in Requests /\ l \in Rows(tenant[q]) /\ l # NoRow
    BY <2>2, NoRowAssumption DEF LastOf, Rows
  <2>. QED  BY <2>1, <2>2 DEF SelectLast
<1>2. TypeOK' /\ RowsStay
  BY <1>1 DEF IInv, TypeOK, Owing, RowsStay
<1>3. WriterFits(q)'
  BY <1>1, <1>2, RowsOnlyGrow DEF IInv, TypeOK, WriterFits
<1>4. \A r \in Requests : WriterFits(r)'
  BY <1>1, <1>2, <1>3, OthersFit DEF IInv, TypeOK
<1>. QED  BY <1>1, <1>2, <1>4, QuietStep DEF IInv, TypeOK

LEMMA LockStep ==
  ASSUME IInv, NEW q \in Requests, LockLast(q)
  PROVE  IInv'
<1>1. TypeOK' /\ RowsStay
  BY DEF IInv, TypeOK, Owing, RowsStay, LockLast
<1>2. WriterFits(q)'
  BY <1>1, RowsOnlyGrow DEF IInv, TypeOK, WriterFits, LockLast
<1>3. \A r \in Requests : WriterFits(r)'
  BY <1>1, <1>2, OthersFit DEF IInv, TypeOK, LockLast
<1>. QED  BY <1>1, <1>3, QuietStep DEF LockLast, IInv, TypeOK

LEMMA FailStep ==
  ASSUME IInv, NEW q \in Requests, WriteFails(q)
  PROVE  IInv'
<1>1. TypeOK' /\ RowsStay
  BY DEF IInv, TypeOK, Owing, RowsStay, WriteFails
<1>2. WriterFits(q)'
  BY DEF IInv, TypeOK, WriterFits, WriteFails, Owing
<1>3. \A r \in Requests : WriterFits(r)'
  BY <1>1, <1>2, OthersFit DEF IInv, TypeOK, WriteFails
<1>. QED  BY <1>1, <1>3, QuietStep DEF WriteFails, IInv, TypeOK

LEMMA CrashStep ==
  ASSUME IInv, Crash
  PROVE  IInv'
<1>1. /\ pc' = [q \in Requests |-> IF pc[q] \in Owing \cup {"running"} THEN "lost" ELSE pc[q]]
      /\ UNCHANGED <<tenant, counted, last, seq, prev, expected>>
  BY DEF Crash
<1>2. TypeOK' /\ RowsStay
  BY <1>1 DEF IInv, TypeOK, Owing, RowsStay
<1>3. ASSUME NEW q \in Requests  PROVE WriterFits(q)'
  <2>1. CASE pc[q] \in Owing \cup {"running"}
    BY <1>1, <2>1 DEF IInv, WriterFits, Owing
  <2>2. CASE pc[q] \notin Owing \cup {"running"}
    BY <1>1, <1>2, <2>2, OthersFit DEF IInv
  <2>. QED  BY <2>1, <2>2
<1>. QED  BY <1>1, <1>2, <1>3, QuietStep

\* A row is appended to the selected one, which is still in its chain.
LEMMA AppendStep ==
  ASSUME IInv, NEW q \in Requests, AppendRow(q)
  PROVE  IInv'
<1>. USE DEF IInv
<1>0. PICK c, l : c = tenant[q] /\ l = last[q]
  OBVIOUS
<1>1. /\ pc[q] = "holding"
      /\ pc' = [pc EXCEPT ![q] = "written"]
      /\ seq' = [seq EXCEPT ![q] = NextSeq(l)]
      /\ prev' = [prev EXCEPT ![q] = l]
      /\ UNCHANGED <<tenant, counted, last, expected>>
  BY <1>0 DEF AppendRow
<1>2. c \in Chains /\ seq[q] = 0 /\ l \in Rows(c) \cup {NoRow} /\ l \in Requests \cup {NoRow}
  BY <1>0, <1>1 DEF TypeOK, WriterFits
<1>3. NextSeq(l) \in Nat /\ NextSeq(l) > 0
  BY <1>2 DEF NextSeq, TypeOK
<1>4. TypeOK' /\ RowsStay
  BY <1>1, <1>2, <1>3 DEF TypeOK, Owing, RowsStay
<1>5. WriterFits(q)'
  BY <1>0, <1>1, <1>2, <1>3, <1>4, RowsOnlyGrow DEF TypeOK, WriterFits
<1>6. \A r \in Requests : WriterFits(r)'
  BY <1>1, <1>4, <1>5, OthersFit DEF TypeOK
<1>7. Rows(c)' = Rows(c) \cup {q} /\ \A d \in Chains \ {c} : Rows(d)' = Rows(d)
  BY <1>0, <1>1, <1>2, <1>3 DEF Rows, TypeOK
<1>8. ASSUME NEW d \in Chains, NEW r \in Rows(d)'
      PROVE  \/ prev'[r] = NoRow /\ seq'[r] = 1
             \/ prev'[r] \in Rows(d)' /\ seq'[r] = seq'[prev'[r]] + 1
  <2>1. CASE r = q
    <3>1. d = c /\ prev'[q] = l /\ seq'[q] = NextSeq(l)
      BY <1>0, <1>1, <1>8, <2>1 DEF Rows, TypeOK
    <3>2. CASE l = NoRow
      BY <2>1, <3>1, <3>2 DEF NextSeq
    <3>3. CASE l # NoRow
      <4>1. l \in Rows(c) /\ l # q /\ seq'[l] = seq[l]
        BY <1>1, <1>2, <3>3 DEF Rows, TypeOK
      <4>2. prev'[r] = l /\ seq'[r] = seq[l] + 1
        BY <2>1, <3>1, <3>3 DEF NextSeq
      <4>3. l \in Rows(d)'
        BY <1>7, <3>1, <4>1
      <4>. QED  BY <4>1, <4>2, <4>3
    <3>. QED  BY <3>2, <3>3
  <2>2. CASE r # q
    <3>1. r \in Rows(d) /\ r \in Requests /\ prev'[r] = prev[r] /\ seq'[r] = seq[r]
      BY <1>1, <1>7, <1>8, <2>2 DEF Rows, TypeOK
    <3>2. ASSUME prev[r] \in Rows(d)
          PROVE  prev[r] \in Rows(d)' /\ seq'[prev[r]] = seq[prev[r]]
      BY <1>4, <3>2, RowsOnlyGrow DEF RowsStay, Rows
    <3>. QED  BY <3>1, <3>2 DEF EveryRowLinked
  <2>. QED  BY <2>1, <2>2
<1>9. EveryRowLinked'
  BY <1>8 DEF EveryRowLinked
<1>10. \A d \in Chains : Counted(d)' = Counted(d)
  BY <1>1 DEF Counted
<1>11. CounterFits'
  BY <1>1, <1>10 DEF CounterFits, TypeOK
<1>. QED  BY <1>4, <1>6, <1>9, <1>11

LEMMA NextIInv ==
  ASSUME IInv, [Next]_vars
  PROVE  IInv'
<1>1. CASE UNCHANGED vars
  BY <1>1 DEF vars, IInv, TypeOK, WriterFits, EveryRowLinked, CounterFits, Counted, Rows
<1>. QED
  BY <1>1, OpenStep, CommitStep, RollBackStep, SelectStep, LockStep, AppendStep, FailStep,
     CrashStep DEF Next, Writer

-----------------------------------------------------------------------------
(* The theorems.                                                           *)

\* IInv is an invariant of the audit trail.
THEOREM TrailInvariant == Spec => []IInv
<1>. QED  BY InitIInv, NextIInv, PTL DEF Spec

\* Every column has its type.
THEOREM TrailTypes == Spec => []TypeOK
BY TrailInvariant, PTL DEF IInv

\* Every row follows a row of its own chain, whatever is lost in between.
THEOREM TrailLinked == Spec => []EveryRowLinked
BY TrailInvariant, PTL DEF IInv

\* With no write in flight, a chain's bumps are the lost ones and those of its
\* rows that were counted; its rows are those and the uncounted ones.
LEMMA CountsWhenQuiet ==
  ASSUME IInv, NEW c \in Chains, Quiet(c)
  PROVE  Shortfall(c) <=> Rows(c) # {} /\ Cardinality(Lost(c)) > Cardinality(Uncounted(c))
<1>. DEFINE Both == Rows(c) \cap Counted(c)
<1>1. \A q \in Requests :
        tenant[q] = c /\ counted[q] => (seq[q] > 0 <=> pc[q] # "lost")
  BY DEF IInv, TypeOK, WriterFits, CounterFits, Quiet, Owing
<1>2. /\ Counted(c) = Both \cup Lost(c) /\ Both \cap Lost(c) = {}
      /\ Rows(c) = Both \cup Uncounted(c) /\ Both \cap Uncounted(c) = {}
  BY <1>1 DEF Counted, Rows, Lost, Uncounted
<1>3. IsFiniteSet(Both) /\ IsFiniteSet(Lost(c)) /\ IsFiniteSet(Uncounted(c))
  <2>1. Both \subseteq Requests /\ Lost(c) \subseteq Requests /\ Uncounted(c) \subseteq Requests
    BY DEF Rows, Lost, Uncounted
  <2>. QED  BY <2>1, RequestsAssumption, FS_Subset
<1>. HIDE DEF Both
<1>4. /\ Cardinality(Both \cup Lost(c)) = Cardinality(Both) + Cardinality(Lost(c))
      /\ Cardinality(Both \cup Uncounted(c)) = Cardinality(Both) + Cardinality(Uncounted(c))
  <2>1. /\ Cardinality(Both) \in Nat /\ Cardinality(Lost(c)) \in Nat
        /\ Cardinality(Uncounted(c)) \in Nat
    BY <1>3, FS_CardinalityType
  <2>. QED  BY <1>2, <1>3, <2>1, FS_Union, FS_EmptySet
<1>5. /\ expected[c] = Cardinality(Both) + Cardinality(Lost(c))
      /\ Cardinality(Rows(c)) = Cardinality(Both) + Cardinality(Uncounted(c))
  BY <1>2, <1>4 DEF IInv, CounterFits
<1>6. /\ Cardinality(Both) \in Nat /\ Cardinality(Lost(c)) \in Nat
      /\ Cardinality(Uncounted(c)) \in Nat
  BY <1>3, FS_CardinalityType
<1>. QED  BY <1>5, <1>6 DEF Shortfall

\* With no write in flight the completeness verdict is right: a shortfall means
\* that more rows were lost than rows without a bump make up for.
THEOREM TrailVerdict == Spec => []VerdictWhenQuiet
<1>1. IInv => VerdictWhenQuiet
  BY CountsWhenQuiet DEF VerdictWhenQuiet
<1>. QED  BY <1>1, TrailInvariant, PTL

\* That a shortfall is provable audit loss (audit-viewer.service.ts:135) holds once the
\* audit writes of a chain have ended.
THEOREM QuietShortfallIsLoss ==
  Spec => [](\A c \in Chains :
               Quiet(c) /\ Shortfall(c) => \E q \in Requests : pc[q] = "lost" /\ tenant[q] = c)
<1>1. VerdictWhenQuiet =>
        \A c \in Chains :
          Quiet(c) /\ Shortfall(c) => \E q \in Requests : pc[q] = "lost" /\ tenant[q] = c
  <2>. SUFFICES ASSUME VerdictWhenQuiet, NEW c \in Chains, Quiet(c), Shortfall(c)
                PROVE  \E q \in Requests : pc[q] = "lost" /\ tenant[q] = c
    OBVIOUS
  <2>1. Cardinality(Lost(c)) > Cardinality(Uncounted(c))
    BY DEF VerdictWhenQuiet
  <2>2. IsFiniteSet(Uncounted(c)) /\ Cardinality(Uncounted(c)) \in Nat
    BY RequestsAssumption, FS_Subset, FS_CardinalityType DEF Uncounted, Rows
  <2>3. Lost(c) # {}
    BY <2>1, <2>2, FS_EmptySet
  <2>. QED  BY <2>3 DEF Lost
<1>. QED  BY <1>1, TrailVerdict, PTL

-----------------------------------------------------------------------------
(* The walk of verifyChain.                                                *)

\* Rows can be put in order of their numbers: there is a walk to judge.
LEMMA WalkExists ==
  ASSUME TypeOK, NEW c \in Chains
  PROVE  Walks(c) # {}
<1>. DEFINE Ordered(T, w) ==
       /\ w \in [1 .. Cardinality(T) -> T]
       /\ \A i, j \in 1 .. Cardinality(T) : i # j => w[i] # w[j]
       /\ \A i, j \in 1 .. Cardinality(T) : i < j => seq[w[i]] <= seq[w[j]]
            Bad == {T \in SUBSET Rows(c) : ~ \E w : Ordered(T, w)}
<1>1. \A q \in Rows(c) : seq[q] \in Nat
  BY DEF TypeOK, Rows
<1>2. IsFiniteSet(Rows(c)) /\ \A T \in SUBSET Rows(c) : IsFiniteSet(T) /\ Cardinality(T) \in Nat
  <2>1. Rows(c) \in SUBSET Requests
    BY DEF Rows
  <2>. QED  BY <2>1, RequestsAssumption, FS_Subset, FS_CardinalityType
<1>3. Bad = {}
  <2>. SUFFICES ASSUME Bad # {} PROVE FALSE
    OBVIOUS
  <2>1. PICK T \in Bad : \A U \in Bad : U \subseteq T => U = T
    <3>1. Bad \in SUBSET (SUBSET Rows(c))
      OBVIOUS
    <3>. HIDE DEF Bad
    <3>. QED  BY <1>2, <3>1, MinimalSubset
  <2>2. T # {}
    <3>. SUFFICES ASSUME T = {} PROVE FALSE
      OBVIOUS
    <3>1. Cardinality(T) = 0
      BY FS_EmptySet
    <3>2. [i \in 1 .. 0 |-> i] \in [1 .. 0 -> T]
      OBVIOUS
    <3>3. Ordered(T, [i \in 1 .. 0 |-> i])
      BY <3>1, <3>2
    <3>. QED  BY <2>1, <3>3
  <2>3. PICK m \in T : \A q \in T : seq[m] <= seq[q]
    <3>. DEFINE Nums == {seq[q] : q \in T}
    <3>1. Nums \in SUBSET Nat /\ Nums # {}
      BY <1>1, <2>1, <2>2
    <3>2. PICK a \in Nums : \A b \in Nums : a <= b
      <4>. HIDE DEF Nums
      <4>. QED  BY <3>1, LeastNat
    <3>. QED  BY <3>2
  <2>. DEFINE U == T \ {m}
  <2>4. PICK k \in Nat : k = Cardinality(U) /\ Cardinality(T) = k + 1
    BY <1>2, <2>1, <2>3, FS_RemoveElement
  <2>5. PICK v : Ordered(U, v)
    <3>1. U \notin Bad /\ U \in SUBSET Rows(c)
      BY <2>1, <2>3
    <3>. QED  BY <3>1
  <2>. DEFINE w == [i \in 1 .. k + 1 |-> IF i = 1 THEN m ELSE v[i - 1]]
  <2>6. /\ \A i \in 1 .. k : v[i] \in T /\ v[i] # m
        /\ \A i, j \in 1 .. k : (i # j => v[i] # v[j]) /\ (i < j => seq[v[i]] <= seq[v[j]])
    BY <2>4, <2>5
  <2>7. /\ w[1] = m
        /\ \A i \in 1 .. k + 1 : i # 1 => i - 1 \in 1 .. k /\ w[i] = v[i - 1]
    <3>1. 1 \in 1 .. k + 1
      OBVIOUS
    <3>2. ASSUME NEW i \in 1 .. k + 1, i # 1  PROVE i - 1 \in 1 .. k
      BY <3>2
    <3>. QED  BY <3>1, <3>2, Zenon
  <2>8. w \in [1 .. k + 1 -> T]
    BY <2>3, <2>6, <2>7
  <2>9. \A i, j \in 1 .. k + 1 : i # j => w[i] # w[j]
    <3>. HIDE DEF w
    <3>. QED  BY <2>6, <2>7
  <2>10. \A i, j \in 1 .. k + 1 : i < j => seq[w[i]] <= seq[w[j]]
    <3>. SUFFICES ASSUME NEW i \in 1 .. k + 1, NEW j \in 1 .. k + 1, i < j
                  PROVE  seq[w[i]] <= seq[w[j]]
      OBVIOUS
    <3>. HIDE DEF w
    <3>1. w[j] = v[j - 1] /\ j - 1 \in 1 .. k
      BY <2>7
    <3>2. CASE i = 1
      BY <2>3, <2>6, <2>7, <3>1, <3>2
    <3>3. CASE i # 1
      <4>1. w[i] = v[i - 1] /\ i - 1 \in 1 .. k /\ i - 1 < j - 1
        BY <2>7, <3>3
      <4>. QED  BY <2>6, <3>1, <4>1
    <3>. QED  BY <3>2, <3>3
  <2>11. Ordered(T, w)
    <3>. HIDE DEF w
    <3>. QED  BY <2>4, <2>8, <2>9, <2>10
  <2>. QED  BY <2>1, <2>11
<1>4. PICK w : Ordered(Rows(c), w)
  BY <1>3
<1>5. w \in Walks(c)
  BY <1>4 DEF Walks, SetToSeqs
<1>. QED  BY <1>5

\* A walk visits every row of the chain once.
LEMMA WalkVisits ==
  ASSUME NEW c \in Chains, NEW w \in Walks(c)
  PROVE  LET n == Cardinality(Rows(c)) IN
         /\ n \in Nat /\ DOMAIN w = 1 .. n
         /\ \A i \in 1 .. n : w[i] \in Rows(c)
         /\ \A i, j \in 1 .. n : w[i] = w[j] => i = j
         /\ \A q \in Rows(c) : \E i \in 1 .. n : w[i] = q
<1>. DEFINE n == Cardinality(Rows(c))
<1>1. IsFiniteSet(Rows(c)) /\ n \in Nat
  <2>1. Rows(c) \subseteq Requests
    BY DEF Rows
  <2>. QED  BY <2>1, RequestsAssumption, FS_Subset, FS_CardinalityType
<1>2. w \in [1 .. n -> Rows(c)] /\ \A i, j \in 1 .. n : w[i] = w[j] => i = j
  BY DEF Walks, SetToSeqs
<1>3. Cardinality(1 .. n) = n
  BY <1>1, FS_Interval
<1>. HIDE DEF n
<1>4. w \in Injection(1 .. n, Rows(c))
  BY <1>2 DEF Injection, IsInjective
<1>5. w \in Surjection(1 .. n, Rows(c))
  BY <1>1, <1>3, <1>4, FS_Injection DEF n
<1>6. \A q \in Rows(c) : \E i \in 1 .. n : w[i] = q
  BY <1>5 DEF Surjection
<1>. QED  BY <1>1, <1>2, <1>6 DEF n

\* Where numbers are not shared, the row at place i carries i: the chain below a row is
\* complete, so its numbers leave no gap.
LEMMA WalkInOrder ==
  ASSUME IInv, NEW c \in Chains, NEW w \in Walks(c),
         \A q, r \in Rows(c) : seq[q] = seq[r] => q = r
  PROVE  \A i \in DOMAIN w : seq[w[i]] = i
<1>. DEFINE n == Cardinality(Rows(c))
<1>1. /\ n \in Nat /\ DOMAIN w = 1 .. n
      /\ \A i \in 1 .. n : w[i] \in Rows(c)
      /\ \A i, j \in 1 .. n : w[i] = w[j] => i = j
      /\ \A q \in Rows(c) : \E i \in 1 .. n : w[i] = q
  BY WalkVisits
<1>2. \A i, j \in 1 .. n : i < j => seq[w[i]] <= seq[w[j]]
  BY <1>1 DEF Walks
<1>3. \A q \in Rows(c) : seq[q] \in Nat /\ seq[q] > 0
  BY DEF IInv, TypeOK, Rows
<1>4. \A q \in Rows(c) : \/ prev[q] = NoRow /\ seq[q] = 1
                         \/ prev[q] \in Rows(c) /\ seq[q] = seq[prev[q]] + 1
  BY DEF IInv, EveryRowLinked
<1>. DEFINE Bad == {i \in 1 .. n : seq[w[i]] # i}
<1>. SUFFICES ASSUME Bad # {} PROVE FALSE
  BY <1>1
<1>. HIDE DEF n
<1>5. PICK i \in Bad : \A j \in Bad : i <= j
  <2>1. Bad \in SUBSET Nat
    BY <1>1
  <2>. HIDE DEF Bad
  <2>. QED  BY <2>1, LeastNat
<1>6. \A j \in 1 .. n : j < i => seq[w[j]] = j
  BY <1>1, <1>5
<1>7. PICK k : k = seq[w[i]]
  OBVIOUS
<1>8. i \in 1 .. n /\ k \in Nat /\ k > 0 /\ k # i /\ w[i] \in Rows(c)
  BY <1>1, <1>3, <1>5, <1>7
<1>9. k > i
  <2>1. ASSUME k < i  PROVE FALSE
    <3>1. k \in 1 .. n /\ seq[w[k]] = k /\ w[k] \in Rows(c)
      BY <1>1, <1>6, <1>8, <2>1
    <3>2. w[k] = w[i]
      BY <1>7, <1>8, <3>1
    <3>. QED  BY <1>1, <1>8, <2>1, <3>1, <3>2
  <2>. QED  BY <1>1, <1>8, <2>1
<1>10. prev[w[i]] \in Rows(c) /\ k = seq[prev[w[i]]] + 1
  BY <1>1, <1>4, <1>7, <1>8, <1>9
<1>11. PICK m \in 1 .. n : w[m] = prev[w[i]]
  BY <1>1, <1>10
<1>12. seq[w[m]] = k - 1
  BY <1>3, <1>10, <1>11
<1>13. CASE m < i
  BY <1>1, <1>6, <1>8, <1>9, <1>12, <1>13
<1>14. CASE m = i
  BY <1>7, <1>8, <1>12, <1>14
<1>15. CASE i < m
  <2>1. k <= k - 1
    BY <1>2, <1>7, <1>8, <1>12, <1>15
  <2>. QED  BY <1>8, <2>1
<1>. QED  BY <1>1, <1>8, <1>13, <1>14, <1>15

LEMMA WalkVerdict ==
  ASSUME IInv, NEW c \in Chains, NEW w \in Walks(c)
  PROVE  WalkOk(w) <=> \A q, r \in Rows(c) : seq[q] = seq[r] => q = r
<1>1. PICK n \in Nat :
        /\ DOMAIN w = 1 .. n
        /\ \A i \in 1 .. n : w[i] \in Rows(c)
        /\ \A q \in Rows(c) : \E i \in 1 .. n : w[i] = q
  BY WalkVisits
<1>2. ASSUME WalkOk(w), NEW q \in Rows(c), NEW r \in Rows(c), seq[q] = seq[r]
      PROVE  q = r
  <2>1. PICK i \in 1 .. n, j \in 1 .. n : w[i] = q /\ w[j] = r
    BY <1>1
  <2>2. seq[q] = i /\ seq[r] = j
    BY <1>1, <1>2, <2>1 DEF WalkOk
  <2>. QED  BY <1>2, <2>1, <2>2
<1>3. ASSUME \A q, r \in Rows(c) : seq[q] = seq[r] => q = r
      PROVE  WalkOk(w)
  <2>1. \A i \in 1 .. n : seq[w[i]] = i
    BY <1>1, <1>3, WalkInOrder
  <2>. SUFFICES ASSUME NEW i \in 1 .. n
                PROVE  prev[w[i]] = IF i = 1 THEN NoRow ELSE w[i - 1]
    BY <1>1, <2>1 DEF WalkOk
  <2>2. w[i] \in Rows(c) /\ seq[w[i]] = i
    BY <1>1, <2>1
  <2>3. \/ prev[w[i]] = NoRow /\ i = 1
        \/ prev[w[i]] \in Rows(c) /\ i = seq[prev[w[i]]] + 1
    BY <2>2 DEF IInv, EveryRowLinked
  <2>4. \A q \in Rows(c) : seq[q] \in Nat /\ seq[q] > 0
    BY DEF IInv, TypeOK, Rows
  <2>5. CASE prev[w[i]] = NoRow /\ i = 1
    BY <2>5
  <2>6. CASE prev[w[i]] \in Rows(c) /\ i = seq[prev[w[i]]] + 1
    <3>1. i - 1 \in 1 .. n /\ seq[prev[w[i]]] = i - 1
      BY <2>4, <2>6
    <3>2. w[i - 1] \in Rows(c) /\ seq[w[i - 1]] = i - 1
      BY <1>1, <2>1, <3>1
    <3>3. prev[w[i]] = w[i - 1]
      BY <1>3, <2>6, <3>1, <3>2
    <3>. QED  BY <3>1, <3>3
  <2>. QED  BY <2>3, <2>5, <2>6
<1>. QED  BY <1>2, <1>3

\* verifyChain accepts a chain exactly when the writers never gave out a number twice.
THEOREM TrailWalk == Spec => []WalkAcceptsLinear
<1>1. IInv => WalkAcceptsLinear
  BY WalkVerdict DEF WalkAcceptsLinear
<1>. QED  BY <1>1, TrailInvariant, PTL

\* Below a row of a chain no number is missing: the least missing one would be the
\* predecessor of a number that is there.
LEMMA NumbersBelow ==
  ASSUME IInv, NEW c \in Chains, NEW q \in Rows(c), NEW n \in 1 .. seq[q]
  PROVE  \E r \in Rows(c) : seq[r] = n
<1>1. \A r \in Rows(c) : seq[r] \in Nat /\ seq[r] > 0
  BY DEF IInv, TypeOK, Rows
<1>2. \A r \in Rows(c) : \/ prev[r] = NoRow /\ seq[r] = 1
                         \/ prev[r] \in Rows(c) /\ seq[r] = seq[prev[r]] + 1
  BY DEF IInv, EveryRowLinked
<1>3. n \in Nat /\ n >= 1
  BY <1>1
<1>. DEFINE Above == {seq[r] : r \in {x \in Rows(c) : seq[x] >= n}}
<1>4. PICK k \in Above : \A m \in Above : k <= m
  <2>1. Above \in SUBSET Nat /\ seq[q] \in Above
    BY <1>1, <1>3
  <2>. HIDE DEF Above
  <2>. QED  BY <2>1, LeastNat
<1>5. PICK r \in Rows(c) : seq[r] = k /\ k >= n
  BY <1>4
<1>6. \A x \in Rows(c) : seq[x] >= n => seq[r] <= seq[x]
  BY <1>4, <1>5
<1>. HIDE DEF Above
<1>7. CASE prev[r] = NoRow /\ seq[r] = 1
  BY <1>3, <1>5, <1>7
<1>8. CASE prev[r] \in Rows(c) /\ seq[r] = seq[prev[r]] + 1
  <2>1. seq[prev[r]] \in Nat /\ ~(seq[prev[r]] >= n)
    BY <1>1, <1>6, <1>8
  <2>. QED  BY <1>3, <1>5, <1>8, <2>1
<1>. QED  BY <1>2, <1>7, <1>8

\* Whatever is lost, forked or raced, the rows of a chain are numbered from 1 without a
\* gap: the hash chain alone never shows that a row is missing (audit-writer.ts).
THEOREM TrailGapless ==
  Spec => [](\A c \in Chains : \A q \in Rows(c) : \A n \in 1 .. seq[q] :
               \E r \in Rows(c) : seq[r] = n)
<1>1. IInv => \A c \in Chains : \A q \in Rows(c) : \A n \in 1 .. seq[q] :
                \E r \in Rows(c) : seq[r] = n
  BY NumbersBelow
<1>. QED  BY <1>1, TrailInvariant, PTL

-----------------------------------------------------------------------------
(* Chains with one writer at a time.                                       *)

\* A chain with rows has a last one.
LEMMA LastExists ==
  ASSUME TypeOK, NEW c, Rows(c) # {}
  PROVE  LastOf(c) # {}
<1>1. IsFiniteSet(Rows(c))
  BY RequestsAssumption, FS_Subset DEF Rows
<1>2. \A q \in Rows(c) : seq[q] \in Nat
  BY DEF Rows, TypeOK
<1>3. PICK q \in Rows(c) : \A r \in Rows(c) : seq[r] <= seq[q]
  BY <1>1, <1>2, GreatestOf
<1>. QED  BY <1>3 DEF LastOf

LEMMA SerialInit == Init => SerialIInv
BY DEF Init, SerialIInv, NumberedOnce, SelectedIsLast, UnwrittenUnlinked, Rows

\* A step that writes no row and selects none.
LEMMA SerialQuiet ==
  ASSUME TypeOK, SerialIInv, UNCHANGED <<seq, prev, last>>, RowsStay,
         \A q \in Requests : pc'[q] \in {"queued", "holding"} =>
                              pc[q] \in {"queued", "holding"} /\ tenant'[q] = tenant[q]
  PROVE  SerialIInv'
<1>1. \A c : Rows(c)' = Rows(c)
  BY DEF Rows, RowsStay, TypeOK
<1>2. \A c : LastOf(c)' = LastOf(c)
  BY <1>1 DEF LastOf
<1>3. NumberedOnce' /\ UnwrittenUnlinked'
  BY <1>1 DEF SerialIInv, NumberedOnce, UnwrittenUnlinked
<1>4. SelectedIsLast'
  BY <1>1, <1>2 DEF SerialIInv, SelectedIsLast
<1>. QED  BY <1>3, <1>4 DEF SerialIInv

\* A writer selects the last row of its chain, or finds it empty.
LEMMA SerialSelect ==
  ASSUME IInv, SerialIInv, NEW q \in Requests, SelectLast(q)
  PROVE  SerialIInv'
<1>1. UNCHANGED <<tenant, seq, prev>> /\ pc[q] = "owes" /\ last[q] = NoRow
  BY DEF SelectLast, IInv, WriterFits
<1>2. \A c : Rows(c)' = Rows(c) /\ LastOf(c)' = LastOf(c)
  BY <1>1 DEF Rows, LastOf
<1>3. \A r \in Requests \ {q} : pc'[r] = pc[r] /\ last'[r] = last[r]
  BY DEF SelectLast, IInv, TypeOK
<1>4. IF last'[q] = NoRow THEN Rows(tenant[q]) = {} ELSE last'[q] \in LastOf(tenant[q])
  <2>1. CASE LastOf(tenant[q]) = {} /\ UNCHANGED last
    BY <1>1, <2>1, LastExists DEF IInv, TypeOK
  <2>2. CASE \E l \in LastOf(tenant[q]) : last' = [last EXCEPT ![q] = l]
    BY <2>2, NoRowAssumption DEF IInv, TypeOK, LastOf, Rows
  <2>. QED  BY <2>1, <2>2 DEF SelectLast
<1>5. NumberedOnce' /\ UnwrittenUnlinked'
  BY <1>1, <1>2 DEF SerialIInv, NumberedOnce, UnwrittenUnlinked
<1>6. SelectedIsLast'
  BY <1>1, <1>2, <1>3, <1>4 DEF SerialIInv, SelectedIsLast
<1>. QED  BY <1>5, <1>6 DEF SerialIInv

\* The only writer of a chain appends behind its last row.
LEMMA SerialAppend ==
  ASSUME IInv, SerialIInv, OneWriterPerChain, NEW q \in Requests, AppendRow(q)
  PROVE  SerialIInv'
<1>0. PICK c, l : c = tenant[q] /\ l = last[q]
  OBVIOUS
<1>1. /\ pc[q] = "holding" /\ tenant' = tenant /\ last' = last
      /\ pc' = [pc EXCEPT ![q] = "written"]
      /\ seq' = [seq EXCEPT ![q] = NextSeq(l)]
      /\ prev' = [prev EXCEPT ![q] = l]
  BY <1>0 DEF AppendRow
<1>2. /\ c \in Chains /\ seq[q] = 0 /\ l \in Requests \cup {NoRow}
      /\ IF l = NoRow THEN Rows(c) = {} ELSE l \in LastOf(c)
  BY <1>0, <1>1 DEF IInv, TypeOK, WriterFits, SerialIInv, SelectedIsLast
<1>3. \A r \in Rows(c) : seq[r] \in Nat /\ seq[r] < NextSeq(l)
  BY <1>2, NoRowAssumption DEF NextSeq, LastOf, Rows, IInv, TypeOK
<1>4. NextSeq(l) \in Nat /\ NextSeq(l) > 0
  BY <1>2 DEF NextSeq, IInv, TypeOK
<1>5. Rows(c)' = Rows(c) \cup {q} /\ \A d \in Chains \ {c} : Rows(d)' = Rows(d)
  BY <1>0, <1>1, <1>2, <1>4 DEF Rows, IInv, TypeOK
<1>6. q \notin Rows(c) /\ seq'[q] = NextSeq(l) /\ \A r \in Requests \ {q} : seq'[r] = seq[r]
  BY <1>1, <1>2 DEF Rows, IInv, TypeOK
<1>7. NumberedOnce'
  <2>. SUFFICES ASSUME NEW d \in Chains, NEW r \in Rows(d)', NEW t \in Rows(d)',
                       seq'[r] = seq'[t]
                PROVE  r = t
    BY DEF NumberedOnce
  <2>1. r \in Requests /\ t \in Requests
    BY DEF Rows
  <2>2. CASE d # c
    <3>1. r \in Rows(d) /\ t \in Rows(d) /\ r # q /\ t # q
      BY <1>0, <1>5, <2>2 DEF Rows
    <3>. QED  BY <1>6, <2>1, <3>1 DEF SerialIInv, NumberedOnce
  <2>3. CASE d = c
    <3>1. CASE r # q /\ t # q
      <4>1. r \in Rows(c) /\ t \in Rows(c)
        BY <1>5, <2>3, <3>1
      <4>. QED  BY <1>2, <1>6, <2>1, <3>1, <4>1 DEF SerialIInv, NumberedOnce
    <3>2. CASE r = q \/ t = q
      BY <1>3, <1>4, <1>5, <1>6, <2>1, <2>3, <3>2
    <3>. QED  BY <3>1, <3>2
  <2>. QED  BY <2>2, <2>3
<1>8. SelectedIsLast'
  <2>. SUFFICES ASSUME NEW r \in Requests, pc'[r] \in {"queued", "holding"}
                PROVE  IF last[r] = NoRow THEN Rows(tenant[r])' = {}
                                          ELSE last[r] \in LastOf(tenant[r])'
    BY <1>1 DEF SelectedIsLast
  <2>1. r # q /\ pc[r] \in {"queued", "holding"}
    BY <1>1 DEF IInv, TypeOK
  <2>2. tenant[r] # c /\ tenant[r] \in Chains
    BY <1>0, <1>1, <2>1 DEF OneWriterPerChain, IInv, TypeOK
  <2>3. Rows(tenant[r])' = Rows(tenant[r])
    BY <1>1, <1>5, <2>2
  <2>4. LastOf(tenant[r])' = LastOf(tenant[r])
    <3>1. \A t \in Rows(tenant[r]) : seq'[t] = seq[t]
      BY <1>0, <1>6, <2>2 DEF Rows
    <3>. QED  BY <1>1, <2>3, <3>1 DEF LastOf
  <2>. QED  BY <2>1, <2>3, <2>4 DEF SerialIInv, SelectedIsLast
<1>9. UnwrittenUnlinked'
  BY <1>1, <1>4 DEF SerialIInv, UnwrittenUnlinked, IInv, TypeOK
<1>. QED  BY <1>7, <1>8, <1>9 DEF SerialIInv

LEMMA SerialStep ==
  ASSUME IInv, SerialIInv, OneWriterPerChain, [Next]_vars
  PROVE  SerialIInv'
<1>1. ASSUME NEW q \in Requests,
             \/ Begin(q) \/ Refuse(q) \/ Commit(q) \/ RollBack(q) \/ LockLast(q) \/ WriteFails(q)
      PROVE  SerialIInv'
  <2>1. UNCHANGED <<seq, prev, last>>
    BY <1>1 DEF Begin, Refuse, Commit, RollBack, LockLast, WriteFails
  <2>2. pc[q] \in {"new", "running"} => seq[q] = 0
    BY DEF IInv, WriterFits, TypeOK
  <2>3. RowsStay
    BY <1>1, <2>1, <2>2 DEF RowsStay, Begin, Refuse, Commit, RollBack, LockLast, WriteFails,
       IInv, TypeOK
  <2>4. \A r \in Requests : pc'[r] \in {"queued", "holding"} =>
                            pc[r] \in {"queued", "holding"} /\ tenant'[r] = tenant[r]
    BY <1>1 DEF Begin, Refuse, Commit, RollBack, LockLast, WriteFails, IInv, TypeOK
  <2>. QED  BY <2>1, <2>3, <2>4, SerialQuiet DEF IInv
<1>2. CASE Crash \/ UNCHANGED vars
  <2>1. UNCHANGED <<tenant, seq, prev, last>>
    BY <1>2 DEF Crash, vars
  <2>2. RowsStay
    BY <2>1 DEF RowsStay
  <2>3. \A r \in Requests : pc'[r] \in {"queued", "holding"} => pc[r] = pc'[r]
    BY <1>2 DEF Crash, vars
  <2>. QED  BY <2>1, <2>2, <2>3, SerialQuiet DEF IInv
<1>. QED  BY <1>1, <1>2, SerialSelect, SerialAppend DEF Next, Writer

\* The comment on the row lock holds when the audit writes of a chain do not overlap
\* from the select to the insert: no two rows follow the same row, and verifyChain
\* accepts every chain, in every order of the rows it may get, of which there is one.
THEOREM SerialWritersCannotFork ==
  Spec /\ []OneWriterPerChain
    => [](/\ ChainCannotFork
          /\ \A c \in Chains : Walks(c) # {} /\ \A w \in Walks(c) : WalkOk(w))
<1>1. IInv /\ SerialIInv /\ OneWriterPerChain /\ [Next]_vars => SerialIInv'
  BY SerialStep
<1>2. ASSUME IInv, SerialIInv, WalkAcceptsLinear
      PROVE  /\ ChainCannotFork
             /\ \A c \in Chains : Walks(c) # {} /\ \A w \in Walks(c) : WalkOk(w)
  <2>1. ChainCannotFork
    <3>. SUFFICES ASSUME NEW q \in Requests, NEW r \in Requests,
                         prev[q] = prev[r], prev[q] # NoRow
                  PROVE  q = r
      BY DEF ChainCannotFork
    <3>1. /\ seq[q] \in Nat /\ seq[r] \in Nat /\ seq[q] # 0 /\ seq[r] # 0
          /\ tenant[q] \in Chains /\ tenant[r] \in Chains
      BY <1>2 DEF SerialIInv, UnwrittenUnlinked, IInv, TypeOK
    <3>2. q \in Rows(tenant[q]) /\ r \in Rows(tenant[r])
      BY <3>1 DEF Rows
    <3>3. /\ prev[q] \in Rows(tenant[q]) /\ seq[q] = seq[prev[q]] + 1
          /\ prev[r] \in Rows(tenant[r]) /\ seq[r] = seq[prev[r]] + 1
      BY <1>2, <3>1, <3>2 DEF IInv, EveryRowLinked
    <3>4. tenant[q] = tenant[r] /\ seq[q] = seq[r]
      BY <3>3 DEF Rows
    <3>. QED  BY <1>2, <3>1, <3>2, <3>4 DEF SerialIInv, NumberedOnce
  <2>2. \A c \in Chains : Walks(c) # {}
    BY <1>2, WalkExists DEF IInv
  <2>. QED  BY <1>2, <2>1, <2>2 DEF WalkAcceptsLinear, SerialIInv, NumberedOnce
<1>. QED  BY <1>1, <1>2, SerialInit, TrailInvariant, TrailWalk, PTL DEF Spec
=============================================================================
