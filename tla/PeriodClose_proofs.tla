------------------------- MODULE PeriodClose_proofs -------------------------
(***************************************************************************)
(* Safety of the governed close over the ledger, for any months, users,    *)
(* steps, dependencies and numbers of concurrent requests of both kinds.   *)
(* CloseIInv of PeriodClose is inductive.  A ledger step leaves the close  *)
(* alone and locks no period; a close step leaves the books alone, and the *)
(* ledger's invariant survives any change of the calendar.                 *)
(***************************************************************************)
EXTENDS PeriodClose, GeneralLedger_proofs

\* What the tables of the close say.
CloseTables ==
  /\ run \in [Periods -> RunStatuses]
  /\ startedBy \in [Periods -> Users \cup {Nobody}]
  /\ lockedBy \in [Periods -> Users \cup {Nobody}]
  /\ done \in [Periods -> SUBSET Steps]
  /\ LockedHasRun
  /\ LockedOnlyWhenComplete
  /\ DependenciesFirst
  /\ LockIsTwoPerson

\* What the close requests hold.
CloseRequestsOK ==
  /\ cpc \in [Closers -> ClosePhases]
  /\ DOMAIN carg = Closers
  /\ \A c \in Closers : CloseArgTyped(c) /\ CloseHolds(c)

\* What no step may undo: a run and its starter stay, and steps stay Done.
ClosePersist ==
  \A p \in Periods :
    /\ run[p] # "none" => run'[p] # "none" /\ startedBy'[p] = startedBy[p]
    /\ done[p] \subseteq done'[p]

LEMMA CloseHalves ==
  /\ CloseIInv <=> IInv /\ CloseTables /\ CloseRequestsOK
  /\ CloseIInv' <=> IInv' /\ CloseTables' /\ CloseRequestsOK'
BY DEF CloseIInv, IInv, CloseTypeOK, CloseTables, CloseRequestsOK

\* The calendar of the ledger is typed.
LEMMA PeriodTyped ==
  ASSUME IInv
  PROVE  period \in [Periods -> {"Open", "Closed", "Locked"}]
BY DEF IInv, TypeOK, LedgerTyped

LEMMA CloseInitIInv == CloseInit => CloseIInv
<1>. SUFFICES ASSUME CloseInit PROVE CloseIInv
  OBVIOUS
<1>1. IInv
  BY InitIInv DEF CloseInit
<1>2. CloseTables
  BY DEF CloseInit, Init, CloseTables, RunStatuses, LockedHasRun, LockedOnlyWhenComplete,
     DependenciesFirst, LockIsTwoPerson
<1>3. CloseRequestsOK
  BY DEF CloseInit, CloseRequestsOK, ClosePhases, CompletePhases, CloseArgTyped, CloseHolds
<1>. QED  BY <1>1, <1>2, <1>3, CloseHalves

-----------------------------------------------------------------------------
(* A close request moves.                                                  *)

\* CloseGoto changes the request it names, and no other.
LEMMA CloseGotoMoves ==
  ASSUME cpc \in [Closers -> ClosePhases], DOMAIN carg = Closers,
         NEW c \in Closers, NEW pc \in ClosePhases, NEW a, CloseGoto(c, pc, a)
  PROVE  /\ cpc' \in [Closers -> ClosePhases]
         /\ DOMAIN carg' = Closers
         /\ cpc'[c] = pc /\ carg'[c] = a
         /\ \A d \in Closers \ {c} : cpc'[d] = cpc[d] /\ carg'[d] = carg[d]
BY DEF CloseGoto

\* What a request holds survives the steps of others.
LEMMA CloseOthersHold ==
  ASSUME ClosePersist, NEW d \in Closers, CloseArgTyped(d), CloseHolds(d),
         cpc'[d] = cpc[d], carg'[d] = carg[d]
  PROVE  (CloseArgTyped(d) /\ CloseHolds(d))'
<1>1. CloseArgTyped(d)'
  BY DEF CloseArgTyped, CompletePhases
<1>2. cpc[d] # "idle" => carg[d].period \in Periods
  BY DEF CloseArgTyped
<1>3. CloseHolds(d)'
  BY <1>2 DEF CloseHolds, ClosePersist, DependencyMet, CompletePhases
<1>. QED  BY <1>1, <1>3

\* A request moves to a place where what it holds is right.
LEMMA CloseRequestsMove ==
  ASSUME CloseRequestsOK, ClosePersist,
         NEW c \in Closers, NEW pc \in ClosePhases, NEW a, CloseGoto(c, pc, a),
         (CloseArgTyped(c) /\ CloseHolds(c))'
  PROVE  CloseRequestsOK'
BY CloseGotoMoves, CloseOthersHold DEF CloseRequestsOK

\* A request ends.
LEMMA CloseRequestsFinish ==
  ASSUME CloseRequestsOK, ClosePersist, NEW c \in Closers, CloseFinish(c)
  PROVE  CloseRequestsOK'
<1>1. cpc'[c] = "idle" /\ CloseGoto(c, "idle", NoCloseArg) /\ "idle" \in ClosePhases
  BY CloseGotoMoves DEF CloseRequestsOK, CloseFinish, ClosePhases
<1>2. (CloseArgTyped(c) /\ CloseHolds(c))'
  BY <1>1 DEF CloseArgTyped, CloseHolds, CompletePhases
<1>. QED  BY <1>1, <1>2, CloseRequestsMove

\* The steps of a request that touch no table.
CloseReading(c) ==
  \/ StartRead(c) \/ CompleteRead(c) \/ AutoRead(c) \/ CompleteEval(c)
  \/ LockRead(c) \/ ReopenRead(c) \/ CloseAbort(c)

LEMMA CloseReadingKeeps ==
  ASSUME CloseTables, CloseRequestsOK, NEW c \in Closers, CloseReading(c)
  PROVE  UNCHANGED <<glVars, closeTables>> /\ CloseTables' /\ CloseRequestsOK'
<1>1. UNCHANGED <<glVars, closeTables>>
  BY DEF CloseReading, StartRead, CompleteRead, AutoRead, CompleteEval, LockRead, ReopenRead,
     CloseAbort
<1>2. CloseTables' /\ ClosePersist
  BY <1>1 DEF CloseTables, closeTables, glVars, LockedHasRun, LockedOnlyWhenComplete,
     DependenciesFirst, DependencyMet, LockIsTwoPerson, ClosePersist
<1>3. UNCHANGED <<run, startedBy, lockedBy, done>>
  BY <1>1 DEF closeTables
<1>4. CASE StartRead(c)
  <2>1. PICK p \in Periods, u \in Users : CloseGoto(c, "start", [period |-> p, by |-> u])
    BY <1>4 DEF StartRead
  <2>2. cpc'[c] = "start" /\ carg'[c] = [period |-> p, by |-> u]
    BY <2>1, CloseGotoMoves DEF CloseRequestsOK, ClosePhases
  <2>3. (CloseArgTyped(c) /\ CloseHolds(c))'
    BY <2>2 DEF CloseArgTyped, CloseHolds, CompletePhases
  <2>. QED  BY <1>1, <1>2, <2>1, <2>3, CloseRequestsMove DEF ClosePhases
<1>5. ASSUME CompleteRead(c) \/ AutoRead(c)
      PROVE  CloseRequestsOK'
  <2>1. PICK p \in Periods, found \in SUBSET Steps, pc \in {"complete", "auto"} :
          /\ run[p] \in {"InProgress", "ReadyToLock"}
          /\ pc = "auto" => \A s \in found : DependencyMet(p, s)
          /\ CloseGoto(c, pc, [period |-> p, steps |-> found, run |-> run[p]])
    BY <1>5, StepsAssumption DEF CompleteRead, AutoRead
  <2>2. cpc'[c] = pc /\ carg'[c] = [period |-> p, steps |-> found, run |-> run[p]]
    BY <2>1, CloseGotoMoves DEF CloseRequestsOK, ClosePhases
  <2>3. (CloseArgTyped(c) /\ CloseHolds(c))'
    BY <1>3, <2>1, <2>2 DEF CloseArgTyped, CloseHolds, CompletePhases, RunStatuses, DependencyMet
  <2>. QED  BY <1>2, <2>1, <2>3, CloseRequestsMove DEF ClosePhases
<1>6. CASE CompleteEval(c)
  <2>. DEFINE a == carg[c]
              ready == Required \subseteq done[a.period] \cup a.steps /\ a.run # "ReadyToLock"
              b == [period |-> a.period, steps |-> a.steps, run |-> a.run, ready |-> ready]
  <2>1. MayTick(c) /\ CloseGoto(c, "completeCommit", b)
    BY <1>6 DEF CompleteEval
  <2>2. /\ a.period \in Periods /\ a.steps \subseteq Steps /\ a.run \in RunStatuses
        /\ run[a.period] # "none"
        /\ \A s \in a.steps : DependencyMet(a.period, s)
    BY <2>1 DEF CloseRequestsOK, CloseArgTyped, CloseHolds, CompletePhases, MayTick
  <2>3. cpc'[c] = "completeCommit" /\ carg'[c] = b
    BY <2>1, CloseGotoMoves DEF CloseRequestsOK, ClosePhases
  <2>4. /\ b.period = a.period /\ b.steps = a.steps /\ b.run = a.run /\ b.ready \in BOOLEAN
        /\ b.ready => Required \subseteq done[a.period] \cup a.steps
    OBVIOUS
  <2>. HIDE DEF a, b
  <2>5. (CloseArgTyped(c) /\ CloseHolds(c))'
    BY <1>3, <2>1, <2>2, <2>3, <2>4 DEF CloseArgTyped, CloseHolds, CompletePhases, DependencyMet
  <2>. QED  BY <1>1, <1>2, <2>1, <2>5, CloseRequestsMove DEF ClosePhases
<1>7. CASE LockRead(c)
  <2>1. PICK p \in Periods, u \in Users :
          /\ run[p] = "ReadyToLock"
          /\ u # startedBy[p] \/ SelfApproval
          /\ CloseGoto(c, "lock", [period |-> p, by |-> u])
    BY <1>7 DEF LockRead
  <2>2. cpc'[c] = "lock" /\ carg'[c] = [period |-> p, by |-> u]
    BY <2>1, CloseGotoMoves DEF CloseRequestsOK, ClosePhases
  <2>3. Required \subseteq done[p]
    BY <2>1 DEF CloseTables, LockedOnlyWhenComplete
  <2>4. (CloseArgTyped(c) /\ CloseHolds(c))'
    BY <1>3, <2>1, <2>2, <2>3 DEF CloseArgTyped, CloseHolds, CompletePhases
  <2>. QED  BY <1>1, <1>2, <2>1, <2>4, CloseRequestsMove DEF ClosePhases
<1>8. CASE ReopenRead(c)
  <2>1. PICK p \in Periods, u \in Users :
          run[p] = "Locked" /\ CloseGoto(c, "reopen", [period |-> p, by |-> u])
    BY <1>8 DEF ReopenRead
  <2>2. cpc'[c] = "reopen" /\ carg'[c] = [period |-> p, by |-> u]
    BY <2>1, CloseGotoMoves DEF CloseRequestsOK, ClosePhases
  <2>3. Required \subseteq done[p]
    BY <2>1 DEF CloseTables, LockedOnlyWhenComplete
  <2>4. (CloseArgTyped(c) /\ CloseHolds(c))'
    BY <1>3, <2>1, <2>2, <2>3 DEF CloseArgTyped, CloseHolds, CompletePhases
  <2>. QED  BY <1>1, <1>2, <2>1, <2>4, CloseRequestsMove DEF ClosePhases
<1>9. CASE CloseAbort(c)
  BY <1>2, <1>9, CloseRequestsFinish DEF CloseAbort
<1>. QED  BY <1>1, <1>2, <1>4, <1>5, <1>6, <1>7, <1>8, <1>9 DEF CloseReading

-----------------------------------------------------------------------------
(* The four commits of the close.                                          *)

CloseWriting(c) ==
  StartCommit(c) \/ CompleteCommit(c) \/ LockCommit(c) \/ ReopenCommit(c)

\* A commit leaves the books and the ledger's requests alone.
LEMMA CloseWritingCalendar ==
  ASSUME IInv, CloseRequestsOK, NEW c \in Closers, CloseWriting(c)
  PROVE  /\ UNCHANGED <<bookVars, rpc, arg>>
         /\ period' \in [Periods -> {"Open", "Closed", "Locked"}]
BY PeriodTyped DEF CloseWriting, StartCommit, CompleteCommit, LockCommit, ReopenCommit,
   glVars, bookVars

LEMMA CloseWritingTables ==
  ASSUME IInv, CloseTables, CloseRequestsOK, NEW c \in Closers, CloseWriting(c)
  PROVE  CloseTables' /\ ClosePersist /\ CloseFinish(c)
<1>. DEFINE a == carg[c]   p == a.period
<1>1. CloseFinish(c)
  BY DEF CloseWriting, StartCommit, CompleteCommit, LockCommit, ReopenCommit
<1>2. p \in Periods /\ CloseArgTyped(c) /\ CloseHolds(c)
  BY DEF CloseWriting, StartCommit, CompleteCommit, LockCommit, ReopenCommit,
     CloseRequestsOK, CloseArgTyped
<1>3. CASE StartCommit(c)
  <2>1. /\ cpc[c] = "start" /\ run[p] = "none" /\ a.by \in Users
        /\ run' = [run EXCEPT ![p] = "InProgress"]
        /\ startedBy' = [startedBy EXCEPT ![p] = a.by]
        /\ UNCHANGED <<period, lockedBy, done>>
    BY <1>2, <1>3 DEF StartCommit, CloseArgTyped, glVars
  <2>. HIDE DEF a, p
  <2>2. ClosePersist
    BY <1>2, <2>1 DEF ClosePersist, CloseTables
  <2>3. /\ run' \in [Periods -> RunStatuses]
        /\ startedBy' \in [Periods -> Users \cup {Nobody}]
        /\ lockedBy' \in [Periods -> Users \cup {Nobody}]
        /\ done' \in [Periods -> SUBSET Steps]
    BY <1>2, <2>1 DEF CloseTables, RunStatuses
  <2>4. period[p] # "Locked"
    BY <1>2, <2>1 DEF CloseTables, LockedHasRun
  <2>5. LockedHasRun' /\ LockedOnlyWhenComplete' /\ DependenciesFirst'
    BY <1>2, <2>1, <2>4 DEF CloseTables, LockedHasRun, LockedOnlyWhenComplete,
       DependenciesFirst, DependencyMet
  <2>6. LockIsTwoPerson'
    BY <1>2, <2>1, <2>4 DEF CloseTables, LockIsTwoPerson
  <2>. QED  BY <1>1, <2>2, <2>3, <2>5, <2>6 DEF CloseTables
<1>4. CASE CompleteCommit(c)
  <2>1. /\ a.steps \subseteq Steps /\ run[p] # "none"
        /\ \A s \in a.steps : DependencyMet(p, s)
        /\ a.ready => Required \subseteq done[p] \cup a.steps
        /\ done' = [done EXCEPT ![p] = @ \cup a.steps]
        /\ run' = IF a.ready THEN [run EXCEPT ![p] = "ReadyToLock"] ELSE run
        /\ UNCHANGED <<period, startedBy, lockedBy>>
    BY <1>2, <1>4 DEF CompleteCommit, CloseArgTyped, CloseHolds, CompletePhases, glVars
  <2>. HIDE DEF a, p
  <2>2. ClosePersist
    BY <1>2, <2>1 DEF ClosePersist, CloseTables
  <2>3. /\ run' \in [Periods -> RunStatuses]
        /\ startedBy' \in [Periods -> Users \cup {Nobody}]
        /\ lockedBy' \in [Periods -> Users \cup {Nobody}]
        /\ done' \in [Periods -> SUBSET Steps]
    BY <1>2, <2>1 DEF CloseTables, RunStatuses
  <2>4. LockedHasRun' /\ LockedOnlyWhenComplete'
    BY <1>2, <2>1 DEF CloseTables, LockedHasRun, LockedOnlyWhenComplete
  <2>5. DependenciesFirst'
    BY <1>2, <2>1 DEF CloseTables, DependenciesFirst, DependencyMet
  <2>6. LockIsTwoPerson'
    BY <1>2, <2>1 DEF CloseTables, LockIsTwoPerson
  <2>. QED  BY <1>1, <2>2, <2>3, <2>4, <2>5, <2>6 DEF CloseTables
<1>5. CASE LockCommit(c)
  <2>1. /\ a.by \in Users /\ run[p] # "none" /\ Required \subseteq done[p]
        /\ a.by # startedBy[p] \/ SelfApproval
        /\ run' = [run EXCEPT ![p] = "Locked"]
        /\ lockedBy' = [lockedBy EXCEPT ![p] = a.by]
        /\ period' = [period EXCEPT ![p] = "Locked"]
        /\ UNCHANGED <<startedBy, done>>
    BY <1>2, <1>5 DEF LockCommit, CloseArgTyped, CloseHolds, CompletePhases
  <2>. HIDE DEF a, p
  <2>2. ClosePersist
    BY <1>2, <2>1 DEF ClosePersist, CloseTables
  <2>3. /\ run' \in [Periods -> RunStatuses]
        /\ startedBy' \in [Periods -> Users \cup {Nobody}]
        /\ lockedBy' \in [Periods -> Users \cup {Nobody}]
        /\ done' \in [Periods -> SUBSET Steps]
    BY <1>2, <2>1 DEF CloseTables, RunStatuses
  <2>4. LockedHasRun' /\ LockedOnlyWhenComplete' /\ DependenciesFirst'
    BY <1>2, <2>1, PeriodTyped DEF CloseTables, LockedHasRun, LockedOnlyWhenComplete,
       DependenciesFirst, DependencyMet
  <2>5. LockIsTwoPerson'
    BY <1>2, <2>1, PeriodTyped, UsersAssumption DEF CloseTables, LockIsTwoPerson
  <2>. QED  BY <1>1, <2>2, <2>3, <2>4, <2>5 DEF CloseTables
<1>6. CASE ReopenCommit(c)
  <2>1. /\ run[p] # "none" /\ Required \subseteq done[p]
        /\ run' = [run EXCEPT ![p] = "ReadyToLock"]
        /\ lockedBy' = [lockedBy EXCEPT ![p] = Nobody]
        /\ period' = [period EXCEPT ![p] = "Open"]
        /\ UNCHANGED <<startedBy, done>>
    BY <1>2, <1>6 DEF ReopenCommit, CloseHolds, CompletePhases
  <2>. HIDE DEF a, p
  <2>2. ClosePersist
    BY <1>2, <2>1 DEF ClosePersist, CloseTables
  <2>3. /\ run' \in [Periods -> RunStatuses]
        /\ startedBy' \in [Periods -> Users \cup {Nobody}]
        /\ lockedBy' \in [Periods -> Users \cup {Nobody}]
        /\ done' \in [Periods -> SUBSET Steps]
    BY <1>2, <2>1 DEF CloseTables, RunStatuses
  <2>4. LockedHasRun' /\ LockedOnlyWhenComplete' /\ DependenciesFirst'
    BY <1>2, <2>1, PeriodTyped DEF CloseTables, LockedHasRun, LockedOnlyWhenComplete,
       DependenciesFirst, DependencyMet
  <2>5. LockIsTwoPerson'
    BY <1>2, <2>1, PeriodTyped DEF CloseTables, LockIsTwoPerson
  <2>. QED  BY <1>1, <2>2, <2>3, <2>4, <2>5 DEF CloseTables
<1>. QED  BY <1>3, <1>4, <1>5, <1>6 DEF CloseWriting

-----------------------------------------------------------------------------
(* A ledger step.                                                          *)

\* The ledger closes and opens periods, and never locks one.
LEMMA LedgerLocksNothing ==
  ASSUME IInv, Next, NEW p \in Periods, period'[p] = "Locked"
  PROVE  period[p] = "Locked"
<1>. USE PeriodTyped
<1>1. ASSUME NEW r \in Requests, Request(r)  PROVE period[p] = "Locked"
  <2>1. CASE ClosePeriodCommit(r)
    BY <2>1 DEF ClosePeriodCommit
  <2>2. CASE CloseYearCommit(r)
    BY <2>2 DEF CloseYearCommit
  <2>3. CASE period' = period
    BY <2>3
  <2>. QED
    BY <1>1, <2>1, <2>2, <2>3 DEF Request, PostGate, PostCommit, ApproveRead, ApproveGate,
       ApproveCommit, RejectRead, RejectCommit, ReverseRead, ReverseGate, ReverseCommit,
       ClosePeriodRead, CloseYearRead, Abort, ledgerVars
<1>2. ASSUME NEW q \in Periods, OpenPeriod(q)  PROVE period[p] = "Locked"
  BY <1>2 DEF OpenPeriod
<1>. QED  BY <1>1, <1>2 DEF Next

LEMMA LedgerKeepsClose ==
  ASSUME CloseIInv, [Next]_glVars, UNCHANGED closeVars
  PROVE  CloseIInv'
<1>. USE CloseHalves
<1>1. IInv'
  BY NextIInv
<1>2. \A p \in Periods : period'[p] = "Locked" => period[p] = "Locked"
  BY LedgerLocksNothing DEF glVars
<1>3. CloseTables' /\ ClosePersist
  BY <1>2 DEF closeVars, CloseTables, LockedHasRun, LockedOnlyWhenComplete,
     DependenciesFirst, DependencyMet, LockIsTwoPerson, ClosePersist
<1>4. CloseRequestsOK'
  BY <1>3, CloseOthersHold DEF CloseRequestsOK, closeVars
<1>. QED  BY <1>1, <1>3, <1>4

-----------------------------------------------------------------------------
(* The theorems.                                                           *)

LEMMA CloseNextIInv ==
  ASSUME CloseIInv, [CloseNext]_vars
  PROVE  CloseIInv'
<1>. USE CloseHalves
<1>1. ASSUME NEW c \in Closers, CloseRequest(c)  PROVE CloseIInv'
  <2>1. CASE CloseReading(c)
    <3>1. UNCHANGED glVars /\ CloseTables' /\ CloseRequestsOK'
      BY <2>1, CloseReadingKeeps
    <3>2. IInv'
      BY <3>1, NextIInv
    <3>. QED  BY <3>1, <3>2
  <2>2. CASE CloseWriting(c)
    BY <2>2, CloseWritingCalendar, CalendarKeepsIInv, CloseWritingTables,
       CloseRequestsFinish
  <2>. QED  BY <1>1, <2>1, <2>2 DEF CloseRequest, CloseReading, CloseWriting
<1>2. CASE Next /\ UNCHANGED closeVars
  BY <1>2, LedgerKeepsClose
<1>3. CASE UNCHANGED vars
  BY <1>3, LedgerKeepsClose DEF vars
<1>. QED  BY <1>1, <1>2, <1>3 DEF CloseNext

\* CloseIInv, and with it the invariant of the ledger, holds of the composition.
THEOREM CloseInvariant == CloseSpec => []CloseIInv
<1>. QED  BY CloseInitIInv, CloseNextIInv, PTL DEF CloseSpec

\* The tables and requests of ledger and close have their types.
THEOREM CloseTypes == CloseSpec => []CloseTypeOK
BY CloseInvariant, PTL DEF CloseIInv

\* A run is ready or locked only when its required steps are Done, although the
\* decision is taken on an old read of them.
THEOREM CloseComplete == CloseSpec => []LockedOnlyWhenComplete
BY CloseInvariant, PTL DEF CloseIInv

\* No step is Done before the one it depends on.
THEOREM CloseOrdered == CloseSpec => []DependenciesFirst
BY CloseInvariant, PTL DEF CloseIInv

\* A hard-locked period has a locker who did not start its close.
THEOREM CloseTwoPersons == CloseSpec => []LockIsTwoPerson
BY CloseInvariant, PTL DEF CloseIInv

-----------------------------------------------------------------------------
(* The action properties.                                                  *)

\* A close request that moves leaves the others where they are.
LEMMA CloseOthersStay ==
  ASSUME CloseRequestsOK, NEW c \in Closers, CloseRequest(c)
  PROVE  \A d \in Closers \ {c} : cpc'[d] = cpc[d] /\ carg'[d] = carg[d]
<1>1. \E pc \in ClosePhases : \E a : CloseGoto(c, pc, a)
  BY DEF CloseRequest, StartRead, StartCommit, CompleteRead, AutoRead, CompleteEval,
     CompleteCommit, LockRead, LockCommit, ReopenRead, ReopenCommit, CloseAbort,
     CloseFinish, ClosePhases
<1>. QED  BY <1>1, CloseGotoMoves DEF CloseRequestsOK

\* The request that moves does not join the completions of a Locked run.
LEMMA CloseMoverStaysOut ==
  ASSUME CloseRequestsOK, NEW c \in Closers, CloseRequest(c),
         NEW p \in Periods, run[p] = "Locked", c \in Completing(p)'
  PROVE  c \in Completing(p)
<1>1. cpc'[c] \in CompletePhases /\ carg'[c].period = p
  BY DEF Completing
<1>2. CASE CompleteRead(c) \/ AutoRead(c)
  <2>1. PICK q \in Periods, s \in SUBSET Steps, pc \in ClosePhases :
          /\ run[q] \in {"InProgress", "ReadyToLock"}
          /\ CloseGoto(c, pc, [period |-> q, steps |-> s, run |-> run[q]])
    BY <1>2, StepsAssumption DEF CompleteRead, AutoRead, ClosePhases
  <2>2. carg'[c] = [period |-> q, steps |-> s, run |-> run[q]]
    BY <2>1, CloseGotoMoves DEF CloseRequestsOK
  <2>. QED  BY <1>1, <2>1, <2>2
<1>3. CASE CompleteEval(c)
  <2>1. PICK a : a.period = carg[c].period /\ CloseGoto(c, "completeCommit", a)
    BY <1>3 DEF CompleteEval
  <2>2. carg'[c] = a
    BY <2>1, CloseGotoMoves DEF CloseRequestsOK, ClosePhases
  <2>. QED  BY <1>1, <1>3, <2>1, <2>2 DEF Completing, CompleteEval, MayTick, CompletePhases
<1>4. ASSUME NEW pc \in ClosePhases \ CompletePhases, NEW a,
             CloseGoto(c, pc, a)
      PROVE  FALSE
  BY <1>1, <1>4, CloseGotoMoves DEF CloseRequestsOK
<1>. QED
  BY <1>2, <1>3, <1>4 DEF CloseRequest, StartRead, StartCommit, CompleteCommit, LockRead,
     LockCommit, ReopenRead, ReopenCommit, CloseAbort, CloseFinish, ClosePhases,
     CompletePhases

\* What a request does to a Locked run.
LEMMA CloseLockedRun ==
  ASSUME CloseTables, CloseRequestsOK, NEW c \in Closers, CloseRequest(c),
         NEW p \in Periods, run[p] = "Locked"
  PROVE  \/ Completing(p) # {}
         \/ run'[p] = "Locked"
         \/ cpc[c] = "reopen" /\ carg[c].period = p /\ cpc'[c] = "idle"
<1>. USE DEF CloseTables
<1>1. CASE CompleteCommit(c)
  BY <1>1 DEF CompleteCommit, Completing, CompletePhases
<1>2. CASE StartCommit(c)
  BY <1>2 DEF StartCommit
<1>3. CASE LockCommit(c)
  BY <1>3 DEF LockCommit
<1>4. CASE ReopenCommit(c)
  <2>1. cpc[c] = "reopen" /\ run' = [run EXCEPT ![carg[c].period] = "ReadyToLock"]
    BY <1>4 DEF ReopenCommit
  <2>2. cpc'[c] = "idle"
    BY <1>4, CloseGotoMoves DEF ReopenCommit, CloseFinish, CloseRequestsOK, ClosePhases
  <2>. QED  BY <2>1, <2>2
<1>5. CASE CloseReading(c)
  BY <1>5, CloseReadingKeeps DEF closeTables
<1>. QED  BY <1>1, <1>2, <1>3, <1>4, <1>5 DEF CloseRequest, CloseReading

\* No completion starts on a Locked run, and when those that had read it are gone
\* only a reopen of its period changes it.
THEOREM CloseLockedRunsDrain == CloseSpec => LockedRunsDrain
<1>1. ASSUME CloseIInv, [CloseNext]_vars, NEW p \in Periods, run[p] = "Locked"
      PROVE  /\ Completing(p)' \subseteq Completing(p)
             /\ \/ Completing(p) # {}
                \/ run'[p] = "Locked"
                \/ \E c \in Closers :
                     cpc[c] = "reopen" /\ carg[c].period = p /\ cpc'[c] = "idle"
  <2>1. CloseTables /\ CloseRequestsOK
    BY <1>1, CloseHalves
  <2>2. CASE UNCHANGED closeVars
    BY <1>1, <2>2 DEF closeVars, Completing
  <2>3. ASSUME NEW c \in Closers, CloseRequest(c)
        PROVE  Completing(p)' \subseteq Completing(p)
    <3>1. \A d \in Closers \ {c} : d \in Completing(p)' => d \in Completing(p)
      BY <2>1, <2>3, CloseOthersStay DEF Completing
    <3>2. Completing(p)' \subseteq Closers
      BY DEF Completing
    <3>. QED  BY <1>1, <2>1, <2>3, <3>1, <3>2, CloseMoverStaysOut
  <2>. QED  BY <1>1, <2>1, <2>2, <2>3, CloseLockedRun DEF CloseNext, vars
<1>2. CloseIInv /\ [CloseNext]_vars =>
        [\A p \in Periods :
           run[p] = "Locked" =>
             /\ Completing(p)' \subseteq Completing(p)
             /\ \/ Completing(p) # {}
                \/ run'[p] = "Locked"
                \/ \E c \in Closers :
                     cpc[c] = "reopen" /\ carg[c].period = p /\ cpc'[c] = "idle"]_vars
  BY <1>1
<1>. QED  BY <1>2, CloseInvariant, PTL DEF CloseSpec, LockedRunsDrain

\* A close request writes the calendar at most.
LEMMA CloseLeavesBooks ==
  ASSUME CloseIInv, NEW c \in Closers, CloseRequest(c)
  PROVE  UNCHANGED <<bookVars, rpc, arg>>
<1>1. IInv /\ CloseTables /\ CloseRequestsOK
  BY CloseHalves
<1>. QED  BY <1>1, CloseReadingKeeps, CloseWritingCalendar
             DEF CloseRequest, CloseReading, CloseWriting, glVars, bookVars

\* A step of ledger or close while a period is not Open.
LEMMA CloseShutStep ==
  ASSUME CloseIInv, [CloseNext]_vars, NEW p \in Periods, period[p] # "Open"
  PROVE  /\ PastGate(p)' \subseteq PastGate(p)
         /\ PastGate(p) = {} => PostedIn(p)' = PostedIn(p)
<1>1. CASE [Next]_glVars
  BY <1>1, ShutStep DEF CloseIInv
<1>2. CASE UNCHANGED <<bookVars, rpc, arg>>
  BY <1>2 DEF bookVars, PastGate, PostedIn
<1>. QED  BY <1>1, <1>2, CloseLeavesBooks DEF CloseNext, vars

\* The ledger's promise about shut periods survives the close, which locks and
\* reopens them between its steps.
THEOREM CloseShutPeriodsDrain == CloseSpec => ShutPeriodsDrain
<1>1. CloseIInv /\ [CloseNext]_vars =>
        [\A p \in Periods :
           period[p] # "Open" =>
             /\ PastGate(p)' \subseteq PastGate(p)
             /\ PastGate(p) = {} => PostedIn(p)' = PostedIn(p)]_glVars
  BY CloseShutStep
<1>. QED  BY <1>1, CloseInvariant, PTL DEF CloseSpec, ShutPeriodsDrain

\* The comment on the hard lock holds when a lock waits for the requests past the
\* gate of its period: the locked period then takes no posting but the year end's.
THEOREM DrainedLockHolds ==
  CloseSpec /\ [][\A p \in Periods :
                   period[p] # "Locked" /\ period'[p] = "Locked" => PastGate(p)' = {}]_vars
    => LockedRejectsPostings
<1>. DEFINE Drained == \A p \in Periods : period[p] = "Locked" => PastGate(p) = {}
            Waits == \A p \in Periods :
                       period[p] # "Locked" /\ period'[p] = "Locked" => PastGate(p)' = {}
<1>1. CloseInit => Drained
  BY DEF CloseInit, Init
<1>2. ASSUME CloseIInv, Drained, [CloseNext]_vars, [Waits]_vars
      PROVE  Drained'
  <2>. SUFFICES ASSUME NEW p \in Periods, period'[p] = "Locked"
                PROVE  PastGate(p)' = {}
    OBVIOUS
  <2>1. CASE period[p] = "Locked"
    <3>1. PastGate(p) = {}
      BY <1>2, <2>1
    <3>2. PastGate(p)' \subseteq PastGate(p)
      BY <1>2, <2>1, CloseShutStep
    <3>. QED  BY <3>1, <3>2
  <2>2. CASE period[p] # "Locked"
    BY <1>2, <2>2 DEF vars, glVars
  <2>. QED  BY <2>1, <2>2
<1>3. CloseIInv /\ Drained /\ [CloseNext]_vars =>
        [\A p \in Periods :
           period[p] = "Locked" => PostedIn(p)' \subseteq PostedIn(p)]_vars
  <2>. SUFFICES ASSUME CloseIInv, Drained, [CloseNext]_vars,
                       NEW p \in Periods, period[p] = "Locked"
                PROVE  PostedIn(p)' \subseteq PostedIn(p)
    OBVIOUS
  <2>. QED  BY CloseShutStep
<1>. HIDE DEF Drained
<1>. QED  BY <1>1, <1>2, <1>3, CloseInvariant, PTL DEF CloseSpec, LockedRejectsPostings

-----------------------------------------------------------------------------
(* The books under the close.                                              *)

\* A close takes nothing from the books: snapshot, posting keys, reversals and
\* approvals are as they are without it.
THEOREM CloseKeepsBooks ==
  CloseSpec => [](SnapshotFollowsAudit /\ OneEntryPerKey /\ ReversedExactlyOnce
                    /\ ApprovalsBounded)
<1>1. CloseIInv => SnapshotFollowsAudit /\ OneEntryPerKey /\ ReversedExactlyOnce
                     /\ ApprovalsBounded
  BY BudgetBounds DEF CloseIInv, IInv
<1>. QED  BY <1>1, CloseInvariant, PTL

\* The ledger composed with the close is the same journal.
THEOREM CloseIsJournal == CloseSpec => KeepsJournal
<1>1. CloseInit => AsJournal!Init
  BY JournalStarts DEF CloseInit
<1>2. ASSUME CloseIInv, [CloseNext]_vars
      PROVE  [AsJournal!Next]_(AsJournal!vars)
  <2>1. CASE [Next]_glVars
    BY <1>2, <2>1, JournalStep DEF CloseIInv
  <2>2. ASSUME NEW c \in Closers, CloseRequest(c)
        PROVE  UNCHANGED AsJournal!vars
    BY <1>2, <2>2, CloseLeavesBooks, JournalStays
  <2>. QED  BY <1>2, <2>1, <2>2 DEF CloseNext, vars
<1>. QED  BY <1>1, <1>2, CloseInvariant, PTL DEF CloseSpec, AsJournal!Spec, KeepsJournal
=============================================================================
