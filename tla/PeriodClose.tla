----------------------------- MODULE PeriodClose -----------------------------
(***************************************************************************)
(* The governed month-end close (CloseService) over the general ledger: a  *)
(* close run per period, its checklist, the hard lock and the two-person   *)
(* reopen.  It shares fiscal_periods.status (period) with the ledger: the  *)
(* lock writes it, every posting reads it, the calendar endpoints of the   *)
(* ledger overwrite it.                                                    *)
(*                                                                         *)
(* As in GeneralLedger a request is a READ COMMITTED transaction whose     *)
(* reads are steps of their own.  completeStep and autoComplete also read  *)
(* after they wrote: the second read sees their own steps and the          *)
(* committed steps of others, but not the others' uncommitted ones.        *)
(***************************************************************************)
EXTENDS GeneralLedger

CONSTANTS
  Users,
  Closers,       \* close requests in flight at once
  Steps,         \* the checklist seeded by startClose, with its templates
  Required,      \* the steps that gate the lock
  DependsOn,     \* depends_on_key of a step; NoStep also for a key not on the list
  NoStep,
  AutoSteps,     \* the steps autoComplete can find evidence for
  SelfApproval   \* control_profile 'sme': one person may do both halves

ASSUME StepsAssumption == Required \subseteq Steps /\ AutoSteps \subseteq Steps
ASSUME DependsAssumption == DependsOn \in [Steps -> Steps \cup {NoStep}] /\ NoStep \notin Steps
ASSUME SelfApprovalAssumption == SelfApproval \in BOOLEAN

VARIABLES
  run,        \* close_runs.status, "none" before startClose
  startedBy,  \* close_runs.started_by
  lockedBy,   \* close_runs.locked_by
  done,       \* the close_run_steps that are Done
  cpc,        \* close request: the statement it has reached
  carg        \* close request: its arguments and what it has read

closeVars == <<run, startedBy, lockedBy, done, cpc, carg>>
closeTables == <<run, startedBy, lockedBy, done>>
vars == <<glVars, closeVars>>

Nobody == "nobody"
ASSUME UsersAssumption == Nobody \notin Users

RunStatuses == {"none", "InProgress", "ReadyToLock", "Locked"}
ClosePhases ==
  {"idle", "start", "complete", "auto", "completeCommit", "lock", "reopen"}

\* The phases of a completion, by hand (completeStep) or on evidence (autoComplete).
CompletePhases == {"complete", "auto", "completeCommit"}

CloseArgTyped(c) ==
  /\ cpc[c] # "idle" => carg[c].period \in Periods
  /\ cpc[c] \in {"start", "lock", "reopen"} => carg[c].by \in Users
  /\ cpc[c] \in CompletePhases =>
       carg[c].steps \subseteq Steps /\ carg[c].run \in RunStatuses
  /\ cpc[c] = "completeCommit" => carg[c].ready \in BOOLEAN

CloseTypeOK ==
  /\ TypeOK
  /\ run \in [Periods -> RunStatuses]
  /\ startedBy \in [Periods -> Users \cup {Nobody}]
  /\ lockedBy \in [Periods -> Users \cup {Nobody}]
  /\ done \in [Periods -> SUBSET Steps]
  /\ cpc \in [Closers -> ClosePhases]
  /\ DOMAIN carg = Closers
  /\ \A c \in Closers : CloseArgTyped(c)

NoCloseArg == [period |-> NoStep]

CloseInit ==
  /\ Init
  /\ run = [p \in Periods |-> "none"]
  /\ startedBy = [p \in Periods |-> Nobody]
  /\ lockedBy = [p \in Periods |-> Nobody]
  /\ done = [p \in Periods |-> {}]
  /\ cpc = [c \in Closers |-> "idle"]
  /\ carg = [c \in Closers |-> NoCloseArg]

CloseGoto(c, pc, a) ==
  /\ cpc' = [cpc EXCEPT ![c] = pc]
  /\ carg' = [carg EXCEPT ![c] = a]

CloseFinish(c) == CloseGoto(c, "idle", NoCloseArg)

-----------------------------------------------------------------------------
(* startClose                                                              *)

StartRead(c) ==
  /\ cpc[c] = "idle"
  /\ \E p \in Periods, u \in Users :
       /\ run[p] = "none"
       /\ CloseGoto(c, "start", [period |-> p, by |-> u])
  /\ UNCHANGED <<glVars, closeTables>>

\* close_runs is unique on (tenant, period): the second of two starts fails.
StartCommit(c) ==
  /\ cpc[c] = "start"
  /\ LET p == carg[c].period IN
       /\ run[p] = "none"
       /\ run' = [run EXCEPT ![p] = "InProgress"]
       /\ startedBy' = [startedBy EXCEPT ![p] = carg[c].by]
  /\ CloseFinish(c)
  /\ UNCHANGED <<glVars, lockedBy, done>>

-----------------------------------------------------------------------------
(* completeStep and autoComplete                                           *)

DependencyMet(p, s) == DependsOn[s] \in done[p] \cup {NoStep}

\* Mutant of CompleteRead: a Locked run is not refused.
CompleteReadLocked(c) ==
  /\ cpc[c] = "idle"
  /\ \E p \in Periods, s \in Steps :
       /\ run[p] # "none"
       /\ CloseGoto(c, "complete", [period |-> p, steps |-> {s}, run |-> run[p]])
  /\ UNCHANGED <<glVars, closeTables>>

\* completeStep reads the run; it is kept for the decision at the end.
CompleteRead(c) ==
  /\ cpc[c] = "idle"
  /\ \E p \in Periods, s \in Steps :
       /\ run[p] \in {"InProgress", "ReadyToLock"}
       /\ CloseGoto(c, "complete", [period |-> p, steps |-> {s}, run |-> run[p]])
  /\ UNCHANGED <<glVars, closeTables>>

\* autoComplete reads the run and the steps once, and takes the pending ones whose
\* dependency is Done in that reading and whose evidence it finds.
AutoRead(c) ==
  /\ cpc[c] = "idle"
  /\ \E p \in Periods :
     \E found \in SUBSET {s \in AutoSteps \ done[p] : DependencyMet(p, s)} :
       /\ run[p] \in {"InProgress", "ReadyToLock"}
       /\ CloseGoto(c, "auto", [period |-> p, steps |-> found, run |-> run[p]])
  /\ UNCHANGED <<glVars, closeTables>>

\* Another transaction has updated the row of one of these steps.
StepsLocked(p, steps) ==
  \E d \in Closers :
    /\ cpc[d] = "completeCommit"
    /\ carg[d].period = p
    /\ carg[d].steps \cap steps # {}

\* completeStep looks its dependency up after it has read the run; autoComplete has
\* decided on its one reading of the checklist.
MayTick(c) ==
  \/ cpc[c] = "complete" /\ \A s \in carg[c].steps : DependencyMet(carg[c].period, s)
  \/ cpc[c] = "auto"

\* Mutant of CompleteEval: one required step Done is enough.
CompleteEvalAny(c) ==
  /\ MayTick(c)
  /\ LET a == carg[c] IN
       /\ ~StepsLocked(a.period, a.steps)
       /\ CloseGoto(c, "completeCommit",
            [period |-> a.period, steps |-> a.steps, run |-> a.run,
             ready |-> Required \cap (done[a.period] \cup a.steps) # {}])
  /\ UNCHANGED <<glVars, closeTables>>

\* Mutant of CompleteEval: the dependency of the step is not looked up.
CompleteEvalUnordered(c) ==
  /\ cpc[c] \in {"complete", "auto"}
  /\ LET a == carg[c] IN
       /\ ~StepsLocked(a.period, a.steps)
       /\ CloseGoto(c, "completeCommit",
            [period |-> a.period, steps |-> a.steps, run |-> a.run,
             ready |-> Required \subseteq done[a.period] \cup a.steps])
  /\ UNCHANGED <<glVars, closeTables>>

\* The steps are updated (behind their row locks, not yet visible) and read back.
CompleteEval(c) ==
  /\ MayTick(c)
  /\ LET a == carg[c] IN
       /\ ~StepsLocked(a.period, a.steps)
       /\ CloseGoto(c, "completeCommit",
            [period |-> a.period, steps |-> a.steps, run |-> a.run,
             ready |-> Required \subseteq done[a.period] \cup a.steps /\ a.run # "ReadyToLock"])
  /\ UNCHANGED <<glVars, closeTables>>

\* The status update goes by id: it does not look at what the run is by now.
CompleteCommit(c) ==
  /\ cpc[c] = "completeCommit"
  /\ LET a == carg[c] IN
       /\ done' = [done EXCEPT ![a.period] = @ \cup a.steps]
       /\ run' = IF a.ready THEN [run EXCEPT ![a.period] = "ReadyToLock"] ELSE run
  /\ CloseFinish(c)
  /\ UNCHANGED <<glVars, startedBy, lockedBy>>

-----------------------------------------------------------------------------
(* lockPeriod and reopenPeriod                                             *)

LockRead(c) ==
  /\ cpc[c] = "idle"
  /\ \E p \in Periods, u \in Users :
       /\ run[p] = "ReadyToLock"
       /\ u # startedBy[p] \/ SelfApproval
       /\ CloseGoto(c, "lock", [period |-> p, by |-> u])
  /\ UNCHANGED <<glVars, closeTables>>

LockCommit(c) ==
  /\ cpc[c] = "lock"
  /\ LET p == carg[c].period IN
       /\ run' = [run EXCEPT ![p] = "Locked"]
       /\ lockedBy' = [lockedBy EXCEPT ![p] = carg[c].by]
       /\ period' = [period EXCEPT ![p] = "Locked"]
  /\ CloseFinish(c)
  /\ UNCHANGED <<bookVars, rpc, arg, startedBy, done>>

ReopenRead(c) ==
  /\ cpc[c] = "idle"
  /\ \E p \in Periods, u \in Users :
       /\ run[p] = "Locked"
       /\ u # lockedBy[p] \/ SelfApproval
       /\ CloseGoto(c, "reopen", [period |-> p, by |-> u])
  /\ UNCHANGED <<glVars, closeTables>>

\* Mutant of ReopenCommit: the fiscal period keeps its status.
ReopenRunOnly(c) ==
  /\ cpc[c] = "reopen"
  /\ run' = [run EXCEPT ![carg[c].period] = "ReadyToLock"]
  /\ lockedBy' = [lockedBy EXCEPT ![carg[c].period] = Nobody]
  /\ CloseFinish(c)
  /\ UNCHANGED <<glVars, startedBy, done>>

\* Mutant of ReopenCommit: the statuses of run and period are swapped.
ReopenSwapped(c) ==
  /\ cpc[c] = "reopen"
  /\ LET p == carg[c].period IN
       /\ run' = [run EXCEPT ![p] = "Open"]
       /\ lockedBy' = [lockedBy EXCEPT ![p] = Nobody]
       /\ period' = [period EXCEPT ![p] = "ReadyToLock"]
  /\ CloseFinish(c)
  /\ UNCHANGED <<bookVars, rpc, arg, startedBy, done>>

ReopenCommit(c) ==
  /\ cpc[c] = "reopen"
  /\ LET p == carg[c].period IN
       /\ run' = [run EXCEPT ![p] = "ReadyToLock"]
       /\ lockedBy' = [lockedBy EXCEPT ![p] = Nobody]
       /\ period' = [period EXCEPT ![p] = "Open"]
  /\ CloseFinish(c)
  /\ UNCHANGED <<bookVars, rpc, arg, startedBy, done>>

-----------------------------------------------------------------------------
CloseAbort(c) ==
  /\ cpc[c] # "idle"
  /\ CloseFinish(c)
  /\ UNCHANGED <<glVars, closeTables>>

CloseRequest(c) ==
  \/ StartRead(c) \/ StartCommit(c)
  \/ CompleteRead(c) \/ AutoRead(c) \/ CompleteEval(c) \/ CompleteCommit(c)
  \/ LockRead(c) \/ LockCommit(c)
  \/ ReopenRead(c) \/ ReopenCommit(c)
  \/ CloseAbort(c)

CloseNext ==
  \/ \E c \in Closers : CloseRequest(c)
  \/ Next /\ UNCHANGED closeVars

CloseSpec == CloseInit /\ [][CloseNext]_vars

-----------------------------------------------------------------------------
(* Properties.                                                             *)

\* A run is ready or locked only with every required step Done, although the
\* decision is taken on steps read before the commit (completeStep, lockPeriod).
LockedOnlyWhenComplete ==
  \A p \in Periods : run[p] \in {"ReadyToLock", "Locked"} => Required \subseteq done[p]

\* No step is Done before the step it depends on, also when autoComplete decided
\* on an old read of the checklist (DEPENDENCY_NOT_DONE).
DependenciesFirst ==
  \A p \in Periods : \A s \in done[p] : DependencyMet(p, s)

\* Whatever happened to the run since, a hard-locked period has a locker on
\* record, who is not the starter of its close run (SELF_LOCK, GL-16).
LockIsTwoPerson ==
  \A p \in Periods :
    run[p] = "Locked" \/ period[p] = "Locked" =>
      /\ lockedBy[p] # Nobody
      /\ lockedBy[p] # startedBy[p] \/ SelfApproval

\* Completions that have read the run of p.
Completing(p) ==
  {c \in Closers : cpc[c] \in CompletePhases /\ carg[c].period = p}

\* While a run is Locked no completion starts on it, and once those that read it
\* before the lock have drained it stays Locked until a reopen of its period
\* (PERIOD_ALREADY_LOCKED).
LockedRunsDrain ==
  [][\A p \in Periods :
       run[p] = "Locked" =>
         /\ Completing(p)' \subseteq Completing(p)
         /\ \/ Completing(p) # {}
            \/ run'[p] = "Locked"
            \/ \E c \in Closers :
                 cpc[c] = "reopen" /\ carg[c].period = p /\ cpc'[c] = "idle"]_vars

\* ledger-posting.service.ts:115: "a LOCKED period rejects ALL postings"; the
\* year-end closing entry is the one exception it names.
LockedRejectsPostings ==
  [][\A p \in Periods :
       period[p] = "Locked" => PostedIn(p)' \subseteq PostedIn(p)]_vars
-----------------------------------------------------------------------------
(* The inductive strengthening of the invariants above.                    *)

\* What a close request has read still holds when it writes: a run does not go away,
\* steps stay Done, and the starter of a run does not change.
CloseHolds(c) ==
  LET a == carg[c] IN
    /\ cpc[c] \in CompletePhases \cup {"lock", "reopen"} => run[a.period] # "none"
    /\ cpc[c] \in {"auto", "completeCommit"} =>
         \A s \in a.steps : DependencyMet(a.period, s)
    /\ cpc[c] = "completeCommit" /\ a.ready =>
         Required \subseteq done[a.period] \cup a.steps
    /\ cpc[c] \in {"lock", "reopen"} => Required \subseteq done[a.period]
    /\ cpc[c] = "lock" => a.by # startedBy[a.period] \/ SelfApproval

\* Only the close locks a period, and it has a run for it.
LockedHasRun == \A p \in Periods : period[p] = "Locked" => run[p] # "none"

CloseIInv ==
  /\ IInv
  /\ CloseTypeOK
  /\ \A c \in Closers : CloseHolds(c)
  /\ LockedHasRun
  /\ LockedOnlyWhenComplete
  /\ DependenciesFirst
  /\ LockIsTwoPerson
=============================================================================
