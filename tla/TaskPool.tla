------------------------------ MODULE TaskPool ------------------------------
(***************************************************************************)
(* What the job queue promises to those who enqueue: a pool of tasks, each *)
(* of which is tried until one try does its work or the tries are used up. *)
(*                                                                         *)
(* At least once: a task may be worked on again, by a try that was given   *)
(* up too early or after it was settled, and the answer of the last one to *)
(* end stands.  But a task is done only after it was worked on, dead only  *)
(* after its tries were used up, and is tried, and re-opened, only within  *)
(* its tries and one more for each process beside the first.  There are no *)
(* processes, locks, scans or faults, and no task knows of another.        *)
(***************************************************************************)
EXTENDS Naturals

CONSTANTS
  Tasks,
  Tries,      \* how often each may be tried
  Processes   \* how many there are to try it

VARIABLES
  outcome,  \* "absent", "open", "done" or "failed"
  tried,    \* how often a task was tried
  worked    \* whether some try of it did its work

vars == <<outcome, tried, worked>>

Init ==
  /\ outcome = [t \in Tasks |-> "absent"]
  /\ tried = [t \in Tasks |-> 0]
  /\ worked = [t \in Tasks |-> FALSE]

MayTry(t) == tried[t] + 1 < Tries[t] + Processes

Submit(t) ==
  /\ outcome[t] = "absent" /\ outcome'[t] = "open"
  /\ tried'[t] = tried[t] /\ worked'[t] = worked[t]

Try(t) ==
  /\ outcome[t] = "open" /\ outcome'[t] = "open"
  /\ MayTry(t) /\ tried'[t] = tried[t] + 1
  /\ worked'[t] = worked[t]

Work(t) ==
  /\ tried[t] > 0 /\ worked'[t]
  /\ outcome'[t] = outcome[t] /\ tried'[t] = tried[t]

Finish(t) ==
  /\ worked[t] /\ worked'[t]
  /\ outcome'[t] = "done" /\ tried'[t] = tried[t]

GiveUp(t) ==
  /\ tried[t] >= Tries[t] /\ tried'[t] = tried[t]
  /\ outcome[t] # "absent" /\ outcome'[t] = "failed"
  /\ worked'[t] = worked[t]

Reopen(t) ==
  /\ outcome[t] \in {"done", "failed"} /\ outcome'[t] = "open"
  /\ MayTry(t) /\ tried'[t] = tried[t]
  /\ worked'[t] = worked[t]

Rest(t) ==
  outcome'[t] = outcome[t] /\ tried'[t] = tried[t] /\ worked'[t] = worked[t]

\* Tasks take their steps on their own: a reaper moves several of them at once.
Next ==
  \A t \in Tasks :
    Submit(t) \/ Try(t) \/ Work(t) \/ Finish(t) \/ GiveUp(t) \/ Reopen(t) \/ Rest(t)

Spec == Init /\ [][Next]_vars
=============================================================================
