----------------------------- MODULE MCJobQueue -----------------------------
(* Instances of JobQueue for TLC: see JobQueue.cfg and JobQueueDeadLetter.cfg. *)
EXTENDS JobQueue

\* The first job may be retried, the second is dead-lettered at once.
MCMaxAttempts == [j \in Jobs |-> IF j = 1 THEN 2 ELSE 1]
=============================================================================
