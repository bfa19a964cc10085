------------------------------- MODULE Replay -------------------------------
(***************************************************************************)
(* What the store hub promises (docs/41 Phase 2): a branch goes on selling *)
(* without the cloud and its documents reach the cloud later.              *)
(*                                                                         *)
(* Three sets tell the story: the documents the branch captured, those the *)
(* cloud has taken over, and those the hub has ticked off.  A document     *)
(* never leaves the cloud, and is taken over only when everything it is    *)
(* computed from is there: a till is not certified over an incomplete set  *)
(* of sales.  A tick says that the cloud holds the number, no more: others *)
(* issue numbers too, and a document whose number came first from another  *)
(* is ticked off as well.  A tick may be lost: the hub pushes again.       *)
(***************************************************************************)
CONSTANTS
  Docs,   \* sales, waste and count sheets, till sessions
  Needs,  \* for each document, those whose numbers must be on the cloud before it
  Number, \* the number of a document
  Shared  \* numbers that may also come from elsewhere

VARIABLES captured, onCloud, ticked, taken

vars == <<captured, onCloud, ticked, taken>>

Init == captured = {} /\ onCloud = {} /\ ticked = {} /\ taken = {}

Held == taken \cup {Number[d] : d \in onCloud}

\* The branch completes a document, after those it is computed from.
Complete(d) ==
  /\ Needs[d] \subseteq captured
  /\ captured' = captured \cup {d}
  /\ UNCHANGED <<onCloud, ticked, taken>>

\* The cloud takes over some documents in one transaction.
TakeOver(batch) ==
  /\ batch \subseteq captured
  /\ \A d \in batch : \A e \in Needs[d] : Number[e] \in Held
  /\ onCloud' = onCloud \cup batch
  /\ UNCHANGED <<captured, ticked, taken>>

\* The number goes to a document from elsewhere.
Take(n) ==
  /\ taken' = taken \cup {n}
  /\ UNCHANGED <<captured, onCloud, ticked>>

Tick(d) ==
  /\ Number[d] \in Held
  /\ ticked' = ticked \cup {d}
  /\ UNCHANGED <<captured, onCloud, taken>>

Forget(lost) ==
  /\ ticked' = ticked \ lost
  /\ UNCHANGED <<captured, onCloud, taken>>

Next ==
  \/ \E d \in Docs : Complete(d) \/ Tick(d)
  \/ \E batch \in SUBSET Docs : TakeOver(batch) \/ Forget(batch)
  \/ \E n \in Shared : Take(n)

Spec == Init /\ [][Next]_vars
=============================================================================
