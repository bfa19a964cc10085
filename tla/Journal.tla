------------------------------- MODULE Journal -------------------------------
(***************************************************************************)
(* What the general ledger promises to those who read it: a book in which  *)
(* entries are only ever added, each under a header that never changes.    *)
(*                                                                         *)
(* An entry is proposed or posted when it is written.  A proposed one may  *)
(* be posted later, and an approval that comes twice counts twice in the   *)
(* balances; nothing else does.  A rejection takes nothing back, so it is  *)
(* no step of the book.  A posted entry is reversed by one entry of its    *)
(* own, in the step that marks it as reversed.  A key with a reference is  *)
(* used once.  There are no requests: every operation is one step, however *)
(* many transactions it races with.                                        *)
(***************************************************************************)
EXTENDS Naturals

CONSTANTS
  Entries,
  Headers,     \* records [key, period]; a key is a record [source, ref]
  Proposable   \* the sources whose entries may wait for approval

VARIABLES
  book,      \* the headers of the entries written so far
  proposed,  \* those that were written as proposals
  posted,    \* those that are final
  reversed,  \* those a contra entry was posted for
  weight     \* how often the lines of an entry are in the balances

vars == <<book, proposed, posted, reversed, weight>>

Init ==
  /\ DOMAIN book = {}
  /\ proposed = {} /\ posted = {} /\ reversed = {}
  /\ weight = [e \in Entries |-> 0]

IsContra(key, e) == key = [source |-> "REVERSAL", ref |-> e]

\* New rows are written below the old ones, none under a key already used.
Write(rows) ==
  /\ rows \cap DOMAIN book = {}
  /\ DOMAIN book' = DOMAIN book \cup rows
  /\ \A e \in DOMAIN book : book'[e] = book[e]
  /\ \A e \in rows : book'[e] \in Headers
  /\ \A e \in rows : \A f \in DOMAIN book' \ {e} :
       book'[e].key = book'[f].key => book'[e].key.ref = 0

Count(rows) ==
  weight' = [e \in Entries |-> IF e \in rows THEN weight[e] + 1 ELSE weight[e]]

Propose(rows) ==
  /\ Write(rows)
  /\ \A e \in rows : book'[e].key.source \in Proposable
  /\ proposed' = proposed \cup rows
  /\ UNCHANGED <<posted, reversed, weight>>

Post(rows) ==
  /\ Write(rows)
  /\ \A e \in rows, f \in Entries : ~IsContra(book'[e].key, f)
  /\ posted' = posted \cup rows
  /\ Count(rows)
  /\ UNCHANGED <<proposed, reversed>>

Approve(e) ==
  /\ e \in proposed
  /\ posted' = posted \cup {e}
  /\ Count({e})
  /\ UNCHANGED <<book, proposed, reversed>>

Reverse(e, c) ==
  /\ e \in posted \ reversed
  /\ Write({c})
  /\ IsContra(book'[c].key, e)
  /\ posted' = posted \cup {c}
  /\ reversed' = reversed \cup {e}
  /\ Count({c})
  /\ UNCHANGED proposed

Next ==
  \/ \E rows \in SUBSET Entries : Propose(rows) \/ Post(rows)
  \/ \E e \in Entries : Approve(e)
  \/ \E e, c \in Entries : Reverse(e, c)

Spec == Init /\ [][Next]_vars
=============================================================================
