--------------------------- MODULE RecordChannel ---------------------------
(***************************************************************************)
(* What the server relies on when records are written to a connection: a   *)
(* record arrives in full, in part or not at all.  After a part either the *)
(* connection is flagged as corrupt or the peer is gone, and nothing       *)
(* follows.                                                                *)
(***************************************************************************)
EXTENDS Naturals

VARIABLES
  delivered,     \* records that arrived in full
  torn,          \* a part of a record arrived
  flagged,       \* the flag that is paired with the write mutex
  closed         \* the peer is gone: every write fails

vars == <<delivered, torn, flagged, closed>>

Init ==
  /\ delivered = 0
  /\ torn = FALSE
  /\ flagged = FALSE
  /\ closed = FALSE

Usable == ~torn /\ ~flagged /\ ~closed

Deliver ==
  /\ Usable
  /\ delivered' = delivered + 1
  /\ UNCHANGED <<torn, flagged, closed>>

Tear ==
  /\ ~torn
  /\ ~flagged
  /\ torn' = TRUE
  /\ flagged' \in BOOLEAN
  /\ flagged' \/ closed
  /\ UNCHANGED <<delivered, closed>>

PeerCloses ==
  /\ closed' = TRUE
  /\ UNCHANGED <<delivered, torn, flagged>>

Next == Deliver \/ Tear \/ PeerCloses
Spec == Init /\ [][Next]_vars
=============================================================================
