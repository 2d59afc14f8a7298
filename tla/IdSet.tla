------------------------------- MODULE IdSet -------------------------------
(***************************************************************************)
(* What IdManager<I> promises (class description in                        *)
(* id_manager_template.h): a dynamic set of used identifiers, a subset of  *)
(* 1..MaxId.  Every call leaves in result what it returned or that it      *)
(* threw.                                                                  *)
(***************************************************************************)
EXTENDS Integers, FiniteSets

CONSTANT
  MaxId       \* I_max, the largest value of the integral type

VARIABLES
  used,       \* the dynamic set
  stale,      \* the count is unspecified: moved from, and no identifier since
  result      \* of the last call

vars == <<used, stale, result>>

Returned(op, arg, value) ==
  [op |-> op, arg |-> arg, ok |-> TRUE, value |-> value]
Threw(op, arg) == [op |-> op, arg |-> arg, ok |-> FALSE, value |-> 0]

\* The unused identifiers below some used one.
Gaps == {i \in 1..MaxId : i \notin used /\ \E j \in used : i < j}

\* The identifiers above all used ones.
Above == {i \in 1..MaxId : \A j \in used : j < i}

\* An identifier from the gaps, or the next one, or none is left.
GetId ==
  \/ \E i \in Gaps :
       /\ used' = used \union {i}
       /\ stale' = FALSE
       /\ result' = Returned("GetId", 0, i)
  \/ /\ Gaps = {}
     /\ \E i \in Above :
          /\ \A j \in Above : i <= j
          /\ used' = used \union {i}
          /\ stale' = FALSE
          /\ result' = Returned("GetId", 0, i)
  \/ /\ Gaps = {}
     /\ Above = {}
     /\ result' = Threw("GetId", 0)
     /\ UNCHANGED <<used, stale>>

ReleaseId(id) ==
  \/ /\ id \in used
     /\ used' = used \ {id}
     /\ UNCHANGED stale
     /\ result' = Returned("ReleaseId", id, 0)
  \/ /\ id \notin used
     /\ result' = Threw("ReleaseId", id)
     /\ UNCHANGED <<used, stale>>

IsUsed(id) ==
  /\ result' = Returned("IsUsed", id, IF id \in used THEN 1 ELSE 0)
  /\ UNCHANGED <<used, stale>>

NumberOfUsedIds ==
  /\ \E n \in 0..MaxId :
       /\ ~stale => n = Cardinality(used)
       /\ result' = Returned("NumberOfUsedIds", 0, n)
  /\ UNCHANGED <<used, stale>>

\* The set goes to another instance.
MoveFrom ==
  /\ used' = {}
  /\ stale' \in BOOLEAN
  /\ result' = Returned("MoveFrom", 0, 0)

Init ==
  /\ used = {}
  /\ stale = FALSE
  /\ result = Returned("IdManager", 0, 0)

Next ==
  \/ GetId
  \/ NumberOfUsedIds
  \/ \E id \in 0..MaxId : ReleaseId(id) \/ IsUsed(id)
  \/ MoveFrom

Spec == Init /\ [][Next]_vars

=============================================================================
