----------------------------- MODULE IdManager -----------------------------
(***************************************************************************)
(* IdManager<I>: the used identifiers as a map from the least to the       *)
(* greatest identifier of every interval of consecutive ones, and their    *)
(* number.  Iterators are keys; the past-the-end iterator is MaxId + 1.    *)
(* The class has no mutex: a call is one step.                             *)
(***************************************************************************)
EXTENDS Integers, FiniteSets, FiniteSetsExt

CONSTANT
  MaxId           \* std::numeric_limits<I>::max()

ASSUME IdAssumption == MaxId \in Nat \ {0}

VARIABLES
  id_intervals,   \* std::map<I, I>: least |-> greatest identifier
  size,           \* size_
  result          \* what the last call returned

vars == <<id_intervals, size, result>>

Returned(op, arg, value) ==
  [op |-> op, arg |-> arg, ok |-> TRUE, value |-> value]
Threw(op, arg) == [op |-> op, arg |-> arg, ok |-> FALSE, value |-> 0]

-----------------------------------------------------------------------------
(* The operations of std::map that the code uses.                          *)

Keys == DOMAIN id_intervals
end == MaxId + 1
begin == Min(Keys \union {end})
Following(iter) == Min({k \in Keys : k > iter} \union {end})
Preceding(iter) == Max({k \in Keys : k < iter})
lower_bound(id) == Min({k \in Keys : k >= id} \union {end})

Insert(map, first, second) ==
  [k \in DOMAIN map \union {first} |-> IF k = first THEN second ELSE map[k]]
Erase(map, iter) == [k \in DOMAIN map \ {iter} |-> map[k]]

-----------------------------------------------------------------------------
\* Mutant of FindInterval: the end of an interval is taken as past it.
FindIntervalHalfOpen(id) ==
  LET lub == lower_bound(id)
  IN  IF lub = id THEN lub
      ELSE IF lub # begin /\ id < id_intervals[Preceding(lub)]
      THEN Preceding(lub)
      ELSE end

\* The interval that contains id, or end.
FindInterval(id) ==
  LET lub == lower_bound(id)
  IN  IF lub = id THEN lub
      ELSE IF lub # begin /\ id <= id_intervals[Preceding(lub)]
      THEN Preceding(lub)
      ELSE end

IsUsed(id) ==
  /\ result' = Returned("IsUsed", id, IF FindInterval(id) # end THEN 1 ELSE 0)
  /\ UNCHANGED <<id_intervals, size>>

NumberOfUsedIds ==
  /\ result' = Returned("NumberOfUsedIds", 0, size)
  /\ UNCHANGED <<id_intervals, size>>

\* The first identifier, for an empty map.
GetFirst ==
  /\ Keys = {}
  /\ id_intervals' = Insert(id_intervals, 1, 1)
  /\ size' = 1
  /\ result' = Returned("GetId", 0, 1)

\* Identifier 1 is free: an interval of its own or the least one extended.
GetOne ==
  /\ Keys # {}
  /\ begin > 1
  /\ id_intervals' =
       IF begin > 2 THEN Insert(id_intervals, 1, 1)
       ELSE Erase(Insert(id_intervals, 1, id_intervals[begin]), begin)
  /\ size' = size + 1
  /\ result' = Returned("GetId", 0, 1)

\* Mutant of Extended: intervals that meet are not merged.
ExtendedUnmerged(new_id, next) == Insert(id_intervals, begin, new_id)

\* The intervals after new_id was appended to the first of two or more.
Extended(new_id, next) ==
  IF new_id + 1 = next
  THEN Erase(Insert(id_intervals, begin, id_intervals[next]), next)
  ELSE Insert(id_intervals, begin, new_id)

\* Mutant of GetGap: the identifier is not counted.
GetGapUncounted ==
  LET next == Following(begin)
      new_id == id_intervals[begin] + 1
  IN  /\ Keys # {}
      /\ begin = 1
      /\ next # end
      /\ id_intervals' = Extended(new_id, next)
      /\ result' = Returned("GetId", 0, new_id)
      /\ UNCHANGED size

\* The gap between the first two intervals.
GetGap ==
  LET next == Following(begin)
      new_id == id_intervals[begin] + 1
  IN  /\ Keys # {}
      /\ begin = 1
      /\ next # end
      /\ id_intervals' = Extended(new_id, next)
      /\ size' = size + 1
      /\ result' = Returned("GetId", 0, new_id)

\* Mutant of GetNext: the greatest identifier is incremented.
GetNextUnchecked ==
  /\ Keys # {}
  /\ begin = 1
  /\ Following(begin) = end
  /\ id_intervals' = [id_intervals EXCEPT ![begin] = @ + 1]
  /\ size' = size + 1
  /\ result' = Returned("GetId", 0, id_intervals[begin] + 1)

\* A single interval from 1: the next identifier if there is one.
GetNext ==
  /\ Keys # {}
  /\ begin = 1
  /\ Following(begin) = end
  /\ \/ /\ id_intervals[begin] = MaxId
        /\ result' = Threw("GetId", 0)
        /\ UNCHANGED <<id_intervals, size>>
     \/ /\ id_intervals[begin] # MaxId
        /\ id_intervals' = [id_intervals EXCEPT ![begin] = @ + 1]
        /\ size' = size + 1
        /\ result' = Returned("GetId", 0, id_intervals[begin] + 1)

GetId == GetFirst \/ GetOne \/ GetGap \/ GetNext

\* The intervals without id, which is in the interval of i_release.
Shrunk(id, i_release) ==
  LET last == id_intervals[i_release]
  IN  IF id = i_release
      THEN IF id = last THEN Erase(id_intervals, i_release)
           ELSE Erase(Insert(id_intervals, id + 1, last), i_release)
      ELSE IF id = last THEN Insert(id_intervals, i_release, last - 1)
           ELSE Insert(Insert(id_intervals, id + 1, last), i_release, id - 1)

ReleaseId(id) ==
  LET i_release == FindInterval(id)
  IN  \/ /\ i_release = end
         /\ result' = Threw("ReleaseId", id)
         /\ UNCHANGED <<id_intervals, size>>
      \/ /\ i_release # end
         /\ id_intervals' = Shrunk(id, i_release)
         /\ size' = size - 1
         /\ result' = Returned("ReleaseId", id, 0)

\* The defaulted move operations: the map is taken, size_ is copied.
MoveFrom ==
  /\ id_intervals' = [k \in {} |-> 0]
  /\ result' = Returned("MoveFrom", 0, 0)
  /\ UNCHANGED size

Init ==
  /\ id_intervals = [k \in {} |-> 0]
  /\ size = 0
  /\ result = Returned("IdManager", 0, 0)

Next ==
  \/ GetId
  \/ NumberOfUsedIds
  \/ \E id \in 0..MaxId : ReleaseId(id) \/ IsUsed(id)
  \/ MoveFrom

Spec == Init /\ [][Next]_vars

-----------------------------------------------------------------------------
(* Properties.                                                             *)

\* The dynamic set that the map represents.
UsedIds ==
  {i \in 1..MaxId : \E k \in Keys : k <= i /\ i <= id_intervals[k]}

\* Identifiers, interval bounds and the count stay in the range of I: no
\* increment in GetId or ReleaseId overflows.
TypeOK ==
  /\ Keys \subseteq 1..MaxId
  /\ id_intervals \in [Keys -> 1..MaxId]
  /\ size \in 0..MaxId

\* The map is the minimal set of ranges of the class comment
\* (id_manager_template.h:76-77): no interval is empty, none overlap or touch.
IntervalsMinimal ==
  /\ \A k \in Keys : k <= id_intervals[k]
  /\ \A j, k \in Keys : j < k => id_intervals[j] + 1 < k

\* size_ is the number of used identifiers (id_manager_template.h:55-56).  A
\* move leaves the old count in an empty instance; the next GetId corrects it.
SizeExact == Keys # {} => size = Cardinality(UsedIds)

\* Every call has the effect and the result that the class comment
\* (id_manager_template.h:27-61) defines on a plain set of identifiers; only the
\* count of an instance that was moved from is unspecified.
Stale == Keys = {} /\ size # 0
Set == INSTANCE IdSet WITH used <- UsedIds, stale <- Stale
ImplementsIdSet == Set!Spec

=============================================================================
