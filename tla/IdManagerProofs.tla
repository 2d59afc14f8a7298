-------------------------- MODULE IdManagerProofs --------------------------
(***************************************************************************)
(* For every integral type: the map of IdManager is the minimal set of     *)
(* intervals of the set it represents, and IdManager implements IdSet.     *)
(***************************************************************************)
EXTENDS IdManager, FiniteSetTheorems, WellFoundedInduction, TLAPS

IInv == TypeOK /\ IntervalsMinimal /\ SizeExact

-----------------------------------------------------------------------------
(* The operations on the map.                                              *)

\* A non-empty set of naturals has a least element.
LEMMA Smallest ==
  ASSUME NEW S \in SUBSET Nat, S # {}
  PROVE  \E n \in S : \A x \in S : n <= x
<1>1. PICK n \in S : \A x \in S : ~ (<<x, n>> \in OpToRel(<, Nat))
  BY WFMin, NatLessThanWellFounded, Zenon
<1>2. \A x \in S : x \in Nat /\ n \in Nat /\ ~ (x < n)
  BY <1>1 DEF OpToRel
<1>. QED
  BY <1>2

\* A non-empty set of naturals has the minimum that the map's order uses.
LEMMA MinFacts ==
  ASSUME NEW S \in SUBSET Nat, S # {}
  PROVE  Min(S) \in S /\ \A x \in S : Min(S) <= x
<1>1. \E n \in S : \A x \in S : n <= x
  BY Smallest
<1>. QED
  BY <1>1 DEF Min

\* A non-empty set of identifiers has a maximum.
LEMMA MaxFacts ==
  ASSUME NEW S \in SUBSET (1..MaxId), S # {}
  PROVE  Max(S) \in S /\ \A x \in S : Max(S) >= x
<1>. DEFINE T == {n \in Nat : \E x \in S : n = MaxId - x}
<1>1. T # {} /\ T \in SUBSET Nat
  <2>1. PICK x \in S : TRUE
    OBVIOUS
  <2>2. MaxId - x \in T
    BY <2>1, IdAssumption
  <2>. QED
    BY <2>2
<1>2. PICK n \in T : \A m \in T : n <= m
  BY <1>1, Smallest
<1>3. PICK x \in S : n = MaxId - x
  BY <1>2
<1>4. \A y \in S : x >= y
  <2>1. TAKE y \in S
  <2>2. MaxId - y \in T
    BY IdAssumption
  <2>3. n <= MaxId - y
    BY <1>2, <2>2
  <2>. QED
    BY <1>3, <2>3, IdAssumption
<1>. QED
  BY <1>4 DEF Max

\* begin is the least key of a non-empty map.
LEMMA BeginFacts ==
  ASSUME TypeOK
  PROVE  /\ Keys = {} => begin = end
         /\ Keys # {} => begin \in Keys /\ \A k \in Keys : begin <= k
<1>. USE IdAssumption DEF TypeOK, end
<1>1. Keys \union {end} \in SUBSET Nat
  OBVIOUS
<1>2. /\ begin \in Keys \union {end}
      /\ \A k \in Keys \union {end} : begin <= k
  BY <1>1, MinFacts DEF begin
<1>3. \A k \in Keys : k < end
  OBVIOUS
<1>4. ASSUME NEW k \in Keys PROVE begin # end
  BY <1>2, <1>3
<1>. QED
  BY <1>2, <1>4

\* The successor of the first key is the next key, or end.
LEMMA FollowingFacts ==
  ASSUME TypeOK, NEW iter \in Keys
  PROVE  /\ Following(iter) \in Keys \union {end}
         /\ Following(iter) > iter
         /\ \A k \in Keys : k > iter => Following(iter) <= k
<1>. USE IdAssumption DEF TypeOK, end
<1>. DEFINE S == {k \in Keys : k > iter} \union {end}
<1>1. S \in SUBSET Nat /\ S # {}
  <2>1. end \in S /\ end \in Nat
    OBVIOUS
  <2>2. \A k \in Keys : k \in Nat
    OBVIOUS
  <2>. QED
    BY <2>1, <2>2
<1>2. Following(iter) \in S /\ \A k \in S : Following(iter) <= k
  BY <1>1, MinFacts DEF Following
<1>. QED
  BY <1>2

\* FindInterval returns the interval that contains id, or end if there is
\* none: the basis of IsUsed and ReleaseId.
LEMMA FindIntervalFacts ==
  ASSUME TypeOK, IntervalsMinimal, NEW id \in 0..MaxId
  PROVE  /\ FindInterval(id) # end <=> id \in UsedIds
         /\ FindInterval(id) # end =>
              /\ FindInterval(id) \in Keys
              /\ FindInterval(id) <= id
              /\ id <= id_intervals[FindInterval(id)]
<1>. USE IdAssumption
<1>. DEFINE S == {k \in Keys : k >= id} \union {end}
            lub == lower_bound(id)
<1>1. S \in SUBSET Nat /\ S # {}
  <2>1. end \in S /\ end \in Nat
    BY DEF end
  <2>2. \A k \in Keys : k \in Nat
    BY DEF TypeOK
  <2>. QED
    BY <2>1, <2>2
<1>2. lub \in S /\ \A k \in S : lub <= k
  BY <1>1, MinFacts DEF lower_bound
<1>. HIDE DEF lub
<1>3. CASE lub = id
  <2>1. FindInterval(id) = id
    BY <1>3 DEF FindInterval, lub
  <2>2. id \in Keys
    BY <1>2, <1>3 DEF end
  <2>3. id <= id_intervals[id] /\ id \in 1..MaxId
    BY <2>2 DEF IntervalsMinimal, TypeOK
  <2>. QED
    BY <2>1, <2>2, <2>3 DEF UsedIds, TypeOK, end
<1>4. CASE lub # id /\ lub = begin
  <2>1. FindInterval(id) = end
    BY <1>4 DEF FindInterval, lub
  <2>2. \A k \in Keys : k > id
    <3>1. \A k \in Keys : begin <= k
      BY BeginFacts
    <3>2. lub > id
      BY <1>2, <1>4 DEF TypeOK, end
    <3>. QED
      BY <1>4, <3>1, <3>2, <1>2 DEF TypeOK, end
  <2>. QED
    BY <2>1, <2>2 DEF UsedIds, TypeOK
<1>5. CASE lub # id /\ lub # begin
  <2>. DEFINE P == {k \in Keys : k < lub}
              p == Preceding(lub)
  <2>0. lub > id
    BY <1>2, <1>5 DEF TypeOK, end
  <2>1. Keys # {}
    BY <1>5, <1>2, BeginFacts DEF end
  <2>2. begin \in P
    <3>1. begin \in Keys /\ \A k \in Keys : begin <= k
      BY <2>1, BeginFacts
    <3>2. begin \in 1..MaxId /\ lub \in 0..MaxId + 1
      BY <3>1, <1>2 DEF TypeOK, end
    <3>3. lub = end \/ lub \in Keys
      BY <1>2
    <3>4. begin < lub
      BY <3>1, <3>2, <3>3, <1>5 DEF end
    <3>. QED
      BY <3>1, <3>4
  <2>3. P \in SUBSET (1..MaxId) /\ P # {}
    BY <2>2 DEF TypeOK
  <2>4. p \in P /\ \A k \in P : p >= k
    BY <2>3, MaxFacts DEF Preceding
  <2>. HIDE DEF p
  <2>5. \A k \in P : k < id
    BY <1>2, <1>5 DEF TypeOK, end
  <2>6. FindInterval(id) = IF id <= id_intervals[p] THEN p ELSE end
    BY <1>5 DEF FindInterval, lub, p
  <2>7. \A k \in Keys : k <= id => k \in P
    BY <2>0, <1>2 DEF TypeOK, end
  <2>8. p \in Keys /\ p < id /\ p \in 1..MaxId /\ id_intervals[p] \in 1..MaxId
    BY <2>4, <2>5 DEF TypeOK
  <2>9. id \in UsedIds <=> id <= id_intervals[p]
    <3>1. ASSUME id <= id_intervals[p] PROVE id \in UsedIds
      BY <3>1, <2>8 DEF UsedIds
    <3>2. ASSUME NEW k \in Keys, k <= id, id <= id_intervals[k]
          PROVE  id <= id_intervals[p]
      <4>1. k \in P /\ p >= k
        BY <3>2, <2>7, <2>4
      <4>2. CASE k = p
        BY <4>2, <3>2
      <4>3. CASE k < p
        BY <4>3, <3>2, <2>8 DEF IntervalsMinimal, TypeOK
      <4>. QED
        BY <4>1, <4>2, <4>3, <2>8 DEF TypeOK
    <3>. QED
      BY <3>1, <3>2 DEF UsedIds
  <2>. QED
    BY <2>6, <2>8, <2>9 DEF end
<1>. QED
  BY <1>3, <1>4, <1>5

-----------------------------------------------------------------------------
(* The calls that add or remove an identifier.                             *)

IntervalInv ==
  /\ Keys \subseteq 1..MaxId
  /\ id_intervals \in [Keys -> 1..MaxId]
  /\ IntervalsMinimal

Adds(x) == x \in 1..MaxId /\ x \notin UsedIds /\ UsedIds' = UsedIds \union {x}

\* The first identifier of an empty instance is 1.
LEMMA GetFirstStep ==
  ASSUME IInv, GetFirst
  PROVE  IntervalInv' /\ Adds(1) /\ UsedIds = {}
<1>. USE IdAssumption
<1>1. /\ Keys = {}
      /\ Keys' = {1}
      /\ id_intervals' \in [Keys' -> 1..MaxId]
      /\ id_intervals'[1] = 1
  BY DEF GetFirst, Insert, Keys
<1>2. IntervalInv'
  BY <1>1 DEF IntervalInv, IntervalsMinimal
<1>3. UsedIds' = {1} /\ UsedIds = {}
  BY <1>1 DEF UsedIds
<1>. QED
  BY <1>2, <1>3 DEF Adds

\* Identifier 1 below the first interval.
LEMMA GetOneStep ==
  ASSUME IInv, GetOne
  PROVE  IntervalInv' /\ Adds(1) /\ \E j \in UsedIds : 1 < j
<1>. USE IdAssumption
<1>. DEFINE b == begin
<1>1. b \in Keys /\ (\A k \in Keys : b <= k) /\ b > 1
  BY BeginFacts DEF IInv, GetOne
<1>2. /\ Keys \subseteq 1..MaxId
      /\ \A k \in Keys : id_intervals[k] \in 1..MaxId
      /\ \A k \in Keys : k <= id_intervals[k]
      /\ \A j, k \in Keys : j < k => id_intervals[j] + 1 < k
  BY DEF IInv, TypeOK, IntervalsMinimal
<1>. HIDE DEF b
<1>3. CASE b > 2
  <2>1. id_intervals' = Insert(id_intervals, 1, 1)
    BY <1>3 DEF GetOne, b
  <2>2. /\ Keys' = Keys \union {1}
        /\ id_intervals' = [k \in Keys' |-> id_intervals'[k]]
        /\ \A k \in Keys : k # 1 /\ id_intervals'[k] = id_intervals[k]
        /\ id_intervals'[1] = 1
    BY <2>1, <1>1, <1>2 DEF Insert, Keys
  <2>3. IntervalInv'
    <3>1. Keys' \subseteq 1..MaxId /\ \A k \in Keys' : id_intervals'[k] \in 1..MaxId
      BY <2>2, <1>2
    <3>2. \A k \in Keys' : k <= id_intervals'[k]
      BY <2>2, <1>2
    <3>3. \A j, k \in Keys' : j < k => id_intervals'[j] + 1 < k
      BY <2>2, <1>1, <1>2, <1>3
    <3>. QED
      BY <2>2, <3>1, <3>2, <3>3 DEF IntervalInv, IntervalsMinimal
  <2>4. Adds(1)
    <3>1. 1 \notin UsedIds
      BY <1>1, <1>2 DEF UsedIds
    <3>2. \A i \in 1..MaxId : i \in UsedIds' <=> i \in UsedIds \union {1}
      BY <2>2, <1>1, <1>2 DEF UsedIds
    <3>. QED
      BY <3>1, <3>2 DEF Adds, UsedIds
  <2>. QED
    BY <2>3, <2>4, <1>1, <1>2 DEF UsedIds
<1>4. CASE b = 2
  <2>1. id_intervals' = Erase(Insert(id_intervals, 1, id_intervals[b]), b)
    BY <1>4 DEF GetOne, b
  <2>2. /\ Keys' = (Keys \union {1}) \ {b}
        /\ id_intervals' = [k \in Keys' |-> id_intervals'[k]]
        /\ \A k \in Keys \ {b} : k # 1 /\ id_intervals'[k] = id_intervals[k]
        /\ id_intervals'[1] = id_intervals[b]
        /\ 1 \in Keys'
    BY <2>1, <1>1, <1>2, <1>4 DEF Insert, Erase, Keys
  <2>3. IntervalInv'
    <3>1. Keys' \subseteq 1..MaxId /\ \A k \in Keys' : id_intervals'[k] \in 1..MaxId
      BY <2>2, <1>1, <1>2
    <3>2. \A k \in Keys' : k <= id_intervals'[k]
      BY <2>2, <1>1, <1>2
    <3>3. \A j, k \in Keys' : j < k => id_intervals'[j] + 1 < k
      BY <2>2, <1>1, <1>2, <1>4
    <3>. QED
      BY <2>2, <3>1, <3>2, <3>3 DEF IntervalInv, IntervalsMinimal
  <2>4. Adds(1)
    <3>1. 1 \notin UsedIds
      BY <1>1, <1>2 DEF UsedIds
    <3>2. \A i \in 1..MaxId : i \in UsedIds' => i \in UsedIds \union {1}
      BY <2>2, <1>1, <1>2, <1>4 DEF UsedIds
    <3>3. \A i \in 1..MaxId : i \in UsedIds \union {1} => i \in UsedIds'
      BY <2>2, <1>1, <1>2, <1>4 DEF UsedIds
    <3>. QED
      BY <3>1, <3>2, <3>3 DEF Adds, UsedIds
  <2>. QED
    BY <2>3, <2>4, <1>1, <1>2 DEF UsedIds
<1>. QED
  BY <1>1, <1>2, <1>3, <1>4

\* The first gap, with the two intervals around it merged when it is filled.
LEMMA GetGapStep ==
  ASSUME IInv, GetGap
  PROVE  LET x == id_intervals[begin] + 1
         IN  IntervalInv' /\ Adds(x) /\ \E j \in UsedIds : x < j
<1>. USE IdAssumption
<1>. DEFINE b == begin
            n == Following(begin)
            x == id_intervals[b] + 1
<1>1. b \in Keys /\ (\A k \in Keys : b <= k)
  BY BeginFacts DEF IInv, GetGap
<1>2. /\ Keys \subseteq 1..MaxId
      /\ \A k \in Keys : id_intervals[k] \in 1..MaxId
      /\ \A k \in Keys : k <= id_intervals[k]
      /\ \A j, k \in Keys : j < k => id_intervals[j] + 1 < k
  BY DEF IInv, TypeOK, IntervalsMinimal
<1>3. n \in Keys /\ n > b /\ \A k \in Keys : k > b => n <= k
  BY <1>1, FollowingFacts DEF GetGap, IInv
<1>4. id_intervals' = IF x + 1 = n
                      THEN Erase(Insert(id_intervals, b, id_intervals[n]), n)
                      ELSE Insert(id_intervals, b, x)
  BY DEF GetGap, Extended
<1>. HIDE DEF b, n
<1>5. x < n /\ x \in 1..MaxId
  BY <1>1, <1>2, <1>3
<1>6. x \notin UsedIds
  BY <1>1, <1>2, <1>3, <1>5 DEF UsedIds
<1>7. n \in UsedIds
  BY <1>2, <1>3 DEF UsedIds
<1>8. CASE x + 1 = n
  <2>1. /\ Keys' = Keys \ {n}
        /\ id_intervals' = [k \in Keys' |-> id_intervals'[k]]
        /\ \A k \in Keys \ {n, b} : id_intervals'[k] = id_intervals[k]
        /\ id_intervals'[b] = id_intervals[n]
        /\ b \in Keys'
    BY <1>1, <1>2, <1>3, <1>4, <1>8 DEF Insert, Erase, Keys
  <2>2. IntervalInv'
    <3>1. Keys' \subseteq 1..MaxId /\ \A k \in Keys' : id_intervals'[k] \in 1..MaxId
      BY <2>1, <1>2, <1>3
    <3>2. \A k \in Keys' : k <= id_intervals'[k]
      BY <2>1, <1>1, <1>2, <1>3
    <3>3. ASSUME NEW j \in Keys', NEW k \in Keys', j < k
          PROVE  id_intervals'[j] + 1 < k
      <4>1. CASE j = b
        BY <4>1, <3>3, <2>1, <1>1, <1>2, <1>3
      <4>2. CASE j # b
        BY <4>2, <3>3, <2>1, <1>1, <1>2, <1>3
      <4>. QED
        BY <4>1, <4>2
    <3>. QED
      BY <2>1, <3>1, <3>2, <3>3 DEF IntervalInv, IntervalsMinimal
  <2>3. \A i \in 1..MaxId : i \in UsedIds' => i \in UsedIds \union {x}
    <3>1. SUFFICES ASSUME NEW i \in 1..MaxId, NEW k \in Keys',
                          k <= i, i <= id_intervals'[k]
                   PROVE  i \in UsedIds \union {x}
      BY DEF UsedIds
    <3>2. CASE k # b
      BY <3>1, <3>2, <2>1 DEF UsedIds
    <3>3. CASE k = b
      <4>1. i <= id_intervals[b] \/ i = x \/ n <= i
        BY <3>1, <3>3, <1>2, <1>8, <1>1, <1>3
      <4>. QED
        BY <4>1, <3>1, <3>3, <2>1, <1>1, <1>3 DEF UsedIds
    <3>. QED
      BY <3>2, <3>3
  <2>4. \A i \in 1..MaxId : i \in UsedIds \union {x} => i \in UsedIds'
    <3>1. x \in UsedIds'
      BY <2>1, <1>1, <1>2, <1>3, <1>5 DEF UsedIds
    <3>2. ASSUME NEW i \in 1..MaxId, NEW k \in Keys, k <= i, i <= id_intervals[k]
          PROVE  i \in UsedIds'
      <4>1. CASE k = b
        BY <4>1, <3>2, <2>1, <1>1, <1>2, <1>3 DEF UsedIds
      <4>2. CASE k = n
        BY <4>2, <3>2, <2>1, <1>1, <1>2, <1>3 DEF UsedIds
      <4>3. CASE k # b /\ k # n
        BY <4>3, <3>2, <2>1 DEF UsedIds
      <4>. QED
        BY <4>1, <4>2, <4>3
    <3>. QED
      BY <3>1, <3>2 DEF UsedIds
  <2>. QED
    BY <2>2, <2>3, <2>4, <1>5, <1>6, <1>7 DEF Adds, UsedIds, b
<1>9. CASE x + 1 # n
  <2>1. /\ Keys' = Keys
        /\ id_intervals' = [k \in Keys' |-> id_intervals'[k]]
        /\ \A k \in Keys \ {b} : id_intervals'[k] = id_intervals[k]
        /\ id_intervals'[b] = x
    BY <1>1, <1>2, <1>3, <1>4, <1>9 DEF Insert, Keys
  <2>2. IntervalInv'
    <3>1. Keys' \subseteq 1..MaxId /\ \A k \in Keys' : id_intervals'[k] \in 1..MaxId
      BY <2>1, <1>2, <1>5
    <3>2. \A k \in Keys' : k <= id_intervals'[k]
      BY <2>1, <1>1, <1>2, <1>3
    <3>3. \A j, k \in Keys' : j < k => id_intervals'[j] + 1 < k
      BY <2>1, <1>1, <1>2, <1>3, <1>5, <1>9
    <3>. QED
      BY <2>1, <3>1, <3>2, <3>3 DEF IntervalInv, IntervalsMinimal
  <2>3. \A i \in 1..MaxId : i \in UsedIds' <=> i \in UsedIds \union {x}
    BY <2>1, <1>1, <1>2, <1>5 DEF UsedIds
  <2>. QED
    BY <2>2, <2>3, <1>5, <1>6, <1>7 DEF Adds, UsedIds, b
<1>. QED
  BY <1>8, <1>9

\* A single interval from 1 up: it grows by one, or all identifiers are used.
LEMMA GetNextStep ==
  ASSUME IInv, GetNext
  PROVE  /\ UsedIds = 1..id_intervals[begin]
         /\ \/ /\ id_intervals[begin] = MaxId
               /\ UNCHANGED <<id_intervals, size>>
               /\ result' = Threw("GetId", 0)
            \/ /\ id_intervals[begin] # MaxId
               /\ IntervalInv'
               /\ Adds(id_intervals[begin] + 1)
               /\ size' = size + 1
               /\ result' = Returned("GetId", 0, id_intervals[begin] + 1)
<1>. USE IdAssumption
<1>. DEFINE b == begin
            x == id_intervals[b] + 1
<1>1. b = 1 /\ b \in Keys /\ (\A k \in Keys : b <= k)
  BY BeginFacts DEF IInv, GetNext
<1>2. /\ Keys \subseteq 1..MaxId
      /\ \A k \in Keys : id_intervals[k] \in 1..MaxId
      /\ id_intervals = [k \in Keys |-> id_intervals[k]]
  BY DEF IInv, TypeOK
<1>3. Keys = {b}
  <2>1. \A k \in Keys : k > b => end <= k
    BY <1>1, FollowingFacts DEF GetNext, IInv
  <2>. QED
    BY <1>1, <1>2, <2>1 DEF end
<1>4. UsedIds = 1..id_intervals[b]
  BY <1>1, <1>2, <1>3 DEF UsedIds
<1>5. CASE id_intervals[b] = MaxId
  BY <1>4, <1>5 DEF GetNext
<1>6. CASE id_intervals[b] # MaxId
  <2>1. /\ id_intervals' = [id_intervals EXCEPT ![b] = @ + 1]
        /\ size' = size + 1
        /\ result' = Returned("GetId", 0, x)
    BY <1>6 DEF GetNext
  <2>. HIDE DEF b
  <2>2. Keys' = {b} /\ id_intervals'[b] = x /\ id_intervals' = [k \in Keys' |-> id_intervals'[k]]
    BY <2>1, <1>2, <1>3 DEF Keys
  <2>3. x \in 1..MaxId
    BY <1>6, <1>1, <1>2
  <2>4. IntervalInv'
    BY <2>2, <2>3, <1>1 DEF IntervalInv, IntervalsMinimal
  <2>5. UsedIds' = 1..x
    BY <2>2, <2>3, <1>1 DEF UsedIds
  <2>6. Adds(x)
    BY <2>3, <2>5, <1>4, <1>1, <1>2 DEF Adds
  <2>. QED
    BY <1>4, <1>6, <2>1, <2>4, <2>6 DEF b
<1>. QED
  BY <1>5, <1>6

\* A release removes exactly the identifier, by shrinking or splitting its
\* interval, or throws for an identifier that is not used.
LEMMA ReleaseIdStep ==
  ASSUME IInv, NEW id \in 0..MaxId, ReleaseId(id)
  PROVE  \/ /\ id \notin UsedIds
            /\ UNCHANGED <<id_intervals, size>>
            /\ result' = Threw("ReleaseId", id)
         \/ /\ id \in UsedIds
            /\ IntervalInv'
            /\ UsedIds' = UsedIds \ {id}
            /\ size' = size - 1
            /\ result' = Returned("ReleaseId", id, 0)
<1>. USE IdAssumption
<1>. DEFINE f == FindInterval(id)
            last == id_intervals[f]
<1>1. CASE f = end
  BY <1>1, FindIntervalFacts DEF IInv, ReleaseId
<1>2. CASE f # end
  <2>1. id \in UsedIds /\ f \in Keys /\ f <= id /\ id <= last
    BY <1>2, FindIntervalFacts DEF IInv
  <2>2. /\ Keys \subseteq 1..MaxId
        /\ \A k \in Keys : id_intervals[k] \in 1..MaxId
        /\ \A k \in Keys : k <= id_intervals[k]
        /\ \A j, k \in Keys : j < k => id_intervals[j] + 1 < k
    BY DEF IInv, TypeOK, IntervalsMinimal
  <2>3. /\ id_intervals' = Shrunk(id, f)
        /\ size' = size - 1
        /\ result' = Returned("ReleaseId", id, 0)
    BY <1>2 DEF ReleaseId
  <2>. HIDE DEF f
  <2>4. /\ id \in 1..MaxId /\ f \in 1..MaxId /\ last \in 1..MaxId
        /\ \A k \in Keys \ {f} : k < f \/ k > last + 1
        /\ \A k \in Keys \ {f} : id_intervals[k] + 1 < f \/ k > last + 1
        /\ \A k \in Keys \ {f} : ~ (k <= id /\ id <= id_intervals[k])
    BY <2>1, <2>2
  <2>5. CASE id = f /\ id = last
    <3>1. /\ Keys' = Keys \ {f}
          /\ id_intervals' = [k \in Keys' |-> id_intervals'[k]]
          /\ \A k \in Keys' : id_intervals'[k] = id_intervals[k]
      BY <2>3, <2>5 DEF Shrunk, Erase, Keys
    <3>2. IntervalInv'
      BY <3>1, <2>2 DEF IntervalInv, IntervalsMinimal
    <3>3. \A i \in 1..MaxId : i \in UsedIds' <=> i \in UsedIds \ {id}
      BY <3>1, <2>1, <2>2, <2>4, <2>5 DEF UsedIds
    <3>. QED
      BY <3>2, <3>3, <2>1, <2>3 DEF UsedIds
  <2>6. CASE id = f /\ id # last
    <3>1. id_intervals' = Erase(Insert(id_intervals, id + 1, last), f)
      BY <2>3, <2>6 DEF Shrunk
    <3>2. /\ Keys' = (Keys \union {id + 1}) \ {f}
          /\ id_intervals' = [k \in Keys' |-> id_intervals'[k]]
          /\ \A k \in Keys \ {f} : k # id + 1 /\ id_intervals'[k] = id_intervals[k]
          /\ id_intervals'[id + 1] = last
          /\ id + 1 \in Keys' /\ id + 1 <= last
      BY <3>1, <2>1, <2>2, <2>4, <2>6 DEF Insert, Erase, Keys
    <3>3. IntervalInv'
      <4>1. Keys' \subseteq 1..MaxId /\ \A k \in Keys' : id_intervals'[k] \in 1..MaxId
        BY <3>2, <2>2, <2>4
      <4>2. \A k \in Keys' : k <= id_intervals'[k]
        BY <3>2, <2>2
      <4>3. \A j, k \in Keys' : j < k => id_intervals'[j] + 1 < k
        BY <3>2, <2>1, <2>2, <2>4, <2>6
      <4>. QED
        BY <3>2, <4>1, <4>2, <4>3 DEF IntervalInv, IntervalsMinimal
    <3>4. \A i \in 1..MaxId : i \in UsedIds' => i \in UsedIds \ {id}
      BY <3>2, <2>1, <2>2, <2>4, <2>6 DEF UsedIds
    <3>5. \A i \in 1..MaxId : i \in UsedIds \ {id} => i \in UsedIds'
      BY <3>2, <2>1, <2>2, <2>4, <2>6 DEF UsedIds
    <3>. QED
      BY <3>3, <3>4, <3>5, <2>1, <2>3 DEF UsedIds
  <2>7. CASE id # f /\ id = last
    <3>1. /\ Keys' = Keys
          /\ id_intervals' = [k \in Keys' |-> id_intervals'[k]]
          /\ \A k \in Keys \ {f} : id_intervals'[k] = id_intervals[k]
          /\ id_intervals'[f] = last - 1
      BY <2>1, <2>3, <2>7 DEF Shrunk, Insert, Keys
    <3>2. IntervalInv'
      <4>1. Keys' \subseteq 1..MaxId /\ \A k \in Keys' : id_intervals'[k] \in 1..MaxId
        BY <3>1, <2>1, <2>2, <2>4, <2>7
      <4>2. \A k \in Keys' : k <= id_intervals'[k]
        BY <3>1, <2>1, <2>2, <2>4, <2>7
      <4>3. \A j, k \in Keys' : j < k => id_intervals'[j] + 1 < k
        BY <3>1, <2>1, <2>2, <2>4, <2>7
      <4>. QED
        BY <3>1, <4>1, <4>2, <4>3 DEF IntervalInv, IntervalsMinimal
    <3>3. \A i \in 1..MaxId : i \in UsedIds' <=> i \in UsedIds \ {id}
      BY <3>1, <2>1, <2>2, <2>4, <2>7 DEF UsedIds
    <3>. QED
      BY <3>2, <3>3, <2>1, <2>3 DEF UsedIds
  <2>8. CASE id # f /\ id # last
    <3>1. id_intervals' = Insert(Insert(id_intervals, id + 1, last), f, id - 1)
      BY <2>3, <2>8 DEF Shrunk
    <3>2. /\ Keys' = Keys \union {id + 1}
          /\ id_intervals' = [k \in Keys' |-> id_intervals'[k]]
          /\ \A k \in Keys \ {f} : k # id + 1 /\ id_intervals'[k] = id_intervals[k]
          /\ id_intervals'[id + 1] = last
          /\ id_intervals'[f] = id - 1
          /\ f < id /\ id < last
      BY <3>1, <2>1, <2>2, <2>4, <2>8 DEF Insert, Keys
    <3>3. IntervalInv'
      <4>1. Keys' \subseteq 1..MaxId /\ \A k \in Keys' : id_intervals'[k] \in 1..MaxId
        BY <3>2, <2>1, <2>2, <2>4
      <4>2. \A k \in Keys' : k <= id_intervals'[k]
        BY <3>2, <2>1, <2>2, <2>4
      <4>3. \A j, k \in Keys' : j < k => id_intervals'[j] + 1 < k
        BY <3>2, <2>1, <2>2, <2>4
      <4>. QED
        BY <3>2, <4>1, <4>2, <4>3 DEF IntervalInv, IntervalsMinimal
    <3>4. \A i \in 1..MaxId : i \in UsedIds' => i \in UsedIds \ {id}
      BY <3>2, <2>1, <2>2, <2>4 DEF UsedIds
    <3>5. \A i \in 1..MaxId : i \in UsedIds \ {id} => i \in UsedIds'
      BY <3>2, <2>1, <2>2, <2>4 DEF UsedIds
    <3>. QED
      BY <3>3, <3>4, <3>5, <2>1, <2>3 DEF UsedIds
  <2>. QED
    BY <2>5, <2>6, <2>7, <2>8
<1>. QED
  BY <1>1, <1>2

-----------------------------------------------------------------------------
(* The count.                                                              *)

\* The dynamic set is finite and no larger than the range of identifiers.
LEMMA UsedFinite ==
  /\ IsFiniteSet(UsedIds)
  /\ Cardinality(UsedIds) \in 0..MaxId
<1>1. IsFiniteSet(1..MaxId) /\ Cardinality(1..MaxId) = MaxId
  BY FS_Interval, IdAssumption
<1>2. UsedIds \subseteq 1..MaxId
  BY DEF UsedIds
<1>3. IsFiniteSet(UsedIds) /\ Cardinality(UsedIds) <= MaxId
  BY <1>1, <1>2, FS_Subset
<1>4. Cardinality(UsedIds) \in Nat
  BY <1>3, FS_CardinalityType
<1>. QED
  BY <1>3, <1>4, IdAssumption

\* A new identifier adds one.
LEMMA CountUp ==
  ASSUME NEW x, Adds(x)
  PROVE  Cardinality(UsedIds') = Cardinality(UsedIds) + 1
BY UsedFinite, FS_AddElement DEF Adds

\* A released identifier takes one away.
LEMMA CountDown ==
  ASSUME NEW x \in UsedIds, UsedIds' = UsedIds \ {x}
  PROVE  Cardinality(UsedIds') = Cardinality(UsedIds) - 1
BY UsedFinite, FS_RemoveElement

\* An empty map represents the empty set.
LEMMA EmptyMap ==
  ASSUME Keys = {}
  PROVE  UsedIds = {} /\ Cardinality(UsedIds) = 0
BY FS_EmptySet DEF UsedIds

-----------------------------------------------------------------------------
(* The invariant.                                                          *)

\* What a step of every kind does to the invariant: GetId.
LEMMA GetIdInv ==
  ASSUME IInv, GetId
  PROVE  IInv'
<1>. USE IdAssumption
<1>0. /\ Cardinality(UsedIds) \in 0..MaxId /\ Cardinality(UsedIds)' \in 0..MaxId
  <2>1. Cardinality(UsedIds) \in 0..MaxId
    BY UsedFinite
  <2>2. (Cardinality(UsedIds) \in 0..MaxId)'
    BY UsedFinite, PTL
  <2>. QED
    BY <2>1, <2>2
<1>1. CASE GetFirst
  <2>1. IntervalInv' /\ Adds(1) /\ UsedIds = {} /\ size' = 1
    BY <1>1, GetFirstStep DEF GetFirst
  <2>2. Cardinality(UsedIds') = 1
    BY <2>1, CountUp, FS_EmptySet
  <2>. QED
    BY <2>1, <2>2, <1>0 DEF IInv, IntervalInv, TypeOK, SizeExact
<1>2. ASSUME NEW x, Adds(x), IntervalInv', size' = size + 1, Keys # {}
      PROVE  IInv'
  <2>1. size = Cardinality(UsedIds)
    BY <1>2 DEF IInv, SizeExact
  <2>2. size' = Cardinality(UsedIds')
    BY <2>1, <1>2, CountUp
  <2>. QED
    BY <2>2, <1>2, <1>0 DEF IInv, IntervalInv, TypeOK, SizeExact
<1>3. CASE GetOne
  BY <1>2, <1>3, GetOneStep DEF GetOne
<1>4. CASE GetGap
  BY <1>2, <1>4, GetGapStep DEF GetGap
<1>5. CASE GetNext
  <2>0. Keys # {}
    BY <1>5 DEF GetNext
  <2>1. CASE UNCHANGED <<id_intervals, size>>
    BY <2>0, <2>1 DEF IInv, TypeOK, IntervalsMinimal, SizeExact, UsedIds, Keys
  <2>2. CASE IntervalInv' /\ Adds(id_intervals[begin] + 1) /\ size' = size + 1
    BY <2>0, <2>2, <1>2
  <2>. QED
    BY <1>5, <2>1, <2>2, GetNextStep
<1>. QED
  BY <1>1, <1>3, <1>4, <1>5 DEF GetId

\* Steps that leave the map and the count alone.
LEMMA UnchangedInv ==
  ASSUME UNCHANGED <<id_intervals, size>>
  PROVE  (IInv => IInv') /\ UsedIds' = UsedIds /\ Stale' = Stale
BY DEF IInv, TypeOK, IntervalsMinimal, SizeExact, UsedIds, Keys, Stale

\* What a step of every kind does to the invariant: ReleaseId.
LEMMA ReleaseIdInv ==
  ASSUME IInv, NEW id \in 0..MaxId, ReleaseId(id)
  PROVE  IInv' /\ (Stale' = Stale)
<1>. USE IdAssumption
<1>1. CASE UNCHANGED <<id_intervals, size>>
  BY <1>1, UnchangedInv
<1>2. CASE /\ id \in UsedIds /\ IntervalInv' /\ UsedIds' = UsedIds \ {id}
           /\ size' = size - 1
  <2>0. (Cardinality(UsedIds) \in 0..MaxId)'
    BY UsedFinite, PTL
  <2>1. Keys # {}
    BY <1>2 DEF UsedIds
  <2>2. size = Cardinality(UsedIds)
    BY <2>1 DEF IInv, SizeExact
  <2>3. size' = Cardinality(UsedIds')
    BY <2>2, <1>2, CountDown
  <2>4. ~Stale
    BY <2>1 DEF Stale
  <2>5. ~Stale'
    <3>1. Keys' = {} => UsedIds' = {}
      BY DEF UsedIds
    <3>. QED
      BY <2>3, <3>1, FS_EmptySet DEF Stale
  <2>6. IInv'
    BY <2>0, <2>3, <1>2 DEF IInv, IntervalInv, TypeOK, SizeExact
  <2>7. Stale' = Stale
    BY <2>4, <2>5 DEF Stale
  <2>. QED
    BY <2>6, <2>7
<1>. QED
  BY <1>1, <1>2, ReleaseIdStep

\* Every step keeps the invariant.
LEMMA StepInv ==
  ASSUME IInv, [Next]_vars
  PROVE  IInv'
<1>1. CASE GetId
  BY <1>1, GetIdInv
<1>2. CASE NumberOfUsedIds
  BY <1>2, UnchangedInv DEF NumberOfUsedIds
<1>3. ASSUME NEW id \in 0..MaxId, ReleaseId(id) \/ IsUsed(id)
      PROVE  IInv'
  BY <1>3, ReleaseIdInv, UnchangedInv DEF IsUsed
<1>4. CASE MoveFrom
  <2>1. Keys' = {} /\ id_intervals' \in [Keys' -> 1..MaxId] /\ size' = size
    BY <1>4 DEF MoveFrom, Keys
  <2>. QED
    BY <1>4, <2>1 DEF IInv, TypeOK, IntervalsMinimal, SizeExact, MoveFrom
<1>5. CASE UNCHANGED vars
  BY <1>5, UnchangedInv DEF vars
<1>. QED
  BY <1>1, <1>2, <1>3, <1>4, <1>5 DEF Next

\* A new instance is empty.
LEMMA InitInv ==
  ASSUME Init
  PROVE  IInv /\ UsedIds = {} /\ ~Stale
<1>1. Keys = {} /\ id_intervals \in [Keys -> 1..MaxId] /\ size = 0
  BY DEF Init, Keys
<1>2. size \in 0..MaxId
  BY <1>1, IdAssumption
<1>3. UsedIds = {} /\ ~Stale
  BY <1>1, EmptyMap DEF Stale
<1>. QED
  BY <1>1, <1>2, <1>3 DEF IInv, TypeOK, IntervalsMinimal, SizeExact

\* The inductive invariant holds in every state of every instance.
LEMMA IdManagerInvariant == Spec => []IInv
<1>1. Init => IInv
  BY InitInv
<1>2. IInv /\ [Next]_vars => IInv'
  BY StepInv
<1>. QED
  BY <1>1, <1>2, PTL DEF Spec

\* No call takes a bound of an interval or size_ out of the range of the
\* identifier type: GetId never adds beyond its maximum, and 0 is never used.
THEOREM IdManagerTypeCorrect == Spec => []TypeOK
<1>1. IInv => TypeOK
  BY DEF IInv
<1>. QED
  BY <1>1, IdManagerInvariant, PTL

\* GetId and ReleaseId keep the map the minimal set of disjoint, non-adjacent
\* intervals, moved-from instances included.
THEOREM IntervalsAlwaysMinimal == Spec => []IntervalsMinimal
<1>1. IInv => IntervalsMinimal
  BY DEF IInv
<1>. QED
  BY <1>1, IdManagerInvariant, PTL

\* size_ is the size of the dynamic set, except for an instance that was moved
\* from, which is empty and whose next GetId sets the count.
THEOREM SizeAlwaysExact == Spec => []SizeExact
<1>1. IInv => SizeExact
  BY DEF IInv
<1>. QED
  BY <1>1, IdManagerInvariant, PTL

-----------------------------------------------------------------------------
(* The refinement.                                                         *)

\* A call of GetId is one of the abstract set.
LEMMA GetIdRefines ==
  ASSUME IInv, GetId
  PROVE  Set!GetId
<1>. USE IdAssumption
<1>0. ASSUME NEW x, Adds(x) PROVE Stale' = FALSE
  BY <1>0 DEF Adds, UsedIds, Stale
<1>1. ASSUME NEW x, Adds(x), \E j \in UsedIds : x < j,
             result' = Returned("GetId", 0, x)
      PROVE  Set!GetId
  <2>1. x \in Set!Gaps
    BY <1>1 DEF Adds, Set!Gaps
  <2>. QED
    BY <1>0, <1>1, <2>1 DEF Adds, Set!GetId, Set!Returned, Returned
<1>2. CASE GetFirst
  <2>1. Adds(1) /\ UsedIds = {} /\ result' = Returned("GetId", 0, 1)
    BY <1>2, GetFirstStep DEF GetFirst
  <2>2. Set!Gaps = {} /\ Set!Above = 1..MaxId
    BY <2>1 DEF Set!Gaps, Set!Above
  <2>3. 1 \in Set!Above /\ \A j \in Set!Above : 1 <= j
    BY <2>2
  <2>. QED
    BY <1>0, <2>1, <2>2, <2>3 DEF Adds, Set!GetId, Set!Returned, Returned
<1>3. CASE GetOne
  BY <1>1, <1>3, GetOneStep DEF GetOne
<1>4. CASE GetGap
  BY <1>1, <1>4, GetGapStep DEF GetGap
<1>5. CASE GetNext
  <2>. DEFINE m == id_intervals[begin]
  <2>1. UsedIds = 1..m
    BY <1>5, GetNextStep
  <2>2. m \in 1..MaxId
    <3>1. begin \in Keys
      BY <1>5, BeginFacts DEF IInv, GetNext
    <3>. QED
      BY <3>1 DEF IInv, TypeOK
  <2>. HIDE DEF m
  <2>3. Set!Gaps = {} /\ Set!Above = (m + 1)..MaxId
    BY <2>1, <2>2 DEF Set!Gaps, Set!Above
  <2>4. CASE m = MaxId
    <3>1. UNCHANGED <<id_intervals, size>> /\ result' = Threw("GetId", 0)
      BY <1>5, <2>4, GetNextStep DEF m
    <3>2. UsedIds' = UsedIds /\ Stale' = Stale
      BY <3>1, UnchangedInv
    <3>3. Set!Above = {}
      BY <2>2, <2>3, <2>4
    <3>. QED
      BY <3>1, <3>2, <3>3, <2>3 DEF Set!GetId, Set!Threw, Threw
  <2>5. CASE m # MaxId
    <3>1. Adds(m + 1) /\ result' = Returned("GetId", 0, m + 1)
      BY <1>5, <2>5, GetNextStep DEF m
    <3>2. m + 1 \in Set!Above /\ \A j \in Set!Above : m + 1 <= j
      BY <2>2, <2>3, <2>5
    <3>. QED
      BY <1>0, <3>1, <3>2, <2>3 DEF Adds, Set!GetId, Set!Returned, Returned
  <2>. QED
    BY <2>4, <2>5
<1>. QED
  BY <1>2, <1>3, <1>4, <1>5 DEF GetId

\* A call that names an identifier, or asks for the count, is one of the
\* abstract set.
LEMMA OtherRefines ==
  ASSUME IInv
  PROVE  /\ \A id \in 0..MaxId : ReleaseId(id) => Set!ReleaseId(id)
         /\ \A id \in 0..MaxId : IsUsed(id) => Set!IsUsed(id)
         /\ NumberOfUsedIds => Set!NumberOfUsedIds
<1>1. ASSUME NEW id \in 0..MaxId, ReleaseId(id) PROVE Set!ReleaseId(id)
  BY <1>1, ReleaseIdStep, ReleaseIdInv, UnchangedInv
     DEF Set!ReleaseId, Set!Returned, Returned, Set!Threw, Threw
<1>2. ASSUME NEW id \in 0..MaxId, IsUsed(id) PROVE Set!IsUsed(id)
  <2>1. (FindInterval(id) # end) <=> (id \in UsedIds)
    BY FindIntervalFacts DEF IInv
  <2>2. UsedIds' = UsedIds /\ Stale' = Stale
    BY <1>2, UnchangedInv DEF IsUsed
  <2>. QED
    BY <1>2, <2>1, <2>2 DEF IsUsed, Set!IsUsed, Set!Returned, Returned
<1>3. ASSUME NumberOfUsedIds PROVE Set!NumberOfUsedIds
  <2>1. UsedIds' = UsedIds /\ Stale' = Stale
    BY <1>3, UnchangedInv DEF NumberOfUsedIds
  <2>2. size \in 0..MaxId /\ result' = Set!Returned("NumberOfUsedIds", 0, size)
    BY <1>3 DEF IInv, TypeOK, NumberOfUsedIds, Set!Returned, Returned
  <2>3. ~Stale => size = Set!Cardinality(UsedIds)
    <3>1. CASE Keys = {}
      BY <3>1, EmptyMap DEF Stale, Set!Cardinality, Cardinality
    <3>2. CASE Keys # {}
      BY <3>2 DEF IInv, SizeExact, Set!Cardinality, Cardinality
    <3>. QED
      BY <3>1, <3>2
  <2>. QED
    BY <2>1, <2>2, <2>3 DEF Set!NumberOfUsedIds
<1>. QED
  BY <1>1, <1>2, <1>3

\* IdManager does on its intervals what its class comment says of a set:
\* every call is the abstract call with the same result.
THEOREM IdManagerImplementsIdSet == Spec => ImplementsIdSet
<1>1. Init => IInv
  BY InitInv
<1>2. IInv /\ [Next]_vars => IInv'
  BY StepInv
<1>3. Init => Set!Init
  <2>. SUFFICES ASSUME Init PROVE Set!Init
    OBVIOUS
  <2>1. UsedIds = {} /\ Stale = FALSE
    BY InitInv
  <2>. QED
    BY <2>1 DEF Init, Set!Init, Set!Returned, Returned
<1>4. IInv /\ [Next]_vars => [Set!Next]_(Set!vars)
  <2>. SUFFICES ASSUME IInv, [Next]_vars
                PROVE  Set!Next \/ UNCHANGED Set!vars
    OBVIOUS
  <2>1. CASE GetId
    BY <2>1, GetIdRefines DEF Set!Next
  <2>2. CASE NumberOfUsedIds
    BY <2>2, OtherRefines DEF Set!Next
  <2>3. ASSUME NEW id \in 0..MaxId, ReleaseId(id) \/ IsUsed(id)
        PROVE  Set!Next
    BY <2>3, OtherRefines DEF Set!Next
  <2>4. CASE MoveFrom
    <3>1. Keys' = {} /\ result' = Set!Returned("MoveFrom", 0, 0)
      BY <2>4 DEF MoveFrom, Keys, Set!Returned, Returned
    <3>2. UsedIds' = {}
      BY <3>1 DEF UsedIds
    <3>3. Stale' \in BOOLEAN
      BY DEF Stale
    <3>. QED
      BY <3>1, <3>2, <3>3 DEF Set!MoveFrom, Set!Next
  <2>5. CASE UNCHANGED vars
    BY <2>5, UnchangedInv DEF vars, Set!vars
  <2>. QED
    BY <2>1, <2>2, <2>3, <2>4, <2>5 DEF Next
<1>. QED
  BY <1>1, <1>2, <1>3, <1>4, PTL DEF Spec, ImplementsIdSet, Set!Spec

=============================================================================
