----------------------------- MODULE SendProofs -----------------------------
(***************************************************************************)
(* What is written, for every system and every size of a record.           *)
(*                                                                         *)
(* PartitionByteSequence, for every length: the estimates made before the  *)
(* records hold, what is returned can be written by one call, and the      *)
(* records cover the byte sequence.                                        *)
(*                                                                         *)
(* EncodeNameValuePairs, for every list of pairs: its unsigned counts do   *)
(* not wrap, what is returned can be written by one call, no record is     *)
(* empty, too long or not aligned, every header states what follows it,    *)
(* and the content is the encoding of the list, without a gap or a         *)
(* repetition from one call to the next.                                   *)
(***************************************************************************)
EXTENDS EncodeNameValuePairs, PartitionByteSequence, FcgiUtilitiesProofs

-----------------------------------------------------------------------------
(* Arithmetic.                                                             *)

\* How many records of content d have, the last perhaps in part.
Count(d) == CeilingOfQuotient(d, MaxContent)

LEMMA ContentSize ==
  /\ MaxContent \in Nat /\ MaxContent >= 16
  /\ \E k \in Nat : MaxContent = 8 * k
BY PartitionAssumption

\* Full records, and a last one that is not empty.
LEMMA CountFull ==
  ASSUME NEW q \in Nat
  PROVE  /\ Count(MaxContent * q) = q
         /\ (MaxContent * q) % 8 = 0
<1>1. MaxContent \in Nat /\ MaxContent > 0
  BY ContentSize
<1>2. (MaxContent * q + 0) \div MaxContent = q /\ (MaxContent * q + 0) % MaxContent = 0
  BY <1>1, Division
<1>3. MaxContent * q \in Nat
  BY <1>1
<1>4. Count(MaxContent * q) = q
  BY <1>2, <1>3 DEF Count, CeilingOfQuotient
<1>5. PICK k \in Nat : MaxContent = 8 * k
  BY ContentSize
<1>6. MaxContent * q = 8 * (k * q) /\ k * q \in Nat
  BY <1>5
<1>7. (MaxContent * q) % 8 = 0
  BY <1>6
<1>. QED
  BY <1>4, <1>7

LEMMA CountPart ==
  ASSUME NEW q \in Nat, NEW r \in 1..MaxContent
  PROVE  Count(MaxContent * q + r) = q + 1
<1>1. MaxContent \in Nat /\ MaxContent > 0
  BY ContentSize
<1>2. CASE r < MaxContent
  <2>1. /\ (MaxContent * q + r) \div MaxContent = q
        /\ (MaxContent * q + r) % MaxContent = r
    BY <1>1, <1>2, Division
  <2>. QED
    BY <2>1 DEF Count, CeilingOfQuotient
<1>3. CASE r = MaxContent
  <2>1. MaxContent * q + r = MaxContent * (q + 1)
    BY <1>1, <1>3
  <2>. QED
    BY <2>1, CountFull
<1>. QED
  BY <1>1, <1>2, <1>3

\* A positive length consists of full records and a last one.
LEMMA LastRecord ==
  ASSUME NEW d \in Nat, d > 0
  PROVE  \E q \in Nat, r \in 1..MaxContent : d = MaxContent * q + r
<1>1. MaxContent \in Nat /\ MaxContent > 0
  BY ContentSize
<1>2. /\ d \div MaxContent \in Nat /\ d % MaxContent \in 0..MaxContent - 1
      /\ d = MaxContent * (d \div MaxContent) + (d % MaxContent)
  BY <1>1, Quotient
<1>3. CASE d % MaxContent > 0
  <2>1. d % MaxContent \in 1..MaxContent
    BY <1>1, <1>2, <1>3
  <2>. QED
    BY <1>2, <2>1, Zenon
<1>4. CASE d % MaxContent = 0
  <2>1. d = MaxContent * (d \div MaxContent)
    BY <1>1, <1>2, <1>4
  <2>2. d \div MaxContent > 0
    BY <1>1, <1>2, <2>1
  <2>3. d = MaxContent * ((d \div MaxContent) - 1) + MaxContent
    BY <1>1, <1>2, <2>1
  <2>4. (d \div MaxContent) - 1 \in Nat /\ MaxContent \in 1..MaxContent
    BY <1>1, <1>2, <2>2
  <2>. QED
    BY <2>3, <2>4, Zenon
<1>. QED
  BY <1>1, <1>2, <1>3, <1>4

\* As many records as needed, and no more.
LEMMA CountBounds ==
  ASSUME NEW d \in Nat
  PROVE  /\ Count(d) \in Nat
         /\ d <= MaxContent * Count(d)
         /\ d > 0 => MaxContent * Count(d) < d + MaxContent
<1>1. CASE d = 0
  <2>1. MaxContent * 0 = 0
    BY ContentSize
  <2>2. Count(0) = 0
    BY <2>1, CountFull
  <2>. QED
    BY <1>1, <2>1, <2>2
<1>2. CASE d > 0
  <2>1. PICK q \in Nat, r \in 1..MaxContent : d = MaxContent * q + r
    BY <1>2, LastRecord
  <2>2. Count(d) = q + 1
    BY <2>1, CountPart
  <2>3. MaxContent * (q + 1) = MaxContent * q + MaxContent
    BY ContentSize
  <2>4. MaxContent \in Nat /\ MaxContent * q \in Nat
    BY ContentSize
  <2>. QED
    BY <2>1, <2>2, <2>3, <2>4
<1>. QED
  BY <1>1, <1>2

LEMMA CountAtMost ==
  ASSUME NEW d \in Nat, NEW n \in Nat, d <= MaxContent * n
  PROVE  Count(d) <= n
<1>1. MaxContent \in Nat /\ MaxContent > 0
  BY ContentSize
<1>2. CASE d = 0
  <2>1. MaxContent * 0 = 0
    BY <1>1
  <2>2. Count(0) = 0
    BY <2>1, CountFull
  <2>. QED
    BY <1>2, <2>2
<1>3. CASE d > 0
  <2>1. PICK q \in Nat, r \in 1..MaxContent : d = MaxContent * q + r
    BY <1>3, LastRecord
  <2>2. Count(d) = q + 1
    BY <2>1, CountPart
  <2>3. MaxContent * q < MaxContent * n
    BY <1>1, <2>1
  <2>4. q < n
    BY <1>1, <2>3
  <2>. QED
    BY <2>2, <2>4
<1>. QED
  BY <1>2, <1>3

\* More bytes do not need fewer records.
LEMMA CountMonotone ==
  ASSUME NEW d \in Nat, NEW m \in Nat, d <= m
  PROVE  Count(d) <= Count(m)
<1>1. Count(m) \in Nat /\ m <= MaxContent * Count(m)
  BY CountBounds
<1>2. MaxContent * Count(m) \in Nat
  BY <1>1, ContentSize
<1>3. d <= MaxContent * Count(m)
  BY <1>1, <1>2
<1>. QED
  BY <1>1, <1>3, CountAtMost

-----------------------------------------------------------------------------
(* The limits of a call.                                                   *)

LEMMA PaddingWithin ==
  ASSUME NEW n \in Nat, NEW k \in Nat, n <= 8 * k
  PROVE  n + Padding(n) <= 8 * k
BY DEF Padding, FCGI_HEADER_LEN

\* The system for SSIZE_MAX leaves room for the headers and is a multiple of eight.
LEMMA BytesLimit ==
  ASSUME NEW l \in Systems
  PROVE  \E k \in Nat : /\ InitializeMaxForSsize_t(l) = 8 * k
                        /\ k > 0 /\ k <= l.bytes \div 8
                        /\ 8 * k + 8 * Count(8 * (l.bytes \div 8)) <= l.bytes
<1>. DEFINE n == l.bytes \div 8
<1>1. MaxContent \in Nat /\ MaxContent >= 16
  BY ContentSize
<1>2. l.bytes \in Nat /\ l.bytes >= MaxContent + 7
  BY PartitionAssumption
<1>3. n \in Nat /\ 8 * n <= l.bytes /\ l.bytes < 8 * n + 8
  BY <1>2
<1>. HIDE DEF n
<1>4. PICK c \in Nat : /\ c = Count(8 * n) /\ 8 * n > 0
                       /\ MaxContent * c < 8 * n + MaxContent
  <2>1. 8 * n \in Nat /\ 8 * n > 0
    BY <1>1, <1>2, <1>3
  <2>. QED
    BY <2>1, CountBounds
<1>5. n > c
  <2>1. CASE c = 0
    BY <1>3, <1>4, <2>1
  <2>2. CASE c > 0
    <3>1. PICK d \in Nat : c = d + 1
      BY <2>2
    <3>2. MaxContent * c = MaxContent * d + MaxContent /\ MaxContent * d \in Nat
      BY <1>1, <3>1
    <3>3. 16 * d <= MaxContent * d
      BY <1>1
    <3>4. 16 * d < 8 * n /\ MaxContent <= 8 * n
      BY <1>1, <1>2, <1>3, <1>4, <3>2, <3>3
    <3>5. n >= 2 /\ 2 * d < n
      BY <1>1, <1>3, <3>4
    <3>. QED
      BY <1>3, <3>1, <3>5
  <2>. QED
    BY <2>1, <2>2
<1>6. InitializeMaxForSsize_t(l) = 8 * (n - c) /\ n - c \in Nat /\ n - c > 0 /\ n - c <= n
  BY <1>3, <1>4, <1>5 DEF InitializeMaxForSsize_t, Count, n
<1>7. 8 * (n - c) + 8 * Count(8 * n) <= l.bytes
  BY <1>3, <1>4
<1>. QED
  BY <1>6, <1>7 DEF n

\* The system for IOV_MAX: two structs a record and one for padding.
LEMMA StructsLimit ==
  ASSUME NEW l \in Systems, NEW m \in Nat, m <= PartitionSizeMax,
         m <= InitializeMaxForIovec(l)
  PROVE  2 * Count(m) + 1 <= l.iovec
<1>. DEFINE n == (l.iovec - 1) \div 2
<1>1. MaxContent \in Nat /\ MaxContent > 0
  BY ContentSize
<1>2. l.iovec \in Nat /\ l.iovec >= 3 /\ PartitionSizeMax \in Nat
  BY PartitionAssumption
<1>3. n \in Nat /\ 2 * n + 1 <= l.iovec
  BY <1>2
<1>4. m <= MaxContent * n
  <2>1. CASE n > PartitionSizeMax \div MaxContent
    <3>1. /\ PartitionSizeMax \div MaxContent \in Nat /\ PartitionSizeMax % MaxContent < MaxContent
          /\ PartitionSizeMax = MaxContent * (PartitionSizeMax \div MaxContent) + (PartitionSizeMax % MaxContent)
          /\ PartitionSizeMax % MaxContent \in Nat
      BY <1>1, <1>2, Quotient
    <3>2. PICK e \in Nat : n = (PartitionSizeMax \div MaxContent) + 1 + e
      <4>. HIDE DEF n
      <4>1. n - (PartitionSizeMax \div MaxContent) - 1 \in Nat
        BY <1>3, <2>1, <3>1
      <4>2. n = (PartitionSizeMax \div MaxContent) + 1 + (n - (PartitionSizeMax \div MaxContent) - 1)
        BY <1>3, <3>1
      <4>. QED
        BY <4>1, <4>2, Zenon
    <3>3. MaxContent * n =
            MaxContent * (PartitionSizeMax \div MaxContent) + MaxContent + MaxContent * e
      <4>. HIDE DEF n
      <4>. QED
        BY <1>1, <3>1, <3>2
    <3>4. MaxContent * e \in Nat
      BY <1>1
    <3>. QED
      BY <1>1, <1>2, <3>1, <3>3, <3>4
  <2>2. CASE ~ (n > PartitionSizeMax \div MaxContent)
    <3>1. InitializeMaxForIovec(l) = n * MaxContent
      BY <2>2 DEF InitializeMaxForIovec
    <3>. HIDE DEF n
    <3>2. n * MaxContent = MaxContent * n
      BY <1>1, <1>3
    <3>. QED
      BY <3>1, <3>2
  <2>. QED
    BY <2>1, <2>2
<1>5. Count(m) <= n /\ Count(m) \in Nat
  BY <1>3, <1>4, CountAtMost, CountBounds
<1>. QED
  BY <1>2, <1>3, <1>5

\* A call always takes some bytes, and what it takes keeps to both limits.
LEMMA TakenBytes ==
  ASSUME system \in Systems, NEW m \in Nat, m > 0
  PROVE  /\ Processed(m) \in 1..m
         /\ Processed(m) <= MinMax(system)
         /\ MinMax(system) \in Nat
         /\ MinMax(system) <= InitializeMaxForSsize_t(system)
         /\ MinMax(system) <= InitializeMaxForIovec(system)
<1>1. InitializeMaxForSsize_t(system) \in Nat \ {0}
  BY BytesLimit
<1>2. InitializeMaxForIovec(system) \in Nat \ {0}
  <2>. DEFINE n == (system.iovec - 1) \div 2
  <2>1. n \in Nat /\ n > 0 /\ PartitionSizeMax \in Nat /\ PartitionSizeMax > 0
    BY ContentSize, PartitionAssumption
  <2>. HIDE DEF n
  <2>2. n * MaxContent \in Nat \ {0}
    BY <2>1, ContentSize
  <2>. QED
    BY <2>1, <2>2 DEF InitializeMaxForIovec, n
<1>. HIDE DEF MinMax
<1>3. /\ MinMax(system) \in Nat \ {0}
      /\ MinMax(system) <= InitializeMaxForSsize_t(system)
      /\ MinMax(system) <= InitializeMaxForIovec(system)
  BY <1>1, <1>2 DEF MinMax
<1>. QED
  BY <1>3 DEF Processed

\* The write of a call that takes m bytes.
LEMMA WriteLimits ==
  ASSUME system \in Systems, NEW m \in Nat, m <= MinMax(system)
  PROVE  NeededSsize_t(m) <= system.bytes /\ NeededIovec(m) <= system.iovec
<1>1. /\ MinMax(system) <= InitializeMaxForSsize_t(system)
      /\ MinMax(system) <= InitializeMaxForIovec(system)
      /\ MinMax(system) \in Int
  <2>. DEFINE one == 1
  <2>1. one \in Nat /\ one > 0
    OBVIOUS
  <2>. HIDE DEF one
  <2>. QED
    BY <2>1, TakenBytes
<1>2. system.bytes \in Nat /\ system.bytes <= PartitionSizeMax /\ PartitionSizeMax \in Nat
  BY PartitionAssumption
<1>3. PICK k \in Nat : /\ InitializeMaxForSsize_t(system) = 8 * k
                       /\ k <= system.bytes \div 8
                       /\ 8 * k + 8 * Count(8 * (system.bytes \div 8)) <= system.bytes
  BY BytesLimit
<1>4. m <= 8 * k
  BY <1>1, <1>3
<1>5. m + Padding(m) <= 8 * k /\ Padding(m) \in Nat
  <2>1. m + Padding(m) <= 8 * k
    BY <1>4, PaddingWithin
  <2>2. Padding(m) \in 0..7
    BY PaddingFills
  <2>. QED
    BY <2>1, <2>2
<1>6. 8 * (system.bytes \div 8) \in Nat /\ m <= 8 * (system.bytes \div 8)
  BY <1>2, <1>3, <1>4
<1>7. Count(m) <= Count(8 * (system.bytes \div 8))
  BY <1>6, CountMonotone
<1>8. Count(m) \in Nat /\ Count(8 * (system.bytes \div 8)) \in Nat
  BY <1>6, CountBounds
<1>9. NeededSsize_t(m) <= system.bytes
  BY <1>2, <1>3, <1>5, <1>7, <1>8 DEF NeededSsize_t, Count
<1>10. m <= InitializeMaxForIovec(system) /\ m <= PartitionSizeMax
  <2>1. 8 * k <= system.bytes
    BY <1>2, <1>3, <1>8
  <2>2. InitializeMaxForIovec(system) \in Nat
    BY ContentSize, PartitionAssumption DEF InitializeMaxForIovec
  <2>. QED
    BY <1>1, <1>2, <1>4, <2>1, <2>2
<1>11. 2 * Count(m) + 1 <= system.iovec /\ system.iovec \in Nat
  BY <1>10, StructsLimit, PartitionAssumption
<1>12. NeededIovec(m) <= system.iovec
  BY <1>8, <1>11 DEF NeededIovec, Count
<1>. QED
  BY <1>9, <1>12

-----------------------------------------------------------------------------
(* The inductive invariant.                                                *)

\* The bytes that are in records, and those that the call takes.
Done == begin_iter - written
Taken == Done + bytes_remaining

\* The estimates are those for all bytes of the call, what was built so far is
\* what the same formulas say of the bytes done, and all records are full as long
\* as bytes remain.
SizesInv ==
  /\ Taken > 0 /\ Taken <= MinMax(system)
  /\ working_ssize_t = NeededSsize_t(Taken)
  /\ working_iovec = NeededIovec(Taken)
  /\ local_length = NeededLocalData(Taken)
  /\ noncontent_size = NeededLocalData(Done)
  /\ iovec_size = NeededIovec(Done)
  /\ list_bytes = NeededSsize_t(Done)
  /\ Len(records) = Count(Done)
  /\ bytes_remaining > 0 =>
       /\ Done = MaxContent * Len(records)
       /\ \A i \in 1..Len(records) : records[i].padding = 0

\* Between calls everything in a record was written; a call with nothing to take
\* is the only one, for an empty sequence.
BetweenInv ==
  /\ partition_pc = "call" => /\ written = begin_iter
                              /\ begin_iter = byte_length => byte_length = 0
  /\ partition_pc = "empty" => /\ byte_length = 0 /\ written = begin_iter
                               /\ noncontent_size = FCGI_HEADER_LEN /\ iovec_size = 0
                               /\ list_bytes = 0 /\ records = <<>>

PartitionInv ==
  /\ PartitionTypeOK /\ BetweenInv
  /\ partition_pc = "records" => SizesInv
  /\ partition_pc # "logic_error"
  /\ CallWritable /\ CallRecordsExact

LEMMA DoneFacts ==
  ASSUME PartitionTypeOK
  PROVE  /\ Done \in Nat /\ Taken \in Nat /\ Done <= Taken
         /\ bytes_remaining \in Nat
         /\ bytes_remaining = 0 => Taken = Done
         /\ byte_length \in Nat /\ begin_iter \in Nat /\ written \in Nat
         /\ written <= begin_iter /\ begin_iter <= byte_length
BY PartitionAssumption DEF PartitionTypeOK, Done, Taken

LEMMA NeededTypes ==
  ASSUME NEW m \in Nat
  PROVE  /\ NeededSsize_t(m) \in Nat /\ NeededIovec(m) \in Nat
         /\ NeededLocalData(m) \in Nat
<1>1. Count(m) \in Nat
  BY CountBounds
<1>2. Padding(m) \in 0..7
  BY PaddingFills
<1>. QED
  BY <1>1, <1>2 DEF NeededSsize_t, NeededIovec, NeededLocalData, Count

\* While records are made nothing exceeds its estimate.
LEMMA WithinEstimates ==
  ASSUME PartitionTypeOK, SizesInv
  PROVE  ~EstimatesExceeded
<1>1. /\ Done \in Nat /\ Taken \in Nat /\ Done <= Taken /\ bytes_remaining \in Nat
      /\ bytes_remaining = 0 => Taken = Done
  BY DoneFacts
<1>2. CASE bytes_remaining = 0
  <2>1. /\ NeededSsize_t(Taken) \in Nat /\ NeededIovec(Taken) \in Nat
        /\ NeededLocalData(Taken) \in Nat
    BY <1>1, NeededTypes
  <2>. QED
    BY <1>1, <1>2, <2>1 DEF SizesInv, EstimatesExceeded
<1>3. CASE bytes_remaining > 0
  <2>1. Count(Done) <= Count(Taken) /\ Count(Done) \in Nat /\ Count(Taken) \in Nat
    BY <1>1, CountMonotone, CountBounds
  <2>2. Done % 8 = 0
    <3>1. Done = MaxContent * Count(Done)
      BY <1>3 DEF SizesInv
    <3>. QED
      BY <2>1, <3>1, CountFull
  <2>3. Padding(Done) = 0
    BY <1>1, <2>2, PaddingFills
  <2>4. Padding(Taken) \in 0..7
    BY <1>1, PaddingFills
  <2>5. NeededSsize_t(Done) <= NeededSsize_t(Taken)
    BY <1>1, <2>1, <2>3, <2>4 DEF NeededSsize_t, Count
  <2>6. NeededIovec(Done) <= NeededIovec(Taken)
    BY <2>1, <2>2 DEF NeededIovec, Count
  <2>7. NeededLocalData(Done) <= NeededLocalData(Taken)
    BY <2>1 DEF NeededLocalData, Count
  <2>8. /\ NeededSsize_t(Done) \in Nat /\ NeededIovec(Done) \in Nat
        /\ NeededLocalData(Done) \in Nat
        /\ NeededSsize_t(Taken) \in Nat /\ NeededIovec(Taken) \in Nat
        /\ NeededLocalData(Taken) \in Nat
    BY <1>1, NeededTypes
  <2>. QED
    BY <2>5, <2>6, <2>7, <2>8 DEF SizesInv, EstimatesExceeded
<1>. QED
  BY <1>1, <1>2, <1>3

LEMMA PartitionInitial ==
  ASSUME PartitionInit
  PROVE  PartitionInv
<1>1. PartitionTypeOK
  BY PartitionAssumption DEF PartitionInit, PartitionTypeOK, States
<1>. QED
  BY <1>1 DEF PartitionInit, PartitionInv, BetweenInv, CallWritable, CallRecordsExact

LEMMA CallStep ==
  ASSUME PartitionInv, Call
  PROVE  PartitionInv'
<1>. DEFINE left == byte_length - begin_iter
<1>1. PartitionTypeOK /\ written = begin_iter /\ (begin_iter = byte_length => byte_length = 0)
  BY DEF PartitionInv, BetweenInv, Call
<1>2. /\ left \in Nat /\ system \in Systems /\ byte_length \in Nat
      /\ begin_iter \in 0..byte_length
  BY <1>1, PartitionAssumption DEF PartitionTypeOK
<1>. HIDE DEF left
<1>3. /\ UNCHANGED <<system, byte_length, begin_iter, written>>
      /\ bytes_remaining' = Processed(left)
      /\ working_ssize_t' = NeededSsize_t(bytes_remaining')
      /\ working_iovec' = NeededIovec(bytes_remaining')
      /\ local_length' = NeededLocalData(bytes_remaining')
      /\ noncontent_size' = 8 /\ iovec_size' = 0 /\ list_bytes' = 0
      /\ records' = <<>>
      /\ partition_pc' = IF begin_iter = byte_length THEN "empty" ELSE "records"
  BY DEF Call, Estimate, FCGI_HEADER_LEN, left
<1>4. left > 0 => /\ Processed(left) \in 1..left
                  /\ Processed(left) <= MinMax(system)
  BY <1>2, TakenBytes
<1>5. left = 0 => Processed(left) = 0
  <2>. DEFINE one == 1
  <2>1. one \in Nat /\ one > 0 /\ one = 1
    OBVIOUS
  <2>. HIDE DEF one
  <2>2. Processed(one) \in 1..one /\ Processed(one) <= MinMax(system) /\ MinMax(system) \in Nat
    BY <1>2, <2>1, TakenBytes
  <2>3. MinMax(system) > 0
    BY <2>1, <2>2
  <2>. QED
    BY <2>3 DEF Processed
<1>6. bytes_remaining' \in 0..left
  BY <1>2, <1>3, <1>4, <1>5
<1>7. /\ working_ssize_t' \in Nat /\ working_iovec' \in Nat /\ local_length' \in Nat
  <2>1. bytes_remaining' \in Nat
    BY <1>2, <1>6
  <2>. QED
    BY <1>3, <2>1, NeededTypes
<1>8. PartitionTypeOK'
  BY <1>1, <1>3, <1>6, <1>7 DEF PartitionTypeOK, States, left
<1>9. BetweenInv'
  BY <1>1, <1>3 DEF BetweenInv, FCGI_HEADER_LEN
<1>10. ASSUME partition_pc' = "records" PROVE SizesInv'
  <2>1. left > 0
    BY <1>2, <1>3, <1>10 DEF left
  <2>2. Done' = 0 /\ Taken' = bytes_remaining'
    BY <1>1, <1>2, <1>3, <1>6, <2>1 DEF Done, Taken
  <2>3. MaxContent * 0 = 0 /\ MaxContent \in Nat
    BY ContentSize
  <2>4. Count(0) = 0
    BY <2>3, CountFull
  <2>5. NeededLocalData(0) = 8 /\ NeededIovec(0) = 0 /\ NeededSsize_t(0) = 0
    BY <2>4 DEF NeededLocalData, NeededIovec, NeededSsize_t, Count, Padding,
                FCGI_HEADER_LEN
  <2>6. Count(Done') = 0
    BY <2>2, <2>4
  <2>. QED
    BY <1>3, <1>4, <2>1, <2>2, <2>3, <2>5, <2>6 DEF SizesInv, Count
<1>11. partition_pc' # "logic_error" /\ CallWritable'
  BY <1>3 DEF CallWritable
<1>12. CallRecordsExact'
  BY <1>1, <1>3 DEF CallRecordsExact
<1>. QED
  BY <1>8, <1>9, <1>10, <1>11, <1>12 DEF PartitionInv

LEMMA EmptyStep ==
  ASSUME PartitionInv, EmptyRecord
  PROVE  PartitionInv'
<1>1. /\ PartitionTypeOK /\ byte_length = 0 /\ written = begin_iter
      /\ noncontent_size = 8 /\ iovec_size = 0 /\ list_bytes = 0
  BY DEF PartitionInv, BetweenInv, EmptyRecord, FCGI_HEADER_LEN
<1>2. /\ UNCHANGED <<system, byte_length, begin_iter, written, bytes_remaining,
                     working_ssize_t, working_iovec, local_length>>
      /\ noncontent_size' = 16 /\ iovec_size' = 1 /\ list_bytes' = 8
      /\ records' = <<[from |-> begin_iter, content |-> 0, padding |-> 0]>>
      /\ partition_pc' = "returned"
  BY <1>1 DEF EmptyRecord, estimateVars, FCGI_HEADER_LEN
<1>3. begin_iter \in Nat
  BY <1>1 DEF PartitionTypeOK
<1>4. PartitionTypeOK'
  BY <1>1, <1>2, <1>3 DEF PartitionTypeOK, States
<1>5. CallWritable'
  <2>1. /\ system.iovec \in Nat /\ system.iovec >= 3
        /\ system.bytes \in Nat /\ system.bytes >= MaxContent + 7
    BY <1>1, PartitionAssumption DEF PartitionTypeOK
  <2>. QED
    BY <1>2, <2>1, ContentSize DEF CallWritable
<1>6. CallRecordsExact'
  <2>1. Len(records') = 1 /\ records'[1] = [from |-> begin_iter, content |-> 0, padding |-> 0]
    BY <1>2
  <2>2. records' # <<>>
    BY <1>2
  <2>3. MaxContent >= 0
    BY ContentSize
  <2>. QED
    BY <1>1, <1>2, <1>3, <2>1, <2>2, <2>3 DEF CallRecordsExact
<1>. QED
  BY <1>2, <1>4, <1>5, <1>6 DEF PartitionInv, BetweenInv

LEMMA RecordStep ==
  ASSUME PartitionInv, Record
  PROVE  PartitionInv'
<1>. DEFINE n == ContentLength
            p == Padding(ContentLength)
            q == Len(records)
            new == [from |-> begin_iter, content |-> n, padding |-> p]
<1>1. /\ PartitionTypeOK /\ SizesInv /\ CallRecordsExact /\ partition_pc = "records" /\ bytes_remaining > 0
  BY DEF PartitionInv, Record
<1>2. /\ Done \in Nat /\ Taken \in Nat /\ bytes_remaining \in Nat
      /\ begin_iter \in Nat /\ written \in Nat /\ byte_length \in Nat
      /\ written <= begin_iter /\ bytes_remaining <= byte_length - begin_iter
  <2>1. bytes_remaining <= byte_length - begin_iter
    BY <1>1, DoneFacts DEF PartitionTypeOK
  <2>. QED
    BY <1>1, <2>1, DoneFacts
<1>3. /\ records \in Seq([from : Nat, content : Nat, padding : 0..7])
      /\ q \in Nat
  BY <1>1 DEF PartitionTypeOK
<1>4. MaxContent \in Nat /\ MaxContent >= 16
  BY ContentSize
<1>5. /\ n \in 1..MaxContent /\ n <= bytes_remaining
      /\ bytes_remaining - n > 0 => n = MaxContent
  BY <1>1, <1>2, <1>4 DEF ContentLength
<1>6. /\ p = Padding(n) /\ p \in 0..7 /\ (n + p) % 8 = 0
      /\ n % 8 = 0 => p = 0
  BY <1>5, PaddingFills
<1>6a. n % 8 > 0 => p > 0
  BY <1>5, PaddingFills
<1>7. /\ noncontent_size' = noncontent_size + 8
      /\ iovec_size' = iovec_size + 2 + (IF p > 0 THEN 1 ELSE 0)
      /\ records' = Append(records, new)
      /\ list_bytes' = list_bytes + (8 + n + p)
      /\ bytes_remaining' = bytes_remaining - n
      /\ begin_iter' = begin_iter + n
      /\ UNCHANGED <<system, byte_length, written, working_ssize_t, working_iovec,
                     local_length, partition_pc>>
  BY DEF Record, estimateVars, FCGI_HEADER_LEN
<1>. HIDE DEF n, p
<1>8. /\ new \in [from : Nat, content : Nat, padding : 0..7]
      /\ records' \in Seq([from : Nat, content : Nat, padding : 0..7])
      /\ Len(records') = q + 1 /\ records'[q + 1] = new /\ records' # <<>>
      /\ \A i \in 1..q : records'[i] = records[i]
  <2>1. new \in [from : Nat, content : Nat, padding : 0..7]
    BY <1>2, <1>5, <1>6
  <2>. HIDE DEF new
  <2>2. records' \in Seq([from : Nat, content : Nat, padding : 0..7])
    BY <1>3, <1>7, <2>1
  <2>3. Len(records') = q + 1 /\ records'[q + 1] = new
    BY <1>3, <1>7, <2>1
  <2>4. records' # <<>>
    BY <1>3, <2>3
  <2>5. \A i \in 1..q : records'[i] = records[i]
    BY <1>3, <1>7, <2>1
  <2>. QED
    BY <2>1, <2>2, <2>3, <2>4, <2>5
<1>. HIDE DEF q
<1>9. PartitionTypeOK'
  <2>1. /\ begin_iter' \in 0..byte_length' /\ written' \in 0..begin_iter'
        /\ bytes_remaining' \in 0..byte_length' - begin_iter'
    BY <1>2, <1>5, <1>7
  <2>2. noncontent_size' \in Nat /\ iovec_size' \in Nat /\ list_bytes' \in Nat
    <3>1. /\ noncontent_size \in Nat /\ iovec_size \in Nat
          /\ list_bytes \in Nat /\ n \in Nat /\ p \in Nat
      BY <1>1, <1>4, <1>5, <1>6, SMTT(30) DEF PartitionTypeOK
    <3>. QED
      BY <1>7, <3>1
  <2>. QED
    BY <1>1, <1>7, <1>8, <2>1, <2>2 DEF PartitionTypeOK
<1>10. SizesInv'
  <2>1. Done' = Done + n /\ Taken' = Taken
    BY <1>2, <1>5, <1>7 DEF Done, Taken
  <2>2. Done = MaxContent * q /\ Count(Done) = q /\ Done % 8 = 0
    BY <1>1, <1>3, CountFull DEF SizesInv, q
  <2>3. Count(Done') = q + 1
    BY <1>3, <1>5, <2>1, <2>2, CountPart
  <2>4. Padding(Done) = 0 /\ Padding(Done') = p
    <3>1. (Done + n) % 8 = n % 8
      BY <1>2, <1>5, <2>2
    <3>. QED
      BY <1>2, <1>6, <2>1, <2>2, <3>1, PaddingFills DEF Padding, FCGI_HEADER_LEN
  <2>5. list_bytes' = NeededSsize_t(Done')
    <3>1. n \in Nat /\ p \in Nat
      BY <1>4, <1>5, <1>6
    <3>2. list_bytes = Done + 8 * q
      BY <1>1, <1>2, <1>3, <2>2, <2>4 DEF SizesInv, NeededSsize_t, Count
    <3>3. NeededSsize_t(Done') = Done + n + 8 * (q + 1) + p
      BY <2>1, <2>3, <2>4 DEF NeededSsize_t, Count
    <3>. QED
      BY <1>2, <1>3, <1>7, <3>1, <3>2, <3>3
  <2>6. iovec_size' = NeededIovec(Done')
    <3>1. (Done + n) % 8 > 0 <=> p > 0
      BY <1>2, <1>5, <1>6, <1>6a, <2>2
    <3>2. iovec_size = 2 * q
      BY <1>1, <1>3, <2>2 DEF SizesInv, NeededIovec, Count
    <3>3. NeededIovec(Done') = 2 * (q + 1) + (IF p > 0 THEN 1 ELSE 0)
      BY <2>1, <2>3, <3>1 DEF NeededIovec, Count
    <3>. QED
      BY <1>3, <1>7, <3>2, <3>3
  <2>7. noncontent_size' = NeededLocalData(Done')
    <3>1. noncontent_size = 8 * (1 + q)
      BY <1>1, <2>2 DEF SizesInv, NeededLocalData, Count
    <3>2. NeededLocalData(Done') = 8 * (1 + (q + 1))
      BY <2>3 DEF NeededLocalData, Count
    <3>. QED
      BY <1>3, <1>7, <3>1, <3>2
  <2>8. ASSUME bytes_remaining' > 0
        PROVE  /\ Done' = MaxContent * Len(records')
               /\ \A i \in 1..Len(records') : records'[i].padding = 0
    <3>1. n = MaxContent
      BY <1>5, <1>7, <2>8
    <3>2. MaxContent * (q + 1) = MaxContent * q + MaxContent
      BY <1>3, <1>4
    <3>3. p = 0
      <4>1. MaxContent * 1 = MaxContent
        BY <1>4
      <4>2. MaxContent % 8 = 0
        BY <4>1, CountFull
      <4>. QED
        BY <1>6, <3>1, <4>2
    <3>4. \A i \in 1..q : records[i].padding = 0
      BY <1>1 DEF SizesInv, q
    <3>5. Done' = MaxContent * Len(records')
      BY <1>8, <2>1, <2>2, <3>1, <3>2
    <3>6. records'[q + 1].padding = 0
      BY <1>8, <3>3
    <3>7. \A i \in 1..q : records'[i].padding = 0
      BY <1>8, <3>4
    <3>8. \A i \in 1..(q + 1) : records'[i].padding = 0
      BY <1>3, <3>6, <3>7
    <3>. QED
      BY <1>8, <3>5, <3>8
  <2>. QED
    BY <1>1, <1>7, <1>8, <2>1, <2>3, <2>5, <2>6, <2>7, <2>8 DEF SizesInv
<1>11. CallRecordsExact'
  <2>1. \A i \in 1..q : records[i].padding = 0
    BY <1>1 DEF SizesInv, q
  <2>2. q > 0 => records[1].from = written /\ records[q].from + records[q].content = begin_iter
    <3>1. q > 0 => records # <<>>
      BY <1>3 DEF q
    <3>. QED
      BY <1>1, <3>1 DEF CallRecordsExact, q
  <2>3. q = 0 => begin_iter = written
    <3>1. q = 0 => records = <<>>
      BY <1>3 DEF q
    <3>. QED
      BY <1>1, <3>1 DEF CallRecordsExact
  <2>4. /\ records'[1].from = written'
        /\ records'[q + 1].from + records'[q + 1].content = begin_iter'
    BY <1>2, <1>3, <1>5, <1>7, <1>8, <2>2, <2>3
  <2>5. ASSUME NEW i \in 1..(q + 1)
        PROVE  /\ records'[i].content <= MaxContent
               /\ records'[i].content = 0 => byte_length' = 0
               /\ (records'[i].content + records'[i].padding) % 8 = 0
               /\ i < q + 1 => /\ records'[i + 1].from =
                                    records'[i].from + records'[i].content
                               /\ records'[i].padding = 0
    <3>1. CASE i = q + 1
      BY <1>3, <1>4, <1>5, <1>6, <1>8, <3>1
    <3>2. CASE i \in 1..q /\ i < q
      <4>1. i + 1 \in 1..q /\ i \in 1..q
        BY <1>3, <3>2
      <4>2. records'[i] = records[i] /\ records'[i + 1] = records[i + 1]
        BY <1>8, <4>1
      <4>. QED
        BY <1>1, <1>7, <2>1, <3>2, <4>1, <4>2 DEF CallRecordsExact, q
    <3>3. CASE i = q
      <4>1. i \in 1..q /\ q > 0
        BY <1>3, <3>3
      <4>2. records'[i] = records[i] /\ records'[i + 1] = new
        BY <1>8, <3>3, <4>1
      <4>3. records'[i + 1].from = records'[i].from + records'[i].content
        BY <2>2, <3>3, <4>1, <4>2
      <4>. QED
        BY <1>1, <1>7, <2>1, <4>1, <4>2, <4>3 DEF CallRecordsExact, q
    <3>. QED
      BY <1>3, <3>1, <3>2, <3>3
  <2>. QED
    BY <1>8, <2>4, <2>5 DEF CallRecordsExact
<1>. QED
  BY <1>1, <1>7, <1>9, <1>10, <1>11 DEF PartitionInv, BetweenInv, CallWritable

LEMMA RecordsEndStep ==
  ASSUME PartitionInv, CallReturns
  PROVE  PartitionInv'
<1>1. /\ PartitionTypeOK /\ SizesInv /\ CallRecordsExact /\ partition_pc = "records" /\ bytes_remaining = 0
  BY DEF PartitionInv, CallReturns
<1>2. ~EstimatesExceeded
  BY <1>1, WithinEstimates
<1>3. /\ partition_pc' = "returned"
      /\ UNCHANGED <<system, byte_length, begin_iter, written, bytes_remaining,
                     working_ssize_t, working_iovec, local_length, noncontent_size,
                     iovec_size, list_bytes, records>>
  BY <1>2 DEF CallReturns, estimateVars, callVars
<1>4. Done \in Nat /\ Taken = Done /\ system \in Systems
  BY <1>1, DoneFacts DEF PartitionTypeOK
<1>5. list_bytes <= system.bytes /\ iovec_size <= system.iovec
  BY <1>1, <1>4, WriteLimits DEF SizesInv
<1>6. records # <<>>
  <2>1. Done > 0 /\ Len(records) = Count(Done)
    BY <1>1, <1>4 DEF SizesInv
  <2>2. Count(Done) \in Nat /\ Done <= MaxContent * Count(Done) /\ MaxContent * 0 = 0
    BY <1>4, CountBounds, ContentSize
  <2>3. Count(Done) # 0
    BY <1>4, <2>1, <2>2
  <2>. QED
    BY <2>1, <2>3
<1>7. PartitionTypeOK'
  BY <1>1, <1>3 DEF PartitionTypeOK, States
<1>8. CallWritable'
  BY <1>3, <1>5 DEF CallWritable
<1>9. CallRecordsExact'
  BY <1>1, <1>3, <1>6 DEF CallRecordsExact
<1>. QED
  BY <1>3, <1>7, <1>8, <1>9 DEF PartitionInv, BetweenInv

\* The write ends the call; a sequence that is not empty has another one while
\* bytes are left.
LEMMA WriteStep ==
  ASSUME PartitionInv, WriteSucceeds \/ WriteFails
  PROVE  PartitionInv'
<1>1. PartitionTypeOK /\ partition_pc = "returned" /\ CallRecordsExact
  BY DEF PartitionInv, WriteSucceeds, WriteFails
<1>2. /\ UNCHANGED <<system, byte_length, begin_iter, bytes_remaining,
                     working_ssize_t, working_iovec, local_length, noncontent_size,
                     iovec_size, list_bytes, records>>
      /\ written' \in 0..begin_iter'
      /\ \/ partition_pc' \in {"true", "false"}
         \/ partition_pc' = "call" /\ begin_iter # byte_length /\ written' = begin_iter
  BY <1>1 DEF WriteSucceeds, WriteFails, estimateVars, callVars, PartitionTypeOK
<1>3. PartitionTypeOK'
  BY <1>1, <1>2 DEF PartitionTypeOK, States
<1>. QED
  BY <1>2, <1>3 DEF PartitionInv, BetweenInv, CallWritable, CallRecordsExact

LEMMA PartitionStep ==
  ASSUME PartitionInv, [PartitionNext]_partitionVars
  PROVE  PartitionInv'
<1>1. CASE Call
  BY <1>1, CallStep
<1>2. CASE EmptyRecord
  BY <1>2, EmptyStep
<1>3. CASE Record
  BY <1>3, RecordStep
<1>4. CASE CallReturns
  BY <1>4, RecordsEndStep
<1>5. CASE WriteSucceeds \/ WriteFails
  BY <1>5, WriteStep
<1>6. CASE UNCHANGED partitionVars
  BY <1>6 DEF PartitionInv, BetweenInv, SizesInv, Done, Taken, Count, PartitionTypeOK,
              CallWritable, CallRecordsExact, partitionVars, estimateVars, callVars
<1>. QED
  BY <1>1, <1>2, <1>3, <1>4, <1>5, <1>6 DEF PartitionNext

LEMMA PartitionInvariant ==
  PartitionSpec => []PartitionInv
<1>1. PartitionInit => PartitionInv
  BY PartitionInitial
<1>2. PartitionInv /\ [PartitionNext]_partitionVars => PartitionInv'
  BY PartitionStep
<1>. QED
  BY <1>1, <1>2, PTL DEF PartitionSpec

-----------------------------------------------------------------------------
(* The theorems of PartitionByteSequence.                                  *)

\* The types of one partition: no byte is taken twice or from behind the end.
THEOREM PartitionTypeCorrect ==
  PartitionSpec => []PartitionTypeOK
<1>1. PartitionInv => PartitionTypeOK
  BY DEF PartitionInv
<1>. QED
  BY <1>1, PartitionInvariant, PTL

\* PartitionByteSequence never throws its logic_error, and never grows the vector
\* that its structs point into beyond the capacity that was reserved; a list that it
\* returns can be written by a single writev; and the records of all calls of
\* WriteHelper are the byte sequence in order, each call taking a part of it.
THEOREM PartitionAlwaysExact ==
  PartitionSpec => []PartitionExact
<1>1. PartitionInv => EstimatesHold
  BY WithinEstimates DEF PartitionInv, EstimatesHold
<1>2. PartitionInv => CallWritable /\ CallRecordsExact
  BY DEF PartitionInv
<1>3. PartitionInv => PartitionExact
  BY <1>1, <1>2 DEF PartitionExact
<1>. QED
  BY <1>3, PartitionInvariant, PTL

-----------------------------------------------------------------------------
(* EncodeNameValuePairs: the inductive invariant of its limits.            *)

VectorType ==
  [kind : {"header", "content", "padding"}, pair : Nat, from : Nat, len : Nat]

DataType ==
  /\ pairs \in PairLists /\ limit \in Limits
  /\ nv_pair_bytes_placed \in Nat /\ number_to_write \in Nat
  /\ iovec_list \in Seq(VectorType)
  /\ headers \in Seq([content : Nat, padding : Nat])
  /\ failed \in BOOLEAN /\ incomplete_nv_write \in BOOLEAN
  /\ padding_limit_reached \in BOOLEAN

\* What was used of the limits and what remains; one struct and seven bytes are
\* set aside until the call returns.
BudgetInv ==
  encode_pc # "returned" =>
    /\ number_to_write + remaining_byte_count = limit.bytes - 7
    /\ Len(iovec_list) + remaining_iovec_count = limit.iovec - 1

\* No more of a pair is placed than it has.
Within == pair_iter <= Len(pairs) /\ nv_pair_bytes_placed <= TotalLength(Pair)

PairInv ==
  /\ encode_pc \in {"records", "place", "next"} \/ incomplete_nv_write => Within
  /\ encode_pc = "pairs" => ~incomplete_nv_write
  /\ encode_pc = "pairs" /\ pair_iter # End => offset <= TotalLength(Pair)

\* Something can be placed, in a record that has room for it.
PlaceInv ==
  /\ encode_pc = "place" \/ (encode_pc = "records" /\ ~padding_limit_reached) =>
       /\ remaining_iovec_count > 0 /\ remaining_byte_count > 0
       /\ previous_content_length < RecordMax
  /\ previous_content_length = RecordMax =>
       remaining_iovec_count = 0 \/ remaining_byte_count = 0
  /\ encode_pc = "place" =>
       /\ index < 3
       /\ Start(Pair, index) <= nv_pair_bytes_placed
       /\ nv_pair_bytes_placed <= Start(Pair, index) + Size(Pair, index)
       /\ previous_content_length = 0 =>
            /\ RemainingToPlace > 0
            /\ LocalRemaining > 0

\* The last record is the one that is filled, unless it is full; the others are.
HeadersInv ==
  encode_pc # "returned" =>
    LET last == Len(headers)
    IN  /\ \A h \in 1..last : /\ headers[h].padding = 0
                              /\ headers[h].content = RecordMax
                                   \/ (h = last /\ headers[h].content =
                                                     previous_content_length)
        /\ encode_pc = "place" => last > 0 /\ headers[last].content = previous_content_length
        /\ previous_content_length > 0 =>
             last > 0 /\ headers[last].content = previous_content_length
        /\ previous_content_length = 0 /\ last > 0 /\ encode_pc # "place" =>
             headers[last].content = RecordMax

EncodeInv ==
  /\ EncodeTypeOK /\ DataType
  /\ BudgetInv /\ PairInv /\ PlaceInv /\ HeadersInv
  /\ ListWritable /\ RecordsWhole


-----------------------------------------------------------------------------
(* The operators of the model.                                             *)

LEMMA Bounds ==
  /\ RecordMax \in Nat /\ RecordMax >= 8 /\ RecordMax % 8 = 0
  /\ \A l \in Limits : /\ l.iovec \in Nat /\ l.iovec >= 3
                       /\ l.bytes \in Nat /\ l.bytes >= 16
BY EncodeAssumption DEF FCGI_HEADER_LEN

LEMMA LeastOf ==
  ASSUME NEW a \in Int, NEW b \in Int, NEW c \in Int, NEW d \in Int
  PROVE  /\ Least({a, b, c, d}) \in {a, b, c, d}
         /\ Least({a, b, c, d}) <= a /\ Least({a, b, c, d}) <= b
         /\ Least({a, b, c, d}) <= c /\ Least({a, b, c, d}) <= d
<1>1. \E n \in {a, b, c, d} : \A m \in {a, b, c, d} : n <= m
  OBVIOUS
<1>. QED
  BY <1>1 DEF Least

\* The three buffers of a pair follow each other.
LEMMA Buffers ==
  ASSUME NEW p \in [name : Nat, value : Nat]
  PROVE  /\ Size(p, 0) \in Nat /\ Size(p, 1) \in Nat /\ Size(p, 2) \in Nat
         /\ Start(p, 0) = 0
         /\ Start(p, 1) = Start(p, 0) + Size(p, 0)
         /\ Start(p, 2) = Start(p, 1) + Size(p, 1)
         /\ TotalLength(p) = Start(p, 2) + Size(p, 2)
<1>1. Field(p.name) \in Nat /\ Field(p.value) \in Nat
  BY DEF Field
<1>2. p.name \in Nat /\ p.value \in Nat
  OBVIOUS
<1>3. Size(p, 0) = Field(p.name) + Field(p.value)
  BY DEF Size
<1>4. Size(p, 1) = p.name /\ Size(p, 2) = p.value
  BY DEF Size
<1>5. /\ Start(p, 0) = 0 /\ Start(p, 1) = Size(p, 0)
      /\ Start(p, 2) = Size(p, 0) + Size(p, 1)
  BY DEF Start
<1>6. TotalLength(p) = Start(p, 2) + Size(p, 2)
  BY DEF TotalLength
<1>. QED
  BY <1>1, <1>2, <1>3, <1>4, <1>5, <1>6

LEMMA PairType ==
  ASSUME EncodeTypeOK, DataType
  PROVE  /\ pairs \in Seq([name : Nat, value : Nat]) /\ Len(pairs) \in Nat
         /\ pair_iter \in Nat /\ pair_iter > 0 /\ pair_iter <= Len(pairs) + 1
         /\ pair_iter <= Len(pairs) => Pair \in [name : Nat, value : Nat]
<1>1. pairs \in Seq([name : Nat, value : Nat]) /\ Len(pairs) \in Nat
  BY EncodeAssumption DEF DataType
<1>2. pair_iter \in Nat /\ pair_iter > 0 /\ pair_iter <= Len(pairs) + 1
  BY <1>1 DEF EncodeTypeOK, End
<1>3. pair_iter <= Len(pairs) => Pair \in [name : Nat, value : Nat]
  <2>. DEFINE R == [name : Nat, value : Nat]
  <2>1. pairs \in Seq(R)
    BY <1>1
  <2>. HIDE DEF R
  <2>2. ASSUME NEW i \in 1..Len(pairs) PROVE pairs[i] \in R
    BY <2>1
  <2>3. pair_iter <= Len(pairs) => Pair \in R
    BY <1>1, <1>2, <2>2 DEF Pair
  <2>. QED
    BY <2>3 DEF R
<1>. QED
  BY <1>1, <1>2, <1>3

\* The index is that of the buffer in which the next byte is.
LEMMA Determined ==
  ASSUME NEW p \in [name : Nat, value : Nat], Pair = p,
         nv_pair_bytes_placed \in Nat, nv_pair_bytes_placed <= TotalLength(p)
  PROVE  /\ DetermineIndex \in 0..2
         /\ Start(p, DetermineIndex) <= nv_pair_bytes_placed
         /\ nv_pair_bytes_placed <= Start(p, DetermineIndex) + Size(p, DetermineIndex)
         /\ nv_pair_bytes_placed < TotalLength(p) =>
              nv_pair_bytes_placed < Start(p, DetermineIndex) + Size(p, DetermineIndex)
<1>1. /\ Size(p, 0) \in Nat /\ Size(p, 1) \in Nat /\ Size(p, 2) \in Nat
      /\ Start(p, 0) = 0
      /\ Start(p, 1) = Start(p, 0) + Size(p, 0)
      /\ Start(p, 2) = Start(p, 1) + Size(p, 1)
      /\ TotalLength(p) = Start(p, 2) + Size(p, 2)
  BY Buffers
<1>2. CASE nv_pair_bytes_placed < Start(p, 1)
  <2>1. DetermineIndex = 0
    BY <1>1, <1>2 DEF DetermineIndex
  <2>. QED
    BY <1>1, <1>2, <2>1
<1>3. CASE Start(p, 1) <= nv_pair_bytes_placed /\ nv_pair_bytes_placed < Start(p, 2)
  <2>1. DetermineIndex = 1
    BY <1>1, <1>3 DEF DetermineIndex
  <2>. QED
    BY <1>1, <1>3, <2>1
<1>4. CASE Start(p, 2) <= nv_pair_bytes_placed
  <2>1. DetermineIndex = 2
    BY <1>1, <1>4 DEF DetermineIndex
  <2>. QED
    BY <1>1, <1>4, <2>1
<1>. QED
  BY <1>1, <1>2, <1>3, <1>4

\* What is placed is bounded by the buffer, by both limits and by the record.
LEMMA Placed ==
  ASSUME EncodeInv, encode_pc = "place"
  PROVE  /\ index \in 0..2 /\ Pair \in [name : Nat, value : Nat]
         /\ LocalRemaining \in Nat /\ RemainingToPlace \in Nat
         /\ LocalRemaining <= RemainingToPlace
         /\ LocalNumberToPlace \in {LocalRemaining, RemainingToPlace,
                                    remaining_byte_count,
                                    RecordMax - previous_content_length}
         /\ LocalNumberToPlace \in Nat
         /\ LocalNumberToPlace <= LocalRemaining
         /\ LocalNumberToPlace <= remaining_byte_count
         /\ LocalNumberToPlace <= RecordMax - previous_content_length
         /\ previous_content_length = 0 => LocalNumberToPlace > 0
<1>1. /\ EncodeTypeOK /\ DataType /\ Within /\ index < 3
      /\ Start(Pair, index) <= nv_pair_bytes_placed
      /\ nv_pair_bytes_placed <= Start(Pair, index) + Size(Pair, index)
      /\ remaining_byte_count > 0 /\ previous_content_length < RecordMax
      /\ previous_content_length = 0 => RemainingToPlace > 0 /\ LocalRemaining > 0
  BY DEF EncodeInv, PairInv, PlaceInv
<1>2. /\ index \in 0..2 /\ remaining_byte_count \in Nat
      /\ previous_content_length \in Nat /\ nv_pair_bytes_placed \in Nat
      /\ RecordMax \in Nat
  BY <1>1, Bounds DEF EncodeTypeOK, DataType
<1>3. Pair \in [name : Nat, value : Nat]
  BY <1>1, PairType DEF Within
<1>4. /\ Size(Pair, index) \in Nat /\ Start(Pair, index) \in Nat
      /\ TotalLength(Pair) \in Nat
      /\ Start(Pair, index) + Size(Pair, index) <= TotalLength(Pair)
  <2>1. /\ Size(Pair, 0) \in Nat /\ Size(Pair, 1) \in Nat /\ Size(Pair, 2) \in Nat
        /\ Start(Pair, 0) = 0
        /\ Start(Pair, 1) = Start(Pair, 0) + Size(Pair, 0)
        /\ Start(Pair, 2) = Start(Pair, 1) + Size(Pair, 1)
        /\ TotalLength(Pair) = Start(Pair, 2) + Size(Pair, 2)
    BY <1>3, Buffers
  <2>. QED
    BY <1>2, <2>1
<1>5. /\ LocalRemaining \in Nat /\ RemainingToPlace \in Nat
      /\ LocalRemaining <= RemainingToPlace
  BY <1>1, <1>2, <1>4 DEF LocalRemaining, RemainingToPlace
<1>6. RecordMax - previous_content_length \in Nat /\ RecordMax - previous_content_length > 0
  BY <1>1, <1>2
<1>7. /\ LocalNumberToPlace \in {LocalRemaining, RemainingToPlace,
                                 remaining_byte_count,
                                 RecordMax - previous_content_length}
      /\ LocalNumberToPlace <= LocalRemaining
      /\ LocalNumberToPlace <= remaining_byte_count
      /\ LocalNumberToPlace <= RecordMax - previous_content_length
  <2>1. /\ LocalRemaining \in Int /\ RemainingToPlace \in Int
        /\ remaining_byte_count \in Int /\ RecordMax - previous_content_length \in Int
    BY <1>2, <1>5, <1>6
  <2>. QED
    BY <2>1, LeastOf, Zenon DEF LocalNumberToPlace
<1>8. LocalNumberToPlace \in Nat
  BY <1>2, <1>5, <1>6, <1>7
<1>9. previous_content_length = 0 => LocalNumberToPlace > 0
  BY <1>1, <1>2, <1>5, <1>6, <1>7
<1>. QED
  BY <1>2, <1>3, <1>5, <1>7, <1>8, <1>9


-----------------------------------------------------------------------------
(* The steps of a call.                                                    *)

\* The state in which a call begins.
LEMMA EnterInv ==
  ASSUME pairs \in PairLists, limit \in Limits,
         pair_iter \in 1..End, offset \in Nat,
         pair_iter # End => offset <= TotalLength(Pair),
         remaining_iovec_count = Reserve(limit).iovec,
         remaining_byte_count = Reserve(limit).bytes,
         iovec_list = <<>>, headers = <<>>,
         number_to_write = 0, previous_content_length = 0,
         nv_pair_bytes_placed = 0, index = 3,
         failed = FALSE, incomplete_nv_write = FALSE, padding_limit_reached = FALSE,
         encode_pc \in {"pairs", "returned"}
  PROVE  EncodeInv
<1>1. /\ limit.iovec \in Nat /\ limit.iovec >= 3
      /\ limit.bytes \in Nat /\ limit.bytes >= 16
      /\ RecordMax \in Nat /\ RecordMax >= 8
  BY Bounds
<1>2. /\ remaining_iovec_count = limit.iovec - 1
      /\ remaining_byte_count = limit.bytes - 7
  BY DEF Reserve
<1>3. Len(iovec_list) = 0 /\ Len(headers) = 0
  OBVIOUS
<1>4. EncodeTypeOK
  BY <1>1, <1>2 DEF EncodeTypeOK
<1>5. DataType
  <2>1. iovec_list \in Seq(VectorType) /\ headers \in Seq([content : Nat, padding : Nat])
    <3>1. \A S : <<>> \in Seq(S)
      OBVIOUS
    <3>. QED
      BY <3>1
  <2>. QED
    BY <2>1 DEF DataType
<1>6. BudgetInv
  BY <1>1, <1>2, <1>3 DEF BudgetInv
<1>7. PairInv
  BY DEF PairInv
<1>8. PlaceInv
  BY <1>1 DEF PlaceInv
<1>9. HeadersInv
  BY <1>3 DEF HeadersInv
<1>10. ListWritable
  BY <1>1, <1>3 DEF ListWritable
<1>11. RecordsWhole
  BY <1>3 DEF RecordsWhole
<1>. QED
  BY <1>4, <1>5, <1>6, <1>7, <1>8, <1>9, <1>10, <1>11 DEF EncodeInv

LEMMA EncodeInitial ==
  ASSUME EncodeInit
  PROVE  EncodeInv
<1>1. Len(pairs) \in Nat /\ pairs \in Seq([name : Nat, value : Nat])
  BY EncodeAssumption DEF EncodeInit
<1>2. pair_iter \in 1..End
  BY <1>1 DEF EncodeInit, End
<1>3. ASSUME pair_iter # End PROVE 0 <= TotalLength(Pair) /\ TotalLength(Pair) \in Nat
  <2>. DEFINE R == [name : Nat, value : Nat]
  <2>1. pairs \in Seq(R) /\ 1 \in 1..Len(pairs)
    BY <1>1, <1>3 DEF EncodeInit, End
  <2>. HIDE DEF R
  <2>2. Pair \in R
    BY <2>1 DEF EncodeInit, Pair
  <2>3. Pair \in [name : Nat, value : Nat]
    BY <2>2 DEF R
  <2>. HIDE DEF R
  <2>. DEFINE p == Pair
  <2>4. p \in [name : Nat, value : Nat]
    BY <2>3
  <2>. HIDE DEF p
  <2>5. TotalLength(p) \in Nat
    BY <2>4, Buffers
  <2>. QED
    BY <2>5 DEF p
<1>4. /\ pairs \in PairLists /\ limit \in Limits /\ offset = 0 /\ offset \in Nat
      /\ remaining_iovec_count = Reserve(limit).iovec
      /\ remaining_byte_count = Reserve(limit).bytes
      /\ iovec_list = <<>> /\ headers = <<>>
      /\ number_to_write = 0 /\ previous_content_length = 0
      /\ nv_pair_bytes_placed = 0 /\ index = 3
      /\ failed = FALSE /\ incomplete_nv_write = FALSE
      /\ padding_limit_reached = FALSE
      /\ encode_pc \in {"pairs", "returned"}
  BY DEF EncodeInit
<1>5. pair_iter # End => offset <= TotalLength(Pair)
  BY <1>3, <1>4
<1>. QED
  BY <1>2, <1>4, <1>5, EnterInv


\* What EncodeInv says in every state.
LEMMA InvFacts ==
  ASSUME EncodeInv
  PROVE  /\ EncodeTypeOK /\ DataType
         /\ pairs \in Seq([name : Nat, value : Nat]) /\ Len(pairs) \in Nat
         /\ pair_iter \in Nat /\ pair_iter > 0 /\ pair_iter <= Len(pairs) + 1
         /\ End = Len(pairs) + 1
         /\ pair_iter <= Len(pairs) => /\ Pair \in [name : Nat, value : Nat]
                                       /\ TotalLength(Pair) \in Nat
         /\ RecordMax \in Nat /\ RecordMax >= 8 /\ RecordMax % 8 = 0
<1>1. EncodeTypeOK /\ DataType
  BY DEF EncodeInv
<1>2. /\ pairs \in Seq([name : Nat, value : Nat]) /\ Len(pairs) \in Nat
      /\ pair_iter \in Nat /\ pair_iter > 0 /\ pair_iter <= Len(pairs) + 1
      /\ pair_iter <= Len(pairs) => Pair \in [name : Nat, value : Nat]
  BY <1>1, PairType
<1>3. pair_iter <= Len(pairs) => TotalLength(Pair) \in Nat
  <2>1. ASSUME NEW p \in [name : Nat, value : Nat] PROVE TotalLength(p) \in Nat
    BY Buffers
  <2>. QED
    BY <1>2, <2>1
<1>. QED
  BY <1>1, <1>2, <1>3, Bounds DEF End

\* A step that adds nothing to the list.
LEMMA QuietStep ==
  ASSUME EncodeInv,
         encode_pc \notin {"returned", "place"}, encode_pc' # "returned",
         encode_pc' = "place" => previous_content_length > 0,
         UNCHANGED <<limit, listVars, remainingVars>>
  PROVE  /\ BudgetInv' /\ HeadersInv' /\ ListWritable' /\ RecordsWhole'
         /\ remaining_iovec_count' \in Nat /\ remaining_byte_count' \in Nat
         /\ previous_content_length' \in 0..RecordMax
         /\ number_to_write' \in Nat /\ iovec_list' \in Seq(VectorType)
         /\ headers' \in Seq([content : Nat, padding : Nat])
         /\ (previous_content_length = RecordMax =>
               remaining_iovec_count = 0 \/ remaining_byte_count = 0)'
<1>1. BudgetInv' /\ ListWritable' /\ RecordsWhole'
  BY DEF EncodeInv, BudgetInv, ListWritable, RecordsWhole, listVars, remainingVars
<1>2. HeadersInv'
  BY InvFacts DEF EncodeInv, HeadersInv, listVars, EncodeTypeOK
<1>3. /\ remaining_iovec_count' \in Nat /\ remaining_byte_count' \in Nat
      /\ previous_content_length' \in 0..RecordMax
      /\ number_to_write' \in Nat /\ iovec_list' \in Seq(VectorType)
      /\ headers' \in Seq([content : Nat, padding : Nat])
  BY DEF EncodeInv, EncodeTypeOK, DataType, listVars, remainingVars
<1>4. (previous_content_length = RecordMax =>
         remaining_iovec_count = 0 \/ remaining_byte_count = 0)'
  BY DEF EncodeInv, PlaceInv, listVars, remainingVars
<1>. QED
  BY <1>1, <1>2, <1>3, <1>4

LEMMA LoopEndsStep ==
  ASSUME EncodeInv, LoopEnds
  PROVE  EncodeInv'
<1>1. /\ encode_pc = "pairs" /\ encode_pc' = "pad"
      /\ UNCHANGED <<pairs, limit, begin, pair_iter, offset, nv_pair_bytes_placed,
                     index, failed, incomplete_nv_write, padding_limit_reached>>
      /\ UNCHANGED <<listVars, remainingVars>>
  BY DEF LoopEnds, encodeInput, flagVars
<1>2. EncodeTypeOK /\ DataType /\ PairInv
  BY DEF EncodeInv
<1>3. EncodeTypeOK' /\ DataType'
  BY <1>1, <1>2, QuietStep DEF EncodeTypeOK, DataType, End
<1>4. PairInv' /\ PlaceInv'
  BY <1>1, <1>2, QuietStep DEF PairInv, PlaceInv
<1>. QED
  BY <1>1, <1>3, <1>4, QuietStep DEF EncodeInv

LEMMA StartPairStep ==
  ASSUME EncodeInv, StartPair
  PROVE  EncodeInv'
<1>1. /\ encode_pc = "pairs" /\ pair_iter # End
      /\ remaining_iovec_count > 0 /\ remaining_byte_count > 0
      /\ nv_pair_bytes_placed' = offset /\ padding_limit_reached' = FALSE
      /\ failed' \in BOOLEAN /\ encode_pc' \in {"pad", "records"}
      /\ UNCHANGED <<pairs, limit, begin, pair_iter, offset, index,
                     incomplete_nv_write, listVars, remainingVars>>
  BY DEF StartPair, encodeInput
<1>2. EncodeTypeOK /\ DataType /\ PairInv /\ PlaceInv
  BY DEF EncodeInv
<1>3. EncodeTypeOK' /\ DataType'
  BY <1>1, <1>2, QuietStep DEF EncodeTypeOK, DataType, End
<1>4. PairInv'
  <2>1. pair_iter <= Len(pairs) /\ offset <= TotalLength(Pair)
    BY <1>1, <1>2, InvFacts DEF PairInv
  <2>2. Within'
    BY <1>1, <2>1 DEF Within, Pair
  <2>3. ~incomplete_nv_write
    BY <1>1, <1>2 DEF PairInv
  <2>. QED
    BY <1>1, <2>2, <2>3 DEF PairInv
<1>5. PlaceInv'
  <2>1. previous_content_length < RecordMax
    <3>1. previous_content_length # RecordMax
      BY <1>1, <1>2 DEF PlaceInv
    <3>. QED
      BY <1>2, <3>1, Bounds DEF EncodeTypeOK
  <2>. QED
    BY <1>1, <2>1, QuietStep DEF PlaceInv, listVars, remainingVars
<1>. QED
  BY <1>1, <1>3, <1>4, <1>5, QuietStep DEF EncodeInv

LEMMA ContinueRecordStep ==
  ASSUME EncodeInv, ContinueRecord
  PROVE  EncodeInv'
<1>1. /\ encode_pc = "records" /\ RemainingToPlace > 0 /\ ~padding_limit_reached
      /\ previous_content_length # 0
      /\ index' = DetermineIndex /\ encode_pc' = "place"
      /\ UNCHANGED <<pairs, limit, begin, pair_iter, offset, nv_pair_bytes_placed,
                     failed, incomplete_nv_write, padding_limit_reached>>
      /\ UNCHANGED <<listVars, remainingVars>>
  BY DEF ContinueRecord, encodeInput, flagVars
<1>2. EncodeTypeOK /\ DataType /\ PairInv /\ PlaceInv /\ Within
  BY <1>1 DEF EncodeInv, PairInv
<1>3. previous_content_length > 0
  BY <1>1, <1>2, Bounds DEF EncodeTypeOK
<1>4. Pair \in [name : Nat, value : Nat] /\ nv_pair_bytes_placed \in Nat
  BY <1>2, InvFacts DEF Within, DataType
<1>5. /\ DetermineIndex \in 0..2
      /\ Start(Pair, DetermineIndex) <= nv_pair_bytes_placed
      /\ nv_pair_bytes_placed <= Start(Pair, DetermineIndex) + Size(Pair, DetermineIndex)
  BY <1>2, <1>4, Determined DEF Within
<1>6. EncodeTypeOK' /\ DataType'
  BY <1>1, <1>2, <1>3, <1>5, QuietStep DEF EncodeTypeOK, DataType, End
<1>7. PairInv'
  BY <1>1, <1>2 DEF PairInv, Within, Pair
<1>8. PlaceInv'
  <2>1. Pair' = Pair
    BY <1>1 DEF Pair
  <2>2. /\ index' < 3 /\ Start(Pair, index)' <= nv_pair_bytes_placed'
        /\ nv_pair_bytes_placed' <= (Start(Pair, index) + Size(Pair, index))'
    BY <1>1, <1>5, <2>1
  <2>. QED
    BY <1>1, <1>2, <1>3, <2>2, QuietStep DEF PlaceInv, listVars, remainingVars
<1>. QED
  BY <1>1, <1>3, <1>6, <1>7, <1>8, QuietStep DEF EncodeInv

\* No record can be started, or no more is needed.
LEMMA ToNextStep ==
  ASSUME EncodeInv, NoRecord \/ RecordsEnd
  PROVE  EncodeInv'
<1>1. /\ encode_pc = "records" /\ encode_pc' = "next" /\ incomplete_nv_write' \in BOOLEAN
      /\ UNCHANGED <<pairs, limit, begin, pair_iter, offset, nv_pair_bytes_placed,
                     index, failed, padding_limit_reached>>
      /\ UNCHANGED <<listVars, remainingVars>>
  BY DEF NoRecord, RecordsEnd, encodeInput, flagVars, EncodeInv, DataType
<1>2. EncodeTypeOK /\ DataType /\ Within
  BY <1>1 DEF EncodeInv, PairInv
<1>3. EncodeTypeOK' /\ DataType'
  BY <1>1, <1>2, QuietStep DEF EncodeTypeOK, DataType, End
<1>4. PairInv'
  BY <1>1, <1>2 DEF PairInv, Within, Pair
<1>5. PlaceInv'
  BY <1>1, QuietStep DEF PlaceInv
<1>. QED
  BY <1>1, <1>3, <1>4, <1>5, QuietStep DEF EncodeInv

LEMMA NextPairStep ==
  ASSUME EncodeInv, NextPair
  PROVE  EncodeInv'
<1>1. /\ encode_pc = "next" /\ offset' = 0
      /\ pair_iter' = IF incomplete_nv_write THEN pair_iter ELSE pair_iter + 1
      /\ encode_pc' = IF incomplete_nv_write THEN "pad" ELSE "pairs"
      /\ UNCHANGED <<pairs, limit, begin, nv_pair_bytes_placed, index, failed,
                     incomplete_nv_write, padding_limit_reached>>
      /\ UNCHANGED <<listVars, remainingVars>>
  BY DEF NextPair, encodeInput, flagVars
<1>2. EncodeTypeOK /\ DataType /\ Within
  BY <1>1 DEF EncodeInv, PairInv
<1>3. pair_iter' \in 1..End'
  BY <1>1, <1>2, InvFacts, SMTT(30) DEF Within, End
<1>4. EncodeTypeOK' /\ DataType'
  BY <1>1, <1>2, <1>3, QuietStep DEF EncodeTypeOK, DataType
<1>5. PairInv'
  <2>1. CASE incomplete_nv_write
    BY <1>1, <1>2, <2>1 DEF PairInv, Within, Pair
  <2>2. CASE ~incomplete_nv_write
    <3>1. ASSUME pair_iter' # End' PROVE 0 <= TotalLength(Pair')
      <4>. DEFINE R == [name : Nat, value : Nat]
                  i == pair_iter'
      <4>1. pairs \in Seq(R) /\ i \in 1..Len(pairs)
        BY <1>1, <1>3, <3>1, InvFacts DEF End
      <4>. HIDE DEF R, i
      <4>2. pairs[i] \in R
        BY <4>1
      <4>3. Pair' \in [name : Nat, value : Nat]
        BY <1>1, <4>2 DEF Pair, R, i
      <4>4. \A p \in [name : Nat, value : Nat] : TotalLength(p) \in Nat
        <5>. TAKE p \in [name : Nat, value : Nat]
        <5>. QED
          BY Buffers
      <4>5. TotalLength(Pair') \in Nat
        BY <4>3, <4>4, Zenon
      <4>. QED
        BY <4>5
    <3>. QED
      BY <1>1, <2>2, <3>1 DEF PairInv
  <2>. QED
    BY <2>1, <2>2
<1>6. PlaceInv'
  BY <1>1, QuietStep DEF PlaceInv
<1>. QED
  BY <1>1, <1>4, <1>5, <1>6, QuietStep DEF EncodeInv


LEMMA StartRecordStep ==
  ASSUME EncodeInv, StartRecord
  PROVE  EncodeInv'
<1>. DEFINE last == Len(headers)
            new == [content |-> 0, padding |-> 0]
            vec == [kind |-> "header", pair |-> 0, from |-> 0, len |-> 8]
<1>1. /\ encode_pc = "records" /\ RemainingToPlace > 0 /\ ~padding_limit_reached
      /\ previous_content_length = 0
      /\ remaining_iovec_count >= 2 /\ remaining_byte_count >= 9
      /\ headers' = Append(headers, new)
      /\ iovec_list' = Append(iovec_list, vec)
      /\ number_to_write' = number_to_write + 8
      /\ remaining_byte_count' = remaining_byte_count - 8
      /\ remaining_iovec_count' = remaining_iovec_count - 1
      /\ index' = DetermineIndex /\ encode_pc' = "place"
      /\ UNCHANGED <<pairs, limit, begin, pair_iter, offset, previous_content_length,
                     nv_pair_bytes_placed, failed, incomplete_nv_write,
                     padding_limit_reached>>
  BY DEF StartRecord, HeaderFits, encodeInput, flagVars, FCGI_HEADER_LEN
<1>2. EncodeTypeOK /\ DataType /\ BudgetInv /\ PairInv /\ HeadersInv /\ Within
  BY <1>1 DEF EncodeInv, PairInv
<1>3. /\ remaining_iovec_count \in Nat /\ remaining_byte_count \in Nat
      /\ number_to_write \in Nat /\ nv_pair_bytes_placed \in Nat
      /\ iovec_list \in Seq(VectorType)
      /\ headers \in Seq([content : Nat, padding : Nat])
  BY <1>2 DEF EncodeTypeOK, DataType
<1>4. Pair \in [name : Nat, value : Nat] /\ Pair' = Pair /\ TotalLength(Pair) \in Nat
  <2>1. Pair \in [name : Nat, value : Nat] /\ TotalLength(Pair) \in Nat
    BY <1>2, InvFacts DEF Within
  <2>2. Pair' = Pair
    BY <1>1 DEF Pair
  <2>. QED
    BY <2>1, <2>2
<1>5. /\ DetermineIndex \in 0..2
      /\ Start(Pair, DetermineIndex) <= nv_pair_bytes_placed
      /\ nv_pair_bytes_placed < Start(Pair, DetermineIndex) + Size(Pair, DetermineIndex)
      /\ Start(Pair, DetermineIndex) \in Nat /\ Size(Pair, DetermineIndex) \in Nat
  <2>1. nv_pair_bytes_placed < TotalLength(Pair)
    BY <1>1, <1>3, <1>4 DEF RemainingToPlace
  <2>2. /\ DetermineIndex \in 0..2
        /\ Start(Pair, DetermineIndex) <= nv_pair_bytes_placed
        /\ nv_pair_bytes_placed < Start(Pair, DetermineIndex) + Size(Pair, DetermineIndex)
    BY <1>2, <1>3, <1>4, <2>1, Determined DEF Within
  <2>3. /\ Size(Pair, 0) \in Nat /\ Size(Pair, 1) \in Nat /\ Size(Pair, 2) \in Nat
        /\ Start(Pair, 0) \in Nat /\ Start(Pair, 1) \in Nat /\ Start(Pair, 2) \in Nat
    BY <1>4, Buffers
  <2>. QED
    BY <2>2, <2>3
<1>6. vec \in VectorType
  BY DEF VectorType
<1>7. iovec_list' \in Seq(VectorType) /\ Len(iovec_list') = Len(iovec_list) + 1
  <2>. HIDE DEF vec
  <2>. QED
    BY <1>1, <1>3, <1>6
<1>8. /\ headers' \in Seq([content : Nat, padding : Nat]) /\ last \in Nat
      /\ Len(headers') = last + 1 /\ headers'[last + 1] = new
      /\ \A h \in 1..last : headers'[h] = headers[h]
  <2>1. new \in [content : Nat, padding : Nat]
    OBVIOUS
  <2>. HIDE DEF new
  <2>2. headers' \in Seq([content : Nat, padding : Nat]) /\ last \in Nat
    BY <1>1, <1>3, <2>1
  <2>3. Len(headers') = last + 1 /\ headers'[last + 1] = new
    BY <1>1, <1>3, <2>1
  <2>4. \A h \in 1..last : headers'[h] = headers[h]
    BY <1>1, <1>3, <2>1
  <2>. QED
    BY <2>2, <2>3, <2>4
<1>9. EncodeTypeOK' /\ DataType'
  BY <1>1, <1>2, <1>3, <1>5, <1>7, <1>8 DEF EncodeTypeOK, DataType, End
<1>10. BudgetInv' /\ ListWritable'
  <2>1. /\ number_to_write' + remaining_byte_count' = limit'.bytes - 7
        /\ Len(iovec_list') + remaining_iovec_count' = limit'.iovec - 1
    BY <1>1, <1>2, <1>3, <1>7 DEF BudgetInv
  <2>2. limit'.bytes \in Nat /\ limit'.iovec \in Nat
    BY <1>1, <1>2, Bounds DEF DataType
  <2>. QED
    BY <1>1, <1>3, <1>7, <2>1, <2>2 DEF BudgetInv, ListWritable
<1>11. PairInv'
  BY <1>1, <1>2 DEF PairInv, Within, Pair
<1>12. PlaceInv'
  <2>1. RemainingToPlace' > 0
    BY <1>1, <1>4 DEF RemainingToPlace
  <2>2. LocalRemaining' = Size(Pair, DetermineIndex)
                            - (nv_pair_bytes_placed - Start(Pair, DetermineIndex))
    BY <1>1, <1>4 DEF LocalRemaining
  <2>3. LocalRemaining' > 0
    BY <1>3, <1>5, <2>2
  <2>4. /\ index' < 3 /\ Start(Pair, index)' <= nv_pair_bytes_placed'
        /\ nv_pair_bytes_placed' <= (Start(Pair, index) + Size(Pair, index))'
    BY <1>1, <1>3, <1>4, <1>5
  <2>5. /\ remaining_iovec_count' > 0 /\ remaining_byte_count' > 0
        /\ previous_content_length' < RecordMax /\ previous_content_length' # RecordMax
    BY <1>1, <1>3, Bounds
  <2>. QED
    BY <2>1, <2>3, <2>4, <2>5 DEF PlaceInv
<1>13. HeadersInv'
  <2>1. \A h \in 1..last : headers[h].padding = 0 /\ headers[h].content = RecordMax
    BY <1>1, <1>2, <1>8, SMTT(30) DEF HeadersInv
  <2>2. \A h \in 1..last : headers'[h].padding = 0 /\ headers'[h].content = RecordMax
    BY <1>8, <2>1
  <2>3. headers'[last + 1].padding = 0 /\ headers'[last + 1].content = 0
    BY <1>8
  <2>4. \A h \in 1..(last + 1) : h \in 1..last \/ h = last + 1
    BY <1>8
  <2>. HIDE DEF last, new
  <2>. QED
    BY <1>1, <1>8, <2>2, <2>3, <2>4, SMTT(30) DEF HeadersInv
<1>14. RecordsWhole'
  BY <1>1 DEF RecordsWhole
<1>. QED
  BY <1>9, <1>10, <1>11, <1>12, <1>13, <1>14 DEF EncodeInv

LEMMA PadStep ==
  ASSUME EncodeInv, Pad
  PROVE  EncodeInv'
<1>. DEFINE p == Padding(previous_content_length)
            last == Len(headers)
            vec == [kind |-> "padding", pair |-> 0, from |-> 0, len |-> p]
<1>1. /\ encode_pc = "pad" /\ encode_pc' = "returned"
      /\ UNCHANGED <<pairs, limit, begin, pair_iter, offset, remaining_iovec_count,
                     remaining_byte_count, previous_content_length,
                     nv_pair_bytes_placed, index, failed, incomplete_nv_write,
                     padding_limit_reached>>
      /\ p > 0 => /\ iovec_list' = Append(iovec_list, vec)
                  /\ headers' = [headers EXCEPT ![last].padding = p]
                  /\ number_to_write' = number_to_write + p
      /\ ~ (p > 0) => UNCHANGED <<iovec_list, headers, number_to_write>>
  BY DEF Pad, encodeInput, remainingVars, flagVars
<1>2. EncodeTypeOK /\ DataType /\ BudgetInv /\ PairInv /\ PlaceInv /\ HeadersInv
  BY DEF EncodeInv
<1>3. /\ previous_content_length \in Nat /\ previous_content_length <= RecordMax
      /\ remaining_iovec_count \in Nat /\ remaining_byte_count \in Nat
      /\ number_to_write \in Nat /\ iovec_list \in Seq(VectorType)
      /\ headers \in Seq([content : Nat, padding : Nat]) /\ last \in Nat
      /\ RecordMax \in Nat /\ RecordMax >= 8 /\ RecordMax % 8 = 0
      /\ limit.bytes \in Nat /\ limit.iovec \in Nat
  BY <1>2, Bounds DEF EncodeTypeOK, DataType
<1>4. /\ p \in 0..7 /\ (previous_content_length + p) % 8 = 0
      /\ p > 0 => previous_content_length > 0
      /\ previous_content_length = RecordMax => p = 0
  <2>1. /\ p \in 0..7 /\ (previous_content_length + p) % 8 = 0
        /\ previous_content_length % 8 = 0 => p = 0
    BY <1>3, PaddingFills
  <2>. HIDE DEF p
  <2>2. previous_content_length = 0 => p = 0
    BY <2>1
  <2>3. previous_content_length = RecordMax => p = 0
    BY <1>3, <2>1
  <2>. QED
    BY <1>3, <2>1, <2>2, <2>3
<1>5. vec \in VectorType
  BY <1>4 DEF VectorType
<1>. HIDE DEF p
<1>6. /\ iovec_list' \in Seq(VectorType) /\ Len(iovec_list') <= Len(iovec_list) + 1
      /\ number_to_write' \in Nat /\ number_to_write' <= number_to_write + 7
  <2>. HIDE DEF vec
  <2>1. CASE p > 0
    <3>0. iovec_list' = Append(iovec_list, vec) /\ number_to_write' = number_to_write + p
      BY <1>1, <2>1, Zenon
    <3>1. iovec_list' \in Seq(VectorType) /\ Len(iovec_list') = Len(iovec_list) + 1
      BY <1>3, <1>5, <3>0
    <3>2. number_to_write' \in Nat /\ number_to_write' <= number_to_write + 7
      BY <1>3, <1>4, <3>0
    <3>. QED
      BY <1>3, <3>1, <3>2
  <2>2. CASE ~ (p > 0)
    BY <1>1, <1>3, <2>2
  <2>. QED
    BY <2>1, <2>2
<1>7. /\ \A h \in 1..last : /\ headers[h].padding = 0
                            /\ headers[h].content = RecordMax
                                 \/ (h = last /\ headers[h].content =
                                                   previous_content_length)
      /\ previous_content_length > 0 =>
           last > 0 /\ headers[last].content = previous_content_length
      /\ previous_content_length = 0 /\ last > 0 => headers[last].content = RecordMax
  BY <1>1, <1>2 DEF HeadersInv
<1>8. /\ headers' \in Seq([content : Nat, padding : Nat]) /\ Len(headers') = last
      /\ \A h \in 1..last : /\ headers'[h].content = headers[h].content
                            /\ headers'[h].padding = IF p > 0 /\ h = last THEN p ELSE 0
  <2>1. CASE p > 0
    <3>1. last \in 1..last
      BY <1>3, <1>4, <1>7, <2>1
    <3>2. headers' = [headers EXCEPT ![last] = [headers[last] EXCEPT !.padding = p]]
      BY <1>1, <2>1
    <3>. DEFINE R == [content : Nat, padding : Nat]
                x == [headers[last] EXCEPT !.padding = p]
    <3>2a. headers[last] \in R
      <4>1. headers \in Seq(R)
        BY <1>3
      <4>. HIDE DEF R
      <4>. QED
        BY <3>1, <4>1
    <3>3. x \in R /\ x.padding = p /\ x.content = headers[last].content
      BY <1>4, <3>2a
    <3>4. headers \in Seq(R) /\ headers' = [headers EXCEPT ![last] = x]
      BY <1>3, <3>2
    <3>. HIDE DEF R, x, last
    <3>5. /\ headers' \in Seq(R) /\ Len(headers') = last /\ headers'[last] = x
          /\ \A h \in 1..last : h # last => headers'[h] = headers[h]
      BY <3>1, <3>3, <3>4 DEF last
    <3>6. headers' \in Seq([content : Nat, padding : Nat])
      BY <3>5 DEF R
    <3>. QED
      BY <1>7, <2>1, <3>3, <3>5, <3>6
  <2>2. CASE ~ (p > 0)
    BY <1>1, <1>3, <1>7, <2>2
  <2>. QED
    BY <2>1, <2>2
<1>9. EncodeTypeOK' /\ DataType'
  BY <1>1, <1>2, <1>6, <1>8 DEF EncodeTypeOK, DataType, End
<1>10. ListWritable'
  <2>1. /\ number_to_write + remaining_byte_count = limit.bytes - 7
        /\ Len(iovec_list) + remaining_iovec_count = limit.iovec - 1
    BY <1>1, <1>2 DEF BudgetInv
  <2>2. Len(iovec_list) \in Nat /\ Len(iovec_list') \in Nat
    BY <1>3, <1>6
  <2>. DEFINE s == Len(iovec_list)
              t == Len(iovec_list')
  <2>3. s + remaining_iovec_count = limit.iovec - 1 /\ s \in Nat /\ t \in Nat /\ t <= s + 1
    BY <1>6, <2>1, <2>2
  <2>. HIDE DEF s, t
  <2>4. t <= limit.iovec
    BY <1>3, <2>3
  <2>5. number_to_write' <= limit.bytes
    BY <1>3, <1>6, <2>1
  <2>. QED
    BY <1>1, <2>4, <2>5 DEF ListWritable, t
<1>11. RecordsWhole'
  <2>1. ASSUME NEW h \in 1..last
        PROVE  /\ headers'[h].content \in 1..RecordMax
               /\ (headers'[h].content + headers'[h].padding) % 8 = 0
    <3>1. CASE h # last
      <4>1. headers'[h].content = RecordMax /\ headers'[h].padding = 0
        BY <1>7, <1>8, <3>1
      <4>. QED
        BY <1>3, <4>1
    <3>2. CASE h = last
      <4>1. last > 0
        BY <1>3, <3>2
      <4>2. CASE previous_content_length = 0
        <5>1. headers'[h].content = RecordMax /\ headers'[h].padding = 0
          BY <1>3, <1>4, <1>7, <1>8, <3>2, <4>1, <4>2
        <5>. QED
          BY <1>3, <5>1
      <4>3. CASE previous_content_length > 0
        <5>1. /\ headers'[h].content = previous_content_length
              /\ headers'[h].padding = p
          <6>1. headers'[h].content = previous_content_length
            BY <1>7, <1>8, <3>2, <4>3
          <6>2. headers'[h].padding = IF p > 0 THEN p ELSE 0
            BY <1>8, <3>2
          <6>. QED
            BY <1>4, <6>1, <6>2
        <5>. QED
          BY <1>3, <1>4, <4>3, <5>1
      <4>. QED
        BY <1>3, <4>2, <4>3
    <3>. QED
      BY <3>1, <3>2
  <2>. QED
    BY <1>8, <2>1 DEF RecordsWhole, FCGI_HEADER_LEN
<1>12. PairInv' /\ PlaceInv'
  BY <1>1, <1>2 DEF PairInv, PlaceInv, Within, Pair
<1>13. BudgetInv' /\ HeadersInv'
  BY <1>1 DEF BudgetInv, HeadersInv
<1>. QED
  BY <1>9, <1>10, <1>11, <1>12, <1>13 DEF EncodeInv


LEMMA PlaceStep ==
  ASSUME EncodeInv, Place
  PROVE  EncodeInv'
<1>. DEFINE n == LocalNumberToPlace
            last == Len(headers)
            length == previous_content_length + n
            iovecs == remaining_iovec_count - (IF Places THEN 1 ELSE 0)
            limited == iovecs = 0 \/ remaining_byte_count = n
            vec == [kind |-> "content", pair |-> pair_iter,
                    from |-> nv_pair_bytes_placed, len |-> n]
<1>1. /\ encode_pc = "place" /\ index < 3
      /\ iovec_list' = IF Places THEN Append(iovec_list, vec) ELSE iovec_list
      /\ remaining_iovec_count' = iovecs
      /\ remaining_byte_count' = remaining_byte_count - n
      /\ nv_pair_bytes_placed' = nv_pair_bytes_placed + n
      /\ number_to_write' = number_to_write + n
      /\ padding_limit_reached' = limited
      /\ previous_content_length' = IF length = RecordMax /\ ~limited THEN 0 ELSE length
      /\ UNCHANGED <<pairs, limit, begin, pair_iter, offset, failed>>
  BY DEF Place, encodeInput
<1>2. headers' = [headers EXCEPT ![last].content = length]
  BY DEF Place
<1>3. incomplete_nv_write' \in BOOLEAN
  BY DEF Place
<1>4. IF limited \/ length = RecordMax \/ index = 2
      THEN encode_pc' = "records" /\ index' = 3
      ELSE encode_pc' = "place" /\ index' = index + 1
  BY DEF Place
<1>5. EncodeTypeOK /\ DataType /\ BudgetInv /\ PairInv /\ PlaceInv /\ HeadersInv /\ Within
  BY <1>1 DEF EncodeInv, PairInv
<1>6. /\ index \in 0..2 /\ Pair \in [name : Nat, value : Nat]
      /\ LocalRemaining \in Nat /\ RemainingToPlace \in Nat
      /\ LocalRemaining <= RemainingToPlace
      /\ n \in {LocalRemaining, RemainingToPlace, remaining_byte_count,
                RecordMax - previous_content_length}
      /\ n \in Nat /\ n <= LocalRemaining /\ n <= remaining_byte_count
      /\ n <= RecordMax - previous_content_length
      /\ previous_content_length = 0 => n > 0
  BY <1>1, Placed
<1>. HIDE DEF n
<1>7. /\ remaining_iovec_count \in Nat /\ remaining_byte_count \in Nat
      /\ remaining_iovec_count > 0 /\ remaining_byte_count > 0
      /\ number_to_write \in Nat /\ nv_pair_bytes_placed \in Nat
      /\ iovec_list \in Seq(VectorType)
      /\ headers \in Seq([content : Nat, padding : Nat]) /\ last \in Nat
      /\ previous_content_length \in Nat /\ RecordMax \in Nat /\ RecordMax >= 8
      /\ pair_iter \in Nat
  BY <1>1, <1>5, Bounds, InvFacts DEF EncodeTypeOK, DataType, PlaceInv
<1>8. /\ Pair' = Pair
      /\ Start(Pair, index) \in Nat /\ Size(Pair, index) \in Nat
      /\ TotalLength(Pair) \in Nat
      /\ Start(Pair, index) + Size(Pair, index) <= TotalLength(Pair)
      /\ index < 2 => /\ Start(Pair, index + 1) = Start(Pair, index) + Size(Pair, index)
                      /\ Size(Pair, index + 1) \in Nat
  <2>1. Pair' = Pair
    BY <1>1 DEF Pair
  <2>2. /\ Size(Pair, 0) \in Nat /\ Size(Pair, 1) \in Nat /\ Size(Pair, 2) \in Nat
        /\ Start(Pair, 0) = 0
        /\ Start(Pair, 1) = Start(Pair, 0) + Size(Pair, 0)
        /\ Start(Pair, 2) = Start(Pair, 1) + Size(Pair, 1)
        /\ TotalLength(Pair) = Start(Pair, 2) + Size(Pair, 2)
    BY <1>6, Buffers
  <2>. QED
    BY <1>6, <2>1, <2>2
<1>9. LocalRemaining = Start(Pair, index) + Size(Pair, index) - nv_pair_bytes_placed
  BY <1>7, <1>8 DEF LocalRemaining
<1>10. RemainingToPlace = TotalLength(Pair) - nv_pair_bytes_placed
  BY DEF RemainingToPlace
<1>11. vec \in VectorType
  BY <1>6, <1>7 DEF VectorType
<1>12. /\ iovec_list' \in Seq(VectorType)
       /\ Len(iovec_list) \in Nat /\ Len(iovec_list') \in Nat
       /\ Len(iovec_list') + remaining_iovec_count' =
            Len(iovec_list) + remaining_iovec_count
       /\ iovecs \in Nat
  <2>. HIDE DEF vec
  <2>1. CASE Places
    <3>1. iovec_list' = Append(iovec_list, vec)
      BY <1>1, <2>1, Zenon
    <3>2. remaining_iovec_count' = remaining_iovec_count - 1
      BY <1>1, <2>1
    <3>. QED
      BY <1>7, <1>11, <2>1, <3>1, <3>2
  <2>2. CASE ~Places
    <3>1. iovec_list' = iovec_list
      BY <1>1, <2>2, Zenon
    <3>2. remaining_iovec_count' = remaining_iovec_count
      BY <1>1, <1>7, <2>2
    <3>. QED
      BY <1>7, <2>2, <3>1, <3>2
  <2>. QED
    BY <2>1, <2>2
<1>. HIDE DEF iovecs
<1>13. /\ length \in Nat /\ length <= RecordMax
       /\ length = 0 => FALSE
  BY <1>6, <1>7
<1>. HIDE DEF length, limited
<1>14. ~limited => remaining_iovec_count' > 0 /\ remaining_byte_count' > 0
  BY <1>1, <1>6, <1>7, <1>12 DEF limited
<1>15. limited => remaining_iovec_count' = 0 \/ remaining_byte_count' = 0
  BY <1>1, <1>7 DEF limited
<1>16. last > 0 /\ headers[last].content = previous_content_length
  BY <1>1, <1>5 DEF HeadersInv
<1>17. /\ headers' \in Seq([content : Nat, padding : Nat]) /\ Len(headers') = last
       /\ headers'[last].content = length
       /\ headers'[last].padding = headers[last].padding
       /\ \A h \in 1..last : h # last => headers'[h] = headers[h]
  <2>. DEFINE R == [content : Nat, padding : Nat]
              x == [headers[last] EXCEPT !.content = length]
  <2>1. last \in 1..last
    BY <1>7, <1>16
  <2>2. headers \in Seq(R) /\ headers' = [headers EXCEPT ![last] = x]
    BY <1>2, <1>7
  <2>3. headers[last] \in R
    <3>. HIDE DEF R
    <3>. QED
      BY <2>1, <2>2
  <2>4. x \in R /\ x.content = length /\ x.padding = headers[last].padding
    BY <1>13, <2>3
  <2>. HIDE DEF R, x, last
  <2>5. /\ headers' \in Seq(R) /\ Len(headers') = last /\ headers'[last] = x
        /\ \A h \in 1..last : h # last => headers'[h] = headers[h]
    BY <2>1, <2>2, <2>4 DEF last
  <2>6. headers' \in Seq([content : Nat, padding : Nat])
    BY <2>5 DEF R
  <2>. QED
    BY <2>4, <2>5, <2>6
<1>18. /\ previous_content_length' \in 0..RecordMax
       /\ encode_pc' \in {"records", "place"} /\ index' \in 0..3
       /\ padding_limit_reached' \in BOOLEAN
  BY <1>1, <1>4, <1>6, <1>7, <1>13 DEF limited
<1>19. EncodeTypeOK'
  BY <1>1, <1>5, <1>6, <1>7, <1>12, <1>18 DEF EncodeTypeOK, End
<1>20. DataType'
  <2>1. pairs' \in PairLists /\ limit' \in Limits /\ failed' \in BOOLEAN
    BY <1>1, <1>5 DEF DataType
  <2>2. nv_pair_bytes_placed' \in Nat /\ number_to_write' \in Nat
    BY <1>1, <1>6, <1>7
  <2>. QED
    BY <1>3, <1>12, <1>17, <1>18, <2>1, <2>2 DEF DataType
<1>21. BudgetInv' /\ ListWritable'
  <2>1. /\ number_to_write + remaining_byte_count = limit.bytes - 7
        /\ Len(iovec_list) + remaining_iovec_count = limit.iovec - 1
    BY <1>1, <1>5 DEF BudgetInv
  <2>2. limit.bytes \in Nat /\ limit.iovec \in Nat
    BY <1>5, Bounds DEF DataType
  <2>3. /\ number_to_write' + remaining_byte_count' = limit.bytes - 7
        /\ Len(iovec_list') + remaining_iovec_count' = limit.iovec - 1
        /\ remaining_iovec_count' \in Nat /\ remaining_byte_count' \in Nat
        /\ number_to_write' \in Nat
    BY <1>1, <1>6, <1>7, <1>12, <2>1
  <2>4. number_to_write' <= limit.bytes /\ Len(iovec_list') <= limit.iovec
    <3>. DEFINE t == Len(iovec_list')
    <3>1. t \in Nat /\ t + remaining_iovec_count' = limit.iovec - 1
      BY <1>12, <2>3
    <3>. HIDE DEF t
    <3>2. remaining_iovec_count' \in Nat
      BY <2>3
    <3>3. t <= limit.iovec
      BY <2>2, <3>1, <3>2
    <3>4. number_to_write' \in Nat /\ remaining_byte_count' \in Nat
      BY <2>3
    <3>5. number_to_write' + remaining_byte_count' = limit.bytes - 7
      BY <2>3
    <3>6. number_to_write' <= limit.bytes
      BY <2>2, <3>4, <3>5
    <3>. QED
      BY <3>3, <3>6 DEF t
  <2>. QED
    BY <1>1, <2>3, <2>4 DEF BudgetInv, ListWritable
<1>22. PairInv'
  <2>1. nv_pair_bytes_placed' <= TotalLength(Pair)
    BY <1>1, <1>6, <1>7, <1>8, <1>10, SMTT(30)
  <2>2. Within'
    BY <1>1, <1>5, <1>8, <2>1 DEF Within
  <2>. QED
    BY <1>18, <2>2 DEF PairInv
<1>23. PlaceInv'
  <2>1. previous_content_length' = RecordMax => limited
    BY <1>1, <1>7
  <2>2. ~padding_limit_reached' \/ encode_pc' = "place" => ~limited
    BY <1>1, <1>4
  <2>3. ~limited => previous_content_length' < RecordMax
    BY <1>1, <1>7, <1>13
  <2>4. ASSUME encode_pc' = "place"
        PROVE  /\ index' < 3
               /\ Start(Pair', index') <= nv_pair_bytes_placed'
               /\ nv_pair_bytes_placed' <= Start(Pair', index') + Size(Pair', index')
               /\ previous_content_length' # 0
    <3>1. ~limited /\ length # RecordMax /\ index # 2 /\ index' = index + 1
      BY <1>4, <2>4
    <3>2. n = LocalRemaining
      <4>1. n # remaining_byte_count
        BY <3>1 DEF limited
      <4>2. n # RecordMax - previous_content_length
        BY <1>6, <1>7, <3>1 DEF length
      <4>. QED
        BY <1>6, <4>1, <4>2
    <3>3. index' < 3 /\ index < 2
      BY <1>6, <3>1
    <3>4. nv_pair_bytes_placed' = Start(Pair, index')
      <4>1. nv_pair_bytes_placed' = Start(Pair, index) + Size(Pair, index)
        <5>1. n = Start(Pair, index) + Size(Pair, index) - nv_pair_bytes_placed
          BY <1>9, <3>2
        <5>2. nv_pair_bytes_placed' = nv_pair_bytes_placed + n
          BY <1>1
        <5>3. /\ nv_pair_bytes_placed \in Nat
              /\ Start(Pair, index) \in Nat /\ Size(Pair, index) \in Nat
          BY <1>7, <1>8
        <5>. QED
          BY <5>1, <5>2, <5>3
      <4>2. Start(Pair, index + 1) = Start(Pair, index) + Size(Pair, index)
        BY <1>8, <3>3
      <4>. QED
        BY <3>1, <4>1, <4>2
    <3>5. Size(Pair, index') \in Nat /\ Start(Pair, index') \in Nat
      BY <1>8, <3>1, <3>3
    <3>6. previous_content_length' # 0
      BY <1>1, <1>13, <3>1
    <3>. QED
      BY <1>8, <3>3, <3>4, <3>5, <3>6
  <2>. QED
    BY <1>14, <1>15, <2>1, <2>2, <2>3, <2>4 DEF PlaceInv
<1>24. HeadersInv'
  <2>1. \A h \in 1..last : /\ headers[h].padding = 0
                           /\ headers[h].content = RecordMax \/ h = last
    BY <1>1, <1>5 DEF HeadersInv
  <2>2. \A h \in 1..last : /\ headers'[h].padding = 0
                           /\ h # last => headers'[h].content = RecordMax
    <3>. HIDE DEF last
    <3>. QED
      BY <1>17, <2>1
  <2>3. \/ previous_content_length' = length
        \/ previous_content_length' = 0 /\ length = RecordMax
    BY <1>1
  <2>4. encode_pc' = "place" => previous_content_length' = length
    BY <1>1, <1>4
  <2>. HIDE DEF last
  <2>. QED
    BY <1>13, <1>16, <1>17, <1>18, <2>2, <2>3, <2>4 DEF HeadersInv
<1>25. RecordsWhole'
  BY <1>18 DEF RecordsWhole
<1>. QED
  BY <1>19, <1>20, <1>21, <1>22, <1>23, <1>24, <1>25 DEF EncodeInv

LEMMA CallAgainStep ==
  ASSUME EncodeInv, CallAgain
  PROVE  EncodeInv'
<1>1. /\ pair_iter' = pair_iter /\ pair_iter # End
      /\ offset' = (IF incomplete_nv_write THEN nv_pair_bytes_placed ELSE 0)
      /\ remaining_iovec_count' = limit.iovec - 1
      /\ remaining_byte_count' = limit.bytes - 7
      /\ iovec_list' = <<>> /\ headers' = <<>>
      /\ number_to_write' = 0 /\ previous_content_length' = 0
      /\ nv_pair_bytes_placed' = 0 /\ index' = 3
      /\ failed' = FALSE /\ incomplete_nv_write' = FALSE
      /\ padding_limit_reached' = FALSE
      /\ encode_pc' = "pairs"
      /\ UNCHANGED <<pairs, limit>>
  BY DEF CallAgain, Enter, Returned, Reserve
<1>2. EncodeTypeOK /\ DataType /\ PairInv
  BY DEF EncodeInv
<1>3. /\ limit.iovec \in Nat /\ limit.iovec >= 3
      /\ limit.bytes \in Nat /\ limit.bytes >= 16
      /\ RecordMax \in Nat /\ RecordMax >= 8
  BY <1>2, Bounds DEF DataType
<1>4. Len(iovec_list') = 0 /\ Len(headers') = 0
  BY <1>1
<1>5. offset' \in Nat /\ offset' <= TotalLength(Pair) /\ Pair' = Pair
  <2>1. TotalLength(Pair) \in Nat
    BY <1>1, InvFacts
  <2>2. incomplete_nv_write => nv_pair_bytes_placed <= TotalLength(Pair)
    BY <1>2 DEF PairInv, Within
  <2>3. Pair' = Pair
    BY <1>1 DEF Pair
  <2>. QED
    BY <1>1, <1>2, <2>1, <2>2, <2>3 DEF DataType
<1>6. EncodeTypeOK'
  BY <1>1, <1>2, <1>3, <1>5, SMTT(30) DEF EncodeTypeOK, End
<1>7. DataType'
  <2>1. \A S : <<>> \in Seq(S)
    OBVIOUS
  <2>. QED
    BY <1>1, <1>2, <2>1 DEF DataType
<1>8. BudgetInv' /\ ListWritable'
  BY <1>1, <1>3, <1>4 DEF BudgetInv, ListWritable
<1>9. PairInv'
  BY <1>1, <1>5 DEF PairInv
<1>10. PlaceInv'
  BY <1>1, <1>3 DEF PlaceInv
<1>11. HeadersInv' /\ RecordsWhole'
  BY <1>1, <1>4 DEF HeadersInv, RecordsWhole
<1>. QED
  BY <1>6, <1>7, <1>8, <1>9, <1>10, <1>11 DEF EncodeInv

LEMMA EncodeStep ==
  ASSUME EncodeInv, [EncodeNext]_encodeVars
  PROVE  EncodeInv'
<1>1. CASE EncodeNext
  BY <1>1, LoopEndsStep, StartPairStep, ContinueRecordStep, StartRecordStep,
     ToNextStep, PlaceStep, NextPairStep, PadStep, CallAgainStep DEF EncodeNext
<1>2. CASE UNCHANGED encodeVars
  BY <1>2 DEF EncodeInv, EncodeTypeOK, DataType, BudgetInv, PairInv, PlaceInv, HeadersInv,
              ListWritable, RecordsWhole, Within, Pair, End, RemainingToPlace,
              LocalRemaining, encodeVars, encodeInput, listVars, remainingVars, flagVars
<1>. QED
  BY <1>1, <1>2

LEMMA EncodeInvariant ==
  EncodeSpec => []EncodeInv
<1>1. EncodeInit => EncodeInv
  BY EncodeInitial
<1>2. EncodeInv /\ [EncodeNext]_encodeVars => EncodeInv'
  BY EncodeStep
<1>. QED
  BY <1>1, <1>2, PTL DEF EncodeSpec

-----------------------------------------------------------------------------
(* EncodeNameValuePairs: the inductive invariant of the layout.            *)

\* What the structs of a list contribute to BytesOf and HeadersAmong, and the
\* headers to StatedContent and StatedPadding.
KindLengths(kinds, vecs) ==
  [k \in 1..Len(vecs) |-> IF vecs[k].kind \in kinds THEN vecs[k].len ELSE 0]
HeaderCounts(vecs) ==
  [k \in 1..Len(vecs) |-> IF vecs[k].kind = "header" THEN 1 ELSE 0]
Contents(hs) == [k \in 1..Len(hs) |-> hs[k].content]
Paddings(hs) == [k \in 1..Len(hs) |-> hs[k].padding]
PairLengths == [k \in 1..Len(pairs) |-> TotalLength(pairs[k])]

\* The bytes of the kinds in a whole list.
Total(kinds, vecs) == Offsets(KindLengths(kinds, vecs))[Len(vecs)]

AllKinds == {"header", "content", "padding"}

\* The content is where it belongs in the encoding of the list of pairs.
Follows(vecs) ==
  \A i \in 1..Len(vecs) :
    vecs[i].kind = "content" =>
      Position([pair |-> vecs[i].pair, offset |-> vecs[i].from]) =
        Position(begin) + Offsets(KindLengths({"content"}, vecs))[i - 1]

\* The headers announce what is in the list.  Before a header, and only there, the
\* last header is not counted: it may still change.
RecordStops(vecs, i) ==
  i = Len(vecs) \/ (i < Len(vecs) /\ vecs[i + 1].kind = "header")

HeadersMatch(vecs, hs) ==
  LET among == Offsets(HeaderCounts(vecs))
  IN  /\ among[Len(vecs)] = Len(hs)
      /\ \A i \in 0..Len(vecs) :
           RecordStops(vecs, i) =>
             /\ i < Len(vecs) => among[i] < Len(hs)
             /\ Offsets(KindLengths({"content"}, vecs))[i] = Offsets(Contents(hs))[among[i]]
             /\ Offsets(KindLengths({"padding"}, vecs))[i] = Offsets(Paddings(hs))[among[i]]

\* The byte up to which the list of pairs is encoded.
InPair == encode_pc \in {"records", "place", "next"}
Cursor ==
  [pair |-> pair_iter,
   offset |-> IF encode_pc = "pairs" THEN offset
              ELSE IF InPair THEN nv_pair_bytes_placed ELSE Returned.offset]

Encodable == ~TooBig(Pair) /\ ~Overflows(Pair)

\* A pair is incomplete when a limit was reached inside it; only a pair that has
\* an encoding is, and it is resumed by a call that has room for more of it.
FlagsInv ==
  /\ encode_pc = "place" => ~padding_limit_reached
  /\ encode_pc \in {"records", "place"} =>
       (incomplete_nv_write <=>
          padding_limit_reached /\ nv_pair_bytes_placed < TotalLength(Pair))
  /\ encode_pc = "next" =>
       (incomplete_nv_write <=> nv_pair_bytes_placed < TotalLength(Pair))
  /\ incomplete_nv_write => nv_pair_bytes_placed < TotalLength(Pair)
  /\ InPair \/ incomplete_nv_write \/ (encode_pc = "pairs" /\ offset # 0) => Encodable
  /\ encode_pc = "pairs" /\ offset # 0 =>
       pair_iter # End /\ remaining_iovec_count > 0 /\ remaining_byte_count > 0
  /\ failed => /\ encode_pc \in {"pad", "returned"}
               /\ ~incomplete_nv_write /\ ~Encodable

LayoutInv ==
  /\ begin.pair \in 1..End /\ begin.offset \in Nat
  /\ Follows(iovec_list)
  /\ Position(Cursor) = Position(begin) + Total({"content"}, iovec_list)
  /\ number_to_write = Total(AllKinds, iovec_list)
  /\ HeadersMatch(iovec_list, headers)
  /\ FlagsInv

-----------------------------------------------------------------------------
(* Lists that grow by a struct, and headers that are added or changed.     *)

LEMMA KindLengthsAppend ==
  ASSUME NEW kinds, NEW vecs \in Seq(VectorType), NEW v \in VectorType
  PROVE  /\ KindLengths(kinds, vecs) \in Seq(Nat)
         /\ Len(KindLengths(kinds, vecs)) = Len(vecs)
         /\ KindLengths(kinds, Append(vecs, v)) =
              Append(KindLengths(kinds, vecs), IF v.kind \in kinds THEN v.len ELSE 0)
<1>. DEFINE n == Len(vecs)
            x == IF v.kind \in kinds THEN v.len ELSE 0
            a == KindLengths(kinds, vecs)
            b == KindLengths(kinds, Append(vecs, v))
<1>1. n \in Nat /\ x \in Nat
  BY DEF VectorType
<1>2. \A k \in 1..n : vecs[k] \in VectorType
  OBVIOUS
<1>3. \A k \in 1..n : (IF vecs[k].kind \in kinds THEN vecs[k].len ELSE 0) \in Nat
  BY <1>2 DEF VectorType
<1>4. a = [k \in 1..n |-> IF vecs[k].kind \in kinds THEN vecs[k].len ELSE 0]
  BY DEF KindLengths
<1>5. Len(Append(vecs, v)) = n + 1 /\ Append(vecs, v)[n + 1] = v
      /\ \A k \in 1..n : Append(vecs, v)[k] = vecs[k]
  <2>. HIDE DEF x, a, b
  <2>. QED
    OBVIOUS
<1>6. b = [k \in 1..(n + 1) |->
             IF Append(vecs, v)[k].kind \in kinds THEN Append(vecs, v)[k].len ELSE 0]
  BY <1>5 DEF KindLengths
<1>7. a \in Seq(Nat) /\ Len(a) = n
  <2>. HIDE DEF a, n
  <2>. QED
    BY <1>1, <1>3, <1>4
<1>8. b[n + 1] = x /\ \A k \in 1..n : b[k] = a[k]
  <2>. HIDE DEF a, b, n
  <2>1. n + 1 \in 1..(n + 1) /\ \A k \in 1..n : k \in 1..(n + 1)
    BY <1>1
  <2>2. b[n + 1] = x
    BY <1>5, <1>6, <2>1
  <2>3. ASSUME NEW k \in 1..n PROVE b[k] = a[k]
    BY <1>4, <1>5, <1>6, <2>1
  <2>. QED
    BY <2>2, <2>3
<1>9. \A k \in 1..(n + 1) : b[k] \in Nat
  <2>. HIDE DEF a, b, n, x
  <2>1. \A k \in 1..n : a[k] \in Nat
    BY <1>7
  <2>2. ASSUME NEW k \in 1..(n + 1) PROVE b[k] \in Nat
    <3>1. k = n + 1 \/ k \in 1..n
      BY <1>1
    <3>. QED
      BY <1>1, <1>8, <2>1, <3>1
  <2>. QED
    BY <2>2
<1>10. b \in Seq(Nat) /\ Len(b) = n + 1
  <2>1. DOMAIN b = 1..(n + 1)
    <3>. HIDE DEF b, n
    <3>. QED
      BY <1>6
  <2>2. b = [k \in 1..(n + 1) |-> b[k]]
    <3>. HIDE DEF b, n
    <3>. QED
      BY <1>6, <2>1
  <2>. HIDE DEF b, n
  <2>. QED
    BY <1>1, <1>9, <2>2
<1>11. b = Append(a, x)
  <2>. HIDE DEF a, b, n, x
  <2>. QED
    BY <1>1, <1>7, <1>8, <1>10
<1>. QED
  BY <1>7, <1>11

LEMMA HeaderCountsAppend ==
  ASSUME NEW vecs \in Seq(VectorType), NEW v \in VectorType
  PROVE  /\ HeaderCounts(vecs) \in Seq(Nat)
         /\ Len(HeaderCounts(vecs)) = Len(vecs)
         /\ HeaderCounts(Append(vecs, v)) =
              Append(HeaderCounts(vecs), IF v.kind = "header" THEN 1 ELSE 0)
<1>. DEFINE n == Len(vecs)
            x == IF v.kind = "header" THEN 1 ELSE 0
            a == HeaderCounts(vecs)
            b == HeaderCounts(Append(vecs, v))
<1>1. n \in Nat /\ x \in Nat
  OBVIOUS
<1>2. a = [k \in 1..n |-> IF vecs[k].kind = "header" THEN 1 ELSE 0]
  BY DEF HeaderCounts
<1>3. Len(Append(vecs, v)) = n + 1 /\ Append(vecs, v)[n + 1] = v
      /\ \A k \in 1..n : Append(vecs, v)[k] = vecs[k]
  <2>. HIDE DEF x, a, b
  <2>. QED
    OBVIOUS
<1>4. b = [k \in 1..(n + 1) |-> IF Append(vecs, v)[k].kind = "header" THEN 1 ELSE 0]
  BY <1>3 DEF HeaderCounts
<1>5. a \in Seq(Nat) /\ Len(a) = n
  <2>. HIDE DEF a, n
  <2>. QED
    BY <1>1, <1>2
<1>6. b \in Seq(Nat) /\ Len(b) = n + 1
  <2>. HIDE DEF b, n
  <2>. QED
    BY <1>1, <1>4
<1>7. b[n + 1] = x /\ \A k \in 1..n : b[k] = a[k]
  <2>. HIDE DEF a, b, n
  <2>1. n + 1 \in 1..(n + 1) /\ \A k \in 1..n : k \in 1..(n + 1)
    BY <1>1
  <2>2. b[n + 1] = x
    BY <1>3, <1>4, <2>1
  <2>3. ASSUME NEW k \in 1..n PROVE b[k] = a[k]
    BY <1>2, <1>3, <1>4, <2>1
  <2>. QED
    BY <2>2, <2>3
<1>8. b = Append(a, x)
  <2>. HIDE DEF a, b, n, x
  <2>. QED
    BY <1>1, <1>5, <1>6, <1>7
<1>. QED
  BY <1>5, <1>8

\* A struct at the end of a list adds to the bytes of its kind only.
LEMMA KindOffsets ==
  ASSUME NEW kinds, NEW vecs \in Seq(VectorType), NEW v \in VectorType
  PROVE  /\ Offsets(KindLengths(kinds, vecs)) \in [0..Len(vecs) -> Nat]
         /\ \A i \in 0..Len(vecs) : Offsets(KindLengths(kinds, Append(vecs, v)))[i] =
                                      Offsets(KindLengths(kinds, vecs))[i]
         /\ Offsets(KindLengths(kinds, Append(vecs, v)))[Len(vecs) + 1] =
              Offsets(KindLengths(kinds, vecs))[Len(vecs)] +
                (IF v.kind \in kinds THEN v.len ELSE 0)
<1>. DEFINE x == IF v.kind \in kinds THEN v.len ELSE 0
            a == KindLengths(kinds, vecs)
            b == KindLengths(kinds, Append(vecs, v))
<1>1. a \in Seq(Nat) /\ Len(a) = Len(vecs) /\ b = Append(a, x)
  BY KindLengthsAppend
<1>2. x \in Nat
  BY DEF VectorType
<1>. HIDE DEF a, b, x
<1>3. Offsets(a) \in [0..Len(vecs) -> Nat]
  BY <1>1, OffsetsFacts
<1>4. /\ \A i \in 0..Len(vecs) : Offsets(b)[i] = Offsets(a)[i]
      /\ Offsets(b)[Len(vecs) + 1] = Offsets(a)[Len(vecs)] + x
  BY <1>1, <1>2, OffsetsAppend
<1>. QED
  BY <1>3, <1>4 DEF a, b, x

LEMMA HeaderOffsets ==
  ASSUME NEW vecs \in Seq(VectorType), NEW v \in VectorType
  PROVE  /\ Offsets(HeaderCounts(vecs)) \in [0..Len(vecs) -> Nat]
         /\ \A i \in 0..Len(vecs) : Offsets(HeaderCounts(Append(vecs, v)))[i] =
                                      Offsets(HeaderCounts(vecs))[i]
         /\ Offsets(HeaderCounts(Append(vecs, v)))[Len(vecs) + 1] =
              Offsets(HeaderCounts(vecs))[Len(vecs)] +
                (IF v.kind = "header" THEN 1 ELSE 0)
<1>. DEFINE x == IF v.kind = "header" THEN 1 ELSE 0
            a == HeaderCounts(vecs)
            b == HeaderCounts(Append(vecs, v))
<1>1. a \in Seq(Nat) /\ Len(a) = Len(vecs) /\ b = Append(a, x)
  BY HeaderCountsAppend
<1>2. x \in Nat
  OBVIOUS
<1>. HIDE DEF a, b, x
<1>3. Offsets(a) \in [0..Len(vecs) -> Nat]
  BY <1>1, OffsetsFacts
<1>4. /\ \A i \in 0..Len(vecs) : Offsets(b)[i] = Offsets(a)[i]
      /\ Offsets(b)[Len(vecs) + 1] = Offsets(a)[Len(vecs)] + x
  BY <1>1, <1>2, OffsetsAppend
<1>. QED
  BY <1>3, <1>4 DEF a, b, x

\* What is stated before the last header does not depend on it.
LEMMA StatedFacts ==
  ASSUME NEW hs \in Seq([content : Nat, padding : Nat]),
         NEW gs \in Seq([content : Nat, padding : Nat]),
         NEW n \in Nat, n <= Len(hs), n <= Len(gs),
         \A k \in 1..n : gs[k] = hs[k]
  PROVE  /\ Contents(hs) \in Seq(Nat) /\ Len(Contents(hs)) = Len(hs)
         /\ Paddings(hs) \in Seq(Nat) /\ Len(Paddings(hs)) = Len(hs)
         /\ \A k \in 0..n : /\ Offsets(Contents(gs))[k] = Offsets(Contents(hs))[k]
                            /\ Offsets(Paddings(gs))[k] = Offsets(Paddings(hs))[k]
<1>. DEFINE R == [content : Nat, padding : Nat]
<1>1. ASSUME NEW s \in Seq(R)
      PROVE  /\ Contents(s) \in Seq(Nat) /\ Len(Contents(s)) = Len(s)
             /\ Paddings(s) \in Seq(Nat) /\ Len(Paddings(s)) = Len(s)
             /\ \A k \in 1..Len(s) : Contents(s)[k] = s[k].content /\ Paddings(s)[k] = s[k].padding
  <2>. DEFINE m == Len(s)
  <2>1. m \in Nat /\ \A k \in 1..m : s[k] \in R
    <3>. HIDE DEF R
    <3>. QED
      OBVIOUS
  <2>2. \A k \in 1..m : s[k].content \in Nat /\ s[k].padding \in Nat
    BY <2>1
  <2>3. /\ Contents(s) = [k \in 1..m |-> s[k].content]
        /\ Paddings(s) = [k \in 1..m |-> s[k].padding]
    BY DEF Contents, Paddings
  <2>. HIDE DEF m
  <2>4. /\ Contents(s) \in Seq(Nat) /\ Len(Contents(s)) = m
        /\ \A k \in 1..m : Contents(s)[k] = s[k].content
    BY <2>1, <2>2, <2>3
  <2>5. /\ Paddings(s) \in Seq(Nat) /\ Len(Paddings(s)) = m
        /\ \A k \in 1..m : Paddings(s)[k] = s[k].padding
    BY <2>1, <2>2, <2>3
  <2>. QED
    BY <2>4, <2>5 DEF m
<1>2. /\ Contents(hs) \in Seq(Nat) /\ Len(Contents(hs)) = Len(hs)
      /\ Paddings(hs) \in Seq(Nat) /\ Len(Paddings(hs)) = Len(hs)
      /\ \A k \in 1..Len(hs) : /\ Contents(hs)[k] = hs[k].content
                               /\ Paddings(hs)[k] = hs[k].padding
  BY <1>1
<1>3. /\ Contents(gs) \in Seq(Nat) /\ Len(Contents(gs)) = Len(gs)
      /\ Paddings(gs) \in Seq(Nat) /\ Len(Paddings(gs)) = Len(gs)
      /\ \A k \in 1..Len(gs) : /\ Contents(gs)[k] = gs[k].content
                               /\ Paddings(gs)[k] = gs[k].padding
  BY <1>1
<1>. HIDE DEF R
<1>4. \A k \in 1..n : k \in 1..Len(hs) /\ k \in 1..Len(gs)
  OBVIOUS
<1>5. \A k \in 1..n : /\ Contents(hs)[k] = Contents(gs)[k]
                      /\ Paddings(hs)[k] = Paddings(gs)[k]
  BY <1>2, <1>3, <1>4
<1>6. \A k \in 0..n : Offsets(Contents(hs))[k] = Offsets(Contents(gs))[k]
  BY <1>2, <1>3, <1>5, OffsetsAgree
<1>7. \A k \in 0..n : Offsets(Paddings(hs))[k] = Offsets(Paddings(gs))[k]
  BY <1>2, <1>3, <1>5, OffsetsAgree
<1>. QED
  BY <1>2, <1>6, <1>7

\* The last header adds what it states.
LEMMA StatedLast ==
  ASSUME NEW hs \in Seq([content : Nat, padding : Nat]), Len(hs) > 0
  PROVE  /\ Offsets(Contents(hs))[Len(hs)] =
              Offsets(Contents(hs))[Len(hs) - 1] + hs[Len(hs)].content
         /\ Offsets(Paddings(hs))[Len(hs)] =
              Offsets(Paddings(hs))[Len(hs) - 1] + hs[Len(hs)].padding
         /\ Offsets(Contents(hs)) \in [0..Len(hs) -> Nat]
         /\ Offsets(Paddings(hs)) \in [0..Len(hs) -> Nat]
<1>. DEFINE m == Len(hs)
<1>1. m \in Nat /\ m \in 1..m
  OBVIOUS
<1>2. /\ Contents(hs) \in Seq(Nat) /\ Len(Contents(hs)) = m
      /\ Paddings(hs) \in Seq(Nat) /\ Len(Paddings(hs)) = m
  BY <1>1, StatedFacts
<1>3. Contents(hs)[m] = hs[m].content /\ Paddings(hs)[m] = hs[m].padding
  BY <1>1 DEF Contents, Paddings
<1>. HIDE DEF m
<1>4. ASSUME NEW l \in Seq(Nat), Len(l) = m
      PROVE  /\ Offsets(l)[m] = Offsets(l)[m - 1] + l[m]
             /\ Offsets(l) \in [0..m -> Nat]
  BY <1>1, <1>4, OffsetsFacts
<1>5. /\ Offsets(Contents(hs))[m] = Offsets(Contents(hs))[m - 1] + hs[m].content
      /\ Offsets(Contents(hs)) \in [0..m -> Nat]
  BY <1>2, <1>3, <1>4, Zenon
<1>6. /\ Offsets(Paddings(hs))[m] = Offsets(Paddings(hs))[m - 1] + hs[m].padding
      /\ Offsets(Paddings(hs)) \in [0..m -> Nat]
  BY <1>2, <1>3, <1>4, Zenon
<1>. QED
  BY <1>5, <1>6 DEF m

LEMMA TotalAppend ==
  ASSUME NEW kinds, NEW vecs \in Seq(VectorType), NEW v \in VectorType
  PROVE  /\ Total(kinds, vecs) \in Nat
         /\ Total(kinds, Append(vecs, v)) =
              Total(kinds, vecs) + (IF v.kind \in kinds THEN v.len ELSE 0)
<1>. DEFINE n == Len(vecs)
<1>1. n \in Nat /\ Len(Append(vecs, v)) = n + 1
  OBVIOUS
<1>2. /\ Offsets(KindLengths(kinds, vecs)) \in [0..n -> Nat]
      /\ Offsets(KindLengths(kinds, Append(vecs, v)))[n + 1] =
           Offsets(KindLengths(kinds, vecs))[n] + (IF v.kind \in kinds THEN v.len ELSE 0)
  BY KindOffsets
<1>3. Total(kinds, vecs) = Offsets(KindLengths(kinds, vecs))[n]
  BY DEF Total
<1>4. Total(kinds, Append(vecs, v)) = Offsets(KindLengths(kinds, Append(vecs, v)))[n + 1]
  BY <1>1 DEF Total
<1>. HIDE DEF n
<1>. QED
  BY <1>1, <1>2, <1>3, <1>4

\* Content that is appended continues the encoding where the list has come to.
LEMMA FollowsAppend ==
  ASSUME NEW vecs \in Seq(VectorType), NEW v \in VectorType, Follows(vecs),
         v.kind = "content" => Position([pair |-> v.pair, offset |-> v.from]) =
                                 Position(begin) + Total({"content"}, vecs)
  PROVE  Follows(Append(vecs, v))
<1>. DEFINE n == Len(vecs)
            w == Append(vecs, v)
            a == Offsets(KindLengths({"content"}, vecs))
            b == Offsets(KindLengths({"content"}, w))
<1>1. /\ n \in Nat /\ Len(w) = n + 1 /\ w[n + 1] = v
      /\ \A k \in 1..n : w[k] = vecs[k]
  OBVIOUS
<1>2. \A i \in 0..n : b[i] = a[i]
  BY KindOffsets
<1>3. Total({"content"}, vecs) = a[n]
  BY DEF Total
<1>. HIDE DEF n, w
<1>4. ASSUME NEW i \in 1..(n + 1), w[i].kind = "content"
      PROVE  Position([pair |-> w[i].pair, offset |-> w[i].from]) = Position(begin) + b[i - 1]
  <2>1. CASE i = n + 1
    <3>1. w[i] = v /\ i - 1 = n /\ n \in 0..n
      BY <1>1, <2>1
    <3>2. b[i - 1] = Total({"content"}, vecs)
      BY <1>2, <1>3, <3>1
    <3>. QED
      BY <1>4, <3>1, <3>2
  <2>2. CASE i \in 1..n
    <3>1. w[i] = vecs[i] /\ i - 1 \in 0..n
      BY <1>1, <2>2
    <3>2. b[i - 1] = a[i - 1]
      BY <1>2, <3>1
    <3>3. Position([pair |-> vecs[i].pair, offset |-> vecs[i].from]) = Position(begin) + a[i - 1]
      BY <1>4, <2>2, <3>1 DEF Follows, n
    <3>. QED
      BY <3>1, <3>2, <3>3
  <2>. QED
    BY <1>1, <2>1, <2>2
<1>. QED
  BY <1>1, <1>4 DEF Follows, w

\* Where records stop in a list that grows.
LEMMA StopsAppend ==
  ASSUME NEW vecs \in Seq(VectorType), NEW v \in VectorType,
         NEW i \in 0..Len(vecs), RecordStops(Append(vecs, v), i)
  PROVE  RecordStops(vecs, i) /\ (i = Len(vecs) => v.kind = "header")
<1>. DEFINE n == Len(vecs)
            w == Append(vecs, v)
<1>1. /\ n \in Nat /\ Len(w) = n + 1 /\ w[n + 1] = v
      /\ \A k \in 1..n : w[k] = vecs[k]
  OBVIOUS
<1>. HIDE DEF n, w
<1>2. i \in 0..n
  BY DEF n
<1>3. w[i + 1].kind = "header"
  BY <1>1, <1>2 DEF RecordStops, w
<1>4. i < n => w[i + 1] = vecs[i + 1]
  BY <1>1, <1>2
<1>5. i = n \/ (i < n /\ vecs[i + 1].kind = "header")
  BY <1>1, <1>2, <1>3, <1>4
<1>6. i = n => v.kind = "header"
  BY <1>1, <1>3
<1>. QED
  BY <1>5, <1>6 DEF RecordStops, n

\* A record that is started: its header states nothing yet.
LEMMA HeaderStarted ==
  ASSUME NEW vecs \in Seq(VectorType), NEW v \in VectorType, v.kind = "header",
         NEW hs \in Seq([content : Nat, padding : Nat]), HeadersMatch(vecs, hs)
  PROVE  HeadersMatch(Append(vecs, v), Append(hs, [content |-> 0, padding |-> 0]))
<1>. DEFINE R == [content : Nat, padding : Nat]
            x == [content |-> 0, padding |-> 0]
            gs == Append(hs, x)
            w == Append(vecs, v)
            n == Len(vecs)
            m == Len(hs)
            a == Offsets(HeaderCounts(vecs))
            b == Offsets(HeaderCounts(w))
            c == Offsets(KindLengths({"content"}, vecs))
            d == Offsets(KindLengths({"content"}, w))
            e == Offsets(KindLengths({"padding"}, vecs))
            f == Offsets(KindLengths({"padding"}, w))
<1>1. n \in Nat /\ m \in Nat /\ Len(w) = n + 1
  OBVIOUS
<1>2. x \in R /\ x.content = 0 /\ x.padding = 0
  OBVIOUS
<1>3. /\ gs \in Seq(R) /\ Len(gs) = m + 1 /\ gs[m + 1] = x
      /\ \A k \in 1..m : gs[k] = hs[k]
  <2>. HIDE DEF x, R
  <2>1. hs \in Seq(R)
    BY DEF R
  <2>. QED
    BY <1>2, <2>1
<1>4. /\ a \in [0..n -> Nat] /\ \A i \in 0..n : b[i] = a[i]
      /\ b[n + 1] = a[n] + 1
  BY HeaderOffsets
<1>5. /\ \A i \in 0..n : d[i] = c[i]
      /\ d[n + 1] = c[n] + 0 /\ c \in [0..n -> Nat]
  <2>1. v.kind \notin {"content"}
    OBVIOUS
  <2>. QED
    BY <2>1, KindOffsets, SMTT(30)
<1>6. /\ \A i \in 0..n : f[i] = e[i]
      /\ f[n + 1] = e[n] + 0 /\ e \in [0..n -> Nat]
  <2>1. v.kind \notin {"padding"}
    OBVIOUS
  <2>. QED
    BY <2>1, KindOffsets, SMTT(30)
<1>7. \A k \in 0..m : /\ Offsets(Contents(gs))[k] = Offsets(Contents(hs))[k]
                      /\ Offsets(Paddings(gs))[k] = Offsets(Paddings(hs))[k]
  <2>1. hs \in Seq([content : Nat, padding : Nat]) /\ gs \in Seq([content : Nat, padding : Nat])
    BY <1>3
  <2>2. m \in Nat /\ m <= Len(hs) /\ m <= Len(gs)
    BY <1>1, <1>3
  <2>3. \A k \in 1..m : gs[k] = hs[k]
    BY <1>3
  <2>. HIDE DEF x, gs, m
  <2>. QED
    BY <2>1, <2>2, <2>3, StatedFacts
<1>8. /\ Offsets(Contents(gs))[m + 1] = Offsets(Contents(gs))[m] + 0
      /\ Offsets(Paddings(gs))[m + 1] = Offsets(Paddings(gs))[m] + 0
  <2>. HIDE DEF x, gs, m
  <2>1. gs \in Seq([content : Nat, padding : Nat]) /\ Len(gs) > 0 /\ Len(gs) - 1 = m
    BY <1>1, <1>3
  <2>2. gs[m + 1].content = 0 /\ gs[m + 1].padding = 0
    BY <1>2, <1>3
  <2>. QED
    BY <1>3, <2>1, <2>2, StatedLast
<1>9. /\ a[n] = m
      /\ \A i \in 0..n :
           RecordStops(vecs, i) => /\ i < n => a[i] < m
                                   /\ c[i] = Offsets(Contents(hs))[a[i]]
                                   /\ e[i] = Offsets(Paddings(hs))[a[i]]
  BY DEF HeadersMatch
<1>10. \A i \in 0..n : RecordStops(w, i) => RecordStops(vecs, i)
  BY StopsAppend
<1>11. RecordStops(vecs, n)
  BY DEF RecordStops
<1>. HIDE DEF a, b, c, d, e, f, n, m, gs, w, x
<1>12. ASSUME NEW i \in 0..(n + 1), RecordStops(w, i)
       PROVE  /\ i < n + 1 => b[i] < m + 1
              /\ d[i] = Offsets(Contents(gs))[b[i]]
              /\ f[i] = Offsets(Paddings(gs))[b[i]]
  <2>1. CASE i = n + 1
    <3>1. b[i] = m + 1 /\ m \in 0..m /\ n \in 0..n
      BY <1>1, <1>4, <1>9, <2>1
    <3>2. c[n] = Offsets(Contents(hs))[m] /\ e[n] = Offsets(Paddings(hs))[m]
      BY <1>9, <1>11, <3>1
    <3>3. c[n] \in Nat /\ e[n] \in Nat
      BY <1>5, <1>6, <3>1
    <3>4. /\ Offsets(Contents(gs))[m] = c[n]
          /\ Offsets(Paddings(gs))[m] = e[n]
      BY <1>7, <3>1, <3>2
    <3>. QED
      BY <1>1, <1>5, <1>6, <1>8, <2>1, <3>1, <3>3, <3>4
  <2>2. CASE i \in 0..n
    <3>1. RecordStops(vecs, i)
      BY <1>10, <1>12, <2>2
    <3>2. b[i] = a[i] /\ a[i] \in Nat
      BY <1>4, <2>2
    <3>3. a[i] \in 0..m
      BY <1>1, <1>9, <2>2, <3>1, <3>2, SMTT(30)
    <3>4. d[i] = c[i] /\ f[i] = e[i]
      BY <1>5, <1>6, <2>2
    <3>5. c[i] = Offsets(Contents(hs))[a[i]] /\ e[i] = Offsets(Paddings(hs))[a[i]]
      BY <1>9, <2>2, <3>1
    <3>6. /\ Offsets(Contents(gs))[a[i]] = Offsets(Contents(hs))[a[i]]
          /\ Offsets(Paddings(gs))[a[i]] = Offsets(Paddings(hs))[a[i]]
      BY <1>7, <3>3
    <3>. QED
      BY <1>1, <3>2, <3>3, <3>4, <3>5, <3>6
  <2>. QED
    BY <1>1, <2>1, <2>2
<1>13. b[n + 1] = m + 1
  BY <1>4, <1>9
<1>14. HeadersMatch(w, gs)
  BY <1>1, <1>3, <1>12, <1>13 DEF HeadersMatch, b, d, f
<1>. QED
  BY <1>14 DEF w, gs, x

\* A struct that is not a header adds to what the last header has to state.
LEMMA HeaderGrown ==
  ASSUME NEW vecs \in Seq(VectorType), NEW v \in VectorType, v.kind # "header",
         NEW hs \in Seq([content : Nat, padding : Nat]), HeadersMatch(vecs, hs),
         NEW gs \in Seq([content : Nat, padding : Nat]),
         Len(hs) > 0, Len(gs) = Len(hs),
         \A k \in 1..Len(hs) : k # Len(hs) => gs[k] = hs[k],
         gs[Len(hs)].content = hs[Len(hs)].content + (IF v.kind = "content" THEN v.len ELSE 0),
         gs[Len(hs)].padding = hs[Len(hs)].padding + (IF v.kind = "padding" THEN v.len ELSE 0)
  PROVE  HeadersMatch(Append(vecs, v), gs)
<1>. DEFINE w == Append(vecs, v)
            n == Len(vecs)
            m == Len(hs)
            a == Offsets(HeaderCounts(vecs))
            b == Offsets(HeaderCounts(w))
            c == Offsets(KindLengths({"content"}, vecs))
            d == Offsets(KindLengths({"content"}, w))
            e == Offsets(KindLengths({"padding"}, vecs))
            f == Offsets(KindLengths({"padding"}, w))
            x == IF v.kind = "content" THEN v.len ELSE 0
            y == IF v.kind = "padding" THEN v.len ELSE 0
<1>1. n \in Nat /\ m \in Nat /\ m > 0 /\ Len(w) = n + 1
  OBVIOUS
<1>2. x \in Nat /\ y \in Nat
  BY DEF VectorType
<1>3. /\ a \in [0..n -> Nat] /\ \A i \in 0..n : b[i] = a[i]
      /\ b[n + 1] = a[n] + 0
  BY HeaderOffsets
<1>4. /\ \A i \in 0..n : d[i] = c[i]
      /\ d[n + 1] = c[n] + x /\ c \in [0..n -> Nat]
  <2>1. v.kind \in {"content"} <=> v.kind = "content"
    OBVIOUS
  <2>. QED
    BY <2>1, KindOffsets, SMTT(30)
<1>5. /\ \A i \in 0..n : f[i] = e[i]
      /\ f[n + 1] = e[n] + y /\ e \in [0..n -> Nat]
  <2>1. v.kind \in {"padding"} <=> v.kind = "padding"
    OBVIOUS
  <2>. QED
    BY <2>1, KindOffsets
<1>6. /\ a[n] = m
      /\ \A i \in 0..n :
           RecordStops(vecs, i) => /\ i < n => a[i] < m
                                   /\ c[i] = Offsets(Contents(hs))[a[i]]
                                   /\ e[i] = Offsets(Paddings(hs))[a[i]]
  BY DEF HeadersMatch
<1>7. \A i \in 0..n : RecordStops(w, i) => RecordStops(vecs, i) /\ i # n
  BY StopsAppend
<1>8. RecordStops(vecs, n)
  BY DEF RecordStops
<1>9. /\ Len(gs) = m
      /\ \A k \in 1..m : k # m => gs[k] = hs[k]
      /\ gs[m].content = hs[m].content + x /\ gs[m].padding = hs[m].padding + y
      /\ hs[m].content \in Nat /\ hs[m].padding \in Nat
  <2>. DEFINE R == [content : Nat, padding : Nat]
  <2>1. hs \in Seq(R) /\ m \in 1..m
    BY <1>1
  <2>2. hs[m] \in R
    <3>. HIDE DEF R
    <3>. QED
      BY <2>1
  <2>. QED
    BY <2>2
<1>. HIDE DEF a, b, c, d, e, f, n, x, y, w
<1>10. \A k \in 0..(m - 1) : /\ Offsets(Contents(gs))[k] = Offsets(Contents(hs))[k]
                             /\ Offsets(Paddings(gs))[k] = Offsets(Paddings(hs))[k]
  <2>. DEFINE j == m - 1
  <2>1. j \in Nat /\ j <= Len(hs) /\ j <= Len(gs)
    BY <1>1, <1>9, SMTT(30)
  <2>2. \A k \in 1..j : gs[k] = hs[k]
    BY <1>1, <1>9
  <2>. HIDE DEF j, m
  <2>3. \A k \in 0..j : /\ Offsets(Contents(gs))[k] = Offsets(Contents(hs))[k]
                        /\ Offsets(Paddings(gs))[k] = Offsets(Paddings(hs))[k]
    BY <2>1, <2>2, StatedFacts
  <2>. QED
    BY <2>3 DEF j
<1>11. /\ Offsets(Contents(hs))[m] = Offsets(Contents(hs))[m - 1] + hs[m].content
       /\ Offsets(Paddings(hs))[m] = Offsets(Paddings(hs))[m - 1] + hs[m].padding
       /\ Offsets(Contents(hs))[m - 1] \in Nat /\ Offsets(Paddings(hs))[m - 1] \in Nat
  <2>1. m - 1 \in 0..m
    BY <1>1
  <2>. QED
    BY <1>1, <2>1, StatedLast
<1>12. /\ Offsets(Contents(gs))[m] = Offsets(Contents(gs))[m - 1] + gs[m].content
       /\ Offsets(Paddings(gs))[m] = Offsets(Paddings(gs))[m - 1] + gs[m].padding
  BY <1>1, <1>9, StatedLast
<1>. HIDE DEF m
<1>13. /\ Offsets(Contents(gs))[m] = Offsets(Contents(hs))[m] + x
       /\ Offsets(Paddings(gs))[m] = Offsets(Paddings(hs))[m] + y
  <2>1. m - 1 \in 0..(m - 1)
    BY <1>1
  <2>2. /\ Offsets(Contents(gs))[m - 1] = Offsets(Contents(hs))[m - 1]
        /\ Offsets(Paddings(gs))[m - 1] = Offsets(Paddings(hs))[m - 1]
    BY <1>10, <2>1
  <2>. DEFINE g == Offsets(Contents(hs))[m - 1]
              h == Offsets(Paddings(hs))[m - 1]
              p == hs[m].content
              q == hs[m].padding
  <2>3. g \in Nat /\ h \in Nat /\ p \in Nat /\ q \in Nat
    BY <1>9, <1>11
  <2>4. Offsets(Contents(hs))[m] = g + p /\ Offsets(Paddings(hs))[m] = h + q
    BY <1>11
  <2>5. Offsets(Contents(gs))[m] = g + (p + x) /\ Offsets(Paddings(gs))[m] = h + (q + y)
    BY <1>9, <1>12, <2>2
  <2>. HIDE DEF g, h, p, q
  <2>. QED
    BY <1>2, <2>3, <2>4, <2>5
<1>14. ASSUME NEW i \in 0..(n + 1), RecordStops(w, i)
       PROVE  /\ i < n + 1 => b[i] < m
              /\ d[i] = Offsets(Contents(gs))[b[i]]
              /\ f[i] = Offsets(Paddings(gs))[b[i]]
  <2>1. CASE i = n + 1
    <3>1. n \in 0..n /\ b[i] = m
      BY <1>1, <1>3, <1>6, <2>1
    <3>2. c[n] = Offsets(Contents(hs))[m] /\ e[n] = Offsets(Paddings(hs))[m]
      BY <1>6, <1>8, <3>1
    <3>. QED
      BY <1>1, <1>4, <1>5, <1>13, <2>1, <3>1, <3>2
  <2>2. CASE i \in 0..n
    <3>1. RecordStops(vecs, i) /\ i < n
      BY <1>1, <1>7, <1>14, <2>2
    <3>2. b[i] = a[i] /\ a[i] \in Nat /\ a[i] < m
      BY <1>3, <1>6, <2>2, <3>1
    <3>3. a[i] \in 0..(m - 1)
      BY <1>1, <3>2, SMTT(30)
    <3>4. d[i] = c[i] /\ f[i] = e[i]
      BY <1>4, <1>5, <2>2
    <3>5. c[i] = Offsets(Contents(hs))[a[i]] /\ e[i] = Offsets(Paddings(hs))[a[i]]
      BY <1>6, <2>2, <3>1
    <3>6. /\ Offsets(Contents(gs))[a[i]] = Offsets(Contents(hs))[a[i]]
          /\ Offsets(Paddings(gs))[a[i]] = Offsets(Paddings(hs))[a[i]]
      BY <1>10, <3>3
    <3>. QED
      BY <3>2, <3>4, <3>5, <3>6
  <2>. QED
    BY <1>1, <2>1, <2>2
<1>15. b[n + 1] = m
  BY <1>1, <1>3, <1>6
<1>16. HeadersMatch(w, gs)
  BY <1>1, <1>9, <1>14, <1>15 DEF HeadersMatch, b, d, f
<1>. QED
  BY <1>16 DEF w

-----------------------------------------------------------------------------
(* Positions in the encoding of the list of pairs.                         *)

LEMMA PairLengthsType ==
  ASSUME EncodeInv
  PROVE  /\ PairLengths \in Seq(Nat) /\ Len(PairLengths) = Len(pairs)
         /\ \A k \in 1..Len(pairs) : /\ PairLengths[k] = TotalLength(pairs[k])
                                     /\ TotalLength(pairs[k]) \in Nat
                                     /\ TotalLength(pairs[k]) > 0
<1>. DEFINE R == [name : Nat, value : Nat]
            n == Len(pairs)
<1>1. pairs \in Seq(R) /\ n \in Nat
  BY InvFacts
<1>2. ASSUME NEW p \in R PROVE TotalLength(p) \in Nat /\ TotalLength(p) > 0
  <2>1. /\ Size(p, 0) \in Nat /\ Size(p, 1) \in Nat /\ Size(p, 2) \in Nat
        /\ TotalLength(p) = Size(p, 0) + Size(p, 1) + Size(p, 2)
    <3>1. /\ Size(p, 0) \in Nat /\ Size(p, 1) \in Nat /\ Size(p, 2) \in Nat
          /\ Start(p, 0) = 0
          /\ Start(p, 1) = Start(p, 0) + Size(p, 0)
          /\ Start(p, 2) = Start(p, 1) + Size(p, 1)
          /\ TotalLength(p) = Start(p, 2) + Size(p, 2)
      BY Buffers
    <3>. QED
      BY <3>1
  <2>2. Size(p, 0) > 0
    BY DEF Size, Field
  <2>. QED
    BY <2>1, <2>2
<1>. HIDE DEF R
<1>3. \A k \in 1..n : pairs[k] \in R
  BY <1>1
<1>4. \A k \in 1..n : TotalLength(pairs[k]) \in Nat /\ TotalLength(pairs[k]) > 0
  BY <1>2, <1>3
<1>5. PairLengths = [k \in 1..n |-> TotalLength(pairs[k])]
  BY DEF PairLengths
<1>. HIDE DEF n
<1>6. /\ PairLengths \in Seq(Nat) /\ Len(PairLengths) = n
      /\ \A k \in 1..n : PairLengths[k] = TotalLength(pairs[k])
  BY <1>1, <1>4, <1>5
<1>. QED
  BY <1>4, <1>6 DEF n

\* The end of a pair is the start of the next.
LEMMA PositionFacts ==
  ASSUME EncodeInv
  PROVE  /\ \A c : c.pair \in 1..End /\ c.offset \in Nat => Position(c) \in Nat
         /\ \A p \in 1..End : \A m, n \in Nat :
              Position([pair |-> p, offset |-> m + n]) =
                Position([pair |-> p, offset |-> m]) + n
         /\ \A p \in 1..Len(pairs) :
              Position([pair |-> p, offset |-> TotalLength(pairs[p])]) =
                Position([pair |-> p + 1, offset |-> 0])
<1>. DEFINE o == Offsets(PairLengths)
            n == Len(pairs)
<1>1. /\ n \in Nat /\ End = n + 1
      /\ PairLengths \in Seq(Nat) /\ Len(PairLengths) = n
      /\ \A k \in 1..n : PairLengths[k] = TotalLength(pairs[k]) /\ TotalLength(pairs[k]) \in Nat
  BY InvFacts, PairLengthsType
<1>2. /\ o \in [0..n -> Nat]
      /\ \A k \in 1..n : o[k] = o[k - 1] + TotalLength(pairs[k])
  <2>. HIDE DEF n
  <2>. QED
    BY <1>1, OffsetsFacts
<1>3. \A c : Position(c) = o[c.pair - 1] + c.offset
  BY DEF Position, PairLengths
<1>. HIDE DEF o, n
<1>4. \A p \in 1..End : p - 1 \in 0..n
  BY <1>1
<1>5. ASSUME NEW c, c.pair \in 1..End, c.offset \in Nat PROVE Position(c) \in Nat
  BY <1>2, <1>3, <1>4, <1>5
<1>6. ASSUME NEW p \in 1..End, NEW m \in Nat, NEW k \in Nat
      PROVE  Position([pair |-> p, offset |-> m + k]) =
               Position([pair |-> p, offset |-> m]) + k
  <2>1. o[p - 1] \in Nat
    BY <1>2, <1>4
  <2>2. /\ Position([pair |-> p, offset |-> m + k]) = o[p - 1] + (m + k)
        /\ Position([pair |-> p, offset |-> m]) = o[p - 1] + m
    BY <1>3
  <2>. QED
    BY <2>1, <2>2
<1>7. ASSUME NEW p \in 1..n
      PROVE  Position([pair |-> p, offset |-> TotalLength(pairs[p])]) =
               Position([pair |-> p + 1, offset |-> 0])
  <2>1. p \in Nat /\ (p + 1) - 1 = p /\ p \in 0..n
    BY <1>1
  <2>2. o[p] \in Nat /\ o[p] = o[p - 1] + TotalLength(pairs[p])
    BY <1>2, <2>1
  <2>3. Position([pair |-> p, offset |-> TotalLength(pairs[p])]) =
          o[p - 1] + TotalLength(pairs[p])
    BY <1>3
  <2>4. Position([pair |-> p + 1, offset |-> 0]) = o[p] + 0
    BY <1>3, <2>1
  <2>. QED
    BY <2>2, <2>3, <2>4
<1>. QED
  BY <1>5, <1>6, <1>7 DEF n

-----------------------------------------------------------------------------
(* The steps and the layout.                                               *)

\* A step that leaves the list alone.
LEMMA LayoutQuiet ==
  ASSUME LayoutInv, UNCHANGED <<pairs, begin, iovec_list, headers, number_to_write>>,
         Position(Cursor') = Position(Cursor), FlagsInv'
  PROVE  LayoutInv'
<1>1. /\ pairs' = pairs /\ begin' = begin /\ iovec_list' = iovec_list
      /\ headers' = headers /\ number_to_write' = number_to_write
  OBVIOUS
<1>2. Position(Cursor)' = Position(Cursor') /\ Position(begin)' = Position(begin)
  BY <1>1 DEF Position
<1>3. Follows(iovec_list)'
  <2>1. \A c : Position(c)' = Position(c)
    BY <1>1 DEF Position
  <2>. QED
    BY <1>1, <1>2, <2>1 DEF LayoutInv, Follows
<1>4. Total({"content"}, iovec_list)' = Total({"content"}, iovec_list)
  BY <1>1
<1>5. /\ Position(Cursor)' = Position(begin)' + Total({"content"}, iovec_list)'
      /\ number_to_write' = Total(AllKinds, iovec_list)'
  BY <1>1, <1>2, <1>4 DEF LayoutInv
<1>6. HeadersMatch(iovec_list, headers)'
  BY <1>1 DEF LayoutInv
<1>7. begin'.pair \in 1..End' /\ begin'.offset \in Nat
  BY <1>1 DEF LayoutInv, End
<1>. QED
  BY <1>3, <1>5, <1>6, <1>7 DEF LayoutInv

\* A step that appends a struct to the list.
LEMMA LayoutGrows ==
  ASSUME EncodeInv, LayoutInv, UNCHANGED <<pairs, begin>>,
         NEW v \in VectorType, iovec_list' = Append(iovec_list, v),
         v.kind = "content" =>
           Position([pair |-> v.pair, offset |-> v.from]) = Position(Cursor),
         Position(Cursor') =
           Position(Cursor) + (IF v.kind = "content" THEN v.len ELSE 0),
         number_to_write' = number_to_write + v.len,
         HeadersMatch(iovec_list', headers'), FlagsInv'
  PROVE  LayoutInv'
<1>. DEFINE w == Append(iovec_list, v)
            C == {"content"}
            x == IF v.kind = "content" THEN v.len ELSE 0
<1>1. pairs' = pairs /\ begin' = begin
  OBVIOUS
<1>2. iovec_list \in Seq(VectorType)
  BY DEF EncodeInv, DataType
<1>3. /\ begin.pair \in 1..End /\ begin.offset \in Nat /\ Follows(iovec_list)
      /\ Position(Cursor) = Position(begin) + Total(C, iovec_list)
      /\ number_to_write = Total(AllKinds, iovec_list)
  BY DEF LayoutInv
<1>4. Follows(w)
  BY <1>2, <1>3, FollowsAppend
<1>5. \A c : Position(c)' = Position(c)
  BY <1>1 DEF Position
<1>6. Position(Cursor)' = Position(Cursor') /\ Position(begin)' = Position(begin)
  BY <1>1 DEF Position
<1>7. Follows(iovec_list)'
  <2>. HIDE DEF w
  <2>1. iovec_list' = w
    BY DEF w
  <2>. QED
    BY <1>4, <1>5, <1>6, <2>1 DEF Follows
<1>8. /\ Total(C, iovec_list) \in Nat /\ Total(C, w) = Total(C, iovec_list) + x
  <2>1. v.kind \in C <=> v.kind = "content"
    OBVIOUS
  <2>. QED
    BY <1>2, <2>1, TotalAppend
<1>9. Total(AllKinds, w) = Total(AllKinds, iovec_list) + v.len
  <2>1. v.kind \in AllKinds
    BY DEF VectorType, AllKinds
  <2>. HIDE DEF w
  <2>2. Total(AllKinds, w) =
          Total(AllKinds, iovec_list) + (IF v.kind \in AllKinds THEN v.len ELSE 0)
    BY <1>2, TotalAppend DEF w
  <2>. QED
    BY <2>1, <2>2
<1>10. x \in Nat
  BY DEF VectorType
<1>11. Position(begin) \in Nat
  BY <1>3, PositionFacts
<1>12. iovec_list' = w /\ Position(Cursor') = Position(Cursor) + x
  OBVIOUS
<1>. HIDE DEF w, x, C
<1>13. Position(Cursor)' = Position(begin)' + Total(C, iovec_list')
  BY <1>3, <1>6, <1>8, <1>10, <1>11, <1>12
<1>14. number_to_write' = Total(AllKinds, iovec_list')
  BY <1>3, <1>9, <1>12
<1>15. begin'.pair \in 1..End' /\ begin'.offset \in Nat
  BY <1>1, <1>3 DEF End
<1>. QED
  BY <1>7, <1>13, <1>14, <1>15 DEF LayoutInv, C

LEMMA EmptyList ==
  /\ \A kinds : Total(kinds, <<>>) = 0
  /\ HeadersMatch(<<>>, <<>>)
<1>1. Len(<<>>) = 0 /\ <<>> \in Seq(Nat)
  OBVIOUS
<1>2. ASSUME NEW l \in Seq(Nat), Len(l) = 0 PROVE Offsets(l)[0] = 0
  BY OffsetsFacts
<1>4. ASSUME NEW kinds PROVE Total(kinds, <<>>) = 0 /\ Offsets(KindLengths(kinds, <<>>))[0] = 0
  <2>1. KindLengths(kinds, <<>>) \in Seq(Nat) /\ Len(KindLengths(kinds, <<>>)) = 0
    BY DEF KindLengths
  <2>. QED
    BY <1>1, <1>2, <2>1 DEF Total
<1>5. Offsets(HeaderCounts(<<>>))[0] = 0
  <2>1. HeaderCounts(<<>>) \in Seq(Nat) /\ Len(HeaderCounts(<<>>)) = 0
    BY DEF HeaderCounts
  <2>. QED
    BY <1>2, <2>1
<1>6. Offsets(Contents(<<>>))[0] = 0 /\ Offsets(Paddings(<<>>))[0] = 0
  <2>1. /\ Contents(<<>>) \in Seq(Nat) /\ Len(Contents(<<>>)) = 0
        /\ Paddings(<<>>) \in Seq(Nat) /\ Len(Paddings(<<>>)) = 0
    BY DEF Contents, Paddings
  <2>. QED
    BY <1>2, <2>1
<1>. QED
  BY <1>1, <1>4, <1>5, <1>6 DEF HeadersMatch

LEMMA LayoutInitial ==
  ASSUME EncodeInit
  PROVE  LayoutInv
<1>1. EncodeInv
  BY EncodeInitial
<1>2. /\ begin = [pair |-> 1, offset |-> 0] /\ pair_iter = 1 /\ offset = 0
      /\ iovec_list = <<>> /\ headers = <<>> /\ number_to_write = 0
      /\ failed = FALSE /\ incomplete_nv_write = FALSE
      /\ encode_pc \in {"pairs", "returned"}
  BY DEF EncodeInit
<1>3. begin.pair \in 1..End /\ begin.offset \in Nat
  BY <1>1, <1>2, InvFacts
<1>4. Len(iovec_list) = 0
  BY <1>2
<1>5. Follows(iovec_list)
  BY <1>4 DEF Follows
<1>6. Cursor = begin
  BY <1>2 DEF Cursor, InPair, Returned
<1>7. Position(begin) \in Nat
  BY <1>1, <1>3, PositionFacts
<1>8. Position(Cursor) = Position(begin) + Total({"content"}, iovec_list)
  BY <1>2, <1>6, <1>7, EmptyList
<1>9. number_to_write = Total(AllKinds, iovec_list)
  BY <1>2, EmptyList
<1>10. HeadersMatch(iovec_list, headers)
  BY <1>2, EmptyList
<1>11. FlagsInv
  BY <1>2 DEF FlagsInv, InPair
<1>. QED
  BY <1>3, <1>5, <1>8, <1>9, <1>10, <1>11 DEF LayoutInv

LEMMA LoopEndsLayout ==
  ASSUME EncodeInv, LayoutInv, LoopEnds
  PROVE  LayoutInv'
<1>1. /\ encode_pc = "pairs" /\ encode_pc' = "pad"
      /\ pair_iter = End \/ remaining_iovec_count = 0 \/ remaining_byte_count = 0
      /\ UNCHANGED <<pairs, begin, iovec_list, headers, number_to_write, pair_iter, offset,
                     nv_pair_bytes_placed, failed, incomplete_nv_write>>
  BY DEF LoopEnds, encodeInput, listVars, flagVars
<1>2. ~incomplete_nv_write
  BY <1>1 DEF EncodeInv, PairInv
<1>3. FlagsInv
  BY DEF LayoutInv
<1>4. offset = 0
  BY <1>1, <1>3 DEF FlagsInv
<1>5. Cursor' = Cursor
  BY <1>1, <1>2, <1>4 DEF Cursor, InPair, Returned
<1>6. ~failed
  BY <1>1, <1>3 DEF FlagsInv
<1>7. FlagsInv'
  BY <1>1, <1>2, <1>6 DEF FlagsInv, InPair
<1>. QED
  BY <1>1, <1>5, <1>7, LayoutQuiet

LEMMA StartPairLayout ==
  ASSUME EncodeInv, LayoutInv, StartPair
  PROVE  LayoutInv'
<1>1. /\ encode_pc = "pairs"
      /\ nv_pair_bytes_placed' = offset /\ padding_limit_reached' = FALSE
      /\ failed' = ~Encodable
      /\ encode_pc' = IF Encodable THEN "records" ELSE "pad"
      /\ UNCHANGED <<pairs, begin, iovec_list, headers, number_to_write, pair_iter, offset,
                     incomplete_nv_write>>
  BY DEF StartPair, Encodable, encodeInput, listVars
<1>2. incomplete_nv_write = FALSE
  BY <1>1 DEF EncodeInv, EncodeTypeOK, DataType, PairInv
<1>3. offset = 0 \/ Encodable
  BY <1>1 DEF LayoutInv, FlagsInv
<1>4. Cursor' = Cursor
  BY <1>1, <1>2, <1>3 DEF Cursor, InPair, Returned
<1>5. Encodable' = Encodable
  BY <1>1 DEF Encodable, Pair
<1>6. FlagsInv'
  <2>1. CASE Encodable
    BY <1>1, <1>2, <1>5, <2>1 DEF FlagsInv, InPair
  <2>2. CASE ~Encodable
    BY <1>1, <1>2, <1>5, <2>2 DEF FlagsInv, InPair
  <2>. QED
    BY <2>1, <2>2
<1>. QED
  BY <1>1, <1>4, <1>6, LayoutQuiet

LEMMA ContinueRecordLayout ==
  ASSUME EncodeInv, LayoutInv, ContinueRecord
  PROVE  LayoutInv'
<1>1. /\ encode_pc = "records" /\ encode_pc' = "place" /\ ~padding_limit_reached
      /\ UNCHANGED <<pairs, begin, iovec_list, headers, number_to_write, pair_iter, offset,
                     nv_pair_bytes_placed, failed, incomplete_nv_write,
                     padding_limit_reached>>
  BY DEF ContinueRecord, encodeInput, listVars, flagVars
<1>2. Cursor' = Cursor
  BY <1>1 DEF Cursor, InPair
<1>3. Encodable' = Encodable /\ TotalLength(Pair)' = TotalLength(Pair)
  BY <1>1 DEF Encodable, Pair
<1>4. FlagsInv'
  BY <1>1, <1>3 DEF LayoutInv, FlagsInv, InPair
<1>. QED
  BY <1>1, <1>2, <1>4, LayoutQuiet

\* The last bytes of a pair were placed, or there is no room for more of it.
LEMMA ToNextLayout ==
  ASSUME EncodeInv, LayoutInv, NoRecord \/ RecordsEnd
  PROVE  LayoutInv'
<1>1. /\ encode_pc = "records" /\ encode_pc' = "next"
      /\ UNCHANGED <<pairs, begin, iovec_list, headers, number_to_write, pair_iter, offset,
                     nv_pair_bytes_placed, failed>>
      /\ \/ /\ RemainingToPlace > 0 /\ incomplete_nv_write' = TRUE
         \/ /\ RemainingToPlace = 0 \/ padding_limit_reached
            /\ incomplete_nv_write' = incomplete_nv_write
  BY DEF NoRecord, RecordsEnd, encodeInput, listVars, flagVars
<1>2. Cursor' = Cursor
  BY <1>1 DEF Cursor, InPair
<1>3. Encodable' = Encodable /\ TotalLength(Pair)' = TotalLength(Pair)
  BY <1>1 DEF Encodable, Pair
<1>4. /\ nv_pair_bytes_placed \in Nat /\ TotalLength(Pair) \in Nat
      /\ nv_pair_bytes_placed <= TotalLength(Pair)
      /\ incomplete_nv_write \in BOOLEAN
  BY <1>1, InvFacts DEF EncodeInv, PairInv, Within, DataType
<1>5. /\ incomplete_nv_write <=>
           padding_limit_reached /\ nv_pair_bytes_placed < TotalLength(Pair)
      /\ Encodable /\ ~failed
  BY <1>1 DEF LayoutInv, FlagsInv, InPair
<1>6. incomplete_nv_write' <=> nv_pair_bytes_placed < TotalLength(Pair)
  <2>1. /\ RemainingToPlace > 0 <=> nv_pair_bytes_placed < TotalLength(Pair)
        /\ RemainingToPlace = 0 <=> nv_pair_bytes_placed = TotalLength(Pair)
    BY <1>4 DEF RemainingToPlace
  <2>2. nv_pair_bytes_placed = TotalLength(Pair) => ~(nv_pair_bytes_placed < TotalLength(Pair))
    BY <1>4
  <2>. DEFINE less == nv_pair_bytes_placed < TotalLength(Pair)
              all == nv_pair_bytes_placed = TotalLength(Pair)
  <2>3. /\ RemainingToPlace > 0 => less
        /\ RemainingToPlace = 0 => all
        /\ all => ~less
        /\ incomplete_nv_write <=> padding_limit_reached /\ less
    BY <1>5, <2>1, <2>2
  <2>. HIDE DEF less, all
  <2>4. CASE RemainingToPlace > 0 /\ incomplete_nv_write' = TRUE
    <3>1. incomplete_nv_write' /\ less
      BY <2>3, <2>4
    <3>. QED
      BY <3>1 DEF less
  <2>5. CASE (RemainingToPlace = 0 \/ padding_limit_reached)
             /\ incomplete_nv_write' = incomplete_nv_write
    <3>1. incomplete_nv_write' <=> less
      BY <2>3, <2>5, Zenon
    <3>. QED
      BY <3>1 DEF less
  <2>. QED
    BY <1>1, <2>4, <2>5
<1>7. FlagsInv'
  BY <1>1, <1>3, <1>5, <1>6 DEF FlagsInv, InPair
<1>. QED
  BY <1>1, <1>2, <1>7, LayoutQuiet

LEMMA NextPairLayout ==
  ASSUME EncodeInv, LayoutInv, NextPair
  PROVE  LayoutInv'
<1>1. /\ encode_pc = "next" /\ offset' = 0
      /\ pair_iter' = IF incomplete_nv_write THEN pair_iter ELSE pair_iter + 1
      /\ encode_pc' = IF incomplete_nv_write THEN "pad" ELSE "pairs"
      /\ UNCHANGED <<pairs, begin, iovec_list, headers, number_to_write,
                     nv_pair_bytes_placed, failed, incomplete_nv_write>>
  BY DEF NextPair, encodeInput, listVars, flagVars
<1>2. /\ incomplete_nv_write <=> nv_pair_bytes_placed < TotalLength(Pair)
      /\ Encodable /\ ~failed
  BY <1>1 DEF LayoutInv, FlagsInv, InPair
<1>3. /\ nv_pair_bytes_placed \in Nat /\ TotalLength(Pair) \in Nat
      /\ nv_pair_bytes_placed <= TotalLength(Pair)
      /\ pair_iter \in Nat /\ pair_iter > 0 /\ pair_iter <= Len(pairs) /\ Len(pairs) \in Nat
  BY <1>1, InvFacts DEF EncodeInv, PairInv, Within, DataType
<1>4. Cursor = [pair |-> pair_iter, offset |-> nv_pair_bytes_placed]
  BY <1>1 DEF Cursor, InPair
<1>5. CASE incomplete_nv_write
  <2>1. Cursor' = Cursor
    BY <1>1, <1>4, <1>5 DEF Cursor, InPair, Returned
  <2>2. Encodable' = Encodable /\ TotalLength(Pair)' = TotalLength(Pair)
    BY <1>1, <1>5 DEF Encodable, Pair
  <2>3. FlagsInv'
    BY <1>1, <1>2, <1>5, <2>2 DEF FlagsInv, InPair
  <2>. QED
    BY <1>1, <2>1, <2>3, LayoutQuiet
<1>6. CASE ~incomplete_nv_write
  <2>1. nv_pair_bytes_placed = TotalLength(Pair)
    BY <1>2, <1>3, <1>6
  <2>2. Cursor' = [pair |-> pair_iter + 1, offset |-> 0]
    BY <1>1, <1>6 DEF Cursor
  <2>3. pair_iter \in 1..Len(pairs)
    BY <1>3
  <2>4. Position(Cursor') = Position(Cursor)
    BY <1>4, <2>1, <2>2, <2>3, PositionFacts DEF Pair
  <2>5. FlagsInv'
    BY <1>1, <1>2, <1>6 DEF FlagsInv, InPair
  <2>. QED
    BY <1>1, <2>4, <2>5, LayoutQuiet
<1>. QED
  BY <1>5, <1>6

LEMMA CallAgainLayout ==
  ASSUME EncodeInv, LayoutInv, CallAgain
  PROVE  LayoutInv'
<1>1. /\ encode_pc = "returned" /\ ~failed /\ pair_iter # End
      /\ begin' = Returned /\ pair_iter' = pair_iter /\ offset' = Returned.offset
      /\ remaining_iovec_count' = limit.iovec - 1
      /\ remaining_byte_count' = limit.bytes - 7
      /\ iovec_list' = <<>> /\ headers' = <<>> /\ number_to_write' = 0
      /\ failed' = FALSE /\ incomplete_nv_write' = FALSE
      /\ encode_pc' = "pairs" /\ pairs' = pairs
  BY DEF CallAgain, Enter, Returned, Reserve
<1>2. /\ pair_iter \in 1..End /\ nv_pair_bytes_placed \in Nat
      /\ limit.iovec \in Nat /\ limit.iovec >= 3
      /\ limit.bytes \in Nat /\ limit.bytes >= 16
  BY Bounds DEF EncodeInv, EncodeTypeOK, DataType
<1>3. begin' = [pair |-> pair_iter, offset |-> offset'] /\ offset' \in Nat
  BY <1>1, <1>2 DEF Returned
<1>4. begin'.pair \in 1..End' /\ begin'.offset \in Nat
  BY <1>1, <1>2, <1>3 DEF End
<1>5. \A c : Position(c)' = Position(c)
  BY <1>1 DEF Position
<1>6. Position(begin)' = Position(begin') /\ Position(begin') \in Nat
  <2>1. begin'.pair \in 1..End
    BY <1>1, <1>4 DEF End
  <2>. QED
    BY <1>1, <1>4, <2>1, PositionFacts DEF Position
<1>7. Cursor' = begin'
  BY <1>1, <1>3 DEF Cursor
<1>8. Position(Cursor)' = Position(begin)' + Total({"content"}, iovec_list')
  <2>1. Position(Cursor)' = Position(Cursor')
    BY <1>1 DEF Position
  <2>2. Total({"content"}, iovec_list') = 0
    BY <1>1, EmptyList
  <2>. QED
    BY <1>6, <1>7, <2>1, <2>2
<1>9. /\ number_to_write' = Total(AllKinds, iovec_list')
      /\ HeadersMatch(iovec_list', headers')
  BY <1>1, EmptyList
<1>10. Follows(iovec_list)'
  <2>1. Len(iovec_list') = 0
    BY <1>1
  <2>. QED
    BY <2>1 DEF Follows
<1>11. FlagsInv'
  <2>1. offset' # 0 => incomplete_nv_write
    BY <1>1 DEF Returned
  <2>2. incomplete_nv_write => Encodable
    BY DEF LayoutInv, FlagsInv
  <2>3. Encodable' = Encodable /\ pair_iter' # End'
    BY <1>1 DEF Encodable, Pair, End
  <2>4. remaining_iovec_count' > 0 /\ remaining_byte_count' > 0
    BY <1>1, <1>2
  <2>. QED
    BY <1>1, <2>1, <2>2, <2>3, <2>4 DEF FlagsInv, InPair
<1>. QED
  BY <1>4, <1>8, <1>9, <1>10, <1>11 DEF LayoutInv

LEMMA StartRecordLayout ==
  ASSUME EncodeInv, LayoutInv, StartRecord
  PROVE  LayoutInv'
<1>. DEFINE v == [kind |-> "header", pair |-> 0, from |-> 0, len |-> FCGI_HEADER_LEN]
            x == [content |-> 0, padding |-> 0]
<1>1. /\ encode_pc = "records" /\ encode_pc' = "place" /\ ~padding_limit_reached
      /\ iovec_list' = Append(iovec_list, v) /\ headers' = Append(headers, x)
      /\ number_to_write' = number_to_write + v.len
      /\ UNCHANGED <<pairs, begin, pair_iter, offset, nv_pair_bytes_placed, failed,
                     incomplete_nv_write, padding_limit_reached>>
  BY DEF StartRecord, encodeInput, flagVars
<1>2. v \in VectorType /\ v.kind = "header"
  BY DEF VectorType, FCGI_HEADER_LEN
<1>3. /\ iovec_list \in Seq(VectorType)
      /\ headers \in Seq([content : Nat, padding : Nat])
      /\ HeadersMatch(iovec_list, headers)
  BY DEF EncodeInv, DataType, LayoutInv
<1>4. HeadersMatch(iovec_list', headers')
  <2>. HIDE DEF v
  <2>1. HeadersMatch(Append(iovec_list, v), Append(headers, x))
    BY <1>2, <1>3, HeaderStarted
  <2>. QED
    BY <1>1, <2>1
<1>5. Cursor' = Cursor
  BY <1>1 DEF Cursor, InPair
<1>6. Position(Cursor) \in Nat
  <2>1. Cursor.pair \in 1..End /\ Cursor.offset \in Nat
    BY <1>1 DEF Cursor, InPair, EncodeInv, EncodeTypeOK, DataType
  <2>. QED
    BY <2>1, PositionFacts
<1>7. Encodable' = Encodable /\ TotalLength(Pair)' = TotalLength(Pair)
  BY <1>1 DEF Encodable, Pair
<1>8. FlagsInv'
  BY <1>1, <1>7 DEF LayoutInv, FlagsInv, InPair
<1>9. Position(Cursor') = Position(Cursor) + (IF v.kind = "content" THEN v.len ELSE 0)
  BY <1>2, <1>5, <1>6
<1>10. v.kind = "content" =>
         Position([pair |-> v.pair, offset |-> v.from]) = Position(Cursor)
  BY <1>2
<1>11. pairs' = pairs /\ begin' = begin
  BY <1>1
<1>. HIDE DEF v
<1>. QED
  BY <1>1, <1>2, <1>4, <1>8, <1>9, <1>10, <1>11, LayoutGrows

LEMMA PadLayout ==
  ASSUME EncodeInv, LayoutInv, Pad
  PROVE  LayoutInv'
<1>. DEFINE p == Padding(previous_content_length)
            last == Len(headers)
            v == [kind |-> "padding", pair |-> 0, from |-> 0, len |-> p]
<1>1. /\ encode_pc = "pad" /\ encode_pc' = "returned"
      /\ UNCHANGED <<pairs, begin, pair_iter, offset, nv_pair_bytes_placed, failed,
                     incomplete_nv_write>>
  BY DEF Pad, encodeInput, flagVars
<1>2. /\ p > 0 => /\ iovec_list' = Append(iovec_list, v)
                  /\ headers' = [headers EXCEPT ![last].padding = p]
                  /\ number_to_write' = number_to_write + p
      /\ ~(p > 0) => UNCHANGED <<iovec_list, headers, number_to_write>>
  BY DEF Pad
<1>3. /\ previous_content_length \in Nat /\ p \in Nat /\ last \in Nat
      /\ p > 0 => previous_content_length > 0
  <2>1. previous_content_length \in Nat
    BY Bounds DEF EncodeInv, EncodeTypeOK
  <2>2. p \in 0..7 /\ (previous_content_length % 8 = 0 => p = 0)
    BY <2>1, PaddingFills
  <2>3. last \in Nat
    BY DEF EncodeInv, DataType
  <2>. QED
    BY <2>1, <2>2, <2>3
<1>4. Cursor' = Cursor
  BY <1>1 DEF Cursor, InPair, Returned
<1>5. Encodable' = Encodable /\ TotalLength(Pair)' = TotalLength(Pair)
  BY <1>1 DEF Encodable, Pair
<1>6. FlagsInv'
  BY <1>1, <1>5 DEF LayoutInv, FlagsInv, InPair
<1>. HIDE DEF p
<1>7. CASE ~(p > 0)
  BY <1>1, <1>2, <1>4, <1>6, <1>7, LayoutQuiet
<1>8. CASE p > 0
  <2>1. v \in VectorType /\ v.kind = "padding" /\ v.len = p
    BY <1>3 DEF VectorType
  <2>2. last > 0 /\ headers[last].padding = 0
    BY <1>1, <1>3, <1>8 DEF EncodeInv, HeadersInv
  <2>3. /\ iovec_list \in Seq(VectorType)
        /\ headers \in Seq([content : Nat, padding : Nat])
        /\ HeadersMatch(iovec_list, headers)
    BY DEF EncodeInv, DataType, LayoutInv
  <2>4. /\ headers' \in Seq([content : Nat, padding : Nat]) /\ Len(headers') = last
        /\ headers'[last].content = headers[last].content
        /\ headers'[last].padding = p
        /\ headers[last].content \in Nat
        /\ \A h \in 1..last : h # last => headers'[h] = headers[h]
    <3>. DEFINE R == [content : Nat, padding : Nat]
                x == [headers[last] EXCEPT !.padding = p]
    <3>1. last \in 1..last
      BY <1>3, <2>2
    <3>2. headers \in Seq(R) /\ headers' = [headers EXCEPT ![last] = x]
      BY <1>2, <1>8, <2>3
    <3>3. headers[last] \in R
      <4>. HIDE DEF R
      <4>. QED
        BY <3>1, <3>2
    <3>4. x \in R /\ x.padding = p /\ x.content = headers[last].content /\ x.content \in Nat
      BY <1>3, <3>3
    <3>. HIDE DEF R, x, last
    <3>5. /\ headers' \in Seq(R) /\ Len(headers') = last /\ headers'[last] = x
          /\ \A h \in 1..last : h # last => headers'[h] = headers[h]
      BY <3>1, <3>2, <3>4 DEF last
    <3>6. headers' \in Seq([content : Nat, padding : Nat])
      BY <3>5 DEF R
    <3>. QED
      BY <3>4, <3>5, <3>6
  <2>5. HeadersMatch(iovec_list', headers')
    <3>1. /\ headers'[last].content =
               headers[last].content + (IF v.kind = "content" THEN v.len ELSE 0)
          /\ headers'[last].padding =
               headers[last].padding + (IF v.kind = "padding" THEN v.len ELSE 0)
      BY <1>3, <2>1, <2>2, <2>4
    <3>2. v.kind # "header"
      BY <2>1
    <3>. HIDE DEF v
    <3>3. HeadersMatch(Append(iovec_list, v), headers')
      BY <2>1, <2>2, <2>3, <2>4, <3>1, <3>2, HeaderGrown
    <3>. QED
      BY <1>2, <1>8, <3>3
  <2>6. Position(Cursor) \in Nat
    <3>1. Cursor.pair \in 1..End /\ Cursor.offset \in Nat
      BY <1>1 DEF Cursor, InPair, Returned, EncodeInv, EncodeTypeOK, DataType
    <3>. QED
      BY <3>1, PositionFacts
  <2>7. Position(Cursor') = Position(Cursor) + (IF v.kind = "content" THEN v.len ELSE 0)
    BY <1>4, <2>1, <2>6
  <2>8. v.kind = "content" =>
          Position([pair |-> v.pair, offset |-> v.from]) = Position(Cursor)
    BY <2>1
  <2>9. pairs' = pairs /\ begin' = begin
    BY <1>1
  <2>10. iovec_list' = Append(iovec_list, v) /\ number_to_write' = number_to_write + v.len
    BY <1>2, <1>8, <2>1
  <2>. HIDE DEF v
  <2>. QED
    BY <1>6, <2>1, <2>5, <2>7, <2>8, <2>9, <2>10, LayoutGrows
<1>. QED
  BY <1>7, <1>8

LEMMA PlaceLayout ==
  ASSUME EncodeInv, LayoutInv, Place
  PROVE  LayoutInv'
<1>. DEFINE n == LocalNumberToPlace
            last == Len(headers)
            length == previous_content_length + n
            limited == remaining_iovec_count - (IF Places THEN 1 ELSE 0) = 0
                       \/ remaining_byte_count = n
            v == [kind |-> "content", pair |-> pair_iter,
                  from |-> nv_pair_bytes_placed, len |-> n]
<1>1. /\ encode_pc = "place" /\ encode_pc' \in {"records", "place"}
      /\ encode_pc' = "place" => ~limited
      /\ iovec_list' = IF Places THEN Append(iovec_list, v) ELSE iovec_list
      /\ nv_pair_bytes_placed' = nv_pair_bytes_placed + n
      /\ number_to_write' = number_to_write + n
      /\ padding_limit_reached' = limited
      /\ UNCHANGED <<pairs, begin, pair_iter, offset, failed>>
  BY DEF Place, encodeInput
<1>2. headers' = [headers EXCEPT ![last].content = length]
  BY DEF Place
<1>3. incomplete_nv_write' = (limited /\ nv_pair_bytes_placed + n < TotalLength(Pair))
  BY DEF Place
<1>4. n \in Nat /\ (~Places => n = 0)
  <2>1. n \in Nat
    BY <1>1, Placed
  <2>. QED
    BY <2>1 DEF Places
<1>. HIDE DEF n, limited
<1>5. /\ pair_iter \in 1..End /\ nv_pair_bytes_placed \in Nat /\ number_to_write \in Nat
      /\ iovec_list \in Seq(VectorType) /\ last \in Nat
      /\ headers \in Seq([content : Nat, padding : Nat])
      /\ previous_content_length \in Nat
  BY Bounds DEF EncodeInv, EncodeTypeOK, DataType
<1>6. last > 0 /\ headers[last].content = previous_content_length
  BY <1>1 DEF EncodeInv, HeadersInv
<1>7. /\ headers' \in Seq([content : Nat, padding : Nat]) /\ Len(headers') = last
      /\ headers'[last].content = length
      /\ headers'[last].padding = headers[last].padding
      /\ headers[last].padding \in Nat
      /\ \A h \in 1..last : h # last => headers'[h] = headers[h]
      /\ length = previous_content_length => headers' = headers
  <2>. DEFINE R == [content : Nat, padding : Nat]
              x == [headers[last] EXCEPT !.content = length]
  <2>1. last \in 1..last /\ length \in Nat
    BY <1>4, <1>5, <1>6
  <2>2. headers \in Seq(R) /\ headers' = [headers EXCEPT ![last] = x]
    BY <1>2, <1>5
  <2>3. headers[last] \in R
    <3>. HIDE DEF R
    <3>. QED
      BY <2>1, <2>2
  <2>4. /\ x \in R /\ x.content = length /\ x.padding = headers[last].padding
        /\ x.padding \in Nat
        /\ length = headers[last].content => x = headers[last]
    BY <2>1, <2>3
  <2>. HIDE DEF R, x, last
  <2>5. /\ headers' \in Seq(R) /\ Len(headers') = last /\ headers'[last] = x
        /\ \A h \in 1..last : h # last => headers'[h] = headers[h]
    BY <2>1, <2>2, <2>4 DEF last
  <2>6. headers' \in Seq([content : Nat, padding : Nat])
    BY <2>5 DEF R
  <2>7. x = headers[last] => headers' = headers
    BY <2>1, <2>2 DEF last
  <2>. QED
    BY <1>6, <2>4, <2>5, <2>6, <2>7
<1>8. /\ Cursor = [pair |-> pair_iter, offset |-> nv_pair_bytes_placed]
      /\ Cursor' = [pair |-> pair_iter, offset |-> nv_pair_bytes_placed + n]
  BY <1>1 DEF Cursor, InPair
<1>9. Position(Cursor) \in Nat /\ Position(Cursor') = Position(Cursor) + n
  BY <1>4, <1>5, <1>8, PositionFacts
<1>10. FlagsInv'
  <2>1. Encodable' = Encodable /\ TotalLength(Pair)' = TotalLength(Pair)
    BY <1>1 DEF Encodable, Pair
  <2>2. Encodable /\ ~failed
    BY <1>1 DEF LayoutInv, FlagsInv, InPair
  <2>3. ~failed' /\ Encodable'
    BY <1>1, <2>1, <2>2
  <2>4. encode_pc' # "next" /\ encode_pc' # "pairs" /\ (encode_pc' = "place" => ~limited)
    BY <1>1
  <2>5. (nv_pair_bytes_placed + n < TotalLength(Pair)) =
          (nv_pair_bytes_placed' < TotalLength(Pair)')
    BY <1>1, <2>1
  <2>. DEFINE less == nv_pair_bytes_placed' < TotalLength(Pair)'
  <2>6. /\ padding_limit_reached' = limited
        /\ incomplete_nv_write' = (limited /\ less)
    BY <1>1, <1>3, <2>5
  <2>7. FlagsInv' <=>
          /\ encode_pc' = "place" => ~padding_limit_reached'
          /\ encode_pc' \in {"records", "place"} =>
               (incomplete_nv_write' <=> padding_limit_reached' /\ less)
          /\ encode_pc' = "next" => (incomplete_nv_write' <=> less)
          /\ incomplete_nv_write' => less
          /\ InPair' \/ incomplete_nv_write' \/ (encode_pc' = "pairs" /\ offset' # 0) =>
               Encodable'
          /\ encode_pc' = "pairs" /\ offset' # 0 =>
               /\ pair_iter' # End' /\ remaining_iovec_count' > 0
               /\ remaining_byte_count' > 0
          /\ failed' => /\ encode_pc' \in {"pad", "returned"}
                        /\ ~incomplete_nv_write' /\ ~Encodable'
    BY DEF FlagsInv
  <2>. HIDE DEF less
  <2>. QED
    BY <2>3, <2>4, <2>6, <2>7, Zenon
<1>11. pairs' = pairs /\ begin' = begin
  BY <1>1
<1>12. CASE ~Places
  <2>1. n = 0 /\ iovec_list' = iovec_list
    BY <1>1, <1>4, <1>12
  <2>2. length = previous_content_length /\ number_to_write' = number_to_write
    BY <1>1, <1>5, <2>1
  <2>3. headers' = headers /\ Position(Cursor') = Position(Cursor)
    BY <1>7, <1>9, <2>1, <2>2
  <2>. QED
    BY <1>10, <1>11, <2>1, <2>2, <2>3, LayoutQuiet
<1>13. CASE Places
  <2>1. v \in VectorType /\ v.kind = "content" /\ v.len = n
    BY <1>4, <1>5 DEF VectorType, End
  <2>2. HeadersMatch(iovec_list, headers)
    BY DEF LayoutInv
  <2>3. HeadersMatch(iovec_list', headers')
    <3>1. /\ headers'[last].content =
               headers[last].content + (IF v.kind = "content" THEN v.len ELSE 0)
          /\ headers'[last].padding =
               headers[last].padding + (IF v.kind = "padding" THEN v.len ELSE 0)
      BY <1>6, <1>7, <2>1
    <3>2. v.kind # "header"
      BY <2>1
    <3>3. iovec_list' = Append(iovec_list, v)
      BY <1>1, <1>13, Zenon
    <3>. HIDE DEF v, length
    <3>4. HeadersMatch(Append(iovec_list, v), headers')
      BY <1>5, <1>6, <1>7, <2>1, <2>2, <3>1, <3>2, HeaderGrown
    <3>. QED
      BY <3>3, <3>4
  <2>4. Position(Cursor') = Position(Cursor) + (IF v.kind = "content" THEN v.len ELSE 0)
    BY <1>9, <2>1
  <2>5. v.kind = "content" =>
          Position([pair |-> v.pair, offset |-> v.from]) = Position(Cursor)
    BY <1>8
  <2>6. iovec_list' = Append(iovec_list, v) /\ number_to_write' = number_to_write + v.len
    BY <1>1, <1>13, <2>1
  <2>. HIDE DEF v
  <2>. QED
    BY <1>10, <1>11, <2>1, <2>3, <2>4, <2>5, <2>6, LayoutGrows
<1>. QED
  BY <1>12, <1>13

LEMMA LayoutStep ==
  ASSUME EncodeInv, LayoutInv, [EncodeNext]_encodeVars
  PROVE  LayoutInv'
<1>1. CASE EncodeNext
  BY <1>1, LoopEndsLayout, StartPairLayout, ContinueRecordLayout, StartRecordLayout,
     ToNextLayout, PlaceLayout, NextPairLayout, PadLayout, CallAgainLayout DEF EncodeNext
<1>2. CASE UNCHANGED encodeVars
  <2>1. UNCHANGED <<pairs, begin, iovec_list, headers, number_to_write, pair_iter, offset,
                    nv_pair_bytes_placed, failed, incomplete_nv_write,
                    padding_limit_reached, encode_pc, remaining_iovec_count,
                    remaining_byte_count>>
    BY <1>2 DEF encodeVars, encodeInput, listVars, remainingVars, flagVars
  <2>2. Cursor' = Cursor
    BY <2>1 DEF Cursor, InPair, Returned
  <2>3. FlagsInv'
    BY <2>1 DEF LayoutInv, FlagsInv, InPair, Encodable, Pair, End
  <2>. QED
    BY <2>1, <2>2, <2>3, LayoutQuiet
<1>. QED
  BY <1>1, <1>2

LEMMA LayoutInvariant ==
  EncodeSpec => [](EncodeInv /\ LayoutInv)
<1>1. EncodeInit => EncodeInv /\ LayoutInv
  BY EncodeInitial, LayoutInitial
<1>2. EncodeInv /\ LayoutInv /\ [EncodeNext]_encodeVars => (EncodeInv /\ LayoutInv)'
  BY EncodeStep, LayoutStep
<1>. QED
  BY <1>1, <1>2, PTL DEF EncodeSpec

-----------------------------------------------------------------------------
(* What the invariants mean when a call returns.                           *)

LEMMA LayoutReturned ==
  ASSUME EncodeInv, LayoutInv
  PROVE  LayoutExact /\ HeadersExact /\ CountExact
<1>1. ASSUME encode_pc = "returned" PROVE Cursor = Returned
  BY <1>1 DEF Cursor, InPair, Returned
<1>2. \A i : BytesOf({"content"}, i) = Offsets(KindLengths({"content"}, iovec_list))[i]
  BY DEF BytesOf, KindLengths
<1>3. \A i : BytesOf({"padding"}, i) = Offsets(KindLengths({"padding"}, iovec_list))[i]
  BY DEF BytesOf, KindLengths
<1>4. BytesOf({"content"}, Len(iovec_list)) = Total({"content"}, iovec_list)
  BY <1>2 DEF Total
<1>5. \A i : HeadersAmong(i) = Offsets(HeaderCounts(iovec_list))[i]
  BY DEF HeadersAmong, HeaderCounts
<1>6. \A h : StatedContent(h) = Offsets(Contents(headers))[h]
  BY DEF StatedContent, Contents
<1>7. \A h : StatedPadding(h) = Offsets(Paddings(headers))[h]
  BY DEF StatedPadding, Paddings
<1>8. LayoutExact
  <2>1. ASSUME encode_pc = "returned" PROVE Position(Returned) =
          Position(begin) + BytesOf({"content"}, Len(iovec_list))
    BY <1>1, <1>4, <2>1 DEF LayoutInv
  <2>2. ASSUME NEW i \in 1..Len(iovec_list), iovec_list[i].kind = "content"
        PROVE  Position([pair |-> iovec_list[i].pair, offset |-> iovec_list[i].from]) =
                 Position(begin) + BytesOf({"content"}, i - 1)
    BY <1>2, <2>2 DEF LayoutInv, Follows
  <2>3. failed => Returned.offset = 0 /\ (TooBig(Pair) \/ Overflows(Pair))
    BY DEF LayoutInv, FlagsInv, Encodable, Returned
  <2>. QED
    BY <2>1, <2>2, <2>3, Zenon DEF LayoutExact
<1>9. HeadersExact
  <2>1. HeadersAmong(Len(iovec_list)) = Len(headers)
    BY <1>5 DEF LayoutInv, HeadersMatch
  <2>2. ASSUME NEW i \in 0..Len(iovec_list), RecordEnds(i)
        PROVE  /\ BytesOf({"content"}, i) = StatedContent(HeadersAmong(i))
               /\ BytesOf({"padding"}, i) = StatedPadding(HeadersAmong(i))
    <3>1. RecordStops(iovec_list, i)
      BY <2>2 DEF RecordEnds, RecordStops
    <3>. QED
      BY <1>2, <1>3, <1>5, <1>6, <1>7, <3>1 DEF LayoutInv, HeadersMatch
  <2>. QED
    BY <2>1, <2>2, Zenon DEF HeadersExact
<1>10. CountExact
  <2>1. BytesOf({"header", "content", "padding"}, Len(iovec_list)) =
          Total(AllKinds, iovec_list)
    BY DEF BytesOf, KindLengths, Total, AllKinds
  <2>. QED
    BY <2>1 DEF CountExact, LayoutInv
<1>. QED
  BY <1>8, <1>9, <1>10

\* No other place than the end of the list has its position.
LEMMA EndReached ==
  ASSUME EncodeInv, LayoutInv, encode_pc = "returned",
         Position(Returned) = Position([pair |-> End, offset |-> 0])
  PROVE  Returned.pair = End /\ Returned.offset = 0
<1>. DEFINE o == Offsets(PairLengths)
            n == Len(pairs)
            k == pair_iter
<1>1. /\ n \in Nat /\ End = n + 1 /\ k \in 1..(n + 1)
      /\ PairLengths \in Seq(Nat) /\ Len(PairLengths) = n
      /\ \A i \in 1..n : /\ PairLengths[i] = TotalLength(pairs[i])
                         /\ TotalLength(pairs[i]) \in Nat /\ TotalLength(pairs[i]) > 0
  BY InvFacts, PairLengthsType
<1>2. /\ o \in [0..n -> Nat]
      /\ \A i \in 1..n : o[i] = o[i - 1] + TotalLength(pairs[i])
      /\ \A i, j \in 0..n : i <= j => o[i] <= o[j]
  <2>. HIDE DEF n, k
  <2>. QED
    BY <1>1, OffsetsFacts, OffsetsMonotone
<1>3. \A c : Position(c) = o[c.pair - 1] + c.offset
  BY DEF Position, PairLengths
<1>4. Returned.pair = k
  BY DEF Returned
<1>5. ASSUME k \in 1..n PROVE FALSE
  <2>1. Returned.offset \in Nat /\ Returned.offset < TotalLength(pairs[k])
    <3>1. incomplete_nv_write => nv_pair_bytes_placed < TotalLength(Pair)
      BY DEF LayoutInv, FlagsInv
    <3>2. nv_pair_bytes_placed \in Nat
      BY DEF EncodeInv, DataType
    <3>. QED
      BY <1>1, <1>5, <3>1, <3>2 DEF Returned, Pair
  <2>2. (n + 1) - 1 = n /\ k - 1 \in 0..n /\ k \in 0..n /\ n \in 0..n /\ k <= n
    BY <1>1, <1>5
  <2>3. Position(Returned) = o[k - 1] + Returned.offset
    BY <1>3, <1>4
  <2>4. Position([pair |-> End, offset |-> 0]) = o[n] + 0
    BY <1>1, <1>3, <2>2
  <2>. HIDE DEF o, n, k
  <2>5. o[k] <= o[n] /\ o[k] \in Nat /\ o[n] \in Nat /\ o[k - 1] \in Nat
    BY <1>2, <2>2
  <2>6. o[k] = o[k - 1] + TotalLength(pairs[k]) /\ TotalLength(pairs[k]) \in Nat
    BY <1>1, <1>2, <1>5
  <2>. QED
    BY <2>1, <2>3, <2>4, <2>5, <2>6
<1>6. k = n + 1
  BY <1>1, <1>5
<1>7. Returned.offset = 0
  <2>1. incomplete_nv_write => pair_iter <= Len(pairs)
    BY DEF EncodeInv, PairInv, Within
  <2>2. ~incomplete_nv_write
    BY <1>1, <1>6, <2>1
  <2>. QED
    BY <2>2 DEF Returned
<1>. QED
  BY <1>1, <1>4, <1>6, <1>7

LEMMA SingleRecordReturned ==
  ASSUME EncodeInv, LayoutInv
  PROVE  SingleRecordExact
<1>. SUFFICES ASSUME encode_pc = "returned", pairs # <<>>
              PROVE  ~EncodeNVPairSingleRecordFailure <=>
                       /\ ~failed
                       /\ HeadersAmong(Len(iovec_list)) = 1
                       /\ BytesOf({"content"}, Len(iovec_list)) =
                            Position([pair |-> End, offset |-> 0]) - Position(begin)
  BY DEF SingleRecordExact
<1>1. HeadersAmong(Len(iovec_list)) = Len(headers)
  BY LayoutReturned DEF HeadersExact
<1>2. Position(Returned) = Position(begin) + BytesOf({"content"}, Len(iovec_list))
  BY LayoutReturned DEF LayoutExact
<1>3. /\ Position(begin) \in Nat /\ Position([pair |-> End, offset |-> 0]) \in Nat
      /\ BytesOf({"content"}, Len(iovec_list)) \in Nat
  <2>1. begin.pair \in 1..End /\ begin.offset \in Nat /\ End \in 1..End
    BY InvFacts DEF LayoutInv
  <2>2. Position(begin) \in Nat
    BY <2>1, PositionFacts
  <2>3. Position([pair |-> End, offset |-> 0]) \in Nat
    <3>. DEFINE c == [pair |-> End, offset |-> 0]
    <3>1. c.pair \in 1..End /\ c.offset \in Nat
      BY <2>1
    <3>. HIDE DEF c
    <3>2. Position(c) \in Nat
      BY <3>1, PositionFacts
    <3>. QED
      BY <3>2 DEF c
  <2>4. BytesOf({"content"}, Len(iovec_list)) = Total({"content"}, iovec_list)
    BY DEF BytesOf, KindLengths, Total
  <2>5. \E v : v \in VectorType
    <3>1. [kind |-> "header", pair |-> 0, from |-> 0, len |-> 0] \in VectorType
      BY DEF VectorType
    <3>. QED
      BY <3>1
  <2>6. Total({"content"}, iovec_list) \in Nat
    BY <2>5, TotalAppend DEF EncodeInv, DataType
  <2>. QED
    BY <2>2, <2>3, <2>4, <2>6
<1>4. /\ Returned.pair = End /\ Returned.offset = 0 <=>
           Position(Returned) = Position([pair |-> End, offset |-> 0])
  <2>1. Returned.pair = End /\ Returned.offset = 0 =>
          Returned = [pair |-> End, offset |-> 0]
    BY DEF Returned
  <2>. QED
    BY <2>1, EndReached
<1>. DEFINE r == Position(Returned)
            e == Position([pair |-> End, offset |-> 0])
            b == Position(begin)
            c == BytesOf({"content"}, Len(iovec_list))
<1>5. r = e <=> c = e - b
  <2>1. r = b + c /\ b \in Nat /\ c \in Nat /\ e \in Nat
    BY <1>2, <1>3
  <2>. HIDE DEF r, e, b, c
  <2>. QED
    BY <2>1
<1>6. ~EncodeNVPairSingleRecordFailure <=>
        ~failed /\ Len(headers) = 1 /\ Returned.offset = 0 /\ Returned.pair = End
  BY DEF EncodeNVPairSingleRecordFailure
<1>. HIDE DEF r, e, b, c
<1>7. Returned.pair = End /\ Returned.offset = 0 <=> c = e - b
  BY <1>4, <1>5 DEF r, e
<1>. QED
  BY <1>1, <1>6, <1>7, Zenon DEF c, e, b

-----------------------------------------------------------------------------
(* Every call that is followed by another one has moved on.                *)

\* Without a record, all the limits are as the call found them, so that the first
\* record can be started: the call has not returned, unless it failed or had nothing
\* to encode.
StartedInv ==
  Len(headers) = 0 =>
    /\ encode_pc \notin {"place", "next"}
    /\ encode_pc \in {"pairs", "records"} =>
         /\ pair_iter <= Len(pairs)
         /\ remaining_iovec_count = Reserve(limit).iovec
         /\ remaining_byte_count = Reserve(limit).bytes
    /\ encode_pc = "pairs" => offset < TotalLength(Pair)
    /\ encode_pc = "records" =>
         ~padding_limit_reached /\ nv_pair_bytes_placed < TotalLength(Pair)
    /\ encode_pc \in {"pad", "returned"} => failed \/ pairs = <<>>

LEMMA StartedInitial ==
  ASSUME EncodeInit
  PROVE  StartedInv
<1>1. EncodeInv
  BY EncodeInitial
<1>2. /\ pair_iter = 1 /\ offset = 0
      /\ remaining_iovec_count = Reserve(limit).iovec
      /\ remaining_byte_count = Reserve(limit).bytes
      /\ encode_pc = IF pairs = <<>> THEN "returned" ELSE "pairs"
  BY DEF EncodeInit
<1>3. CASE pairs = <<>>
  BY <1>2, <1>3 DEF StartedInv
<1>4. CASE pairs # <<>>
  <2>1. Len(pairs) \in Nat /\ Len(pairs) # 0
    BY <1>1, <1>4, InvFacts
  <2>2. 1 \in 1..Len(pairs)
    BY <2>1
  <2>3. TotalLength(Pair) \in Nat /\ TotalLength(Pair) > 0
    BY <1>1, <1>2, <2>2, PairLengthsType DEF Pair
  <2>. QED
    BY <1>2, <1>4, <2>2, <2>3 DEF StartedInv
<1>. QED
  BY <1>3, <1>4

LEMMA StartedStep ==
  ASSUME EncodeInv, LayoutInv, StartedInv, [EncodeNext]_encodeVars
  PROVE  StartedInv'
<1>1. /\ limit.iovec \in Nat /\ limit.iovec >= 3
      /\ limit.bytes \in Nat /\ limit.bytes >= 16
      /\ Reserve(limit).iovec = limit.iovec - 1 /\ Reserve(limit).bytes = limit.bytes - 7
  BY Bounds DEF EncodeInv, DataType, Reserve
<1>2. /\ pair_iter \in 1..End /\ Len(pairs) \in Nat /\ End = Len(pairs) + 1
      /\ previous_content_length \in Nat /\ nv_pair_bytes_placed \in Nat /\ offset \in Nat
      /\ headers \in Seq([content : Nat, padding : Nat])
      /\ pair_iter <= Len(pairs) => TotalLength(Pair) \in Nat /\ TotalLength(Pair) > 0
  BY InvFacts, PairLengthsType, Bounds DEF EncodeInv, EncodeTypeOK, DataType, Pair
<1>3. Len(headers) = 0 /\ encode_pc # "returned" => previous_content_length = 0
  BY <1>2 DEF EncodeInv, HeadersInv
<1>4. CASE LoopEnds
  <2>1. UNCHANGED <<headers, pairs, failed>> /\ encode_pc = "pairs"
        /\ (pair_iter = End \/ remaining_iovec_count = 0 \/ remaining_byte_count = 0)
    BY <1>4 DEF LoopEnds, encodeInput, listVars, flagVars
  <2>2. Len(headers) # 0
    BY <1>1, <1>2, <2>1, SMTT(30) DEF StartedInv
  <2>. QED
    BY <2>1, <2>2 DEF StartedInv
<1>5. CASE StartPair
  <2>1. /\ UNCHANGED <<headers, pairs, limit, pair_iter, remaining_iovec_count,
                       remaining_byte_count>>
        /\ encode_pc = "pairs" /\ nv_pair_bytes_placed' = offset
        /\ padding_limit_reached' = FALSE
        /\ \/ encode_pc' = "pad" /\ failed' = TRUE
           \/ encode_pc' = "records"
    BY <1>5 DEF StartPair, encodeInput, remainingVars, listVars
  <2>2. Pair' = Pair
    BY <2>1 DEF Pair
  <2>. QED
    BY <2>1, <2>2 DEF StartedInv
<1>6. CASE ContinueRecord \/ NoRecord \/ RecordsEnd
  <2>1. /\ headers' = headers /\ encode_pc = "records"
        /\ \/ previous_content_length # 0
           \/ ~HeaderFits
           \/ RemainingToPlace = 0
           \/ padding_limit_reached
    BY <1>6 DEF ContinueRecord, NoRecord, RecordsEnd, listVars
  <2>2. ASSUME Len(headers) = 0 PROVE FALSE
    <3>1. /\ pair_iter <= Len(pairs)
          /\ remaining_iovec_count = Reserve(limit).iovec
          /\ remaining_byte_count = Reserve(limit).bytes
          /\ ~padding_limit_reached /\ nv_pair_bytes_placed < TotalLength(Pair)
      BY <2>1, <2>2 DEF StartedInv
    <3>2. HeaderFits
      BY <1>1, <3>1 DEF HeaderFits, FCGI_HEADER_LEN
    <3>3. RemainingToPlace # 0
      BY <1>2, <3>1 DEF RemainingToPlace
    <3>. QED
      BY <1>3, <2>1, <2>2, <3>1, <3>2, <3>3
  <2>. QED
    BY <2>1, <2>2 DEF StartedInv
<1>7. CASE StartRecord
  <2>1. headers' = Append(headers, [content |-> 0, padding |-> 0])
    BY <1>7 DEF StartRecord
  <2>2. Len(headers') # 0
    BY <1>2, <2>1
  <2>. QED
    BY <2>2 DEF StartedInv
<1>8. CASE Place
  <2>1. encode_pc = "place" /\ \E x : headers' = [headers EXCEPT ![Len(headers)].content = x]
    BY <1>8 DEF Place
  <2>2. Len(headers') = Len(headers)
    BY <1>2, <2>1
  <2>. QED
    BY <2>1, <2>2 DEF StartedInv
<1>9. CASE NextPair
  <2>1. encode_pc = "next" /\ headers' = headers
    BY <1>9 DEF NextPair, listVars
  <2>. QED
    BY <2>1 DEF StartedInv
<1>10. CASE Pad
  <2>1. /\ encode_pc = "pad" /\ encode_pc' = "returned" /\ UNCHANGED <<pairs, failed>>
        /\ \/ headers' = headers
           \/ \E x : headers' = [headers EXCEPT ![Len(headers)].padding = x]
    BY <1>10 DEF Pad, encodeInput, flagVars
  <2>2. Len(headers') = Len(headers)
    BY <1>2, <2>1
  <2>. QED
    BY <2>1, <2>2 DEF StartedInv
<1>11. CASE CallAgain
  <2>1. /\ pairs' = pairs /\ limit' = limit /\ pair_iter' = pair_iter /\ pair_iter # End
        /\ offset' = Returned.offset /\ encode_pc' = "pairs"
        /\ remaining_iovec_count' = Reserve(limit).iovec
        /\ remaining_byte_count' = Reserve(limit).bytes
    BY <1>11 DEF CallAgain, Enter, Returned
  <2>2. pair_iter <= Len(pairs) /\ Pair' = Pair
    BY <1>2, <2>1 DEF Pair
  <2>3. Returned.offset < TotalLength(Pair)
    BY <1>2, <2>2 DEF Returned, LayoutInv, FlagsInv
  <2>. QED
    BY <2>1, <2>2, <2>3 DEF StartedInv
<1>12. CASE UNCHANGED encodeVars
  BY <1>12 DEF StartedInv, Pair, encodeVars, encodeInput, listVars, remainingVars, flagVars
<1>. QED
  BY <1>4, <1>5, <1>6, <1>7, <1>8, <1>9, <1>10, <1>11, <1>12 DEF EncodeNext

\* A call that returned and is followed by another one has placed at least a byte.
LEMMA CallMovedOn ==
  ASSUME EncodeInv, LayoutInv, StartedInv, CallAgain
  PROVE  Position(begin) < Position(begin')
<1>. DEFINE m == Len(headers)
            s == Offsets(Contents(headers))
            c == BytesOf({"content"}, Len(iovec_list))
<1>1. /\ encode_pc = "returned" /\ ~failed /\ Returned.pair # End /\ begin' = Returned
  BY DEF CallAgain, Enter, Returned
<1>2. headers \in Seq([content : Nat, padding : Nat]) /\ m \in Nat
  BY DEF EncodeInv, DataType
<1>3. m > 0
  <2>1. pairs # <<>>
    <3>1. pairs = <<>> => Len(pairs) = 0
      OBVIOUS
    <3>2. pair_iter # End
      BY <1>1 DEF Returned
    <3>. QED
      BY <3>1, <3>2, InvFacts
  <2>. QED
    BY <1>1, <1>2, <2>1 DEF StartedInv
<1>4. c = s[m]
  <2>1. HeadersAmong(Len(iovec_list)) = m
    BY <1>1, LayoutReturned DEF HeadersExact
  <2>2. RecordEnds(Len(iovec_list)) /\ Len(iovec_list) \in 0..Len(iovec_list)
    BY DEF RecordEnds, EncodeInv, DataType
  <2>3. c = StatedContent(HeadersAmong(Len(iovec_list)))
    BY <1>1, <2>2, LayoutReturned DEF HeadersExact
  <2>4. StatedContent(m) = s[m]
    BY DEF StatedContent, Contents
  <2>. QED
    BY <2>1, <2>3, <2>4
<1>5. s[m] = s[m - 1] + headers[m].content /\ s[m - 1] \in Nat
  <2>1. m - 1 \in 0..m
    BY <1>2, <1>3
  <2>. QED
    BY <1>2, <1>3, <2>1, StatedLast
<1>6. headers[m].content \in Nat /\ headers[m].content > 0
  <2>1. m \in 1..m
    BY <1>2, <1>3
  <2>2. headers[m].content \in 1..RecordMax
    BY <1>1, <2>1 DEF EncodeInv, RecordsWhole
  <2>. QED
    BY <2>2, Bounds
<1>7. Position(begin') = Position(begin) + c
  BY <1>1, LayoutReturned DEF LayoutExact
<1>8. Position(begin) \in Nat
  BY PositionFacts DEF LayoutInv
<1>. HIDE DEF m, s, c
<1>9. c \in Nat /\ c > 0
  BY <1>4, <1>5, <1>6
<1>. QED
  BY <1>7, <1>8, <1>9

-----------------------------------------------------------------------------
(* The theorems of EncodeNameValuePairs.                                   *)

\* The unsigned counts of EncodeNameValuePairs, of structs and of bytes that
\* remain, never wrap below zero, and no record grows past its maximum.
THEOREM EncodeTypeCorrect ==
  EncodeSpec => []EncodeTypeOK
<1>1. EncodeInv => EncodeTypeOK
  BY DEF EncodeInv
<1>. QED
  BY <1>1, EncodeInvariant, PTL

\* What a call of EncodeNameValuePairs returns can be written by a single writev, is
\* a sequence of whole records whose headers state what follows them, and holds the
\* encoding of the list of pairs from where the call was to begin to where the
\* caller is told to go on, without a gap or a repetition; and
\* EncodeNVPairSingleRecordFailure is false exactly when that is all in one record.
THEOREM EncodeAlwaysExact ==
  EncodeSpec => []EncodeExact
<1>1. EncodeInv /\ LayoutInv => EncodeExact
  <2>. SUFFICES ASSUME EncodeInv, LayoutInv PROVE EncodeExact
    OBVIOUS
  <2>1. RecordsWhole /\ ListWritable
    BY DEF EncodeInv
  <2>2. LayoutExact /\ HeadersExact /\ CountExact
    BY LayoutReturned
  <2>3. SingleRecordExact
    BY SingleRecordReturned
  <2>. QED
    BY <2>1, <2>2, <2>3 DEF EncodeExact
<1>. QED
  BY <1>1, LayoutInvariant, PTL

\* A caller of EncodeNameValuePairs that calls again with what was returned does so
\* from a later byte of the encoding: no limit is so low that a call which does not
\* fail returns without having placed anything, and the caller does not loop.
THEOREM EncodeCallsProgress ==
  EncodeSpec => [][CallAgain => Position(begin) < Position(begin')]_encodeVars
<1>1. EncodeInit => StartedInv
  BY StartedInitial
<1>2. EncodeInv /\ LayoutInv /\ StartedInv /\ [EncodeNext]_encodeVars => StartedInv'
  BY StartedStep
<1>3. EncodeInv /\ LayoutInv /\ StartedInv /\ [EncodeNext]_encodeVars
        => [CallAgain => Position(begin) < Position(begin')]_encodeVars
  BY CallMovedOn
<1>. QED
  BY <1>1, <1>2, <1>3, LayoutInvariant, PTL DEF EncodeSpec
=============================================================================
