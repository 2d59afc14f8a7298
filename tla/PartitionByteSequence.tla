------------------------ MODULE PartitionByteSequence ------------------------
(***************************************************************************)
(* PartitionByteSequence of fcgi_utilities in the loop of                  *)
(* FcgiRequest::WriteHelper: a sequence of bytes is cut into records, as   *)
(* many a call as one scatter-gather write can take, and every call is     *)
(* followed by its write.  Pointers into the vector of headers and padding *)
(* are taken while it grows, so its capacity is estimated beforehand, like *)
(* the number of structs and of bytes of the write.                        *)
(***************************************************************************)
EXTENDS FcgiUtilities

CONSTANTS
  Lengths,             \* the lengths of the byte sequences
  Systems,             \* systems: [iovec, bytes], for IOV_MAX and SSIZE_MAX
  PartitionSizeMax,    \* the maximum of std::size_t
  MaxContent           \* max_aligned_content_length

ASSUME PartitionAssumption ==
  /\ Lengths \subseteq Nat
  /\ MaxContent \in Nat /\ MaxContent % 8 = 0 /\ MaxContent > 8
  /\ PartitionSizeMax \in Nat
  /\ \A l \in Systems : /\ l.iovec \in Nat /\ l.iovec >= 3
                        /\ l.bytes \in Nat /\ l.bytes >= MaxContent + 7
                        /\ l.bytes <= PartitionSizeMax

VARIABLES
  system,
  byte_length,         \* of the sequence that WriteHelper was given
  begin_iter,          \* the first byte that is not in a record yet
  written,             \* bytes of it in the writes that were made
  bytes_remaining,     \* what this call still puts into records
  working_ssize_t, working_iovec, local_length,     \* the estimates
  noncontent_size,     \* noncontent_record_information.size()
  iovec_size,          \* iovec_list.size()
  list_bytes,
  records,             \* [from, content, padding] of the records of this call
  partition_pc

estimateVars == <<working_ssize_t, working_iovec, local_length>>
callVars == <<noncontent_size, iovec_size, list_bytes, records>>
partitionVars == <<system, byte_length, begin_iter, written, bytes_remaining,
          estimateVars, callVars, partition_pc>>

-----------------------------------------------------------------------------
(* namespace partition_byte_sequence_internal.                             *)

CeilingOfQuotient(n, d) == (n \div d) + (IF n % d > 0 THEN 1 ELSE 0)

InitializeMaxForSsize_t(l) ==
  LET inter_1 == 8 * (l.bytes \div 8)
  IN  inter_1 - 8 * CeilingOfQuotient(inter_1, MaxContent)

InitializeMaxForIovec(l) ==
  LET i_inter == (l.iovec - 1) \div 2
  IN  IF i_inter > PartitionSizeMax \div MaxContent THEN PartitionSizeMax
                                                    ELSE i_inter * MaxContent

MinMax(l) == IF InitializeMaxForSsize_t(l) < InitializeMaxForIovec(l)
             THEN InitializeMaxForSsize_t(l) ELSE InitializeMaxForIovec(l)

\* Mutant of NeededIovec: a partial record is not counted.
NeededIovecFull(m) == 2 * (m \div MaxContent) + (IF m % 8 > 0 THEN 1 ELSE 0)

NeededIovec(m) ==
  2 * CeilingOfQuotient(m, MaxContent) + (IF m % 8 > 0 THEN 1 ELSE 0)

NeededSsize_t(m) == m + 8 * CeilingOfQuotient(m, MaxContent) + Padding(m)

NeededLocalData(m) == 8 * (1 + CeilingOfQuotient(m, MaxContent))

-----------------------------------------------------------------------------
(* One call.                                                               *)

\* What a call takes of the m bytes that are left.
Processed(m) == IF m < MinMax(system) THEN m ELSE MinMax(system)

Estimate(m) ==
  /\ bytes_remaining' = m
  /\ working_ssize_t' = NeededSsize_t(m)
  /\ working_iovec' = NeededIovec(m)
  /\ local_length' = NeededLocalData(m)

Call ==
  /\ partition_pc = "call"
  /\ Estimate(Processed(byte_length - begin_iter))
  /\ noncontent_size' = FCGI_HEADER_LEN
  /\ iovec_size' = 0 /\ list_bytes' = 0
  /\ records' = <<>>
  /\ partition_pc' = IF begin_iter = byte_length THEN "empty" ELSE "records"
  /\ UNCHANGED <<system, byte_length, begin_iter, written>>

\* The special case of no content.
EmptyRecord ==
  /\ partition_pc = "empty"
  /\ noncontent_size' = noncontent_size + FCGI_HEADER_LEN
  /\ iovec_size' = 1
  /\ list_bytes' = FCGI_HEADER_LEN
  /\ records' = <<[from |-> begin_iter, content |-> 0, padding |-> 0]>>
  /\ partition_pc' = "returned"
  /\ UNCHANGED <<system, byte_length, begin_iter, written, bytes_remaining,
                 estimateVars>>

ContentLength == IF bytes_remaining < MaxContent THEN bytes_remaining
                                                 ELSE MaxContent

Record ==
  /\ partition_pc = "records" /\ bytes_remaining > 0
  /\ LET n == ContentLength
         p == Padding(ContentLength)
     IN  /\ noncontent_size' = noncontent_size + FCGI_HEADER_LEN
         /\ iovec_size' = iovec_size + 2 + (IF p > 0 THEN 1 ELSE 0)
         /\ records' = Append(records, [from |-> begin_iter, content |-> n,
                                        padding |-> p])
         /\ list_bytes' = list_bytes + (FCGI_HEADER_LEN + n + p)
         /\ bytes_remaining' = bytes_remaining - n
         /\ begin_iter' = begin_iter + n
  /\ UNCHANGED <<system, byte_length, written, estimateVars, partition_pc>>

\* The check of the estimates that is followed by a throw.
EstimatesExceeded ==
  \/ list_bytes > working_ssize_t
  \/ iovec_size > working_iovec
  \/ noncontent_size > local_length

CallReturns ==
  /\ partition_pc = "records" /\ bytes_remaining = 0
  /\ partition_pc' = IF EstimatesExceeded THEN "logic_error" ELSE "returned"
  /\ UNCHANGED <<system, byte_length, begin_iter, written, bytes_remaining,
                 estimateVars, callVars>>

-----------------------------------------------------------------------------
(* WriteHelper.                                                            *)

\* ScatterGatherWriteHelper writes the list; the loop ends with the sequence.
WriteSucceeds ==
  /\ partition_pc = "returned"
  /\ written' = begin_iter
  /\ partition_pc' = IF begin_iter = byte_length THEN "true" ELSE "call"
  /\ UNCHANGED <<system, byte_length, begin_iter, bytes_remaining, estimateVars,
                 callVars>>

WriteFails ==
  /\ partition_pc = "returned"
  /\ partition_pc' = "false"
  /\ UNCHANGED <<system, byte_length, begin_iter, written, bytes_remaining,
                 estimateVars, callVars>>

\* WriteHelper calls with a sequence that is not empty, other callers with any.
PartitionInit ==
  /\ system \in Systems /\ byte_length \in Lengths
  /\ begin_iter = 0 /\ written = 0 /\ bytes_remaining = 0
  /\ working_ssize_t = 0 /\ working_iovec = 0 /\ local_length = 0
  /\ noncontent_size = 0 /\ iovec_size = 0 /\ list_bytes = 0
  /\ records = <<>>
  /\ partition_pc = "call"

PartitionNext ==
  Call \/ EmptyRecord \/ Record \/ CallReturns \/ WriteSucceeds \/ WriteFails

PartitionSpec == PartitionInit /\ [][PartitionNext]_partitionVars

-----------------------------------------------------------------------------
(* Properties.                                                             *)

States == {"call", "empty", "records", "returned", "logic_error", "true", "false"}

\* The types: begin_iter never passes the end of the byte sequence.
PartitionTypeOK ==
  /\ system \in Systems /\ byte_length \in Lengths
  /\ begin_iter \in 0..byte_length /\ written \in 0..begin_iter
  /\ bytes_remaining \in 0..byte_length - begin_iter
  /\ working_ssize_t \in Nat /\ working_iovec \in Nat /\ local_length \in Nat
  /\ noncontent_size \in Nat /\ iovec_size \in Nat /\ list_bytes \in Nat
  /\ records \in Seq([from : Nat, content : Nat, padding : 0..7])
  /\ partition_pc \in States

\* The estimates are never exceeded: the logic_error of PartitionByteSequence is
\* not thrown, and the vector whose bytes the structs point to, which is grown
\* while they are made, keeps its place.
EstimatesHold ==
  /\ partition_pc # "logic_error"
  /\ partition_pc = "records" => ~EstimatesExceeded

\* A list that is returned can be written by one call: it has at most IOV_MAX
\* structs and SSIZE_MAX bytes, headers and padding included.
CallWritable ==
  partition_pc = "returned" => list_bytes <= system.bytes /\ iovec_size <= system.iovec

\* The records of a call follow one another from what was written to begin_iter.
\* None is empty unless the whole sequence is, only the last is padded, and a
\* call that returns has made one, whatever the limits of the system are.
CallRecordsExact ==
  partition_pc \in {"records", "returned"} =>
    LET end(i) == records[i].from + records[i].content
    IN  /\ records = <<>> => partition_pc = "records" /\ begin_iter = written
        /\ records # <<>> => /\ records[1].from = written
                             /\ end(Len(records)) = begin_iter
        /\ \A i \in 1..Len(records) :
             /\ records[i].content <= MaxContent
             /\ records[i].content = 0 => byte_length = 0
             /\ (records[i].content + records[i].padding) % 8 = 0
             /\ i < Len(records) => /\ records[i + 1].from = end(i)
                                    /\ records[i].padding = 0

\* A call of PartitionByteSequence returns records that continue what was
\* written, that one write can take, and that fit the capacities which were
\* estimated before pointers into them were taken.
PartitionExact == EstimatesHold /\ CallWritable /\ CallRecordsExact

\* The loop of WriteHelper has ended.
PartitionEnded == partition_pc \in {"true", "false"}
=============================================================================
