-------------------------- MODULE MCFcgiUtilities --------------------------
(***************************************************************************)
(* Small instances of the sequential algorithms on bytes, for TLC.  They   *)
(* share no state: unit says which of them a behaviour is about, and the   *)
(* variables of the others keep their quiet values.  A byte has 64 values, *)
(* so that a length takes four bytes from 32, and the length of a record   *)
(* needs its second byte from 64.                                          *)
(***************************************************************************)
EXTENDS NameValuePairs, EncodeNameValuePairs, PartitionByteSequence, RecordFraming

VARIABLE unit

vars == <<unit, pairsVars, encodeVars, partitionVars, framingVars>>

SeqsUpTo(elements, n) == UNION {[1..k -> elements] : k \in 0..n}

Name(n) == [i \in 1..n |-> 10 + (i % 3)]

-----------------------------------------------------------------------------
(* FCGI_PARAMS and FCGI_GET_VALUES: complete and cut lists, short lengths  *)
(* written with one byte or with four, lengths around 32, names that occur *)
(* twice, every selection of known and unknown names.                      *)

SmallPairs ==
  [name : {<<>>, <<1>>, <<1, 2>>}, value : {<<>>, <<3>>, <<2, 3, 1>>},
   wide : {{}, {"name"}, {"value"}}]
LongPairs == [name : {Name(31), Name(32), Name(34)}, value : {<<>>, Name(32)},
              wide : {{}}]
EqualNames == [name : {<<1>>, <<1, 0>>}, value : {<<2>>, <<3>>}, wide : {{}}]
Questions == [name : {Name(1), Name(2), Name(3), Name(4), <<11, 10>>},
              value : {<<>>}, wide : {{}}]

MCSources == SeqsUpTo(SmallPairs, 2) \cup SeqsUpTo(LongPairs, 1)
               \cup SeqsUpTo(EqualNames, 3) \cup SeqsUpTo(Questions, 3)
MCKnown == <<Name(1), Name(2), Name(3)>>

-----------------------------------------------------------------------------
(* Lists of pairs to encode, with records of eight bytes.  A length from   *)
(* 32 takes four bytes, 2^23 is too big, and 2^23 - 1 and 2000 overflow.   *)

SizePairs == [name : {0, 1, 33}, value : {0, 2, 35}]
RefusedPairs == {[name |-> 1, value |-> 8388608], [name |-> 8388608, value |-> 0],
                 [name |-> 8388607, value |-> 2000]}

MCPairLists == SeqsUpTo(SizePairs \cup RefusedPairs, 2)
                 \cup [1..3 -> [name : {0, 5}, value : {0, 2}]]
MCLimits == [iovec : {3, 4, 7, 40}, bytes : {16, 17, 41, 200}]

-----------------------------------------------------------------------------
(* Byte sequences to partition: content of at most 16 bytes a record, so   *)
(* that the lengths reach several records, several calls and both limits.  *)

MCLengths == 0..100
MCSystems == [iovec : {3, 4, 5, 6, 9, 25}, bytes : {23, 24, 39, 40, 48, 55, 96, 120}]

-----------------------------------------------------------------------------
(* Two records through a buffer that is shorter than a header: empty ones, *)
(* ones whose content needs both bytes of the length, padded or not.       *)

SentRecords ==
  {[type |-> 3, id |-> i, content |-> c, padding |-> p] :
     i \in {1, 66}, c \in {<<>>, <<3>>}, p \in {0, 3}}
    \cup {[type |-> 3, id |-> 66, content |-> Name(65), padding |-> 3]}
    \cup {BeginRequest(70, 65, TRUE), BeginRequest(1, 1, FALSE)}
MCSendings == [1..2 -> SentRecords]

-----------------------------------------------------------------------------
NoPairs ==
  /\ source = <<>> /\ content = <<>> /\ caller = "PARAMS"
  /\ bytes_processed = 0 /\ lengths = <<>> /\ list = <<>>
  /\ current = 0 /\ next = 0 /\ environment_map = <<>> /\ answer = <<>>
  /\ pairs_pc = "accepted"

NoEncode ==
  /\ pairs = <<>> /\ limit = [iovec |-> 3, bytes |-> 16]
  /\ begin = [pair |-> 1, offset |-> 0] /\ pair_iter = 1 /\ offset = 0
  /\ remaining_iovec_count = 0 /\ remaining_byte_count = 0
  /\ iovec_list = <<>> /\ headers = <<>> /\ number_to_write = 0
  /\ previous_content_length = 0 /\ nv_pair_bytes_placed = 0 /\ index = 3
  /\ failed = FALSE /\ incomplete_nv_write = FALSE
  /\ padding_limit_reached = FALSE
  /\ encode_pc = "returned"

NoPartition ==
  /\ system = [iovec |-> 3, bytes |-> 23] /\ byte_length = 0 /\ begin_iter = 0
  /\ written = 0 /\ bytes_remaining = 0 /\ working_ssize_t = 0
  /\ working_iovec = 0 /\ local_length = 0 /\ noncontent_size = 0
  /\ iovec_size = 0 /\ list_bytes = 0 /\ records = <<>>
  /\ partition_pc = "call"

NoFraming ==
  /\ sent = <<>> /\ wire = <<>> /\ position = 0
  /\ number_bytes_received = 0 /\ number_bytes_processed = 0
  /\ header_ = Zeros(FCGI_HEADER_LEN) /\ bytes_received_ = 0
  /\ expected = NoHeader /\ content_ = <<>> /\ delivered = <<>>
  /\ framing_pc = "read"

Init ==
  \/ unit = "pairs" /\ PairsInit /\ NoEncode /\ NoPartition /\ NoFraming
  \/ unit = "encode" /\ EncodeInit /\ NoPairs /\ NoPartition /\ NoFraming
  \/ unit = "partition" /\ PartitionInit /\ NoPairs /\ NoEncode /\ NoFraming
  \/ unit = "framing" /\ FramingInit /\ NoPairs /\ NoEncode /\ NoPartition

Next ==
  /\ \/ /\ unit = "pairs" /\ PairsNext
        /\ UNCHANGED <<encodeVars, partitionVars, framingVars>>
     \/ /\ unit = "encode" /\ EncodeNext
        /\ UNCHANGED <<pairsVars, partitionVars, framingVars>>
     \/ /\ unit = "partition" /\ PartitionNext
        /\ UNCHANGED <<pairsVars, encodeVars, framingVars>>
     \/ /\ unit = "framing" /\ FramingNext
        /\ UNCHANGED <<pairsVars, encodeVars, partitionVars>>
  /\ UNCHANGED unit

\* A loop goes on, a caller does not stop before the end, and what was sent
\* arrives.
FairSpec == Init /\ [][Next]_vars /\ WF_vars(Next)

-----------------------------------------------------------------------------
\* Every loop ends, however small the limits and whatever was cut: a call takes a
\* part of what is left, and a record without content or padding is complete.
LoopsEnd ==
  <>CASE unit = "pairs" -> PairsEnded
      [] unit = "encode" -> EncodeEnded
      [] unit = "partition" -> PartitionEnded
      [] unit = "framing" -> FramingEnded
=============================================================================
