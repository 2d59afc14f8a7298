------------------------ MODULE EncodeNameValuePairs ------------------------
(***************************************************************************)
(* EncodeNameValuePairs of fcgi_utilities: name-value pairs are laid out   *)
(* as the content of records, for one scatter-gather write a call, and a   *)
(* caller calls again with what was returned until nothing is left.        *)
(*                                                                         *)
(* A pair is the sizes of its name and value.  Its encoding has three      *)
(* buffers: length information (0), name (1) and value (2).  A struct      *)
(* iovec is a header, a padding, or a range of the encoding of a pair.     *)
(***************************************************************************)
EXTENDS FcgiUtilities

CONSTANTS
  PairLists,           \* the lists of [name, value] that are encoded
  Limits,              \* systems: [iovec, bytes], for IOV_MAX and SSIZE_MAX
  SizeMax,             \* size_t_MAX
  RecordMax            \* aligned_record_MAX

ASSUME EncodeAssumption ==
  /\ PairLists \subseteq Seq([name : Nat, value : Nat])
  /\ SizeMax \in Nat
  /\ \A l \in Limits : /\ l.iovec \in Nat /\ l.iovec >= 3
                       /\ l.bytes \in Nat /\ l.bytes >= 16
                       /\ l.bytes <= SizeMax
  /\ RecordMax \in Nat \ {0} /\ RecordMax % FCGI_HEADER_LEN = 0

VARIABLES
  pairs, limit,
  begin,               \* [pair, offset]: the arguments of the call
  pair_iter, offset,
  remaining_iovec_count, remaining_byte_count,
  iovec_list,          \* of [kind, pair, from, len]
  headers,             \* [content, padding] of each header of local_buffers
  number_to_write,
  previous_content_length,
  nv_pair_bytes_placed,
  index,               \* of the buffer that is placed next, 3 for none
  failed,              \* name_or_value_too_big or overflow_detected
  incomplete_nv_write,
  padding_limit_reached,
  encode_pc

encodeInput == <<pairs, limit, begin>>
listVars == <<iovec_list, headers, number_to_write, previous_content_length>>
remainingVars == <<remaining_iovec_count, remaining_byte_count>>
flagVars == <<failed, incomplete_nv_write, padding_limit_reached>>
encodeVars == <<encodeInput, pair_iter, offset, remainingVars, listVars,
          nv_pair_bytes_placed, index, flagVars, encode_pc>>

Pair == pairs[pair_iter]
End == Len(pairs) + 1

-----------------------------------------------------------------------------
(* The buffers of a pair.                                                  *)

\* The number of bytes that encode a length.
Field(size) == IF size <= kNameValuePairSingleByteLength THEN 1 ELSE 4

Size(pair, i) ==
  CASE i = 0 -> Field(pair.name) + Field(pair.value)
    [] i = 1 -> pair.name
    [] i = 2 -> pair.value

\* sums[i]: where buffer i starts in the encoding of the pair.
Start(pair, i) ==
  CASE i = 0 -> 0
    [] i = 1 -> Size(pair, 0)
    [] i = 2 -> Size(pair, 0) + Size(pair, 1)

TotalLength(pair) == Start(pair, 2) + Size(pair, 2)

TooBig(pair) == \/ pair.name > kNameValuePairFourByteLength
                \/ pair.value > kNameValuePairFourByteLength

Overflows(pair) == \/ Size(pair, 1) > SizeMax - Start(pair, 1)
                   \/ Size(pair, 2) > SizeMax - Start(pair, 2)

DetermineIndex ==
  CASE nv_pair_bytes_placed < Start(Pair, 1) -> 0
    [] nv_pair_bytes_placed >= Start(Pair, 1)
       /\ nv_pair_bytes_placed < Start(Pair, 2) -> 1
    [] OTHER -> 2

RemainingToPlace == TotalLength(Pair) - nv_pair_bytes_placed

-----------------------------------------------------------------------------
(* One call.                                                               *)

\* A struct iovec and seven bytes are kept for padding.
Reserve(l) == [iovec |-> l.iovec - 1, bytes |-> l.bytes - 7]

Enter(first, from) ==
  /\ begin' = [pair |-> first, offset |-> from]
  /\ pair_iter' = first /\ offset' = from
  /\ remaining_iovec_count' = Reserve(limit).iovec
  /\ remaining_byte_count' = Reserve(limit).bytes
  /\ iovec_list' = <<>> /\ headers' = <<>>
  /\ number_to_write' = 0 /\ previous_content_length' = 0
  /\ nv_pair_bytes_placed' = 0 /\ index' = 3
  /\ failed' = FALSE /\ incomplete_nv_write' = FALSE
  /\ padding_limit_reached' = FALSE
  /\ encode_pc' = "pairs"
  /\ UNCHANGED <<pairs, limit>>

\* No pair is left, or no struct iovec or byte for the next pair.
LoopEnds ==
  /\ encode_pc = "pairs"
  /\ pair_iter = End \/ remaining_iovec_count = 0 \/ remaining_byte_count = 0
  /\ encode_pc' = "pad"
  /\ UNCHANGED <<encodeInput, pair_iter, offset, remainingVars, listVars,
                 nv_pair_bytes_placed, index, flagVars>>

StartPair ==
  /\ encode_pc = "pairs"
  /\ pair_iter # End /\ remaining_iovec_count > 0 /\ remaining_byte_count > 0
  /\ nv_pair_bytes_placed' = offset
  /\ failed' = (TooBig(Pair) \/ Overflows(Pair))
  /\ padding_limit_reached' = FALSE
  /\ encode_pc' = IF TooBig(Pair) \/ Overflows(Pair) THEN "pad" ELSE "records"
  /\ UNCHANGED <<encodeInput, pair_iter, offset, remainingVars, listVars, index,
                 incomplete_nv_write>>

\* Mutant of HeaderFits: the struct for padding is counted a second time.
HeaderFitsPadded ==
  remaining_iovec_count >= 3 /\ remaining_byte_count >= FCGI_HEADER_LEN + 1

\* Mutant of HeaderFits: only the structs are counted.
HeaderFitsStructs == remaining_iovec_count >= 2

\* Room for a header and for some data behind it.
HeaderFits ==
  remaining_iovec_count >= 2 /\ remaining_byte_count >= FCGI_HEADER_LEN + 1

\* The loop that produces records: the previous record is full, or has room.
ContinueRecord ==
  /\ encode_pc = "records" /\ RemainingToPlace > 0 /\ ~padding_limit_reached
  /\ previous_content_length # 0
  /\ index' = DetermineIndex
  /\ encode_pc' = "place"
  /\ UNCHANGED <<encodeInput, pair_iter, offset, remainingVars, listVars,
                 nv_pair_bytes_placed, flagVars>>

StartRecord ==
  /\ encode_pc = "records" /\ RemainingToPlace > 0 /\ ~padding_limit_reached
  /\ previous_content_length = 0 /\ HeaderFits
  /\ headers' = Append(headers, [content |-> 0, padding |-> 0])
  /\ iovec_list' = Append(iovec_list,
       [kind |-> "header", pair |-> 0, from |-> 0, len |-> FCGI_HEADER_LEN])
  /\ number_to_write' = number_to_write + FCGI_HEADER_LEN
  /\ remaining_byte_count' = remaining_byte_count - FCGI_HEADER_LEN
  /\ remaining_iovec_count' = remaining_iovec_count - 1
  /\ index' = DetermineIndex
  /\ encode_pc' = "place"
  /\ UNCHANGED <<encodeInput, pair_iter, offset, previous_content_length,
                 nv_pair_bytes_placed, flagVars>>

NoRecord ==
  /\ encode_pc = "records" /\ RemainingToPlace > 0 /\ ~padding_limit_reached
  /\ previous_content_length = 0 /\ ~HeaderFits
  /\ incomplete_nv_write' = TRUE
  /\ encode_pc' = "next"
  /\ UNCHANGED <<encodeInput, pair_iter, offset, remainingVars, listVars,
                 nv_pair_bytes_placed, index, failed, padding_limit_reached>>

RecordsEnd ==
  /\ encode_pc = "records" /\ (RemainingToPlace = 0 \/ padding_limit_reached)
  /\ encode_pc' = "next"
  /\ UNCHANGED <<encodeInput, pair_iter, offset, remainingVars, listVars,
                 nv_pair_bytes_placed, index, flagVars>>

-----------------------------------------------------------------------------
(* One of the three buffers, as far as the record and the limits allow.    *)

Least(S) == CHOOSE n \in S : \A m \in S : n <= m

LocalRemaining == Size(Pair, index) - (nv_pair_bytes_placed - Start(Pair, index))

LocalNumberToPlace ==
  Least({LocalRemaining, RemainingToPlace, remaining_byte_count,
         RecordMax - previous_content_length})

\* An empty name or value takes no struct iovec.
Places == index = 0 \/ LocalNumberToPlace > 0

Place ==
  /\ encode_pc = "place" /\ index < 3
  /\ LET n == LocalNumberToPlace
         iovecs == remaining_iovec_count - (IF Places THEN 1 ELSE 0)
         length == previous_content_length + n
         limited == iovecs = 0 \/ remaining_byte_count = n
     IN  /\ iovec_list' = IF Places
              THEN Append(iovec_list, [kind |-> "content", pair |-> pair_iter,
                                       from |-> nv_pair_bytes_placed, len |-> n])
              ELSE iovec_list
         /\ remaining_iovec_count' = iovecs
         /\ remaining_byte_count' = remaining_byte_count - n
         /\ nv_pair_bytes_placed' = nv_pair_bytes_placed + n
         /\ number_to_write' = number_to_write + n
         /\ headers' = [headers EXCEPT ![Len(headers)].content = length]
         /\ padding_limit_reached' = limited
         /\ incomplete_nv_write' =
              (limited /\ nv_pair_bytes_placed + n < TotalLength(Pair))
         /\ previous_content_length' =
              IF length = RecordMax /\ ~limited THEN 0 ELSE length
         /\ IF limited \/ length = RecordMax \/ index = 2
            THEN encode_pc' = "records" /\ index' = 3
            ELSE encode_pc' = "place" /\ index' = index + 1
  /\ UNCHANGED <<encodeInput, pair_iter, offset, failed>>

-----------------------------------------------------------------------------
(* The end of a pair, and of the call.                                     *)

\* Mutant of NextPair: the offset of the first pair is applied to all.
NextPairKeepsOffset ==
  /\ encode_pc = "next"
  /\ pair_iter' = IF incomplete_nv_write THEN pair_iter ELSE pair_iter + 1
  /\ encode_pc' = IF incomplete_nv_write THEN "pad" ELSE "pairs"
  /\ UNCHANGED <<encodeInput, offset, remainingVars, listVars,
                 nv_pair_bytes_placed, index, flagVars>>

NextPair ==
  /\ encode_pc = "next"
  /\ offset' = 0
  /\ pair_iter' = IF incomplete_nv_write THEN pair_iter ELSE pair_iter + 1
  /\ encode_pc' = IF incomplete_nv_write THEN "pad" ELSE "pairs"
  /\ UNCHANGED <<encodeInput, remainingVars, listVars, nv_pair_bytes_placed,
                 index, flagVars>>

Pad ==
  /\ encode_pc = "pad"
  /\ LET p == Padding(previous_content_length)
     IN  IF p > 0
         THEN /\ iovec_list' = Append(iovec_list,
                   [kind |-> "padding", pair |-> 0, from |-> 0, len |-> p])
              /\ headers' = [headers EXCEPT ![Len(headers)].padding = p]
              /\ number_to_write' = number_to_write + p
         ELSE UNCHANGED <<iovec_list, headers, number_to_write>>
  /\ encode_pc' = "returned"
  /\ UNCHANGED <<encodeInput, pair_iter, offset, remainingVars,
                 previous_content_length, nv_pair_bytes_placed, index, flagVars>>

\* std::get<6> and std::get<5> of the result.
Returned == [pair |-> pair_iter,
             offset |-> IF incomplete_nv_write THEN nv_pair_bytes_placed ELSE 0]

EncodeNVPairSingleRecordFailure ==
  \/ failed
  \/ Len(headers) # 1
  \/ Returned.offset # 0
  \/ Returned.pair # End

\* The caller writes the list and calls again with what was returned.
CallAgain ==
  /\ encode_pc = "returned" /\ ~failed /\ Returned.pair # End
  /\ Enter(Returned.pair, Returned.offset)

EncodeInit ==
  /\ pairs \in PairLists /\ limit \in Limits
  /\ begin = [pair |-> 1, offset |-> 0]
  /\ pair_iter = 1 /\ offset = 0
  /\ remaining_iovec_count = Reserve(limit).iovec
  /\ remaining_byte_count = Reserve(limit).bytes
  /\ iovec_list = <<>> /\ headers = <<>>
  /\ number_to_write = 0 /\ previous_content_length = 0
  /\ nv_pair_bytes_placed = 0 /\ index = 3
  /\ failed = FALSE /\ incomplete_nv_write = FALSE
  /\ padding_limit_reached = FALSE
  /\ encode_pc = IF pairs = <<>> THEN "returned" ELSE "pairs"

EncodeNext ==
  \/ LoopEnds \/ StartPair \/ ContinueRecord \/ StartRecord \/ NoRecord
  \/ RecordsEnd \/ Place \/ NextPair \/ Pad \/ CallAgain

EncodeSpec == EncodeInit /\ [][EncodeNext]_encodeVars

-----------------------------------------------------------------------------
(* Properties.                                                             *)

\* The types: the unsigned counts of what remains never wrap below zero, and no
\* record grows past its maximum.
EncodeTypeOK ==
  /\ pair_iter \in 1..End /\ offset \in Nat
  /\ remaining_iovec_count \in Nat /\ remaining_byte_count \in Nat
  /\ previous_content_length \in 0..RecordMax
  /\ index \in 0..3
  /\ encode_pc \in {"pairs", "records", "place", "next", "pad", "returned"}

\* Where a byte is in the encoding of the whole list.
Position(cursor) ==
  Offsets([k \in 1..Len(pairs) |-> TotalLength(pairs[k])])[cursor.pair - 1]
    + cursor.offset

\* The bytes of the kinds in the first i structs of iovec_list, and the headers
\* among them.
BytesOf(kinds, i) ==
  Offsets([k \in 1..Len(iovec_list) |->
             IF iovec_list[k].kind \in kinds THEN iovec_list[k].len ELSE 0])[i]
HeadersAmong(i) ==
  Offsets([k \in 1..Len(iovec_list) |->
             IF iovec_list[k].kind = "header" THEN 1 ELSE 0])[i]

\* What the first h headers state.
StatedContent(h) == Offsets([k \in 1..Len(headers) |-> headers[k].content])[h]
StatedPadding(h) == Offsets([k \in 1..Len(headers) |-> headers[k].padding])[h]

\* The content of the records is the encoding of the list, in order and without
\* a gap or a repetition, from where the call was to begin to where the caller
\* is told to go on, also when the call stops inside a length, a name or a value.
\* A call that fails stops at the start of a pair that has no encoding.
LayoutExact ==
  encode_pc = "returned" =>
    /\ \A i \in 1..Len(iovec_list) :
         iovec_list[i].kind = "content" =>
           Position([pair |-> iovec_list[i].pair, offset |-> iovec_list[i].from])
             = Position(begin) + BytesOf({"content"}, i - 1)
    /\ Position(Returned) = Position(begin) + BytesOf({"content"}, Len(iovec_list))
    /\ failed => /\ Returned.offset = 0
                 /\ TooBig(Pair) \/ Overflows(Pair)

\* No record is empty or longer than its maximum, and all have a total length
\* that is a multiple of eight.
RecordsWhole ==
  encode_pc = "returned" =>
    \A h \in 1..Len(headers) :
      /\ headers[h].content \in 1..RecordMax
      /\ (headers[h].content + headers[h].padding) % FCGI_HEADER_LEN = 0

\* Before a header, and at the end of the list.
RecordEnds(i) ==
  i = Len(iovec_list) \/ (i < Len(iovec_list) /\ iovec_list[i + 1].kind = "header")

\* Each header states what follows it: wherever a record ends, the headers so far
\* have announced the content and the padding that are there.
HeadersExact ==
  encode_pc = "returned" =>
    /\ HeadersAmong(Len(iovec_list)) = Len(headers)
    /\ \A i \in 0..Len(iovec_list) :
         RecordEnds(i) =>
           /\ BytesOf({"content"}, i) = StatedContent(HeadersAmong(i))
           /\ BytesOf({"padding"}, i) = StatedPadding(HeadersAmong(i))

\* At most IOV_MAX structs and at most SSIZE_MAX bytes, padding included.
ListWritable ==
  encode_pc = "returned" =>
    number_to_write <= limit.bytes /\ Len(iovec_list) <= limit.iovec

\* The bytes of the write are counted as they are in the list.
CountExact ==
  encode_pc = "returned" =>
    number_to_write = BytesOf({"header", "content", "padding"}, Len(iovec_list))

\* EncodeNVPairSingleRecordFailure is false exactly when the list returned is
\* one record that holds all that the call was given.
SingleRecordExact ==
  encode_pc = "returned" /\ pairs # <<>> =>
    (~EncodeNVPairSingleRecordFailure <=>
       /\ ~failed
       /\ HeadersAmong(Len(iovec_list)) = 1
       /\ BytesOf({"content"}, Len(iovec_list)) =
            Position([pair |-> End, offset |-> 0]) - Position(begin))

\* What a call of EncodeNameValuePairs returns can be written at once, is a
\* sequence of well-formed records, and holds the encoding of the list from
\* where the call was to begin to where the caller is told to go on; and
\* EncodeNVPairSingleRecordFailure tells whether that is all of it in one record.
EncodeExact ==
  /\ LayoutExact
  /\ RecordsWhole /\ HeadersExact
  /\ ListWritable /\ CountExact
  /\ SingleRecordExact

\* The caller has reached the end of the list or a pair that has no encoding.
EncodeEnded == encode_pc = "returned" /\ (failed \/ Returned.pair = End)
=============================================================================
