--------------------------- MODULE NameValuePairs ---------------------------
(***************************************************************************)
(* What the interface does with a received sequence of name-value pairs:   *)
(* ExtractBinaryNameValuePairs and its two callers, ProcessFCGI_PARAMS     *)
(* (the environment of a request) and SendGetValuesResult (the answer to a *)
(* management record).                                                     *)
(*                                                                         *)
(* The peer encodes the list source, each length in one byte or in four,   *)
(* and content is the part of the encoding that arrives before the stream  *)
(* ends.  Every sequence of bytes is such a part of some encoding.         *)
(***************************************************************************)
EXTENDS FcgiUtilities, FiniteSets, SequencesExt

CONSTANTS
  Sources,             \* lists of [name, value, wide]
  Callers,             \* which of PARAMS and GET_VALUES are run
  Known,               \* the names FCGI_MAX_CONNS, FCGI_MAX_REQS, FCGI_MPXS_CONNS
  MaxConnections,      \* maximum_connection_count_
  MaxRequests          \* maximum_request_count_per_connection_

Text == {s \in Seq(0..Byte - 1) : Len(s) <= kNameValuePairFourByteLength}

WirePairs == [name : Text, value : Text, wide : SUBSET {"name", "value"}]

INT_MAX == 2147483647

\* The names of the three variables and their values, integers of 32 bits, are
\* short: one record is enough for an answer with all of them.
ASSUME PairsAssumption ==
  /\ Sources \subseteq Seq(WirePairs)
  /\ Callers \subseteq {"PARAMS", "GET_VALUES"}
  /\ Known \in [1..3 -> Seq(0..Byte - 1)]
  /\ \A i \in 1..3 : Len(Known[i]) <= 15
  /\ MaxConnections \in 0..INT_MAX /\ MaxRequests \in 0..INT_MAX
  /\ Byte >= 10

VARIABLES
  source, content,     \* what the peer sent, what arrived
  caller,
  bytes_processed,
  lengths,             \* name_value_lengths
  list,                \* result, then name_value_pair_list or get_value_pairs
  current, next,       \* the iterators of ProcessFCGI_PARAMS
  environment_map,
  answer,              \* the record that SendGetValuesResult sends
  pairs_pc

decodeVars == <<bytes_processed, lengths>>
pairsInput == <<source, content, caller>>
pairsVars == <<pairsInput, decodeVars, list, current, next, environment_map, answer, pairs_pc>>

-----------------------------------------------------------------------------
(* The peer: a list and the number of bytes of it that arrive.             *)

\* A pair says which of its short lengths the peer writes with four bytes.
WireLength(length, wide) ==
  IF wide THEN EncodeFourByteLength(length) ELSE EncodeLength(length)

WirePair(pair) ==
  WireLength(Len(pair.name), "name" \in pair.wide)
    \o WireLength(Len(pair.value), "value" \in pair.wide)
    \o pair.name \o pair.value

WireParts(pairs) == [k \in 1..Len(pairs) |-> WirePair(pairs[k])]

\* The number of bytes of the first k pairs.
PairBoundary(pairs, k) == Offsets(PartLengths(WireParts(pairs)))[k]

Wire(pairs) == Joined(WireParts(pairs))

NamesAndValues(pairs) ==
  [k \in 1..Len(pairs) |-> [name |-> pairs[k].name, value |-> pairs[k].value]]

PairsInit ==
  /\ source \in Sources
  /\ \E cut \in 0..Len(Wire(source)) : content = SubSeq(Wire(source), 1, cut)
  /\ caller \in Callers
  /\ bytes_processed = 0 /\ lengths = <<>>
  /\ list = <<>> /\ current = 0 /\ next = 0
  /\ environment_map = <<>>
  /\ answer = <<>>
  /\ pairs_pc = IF caller = "PARAMS" /\ content = <<>> THEN "accepted" ELSE "extract"

-----------------------------------------------------------------------------
(* ExtractBinaryNameValuePairs.                                            *)

BytesLeft == Len(content) - bytes_processed
NextByte == content[bytes_processed + 1]

\* Mutant of Width: the least byte with the leading bit set takes one byte.
WidthAboveHalf == IF NextByte > Half THEN 4 ELSE 1

\* The leading bit of a length tells that it takes four bytes.
Width == IF NextByte >= Half THEN 4 ELSE 1

ErrorResult == /\ list' = <<>>
               /\ pairs_pc' = "list"

ReturnList ==
  /\ pairs_pc = "extract" /\ lengths = <<>> /\ BytesLeft = 0
  /\ pairs_pc' = "list"
  /\ UNCHANGED <<pairsInput, decodeVars, list, current, next, environment_map,
                 answer>>

\* The name's length, then the value's: each of one byte or of four.
ExtractLength ==
  /\ pairs_pc = "extract" /\ Len(lengths) < 2
  /\ lengths # <<>> \/ BytesLeft > 0
  /\ IF BytesLeft = 0 \/ BytesLeft < Width
     THEN ErrorResult /\ UNCHANGED decodeVars
     ELSE /\ lengths' = Append(lengths,
               IF Width = 4
               THEN ExtractFourByteLength(SubSeq(content, bytes_processed + 1,
                                                 bytes_processed + 4))
               ELSE NextByte)
          /\ bytes_processed' = bytes_processed + Width
          /\ UNCHANGED <<list, pairs_pc>>
  /\ UNCHANGED <<pairsInput, current, next, environment_map, answer>>

Taken(from, count) == SubSeq(content, from + 1, from + count)

ExtractData ==
  /\ pairs_pc = "extract" /\ Len(lengths) = 2
  /\ IF lengths[1] + lengths[2] > BytesLeft
     THEN ErrorResult /\ UNCHANGED decodeVars
     ELSE /\ list' = Append(list,
               [name  |-> Taken(bytes_processed, lengths[1]),
                value |-> Taken(bytes_processed + lengths[1], lengths[2])])
          /\ bytes_processed' = bytes_processed + lengths[1] + lengths[2]
          /\ lengths' = <<>>
          /\ UNCHANGED pairs_pc
  /\ UNCHANGED <<pairsInput, current, next, environment_map, answer>>

-----------------------------------------------------------------------------
(* std::sort with NameLessThan leaves equal names in any order.            *)

LessThan(a, b) ==
  \E k \in 0..Len(a) :
    /\ k < Len(b) /\ SubSeq(a, 1, k) = SubSeq(b, 1, k)
    /\ k = Len(a) \/ a[k + 1] < b[k + 1]

\* std::sort: the order of equal names is not specified.
Sorted(pairs) ==
  LET n == Len(pairs)
      orders == {o \in [1..n -> 1..n] : \A i, j \in 1..n : o[i] = o[j] => i = j}
  IN  {s \in {[i \in 1..n |-> pairs[o[i]]] : o \in orders} :
         \A i \in 1..n - 1 : ~LessThan(s[i + 1].name, s[i].name)}

-----------------------------------------------------------------------------
(* ProcessFCGI_PARAMS.                                                     *)

Emplaced(map, pair) ==
  IF pair.name \in DOMAIN map THEN map
  ELSE [n \in DOMAIN map \cup {pair.name} |->
          IF n = pair.name THEN pair.value ELSE map[n]]

ProcessParams ==
  /\ pairs_pc = "list" /\ caller = "PARAMS"
  /\ IF list = <<>>
     THEN pairs_pc' = "rejected" /\ UNCHANGED <<list, current, next>>
     ELSE /\ list' \in Sorted(list)
          /\ current' = 1 /\ next' = 2
          /\ pairs_pc' = "scan"
  /\ UNCHANGED <<pairsInput, decodeVars, environment_map, answer>>

\* Mutant of ScanNext: the first of several definitions wins.
ScanNextFirstWins ==
  /\ pairs_pc = "scan" /\ next <= Len(list)
  /\ IF list[current].name = list[next].name
     THEN next' = next + 1 /\ UNCHANGED <<current, environment_map, pairs_pc>>
     ELSE /\ environment_map' = Emplaced(environment_map, list[current])
          /\ current' = next /\ next' = next + 1
          /\ UNCHANGED pairs_pc
  /\ UNCHANGED <<pairsInput, decodeVars, list, answer>>

ScanNext ==
  /\ pairs_pc = "scan" /\ next <= Len(list)
  /\ IF list[current].name = list[next].name
     THEN IF list[current].value = list[next].value
          THEN next' = next + 1 /\ UNCHANGED <<current, environment_map, pairs_pc>>
          ELSE pairs_pc' = "rejected" /\ UNCHANGED <<current, next, environment_map>>
     ELSE /\ environment_map' = Emplaced(environment_map, list[current])
          /\ current' = next /\ next' = next + 1
          /\ UNCHANGED pairs_pc
  /\ UNCHANGED <<pairsInput, decodeVars, list, answer>>

ScanEnds ==
  /\ pairs_pc = "scan" /\ next > Len(list)
  /\ environment_map' = Emplaced(environment_map, list[current])
  /\ pairs_pc' = "accepted"
  /\ UNCHANGED <<pairsInput, decodeVars, list, current, next, answer>>

-----------------------------------------------------------------------------
(* SendGetValuesResult, whose record SendRecord writes.                    *)

GET_VALUES_RESULT == 10

\* std::lower_bound on the sorted list, and the test of what it finds.
Requested(pairs, name) ==
  \E k \in 1..Len(pairs) :
    /\ pairs[k].name = name
    /\ \A i \in 1..k - 1 : LessThan(pairs[i].name, name)

KnownValue(i) ==
  CASE i = 1 -> ToUnsignedCharacterVector(MaxConnections)
    [] i = 2 -> ToUnsignedCharacterVector(MaxRequests)
    [] i = 3 -> ToUnsignedCharacterVector(IF MaxRequests > 1 THEN 1 ELSE 0)

KnownPair(i) == [name |-> Known[i], value |-> KnownValue(i)]

\* The encodings of the variables that are in chosen.
ResultPair(chosen, i) == IF i \in chosen THEN EncodePair(KnownPair(i)) ELSE <<>>
ResultPairs(chosen) ==
  ResultPair(chosen, 1) \o ResultPair(chosen, 2) \o ResultPair(chosen, 3)

\* Mutant of PaddedRecord: the padding is counted as content.
PaddedRecordUnsplit(type, bytes) ==
  PopulateHeader(type, 0, Len(bytes) + Padding(Len(bytes)), 0)
    \o bytes \o Zeros(Padding(Len(bytes)))

PaddedRecord(type, bytes) ==
  PopulateHeader(type, 0, Len(bytes), Padding(Len(bytes)))
    \o bytes \o Zeros(Padding(Len(bytes)))

SendGetValuesResult ==
  /\ pairs_pc = "list" /\ caller = "GET_VALUES"
  /\ list' \in Sorted(list)
  /\ LET chosen == {i \in 1..3 : Requested(list', Known[i])}
     IN  answer' = PaddedRecord(GET_VALUES_RESULT, ResultPairs(chosen))
  /\ pairs_pc' = "answered"
  /\ UNCHANGED <<pairsInput, decodeVars, current, next, environment_map>>

PairsNext ==
  \/ ReturnList \/ ExtractLength \/ ExtractData
  \/ ProcessParams \/ ScanNext \/ ScanEnds
  \/ SendGetValuesResult

PairsSpec == PairsInit /\ [][PairsNext]_pairsVars

-----------------------------------------------------------------------------
(* Properties.                                                             *)

\* The types: nothing is read past the content (bytes_processed), and the two
\* iterators of ProcessFCGI_PARAMS stay in the list or at its end.
PairsTypeOK ==
  /\ bytes_processed \in 0..Len(content)
  /\ lengths \in Seq(Nat) /\ Len(lengths) <= 2
  /\ \A k \in 1..Len(list) : \A b \in ToSet(list[k].name) : b \in 0..Byte - 1
  /\ current \in 0..Len(list) /\ next \in 0..Len(list) + 1
  /\ pairs_pc \in {"extract", "list", "scan", "accepted", "rejected", "answered"}

\* The list was made an environment, refused or answered.
PairsEnded == pairs_pc \in {"accepted", "rejected", "answered"}

\* The numbers of pairs after which the content may have ended.
Arrived == {k \in 0..Len(source) : PairBoundary(source, k) = Len(content)}

\* The pairs that a reader of the format finds in what arrived: all of them if
\* it ends between two pairs, none if it ends inside a pair.
Expected ==
  IF Arrived = {} THEN <<>>
  ELSE NamesAndValues(SubSeq(source, 1, CHOOSE k \in Arrived : TRUE))

\* ExtractBinaryNameValuePairs returns the pairs that were encoded, whichever
\* form their lengths have, and returns none of them when the content ends
\* anywhere inside a length, a name or a value.
ExtractExact == pairs_pc = "list" => list = Expected

\* ProcessFCGI_PARAMS accepts exactly the complete lists that give no name two
\* values, and then the environment holds every pair of the list and no other.
EnvironmentExact ==
  LET pairs == ToSet(Expected)
      conflict == \E p, q \in pairs : p.name = q.name /\ p.value # q.value
  IN  /\ pairs_pc = "rejected" => content # <<>> /\ (pairs = {} \/ conflict)
      /\ pairs_pc = "accepted" =>
           /\ pairs = {} => content = <<>>
           /\ ~conflict
           /\ pairs = {[name |-> n, value |-> environment_map[n]] :
                         n \in DOMAIN environment_map}

\* The record of SendGetValuesResult ends where its header says, on a multiple
\* of eight bytes, and a reader of its content finds each known name that the
\* peer asked for once, with the decimal value, and nothing else.
AnswerExact ==
  pairs_pc = "answered" =>
    LET header == ReadHeader(answer)
        asked == {p.name : p \in ToSet(Expected)}
    IN  /\ header.type = GET_VALUES_RESULT /\ header.id = 0
        /\ Len(answer) = FCGI_HEADER_LEN + header.content + header.padding
        /\ Len(answer) % FCGI_HEADER_LEN = 0
        /\ SubSeq(answer, FCGI_HEADER_LEN + 1, FCGI_HEADER_LEN + header.content)
             = ResultPairs({i \in 1..3 : Known[i] \in asked})
=============================================================================
