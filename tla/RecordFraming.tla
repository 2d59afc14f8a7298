---------------------------- MODULE RecordFraming ----------------------------
(***************************************************************************)
(* RecordStatus::ReadRecords at the level of bytes: records that a peer    *)
(* laid out with PopulateHeader arrive in pieces of any length, are read   *)
(* into a buffer of BufferSize bytes and are put together again, across    *)
(* buffers and across calls.  RecordStatus models what is then done with a *)
(* complete record, and with the content of one that is not complete yet;  *)
(* here a record is its type, identifier and content.                      *)
(***************************************************************************)
EXTENDS FcgiUtilities

CONSTANTS
  Sendings,            \* sequences of [type, id, content, padding] that are sent
  BufferSize           \* kBufferSize

\* A record as the protocol can express it: lengths and identifiers of two bytes.
WireRecord ==
  [type : 0..Byte - 1, id : 0..Byte * Byte - 1, padding : 0..Byte - 1,
   content : {c \in Seq(0..Byte - 1) : Len(c) < Byte * Byte}]

ASSUME FramingAssumption ==
  /\ BufferSize \in Nat \ {0}
  /\ Sendings \subseteq Seq(WireRecord)

VARIABLES
  sent, wire,          \* the records of the peer and their bytes
  position,            \* how many of them were read
  number_bytes_received, number_bytes_processed,
  header_, bytes_received_,
  expected,            \* [type, id, content, padding] as read from the header
  content_,            \* what was kept of the content of the record
  delivered,           \* the records that were completed
  framing_pc

framingInput == <<sent, wire>>
bufferVars == <<number_bytes_received, number_bytes_processed>>
recordVars == <<header_, bytes_received_, expected, content_>>
framingVars == <<framingInput, position, bufferVars, recordVars, delivered, framing_pc>>

-----------------------------------------------------------------------------
(* The peer.                                                               *)

Bytes(r) == PopulateHeader(r.type, r.id, Len(r.content), r.padding)
              \o r.content \o Zeros(r.padding)

-----------------------------------------------------------------------------
(* RecordStatus.                                                           *)

NoHeader == [type |-> 0, id |-> 0, content |-> 0, padding |-> 0]

ExpectedBytes == FCGI_HEADER_LEN + expected.content + expected.padding
IsHeaderComplete == bytes_received_ >= FCGI_HEADER_LEN
IsRecordComplete == bytes_received_ = ExpectedBytes

Remaining == number_bytes_received - number_bytes_processed
AtMost(n) == IF n <= Remaining THEN n ELSE Remaining

\* The next n bytes of read_buffer.
Chunk(n) == SubSeq(wire, position - Remaining + 1, position - Remaining + n)

Consume(n) == /\ bytes_received_' = bytes_received_ + n
              /\ number_bytes_processed' = number_bytes_processed + n

\* A call of SocketRead; what has not arrived yet is read by a later call.
SocketRead(n) ==
  /\ framing_pc = "read"
  /\ n <= BufferSize /\ position + n <= Len(wire)
  /\ position' = position + n
  /\ number_bytes_received' = n /\ number_bytes_processed' = 0
  /\ framing_pc' = "process"
  /\ UNCHANGED <<framingInput, recordVars, delivered>>

HeaderBytes ==
  /\ framing_pc = "process" /\ Remaining > 0 /\ ~IsHeaderComplete
  /\ LET remaining_header == FCGI_HEADER_LEN - bytes_received_
         n == AtMost(remaining_header)
         updated == [i \in 1..FCGI_HEADER_LEN |->
                       IF i \in bytes_received_ + 1..bytes_received_ + n
                       THEN Chunk(n)[i - bytes_received_] ELSE header_[i]]
     IN  /\ header_' = updated
         /\ expected' = IF remaining_header <= Remaining THEN ReadHeader(updated)
                                                         ELSE expected
         /\ Consume(n)
  /\ framing_pc' = "check"
  /\ UNCHANGED <<framingInput, position, number_bytes_received, content_, delivered>>

HeaderAndContent == FCGI_HEADER_LEN + expected.content

ContentBytes ==
  /\ framing_pc = "process" /\ Remaining > 0 /\ IsHeaderComplete
  /\ bytes_received_ < HeaderAndContent
  /\ LET n == AtMost(HeaderAndContent - bytes_received_)
     IN  /\ content_' = content_ \o Chunk(n)
         /\ Consume(n)
  /\ framing_pc' = "check"
  /\ UNCHANGED <<framingInput, position, number_bytes_received, header_, expected,
                 delivered>>

PaddingBytes ==
  /\ framing_pc = "process" /\ Remaining > 0 /\ IsHeaderComplete
  /\ bytes_received_ >= HeaderAndContent
  /\ Consume(AtMost(HeaderAndContent + expected.padding - bytes_received_))
  /\ framing_pc' = "check"
  /\ UNCHANGED <<framingInput, position, number_bytes_received, header_, expected,
                 content_, delivered>>

\* Mutant of ClearRecord: the content of the record is kept.
ClearHeader ==
  /\ header_' = Zeros(FCGI_HEADER_LEN) /\ bytes_received_' = 0
  /\ expected' = NoHeader
  /\ UNCHANGED content_

ClearRecord ==
  /\ header_' = Zeros(FCGI_HEADER_LEN) /\ bytes_received_' = 0
  /\ expected' = NoHeader
  /\ content_' = <<>>

CheckRecord ==
  /\ framing_pc = "check"
  /\ IF IsRecordComplete
     THEN /\ delivered' = Append(delivered,
               [type |-> expected.type, id |-> expected.id,
                content |-> content_])
          /\ ClearRecord
     ELSE UNCHANGED <<recordVars, delivered>>
  /\ framing_pc' = "process"
  /\ UNCHANGED <<framingInput, position, bufferVars>>

\* All of the buffer is processed: read again, now or in the next call.
BufferEnds ==
  /\ framing_pc = "process" /\ Remaining = 0
  /\ framing_pc' = "read"
  /\ UNCHANGED <<framingInput, position, bufferVars, recordVars, delivered>>

FramingInit ==
  /\ sent \in Sendings
  /\ wire = Joined([k \in 1..Len(sent) |-> Bytes(sent[k])])
  /\ position = 0
  /\ number_bytes_received = 0 /\ number_bytes_processed = 0
  /\ header_ = Zeros(FCGI_HEADER_LEN) /\ bytes_received_ = 0
  /\ expected = NoHeader /\ content_ = <<>>
  /\ delivered = <<>>
  /\ framing_pc = "read"

Arrives == \E n \in 1..BufferSize : SocketRead(n)

FramingNext == \/ Arrives
        \/ HeaderBytes \/ ContentBytes \/ PaddingBytes \/ CheckRecord
        \/ BufferEnds

FramingSpec == FramingInit /\ [][FramingNext]_framingVars

-----------------------------------------------------------------------------
(* Properties.                                                             *)

\* The types: no record takes more bytes than its header announces, and none is
\* processed past what was received.
FramingTypeOK ==
  /\ position \in 0..Len(wire)
  /\ number_bytes_received \in 0..BufferSize
  /\ number_bytes_processed \in 0..number_bytes_received
  /\ Len(header_) = FCGI_HEADER_LEN /\ bytes_received_ \in 0..ExpectedBytes
  /\ framing_pc \in {"read", "process", "check"}

AsDelivered(r) == [type |-> r.type, id |-> r.id, content |-> r.content]

\* The number of bytes of the first k records.
RecordBoundary(list, k) == Offsets([j \in 1..Len(list) |-> Len(Bytes(list[j]))])[k]

\* The records that are completed are those that were sent, in order, with their
\* types, identifiers and contents, wherever the bytes were cut, and every byte
\* that was processed belongs to one of them or to the record that is read.
FramingExact ==
  /\ Len(delivered) <= Len(sent)
  /\ \A k \in 1..Len(delivered) : delivered[k] = AsDelivered(sent[k])
  /\ position - Remaining = RecordBoundary(sent, Len(delivered)) + bytes_received_

\* Every record that was sent is completed.
FramingEnded == Len(delivered) = Len(sent)
=============================================================================
