---------------------------- MODULE ReceiveProofs ----------------------------
(***************************************************************************)
(* The reading side of the byte level, for every number of values of a     *)
(* byte and everything that a peer may send.                               *)
(*                                                                         *)
(* RecordFraming: the records that are completed are those that were sent, *)
(* wherever their bytes are cut.                                           *)
(*                                                                         *)
(* NameValuePairs: the pairs that are extracted are those that were        *)
(* encoded, the environment of a request holds them, and the answer to     *)
(* FCGI_GET_VALUES is one record with the variables that were asked for.   *)
(***************************************************************************)
EXTENDS RecordFraming, NameValuePairs, FcgiUtilitiesProofs, FiniteSetTheorems

-----------------------------------------------------------------------------
(* The bytes of a record.                                                  *)

ByteValue == 0..Byte - 1

LEMMA ZerosType ==
  ASSUME NEW n \in Nat
  PROVE  Zeros(n) \in Seq(ByteValue) /\ Len(Zeros(n)) = n
<1>1. 0 \in ByteValue
  BY ByteFacts DEF ByteValue
<1>2. Zeros(n) \in [1..n -> ByteValue]
  BY <1>1 DEF Zeros
<1>. QED
  BY <1>2 DEF Zeros

\* Two and three sequences one after the other.
LEMMA TwoParts ==
  ASSUME NEW S, NEW a \in Seq(S), NEW b \in Seq(S)
  PROVE  /\ a \o b \in Seq(S)
         /\ Len(a \o b) = Len(a) + Len(b)
         /\ \A j \in 1..Len(a) : (a \o b)[j] = a[j]
         /\ \A j \in 1..Len(b) : (a \o b)[Len(a) + j] = b[j]
OBVIOUS

LEMMA ThreeParts ==
  ASSUME NEW S, NEW a \in Seq(S), NEW b \in Seq(S), NEW c \in Seq(S)
  PROVE  /\ a \o b \o c \in Seq(S)
         /\ Len(a \o b \o c) = Len(a) + Len(b) + Len(c)
         /\ \A j \in 1..Len(a) : (a \o b \o c)[j] = a[j]
         /\ \A j \in 1..Len(b) : (a \o b \o c)[Len(a) + j] = b[j]
<1>. DEFINE d == a \o b
<1>1. /\ d \in Seq(S) /\ Len(d) = Len(a) + Len(b)
      /\ \A j \in 1..Len(a) : d[j] = a[j]
      /\ \A j \in 1..Len(b) : d[Len(a) + j] = b[j]
  BY TwoParts
<1>. HIDE DEF d
<1>2. /\ d \o c \in Seq(S) /\ Len(d \o c) = Len(d) + Len(c)
      /\ \A j \in 1..Len(d) : (d \o c)[j] = d[j]
  <2>1. d \in Seq(S)
    BY <1>1
  <2>. QED
    BY <2>1, TwoParts
<1>3. Len(a) \in Nat /\ Len(b) \in Nat
  OBVIOUS
<1>4. /\ \A j \in 1..Len(a) : j \in 1..Len(d)
      /\ \A j \in 1..Len(b) : Len(a) + j \in 1..Len(d)
  BY <1>1, <1>3
<1>. DEFINE e == d \o c
<1>. HIDE DEF e
<1>5. /\ \A j \in 1..Len(a) : e[j] = a[j]
      /\ \A j \in 1..Len(b) : e[Len(a) + j] = b[j]
  BY <1>1, <1>2, <1>4 DEF e
<1>. QED
  BY <1>1, <1>2, <1>5 DEF d, e

\* A record is its header, its content and its padding; a complete header is read
\* as it was written.
LEMMA RecordBytes ==
  ASSUME NEW r \in WireRecord
  PROVE  /\ r.content \in Seq(ByteValue) /\ Len(r.content) \in Nat /\ r.padding \in Nat
         /\ Bytes(r) \in Seq(ByteValue)
         /\ Len(Bytes(r)) = 8 + Len(r.content) + r.padding
         /\ \A j \in 1..Len(r.content) : Bytes(r)[8 + j] = r.content[j]
         /\ \A h : (\A j \in 1..8 : h[j] = Bytes(r)[j]) =>
              ReadHeader(h) = [type |-> r.type, id |-> r.id,
                               content |-> Len(r.content), padding |-> r.padding]
<1>. DEFINE c == r.content
            header == PopulateHeader(r.type, r.id, Len(c), r.padding)
<1>1. /\ Byte \in Nat /\ Byte >= 2 /\ Byte * Byte \in Nat
  BY ByteFacts, LengthFacts
<1>2. /\ c \in Seq(ByteValue) /\ Len(c) \in Nat /\ Len(c) < Byte * Byte
      /\ r.padding \in ByteValue /\ r.type \in ByteValue
      /\ r.id \in 0..Byte * Byte - 1
  BY DEF WireRecord, ByteValue
<1>. HIDE DEF c
<1>3. Len(c) \in 0..Byte * Byte - 1 /\ r.padding \in Nat
  BY <1>1, <1>2 DEF ByteValue
<1>4. /\ HighByte(r.id) \in ByteValue /\ LowByte(r.id) \in ByteValue
      /\ HighByte(Len(c)) \in ByteValue /\ LowByte(Len(c)) \in ByteValue
  <2>1. \A n \in 0..Byte * Byte - 1 : n \in Nat /\ n < Byte * Byte
    <3>. DEFINE m == Byte * Byte
    <3>. HIDE DEF m
    <3>. QED
      BY <1>1 DEF m
  <2>. QED
    BY <1>2, <1>3, <2>1, TwoBytes DEF ByteValue
<1>5. header \in Seq(ByteValue) /\ Len(header) = 8
  <2>1. 1 \in ByteValue /\ 0 \in ByteValue
    BY <1>1 DEF ByteValue
  <2>. QED
    BY <1>2, <1>4, <2>1 DEF PopulateHeader
<1>6. Zeros(r.padding) \in Seq(ByteValue) /\ Len(Zeros(r.padding)) = r.padding
  BY <1>3, ZerosType
<1>7. Bytes(r) = header \o c \o Zeros(r.padding)
  BY DEF Bytes, c
<1>8. ReadHeader(header) = [type |-> r.type, id |-> r.id, content |-> Len(c),
                            padding |-> r.padding]
  BY <1>2, <1>3, HeaderReadBack
<1>. HIDE DEF header
<1>9. /\ Bytes(r) \in Seq(ByteValue)
      /\ Len(Bytes(r)) = 8 + Len(c) + r.padding
      /\ \A j \in 1..8 : Bytes(r)[j] = header[j]
      /\ \A j \in 1..Len(c) : Bytes(r)[8 + j] = c[j]
  <2>. DEFINE z == Zeros(r.padding)
              all == header \o c \o z
  <2>1. header \in Seq(ByteValue) /\ c \in Seq(ByteValue) /\ z \in Seq(ByteValue)
    BY <1>2, <1>5, <1>6
  <2>. HIDE DEF z
  <2>2. /\ all \in Seq(ByteValue)
        /\ Len(all) = Len(header) + Len(c) + Len(z)
        /\ \A j \in 1..Len(header) : all[j] = header[j]
        /\ \A j \in 1..Len(c) : all[Len(header) + j] = c[j]
    BY <2>1, ThreeParts
  <2>3. Bytes(r) = all /\ Len(z) = r.padding
    BY <1>6, <1>7 DEF z
  <2>. HIDE DEF all
  <2>. QED
    BY <1>5, <2>2, <2>3
<1>10. ASSUME NEW h, \A j \in 1..8 : h[j] = Bytes(r)[j]
       PROVE  ReadHeader(h) = ReadHeader(header)
  <2>1. \A j \in 1..8 : h[j] = header[j]
    BY <1>9, <1>10
  <2>2. /\ h[2] = header[2] /\ h[3] = header[3] /\ h[4] = header[4]
        /\ h[5] = header[5] /\ h[6] = header[6] /\ h[7] = header[7]
    BY <2>1
  <2>. QED
    BY <2>2 DEF ReadHeader
<1>. QED
  BY <1>2, <1>3, <1>8, <1>9, <1>10 DEF c

-----------------------------------------------------------------------------
(* Where the records are in the stream.                                    *)

RecordParts == [k \in 1..Len(sent) |-> Bytes(sent[k])]
RecordStart(k) == RecordBoundary(sent, k)

LEMMA RecordPositions ==
  ASSUME sent \in Seq(WireRecord), wire = Joined(RecordParts)
  PROVE  /\ Len(sent) \in Nat /\ RecordStart(0) = 0
         /\ \A k \in 0..Len(sent) : RecordStart(k) \in Nat
         /\ \A k \in 1..Len(sent) :
              RecordStart(k) = RecordStart(k - 1) + Len(Bytes(sent[k]))
         /\ wire \in Seq(ByteValue) /\ Len(wire) = RecordStart(Len(sent))
         /\ \A k \in 1..Len(sent) : \A j \in 1..Len(Bytes(sent[k])) :
              wire[RecordStart(k - 1) + j] = Bytes(sent[k])[j]
<1>. DEFINE o == Offsets(PartLengths(RecordParts))
<1>1. Len(sent) \in Nat /\ \A k \in 1..Len(sent) : sent[k] \in WireRecord
  <2>. HIDE DEF WireRecord
  <2>. QED
    OBVIOUS
<1>2. \A k \in 1..Len(sent) : Bytes(sent[k]) \in Seq(ByteValue)
  BY <1>1, RecordBytes
<1>3. /\ RecordParts \in Seq(Seq(ByteValue)) /\ Len(RecordParts) = Len(sent)
      /\ \A k \in 1..Len(sent) : RecordParts[k] = Bytes(sent[k])
  BY <1>1, <1>2 DEF RecordParts
<1>4. PartLengths(RecordParts) = [k \in 1..Len(sent) |-> Len(Bytes(sent[k]))]
  BY <1>3 DEF PartLengths
<1>5. \A k : RecordStart(k) = o[k]
  BY <1>4 DEF RecordStart, RecordBoundary
<1>6. /\ o \in [0..Len(sent) -> Nat] /\ o[0] = 0
      /\ \A k \in 1..Len(sent) : o[k] = o[k - 1] + Len(RecordParts[k])
      /\ Joined(RecordParts) \in Seq(ByteValue)
      /\ Len(Joined(RecordParts)) = o[Len(sent)]
      /\ \A k \in 1..Len(sent) : \A j \in 1..Len(RecordParts[k]) :
           Joined(RecordParts)[o[k - 1] + j] = RecordParts[k][j]
  BY <1>3, JoinedFacts
<1>. HIDE DEF o
<1>. QED
  BY <1>1, <1>3, <1>5, <1>6

-----------------------------------------------------------------------------
(* The inductive invariant of RecordFraming.                               *)

DeliveredType ==
  [type : ByteValue, id : 0..Byte * Byte - 1, content : Seq(ByteValue)]
HeaderType == [type : Nat, id : Nat, content : Nat, padding : Nat]

FramingData ==
  /\ sent \in Sendings /\ wire = Joined(RecordParts)
  /\ position \in 0..Len(wire)
  /\ number_bytes_received \in 0..BufferSize /\ number_bytes_received <= position
  /\ number_bytes_processed \in 0..number_bytes_received
  /\ header_ \in [1..8 -> ByteValue] /\ bytes_received_ \in Nat
  /\ expected \in HeaderType /\ content_ \in Seq(ByteValue)
  /\ delivered \in Seq(DeliveredType)
  /\ framing_pc \in {"read", "process", "check"}
  /\ framing_pc = "read" => Remaining = 0

\* The record that is read, and how much of its content was kept.
Reading == sent[Len(delivered) + 1]
Kept == IF bytes_received_ <= 8 THEN 0
        ELSE IF bytes_received_ - 8 <= Len(Reading.content)
             THEN bytes_received_ - 8 ELSE Len(Reading.content)

\* A record is complete only between the step that completes it and its check.
Partial ==
  /\ bytes_received_ > 0 => /\ Len(delivered) < Len(sent)
                            /\ bytes_received_ <= Len(Bytes(Reading))
  /\ framing_pc # "check" /\ bytes_received_ > 0 =>
       bytes_received_ < Len(Bytes(Reading))
  /\ framing_pc = "check" => bytes_received_ > 0

\* What was kept of the record that is read is what was sent of it.
RecordInv ==
  /\ \A j \in 1..8 : j <= bytes_received_ => header_[j] = Bytes(Reading)[j]
  /\ expected = IF bytes_received_ < 8 THEN NoHeader
                ELSE [type |-> Reading.type, id |-> Reading.id,
                      content |-> Len(Reading.content), padding |-> Reading.padding]
  /\ bytes_received_ = 0 => content_ = <<>>
  /\ bytes_received_ > 0 =>
       /\ Len(content_) = Kept
       /\ \A j \in 1..Len(content_) : content_[j] = Reading.content[j]

FramingInv == FramingData /\ FramingExact /\ Partial /\ RecordInv

-----------------------------------------------------------------------------
(* What the invariant says of the bytes that are processed next.           *)

LEMMA Slice ==
  ASSUME NEW S, NEW s \in Seq(S), NEW m \in Nat, NEW n \in Nat, m + n <= Len(s)
  PROVE  /\ SubSeq(s, m + 1, m + n) \in Seq(S)
         /\ Len(SubSeq(s, m + 1, m + n)) = n
         /\ \A i \in 1..n : SubSeq(s, m + 1, m + n)[i] = s[m + i]
<1>. DEFINE t == SubSeq(s, m + 1, m + n)
<1>1. \A i \in 1..n : m + i \in 1..Len(s)
  OBVIOUS
<1>2. Len(t) = n
  OBVIOUS
<1>3. \A i \in 1..n : t[i] = s[m + i]
  OBVIOUS
<1>4. t \in Seq(S)
  OBVIOUS
<1>. QED
  BY <1>2, <1>3, <1>4

LEMMA FramingFacts ==
  ASSUME FramingInv
  PROVE  /\ sent \in Seq(WireRecord) /\ Len(sent) \in Nat
         /\ Len(delivered) \in Nat /\ Len(delivered) <= Len(sent)
         /\ bytes_received_ \in Nat /\ Remaining \in Nat /\ Remaining <= position
         /\ position \in Nat /\ position <= RecordStart(Len(sent))
         /\ position - Remaining = RecordStart(Len(delivered)) + bytes_received_
         /\ RecordStart(Len(delivered)) \in Nat
         /\ Len(delivered) < Len(sent) => Reading \in WireRecord
         /\ bytes_received_ > 0 \/ Remaining > 0 => Len(delivered) < Len(sent)
         /\ number_bytes_received \in Nat /\ number_bytes_processed \in Nat
         /\ number_bytes_processed <= number_bytes_received
<1>1. sent \in Seq(WireRecord) /\ wire = Joined(RecordParts)
  BY FramingAssumption DEF FramingInv, FramingData
<1>2. Len(sent) \in Nat /\ Len(delivered) \in Nat /\ Len(delivered) <= Len(sent)
  <2>1. Len(sent) \in Nat
    BY <1>1, RecordPositions
  <2>2. delivered \in Seq(DeliveredType)
    BY DEF FramingInv, FramingData
  <2>. HIDE DEF DeliveredType
  <2>. QED
    BY <2>1, <2>2 DEF FramingInv, FramingExact
<1>3. /\ bytes_received_ \in Nat /\ number_bytes_received \in Nat
      /\ number_bytes_processed \in Nat /\ number_bytes_processed <= number_bytes_received
      /\ number_bytes_received <= position /\ position \in 0..Len(wire)
  BY FramingAssumption DEF FramingInv, FramingData
<1>4. Len(wire) = RecordStart(Len(sent)) /\ RecordStart(Len(sent)) \in Nat
      /\ RecordStart(Len(delivered)) \in Nat
  BY <1>1, <1>2, RecordPositions
<1>5. position \in Nat /\ position <= RecordStart(Len(sent))
      /\ Remaining \in Nat /\ Remaining <= position
  BY <1>3, <1>4 DEF Remaining
<1>6. position - Remaining = RecordStart(Len(delivered)) + bytes_received_
  BY DEF FramingInv, FramingExact, RecordStart
<1>7. Len(delivered) < Len(sent) => Reading \in WireRecord
  <2>1. Len(delivered) < Len(sent) => Len(delivered) + 1 \in 1..Len(sent)
    BY <1>2
  <2>. HIDE DEF WireRecord
  <2>. QED
    BY <1>1, <2>1, ElementOf DEF Reading
<1>8. bytes_received_ > 0 => Len(delivered) < Len(sent)
  BY DEF FramingInv, Partial
<1>9. Remaining > 0 => Len(delivered) < Len(sent)
  <2>1. SUFFICES ASSUME Remaining > 0, Len(delivered) = Len(sent) PROVE FALSE
    BY <1>2
  <2>2. bytes_received_ = 0
    BY <1>2, <1>3, <1>8, <2>1
  <2>. QED
    BY <1>4, <1>5, <1>6, <2>1, <2>2
<1>. QED
  BY <1>1, <1>2, <1>3, <1>4, <1>5, <1>6, <1>7, <1>8, <1>9

\* The next bytes of read_buffer are the next bytes of the record.
LEMMA ChunkBytes ==
  ASSUME FramingInv, NEW n \in Nat, n > 0, n <= Remaining,
         bytes_received_ + n <= Len(Bytes(Reading))
  PROVE  /\ Len(delivered) < Len(sent) /\ Reading \in WireRecord
         /\ Len(Bytes(Reading)) \in Nat
         /\ Chunk(n) \in Seq(ByteValue) /\ Len(Chunk(n)) = n
         /\ \A i \in 1..n : Chunk(n)[i] = Bytes(Reading)[bytes_received_ + i]
<1>. DEFINE k == Len(delivered)
            m == position - Remaining
            b == bytes_received_
<1>1. /\ sent \in Seq(WireRecord) /\ Len(sent) \in Nat /\ k \in Nat
      /\ b \in Nat /\ Remaining \in Nat /\ Remaining <= position /\ position \in Nat
      /\ m = RecordStart(k) + b /\ RecordStart(k) \in Nat
      /\ k < Len(sent) /\ Reading \in WireRecord
  BY FramingFacts
<1>2. Len(Bytes(Reading)) \in Nat
  BY <1>1, RecordBytes
<1>3. wire = Joined(RecordParts) /\ position <= Len(wire) /\ wire \in Seq(ByteValue)
      /\ Len(wire) \in Nat
  <2>1. wire = Joined(RecordParts) /\ position \in 0..Len(wire)
    BY DEF FramingInv, FramingData
  <2>2. wire \in Seq(ByteValue)
    BY <1>1, <2>1, RecordPositions
  <2>. QED
    BY <2>1, <2>2
<1>4. \A j \in 1..Len(Bytes(Reading)) : wire[RecordStart(k) + j] = Bytes(Reading)[j]
  <2>1. k + 1 \in 1..Len(sent) /\ k + 1 - 1 = k
    BY <1>1
  <2>2. \A j \in 1..Len(Bytes(sent[k + 1])) :
          wire[RecordStart(k + 1 - 1) + j] = Bytes(sent[k + 1])[j]
    BY <1>1, <1>3, <2>1, RecordPositions
  <2>. QED
    BY <2>1, <2>2 DEF Reading
<1>5. m \in Nat /\ m + n <= Len(wire)
  BY <1>1, <1>3
<1>. HIDE DEF m
<1>6. /\ SubSeq(wire, m + 1, m + n) \in Seq(ByteValue)
      /\ Len(SubSeq(wire, m + 1, m + n)) = n
      /\ \A i \in 1..n : SubSeq(wire, m + 1, m + n)[i] = wire[m + i]
  BY <1>3, <1>5, Slice
<1>7. Chunk(n) = SubSeq(wire, m + 1, m + n)
  BY DEF Chunk, m
<1>8. ASSUME NEW i \in 1..n PROVE wire[m + i] = Bytes(Reading)[b + i]
  <2>1. b + i \in 1..Len(Bytes(Reading)) /\ m + i = RecordStart(k) + (b + i)
    BY <1>1, <1>2
  <2>. QED
    BY <1>4, <2>1
<1>. QED
  BY <1>1, <1>2, <1>6, <1>7, <1>8

-----------------------------------------------------------------------------
(* The steps.                                                              *)

LEMMA FramingInitial ==
  ASSUME FramingInit
  PROVE  FramingInv
<1>1. sent \in Seq(WireRecord) /\ wire = Joined(RecordParts)
  BY FramingAssumption DEF FramingInit, RecordParts
<1>2. RecordStart(0) = 0 /\ Len(wire) \in Nat /\ Len(sent) \in Nat
  BY <1>1, RecordPositions
<1>3. 0 \in ByteValue
  BY ByteFacts DEF ByteValue
<1>4. Zeros(8) \in [1..8 -> ByteValue]
  BY <1>3 DEF Zeros
<1>5. \A S : <<>> \in Seq(S)
  OBVIOUS
<1>6. Len(delivered) = 0 /\ Remaining = 0
  BY DEF FramingInit, Remaining
<1>7. FramingData
  BY <1>1, <1>2, <1>4, <1>5, <1>6, FramingAssumption
     DEF FramingInit, FramingData, HeaderType, NoHeader, FCGI_HEADER_LEN
<1>8. FramingExact
  <2>1. position - Remaining = RecordBoundary(sent, Len(delivered)) + bytes_received_
    BY <1>2, <1>6 DEF FramingInit, RecordStart
  <2>. QED
    BY <1>2, <1>6, <2>1 DEF FramingExact
<1>9. Partial /\ RecordInv
  BY DEF FramingInit, Partial, RecordInv
<1>. QED
  BY <1>7, <1>8, <1>9 DEF FramingInv

\* Some bytes of the record that is read are processed.
LEMMA Advance ==
  ASSUME FramingInv, framing_pc = "process", NEW n \in Nat, n > 0, n <= Remaining,
         bytes_received_ + n <= Len(Bytes(Reading)),
         Consume(n), framing_pc' = "check",
         UNCHANGED <<framingInput, position, number_bytes_received, delivered>>,
         header_' \in [1..8 -> ByteValue], expected' \in HeaderType,
         content_' \in Seq(ByteValue)
  PROVE  /\ FramingData' /\ FramingExact' /\ Partial'
         /\ Reading' = Reading /\ bytes_received_' = bytes_received_ + n
<1>1. /\ bytes_received_ \in Nat /\ Remaining \in Nat /\ position \in Nat
      /\ Len(delivered) < Len(sent) /\ Len(delivered) \in Nat /\ Len(sent) \in Nat
      /\ number_bytes_received \in Nat /\ number_bytes_processed \in Nat
      /\ number_bytes_processed <= number_bytes_received
  BY FramingFacts, SMTT(30)
<1>2. /\ bytes_received_' = bytes_received_ + n
      /\ number_bytes_processed' = number_bytes_processed + n
      /\ sent' = sent /\ wire' = wire /\ position' = position
      /\ number_bytes_received' = number_bytes_received /\ delivered' = delivered
  BY DEF Consume, framingInput
<1>3. RecordParts' = RecordParts /\ Reading' = Reading
  BY <1>2 DEF RecordParts, Reading
<1>4. n <= number_bytes_received - number_bytes_processed
  BY DEF Remaining
<1>5. number_bytes_processed' \in 0..number_bytes_received
  BY <1>1, <1>2, <1>4
<1>6. FramingData'
  BY <1>1, <1>2, <1>3, <1>5 DEF FramingInv, FramingData
<1>7. FramingExact'
  <2>1. position' - Remaining' = (position - Remaining) + n
    BY <1>1, <1>2 DEF Remaining
  <2>2. \A k : RecordBoundary(sent, k)' = RecordBoundary(sent, k)
    BY <1>2 DEF RecordBoundary
  <2>3. position - Remaining = RecordStart(Len(delivered)) + bytes_received_
        /\ RecordStart(Len(delivered)) \in Nat
    BY FramingFacts
  <2>4. position' - Remaining' = RecordStart(Len(delivered)) + bytes_received_'
    <3>. DEFINE start == RecordStart(Len(delivered))
                m == position - Remaining
                m2 == position' - Remaining'
    <3>1. m2 = m + n /\ m = start + bytes_received_ /\ start \in Nat
      BY <2>1, <2>3
    <3>. HIDE DEF start, m, m2
    <3>2. m2 = start + bytes_received_'
      BY <1>1, <1>2, <3>1
    <3>. QED
      BY <3>2 DEF start, m2
  <2>5. RecordBoundary(sent', Len(delivered')) = RecordStart(Len(delivered))
    BY <1>2 DEF RecordStart
  <2>. QED
    BY <1>2, <2>4, <2>5 DEF FramingInv, FramingExact, AsDelivered
<1>8. Partial'
  BY <1>1, <1>2, <1>3 DEF Partial
<1>. QED
  BY <1>2, <1>3, <1>6, <1>7, <1>8

\* What is processed at once ends where the part of the record or the buffer ends.
LEMMA AtMostFacts ==
  ASSUME FramingInv, NEW m \in Nat, m > 0, Remaining > 0
  PROVE  /\ AtMost(m) \in Nat /\ AtMost(m) > 0 /\ AtMost(m) <= Remaining /\ AtMost(m) <= m
         /\ m <= Remaining => AtMost(m) = m
         /\ ~(m <= Remaining) => AtMost(m) < m
BY FramingFacts DEF AtMost

\* The record that is read, once there are bytes for it.
LEMMA ReadingFacts ==
  ASSUME FramingInv, bytes_received_ > 0 \/ Remaining > 0
  PROVE  /\ Reading \in WireRecord
         /\ Reading.content \in Seq(ByteValue) /\ Len(Reading.content) \in Nat
         /\ Reading.padding \in Nat
         /\ Bytes(Reading) \in Seq(ByteValue)
         /\ Len(Bytes(Reading)) = 8 + Len(Reading.content) + Reading.padding
         /\ \A j \in 1..Len(Reading.content) : Bytes(Reading)[8 + j] = Reading.content[j]
         /\ \A h : (\A j \in 1..8 : h[j] = Bytes(Reading)[j]) =>
              ReadHeader(h) = [type |-> Reading.type, id |-> Reading.id,
                               content |-> Len(Reading.content),
                               padding |-> Reading.padding]
<1>1. Reading \in WireRecord
  BY FramingFacts
<1>. QED
  BY <1>1, RecordBytes

LEMMA HeaderBytesStep ==
  ASSUME FramingInv, HeaderBytes
  PROVE  FramingInv'
<1>. DEFINE b == bytes_received_
            left == 8 - b
            n == AtMost(left)
            updated == [i \in 1..8 |-> IF i \in b + 1..b + n
                                       THEN Chunk(n)[i - b] ELSE header_[i]]
<1>1. /\ framing_pc = "process" /\ Remaining > 0 /\ ~(b >= 8)
      /\ header_' = updated
      /\ expected' = IF left <= Remaining THEN ReadHeader(updated) ELSE expected
      /\ Consume(n) /\ framing_pc' = "check"
      /\ UNCHANGED <<framingInput, position, number_bytes_received, content_, delivered>>
  BY DEF HeaderBytes, IsHeaderComplete, FCGI_HEADER_LEN
<1>2. b \in Nat /\ Remaining \in Nat /\ left \in Nat /\ left > 0
  <2>1. b \in Nat /\ Remaining \in Nat
    BY FramingFacts
  <2>. QED
    BY <1>1, <2>1
<1>. HIDE DEF left
<1>3. /\ n \in Nat /\ n > 0 /\ n <= Remaining /\ n <= left
      /\ left <= Remaining => n = left
      /\ ~(left <= Remaining) => n < left
  BY <1>1, <1>2, AtMostFacts
<1>. HIDE DEF n
<1>4. /\ Len(Reading.content) \in Nat /\ Reading.padding \in Nat
      /\ Len(Bytes(Reading)) = 8 + Len(Reading.content) + Reading.padding
      /\ Reading \in WireRecord
  BY <1>1, ReadingFacts
<1>5. b + n <= 8 /\ b + n <= Len(Bytes(Reading))
      /\ (left <= Remaining <=> b + n = 8)
  BY <1>2, <1>3, <1>4 DEF left
<1>6. /\ Chunk(n) \in Seq(ByteValue) /\ Len(Chunk(n)) = n
      /\ \A i \in 1..n : Chunk(n)[i] = Bytes(Reading)[b + i]
  BY <1>3, <1>5, ChunkBytes
<1>7. ASSUME NEW i \in 1..8
      PROVE  updated[i] \in ByteValue /\ (i <= b + n => updated[i] = Bytes(Reading)[i])
  <2>1. CASE i \in b + 1..b + n
    <3>1. i - b \in 1..n /\ b + (i - b) = i
      BY <1>2, <1>3, <2>1
    <3>2. updated[i] = Chunk(n)[i - b]
      BY <2>1
    <3>3. Chunk(n)[i - b] \in ByteValue
      BY <1>6, <3>1, ElementOf
    <3>. QED
      BY <1>6, <3>1, <3>2, <3>3
  <2>2. CASE i \notin b + 1..b + n
    <3>1. updated[i] = header_[i] /\ header_[i] \in ByteValue
      BY <2>2 DEF FramingInv, FramingData
    <3>2. i <= b + n => i <= b
      BY <1>2, <1>3, <2>2
    <3>. QED
      BY <3>1, <3>2 DEF FramingInv, RecordInv
  <2>. QED
    BY <2>1, <2>2
<1>8. updated \in [1..8 -> ByteValue]
  BY <1>7
<1>. HIDE DEF updated
<1>9. b + n = 8 => ReadHeader(updated) =
        [type |-> Reading.type, id |-> Reading.id, content |-> Len(Reading.content),
         padding |-> Reading.padding]
  <2>1. b + n = 8 => \A j \in 1..8 : updated[j] = Bytes(Reading)[j]
    BY <1>7
  <2>. QED
    BY <1>1, <2>1, ReadingFacts
<1>10. expected = NoHeader /\ expected \in HeaderType
  BY <1>1, <1>2 DEF FramingInv, FramingData, RecordInv
<1>11. expected' = IF b + n < 8 THEN NoHeader
                   ELSE [type |-> Reading.type, id |-> Reading.id,
                         content |-> Len(Reading.content), padding |-> Reading.padding]
  BY <1>1, <1>2, <1>3, <1>5, <1>9, <1>10
<1>12. expected' \in HeaderType
  <2>1. Reading.type \in Nat /\ Reading.id \in Nat
    BY <1>4, LengthFacts, ByteFacts DEF WireRecord
  <2>. QED
    BY <1>4, <1>10, <1>11, <2>1 DEF HeaderType
<1>13. content_' = content_ /\ content_ \in Seq(ByteValue)
  BY <1>1 DEF FramingInv, FramingData
<1>14. /\ FramingData' /\ FramingExact' /\ Partial'
       /\ Reading' = Reading /\ bytes_received_' = b + n
  BY <1>1, <1>3, <1>5, <1>8, <1>12, <1>13, Advance
<1>15. RecordInv'
  <2>1. Len(content_) = 0
    BY <1>1, <1>2 DEF FramingInv, RecordInv, Kept
  <2>2. Kept' = 0
    BY <1>5, <1>14 DEF Kept
  <2>3. b + n > 0
    BY <1>2, <1>3
  <2>. QED
    BY <1>1, <1>7, <1>11, <1>13, <1>14, <2>1, <2>2, <2>3 DEF RecordInv
<1>. QED
  BY <1>14, <1>15 DEF FramingInv

\* After the header, what is expected is what the header of the record announces.
LEMMA AfterHeader ==
  ASSUME FramingInv, bytes_received_ >= 8
  PROVE  /\ expected.content = Len(Reading.content)
         /\ expected.padding = Reading.padding
         /\ expected.type = Reading.type /\ expected.id = Reading.id
         /\ ExpectedBytes = Len(Bytes(Reading))
         /\ bytes_received_ <= Len(Bytes(Reading))
         /\ framing_pc = "process" => bytes_received_ < Len(Bytes(Reading))
         /\ Len(content_) = Kept
         /\ \A j \in 1..Len(content_) : content_[j] = Reading.content[j]
<1>1. bytes_received_ \in Nat /\ bytes_received_ > 0 /\ ~(bytes_received_ < 8)
  BY FramingFacts
<1>2. expected = [type |-> Reading.type, id |-> Reading.id,
                  content |-> Len(Reading.content), padding |-> Reading.padding]
  BY <1>1 DEF FramingInv, RecordInv
<1>3. /\ Len(Bytes(Reading)) = 8 + Len(Reading.content) + Reading.padding
  BY <1>1, ReadingFacts
<1>4. ExpectedBytes = Len(Bytes(Reading))
  BY <1>2, <1>3 DEF ExpectedBytes, FCGI_HEADER_LEN
<1>. QED
  BY <1>1, <1>2, <1>4 DEF FramingInv, Partial, RecordInv

LEMMA ContentBytesStep ==
  ASSUME FramingInv, ContentBytes
  PROVE  FramingInv'
<1>. DEFINE b == bytes_received_
            c == Reading.content
            left == 8 + Len(c) - b
            n == AtMost(left)
<1>1. /\ framing_pc = "process" /\ Remaining > 0 /\ b >= 8
      /\ b < 8 + expected.content
      /\ content_' = content_ \o Chunk(AtMost(8 + expected.content - b))
      /\ Consume(AtMost(8 + expected.content - b)) /\ framing_pc' = "check"
      /\ UNCHANGED <<framingInput, position, number_bytes_received, header_, expected,
                     delivered>>
  <2>. DEFINE m == AtMost(HeaderAndContent - b)
  <2>1. /\ framing_pc = "process" /\ Remaining > 0 /\ IsHeaderComplete
        /\ b < HeaderAndContent
        /\ content_' = content_ \o Chunk(m) /\ Consume(m) /\ framing_pc' = "check"
        /\ UNCHANGED <<framingInput, position, number_bytes_received, header_, expected,
                       delivered>>
    BY Zenon DEF ContentBytes
  <2>2. HeaderAndContent = 8 + expected.content /\ (IsHeaderComplete <=> b >= 8)
    BY DEF HeaderAndContent, IsHeaderComplete, FCGI_HEADER_LEN
  <2>3. m = AtMost(8 + expected.content - b)
    <3>1. b \in Nat /\ expected.content \in Nat
      BY DEF FramingInv, FramingData, HeaderType
    <3>2. HeaderAndContent - b = 8 + expected.content - b
      BY <2>2, <3>1
    <3>. QED
      BY <3>2, Zenon
  <2>. HIDE DEF m
  <2>4. content_' = content_ \o Chunk(AtMost(8 + expected.content - b))
        /\ Consume(AtMost(8 + expected.content - b))
    BY <2>1, <2>3, Zenon
  <2>. QED
    BY <2>1, <2>2, <2>4
<1>2. /\ c \in Seq(ByteValue) /\ Len(c) \in Nat /\ Reading.padding \in Nat
      /\ Bytes(Reading) \in Seq(ByteValue)
      /\ Len(Bytes(Reading)) = 8 + Len(c) + Reading.padding
      /\ \A j \in 1..Len(c) : Bytes(Reading)[8 + j] = c[j]
  BY <1>1, ReadingFacts
<1>3. /\ expected.content = Len(c) /\ Len(content_) = Kept
      /\ \A j \in 1..Len(content_) : content_[j] = c[j]
  BY <1>1, AfterHeader
<1>4. b \in Nat /\ Remaining \in Nat
  BY FramingFacts
<1>. HIDE DEF c
<1>5. left \in Nat /\ left > 0
  BY <1>1, <1>2, <1>3, <1>4
<1>6. n \in Nat /\ n > 0 /\ n <= Remaining /\ n <= left
  <2>. HIDE DEF left
  <2>. QED
    BY <1>1, <1>5, AtMostFacts
<1>7. Consume(n) /\ content_' = content_ \o Chunk(n)
  BY <1>1, <1>3
<1>. HIDE DEF n
<1>8. b + n <= 8 + Len(c) /\ b + n <= Len(Bytes(Reading))
  BY <1>2, <1>4, <1>5, <1>6
<1>9. /\ Chunk(n) \in Seq(ByteValue) /\ Len(Chunk(n)) = n
      /\ \A i \in 1..n : Chunk(n)[i] = Bytes(Reading)[b + i]
  BY <1>6, <1>8, ChunkBytes
<1>10. Len(content_) = b - 8 /\ content_ \in Seq(ByteValue)
  BY <1>1, <1>2, <1>3, <1>4 DEF Kept, FramingInv, FramingData, c
<1>11. /\ content_' \in Seq(ByteValue) /\ Len(content_') = b + n - 8
       /\ \A j \in 1..Len(content_) : content_'[j] = content_[j]
       /\ \A i \in 1..n : content_'[b - 8 + i] = Chunk(n)[i]
  <2>. DEFINE d == Chunk(n)
  <2>1. content_' = content_ \o d /\ d \in Seq(ByteValue) /\ Len(d) = n
    BY <1>7, <1>9
  <2>. HIDE DEF d
  <2>2. /\ content_ \o d \in Seq(ByteValue)
        /\ Len(content_ \o d) = Len(content_) + Len(d)
        /\ \A j \in 1..Len(content_) : (content_ \o d)[j] = content_[j]
        /\ \A i \in 1..Len(d) : (content_ \o d)[Len(content_) + i] = d[i]
    <3>1. content_ \in Seq(ByteValue)
      BY <1>10
    <3>2. d \in Seq(ByteValue)
      BY <2>1
    <3>. QED
      BY <3>1, <3>2, TwoParts
  <2>3. Len(content_) + Len(d) = b + n - 8
    BY <1>1, <1>4, <1>6, <1>10, <2>1
  <2>. QED
    BY <1>10, <2>1, <2>2, <2>3 DEF d
<1>12. ASSUME NEW j \in 1..Len(content_') PROVE content_'[j] = c[j]
  <2>1. CASE j <= b - 8
    BY <1>1, <1>3, <1>4, <1>10, <1>11, <2>1
  <2>2. CASE j > b - 8
    <3>1. j \in Nat /\ j <= b + n - 8
      BY <1>11
    <3>2. j - (b - 8) \in 1..n /\ b - 8 + (j - (b - 8)) = j /\ b + (j - (b - 8)) = 8 + j
          /\ j \in 1..Len(c)
      BY <1>2, <1>4, <1>6, <1>8, <2>2, <3>1
    <3>3. content_'[j] = Chunk(n)[j - (b - 8)]
      BY <1>11, <3>2
    <3>4. Chunk(n)[j - (b - 8)] = Bytes(Reading)[8 + j]
      BY <1>9, <3>2
    <3>. QED
      BY <1>2, <3>2, <3>3, <3>4
  <2>3. j \in Nat /\ b - 8 \in Nat
    BY <1>1, <1>4
  <2>. QED
    BY <2>1, <2>2, <2>3
<1>13. /\ header_' = header_ /\ header_ \in [1..8 -> ByteValue]
       /\ expected' = expected /\ expected \in HeaderType
  BY <1>1 DEF FramingInv, FramingData
<1>14. /\ FramingData' /\ FramingExact' /\ Partial'
       /\ Reading' = Reading /\ bytes_received_' = b + n
  BY <1>1, <1>6, <1>7, <1>8, <1>11, <1>13, Advance
<1>15. RecordInv'
  <2>1. Kept' = b + n - 8
    BY <1>1, <1>2, <1>4, <1>6, <1>8, <1>14 DEF Kept, c
  <2>2. \A j \in 1..8 : header_[j] = Bytes(Reading)[j]
    BY <1>1, <1>4, SMTT(30) DEF FramingInv, RecordInv
  <2>3. ~(b < 8) /\ ~(b + n < 8) /\ b + n > 0
    BY <1>1, <1>4, <1>6
  <2>4. expected = [type |-> Reading.type, id |-> Reading.id,
                    content |-> Len(Reading.content), padding |-> Reading.padding]
    BY <2>3 DEF FramingInv, RecordInv
  <2>. QED
    BY <1>11, <1>12, <1>13, <1>14, <2>1, <2>2, <2>3, <2>4 DEF RecordInv, c
<1>. QED
  BY <1>14, <1>15 DEF FramingInv

LEMMA PaddingBytesStep ==
  ASSUME FramingInv, PaddingBytes
  PROVE  FramingInv'
<1>. DEFINE b == bytes_received_
            left == 8 + expected.content + expected.padding - b
            n == AtMost(left)
<1>1. /\ framing_pc = "process" /\ Remaining > 0 /\ b >= 8
      /\ b >= 8 + expected.content
      /\ Consume(n) /\ framing_pc' = "check"
      /\ UNCHANGED <<framingInput, position, number_bytes_received, header_, expected,
                     content_, delivered>>
  BY DEF PaddingBytes, HeaderAndContent, IsHeaderComplete, FCGI_HEADER_LEN
<1>2. /\ Len(Reading.content) \in Nat /\ Reading.padding \in Nat
      /\ Len(Bytes(Reading)) = 8 + Len(Reading.content) + Reading.padding
  BY <1>1, ReadingFacts
<1>3. /\ expected.content = Len(Reading.content) /\ expected.padding = Reading.padding
      /\ b < Len(Bytes(Reading)) /\ Len(content_) = Kept
      /\ \A j \in 1..Len(content_) : content_[j] = Reading.content[j]
  BY <1>1, AfterHeader
<1>4. b \in Nat /\ Remaining \in Nat
  BY FramingFacts
<1>5. left \in Nat /\ left > 0 /\ b + left = Len(Bytes(Reading))
  BY <1>2, <1>3, <1>4, SMTT(30)
<1>. HIDE DEF left
<1>6. n \in Nat /\ n > 0 /\ n <= Remaining /\ n <= left
  BY <1>1, <1>5, AtMostFacts
<1>. HIDE DEF n
<1>7. b + n <= Len(Bytes(Reading))
  BY <1>4, <1>5, <1>6
<1>8. /\ header_' = header_ /\ header_ \in [1..8 -> ByteValue]
      /\ expected' = expected /\ expected \in HeaderType
      /\ content_' = content_ /\ content_ \in Seq(ByteValue)
  BY <1>1 DEF FramingInv, FramingData
<1>9. /\ FramingData' /\ FramingExact' /\ Partial'
      /\ Reading' = Reading /\ bytes_received_' = b + n
  BY <1>1, <1>6, <1>7, <1>8, Advance
<1>10. RecordInv'
  <2>1. Kept = Len(Reading.content)
    BY <1>1, <1>2, <1>3, <1>4 DEF Kept
  <2>2. Kept' = Len(Reading.content)
    <3>1. ~(b + n <= 8) /\ (b + n - 8 <= Len(Reading.content) =>
                              b + n - 8 = Len(Reading.content))
      BY <1>1, <1>2, <1>3, <1>4, <1>6
    <3>2. CASE b + n - 8 <= Len(Reading.content)
      <4>1. Kept' = b + n - 8
        BY <1>2, <1>4, <1>6, <1>9, <3>1, <3>2 DEF Kept
      <4>. QED
        BY <3>1, <3>2, <4>1
    <3>3. CASE ~(b + n - 8 <= Len(Reading.content))
      BY <1>2, <1>4, <1>6, <1>9, <3>1, <3>3 DEF Kept
    <3>. QED
      BY <3>2, <3>3
  <2>3. \A j \in 1..8 : header_[j] = Bytes(Reading)[j]
    BY <1>1, <1>4 DEF FramingInv, RecordInv
  <2>4. ~(b < 8) /\ ~(b + n < 8) /\ b + n > 0
    BY <1>1, <1>4, <1>6
  <2>5. expected = [type |-> Reading.type, id |-> Reading.id,
                    content |-> Len(Reading.content), padding |-> Reading.padding]
    BY <2>4 DEF FramingInv, RecordInv
  <2>. QED
    BY <1>3, <1>8, <1>9, <2>1, <2>2, <2>3, <2>4, <2>5, SMTT(30) DEF RecordInv
<1>. QED
  BY <1>9, <1>10 DEF FramingInv

\* CheckRecord: a record is complete exactly when all its bytes were processed.
LEMMA CompleteRecord ==
  ASSUME FramingInv, bytes_received_ > 0
  PROVE  IsRecordComplete <=> bytes_received_ = Len(Bytes(Reading))
<1>1. bytes_received_ \in Nat
  BY FramingFacts
<1>2. CASE bytes_received_ >= 8
  BY <1>2, AfterHeader DEF IsRecordComplete
<1>3. CASE bytes_received_ < 8
  <2>1. ExpectedBytes = 8
    BY <1>3 DEF FramingInv, RecordInv, ExpectedBytes, NoHeader, FCGI_HEADER_LEN
  <2>2. Len(Bytes(Reading)) = 8 + Len(Reading.content) + Reading.padding
        /\ Len(Reading.content) \in Nat /\ Reading.padding \in Nat
    BY ReadingFacts
  <2>. QED
    BY <1>1, <1>3, <2>1, <2>2 DEF IsRecordComplete
<1>. QED
  BY <1>1, <1>2, <1>3

LEMMA CheckRecordStep ==
  ASSUME FramingInv, CheckRecord
  PROVE  FramingInv'
<1>. DEFINE k == Len(delivered)
            b == bytes_received_
            rec == [type |-> expected.type, id |-> expected.id, content |-> content_]
<1>1. /\ framing_pc = "check" /\ framing_pc' = "process"
      /\ sent' = sent /\ wire' = wire /\ position' = position
      /\ number_bytes_received' = number_bytes_received
      /\ number_bytes_processed' = number_bytes_processed
  BY DEF CheckRecord, framingInput, bufferVars
<1>2. /\ b \in Nat /\ b > 0 /\ k \in Nat /\ k < Len(sent) /\ Len(sent) \in Nat
      /\ position - Remaining = RecordStart(k) + b /\ RecordStart(k) \in Nat
      /\ sent \in Seq(WireRecord) /\ Reading \in WireRecord
  <2>1. b > 0
    BY <1>1 DEF FramingInv, Partial
  <2>. QED
    BY <2>1, FramingFacts
<1>3. /\ Len(Reading.content) \in Nat /\ Reading.padding \in Nat
      /\ Reading.content \in Seq(ByteValue)
      /\ Len(Bytes(Reading)) = 8 + Len(Reading.content) + Reading.padding
      /\ b <= Len(Bytes(Reading))
  <2>1. b <= Len(Bytes(Reading))
    BY <1>2 DEF FramingInv, Partial
  <2>. QED
    BY <1>2, <2>1, ReadingFacts
<1>4. RecordParts' = RecordParts /\ Remaining' = Remaining
      /\ \A j : RecordBoundary(sent, j)' = RecordBoundary(sent, j)
  BY <1>1 DEF RecordParts, Remaining, RecordBoundary
<1>5. CASE ~IsRecordComplete
  <2>1. UNCHANGED <<recordVars, delivered>>
    BY <1>5 DEF CheckRecord
  <2>2. header_' = header_ /\ b' = b /\ expected' = expected /\ content_' = content_
        /\ delivered' = delivered
    BY <2>1 DEF recordVars
  <2>3. b < Len(Bytes(Reading))
    BY <1>2, <1>3, <1>5, CompleteRecord
  <2>4. Reading' = Reading /\ Kept' = Kept
    BY <1>1, <2>2 DEF Reading, Kept
  <2>5. FramingData'
    BY <1>1, <1>4, <2>2 DEF FramingInv, FramingData
  <2>6. FramingExact'
    BY <1>1, <1>4, <2>2 DEF FramingInv, FramingExact, AsDelivered
  <2>7. Partial'
    BY <1>1, <1>2, <2>2, <2>3, <2>4 DEF FramingInv, Partial
  <2>8. RecordInv'
    BY <2>2, <2>4 DEF FramingInv, RecordInv
  <2>. QED
    BY <2>5, <2>6, <2>7, <2>8 DEF FramingInv
<1>6. CASE IsRecordComplete
  <2>1. /\ delivered' = Append(delivered, rec)
        /\ header_' = Zeros(8) /\ b' = 0 /\ expected' = NoHeader /\ content_' = <<>>
    BY <1>6 DEF CheckRecord, ClearRecord, FCGI_HEADER_LEN
  <2>2. b = Len(Bytes(Reading)) /\ b >= 8
    BY <1>2, <1>3, <1>6, CompleteRecord
  <2>3. /\ expected.type = Reading.type /\ expected.id = Reading.id
        /\ Len(content_) = Kept
        /\ \A j \in 1..Len(content_) : content_[j] = Reading.content[j]
    BY <2>2, AfterHeader
  <2>4. Len(content_) = Len(Reading.content)
    BY <1>2, <1>3, <2>2, <2>3, SMTT(30) DEF Kept
  <2>5. content_ = Reading.content
    <3>1. content_ \in Seq(ByteValue)
      BY DEF FramingInv, FramingData
    <3>. QED
      BY <1>3, <2>3, <2>4, <3>1, SMTT(30)
  <2>6. rec = AsDelivered(Reading) /\ rec \in DeliveredType
    <3>1. Reading.type \in ByteValue /\ Reading.id \in 0..Byte * Byte - 1
      BY <1>2 DEF WireRecord, ByteValue
    <3>. QED
      BY <1>3, <2>3, <2>5, <3>1 DEF AsDelivered, DeliveredType
  <2>7. delivered \in Seq(DeliveredType)
    BY DEF FramingInv, FramingData
  <2>. HIDE DEF rec
  <2>8. /\ delivered' \in Seq(DeliveredType) /\ Len(delivered') = k + 1
        /\ \A j \in 1..k : delivered'[j] = delivered[j]
        /\ delivered'[k + 1] = rec
    <3>. HIDE DEF DeliveredType
    <3>. QED
      BY <2>1, <2>6, <2>7
  <2>9. Zeros(8) \in [1..8 -> ByteValue] /\ \A S : <<>> \in Seq(S)
    <3>1. 0 \in ByteValue
      BY ByteFacts DEF ByteValue
    <3>. QED
      BY <3>1 DEF Zeros
  <2>10. NoHeader \in HeaderType
    BY DEF NoHeader, HeaderType
  <2>11. FramingData'
    BY <1>1, <1>4, <2>1, <2>8, <2>9, <2>10 DEF FramingInv, FramingData
  <2>12. FramingExact'
    <3>1. \A j \in 1..k + 1 : delivered'[j] = AsDelivered(sent[j])
      <4>1. TAKE j \in 1..k + 1
      <4>2. CASE j = k + 1
        BY <2>6, <2>8, <4>2 DEF Reading
      <4>3. CASE j # k + 1
        <5>1. j \in 1..k
          BY <1>2, <4>3
        <5>. QED
          BY <2>8, <5>1 DEF FramingInv, FramingExact
      <4>. QED
        BY <4>2, <4>3
    <3>2. RecordStart(k + 1) = RecordStart(k) + b
      <4>1. wire = Joined(RecordParts)
        BY DEF FramingInv, FramingData
      <4>2. k + 1 \in 1..Len(sent) /\ k + 1 - 1 = k
        BY <1>2
      <4>3. RecordStart(k + 1) = RecordStart(k + 1 - 1) + Len(Bytes(sent[k + 1]))
        BY <1>2, <4>1, <4>2, RecordPositions
      <4>. QED
        BY <2>2, <4>2, <4>3 DEF Reading
    <3>3. position' - Remaining' = RecordBoundary(sent, Len(delivered))' + b'
      <4>1. RecordBoundary(sent, Len(delivered))' = RecordStart(k + 1)
        BY <1>1, <2>8 DEF RecordBoundary, RecordStart
      <4>2. RecordStart(k) + b + 0 = RecordStart(k) + b
        BY <1>2
      <4>. QED
        BY <1>1, <1>2, <1>4, <2>1, <3>2, <4>1, <4>2
    <3>. QED
      BY <1>1, <1>2, <2>8, <3>1, <3>3 DEF FramingExact, AsDelivered
  <2>13. Partial' /\ RecordInv'
    BY <1>1, <2>1 DEF Partial, RecordInv
  <2>. QED
    BY <2>11, <2>12, <2>13 DEF FramingInv
<1>. QED
  BY <1>5, <1>6

LEMMA ReadSteps ==
  ASSUME FramingInv, Arrives \/ BufferEnds \/ UNCHANGED framingVars
  PROVE  FramingInv'
<1>1. /\ UNCHANGED <<framingInput, recordVars, delivered>>
      /\ framing_pc' # framing_pc => framing_pc \in {"read", "process"}
                                     /\ framing_pc' \in {"read", "process"}
  BY DEF Arrives, SocketRead, BufferEnds, framingVars, framingInput, recordVars
<1>2. /\ sent' = sent /\ wire' = wire /\ header_' = header_ /\ expected' = expected
      /\ bytes_received_' = bytes_received_ /\ content_' = content_
      /\ delivered' = delivered
  BY <1>1 DEF framingInput, recordVars
<1>3. /\ Remaining \in Nat /\ position \in Nat /\ number_bytes_received \in Nat
      /\ number_bytes_processed \in Nat
  BY FramingFacts
<1>4. Len(wire) \in Nat
  BY FramingAssumption, RecordPositions DEF FramingInv, FramingData
<1>5. /\ position' - Remaining' = position - Remaining
      /\ position' \in 0..Len(wire)
      /\ number_bytes_received' \in 0..BufferSize /\ number_bytes_received' <= position'
      /\ number_bytes_processed' \in 0..number_bytes_received'
      /\ framing_pc' \in {"read", "process", "check"}
      /\ framing_pc' = "read" => Remaining' = 0
  <2>1. CASE Arrives
    <3>1. PICK n \in 1..BufferSize : SocketRead(n)
      BY <2>1 DEF Arrives
    <3>2. /\ framing_pc = "read" /\ n <= BufferSize /\ position + n <= Len(wire)
          /\ position' = position + n /\ number_bytes_received' = n
          /\ number_bytes_processed' = 0 /\ framing_pc' = "process"
      BY <3>1 DEF SocketRead
    <3>3. Remaining = 0
      BY <3>2 DEF FramingInv, FramingData
    <3>. QED
      BY <1>3, <1>4, <3>2, <3>3, FramingAssumption DEF Remaining
  <2>2. CASE BufferEnds
    BY <2>2 DEF BufferEnds, FramingInv, FramingData, Remaining, bufferVars
  <2>3. CASE UNCHANGED framingVars
    BY <2>3 DEF framingVars, FramingInv, FramingData, Remaining, bufferVars
  <2>. QED
    BY <2>1, <2>2, <2>3
<1>6. RecordParts' = RecordParts /\ Reading' = Reading /\ Kept' = Kept
      /\ \A j : RecordBoundary(sent, j)' = RecordBoundary(sent, j)
  BY <1>2 DEF RecordParts, Reading, Kept, RecordBoundary
<1>7. FramingData'
  BY <1>2, <1>5, <1>6 DEF FramingInv, FramingData
<1>8. FramingExact'
  BY <1>2, <1>5, <1>6 DEF FramingInv, FramingExact, AsDelivered
<1>9. Partial'
  BY <1>1, <1>2, <1>6 DEF FramingInv, Partial
<1>10. RecordInv'
  BY <1>2, <1>6 DEF FramingInv, RecordInv
<1>. QED
  BY <1>7, <1>8, <1>9, <1>10 DEF FramingInv

LEMMA FramingInvariant == FramingSpec => []FramingInv
<1>1. FramingInit => FramingInv
  BY FramingInitial
<1>2. FramingInv /\ [FramingNext]_framingVars => FramingInv'
  BY HeaderBytesStep, ContentBytesStep, PaddingBytesStep, CheckRecordStep, ReadSteps
     DEF FramingNext
<1>. QED
  BY <1>1, <1>2, PTL DEF FramingSpec

-----------------------------------------------------------------------------
(* Theorems about RecordFraming.                                           *)

\* ReadRecords completes the records that the peer sent, in order, with their
\* types, identifiers and contents, wherever their bytes are cut by the reads and
\* however small the buffer is, and it loses and repeats no byte.
THEOREM RecordsFramed == FramingSpec => []FramingExact
<1>1. FramingInv => FramingExact
  BY DEF FramingInv
<1>. QED
  BY <1>1, FramingInvariant, PTL

\* A record takes no more bytes than its header announces, and none is processed
\* that was not received.
THEOREM FramingTypeCorrect == FramingSpec => []FramingTypeOK
<1>1. FramingInv => FramingTypeOK
  <2>. SUFFICES ASSUME FramingInv PROVE FramingTypeOK
    OBVIOUS
  <2>2. bytes_received_ \in Nat
    BY FramingFacts
  <2>3. bytes_received_ <= ExpectedBytes /\ ExpectedBytes \in Nat
    <3>1. CASE bytes_received_ >= 8
      <4>1. Len(Bytes(Reading)) \in Nat
        BY <2>2, <3>1, ReadingFacts
      <4>. QED
        BY <3>1, <4>1, AfterHeader
    <3>2. CASE ~(bytes_received_ >= 8)
      <4>1. ExpectedBytes = 8
        BY <2>2, <3>2 DEF FramingInv, RecordInv, ExpectedBytes, NoHeader, FCGI_HEADER_LEN
      <4>. QED
        BY <2>2, <3>2, <4>1
    <3>. QED
      BY <3>1, <3>2
  <2>4. Len(header_) = FCGI_HEADER_LEN
    BY DEF FramingInv, FramingData, FCGI_HEADER_LEN
  <2>. QED
    BY <2>2, <2>3, <2>4 DEF FramingInv, FramingData, FramingTypeOK
<1>. QED
  BY <1>1, FramingInvariant, PTL

-----------------------------------------------------------------------------
(* The encoding of a pair.                                                 *)

FollowOneAnother(w, S, a, b, c, d) ==
  /\ w \in Seq(S)
  /\ Len(w) = Len(a) + Len(b) + Len(c) + Len(d)
  /\ \A j \in 1..Len(a) : w[j] = a[j]
  /\ \A j \in 1..Len(b) : w[Len(a) + j] = b[j]
  /\ \A j \in 1..Len(c) : w[Len(a) + Len(b) + j] = c[j]
  /\ \A j \in 1..Len(d) : w[Len(a) + Len(b) + Len(c) + j] = d[j]

LEMMA FourParts ==
  ASSUME NEW S, NEW a \in Seq(S), NEW b \in Seq(S), NEW c \in Seq(S), NEW d \in Seq(S)
  PROVE  FollowOneAnother(a \o b \o c \o d, S, a, b, c, d)
<1>. DEFINE e == a \o b \o c
            f == e \o d
<1>1. a \o b \in Seq(S) /\ Len(a \o b) = Len(a) + Len(b)
  BY TwoParts
<1>2. /\ e \in Seq(S) /\ Len(e) = Len(a) + Len(b) + Len(c)
      /\ \A j \in 1..Len(a) : e[j] = a[j]
      /\ \A j \in 1..Len(b) : e[Len(a) + j] = b[j]
  BY ThreeParts, SMTT(30)
<1>3. \A j \in 1..Len(c) : e[Len(a) + Len(b) + j] = c[j]
  <2>. DEFINE g == a \o b
  <2>1. g \in Seq(S)
    BY <1>1
  <2>2. Len(g) = Len(a) + Len(b)
    BY <1>1
  <2>. HIDE DEF g
  <2>3. \A j \in 1..Len(c) : (g \o c)[Len(g) + j] = c[j]
    BY <2>1, TwoParts
  <2>4. e = g \o c
    BY DEF g
  <2>. HIDE DEF e
  <2>. QED
    BY <2>2, <2>3, <2>4
<1>. HIDE DEF e
<1>4. /\ f \in Seq(S) /\ Len(f) = Len(e) + Len(d)
      /\ \A j \in 1..Len(e) : f[j] = e[j]
      /\ \A j \in 1..Len(d) : f[Len(e) + j] = d[j]
  <2>1. e \in Seq(S)
    BY <1>2
  <2>. QED
    BY <2>1, TwoParts
<1>. HIDE DEF f
<1>5. Len(a) \in Nat /\ Len(b) \in Nat /\ Len(c) \in Nat /\ Len(d) \in Nat
  OBVIOUS
<1>6. /\ \A j \in 1..Len(a) : j \in 1..Len(e)
      /\ \A j \in 1..Len(b) : Len(a) + j \in 1..Len(e)
      /\ \A j \in 1..Len(c) : Len(a) + Len(b) + j \in 1..Len(e)
  BY <1>2, <1>5
<1>7. /\ \A j \in 1..Len(a) : f[j] = a[j]
      /\ \A j \in 1..Len(b) : f[Len(a) + j] = b[j]
      /\ \A j \in 1..Len(c) : f[Len(a) + Len(b) + j] = c[j]
  BY <1>2, <1>3, <1>4, <1>6
<1>8. \A j \in 1..Len(d) : f[Len(a) + Len(b) + Len(c) + j] = d[j]
  BY <1>2, <1>4
<1>9. Len(f) = Len(a) + Len(b) + Len(c) + Len(d)
  BY <1>2, <1>4, <1>5
<1>10. f = a \o b \o c \o d
  BY DEF e, f
<1>. QED
  BY <1>4, <1>7, <1>8, <1>9, <1>10 DEF FollowOneAnother

\* A length, in either form, tells its form with its first byte, and is read back.
LEMMA WireLengthFacts ==
  ASSUME NEW n \in 0..kNameValuePairFourByteLength, NEW wide
  PROVE  LET w == WireLength(n, wide)
         IN  /\ w \in Seq(ByteValue) /\ Len(w) = IF w[1] >= Half THEN 4 ELSE 1
             /\ Len(w) = 1 => w[1] = n
             /\ Len(w) = 4 => ExtractFourByteLength(w) = n
<1>. DEFINE w == WireLength(n, wide)
            four == EncodeFourByteLength(n)
            short == EncodeLength(n)
<1>1. /\ four \in Seq(ByteValue) /\ Len(four) = 4 /\ four[1] >= Half
      /\ ExtractFourByteLength(four) = n
  BY FourByteLengthReadBack DEF ByteValue
<1>2. /\ short \in Seq(ByteValue)
      /\ n < Half => short = <<n>>
      /\ n >= Half => short = four
  BY LengthForms DEF ByteValue
<1>3. n \in Nat /\ Half \in Nat
  BY LengthFacts, ByteFacts
<1>. HIDE DEF four, short
<1>4. CASE w = four
  BY <1>1, <1>4
<1>5. CASE w = short
  <2>1. CASE n < Half
    <3>1. w = <<n>>
      BY <1>2, <1>5, <2>1
    <3>. HIDE DEF w
    <3>2. w[1] = n /\ Len(w) = 1 /\ ~(w[1] >= Half)
      BY <1>3, <2>1, <3>1
    <3>3. w \in Seq(ByteValue)
      BY <1>2, <1>5 DEF w
    <3>. QED
      BY <3>2, <3>3 DEF w
  <2>2. CASE n >= Half
    BY <1>1, <1>2, <1>5, <2>2
  <2>. QED
    BY <1>3, <2>1, <2>2
<1>6. w = four \/ w = short
  BY DEF WireLength, four, short
<1>. QED
  BY <1>4, <1>5, <1>6

NameField(pair) == WireLength(Len(pair.name), "name" \in pair.wide)
ValueField(pair) == WireLength(Len(pair.value), "value" \in pair.wide)
LengthsOf(pair) == Len(NameField(pair)) + Len(ValueField(pair))

\* A pair is its two lengths, its name and its value.
LEMMA WirePairFacts ==
  ASSUME NEW pair \in WirePairs
  PROVE  LET w == WirePair(pair)
             n == NameField(pair)
             v == ValueField(pair)
         IN  /\ pair.name \in Seq(ByteValue) /\ Len(pair.name) \in Nat
             /\ pair.value \in Seq(ByteValue) /\ Len(pair.value) \in Nat
             /\ Len(n) = (IF n[1] >= Half THEN 4 ELSE 1)
             /\ Len(n) = 1 => n[1] = Len(pair.name)
             /\ Len(n) = 4 => ExtractFourByteLength(n) = Len(pair.name)
             /\ Len(v) = (IF v[1] >= Half THEN 4 ELSE 1)
             /\ Len(v) = 1 => v[1] = Len(pair.value)
             /\ Len(v) = 4 => ExtractFourByteLength(v) = Len(pair.value)
             /\ w \in Seq(ByteValue)
             /\ Len(w) = LengthsOf(pair) + Len(pair.name) + Len(pair.value)
             /\ \A j \in 1..Len(n) : w[j] = n[j]
             /\ \A j \in 1..Len(v) : w[Len(n) + j] = v[j]
             /\ \A j \in 1..Len(pair.name) : w[LengthsOf(pair) + j] = pair.name[j]
             /\ \A j \in 1..Len(pair.value) :
                  w[LengthsOf(pair) + Len(pair.name) + j] = pair.value[j]
<1>. DEFINE w == WirePair(pair)
            n == NameField(pair)
            v == ValueField(pair)
            a == pair.name
            b == pair.value
<1>1. /\ a \in Seq(ByteValue) /\ Len(a) \in Nat /\ b \in Seq(ByteValue) /\ Len(b) \in Nat
      /\ Len(a) <= kNameValuePairFourByteLength /\ Len(b) <= kNameValuePairFourByteLength
  BY DEF WirePairs, Text, ByteValue
<1>2. /\ Len(a) \in 0..kNameValuePairFourByteLength
      /\ Len(b) \in 0..kNameValuePairFourByteLength
  BY <1>1, LengthFacts
<1>3. /\ n \in Seq(ByteValue) /\ Len(n) = (IF n[1] >= Half THEN 4 ELSE 1)
      /\ Len(n) = 1 => n[1] = Len(a)
      /\ Len(n) = 4 => ExtractFourByteLength(n) = Len(a)
  BY <1>2, WireLengthFacts DEF NameField
<1>4. /\ v \in Seq(ByteValue) /\ Len(v) = (IF v[1] >= Half THEN 4 ELSE 1)
      /\ Len(v) = 1 => v[1] = Len(b)
      /\ Len(v) = 4 => ExtractFourByteLength(v) = Len(b)
  BY <1>2, WireLengthFacts DEF ValueField
<1>5. w = n \o v \o a \o b
  BY DEF WirePair, NameField, ValueField
<1>6. LengthsOf(pair) = Len(n) + Len(v)
  BY DEF LengthsOf
<1>. HIDE DEF n, v, a, b, w
<1>7. FollowOneAnother(n \o v \o a \o b, ByteValue, n, v, a, b)
  <2>1. n \in Seq(ByteValue)
    BY <1>3
  <2>2. v \in Seq(ByteValue)
    BY <1>4
  <2>3. a \in Seq(ByteValue)
    BY <1>1
  <2>4. b \in Seq(ByteValue)
    BY <1>1
  <2>. QED
    BY <2>1, <2>2, <2>3, <2>4, FourParts, Zenon
<1>8. /\ w \in Seq(ByteValue) /\ Len(w) = LengthsOf(pair) + Len(a) + Len(b)
      /\ \A j \in 1..Len(n) : w[j] = n[j]
      /\ \A j \in 1..Len(v) : w[Len(n) + j] = v[j]
      /\ \A j \in 1..Len(a) : w[LengthsOf(pair) + j] = a[j]
      /\ \A j \in 1..Len(b) : w[LengthsOf(pair) + Len(a) + j] = b[j]
  BY <1>5, <1>6, <1>7 DEF FollowOneAnother
<1>. QED
  BY <1>1, <1>3, <1>4, <1>8 DEF n, v, a, b, w

-----------------------------------------------------------------------------
(* The inductive invariant of NameValuePairs.                              *)

ReceivedPair == [name : Seq(ByteValue), value : Seq(ByteValue)]

\* What arrived is the start of the encoding.
InputInv ==
  /\ source \in Sources /\ caller \in {"PARAMS", "GET_VALUES"}
  /\ content \in Seq(ByteValue) /\ Len(content) <= Len(Wire(source))
  /\ \A i \in 1..Len(content) : content[i] = Wire(source)[i]

ListInv ==
  /\ bytes_processed \in 0..Len(content)
  /\ lengths \in Seq(Nat) /\ Len(lengths) <= 2
  /\ list \in Seq(ReceivedPair)
  /\ current \in 0..Len(list) /\ next \in 0..Len(list) + 1
  /\ pairs_pc \in {"extract", "list", "scan", "accepted", "rejected", "answered"}
  /\ caller = "PARAMS" /\ pairs_pc \in {"extract", "list", "scan"} => content # <<>>

\* The pair that is extracted, and how many bytes its first i lengths take.
Extracting == source[Len(list) + 1]
LengthBytes(pair, i) ==
  IF i = 0 THEN 0 ELSE IF i = 1 THEN Len(NameField(pair)) ELSE LengthsOf(pair)

\* Whole pairs were taken, and lengths of the pair that follows them.
ExtractInv ==
  pairs_pc = "extract" =>
    /\ Len(list) <= Len(source) /\ current = 0 /\ next = 0
    /\ \A j \in 1..Len(list) : list[j] = [name |-> source[j].name, value |-> source[j].value]
    /\ Len(lengths) > 0 => Len(list) < Len(source)
    /\ bytes_processed = PairBoundary(source, Len(list))
                           + LengthBytes(Extracting, Len(lengths))
    /\ Len(lengths) > 0 => lengths[1] = Len(Extracting.name)
    /\ Len(lengths) = 2 => lengths[2] = Len(Extracting.value)

\* No name comes before a smaller one.
InOrder(s) == \A i, j \in 1..Len(s) : i < j => ~LessThan(s[j].name, s[i].name)

\* The pairs before current are in the environment, and those from current on have
\* other names; the pairs from current up to next are the same.
ScanInv ==
  pairs_pc = "scan" =>
    /\ caller = "PARAMS"
    /\ list # <<>> /\ ToSet(list) = ToSet(Expected)
    /\ InOrder(list)
    /\ current \in 1..Len(list) /\ next \in current + 1..Len(list) + 1
    /\ \A i \in current..next - 1 : list[i] = list[current]
    /\ \A i \in 1..current - 1 : /\ list[i].name \in DOMAIN environment_map
                                 /\ environment_map[list[i].name] = list[i].value
    /\ \A n \in DOMAIN environment_map : \E i \in 1..current - 1 : list[i].name = n
    /\ \A i \in 1..current - 1 : \A j \in current..Len(list) : list[i].name # list[j].name

PairsInv ==
  /\ InputInv /\ ListInv /\ ExtractInv /\ ExtractExact /\ ScanInv
  /\ pairs_pc \in {"extract", "list"} => environment_map = <<>>
  /\ EnvironmentExact /\ AnswerExact

-----------------------------------------------------------------------------
(* Where the pairs are in the encoding.                                    *)

LEMMA PairPositions ==
  ASSUME source \in Seq(WirePairs)
  PROVE  /\ Len(source) \in Nat /\ PairBoundary(source, 0) = 0
         /\ \A k \in 0..Len(source) : PairBoundary(source, k) \in Nat
         /\ \A k \in 1..Len(source) : source[k] \in WirePairs
         /\ \A k \in 1..Len(source) :
              PairBoundary(source, k) =
                PairBoundary(source, k - 1) + Len(WirePair(source[k]))
         /\ \A i, j \in 0..Len(source) :
              i <= j => PairBoundary(source, i) <= PairBoundary(source, j)
         /\ Wire(source) \in Seq(ByteValue)
         /\ Len(Wire(source)) = PairBoundary(source, Len(source))
         /\ \A k \in 1..Len(source) : \A j \in 1..Len(WirePair(source[k])) :
              Wire(source)[PairBoundary(source, k - 1) + j] = WirePair(source[k])[j]
<1>. DEFINE parts == WireParts(source)
            o == Offsets(PartLengths(parts))
<1>1. Len(source) \in Nat /\ \A k \in 1..Len(source) : source[k] \in WirePairs
  <2>. HIDE DEF WirePairs
  <2>. QED
    OBVIOUS
<1>2. \A k \in 1..Len(source) : WirePair(source[k]) \in Seq(ByteValue)
  BY <1>1, WirePairFacts
<1>3. /\ parts \in Seq(Seq(ByteValue)) /\ Len(parts) = Len(source)
      /\ \A k \in 1..Len(source) : parts[k] = WirePair(source[k])
  BY <1>1, <1>2 DEF WireParts
<1>4. \A k : PairBoundary(source, k) = o[k]
  BY DEF PairBoundary
<1>5. Wire(source) = Joined(parts)
  BY DEF Wire
<1>. HIDE DEF parts
<1>6. /\ o \in [0..Len(parts) -> Nat] /\ o[0] = 0
      /\ \A k \in 1..Len(parts) : o[k] = o[k - 1] + Len(parts[k])
      /\ \A i, j \in 0..Len(parts) : i <= j => o[i] <= o[j]
      /\ Joined(parts) \in Seq(ByteValue)
      /\ Len(Joined(parts)) = o[Len(parts)]
      /\ \A k \in 1..Len(parts) : \A j \in 1..Len(parts[k]) :
           Joined(parts)[o[k - 1] + j] = parts[k][j]
  BY <1>3, JoinedFacts
<1>. HIDE DEF o
<1>7. /\ \A k \in 0..Len(source) : o[k] \in Nat
      /\ \A k \in 1..Len(source) : o[k] = o[k - 1] + Len(WirePair(source[k]))
      /\ Joined(parts) \in Seq(ByteValue) /\ Len(Joined(parts)) = o[Len(source)]
  BY <1>3, <1>6
<1>8. ASSUME NEW k \in 1..Len(source), NEW j \in 1..Len(WirePair(source[k]))
      PROVE  Joined(parts)[o[k - 1] + j] = WirePair(source[k])[j]
  <2>1. k \in 1..Len(parts) /\ parts[k] = WirePair(source[k])
    BY <1>3
  <2>2. j \in 1..Len(parts[k])
    BY <2>1
  <2>3. Joined(parts)[o[k - 1] + j] = parts[k][j]
    BY <1>6, <2>1, <2>2, Zenon
  <2>. QED
    BY <2>1, <2>3
<1>9. \A i, j \in 0..Len(source) : i <= j => o[i] <= o[j]
  BY <1>3, <1>6
<1>10. /\ \A k \in 0..Len(source) : PairBoundary(source, k) \in Nat
       /\ \A k \in 1..Len(source) :
            PairBoundary(source, k) =
              PairBoundary(source, k - 1) + Len(WirePair(source[k]))
       /\ Len(Wire(source)) = PairBoundary(source, Len(source))
       /\ PairBoundary(source, 0) = 0 /\ Wire(source) \in Seq(ByteValue)
  BY <1>4, <1>5, <1>6, <1>7
<1>11. \A i, j \in 0..Len(source) :
         i <= j => PairBoundary(source, i) <= PairBoundary(source, j)
  BY <1>4, <1>9
<1>12. \A k \in 1..Len(source) : \A j \in 1..Len(WirePair(source[k])) :
         Wire(source)[PairBoundary(source, k - 1) + j] = WirePair(source[k])[j]
  BY <1>4, <1>5, <1>8
<1>. QED
  BY <1>1, <1>10, <1>11, <1>12, Zenon

LEMMA WirePairSize ==
  ASSUME NEW pair \in WirePairs
  PROVE  /\ Len(NameField(pair)) \in {1, 4} /\ Len(ValueField(pair)) \in {1, 4}
         /\ LengthsOf(pair) \in Nat /\ Len(pair.name) \in Nat /\ Len(pair.value) \in Nat
         /\ Len(WirePair(pair)) = LengthsOf(pair) + Len(pair.name) + Len(pair.value)
         /\ Len(WirePair(pair)) \in Nat /\ Len(WirePair(pair)) > 0
         /\ LengthsOf(pair) = Len(NameField(pair)) + Len(ValueField(pair))
<1>1. /\ Len(NameField(pair)) \in {1, 4} /\ Len(ValueField(pair)) \in {1, 4}
      /\ Len(pair.name) \in Nat /\ Len(pair.value) \in Nat
      /\ Len(WirePair(pair)) = LengthsOf(pair) + Len(pair.name) + Len(pair.value)
  BY WirePairFacts
<1>2. LengthsOf(pair) = Len(NameField(pair)) + Len(ValueField(pair))
  BY DEF LengthsOf
<1>. HIDE DEF LengthsOf
<1>3. LengthsOf(pair) \in Nat /\ LengthsOf(pair) > 0
  <2>. DEFINE a == Len(NameField(pair))
              b == Len(ValueField(pair))
  <2>1. a \in {1, 4} /\ b \in {1, 4} /\ LengthsOf(pair) = a + b
    BY <1>1, <1>2
  <2>. HIDE DEF a, b
  <2>. QED
    BY <2>1
<1>4. Len(WirePair(pair)) \in Nat /\ Len(WirePair(pair)) > 0
  <2>. DEFINE n == Len(WirePair(pair))
              a == Len(pair.name)
              b == Len(pair.value)
              c == LengthsOf(pair)
  <2>1. a \in Nat /\ b \in Nat /\ c \in Nat /\ c > 0 /\ n = c + a + b
    BY <1>1, <1>3
  <2>. HIDE DEF n, a, b, c
  <2>2. n \in Nat /\ n > 0
    BY <2>1
  <2>. QED
    BY <2>2 DEF n
<1>. QED
  BY <1>1, <1>2, <1>3, <1>4, Zenon

\* Every pair takes two bytes at least, so that its end tells it.
LEMMA BoundariesDiffer ==
  ASSUME source \in Seq(WirePairs), NEW i \in 0..Len(source), NEW j \in 0..Len(source),
         PairBoundary(source, i) = PairBoundary(source, j)
  PROVE  i = j
<1>1. \A a, b \in 0..Len(source) : a < b => PairBoundary(source, a) < PairBoundary(source, b)
  <2>1. SUFFICES ASSUME NEW a \in 0..Len(source), NEW b \in 0..Len(source), a < b
                 PROVE  PairBoundary(source, a) < PairBoundary(source, b)
    OBVIOUS
  <2>2. /\ Len(source) \in Nat /\ b \in 1..Len(source) /\ b - 1 \in 0..Len(source)
        /\ a <= b - 1
    BY <2>1, PairPositions
  <2>3. /\ source[b] \in WirePairs
        /\ PairBoundary(source, b) = PairBoundary(source, b - 1) + Len(WirePair(source[b]))
        /\ PairBoundary(source, a) <= PairBoundary(source, b - 1)
        /\ PairBoundary(source, a) \in Nat /\ PairBoundary(source, b - 1) \in Nat
    BY <2>2, PairPositions
  <2>4. Len(WirePair(source[b])) \in Nat /\ Len(WirePair(source[b])) > 0
    BY <2>3, WirePairSize
  <2>. QED
    BY <2>3, <2>4
<1>2. Len(source) \in Nat /\ PairBoundary(source, i) \in Nat
  BY PairPositions
<1>3. ~(i < j) /\ ~(j < i)
  BY <1>1, <1>2
<1>. QED
  BY <1>2, <1>3

-----------------------------------------------------------------------------
(* ExtractBinaryNameValuePairs.                                            *)

\* What is left, while a pair is extracted.
LEMMA ExtractFacts ==
  ASSUME PairsInv, pairs_pc = "extract"
  PROVE  /\ source \in Seq(WirePairs) /\ Len(source) \in Nat
         /\ Len(list) \in Nat /\ Len(list) <= Len(source)
         /\ Len(lengths) \in Nat /\ Len(lengths) <= 2 /\ lengths \in Seq(Nat) /\ list \in Seq(ReceivedPair)
         /\ bytes_processed \in Nat /\ Len(content) \in Nat
         /\ bytes_processed <= Len(content) /\ BytesLeft \in Nat
         /\ content \in Seq(ByteValue)
         /\ Len(content) <= PairBoundary(source, Len(source))
         /\ PairBoundary(source, Len(list)) \in Nat
         /\ PairBoundary(source, Len(list)) <= bytes_processed
         /\ bytes_processed = PairBoundary(source, Len(list))
                                + LengthBytes(Extracting, Len(lengths))
         /\ Len(lengths) > 0 \/ BytesLeft > 0 =>
              /\ Len(list) < Len(source) /\ Extracting \in WirePairs
              /\ PairBoundary(source, Len(list) + 1) =
                   PairBoundary(source, Len(list)) + Len(WirePair(Extracting))
<1>1. source \in Seq(WirePairs)
  BY PairsAssumption DEF PairsInv, InputInv
<1>2. /\ Len(list) \in Nat /\ Len(list) <= Len(source) /\ lengths \in Seq(Nat)
      /\ Len(lengths) \in Nat /\ Len(lengths) <= 2 /\ list \in Seq(ReceivedPair)
  <2>1. /\ list \in Seq(ReceivedPair) /\ lengths \in Seq(Nat) /\ Len(lengths) <= 2
        /\ Len(list) <= Len(source)
    BY DEF PairsInv, ListInv, ExtractInv
  <2>2. Len(list) \in Nat /\ Len(lengths) \in Nat
    BY <2>1
  <2>. QED
    BY <2>1, <2>2
<1>3. /\ bytes_processed \in Nat /\ Len(content) \in Nat /\ bytes_processed <= Len(content)
      /\ BytesLeft \in Nat /\ content \in Seq(ByteValue)
  <2>1. content \in Seq(ByteValue) /\ bytes_processed \in 0..Len(content)
    BY DEF PairsInv, InputInv, ListInv
  <2>2. Len(content) \in Nat
    BY <2>1
  <2>. QED
    BY <2>1, <2>2 DEF BytesLeft
<1>4. Len(source) \in Nat /\ Len(content) <= PairBoundary(source, Len(source))
      /\ PairBoundary(source, Len(list)) \in Nat
      /\ PairBoundary(source, Len(source)) \in Nat
  BY <1>1, <1>2, PairPositions DEF PairsInv, InputInv
<1>5. bytes_processed = PairBoundary(source, Len(list))
                          + LengthBytes(Extracting, Len(lengths))
      /\ (Len(lengths) > 0 => Len(list) < Len(source))
  BY DEF PairsInv, ExtractInv
<1>6. Len(lengths) > 0 \/ BytesLeft > 0 => Len(list) < Len(source)
  <2>1. SUFFICES ASSUME BytesLeft > 0, Len(lengths) = 0, Len(list) = Len(source)
                 PROVE  FALSE
    BY <1>2, <1>4, <1>5
  <2>2. LengthBytes(Extracting, Len(lengths)) = 0
    BY <2>1 DEF LengthBytes
  <2>. QED
    BY <1>3, <1>4, <1>5, <2>1, <2>2 DEF BytesLeft
<1>7. Len(list) < Len(source) =>
        /\ Extracting \in WirePairs
        /\ PairBoundary(source, Len(list) + 1) =
             PairBoundary(source, Len(list)) + Len(WirePair(Extracting))
  <2>1. Len(list) < Len(source) => Len(list) + 1 \in 1..Len(source)
                                   /\ Len(list) + 1 - 1 = Len(list)
    BY <1>2, <1>4
  <2>. QED
    BY <1>1, <2>1, PairPositions DEF Extracting
<1>8. PairBoundary(source, Len(list)) <= bytes_processed
  <2>1. LengthBytes(Extracting, Len(lengths)) \in Nat
    <3>1. CASE Len(lengths) = 0
      BY <3>1 DEF LengthBytes
    <3>2. CASE Len(lengths) # 0
      <4>1. Extracting \in WirePairs
        BY <1>2, <1>6, <1>7, <3>2
      <4>2. Len(NameField(Extracting)) \in Nat /\ LengthsOf(Extracting) \in Nat
        BY <4>1, WirePairSize
      <4>. QED
        BY <4>2 DEF LengthBytes
    <3>. QED
      BY <3>1, <3>2
  <2>. QED
    BY <1>4, <1>5, <2>1
<1>. QED
  BY <1>1, <1>2, <1>3, <1>4, <1>5, <1>6, <1>7, <1>8

\* The content inside the pair that is extracted is the encoding of the pair.
LEMMA ExtractingBytes ==
  ASSUME PairsInv, pairs_pc = "extract", Extracting \in WirePairs,
         Len(list) < Len(source),
         NEW j \in Nat, j > 0, j <= Len(WirePair(Extracting)),
         PairBoundary(source, Len(list)) + j <= Len(content)
  PROVE  content[PairBoundary(source, Len(list)) + j] = WirePair(Extracting)[j]
<1>. DEFINE k == Len(list)
            p == PairBoundary(source, k)
<1>1. /\ source \in Seq(WirePairs) /\ Len(source) \in Nat /\ k \in Nat /\ p \in Nat
      /\ Len(content) \in Nat
  BY ExtractFacts
<1>2. k + 1 \in 1..Len(source) /\ k + 1 - 1 = k
  BY <1>1
<1>3. Len(WirePair(Extracting)) \in Nat
  BY WirePairSize
<1>4. Wire(source)[p + j] = WirePair(Extracting)[j]
  <2>1. j \in 1..Len(WirePair(source[k + 1]))
    BY <1>3 DEF Extracting
  <2>2. Wire(source)[PairBoundary(source, k + 1 - 1) + j] = WirePair(source[k + 1])[j]
    BY <1>1, <1>2, <2>1, PairPositions
  <2>. QED
    BY <1>2, <2>2 DEF Extracting
<1>. HIDE DEF p
<1>5. p + j \in 1..Len(content)
  BY <1>1 DEF p
<1>6. content[p + j] = Wire(source)[p + j]
  BY <1>5 DEF PairsInv, InputInv
<1>. QED
  BY <1>4, <1>6 DEF p

\* A content that ends inside a pair holds no complete list.
LEMMA InsidePair ==
  ASSUME source \in Seq(WirePairs), NEW k \in Nat, k < Len(source), Len(content) \in Nat,
         PairBoundary(source, k) < Len(content),
         Len(content) < PairBoundary(source, k + 1)
  PROVE  Expected = <<>>
<1>1. Len(source) \in Nat
  BY PairPositions
<1>2. ASSUME NEW j \in 0..Len(source), PairBoundary(source, j) = Len(content)
      PROVE  FALSE
  <2>1. k \in 0..Len(source) /\ k + 1 \in 0..Len(source) /\ j \in Nat
    BY <1>1
  <2>2. /\ PairBoundary(source, j) \in Nat /\ PairBoundary(source, k) \in Nat
        /\ PairBoundary(source, k + 1) \in Nat
        /\ j <= k => PairBoundary(source, j) <= PairBoundary(source, k)
        /\ k + 1 <= j => PairBoundary(source, k + 1) <= PairBoundary(source, j)
    BY <2>1, PairPositions
  <2>. QED
    BY <1>2, <2>1, <2>2
<1>3. Arrived = {}
  BY <1>2 DEF Arrived
<1>. QED
  BY <1>3 DEF Expected

\* A content that ends behind a pair holds the pairs up to it.
LEMMA AfterPair ==
  ASSUME source \in Seq(WirePairs), NEW k \in 0..Len(source),
         PairBoundary(source, k) = Len(content)
  PROVE  /\ Len(Expected) = k
         /\ Expected = [j \in 1..k |-> [name |-> source[j].name, value |-> source[j].value]]
<1>1. Len(source) \in Nat /\ k \in Nat
  BY PairPositions
<1>2. Arrived = {k}
  BY BoundariesDiffer DEF Arrived
<1>3. (CHOOSE j \in Arrived : TRUE) = k
  BY <1>2
<1>4. Expected = NamesAndValues(SubSeq(source, 1, k))
  BY <1>2, <1>3 DEF Expected
<1>. DEFINE s == SubSeq(source, 1, k)
<1>5. Len(s) = k /\ \A j \in 1..k : s[j] = source[j]
  <2>. HIDE DEF WirePairs
  <2>. QED
    BY <1>1
<1>. HIDE DEF s
<1>6. NamesAndValues(s) = [j \in 1..k |-> [name |-> source[j].name, value |-> source[j].value]]
  BY <1>5 DEF NamesAndValues
<1>. QED
  BY <1>1, <1>4, <1>6 DEF s

\* The length that is extracted next, and how many it is.
NextField == IF Len(lengths) = 0 THEN NameField(Extracting) ELSE ValueField(Extracting)
NextLength == IF Len(lengths) = 0 THEN Len(Extracting.name) ELSE Len(Extracting.value)

LEMMA FieldFacts ==
  ASSUME PairsInv, pairs_pc = "extract", Len(lengths) < 2, lengths # <<>> \/ BytesLeft > 0
  PROVE  /\ Len(list) < Len(source) /\ Extracting \in WirePairs
         /\ Len(NextField) = (IF NextField[1] >= Half THEN 4 ELSE 1)
         /\ Len(NextField) = 1 => NextField[1] = NextLength
         /\ Len(NextField) = 4 => ExtractFourByteLength(NextField) = NextLength
         /\ NextLength \in Nat
         /\ LengthBytes(Extracting, Len(lengths)) \in Nat
         /\ LengthBytes(Extracting, Len(lengths)) + Len(NextField)
              = LengthBytes(Extracting, Len(lengths) + 1)
         /\ LengthBytes(Extracting, Len(lengths) + 1) <= Len(WirePair(Extracting))
         /\ Len(lengths) > 0 \/ BytesLeft > 0
         /\ Len(lengths) > 0 => LengthBytes(Extracting, Len(lengths)) > 0
         /\ \A j \in 1..Len(NextField) :
              WirePair(Extracting)[LengthBytes(Extracting, Len(lengths)) + j] = NextField[j]
<1>. DEFINE e == Extracting
            n == NameField(e)
            v == ValueField(e)
<1>1. Len(lengths) \in Nat /\ lengths \in Seq(Nat) /\ BytesLeft \in Nat
  BY ExtractFacts
<1>2. Len(lengths) > 0 \/ BytesLeft > 0
  BY <1>1
<1>3. Len(list) < Len(source) /\ e \in WirePairs
  BY <1>2, ExtractFacts
<1>4. /\ Len(n) \in {1, 4} /\ Len(v) \in {1, 4} /\ LengthsOf(e) \in Nat
      /\ Len(e.name) \in Nat /\ Len(e.value) \in Nat
      /\ Len(WirePair(e)) = LengthsOf(e) + Len(e.name) + Len(e.value)
      /\ LengthsOf(e) = Len(n) + Len(v)
  BY <1>3, WirePairSize
<1>5. /\ Len(n) = (IF n[1] >= Half THEN 4 ELSE 1)
      /\ Len(n) = 1 => n[1] = Len(e.name)
      /\ Len(n) = 4 => ExtractFourByteLength(n) = Len(e.name)
      /\ Len(v) = (IF v[1] >= Half THEN 4 ELSE 1)
      /\ Len(v) = 1 => v[1] = Len(e.value)
      /\ Len(v) = 4 => ExtractFourByteLength(v) = Len(e.value)
      /\ \A j \in 1..Len(n) : WirePair(e)[j] = n[j]
      /\ \A j \in 1..Len(v) : WirePair(e)[Len(n) + j] = v[j]
  BY <1>3, WirePairFacts
<1>. HIDE DEF n, v, e
<1>6. LengthsOf(e) <= Len(WirePair(e)) /\ Len(n) <= Len(WirePair(e))
  <2>. DEFINE a == Len(n)
              b == Len(v)
              c == LengthsOf(e)
              d == Len(WirePair(e))
              x == Len(e.name)
              y == Len(e.value)
  <2>1. a \in {1, 4} /\ b \in {1, 4} /\ x \in Nat /\ y \in Nat /\ c = a + b /\ d = c + x + y
    BY <1>4
  <2>. HIDE DEF a, b, c, d, x, y
  <2>2. c <= d /\ a <= d
    BY <2>1
  <2>. QED
    BY <2>2 DEF a, c, d
<1>7. CASE Len(lengths) = 0
  <2>1. NextField = n /\ NextLength = Len(e.name)
    BY <1>7 DEF NextField, NextLength, n, e
  <2>2. LengthBytes(e, Len(lengths)) = 0 /\ LengthBytes(e, Len(lengths) + 1) = Len(n)
    BY <1>7 DEF LengthBytes, n
  <2>3. \A j \in 1..Len(n) : WirePair(e)[0 + j] = n[j]
    <3>1. \A j \in 1..Len(n) : 0 + j = j
      OBVIOUS
    <3>. QED
      BY <1>5, <3>1
  <2>4. 0 + Len(n) = Len(n)
    BY <1>4
  <2>5. /\ Len(NextField) = (IF NextField[1] >= Half THEN 4 ELSE 1)
        /\ Len(NextField) = 1 => NextField[1] = NextLength
        /\ Len(NextField) = 4 => ExtractFourByteLength(NextField) = NextLength
        /\ NextLength \in Nat
    BY <1>4, <1>5, <2>1
  <2>6. /\ LengthBytes(e, Len(lengths)) \in Nat
        /\ LengthBytes(e, Len(lengths)) + Len(NextField) = LengthBytes(e, Len(lengths) + 1)
        /\ LengthBytes(e, Len(lengths) + 1) <= Len(WirePair(e))
    BY <1>6, <2>1, <2>2, <2>4
  <2>7. \A j \in 1..Len(NextField) :
          WirePair(e)[LengthBytes(e, Len(lengths)) + j] = NextField[j]
    BY <2>1, <2>2, <2>3
  <2>8. ~(Len(lengths) > 0)
    BY <1>7
  <2>. QED
    BY <1>2, <1>3, <2>5, <2>6, <2>7, <2>8, Zenon DEF e
<1>8. CASE Len(lengths) = 1
  <2>1. NextField = v /\ NextLength = Len(e.value)
    BY <1>8 DEF NextField, NextLength, v, e
  <2>2. LengthBytes(e, Len(lengths)) = Len(n)
        /\ LengthBytes(e, Len(lengths) + 1) = LengthsOf(e)
    BY <1>8 DEF LengthBytes, n
  <2>3. Len(n) \in Nat /\ Len(n) > 0
    <3>. DEFINE a == Len(n)
    <3>1. a \in {1, 4}
      BY <1>4
    <3>. HIDE DEF a
    <3>2. a \in Nat /\ a > 0
      BY <3>1
    <3>. QED
      BY <3>2 DEF a
  <2>5. /\ Len(NextField) = (IF NextField[1] >= Half THEN 4 ELSE 1)
        /\ Len(NextField) = 1 => NextField[1] = NextLength
        /\ Len(NextField) = 4 => ExtractFourByteLength(NextField) = NextLength
        /\ NextLength \in Nat
    BY <1>4, <1>5, <2>1
  <2>6. /\ LengthBytes(e, Len(lengths)) \in Nat
        /\ LengthBytes(e, Len(lengths)) + Len(NextField) = LengthBytes(e, Len(lengths) + 1)
        /\ LengthBytes(e, Len(lengths) + 1) <= Len(WirePair(e))
        /\ LengthBytes(e, Len(lengths)) > 0
    BY <1>4, <1>6, <2>1, <2>2, <2>3
  <2>7. \A j \in 1..Len(NextField) :
          WirePair(e)[LengthBytes(e, Len(lengths)) + j] = NextField[j]
    BY <1>5, <2>1, <2>2
  <2>. QED
    BY <1>2, <1>3, <2>5, <2>6, <2>7, Zenon DEF e
<1>9. Len(lengths) = 0 \/ Len(lengths) = 1
  <2>. DEFINE a == Len(lengths)
  <2>1. a \in Nat /\ a < 2
    BY <1>1
  <2>. HIDE DEF a
  <2>2. a = 0 \/ a = 1
    BY <2>1
  <2>. QED
    BY <2>2 DEF a
<1>. QED
  BY <1>7, <1>8, <1>9

LEMMA InputStep ==
  ASSUME PairsInv, UNCHANGED pairsInput
  PROVE  /\ InputInv' /\ source' = source /\ content' = content /\ caller' = caller
         /\ Expected' = Expected
         /\ \A k : PairBoundary(source, k)' = PairBoundary(source, k)
<1>1. source' = source /\ content' = content /\ caller' = caller
  BY DEF pairsInput
<1>2. Wire(source)' = Wire(source) /\ Arrived' = Arrived
      /\ \A k : PairBoundary(source, k)' = PairBoundary(source, k)
  BY <1>1 DEF Wire, Arrived, PairBoundary
<1>3. Expected' = Expected
  BY <1>1, <1>2 DEF Expected
<1>. QED
  BY <1>1, <1>2, <1>3 DEF PairsInv, InputInv

\* Before the list is used there is nothing to say about what is made of it.
LEMMA Extracted ==
  ASSUME PairsInv, pairs_pc = "extract", UNCHANGED <<pairsInput, environment_map>>,
         pairs_pc' \in {"extract", "list"}, ListInv', ExtractInv',
         pairs_pc' = "list" => list' = Expected
  PROVE  PairsInv'
<1>1. InputInv' /\ Expected' = Expected
  BY InputStep
<1>2. ExtractExact' /\ ScanInv' /\ EnvironmentExact' /\ AnswerExact'
  BY <1>1 DEF ExtractExact, ScanInv, EnvironmentExact, AnswerExact
<1>3. environment_map' = <<>>
  BY DEF PairsInv
<1>. QED
  BY <1>1, <1>2, <1>3 DEF PairsInv

\* An error: what arrived ends inside the pair.
LEMMA Incomplete ==
  ASSUME PairsInv, pairs_pc = "extract", ErrorResult,
         UNCHANGED <<pairsInput, decodeVars, current, next, environment_map>>,
         Len(list) < Len(source), Extracting \in WirePairs,
         PairBoundary(source, Len(list)) < Len(content),
         Len(content) < PairBoundary(source, Len(list)) + Len(WirePair(Extracting))
  PROVE  PairsInv'
<1>1. /\ source \in Seq(WirePairs) /\ Len(list) \in Nat /\ Len(content) \in Nat
      /\ Len(source) \in Nat
  BY ExtractFacts
<1>2. PairBoundary(source, Len(list) + 1) =
        PairBoundary(source, Len(list)) + Len(WirePair(Extracting))
  <2>1. Len(list) + 1 \in 1..Len(source) /\ Len(list) + 1 - 1 = Len(list)
    BY <1>1
  <2>. QED
    BY <1>1, <2>1, PairPositions DEF Extracting
<1>3. Expected = <<>>
  BY <1>1, <1>2, InsidePair
<1>4. /\ list' = <<>> /\ pairs_pc' = "list" /\ bytes_processed' = bytes_processed
      /\ lengths' = lengths /\ content' = content /\ caller' = caller
      /\ current' = current /\ next' = next
  BY DEF ErrorResult, decodeVars, pairsInput
<1>5. current = 0 /\ next = 0
  BY DEF PairsInv, ExtractInv
<1>6. ListInv'
  <2>1. <<>> \in Seq(ReceivedPair) /\ Len(<<>>) = 0
    OBVIOUS
  <2>2. current' \in 0..Len(list') /\ next' \in 0..Len(list') + 1
    BY <1>4, <1>5, <2>1
  <2>. QED
    BY <1>4, <2>1, <2>2 DEF PairsInv, ListInv
<1>7. ExtractInv'
  BY <1>4 DEF ExtractInv
<1>. QED
  BY <1>3, <1>4, <1>6, <1>7, Extracted


\* The bytes of the length that is extracted, as far as they arrived.
LEMMA FieldArrived ==
  ASSUME PairsInv, pairs_pc = "extract", Len(lengths) < 2, lengths # <<>> \/ BytesLeft > 0
  PROVE  /\ BytesLeft > 0 => NextByte = NextField[1] /\ Width = Len(NextField)
         /\ Len(NextField) \in {1, 4}
         /\ \A j \in 1..Len(NextField) :
              j <= BytesLeft => content[bytes_processed + j] = NextField[j]
<1>. DEFINE e == Extracting
            p == PairBoundary(source, Len(list))
            l == LengthBytes(Extracting, Len(lengths))
            f == NextField
            w == Len(WirePair(Extracting))
            n == Len(NextField)
            c == Len(content)
<1>1. /\ p \in Nat /\ c \in Nat /\ bytes_processed = p + l /\ bytes_processed \in Nat
      /\ BytesLeft = c - bytes_processed
  BY ExtractFacts DEF BytesLeft
<1>2. /\ Len(list) < Len(source) /\ e \in WirePairs
      /\ n = (IF f[1] >= Half THEN 4 ELSE 1)
      /\ l \in Nat /\ l + n <= w
      /\ \A j \in 1..n : WirePair(e)[l + j] = f[j]
  BY FieldFacts
<1>3. n \in {1, 4}
  BY <1>2
<1>4. w \in Nat
  BY <1>2, WirePairSize
<1>5. ASSUME NEW j \in 1..n, j <= BytesLeft
      PROVE  content[bytes_processed + j] = f[j]
  <2>. DEFINE i == l + j
  <2>1. i \in Nat /\ i > 0 /\ i <= w /\ p + i <= c /\ bytes_processed + j = p + i
    <3>. HIDE DEF p, l, w, n, c
    <3>. QED
      BY <1>1, <1>2, <1>3, <1>4, <1>5
  <2>. HIDE DEF i
  <2>2. content[p + i] = WirePair(e)[i]
    BY <1>2, <2>1, ExtractingBytes
  <2>3. WirePair(e)[i] = f[j]
    BY <1>2 DEF i
  <2>. QED
    BY <2>1, <2>2, <2>3
<1>6. BytesLeft > 0 => NextByte = f[1]
  <2>1. 1 \in 1..n
    BY <1>3
  <2>2. BytesLeft \in Int
    BY <1>1
  <2>. HIDE DEF f, n
  <2>. QED
    BY <1>5, <2>1, <2>2 DEF NextByte
<1>7. BytesLeft > 0 => Width = n
  BY <1>2, <1>6 DEF Width
<1>. QED
  BY <1>3, <1>5, <1>6, <1>7

LEMMA LengthIncomplete ==
  ASSUME PairsInv, pairs_pc = "extract", Len(lengths) < 2, lengths # <<>> \/ BytesLeft > 0,
         BytesLeft = 0 \/ BytesLeft < Width
  PROVE  /\ PairBoundary(source, Len(list)) < Len(content)
         /\ Len(content) < PairBoundary(source, Len(list)) + Len(WirePair(Extracting))
<1>. DEFINE p == PairBoundary(source, Len(list))
            l == LengthBytes(Extracting, Len(lengths))
            w == Len(WirePair(Extracting))
            n == Len(NextField)
            c == Len(content)
<1>1. /\ p \in Nat /\ c \in Nat /\ bytes_processed = p + l
      /\ BytesLeft = c - bytes_processed /\ BytesLeft \in Nat
  BY ExtractFacts DEF BytesLeft
<1>2. /\ Extracting \in WirePairs /\ l \in Nat /\ l + n <= w
      /\ l > 0 \/ BytesLeft > 0
  BY FieldFacts
<1>3. n \in {1, 4} /\ (BytesLeft > 0 => Width = n)
  BY FieldArrived
<1>4. w \in Nat
  BY <1>2, WirePairSize
<1>5. BytesLeft < n
  <2>1. CASE BytesLeft = 0
    BY <1>3, <2>1
  <2>2. CASE BytesLeft # 0
    BY <1>1, <1>3, <2>2
  <2>. QED
    BY <2>1, <2>2
<1>. HIDE DEF p, l, w, n, c
<1>6. p < c /\ c < p + w
  BY <1>1, <1>2, <1>3, <1>4, <1>5
<1>. QED
  BY <1>6 DEF p, w, c

\* The value of the length that is extracted.
LEMMA LengthRead ==
  ASSUME PairsInv, pairs_pc = "extract", Len(lengths) < 2, lengths # <<>> \/ BytesLeft > 0,
         BytesLeft # 0, ~(BytesLeft < Width)
  PROVE  /\ Width = Len(NextField) /\ Width \in {1, 4} /\ BytesLeft \in Nat
         /\ NextLength =
              (IF Width = 4
               THEN ExtractFourByteLength(SubSeq(content, bytes_processed + 1,
                                                 bytes_processed + 4))
               ELSE NextByte)
<1>. DEFINE f == NextField
            t == SubSeq(content, bytes_processed + 1, bytes_processed + 4)
<1>1. /\ BytesLeft \in Nat /\ content \in Seq(ByteValue) /\ bytes_processed \in Nat
      /\ Len(content) \in Nat /\ BytesLeft = Len(content) - bytes_processed
  BY ExtractFacts DEF BytesLeft
<1>2. /\ NextByte = f[1] /\ Width = Len(f) /\ Len(f) \in {1, 4}
      /\ \A j \in 1..Len(f) : j <= BytesLeft => content[bytes_processed + j] = f[j]
  BY <1>1, FieldArrived
<1>3. /\ Len(f) = 1 => f[1] = NextLength
      /\ Len(f) = 4 => ExtractFourByteLength(f) = NextLength
  BY FieldFacts
<1>4. CASE Len(f) = 4
  <2>1. bytes_processed + 4 <= Len(content)
    BY <1>1, <1>2, <1>4
  <2>2. \A i \in 1..4 : t[i] = content[bytes_processed + i]
    <3>. HIDE DEF t
    <3>. QED
      BY <1>1, <2>1, Slice DEF t
  <2>3. \A j \in 1..4 : content[bytes_processed + j] = f[j]
    BY <1>1, <1>2, <1>4
  <2>. HIDE DEF t, f
  <2>4. t[1] = f[1] /\ t[2] = f[2] /\ t[3] = f[3] /\ t[4] = f[4]
    <3>1. \A i \in 1..4 : t[i] = f[i]
      BY <2>2, <2>3
    <3>. QED
      BY <3>1
  <2>5. ExtractFourByteLength(t) = ExtractFourByteLength(f)
    BY <2>4 DEF ExtractFourByteLength
  <2>. QED
    BY <1>1, <1>2, <1>3, <1>4, <2>5 DEF t, f
<1>5. CASE Len(f) = 1
  BY <1>1, <1>2, <1>3, <1>5
<1>. QED
  BY <1>2, <1>4, <1>5

LEMMA ExtractLengthStep ==
  ASSUME PairsInv, ExtractLength
  PROVE  PairsInv'
<1>. DEFINE p == PairBoundary(source, Len(list))
            k == Len(lengths)
<1>1. /\ pairs_pc = "extract" /\ k < 2
      /\ lengths # <<>> \/ BytesLeft > 0
      /\ UNCHANGED <<pairsInput, current, next, environment_map, answer>>
  BY DEF ExtractLength
<1>2. Len(list) < Len(source) /\ Extracting \in WirePairs
  BY <1>1, FieldFacts
<1>3. CASE BytesLeft = 0 \/ BytesLeft < Width
  <2>1. ErrorResult /\ UNCHANGED decodeVars
    BY <1>3 DEF ExtractLength
  <2>2. p < Len(content) /\ Len(content) < p + Len(WirePair(Extracting))
    BY <1>1, <1>3, LengthIncomplete
  <2>. QED
    BY <1>1, <1>2, <2>1, <2>2, Incomplete
<1>4. CASE ~(BytesLeft = 0 \/ BytesLeft < Width)
  <2>1. /\ Width = Len(NextField) /\ Width \in {1, 4} /\ BytesLeft \in Nat
        /\ lengths' = Append(lengths, NextLength)
        /\ bytes_processed' = bytes_processed + Width
        /\ list' = list /\ pairs_pc' = "extract"
    <3>1. /\ Width = Len(NextField) /\ Width \in {1, 4} /\ BytesLeft \in Nat
          /\ NextLength =
               (IF Width = 4
                THEN ExtractFourByteLength(SubSeq(content, bytes_processed + 1,
                                                  bytes_processed + 4))
                ELSE NextByte)
      BY <1>1, <1>4, LengthRead
    <3>2. /\ lengths' = Append(lengths,
               IF Width = 4
               THEN ExtractFourByteLength(SubSeq(content, bytes_processed + 1,
                                                 bytes_processed + 4))
               ELSE NextByte)
          /\ bytes_processed' = bytes_processed + Width
          /\ list' = list /\ pairs_pc' = pairs_pc
      BY <1>4 DEF ExtractLength
    <3>. QED
      BY <1>1, <3>1, <3>2
  <2>2. /\ NextLength \in Nat
        /\ LengthBytes(Extracting, k) \in Nat
        /\ LengthBytes(Extracting, k) + Len(NextField) = LengthBytes(Extracting, k + 1)
    BY <1>1, FieldFacts
  <2>3. /\ lengths \in Seq(Nat) /\ k \in Nat /\ p \in Nat /\ bytes_processed \in Nat
        /\ bytes_processed = p + LengthBytes(Extracting, k)
        /\ BytesLeft = Len(content) - bytes_processed /\ Len(content) \in Nat
    BY <1>1, ExtractFacts DEF BytesLeft
  <2>4. /\ lengths' \in Seq(Nat) /\ Len(lengths') = k + 1
        /\ lengths'[k + 1] = NextLength
        /\ \A i \in 1..k : lengths'[i] = lengths[i]
    BY <2>1, <2>2, <2>3
  <2>5. /\ source' = source /\ content' = content /\ caller' = caller
        /\ \A i : PairBoundary(source, i)' = PairBoundary(source, i)
        /\ current' = current /\ next' = next /\ environment_map' = environment_map
    BY <1>1, InputStep
  <2>6. Extracting' = Extracting
    BY <2>1, <2>5 DEF Extracting
  <2>7. bytes_processed' \in 0..Len(content)
    BY <1>4, <2>1, <2>3, SMTT(30)
  <2>8. ListInv'
    <3>1. list \in Seq(ReceivedPair) /\ current \in 0..Len(list) /\ next \in 0..Len(list) + 1
          /\ (caller = "PARAMS" => content # <<>>)
      BY <1>1 DEF PairsInv, ListInv
    <3>2. Len(lengths') <= 2
      BY <1>1, <2>3, <2>4
    <3>. QED
      BY <2>1, <2>4, <2>5, <2>7, <3>1, <3>2 DEF ListInv
  <2>9. ExtractInv'
    <3>1. /\ Len(list) <= Len(source) /\ current = 0 /\ next = 0
          /\ \A j \in 1..Len(list) :
               list[j] = [name |-> source[j].name, value |-> source[j].value]
          /\ k > 0 => lengths[1] = Len(Extracting.name)
      BY <1>1 DEF PairsInv, ExtractInv
    <3>2. bytes_processed' = p + LengthBytes(Extracting, k + 1)
      <4>. DEFINE a == LengthBytes(Extracting, k)
                  b == LengthBytes(Extracting, k + 1)
                  c == Len(NextField)
      <4>1. bytes_processed' = p + a + c /\ a + c = b /\ a \in Nat /\ c \in {1, 4} /\ p \in Nat
        BY <2>1, <2>2, <2>3
      <4>. HIDE DEF a, b, c, p
      <4>2. bytes_processed' = p + b
        BY <4>1
      <4>. QED
        BY <4>2 DEF b
    <3>3. bytes_processed' = PairBoundary(source, Len(list))'
                               + LengthBytes(Extracting, Len(lengths))'
      <4>1. LengthBytes(Extracting, Len(lengths))' = LengthBytes(Extracting, k + 1)
        BY <2>4, <2>5, <2>6 DEF LengthBytes, NameField, LengthsOf, ValueField
      <4>2. PairBoundary(source, Len(list))' = p
        BY <2>1, <2>5 DEF PairBoundary
      <4>. QED
        BY <3>2, <4>1, <4>2
    <3>4. lengths'[1] = Len(Extracting.name)
      <4>1. CASE k = 0
        BY <2>4, <4>1 DEF NextLength
      <4>2. CASE k # 0
        BY <2>3, <2>4, <3>1, <4>2, SMTT(30)
      <4>. QED
        BY <4>1, <4>2
    <3>5. k + 1 = 2 => lengths'[2] = Len(Extracting.value)
      BY <2>3, <2>4 DEF NextLength
    <3>6. Len(Extracting.name)' = Len(Extracting.name)
          /\ Len(Extracting.value)' = Len(Extracting.value)
      BY <2>6
    <3>7. /\ Len(list') <= Len(source') /\ current' = 0 /\ next' = 0
          /\ \A j \in 1..Len(list') :
               list'[j] = [name |-> source'[j].name, value |-> source'[j].value]
          /\ Len(list') < Len(source')
      BY <1>2, <2>1, <2>5, <3>1
    <3>8. Len(lengths') = 2 => lengths'[2] = Len(Extracting.value)
      BY <2>4, <3>5
    <3>. QED
      BY <3>3, <3>4, <3>6, <3>7, <3>8 DEF ExtractInv
  <2>. QED
    BY <1>1, <2>1, <2>8, <2>9, Extracted
<1>. QED
  BY <1>3, <1>4


LEMMA TakenFacts ==
  ASSUME content \in Seq(ByteValue), NEW m \in Nat, NEW n \in Nat, m + n <= Len(content)
  PROVE  /\ Taken(m, n) \in Seq(ByteValue) /\ Len(Taken(m, n)) = n
         /\ \A i \in 1..n : Taken(m, n)[i] = content[m + i]
<1>. DEFINE t == SubSeq(content, m + 1, m + n)
<1>1. t \in Seq(ByteValue) /\ Len(t) = n /\ \A i \in 1..n : t[i] = content[m + i]
  <2>. HIDE DEF ByteValue, t
  <2>. QED
    BY Slice DEF t
<1>. HIDE DEF t
<1>2. Taken(m, n) = t
  BY DEF Taken, t
<1>. QED
  BY <1>1, <1>2

\* The name and the value that are taken are those of the pair.
LEMMA DataRead ==
  ASSUME PairsInv, pairs_pc = "extract", Len(lengths) = 2
  PROVE  /\ Extracting \in WirePairs /\ Len(list) < Len(source)
         /\ lengths[1] = Len(Extracting.name) /\ lengths[2] = Len(Extracting.value)
         /\ bytes_processed = PairBoundary(source, Len(list)) + LengthsOf(Extracting)
         /\ lengths[1] + lengths[2] <= BytesLeft =>
              /\ Taken(bytes_processed, lengths[1]) = Extracting.name
              /\ Taken(bytes_processed + lengths[1], lengths[2]) = Extracting.value
<1>. DEFINE e == Extracting
            p == PairBoundary(source, Len(list))
            l == LengthsOf(e)
            x == Len(e.name)
            y == Len(e.value)
            w == Len(WirePair(e))
            c == Len(content)
<1>1. /\ p \in Nat /\ c \in Nat /\ bytes_processed \in Nat /\ content \in Seq(ByteValue)
      /\ BytesLeft = c - bytes_processed /\ Len(list) < Len(source) /\ e \in WirePairs
      /\ bytes_processed = p + LengthBytes(e, 2)
  BY ExtractFacts DEF BytesLeft
<1>2. bytes_processed = p + l
  BY <1>1 DEF LengthBytes
<1>3. lengths[1] = x /\ lengths[2] = y
  BY DEF PairsInv, ExtractInv
<1>4. l \in Nat /\ x \in Nat /\ y \in Nat /\ w = l + x + y /\ w \in Nat /\ l > 0
  <2>1. /\ l \in Nat /\ x \in Nat /\ y \in Nat /\ w = l + x + y /\ w \in Nat
        /\ Len(NameField(e)) \in {1, 4} /\ Len(ValueField(e)) \in {1, 4}
        /\ l = Len(NameField(e)) + Len(ValueField(e))
    BY <1>1, WirePairSize
  <2>. DEFINE a == Len(NameField(e))
              b == Len(ValueField(e))
  <2>2. l > 0
    <3>. HIDE DEF a, b, l
    <3>. QED
      BY <2>1, SMTT(30) DEF a, b
  <2>. QED
    BY <2>1, <2>2
<1>5. /\ \A j \in 1..x : WirePair(e)[l + j] = e.name[j]
      /\ \A j \in 1..y : WirePair(e)[l + x + j] = e.value[j]
      /\ e.name \in Seq(ByteValue) /\ e.value \in Seq(ByteValue)
  <2>1. e.name \in Seq(ByteValue) /\ e.value \in Seq(ByteValue)
    BY <1>1 DEF WirePairs, Text, ByteValue
  <2>. QED
    BY <1>1, <2>1, WirePairFacts
<1>6. ASSUME x + y <= BytesLeft, NEW j \in Nat, j > 0, j <= w
      PROVE  content[p + j] = WirePair(e)[j]
  <2>1. p + j <= c
    <3>. HIDE DEF p, l, x, y, w, c
    <3>. QED
      BY <1>1, <1>2, <1>4, <1>6
  <2>. QED
    BY <1>1, <1>6, <2>1, ExtractingBytes
<1>7. ASSUME x + y <= BytesLeft PROVE Taken(bytes_processed, x) = e.name
  <2>. DEFINE t == Taken(bytes_processed, x)
  <2>1. bytes_processed + x <= c
    <3>. HIDE DEF p, l, x, y, w, c
    <3>. QED
      BY <1>1, <1>4, <1>7
  <2>2. /\ t \in Seq(ByteValue) /\ Len(t) = x
        /\ \A j \in 1..x : t[j] = content[bytes_processed + j]
    BY <1>1, <1>4, <2>1, TakenFacts, ZenonT(30)
  <2>3. ASSUME NEW j \in 1..x PROVE t[j] = e.name[j]
    <3>. DEFINE i == l + j
    <3>1. i \in Nat /\ i > 0 /\ i <= w /\ bytes_processed + j = p + i
      <4>. HIDE DEF p, l, x, y, w, c
      <4>. QED
        BY <1>1, <1>2, <1>4, SMTT(30)
    <3>. HIDE DEF i
    <3>2. content[p + i] = WirePair(e)[i]
      BY <1>6, <1>7, <3>1
    <3>3. t[j] = content[p + i]
      BY <2>2, <3>1
    <3>. QED
      BY <1>5, <3>2, <3>3 DEF i
  <2>. HIDE DEF t, e
  <2>. QED
    BY <1>5, <2>2, <2>3, SMTT(30) DEF t
<1>8. ASSUME x + y <= BytesLeft PROVE Taken(bytes_processed + x, y) = e.value
  <2>. DEFINE t == Taken(bytes_processed + x, y)
  <2>1. bytes_processed + x + y <= c /\ bytes_processed + x \in Nat
    <3>. HIDE DEF p, l, x, y, w, c
    <3>. QED
      BY <1>1, <1>4, <1>8, SMTT(30)
  <2>2. /\ t \in Seq(ByteValue) /\ Len(t) = y
        /\ \A j \in 1..y : t[j] = content[bytes_processed + x + j]
    <3>. DEFINE m == bytes_processed + x
    <3>1. m \in Nat /\ y \in Nat /\ m + y <= Len(content) /\ t = Taken(m, y)
      BY <1>4, <2>1
    <3>2. \A j : m + j = bytes_processed + x + j
      OBVIOUS
    <3>. HIDE DEF m, y, t, e
    <3>3. /\ t \in Seq(ByteValue) /\ Len(t) = y
          /\ \A j \in 1..y : t[j] = content[m + j]
      BY <1>1, <3>1, TakenFacts
    <3>. QED
      BY <3>2, <3>3
  <2>3. ASSUME NEW j \in 1..y PROVE t[j] = e.value[j]
    <3>. DEFINE i == l + x + j
    <3>1. i \in Nat /\ i > 0 /\ i <= w /\ bytes_processed + x + j = p + i
      <4>1. /\ l \in Nat /\ x \in Nat /\ y \in Nat /\ w = l + x + y /\ p \in Nat
            /\ bytes_processed = p + l /\ j \in Nat /\ j > 0 /\ j <= y
        BY <1>1, <1>2, <1>4
      <4>. HIDE DEF p, l, x, y, w
      <4>. QED
        BY <4>1
    <3>. HIDE DEF i
    <3>2. content[p + i] = WirePair(e)[i]
      BY <1>6, <1>8, <3>1
    <3>3. t[j] = content[p + i]
      BY <2>2, <3>1
    <3>. QED
      BY <1>5, <3>2, <3>3 DEF i
  <2>. HIDE DEF t, e
  <2>4. t = e.value
    <3>1. t \in Seq(ByteValue) /\ e.value \in Seq(ByteValue) /\ Len(t) = Len(e.value)
      BY <1>5, <2>2
    <3>2. \A j \in 1..Len(e.value) : t[j] = e.value[j]
      BY <2>3
    <3>. HIDE DEF ByteValue
    <3>. QED
      BY <3>1, <3>2
  <2>. QED
    BY <2>4 DEF t
<1>. QED
  BY <1>1, <1>2, <1>3, <1>7, <1>8

LEMMA ExtractDataStep ==
  ASSUME PairsInv, ExtractData
  PROVE  PairsInv'
<1>. DEFINE e == Extracting
            p == PairBoundary(source, Len(list))
            k == Len(list)
            w == Len(WirePair(e))
            x == Len(e.name)
            y == Len(e.value)
<1>1. /\ pairs_pc = "extract" /\ Len(lengths) = 2
      /\ UNCHANGED <<pairsInput, current, next, environment_map, answer>>
  BY DEF ExtractData
<1>2. /\ e \in WirePairs /\ k < Len(source) /\ lengths[1] = x /\ lengths[2] = y
      /\ bytes_processed = p + LengthsOf(e)
      /\ x + y <= BytesLeft => /\ Taken(bytes_processed, lengths[1]) = e.name
                               /\ Taken(bytes_processed + lengths[1], lengths[2]) = e.value
  BY <1>1, DataRead
<1>3. /\ p \in Nat /\ BytesLeft \in Nat /\ BytesLeft = Len(content) - bytes_processed
      /\ Len(content) \in Nat /\ k \in Nat /\ Len(source) \in Nat /\ list \in Seq(ReceivedPair)
      /\ PairBoundary(source, k + 1) = p + w /\ source \in Seq(WirePairs)
  <2>1. Len(lengths) > 0
    BY <1>1
  <2>. QED
    BY <1>1, <2>1, ExtractFacts DEF BytesLeft
<1>4. /\ LengthsOf(e) \in Nat /\ LengthsOf(e) > 0 /\ x \in Nat /\ y \in Nat /\ w \in Nat
      /\ w = LengthsOf(e) + x + y
  <2>. DEFINE a == Len(NameField(e))
              b == Len(ValueField(e))
              l == LengthsOf(e)
  <2>1. /\ l \in Nat /\ x \in Nat /\ y \in Nat /\ w \in Nat
        /\ w = l + x + y /\ a \in {1, 4} /\ b \in {1, 4} /\ l = a + b
    BY <1>2, WirePairSize
  <2>2. l > 0
    <3>. HIDE DEF a, b, l
    <3>. QED
      BY <2>1
  <2>. QED
    BY <2>1, <2>2
<1>5. CASE lengths[1] + lengths[2] > BytesLeft
  <2>1. ErrorResult /\ UNCHANGED decodeVars
    BY <1>5 DEF ExtractData
  <2>2. p < Len(content) /\ Len(content) < p + w
    <3>. DEFINE l == LengthsOf(e)
                c == Len(content)
    <3>1. p \in Nat /\ c \in Nat /\ l \in Nat /\ l > 0 /\ x \in Nat /\ y \in Nat
          /\ x + y > BytesLeft /\ BytesLeft = c - bytes_processed /\ BytesLeft \in Nat
          /\ bytes_processed = p + l /\ w = l + x + y
      BY <1>2, <1>3, <1>4, <1>5
    <3>. HIDE DEF l, c, p, w, x, y
    <3>2. p < c /\ c < p + w
      BY <3>1
    <3>. QED
      BY <3>2 DEF c
  <2>. QED
    BY <1>1, <1>2, <2>1, <2>2, Incomplete
<1>6. CASE ~(lengths[1] + lengths[2] > BytesLeft)
  <2>1. x + y <= BytesLeft
    <3>1. ~(x + y > BytesLeft) /\ x \in Nat /\ y \in Nat /\ BytesLeft \in Nat
      BY <1>2, <1>3, <1>4, <1>6
    <3>. HIDE DEF x, y
    <3>. QED
      BY <3>1
  <2>. DEFINE r == [name |-> e.name, value |-> e.value]
  <2>2. /\ list' = Append(list, r) /\ lengths' = <<>> /\ pairs_pc' = "extract"
        /\ bytes_processed' = bytes_processed + x + y
    BY <1>1, <1>2, <1>6, <2>1 DEF ExtractData
  <2>3. r \in ReceivedPair
    BY <1>2 DEF WirePairs, Text, ByteValue, ReceivedPair
  <2>4. /\ list' \in Seq(ReceivedPair) /\ Len(list') = k + 1 /\ list'[k + 1] = r
        /\ \A j \in 1..k : list'[j] = list[j]
    <3>. HIDE DEF r, ReceivedPair
    <3>. QED
      BY <1>3, <2>2, <2>3
  <2>5. bytes_processed' = p + w /\ bytes_processed' \in 0..Len(content)
    <3>. DEFINE l == LengthsOf(e)
                c == Len(content)
    <3>1. /\ p \in Nat /\ c \in Nat /\ l \in Nat /\ x \in Nat /\ y \in Nat
          /\ x + y <= BytesLeft /\ BytesLeft = c - bytes_processed
          /\ bytes_processed = p + l /\ w = l + x + y
          /\ bytes_processed' = bytes_processed + x + y
      BY <1>2, <1>3, <1>4, <2>1, <2>2
    <3>. HIDE DEF l, c, p, w, x, y
    <3>2. bytes_processed' = p + w /\ bytes_processed' \in 0..c
      BY <3>1
    <3>. QED
      BY <3>2 DEF c
  <2>6. /\ source' = source /\ content' = content /\ caller' = caller
        /\ \A i : PairBoundary(source, i)' = PairBoundary(source, i)
        /\ current' = current /\ next' = next /\ environment_map' = environment_map
    BY <1>1, InputStep
  <2>7. /\ Len(list) <= Len(source) /\ current = 0 /\ next = 0
        /\ \A j \in 1..k : list[j] = [name |-> source[j].name, value |-> source[j].value]
    BY <1>1 DEF PairsInv, ExtractInv
  <2>8. ListInv'
    <3>1. <<>> \in Seq(Nat) /\ Len(<<>>) = 0
      OBVIOUS
    <3>2. caller = "PARAMS" => content # <<>>
      BY <1>1 DEF PairsInv, ListInv
    <3>3. current' \in 0..Len(list') /\ next' \in 0..Len(list') + 1
      BY <1>3, <2>4, <2>6, <2>7
    <3>. QED
      BY <2>2, <2>4, <2>5, <2>6, <3>1, <3>2, <3>3 DEF ListInv
  <2>9. ExtractInv'
    <3>1. Len(list') <= Len(source') /\ current' = 0 /\ next' = 0
      BY <1>2, <1>3, <2>4, <2>6, <2>7
    <3>2. ASSUME NEW j \in 1..Len(list')
          PROVE  list'[j] = [name |-> source'[j].name, value |-> source'[j].value]
      <4>1. CASE j = k + 1
        BY <2>4, <2>6, <4>1 DEF Extracting
      <4>2. CASE j # k + 1
        <5>1. j \in 1..k
          BY <1>3, <2>4, <4>2
        <5>. QED
          BY <2>4, <2>6, <2>7, <5>1
      <4>. QED
        BY <4>1, <4>2
    <3>3. Len(lengths') = 0
      BY <2>2
    <3>4. bytes_processed' = PairBoundary(source, Len(list))'
                               + LengthBytes(Extracting, Len(lengths))'
      <4>1. PairBoundary(source, Len(list))' = p + w
        BY <1>3, <2>4, <2>6 DEF PairBoundary
      <4>2. LengthBytes(Extracting, Len(lengths))' = 0
        BY <3>3 DEF LengthBytes
      <4>. QED
        BY <1>3, <1>4, <2>5, <4>1, <4>2
    <3>. QED
      BY <3>1, <3>2, <3>3, <3>4 DEF ExtractInv
  <2>. QED
    BY <1>1, <2>2, <2>8, <2>9, Extracted
<1>. QED
  BY <1>5, <1>6

LEMMA ReturnListStep ==
  ASSUME PairsInv, ReturnList
  PROVE  PairsInv'
<1>. DEFINE k == Len(list)
<1>1. /\ pairs_pc = "extract" /\ Len(lengths) = 0 /\ BytesLeft = 0 /\ pairs_pc' = "list"
      /\ UNCHANGED <<pairsInput, decodeVars, list, current, next, environment_map>>
  BY DEF ReturnList
<1>2. /\ source \in Seq(WirePairs) /\ list \in Seq(ReceivedPair) /\ k \in Nat /\ k <= Len(source)
      /\ Len(source) \in Nat /\ bytes_processed \in Nat /\ Len(content) \in Nat
      /\ PairBoundary(source, k) \in Nat
      /\ bytes_processed = PairBoundary(source, k) + LengthBytes(Extracting, 0)
  BY <1>1, ExtractFacts
<1>3. PairBoundary(source, k) = Len(content)
  BY <1>1, <1>2 DEF BytesLeft, LengthBytes
<1>4. Expected = [j \in 1..k |-> [name |-> source[j].name, value |-> source[j].value]]
      /\ Len(Expected) = k
  BY <1>2, <1>3, AfterPair
<1>5. \A j \in 1..k : list[j] = [name |-> source[j].name, value |-> source[j].value]
  BY <1>1 DEF PairsInv, ExtractInv
<1>6. list = Expected
  <2>. HIDE DEF ReceivedPair
  <2>. QED
    BY <1>2, <1>4, <1>5
<1>7. /\ list' = list /\ content' = content /\ bytes_processed' = bytes_processed
      /\ lengths' = lengths /\ current' = current /\ next' = next /\ caller' = caller
      /\ environment_map' = environment_map
  BY <1>1 DEF pairsInput, decodeVars
<1>8. ListInv'
  BY <1>1, <1>7 DEF PairsInv, ListInv
<1>9. ExtractInv'
  BY <1>1 DEF ExtractInv
<1>. QED
  BY <1>1, <1>6, <1>7, <1>8, <1>9, Extracted

LEMMA PairsInitial ==
  ASSUME PairsInit
  PROVE  PairsInv
<1>1. /\ source \in Sources /\ caller \in Callers /\ bytes_processed = 0 /\ lengths = <<>>
      /\ list = <<>> /\ current = 0 /\ next = 0 /\ environment_map = <<>>
      /\ pairs_pc = (IF caller = "PARAMS" /\ content = <<>> THEN "accepted" ELSE "extract")
  BY DEF PairsInit
<1>2. PICK cut \in 0..Len(Wire(source)) : content = SubSeq(Wire(source), 1, cut)
  BY DEF PairsInit
<1>3. source \in Seq(WirePairs) /\ caller \in {"PARAMS", "GET_VALUES"}
  BY <1>1, PairsAssumption
<1>4. /\ Wire(source) \in Seq(ByteValue) /\ Len(source) \in Nat
      /\ PairBoundary(source, 0) = 0
  BY <1>3, PairPositions
<1>5. /\ content \in Seq(ByteValue) /\ Len(content) = cut /\ Len(content) <= Len(Wire(source))
      /\ \A i \in 1..Len(content) : content[i] = Wire(source)[i]
  <2>. DEFINE s == Wire(source)
  <2>1. Len(s) \in Nat /\ cut \in Nat /\ cut <= Len(s) /\ s \in Seq(ByteValue)
    BY <1>4
  <2>. HIDE DEF s
  <2>2. content = SubSeq(s, 1, cut)
    BY <1>2 DEF s
  <2>3. content \in Seq(ByteValue) /\ Len(content) = cut /\ \A i \in 1..cut : content[i] = s[i]
    BY <2>1, <2>2
  <2>. QED
    BY <2>1, <2>3 DEF s
<1>6. InputInv
  BY <1>1, <1>3, <1>5 DEF InputInv
<1>7. Len(list) = 0 /\ Len(lengths) = 0 /\ Len(content) \in Nat
  BY <1>1, <1>5
<1>8. ListInv
  <2>1. list \in Seq(ReceivedPair) /\ lengths \in Seq(Nat)
    BY <1>1
  <2>2. bytes_processed \in 0..Len(content) /\ current \in 0..Len(list) /\ next \in 0..Len(list) + 1
    BY <1>1, <1>7
  <2>3. caller = "PARAMS" /\ pairs_pc \in {"extract", "list", "scan"} => content # <<>>
    BY <1>1
  <2>4. pairs_pc \in {"extract", "list", "scan", "accepted", "rejected", "answered"}
    BY <1>1
  <2>. QED
    BY <1>7, <2>1, <2>2, <2>3, <2>4 DEF ListInv
<1>9. ExtractInv
  <2>1. LengthBytes(Extracting, Len(lengths)) = 0
    BY <1>7 DEF LengthBytes
  <2>2. bytes_processed = PairBoundary(source, Len(list)) + LengthBytes(Extracting, Len(lengths))
    BY <1>1, <1>4, <1>7, <2>1
  <2>3. \A j \in 1..Len(list) : list[j] = [name |-> source[j].name, value |-> source[j].value]
    BY <1>7
  <2>. QED
    BY <1>1, <1>4, <1>7, <2>2, <2>3 DEF ExtractInv
<1>10. EnvironmentExact
  <2>1. CASE pairs_pc = "accepted"
    <3>1. content = <<>> /\ Len(content) = 0
      BY <1>1, <2>1
    <3>2. 0 \in 0..Len(source)
      BY <1>4
    <3>3. Expected = [j \in 1..0 |-> [name |-> source[j].name, value |-> source[j].value]]
      BY <1>3, <1>4, <3>1, <3>2, AfterPair
    <3>4. ToSet(Expected) = {}
      BY <3>3 DEF ToSet
    <3>5. DOMAIN environment_map = {}
      BY <1>1
    <3>6. pairs_pc # "rejected"
      BY <2>1
    <3>. QED
      BY <3>1, <3>4, <3>5, <3>6 DEF EnvironmentExact
  <2>2. CASE pairs_pc = "extract"
    BY <2>2 DEF EnvironmentExact
  <2>. QED
    BY <1>1, <2>1, <2>2
<1>11. ExtractExact /\ ScanInv /\ AnswerExact
  BY <1>1 DEF ExtractExact, ScanInv, AnswerExact
<1>. QED
  BY <1>1, <1>6, <1>8, <1>9, <1>10, <1>11 DEF PairsInv


-----------------------------------------------------------------------------
(* The order of names, and what std::sort makes of a list.                 *)

Names == Seq(ByteValue)

\* A name is less than another if it is a proper prefix of it, or has the smaller
\* byte at the first difference.
LessAt(a, b, k) ==
  /\ k \in Nat /\ k <= Len(a) /\ k < Len(b)
  /\ \A i \in 1..k : a[i] = b[i]
  /\ k = Len(a) \/ a[k + 1] < b[k + 1]

LEMMA PrefixEqual ==
  ASSUME NEW a \in Names, NEW b \in Names, NEW k \in Nat, k <= Len(a), k <= Len(b)
  PROVE  SubSeq(a, 1, k) = SubSeq(b, 1, k) <=> \A i \in 1..k : a[i] = b[i]
<1>. DEFINE s == SubSeq(a, 1, k)
            t == SubSeq(b, 1, k)
<1>1. /\ s \in Names /\ Len(s) = k /\ \A i \in 1..k : s[i] = a[i]
      /\ t \in Names /\ Len(t) = k /\ \A i \in 1..k : t[i] = b[i]
  BY DEF Names
<1>. HIDE DEF s, t
<1>2. s = t <=> \A i \in 1..k : s[i] = t[i]
  BY <1>1 DEF Names
<1>3. (\A i \in 1..k : s[i] = t[i]) <=> \A i \in 1..k : a[i] = b[i]
  BY <1>1
<1>. QED
  BY <1>2, <1>3 DEF s, t

LEMMA NameBytes ==
  ASSUME NEW a \in Names
  PROVE  Len(a) \in Nat /\ \A i \in 1..Len(a) : a[i] \in Nat
<1>1. Len(a) \in Nat /\ \A i \in 1..Len(a) : a[i] \in ByteValue
  BY DEF Names
<1>. QED
  BY <1>1, ByteFacts DEF ByteValue

LEMMA LessMeans ==
  ASSUME NEW a \in Names, NEW b \in Names
  PROVE  LessThan(a, b) <=> \E k \in Nat : LessAt(a, b, k)
<1>1. Len(a) \in Nat /\ Len(b) \in Nat
  BY NameBytes
<1>2. ASSUME LessThan(a, b) PROVE \E k \in Nat : LessAt(a, b, k)
  <2>1. PICK k \in 0..Len(a) :
          /\ k < Len(b) /\ SubSeq(a, 1, k) = SubSeq(b, 1, k)
          /\ k = Len(a) \/ a[k + 1] < b[k + 1]
    BY <1>2 DEF LessThan
  <2>2. k \in Nat /\ k <= Len(a) /\ k <= Len(b)
    BY <1>1, <2>1
  <2>3. \A i \in 1..k : a[i] = b[i]
    BY <2>1, <2>2, PrefixEqual
  <2>. QED
    BY <2>1, <2>2, <2>3 DEF LessAt
<1>3. ASSUME NEW k \in Nat, LessAt(a, b, k) PROVE LessThan(a, b)
  <2>1. k \in 0..Len(a) /\ k <= Len(a) /\ k <= Len(b)
    BY <1>1, <1>3 DEF LessAt
  <2>2. SubSeq(a, 1, k) = SubSeq(b, 1, k)
    BY <1>3, <2>1, PrefixEqual DEF LessAt
  <2>. QED
    BY <1>3, <2>1, <2>2 DEF LessThan, LessAt
<1>. QED
  BY <1>2, <1>3

LEMMA LessIrreflexive ==
  ASSUME NEW a \in Names
  PROVE  ~LessThan(a, a)
<1>1. Len(a) \in Nat /\ \A i \in 1..Len(a) : a[i] \in Nat
  BY NameBytes
<1>2. ASSUME NEW k \in Nat, LessAt(a, a, k) PROVE FALSE
  <2>1. k + 1 \in 1..Len(a) /\ k < Len(a) /\ (k = Len(a) \/ a[k + 1] < a[k + 1])
    BY <1>1, <1>2 DEF LessAt
  <2>2. a[k + 1] \in Nat
    BY <1>1, <2>1
  <2>. QED
    BY <1>1, <2>1, <2>2
<1>. QED
  BY <1>2, LessMeans

LEMMA LessTransitive ==
  ASSUME NEW a \in Names, NEW b \in Names, NEW c \in Names, LessThan(a, b), LessThan(b, c)
  PROVE  LessThan(a, c)
<1>1. /\ Len(a) \in Nat /\ Len(b) \in Nat /\ Len(c) \in Nat
      /\ \A i \in 1..Len(a) : a[i] \in Nat
      /\ \A i \in 1..Len(b) : b[i] \in Nat
      /\ \A i \in 1..Len(c) : c[i] \in Nat
  BY NameBytes
<1>2. PICK k \in Nat : LessAt(a, b, k)
  BY LessMeans
<1>3. PICK l \in Nat : LessAt(b, c, l)
  BY LessMeans
<1>4. /\ k <= Len(a) /\ k < Len(b) /\ \A i \in 1..k : a[i] = b[i]
      /\ k = Len(a) \/ a[k + 1] < b[k + 1]
  BY <1>2 DEF LessAt
<1>5. /\ l <= Len(b) /\ l < Len(c) /\ \A i \in 1..l : b[i] = c[i]
      /\ l = Len(b) \/ b[l + 1] < c[l + 1]
  BY <1>3 DEF LessAt
<1>6. CASE k < l
  <2>1. k <= Len(a) /\ k < Len(c) /\ k + 1 \in 1..l
    BY <1>1, <1>4, <1>5, <1>6
  <2>2. \A i \in 1..k : a[i] = c[i]
    BY <1>4, <1>5, <1>6
  <2>3. b[k + 1] = c[k + 1]
    BY <1>5, <2>1
  <2>4. LessAt(a, c, k)
    BY <1>4, <2>1, <2>2, <2>3 DEF LessAt
  <2>. QED
    BY <2>4, LessMeans
<1>7. CASE l < k
  <2>1. l <= Len(a) /\ l < Len(c) /\ l + 1 \in 1..k
    BY <1>1, <1>4, <1>5, <1>7
  <2>2. \A i \in 1..l : a[i] = c[i]
    BY <1>4, <1>5, <1>7
  <2>3. b[l + 1] = a[l + 1] /\ l # Len(b)
    BY <1>1, <1>4, <1>7, <2>1
  <2>4. LessAt(a, c, l)
    BY <1>5, <2>1, <2>2, <2>3 DEF LessAt
  <2>. QED
    BY <2>4, LessMeans
<1>8. CASE k = l
  <2>1. \A i \in 1..k : a[i] = c[i]
    BY <1>4, <1>5, <1>8
  <2>2. k <= Len(a) /\ k < Len(c) /\ k # Len(b)
    BY <1>1, <1>4, <1>5, <1>8
  <2>3. k = Len(a) \/ a[k + 1] < c[k + 1]
    <3>1. SUFFICES ASSUME k # Len(a) PROVE a[k + 1] < c[k + 1]
      OBVIOUS
    <3>2. a[k + 1] < b[k + 1] /\ b[k + 1] < c[k + 1]
      BY <1>4, <1>5, <1>8, <2>2, <3>1
    <3>3. k + 1 \in 1..Len(a) /\ k + 1 \in 1..Len(b) /\ k + 1 \in 1..Len(c)
      BY <1>1, <1>4, <2>2, <3>1
    <3>4. a[k + 1] \in Nat /\ b[k + 1] \in Nat /\ c[k + 1] \in Nat
      BY <1>1, <3>3
    <3>. QED
      BY <3>2, <3>4
  <2>4. LessAt(a, c, k)
    BY <2>1, <2>2, <2>3 DEF LessAt
  <2>. QED
    BY <2>4, LessMeans
<1>. QED
  BY <1>6, <1>7, <1>8

LEMMA LessTotal ==
  ASSUME NEW a \in Names, NEW b \in Names, a # b
  PROVE  LessThan(a, b) \/ LessThan(b, a)
<1>1. /\ Len(a) \in Nat /\ Len(b) \in Nat
      /\ \A i \in 1..Len(a) : a[i] \in Nat
      /\ \A i \in 1..Len(b) : b[i] \in Nat
  BY NameBytes
<1>. DEFINE D == {k \in Nat : k = Len(a) \/ k = Len(b) \/ a[k + 1] # b[k + 1]}
<1>2. PICK k \in D : \A m \in D : k <= m
  <2>1. Len(a) \in D
    BY <1>1
  <2>2. D \in SUBSET Nat
    OBVIOUS
  <2>. HIDE DEF D
  <2>. QED
    BY <2>1, <2>2, LeastNatural
<1>3. /\ k \in Nat /\ k <= Len(a) /\ k <= Len(b)
      /\ k = Len(a) \/ k = Len(b) \/ a[k + 1] # b[k + 1]
  BY <1>1, <1>2
<1>4. ASSUME NEW i \in 1..k PROVE a[i] = b[i]
  <2>1. i - 1 \in Nat /\ i - 1 < k /\ i - 1 + 1 = i
    BY <1>3
  <2>2. i - 1 \notin D
    <3>1. \A m \in D : k <= m
      BY <1>2
    <3>. HIDE DEF D
    <3>. QED
      BY <1>3, <2>1, <3>1
  <2>. QED
    BY <2>1, <2>2
<1>5. CASE k = Len(a)
  <2>1. k # Len(b)
    <3>1. SUFFICES ASSUME k = Len(b) PROVE FALSE
      OBVIOUS
    <3>2. a = b
      <4>1. a \in Seq(ByteValue) /\ b \in Seq(ByteValue) /\ Len(a) = Len(b)
        BY <1>5, <3>1 DEF Names
      <4>2. \A i \in 1..Len(a) : a[i] = b[i]
        BY <1>4, <1>5
      <4>. HIDE DEF ByteValue, D
      <4>. QED
        BY <4>1, <4>2
    <3>. QED
      BY <3>2
  <2>2. LessAt(a, b, k)
    BY <1>1, <1>3, <1>4, <1>5, <2>1 DEF LessAt
  <2>. QED
    BY <1>3, <2>2, LessMeans
<1>6. CASE k # Len(a) /\ k = Len(b)
  <2>1. LessAt(b, a, k)
    BY <1>1, <1>3, <1>4, <1>6 DEF LessAt
  <2>. QED
    BY <1>3, <2>1, LessMeans
<1>7. CASE k # Len(a) /\ k # Len(b)
  <2>1. k + 1 \in 1..Len(a) /\ k + 1 \in 1..Len(b) /\ k < Len(a) /\ k < Len(b)
    BY <1>1, <1>3, <1>7
  <2>2. a[k + 1] \in Nat /\ b[k + 1] \in Nat /\ a[k + 1] # b[k + 1]
    BY <1>1, <1>3, <1>7, <2>1
  <2>3. LessAt(a, b, k) \/ LessAt(b, a, k)
    BY <1>3, <1>4, <2>1, <2>2 DEF LessAt
  <2>. QED
    BY <1>3, <2>3, LessMeans
<1>. QED
  BY <1>5, <1>6, <1>7

LEMMA NotLessTransitive ==
  ASSUME NEW a \in Names, NEW b \in Names, NEW c \in Names,
         ~LessThan(b, a), ~LessThan(c, b)
  PROVE  ~LessThan(c, a)
<1>1. SUFFICES ASSUME LessThan(c, a) PROVE FALSE
  OBVIOUS
<1>2. a = b \/ LessThan(a, b)
  BY LessTotal
<1>3. LessThan(c, b)
  BY <1>1, <1>2, LessTransitive
<1>. QED
  BY <1>3


LEMMA NeighboursInOrder ==
  ASSUME NEW s \in Seq(ReceivedPair),
         \A i \in 1..Len(s) - 1 : ~LessThan(s[i + 1].name, s[i].name)
  PROVE  InOrder(s)
<1>1. Len(s) \in Nat /\ \A i \in 1..Len(s) : s[i].name \in Names
  <2>1. \A i \in 1..Len(s) : s[i] \in ReceivedPair
    <3>. HIDE DEF ReceivedPair
    <3>. QED
      OBVIOUS
  <2>. QED
    BY <2>1 DEF ReceivedPair, Names
<1>2. SUFFICES ASSUME NEW i \in 1..Len(s),
                      \E j \in 1..Len(s) : i < j /\ LessThan(s[j].name, s[i].name)
               PROVE  FALSE
  BY DEF InOrder
<1>. DEFINE D == {j \in 1..Len(s) : i < j /\ LessThan(s[j].name, s[i].name)}
<1>3. PICK j \in D : \A m \in D : j <= m
  <2>1. D \in SUBSET Nat /\ D # {}
    BY <1>1, <1>2, SMTT(30)
  <2>. HIDE DEF D
  <2>. QED
    BY <2>1, LeastNatural
<1>4. j \in 1..Len(s) /\ i < j /\ LessThan(s[j].name, s[i].name)
  BY <1>3
<1>5. j - 1 \in 1..Len(s) - 1 /\ j - 1 \in 1..Len(s) /\ j - 1 + 1 = j /\ i <= j - 1 /\ j - 1 < j
  BY <1>1, <1>4
<1>6. ~LessThan(s[j].name, s[j - 1].name)
  BY <1>5
<1>7. j - 1 \notin D
  <2>1. j \in Nat /\ \A m \in D : j <= m
    BY <1>3
  <2>. HIDE DEF D
  <2>. QED
    BY <1>5, <2>1
<1>8. CASE i = j - 1
  BY <1>4, <1>6, <1>8
<1>9. CASE i # j - 1
  <2>1. i < j - 1
    BY <1>5, <1>9
  <2>2. ~LessThan(s[j - 1].name, s[i].name)
    BY <1>5, <1>7, <2>1
  <2>3. s[i].name \in Names /\ s[j - 1].name \in Names /\ s[j].name \in Names
    BY <1>1, <1>4, <1>5
  <2>4. ~LessThan(s[j].name, s[i].name)
    BY <1>6, <2>2, <2>3, NotLessTransitive
  <2>. QED
    BY <1>4, <2>4
<1>. QED
  BY <1>8, <1>9

LEMMA SortedFacts ==
  ASSUME NEW pairs \in Seq(ReceivedPair), NEW s \in Sorted(pairs)
  PROVE  /\ s \in Seq(ReceivedPair) /\ Len(s) = Len(pairs)
         /\ ToSet(s) = ToSet(pairs) /\ InOrder(s)
<1>. DEFINE n == Len(pairs)
<1>1. n \in Nat /\ \A i \in 1..n : pairs[i] \in ReceivedPair
  <2>. HIDE DEF ReceivedPair
  <2>. QED
    OBVIOUS
<1>2. PICK o \in [1..n -> 1..n] :
        /\ \A i, j \in 1..n : o[i] = o[j] => i = j
        /\ s = [i \in 1..n |-> pairs[o[i]]]
        /\ \A i \in 1..n - 1 : ~LessThan(s[i + 1].name, s[i].name)
  BY DEF Sorted
<1>3. /\ s \in Seq(ReceivedPair) /\ Len(s) = n /\ DOMAIN s = 1..n
      /\ \A i \in 1..n : s[i] = pairs[o[i]]
  <2>1. s \in [1..n -> ReceivedPair]
    BY <1>1, <1>2
  <2>. HIDE DEF ReceivedPair
  <2>. QED
    BY <1>1, <1>2, <2>1
<1>4. \A t \in 1..n : \E i \in 1..n : o[i] = t
  <2>1. IsFiniteSet(1..n)
    BY <1>1, FS_Interval
  <2>2. o \in Injection(1..n, 1..n)
    BY <1>2 DEF Injection, IsInjective
  <2>3. o \in Surjection(1..n, 1..n)
    BY <2>1, <2>2, FS_Injection
  <2>. QED
    BY <2>3 DEF Surjection
<1>5. ToSet(s) = ToSet(pairs)
  <2>1. DOMAIN pairs = 1..n
    <3>. HIDE DEF ReceivedPair
    <3>. QED
      OBVIOUS
  <2>2. \A i \in 1..n : o[i] \in 1..n
    BY <1>2
  <2>3. ToSet(s) = {s[i] : i \in 1..n} /\ ToSet(pairs) = {pairs[i] : i \in 1..n}
    BY <1>3, <2>1 DEF ToSet
  <2>4. ASSUME NEW i \in 1..n PROVE s[i] \in {pairs[t] : t \in 1..n}
    BY <1>3, <2>2
  <2>5. ASSUME NEW t \in 1..n PROVE pairs[t] \in {s[i] : i \in 1..n}
    BY <1>3, <1>4, ZenonT(30)
  <2>. QED
    BY <2>3, <2>4, <2>5
<1>6. InOrder(s)
  BY <1>2, <1>3, NeighboursInOrder
<1>. QED
  BY <1>3, <1>5, <1>6

\* std::lower_bound finds a name if and only if it is there.
LEMMA RequestedMeans ==
  ASSUME NEW s \in Seq(ReceivedPair), InOrder(s), NEW name \in Names
  PROVE  Requested(s, name) <=> \E p \in ToSet(s) : p.name = name
<1>1. /\ Len(s) \in Nat /\ \A i \in 1..Len(s) : s[i].name \in Names
      /\ ToSet(s) = {s[i] : i \in 1..Len(s)}
  <2>1. (\A i \in 1..Len(s) : s[i] \in ReceivedPair) /\ Len(s) \in Nat /\ DOMAIN s = 1..Len(s)
    <3>. HIDE DEF ReceivedPair
    <3>. QED
      OBVIOUS
  <2>. QED
    BY <2>1 DEF ReceivedPair, Names, ToSet
<1>2. ASSUME Requested(s, name) PROVE \E p \in ToSet(s) : p.name = name
  <2>1. PICK k \in 1..Len(s) : s[k].name = name
    BY <1>2 DEF Requested
  <2>. QED
    BY <1>1, <2>1
<1>3. ASSUME \E p \in ToSet(s) : p.name = name PROVE Requested(s, name)
  <2>. DEFINE D == {i \in 1..Len(s) : s[i].name = name}
  <2>1. PICK k \in D : \A m \in D : k <= m
    <3>1. D \in SUBSET Nat /\ D # {}
      BY <1>1, <1>3
    <3>. HIDE DEF D
    <3>. QED
      BY <3>1, LeastNatural
  <2>2. k \in 1..Len(s) /\ s[k].name = name
    BY <2>1
  <2>3. ASSUME NEW i \in 1..k - 1 PROVE LessThan(s[i].name, name)
    <3>1. i \in 1..Len(s) /\ i < k
      BY <1>1, <2>2
    <3>2. i \notin D
      <4>1. k \in Nat /\ \A m \in D : k <= m
        BY <2>1
      <4>. HIDE DEF D
      <4>. QED
        BY <3>1, <4>1
    <3>3. s[i].name # name
      BY <3>1, <3>2
    <3>4. ~LessThan(name, s[i].name)
      BY <2>2, <3>1 DEF InOrder
    <3>. QED
      BY <1>1, <3>1, <3>3, <3>4, LessTotal
  <2>. QED
    BY <2>2, <2>3 DEF Requested
<1>. QED
  BY <1>2, <1>3


-----------------------------------------------------------------------------
(* ProcessFCGI_PARAMS.                                                     *)

LEMMA ExpectedType ==
  ASSUME InputInv
  PROVE  Expected \in Seq(ReceivedPair)
<1>1. source \in Seq(WirePairs)
  BY PairsAssumption DEF InputInv
<1>2. CASE Arrived = {}
  BY <1>2 DEF Expected
<1>3. CASE Arrived # {}
  <2>1. PICK k \in Arrived : TRUE
    BY <1>3
  <2>2. k \in 0..Len(source) /\ PairBoundary(source, k) = Len(content)
    BY <2>1 DEF Arrived
  <2>3. Expected = [j \in 1..k |-> [name |-> source[j].name, value |-> source[j].value]]
    BY <1>1, <2>2, AfterPair
  <2>4. Len(source) \in Nat /\ \A j \in 1..Len(source) : source[j] \in WirePairs
    BY <1>1, PairPositions
  <2>5. k \in Nat /\ \A j \in 1..k : j \in 1..Len(source)
    BY <2>2, <2>4
  <2>6. \A j \in 1..k :
          [name |-> source[j].name, value |-> source[j].value] \in ReceivedPair
    BY <2>4, <2>5 DEF WirePairs, Text, ByteValue, ReceivedPair
  <2>. HIDE DEF ReceivedPair
  <2>. QED
    BY <2>3, <2>5, <2>6
<1>. QED
  BY <1>2, <1>3

\* The steps that use the list leave what was received and extracted alone.
LEMMA UseStep ==
  ASSUME PairsInv, UNCHANGED <<pairsInput, decodeVars>>,
         pairs_pc' \in {"scan", "accepted", "rejected", "answered"},
         list' \in Seq(ReceivedPair),
         current' \in 0..Len(list') /\ next' \in 0..Len(list') + 1,
         caller = "PARAMS" => content # <<>>,
         ScanInv', EnvironmentExact', AnswerExact'
  PROVE  PairsInv'
<1>1. /\ InputInv' /\ content' = content /\ caller' = caller
      /\ bytes_processed' = bytes_processed /\ lengths' = lengths
  BY InputStep DEF decodeVars
<1>2. ListInv'
  <2>1. bytes_processed \in 0..Len(content) /\ lengths \in Seq(Nat) /\ Len(lengths) <= 2
    BY DEF PairsInv, ListInv
  <2>. QED
    BY <1>1, <2>1 DEF ListInv
<1>3. ExtractInv' /\ ExtractExact' /\ pairs_pc' \notin {"extract", "list"}
  BY DEF ExtractInv, ExtractExact
<1>. QED
  BY <1>1, <1>2, <1>3 DEF PairsInv

LEMMA ListPairs ==
  ASSUME NEW s \in Seq(ReceivedPair)
  PROVE  /\ Len(s) \in Nat /\ ToSet(s) = {s[i] : i \in 1..Len(s)}
         /\ \A i \in 1..Len(s) :
              /\ s[i].name \in Names
              /\ s[i] = [name |-> s[i].name, value |-> s[i].value]
         /\ s = <<>> <=> Len(s) = 0
<1>1. /\ \A i \in 1..Len(s) : s[i] \in ReceivedPair
      /\ Len(s) \in Nat /\ DOMAIN s = 1..Len(s) /\ (s = <<>> <=> Len(s) = 0)
  <2>. HIDE DEF ReceivedPair
  <2>. QED
    OBVIOUS
<1>. QED
  BY <1>1 DEF ReceivedPair, Names, ToSet

LEMMA ProcessParamsStep ==
  ASSUME PairsInv, ProcessParams
  PROVE  PairsInv'
<1>1. /\ pairs_pc = "list" /\ caller = "PARAMS" /\ list = Expected /\ content # <<>>
      /\ environment_map = <<>> /\ environment_map' = environment_map
      /\ UNCHANGED <<pairsInput, decodeVars>> /\ list \in Seq(ReceivedPair)
      /\ current \in 0..Len(list) /\ next \in 0..Len(list) + 1
  BY DEF PairsInv, ProcessParams, ListInv, ExtractExact
<1>2. Expected' = Expected /\ content' = content /\ caller' = caller
  BY <1>1, InputStep
<1>3. CASE list = <<>>
  <2>1. pairs_pc' = "rejected" /\ list' = list /\ current' = current /\ next' = next
    BY <1>3 DEF ProcessParams
  <2>2. ToSet(Expected) = {}
    BY <1>1, <1>3 DEF ToSet
  <2>3. ScanInv' /\ AnswerExact'
    BY <2>1 DEF ScanInv, AnswerExact
  <2>4. EnvironmentExact'
    BY <1>1, <1>2, <2>1, <2>2 DEF EnvironmentExact
  <2>. QED
    BY <1>1, <2>1, <2>3, <2>4, UseStep
<1>4. CASE list # <<>>
  <2>1. list' \in Sorted(list) /\ current' = 1 /\ next' = 2 /\ pairs_pc' = "scan"
    BY <1>4 DEF ProcessParams
  <2>2. /\ list' \in Seq(ReceivedPair) /\ Len(list') = Len(list)
        /\ ToSet(list') = ToSet(list) /\ InOrder(list')
    BY <1>1, <2>1, SortedFacts
  <2>3. Len(list) \in Nat /\ Len(list) # 0
    BY <1>1, <1>4, ListPairs
  <2>4. current' \in 0..Len(list') /\ next' \in 0..Len(list') + 1
    BY <2>1, <2>2, <2>3
  <2>5. list' # <<>>
    BY <2>2, <2>3, ListPairs
  <2>6. current' \in 1..Len(list') /\ next' \in current' + 1..Len(list') + 1
    BY <2>1, <2>2, <2>3
  <2>7. \A i \in current'..next' - 1 : list'[i] = list'[current']
    BY <2>1
  <2>8. \A i \in 1..current' - 1 : FALSE
    BY <2>1
  <2>9. DOMAIN environment_map' = {}
    BY <1>1
  <2>10. InOrder(list)'
    BY <2>2 DEF InOrder
  <2>11. ScanInv'
    BY <1>1, <1>2, <2>2, <2>5, <2>6, <2>7, <2>8, <2>9, <2>10 DEF ScanInv
  <2>12. EnvironmentExact' /\ AnswerExact'
    BY <2>1 DEF EnvironmentExact, AnswerExact
  <2>. QED
    BY <1>1, <2>1, <2>2, <2>4, <2>11, <2>12, UseStep
<1>. QED
  BY <1>3, <1>4

LEMMA ScanFacts ==
  ASSUME PairsInv, pairs_pc = "scan"
  PROVE  /\ caller = "PARAMS" /\ content # <<>> /\ list \in Seq(ReceivedPair)
         /\ Len(list) \in Nat /\ list # <<>>
         /\ ToSet(list) = ToSet(Expected) /\ ToSet(list) = {list[i] : i \in 1..Len(list)}
         /\ current \in 1..Len(list) /\ next \in Nat /\ current < next /\ next <= Len(list) + 1
         /\ list[current] \in ToSet(list)
         /\ \A i \in 1..Len(list) :
              /\ list[i].name \in Names
              /\ list[i] = [name |-> list[i].name, value |-> list[i].value]
<1>1. /\ caller = "PARAMS" /\ content # <<>> /\ list \in Seq(ReceivedPair) /\ list # <<>>
      /\ ToSet(list) = ToSet(Expected)
      /\ current \in 1..Len(list) /\ next \in current + 1..Len(list) + 1
  BY DEF PairsInv, ListInv, ScanInv
<1>2. /\ Len(list) \in Nat /\ ToSet(list) = {list[i] : i \in 1..Len(list)}
      /\ \A i \in 1..Len(list) :
           /\ list[i].name \in Names
           /\ list[i] = [name |-> list[i].name, value |-> list[i].value]
  BY <1>1, ListPairs
<1>3. next \in Nat /\ current < next /\ next <= Len(list) + 1
  BY <1>1, <1>2
<1>. QED
  BY <1>1, <1>2, <1>3

\* The environment after the pair at current was put into it.
LEMMA EmplaceFacts ==
  ASSUME PairsInv, pairs_pc = "scan"
  PROVE  LET env == Emplaced(environment_map, list[current])
         IN  /\ \A n \in DOMAIN env : \E i \in 1..next - 1 : list[i].name = n
             /\ \A i \in 1..next - 1 : /\ list[i].name \in DOMAIN env
                                       /\ env[list[i].name] = list[i].value
<1>. DEFINE env == Emplaced(environment_map, list[current])
            m == list[current].name
<1>1. /\ \A i \in current..next - 1 : list[i] = list[current]
      /\ \A i \in 1..current - 1 : /\ list[i].name \in DOMAIN environment_map
                                   /\ environment_map[list[i].name] = list[i].value
      /\ \A n \in DOMAIN environment_map : \E i \in 1..current - 1 : list[i].name = n
      /\ \A i \in 1..current - 1 : \A j \in current..Len(list) : list[i].name # list[j].name
  BY DEF PairsInv, ScanInv
<1>2. /\ Len(list) \in Nat /\ current \in 1..Len(list) /\ next \in Nat
      /\ current < next /\ next <= Len(list) + 1
  BY ScanFacts
<1>3. m \notin DOMAIN environment_map
  <2>1. current \in current..Len(list)
    BY <1>2
  <2>. QED
    BY <1>1, <2>1
<1>4. /\ DOMAIN env = DOMAIN environment_map \cup {m}
      /\ env[m] = list[current].value
      /\ \A n \in DOMAIN environment_map : n # m /\ env[n] = environment_map[n]
  BY <1>3 DEF Emplaced
<1>. HIDE DEF env
<1>5. current \in 1..next - 1 /\ \A i \in 1..current - 1 : i \in 1..next - 1
  BY <1>2
<1>6. ASSUME NEW n \in DOMAIN env PROVE \E i \in 1..next - 1 : list[i].name = n
  BY <1>1, <1>4, <1>5
<1>7. ASSUME NEW i \in 1..next - 1
      PROVE  list[i].name \in DOMAIN env /\ env[list[i].name] = list[i].value
  <2>1. i \in 1..current - 1 \/ i \in current..next - 1
    BY <1>2
  <2>2. CASE i \in 1..current - 1
    BY <1>1, <1>4, <2>2
  <2>3. CASE i \in current..next - 1
    BY <1>1, <1>4, <2>3
  <2>. QED
    BY <2>1, <2>2, <2>3
<1>. QED
  BY <1>6, <1>7 DEF env


\* A name that differs from that of the pair before it differs from all names
\* before it: the list is sorted.
LEMMA NewName ==
  ASSUME PairsInv, pairs_pc = "scan", next <= Len(list),
         list[current].name # list[next].name,
         NEW i \in 1..next - 1, NEW j \in next..Len(list)
  PROVE  list[i].name # list[j].name
<1>1. /\ Len(list) \in Nat /\ current \in 1..Len(list) /\ next \in Nat
      /\ current < next
      /\ \A k \in 1..Len(list) : list[k].name \in Names
  BY ScanFacts
<1>2. /\ \A k \in current..next - 1 : list[k] = list[current]
      /\ \A k \in 1..current - 1 : \A l \in current..Len(list) : list[k].name # list[l].name
      /\ InOrder(list)
  BY DEF PairsInv, ScanInv
<1>3. j \in current..Len(list) /\ next \in 1..Len(list) /\ j \in 1..Len(list)
  BY <1>1
<1>4. CASE i \in 1..current - 1
  BY <1>2, <1>3, <1>4
<1>5. CASE i \notin 1..current - 1
  <2>1. i \in current..next - 1
    BY <1>1, <1>5
  <2>2. list[i].name = list[current].name
    BY <1>2, <2>1
  <2>3. SUFFICES ASSUME list[j].name = list[current].name PROVE FALSE
    BY <2>2
  <2>4. ~LessThan(list[next].name, list[current].name)
    BY <1>1, <1>2, <1>3 DEF InOrder
  <2>5. j # next
    BY <2>3
  <2>6. next < j
    BY <1>1, <2>5
  <2>7. ~LessThan(list[j].name, list[next].name)
    BY <1>2, <1>3, <2>6 DEF InOrder
  <2>8. list[next].name \in Names /\ list[current].name \in Names
    BY <1>1, <1>3
  <2>. QED
    BY <2>3, <2>4, <2>7, <2>8, LessTotal
<1>. QED
  BY <1>4, <1>5

LEMMA ScanNextStep ==
  ASSUME PairsInv, ScanNext
  PROVE  PairsInv'
<1>1. /\ pairs_pc = "scan" /\ next <= Len(list) /\ list' = list
      /\ UNCHANGED <<pairsInput, decodeVars>>
  BY DEF ScanNext
<1>2. /\ caller = "PARAMS" /\ content # <<>> /\ list \in Seq(ReceivedPair)
      /\ Len(list) \in Nat /\ list # <<>>
      /\ ToSet(list) = ToSet(Expected) /\ ToSet(list) = {list[i] : i \in 1..Len(list)}
      /\ current \in 1..Len(list) /\ next \in Nat /\ current < next /\ next <= Len(list) + 1
      /\ \A i \in 1..Len(list) :
           list[i] = [name |-> list[i].name, value |-> list[i].value]
  BY <1>1, ScanFacts
<1>3. Expected' = Expected /\ content' = content /\ caller' = caller
  BY <1>1, InputStep
<1>4. /\ \A i \in current..next - 1 : list[i] = list[current]
      /\ \A i \in 1..current - 1 : /\ list[i].name \in DOMAIN environment_map
                                   /\ environment_map[list[i].name] = list[i].value
      /\ \A n \in DOMAIN environment_map : \E i \in 1..current - 1 : list[i].name = n
      /\ \A i \in 1..current - 1 : \A j \in current..Len(list) : list[i].name # list[j].name
      /\ InOrder(list)
  BY <1>1 DEF PairsInv, ScanInv
<1>5. next \in 1..Len(list)
  BY <1>1, <1>2
<1>6. CASE list[current].name = list[next].name /\ list[current].value = list[next].value
  <2>1. /\ next' = next + 1 /\ current' = current /\ environment_map' = environment_map
        /\ pairs_pc' = "scan"
    BY <1>1, <1>6 DEF ScanNext
  <2>2. list[next] = list[current]
    BY <1>2, <1>5, <1>6
  <2>3. \A i \in current'..next' - 1 : list'[i] = list'[current']
    <3>1. \A i \in current'..next' - 1 : i \in current..next - 1 \/ i = next
      BY <1>2, <2>1
    <3>. QED
      BY <1>1, <1>4, <2>1, <2>2, <3>1
  <2>4. /\ current' \in 1..Len(list') /\ next' \in current' + 1..Len(list') + 1
        /\ current' \in 0..Len(list') /\ next' \in 0..Len(list') + 1
    BY <1>1, <1>2, <2>1
  <2>5. InOrder(list)'
    BY <1>1, <1>4 DEF InOrder
  <2>6. ScanInv'
    <3>1. ToSet(list)' = ToSet(Expected)' /\ list' # <<>> /\ caller' = "PARAMS"
      BY <1>1, <1>2, <1>3
    <3>2. /\ \A i \in 1..current' - 1 : /\ list'[i].name \in DOMAIN environment_map'
                                        /\ environment_map'[list'[i].name] = list'[i].value
          /\ \A n \in DOMAIN environment_map' : \E i \in 1..current' - 1 : list'[i].name = n
          /\ \A i \in 1..current' - 1 : \A j \in current'..Len(list') :
               list'[i].name # list'[j].name
      BY <1>1, <1>4, <2>1
    <3>. QED
      BY <2>1, <2>3, <2>4, <2>5, <3>1, <3>2 DEF ScanInv
  <2>7. EnvironmentExact' /\ AnswerExact'
    BY <2>1 DEF EnvironmentExact, AnswerExact
  <2>. QED
    BY <1>1, <1>2, <2>1, <2>4, <2>6, <2>7, UseStep
<1>7. CASE list[current].name = list[next].name /\ list[current].value # list[next].value
  <2>1. /\ next' = next /\ current' = current /\ environment_map' = environment_map
        /\ pairs_pc' = "rejected"
    BY <1>7 DEF ScanNext
  <2>2. list[current] \in ToSet(Expected) /\ list[next] \in ToSet(Expected)
    BY <1>2, <1>5
  <2>3. \E p, q \in ToSet(Expected)' : p.name = q.name /\ p.value # q.value
    BY <1>3, <1>7, <2>2
  <2>4. EnvironmentExact'
    BY <1>2, <1>3, <2>1, <2>3 DEF EnvironmentExact
  <2>5. ScanInv' /\ AnswerExact'
    BY <2>1 DEF ScanInv, AnswerExact
  <2>6. current' \in 0..Len(list') /\ next' \in 0..Len(list') + 1
    BY <1>1, <1>2, <2>1
  <2>. QED
    BY <1>1, <1>2, <2>1, <2>4, <2>5, <2>6, UseStep
<1>8. CASE list[current].name # list[next].name
  <2>1. /\ environment_map' = Emplaced(environment_map, list[current])
        /\ current' = next /\ next' = next + 1 /\ pairs_pc' = "scan"
    BY <1>1, <1>8 DEF ScanNext
  <2>2. /\ \A n \in DOMAIN environment_map' : \E i \in 1..next - 1 : list[i].name = n
        /\ \A i \in 1..next - 1 : /\ list[i].name \in DOMAIN environment_map'
                                  /\ environment_map'[list[i].name] = list[i].value
    BY <1>1, <2>1, EmplaceFacts
  <2>3. \A i \in 1..next - 1 : \A j \in next..Len(list) : list[i].name # list[j].name
    BY <1>1, <1>8, NewName
  <2>4. \A i \in current'..next' - 1 : list'[i] = list'[current']
    <3>1. \A i \in current'..next' - 1 : i = next
      BY <1>2, <2>1
    <3>. QED
      BY <2>1, <3>1
  <2>5. /\ current' \in 1..Len(list') /\ next' \in current' + 1..Len(list') + 1
        /\ current' \in 0..Len(list') /\ next' \in 0..Len(list') + 1
    BY <1>1, <1>2, <1>5, <2>1
  <2>6. InOrder(list)'
    BY <1>1, <1>4 DEF InOrder
  <2>7. ScanInv'
    <3>1. ToSet(list)' = ToSet(Expected)' /\ list' # <<>> /\ caller' = "PARAMS"
      BY <1>1, <1>2, <1>3
    <3>2. /\ \A i \in 1..current' - 1 : /\ list'[i].name \in DOMAIN environment_map'
                                        /\ environment_map'[list'[i].name] = list'[i].value
          /\ \A n \in DOMAIN environment_map' : \E i \in 1..current' - 1 : list'[i].name = n
          /\ \A i \in 1..current' - 1 : \A j \in current'..Len(list') :
               list'[i].name # list'[j].name
      BY <1>1, <2>1, <2>2, <2>3
    <3>. QED
      BY <2>1, <2>4, <2>5, <2>6, <3>1, <3>2 DEF ScanInv
  <2>8. EnvironmentExact' /\ AnswerExact'
    BY <2>1 DEF EnvironmentExact, AnswerExact
  <2>. QED
    BY <1>1, <1>2, <2>1, <2>5, <2>7, <2>8, UseStep
<1>. QED
  BY <1>6, <1>7, <1>8

LEMMA ScanEndsStep ==
  ASSUME PairsInv, ScanEnds
  PROVE  PairsInv'
<1>. DEFINE env == environment_map'
<1>1. /\ pairs_pc = "scan" /\ next > Len(list) /\ list' = list /\ current' = current
      /\ next' = next /\ pairs_pc' = "accepted"
      /\ env = Emplaced(environment_map, list[current])
      /\ UNCHANGED <<pairsInput, decodeVars>>
  BY DEF ScanEnds
<1>2. /\ caller = "PARAMS" /\ content # <<>> /\ list \in Seq(ReceivedPair)
      /\ Len(list) \in Nat
      /\ ToSet(list) = ToSet(Expected) /\ ToSet(list) = {list[i] : i \in 1..Len(list)}
      /\ current \in 1..Len(list) /\ next \in Nat /\ next <= Len(list) + 1
      /\ list[current] \in ToSet(list)
      /\ \A i \in 1..Len(list) :
           list[i] = [name |-> list[i].name, value |-> list[i].value]
  BY <1>1, ScanFacts
<1>3. Expected' = Expected /\ content' = content /\ caller' = caller
  BY <1>1, InputStep
<1>4. next - 1 = Len(list)
  BY <1>1, <1>2
<1>5. /\ \A n \in DOMAIN env : \E i \in 1..Len(list) : list[i].name = n
      /\ \A i \in 1..Len(list) : /\ list[i].name \in DOMAIN env
                                 /\ env[list[i].name] = list[i].value
  BY <1>1, <1>4, EmplaceFacts
<1>. DEFINE pairs == ToSet(Expected)
<1>6. pairs # {}
  BY <1>2
<1>7. \A p, q \in pairs : p.name = q.name => p.value = q.value
  <2>1. ASSUME NEW p \in pairs PROVE p.value = env[p.name]
    <3>1. PICK i \in 1..Len(list) : p = list[i]
      BY <1>2
    <3>. QED
      BY <1>5, <3>1
  <2>. QED
    BY <2>1
<1>8. pairs = {[name |-> n, value |-> env[n]] : n \in DOMAIN env}
  <2>1. ASSUME NEW i \in 1..Len(list)
        PROVE  list[i] \in {[name |-> n, value |-> env[n]] : n \in DOMAIN env}
    <3>1. list[i] = [name |-> list[i].name, value |-> env[list[i].name]]
      BY <1>2, <1>5, ZenonT(30)
    <3>2. list[i].name \in DOMAIN env
      BY <1>5
    <3>. QED
      BY <3>1, <3>2, Zenon
  <2>2. ASSUME NEW n \in DOMAIN env
        PROVE  [name |-> n, value |-> env[n]] \in pairs
    <3>1. PICK i \in 1..Len(list) : list[i].name = n
      BY <1>5
    <3>2. env[n] = list[i].value
      BY <1>5, <3>1
    <3>3. list[i] = [name |-> list[i].name, value |-> list[i].value]
      BY <1>2
    <3>4. list[i] = [name |-> n, value |-> env[n]]
      BY <3>1, <3>2, <3>3, Zenon
    <3>5. list[i] \in pairs
      BY <1>2
    <3>. QED
      BY <3>4, <3>5, Zenon
  <2>3. \A p \in pairs : \E i \in 1..Len(list) : p = list[i]
    BY <1>2
  <2>4. \A p \in pairs : p \in {[name |-> n, value |-> env[n]] : n \in DOMAIN env}
    BY <2>1, <2>3, Zenon
  <2>. HIDE DEF pairs
  <2>5. \A p \in {[name |-> n, value |-> env[n]] : n \in DOMAIN env} : p \in pairs
    BY <2>2
  <2>. QED
    BY <2>4, <2>5, Zenon
<1>9. EnvironmentExact'
  <2>1. pairs' = pairs
    BY <1>3
  <2>. HIDE DEF pairs
  <2>2. /\ pairs' # {}
        /\ ~(\E p, q \in pairs' : p.name = q.name /\ p.value # q.value)
        /\ pairs' = {[name |-> n, value |-> environment_map'[n]] : n \in DOMAIN environment_map'}
    BY <1>6, <1>7, <1>8, <2>1
  <2>. QED
    BY <1>1, <2>2 DEF EnvironmentExact, pairs
<1>10. ScanInv' /\ AnswerExact'
  BY <1>1 DEF ScanInv, AnswerExact
<1>11. current' \in 0..Len(list') /\ next' \in 0..Len(list') + 1
  BY <1>1, <1>2
<1>. QED
  BY <1>1, <1>2, <1>9, <1>10, <1>11, UseStep


-----------------------------------------------------------------------------
(* SendGetValuesResult.                                                    *)

\* f gives the decimal digits of the numbers up to c.
Digits(f, c) ==
  /\ f \in [0..c -> Seq(Nat)]
  /\ \A n \in 0..c : f[n] = IF n < 10 THEN <<48 + n>>
                             ELSE Append(f[n \div 10], 48 + (n % 10))

\* A number of two digits or more is greater than the number without its last one.
LEMMA DigitsExist ==
  ASSUME NEW c \in Nat
  PROVE  \E f : Digits(f, c)
<1>. DEFINE Bad == {k \in Nat : \A f : ~Digits(f, k)}
<1>1. SUFFICES ASSUME Bad # {} PROVE FALSE
  OBVIOUS
<1>2. PICK k \in Bad : \A m \in Bad : k <= m
  <2>1. Bad \in SUBSET Nat
    OBVIOUS
  <2>. HIDE DEF Bad
  <2>. QED
    BY <1>1, <2>1, LeastNatural
<1>3. k \in Nat /\ \A f : ~Digits(f, k)
  BY <1>2
<1>4. CASE k = 0
  <2>. DEFINE f == [n \in 0..0 |-> <<48>>]
  <2>1. /\ f \in [0..0 -> Seq(Nat)]
        /\ \A n \in 0..0 : f[n] = <<48 + n>> /\ n < 10
    OBVIOUS
  <2>2. Digits(f, 0)
    <3>. HIDE DEF f
    <3>. QED
      BY <2>1 DEF Digits
  <2>. QED
    BY <1>3, <1>4, <2>2
<1>5. CASE k # 0
  <2>1. k - 1 \notin Bad
    <3>1. k \in Nat /\ \A m \in Bad : k <= m
      BY <1>2
    <3>. HIDE DEF Bad
    <3>. QED
      BY <3>1
  <2>2. PICK f : Digits(f, k - 1)
    BY <1>3, <1>5, <2>1
  <2>3. /\ f \in [0..k - 1 -> Seq(Nat)]
        /\ \A n \in 0..k - 1 : f[n] = IF n < 10 THEN <<48 + n>>
                                       ELSE Append(f[n \div 10], 48 + (n % 10))
    BY <2>2 DEF Digits
  <2>. DEFINE last == IF k < 10 THEN <<48 + k>> ELSE Append(f[k \div 10], 48 + (k % 10))
              g == [n \in 0..k |-> IF n = k THEN last ELSE f[n]]
  <2>4. \A n \in 0..k : ~(n < 10) => n \div 10 \in 0..k - 1 /\ n \div 10 # k /\ n % 10 \in Nat
    BY <1>3
  <2>5. last \in Seq(Nat)
    <3>1. CASE k < 10
      BY <1>3, <3>1
    <3>2. CASE ~(k < 10)
      <4>1. k \div 10 \in 0..k - 1 /\ 48 + (k % 10) \in Nat
        BY <1>3, <2>4, <3>2
      <4>2. f[k \div 10] \in Seq(Nat)
        BY <2>3, <4>1
      <4>. QED
        BY <3>2, <4>1, <4>2
    <3>. QED
      BY <3>1, <3>2
  <2>. HIDE DEF last
  <2>6. g \in [0..k -> Seq(Nat)]
    <3>1. \A n \in 0..k : n # k => n \in 0..k - 1
      BY <1>3
    <3>. QED
      BY <2>3, <2>5, <3>1
  <2>7. ASSUME NEW n \in 0..k
        PROVE  g[n] = IF n < 10 THEN <<48 + n>> ELSE Append(g[n \div 10], 48 + (n % 10))
    <3>1. ~(n < 10) => g[n \div 10] = f[n \div 10]
      <4>1. ~(n < 10) => n \div 10 \in 0..k /\ n \div 10 # k
        BY <1>3, <2>4
      <4>. QED
        BY <4>1
    <3>2. CASE n = k
      <4>1. g[n] = last
        BY <3>2
      <4>. HIDE DEF g
      <4>. QED
        BY <3>1, <3>2, <4>1 DEF last
    <3>3. CASE n # k
      <4>1. n \in 0..k - 1 /\ g[n] = f[n]
        BY <1>3, <3>3
      <4>. HIDE DEF g
      <4>. QED
        BY <2>3, <3>1, <4>1
    <3>. QED
      BY <3>2, <3>3
  <2>8. Digits(g, k)
    <3>. HIDE DEF g
    <3>. QED
      BY <2>6, <2>7 DEF Digits
  <2>. QED
    BY <1>3, <2>8
<1>. QED
  BY <1>4, <1>5

LEMMA OneMoreDigit ==
  ASSUME NEW c \in Nat, NEW f, Digits(f, c), NEW b \in Nat, NEW k \in Nat, k >= 1,
         \A n \in 0..c : n < b => Len(f[n]) <= k
  PROVE  \A n \in 0..c : n < 10 * b => Len(f[n]) <= k + 1
<1>. SUFFICES ASSUME NEW n \in 0..c, n < 10 * b
              PROVE  Len(f[n]) <= k + 1
  OBVIOUS
<1>1. CASE n < 10
  <2>1. f[n] = <<48 + n>>
    BY <1>1 DEF Digits
  <2>. QED
    BY <2>1
<1>2. CASE ~(n < 10)
  <2>1. n \div 10 \in 0..c /\ n \div 10 < b
    BY <1>2
  <2>2. f[n] = Append(f[n \div 10], 48 + (n % 10)) /\ f[n \div 10] \in Seq(Nat)
    BY <1>2, <2>1 DEF Digits
  <2>3. Len(f[n]) = Len(f[n \div 10]) + 1 /\ Len(f[n \div 10]) \in Nat
    BY <2>2
  <2>4. Len(f[n \div 10]) <= k
    BY <2>1
  <2>. QED
    BY <2>3, <2>4
<1>. QED
  BY <1>1, <1>2

LEMMA BelowTenDigits == INT_MAX \in Nat /\ INT_MAX > 1 /\ INT_MAX < 100000 * 100000
BY SMT DEF INT_MAX

\* An integer of 32 bits has ten digits at most.
LEMMA DecimalDigits ==
  ASSUME NEW c \in 0..INT_MAX
  PROVE  /\ ToUnsignedCharacterVector(c) \in Seq(Nat)
         /\ Len(ToUnsignedCharacterVector(c)) <= 10
<1>. DEFINE d1 == 10
            d2 == 10 * d1
            d3 == 10 * d2
            d4 == 10 * d3
            d5 == 10 * d4
            d6 == 10 * d5
            d7 == 10 * d6
            d8 == 10 * d7
            d9 == 10 * d8
            d10 == 10 * d9
<1>1. c \in Nat /\ c < d10
  <2>1. d5 = 100000
    OBVIOUS
  <2>. HIDE DEF d5
  <2>2. d10 = 100000 * d5
    BY <2>1
  <2>. HIDE DEF d10
  <2>3. d10 > INT_MAX /\ d10 \in Nat /\ INT_MAX \in Nat
    BY <2>1, <2>2, BelowTenDigits
  <2>. QED
    BY <2>3
<1>. HIDE DEF d1, d2, d3, d4, d5, d6, d7, d8, d9, d10
<1>. DEFINE f == CHOOSE f : f = [n \in 0..c |-> IF n < 10 THEN <<48 + n>>
                                  ELSE Append(f[n \div 10], 48 + (n % 10))]
<1>2. ToUnsignedCharacterVector(c) = f[c]
  BY DEF ToUnsignedCharacterVector
<1>3. Digits(f, c)
  <2>1. PICK g : Digits(g, c)
    BY <1>1, DigitsExist
  <2>2. g = [n \in 0..c |-> IF n < 10 THEN <<48 + n>>
                             ELSE Append(g[n \div 10], 48 + (n % 10))]
    BY <2>1 DEF Digits
  <2>3. f = [n \in 0..c |-> IF n < 10 THEN <<48 + n>>
                             ELSE Append(f[n \div 10], 48 + (n % 10))]
    BY <2>2
  <2>. HIDE DEF f
  <2>4. \A n \in 0..c : f[n] = IF n < 10 THEN <<48 + n>>
                               ELSE Append(f[n \div 10], 48 + (n % 10))
    BY <2>3
  <2>5. \A n \in 0..c : f[n] \in Seq(Nat)
    <3>. DEFINE Bad == {n \in 0..c : f[n] \notin Seq(Nat)}
    <3>1. SUFFICES ASSUME Bad # {} PROVE FALSE
      OBVIOUS
    <3>2. PICK n \in Bad : \A m \in Bad : n <= m
      <4>1. Bad \in SUBSET Nat
        OBVIOUS
      <4>. HIDE DEF Bad
      <4>. QED
        BY <3>1, <4>1, LeastNatural
    <3>3. n \in 0..c /\ n \in Nat /\ f[n] \notin Seq(Nat)
      BY <3>2
    <3>4. CASE n < 10
      <4>1. f[n] = <<48 + n>>
        <5>. HIDE DEF Bad
        <5>. QED
          BY <2>4, <3>3, <3>4
      <4>3. 48 + n \in Nat
        BY <3>3
      <4>2. <<48 + n>> \in Seq(Nat)
        BY <4>3
      <4>. QED
        BY <3>3, <4>1, <4>2
    <3>5. CASE ~(n < 10)
      <4>1. n \div 10 \in 0..c /\ ~(n <= n \div 10) /\ 48 + (n % 10) \in Nat
        BY <3>3, <3>5
      <4>2. n \div 10 \notin Bad
        <5>1. \A m \in Bad : n <= m
          BY <3>2
        <5>. HIDE DEF Bad
        <5>. QED
          BY <4>1, <5>1
      <4>3. f[n \div 10] \in Seq(Nat)
        BY <4>1, <4>2
      <4>4. f[n] = Append(f[n \div 10], 48 + (n % 10))
        BY <2>4, <3>3, <3>5
      <4>5. f[n] \in Seq(Nat)
        BY <4>1, <4>3, <4>4
      <4>. QED
        BY <3>3, <4>5
    <3>. QED
      BY <3>4, <3>5
  <2>. QED
    BY <2>3, <2>4, <2>5 DEF Digits
<1>. HIDE DEF f
<1>4. d1 \in Nat /\ \A n \in 0..c : n < d1 => Len(f[n]) <= 1
  <2>1. ASSUME NEW n \in 0..c, n < 10 PROVE Len(f[n]) <= 1
    <3>1. f[n] = <<48 + n>>
      BY <1>3, <2>1 DEF Digits
    <3>2. Len(<<48 + n>>) = 1
      OBVIOUS
    <3>. QED
      BY <3>1, <3>2
  <2>. QED
    BY <2>1 DEF d1
<1>5. d2 \in Nat /\ \A n \in 0..c : n < d2 => Len(f[n]) <= 2
  <2>1. d2 \in Nat /\ d2 = 10 * d1
    BY <1>4 DEF d2
  <2>2. \A n \in 0..c : n < 10 * d1 => Len(f[n]) <= 1 + 1
    BY <1>1, <1>3, <1>4, OneMoreDigit
  <2>. QED
    BY <2>1, <2>2
<1>6. d3 \in Nat /\ \A n \in 0..c : n < d3 => Len(f[n]) <= 3
  <2>1. d3 \in Nat /\ d3 = 10 * d2
    BY <1>5 DEF d3
  <2>2. \A n \in 0..c : n < 10 * d2 => Len(f[n]) <= 2 + 1
    BY <1>1, <1>3, <1>5, OneMoreDigit
  <2>. QED
    BY <2>1, <2>2
<1>7. d4 \in Nat /\ \A n \in 0..c : n < d4 => Len(f[n]) <= 4
  <2>1. d4 \in Nat /\ d4 = 10 * d3
    BY <1>6 DEF d4
  <2>2. \A n \in 0..c : n < 10 * d3 => Len(f[n]) <= 3 + 1
    BY <1>1, <1>3, <1>6, OneMoreDigit
  <2>. QED
    BY <2>1, <2>2
<1>8. d5 \in Nat /\ \A n \in 0..c : n < d5 => Len(f[n]) <= 5
  <2>1. d5 \in Nat /\ d5 = 10 * d4
    BY <1>7 DEF d5
  <2>2. \A n \in 0..c : n < 10 * d4 => Len(f[n]) <= 4 + 1
    BY <1>1, <1>3, <1>7, OneMoreDigit
  <2>. QED
    BY <2>1, <2>2
<1>9. d6 \in Nat /\ \A n \in 0..c : n < d6 => Len(f[n]) <= 6
  <2>1. d6 \in Nat /\ d6 = 10 * d5
    BY <1>8 DEF d6
  <2>2. \A n \in 0..c : n < 10 * d5 => Len(f[n]) <= 5 + 1
    BY <1>1, <1>3, <1>8, OneMoreDigit
  <2>. QED
    BY <2>1, <2>2
<1>10. d7 \in Nat /\ \A n \in 0..c : n < d7 => Len(f[n]) <= 7
  <2>1. d7 \in Nat /\ d7 = 10 * d6
    BY <1>9 DEF d7
  <2>2. \A n \in 0..c : n < 10 * d6 => Len(f[n]) <= 6 + 1
    BY <1>1, <1>3, <1>9, OneMoreDigit
  <2>. QED
    BY <2>1, <2>2
<1>11. d8 \in Nat /\ \A n \in 0..c : n < d8 => Len(f[n]) <= 8
  <2>1. d8 \in Nat /\ d8 = 10 * d7
    BY <1>10 DEF d8
  <2>2. \A n \in 0..c : n < 10 * d7 => Len(f[n]) <= 7 + 1
    BY <1>1, <1>3, <1>10, OneMoreDigit
  <2>. QED
    BY <2>1, <2>2
<1>12. d9 \in Nat /\ \A n \in 0..c : n < d9 => Len(f[n]) <= 9
  <2>1. d9 \in Nat /\ d9 = 10 * d8
    BY <1>11 DEF d9
  <2>2. \A n \in 0..c : n < 10 * d8 => Len(f[n]) <= 8 + 1
    BY <1>1, <1>3, <1>11, OneMoreDigit
  <2>. QED
    BY <2>1, <2>2
<1>13. d10 \in Nat /\ \A n \in 0..c : n < d10 => Len(f[n]) <= 10
  <2>1. d10 \in Nat /\ d10 = 10 * d9
    BY <1>12 DEF d10
  <2>2. \A n \in 0..c : n < 10 * d9 => Len(f[n]) <= 9 + 1
    BY <1>1, <1>3, <1>12, OneMoreDigit
  <2>. QED
    BY <2>1, <2>2
<1>14. f[c] \in Seq(Nat) /\ Len(f[c]) <= 10
  <2>1. c \in 0..c
    BY <1>1
  <2>2. Len(f[c]) <= 10
    BY <1>1, <1>13, <2>1
  <2>. QED
    BY <1>3, <2>1, <2>2 DEF Digits
<1>. QED
  BY <1>2, <1>14


LEMMA BytesAreNumbers ==
  ASSUME NEW s \in Seq(ByteValue)
  PROVE  s \in Seq(Nat)
<1>1. \A b \in ByteValue : b \in Nat
  BY ByteFacts DEF ByteValue
<1>2. Len(s) \in Nat /\ s \in [1..Len(s) -> ByteValue]
  <2>. HIDE DEF ByteValue
  <2>. QED
    OBVIOUS
<1>3. s \in [1..Len(s) -> Nat]
  BY <1>1, <1>2
<1>. QED
  BY <1>2, <1>3

LEMMA ShortLengths ==
  ASSUME NEW n \in 0..15
  PROVE  EncodeLength(n) \in Seq(Nat) /\ Len(EncodeLength(n)) \in {1, 4}
<1>1. Byte \in Nat /\ Byte >= 10 /\ Half \in Nat /\ Half >= 1
  BY ByteFacts, PairsAssumption
<1>. DEFINE b2 == Byte * Byte
            b3 == Byte * Byte * Byte
<1>2. b2 \in Nat /\ b2 >= 10 * Byte
  BY <1>1
<1>3. b3 \in Nat /\ b3 >= 10 * b2
  <2>1. b3 = b2 * Byte
    OBVIOUS
  <2>. HIDE DEF b2, b3
  <2>. QED
    BY <1>1, <1>2, <2>1
<1>4. kNameValuePairFourByteLength \in Nat /\ kNameValuePairFourByteLength = Half * b3 - 1
  BY LengthFacts
<1>. HIDE DEF b2, b3
<1>5. Half * b3 >= b3
  BY <1>1, <1>3
<1>6. n \in 0..kNameValuePairFourByteLength
  <2>. DEFINE h == Half * b3
  <2>1. h >= b3 /\ kNameValuePairFourByteLength = h - 1
    BY <1>4, <1>5
  <2>2. b3 \in Nat /\ b3 >= 100
    BY <1>1, <1>2, <1>3
  <2>3. h \in Nat
    BY <1>1, <1>3
  <2>. HIDE DEF h
  <2>. QED
    BY <2>1, <2>2, <2>3
<1>7. EncodeLength(n) \in Seq(ByteValue) /\ Len(EncodeLength(n)) \in {1, 4}
  BY <1>6, LengthForms DEF ByteValue
<1>. QED
  BY <1>7, BytesAreNumbers

\* A variable takes 33 bytes at most.
LEMMA ResultPairFacts ==
  ASSUME NEW chosen, NEW i \in 1..3
  PROVE  ResultPair(chosen, i) \in Seq(Nat) /\ Len(ResultPair(chosen, i)) <= 33
<1>1. CASE i \notin chosen
  BY <1>1 DEF ResultPair
<1>2. CASE i \in chosen
  <2>. DEFINE a == Known[i]
              b == KnownValue(i)
              n == EncodeLength(Len(a))
              v == EncodeLength(Len(b))
  <2>1. a \in Seq(Nat) /\ Len(a) \in 0..15
    <3>1. a \in Seq(ByteValue) /\ Len(a) <= 15
      BY PairsAssumption DEF ByteValue
    <3>. HIDE DEF a
    <3>2. Len(a) \in Nat
      BY <3>1
    <3>3. a \in Seq(Nat)
      BY <3>1, BytesAreNumbers
    <3>4. Len(a) \in 0..15
      <4>. DEFINE l == Len(a)
      <4>1. l \in Nat /\ l <= 15
        BY <3>1, <3>2
      <4>. HIDE DEF l
      <4>2. l \in 0..15
        BY <4>1
      <4>. QED
        BY <4>2 DEF l
    <3>. QED
      BY <3>3, <3>4
  <2>2. b \in Seq(Nat) /\ Len(b) \in 0..15
    <3>1. /\ MaxConnections \in 0..INT_MAX /\ MaxRequests \in 0..INT_MAX
          /\ (IF MaxRequests > 1 THEN 1 ELSE 0) \in 0..INT_MAX
      BY PairsAssumption, BelowTenDigits
    <3>2. \A c \in 0..INT_MAX : /\ ToUnsignedCharacterVector(c) \in Seq(Nat)
                                /\ Len(ToUnsignedCharacterVector(c)) <= 10
      BY DecimalDigits
    <3>3. i = 1 \/ i = 2 \/ i = 3
      OBVIOUS
    <3>4. b \in Seq(Nat) /\ Len(b) <= 10
      BY <3>1, <3>2, <3>3 DEF KnownValue
    <3>. HIDE DEF b
    <3>5. Len(b) \in Nat
      BY <3>4
    <3>6. Len(b) \in 0..15
      <4>. DEFINE l == Len(b)
      <4>1. l \in Nat /\ l <= 10
        BY <3>4, <3>5
      <4>. HIDE DEF l
      <4>2. l \in 0..15
        BY <4>1
      <4>. QED
        BY <4>2 DEF l
    <3>. QED
      BY <3>4, <3>6
  <2>3. ResultPair(chosen, i) = n \o v \o a \o b
    BY <1>2 DEF ResultPair, EncodePair, KnownPair
  <2>4. n \in Seq(Nat) /\ v \in Seq(Nat) /\ Len(n) \in {1, 4} /\ Len(v) \in {1, 4}
    BY <2>1, <2>2, ShortLengths
  <2>. HIDE DEF n, v, a, b
  <2>5. FollowOneAnother(n \o v \o a \o b, Nat, n, v, a, b)
    BY <2>1, <2>2, <2>4, FourParts, Zenon
  <2>6. /\ ResultPair(chosen, i) \in Seq(Nat)
        /\ Len(ResultPair(chosen, i)) = Len(n) + Len(v) + Len(a) + Len(b)
    BY <2>3, <2>5 DEF FollowOneAnother
  <2>7. Len(ResultPair(chosen, i)) <= 33
    <3>. DEFINE ln == Len(n)
                lv == Len(v)
                la == Len(a)
                lb == Len(b)
                lr == Len(ResultPair(chosen, i))
    <3>1. ln \in {1, 4} /\ lv \in {1, 4} /\ la \in 0..15 /\ lb \in 0..15
      BY <2>1, <2>2, <2>4
    <3>2. lb <= 10
      <4>1. \A c \in 0..INT_MAX : Len(ToUnsignedCharacterVector(c)) <= 10
        BY DecimalDigits
      <4>2. /\ MaxConnections \in 0..INT_MAX /\ MaxRequests \in 0..INT_MAX
            /\ (IF MaxRequests > 1 THEN 1 ELSE 0) \in 0..INT_MAX
        BY PairsAssumption, BelowTenDigits
      <4>3. i = 1 \/ i = 2 \/ i = 3
        OBVIOUS
      <4>. QED
        BY <4>1, <4>2, <4>3 DEF KnownValue, b
    <3>3. lr = ln + lv + la + lb
      BY <2>6
    <3>. HIDE DEF ln, lv, la, lb, lr
    <3>4. lr <= 33
      BY <3>1, <3>2, <3>3
    <3>. QED
      BY <3>4 DEF lr
  <2>. QED
    BY <2>6, <2>7
<1>. QED
  BY <1>1, <1>2

LEMMA ResultPairsFacts ==
  ASSUME NEW chosen
  PROVE  /\ ResultPairs(chosen) \in Seq(Nat) /\ Len(ResultPairs(chosen)) \in Nat
         /\ Len(ResultPairs(chosen)) < Byte * Byte
<1>. DEFINE a == ResultPair(chosen, 1)
            b == ResultPair(chosen, 2)
            c == ResultPair(chosen, 3)
            r == a \o b \o c
<1>1. /\ a \in Seq(Nat) /\ b \in Seq(Nat) /\ c \in Seq(Nat)
      /\ Len(a) <= 33 /\ Len(b) <= 33 /\ Len(c) <= 33
  BY ResultPairFacts
<1>. HIDE DEF a, b, c
<1>2. r \in Seq(Nat) /\ Len(r) = Len(a) + Len(b) + Len(c)
  BY <1>1, ThreeParts
<1>. HIDE DEF r
<1>3. Len(r) \in Nat /\ Len(r) <= 99
  <2>. DEFINE x == Len(a)
              y == Len(b)
              z == Len(c)
              l == Len(r)
  <2>1. x \in Nat /\ y \in Nat /\ z \in Nat /\ x <= 33 /\ y <= 33 /\ z <= 33 /\ l = x + y + z
    BY <1>1, <1>2
  <2>. HIDE DEF x, y, z, l
  <2>2. l \in Nat /\ l <= 99
    BY <2>1
  <2>. QED
    BY <2>2 DEF l
<1>4. Byte * Byte \in Nat /\ Byte * Byte > 99
  <2>1. Byte \in Nat /\ Byte >= 10
    BY ByteFacts, PairsAssumption
  <2>. QED
    BY <2>1
<1>5. Len(r) < Byte * Byte
  <2>. DEFINE m == Byte * Byte
              l == Len(r)
  <2>1. m \in Nat /\ m > 99 /\ l \in Nat /\ l <= 99
    BY <1>3, <1>4
  <2>. HIDE DEF m, l
  <2>2. l < m
    BY <2>1
  <2>. QED
    BY <2>2 DEF m, l
<1>. QED
  BY <1>2, <1>3, <1>5 DEF ResultPairs, r, a, b, c

\* A padded record ends where its header says.
LEMMA PaddedRecordReadBack ==
  ASSUME NEW type \in Nat, NEW bytes \in Seq(Nat), Len(bytes) < Byte * Byte
  PROVE  LET r == PaddedRecord(type, bytes)
             h == ReadHeader(r)
         IN  /\ h.type = type /\ h.id = 0 /\ h.content = Len(bytes)
             /\ Len(r) = FCGI_HEADER_LEN + h.content + h.padding
             /\ Len(r) % FCGI_HEADER_LEN = 0
             /\ SubSeq(r, FCGI_HEADER_LEN + 1, FCGI_HEADER_LEN + h.content) = bytes
<1>. DEFINE n == Len(bytes)
            p == Padding(n)
            header == PopulateHeader(type, 0, n, p)
            z == Zeros(p)
            r == header \o bytes \o z
            t == SubSeq(r, 8 + 1, 8 + n)
<1>1. n \in Nat /\ n \in 0..Byte * Byte - 1 /\ 0 \in 0..Byte * Byte - 1 /\ n < Byte * Byte
  <2>. DEFINE m == Byte * Byte
  <2>1. m \in Nat /\ m > 0 /\ n \in Nat /\ n < m
    BY LengthFacts
  <2>. HIDE DEF m, n
  <2>2. n \in 0..m - 1 /\ 0 \in 0..m - 1
    BY <2>1
  <2>. QED
    BY <2>1, <2>2 DEF m
<1>2. p \in 0..7 /\ p \in Nat /\ (n + p) % 8 = 0
  BY <1>1, PaddingFills
<1>. HIDE DEF n, p
<1>3. z \in Seq(Nat) /\ Len(z) = p
  BY <1>2 DEF Zeros
<1>4. ReadHeader(header) = [type |-> type, id |-> 0, content |-> n, padding |-> p]
  BY <1>1, HeaderReadBack
<1>5. header \in Seq(Nat) /\ Len(header) = 8
  <2>1. 0 < Byte * Byte
    BY LengthFacts
  <2>2. HighByte(0) \in Nat /\ LowByte(0) \in Nat /\ HighByte(n) \in Nat /\ LowByte(n) \in Nat
    BY <1>1, <2>1, TwoBytes
  <2>. QED
    BY <1>2, <2>2 DEF PopulateHeader
<1>. HIDE DEF header, z
<1>6. /\ r \in Seq(Nat) /\ Len(r) = Len(header) + Len(bytes) + Len(z)
      /\ \A j \in 1..Len(header) : r[j] = header[j]
      /\ \A j \in 1..Len(bytes) : r[Len(header) + j] = bytes[j]
  <2>1. header \in Seq(Nat) /\ bytes \in Seq(Nat) /\ z \in Seq(Nat)
    BY <1>3, <1>5
  <2>. QED
    BY <2>1, ThreeParts
<1>7. PaddedRecord(type, bytes) = r
  BY DEF PaddedRecord, header, z, n, p
<1>. HIDE DEF r
<1>8. r \in Seq(Nat) /\ Len(r) = 8 + n + p /\ \A j \in 1..n : r[8 + j] = bytes[j]
  BY <1>3, <1>5, <1>6 DEF n
<1>9. ReadHeader(r) = ReadHeader(header)
  <2>1. \A j \in 1..8 : r[j] = header[j]
    BY <1>5, <1>6
  <2>2. /\ r[2] = header[2] /\ r[3] = header[3] /\ r[4] = header[4]
        /\ r[5] = header[5] /\ r[6] = header[6] /\ r[7] = header[7]
    BY <2>1
  <2>. QED
    BY <2>2 DEF ReadHeader
<1>10. t = bytes
  <2>1. 8 + n <= Len(r)
    BY <1>1, <1>2, <1>8
  <2>. DEFINE m == 8
              u == SubSeq(r, m + 1, m + n)
  <2>2. m \in Nat /\ n \in Nat /\ r \in Seq(Nat) /\ m + n <= Len(r)
    BY <1>1, <1>8, <2>1
  <2>. HIDE DEF m
  <2>3. u \in Seq(Nat) /\ Len(u) = n /\ \A i \in 1..n : u[i] = r[m + i]
    <3>. HIDE DEF n
    <3>. QED
      BY <2>2, Slice, ZenonT(30)
  <2>4. t = u
    BY DEF m
  <2>. HIDE DEF t, u
  <2>5. t \in Seq(Nat) /\ Len(t) = n /\ \A i \in 1..n : t[i] = r[8 + i]
    BY <2>3, <2>4 DEF m
  <2>6. Len(t) = Len(bytes) /\ \A i \in 1..Len(bytes) : t[i] = bytes[i]
    BY <1>8, <2>5 DEF n
  <2>. QED
    BY <2>5, <2>6, SMTT(30)
<1>11. Len(r) % 8 = 0
  BY <1>1, <1>2, <1>8
<1>. QED
  BY <1>4, <1>7, <1>8, <1>9, <1>10, <1>11 DEF FCGI_HEADER_LEN, t, n


LEMMA SendGetValuesResultStep ==
  ASSUME PairsInv, SendGetValuesResult
  PROVE  PairsInv'
<1>1. /\ pairs_pc = "list" /\ caller = "GET_VALUES" /\ list = Expected
      /\ list' \in Sorted(list) /\ current' = current /\ next' = next
      /\ pairs_pc' = "answered" /\ UNCHANGED <<pairsInput, decodeVars>>
      /\ list \in Seq(ReceivedPair)
      /\ current \in 0..Len(list) /\ next \in 0..Len(list) + 1
  BY DEF PairsInv, SendGetValuesResult, ListInv, ExtractExact
<1>. DEFINE chosen == {i \in 1..3 : Requested(list', Known[i])}
            asked == {p.name : p \in ToSet(Expected)}
            wanted == {i \in 1..3 : Known[i] \in asked}
<1>2. answer' = PaddedRecord(GET_VALUES_RESULT, ResultPairs(chosen))
  BY DEF SendGetValuesResult
<1>3. Expected' = Expected
  BY <1>1, InputStep
<1>4. /\ list' \in Seq(ReceivedPair) /\ Len(list') = Len(list)
      /\ ToSet(list') = ToSet(list) /\ InOrder(list')
  BY <1>1, SortedFacts
<1>5. chosen = wanted
  <2>1. ASSUME NEW i \in 1..3 PROVE Requested(list', Known[i]) <=> Known[i] \in asked
    <3>1. Known[i] \in Names
      BY PairsAssumption DEF Names, ByteValue
    <3>2. Requested(list', Known[i]) <=> \E p \in ToSet(list') : p.name = Known[i]
      BY <1>4, <3>1, RequestedMeans
    <3>3. ToSet(list') = ToSet(Expected)
      BY <1>1, <1>4
    <3>4. (\E p \in ToSet(Expected) : p.name = Known[i]) <=> Known[i] \in asked
      BY Zenon
    <3>. QED
      BY <3>2, <3>3, <3>4
  <2>. QED
    BY <2>1
<1>. DEFINE bytes == ResultPairs(wanted)
<1>6. bytes \in Seq(Nat) /\ Len(bytes) < Byte * Byte
  BY ResultPairsFacts
<1>7. answer' = PaddedRecord(GET_VALUES_RESULT, bytes)
  BY <1>2, <1>5
<1>8. asked' = asked
  BY <1>3
<1>9. ResultPairs({i \in 1..3 : Known[i] \in asked'}) = bytes
  BY <1>8
<1>. HIDE DEF bytes, wanted, chosen
<1>10. /\ ReadHeader(answer').type = GET_VALUES_RESULT /\ ReadHeader(answer').id = 0
       /\ ReadHeader(answer').content = Len(bytes)
       /\ Len(answer') = FCGI_HEADER_LEN + ReadHeader(answer').content
                           + ReadHeader(answer').padding
       /\ Len(answer') % FCGI_HEADER_LEN = 0
       /\ SubSeq(answer', FCGI_HEADER_LEN + 1,
                 FCGI_HEADER_LEN + ReadHeader(answer').content) = bytes
  <2>1. GET_VALUES_RESULT \in Nat
    BY DEF GET_VALUES_RESULT
  <2>. QED
    BY <1>6, <1>7, <2>1, PaddedRecordReadBack
<1>11. AnswerExact'
  <2>. HIDE DEF asked
  <2>. QED
    BY <1>9, <1>10, Zenon DEF AnswerExact, asked
<1>12. ScanInv' /\ EnvironmentExact'
  BY <1>1 DEF ScanInv, EnvironmentExact
<1>13. current' \in 0..Len(list') /\ next' \in 0..Len(list') + 1
  BY <1>1, <1>4
<1>. QED
  BY <1>1, <1>4, <1>11, <1>12, <1>13, UseStep

-----------------------------------------------------------------------------
(* Theorems about NameValuePairs.                                          *)

LEMMA PairsInvariant == PairsSpec => []PairsInv
<1>1. PairsInit => PairsInv
  BY PairsInitial
<1>2. PairsInv /\ [PairsNext]_pairsVars => PairsInv'
  <2>1. ASSUME PairsInv, UNCHANGED pairsVars PROVE PairsInv'
    <3>1. /\ UNCHANGED <<pairsInput, decodeVars, list, current, next, environment_map,
                         answer, pairs_pc>>
      BY <2>1 DEF pairsVars
    <3>2. /\ InputInv' /\ source' = source /\ content' = content /\ caller' = caller
          /\ Expected' = Expected /\ \A k : PairBoundary(source, k)' = PairBoundary(source, k)
      BY <2>1, <3>1, InputStep
    <3>3. /\ bytes_processed' = bytes_processed /\ lengths' = lengths /\ list' = list
          /\ current' = current /\ next' = next /\ environment_map' = environment_map
          /\ answer' = answer /\ pairs_pc' = pairs_pc
      BY <3>1 DEF decodeVars
    <3>4. ListInv'
      BY <2>1, <3>2, <3>3 DEF PairsInv, ListInv
    <3>5. ExtractInv'
      <4>1. PairBoundary(source, Len(list))' = PairBoundary(source, Len(list))
        BY <3>2, <3>3 DEF PairBoundary
      <4>2. LengthBytes(Extracting, Len(lengths))' = LengthBytes(Extracting, Len(lengths))
            /\ Extracting' = Extracting
        BY <3>2, <3>3 DEF LengthBytes, Extracting, NameField, LengthsOf, ValueField
      <4>. QED
        BY <2>1, <3>2, <3>3, <4>1, <4>2 DEF PairsInv, ExtractInv
    <3>6. ScanInv'
      BY <2>1, <3>2, <3>3 DEF PairsInv, ScanInv, InOrder
    <3>7. ExtractExact' /\ EnvironmentExact' /\ AnswerExact'
      BY <2>1, <3>2, <3>3 DEF PairsInv, ExtractExact, EnvironmentExact, AnswerExact
    <3>. QED
      BY <2>1, <3>2, <3>3, <3>4, <3>5, <3>6, <3>7 DEF PairsInv
  <2>. QED
    BY <2>1, ReturnListStep, ExtractLengthStep, ExtractDataStep, ProcessParamsStep,
       ScanNextStep, ScanEndsStep, SendGetValuesResultStep DEF PairsNext
<1>. QED
  BY <1>1, <1>2, PTL DEF PairsSpec

\* ExtractBinaryNameValuePairs gives back the pairs that were encoded, in whichever
\* form their lengths were written, and none of them when the content ends anywhere
\* inside a pair.
THEOREM PairsExtracted == PairsSpec => []ExtractExact
<1>1. PairsInv => ExtractExact
  BY DEF PairsInv
<1>. QED
  BY <1>1, PairsInvariant, PTL

\* ProcessFCGI_PARAMS accepts a complete list that gives no name two values, and no
\* other, and makes the environment of exactly its pairs, in whatever order std::sort
\* leaves pairs of the same name.
THEOREM EnvironmentBuilt == PairsSpec => []EnvironmentExact
<1>1. PairsInv => EnvironmentExact
  BY DEF PairsInv
<1>. QED
  BY <1>1, PairsInvariant, PTL

\* SendGetValuesResult answers each known variable that was asked for once, in a
\* record whose header and padding are right.
THEOREM VariablesAnswered == PairsSpec => []AnswerExact
<1>1. PairsInv => AnswerExact
  BY DEF PairsInv
<1>. QED
  BY <1>1, PairsInvariant, PTL

\* Nothing is read past the content, and the iterators stay in the list.
THEOREM PairsTypeCorrect == PairsSpec => []PairsTypeOK
<1>1. PairsInv => PairsTypeOK
  <2>. SUFFICES ASSUME PairsInv PROVE PairsTypeOK
    OBVIOUS
  <2>1. /\ bytes_processed \in 0..Len(content) /\ lengths \in Seq(Nat) /\ Len(lengths) <= 2
        /\ list \in Seq(ReceivedPair)
        /\ current \in 0..Len(list) /\ next \in 0..Len(list) + 1
        /\ pairs_pc \in {"extract", "list", "scan", "accepted", "rejected", "answered"}
    BY DEF PairsInv, ListInv
  <2>2. \A k \in 1..Len(list) : list[k].name \in Names
    BY <2>1, ListPairs
  <2>3. ASSUME NEW k \in 1..Len(list), NEW b \in ToSet(list[k].name)
        PROVE  b \in 0..Byte - 1
    <3>. DEFINE s == list[k].name
    <3>1. s \in Seq(ByteValue) /\ b \in ToSet(s)
      BY <2>2 DEF Names
    <3>. HIDE DEF s, ByteValue
    <3>2. b \in ByteValue
      BY <3>1 DEF ToSet
    <3>. QED
      BY <3>2 DEF ByteValue
  <2>. QED
    BY <2>1, <2>3 DEF PairsTypeOK
<1>. QED
  BY <1>1, PairsInvariant, PTL
=============================================================================
