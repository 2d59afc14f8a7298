--------------------------- MODULE FcgiUtilities ---------------------------
(***************************************************************************)
(* The conversions of fcgi_utilities between integers and sequences of     *)
(* bytes, and the way RecordStatus reads a header back.  Byte is the       *)
(* number of values of a byte: 256 in the code, and small where a run is   *)
(* to meet all the boundaries of a length with short sequences.            *)
(***************************************************************************)
EXTENDS Integers, Sequences

CONSTANT Byte

ASSUME ByteAssumption == Byte \in Nat \ {0, 1} /\ Byte % 2 = 0

FCGI_HEADER_LEN == 8

\* A byte with the leading bit set is at least Half: 0x80 in the code.
Half == Byte \div 2

kNameValuePairSingleByteLength == Half - 1
kNameValuePairFourByteLength == Half * (Byte * Byte * Byte) - 1

HighByte(n) == (n \div Byte) % Byte
LowByte(n) == n % Byte

-----------------------------------------------------------------------------
(* Lengths in the FastCGI name-value pair format.                          *)

LeadingByte(length) ==
  LET b == (length \div (Byte * Byte * Byte)) % Byte
  IN  IF b < Half THEN b + Half ELSE b

EncodeFourByteLength(length) ==
  <<LeadingByte(length), (length \div (Byte * Byte)) % Byte, HighByte(length),
    LowByte(length)>>

ExtractFourByteLength(b) ==
  (((b[1] % Half) * Byte + b[2]) * Byte + b[3]) * Byte + b[4]

EncodeLength(length) ==
  IF length <= kNameValuePairSingleByteLength
  THEN <<length>> ELSE EncodeFourByteLength(length)

\* A pair as both encoders write it: its two lengths, then its bytes.
EncodePair(pair) ==
  EncodeLength(Len(pair.name)) \o EncodeLength(Len(pair.value))
    \o pair.name \o pair.value

-----------------------------------------------------------------------------
(* Records.                                                                *)

PopulateHeader(type, id, content_length, padding_length) ==
  <<1, type, HighByte(id), LowByte(id), HighByte(content_length),
    LowByte(content_length), padding_length, 0>>

FCGI_BEGIN_REQUEST == 1

\* PopulateBeginRequestRecord, in a buffer of zeros.
BeginRequest(id, role, keep_conn) ==
  [type |-> FCGI_BEGIN_REQUEST, id |-> id, padding |-> 0,
   content |-> <<HighByte(role), LowByte(role), IF keep_conn THEN 1 ELSE 0>>
                 \o <<0, 0, 0, 0, 0>>]

\* UpdateAfterHeaderCompletion shifts into integers of two bytes.
ReadHeader(header) ==
  [type    |-> header[2],
   id      |-> (header[3] * Byte + header[4]) % (Byte * Byte),
   content |-> (header[5] * Byte + header[6]) % (Byte * Byte),
   padding |-> header[7]]

\* What pads a length to a multiple of FCGI_HEADER_LEN.
Padding(length) ==
  (FCGI_HEADER_LEN - (length % FCGI_HEADER_LEN)) % FCGI_HEADER_LEN

Zeros(n) == [i \in 1..n |-> 0]

-----------------------------------------------------------------------------
(* Sequences that follow each other.  Offsets(lengths)[k] is the length of *)
(* the first k parts; Joined(parts) is their concatenation.                *)

Offsets(lengths) ==
  LET offset[k \in 0..Len(lengths)] ==
        IF k = 0 THEN 0 ELSE offset[k - 1] + lengths[k]
  IN  offset

PartLengths(parts) == [k \in 1..Len(parts) |-> Len(parts[k])]

Joined(parts) ==
  LET offset == Offsets(PartLengths(parts))
      part(i) == CHOOSE k \in 1..Len(parts) : i \in offset[k - 1] + 1..offset[k]
  IN  [i \in 1..offset[Len(parts)] |-> parts[part(i)][i - offset[part(i) - 1]]]

-----------------------------------------------------------------------------
(* ToUnsignedCharacterVector: the decimal digits of c >= 0 in ASCII.       *)

ToUnsignedCharacterVector(c) ==
  LET digits[n \in 0..c] ==
        IF n < 10 THEN <<48 + n>>
        ELSE Append(digits[n \div 10], 48 + (n % 10))
  IN  digits[c]
=============================================================================
