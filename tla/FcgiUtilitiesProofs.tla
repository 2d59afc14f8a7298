------------------------ MODULE FcgiUtilitiesProofs ------------------------
(***************************************************************************)
(* What the conversions of fcgi_utilities compute, for every even number   *)
(* of values of a byte and every length: lengths, headers and identifiers  *)
(* are read back as they were written.  Then the offsets and the bytes of  *)
(* sequences that follow each other, which the proofs about lists of pairs *)
(* and about records use.                                                  *)
(***************************************************************************)
EXTENDS FcgiUtilities, WellFoundedInduction, TLAPS

-----------------------------------------------------------------------------
(* Arithmetic.                                                             *)

\* The quotient and the remainder are determined by their equation.
LEMMA Division ==
  ASSUME NEW b \in Nat, b > 0, NEW q \in Nat, NEW r \in Nat, r < b
  PROVE  (b * q + r) \div b = q /\ (b * q + r) % b = r
OBVIOUS

LEMMA Quotient ==
  ASSUME NEW b \in Nat, b > 0, NEW a \in Nat
  PROVE  /\ a \div b \in Nat /\ a % b \in Nat /\ a % b < b
         /\ a = b * (a \div b) + (a % b)
OBVIOUS

\* Padding fills up to a multiple of eight.
LEMMA PaddingFills ==
  ASSUME NEW n \in Nat
  PROVE  /\ Padding(n) \in 0..7 /\ (n + Padding(n)) % 8 = 0
         /\ n % 8 = 0 => Padding(n) = 0
         /\ n % 8 > 0 => Padding(n) > 0
BY DEF Padding, FCGI_HEADER_LEN

LEMMA ByteFacts ==
  /\ Byte \in Nat /\ Byte >= 2 /\ Byte = Half + Half
  /\ Half \in Nat /\ Half >= 1 /\ Half < Byte
BY ByteAssumption DEF Half

LEMMA QuotientBelow ==
  ASSUME NEW b \in Nat, b > 0, NEW c \in Nat, NEW a \in Nat, a < b * c
  PROVE  a \div b < c
<1>1. a \div b \in Nat /\ a = b * (a \div b) + (a % b) /\ a % b \in Nat
  BY Quotient
<1>2. SUFFICES ASSUME a \div b >= c PROVE FALSE
  BY <1>1
<1>3. b * (a \div b) >= b * c
  BY <1>1, <1>2
<1>. QED
  BY <1>1, <1>3

-----------------------------------------------------------------------------
(* Integers of two bytes.                                                  *)

LEMMA TwoBytes ==
  ASSUME NEW n \in Nat, n < Byte * Byte
  PROVE  /\ HighByte(n) \in 0..Byte - 1 /\ LowByte(n) \in 0..Byte - 1
         /\ HighByte(n) * Byte + LowByte(n) = n
         /\ (HighByte(n) * Byte + LowByte(n)) % (Byte * Byte) = n
<1>1. Byte \in Nat /\ Byte > 0
  BY ByteFacts
<1>2. n \div Byte \in Nat /\ n % Byte \in Nat /\ n % Byte < Byte
      /\ n = Byte * (n \div Byte) + (n % Byte)
  BY <1>1, Quotient
<1>3. n \div Byte < Byte
  BY <1>1, QuotientBelow
<1>4. HighByte(n) = n \div Byte /\ LowByte(n) = n % Byte
  BY <1>1, <1>2, <1>3 DEF HighByte, LowByte
<1>5. HighByte(n) * Byte + LowByte(n) = n
  BY <1>1, <1>2, <1>4
<1>6. n % (Byte * Byte) = n
  BY <1>1
<1>. QED
  BY <1>1, <1>2, <1>3, <1>4, <1>5, <1>6

\* A header is read as PopulateHeader wrote it: neither the identifier nor the
\* length of the content loses a byte.
THEOREM HeaderReadBack ==
  ASSUME NEW type, NEW padding,
         NEW id \in 0..Byte * Byte - 1, NEW length \in 0..Byte * Byte - 1
  PROVE  /\ ReadHeader(PopulateHeader(type, id, length, padding)) =
              [type |-> type, id |-> id, content |-> length, padding |-> padding]
         /\ Len(PopulateHeader(type, id, length, padding)) = FCGI_HEADER_LEN
<1>1. Byte * Byte \in Nat
  BY ByteFacts
<1>2. /\ (HighByte(id) * Byte + LowByte(id)) % (Byte * Byte) = id
      /\ (HighByte(length) * Byte + LowByte(length)) % (Byte * Byte) = length
  BY <1>1, TwoBytes
<1>. DEFINE h == PopulateHeader(type, id, length, padding)
<1>3. /\ h[2] = type /\ h[3] = HighByte(id) /\ h[4] = LowByte(id)
      /\ h[5] = HighByte(length) /\ h[6] = LowByte(length) /\ h[7] = padding
      /\ Len(h) = 8
  BY DEF PopulateHeader
<1>. QED
  BY <1>2, <1>3 DEF ReadHeader, FCGI_HEADER_LEN

-----------------------------------------------------------------------------
(* Lengths of name-value pairs.                                            *)

LEMMA LengthFacts ==
  /\ Byte * Byte \in Nat /\ Byte * Byte > 0
  /\ Byte * Byte * Byte \in Nat /\ Byte * Byte * Byte > 0
  /\ kNameValuePairFourByteLength \in Nat
  /\ kNameValuePairFourByteLength = Half * (Byte * Byte * Byte) - 1
<1>1. Byte \in Nat /\ Byte > 0 /\ Half \in Nat /\ Half >= 1
  BY ByteFacts
<1>2. Byte * Byte \in Nat /\ Byte * Byte > 0
  BY <1>1
<1>3. Byte * Byte * Byte \in Nat /\ Byte * Byte * Byte > 0
  BY <1>1, <1>2
<1>4. Half * (Byte * Byte * Byte) \in Nat /\ Half * (Byte * Byte * Byte) >= 1
  BY <1>1, <1>3
<1>. QED
  BY <1>2, <1>3, <1>4 DEF kNameValuePairFourByteLength

\* The three lower digits and what is above them.
LEMMA FourDigits ==
  ASSUME NEW n \in Nat
  PROVE  /\ n \div (Byte * Byte) = (n \div Byte) \div Byte
         /\ n \div (Byte * Byte * Byte) = (n \div (Byte * Byte)) \div Byte
         /\ n = (((n \div (Byte * Byte * Byte)) * Byte
                   + ((n \div (Byte * Byte)) % Byte)) * Byte
                   + ((n \div Byte) % Byte)) * Byte + (n % Byte)
<1>. DEFINE a == n \div Byte
            b == a \div Byte
            c == b \div Byte
<1>1. Byte \in Nat /\ Byte > 0
  BY ByteFacts
<1>2. a \in Nat /\ n % Byte \in Nat /\ n % Byte < Byte /\ n = Byte * a + (n % Byte)
  BY <1>1, Quotient
<1>3. b \in Nat /\ a % Byte \in Nat /\ a % Byte < Byte /\ a = Byte * b + (a % Byte)
  BY <1>1, <1>2, Quotient
<1>4. c \in Nat /\ b % Byte \in Nat /\ b % Byte < Byte /\ b = Byte * c + (b % Byte)
  BY <1>1, <1>3, Quotient
<1>. HIDE DEF a, b, c
<1>5. n \div (Byte * Byte) = b
  <2>. DEFINE r == Byte * (a % Byte) + (n % Byte)
  <2>1. Byte * (a % Byte) + Byte <= Byte * Byte
    <3>1. (a % Byte) + 1 <= Byte
      BY <1>1, <1>3
    <3>2. Byte * ((a % Byte) + 1) <= Byte * Byte
      BY <1>1, <1>3, <3>1
    <3>. QED
      BY <1>1, <1>3, <3>2
  <2>2. r \in Nat /\ r < Byte * Byte
    BY <1>1, <1>2, <1>3, <2>1
  <2>3. n = (Byte * Byte) * b + r
    <3>1. n = Byte * (Byte * b + (a % Byte)) + (n % Byte)
      BY <1>2, <1>3
    <3>. QED
      BY <1>1, <1>2, <1>3, <3>1
  <2>4. Byte * Byte \in Nat /\ Byte * Byte > 0
    BY LengthFacts
  <2>. HIDE DEF r
  <2>. QED
    BY <1>3, <2>2, <2>3, <2>4, Division
<1>6. n \div (Byte * Byte * Byte) = c
  <2>. DEFINE r == Byte * (Byte * (b % Byte) + (a % Byte)) + (n % Byte)
  <2>1. Byte * (b % Byte) + (a % Byte) + 1 <= Byte * Byte
    <3>1. (b % Byte) + 1 <= Byte
      BY <1>1, <1>4
    <3>2. Byte * ((b % Byte) + 1) <= Byte * Byte
      BY <1>1, <1>4, <3>1
    <3>. QED
      BY <1>1, <1>3, <1>4, <3>2
  <2>2. Byte * (Byte * (b % Byte) + (a % Byte) + 1) <= Byte * (Byte * Byte)
    <3>. DEFINE x == Byte * (b % Byte) + (a % Byte) + 1
    <3>1. x \in Nat /\ Byte * Byte \in Nat /\ x <= Byte * Byte
      BY <1>1, <1>3, <1>4, <2>1
    <3>. HIDE DEF x
    <3>2. Byte * x <= Byte * (Byte * Byte)
      BY <1>1, <3>1
    <3>. QED
      BY <3>2 DEF x
  <2>3. r \in Nat /\ r < Byte * Byte * Byte
    <3>. DEFINE x == Byte * (b % Byte) + (a % Byte)
    <3>1. x \in Nat
      BY <1>1, <1>3, <1>4
    <3>2. Byte * (x + 1) <= Byte * Byte * Byte
      BY <1>1, <2>2
    <3>. HIDE DEF x
    <3>3. Byte * (x + 1) = Byte * x + Byte /\ Byte * x \in Nat
      BY <1>1, <3>1
    <3>4. Byte * Byte * Byte \in Nat
      BY <1>1, LengthFacts
    <3>5. r = Byte * x + (n % Byte)
      BY DEF x
    <3>. HIDE DEF r
    <3>. QED
      BY <1>1, <1>2, <3>2, <3>3, <3>4, <3>5
  <2>4. n = (Byte * Byte * Byte) * c + r
    <3>1. n = Byte * (Byte * (Byte * c + (b % Byte)) + (a % Byte)) + (n % Byte)
      BY <1>2, <1>3, <1>4
    <3>. QED
      BY <1>1, <1>2, <1>3, <1>4, <3>1
  <2>5. Byte * Byte * Byte \in Nat /\ Byte * Byte * Byte > 0
    BY LengthFacts
  <2>. HIDE DEF r
  <2>. QED
    BY <1>4, <2>3, <2>4, <2>5, Division
<1>7. n = ((c * Byte + (b % Byte)) * Byte + (a % Byte)) * Byte + (n % Byte)
  <2>1. c * Byte + (b % Byte) = b
    BY <1>1, <1>4
  <2>2. b * Byte + (a % Byte) = a
    BY <1>1, <1>3
  <2>. QED
    BY <1>1, <1>2, <2>1, <2>2
<1>. QED
  BY <1>5, <1>6, <1>7 DEF a, b, c

\* An element of a sequence.
LEMMA ElementOf ==
  ASSUME NEW S, NEW s \in Seq(S), NEW i \in 1..Len(s)
  PROVE  s[i] \in S
OBVIOUS

-----------------------------------------------------------------------------
(* Lengths are read back as they were encoded.                             *)

\* A length that the format can express, written with four bytes, is read back,
\* and its first byte has the leading bit that tells the form.
THEOREM FourByteLengthReadBack ==
  ASSUME NEW n \in 0..kNameValuePairFourByteLength
  PROVE  /\ EncodeFourByteLength(n) \in Seq(0..Byte - 1)
         /\ Len(EncodeFourByteLength(n)) = 4
         /\ EncodeFourByteLength(n)[1] >= Half
         /\ ExtractFourByteLength(EncodeFourByteLength(n)) = n
<1>. DEFINE high == n \div (Byte * Byte * Byte)
<1>1. Byte \in Nat /\ Byte >= 2 /\ Byte = Half + Half /\ Half \in Nat /\ Half >= 1
  BY ByteFacts
<1>2. /\ Byte * Byte * Byte \in Nat /\ Byte * Byte * Byte > 0
      /\ Byte * Byte \in Nat /\ Byte * Byte > 0
      /\ kNameValuePairFourByteLength = Half * (Byte * Byte * Byte) - 1
      /\ kNameValuePairFourByteLength \in Nat
  BY LengthFacts
<1>3. n \in Nat /\ n < (Byte * Byte * Byte) * Half
  <2>. DEFINE c == Byte * Byte * Byte
  <2>1. Half * c = c * Half /\ Half * c \in Nat
    BY <1>1, <1>2
  <2>2. n <= Half * c - 1 /\ n \in Nat
    BY <1>2
  <2>. HIDE DEF c
  <2>3. n < c * Half
    BY <2>1, <2>2
  <2>. QED
    BY <2>2, <2>3 DEF c
<1>4. high \in Nat /\ high < Half
  BY <1>1, <1>2, <1>3, Quotient, QuotientBelow
<1>. HIDE DEF high
<1>5. high % Byte = high /\ (high + Half) % Half = high
  <2>1. high % Byte = high
    BY <1>1, <1>4
  <2>2. (Half * 1 + high) % Half = high
    BY <1>1, <1>4, Division
  <2>. QED
    BY <1>1, <1>4, <2>1, <2>2
<1>6. LeadingByte(n) = high + Half
  BY <1>4, <1>5 DEF LeadingByte, high
<1>7. /\ (n \div (Byte * Byte)) % Byte \in 0..Byte - 1
      /\ HighByte(n) \in 0..Byte - 1 /\ LowByte(n) \in 0..Byte - 1
  <2>1. n \div (Byte * Byte) \in Nat /\ n \div Byte \in Nat
    BY <1>1, <1>2, <1>3, Quotient
  <2>2. \A x \in Nat : x % Byte \in 0..Byte - 1
    BY <1>1, Quotient
  <2>. QED
    BY <1>3, <2>1, <2>2 DEF HighByte, LowByte
<1>8. n = ((high * Byte + ((n \div (Byte * Byte)) % Byte)) * Byte + HighByte(n)) * Byte
             + LowByte(n)
  BY <1>3, FourDigits DEF high, HighByte, LowByte
<1>. DEFINE e == EncodeFourByteLength(n)
<1>9. /\ e[1] = high + Half /\ e[2] = (n \div (Byte * Byte)) % Byte
      /\ e[3] = HighByte(n) /\ e[4] = LowByte(n)
      /\ Len(e) = 4
  BY <1>6 DEF EncodeFourByteLength
<1>10. e \in Seq(0..Byte - 1)
  BY <1>1, <1>4, <1>6, <1>7 DEF EncodeFourByteLength
<1>11. ExtractFourByteLength(e) = n
  BY <1>5, <1>8, <1>9 DEF ExtractFourByteLength
<1>. QED
  BY <1>1, <1>4, <1>9, <1>10, <1>11

\* A length up to the bound of one byte is written with one byte, which has not
\* the leading bit; any other with four.
LEMMA LengthForms ==
  ASSUME NEW n \in 0..kNameValuePairFourByteLength
  PROVE  /\ EncodeLength(n) \in Seq(0..Byte - 1)
         /\ n < Half => EncodeLength(n) = <<n>>
         /\ n >= Half => EncodeLength(n) = EncodeFourByteLength(n)
         /\ Len(EncodeLength(n)) = IF n < Half THEN 1 ELSE 4
         /\ n < Half <=> EncodeLength(n)[1] < Half
<1>1. Byte \in Nat /\ Half \in Nat /\ Half < Byte
  BY ByteFacts
<1>2. n \in Nat
  BY LengthFacts
<1>3. n <= kNameValuePairSingleByteLength <=> n < Half
  BY <1>1, <1>2 DEF kNameValuePairSingleByteLength
<1>4. CASE n < Half
  <2>1. EncodeLength(n) = <<n>>
    BY <1>3, <1>4 DEF EncodeLength
  <2>2. n \in 0..Byte - 1
    BY <1>1, <1>2, <1>4
  <2>. QED
    BY <1>1, <1>2, <1>4, <2>1, <2>2
<1>5. CASE ~(n < Half)
  <2>1. EncodeLength(n) = EncodeFourByteLength(n)
    BY <1>3, <1>5 DEF EncodeLength
  <2>2. /\ EncodeFourByteLength(n) \in Seq(0..Byte - 1)
        /\ Len(EncodeFourByteLength(n)) = 4
        /\ EncodeFourByteLength(n)[1] >= Half
    BY FourByteLengthReadBack
  <2>3. EncodeFourByteLength(n)[1] \in 0..Byte - 1
    <3>. DEFINE e == EncodeFourByteLength(n)
    <3>1. e \in Seq(0..Byte - 1) /\ 1 \in 1..Len(e)
      BY <2>2
    <3>2. e[1] \in 0..Byte - 1
      <4>. HIDE DEF e
      <4>. QED
        BY <3>1, ElementOf
    <3>. QED
      BY <3>2
  <2>. QED
    BY <1>1, <1>2, <1>5, <2>1, <2>2, <2>3
<1>. QED
  BY <1>4, <1>5

-----------------------------------------------------------------------------
(* Offsets.                                                                *)

\* Every set of natural numbers that is not empty has a least element.
LEMMA LeastNatural ==
  ASSUME NEW S \in SUBSET Nat, S # {}
  PROVE  \E n \in S : \A m \in S : n <= m
<1>1. PICK n \in S : \A m \in S : ~ (<<m, n>> \in OpToRel(<, Nat))
  BY WFMin, NatLessThanWellFounded, Zenon
<1>2. \A m \in S : m \in Nat /\ n \in Nat /\ ~ (m < n)
  BY <1>1 DEF OpToRel
<1>. QED
  BY <1>2

\* The equations that define the offsets have a solution: a least k without one
\* would follow a k that has one.
LEMMA OffsetsExist ==
  ASSUME NEW l \in Seq(Nat)
  PROVE  \E f \in [0..Len(l) -> Nat] :
           \A k \in 0..Len(l) : f[k] = IF k = 0 THEN 0 ELSE f[k - 1] + l[k]
<1>. DEFINE Solves(f, k) == /\ f \in [0..k -> Nat]
                            /\ \A i \in 0..k : f[i] = IF i = 0 THEN 0 ELSE f[i - 1] + l[i]
            Bad == {k \in 0..Len(l) : \A f \in [0..k -> Nat] : ~Solves(f, k)}
<1>1. SUFFICES ASSUME Bad # {} PROVE FALSE
  <2>1. Len(l) \in 0..Len(l) /\ Len(l) \in Nat
    OBVIOUS
  <2>2. ASSUME Bad = {} PROVE \E f \in [0..Len(l) -> Nat] : Solves(f, Len(l))
    BY <2>1, <2>2
  <2>. QED
    BY <2>2
<1>2. Bad \in SUBSET Nat
  OBVIOUS
<1>3. PICK k \in Bad : \A m \in Bad : k <= m
  <2>. HIDE DEF Bad
  <2>. QED
    BY <1>1, <1>2, LeastNatural
<1>4. k \in 0..Len(l) /\ k \in Nat
  OBVIOUS
<1>5. CASE k = 0
  <2>. DEFINE f == [i \in 0..0 |-> 0]
  <2>1. Solves(f, 0)
    OBVIOUS
  <2>. QED
    BY <1>5, <2>1
<1>6. CASE k # 0
  <2>1. k - 1 \in 0..Len(l) /\ k - 1 \notin Bad
    <3>1. k - 1 \in 0..Len(l) /\ ~ (k <= k - 1)
      BY <1>4, <1>6
    <3>. HIDE DEF Bad
    <3>. QED
      BY <1>3, <3>1
  <2>2. PICK f \in [0..k - 1 -> Nat] : Solves(f, k - 1)
    BY <2>1
  <2>. DEFINE g == [i \in 0..k |-> IF i = k THEN f[k - 1] + l[k] ELSE f[i]]
  <2>3. k \in 1..Len(l) /\ l[k] \in Nat /\ f[k - 1] \in Nat
    BY <1>4, <1>6
  <2>4. g \in [0..k -> Nat]
    BY <1>4, <2>3
  <2>5. ASSUME NEW i \in 0..k PROVE g[i] = IF i = 0 THEN 0 ELSE g[i - 1] + l[i]
    <3>1. CASE i = k
      <4>1. g[i] = f[k - 1] + l[k] /\ g[k - 1] = f[k - 1]
        BY <1>4, <1>6, <3>1
      <4>. QED
        BY <1>6, <3>1, <4>1
    <3>2. CASE i # k
      <4>1. i \in 0..k - 1 /\ g[i] = f[i]
        BY <1>4, <3>2
      <4>2. i # 0 => i - 1 \in 0..k /\ i - 1 # k /\ g[i - 1] = f[i - 1]
        BY <1>4, <3>2
      <4>3. f[i] = IF i = 0 THEN 0 ELSE f[i - 1] + l[i]
        BY <2>2, <4>1
      <4>. QED
        BY <4>1, <4>2, <4>3
    <3>. QED
      BY <3>1, <3>2
  <2>6. Solves(g, k)
    BY <2>4, <2>5
  <2>. QED
    BY <2>4, <2>6
<1>. QED
  BY <1>5, <1>6

\* Offsets is that solution.
LEMMA OffsetsFacts ==
  ASSUME NEW l \in Seq(Nat)
  PROVE  /\ Offsets(l) \in [0..Len(l) -> Nat]
         /\ Offsets(l)[0] = 0
         /\ \A k \in 1..Len(l) : Offsets(l)[k] = Offsets(l)[k - 1] + l[k]
<1>. DEFINE Is(f) == f = [k \in 0..Len(l) |-> IF k = 0 THEN 0 ELSE f[k - 1] + l[k]]
<1>1. PICK f \in [0..Len(l) -> Nat] :
        \A k \in 0..Len(l) : f[k] = IF k = 0 THEN 0 ELSE f[k - 1] + l[k]
  BY OffsetsExist
<1>2. Is(f)
  BY <1>1
<1>. DEFINE o == Offsets(l)
<1>3. Is(o)
  <2>1. o = CHOOSE g : Is(g)
    BY DEF Offsets
  <2>. HIDE DEF Is, o
  <2>. QED
    BY <1>2, <2>1
<1>. HIDE DEF o
<1>4. DOMAIN o = 0..Len(l) /\ \A k \in 0..Len(l) : o[k] = IF k = 0 THEN 0 ELSE o[k - 1] + l[k]
  BY <1>3, Zenon
<1>. DEFINE Differ == {k \in 0..Len(l) : o[k] # f[k]}
<1>5. Differ = {}
  <2>1. SUFFICES ASSUME Differ # {} PROVE FALSE
    OBVIOUS
  <2>2. PICK k \in Differ : \A m \in Differ : k <= m
    <3>1. Differ \in SUBSET Nat
      OBVIOUS
    <3>. HIDE DEF Differ
    <3>. QED
      BY <2>1, <3>1, LeastNatural
  <2>3. k \in 0..Len(l) /\ k \in Nat /\ o[k] # f[k]
    OBVIOUS
  <2>4. k # 0
    BY <1>1, <1>4, <2>3
  <2>5. k - 1 \in 0..Len(l) /\ o[k - 1] = f[k - 1]
    <3>1. k - 1 \in 0..Len(l) /\ ~ (k <= k - 1)
      BY <2>3, <2>4
    <3>. QED
      BY <2>2, <3>1
  <2>. QED
    BY <1>1, <1>4, <2>3, <2>4, <2>5
<1>6. o = f
  <2>1. \A k \in 0..Len(l) : o[k] = f[k]
    BY <1>5
  <2>. QED
    BY <1>1, <1>3, <2>1
<1>7. 0 \in 0..Len(l) /\ \A k \in 1..Len(l) : k \in 0..Len(l) /\ k # 0
  OBVIOUS
<1>. QED
  BY <1>1, <1>6, <1>7 DEF o

\* Lengths that agree up to k have the same offsets up to k.
LEMMA OffsetsAgree ==
  ASSUME NEW l \in Seq(Nat), NEW m \in Seq(Nat), NEW n \in Nat,
         n <= Len(l), n <= Len(m), \A k \in 1..n : l[k] = m[k]
  PROVE  \A k \in 0..n : Offsets(l)[k] = Offsets(m)[k]
<1>. DEFINE a == Offsets(l)
            b == Offsets(m)
            Differ == {k \in 0..n : a[k] # b[k]}
<1>1. /\ a[0] = 0 /\ b[0] = 0
      /\ \A k \in 1..n : a[k] = a[k - 1] + l[k]
      /\ \A k \in 1..n : b[k] = b[k - 1] + m[k]
  <2>1. n \in Nat /\ \A k \in 1..n : k \in 1..Len(l) /\ k \in 1..Len(m)
    OBVIOUS
  <2>. QED
    BY <2>1, OffsetsFacts
<1>. HIDE DEF a, b
<1>2. SUFFICES ASSUME Differ # {} PROVE FALSE
  BY DEF a, b
<1>3. PICK k \in Differ : \A j \in Differ : k <= j
  <2>1. Differ \in SUBSET Nat
    OBVIOUS
  <2>. HIDE DEF Differ
  <2>. QED
    BY <1>2, <2>1, LeastNatural
<1>4. k \in 0..n /\ k \in Nat /\ a[k] # b[k]
  OBVIOUS
<1>5. k # 0 /\ k \in 1..n
  BY <1>1, <1>4
<1>6. a[k - 1] = b[k - 1]
  <2>1. k - 1 \in 0..n /\ ~ (k <= k - 1)
    BY <1>4, <1>5
  <2>. QED
    BY <1>3, <2>1
<1>. QED
  BY <1>1, <1>4, <1>5, <1>6

\* A length at the end.
LEMMA OffsetsAppend ==
  ASSUME NEW l \in Seq(Nat), NEW x \in Nat
  PROVE  /\ \A k \in 0..Len(l) : Offsets(Append(l, x))[k] = Offsets(l)[k]
         /\ Offsets(Append(l, x))[Len(l) + 1] = Offsets(l)[Len(l)] + x
<1>. DEFINE m == Append(l, x)
<1>1. m \in Seq(Nat) /\ Len(m) = Len(l) + 1 /\ m[Len(l) + 1] = x
      /\ \A k \in 1..Len(l) : l[k] = m[k]
  OBVIOUS
<1>. HIDE DEF m
<1>2. Len(l) \in Nat /\ Len(l) <= Len(l) /\ Len(l) <= Len(m)
  BY <1>1
<1>3. \A k \in 0..Len(l) : Offsets(l)[k] = Offsets(m)[k]
  BY <1>1, <1>2, OffsetsAgree
<1>4. Len(l) + 1 \in 1..Len(m) /\ Len(l) + 1 - 1 = Len(l)
  BY <1>1, <1>2
<1>5. Offsets(m)[Len(l) + 1] = Offsets(m)[Len(l)] + x
  <2>. DEFINE o == Offsets(m)
  <2>1. \A k \in 1..Len(m) : o[k] = o[k - 1] + m[k]
    BY <1>1, OffsetsFacts
  <2>. HIDE DEF o
  <2>2. o[Len(l) + 1] = o[Len(l)] + x
    BY <1>1, <1>4, <2>1
  <2>. QED
    BY <2>2 DEF o
<1>6. Len(l) \in 0..Len(l)
  BY <1>2
<1>. QED
  BY <1>3, <1>5, <1>6 DEF m

\* Offsets never decrease.
LEMMA OffsetsMonotone ==
  ASSUME NEW l \in Seq(Nat)
  PROVE  \A i, j \in 0..Len(l) : i <= j => Offsets(l)[i] <= Offsets(l)[j]
<1>. DEFINE o == Offsets(l)
<1>1. /\ o \in [0..Len(l) -> Nat]
      /\ \A k \in 1..Len(l) : o[k] = o[k - 1] + l[k] /\ l[k] \in Nat
  BY OffsetsFacts
<1>. HIDE DEF o
<1>2. SUFFICES ASSUME NEW i \in 0..Len(l)
               PROVE  \A j \in 0..Len(l) : i <= j => o[i] <= o[j]
  BY DEF o
<1>. DEFINE Bad == {j \in 0..Len(l) : i <= j /\ ~ (o[i] <= o[j])}
<1>3. SUFFICES ASSUME Bad # {} PROVE FALSE
  OBVIOUS
<1>4. PICK j \in Bad : \A m \in Bad : j <= m
  <2>1. Bad \in SUBSET Nat
    OBVIOUS
  <2>. HIDE DEF Bad
  <2>. QED
    BY <1>3, <2>1, LeastNatural
<1>5. j \in 0..Len(l) /\ j \in Nat /\ i \in Nat /\ i <= j /\ ~ (o[i] <= o[j])
  OBVIOUS
<1>. HIDE DEF Bad
<1>6. o[i] \in Nat /\ o[j] \in Nat /\ j # i
  <2>1. o[i] \in Nat /\ o[j] \in Nat
    BY <1>1, <1>5
  <2>2. j = i => o[i] = o[j] /\ o[i] <= o[j]
    BY <2>1
  <2>. QED
    BY <1>5, <2>1, <2>2
<1>7. j \in 1..Len(l) /\ j - 1 \in 0..Len(l) /\ i <= j - 1 /\ ~ (j <= j - 1)
  BY <1>5, <1>6
<1>8. o[i] <= o[j - 1]
  BY <1>4, <1>7 DEF Bad
<1>9. o[j] = o[j - 1] + l[j] /\ l[j] \in Nat /\ o[j - 1] \in Nat
  BY <1>1, <1>7
<1>. QED
  BY <1>5, <1>6, <1>8, <1>9

-----------------------------------------------------------------------------
(* Joined.                                                                 *)

LEMMA PartLengthsFacts ==
  ASSUME NEW S, NEW parts \in Seq(Seq(S))
  PROVE  /\ PartLengths(parts) \in Seq(Nat)
         /\ Len(PartLengths(parts)) = Len(parts)
         /\ \A k \in 1..Len(parts) : PartLengths(parts)[k] = Len(parts[k])
<1>1. \A k \in 1..Len(parts) : Len(parts[k]) \in Nat
  <2>1. TAKE k \in 1..Len(parts)
  <2>2. parts[k] \in Seq(S)
    OBVIOUS
  <2>. QED
    BY <2>2
<1>. QED
  BY <1>1 DEF PartLengths

\* Every position up to the last offset is in exactly one part.
LEMMA PartOf ==
  ASSUME NEW l \in Seq(Nat), NEW i \in 1..Offsets(l)[Len(l)]
  PROVE  \E k \in 1..Len(l) :
           /\ i \in Offsets(l)[k - 1] + 1..Offsets(l)[k]
           /\ \A m \in 1..Len(l) : i \in Offsets(l)[m - 1] + 1..Offsets(l)[m] => m = k
<1>. DEFINE o == Offsets(l)
            Reached == {k \in 0..Len(l) : i <= o[k]}
<1>1. /\ o \in [0..Len(l) -> Nat] /\ o[0] = 0 /\ Len(l) \in 0..Len(l) /\ Len(l) \in Nat
      /\ i \in 1..o[Len(l)]
  BY OffsetsFacts
<1>2. \A a, b \in 0..Len(l) : a <= b => o[a] <= o[b]
  BY OffsetsMonotone
<1>. HIDE DEF o
<1>3. o[Len(l)] \in Nat /\ i \in Nat /\ i >= 1 /\ i <= o[Len(l)]
  BY <1>1
<1>4. PICK k \in Reached : \A m \in Reached : k <= m
  <2>1. Reached \in SUBSET Nat /\ Reached # {}
    BY <1>1, <1>3
  <2>. HIDE DEF Reached
  <2>. QED
    BY <2>1, LeastNatural
<1>5. k \in 0..Len(l) /\ k \in Nat /\ i <= o[k]
  OBVIOUS
<1>6. k # 0
  BY <1>1, <1>3, <1>5
<1>7. k \in 1..Len(l) /\ k - 1 \in 0..Len(l) /\ ~ (k <= k - 1)
  BY <1>5, <1>6
<1>8. ~ (i <= o[k - 1])
  BY <1>4, <1>7
<1>9. o[k] \in Nat /\ o[k - 1] \in Nat
  BY <1>1, <1>5, <1>7
<1>10. i \in o[k - 1] + 1..o[k]
  BY <1>3, <1>5, <1>8, <1>9
<1>11. ASSUME NEW m \in 1..Len(l), i \in o[m - 1] + 1..o[m] PROVE m = k
  <2>1. m \in 0..Len(l) /\ m - 1 \in 0..Len(l) /\ m \in Nat
    OBVIOUS
  <2>2. o[m] \in Nat /\ o[m - 1] \in Nat
    BY <1>1, <2>1
  <2>3. i <= o[m] /\ ~ (i <= o[m - 1])
    BY <1>3, <1>11, <2>2
  <2>4. k <= m
    BY <1>4, <2>1, <2>3
  <2>5. CASE k <= m - 1
    <3>1. o[k] <= o[m - 1]
      BY <1>2, <1>5, <2>1, <2>5
    <3>. QED
      BY <1>3, <1>5, <1>9, <2>2, <2>3, <3>1
  <2>. QED
    BY <1>5, <2>1, <2>4, <2>5
<1>. QED
  BY <1>7, <1>10, <1>11 DEF o

\* The parts follow one another, and nothing else is there.
LEMMA JoinedFacts ==
  ASSUME NEW S, NEW parts \in Seq(Seq(S))
  PROVE  LET o == Offsets(PartLengths(parts))
         IN  /\ o \in [0..Len(parts) -> Nat] /\ o[0] = 0
             /\ \A k \in 1..Len(parts) : o[k] = o[k - 1] + Len(parts[k])
             /\ \A i, j \in 0..Len(parts) : i <= j => o[i] <= o[j]
             /\ Joined(parts) \in Seq(S)
             /\ Len(Joined(parts)) = o[Len(parts)]
             /\ \A k \in 1..Len(parts) : \A j \in 1..Len(parts[k]) :
                  Joined(parts)[o[k - 1] + j] = parts[k][j]
<1>. DEFINE l == PartLengths(parts)
            o == Offsets(l)
            At(i, k) == i \in o[k - 1] + 1..o[k]
            part(i) == CHOOSE k \in 1..Len(parts) : At(i, k)
            w == [i \in 1..o[Len(parts)] |-> parts[part(i)][i - o[part(i) - 1]]]
<1>1. /\ l \in Seq(Nat) /\ Len(l) = Len(parts) /\ Len(parts) \in Nat
      /\ \A k \in 1..Len(parts) : l[k] = Len(parts[k])
  BY PartLengthsFacts
<1>. HIDE DEF l
<1>2. /\ o \in [0..Len(parts) -> Nat] /\ o[0] = 0
      /\ \A k \in 1..Len(parts) : o[k] = o[k - 1] + Len(parts[k])
      /\ \A i, j \in 0..Len(parts) : i <= j => o[i] <= o[j]
  BY <1>1, OffsetsFacts, OffsetsMonotone
<1>3. ASSUME NEW i \in 1..o[Len(parts)]
      PROVE  \E k \in 1..Len(parts) :
               At(i, k) /\ \A m \in 1..Len(parts) : At(i, m) => m = k
  BY <1>1, PartOf
<1>4. Joined(parts) = w
  BY DEF Joined, l
<1>. HIDE DEF o
<1>5. o[Len(parts)] \in Nat
  BY <1>1, <1>2
<1>6. ASSUME NEW i \in 1..o[Len(parts)]
      PROVE  /\ part(i) \in 1..Len(parts) /\ At(i, part(i))
             /\ \A m \in 1..Len(parts) : At(i, m) => m = part(i)
  <2>1. PICK k \in 1..Len(parts) : At(i, k) /\ \A m \in 1..Len(parts) : At(i, m) => m = k
    BY <1>3, <1>6
  <2>. HIDE DEF At
  <2>2. part(i) \in 1..Len(parts) /\ At(i, part(i))
    BY <2>1
  <2>. QED
    BY <2>1, <2>2
<1>7. ASSUME NEW i \in 1..o[Len(parts)] PROVE w[i] \in S
  <2>. DEFINE k == part(i)
  <2>1. k \in 1..Len(parts) /\ At(i, k)
    BY <1>6
  <2>. HIDE DEF k
  <2>2. o[k - 1] \in Nat /\ o[k] = o[k - 1] + Len(parts[k])
    <3>1. k - 1 \in 0..Len(parts)
      BY <1>1, <2>1
    <3>2. o[k - 1] \in Nat
      BY <1>2, <3>1
    <3>. QED
      BY <1>2, <2>1, <3>2
  <2>3. parts[k] \in Seq(S)
    BY <2>1
  <2>4. i - o[k - 1] \in 1..Len(parts[k])
    BY <2>1, <2>2, <2>3
  <2>5. parts[k][i - o[k - 1]] \in S
    BY <2>3, <2>4
  <2>. QED
    BY <2>5 DEF k
<1>8. w \in Seq(S) /\ Len(w) = o[Len(parts)]
  <2>. HIDE DEF part
  <2>1. w \in [1..o[Len(parts)] -> S]
    BY <1>7, Zenon
  <2>. HIDE DEF w
  <2>. QED
    BY <1>5, <2>1
<1>9. ASSUME NEW k \in 1..Len(parts), NEW j \in 1..Len(parts[k])
      PROVE  w[o[k - 1] + j] = parts[k][j]
  <2>. DEFINE i == o[k - 1] + j
  <2>1. parts[k] \in Seq(S)
    OBVIOUS
  <2>2. /\ o[k - 1] \in Nat /\ o[k] = o[k - 1] + Len(parts[k]) /\ o[k] \in Nat
        /\ o[k] <= o[Len(parts)]
    <3>1. /\ k - 1 \in 0..Len(parts) /\ k \in 0..Len(parts)
          /\ Len(parts) \in 0..Len(parts) /\ k <= Len(parts)
      BY <1>1
    <3>2. o[k - 1] \in Nat /\ o[k] \in Nat
      BY <1>2, <3>1
    <3>3. o[k] <= o[Len(parts)]
      BY <1>2, <3>1
    <3>. QED
      BY <1>2, <3>2, <3>3
  <2>3. i \in 1..o[Len(parts)] /\ At(i, k)
    <3>. DEFINE n == Len(parts[k])
    <3>1. n \in Nat /\ j \in 1..n
      BY <2>1
    <3>2. o[k] = o[k - 1] + n
      BY <2>2
    <3>. HIDE DEF n
    <3>. DEFINE start == o[k - 1]
    <3>3. start \in Nat /\ o[k] = start + n
      BY <2>2, <3>2
    <3>. HIDE DEF start
    <3>4. /\ start + j >= 1 /\ start + j >= start + 1
          /\ start + j <= start + n /\ start + j \in Nat
      BY <3>1, <3>3
    <3>5. /\ o[k - 1] + j >= 1 /\ o[k - 1] + j >= o[k - 1] + 1
          /\ o[k - 1] + j <= o[k] /\ o[k - 1] + j \in Nat
      BY <3>3, <3>4, Zenon DEF start
    <3>6. o[k - 1] + j <= o[Len(parts)]
      BY <1>5, <2>2, <3>5
    <3>. QED
      BY <1>5, <2>2, <3>5, <3>6
  <2>4. part(i) = k
    BY <1>6, <2>3
  <2>5. i - o[k - 1] = j
    BY <2>2
  <2>. HIDE DEF i, part
  <2>6. w[i] = parts[part(i)][i - o[part(i) - 1]]
    BY <2>3
  <2>. QED
    BY <2>4, <2>5, <2>6 DEF i
<1>. QED
  <2>. HIDE DEF w
  <2>. QED
    BY <1>2, <1>4, <1>8, <1>9 DEF o, l
=============================================================================
