------------------------------ MODULE DerProofs ------------------------------
(***************************************************************************)
(* Lemmas about Der, for octets, tags and lengths of any size: what the    *)
(* encoder writes, what the walker finds in octets of any kind, and that   *)
(* the walker reads back what the encoder wrote.                           *)
(***************************************************************************)
EXTENDS Der, DataInduction

\* The constants, with bit 8 for what it is.
LEMMA OctetSizes ==
  /\ OctetBase \in Nat /\ OctetBase > 1
  /\ Bit8 \in Nat /\ 0 < Bit8 /\ Bit8 < OctetBase
  /\ TagNumbers \in Nat /\ TagNumbers > 1
  /\ LengthOctetsMax \in Nat \ {0} /\ WordOctets \in Nat
  /\ LengthOctetsMax <= WordOctets
  /\ Bit8 + LengthOctetsMax < OctetBase
BY DerAssumption DEF Bit8

\* Octets behind octets.
LEMMA Concatenated ==
  ASSUME NEW a \in Seq(Octet), NEW b \in Seq(Octet)
  PROVE  /\ a \o b \in Seq(Octet) /\ Len(a) \in Nat /\ Len(b) \in Nat
         /\ Len(a \o b) = Len(a) + Len(b)
         /\ <<>> \o a = a /\ a \o <<>> = a
         /\ \A i \in 1..Len(a) : (a \o b)[i] = a[i]
         /\ \A i \in 1..Len(b) : (a \o b)[Len(a) + i] = b[i]
OBVIOUS

\* Order of concatenating does not matter.
LEMMA Associated ==
  ASSUME NEW a \in Seq(Octet), NEW b \in Seq(Octet), NEW c \in Seq(Octet)
  PROVE  (a \o b) \o c = a \o (b \o c)
BY ConcatAssociative

-----------------------------------------------------------------------------
(* Place values *)

\* The place values are what their definition says, and positive.
LEMMA PlaceValues ==
  /\ PlaceValue \in [0..LengthOctetsMax -> Nat \ {0}]
  /\ PlaceValue[0] = 1
  /\ \A j \in 1..LengthOctetsMax : PlaceValue[j] = OctetBase * PlaceValue[j - 1]
<1> DEFINE n == LengthOctetsMax
           V == Nat \ {0}
           turn == [j \in 1..n |-> [v \in V |-> OctetBase * v]]
           Unrolled(h) == [j \in 0..n |-> IF j = 0 THEN 1 ELSE OctetBase * h[j - 1]]
           f == CHOOSE h : h = Unrolled(h)
<1>1. n \in Nat /\ 1 \in V
  BY OctetSizes
<1>2. turn \in Turns(n, V)
  BY OctetSizes DEF Turns
<1>3. PICK h : IsTrace(h, n, V, 1, turn)
  <2> HIDE DEF n, V, turn
  <2> QED BY <1>1, <1>2, Traced
<1>4. /\ h \in [0..n -> V] /\ h[0] = 1
      /\ \A j \in 1..n : h[j] = OctetBase * h[j - 1]
  <2>1. h \in [0..n -> V] /\ h[0] = 1 /\ \A j \in 1..n : h[j] = turn[j][h[j - 1]]
    BY <1>3 DEF IsTrace
  <2>2. ASSUME NEW j \in 1..n PROVE h[j] = OctetBase * h[j - 1]
    <3>1. j - 1 \in 0..n
      BY <1>1
    <3>2. h[j - 1] \in V
      BY <2>1, <3>1
    <3>3. turn[j][h[j - 1]] = OctetBase * h[j - 1]
      BY <3>2
    <3> QED BY <2>1, <3>3
  <2> QED BY <2>1, <2>2
<1>5. h = Unrolled(h)
  <2>1. \A j \in 0..n : h[j] = IF j = 0 THEN 1 ELSE OctetBase * h[j - 1]
    BY <1>4
  <2>2. h = [j \in 0..n |-> h[j]]
    BY <1>4
  <2> QED BY <2>1, <2>2, Zenon
<1>6. f = Unrolled(f)
  <2> HIDE DEF Unrolled
  <2> QED BY <1>5
<1>7. f = PlaceValue
  BY DEF PlaceValue
<1> HIDE DEF f, n
<1>8. /\ f[0] = 1
      /\ \A j \in 1..n : f[j] = OctetBase * f[j - 1]
  <2>1. \A j \in 0..n : f[j] = IF j = 0 THEN 1 ELSE OctetBase * f[j - 1]
    BY <1>6
  <2> QED BY <1>1, <2>1
<1> DEFINE S == {j \in 0..n : f[j] \in V}
<1>9. 0 \in S
  BY <1>1, <1>8
<1>10. \A j \in 0..(n - 1) : j \in S => j + 1 \in S
  <2> SUFFICES ASSUME NEW j \in 0..(n - 1), f[j] \in V PROVE f[j + 1] \in V
    BY <1>1
  <2>1. j + 1 \in 1..n /\ (j + 1) - 1 = j
    BY <1>1
  <2>2. f[j + 1] = OctetBase * f[j]
    BY <1>8, <2>1
  <2> QED BY <2>2, OctetSizes
<1>11. \A j \in 0..n : j \in S
  <2> HIDE DEF S
  <2> QED BY <1>1, <1>9, <1>10, BoundedInduction
<1>12. f = [j \in 0..n |-> f[j]]
  BY <1>6
<1> QED BY <1>7, <1>8, <1>11, <1>12 DEF n

\* A place further up is worth no less.
LEMMA PlacesGrow ==
  ASSUME NEW i \in 0..LengthOctetsMax, NEW j \in i..LengthOctetsMax
  PROVE  PlaceValue[i] <= PlaceValue[j]
<1> DEFINE n == LengthOctetsMax
           S == {m \in 0..n : i <= m => PlaceValue[i] <= PlaceValue[m]}
<1>1. n \in Nat /\ \A m \in 0..n : PlaceValue[m] \in Nat \ {0}
  BY OctetSizes, PlaceValues
<1>2. 0 \in S
  BY <1>1
<1>3. \A m \in 0..(n - 1) : m \in S => m + 1 \in S
  <2> SUFFICES ASSUME NEW m \in 0..(n - 1), m \in S PROVE m + 1 \in S
    OBVIOUS
  <2>1. m + 1 \in 1..n /\ (m + 1) - 1 = m
    BY <1>1
  <2>2. PlaceValue[m + 1] = OctetBase * PlaceValue[m]
    BY <2>1, PlaceValues
  <2>3. PlaceValue[m] <= PlaceValue[m + 1]
    BY <1>1, <2>1, <2>2, OctetSizes
  <2>4. CASE i = m + 1
    BY <1>1, <2>1, <2>4
  <2>5. CASE i # m + 1
    BY <1>1, <2>1, <2>3, <2>5
  <2> QED BY <2>4, <2>5
<1>4. \A m \in 0..n : m \in S
  <2> HIDE DEF S, n
  <2> QED BY <1>1, <1>2, <1>3, BoundedInduction
<1> QED BY <1>1, <1>4

\* A length lies between two place values.
LEMMA PlaceOf ==
  ASSUME NEW n \in 1..(LongFormLimit - 1)
  PROVE  \E k \in 1..LengthOctetsMax : PlaceValue[k - 1] <= n /\ n < PlaceValue[k]
<1> DEFINE top == LengthOctetsMax
           Between(j) == \E k \in 1..j : PlaceValue[k - 1] <= n /\ n < PlaceValue[k]
           S == {j \in 0..top : n < PlaceValue[j] => Between(j)}
<1>1. top \in Nat /\ \A m \in 0..top : PlaceValue[m] \in Nat \ {0}
  BY OctetSizes, PlaceValues
<1>2. n \in Nat /\ 0 < n /\ n < PlaceValue[top]
  BY <1>1 DEF LongFormLimit
<1>3. 0 \in S
  BY <1>1, <1>2, PlaceValues
<1>4. \A j \in 0..(top - 1) : j \in S => j + 1 \in S
  <2> SUFFICES ASSUME NEW j \in 0..(top - 1), j \in S, n < PlaceValue[j + 1]
               PROVE  Between(j + 1)
    BY <1>1
  <2>1. j \in 0..top /\ j + 1 \in 1..(j + 1) /\ (j + 1) - 1 = j
    BY <1>1
  <2>2. CASE n < PlaceValue[j]
    BY <1>1, <2>2
  <2>3. CASE ~(n < PlaceValue[j])
    BY <1>1, <1>2, <2>1, <2>3
  <2> QED BY <2>2, <2>3
<1>5. \A j \in 0..top : j \in S
  <2> HIDE DEF S, top
  <2> QED BY <1>1, <1>3, <1>4, BoundedInduction
<1> QED BY <1>1, <1>2, <1>5

\* Octets(n) is the place where n lies.
LEMMA OctetsIs ==
  ASSUME NEW n \in 1..(LongFormLimit - 1)
  PROVE  /\ Octets(n) \in 1..LengthOctetsMax
         /\ PlaceValue[Octets(n) - 1] <= n /\ n < PlaceValue[Octets(n)]
<1>1. PICK k \in 1..LengthOctetsMax : PlaceValue[k - 1] <= n /\ n < PlaceValue[k]
  BY PlaceOf
<1>2. /\ LengthOctetsMax \in Nat /\ n \in Nat
      /\ \A m \in 0..LengthOctetsMax : PlaceValue[m] \in Nat
  <2>1. LengthOctetsMax \in Nat /\ \A m \in 0..LengthOctetsMax : PlaceValue[m] \in Nat
    BY OctetSizes, PlaceValues
  <2>2. LongFormLimit \in Nat
    BY <2>1 DEF LongFormLimit
  <2> QED BY <2>1, <2>2
<1> DEFINE reached == {j \in 0..(LengthOctetsMax - 1) : PlaceValue[j] <= n}
<1>3. ASSUME NEW j \in 0..(LengthOctetsMax - 1)
      PROVE  PlaceValue[j] <= n <=> j <= k - 1
  <2>1. CASE j <= k - 1
    <3>1. k - 1 \in j..LengthOctetsMax /\ j \in 0..LengthOctetsMax
      BY <1>2, <2>1
    <3>2. PlaceValue[j] <= PlaceValue[k - 1]
      BY <3>1, PlacesGrow
    <3> QED BY <1>1, <1>2, <2>1, <3>1, <3>2
  <2>2. CASE ~(j <= k - 1)
    <3>1. j \in k..LengthOctetsMax /\ k \in 0..LengthOctetsMax
      BY <1>2, <2>2
    <3>2. PlaceValue[k] <= PlaceValue[j]
      BY <3>1, PlacesGrow
    <3> QED BY <1>1, <1>2, <2>2, <3>1, <3>2
  <2> QED BY <2>1, <2>2
<1>4. reached = 0..(k - 1)
  BY <1>2, <1>3
<1>5. Cardinality(0..(k - 1)) = k
  BY <1>2, FS_Interval
<1>6. Octets(n) = k
  BY <1>4, <1>5 DEF Octets
<1> QED BY <1>1, <1>6

-----------------------------------------------------------------------------
(* rsp_der_length_octets *)

\* The places of a length are fewer than an octet can count beside bit 8.
LEMMA OctetsCounted ==
  ASSUME NEW n \in Nat
  PROVE  Octets(n) \in 0..LengthOctetsMax
<1> DEFINE all == 0..(LengthOctetsMax - 1)
           reached == {j \in all : PlaceValue[j] <= n}
<1>1. LengthOctetsMax \in Nat \ {0}
  BY DerAssumption
<1>2. IsFiniteSet(all) /\ Cardinality(all) = LengthOctetsMax
  BY <1>1, FS_Interval
<1>3. reached \subseteq all
  OBVIOUS
<1>4. Cardinality(reached) \in Nat /\ Cardinality(reached) <= Cardinality(all)
  BY <1>2, <1>3, FS_Subset, FS_CardinalityType
<1> QED BY <1>1, <1>2, <1>4 DEF Octets

\* rsp_der_length_octets writes octets.
LEMMA LengthOctetsType ==
  ASSUME NEW n \in Nat
  PROVE  LengthOctets(n) \in Seq(Octet)
<1> DEFINE k == Octets(n)
<1>1. /\ OctetBase \in Nat /\ OctetBase > 1 /\ Bit8 \in Nat
      /\ LengthOctetsMax \in Nat /\ Bit8 + LengthOctetsMax < OctetBase
  BY DerAssumption DEF Bit8
<1>2. CASE n < Bit8
  <2>1. n \in Octet
    BY <1>1, <1>2 DEF Octet
  <2> QED BY <1>2, <2>1 DEF LengthOctets
<1>3. CASE ~(n < Bit8)
  <2>1. k \in 0..LengthOctetsMax
    BY OctetsCounted
  <2>2. Bit8 + k \in Octet
    BY <1>1, <2>1 DEF Octet
  <2>3. BigEndianOctets(n, k) \in Seq(Octet)
    <3>1. ASSUME NEW i \in 1..k
          PROVE  (n \div PlaceValue[k - i]) % OctetBase \in Octet
      <4>1. k - i \in 0..LengthOctetsMax
        BY <1>1, <2>1
      <4>2. PlaceValue[k - i] \in Nat \ {0}
        BY <4>1, PlaceValues
      <4>3. n \div PlaceValue[k - i] \in Int
        BY <4>2
      <4> QED BY <1>1, <4>3 DEF Octet
    <3>2. k \in Nat
      BY <1>1, <2>1
    <3> HIDE DEF k
    <3> QED BY <3>1, <3>2 DEF BigEndianOctets
  <2> QED BY <1>3, <2>2, <2>3 DEF LengthOctets
<1> QED BY <1>2, <1>3

\* A header is octets.
LEMMA HeaderType ==
  ASSUME NEW tag \in Seq(Octet), NEW n \in Nat
  PROVE  Header(tag, n) \in Seq(Octet)
BY LengthOctetsType DEF Header

\* No header is empty.
LEMMA HeaderParts ==
  ASSUME NEW tag \in WellFormedTags, NEW n \in Nat
  PROVE  /\ Header(tag, n) \in Seq(Octet)
         /\ Len(Header(tag, n)) \in Nat /\ Len(Header(tag, n)) >= 1
<1> DEFINE a == Len(tag)
           b == Len(LengthOctets(n))
<1>1. tag \in Seq(Octet) /\ tag # <<>>
  BY DEF WellFormedTags
<1>2. a \in Nat /\ a >= 1
  BY <1>1
<1>3. LengthOctets(n) \in Seq(Octet)
  BY LengthOctetsType
<1>4. Header(tag, n) \in Seq(Octet) /\ Len(Header(tag, n)) = a + b /\ b \in Nat
  BY <1>1, <1>3, Concatenated DEF Header
<1> HIDE DEF a, b
<1> QED BY <1>2, <1>4

-----------------------------------------------------------------------------
(* parse_tlv, of any octets *)

\* The tag ends in the buffer or runs out with it.
LEMMA LastTagOctetInside ==
  ASSUME NEW buf, NEW end \in Nat, NEW off \in Nat, off < end
  PROVE  LastTagOctet(buf, end, off) \in off..end
<1> DEFINE rest == (off + 1)..(end - 1)
           more == Continuing(buf, end, off)
<1>1. IsFiniteSet(rest) /\ Cardinality(rest) = end - 1 - off
  BY FS_Interval
<1>2. more \subseteq rest
  BY DEF Continuing
<1>3. Cardinality(more) \in Nat /\ Cardinality(more) <= Cardinality(rest)
  BY <1>1, <1>2, FS_Subset, FS_CardinalityType
<1> QED BY <1>1, <1>3 DEF LastTagOctet

\* A TLV that parse_tlv finds lies between off and end, tag and length octets
\* included, whatever the octets are.
LEMMA ParsedInside ==
  ASSUME NEW buf \in Seq(Octet), NEW end \in 0..Len(buf), NEW off \in Nat,
         ParseTlv(buf, end, off) # Malformed
  PROVE  LET v == ParseTlv(buf, end, off)
         IN  /\ v.val_off \in Nat /\ v.val_len \in Nat
             /\ v.next_off = v.val_off + v.val_len
             /\ v.val_off >= off + 2
             /\ v.next_off <= end
<1> DEFINE p == LastTagOctet(buf, end, off) + 1
           v == ParseTlv(buf, end, off)
<1>1. end \in Nat /\ off < end
  BY DEF ParseTlv
<1>2. p \in Nat /\ p > off
  BY <1>1, LastTagOctetInside
<1>3. p < end
  BY <1>1, <1>2 DEF ParseTlv
<1>4. At(buf, p) \in Octet
  BY <1>2, <1>3 DEF At
<1>5. At(buf, p) \in Nat /\ Bit8 \in Nat
  BY <1>4, DerAssumption DEF Octet, Bit8
<1>6. ASSUME NEW from \in Nat, NEW len, from > p, v = Value(end, from, len)
      PROVE  /\ v.val_off \in Nat /\ v.val_len \in Nat
             /\ v.next_off = v.val_off + v.val_len
             /\ v.val_off >= off + 2
             /\ v.next_off <= end
  <2> HIDE DEF v, p
  <2>1. len \in 0..(end - from)
    BY <1>6 DEF Value, v
  <2>2. v = [val_off |-> from, val_len |-> len, next_off |-> from + len]
    BY <1>6, <2>1 DEF Value
  <2> QED BY <1>1, <1>2, <1>6, <2>1, <2>2
<1>7. CASE At(buf, p) < Bit8
  <2>1. v = Value(end, p + 1, At(buf, p))
    BY <1>1, <1>3, <1>7 DEF ParseTlv
  <2> QED BY <1>2, <1>6, <2>1
<1>8. CASE ~(At(buf, p) < Bit8)
  <2> DEFINE n == At(buf, p) - Bit8
  <2>1. v = LongForm(buf, end, p)
    BY <1>1, <1>3, <1>8 DEF ParseTlv
  <2>2. n \in Nat
    BY <1>5, <1>8
  <2>3. v = Value(end, p + 1 + n, BigEndian(buf, p + 1, n))
    BY <2>1 DEF LongForm
  <2> QED BY <1>2, <1>6, <2>2, <2>3
<1> QED BY <1>7, <1>8

-----------------------------------------------------------------------------
(* parse_tlv, of what the encoder wrote *)

\* n in places, most significant first: each prefix of the octets is n without
\* the places behind it.
LEMMA Shifted ==
  ASSUME NEW n \in Nat, NEW k \in 0..LengthOctetsMax, NEW i \in 1..k
  PROVE  (n \div PlaceValue[k - (i - 1)]) * OctetBase
           + ((n \div PlaceValue[k - i]) % OctetBase)
         = n \div PlaceValue[k - i]
<1> DEFINE low == PlaceValue[k - i]
           high == PlaceValue[k - (i - 1)]
           q == n \div low
<1>1. /\ k - i \in 0..LengthOctetsMax /\ k - (i - 1) \in 1..LengthOctetsMax
      /\ (k - (i - 1)) - 1 = k - i
  BY OctetSizes
<1>2. low \in Nat \ {0} /\ high = OctetBase * low
  BY <1>1, PlaceValues
<1>3. OctetBase \in Nat \ {0}
  BY OctetSizes
<1> HIDE DEF low, high
<1>4. q \in Nat
  BY <1>2
<1>5. n \div high = q \div OctetBase
  <2>1. (n \div low) \div OctetBase = n \div (low * OctetBase)
    BY <1>2, <1>3
  <2> QED BY <1>2, <1>3, <2>1
<1> HIDE DEF q
<1>6. (q \div OctetBase) * OctetBase + (q % OctetBase) = q
  BY <1>3, <1>4, Division
<1> QED BY <1>5, <1>6 DEF low, high, q

\* The loop of parse_tlv reads the number whose octets are there.
LEMMA BigEndianReads ==
  ASSUME NEW buf, NEW p \in Nat, NEW n \in Nat, NEW k \in 0..LengthOctetsMax,
         n < PlaceValue[k],
         \A i \in 1..k : At(buf, p + i - 1) = BigEndianOctets(n, k)[i]
  PROVE  BigEndian(buf, p, k) = n
<1> DEFINE octet(i) == (n \div PlaceValue[k - i]) % OctetBase
           prefix == [i \in 0..k |-> n \div PlaceValue[k - i]]
           Unrolled(h) ==
             [i \in 0..k |->
                IF i = 0 THEN 0 ELSE h[i - 1] * OctetBase + At(buf, p + i - 1)]
           f == CHOOSE h : h = Unrolled(h)
<1>1. k \in Nat /\ \A j \in 0..k : PlaceValue[j] \in Nat \ {0}
  BY OctetSizes, PlaceValues
<1>2. \A i \in 1..k : At(buf, p + i - 1) = octet(i)
  BY DEF BigEndianOctets
<1>3. prefix[0] = 0
  <2> DEFINE top == PlaceValue[k]
  <2>1. top \in Nat \ {0} /\ n < top
    BY <1>1
  <2> HIDE DEF top
  <2>2. n \div top = 0
    BY <2>1
  <2> QED BY <1>1, <2>2 DEF top
<1>4. \A i \in 1..k : prefix[i] = prefix[i - 1] * OctetBase + At(buf, p + i - 1)
  <2> SUFFICES ASSUME NEW i \in 1..k
               PROVE  prefix[i] = prefix[i - 1] * OctetBase + At(buf, p + i - 1)
    OBVIOUS
  <2>1. i \in 0..k /\ i - 1 \in 0..k
    BY <1>1
  <2>2. prefix[i] = n \div PlaceValue[k - i]
        /\ prefix[i - 1] = n \div PlaceValue[k - (i - 1)]
    BY <2>1
  <2> HIDE DEF prefix
  <2>3. prefix[i - 1] * OctetBase + octet(i) = prefix[i]
    BY <2>2, Shifted
  <2> QED BY <1>2, <2>3
<1>5. prefix = Unrolled(prefix)
  <2>1. \A i \in 0..k : prefix[i] = IF i = 0 THEN 0
                                    ELSE prefix[i - 1] * OctetBase + At(buf, p + i - 1)
    <3> HIDE DEF prefix
    <3> QED BY <1>1, <1>3, <1>4
  <2>2. prefix = [i \in 0..k |-> prefix[i]]
    OBVIOUS
  <2> HIDE DEF prefix
  <2> QED BY <2>1, <2>2, Zenon
<1>6. f = Unrolled(f)
  <2> HIDE DEF Unrolled, prefix
  <2> QED BY <1>5
<1>7. f[k] = BigEndian(buf, p, k)
  BY DEF BigEndian
<1> HIDE DEF f, prefix
<1>8. f[0] = 0 /\ \A i \in 1..k : f[i] = f[i - 1] * OctetBase + At(buf, p + i - 1)
  <2>1. \A i \in 0..k : f[i] = IF i = 0 THEN 0
                               ELSE f[i - 1] * OctetBase + At(buf, p + i - 1)
    BY <1>6
  <2> QED BY <1>1, <2>1
<1> DEFINE S == {i \in 0..k : f[i] = prefix[i]}
<1>9. 0 \in S
  BY <1>1, <1>3, <1>8
<1>10. \A i \in 0..(k - 1) : i \in S => i + 1 \in S
  <2> SUFFICES ASSUME NEW i \in 0..(k - 1), f[i] = prefix[i]
               PROVE  f[i + 1] = prefix[i + 1]
    BY <1>1
  <2>1. i + 1 \in 1..k /\ (i + 1) - 1 = i
    BY <1>1
  <2>2. /\ f[i + 1] = f[i] * OctetBase + At(buf, p + (i + 1) - 1)
        /\ prefix[i + 1] = prefix[i] * OctetBase + At(buf, p + (i + 1) - 1)
    BY <1>4, <1>8, <2>1
  <2> QED BY <2>2
<1>11. f[k] = prefix[k]
  <2>1. \A i \in 0..k : i \in S
    <3> HIDE DEF S
    <3> QED BY <1>1, <1>9, <1>10, BoundedInduction
  <2> QED BY <1>1, <2>1
<1>12. prefix[k] = n
  <2>1. prefix[k] = n \div PlaceValue[0]
    BY <1>1 DEF prefix
  <2> QED BY <2>1, PlaceValues
<1> QED BY <1>7, <1>11, <1>12

\* A tag ends where it ends, or the buffer runs out in the middle of it.
LEMMA LastTagOctetReads ==
  ASSUME NEW buf, NEW end \in Nat, NEW off \in Nat, off < end,
         NEW tag \in WellFormedTags,
         \A i \in 1..Len(tag) : off + i <= end => buf[off + i] = tag[i]
  PROVE  LastTagOctet(buf, end, off) =
           IF off + Len(tag) <= end THEN off + Len(tag) - 1 ELSE end
<1> DEFINE m == Len(tag)
           more == Continuing(buf, end, off)
<1>1. /\ tag \in Seq(Octet) /\ m \in Nat /\ 1 <= m
      /\ Bit8 \in Nat /\ TagNumbers \in Nat /\ TagNumbers > 1
  <2>1. tag \in Seq(Octet) /\ tag # <<>>
    BY DEF WellFormedTags
  <2> QED BY <2>1, OctetSizes
<1>2. At(buf, off) = tag[1]
  BY <1>1 DEF At
<1>3. CASE tag[1] % TagNumbers # TagNumbers - 1
  <2>1. m = 1
    BY <1>3 DEF WellFormedTags
  <2> QED BY <1>2, <1>3, <2>1 DEF LastTagOctet
<1>4. CASE tag[1] % TagNumbers = TagNumbers - 1
  <2>1. m > 1 /\ tag[m] < Bit8 /\ \A i \in 2..(m - 1) : tag[i] >= Bit8
    BY <1>4 DEF WellFormedTags
  <2>2. LastTagOctet(buf, end, off) = off + 1 + Cardinality(more)
    BY <1>2, <1>4 DEF LastTagOctet
  <2>3. ASSUME NEW q \in Nat, off < q, q < end, q < off + m
        PROVE  At(buf, q) = tag[q + 1 - off]
    <3>1. q + 1 - off \in 1..m /\ off + (q + 1 - off) = q + 1 /\ q + 1 <= end
      BY <1>1, <2>3
    <3> QED BY <3>1 DEF At
  <2>4. ASSUME NEW q \in Nat, off < q, q < end, q < off + m - 1
        PROVE  At(buf, q) >= Bit8
    <3>1. q + 1 - off \in 2..(m - 1)
      BY <1>1, <2>4
    <3>2. At(buf, q) = tag[q + 1 - off]
      BY <1>1, <2>3, <2>4
    <3> QED BY <2>1, <3>1, <3>2
  <2>5. CASE off + m <= end
    <3>1. /\ off + m - 1 \in Nat /\ off < off + m - 1 /\ off + m - 1 < end
          /\ off + m - 1 < off + m
      BY <1>1, <2>1, <2>5
    <3>2. At(buf, off + m - 1) = tag[m]
      <4>1. At(buf, off + m - 1) = tag[(off + m - 1) + 1 - off]
        BY <2>3, <3>1
      <4>2. (off + m - 1) + 1 - off = m
        BY <1>1
      <4> QED BY <4>1, <4>2
    <3>3. ~(At(buf, off + m - 1) >= Bit8)
      <4>1. tag[m] \in Nat
        BY <1>1, OctetSizes DEF Octet
      <4> QED BY <1>1, <2>1, <3>2, <4>1
    <3>4. ASSUME NEW p \in (off + 1)..(end - 1)
          PROVE  p \in more <=> p < off + m - 1
      <4>1. CASE p < off + m - 1
        <5>1. \A q \in (off + 1)..p : At(buf, q) >= Bit8
          BY <2>4, <4>1
        <5> QED BY <4>1, <5>1 DEF Continuing
      <4>2. CASE ~(p < off + m - 1)
        <5>1. off + m - 1 \in (off + 1)..p
          BY <1>1, <2>1, <4>2
        <5> QED BY <3>3, <4>2, <5>1 DEF Continuing
      <4> QED BY <4>1, <4>2
    <3>5. more = (off + 1)..(off + m - 2)
      <4>1. more \subseteq (off + 1)..(end - 1)
        BY DEF Continuing
      <4>2. \A q : q \in (off + 1)..(off + m - 2) <=>
                  q \in (off + 1)..(end - 1) /\ q < off + m - 1
        BY <1>1, <2>5
      <4> HIDE DEF more, m
      <4> QED BY <3>4, <4>1, <4>2
    <3>6. Cardinality((off + 1)..(off + m - 2)) = m - 2
      <4>1. off + 1 \in Int /\ off + m - 2 \in Int
        BY <1>1
      <4>2. Cardinality((off + 1)..(off + m - 2)) =
              IF off + 1 > off + m - 2 THEN 0 ELSE (off + m - 2) - (off + 1) + 1
        BY <4>1, FS_Interval
      <4> QED BY <1>1, <2>1, <4>2
    <3> QED BY <1>1, <2>2, <2>5, <3>5, <3>6
  <2>6. CASE ~(off + m <= end)
    <3>1. \A q \in (off + 1)..(end - 1) : At(buf, q) >= Bit8
      BY <1>1, <2>4, <2>6
    <3>2. more = (off + 1)..(end - 1)
      BY <3>1 DEF Continuing
    <3>3. Cardinality((off + 1)..(end - 1)) = end - 1 - off
      <4>1. Cardinality((off + 1)..(end - 1)) =
              IF off + 1 > end - 1 THEN 0 ELSE (end - 1) - (off + 1) + 1
        BY FS_Interval
      <4> QED BY <4>1
    <3> QED BY <1>1, <2>2, <2>6, <3>2, <3>3
  <2> QED BY <2>5, <2>6
<1> QED BY <1>3, <1>4

\* parse_tlv, behind any octets and at any distance from the end, reads back a
\* header as rsp_der_length_octets wrote it, whichever form the length has, and
\* refuses a TLV that is not all there: cut off in its tag, length or value.
THEOREM ParseReads ==
  ASSUME NEW buf, NEW end \in Nat, NEW off \in Nat, off < end,
         NEW tag \in WellFormedTags, NEW n \in 0..(LongFormLimit - 1),
         \A i \in 1..Len(Header(tag, n)) :
           off + i <= end => buf[off + i] = Header(tag, n)[i]
  PROVE  LET lead == Len(Header(tag, n))
         IN  ParseTlv(buf, end, off) =
               IF off + lead + n <= end
               THEN [val_off |-> off + lead, val_len |-> n, next_off |-> off + lead + n]
               ELSE Malformed
<1> DEFINE m == Len(tag)
           octets == LengthOctets(n)
           head == Header(tag, n)
           lead == Len(head)
           p == LastTagOctet(buf, end, off) + 1
<1>1. /\ n \in Nat /\ m \in Nat /\ 1 <= m /\ Bit8 \in Nat /\ 0 < Bit8
      /\ tag \in Seq(Octet)
  <2>1. tag \in Seq(Octet) /\ tag # <<>>
    BY DEF WellFormedTags
  <2>2. LongFormLimit \in Nat
    BY PlaceValues, OctetSizes DEF LongFormLimit
  <2> QED BY <2>1, <2>2, OctetSizes
<1>2. octets \in Seq(Octet) /\ Len(octets) \in Nat
  BY <1>1, LengthOctetsType
<1>3. /\ head = tag \o octets /\ lead = m + Len(octets)
      /\ \A i \in 1..m : head[i] = tag[i]
      /\ \A i \in 1..Len(octets) : head[m + i] = octets[i]
  <2> HIDE DEF octets
  <2>1. head = tag \o octets
    BY DEF Header, octets
  <2> HIDE DEF head
  <2> QED BY <1>1, <1>2, <2>1
<1>4. \A i \in 1..lead : off + i <= end => buf[off + i] = head[i]
  OBVIOUS
<1> HIDE DEF octets, head
<1>5. Len(octets) >= 1
  BY <1>1, <1>2 DEF octets, LengthOctets
<1>6. p = IF off + m <= end THEN off + m ELSE end + 1
  <2>1. \A i \in 1..Len(tag) : off + i <= end => buf[off + i] = tag[i]
    BY <1>1, <1>2, <1>3, <1>4
  <2>2. LastTagOctet(buf, end, off) = IF off + m <= end THEN off + m - 1 ELSE end
    BY <2>1, LastTagOctetReads
  <2> QED BY <1>1, <2>2
<1> HIDE DEF p
<1>7. CASE p >= end
  <2>1. ParseTlv(buf, end, off) = Malformed
    BY <1>7 DEF ParseTlv, p
  <2>2. ~(off + lead + n <= end)
    BY <1>1, <1>2, <1>3, <1>5, <1>6, <1>7
  <2> QED BY <2>1, <2>2 DEF head
<1>8. CASE ~(p >= end)
  <2>1. p = off + m /\ p \in Nat /\ p < end
    BY <1>1, <1>6, <1>8
  <2>2. At(buf, p) = octets[1]
    <3>1. m + 1 \in 1..lead /\ off + (m + 1) = p + 1 /\ p + 1 <= end
      BY <1>1, <1>2, <1>3, <1>5, <2>1
    <3>2. buf[p + 1] = head[m + 1]
      BY <1>4, <3>1
    <3> QED BY <1>2, <1>3, <1>5, <3>2 DEF At
  <2>3. ParseTlv(buf, end, off) =
          IF At(buf, p) < Bit8 THEN Value(end, p + 1, At(buf, p))
          ELSE LongForm(buf, end, p)
    BY <1>8 DEF ParseTlv, p
  <2>4. ASSUME NEW from \in Nat, from = off + lead
        PROVE  Value(end, from, n) =
                 IF off + lead + n <= end
                 THEN [val_off |-> off + lead, val_len |-> n, next_off |-> off + lead + n]
                 ELSE Malformed
    BY <1>1, <2>4 DEF Value
  <2>5. CASE n < Bit8
    <3>1. octets = <<n>>
      BY <2>5 DEF octets, LengthOctets
    <3>2. p + 1 \in Nat /\ p + 1 = off + lead
      BY <1>1, <1>3, <2>1, <3>1
    <3>3. ParseTlv(buf, end, off) = Value(end, p + 1, n)
      BY <2>2, <2>3, <2>5, <3>1
    <3> QED BY <2>4, <3>2, <3>3 DEF head
  <2>6. CASE ~(n < Bit8)
    <3> DEFINE k == Octets(n)
    <3>1. n \in 1..(LongFormLimit - 1)
      BY <1>1, <2>6
    <3>2. /\ k \in 1..LengthOctetsMax /\ n < PlaceValue[k]
          /\ k \in Nat /\ k <= WordOctets
      <4>1. k \in 1..LengthOctetsMax /\ n < PlaceValue[k]
        BY <3>1, OctetsIs
      <4> QED BY <4>1, OctetSizes
    <3>3. octets = <<Bit8 + k>> \o BigEndianOctets(n, k)
      BY <2>6 DEF octets, LengthOctets
    <3> HIDE DEF k
    <3>4. /\ Len(octets) = 1 + k /\ octets[1] = Bit8 + k
          /\ \A i \in 1..k : octets[1 + i] = BigEndianOctets(n, k)[i]
      <4>1. BigEndianOctets(n, k) \in Seq(Int)
        <5>1. \A i \in 1..k : (n \div PlaceValue[k - i]) % OctetBase \in Int
          <6> SUFFICES ASSUME NEW i \in 1..k
                       PROVE  (n \div PlaceValue[k - i]) % OctetBase \in Int
            OBVIOUS
          <6>1. k - i \in 0..LengthOctetsMax
            BY <3>2, OctetSizes
          <6>2. PlaceValue[k - i] \in Nat \ {0}
            BY <6>1, PlaceValues
          <6> QED BY <1>1, <6>2, OctetSizes
        <5> QED BY <3>2, <5>1 DEF BigEndianOctets
      <4>2. Len(BigEndianOctets(n, k)) = k
        BY <3>2 DEF BigEndianOctets
      <4>3. <<Bit8 + k>> \in Seq(Int) /\ Len(<<Bit8 + k>>) = 1
        BY <1>1, <3>2
      <4> QED BY <3>2, <3>3, <4>1, <4>2, <4>3
    <3>5. ParseTlv(buf, end, off) = LongForm(buf, end, p)
      BY <1>1, <2>2, <2>3, <3>2, <3>4
    <3>6. At(buf, p) - Bit8 = k
      BY <1>1, <2>2, <3>2, <3>4
    <3>7. off + lead = p + 1 + k /\ p + 1 + k \in Nat
      BY <1>1, <1>3, <2>1, <3>2, <3>4
    <3>8. CASE k > end - (p + 1)
      <4>1. ParseTlv(buf, end, off) = Malformed
        BY <3>5, <3>6, <3>8 DEF LongForm
      <4>2. ~(off + lead + n <= end)
        BY <1>1, <2>1, <3>2, <3>7, <3>8
      <4> QED BY <4>1, <4>2 DEF head
    <3>9. CASE ~(k > end - (p + 1))
      <4>1. ParseTlv(buf, end, off) =
              Value(end, p + 1 + k, BigEndian(buf, p + 1, k))
        <5>1. ~(k = 0 \/ k > WordOctets \/ k > end - (p + 1))
          BY <3>2, <3>9, OctetSizes
        <5> QED BY <3>5, <3>6, <5>1, Zenon DEF LongForm
      <4>2. ASSUME NEW i \in 1..k
            PROVE  At(buf, (p + 1) + i - 1) = BigEndianOctets(n, k)[i]
        <5>1. /\ m + (1 + i) \in 1..lead /\ off + (m + (1 + i)) = (p + 1) + i - 1 + 1
              /\ off + (m + (1 + i)) <= end /\ 1 + i \in 1..Len(octets)
          <6>1. lead = m + (1 + k) /\ m \in Nat /\ i \in Nat /\ 1 <= i /\ i <= k
            BY <1>1, <1>3, <3>2, <3>4, <4>2
          <6>2. (p + 1) + k <= end /\ p = off + m /\ p \in Nat
            BY <2>1, <3>2, <3>9
          <6>3. 1 + i \in 1..Len(octets)
            BY <3>2, <3>4, <6>1
          <6> HIDE DEF m, lead
          <6> QED BY <3>2, <6>1, <6>2, <6>3
        <5>2. buf[(p + 1) + i - 1 + 1] = octets[1 + i]
          BY <1>3, <1>4, <5>1
        <5> QED BY <3>4, <5>2 DEF At
      <4>3. BigEndian(buf, p + 1, k) = n
        <5>1. p + 1 \in Nat /\ k \in 0..LengthOctetsMax
          BY <2>1, <3>2, OctetSizes
        <5> QED BY <1>1, <3>2, <4>2, <5>1, BigEndianReads
      <4> QED BY <2>4, <3>7, <4>1, <4>3 DEF head
    <3> QED BY <3>8, <3>9
  <2> QED BY <2>5, <2>6
<1> QED BY <1>7, <1>8

\* The encoder uses the short form where it can, and no more octets of the
\* long form than the length has.
LEMMA LengthShortest ==
  ASSUME NEW tag \in WellFormedTags, NEW n \in 0..(LongFormLimit - 1)
  PROVE  LET head == Header(tag, n)
         IN  Len(head) > Len(tag) + 1 => n >= Bit8 /\ head[Len(tag) + 2] # 0
<1> DEFINE m == Len(tag)
           head == Header(tag, n)
           k == Octets(n)
<1>1. tag \in Seq(Octet) /\ m \in Nat
  BY DEF WellFormedTags
<1>2. n \in Nat /\ LongFormLimit \in Nat /\ Bit8 \in Nat /\ 0 < Bit8
  BY PlaceValues, OctetSizes DEF LongFormLimit
<1>3. LengthOctets(n) \in Seq(Octet) /\ head = tag \o LengthOctets(n)
  BY <1>2, LengthOctetsType DEF Header
<1>4. CASE n < Bit8
  <2>1. LengthOctets(n) = <<n>>
    BY <1>4 DEF LengthOctets
  <2>2. Len(head) = m + 1
    <3> HIDE DEF head
    <3> QED BY <1>1, <1>3, <2>1, Concatenated
  <2> QED BY <1>1, <2>2
<1>5. CASE ~(n < Bit8)
  <2>1. /\ k \in 1..LengthOctetsMax /\ PlaceValue[k - 1] <= n /\ n < PlaceValue[k]
    <3>1. n \in 1..(LongFormLimit - 1)
      BY <1>2, <1>5
    <3> QED BY <3>1, OctetsIs
  <2>2. k \in Nat /\ k >= 1 /\ k - 1 \in 0..LengthOctetsMax
    BY <2>1, OctetSizes
  <2> HIDE DEF k
  <2> DEFINE place == PlaceValue[k - 1]
             octet == (n \div place) % OctetBase
  <2>3. place \in Nat \ {0} /\ place <= n /\ n < OctetBase * place
    <3>1. PlaceValue[k] = OctetBase * PlaceValue[k - 1]
      BY <2>1, PlaceValues
    <3> QED BY <2>1, <2>2, <3>1, PlaceValues
  <2> HIDE DEF place
  <2>4. octet # 0
    <3>1. n \div place > 0 /\ n \div place < OctetBase
      BY <1>2, <2>3, OctetSizes
    <3>2. n \div place \in Nat
      BY <1>2, <2>3
    <3> DEFINE q == n \div place
    <3> HIDE DEF q
    <3>3. q % OctetBase = q
      BY <3>1, <3>2, OctetSizes DEF q
    <3> QED BY <3>1, <3>3 DEF q
  <2>5. LengthOctets(n) = <<Bit8 + k>> \o BigEndianOctets(n, k)
    BY <1>5 DEF LengthOctets, k
  <2>6. /\ Len(BigEndianOctets(n, k)) = k /\ BigEndianOctets(n, k)[1] = octet
        /\ BigEndianOctets(n, k) \in Seq(Int)
    <3>1. \A i \in 1..k : (n \div PlaceValue[k - i]) % OctetBase \in Int
      <4> SUFFICES ASSUME NEW i \in 1..k
                   PROVE  (n \div PlaceValue[k - i]) % OctetBase \in Int
        OBVIOUS
      <4>1. k - i \in 0..LengthOctetsMax
        BY <2>1, OctetSizes
      <4>2. PlaceValue[k - i] \in Nat \ {0}
        BY <4>1, PlaceValues
      <4> QED BY <1>2, <4>2, OctetSizes
    <3> QED BY <2>2, <3>1 DEF BigEndianOctets, place
  <2>7. Len(LengthOctets(n)) = 1 + k /\ LengthOctets(n)[2] = octet
    <3> DEFINE digits == BigEndianOctets(n, k)
    <3> HIDE DEF digits, octet
    <3>1. <<Bit8 + k>> \in Seq(Int)
      BY <1>2, <2>2
    <3> QED BY <2>2, <2>5, <2>6, <3>1 DEF digits
  <2>8. head[m + 2] = LengthOctets(n)[2]
    <3> HIDE DEF head
    <3>1. 2 \in 1..Len(LengthOctets(n))
      BY <2>2, <2>7
    <3> QED BY <1>1, <1>3, <3>1, Concatenated
  <2> QED BY <1>2, <1>5, <2>4, <2>7, <2>8
<1> QED BY <1>4, <1>5
=============================================================================
