--------------------------------- MODULE Der ---------------------------------
(***************************************************************************)
(* Tag, length and value in octets: the one encoder of length octets,      *)
(* src/rsp_internal.h, and the walker of the field accessors,              *)
(* src/rsp_es9.c.  A buffer is a sequence of octets; offsets count from 0  *)
(* as they do in C, so the octet at offset p is buf[p + 1].                *)
(*                                                                         *)
(* The octet is a parameter: 256 in the code, smaller for TLC, where every *)
(* length form is then a few octets away.                                  *)
(***************************************************************************)
EXTENDS Integers, Sequences, FiniteSets

CONSTANTS
  OctetBase,        \* values of an octet, 256; the upper half has bit 8 set
  TagNumbers,       \* tag numbers in a leading octet, 32; the last one continues
  WordOctets,       \* sizeof(size_t)
  LengthOctetsMax   \* octets behind the leading one the encoder writes, 4

ASSUME DerAssumption ==
  /\ OctetBase \in Nat /\ OctetBase > 1 /\ OctetBase % 2 = 0
  /\ TagNumbers \in Nat /\ TagNumbers > 1
  /\ WordOctets \in Nat \ {0}
  /\ LengthOctetsMax \in 1..WordOctets
  /\ OctetBase \div 2 + LengthOctetsMax < OctetBase

Octet == 0..(OctetBase - 1)
Bit8 == OctetBase \div 2
At(buf, p) == buf[p + 1]

\* One octet, or more: the last tag number in the leading octet, then bit 8 in
\* every octet but the last (X.690 8.1.2, as parse_tlv reads it).
WellFormedTags ==
  {t \in Seq(Octet) :
     /\ t # <<>>
     /\ IF t[1] % TagNumbers # TagNumbers - 1 THEN Len(t) = 1
        ELSE /\ Len(t) > 1 /\ t[Len(t)] < Bit8
             /\ \A i \in 2..(Len(t) - 1) : t[i] >= Bit8}

-----------------------------------------------------------------------------
(* rsp_der_length_octets *)

\* What a shift by j octets divides by.
PlaceValue[j \in 0..LengthOctetsMax] ==
  IF j = 0 THEN 1 ELSE OctetBase * PlaceValue[j - 1]

LongFormLimit == PlaceValue[LengthOctetsMax]

BigEndianOctets(n, k) == [i \in 1..k |-> (n \div PlaceValue[k - i]) % OctetBase]

\* The octets a length needs: one for each place value it reaches.
Octets(n) == Cardinality({j \in 0..(LengthOctetsMax - 1) : PlaceValue[j] <= n})

\* Mutant: the short form is used up to and including 0x80.
LengthOctetsShortAt80(n) ==
  IF n <= Bit8 THEN <<n>> ELSE <<Bit8 + Octets(n)>> \o BigEndianOctets(n, Octets(n))

\* Of a length below LongFormLimit; above it the function returns -1.
LengthOctets(n) ==
  IF n < Bit8 THEN <<n>> ELSE <<Bit8 + Octets(n)>> \o BigEndianOctets(n, Octets(n))

\* What put_tlv_tag and the ASN.1 encoder write before a value of n octets.
Header(tag, n) == tag \o LengthOctets(n)

-----------------------------------------------------------------------------
(* parse_tlv *)

Malformed == [val_off |-> -1, val_len |-> -1, next_off |-> -1]

\* Mutant: every tag is taken for a single octet.
LastTagOctetShort(buf, end, off) == off

\* Octets behind off that continue a tag: bit 8 of each, and of all before it.
Continuing(buf, end, off) ==
  {p \in (off + 1)..(end - 1) : \A q \in (off + 1)..p : At(buf, q) >= Bit8}

\* Where the tag at off ends: off itself, or the first octet behind it
\* without bit 8; end when the buffer runs out before that.
LastTagOctet(buf, end, off) ==
  IF At(buf, off) % TagNumbers # TagNumbers - 1 THEN off
  ELSE off + 1 + Cardinality(Continuing(buf, end, off))

\* The n octets at p as a number, most significant first.
BigEndian(buf, p, n) ==
  LET number[i \in 0..n] ==
        IF i = 0 THEN 0 ELSE number[i - 1] * OctetBase + At(buf, p + i - 1)
  IN  number[n]

\* Mutant: the value is not held against what is left of the buffer.
ValueUnchecked(end, val_off, val_len) ==
  [val_off |-> val_off, val_len |-> val_len, next_off |-> val_off + val_len]

\* Mutant: a value that does not fit is cut to what is left.
ValueClamped(end, val_off, val_len) ==
  LET fitting == IF val_len > end - val_off THEN end - val_off ELSE val_len
  IN  [val_off |-> val_off, val_len |-> fitting, next_off |-> val_off + fitting]

Value(end, val_off, val_len) ==
  IF val_len \notin 0..(end - val_off) THEN Malformed
  ELSE [val_off |-> val_off, val_len |-> val_len, next_off |-> val_off + val_len]

\* The long form at p: how many octets of length follow, then those.
LongForm(buf, end, p) ==
  LET n == At(buf, p) - Bit8
  IN  IF n = 0 \/ n > WordOctets \/ n > end - (p + 1) THEN Malformed
      ELSE Value(end, p + 1 + n, BigEndian(buf, p + 1, n))

ParseTlv(buf, end, off) ==
  IF off >= end THEN Malformed
  ELSE LET p == LastTagOctet(buf, end, off) + 1
       IN  IF p >= end THEN Malformed
           ELSE IF At(buf, p) < Bit8 THEN Value(end, p + 1, At(buf, p))
           ELSE LongForm(buf, end, p)

=============================================================================
