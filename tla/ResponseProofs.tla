---------------------------- MODULE ResponseProofs ----------------------------
(***************************************************************************)
(* Proofs about Response and the two modules it is made of, for octets,    *)
(* lengths, address spaces and responses of any size: no append leaves its *)
(* buffer and no walk leaves what it was given; a response that is handed  *)
(* out is whole; an accessor cuts a response into the members it was made  *)
(* of, and refuses what is left of a truncated one.                        *)
(***************************************************************************)
EXTENDS Response, DerProofs

\* AppendsStayInside is inductive once it is known what an append holds.
RespInv ==
  /\ RespTypeOK
  /\ pieces \in Seq(Seq(Octet))
  /\ AppendsStayInside
  /\ WalkStaysInside

\* A buffer that has to grow, to a size a doubled capacity reaches, starts from
\* something and is not asked to be larger than it has to be.
GrowsUp ==
  call.stage = "grow" /\ Reachable =>
    /\ call.newcap > 0
    /\ call.newcap < 2 * Needed(call.data) \/ call.newcap = FirstCapacity

\* What the encoding is made of, while it is collected: what the buffer holds,
\* what is being appended and what is still to come.
Filled ==
  /\ ~given /\ call.stage # "failed" =>
       Encoding(made) =
         (g.buf \o (IF Running THEN call.data ELSE <<>>)) \o FlattenSeq(pieces)
  /\ resp # <<>> => given /\ resp = Encoding(made)
  /\ resp = <<>> \/ cut.stage = "idle" => cut = Idle

\* A response up to the end of its k-th member.
MemberTlvs(r, k) == [i \in 1..k |-> MemberTlv(r.members[i])]
Upto(r, k) == FlattenSeq(Wrappers(r)) \o FlattenSeq(MemberTlvs(r, k))

\* A walk through the response it was made for stands between two members, and
\* has taken the ones before.
OnTrack ==
  cut.buf = resp /\ resp # <<>> /\ cut.fn = made.fn =>
    /\ cut.end = Len(resp)
    /\ cut.off = Len(Upto(made, Len(cut.taken)))
    /\ \/ cut.stage = "walking" /\ Len(cut.taken) < 5
       \/ cut.stage = "cut" /\ Len(cut.taken) = 5 /\ cut.out = cut.taken
    /\ \A i \in 1..Len(cut.taken) :
         /\ cut.taken[i].at = Len(Upto(made, i - 1))
         /\ cut.taken[i].len = Len(MemberTlv(made.members[i]))

\* A truncated response does not get as far as a walk.
Refused ==
  Len(cut.buf) < Len(resp) /\ cut.fn = made.fn => cut.stage \in {"idle", "refused"}

GrowInv == RespInv /\ GrowsUp

FieldInv == RespInv /\ Filled /\ OnTrack /\ Refused

-----------------------------------------------------------------------------
(* The octets of a response *)

\* What AppendStarts takes for granted about sizes.
LEMMA Sizes ==
  /\ SizeLimit \in Nat /\ AddressSpace \in Nat /\ AddressSpace < SizeLimit
  /\ FirstCapacity \in 1..AddressSpace
BY GrowbufAssumption DEF GrowbufAssumption

\* A sum in size_t arithmetic is a number again.
LEMMA SumWraps ==
  ASSUME NEW m \in Nat, NEW n \in Nat
  PROVE  (m + n) % SizeLimit \in Nat
<1>1. m + n \in Nat /\ SizeLimit \in Nat /\ SizeLimit > 0
  BY Sizes
<1> QED BY <1>1

\* A sum below SizeLimit does not wrap.
LEMMA NoWrap ==
  ASSUME NEW n \in 0..(SizeLimit - 1)
  PROVE  n % SizeLimit = n
BY Sizes

\* So is a member.
LEMMA MemberType ==
  ASSUME NEW m \in Members
  PROVE  /\ MemberTlv(m) \in Seq(Octet)
         /\ MemberPieces(m) \in Seq(Seq(Octet))
<1>1. m.tag \in Seq(Octet) /\ m.value \in Seq(Octet) /\ Len(m.value) \in Nat
  BY DEF Members, WellFormedTags
<1>2. Header(m.tag, Len(m.value)) \in Seq(Octet)
  BY <1>1, HeaderType
<1> QED BY <1>1, <1>2 DEF MemberTlv, MemberPieces

-----------------------------------------------------------------------------
(* Opened *)

\* So does what the accessors step into.
LEMMA OpenedInside ==
  ASSUME NEW fn \in Accessors, NEW buf \in Seq(Octet), Opened(fn, buf) # Malformed
  PROVE  LET v == Opened(fn, buf)
         IN  /\ v.val_off \in Nat /\ v.val_len \in Nat
             /\ v.val_off + v.val_len <= Len(buf)
<1> DEFINE outer == ParseTlv(buf, Len(buf), 0)
           inner == ParseTlv(buf, outer.val_off + outer.val_len, outer.val_off)
<1>1. Len(buf) \in 0..Len(buf) /\ 0 \in Nat
  OBVIOUS
<1>2. outer # Malformed
  BY DEF Opened
<1>3. /\ outer.val_off \in Nat /\ outer.val_len \in Nat
      /\ outer.val_off + outer.val_len <= Len(buf)
  <2> HIDE DEF outer
  <2>1. /\ outer.val_off \in Nat /\ outer.val_len \in Nat
        /\ outer.next_off = outer.val_off + outer.val_len
        /\ outer.next_off <= Len(buf)
    BY <1>1, <1>2, ParsedInside DEF outer
  <2> QED BY <2>1
<1>4. CASE fn = "initiate"
  BY <1>2, <1>3, <1>4 DEF Opened
<1>5. CASE fn # "initiate"
  <2> HIDE DEF outer
  <2>1. Opened(fn, buf) = inner /\ inner # Malformed
    BY <1>2, <1>5 DEF Opened, outer
  <2>2. outer.val_off + outer.val_len \in 0..Len(buf)
    BY <1>3
  <2>3. /\ inner.val_off \in Nat /\ inner.val_len \in Nat
        /\ inner.next_off = inner.val_off + inner.val_len
        /\ inner.next_off <= outer.val_off + outer.val_len
    BY <1>3, <2>1, <2>2, ParsedInside
  <2> QED BY <1>3, <2>1, <2>3
<1> QED BY <1>4, <1>5

-----------------------------------------------------------------------------
(* Where the members of an encoding lie *)

\* A member is its header and its value; it is never empty.
LEMMA MemberParts ==
  ASSUME NEW m \in Members
  PROVE  LET head == Header(m.tag, Len(m.value))
         IN  /\ head \in Seq(Octet) /\ MemberTlv(m) = head \o m.value
             /\ Len(head) \in Nat /\ Len(head) >= 1 /\ Len(m.value) \in Nat
             /\ Len(MemberTlv(m)) = Len(head) + Len(m.value)
             /\ \A i \in 1..Len(head) : MemberTlv(m)[i] = head[i]
<1> DEFINE head == Header(m.tag, Len(m.value))
<1>1. m.value \in Seq(Octet) /\ Len(m.value) \in Nat
  BY DEF Members
<1>2. m.tag \in WellFormedTags
  BY DEF Members
<1>3. head \in Seq(Octet) /\ Len(head) \in Nat /\ Len(head) >= 1
  BY <1>1, <1>2, HeaderParts
<1>4. MemberTlv(m) = head \o m.value
  BY DEF MemberTlv
<1> HIDE DEF head
<1> QED BY <1>1, <1>3, <1>4, Concatenated DEF head

\* The wrappers are octets.
LEMMA WrappersType ==
  ASSUME NEW r \in Responses
  PROVE  /\ Wrappers(r) \in Seq(Seq(Octet))
         /\ FlattenSeq(Wrappers(r)) \in Seq(Octet)
         /\ \A i \in 1..5 : r.members[i] \in Members
<1>1. \A i \in 1..5 : r.members[i] \in Members
  BY ResponseAssumption
<1>2. Body(r) \in Seq(Octet)
  <2> DEFINE Tlv(k) == MemberTlv(r.members[k])
  <2>1. /\ Tlv(1) \in Seq(Octet) /\ Tlv(2) \in Seq(Octet) /\ Tlv(3) \in Seq(Octet)
        /\ Tlv(4) \in Seq(Octet) /\ Tlv(5) \in Seq(Octet)
    <3>1. \A k \in 1..5 : Tlv(k) \in Seq(Octet)
      BY <1>1, MemberType
    <3> HIDE DEF Tlv
    <3> QED BY <3>1
  <2>2. Body(r) = Tlv(1) \o Tlv(2) \o Tlv(3) \o Tlv(4) \o Tlv(5)
    BY DEF Body
  <2> HIDE DEF Tlv
  <2>3. Tlv(1) \o Tlv(2) \in Seq(Octet)
    BY <2>1
  <2>4. Tlv(1) \o Tlv(2) \o Tlv(3) \in Seq(Octet)
    BY <2>1, <2>3
  <2>5. Tlv(1) \o Tlv(2) \o Tlv(3) \o Tlv(4) \in Seq(Octet)
    BY <2>1, <2>4
  <2>6. Tlv(1) \o Tlv(2) \o Tlv(3) \o Tlv(4) \o Tlv(5) \in Seq(Octet)
    BY <2>1, <2>5
  <2> QED BY <2>2, <2>6
<1>3. Len(Body(r)) \in Nat
  BY <1>2
<1>4. SequenceTag \in Seq(Octet) /\ ChoiceTag \in Seq(Octet)
  BY ResponseAssumption DEF WellFormedTags
<1> DEFINE sequence == Header(SequenceTag, Len(Body(r)))
<1>5. sequence \in Seq(Octet)
  BY <1>3, <1>4, HeaderType
<1>6. Len(sequence) + Len(Body(r)) \in Nat
  BY <1>3, <1>5
<1>7. Header(ChoiceTag, Len(sequence) + Len(Body(r))) \in Seq(Octet)
  BY <1>4, <1>6, HeaderType
<1>8. Wrappers(r) \in Seq(Seq(Octet))
  BY <1>5, <1>7 DEF Wrappers
<1> QED BY <1>1, <1>8, FlattenType

\* What the encoder emits is octets, whatever is asked for.
LEMMA PiecesType ==
  ASSUME NEW r \in Responses
  PROVE  Pieces(r) \in Seq(Seq(Octet))
<1>1. /\ Wrappers(r) \in Seq(Seq(Octet))
      /\ \A i \in 1..5 : MemberPieces(r.members[i]) \in Seq(Seq(Octet))
  BY WrappersType, MemberType
<1> QED BY <1>1 DEF Pieces

\* One member more.
LEMMA UptoNext ==
  ASSUME NEW r \in Responses
  PROVE  /\ \A k \in 0..5 : MemberTlvs(r, k) \in Seq(Seq(Octet))
         /\ \A k \in 0..5 : Upto(r, k) \in Seq(Octet)
         /\ FlattenSeq(MemberTlvs(r, 0)) = <<>>
         /\ Upto(r, 0) = FlattenSeq(Wrappers(r))
         /\ \A k \in 0..4 :
              /\ FlattenSeq(MemberTlvs(r, k + 1)) =
                   FlattenSeq(MemberTlvs(r, k)) \o MemberTlv(r.members[k + 1])
              /\ Upto(r, k + 1) = Upto(r, k) \o MemberTlv(r.members[k + 1])
<1> DEFINE w == FlattenSeq(Wrappers(r))
           Tlv(k) == MemberTlv(r.members[k])
           Flat(k) == FlattenSeq(MemberTlvs(r, k))
<1>1. w \in Seq(Octet) /\ \A k \in 1..5 : Tlv(k) \in Seq(Octet)
  BY WrappersType, MemberType
<1>2. \A k \in 0..5 : MemberTlvs(r, k) \in Seq(Seq(Octet))
  <2> SUFFICES ASSUME NEW k \in 0..5 PROVE MemberTlvs(r, k) \in Seq(Seq(Octet))
    OBVIOUS
  <2> HIDE DEF Tlv, w
  <2>1. \A i \in 1..k : Tlv(i) \in Seq(Octet)
    <3>1. \A i \in 1..k : i \in 1..5
      OBVIOUS
    <3> QED BY <1>1, <3>1
  <2>2. [i \in 1..k |-> Tlv(i)] \in Seq(Seq(Octet))
    BY <2>1
  <2> QED BY <2>2 DEF MemberTlvs, Tlv
<1>3. \A k \in 0..5 : Flat(k) \in Seq(Octet)
  BY <1>2, FlattenType
<1>4. Flat(0) = <<>>
  <2>1. MemberTlvs(r, 0) = <<>>
    BY DEF MemberTlvs
  <2>2. FlattenSeq(<<>>) = <<>>
    <3>1. <<>> \in Seq(Octet)
      OBVIOUS
    <3> QED BY <3>1, FlattenFew
  <2> QED BY <2>1, <2>2
<1>5. ASSUME NEW k \in 0..4 PROVE Flat(k + 1) = Flat(k) \o Tlv(k + 1)
  <2>1. k \in 0..5 /\ k + 1 \in 1..5
    OBVIOUS
  <2>2. Tlv(k + 1) \in Seq(Octet) /\ <<Tlv(k + 1)>> \in Seq(Seq(Octet))
    BY <1>1, <2>1
  <2>3. MemberTlvs(r, k + 1) = MemberTlvs(r, k) \o <<Tlv(k + 1)>>
    <3> DEFINE whole == MemberTlvs(r, k + 1)
               front == MemberTlvs(r, k)
    <3>1. /\ front \in Seq(Seq(Octet)) /\ whole \in Seq(Seq(Octet))
      BY <1>2, <2>1
    <3>2. Len(front) = k /\ Len(whole) = k + 1
      BY <2>1 DEF MemberTlvs
    <3>3. \A i \in 1..k : front[i] = whole[i]
      BY <2>1 DEF MemberTlvs
    <3>4. whole[k + 1] = Tlv(k + 1)
      BY <2>1 DEF MemberTlvs
    <3> HIDE DEF whole, front, Tlv
    <3> QED BY <2>1, <2>2, <3>1, <3>2, <3>3, <3>4 DEF whole, front
  <2>4. FlattenSeq(<<Tlv(k + 1)>>) = Tlv(k + 1)
    BY <2>2, FlattenFew
  <2> HIDE DEF Tlv
  <2>5. FlattenSeq(MemberTlvs(r, k) \o <<Tlv(k + 1)>>) =
          FlattenSeq(MemberTlvs(r, k)) \o FlattenSeq(<<Tlv(k + 1)>>)
    BY <1>2, <2>1, <2>2, FlattenConcat
  <2> QED BY <2>3, <2>4, <2>5
<1>6. \A k \in 0..5 : Upto(r, k) = w \o Flat(k)
  BY DEF Upto
<1> HIDE DEF w, Flat, Tlv
<1>7. Upto(r, 0) = w
  <2>1. 0 \in 0..5
    OBVIOUS
  <2>2. w \o <<>> = w
    BY <1>1, Concatenated
  <2> QED BY <1>4, <1>6, <2>1, <2>2, Zenon
<1>8. \A k \in 0..5 : Upto(r, k) \in Seq(Octet)
  <2> SUFFICES ASSUME NEW k \in 0..5 PROVE w \o Flat(k) \in Seq(Octet)
    BY <1>6
  <2>1. Flat(k) \in Seq(Octet)
    BY <1>3
  <2> QED BY <1>1, <2>1, Concatenated
<1>9. ASSUME NEW k \in 0..4 PROVE Upto(r, k + 1) = Upto(r, k) \o Tlv(k + 1)
  <2>1. k \in 0..5 /\ k + 1 \in 0..5 /\ k + 1 \in 1..5
    OBVIOUS
  <2>2. Upto(r, k) = w \o Flat(k) /\ Upto(r, k + 1) = w \o (Flat(k) \o Tlv(k + 1))
    BY <1>5, <1>6, <2>1
  <2>3. w \o (Flat(k) \o Tlv(k + 1)) = (w \o Flat(k)) \o Tlv(k + 1)
    <3>1. Flat(k) \in Seq(Octet) /\ Tlv(k + 1) \in Seq(Octet)
      BY <1>1, <1>3, <2>1
    <3> QED BY <1>1, <3>1, Associated, Zenon
  <2> QED BY <2>2, <2>3
<1> QED BY <1>2, <1>4, <1>5, <1>7, <1>8, <1>9 DEF w, Flat, Tlv

\* An encoding is its wrappers and its five members.
LEMMA EncodingIs ==
  ASSUME NEW r \in Responses
  PROVE  /\ Encoding(r) = Upto(r, 5)
         /\ Body(r) = FlattenSeq(MemberTlvs(r, 5))
<1> DEFINE W == Wrappers(r)
           P(k) == MemberPieces(r.members[k])
           Tlv(k) == MemberTlv(r.members[k])
           Flat(k) == FlattenSeq(MemberTlvs(r, k))
<1>1. /\ W \in Seq(Seq(Octet))
      /\ \A k \in 1..5 : P(k) \in Seq(Seq(Octet)) /\ Tlv(k) \in Seq(Octet)
  BY WrappersType, MemberType
<1>2. ASSUME NEW k \in 1..5 PROVE FlattenSeq(P(k)) = Tlv(k)
  <2> DEFINE m == r.members[k]
             head == Header(m.tag, Len(m.value))
  <2>1. m \in Members
    BY WrappersType
  <2>2. head \in Seq(Octet) /\ m.value \in Seq(Octet)
    BY <2>1, MemberParts DEF Members
  <2>3. FlattenSeq(<<head, m.value>>) = head \o m.value
    BY <2>2, FlattenFew
  <2> QED BY <2>3 DEF MemberPieces, MemberTlv
<1>3. /\ Upto(r, 0) = FlattenSeq(W)
      /\ Upto(r, 1) = Upto(r, 0) \o Tlv(1)
      /\ Upto(r, 2) = Upto(r, 1) \o Tlv(2)
      /\ Upto(r, 3) = Upto(r, 2) \o Tlv(3)
      /\ Upto(r, 4) = Upto(r, 3) \o Tlv(4)
      /\ Upto(r, 5) = Upto(r, 4) \o Tlv(5)
  <2>1. \A k \in 0..4 : \A j \in 1..5 :
          j = k + 1 => Upto(r, j) = Upto(r, k) \o Tlv(j)
    BY UptoNext
  <2>2. Upto(r, 0) = FlattenSeq(W)
    BY UptoNext
  <2> HIDE DEF Tlv, W
  <2>3. /\ 0 \in 0..4 /\ 1 \in 0..4 /\ 2 \in 0..4 /\ 3 \in 0..4 /\ 4 \in 0..4
        /\ 1 \in 1..5 /\ 2 \in 1..5 /\ 3 \in 1..5 /\ 4 \in 1..5 /\ 5 \in 1..5
        /\ 1 = 0 + 1 /\ 2 = 1 + 1 /\ 3 = 2 + 1 /\ 4 = 3 + 1 /\ 5 = 4 + 1
    OBVIOUS
  <2>4. /\ Upto(r, 1) = Upto(r, 0) \o Tlv(1)
        /\ Upto(r, 2) = Upto(r, 1) \o Tlv(2)
        /\ Upto(r, 3) = Upto(r, 2) \o Tlv(3)
    BY <2>1, <2>3, Zenon
  <2>5. /\ Upto(r, 4) = Upto(r, 3) \o Tlv(4)
        /\ Upto(r, 5) = Upto(r, 4) \o Tlv(5)
    BY <2>1, <2>3, Zenon
  <2> QED BY <2>2, <2>4, <2>5
<1>4. Pieces(r) = W \o P(1) \o P(2) \o P(3) \o P(4) \o P(5)
  BY DEF Pieces
<1>5. ASSUME NEW s \in Seq(Seq(Octet)), NEW k \in 1..5
      PROVE  /\ s \o P(k) \in Seq(Seq(Octet))
             /\ FlattenSeq(s \o P(k)) = FlattenSeq(s) \o Tlv(k)
  <2>1. P(k) \in Seq(Seq(Octet)) /\ FlattenSeq(P(k)) = Tlv(k)
    BY <1>1, <1>2
  <2> HIDE DEF P, Tlv
  <2>2. s \o P(k) \in Seq(Seq(Octet))
    BY <2>1
  <2>3. FlattenSeq(s \o P(k)) = FlattenSeq(s) \o FlattenSeq(P(k))
    BY <2>1, FlattenConcat, Zenon
  <2> QED BY <2>1, <2>2, <2>3, Zenon
<1> HIDE DEF P, Tlv, W
<1>0. 1 \in 1..5 /\ 2 \in 1..5 /\ 3 \in 1..5 /\ 4 \in 1..5 /\ 5 \in 1..5
  OBVIOUS
<1> DEFINE Q1 == W \o P(1)
           Q2 == Q1 \o P(2)
           Q3 == Q2 \o P(3)
           Q4 == Q3 \o P(4)
           Q5 == Q4 \o P(5)
<1>6. Q1 \in Seq(Seq(Octet)) /\ FlattenSeq(Q1) = Upto(r, 1)
  BY <1>1, <1>3, <1>5, <1>0, Zenon
<1> HIDE DEF Q1
<1>7. Q2 \in Seq(Seq(Octet)) /\ FlattenSeq(Q2) = Upto(r, 2)
  BY <1>3, <1>5, <1>6, <1>0, Zenon
<1> HIDE DEF Q2
<1>8. Q3 \in Seq(Seq(Octet)) /\ FlattenSeq(Q3) = Upto(r, 3)
  BY <1>3, <1>5, <1>7, <1>0, Zenon
<1> HIDE DEF Q3
<1>9. Q4 \in Seq(Seq(Octet)) /\ FlattenSeq(Q4) = Upto(r, 4)
  BY <1>3, <1>5, <1>8, <1>0, Zenon
<1> HIDE DEF Q4
<1>10. FlattenSeq(Q5) = Upto(r, 5)
  BY <1>3, <1>5, <1>9, <1>0, Zenon
<1>11. Encoding(r) = Upto(r, 5)
  BY <1>4, <1>10 DEF Encoding, Q1, Q2, Q3, Q4, Q5
<1>12. Body(r) = Flat(5)
  <2>1. Body(r) = Tlv(1) \o Tlv(2) \o Tlv(3) \o Tlv(4) \o Tlv(5)
    BY DEF Body, Tlv
  <2>2. Flat(0) = <<>> /\ \A k \in 0..4 : Flat(k + 1) = Flat(k) \o Tlv(k + 1)
    BY UptoNext DEF Tlv
  <2> HIDE DEF Flat
  <2>3. /\ 0 \in 0..4 /\ 1 \in 0..4 /\ 2 \in 0..4 /\ 3 \in 0..4 /\ 4 \in 0..4
        /\ 0 + 1 = 1 /\ 1 + 1 = 2 /\ 2 + 1 = 3 /\ 3 + 1 = 4 /\ 4 + 1 = 5
    OBVIOUS
  <2>4. /\ Flat(1) = <<>> \o Tlv(1) /\ Flat(2) = Flat(1) \o Tlv(2)
        /\ Flat(3) = Flat(2) \o Tlv(3) /\ Flat(4) = Flat(3) \o Tlv(4)
        /\ Flat(5) = Flat(4) \o Tlv(5)
    BY <2>2, <2>3
  <2>5. <<>> \o Tlv(1) = Tlv(1)
    BY <1>1
  <2> QED BY <2>1, <2>4, <2>5
<1> QED BY <1>11, <1>12 DEF Flat

\* An encoding is what lies before a member, the member, and what lies behind.
LEMMA EncodingSplits ==
  ASSUME NEW r \in Responses, NEW k \in 0..5
  PROVE  \E rest \in Seq(Octet) : Encoding(r) = Upto(r, k) \o rest
<1> DEFINE Splits(i) == \E rest \in Seq(Octet) : Encoding(r) = Upto(r, i) \o rest
<1>1. \A i \in 0..5 : Upto(r, i) \in Seq(Octet)
  BY UptoNext
<1>2. Splits(5)
  <2>1. Upto(r, 5) \o <<>> = Upto(r, 5) /\ <<>> \in Seq(Octet)
    BY <1>1
  <2> QED BY <2>1, EncodingIs
<1>3. ASSUME NEW i \in 0..4, Splits(i + 1) PROVE Splits(i)
  <2> DEFINE tlv == MemberTlv(r.members[i + 1])
  <2>1. PICK rest \in Seq(Octet) : Encoding(r) = Upto(r, i + 1) \o rest
    BY <1>3
  <2>2. Upto(r, i + 1) = Upto(r, i) \o tlv
    BY UptoNext
  <2>3. tlv \in Seq(Octet)
    <3>1. i + 1 \in 1..5
      OBVIOUS
    <3> QED BY <3>1, WrappersType, MemberType
  <2> HIDE DEF tlv
  <2>6. i \in 0..5
    OBVIOUS
  <2>4. (Upto(r, i) \o tlv) \o rest = Upto(r, i) \o (tlv \o rest)
    <3>1. Upto(r, i) \in Seq(Octet)
      BY <1>1, <2>6
    <3> QED BY <2>3, <3>1, Associated, Zenon
  <2>5. tlv \o rest \in Seq(Octet)
    BY <2>3
  <2> QED BY <2>1, <2>2, <2>4, <2>5
<1> HIDE DEF Splits
<1>4. Splits(4)
  <2>1. 4 \in 0..4 /\ 4 + 1 = 5
    OBVIOUS
  <2> QED BY <1>2, <1>3, <2>1
<1>5. Splits(3)
  <2>1. 3 \in 0..4 /\ 3 + 1 = 4
    OBVIOUS
  <2> QED BY <1>3, <1>4, <2>1
<1>6. Splits(2)
  <2>1. 2 \in 0..4 /\ 2 + 1 = 3
    OBVIOUS
  <2> QED BY <1>3, <1>5, <2>1
<1>7. Splits(1)
  <2>1. 1 \in 0..4 /\ 1 + 1 = 2
    OBVIOUS
  <2> QED BY <1>3, <1>6, <2>1
<1>8. Splits(0)
  <2>1. 0 \in 0..4 /\ 0 + 1 = 1
    OBVIOUS
  <2> QED BY <1>3, <1>7, <2>1
<1>9. k = 0 \/ k = 1 \/ k = 2 \/ k = 3 \/ k = 4 \/ k = 5
  OBVIOUS
<1>10. Splits(k)
  BY <1>2, <1>4, <1>5, <1>6, <1>7, <1>8, <1>9
<1> QED BY <1>10 DEF Splits

-----------------------------------------------------------------------------
(* What the accessors read in an encoding *)

\* The wrappers and the body make up the encoding, and no length of it is too
\* long for the long form.
LEMMA EncodingParts ==
  ASSUME NEW r \in Responses
  PROVE  LET w == FlattenSeq(Wrappers(r))
         IN  /\ w \in Seq(Octet) /\ Body(r) \in Seq(Octet)
             /\ Encoding(r) = w \o Body(r) /\ Encoding(r) \in Seq(Octet)
             /\ Len(Encoding(r)) = Len(w) + Len(Body(r))
             /\ Len(w) \in Nat /\ Len(Body(r)) \in Nat
             /\ LongFormLimit \in Nat
             /\ Len(Encoding(r)) < LongFormLimit
<1> DEFINE w == FlattenSeq(Wrappers(r))
           body == FlattenSeq(MemberTlvs(r, 5))
<1>1. w \in Seq(Octet)
  BY WrappersType
<1>2. body \in Seq(Octet)
  <2>1. MemberTlvs(r, 5) \in Seq(Seq(Octet))
    BY UptoNext
  <2> QED BY <2>1, FlattenType
<1>3. Encoding(r) = w \o body /\ Body(r) = body
  BY EncodingIs DEF Upto
<1>4. LongFormLimit \in Nat
  BY PlaceValues, OctetSizes DEF LongFormLimit
<1>5. Len(Encoding(r)) < LongFormLimit
  BY LengthsEncodable
<1> HIDE DEF w, body
<1> QED BY <1>1, <1>2, <1>3, <1>4, <1>5, Concatenated DEF w

\* Opening finds the body of the SEQUENCE of a whole response, and nothing in
\* a truncated one.
LEMMA OpenedReads ==
  ASSUME NEW r \in Responses, NEW buf \in Seq(Octet),
         Len(buf) <= Len(Encoding(r)),
         \A i \in 1..Len(buf) : buf[i] = Encoding(r)[i]
  PROVE  Opened(r.fn, buf) =
           IF Len(buf) = Len(Encoding(r))
           THEN [val_off |-> Len(FlattenSeq(Wrappers(r))), val_len |-> Len(Body(r)),
                 next_off |-> Len(Encoding(r))]
           ELSE Malformed
<1> DEFINE w == FlattenSeq(Wrappers(r))
           n == Len(Body(r))
           e == Len(buf)
           all == Len(Encoding(r))
           Q == Header(SequenceTag, n)
           C == Header(ChoiceTag, Len(Q) + n)
           lead == Len(Q)
           front == Len(C)
<1>1. /\ w \in Seq(Octet) /\ Body(r) \in Seq(Octet) /\ Encoding(r) = w \o Body(r)
      /\ all = Len(w) + n /\ Len(w) \in Nat /\ n \in Nat
      /\ LongFormLimit \in Nat /\ all < LongFormLimit
  BY EncodingParts
<1>2. SequenceTag \in WellFormedTags /\ ChoiceTag \in WellFormedTags
  BY ResponseAssumption
<1>3. Q \in Seq(Octet) /\ lead \in Nat /\ lead >= 1
  BY <1>1, <1>2, HeaderParts
<1>4. C \in Seq(Octet) /\ front \in Nat
  <2>1. lead + n \in Nat
    BY <1>1, <1>3
  <2> QED BY <1>2, <2>1, HeaderParts
<1>5. e \in Nat /\ e <= all
  OBVIOUS
<1>6. \A i \in 1..e : buf[i] = (w \o Body(r))[i]
  BY <1>1
<1>7. \A i \in 1..Len(w) : i <= e => buf[i] = w[i]
  <2> SUFFICES ASSUME NEW i \in 1..Len(w), i <= e PROVE buf[i] = w[i]
    OBVIOUS
  <2>1. i \in 1..e
    BY <1>1, <1>5
  <2>2. (w \o Body(r))[i] = w[i]
    BY <1>1, Concatenated
  <2> QED BY <1>6, <2>1, <2>2
<1>8. 0 < Len(w)
  <2>1. (w = Q /\ r.fn = "initiate") \/ w = C \o Q
    <3>1. CASE r.fn = "initiate"
      <4>1. Wrappers(r) = <<Q>>
        BY <3>1 DEF Wrappers
      <4> HIDE DEF Q
      <4> QED BY <1>3, <3>1, <4>1, FlattenFew
    <3>2. CASE r.fn # "initiate"
      <4>1. Wrappers(r) = <<C, Q>>
        BY <3>2 DEF Wrappers
      <4> HIDE DEF Q, C
      <4> QED BY <1>3, <1>4, <4>1, FlattenFew
    <3> QED BY <3>1, <3>2
  <2> HIDE DEF Q, C
  <2> QED BY <1>3, <1>4, <2>1, Concatenated
<1>9. CASE r.fn = "initiate"
  <2>1. w = Q
    <3>1. Wrappers(r) = <<Q>>
      BY <1>9 DEF Wrappers
    <3> HIDE DEF Q
    <3> QED BY <1>3, <3>1, FlattenFew
  <2>2. Opened(r.fn, buf) = ParseTlv(buf, e, 0)
    BY <1>9 DEF Opened
  <2>3. CASE e = 0
    <3>1. ParseTlv(buf, e, 0) = Malformed
      BY <2>3 DEF ParseTlv
    <3> QED BY <1>1, <1>8, <2>2, <2>3, <3>1
  <2>4. CASE e > 0
    <3>1. ParseTlv(buf, e, 0) =
            IF 0 + lead + n <= e
            THEN [val_off |-> 0 + lead, val_len |-> n, next_off |-> 0 + lead + n]
            ELSE Malformed
      <4>1. \A i \in 1..lead : 0 + i <= e => buf[0 + i] = Q[i]
        BY <1>3, <1>7, <2>1
      <4>2. n \in 0..(LongFormLimit - 1) /\ e \in Nat /\ 0 \in Nat /\ 0 < e
        BY <1>1, <1>5, <2>4
      <4> HIDE DEF n, e
      <4> QED BY <1>2, <4>1, <4>2, ParseReads
    <3> QED BY <1>1, <1>3, <1>5, <2>1, <2>2, <3>1
  <2> QED BY <1>5, <2>3, <2>4
<1>10. CASE r.fn # "initiate"
  <2> DEFINE outer == ParseTlv(buf, e, 0)
             inner == ParseTlv(buf, outer.val_off + outer.val_len, outer.val_off)
  <2>1. w = C \o Q
    <3>1. Wrappers(r) = <<C, Q>>
      BY <1>10 DEF Wrappers
    <3> HIDE DEF Q, C
    <3> QED BY <1>3, <1>4, <3>1, FlattenFew
  <2>2. /\ Len(w) = front + lead /\ all = front + lead + n
        /\ \A i \in 1..front : w[i] = C[i]
        /\ \A i \in 1..lead : w[front + i] = Q[i]
    <3> HIDE DEF C, Q
    <3>1. /\ Len(w) = front + lead
          /\ \A i \in 1..front : w[i] = C[i]
          /\ \A i \in 1..lead : w[front + i] = Q[i]
      BY <1>3, <1>4, <2>1, Concatenated
    <3> QED BY <1>1, <1>3, <1>4, <3>1
  <2>3. Opened(r.fn, buf) = IF outer = Malformed THEN Malformed ELSE inner
    BY <1>10 DEF Opened
  <2>4. CASE e = 0
    <3>1. outer = Malformed
      BY <2>4 DEF ParseTlv
    <3> QED BY <1>1, <1>8, <2>3, <2>4, <3>1
  <2>5. CASE e > 0
    <3>1. outer = IF 0 + front + (lead + n) <= e
                  THEN [val_off |-> 0 + front, val_len |-> lead + n,
                        next_off |-> 0 + front + (lead + n)]
                  ELSE Malformed
      <4>1. \A i \in 1..front : 0 + i <= e => buf[0 + i] = C[i]
        <5> SUFFICES ASSUME NEW i \in 1..front, i <= e PROVE buf[i] = C[i]
          OBVIOUS
        <5>1. i \in 1..Len(w)
          BY <1>3, <1>4, <2>2
        <5> QED BY <1>7, <2>2, <5>1
      <4>2. lead + n \in 0..(LongFormLimit - 1) /\ e \in Nat /\ 0 \in Nat /\ 0 < e
        BY <1>1, <1>3, <1>4, <1>5, <2>2, <2>5
      <4> HIDE DEF n, e, lead
      <4> QED BY <1>2, <4>1, <4>2, ParseReads DEF lead
    <3>2. CASE e < all
      <4>1. ~(0 + front + (lead + n) <= e)
        BY <1>1, <1>3, <1>4, <2>2, <3>2
      <4>2. outer = Malformed
        BY <3>1, <4>1
      <4> QED BY <2>3, <3>2, <4>2
    <3>3. CASE e = all
      <4>1. 0 + front + (lead + n) <= e /\ 0 + front = front
        BY <1>1, <1>3, <1>4, <2>2, <3>3
      <4>2. outer = [val_off |-> front, val_len |-> lead + n,
                     next_off |-> front + (lead + n)]
        BY <3>1, <4>1
      <4>3. outer.val_off = front /\ outer.val_off + outer.val_len = e
        BY <1>1, <1>3, <1>4, <2>2, <3>3, <4>2
      <4>4. outer # Malformed
        <5>1. Malformed.val_off = -1
          BY DEF Malformed
        <5> HIDE DEF outer
        <5> QED BY <1>4, <4>3, <5>1
      <4>5. ParseTlv(buf, e, front) =
              IF front + lead + n <= e
              THEN [val_off |-> front + lead, val_len |-> n,
                    next_off |-> front + lead + n]
              ELSE Malformed
        <5>1. \A i \in 1..lead : front + i <= e => buf[front + i] = Q[i]
          <6> SUFFICES ASSUME NEW i \in 1..lead, front + i <= e
                       PROVE  buf[front + i] = Q[i]
            OBVIOUS
          <6>1. front + i \in 1..Len(w)
            BY <1>3, <1>4, <2>2
          <6> QED BY <1>7, <2>2, <6>1
        <5>2. n \in 0..(LongFormLimit - 1) /\ e \in Nat /\ front < e
          BY <1>1, <1>3, <1>4, <1>5, <2>2, <3>3
        <5> HIDE DEF n, e, front
        <5> QED BY <1>2, <1>4, <5>1, <5>2, ParseReads
      <4>6. Opened(r.fn, buf) = ParseTlv(buf, e, front)
        BY <2>3, <4>3, <4>4
      <4> QED BY <1>1, <1>3, <1>4, <2>2, <3>3, <4>5, <4>6
    <3> QED BY <1>1, <1>5, <3>2, <3>3
  <2> QED BY <1>5, <2>4, <2>5
<1> QED BY <1>9, <1>10

\* Behind k members the walker finds the next one, and cuts exactly that.
LEMMA MemberReads ==
  ASSUME NEW r \in Responses, NEW k \in 0..4
  PROVE  LET at == Len(Upto(r, k))
             tlv == MemberTlv(r.members[k + 1])
             v == ParseTlv(Encoding(r), Len(Encoding(r)), at)
         IN  /\ v # Malformed
             /\ v.next_off = Len(Upto(r, k + 1))
             /\ at \in Nat /\ Len(tlv) \in Nat
             /\ Len(Upto(r, k + 1)) = at + Len(tlv)
             /\ SubSeq(Encoding(r), at + 1, at + Len(tlv)) = tlv
<1> DEFINE before == Upto(r, k)
           at == Len(before)
           m == r.members[k + 1]
           tlv == MemberTlv(m)
           head == Header(m.tag, Len(m.value))
           n == Len(m.value)
           buf == Encoding(r)
           all == Len(buf)
<1>1. k \in 0..5 /\ k + 1 \in 0..5 /\ k + 1 \in 1..5
  OBVIOUS
<1>2. m \in Members
  BY <1>1, WrappersType
<1>3. /\ head \in Seq(Octet) /\ Len(head) \in Nat /\ Len(head) >= 1 /\ n \in Nat
      /\ Len(tlv) = Len(head) + n
      /\ \A i \in 1..Len(head) : tlv[i] = head[i]
  <2> HIDE DEF m
  <2> QED BY <1>2, MemberParts
<1>4. tlv \in Seq(Octet) /\ m.tag \in WellFormedTags
  <2> HIDE DEF m
  <2> QED BY <1>2, MemberType DEF Members
<1>5. before \in Seq(Octet) /\ Upto(r, k + 1) = before \o tlv
  BY <1>1, UptoNext
<1>6. PICK rest \in Seq(Octet) : buf = Upto(r, k + 1) \o rest
  BY <1>1, EncodingSplits
<1>7. buf \in Seq(Octet) /\ LongFormLimit \in Nat /\ all < LongFormLimit
  BY EncodingParts
<1> HIDE DEF before, tlv, head, m, n, buf
<1>8. /\ Len(Upto(r, k + 1)) = at + Len(tlv) /\ at \in Nat /\ Len(tlv) \in Nat
      /\ before \o tlv \in Seq(Octet)
      /\ \A i \in 1..Len(tlv) : (before \o tlv)[at + i] = tlv[i]
  <2>1. /\ before \o tlv \in Seq(Octet) /\ Len(before) \in Nat /\ Len(tlv) \in Nat
        /\ Len(before \o tlv) = Len(before) + Len(tlv)
        /\ \A i \in 1..Len(tlv) : (before \o tlv)[Len(before) + i] = tlv[i]
    BY <1>4, <1>5, Concatenated
  <2>2. Len(Upto(r, k + 1)) = Len(before) + Len(tlv)
    BY <1>5, <2>1, Zenon
  <2> QED BY <2>1, <2>2
<1>9. /\ all = (at + Len(tlv)) + Len(rest) /\ Len(rest) \in Nat
      /\ \A i \in 1..(at + Len(tlv)) : buf[i] = (before \o tlv)[i]
  <2> DEFINE end == at + Len(tlv)
             front == before \o tlv
  <2>1. front \in Seq(Octet) /\ buf = front \o rest /\ Len(front) = end
    BY <1>5, <1>6, <1>8
  <2> HIDE DEF end, front
  <2>2. /\ Len(buf) = Len(front) + Len(rest) /\ Len(rest) \in Nat
        /\ \A i \in 1..Len(front) : (front \o rest)[i] = front[i]
    BY <2>1, Concatenated
  <2>3. \A i \in 1..end : buf[i] = front[i]
    BY <2>1, <2>2
  <2>4. all = end + Len(rest)
    BY <2>1, <2>2
  <2> QED BY <2>2, <2>3, <2>4 DEF end, front
<1>10. \A i \in 1..Len(tlv) : buf[at + i] = tlv[i]
  <2> SUFFICES ASSUME NEW i \in 1..Len(tlv) PROVE buf[at + i] = tlv[i]
    OBVIOUS
  <2>1. at + i \in 1..(at + Len(tlv))
    BY <1>8
  <2> QED BY <1>8, <1>9, <2>1
<1>11. ParseTlv(buf, all, at) =
         IF at + Len(head) + n <= all
         THEN [val_off |-> at + Len(head), val_len |-> n,
               next_off |-> at + Len(head) + n]
         ELSE Malformed
  <2>1. \A i \in 1..Len(head) : at + i <= all => buf[at + i] = head[i]
    BY <1>3, <1>8, <1>10
  <2>2. n \in 0..(LongFormLimit - 1) /\ all \in Nat /\ at < all
    BY <1>3, <1>7, <1>8, <1>9
  <2> HIDE DEF at, all
  <2> QED BY <1>4, <1>8, <2>1, <2>2, ParseReads DEF head, n
<1>12. at + Len(head) + n <= all /\ at + Len(head) + n = at + Len(tlv)
  BY <1>3, <1>8, <1>9
<1>13. /\ ParseTlv(buf, all, at) # Malformed
       /\ ParseTlv(buf, all, at).next_off = Len(Upto(r, k + 1))
  <2> DEFINE v == ParseTlv(buf, all, at)
  <2>1. v = [val_off |-> at + Len(head), val_len |-> n,
             next_off |-> at + Len(head) + n]
    BY <1>11, <1>12
  <2>2. Malformed.val_off = -1
    BY DEF Malformed
  <2> HIDE DEF v
  <2>3. v.val_off = at + Len(head) /\ v.next_off = at + Len(head) + n
    BY <2>1
  <2>4. v.val_off # -1
    BY <1>3, <1>8, <2>3
  <2> QED BY <1>8, <1>12, <2>2, <2>3, <2>4 DEF v
<1>14. SubSeq(buf, at + 1, at + Len(tlv)) = tlv
  <2> DEFINE size == Len(tlv)
  <2>1. at \in Nat /\ size \in Nat /\ at + size <= all
    BY <1>8, <1>9
  <2> HIDE DEF at, size
  <2> DEFINE piece == SubSeq(buf, at + 1, at + size)
  <2>2. piece \in Seq(Octet) /\ Len(piece) = size
    BY <1>7, <2>1
  <2>3. \A i \in 1..size : piece[i] = buf[at + i]
    BY <1>7, <2>1
  <2> HIDE DEF piece
  <2>4. piece = tlv
    BY <1>4, <1>10, <2>2, <2>3 DEF size
  <2> QED BY <2>4 DEF piece, size
<1> QED BY <1>8, <1>13, <1>14 DEF before, tlv, m, buf

-----------------------------------------------------------------------------
(* One lemma per action *)

\* Nothing has been appended or walked.
LEMMA InitInside == RespInit => RespInv
<1> SUFFICES ASSUME RespInit PROVE RespInv
  OBVIOUS
<1>1. g = Empty /\ call = Outcome("ok") /\ made \in Responses /\ cut = Idle
  BY DEF RespInit, GrowbufInit
<1>2. RespTypeOK
  <2>1. Idle \in CutCalls
    BY DEF Idle, CutCalls, Accessors
  <2>2. Empty \in [buf : Seq(Octet), cap : 0..AddressSpace]
    BY Sizes DEF Empty
  <2>3. Outcome("ok") \in [data : Seq(Octet), newcap : 0..(SizeLimit - 1), stage : Stages]
    BY Sizes DEF Outcome, Stages
  <2>4. resp \in Seq(Octet) /\ given \in BOOLEAN
    <3>1. resp = <<>>
      BY Zenon DEF RespInit
    <3>2. given = FALSE
      BY Zenon DEF RespInit
    <3>3. resp \in Seq(Octet)
      BY <3>1
    <3>4. given \in BOOLEAN
      BY <3>2, Zenon
    <3> QED BY <3>3, <3>4
  <2>5. /\ g \in [buf : Seq(Octet), cap : 0..AddressSpace]
        /\ call \in [data : Seq(Octet), newcap : 0..(SizeLimit - 1), stage : Stages]
        /\ cut \in CutCalls
    BY <1>1, <2>1, <2>2, <2>3
  <2> QED BY <1>1, <2>4, <2>5 DEF RespTypeOK
<1>3. pieces \in Seq(Seq(Octet))
  BY PiecesType DEF RespInit
<1>4. AppendsStayInside
  BY <1>1, Sizes DEF AppendsStayInside, Empty, Outcome
<1>5. WalkStaysInside
  BY <1>1 DEF WalkStaysInside, Idle
<1> QED BY <1>2, <1>3, <1>4, <1>5 DEF RespInv

\* An append that is started holds an object that lies beside the buffer.
LEMMA CollectsInside == RespInv /\ Collects => RespInv'
<1> SUFFICES ASSUME RespInv, Collects PROVE RespInv'
  OBVIOUS
<1> DEFINE data == Head(pieces)
<1>1. data \in Seq(Octet) /\ pieces' \in Seq(Seq(Octet))
  BY DEF RespInv, Collects
<1>2. /\ g \in [buf : Seq(Octet), cap : 0..AddressSpace]
      /\ g' = g
      /\ call' = [data |-> data, newcap |-> StartCapacity,
                  stage |-> IF Fits(data) THEN "copy" ELSE "grow"]
      /\ Len(g.buf) <= g.cap
      /\ g.cap + Len(data) <= AddressSpace
  BY DEF RespInv, RespTypeOK, AppendsStayInside, Collects, AppendStarts
<1>0. Len(g.buf) \in Nat /\ g.cap \in Nat /\ Len(data) \in Nat
  BY <1>1, <1>2, Sizes
<1>3. Needed(data) = Len(g.buf) + Len(data)
  <2>1. Len(g.buf) + Len(data) \in 0..(SizeLimit - 1)
    BY <1>2, <1>0, Sizes
  <2> QED BY <2>1, NoWrap DEF Needed
<1>4. StartCapacity \in 0..(SizeLimit - 1)
  BY <1>2, <1>0, Sizes DEF StartCapacity
<1>5. RespTypeOK'
  BY <1>1, <1>2, <1>4 DEF RespInv, RespTypeOK, Collects, Stages
<1>6. AppendsStayInside'
  BY <1>2, <1>3, <1>0, Sizes DEF AppendsStayInside, Fits
<1>7. WalkStaysInside'
  BY DEF RespInv, WalkStaysInside, Collects
<1> QED BY <1>1, <1>5, <1>6, <1>7 DEF RespInv

\* The loop, the realloc and the memcpy.
LEMMA AppendsInside == RespInv /\ Appends => RespInv'
<1> SUFFICES ASSUME RespInv, Appends PROVE RespInv'
  OBVIOUS
<1>1. /\ g \in [buf : Seq(Octet), cap : 0..AddressSpace]
      /\ call \in [data : Seq(Octet), newcap : 0..(SizeLimit - 1), stage : Stages]
      /\ Len(g.buf) \in Nat /\ g.cap \in Nat /\ Len(call.data) \in Nat
      /\ call.newcap \in Nat
      /\ Len(g.buf) <= g.cap
  BY Sizes DEF RespInv, RespTypeOK, AppendsStayInside
<1>2. CASE Doubles
  <2>1. /\ g' = g /\ call.stage = "grow"
        /\ call' = [call EXCEPT !.newcap = (2 * call.newcap) % SizeLimit]
    BY <1>2 DEF Doubles
  <2>2. (2 * call.newcap) % SizeLimit \in 0..(SizeLimit - 1)
    BY <1>1, Sizes
  <2>3. call' \in [data : Seq(Octet), newcap : 0..(SizeLimit - 1), stage : Stages]
    BY <1>1, <2>1, <2>2
  <2>4. call'.stage = call.stage /\ call'.data = call.data
    BY <1>1, <2>1
  <2>5. AppendsStayInside'
    BY <2>1, <2>4 DEF RespInv, AppendsStayInside
  <2>6. RespTypeOK'
    BY <2>1, <2>3 DEF RespInv, RespTypeOK, Appends
  <2> QED BY <2>5, <2>6 DEF RespInv, WalkStaysInside, Appends
<1>3. CASE Reallocates
  <2>1. Needed(call.data) = Len(g.buf) + Len(call.data)
    <3>1. Len(g.buf) + Len(call.data) < SizeLimit
      BY <1>3 DEF Reallocates, RespInv, AppendsStayInside
    <3>2. Len(g.buf) + Len(call.data) \in 0..(SizeLimit - 1)
      BY <1>1, <3>1, Sizes
    <3> QED BY <3>2, NoWrap DEF Needed
  <2>2. CASE /\ call.newcap + Len(call.data) <= AddressSpace
             /\ g' = [g EXCEPT !.cap = call.newcap]
             /\ call' = [call EXCEPT !.stage = "copy"]
    <3>1. /\ g'.buf = g.buf /\ g'.cap = call.newcap
          /\ call'.stage = "copy" /\ call'.data = call.data
      BY <1>1, <2>2
    <3>2. call.newcap \in 0..AddressSpace
      BY <1>1, <2>2, Sizes
    <3>3. Len(g.buf) + Len(call.data) <= call.newcap
      BY <1>3, <2>1 DEF Reallocates, BigEnough
    <3>4. AppendsStayInside'
      BY <1>1, <3>1, <3>2, <3>3 DEF AppendsStayInside
    <3>5. g' \in [buf : Seq(Octet), cap : 0..AddressSpace]
      BY <1>1, <2>2, <3>2
    <3>6. call' \in [data : Seq(Octet), newcap : 0..(SizeLimit - 1), stage : Stages]
      BY <1>1, <2>2 DEF Stages
    <3>7. RespTypeOK'
      BY <3>5, <3>6 DEF RespInv, RespTypeOK, Appends
    <3> QED BY <3>4, <3>7 DEF RespInv, WalkStaysInside, Appends
  <2>3. CASE call' = Outcome("failed") /\ UNCHANGED g
    <3>1. AppendsStayInside'
      BY <2>3 DEF RespInv, AppendsStayInside, Outcome
    <3>2. RespTypeOK'
      BY <2>3, Sizes DEF RespInv, RespTypeOK, Appends, Outcome, Stages
    <3> QED BY <3>1, <3>2 DEF RespInv, WalkStaysInside, Appends
  <2> QED BY <1>3, <2>2, <2>3 DEF Reallocates
<1>4. CASE Copies
  <2>1. /\ call.stage = "copy" /\ call' = Outcome("ok")
        /\ g' = [g EXCEPT !.buf = g.buf \o call.data]
    BY <1>4 DEF Copies
  <2>2. g.buf \o call.data \in Seq(Octet)
        /\ Len(g.buf \o call.data) = Len(g.buf) + Len(call.data)
    BY <1>1
  <2>3. g'.buf = g.buf \o call.data /\ g'.cap = g.cap
    BY <1>1, <2>1
  <2>4. AppendsStayInside'
    BY <2>1, <2>2, <2>3 DEF RespInv, AppendsStayInside, Outcome
  <2>5. g' \in [buf : Seq(Octet), cap : 0..AddressSpace]
    BY <1>1, <2>1, <2>2
  <2>6. RespTypeOK'
    BY <2>1, <2>5, Sizes DEF RespInv, RespTypeOK, Appends, Outcome, Stages
  <2> QED BY <2>4, <2>6 DEF RespInv, WalkStaysInside, Appends
<1> QED BY <1>2, <1>3, <1>4 DEF Appends, GrowbufStep

\* der_encode_alloc returns, with what there is or with nothing.
LEMMA EncodeInside == RespInv /\ (EncodeFails \/ EncodeReturns) => RespInv'
<1>1. ASSUME RespInv, EncodeFails PROVE RespInv'
  <2>1. g' = Empty /\ call' = Outcome("ok") /\ pieces' = <<>> /\ given' = TRUE
    BY <1>1 DEF EncodeFails, Frees
  <2>2. AppendsStayInside'
    BY <2>1, Sizes DEF AppendsStayInside, Empty, Outcome
  <2>3. RespTypeOK'
    BY <1>1, <2>1, Sizes DEF RespInv, RespTypeOK, EncodeFails, Empty, Outcome, Stages
  <2> QED BY <1>1, <2>1, <2>2, <2>3 DEF RespInv, WalkStaysInside, EncodeFails
<1>2. ASSUME RespInv, EncodeReturns PROVE RespInv'
  <2>1. AppendsStayInside'
    BY <1>2 DEF RespInv, AppendsStayInside, EncodeReturns
  <2>2. RespTypeOK'
    BY <1>2 DEF RespInv, RespTypeOK, EncodeReturns
  <2> QED BY <1>2, <2>1, <2>2 DEF RespInv, WalkStaysInside, EncodeReturns
<1> QED BY <1>1, <1>2

\* take_field: the next field begins where the last one ended.
LEMMA TakesInside == RespInv /\ Takes => RespInv'
<1> SUFFICES ASSUME RespInv, Takes PROVE RespInv'
  OBVIOUS
<1> DEFINE v == ParseTlv(cut.buf, cut.end, cut.off)
           slice == Slice(cut.off, v.next_off)
           fields == Append(cut.taken, slice)
<1>1. cut \in CutCalls
  BY DEF RespInv, RespTypeOK
<1>2. /\ cut.stage = "walking" /\ cut.off <= cut.end /\ cut.end <= Len(cut.buf)
      /\ cut.out = <<>>
  <2>1. cut.stage = "walking"
    BY DEF Takes
  <2> QED BY <2>1 DEF RespInv, WalkStaysInside
<1>3. /\ cut.buf \in Seq(Octet) /\ cut.end \in 0..Len(cut.buf) /\ cut.off \in Nat
      /\ cut.taken \in Seq(Slices)
  BY <1>1, <1>2 DEF CutCalls
<1>4. AppendsStayInside' /\ pieces' = pieces
  BY DEF RespInv, AppendsStayInside, Takes
<1>5. ASSUME cut' \in CutCalls PROVE RespTypeOK'
  BY <1>5 DEF RespInv, RespTypeOK, Takes
<1>6. CASE v = Malformed
  <2>1. cut' = [cut EXCEPT !.stage = "refused"]
    BY <1>6 DEF Takes
  <2>2. cut' \in CutCalls
    BY <1>1, <2>1 DEF CutCalls
  <2>3. /\ cut'.buf = cut.buf /\ cut'.off = cut.off /\ cut'.end = cut.end
        /\ cut'.taken = cut.taken /\ cut'.out = <<>> /\ cut'.stage = "refused"
    BY <1>1, <1>2, <2>1 DEF CutCalls
  <2>4. WalkStaysInside'
    BY <2>3 DEF RespInv, WalkStaysInside
  <2> QED BY <1>4, <1>5, <2>2, <2>4 DEF RespInv
<1>7. CASE v # Malformed
  <2>1. /\ v.next_off \in Nat
        /\ v.next_off >= cut.off + 2
        /\ v.next_off <= cut.end
    <3>1. /\ v.val_off \in Nat /\ v.val_len \in Nat
          /\ v.next_off = v.val_off + v.val_len
          /\ v.val_off >= cut.off + 2
          /\ v.next_off <= cut.end
      BY <1>3, <1>7, ParsedInside
    <3> HIDE DEF v
    <3> QED BY <1>3, <3>1
  <2>2. slice = [at |-> cut.off, len |-> v.next_off - cut.off]
    BY DEF Slice
  <2>3. slice \in Slices
    BY <1>3, <2>1, <2>2 DEF Slices
  <2>4. fields \in Seq(Slices) /\ Len(fields) = Len(cut.taken) + 1
    BY <1>3, <2>3
  <2>5. \/ /\ Len(fields) < 5
           /\ cut' = [cut EXCEPT !.taken = fields, !.off = v.next_off]
        \/ /\ Len(fields) = 5
           /\ cut' = [cut EXCEPT !.taken = fields, !.off = v.next_off,
                                 !.out = fields, !.stage = "cut"]
    BY <1>7 DEF Takes
  <2> HIDE DEF v, fields
  <2>6. cut' \in CutCalls
    BY <1>1, <2>1, <2>4, <2>5 DEF CutCalls
  <2>7. /\ cut'.buf = cut.buf /\ cut'.end = cut.end
        /\ cut'.taken = fields /\ cut'.off = v.next_off
        /\ \/ cut'.stage = "walking" /\ cut'.out = <<>>
           \/ cut'.stage = "cut" /\ cut'.out = fields /\ Len(fields) = 5
    BY <1>1, <1>2, <2>5 DEF CutCalls
  <2>8. \A i \in 1..Len(fields) :
          /\ fields[i].len >= 2
          /\ fields[i].at + fields[i].len =
               IF i < Len(fields) THEN fields[i + 1].at ELSE v.next_off
    <3> DEFINE n == Len(cut.taken)
    <3>1. n \in Nat
      BY <1>3
    <3>2. \A i \in 1..n : fields[i] = cut.taken[i]
      BY <1>3, <2>3 DEF fields
    <3>3. fields[n + 1] = slice
      BY <1>3, <2>3 DEF fields
    <3>4. \A i \in 1..n :
            /\ cut.taken[i].len >= 2
            /\ cut.taken[i].at + cut.taken[i].len =
                 IF i < n THEN cut.taken[i + 1].at ELSE cut.off
      BY DEF RespInv, WalkStaysInside
    <3>5. slice.at = cut.off /\ slice.len >= 2 /\ slice.at + slice.len = v.next_off
      BY <1>3, <2>1, <2>2
    <3> HIDE DEF n, slice
    <3> SUFFICES ASSUME NEW i \in 1..(n + 1)
                 PROVE  /\ fields[i].len >= 2
                        /\ fields[i].at + fields[i].len =
                             IF i < n + 1 THEN fields[i + 1].at ELSE v.next_off
      BY <2>4 DEF n
    <3>6. CASE i = n + 1
      BY <3>1, <3>3, <3>5, <3>6
    <3>7. CASE i = n
      BY <3>1, <3>2, <3>3, <3>4, <3>5, <3>7
    <3>8. CASE i < n
      BY <3>1, <3>2, <3>4, <3>8
    <3> QED BY <3>1, <3>6, <3>7, <3>8
  <2>9. WalkStaysInside'
    <3>1. v.next_off <= Len(cut.buf)
      BY <1>3, <2>1
    <3> QED BY <1>2, <2>1, <2>7, <2>8, <3>1 DEF WalkStaysInside
  <2> QED BY <1>4, <1>5, <2>6, <2>9 DEF RespInv
<1> QED BY <1>6, <1>7

\* An accessor steps into what it was passed, whatever that is.
LEMMA OpensInside ==
  ASSUME RespInv, NEW fn \in Accessors, NEW buf \in Passed, Opens(fn, buf)
  PROVE  RespInv'
<1> DEFINE v == Opened(fn, buf)
<1>1. buf \in Seq(Octet)
  <2>1. resp \in Seq(Octet)
    BY DEF RespInv, RespTypeOK
  <2>2. CASE \E n \in 0..(Len(resp) - 1) : buf = SubSeq(resp, 1, n)
    BY <2>1, <2>2
  <2>3. CASE \E i \in 1..Len(resp), o \in StrayOctets : buf = [resp EXCEPT ![i] = o]
    BY <2>1, <2>3, ResponseAssumption
  <2> QED BY <2>1, <2>2, <2>3 DEF Passed
<1>2. AppendsStayInside' /\ pieces' = pieces
  BY DEF RespInv, AppendsStayInside, Opens
<1>3. CASE v = Malformed
  <2>1. cut' = [[Idle EXCEPT !.fn = fn, !.buf = buf] EXCEPT !.stage = "refused"]
    BY <1>3 DEF Opens
  <2>2. cut' = [fn |-> fn, buf |-> buf, off |-> 0, end |-> 0, taken |-> <<>>,
                out |-> <<>>, stage |-> "refused"]
    BY <2>1 DEF Idle
  <2>3. WalkStaysInside'
    BY <1>1, <2>2 DEF WalkStaysInside
  <2>4. RespTypeOK'
    <3>1. cut' \in CutCalls
      BY <1>1, <2>2 DEF CutCalls
    <3> QED BY <3>1 DEF RespInv, RespTypeOK, Opens
  <2> QED BY <1>2, <2>3, <2>4 DEF RespInv
<1>4. CASE v # Malformed
  <2>1. /\ v.val_off \in Nat /\ v.val_len \in Nat
        /\ v.val_off + v.val_len <= Len(buf)
    BY <1>1, <1>4, OpenedInside
  <2>2. cut' = [[Idle EXCEPT !.fn = fn, !.buf = buf] EXCEPT
                  !.off = v.val_off, !.end = v.val_off + v.val_len, !.stage = "walking"]
    BY <1>4 DEF Opens
  <2> HIDE DEF v
  <2>3. cut' = [fn |-> fn, buf |-> buf, off |-> v.val_off,
                end |-> v.val_off + v.val_len, taken |-> <<>>,
                out |-> <<>>, stage |-> "walking"]
    BY <2>2 DEF Idle
  <2>4. WalkStaysInside'
    BY <1>1, <2>1, <2>3 DEF WalkStaysInside
  <2>5. RespTypeOK'
    <3>1. cut' \in CutCalls
      BY <1>1, <2>1, <2>3 DEF CutCalls
    <3> QED BY <3>1 DEF RespInv, RespTypeOK, Opens
  <2> QED BY <1>2, <2>4, <2>5 DEF RespInv
<1> QED BY <1>3, <1>4

\* No step leaves the invariant.
LEMMA StepInside == RespInv /\ [RespNext]_respVars => RespInv'
<1> SUFFICES ASSUME RespInv, [RespNext]_respVars PROVE RespInv'
  OBVIOUS
<1>1. CASE Collects
  BY <1>1, CollectsInside
<1>2. CASE Appends
  BY <1>2, AppendsInside
<1>3. CASE EncodeFails \/ EncodeReturns
  BY <1>3, EncodeInside
<1>4. CASE \E fn \in Accessors, buf \in Passed : Opens(fn, buf)
  BY <1>4, OpensInside
<1>5. CASE Takes
  BY <1>5, TakesInside
<1>6. CASE UNCHANGED respVars
  BY <1>6 DEF respVars, RespInv, RespTypeOK, AppendsStayInside, WalkStaysInside
<1> QED BY <1>1, <1>2, <1>3, <1>4, <1>5, <1>6 DEF RespNext

\* The invariant of the specification.
LEMMA RespInvariant == RespSpec => []RespInv
BY InitInside, StepInside, PTL DEF RespSpec

-----------------------------------------------------------------------------
(* The doubling loop *)

\* What is needed does not wrap, nor does twice as much, when it is within reach.
LEMMA ReachableNeeds ==
  ASSUME NEW b \in Seq(Octet), NEW d \in Seq(Octet),
         Len(b) + Len(d) <= SizeLimit \div 2
  PROVE  /\ (Len(b) + Len(d)) % SizeLimit = Len(b) + Len(d)
         /\ 2 * (Len(b) + Len(d)) <= SizeLimit
<1> DEFINE sum == Len(b) + Len(d)
<1>1. sum \in Nat /\ sum <= SizeLimit \div 2
  OBVIOUS
<1> HIDE DEF sum
<1>2. 2 * sum <= SizeLimit /\ sum \in 0..(SizeLimit - 1)
  BY <1>1, Sizes
<1> QED BY <1>2, NoWrap DEF sum

\* Twice a capacity that is not enough does not wrap, when what is needed is
\* within its reach.
LEMMA DoubledIsLarger ==
  ASSUME GrowInv, call.stage = "grow", ~BigEnough, Reachable
  PROVE  /\ (2 * call.newcap) % SizeLimit = 2 * call.newcap
         /\ 2 * call.newcap > call.newcap
         /\ 2 * call.newcap < 2 * Needed(call.data)
<1> DEFINE n == Needed(call.data)
           c == call.newcap
<1>1. n \in Nat /\ c \in 0..(SizeLimit - 1)
  BY Sizes DEF Needed, GrowInv, RespInv, RespTypeOK
<1>2. c > 0 /\ 2 * n <= SizeLimit
  <2>1. c > 0
    BY DEF GrowInv, GrowsUp
  <2>2. /\ g.buf \in Seq(Octet) /\ call.data \in Seq(Octet)
        /\ Len(g.buf) + Len(call.data) <= SizeLimit \div 2
    BY DEF GrowInv, RespInv, RespTypeOK, Reachable
  <2> QED BY <2>1, <2>2, ReachableNeeds DEF Needed
<1>3. ~(c >= n)
  BY DEF BigEnough
<1> HIDE DEF n, c
<1>4. c \in Nat /\ c < n
  BY <1>1, <1>3, Sizes
<1>5. 2 * c \in 0..(SizeLimit - 1)
  BY <1>1, <1>2, <1>4, Sizes
<1>6. (2 * c) % SizeLimit = 2 * c /\ 2 * c > c /\ 2 * c < 2 * n
  BY <1>1, <1>2, <1>4, <1>5, NoWrap
<1> QED BY <1>6 DEF c, n

\* A buffer that has to grow grows from something.
LEMMA CollectsGrow == GrowInv /\ Collects => GrowsUp'
<1> SUFFICES ASSUME GrowInv, Collects, call'.stage = "grow", Reachable'
             PROVE  GrowsUp'
  BY DEF GrowsUp
<1> DEFINE data == Head(pieces)
           n == Needed(data)
<1>1. data \in Seq(Octet)
  BY DEF GrowInv, RespInv, Collects
<1>2. /\ g \in [buf : Seq(Octet), cap : 0..AddressSpace] /\ g' = g
      /\ call' = [data |-> data, newcap |-> StartCapacity,
                  stage |-> IF Fits(data) THEN "copy" ELSE "grow"]
  BY DEF GrowInv, RespInv, RespTypeOK, Collects, AppendStarts
<1>3. ~Fits(data) /\ call'.data = data /\ call'.newcap = StartCapacity
  BY <1>2
<1>4. g.cap \in Nat /\ n \in Nat /\ Needed(call.data)' = n
  <2>1. Needed(call.data)' = n
    BY <1>2, <1>3 DEF Needed
  <2>2. g.cap \in Nat /\ Len(g.buf) \in Nat /\ Len(data) \in Nat
    BY <1>1, <1>2, Sizes
  <2> DEFINE sum == Len(g.buf) + Len(data)
  <2>3. sum \in Nat
    BY <2>2
  <2>4. n = sum % SizeLimit
    BY DEF Needed
  <2> HIDE DEF data, n, sum
  <2>5. n \in Nat
    BY <2>3, <2>4, Sizes
  <2> QED BY <2>1, <2>2, <2>5
<1>5. 2 * n <= SizeLimit /\ g.cap < n
  <2>1. 2 * n <= SizeLimit
    <3>1. Len(g.buf) + Len(data) <= SizeLimit \div 2
      BY <1>2, <1>3 DEF Reachable
    <3>2. g.buf \in Seq(Octet)
      BY <1>2
    <3> QED BY <1>1, <3>1, <3>2, ReachableNeeds DEF Needed
  <2>2. ~(n <= g.cap)
    BY <1>3 DEF Fits
  <2> HIDE DEF n
  <2> QED BY <1>4, <2>1, <2>2
<1> HIDE DEF n, data
<1>6. StartCapacity > 0 /\ (StartCapacity < 2 * n \/ StartCapacity = FirstCapacity)
  <2>1. CASE g.cap = 0
    BY <2>1, Sizes DEF StartCapacity
  <2>2. CASE g.cap # 0
    <3>1. 2 * g.cap \in 0..(SizeLimit - 1) /\ 2 * g.cap > 0 /\ 2 * g.cap < 2 * n
      BY <1>4, <1>5, <2>2, Sizes
    <3>2. (2 * g.cap) % SizeLimit = 2 * g.cap
      BY <3>1, NoWrap
    <3> QED BY <2>2, <3>1, <3>2 DEF StartCapacity
  <2> QED BY <2>1, <2>2
<1> QED BY <1>3, <1>4, <1>6 DEF GrowsUp

\* The loop keeps going up.
LEMMA AppendsGrow == GrowInv /\ Appends => GrowsUp'
<1> SUFFICES ASSUME GrowInv, Appends, call'.stage = "grow", Reachable'
             PROVE  GrowsUp'
  BY DEF GrowsUp
<1>1. call \in [data : Seq(Octet), newcap : 0..(SizeLimit - 1), stage : Stages]
  BY DEF GrowInv, RespInv, RespTypeOK
<1>2. ~Copies /\ ~Reallocates
  BY <1>1 DEF Copies, Reallocates, Outcome
<1>3. /\ call.stage = "grow" /\ call.newcap < Needed(call.data) /\ g' = g
      /\ call' = [call EXCEPT !.newcap = (2 * call.newcap) % SizeLimit]
  BY <1>2 DEF Appends, GrowbufStep, Doubles
<1>4. call'.newcap = (2 * call.newcap) % SizeLimit /\ call'.data = call.data
  BY <1>1, <1>3
<1>5. Needed(call.data)' = Needed(call.data) /\ Reachable
  <2>1. Needed(call.data)' = Needed(call.data)
    BY <1>3, <1>4 DEF Needed
  <2> QED BY <1>3, <1>4, <2>1 DEF Reachable
<1>6. Needed(call.data) \in Nat /\ call.newcap \in Nat /\ call.newcap > 0
  <2>1. g.buf \in Seq(Octet) /\ call.data \in Seq(Octet)
    BY <1>1 DEF GrowInv, RespInv, RespTypeOK
  <2>2. Len(g.buf) \in Nat /\ Len(call.data) \in Nat
    BY <2>1, LenProperties
  <2>3. Needed(call.data) \in Nat
    BY <2>2, SumWraps DEF Needed
  <2>4. call.newcap \in Nat
    BY <1>1, Sizes
  <2>5. call.newcap > 0
    BY <1>3, <1>5 DEF GrowInv, GrowsUp
  <2> QED BY <2>3, <2>4, <2>5
<1>7. ~BigEnough
  BY <1>3, <1>6 DEF BigEnough
<1>8. /\ call'.newcap = 2 * call.newcap
      /\ 2 * call.newcap > call.newcap
      /\ 2 * call.newcap < 2 * Needed(call.data)
  BY <1>3, <1>4, <1>5, <1>7, DoubledIsLarger
<1>9. call'.newcap > 0
  BY <1>6, <1>8
<1> QED BY <1>5, <1>8, <1>9 DEF GrowsUp

\* The invariant of the loop.
LEMMA GrowInvariant == RespSpec => []GrowInv
<1>1. RespInit => GrowInv
  <2>1. RespInit => GrowsUp
    BY DEF RespInit, GrowbufInit, Outcome, GrowsUp
  <2> QED BY <2>1, InitInside DEF GrowInv
<1>2. GrowInv /\ [RespNext]_respVars => GrowInv'
  <2> SUFFICES ASSUME GrowInv, [RespNext]_respVars PROVE GrowInv'
    OBVIOUS
  <2>1. RespInv'
    BY StepInside DEF GrowInv
  <2>2. CASE Collects
    BY <2>1, <2>2, CollectsGrow DEF GrowInv
  <2>3. CASE Appends
    BY <2>1, <2>3, AppendsGrow DEF GrowInv
  <2>4. CASE EncodeFails \/ EncodeReturns
    <3>1. CASE EncodeFails
      <4>1. call'.stage = "ok"
        BY <3>1 DEF EncodeFails, Frees, Outcome
      <4> QED BY <2>1, <4>1 DEF GrowInv, GrowsUp
    <3>2. CASE EncodeReturns
      BY <2>1, <3>2 DEF GrowInv, GrowsUp, Reachable, Needed, EncodeReturns
    <3> QED BY <2>4, <3>1, <3>2
  <2>5. CASE \E fn \in Accessors, buf \in Passed : Opens(fn, buf)
    BY <2>1, <2>5 DEF GrowInv, GrowsUp, Reachable, Needed, Opens
  <2>6. CASE Takes
    BY <2>1, <2>6 DEF GrowInv, GrowsUp, Reachable, Needed, Takes
  <2>7. CASE UNCHANGED respVars
    BY <2>1, <2>7 DEF GrowInv, GrowsUp, Reachable, Needed, respVars
  <2> QED BY <2>2, <2>3, <2>4, <2>5, <2>6, <2>7 DEF RespNext
<1> QED BY <1>1, <1>2, PTL DEF RespSpec

-----------------------------------------------------------------------------
(* The fields of a response: one lemma per action again *)

\* Octets of an encoding still to be collected.
LEMMA PiecesFlat ==
  ASSUME RespInv
  PROVE  /\ FlattenSeq(pieces) \in Seq(Octet)
         /\ g.buf \in Seq(Octet) /\ call.data \in Seq(Octet)
<1>1. pieces \in Seq(Seq(Octet))
  BY DEF RespInv
<1> QED BY <1>1, FlattenType DEF RespInv, RespTypeOK

\* Everything is still to come.
LEMMA InitFields == RespInit => Filled /\ OnTrack /\ Refused
<1> SUFFICES ASSUME RespInit PROVE Filled /\ OnTrack /\ Refused
  OBVIOUS
<1>1. /\ g = Empty /\ call = Outcome("ok") /\ made \in Responses /\ cut = Idle
      /\ pieces = Pieces(made) /\ resp = <<>>
  BY DEF RespInit, GrowbufInit
<1>2. Encoding(made) \in Seq(Octet)
  BY <1>1, EncodingParts
<1>3. /\ g.buf = <<>> /\ ~Running
  BY <1>1 DEF Empty, Running, Outcome
<1>4. Encoding(made) =
        (g.buf \o (IF Running THEN call.data ELSE <<>>)) \o FlattenSeq(pieces)
  <2> DEFINE whole == Encoding(made)
  <2>1. whole = FlattenSeq(pieces)
    BY <1>1 DEF Encoding
  <2>2. (<<>> \o <<>>) \o whole = whole
    BY <1>2
  <2> QED BY <1>3, <2>1, <2>2
<1>5. Filled
  BY <1>1, <1>4 DEF Filled
<1>6. OnTrack
  BY <1>1 DEF OnTrack
<1>7. Refused
  BY <1>1 DEF Refused, Idle
<1> QED BY <1>5, <1>6, <1>7

\* What the walk is told apart by does not change.
LEMMA SameWalk ==
  ASSUME OnTrack, Refused, UNCHANGED <<made, resp, cut>>
  PROVE  OnTrack' /\ Refused'
BY DEF OnTrack, Refused

\* A piece moves from what is to come into what is being appended.
LEMMA CollectsFields == FieldInv /\ Collects => Filled'
<1> SUFFICES ASSUME FieldInv, Collects PROVE Filled'
  OBVIOUS
<1> DEFINE data == Head(pieces)
           rest == FlattenSeq(Tail(pieces))
<1>1. /\ pieces # <<>> /\ call.stage = "ok" /\ g' = g /\ pieces' = Tail(pieces)
      /\ call'.data = data /\ call'.stage \in {"copy", "grow"}
      /\ UNCHANGED <<made, resp, given, cut>>
  BY DEF Collects, AppendStarts
<1>2. pieces \in Seq(Seq(Octet)) /\ g.buf \in Seq(Octet)
  BY PiecesFlat DEF FieldInv, RespInv
<1>3. data \in Seq(Octet) /\ rest \in Seq(Octet)
  <2>1. data \in Seq(Octet) /\ Tail(pieces) \in Seq(Seq(Octet))
    BY <1>1, <1>2
  <2> QED BY <2>1, FlattenType
<1>4. FlattenSeq(pieces) = data \o rest
  BY <1>1, <1>2, FlattenHead
<1>5. ~Running /\ Running' /\ call'.stage # "failed" /\ call.stage # "failed"
  BY <1>1 DEF Running
<1>6. ASSUME ~given PROVE Encoding(made) = (g.buf \o data) \o rest
  <2>1. Encoding(made) = (g.buf \o <<>>) \o FlattenSeq(pieces)
    BY <1>5, <1>6 DEF FieldInv, Filled
  <2>2. g.buf \o <<>> = g.buf
    BY <1>2, Concatenated
  <2> HIDE DEF data, rest
  <2>3. (g.buf \o data) \o rest = g.buf \o (data \o rest)
    BY <1>2, <1>3, Associated, Zenon
  <2> QED BY <1>4, <2>1, <2>2, <2>3
<1>7. /\ resp' # <<>> => given' /\ resp' = Encoding(made')
      /\ resp' = <<>> \/ cut'.stage = "idle" => cut' = Idle
  BY <1>1 DEF FieldInv, Filled
<1> HIDE DEF data
<1>8. ~given' => Encoding(made)' =
        (g'.buf \o (IF Running' THEN call'.data ELSE <<>>)) \o FlattenSeq(pieces')
  BY <1>1, <1>5, <1>6
<1> QED BY <1>7, <1>8 DEF Filled

\* The data moves into the buffer, and before that nothing moves.
LEMMA AppendsFields == FieldInv /\ Appends => Filled'
<1> SUFFICES ASSUME FieldInv, Appends PROVE Filled'
  OBVIOUS
<1>1. UNCHANGED <<made, pieces, resp, given, cut>>
  BY DEF Appends
<1>2. /\ resp' # <<>> => given' /\ resp' = Encoding(made')
      /\ resp' = <<>> \/ cut'.stage = "idle" => cut' = Idle
  BY <1>1 DEF FieldInv, Filled
<1>3. /\ g \in [buf : Seq(Octet), cap : 0..AddressSpace]
      /\ call \in [data : Seq(Octet), newcap : 0..(SizeLimit - 1), stage : Stages]
  BY DEF FieldInv, RespInv, RespTypeOK
<1>4. ~given /\ call.stage # "failed" => Encoding(made) =
        (g.buf \o (IF Running THEN call.data ELSE <<>>)) \o FlattenSeq(pieces)
  BY DEF FieldInv, Filled
<1>5. SUFFICES ASSUME ~given', call'.stage # "failed"
               PROVE  Encoding(made)' =
                        (g'.buf \o (IF Running' THEN call'.data ELSE <<>>))
                          \o FlattenSeq(pieces')
  BY <1>2 DEF Filled
<1>6. CASE Doubles \/ Reallocates
  <2>1. Running /\ call.stage # "failed"
    BY <1>6 DEF Doubles, Reallocates, Running
  <2>2. g'.buf = g.buf /\ call'.data = call.data /\ Running'
    <3>1. CASE Doubles
      BY <1>3, <3>1 DEF Doubles, Running
    <3>2. CASE Reallocates
      <4>1. call' # Outcome("failed")
        BY <1>5 DEF Outcome
      <4>2. g' = [g EXCEPT !.cap = call.newcap] /\ call' = [call EXCEPT !.stage = "copy"]
        BY <3>2, <4>1 DEF Reallocates
      <4> QED BY <1>3, <4>2 DEF Running
    <3> QED BY <1>6, <3>1, <3>2
  <2> QED BY <1>1, <1>4, <1>5, <2>1, <2>2
<1>7. CASE Copies
  <2>1. Running /\ call.stage # "failed"
    BY <1>7 DEF Copies, Running
  <2>2. g'.buf = g.buf \o call.data /\ ~Running'
    BY <1>3, <1>7 DEF Copies, Running, Outcome
  <2>3. (g.buf \o call.data) \o <<>> = g.buf \o call.data
    BY <1>3, Concatenated
  <2> QED BY <1>1, <1>4, <1>5, <2>1, <2>2, <2>3
<1> QED BY <1>6, <1>7 DEF Appends, GrowbufStep

\* der_encode_alloc hands out the encoding or nothing.
LEMMA EncodeFields ==
  FieldInv /\ (EncodeFails \/ EncodeReturns) => Filled' /\ OnTrack' /\ Refused'
<1>1. ASSUME FieldInv, EncodeFails PROVE Filled' /\ OnTrack' /\ Refused'
  <2>1. given' = TRUE /\ UNCHANGED <<made, resp, cut>>
    BY <1>1 DEF EncodeFails
  <2>2. Filled'
    BY <1>1, <2>1 DEF FieldInv, Filled
  <2> QED BY <1>1, <2>1, <2>2, SameWalk DEF FieldInv
<1>2. ASSUME FieldInv, EncodeReturns PROVE Filled' /\ OnTrack' /\ Refused'
  <2>1. /\ ~given /\ pieces = <<>> /\ call.stage = "ok"
        /\ resp' = g.buf /\ given' = TRUE /\ UNCHANGED <<made, cut>>
    BY <1>2 DEF EncodeReturns
  <2>2. resp = <<>> /\ cut = Idle
    BY <1>2, <2>1 DEF FieldInv, Filled
  <2>3. Encoding(made) = (g.buf \o <<>>) \o FlattenSeq(<<>>)
    <3>1. ~Running /\ call.stage # "failed"
      BY <2>1 DEF Running
    <3> QED BY <1>2, <2>1, <3>1 DEF FieldInv, Filled
  <2>4. g.buf \in Seq(Octet)
    BY <1>2, PiecesFlat DEF FieldInv
  <2>5. FlattenSeq(<<>>) = <<>>
    <3>1. <<>> \in Seq(Octet)
      OBVIOUS
    <3> QED BY <3>1, FlattenFew
  <2>6. Encoding(made) = g.buf
    BY <2>3, <2>4, <2>5, Concatenated
  <2>7. Filled'
    BY <2>1, <2>2, <2>6 DEF Filled
  <2>8. cut'.buf = <<>> /\ cut'.stage = "idle"
    BY <2>1, <2>2 DEF Idle
  <2> QED BY <2>7, <2>8 DEF OnTrack, Refused
<1> QED BY <1>1, <1>2

\* An accessor opens the whole response and none of its parts.
LEMMA OpensFields ==
  ASSUME FieldInv, resp # <<>>, NEW fn \in Accessors, NEW buf \in Passed, Opens(fn, buf)
  PROVE  Filled' /\ OnTrack' /\ Refused'
<1> DEFINE v == Opened(fn, buf)
<1>1. /\ UNCHANGED <<g, call, made, pieces, resp, given>>
      /\ IF v = Malformed
         THEN cut' = [fn |-> fn, buf |-> buf, off |-> 0, end |-> 0, taken |-> <<>>,
                      out |-> <<>>, stage |-> "refused"]
         ELSE cut' = [fn |-> fn, buf |-> buf, off |-> v.val_off,
                      end |-> v.val_off + v.val_len, taken |-> <<>>,
                      out |-> <<>>, stage |-> "walking"]
  <2> HIDE DEF v
  <2> QED BY DEF Opens, Idle, v
<1>2. /\ cut'.fn = fn /\ cut'.buf = buf /\ cut'.stage # "idle"
      /\ v = Malformed => cut'.stage = "refused"
      /\ v # Malformed => /\ cut'.off = v.val_off /\ cut'.taken = <<>>
                          /\ cut'.end = v.val_off + v.val_len
                          /\ cut'.stage = "walking"
  <2> HIDE DEF v
  <2> QED BY <1>1
<1>3. Filled'
  BY <1>1, <1>2 DEF FieldInv, Filled, Running
<1>4. made \in Responses /\ resp = Encoding(made) /\ resp \in Seq(Octet)
  BY DEF FieldInv, RespInv, RespTypeOK, Filled
<1>5. ASSUME fn = made.fn, buf \in Seq(Octet), Len(buf) <= Len(resp),
             \A i \in 1..Len(buf) : buf[i] = resp[i]
      PROVE  v = IF Len(buf) = Len(resp)
                 THEN [val_off |-> Len(FlattenSeq(Wrappers(made))),
                       val_len |-> Len(Body(made)), next_off |-> Len(resp)]
                 ELSE Malformed
  BY <1>4, <1>5, OpenedReads
<1>6. OnTrack'
  <2> SUFFICES ASSUME buf = resp, fn = made.fn PROVE OnTrack'
    BY <1>1, <1>2 DEF OnTrack
  <2>1. v = [val_off |-> Len(FlattenSeq(Wrappers(made))),
             val_len |-> Len(Body(made)), next_off |-> Len(resp)]
    BY <1>4, <1>5
  <2> DEFINE front == Len(FlattenSeq(Wrappers(made)))
             n == Len(Body(made))
  <2>2. front \in Nat /\ n \in Nat /\ Len(resp) = front + n
    BY <1>4, EncodingParts
  <2>3. v.val_off = front /\ v.val_len = n
    BY <2>1
  <2>4. v # Malformed
    <3>1. Malformed.val_off = -1
      BY DEF Malformed
    <3> HIDE DEF front, v
    <3> QED BY <2>2, <2>3, <3>1
  <2>5. Len(Upto(made, 0)) = front
    BY <1>4, UptoNext
  <2> HIDE DEF v, front, n
  <2>6. /\ cut'.off = front /\ cut'.end = Len(resp) /\ cut'.taken = <<>>
        /\ cut'.stage = "walking"
    BY <1>2, <2>2, <2>3, <2>4
  <2>7. Len(cut'.taken) = 0
    BY <2>6
  <2> QED BY <1>1, <2>5, <2>6, <2>7 DEF OnTrack
<1>7. Refused'
  <2> SUFFICES ASSUME Len(buf) < Len(resp), fn = made.fn PROVE v = Malformed
    BY <1>1, <1>2 DEF Refused
  <2>1. PICK n \in 0..(Len(resp) - 1) : buf = SubSeq(resp, 1, n)
    <3>1. CASE \E i \in 1..Len(resp), o \in StrayOctets : buf = [resp EXCEPT ![i] = o]
      <4>1. Len(buf) = Len(resp)
        BY <1>4, <3>1
      <4> QED BY <1>4, <4>1
    <3>2. CASE buf = resp
      BY <1>4, <3>2
    <3> QED BY <3>1, <3>2 DEF Passed
  <2>2. buf \in Seq(Octet) /\ \A i \in 1..Len(buf) : buf[i] = resp[i]
    BY <1>4, <2>1
  <2>3. Len(buf) # Len(resp) /\ Len(buf) <= Len(resp)
    BY <1>4, <2>2
  <2> QED BY <1>5, <2>2, <2>3
<1> QED BY <1>3, <1>6, <1>7

\* take_field takes the next member, and the fifth is the last.
LEMMA TakesFields == FieldInv /\ Takes => Filled' /\ OnTrack' /\ Refused'
<1> SUFFICES ASSUME FieldInv, Takes PROVE Filled' /\ OnTrack' /\ Refused'
  OBVIOUS
<1> DEFINE v == ParseTlv(cut.buf, cut.end, cut.off)
           slice == Slice(cut.off, v.next_off)
           fields == Append(cut.taken, slice)
<1>1. /\ cut \in CutCalls /\ cut.stage = "walking" /\ made \in Responses
      /\ UNCHANGED <<g, call, made, pieces, resp, given>>
  BY DEF FieldInv, RespInv, RespTypeOK, Takes
<1>2. \/ v = Malformed /\ cut' = [cut EXCEPT !.stage = "refused"]
      \/ /\ v # Malformed /\ Len(fields) < 5
         /\ cut' = [cut EXCEPT !.taken = fields, !.off = v.next_off]
      \/ /\ v # Malformed /\ Len(fields) = 5
         /\ cut' = [cut EXCEPT !.taken = fields, !.off = v.next_off,
                               !.out = fields, !.stage = "cut"]
  BY DEF Takes
<1>3. cut'.fn = cut.fn /\ cut'.buf = cut.buf /\ cut'.stage # "idle"
  <2> HIDE DEF v, fields
  <2> QED BY <1>1, <1>2 DEF CutCalls
<1>4. resp # <<>> /\ resp = Encoding(made)
  <2>1. cut # Idle
    BY <1>1 DEF Idle
  <2> QED BY <2>1 DEF FieldInv, Filled
<1>5. Filled'
  BY <1>1, <1>3, <1>4 DEF FieldInv, Filled, Running
<1>6. Refused'
  BY <1>1, <1>3 DEF FieldInv, Refused
<1>7. OnTrack'
  <2> SUFFICES ASSUME cut.buf = resp, cut.fn = made.fn PROVE OnTrack'
    BY <1>1, <1>3 DEF OnTrack
  <2> DEFINE k == Len(cut.taken)
             tlv == MemberTlv(made.members[k + 1])
  <2>1. /\ cut.end = Len(resp) /\ cut.off = Len(Upto(made, k)) /\ k < 5
        /\ \A i \in 1..k :
             /\ cut.taken[i].at = Len(Upto(made, i - 1))
             /\ cut.taken[i].len = Len(MemberTlv(made.members[i]))
    BY <1>1, <1>4 DEF FieldInv, OnTrack
  <2>2. cut.taken \in Seq(Slices) /\ k \in 0..4
    <3>1. cut.taken \in Seq(Slices)
      BY <1>1 DEF CutCalls
    <3>2. k \in Nat
      BY <3>1
    <3> HIDE DEF k
    <3> QED BY <2>1, <3>1, <3>2
  <2>3. /\ v # Malformed
        /\ v.next_off = Len(Upto(made, k + 1))
        /\ Len(Upto(made, k)) \in Nat /\ Len(tlv) \in Nat
        /\ Len(Upto(made, k + 1)) = Len(Upto(made, k)) + Len(tlv)
    <3>1. v = ParseTlv(Encoding(made), Len(Encoding(made)), Len(Upto(made, k)))
      BY <1>4, <2>1
    <3> HIDE DEF v, k
    <3> QED BY <1>1, <2>2, <3>1, MemberReads
  <2>4. slice.at = Len(Upto(made, k)) /\ slice.len = Len(tlv)
    <3> HIDE DEF v, tlv
    <3>1. slice.at = cut.off /\ slice.len = v.next_off - cut.off
      BY DEF Slice
    <3> HIDE DEF slice
    <3> QED BY <2>1, <2>3, <3>1
  <2> HIDE DEF slice, v, tlv
  <2>5. /\ Len(fields) = k + 1 /\ fields[k + 1] = slice
        /\ \A i \in 1..k : fields[i] = cut.taken[i]
    BY <2>2
  <2> HIDE DEF fields
  <2>6. /\ cut'.taken = fields /\ cut'.off = v.next_off /\ cut'.end = cut.end
        /\ \/ cut'.stage = "walking" /\ Len(fields) < 5
           \/ cut'.stage = "cut" /\ Len(fields) = 5 /\ cut'.out = fields
    BY <1>1, <1>2, <2>3 DEF CutCalls
  <2>7. \A i \in 1..(k + 1) :
          /\ fields[i].at = Len(Upto(made, i - 1))
          /\ fields[i].len = Len(MemberTlv(made.members[i]))
    <3> SUFFICES ASSUME NEW i \in 1..(k + 1)
                 PROVE  /\ fields[i].at = Len(Upto(made, i - 1))
                        /\ fields[i].len = Len(MemberTlv(made.members[i]))
      OBVIOUS
    <3>1. CASE i = k + 1
      <4>1. i - 1 = k
        BY <2>2, <3>1
      <4> QED BY <2>4, <2>5, <3>1, <4>1 DEF tlv
    <3>2. CASE i # k + 1
      <4>1. i \in 1..k
        BY <2>2, <3>2
      <4> QED BY <2>1, <2>5, <4>1
    <3> QED BY <3>1, <3>2
  <2> HIDE DEF k
  <2>8. /\ cut'.end = Len(resp') /\ cut'.off = Len(Upto(made', Len(cut'.taken)))
        /\ Len(cut'.taken) = k + 1
    BY <1>1, <2>1, <2>3, <2>5, <2>6
  <2>9. \A i \in 1..Len(cut'.taken) :
          /\ cut'.taken[i].at = Len(Upto(made', i - 1))
          /\ cut'.taken[i].len = Len(MemberTlv(made'.members[i]))
    BY <1>1, <2>6, <2>7, <2>8
  <2> QED BY <2>6, <2>8, <2>9 DEF OnTrack
<1> QED BY <1>5, <1>6, <1>7

\* No step leaves the invariant.
LEMMA StepFields == FieldInv /\ [RespNext]_respVars => FieldInv'
<1> SUFFICES ASSUME FieldInv, [RespNext]_respVars PROVE FieldInv'
  OBVIOUS
<1>1. RespInv'
  BY StepInside DEF FieldInv
<1>2. CASE Collects
  <2>1. UNCHANGED <<made, resp, cut>>
    BY <1>2 DEF Collects
  <2> QED BY <1>1, <1>2, <2>1, CollectsFields, SameWalk DEF FieldInv
<1>3. CASE Appends
  <2>1. UNCHANGED <<made, resp, cut>>
    BY <1>3 DEF Appends
  <2> QED BY <1>1, <1>3, <2>1, AppendsFields, SameWalk DEF FieldInv
<1>4. CASE EncodeFails \/ EncodeReturns
  BY <1>1, <1>4, EncodeFields DEF FieldInv
<1>5. CASE resp # <<>> /\ \E fn \in Accessors, buf \in Passed : Opens(fn, buf)
  BY <1>1, <1>5, OpensFields DEF FieldInv
<1>6. CASE Takes
  BY <1>1, <1>6, TakesFields DEF FieldInv
<1>7. CASE UNCHANGED respVars
  BY <1>1, <1>7 DEF respVars, FieldInv, Filled, OnTrack, Refused, Running
<1> QED BY <1>2, <1>3, <1>4, <1>5, <1>6, <1>7 DEF RespNext

\* The invariant of the specification.
LEMMA FieldInvariant == RespSpec => []FieldInv
<1>1. RespInit => FieldInv
  BY InitInside, InitFields DEF FieldInv
<1> QED BY <1>1, StepFields, PTL DEF RespSpec

-----------------------------------------------------------------------------
(* Theorems *)

\* Buffers, offsets and fields have their types: in particular no offset is
\* ever negative and no field is longer than a response.
THEOREM RespTypeCorrect == RespSpec => []RespTypeOK
<1>1. RespInv => RespTypeOK
  BY DEF RespInv
<1> QED BY <1>1, RespInvariant, PTL

\* However the buffer has to grow while a response is encoded, and wherever
\* that fails, rsp_growbuf_append writes only inside what realloc gave it, and
\* none of its sums wraps.
THEOREM AppendsSafe == RespSpec => []AppendsStayInside
<1>1. RespInv => AppendsStayInside
  BY DEF RespInv
<1> QED BY <1>1, RespInvariant, PTL

\* While an append needs at most half of what a size_t counts, its doubling loop
\* never stands still, never wraps and never asks for twice what is needed.
THEOREM LoopGoesUp == RespSpec => []LoopAdvances
<1>1. GrowInv => LoopAdvances
  BY DoubledIsLarger DEF LoopAdvances, GrowInv, GrowsUp
<1> QED BY <1>1, GrowInvariant, PTL

\* Whatever octets an accessor is passed, the fields it cuts lie one behind the
\* other inside them, and *out is five such fields or nothing.
THEOREM WalksSafe == RespSpec => []WalkStaysInside
<1>1. RespInv => WalkStaysInside
  BY DEF RespInv
<1> QED BY <1>1, RespInvariant, PTL

\* *resp is the whole encoding in its order, however often the buffer had to
\* move, and nothing is handed out of an encoding that could not be collected.
THEOREM RespWhole == RespSpec => []RespIsWhole
<1>1. FieldInv => RespIsWhole
  BY DEF FieldInv, Filled, RespIsWhole
<1> QED BY <1>1, FieldInvariant, PTL

\* A response passed on as it was made is never refused, and its five fields
\* are octet by octet the members it was made of.
THEOREM FieldsCut == RespSpec => []FieldsAreMembers
<1>1. FieldInv => FieldsAreMembers
  <2> SUFFICES ASSUME FieldInv, cut.buf = resp, resp # <<>>, cut.fn = made.fn
               PROVE  /\ cut.stage # "refused"
                      /\ cut.stage = "cut" =>
                           \A i \in 1..5 : CutOctets(i) = MemberTlv(made.members[i])
    BY DEF FieldsAreMembers
  <2>1. /\ made \in Responses /\ resp = Encoding(made)
        /\ \/ cut.stage = "walking"
           \/ cut.stage = "cut" /\ Len(cut.taken) = 5 /\ cut.out = cut.taken
        /\ \A i \in 1..Len(cut.taken) :
             /\ cut.taken[i].at = Len(Upto(made, i - 1))
             /\ cut.taken[i].len = Len(MemberTlv(made.members[i]))
    BY DEF FieldInv, OnTrack, Filled, RespInv, RespTypeOK
  <2>2. ASSUME cut.stage = "cut", NEW i \in 1..5
        PROVE  CutOctets(i) = MemberTlv(made.members[i])
    <3> DEFINE at == Len(Upto(made, i - 1))
               tlv == MemberTlv(made.members[i])
    <3>1. cut.taken[i].at = at /\ cut.taken[i].len = Len(tlv)
      BY <2>1, <2>2
    <3>2. cut.out = cut.taken
      BY <2>1, <2>2
    <3>3. SubSeq(Encoding(made), at + 1, at + Len(tlv)) = tlv
      <4>1. i - 1 \in 0..4 /\ (i - 1) + 1 = i
        OBVIOUS
      <4> QED BY <2>1, <4>1, MemberReads
    <3> QED BY <2>1, <3>1, <3>2, <3>3 DEF CutOctets
  <2> QED BY <2>1, <2>2
<1> QED BY <1>1, FieldInvariant, PTL

\* A response that lost octets at its end is never cut into fields.
THEOREM TruncatedRefused == RespSpec => []TruncatedIsRefused
<1>1. FieldInv => TruncatedIsRefused
  BY DEF FieldInv, Refused, TruncatedIsRefused
<1> QED BY <1>1, FieldInvariant, PTL

\* Every length has one encoding in the walker's eyes, the one the encoder
\* writes: it is read back as it was written, and no shorter one would do.
THEOREM LengthsReadBack == RespSpec => []LengthsAgree
<1>1. RespInv => LengthsAgree
  <2> DEFINE Agrees(i, n) ==
               LET head == Header(made.members[i].tag, n)
                   lead == Len(head)
               IN  /\ ParseTlv(head \o [p \in 1..n |-> 0], lead + n, 0) =
                        [val_off |-> lead, val_len |-> n, next_off |-> lead + n]
                   /\ lead > Len(made.members[i].tag) + 1 =>
                        n >= Bit8 /\ head[Len(made.members[i].tag) + 2] # 0
             Boundary(k, d) == (IF k = 0 THEN Bit8 ELSE PlaceValue[k]) + d
  <2>0. ASSUME \A i \in 1..5, n \in 0..(LongFormLimit - 1) : Agrees(i, n)
        PROVE  LengthsAgree
    <3>1. \A i \in 1..5, k \in 0..LengthOctetsMax, d \in -2..2 :
            Boundary(k, d) \in 0..(LongFormLimit - 1) => Agrees(i, Boundary(k, d))
      <4> HIDE DEF Agrees, Boundary
      <4> QED BY <2>0
    <3> QED BY <3>1, Zenon DEF LengthsAgree
  <2> SUFFICES ASSUME RespInv, NEW i \in 1..5, NEW n \in 0..(LongFormLimit - 1)
               PROVE  Agrees(i, n)
    <3> HIDE DEF Agrees
    <3> QED BY <2>0
  <2> DEFINE tag == made.members[i].tag
             head == Header(tag, n)
             lead == Len(head)
             zeros == [p \in 1..n |-> 0]
             buf == head \o zeros
  <2>1. tag \in WellFormedTags /\ tag \in Seq(Octet)
    <3>1. made.members[i] \in Members
      BY WrappersType DEF RespInv, RespTypeOK
    <3> QED BY <3>1 DEF Members, WellFormedTags
  <2>2. LongFormLimit \in Nat /\ n \in Nat
    BY PlaceValues, OctetSizes DEF LongFormLimit
  <2> HIDE DEF tag
  <2>3. head \in Seq(Octet) /\ lead \in Nat /\ lead >= 1
    BY <2>1, <2>2, HeaderParts
  <2>4. zeros \in Seq(Octet) /\ Len(zeros) = n
    <3>1. 0 \in Octet
      BY OctetSizes DEF Octet
    <3> QED BY <2>2, <3>1
  <2> HIDE DEF head, zeros
  <2>5. buf \in Seq(Octet) /\ \A j \in 1..lead : buf[j] = head[j]
    BY <2>3, <2>4, Concatenated
  <2> HIDE DEF buf
  <2>6. ParseTlv(buf, lead + n, 0) =
          [val_off |-> lead, val_len |-> n, next_off |-> lead + n]
    <3>1. \A j \in 1..lead : 0 + j <= lead + n => buf[0 + j] = head[j]
      BY <2>3, <2>5
    <3>2. lead + n \in Nat /\ 0 \in Nat /\ 0 < lead + n
      BY <2>2, <2>3
    <3> DEFINE end == lead + n
    <3>3. ParseTlv(buf, end, 0) =
            IF 0 + lead + n <= end
            THEN [val_off |-> 0 + lead, val_len |-> n, next_off |-> 0 + lead + n]
            ELSE Malformed
      <4>1. end \in Nat /\ 0 < end /\ \A j \in 1..lead : 0 + j <= end => buf[0 + j] = head[j]
        BY <3>1, <3>2
      <4> HIDE DEF end
      <4> QED BY <2>1, <4>1, ParseReads DEF head
    <3>4. 0 + lead + n <= end /\ 0 + lead = lead
      BY <2>2, <2>3
    <3> QED BY <3>3, <3>4
  <2>7. lead > Len(tag) + 1 => n >= Bit8 /\ head[Len(tag) + 2] # 0
    BY <2>1, LengthShortest DEF head
  <2> QED BY <2>6, <2>7 DEF tag, head, zeros, buf
<1> QED BY <1>1, RespInvariant, PTL
=============================================================================
