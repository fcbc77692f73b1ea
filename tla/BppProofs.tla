----------------------------- MODULE BppProofs -----------------------------
(***************************************************************************)
(* Theorems about the Bound Profile Package, for any keys, UPPs, metadata, *)
(* segment size and number of damages and recoveries.                      *)
(*                                                                         *)
(* The argument: every MAC in flight is one the builder made over a prefix *)
(* of its own chain, so a receiver that accepts a TLV has accepted just    *)
(* the builder's TLVs before it.  The two chains tell the rest: the tags,  *)
(* the counters, the plaintexts and where in the UPP each segment lies.    *)
(***************************************************************************)
EXTENDS Bpp, SequenceTheorems, TLAPS

MemberTags ==
  {"initialiseSecureChannelRequest", "secondSequenceOf87"} \cup DOMAIN ElementTag

\* What the way can make of the elements protected under session s: it cannot
\* make a MAC.
MadeElements(s) ==
  {e \in ElementsOnTheWire :
     e.mac # NoMac =>
       \E n \in 1 .. Len(s.chain) :
         e.mac = [key |-> s.key, over |-> SubSeq(s.chain, 1, n)]}

MembersOf(s) == [tag : MemberTags, elements : Seq(MadeElements(s))]
MadePackages(s) == Seq(MembersOf(s))

\* A history of TLVs tells what a session's chain holds.
Logs(log, s) ==
  /\ Len(log) = Len(s.chain)
  /\ \A i \in 1 .. Len(s.chain) :
       log[i] = [tag |-> s.chain[i].tag, text |-> s.chain[i].body.text]

SessionOK(s, log) ==
  /\ s \in ScpSessions
  /\ CountsEveryTlv(s)
  /\ log \in Plaintexts
  /\ Logs(log, s)

\* A package holds one '87', one '88' and then nothing but '86'.
TagAt(i) == CASE i = 1 -> "87" [] i = 2 -> "88" [] OTHER -> "86"

SegmentText(n) == SubSeq(tx.upp, (n - 1) * SegmentSize + 1, End(n))

ChainInOrder ==
  \A i \in 1 .. Len(tx.session.chain) :
    /\ tx.session.chain[i].tag = TagAt(i)
    /\ i > 2 => tx.session.chain[i].body.text = SegmentText(i - 2)

\* How far the UPP is cut after n segments.
CutAt(n) ==
  /\ tx.off = End(n)
  /\ tx.phase = "segments" => tx.off < Len(tx.upp)
  /\ tx.phase # "segments" =>
       /\ n > 0
       /\ (n - 1) * SegmentSize < Len(tx.upp)
       /\ Len(tx.upp) <= n * SegmentSize

TxRecord ==
  tx \in [phase : {"idle", "configure", "metadata", "segments", "wrap", "done", "failed"},
          session : {None} \cup ScpSessions, upp : {None} \cup Upps,
          metadata : {None} \cup Metadatas, off : Nat, content : Packages,
          seq86 : Seq(ElementsOnTheWire), protected : Plaintexts]

Progress ==
  /\ tx.phase = "idle" =>
       /\ tx.session = None
       /\ tx.protected = <<>>
  /\ tx.phase \in {"idle", "configure", "metadata"} => tx.seq86 = <<>> /\ tx.off = 0
  /\ tx.phase \in {"configure", "metadata", "segments"} => tx.upp # <<>>
  /\ tx.phase = "configure" => Len(tx.session.chain) = 0
  /\ tx.phase = "metadata" => Len(tx.session.chain) = 1
  /\ tx.phase \in {"segments", "wrap", "done"} =>
       /\ Len(tx.session.chain) = Len(tx.seq86) + 2
       /\ CutAt(Len(tx.seq86))

Builder ==
  /\ TxRecord
  /\ Progress
  /\ tx.phase # "idle" =>
       /\ SessionOK(tx.session, tx.protected)
       /\ tx.upp \in Upps /\ tx.metadata \in Metadatas
       /\ ChainInOrder
       /\ tx.content \in MadePackages(tx.session)
       /\ tx.seq86 \in Seq(MadeElements(tx.session))

Way ==
  /\ sent # None =>
       /\ tx.phase = "done"
       /\ sent = Append(tx.content, Member("sequenceOf86", tx.seq86))
  /\ wire # None => sent # None /\ wire \in MadePackages(tx.session)
  /\ damage \in 0 .. MaxDamage

\* The receiver's chain is the beginning of the builder's, under its key.
Follows(r, b) ==
  /\ Len(r.chain) <= Len(b.chain)
  /\ \A i \in 1 .. Len(r.chain) : r.chain[i] = b.chain[i]
  /\ r.chain # <<>> => r.key = b.key

RxRecord ==
  rx \in [phase : {"idle", "open", "elements", "done"},
          session : {None} \cup ScpSessions, calls : 0 .. MaxRecoveries,
          next : {None} \cup DOMAIN ElementTag, pos : Nat, elem : Nat,
          g : Seq(Nat \cup {Garbled}), accepted : Plaintexts,
          ret : {None, 0, -1, -2}, upp : {None} \cup Seq(Nat \cup {Garbled})]

\* What a recovery collects is one piece of the UPP, up to the end of the last
\* segment accepted; on a fresh session it starts where the UPP starts.
Collects ==
  LET n == Len(rx.accepted) - 2 IN
  /\ rx.g # <<>> =>
       /\ n > 0
       /\ \E i \in 1 .. End(n) :
            /\ rx.g = SubSeq(tx.upp, i, End(n))
            /\ rx.calls = 1 => i = 1
  /\ rx.calls = 1 /\ n > 0 => rx.g # <<>>

Receiver ==
  /\ RxRecord
  /\ rx.phase = "idle" => rx.calls < MaxRecoveries
  /\ rx.calls = 0 =>
       /\ rx.phase = "idle"
       /\ rx.session = None
       /\ rx.accepted = <<>>
  /\ rx.calls > 0 =>
       /\ sent # None
       /\ SessionOK(rx.session, rx.accepted)
       /\ Follows(rx.session, tx.session)
       /\ Collects
  /\ rx.phase \in {"open", "elements"} =>
       rx.calls > 0 /\ wire # None /\ rx.next \in DOMAIN ElementTag /\ rx.pos > 0
  /\ rx.phase = "elements" =>
       /\ rx.pos \in 1 .. Len(wire)
       /\ rx.elem > 0
       /\ rx.next = "sequenceOf86" /\ rx.elem > 1 => rx.g # <<>>
  /\ rx.phase = "done" /\ rx.ret = 0 => rx.upp = rx.g /\ rx.g # <<>>

BInv == Builder /\ Way /\ Receiver

-----------------------------------------------------------------------------
(* Sequences *)

\* Putting an entry of the right kind between two others keeps the kind.
LEMMA InsertKeeps ==
  ASSUME NEW S, NEW q \in Seq(S), NEW i \in DOMAIN q, NEW e \in S
  PROVE  InsertAt(q, i, e) \in Seq(S)
<1>1. i \in 1 .. Len(q) /\ Len(q) \in Nat
  BY LenProperties
<1>2. SubSeq(q, 1, i - 1) \in Seq(S)
  BY <1>1, SubSeqProperties, ElementOfSeq
<1>3. SubSeq(q, i, Len(q)) \in Seq(S)
  BY <1>1, SubSeqProperties, ElementOfSeq
<1>4. <<e>> \in Seq(S)
  OBVIOUS
<1>5. SubSeq(q, 1, i - 1) \o <<e>> \in Seq(S)
  BY <1>2, <1>4, ConcatProperties
<1> QED BY <1>3, <1>5, ConcatProperties DEF InsertAt

\* Losing, repeating or exchanging entries makes no new ones.
LEMMA DisorderedKeeps ==
  ASSUME NEW S, NEW q \in Seq(S), NEW p \in Disordered(q)
  PROVE  p \in Seq(S)
<1>1. ASSUME NEW i \in DOMAIN q, p = RemoveAt(q, i) PROVE p \in Seq(S)
  <2>1. i \in 1 .. Len(q) /\ Len(q) \in Nat
    BY <1>1, LenProperties
  <2>2. SubSeq(q, 1, i - 1) \in Seq(S)
    BY <2>1, SubSeqProperties, ElementOfSeq
  <2>3. SubSeq(q, i + 1, Len(q)) \in Seq(S)
    BY <2>1, SubSeqProperties, ElementOfSeq
  <2> QED BY <1>1, <2>2, <2>3, ConcatProperties DEF RemoveAt
<1>2. ASSUME NEW i \in DOMAIN q, p = InsertAt(q, i, q[i]) PROVE p \in Seq(S)
  <2>1. q[i] \in S
    BY <1>2, LenProperties, ElementOfSeq
  <2> QED BY <1>2, <2>1, InsertKeeps
<1>3. ASSUME NEW i \in 1 .. Len(q) - 1,
             p = [q EXCEPT ![i] = q[i + 1], ![i + 1] = q[i]]
      PROVE  p \in Seq(S)
  <2>1. Len(q) \in Nat /\ i \in 1 .. Len(q) /\ i + 1 \in 1 .. Len(q)
    BY <1>3, LenProperties
  <2>2. q[i] \in S /\ q[i + 1] \in S
    BY <2>1, ElementOfSeq
  <2>3. [q EXCEPT ![i] = q[i + 1]] \in Seq(S)
        /\ Len([q EXCEPT ![i] = q[i + 1]]) = Len(q)
    BY <2>1, <2>2, ExceptSeq
  <2>4. [[q EXCEPT ![i] = q[i + 1]] EXCEPT ![i + 1] = q[i]] \in Seq(S)
    BY <2>1, <2>2, <2>3, ExceptSeq
  <2>5. p = [[q EXCEPT ![i] = q[i + 1]] EXCEPT ![i + 1] = q[i]]
    BY <1>3, <2>1, LenProperties
  <2> QED BY <2>4, <2>5
<1> QED BY <1>1, <1>2, <1>3 DEF Disordered

-----------------------------------------------------------------------------
(* Protection *)

\* One more TLV keeps a session's counter and chain together, and what was
\* made before it is still made.
LEMMA AdvancedIsOK ==
  ASSUME NEW s \in ScpSessions, CountsEveryTlv(s),
         NEW tag \in Tags, NEW body \in Bodies,
         body.icv = IF tag = "88" THEN NoIcv ELSE Icv(s)
  PROVE  /\ Advanced(s, tag, body) \in ScpSessions
         /\ CountsEveryTlv(Advanced(s, tag, body))
         /\ Advanced(s, tag, body).key = s.key
         /\ Advanced(s, tag, body).chain = Append(s.chain, [tag |-> tag, body |-> body])
         /\ Len(Advanced(s, tag, body).chain) = Len(s.chain) + 1
<1> DEFINE t == [tag |-> tag, body |-> body]
           a == Advanced(s, tag, body)
<1>1. s.chain \in Seq(Tlvs) /\ s.key \in Keys /\ s.enc_counter \in Nat \ {0} /\ t \in Tlvs
  BY DEF ScpSessions, Tlvs
<1>2. a = [key |-> s.key, chain |-> Append(s.chain, t), enc_counter |-> s.enc_counter + 1]
  <2>1. Append(s.chain, t) \in Seq(Tlvs)
    BY <1>1, AppendProperties
  <2>2. /\ a \in ScpSessions /\ a.key = s.key
        /\ a.chain = Append(s.chain, t) /\ a.enc_counter = s.enc_counter + 1
    <3> DEFINE c == Append(s.chain, t)
               n == s.enc_counter + 1
    <3>1. a = [s EXCEPT !.chain = c, !.enc_counter = n]
      BY DEF Advanced, Chained
    <3>2. n \in Nat \ {0} /\ c \in Seq(Tlvs)
      BY <1>1, <2>1
    <3> HIDE DEF a, c, n
    <3>3. /\ [s EXCEPT !.chain = c, !.enc_counter = n] \in ScpSessions
          /\ [s EXCEPT !.chain = c, !.enc_counter = n].key = s.key
          /\ [s EXCEPT !.chain = c, !.enc_counter = n].chain = c
          /\ [s EXCEPT !.chain = c, !.enc_counter = n].enc_counter = n
      BY <1>1, <3>2 DEF ScpSessions
    <3> QED BY <3>1, <3>3 DEF c, n
  <2> HIDE DEF a
  <2>3. a = [key |-> a.key, chain |-> a.chain, enc_counter |-> a.enc_counter]
    BY <2>2 DEF ScpSessions
  <2> QED BY <2>2, <2>3
<1>3. /\ Append(s.chain, t) \in Seq(Tlvs)
      /\ Len(Append(s.chain, t)) = Len(s.chain) + 1
      /\ \A i \in 1 .. Len(s.chain) : Append(s.chain, t)[i] = s.chain[i]
      /\ Append(s.chain, t)[Len(s.chain) + 1] = t
      /\ Len(s.chain) \in Nat
      /\ DOMAIN s.chain = 1 .. Len(s.chain)
      /\ DOMAIN Append(s.chain, t) = 1 .. Len(s.chain) + 1
  BY <1>1, AppendProperties, LenProperties
<1>4. a \in ScpSessions
  BY <1>1, <1>2, <1>3 DEF ScpSessions
<1>5. CountsEveryTlv(a)
  <2>1. a.enc_counter = Len(a.chain) + 1
    BY <1>1, <1>2, <1>3 DEF CountsEveryTlv
  <2>2. ASSUME NEW i \in DOMAIN a.chain
        PROVE  a.chain[i].body.icv = IF a.chain[i].tag = "88" THEN NoIcv
                                     ELSE [key |-> a.key, counter |-> i]
    <3>1. CASE i \in 1 .. Len(s.chain)
      BY <3>1, <1>2, <1>3 DEF CountsEveryTlv
    <3>2. CASE i = Len(s.chain) + 1
      BY <3>2, <1>1, <1>2, <1>3 DEF CountsEveryTlv, Icv
    <3> QED BY <2>2, <3>1, <3>2, <1>2, <1>3
  <2> QED BY <2>1, <2>2 DEF CountsEveryTlv
<1> QED BY <1>2, <1>3, <1>4, <1>5

\* What could be made of a session's elements can still be, once it advanced,
\* and so can the element it advanced over.
LEMMA AdvancedMakes ==
  ASSUME NEW s \in ScpSessions, CountsEveryTlv(s),
         NEW tag \in Tags, NEW body \in Bodies,
         body.icv = IF tag = "88" THEN NoIcv ELSE Icv(s)
  PROVE  /\ MadeElements(s) \subseteq MadeElements(Advanced(s, tag, body))
         /\ Element(s, tag, body) \in MadeElements(Advanced(s, tag, body))
<1> DEFINE t == [tag |-> tag, body |-> body]
           a == Advanced(s, tag, body)
<1>1. s.chain \in Seq(Tlvs) /\ s.key \in Keys /\ t \in Tlvs
  BY DEF ScpSessions, Tlvs
<1>2. /\ a.key = s.key
      /\ a.chain = Append(s.chain, t)
      /\ Len(a.chain) = Len(s.chain) + 1
      /\ a.chain \in Seq(Tlvs)
      /\ Len(s.chain) \in Nat
      /\ \A i \in 1 .. Len(s.chain) : a.chain[i] = s.chain[i]
  BY SMTT(30), <1>1, AdvancedIsOK, AppendProperties, LenProperties DEF ScpSessions
<1>3. ASSUME NEW n \in 1 .. Len(s.chain)
      PROVE  SubSeq(a.chain, 1, n) = SubSeq(s.chain, 1, n)
  <2>1. \A i \in 1 .. n : s.chain[i] \in Tlvs /\ a.chain[i] = s.chain[i]
    BY <1>1, <1>2, ElementOfSeq
  <2>2. /\ SubSeq(a.chain, 1, n) \in Seq(Tlvs) /\ SubSeq(s.chain, 1, n) \in Seq(Tlvs)
        /\ Len(SubSeq(a.chain, 1, n)) = n /\ Len(SubSeq(s.chain, 1, n)) = n
        /\ \A i \in 1 .. n : SubSeq(a.chain, 1, n)[i] = a.chain[i]
        /\ \A i \in 1 .. n : SubSeq(s.chain, 1, n)[i] = s.chain[i]
    BY <2>1, <1>2, SubSeqProperties
  <2> QED BY <2>1, <2>2, SeqEqual
<1>4. SubSeq(a.chain, 1, Len(a.chain)) = Append(s.chain, t)
  BY <1>2, SubSeqFull
<1>5. MadeElements(s) \subseteq MadeElements(a)
  <2> SUFFICES ASSUME NEW e \in MadeElements(s), e.mac # NoMac
               PROVE  \E n \in 1 .. Len(a.chain) :
                        e.mac = [key |-> a.key, over |-> SubSeq(a.chain, 1, n)]
    BY DEF MadeElements
  <2>1. PICK n \in 1 .. Len(s.chain) :
               e.mac = [key |-> s.key, over |-> SubSeq(s.chain, 1, n)]
    BY DEF MadeElements
  <2>2. n \in 1 .. Len(a.chain)
    BY <1>2
  <2> QED BY <2>1, <2>2, <1>2, <1>3
<1>6. Element(s, tag, body) \in MadeElements(a)
  <2> DEFINE e == Element(s, tag, body)
  <2>1. e = [tag |-> tag, body |-> body, mac |-> [key |-> s.key, over |-> Append(s.chain, t)]]
    BY DEF Element, Mac, Chained
  <2>2. e \in ElementsOnTheWire
    BY <2>1, <1>1, <1>2 DEF ElementsOnTheWire
  <2>3. Len(a.chain) \in 1 .. Len(a.chain)
    BY <1>2
  <2> HIDE DEF a, e
  <2>4. e.mac = [key |-> s.key, over |-> Append(s.chain, t)]
    BY <2>1
  <2>5. e.mac = [key |-> a.key, over |-> SubSeq(a.chain, 1, Len(a.chain))]
    BY <2>4, <1>2, <1>4
  <2>6. e \in MadeElements(a)
    BY <2>2, <2>3, <2>5 DEF MadeElements
  <2> QED BY <2>6 DEF a, e
<1> QED BY <1>5, <1>6

\* Packages travel with their elements.
LEMMA MadeGrows ==
  ASSUME NEW s, NEW a, MadeElements(s) \subseteq MadeElements(a)
  PROVE  /\ MadePackages(s) \subseteq MadePackages(a)
         /\ Seq(MadeElements(s)) \subseteq Seq(MadeElements(a))
<1>1. Seq(MadeElements(s)) \subseteq Seq(MadeElements(a))
  BY SeqMonotonic
<1>2. MembersOf(s) \subseteq MembersOf(a)
  BY <1>1 DEF MembersOf
<1>3. Seq(MembersOf(s)) \subseteq Seq(MembersOf(a))
  BY <1>2, SeqMonotonic
<1> QED BY <1>1, <1>3 DEF MadePackages

\* A fresh session has counted nothing yet.
LEMMA FreshIsOK ==
  ASSUME NEW k \in Keys
  PROVE  /\ InitSession(k) \in ScpSessions
         /\ InitSession(k).chain = <<>>
         /\ SessionOK(InitSession(k), <<>>)
<1> DEFINE s == InitSession(k)
<1>1. /\ s \in ScpSessions /\ s.chain = <<>> /\ s.enc_counter = 1
  BY DEF InitSession, ScpSessions
<1> HIDE DEF s
<1>2. CountsEveryTlv(s)
  BY <1>1 DEF CountsEveryTlv
<1>3. <<>> \in Plaintexts /\ Logs(<<>>, s)
  BY <1>1 DEF Plaintexts, Logs
<1>4. SessionOK(s, <<>>)
  BY <1>1, <1>2, <1>3 DEF SessionOK
<1> QED BY <1>1, <1>4 DEF s

\* A log grows with the chain it tells of.
LEMMA LogGrows ==
  ASSUME NEW s, NEW log, SessionOK(s, log),
         NEW tag \in Tags, NEW body \in Bodies,
         body.icv = IF tag = "88" THEN NoIcv ELSE Icv(s)
  PROVE  SessionOK(Advanced(s, tag, body), Append(log, [tag |-> tag, text |-> body.text]))
<1> DEFINE t == [tag |-> tag, body |-> body]
           r == [tag |-> tag, text |-> body.text]
           a == Advanced(s, tag, body)
           l == Append(log, r)
<1>1. s \in ScpSessions /\ CountsEveryTlv(s) /\ Logs(log, s) /\ log \in Plaintexts
  BY DEF SessionOK
<1>2. /\ a \in ScpSessions /\ CountsEveryTlv(a)
      /\ a.chain = Append(s.chain, t) /\ Len(a.chain) = Len(s.chain) + 1
  BY <1>1, AdvancedIsOK
<1>3. s.chain \in Seq(Tlvs) /\ t \in Tlvs
  BY <1>1 DEF ScpSessions, Tlvs
<1>4. r \in [tag : Tags, text : Texts]
  BY DEF Bodies
<1>5. /\ l \in Plaintexts /\ Len(l) = Len(log) + 1
      /\ \A i \in 1 .. Len(log) : l[i] = log[i]
      /\ l[Len(log) + 1] = r
      /\ Len(log) \in Nat
  BY <1>1, <1>4, AppendProperties, LenProperties DEF Plaintexts
<1>6. /\ \A i \in 1 .. Len(s.chain) : a.chain[i] = s.chain[i]
      /\ a.chain[Len(s.chain) + 1] = t
      /\ Len(s.chain) \in Nat
  BY <1>2, <1>3, AppendProperties, LenProperties
<1>7. Logs(l, a)
  BY <1>1, <1>2, <1>5, <1>6 DEF Logs
<1> QED BY <1>2, <1>5, <1>7 DEF SessionOK

\* What is made of protected elements can be on the wire.
LEMMA MadeIsTyped ==
  ASSUME NEW s
  PROVE  /\ MadeElements(s) \subseteq ElementsOnTheWire
         /\ Seq(MadeElements(s)) \subseteq Seq(ElementsOnTheWire)
         /\ MadePackages(s) \subseteq Packages
<1> DEFINE M == [tag : MemberTags, elements : Seq(ElementsOnTheWire)]
<1>1. MadeElements(s) \subseteq ElementsOnTheWire
  BY DEF MadeElements
<1>2. Seq(MadeElements(s)) \subseteq Seq(ElementsOnTheWire)
  BY <1>1, SeqMonotonic
<1>3. MembersOf(s) \subseteq M
  BY <1>2 DEF MembersOf
<1>4. Seq(MembersOf(s)) \subseteq Seq(M)
  BY <1>3, SeqMonotonic
<1> QED BY <1>1, <1>2, <1>4 DEF MadePackages, Packages, MemberTags

-----------------------------------------------------------------------------
(* rsp_bpp_build *)

\* Until the builder is done nothing travels and nobody receives.
LEMMA NotSentYet ==
  ASSUME BInv, tx.phase # "done"
  PROVE  sent = None /\ wire = None /\ rx.calls = 0
BY DEF BInv, Way, Receiver, RxRecord

\* A receiver that was never called does not depend on the builder.
LEMMA UncalledKeeps ==
  ASSUME Receiver, rx.calls = 0, UNCHANGED rx
  PROVE  Receiver'
BY DEF Receiver, RxRecord

\* What is not sent is not on its way.
LEMMA NothingSent ==
  ASSUME BInv, tx.phase # "done", UNCHANGED <<sent, wire, damage, rx>>, Builder'
  PROVE  BInv'
<1>1. sent = None /\ wire = None /\ rx.calls = 0
  BY NotSentYet
<1>2. Way'
  BY <1>1 DEF BInv, Way
<1>3. Receiver'
  BY <1>1, UncalledKeeps DEF BInv
<1> QED BY <1>2, <1>3 DEF BInv

\* The builder is called: an empty UPP fails at once, any other has its whole
\* way before it.
LEMMA BuildKeeps ==
  ASSUME BInv, NEW k \in Keys, NEW upp \in Upps, NEW metadata \in Metadatas,
         Build(k, upp, metadata)
  PROVE  BInv'
<1> DEFINE s == InitSession(k)
           isc == <<Member("initialiseSecureChannelRequest", <<>>)>>
<1>1. /\ tx.phase = "idle" /\ UNCHANGED <<sent, wire, damage, rx>>
      /\ tx.protected = <<>> /\ tx.seq86 = <<>> /\ tx.off = 0
      /\ TxRecord
  BY DEF Build, BInv, Builder, Progress
<1>2. /\ tx'.phase = (IF upp = <<>> THEN "failed" ELSE "configure")
      /\ tx'.session = s /\ tx'.upp = upp /\ tx'.metadata = metadata
      /\ tx'.content = isc /\ tx'.off = 0
      /\ tx'.seq86 = <<>> /\ tx'.protected = <<>>
  BY <1>1 DEF Build, TxRecord
<1>3. s \in ScpSessions /\ s.chain = <<>>
  BY FreshIsOK
<1>4. SessionOK(s, <<>>)
  BY FreshIsOK
<1>5. isc \in MadePackages(s)
  <2>1. Member("initialiseSecureChannelRequest", <<>>) \in MembersOf(s)
    BY DEF Member, MembersOf, MemberTags
  <2> QED BY <2>1 DEF MadePackages
<1>6. TxRecord'
  <2>1. tx' \in [phase : {"idle", "configure", "metadata", "segments", "wrap", "done", "failed"},
                 session : {None} \cup ScpSessions, upp : {None} \cup Upps,
                 metadata : {None} \cup Metadatas, off : Nat, content : Packages,
                 seq86 : Seq(ElementsOnTheWire), protected : Plaintexts]
    <3>1. isc \in Packages
      BY <1>5, MadeIsTyped
    <3> HIDE DEF isc, s
    <3> QED BY <1>1, <1>3, <3>1 DEF Build, TxRecord, isc, s
  <2> QED BY <2>1 DEF TxRecord
<1>7. Progress'
  BY <1>2, <1>3 DEF Progress
<1>8. ChainInOrder'
  BY <1>2, <1>3 DEF ChainInOrder
<1>9. Builder'
  BY <1>2, <1>4, <1>5, <1>6, <1>7, <1>8 DEF Builder
<1> QED BY <1>1, <1>9, NothingSent

\* One more TLV is protected in its turn.
LEMMA ProtectsOne ==
  ASSUME Builder, tx.phase # "idle",
         NEW tag \in Tags, NEW body \in Bodies,
         body.icv = IF tag = "88" THEN NoIcv ELSE Icv(tx.session),
         tag = TagAt(Len(tx.session.chain) + 1),
         Len(tx.session.chain) + 1 > 2 =>
           body.text = SegmentText(Len(tx.session.chain) - 1),
         tx'.session = Advanced(tx.session, tag, body),
         tx'.upp = tx.upp,
         tx'.protected = Append(tx.protected, [tag |-> tag, text |-> body.text])
  PROVE  /\ SessionOK(tx.session, tx.protected)'
         /\ ChainInOrder'
         /\ Len(tx'.session.chain) = Len(tx.session.chain) + 1
         /\ Len(tx.session.chain) \in Nat
         /\ MadeElements(tx.session) \subseteq MadeElements(tx'.session)
         /\ Element(tx.session, tag, body) \in MadeElements(tx'.session)
         /\ tx'.session \in ScpSessions /\ tx'.protected \in Plaintexts
<1> DEFINE s == tx.session
           t == [tag |-> tag, body |-> body]
<1>1. SessionOK(s, tx.protected) /\ s \in ScpSessions /\ CountsEveryTlv(s)
  BY DEF Builder, SessionOK
<1>2. SessionOK(tx'.session, tx'.protected)
  BY <1>1, LogGrows
<1>3. /\ tx'.session.chain = Append(s.chain, t)
      /\ Len(tx'.session.chain) = Len(s.chain) + 1
  BY <1>1, AdvancedIsOK
<1>4. s.chain \in Seq(Tlvs) /\ t \in Tlvs
  BY <1>1 DEF ScpSessions, Tlvs
<1>5. /\ Len(s.chain) \in Nat
      /\ \A i \in 1 .. Len(s.chain) : tx'.session.chain[i] = s.chain[i]
      /\ tx'.session.chain[Len(s.chain) + 1] = t
  <2> DEFINE c == s.chain
  <2>1. c \in Seq(Tlvs)
    BY <1>4
  <2> HIDE DEF c, t
  <2>2. /\ Len(c) \in Nat
        /\ \A i \in 1 .. Len(c) : Append(c, t)[i] = c[i]
        /\ Append(c, t)[Len(c) + 1] = t
    BY <1>4, <2>1, AppendProperties, LenProperties
  <2> QED BY <1>3, <2>2 DEF c, t
<1>6. \A n : SegmentText(n)' = SegmentText(n)
  BY DEF SegmentText, End
<1>7. ChainInOrder'
  <2> SUFFICES ASSUME NEW i \in 1 .. Len(tx'.session.chain)
               PROVE  /\ tx'.session.chain[i].tag = TagAt(i)
                      /\ i > 2 => tx'.session.chain[i].body.text = SegmentText(i - 2)
    BY <1>6 DEF ChainInOrder
  <2>1. CASE i \in 1 .. Len(s.chain)
    BY <2>1, <1>5 DEF ChainInOrder, Builder
  <2>2. CASE i = Len(s.chain) + 1
    BY <2>2, <1>5
  <2> QED BY <2>1, <2>2, <1>3, <1>5
<1>8. /\ MadeElements(s) \subseteq MadeElements(tx'.session)
      /\ Element(s, tag, body) \in MadeElements(tx'.session)
  BY <1>1, AdvancedMakes
<1> QED BY <1>2, <1>3, <1>5, <1>7, <1>8 DEF SessionOK

\* ConfigureISDP becomes the one '87' TLV.
LEMMA BuildConfigureKeeps ==
  ASSUME BInv, BuildConfigure
  PROVE  BInv'
<1> DEFINE s == tx.session
           body == Encrypted(s, Configure)
           e == Element(s, "87", body)
<1>1. /\ tx.phase = "configure" /\ UNCHANGED <<sent, wire, damage, rx>>
      /\ TxRecord /\ Builder /\ tx.seq86 = <<>> /\ tx.off = 0 /\ tx.upp # <<>>
      /\ Len(s.chain) = 0 /\ s \in ScpSessions
      /\ tx.content \in MadePackages(s)
  BY DEF BuildConfigure, BInv, Builder, Progress, SessionOK
<1>2. /\ body.icv = Icv(s) /\ body.text = Configure /\ body \in Bodies
  BY <1>1 DEF Encrypted, Icv, Bodies, Texts, ScpSessions
<1>3. tx' = [tx EXCEPT !.session = Advanced(s, "87", body),
                       !.protected = Append(tx.protected, [tag |-> "87", text |-> Configure]),
                       !.phase = "metadata",
                       !.content = Append(tx.content, Member("firstSequenceOf87", <<e>>))]
  BY <1>1 DEF BuildConfigure, Protects, Protect, TxRecord
<1> HIDE DEF body, e
<1>4. /\ tx'.session = Advanced(s, "87", body)
      /\ tx'.protected = Append(tx.protected, [tag |-> "87", text |-> Configure])
      /\ tx'.phase = "metadata" /\ tx'.upp = tx.upp /\ tx'.metadata = tx.metadata
      /\ tx'.content = Append(tx.content, Member("firstSequenceOf87", <<e>>))
      /\ tx'.seq86 = tx.seq86 /\ tx'.off = tx.off
  BY <1>1, <1>3 DEF TxRecord
<1>5. /\ SessionOK(tx.session, tx.protected)'
      /\ ChainInOrder'
      /\ Len(tx'.session.chain) = 1
      /\ MadeElements(s) \subseteq MadeElements(tx'.session)
      /\ Element(s, "87", body) \in MadeElements(tx'.session)
      /\ tx'.session \in ScpSessions /\ tx'.protected \in Plaintexts
  BY <1>1, <1>2, <1>4, ProtectsOne, "87" \in Tags DEF TagAt, Tags
<1>6. tx'.content \in MadePackages(tx'.session)
  <2>1. tx.content \in MadePackages(tx'.session)
    BY <1>1, <1>5, MadeGrows
  <2>2. Member("firstSequenceOf87", <<e>>) \in MembersOf(tx'.session)
    BY <1>5 DEF Member, MembersOf, MemberTags, ElementTag, e
  <2> QED BY <1>4, <2>1, <2>2, AppendProperties DEF MadePackages
<1>7. TxRecord'
  BY <1>1, <1>3, <1>4, <1>5, <1>6, MadeIsTyped DEF TxRecord
<1>8. Progress'
  BY <1>1, <1>4, <1>5 DEF Progress
<1>9. tx'.seq86 \in Seq(MadeElements(tx'.session))
  BY <1>1, <1>4
<1>10. Builder'
  BY <1>1, <1>4, <1>5, <1>6, <1>7, <1>8, <1>9 DEF Builder
<1> QED BY <1>1, <1>10, NothingSent

\* A call that ends without handing anything out leaves all else as it was.
LEMMA BuildFailsKeeps ==
  ASSUME BInv, tx.phase \in {"configure", "metadata", "segments", "wrap"},
         BuildReturns("failed"), UNCHANGED <<sent, wire, damage, rx>>
  PROVE  BInv'
<1>1. TxRecord /\ Builder
  BY DEF BInv, Builder
<1>2. /\ tx'.phase = "failed" /\ tx'.session = tx.session /\ tx'.upp = tx.upp
      /\ tx'.metadata = tx.metadata /\ tx'.content = tx.content
      /\ tx'.seq86 = tx.seq86 /\ tx'.protected = tx.protected
      /\ TxRecord'
  BY <1>1 DEF BuildReturns, TxRecord
<1>3. Progress'
  BY <1>2 DEF Progress
<1>4. ChainInOrder'
  BY <1>1, <1>2 DEF Builder, ChainInOrder, SegmentText, End
<1>5. Builder'
  BY <1>1, <1>2, <1>3, <1>4 DEF Builder
<1> QED BY <1>5, NothingSent

\* A metadata that fits becomes the one '88' TLV; any other fails the call.
LEMMA BuildMetadataKeeps ==
  ASSUME BInv, BuildMetadata
  PROVE  BInv'
<1> DEFINE s == tx.session
           body == Clear(tx.metadata)
           e == Element(s, "88", body)
<1>1. /\ tx.phase = "metadata" /\ UNCHANGED <<sent, wire, damage, rx>>
      /\ TxRecord /\ Builder /\ tx.seq86 = <<>> /\ tx.off = 0 /\ tx.upp # <<>>
      /\ Len(s.chain) = 1 /\ s \in ScpSessions /\ tx.upp \in Upps
      /\ tx.content \in MadePackages(s) /\ tx.metadata \in Metadatas
  BY DEF BuildMetadata, BInv, Builder, Progress, SessionOK
<1>2. CASE tx.metadata \notin FittingMetadatas
  BY <1>1, <1>2, BuildFailsKeeps DEF BuildMetadata
<1>3. CASE tx.metadata \in FittingMetadatas
  <2>1. /\ body.icv = NoIcv /\ body.text = tx.metadata /\ body \in Bodies
    BY <1>1 DEF Clear, Bodies, Texts
  <2>2. tx' = [tx EXCEPT !.session = Advanced(s, "88", body),
                         !.protected = Append(tx.protected, [tag |-> "88", text |-> tx.metadata]),
                         !.phase = "segments",
                         !.content = Append(tx.content, Member("sequenceOf88", <<e>>))]
    BY <1>1, <1>3 DEF BuildMetadata, Protects, ProtectMacOnly, TxRecord
  <2> HIDE DEF body, e
  <2>3. /\ tx'.session = Advanced(s, "88", body)
        /\ tx'.protected = Append(tx.protected, [tag |-> "88", text |-> tx.metadata])
        /\ tx'.phase = "segments" /\ tx'.upp = tx.upp /\ tx'.metadata = tx.metadata
        /\ tx'.content = Append(tx.content, Member("sequenceOf88", <<e>>))
        /\ tx'.seq86 = tx.seq86 /\ tx'.off = tx.off
    BY <1>1, <2>2 DEF TxRecord
  <2>4. /\ SessionOK(tx.session, tx.protected)'
        /\ ChainInOrder'
        /\ Len(tx'.session.chain) = 2
        /\ MadeElements(s) \subseteq MadeElements(tx'.session)
        /\ Element(s, "88", body) \in MadeElements(tx'.session)
        /\ tx'.session \in ScpSessions /\ tx'.protected \in Plaintexts
    BY <1>1, <2>1, <2>3, ProtectsOne, "88" \in Tags DEF TagAt, Tags
  <2>5. tx'.content \in MadePackages(tx'.session)
    <3>1. tx.content \in MadePackages(tx'.session)
      BY <1>1, <2>4, MadeGrows
    <3>2. Member("sequenceOf88", <<e>>) \in MembersOf(tx'.session)
      BY <2>4 DEF Member, MembersOf, MemberTags, ElementTag, e
    <3> QED BY <2>3, <3>1, <3>2, AppendProperties DEF MadePackages
  <2>6. TxRecord'
    BY <1>1, <2>2, <2>3, <2>4, <2>5, MadeIsTyped DEF TxRecord
  <2>7. Len(tx.upp) \in Nat \ {0} /\ Len(tx.seq86) = 0
    BY <1>1, InputsAssumption, EmptySeq
  <2>8. CutAt(0)'
    BY <1>1, <2>3, <2>7, SegmentSizeAssumption DEF CutAt, End
  <2>9. Progress'
    BY <1>1, <2>3, <2>4, <2>7, <2>8 DEF Progress
  <2>10. Builder'
    BY <1>1, <2>3, <2>4, <2>5, <2>6, <2>9 DEF Builder
  <2> QED BY <1>1, <2>10, NothingSent
<1> QED BY <1>2, <1>3

\* n full segments and one more, full or not.
LEMMA NextCut ==
  ASSUME NEW n \in Nat, tx.off = End(n), tx.off < Len(tx.upp),
         NEW chunk, chunk = Chunk(Len(tx.upp) - tx.off), Len(tx.upp) \in Nat
  PROVE  /\ tx.off = n * SegmentSize
         /\ tx.off + chunk = End(n + 1)
         /\ chunk > 0 /\ chunk \in Nat
         /\ ~MoreSegments(tx.off + chunk) => Len(tx.upp) <= (n + 1) * SegmentSize
<1> DEFINE m == n * SegmentSize
<1>1. m \in Nat /\ SegmentSize \in Nat \ {0}
  BY SegmentSizeAssumption
<1>2. (n + 1) * SegmentSize = m + SegmentSize
  BY <1>1
<1>3. tx.off = m
  BY <1>1 DEF End
<1>4. End(n + 1) = IF m + SegmentSize < Len(tx.upp) THEN m + SegmentSize ELSE Len(tx.upp)
  BY <1>2 DEF End
<1> HIDE DEF m
<1>5. /\ m + chunk = End(n + 1)
      /\ chunk > 0 /\ chunk \in Nat
      /\ ~MoreSegments(m + chunk) => Len(tx.upp) <= m + SegmentSize
  BY <1>1, <1>3, <1>4 DEF Chunk, MoreSegments
<1> QED BY <1>2, <1>3, <1>5 DEF m

\* Each segment starts where the ones before it, all full, end.
LEMMA SegmentStarts ==
  ASSUME NEW n \in Nat
  PROVE  SegmentText(n + 1) = SubSeq(tx.upp, n * SegmentSize + 1, End(n + 1))
<1> DEFINE p == n + 1
<1>1. p - 1 = n
  OBVIOUS
<1> HIDE DEF p
<1>2. SegmentText(p) = SubSeq(tx.upp, (p - 1) * SegmentSize + 1, End(p))
  BY DEF SegmentText
<1> QED BY <1>1, <1>2 DEF p

\* The text of the next '86' TLV is the next segment of the UPP, and is what a
\* TLV may hold.
LEMMA NextSegment ==
  ASSUME Builder, tx.phase = "segments"
  PROVE  LET s == tx.session
             n == Len(tx.seq86)
             chunk == Chunk(Len(tx.upp) - tx.off)
             text == SubSeq(tx.upp, tx.off + 1, tx.off + chunk)
             body == Encrypted(s, text)
         IN  /\ tx.upp \in Seq(Nat) /\ Len(tx.upp) \in Nat /\ n \in Nat /\ tx.off \in Nat
             /\ tx.off = n * SegmentSize /\ tx.off < Len(tx.upp)
             /\ tx.off + chunk = End(n + 1)
             /\ chunk > 0 /\ chunk \in Nat
             /\ ~MoreSegments(tx.off + chunk) => Len(tx.upp) <= (n + 1) * SegmentSize
             /\ text = SegmentText(n + 1)
             /\ body.icv = Icv(s) /\ body.text = text /\ body \in Bodies
<1> DEFINE s == tx.session
           n == Len(tx.seq86)
           chunk == Chunk(Len(tx.upp) - tx.off)
           text == SubSeq(tx.upp, tx.off + 1, tx.off + chunk)
           body == Encrypted(s, text)
<1>1. /\ TxRecord /\ s \in ScpSessions /\ tx.upp \in Upps
      /\ tx.seq86 \in Seq(MadeElements(s)) /\ CutAt(n)
  BY DEF Builder, Progress, SessionOK
<1>2. tx.upp \in Seq(Nat) /\ Len(tx.upp) \in Nat /\ n \in Nat /\ tx.off \in Nat
  BY <1>1, InputsAssumption, LenProperties DEF TxRecord
<1>3. /\ tx.off = n * SegmentSize /\ tx.off < Len(tx.upp)
      /\ tx.off + chunk = End(n + 1)
      /\ chunk > 0 /\ chunk \in Nat
      /\ ~MoreSegments(tx.off + chunk) => Len(tx.upp) <= (n + 1) * SegmentSize
  BY <1>1, <1>2, NextCut DEF CutAt
<1>4. text = SegmentText(n + 1)
  BY <1>2, <1>3, SegmentStarts
<1>5. text \in Seq(Nat \cup {Garbled})
  <2>1. End(n + 1) <= Len(tx.upp) /\ End(n + 1) \in Nat
    BY <1>2, SegmentSizeAssumption DEF End
  <2>2. tx.off + 1 \in Nat \ {0} /\ tx.off + chunk \in Int /\ tx.off + chunk <= Len(tx.upp)
    BY <1>2, <1>3, <2>1
  <2>3. \A i \in tx.off + 1 .. tx.off + chunk : i \in 1 .. Len(tx.upp)
    BY <1>2, <2>2
  <2>4. \A i \in tx.off + 1 .. tx.off + chunk : tx.upp[i] \in Nat \cup {Garbled}
    BY <1>2, <2>3, ElementOfSeq
  <2> QED BY <2>2, <2>4, SubSeqProperties
<1>6. body.icv = Icv(s) /\ body.text = text /\ body \in Bodies
  <2> HIDE DEF text
  <2> QED BY <1>1, <1>5 DEF Encrypted, Icv, Bodies, Texts, ScpSessions
<1> HIDE DEF s, n, chunk, text, body
<1> QED BY <1>2, <1>3, <1>4, <1>6 DEF s, n, chunk, text, body

\* The next segment becomes the next '86' TLV, and its text is what lies
\* between two cuts.
LEMMA BuildSegmentKeeps ==
  ASSUME BInv, BuildSegment
  PROVE  BInv'
<1> DEFINE s == tx.session
           n == Len(tx.seq86)
           chunk == Chunk(Len(tx.upp) - tx.off)
           text == SubSeq(tx.upp, tx.off + 1, tx.off + chunk)
           body == Encrypted(s, text)
           e == Element(s, "86", body)
           phase == IF MoreSegments(tx.off + chunk) THEN "segments" ELSE "wrap"
<1>1. /\ tx.phase = "segments" /\ UNCHANGED <<sent, wire, damage, rx>>
      /\ TxRecord /\ Builder /\ tx.upp # <<>>
      /\ Len(s.chain) = n + 2 /\ s \in ScpSessions /\ tx.upp \in Upps
      /\ tx.content \in MadePackages(s) /\ tx.metadata \in Metadatas
      /\ tx.seq86 \in Seq(MadeElements(s)) /\ CutAt(n)
  BY DEF BuildSegment, BInv, Builder, Progress, SessionOK
<1>2. /\ tx.upp \in Seq(Nat) /\ Len(tx.upp) \in Nat /\ n \in Nat /\ tx.off \in Nat
      /\ tx.off = n * SegmentSize /\ tx.off < Len(tx.upp)
      /\ tx.off + chunk = End(n + 1)
      /\ chunk > 0 /\ chunk \in Nat
      /\ ~MoreSegments(tx.off + chunk) => Len(tx.upp) <= (n + 1) * SegmentSize
      /\ text = SegmentText(n + 1)
      /\ body.icv = Icv(s) /\ body.text = text /\ body \in Bodies
  BY <1>1, NextSegment
<1>3. tx' = [tx EXCEPT !.session = Advanced(s, "86", body),
                       !.protected = Append(tx.protected, [tag |-> "86", text |-> text]),
                       !.seq86 = Append(tx.seq86, e),
                       !.off = tx.off + chunk,
                       !.phase = phase]
  BY <1>1 DEF BuildSegment, Protects, Protect, TxRecord
<1> HIDE DEF body, e, text, chunk, phase
<1>4. /\ tx'.session = Advanced(s, "86", body)
      /\ tx'.protected = Append(tx.protected, [tag |-> "86", text |-> text])
      /\ tx'.phase = phase /\ tx'.upp = tx.upp /\ tx'.metadata = tx.metadata
      /\ tx'.content = tx.content
      /\ tx'.seq86 = Append(tx.seq86, e) /\ tx'.off = tx.off + chunk
  BY <1>1, <1>3 DEF TxRecord
<1>5. phase \in {"segments", "wrap"}
  BY DEF phase
<1>6. /\ SessionOK(tx.session, tx.protected)'
      /\ ChainInOrder'
      /\ Len(tx'.session.chain) = n + 3
      /\ MadeElements(s) \subseteq MadeElements(tx'.session)
      /\ Element(s, "86", body) \in MadeElements(tx'.session)
      /\ tx'.session \in ScpSessions /\ tx'.protected \in Plaintexts
  <2>1. "86" \in Tags /\ "86" = TagAt(Len(s.chain) + 1) /\ tx.phase # "idle"
    BY <1>1, <1>2 DEF Tags, TagAt
  <2>2. body.text = SegmentText(Len(s.chain) - 1)
    BY <1>1, <1>2
  <2>3. n \in Nat /\ body.icv = Icv(s) /\ body.text = text /\ body \in Bodies
    BY <1>2
  <2> QED BY <1>1, <1>4, <2>1, <2>2, <2>3, ProtectsOne
<1>7. tx'.content \in MadePackages(tx'.session)
  BY <1>1, <1>4, <1>6, MadeGrows
<1>8. /\ tx'.seq86 \in Seq(MadeElements(tx'.session))
      /\ Len(tx'.seq86) = n + 1
  <2>1. tx.seq86 \in Seq(MadeElements(tx'.session))
    BY <1>1, <1>6, MadeGrows
  <2> QED BY <1>4, <1>6, <2>1, AppendProperties DEF e
<1>9. TxRecord'
  <2> DEFINE off == tx.off + chunk
             session == tx'.session
             protected == tx'.protected
             seq86 == tx'.seq86
  <2>1. off \in Nat
    BY <1>2
  <2>2. seq86 \in Seq(ElementsOnTheWire)
    BY <1>8, MadeIsTyped
  <2>3. tx' = [tx EXCEPT !.session = session, !.protected = protected,
                         !.seq86 = seq86, !.off = off, !.phase = phase]
    BY <1>3, <1>4
  <2>4. session \in ScpSessions /\ protected \in Plaintexts
    BY <1>6
  <2> HIDE DEF off, session, protected, seq86
  <2>5. [tx EXCEPT !.session = session, !.protected = protected,
                   !.seq86 = seq86, !.off = off, !.phase = phase] \in
          [phase : {"idle", "configure", "metadata", "segments", "wrap", "done", "failed"},
           session : {None} \cup ScpSessions, upp : {None} \cup Upps,
           metadata : {None} \cup Metadatas, off : Nat, content : Packages,
           seq86 : Seq(ElementsOnTheWire), protected : Plaintexts]
    BY <1>1, <1>5, <2>1, <2>2, <2>4 DEF TxRecord
  <2> QED BY <2>3, <2>5 DEF TxRecord
<1>10. CutAt(Len(tx.seq86))'
  <2>1. tx'.off = End(Len(tx.seq86))'
    BY <1>2, <1>4, <1>8 DEF End
  <2>2. (n + 1 - 1) * SegmentSize = tx.off
    BY <1>2
  <2>3. tx'.phase = "segments" => tx'.off < Len(tx'.upp)
    BY <1>4 DEF phase, MoreSegments
  <2>4. tx'.phase # "segments" => Len(tx'.upp) <= (n + 1) * SegmentSize
    BY <1>2, <1>4 DEF phase
  <2>5. /\ Len(tx'.seq86) > 0
        /\ (Len(tx'.seq86) - 1) * SegmentSize < Len(tx'.upp)
    BY <1>2, <1>4, <1>8, <2>2
  <2>6. tx'.phase # "segments" => Len(tx'.upp) <= Len(tx'.seq86) * SegmentSize
    BY <1>8, <2>4
  <2> QED BY <2>1, <2>3, <2>5, <2>6 DEF CutAt
<1>11. Progress'
  BY <1>1, <1>2, <1>4, <1>5, <1>6, <1>8, <1>10 DEF Progress
<1>12. Builder'
  BY <1>1, <1>4, <1>5, <1>6, <1>7, <1>8, <1>9, <1>11 DEF Builder
<1> QED BY <1>1, <1>12, NothingSent

\* The package is handed over and starts on its way.
LEMMA BuildDoneKeeps ==
  ASSUME BInv, BuildDone
  PROVE  BInv'
<1> DEFINE p == Append(tx.content, Member("sequenceOf86", tx.seq86))
<1>1. /\ tx.phase = "wrap" /\ UNCHANGED <<damage, rx>>
      /\ sent' = p /\ wire' = p
      /\ TxRecord /\ Builder /\ Receiver /\ Way
  BY DEF BuildDone, BInv, Builder
<1>2. /\ tx'.phase = "done" /\ tx'.session = tx.session /\ tx'.upp = tx.upp
      /\ tx'.metadata = tx.metadata /\ tx'.content = tx.content /\ tx'.off = tx.off
      /\ tx'.seq86 = tx.seq86 /\ tx'.protected = tx.protected
      /\ TxRecord'
  BY <1>1 DEF BuildDone, BuildReturns, TxRecord
<1>3. Progress'
  BY <1>1, <1>2 DEF Builder, Progress, CutAt, End
<1>4. ChainInOrder'
  BY <1>1, <1>2 DEF Builder, ChainInOrder, SegmentText, End
<1>5. Builder'
  BY <1>1, <1>2, <1>3, <1>4 DEF Builder
<1>6. p \in MadePackages(tx.session)
  <2>1. tx.content \in MadePackages(tx.session) /\ tx.seq86 \in Seq(MadeElements(tx.session))
    BY <1>1 DEF Builder
  <2>2. Member("sequenceOf86", tx.seq86) \in MembersOf(tx.session)
    BY <2>1 DEF Member, MembersOf, MemberTags, ElementTag
  <2> QED BY <2>1, <2>2, AppendProperties DEF MadePackages
<1>7. Way'
  BY <1>1, <1>2, <1>6 DEF Way
<1>8. Receiver'
  BY <1>1, NotSentYet, UncalledKeeps DEF BInv
<1> QED BY <1>5, <1>7, <1>8 DEF BInv

-----------------------------------------------------------------------------
(* The way the package takes *)

\* The builder has nothing to do with it.
LEMMA BuilderRests ==
  ASSUME Builder, UNCHANGED tx
  PROVE  Builder'
BY DEF Builder, TxRecord, Progress, CutAt, ChainInOrder, SegmentText, End

\* Nothing on the way makes a MAC.
LEMMA AlteredIsMade ==
  ASSUME NEW s, NEW e \in MadeElements(s), NEW a \in Altered(e)
  PROVE  a \in MadeElements(s)
<1>1. /\ e \in ElementsOnTheWire
      /\ e.mac # NoMac => \E n \in 1 .. Len(s.chain) :
                            e.mac = [key |-> s.key, over |-> SubSeq(s.chain, 1, n)]
  BY DEF MadeElements
<1>2. CASE a = [e EXCEPT !.mac = NoMac]
  BY <1>1, <1>2 DEF MadeElements, ElementsOnTheWire
<1>3. CASE a = [e EXCEPT !.body = TooShort]
  <2>1. a \in ElementsOnTheWire /\ a.mac = e.mac
    BY <1>1, <1>3 DEF ElementsOnTheWire
  <2> QED BY <1>1, <2>1 DEF MadeElements
<1>4. ASSUME NEW t \in {"86", "87", "88"}, a = [e EXCEPT !.tag = t]
      PROVE  a \in MadeElements(s)
  <2>1. a \in ElementsOnTheWire /\ a.mac = e.mac
    BY <1>1, <1>4 DEF ElementsOnTheWire, Tags
  <2> QED BY <1>1, <2>1 DEF MadeElements
<1> QED BY <1>2, <1>3, <1>4 DEF Altered

\* However a package is damaged, it is still made of what was protected.
LEMMA DamagedIsMade ==
  ASSUME NEW s, wire \in MadePackages(s), Damage
  PROVE  wire' \in MadePackages(s)
<1>1. wire \in Seq(MembersOf(s))
  BY DEF MadePackages
<1>2. ASSUME NEW i \in DOMAIN wire
      PROVE  wire[i] \in MembersOf(s) /\ wire[i].elements \in Seq(MadeElements(s))
  <2>1. wire[i] \in MembersOf(s)
    BY <1>1, LenProperties, ElementOfSeq
  <2> QED BY <2>1 DEF MembersOf
<1>3. CASE wire' \in Disordered(wire)
  BY <1>1, <1>3, DisorderedKeeps DEF MadePackages
<1>4. ASSUME NEW i \in DOMAIN wire,
             wire' = InsertAt(wire, i, Member("secondSequenceOf87", wire[i].elements))
      PROVE  wire' \in MadePackages(s)
  <2>1. Member("secondSequenceOf87", wire[i].elements) \in MembersOf(s)
    BY <1>2 DEF Member, MembersOf, MemberTags
  <2> QED BY <1>1, <1>4, <2>1, InsertKeeps DEF MadePackages
<1>5. ASSUME NEW i \in DOMAIN wire, NEW q \in Seq(MadeElements(s)),
             wire' = [wire EXCEPT ![i].elements = q]
      PROVE  wire' \in MadePackages(s)
  <2>1. [wire[i] EXCEPT !.elements = q] \in MembersOf(s)
    BY <1>2 DEF MembersOf
  <2>2. wire' = [wire EXCEPT ![i] = [wire[i] EXCEPT !.elements = q]]
    BY <1>5
  <2> QED BY <1>1, <2>1, <2>2, LenProperties, ExceptSeq DEF MadePackages
<1>6. ASSUME NEW i \in DOMAIN wire, NEW q \in Disordered(wire[i].elements)
      PROVE  q \in Seq(MadeElements(s))
  BY <1>2, <1>6, DisorderedKeeps
<1>7. ASSUME NEW i \in DOMAIN wire, NEW j \in DOMAIN wire[i].elements,
             NEW n \in DOMAIN wire[i].elements, NEW e \in Altered(wire[i].elements[n])
      PROVE  ReplaceAt(wire[i].elements, j, e) \in Seq(MadeElements(s))
  <2> DEFINE es == wire[i].elements
  <2>1. es \in Seq(MadeElements(s)) /\ j \in 1 .. Len(es) /\ n \in 1 .. Len(es)
    BY <1>2, <1>7, LenProperties
  <2>2. es[n] \in MadeElements(s)
    BY <2>1, ElementOfSeq
  <2>3. e \in MadeElements(s)
    BY <1>7, <2>2, AlteredIsMade
  <2> QED BY <2>1, <2>3, ExceptSeq DEF ReplaceAt
<1> DEFINE Replaced(i) ==
             {ReplaceAt(wire[i].elements, j, e) : j \in DOMAIN wire[i].elements,
                e \in UNION {Altered(wire[i].elements[n]) :
                               n \in DOMAIN wire[i].elements}}
<1>8. ASSUME NEW i \in DOMAIN wire, NEW q \in Replaced(i)
      PROVE  q \in Seq(MadeElements(s))
  <2>1. PICK j \in DOMAIN wire[i].elements, n \in DOMAIN wire[i].elements :
               \E e \in Altered(wire[i].elements[n]) :
                 q = ReplaceAt(wire[i].elements, j, e)
    BY <1>8
  <2>2. PICK e \in Altered(wire[i].elements[n]) : q = ReplaceAt(wire[i].elements, j, e)
    BY <2>1
  <2> HIDE DEF Replaced
  <2>3. ReplaceAt(wire[i].elements, j, e) \in Seq(MadeElements(s))
    BY <1>7
  <2> QED BY <2>2, <2>3
<1>9. \/ wire' \in Disordered(wire)
      \/ \E i \in DOMAIN wire :
           wire' = InsertAt(wire, i, Member("secondSequenceOf87", wire[i].elements))
      \/ \E i \in DOMAIN wire : \E q \in Disordered(wire[i].elements) \cup Replaced(i) :
           wire' = [wire EXCEPT ![i].elements = q]
  BY DEF Damage
<1> HIDE DEF Replaced
<1>10. ASSUME NEW i \in DOMAIN wire,
              NEW q \in Disordered(wire[i].elements) \cup Replaced(i),
              wire' = [wire EXCEPT ![i].elements = q]
       PROVE  wire' \in MadePackages(s)
  <2>1. q \in Seq(MadeElements(s))
    BY <1>6, <1>8
  <2> QED BY <1>5, <1>10, <2>1
<1> QED BY <1>3, <1>4, <1>9, <1>10

\* Damage happens between two calls, so no receiver is in the middle of the
\* package.
LEMMA DamageKeeps ==
  ASSUME BInv, Damage
  PROVE  BInv'
<1>1. /\ wire # None /\ rx.phase = "idle" /\ UNCHANGED <<tx, sent, rx>>
      /\ damage < MaxDamage /\ damage' = damage + 1
      /\ Builder /\ Way /\ Receiver
  BY DEF Damage, BInv
<1>2. wire' \in MadePackages(tx.session)
  BY <1>1, DamagedIsMade DEF Way
<1>3. Builder'
  BY <1>1, BuilderRests
<1>4. Way'
  BY <1>1, <1>2, BoundsAssumption DEF Way
<1>5. Receiver'
  BY <1>1 DEF Receiver, RxRecord, Follows, Collects, End
<1> QED BY <1>3, <1>4, <1>5 DEF BInv

\* The package as it was sent, once more.
LEMMA RedeliveredKeeps ==
  ASSUME BInv, Redelivered
  PROVE  BInv'
<1>1. /\ rx.phase = "done" /\ wire' = sent /\ damage' = 0 /\ UNCHANGED <<tx, sent>>
      /\ rx.calls < MaxRecoveries
      /\ Builder /\ Way /\ Receiver /\ RxRecord
  BY DEF Redelivered, BInv, Receiver
<1>2. /\ rx'.phase = "idle" /\ rx'.session = rx.session /\ rx'.calls = rx.calls
      /\ rx'.next = rx.next /\ rx'.g = rx.g /\ rx'.accepted = rx.accepted
      /\ RxRecord'
  BY <1>1 DEF Redelivered, RxRecord
<1>3. Builder'
  BY <1>1, BuilderRests
<1>4. Way'
  <2>1. ASSUME sent # None PROVE sent \in MadePackages(tx.session)
    <3>1. tx.phase = "done" /\ sent = Append(tx.content, Member("sequenceOf86", tx.seq86))
      BY <1>1, <2>1 DEF Way
    <3>2. tx.content \in MadePackages(tx.session) /\ tx.seq86 \in Seq(MadeElements(tx.session))
      BY <1>1, <3>1 DEF Builder
    <3>3. Member("sequenceOf86", tx.seq86) \in MembersOf(tx.session)
      BY <3>2 DEF Member, MembersOf, MemberTags, ElementTag
    <3> QED BY <3>1, <3>2, <3>3, AppendProperties DEF MadePackages
  <2> QED BY <1>1, <2>1, BoundsAssumption DEF Way
<1>5. Receiver'
  BY <1>1, <1>2 DEF Receiver, Collects, End, Follows
<1> QED BY <1>3, <1>4, <1>5 DEF BInv

-----------------------------------------------------------------------------
(* rsp_bpp_recover *)

\* The receiver only reads what arrives.
LEMMA ReceiverSteps ==
  ASSUME BInv, UNCHANGED <<tx, sent, wire, damage>>, Receiver'
  PROVE  BInv'
<1>1. Builder'
  BY BuilderRests DEF BInv
<1>2. Way'
  BY DEF BInv, Way
<1> QED BY <1>1, <1>2 DEF BInv

\* A call returns and leaves the session where its last TLV took it.
LEMMA RecoverReturnsKeeps ==
  ASSUME BInv, rx.phase \in {"open", "elements"},
         NEW ret \in {0, -1, -2}, ret = 0 => rx.g # <<>>,
         RecoverReturns(ret), UNCHANGED <<tx, sent, wire, damage>>
  PROVE  BInv'
<1>1. RxRecord /\ Receiver
  BY DEF BInv, Receiver
<1>2. /\ rx'.phase = "done" /\ rx'.ret = ret
      /\ rx'.upp = IF ret = 0 THEN rx.g ELSE None
      /\ rx'.session = rx.session /\ rx'.calls = rx.calls
      /\ rx'.next = rx.next /\ rx'.g = rx.g /\ rx'.accepted = rx.accepted
      /\ RxRecord'
  BY <1>1 DEF RecoverReturns, RxRecord
<1>3. Receiver'
  BY <1>1, <1>2 DEF Receiver, Collects, End, Follows
<1> QED BY <1>3, ReceiverSteps

\* A call starts: on a fresh session, or on the one an earlier call left.
LEMMA RecoverKeeps ==
  ASSUME BInv, NEW k \in Keys, Recover(k)
  PROVE  BInv'
<1> DEFINE opens == HasMember(1, "initialiseSecureChannelRequest")
           session == IF rx.calls = 0 THEN InitSession(k) ELSE rx.session
           phase == IF opens THEN "open" ELSE "done"
           ret == IF opens THEN None ELSE -2
<1>1. /\ rx.phase = "idle" /\ wire # None /\ UNCHANGED <<tx, sent, wire, damage>>
      /\ sent # None /\ rx.calls \in Nat /\ rx.calls < MaxRecoveries
      /\ Builder /\ Receiver /\ RxRecord
  BY BoundsAssumption DEF Recover, BInv, Way, Receiver, RxRecord
<1>2. rx.calls + 1 \in 0 .. MaxRecoveries /\ rx.calls + 1 # 0 /\ rx.calls + 1 > 0
  BY <1>1, BoundsAssumption
<1>3. /\ SessionOK(session, rx.accepted)
      /\ Follows(session, tx.session)
  <2>1. CASE rx.calls = 0
    <3>1. rx.accepted = <<>> /\ session = InitSession(k)
      BY <1>1, <2>1 DEF Receiver
    <3>2. tx.session \in ScpSessions
      BY <1>1 DEF Builder, BInv, Way, SessionOK
    <3>3. Len(tx.session.chain) \in Nat
      BY <3>2, LenProperties DEF ScpSessions
    <3> HIDE DEF session
    <3> QED BY <3>1, <3>3, FreshIsOK DEF Follows
  <2>2. CASE rx.calls > 0
    BY <1>1, <2>2 DEF Receiver
  <2> QED BY <1>1, <2>1, <2>2
<1>4. rx' = [rx EXCEPT !.phase = phase, !.ret = ret, !.session = session,
                       !.calls = rx.calls + 1, !.next = "firstSequenceOf87",
                       !.pos = 2, !.g = <<>>, !.upp = None]
  BY <1>1 DEF Recover
<1>5. /\ session \in ScpSessions /\ phase \in {"open", "done"}
      /\ ret \in {None, -2} /\ (phase = "done" => ret = -2)
      /\ "firstSequenceOf87" \in DOMAIN ElementTag
  BY <1>3 DEF SessionOK, ElementTag
<1> HIDE DEF session, phase, ret
<1>6. /\ rx'.phase = phase /\ rx'.ret = ret /\ rx'.session = session
      /\ rx'.calls = rx.calls + 1 /\ rx'.next = "firstSequenceOf87"
      /\ rx'.g = <<>> /\ rx'.accepted = rx.accepted /\ rx'.pos = 2
      /\ RxRecord'
  <2> DEFINE calls == rx.calls + 1
             g == <<>>
             next == "firstSequenceOf87"
             new == [rx EXCEPT !.phase = phase, !.ret = ret, !.session = session,
                               !.calls = calls, !.next = next,
                               !.pos = 2, !.g = g, !.upp = None]
  <2>1. calls \in 0 .. MaxRecoveries
    BY <1>2
  <2>2. g \in Seq(Nat \cup {Garbled}) /\ next \in DOMAIN ElementTag
    BY <1>5
  <2> HIDE DEF calls, g, next
  <2>3. /\ new.phase = phase /\ new.ret = ret /\ new.session = session
        /\ new.calls = calls /\ new.next = next
        /\ new.g = g /\ new.accepted = rx.accepted /\ new.pos = 2
    BY <1>1 DEF RxRecord
  <2>4. new \in [phase : {"idle", "open", "elements", "done"},
                 session : {None} \cup ScpSessions, calls : 0 .. MaxRecoveries,
                 next : {None} \cup DOMAIN ElementTag, pos : Nat, elem : Nat,
                 g : Seq(Nat \cup {Garbled}), accepted : Plaintexts,
                 ret : {None, 0, -1, -2}, upp : {None} \cup Seq(Nat \cup {Garbled})]
    BY <1>1, <1>5, <2>1, <2>2 DEF RxRecord
  <2>5. rx' = new
    BY <1>4 DEF calls, g, next
  <2> HIDE DEF new
  <2> QED BY <2>3, <2>4, <2>5 DEF RxRecord, calls, g, next
<1>7. Collects'
  <2>1. rx'.calls = 1 => Len(rx'.accepted) = 0
    BY <1>1, <1>6 DEF Receiver
  <2> QED BY <1>6, <2>1 DEF Collects
<1>8. Receiver'
  BY <1>1, <1>2, <1>3, <1>5, <1>6, <1>7 DEF Receiver
<1> QED BY <1>1, <1>8, ReceiverSteps

\* The next member is found where it must be, or the call returns.
LEMMA OpenMemberKeeps ==
  ASSUME BInv, OpenMember
  PROVE  BInv'
<1>1. /\ rx.phase = "open" /\ UNCHANGED <<tx, sent, wire, damage>>
      /\ Receiver /\ RxRecord /\ Way
  BY DEF OpenMember, BInv, Receiver
<1>2. CASE RecoverReturns(-2)
  BY <1>1, <1>2, RecoverReturnsKeeps
<1>3. CASE HasMember(rx.pos, rx.next) /\ rx' = [rx EXCEPT !.phase = "elements", !.elem = 1]
  <2>1. /\ rx'.phase = "elements" /\ rx'.elem = 1 /\ rx'.pos = rx.pos
        /\ rx'.session = rx.session /\ rx'.calls = rx.calls
        /\ rx'.next = rx.next /\ rx'.g = rx.g /\ rx'.accepted = rx.accepted
        /\ RxRecord'
    BY <1>1, <1>3 DEF RxRecord
  <2>2. rx'.pos \in 1 .. Len(wire')
    <3>1. wire \in MadePackages(tx.session) /\ rx.pos \in Nat /\ rx.pos > 0
      BY <1>1 DEF Way, Receiver, RxRecord
    <3>2. Len(wire) \in Nat
      BY <3>1, LenProperties DEF MadePackages
    <3> QED BY <1>1, <1>3, <2>1, <3>1, <3>2 DEF HasMember
  <2>3. Receiver'
    BY <1>1, <2>1, <2>2 DEF Receiver, Collects, End, Follows
  <2> QED BY <1>1, <2>3, ReceiverSteps
<1> QED BY <1>2, <1>3 DEF OpenMember

\* A MAC that matches the receiver's chain was made by the builder, so the TLV
\* is the builder's next one.
LEMMA MatchingIsNext ==
  ASSUME Builder, tx.phase # "idle", NEW r \in ScpSessions,
         NEW e \in MadeElements(tx.session), e.body # TooShort,
         NEW tag \in Tags, e.mac = Mac(r, tag, e.body)
  PROVE  /\ e.body \in Bodies
         /\ r.key = tx.session.key
         /\ Len(r.chain) \in Nat
         /\ Len(r.chain) + 1 \in 1 .. Len(tx.session.chain)
         /\ tx.session.chain[Len(r.chain) + 1] = [tag |-> tag, body |-> e.body]
<1> DEFINE c == r.chain
           b == tx.session.chain
           t == [tag |-> tag, body |-> e.body]
<1>1. e.body \in Bodies
  BY DEF MadeElements, ElementsOnTheWire
<1>2. t \in Tlvs
  BY <1>1 DEF Tlvs
<1>3. tx.session \in ScpSessions
  BY DEF Builder, SessionOK
<1>4. /\ c \in Seq(Tlvs) /\ r.key \in Keys /\ b \in Seq(Tlvs)
  BY <1>3 DEF ScpSessions
<1>5. /\ Append(c, t) \in Seq(Tlvs) /\ Len(Append(c, t)) = Len(c) + 1
      /\ Append(c, t)[Len(c) + 1] = t /\ Len(c) \in Nat
      /\ Len(b) \in Nat
  BY <1>2, <1>4, AppendProperties, LenProperties
<1>6. e.mac = [key |-> r.key, over |-> Append(c, t)]
  BY DEF Mac, Chained
<1>7. e.mac # NoMac
  <2> DEFINE a == Append(c, t)
             key == r.key
  <2>1. [key |-> key, over |-> a] \in [key : Keys, over : Seq(Tlvs)]
    <3> HIDE DEF a, key
    <3>1. a \in Seq(Tlvs) /\ key \in Keys
      BY <1>4, <1>5 DEF a, key
    <3> QED BY <3>1
  <2> QED BY <1>6, <2>1, ForgeriesAssumption
<1>8. PICK n \in 1 .. Len(b) : e.mac = [key |-> tx.session.key, over |-> SubSeq(b, 1, n)]
  BY <1>7 DEF MadeElements
<1>9. r.key = tx.session.key /\ Append(c, t) = SubSeq(b, 1, n)
  BY SMTT(30), <1>6, <1>8
<1>10. /\ Len(SubSeq(b, 1, n)) = n
       /\ SubSeq(b, 1, n)[n] = b[n]
  BY <1>4, <1>5, SubSeqProperties, ElementOfSeq
<1>11. n = Len(c) + 1
  BY <1>5, <1>9, <1>10
<1> QED BY <1>1, <1>5, <1>8, <1>9, <1>10, <1>11

\* Every segment before the last is full, and none is empty.
LEMMA SegmentLies ==
  ASSUME NEW n \in Nat, NEW k \in 1 .. n, (n - 1) * SegmentSize < Len(tx.upp),
         Len(tx.upp) \in Nat
  PROVE  /\ End(k - 1) = (k - 1) * SegmentSize
         /\ (k - 1) * SegmentSize \in Nat
         /\ (k - 1) * SegmentSize < End(k)
         /\ End(k) <= Len(tx.upp)
         /\ End(k) \in Nat
         /\ SegmentText(k) = SubSeq(tx.upp, (k - 1) * SegmentSize + 1, End(k))
<1> DEFINE m == (k - 1) * SegmentSize
<1>1. SegmentSize \in Nat \ {0} /\ m \in Nat
  BY SegmentSizeAssumption
<1>2. (n - 1) * SegmentSize = m + (n - k) * SegmentSize /\ (n - k) * SegmentSize \in Nat
  BY <1>1
<1>3. m < Len(tx.upp)
  BY <1>1, <1>2
<1>4. k * SegmentSize = m + SegmentSize
  BY <1>1
<1>5. End(k - 1) = m
  BY <1>3 DEF End
<1>6. End(k) = IF m + SegmentSize < Len(tx.upp) THEN m + SegmentSize ELSE Len(tx.upp)
  BY <1>4 DEF End
<1> HIDE DEF m
<1>7. m < End(k) /\ End(k) <= Len(tx.upp) /\ End(k) \in Nat
  BY <1>1, <1>3, <1>6
<1> QED BY <1>1, <1>5, <1>7 DEF m, SegmentText

\* The next segment of the UPP continues what was collected, or starts it.
LEMMA PieceGrows ==
  ASSUME NEW n \in Nat, NEW k \in 1 .. n, (n - 1) * SegmentSize < Len(tx.upp),
         tx.upp \in Seq(Nat), NEW g, NEW i,
         g # <<>> => k > 1 /\ i \in 1 .. End(k - 1) /\ g = SubSeq(tx.upp, i, End(k - 1))
  PROVE  /\ g \o SegmentText(k) \in Seq(Nat)
         /\ g \o SegmentText(k) # <<>>
         /\ \E j \in 1 .. End(k) :
              /\ g \o SegmentText(k) = SubSeq(tx.upp, j, End(k))
              /\ j = IF g = <<>> THEN (k - 1) * SegmentSize + 1 ELSE i
<1> DEFINE m == (k - 1) * SegmentSize
           l == End(k)
           u == tx.upp
<1>1. u \in Seq(Nat) /\ Len(u) \in Nat
  BY LenProperties
<1>2. /\ End(k - 1) = m /\ m \in Nat /\ m < l /\ l <= Len(u) /\ l \in Nat
      /\ SegmentText(k) = SubSeq(u, m + 1, l)
  BY <1>1, SegmentLies
<1> HIDE DEF m, l, u
<1>3. ASSUME NEW f \in 1 .. m + 1
      PROVE  /\ SubSeq(u, f, l) \in Seq(Nat)
             /\ SubSeq(u, f, l) # <<>>
  <2>1. \A j \in f .. l : u[j] \in Nat
    BY <1>1, <1>2, ElementOfSeq
  <2>2. f \in Int /\ l \in Int /\ f <= l
    BY <1>2
  <2>3. SubSeq(u, f, l) \in Seq(Nat) /\ Len(SubSeq(u, f, l)) = l - f + 1
    BY <2>1, <2>2, SubSeqProperties
  <2>4. Len(SubSeq(u, f, l)) # 0
    BY <2>2, <2>3
  <2>5. Len(<<>>) = 0
    BY EmptySeq
  <2> QED BY <2>3, <2>4, <2>5
<1>4. CASE g = <<>>
  <2>1. m + 1 \in 1 .. l /\ m + 1 \in 1 .. m + 1
    BY <1>2
  <2>2. SubSeq(u, m + 1, l) \in Seq(Nat) /\ SubSeq(u, m + 1, l) # <<>>
    BY <1>3, <2>1
  <2>3. g \o SegmentText(k) = SubSeq(u, m + 1, l)
    BY <1>2, <1>4, <2>2, ConcatEmptySeq
  <2>4. \E j \in 1 .. l : g \o SegmentText(k) = SubSeq(u, j, l) /\ j = m + 1
    BY <2>1, <2>3
  <2> QED BY <1>4, <2>2, <2>3, <2>4 DEF l, m, u
<1>5. CASE g # <<>>
  <2>1. i \in 1 .. m /\ g = SubSeq(u, i, m)
    BY <1>2, <1>5 DEF u
  <2>2. g \o SegmentText(k) = SubSeq(u, i, l)
    <3>1. i \in 1 .. Len(u) + 1 /\ m \in i - 1 .. Len(u) /\ l \in m .. Len(u)
      BY SMTT(30), <1>1, <1>2, <2>1
    <3>2. SubSeq(u, i, m) \o SubSeq(u, m + 1, l) = SubSeq(u, i, l)
      BY <1>1, <3>1, ConcatAdjacentSubSeq
    <3> QED BY <1>2, <2>1, <3>2
  <2>3. i \in 1 .. l /\ i \in 1 .. m + 1
    BY <1>2, <2>1
  <2>4. SubSeq(u, i, l) \in Seq(Nat) /\ SubSeq(u, i, l) # <<>>
    BY <1>3, <2>3
  <2> QED BY <1>5, <2>2, <2>3, <2>4 DEF l, u
<1> QED BY <1>4, <1>5

\* A receiver is called only once the package is sent, and then the whole UPP
\* is cut.
LEMMA ReceiverKnows ==
  ASSUME BInv, rx.calls > 0
  PROVE  /\ tx.phase = "done"
         /\ tx.upp \in Seq(Nat) /\ Len(tx.upp) \in Nat
         /\ Len(tx.seq86) \in Nat
         /\ Len(tx.session.chain) = Len(tx.seq86) + 2
         /\ Len(tx.seq86) > 0
         /\ (Len(tx.seq86) - 1) * SegmentSize < Len(tx.upp)
         /\ Len(tx.upp) <= Len(tx.seq86) * SegmentSize
         /\ SessionOK(tx.session, tx.protected) /\ ChainInOrder
         /\ SessionOK(rx.session, rx.accepted)
         /\ Follows(rx.session, tx.session) /\ Collects
         /\ Len(rx.session.chain) \in Nat
         /\ Len(rx.accepted) = Len(rx.session.chain)
<1>1. tx.phase = "done" /\ Builder /\ Receiver
  BY DEF BInv, Receiver, Way
<1>2. tx.upp \in Seq(Nat)
  BY <1>1, InputsAssumption DEF Builder
<1>3. tx.seq86 \in Seq(ElementsOnTheWire)
  BY <1>1 DEF Builder, TxRecord
<1>4. /\ SessionOK(rx.session, rx.accepted)
      /\ Follows(rx.session, tx.session) /\ Collects
  BY <1>1 DEF Receiver
<1>5. Len(rx.session.chain) \in Nat /\ Len(rx.accepted) = Len(rx.session.chain)
  BY <1>4, LenProperties DEF SessionOK, ScpSessions, Logs
<1>6. CutAt(Len(tx.seq86)) /\ Len(tx.session.chain) = Len(tx.seq86) + 2
  BY <1>1 DEF Builder, Progress
<1> QED BY <1>1, <1>2, <1>3, <1>4, <1>5, <1>6, LenProperties DEF Builder, CutAt

\* A TLV whose MAC matches is the builder's next one, and comes out with its
\* tag and its plaintext.
LEMMA AcceptedIsNext ==
  ASSUME BInv, rx.calls > 0, NEW e \in MadeElements(tx.session), e.body # TooShort,
         NEW tag \in Tags, e.mac = Mac(rx.session, tag, e.body)
  PROVE  LET r == Advanced(rx.session, tag, e.body)
             m == Len(rx.session.chain) + 1
             log == Append(rx.accepted, [tag |-> tag, text |-> e.body.text])
         IN  /\ m \in 1 .. Len(tx.session.chain)
             /\ tx.session.chain[m] = [tag |-> tag, body |-> e.body]
             /\ SessionOK(r, log)
             /\ Follows(r, tx.session)
             /\ Len(log) = Len(rx.accepted) + 1
             /\ e.body \in Bodies
             /\ tag # "88" => e.body.icv = Icv(rx.session)
<1> DEFINE r == Advanced(rx.session, tag, e.body)
           t == [tag |-> tag, body |-> e.body]
           m == Len(rx.session.chain) + 1
           log == Append(rx.accepted, [tag |-> tag, text |-> e.body.text])
<1>1. /\ SessionOK(rx.session, rx.accepted) /\ rx.session \in ScpSessions
      /\ SessionOK(tx.session, tx.protected) /\ tx.session \in ScpSessions
      /\ CountsEveryTlv(tx.session) /\ CountsEveryTlv(rx.session)
      /\ Follows(rx.session, tx.session)
      /\ tx.phase = "done" /\ Builder
  BY ReceiverKnows DEF SessionOK, BInv
<1>2. /\ e.body \in Bodies
      /\ rx.session.key = tx.session.key
      /\ Len(rx.session.chain) \in Nat
      /\ m \in 1 .. Len(tx.session.chain)
      /\ tx.session.chain[m] = t
  BY <1>1, MatchingIsNext
<1>3. e.body.icv = IF tag = "88" THEN NoIcv ELSE Icv(rx.session)
  <2>1. m \in DOMAIN tx.session.chain
    BY <1>1, <1>2, LenProperties DEF ScpSessions
  <2>2. t.body.icv = IF t.tag = "88" THEN NoIcv ELSE [key |-> tx.session.key, counter |-> m]
    BY <1>1, <1>2, <2>1 DEF CountsEveryTlv
  <2>3. rx.session.enc_counter = m
    BY <1>1 DEF CountsEveryTlv
  <2> QED BY <1>2, <2>2, <2>3 DEF Icv
<1>4. SessionOK(r, log)
  BY <1>1, <1>2, <1>3, LogGrows
<1>5. Follows(r, tx.session)
  <2>1. /\ r.key = rx.session.key /\ r.chain = Append(rx.session.chain, t)
        /\ Len(r.chain) = m
    BY <1>1, <1>2, <1>3, AdvancedIsOK
  <2>2. rx.session.chain \in Seq(Tlvs) /\ t \in Tlvs
    BY <1>1, <1>2 DEF ScpSessions, Tlvs
  <2>3. /\ \A i \in 1 .. Len(rx.session.chain) :
             Append(rx.session.chain, t)[i] = rx.session.chain[i]
        /\ Append(rx.session.chain, t)[m] = t
    BY <2>2, AppendProperties
  <2>4. ASSUME NEW i \in 1 .. Len(r.chain) PROVE r.chain[i] = tx.session.chain[i]
    <3>1. CASE i = m
      BY <3>1, <1>2, <2>1, <2>3
    <3>2. CASE i \in 1 .. Len(rx.session.chain)
      BY <3>2, <1>1, <2>1, <2>3 DEF Follows
    <3> QED BY <1>2, <2>1, <2>4, <3>1, <3>2
  <2> QED BY <1>2, <2>1, <2>4 DEF Follows
<1>6. Len(log) = Len(rx.accepted) + 1
  <2>1. [tag |-> tag, text |-> e.body.text] \in [tag : Tags, text : Texts]
    BY <1>2 DEF Bodies
  <2> QED BY <1>1, <2>1, AppendProperties DEF SessionOK, Plaintexts
<1> QED BY <1>2, <1>3, <1>4, <1>5, <1>6

\* One element: refused, or the builder's next TLV; the text of an '86' TLV is
\* the next segment of the UPP.
LEMMA TakeElementKeeps ==
  ASSUME BInv, TakeElement
  PROVE  BInv'
<1> DEFINE e == Elements[rx.elem]
           tag == ElementTag[rx.next]
           un == IF tag = "88" THEN UnprotectMacOnly(rx.session, e, tag)
                               ELSE Unprotect(rx.session, e, tag)
<1>1. /\ rx.phase = "elements" /\ rx.elem <= Len(Elements)
      /\ UNCHANGED <<tx, sent, wire, damage>>
      /\ Receiver /\ RxRecord /\ Way /\ rx.calls > 0
      /\ rx.next \in DOMAIN ElementTag
      /\ rx.elem \in Nat /\ rx.elem > 0
  BY DEF TakeElement, BInv, Receiver, RxRecord
<1>2. tag \in Tags
  BY <1>1 DEF Tags, ElementTag
<1>3. e \in MadeElements(tx.session)
  <2>1. wire \in Seq(MembersOf(tx.session)) /\ rx.pos \in 1 .. Len(wire)
    BY <1>1 DEF Way, Receiver, MadePackages
  <2>2. wire[rx.pos] \in MembersOf(tx.session)
    BY <2>1, ElementOfSeq
  <2>3. Elements \in Seq(MadeElements(tx.session))
    BY <2>2 DEF Elements, MembersOf
  <2>4. rx.elem \in 1 .. Len(Elements)
    BY <1>1, <2>3, LenProperties
  <2> QED BY <2>3, <2>4, ElementOfSeq
<1>4. /\ un.ret \in {0, -1, -2}
      /\ un.ret = 0 => /\ e.body # TooShort
                       /\ e.mac = Mac(rx.session, tag, e.body)
                       /\ un.session = Advanced(rx.session, tag, e.body)
                       /\ un.text = IF tag = "88" THEN e.body.text
                                    ELSE Decrypted(rx.session, e.body)
  BY DEF Unprotect, UnprotectMacOnly, Refusal, Accepted
<1>5. CASE RecoverReturns(-2)
  BY <1>1, <1>5, RecoverReturnsKeeps
<1>6. CASE un.ret # 0 /\ RecoverReturns(un.ret)
  BY <1>1, <1>4, <1>6, RecoverReturnsKeeps
<1>7. CASE /\ un.ret = 0
           /\ rx' = [rx EXCEPT !.session = un.session,
                               !.elem = rx.elem + 1,
                               !.g = IF tag = "86" THEN rx.g \o un.text ELSE rx.g,
                               !.accepted = Append(rx.accepted, [tag |-> tag, text |-> un.text])]
  <2> HIDE DEF e, tag, un
  <2> DEFINE m == Len(rx.session.chain) + 1
             r == Advanced(rx.session, tag, e.body)
             log == Append(rx.accepted, [tag |-> tag, text |-> e.body.text])
             elem == rx.elem + 1
             g == IF tag = "86" THEN rx.g \o e.body.text ELSE rx.g
  <2>1. /\ m \in 1 .. Len(tx.session.chain)
        /\ tx.session.chain[m] = [tag |-> tag, body |-> e.body]
        /\ SessionOK(r, log)
        /\ Follows(r, tx.session)
        /\ Len(log) = Len(rx.accepted) + 1
        /\ e.body \in Bodies
        /\ tag # "88" => e.body.icv = Icv(rx.session)
    BY <1>1, <1>2, <1>3, <1>4, <1>7, AcceptedIsNext
  <2>2. un.text = e.body.text
    BY <1>4, <1>7, <2>1 DEF Decrypted
  <2>3. rx' = [rx EXCEPT !.session = r, !.elem = elem, !.g = g, !.accepted = log]
    BY <1>4, <1>7, <2>2
  <2>4. /\ m \in Nat /\ Len(rx.accepted) + 1 = m
        /\ Len(rx.accepted) \in Nat
        /\ tx.upp \in Seq(Nat) /\ Len(tx.upp) \in Nat
        /\ Len(tx.session.chain) = Len(tx.seq86) + 2
        /\ Len(tx.seq86) \in Nat
        /\ (Len(tx.seq86) - 1) * SegmentSize < Len(tx.upp)
        /\ ChainInOrder /\ Collects
    BY <1>1, ReceiverKnows
  <2>5. tag = TagAt(m) /\ (m > 2 => e.body.text = SegmentText(m - 2))
    <3> HIDE DEF m
    <3>1. /\ tx.session.chain[m].tag = TagAt(m)
          /\ m > 2 => tx.session.chain[m].body.text = SegmentText(m - 2)
      BY <2>1, <2>4 DEF ChainInOrder
    <3> QED BY <2>1, <3>1
  <2>6. rx.g \in Seq(Nat \cup {Garbled})
    BY <1>1 DEF RxRecord
  <2>7. /\ g \in Seq(Nat \cup {Garbled})
        /\ tag = "86" => g # <<>>
        /\ g # <<>> =>
             /\ m - 2 > 0
             /\ \E i \in 1 .. End(m - 2) :
                  /\ g = SubSeq(tx.upp, i, End(m - 2))
                  /\ rx.calls = 1 => i = 1
        /\ rx.calls = 1 /\ m - 2 > 0 => g # <<>>
    <3> DEFINE k == m - 2
    <3>1. CASE tag = "86"
      <4>1. m > 2 /\ k \in 1 .. Len(tx.seq86) /\ k - 1 = Len(rx.accepted) - 2
        <5>1. m # 1 /\ m # 2
          BY <2>5, <3>1 DEF TagAt
        <5> HIDE DEF m
        <5> QED BY <2>1, <2>4, <5>1 DEF k
      <4>2. e.body.text = SegmentText(k)
        BY <2>5, <4>1
      <4> HIDE DEF k, m
      <4>3. /\ rx.g # <<>> =>
                 /\ k - 1 > 0
                 /\ \E i \in 1 .. End(k - 1) :
                      /\ rx.g = SubSeq(tx.upp, i, End(k - 1))
                      /\ rx.calls = 1 => i = 1
            /\ rx.calls = 1 /\ k - 1 > 0 => rx.g # <<>>
        BY <2>4, <4>1 DEF Collects
      <4>4. PICK i : /\ rx.g # <<>> => /\ i \in 1 .. End(k - 1)
                                       /\ rx.g = SubSeq(tx.upp, i, End(k - 1))
                     /\ rx.g # <<>> /\ rx.calls = 1 => i = 1
        BY <4>3
      <4>5. k - 1 > 0 <=> k > 1
        BY <4>1
      <4>6. PICK j \in 1 .. End(k) :
              /\ rx.g \o SegmentText(k) = SubSeq(tx.upp, j, End(k))
              /\ rx.g \o SegmentText(k) # <<>>
              /\ rx.g \o SegmentText(k) \in Seq(Nat)
              /\ j = IF rx.g = <<>> THEN (k - 1) * SegmentSize + 1 ELSE i
        <5> DEFINE n == Len(tx.seq86)
        <5>1. rx.g # <<>> => /\ k > 1 /\ i \in 1 .. End(k - 1)
                             /\ rx.g = SubSeq(tx.upp, i, End(k - 1))
          BY <4>3, <4>4, <4>5
        <5>2. /\ n \in Nat /\ k \in 1 .. n /\ (n - 1) * SegmentSize < Len(tx.upp)
              /\ tx.upp \in Seq(Nat)
          BY <2>4, <4>1
        <5> HIDE DEF n
        <5> QED BY ZenonT(40), <5>1, <5>2, PieceGrows
      <4>7. rx.calls = 1 => j = 1
        <5>1. ASSUME rx.calls = 1, rx.g = <<>> PROVE j = 1
          <6>1. k = 1
            BY <4>1, <4>3, <5>1
          <6> QED BY <4>6, <5>1, <6>1, SegmentSizeAssumption
        <5> QED BY <4>4, <4>6, <5>1
      <4>8. g = rx.g \o SegmentText(k)
        BY <3>1, <4>2
      <4>9. g \in Seq(Nat \cup {Garbled})
        BY <4>6, <4>8, SeqMonotonic
      <4>10. m - 2 = k /\ k > 0
        BY <4>1 DEF k
      <4> HIDE DEF g
      <4> QED BY <4>6, <4>7, <4>8, <4>9, <4>10
    <3>2. CASE tag # "86"
      <4>1. m <= 2
        BY <2>4, <2>5, <3>2 DEF TagAt
      <4> QED BY <2>4, <2>6, <3>2, <4>1 DEF Collects
    <3> QED BY <3>1, <3>2
  <2>8. r \in ScpSessions /\ log \in Plaintexts /\ elem \in Nat
    BY <1>1, <2>1 DEF SessionOK
  <2> HIDE DEF r, log, elem, g
  <2>9. /\ rx'.phase = "elements" /\ rx'.session = r /\ rx'.elem = elem
        /\ rx'.g = g /\ rx'.accepted = log /\ rx'.calls = rx.calls
        /\ rx'.next = rx.next /\ rx'.pos = rx.pos
        /\ RxRecord'
    BY <1>1, <2>3, <2>7, <2>8 DEF RxRecord
  <2>10. Collects'
    <3>1. Len(rx'.accepted) - 2 = m - 2
      BY <2>1, <2>4, <2>9
    <3>2. \A n : End(n)' = End(n)
      BY <1>1 DEF End
    <3> HIDE DEF m
    <3> QED BY <1>1, <2>7, <2>9, <3>1, <3>2 DEF Collects
  <2>11. rx.next = "sequenceOf86" => g # <<>>
    BY <2>7 DEF tag, ElementTag
  <2>12. Receiver'
    BY <1>1, <2>1, <2>9, <2>10, <2>11 DEF Receiver, elem
  <2> QED BY <1>1, <2>12, ReceiverSteps
<1> QED BY <1>1, <1>5, <1>6, <1>7 DEF TakeElement

\* A member is done; after the last one the call returns, with success only if
\* it had segments.
LEMMA CloseMemberKeeps ==
  ASSUME BInv, CloseMember
  PROVE  BInv'
<1>1. /\ rx.phase = "elements" /\ rx.elem > Len(Elements)
      /\ UNCHANGED <<tx, sent, wire, damage>>
      /\ Receiver /\ RxRecord /\ Way /\ rx.calls > 0
      /\ rx.elem \in Nat /\ rx.pos \in Nat
  BY DEF CloseMember, BInv, Receiver, RxRecord
<1>2. ASSUME NEW next \in DOMAIN ElementTag, NEW pos \in Nat, pos > 0,
             rx' = [rx EXCEPT !.phase = "open", !.next = next, !.pos = pos]
      PROVE  BInv'
  <2>1. /\ rx'.phase = "open" /\ rx'.next = next /\ rx'.pos = pos
        /\ rx'.session = rx.session /\ rx'.calls = rx.calls
        /\ rx'.g = rx.g /\ rx'.accepted = rx.accepted
        /\ RxRecord'
    BY <1>1, <1>2 DEF RxRecord
  <2>2. Receiver'
    BY <1>1, <1>2, <2>1 DEF Receiver, Collects, End, Follows
  <2> QED BY <1>1, <2>2, ReceiverSteps
<1>3. CASE rx' = [rx EXCEPT !.phase = "open", !.next = "sequenceOf88", !.pos = rx.pos + 1]
  <2>1. "sequenceOf88" \in DOMAIN ElementTag /\ rx.pos + 1 \in Nat /\ rx.pos + 1 > 0
    BY <1>1 DEF ElementTag
  <2> QED BY <1>2, <1>3, <2>1
<1>4. CASE rx' = [rx EXCEPT !.phase = "open", !.next = "sequenceOf86",
                            !.pos = AfterSequenceOf88]
  <2>1. "sequenceOf86" \in DOMAIN ElementTag
    BY DEF ElementTag
  <2>2. AfterSequenceOf88 \in Nat /\ AfterSequenceOf88 > 0
    BY <1>1 DEF AfterSequenceOf88
  <2> QED BY <1>2, <1>4, <2>1, <2>2
<1>5. CASE rx.next = "sequenceOf86" /\ CloseSequenceOf86
  <2>1. CASE Elements = <<>>
    BY <1>1, <1>5, <2>1, RecoverReturnsKeeps DEF CloseSequenceOf86
  <2>2. CASE Elements # <<>>
    <3>1. Elements \in Seq(MadeElements(tx.session))
      <4>1. wire \in Seq(MembersOf(tx.session)) /\ rx.pos \in 1 .. Len(wire)
        BY <1>1 DEF Way, Receiver, MadePackages
      <4>2. wire[rx.pos] \in MembersOf(tx.session)
        BY <4>1, ElementOfSeq
      <4> QED BY <4>2 DEF Elements, MembersOf
    <3>2. Len(Elements) \in Nat \ {0}
      BY <2>2, <3>1, EmptySeq
    <3>3. rx.g # <<>>
      BY <1>1, <1>5, <3>2 DEF Receiver
    <3> QED BY <1>1, <1>5, <2>2, <3>3, RecoverReturnsKeeps DEF CloseSequenceOf86
  <2> QED BY <2>1, <2>2
<1> QED BY <1>3, <1>4, <1>5 DEF CloseMember

\* A failing primitive ends the call between two TLVs.
LEMMA RecoverFailsKeeps ==
  ASSUME BInv, RecoverFails
  PROVE  BInv'
BY RecoverReturnsKeeps DEF RecoverFails

-----------------------------------------------------------------------------
(* The invariant *)

LEMMA InitBInv == Init => BInv
<1> SUFFICES ASSUME Init PROVE BInv
  OBVIOUS
<1>1. TxRecord
  BY DEF Init, TxRecord, Packages, Plaintexts
<1>2. Builder
  BY <1>1 DEF Init, Builder, Progress
<1>3. Way
  BY BoundsAssumption DEF Init, Way
<1>4. RxRecord
  BY BoundsAssumption DEF Init, RxRecord, Plaintexts
<1>5. Receiver
  BY <1>4, BoundsAssumption DEF Init, Receiver
<1> QED BY <1>2, <1>3, <1>5 DEF BInv

LEMMA NextBInv == BInv /\ [Next]_vars => BInv'
<1> SUFFICES ASSUME BInv, [Next]_vars PROVE BInv'
  OBVIOUS
<1>1. CASE UNCHANGED vars
  <2>1. Receiver'
    BY <1>1 DEF vars, BInv, Receiver, RxRecord, Collects, End, Follows
  <2> QED BY <1>1, <2>1, ReceiverSteps DEF vars
<1>2. ASSUME NEW k \in Keys, NEW upp \in Upps, NEW metadata \in Metadatas,
             Build(k, upp, metadata)
      PROVE  BInv'
  BY <1>2, BuildKeeps
<1>3. CASE BuildFails
  BY <1>3, BuildFailsKeeps DEF BuildFails
<1>4. ASSUME NEW k \in Keys, Recover(k) PROVE BInv'
  BY <1>4, RecoverKeeps
<1> QED
  BY <1>1, <1>2, <1>3, <1>4, BuildConfigureKeeps, BuildMetadataKeeps, BuildSegmentKeeps,
     BuildDoneKeeps, DamageKeeps, RedeliveredKeeps, OpenMemberKeeps, TakeElementKeeps,
     CloseMemberKeeps, RecoverFailsKeeps DEF Next

\* The invariant of a package and its way.
LEMMA BppInvariant == Spec => []BInv
BY InitBInv, NextBInv, PTL DEF Spec

-----------------------------------------------------------------------------
(* Theorems *)

\* Sessions, packages and everything either side keeps have their types, for
\* any segment size and UPP: the counter is never zero and what is on the wire
\* is what rsp_protect or the way made of it.
THEOREM BppTypeCorrect == Spec => []BppTypeOK
<1>1. BInv => BppTypeOK
  <2> SUFFICES ASSUME BInv PROVE BppTypeOK
    OBVIOUS
  <2>1. wire \in {None} \cup Packages
    BY MadeIsTyped DEF BInv, Way
  <2>2. sent \in {None} \cup Packages
    <3> SUFFICES ASSUME sent # None PROVE sent \in Packages
      OBVIOUS
    <3>1. /\ tx.content \in Packages /\ tx.seq86 \in Seq(ElementsOnTheWire)
          /\ sent = Append(tx.content, Member("sequenceOf86", tx.seq86))
      BY DEF BInv, Way, Builder, TxRecord
    <3> DEFINE M == [tag : {"initialiseSecureChannelRequest", "secondSequenceOf87"}
                             \cup DOMAIN ElementTag,
                     elements : Seq(ElementsOnTheWire)]
    <3>2. Member("sequenceOf86", tx.seq86) \in M
      BY <3>1 DEF Member, ElementTag
    <3>3. tx.content \in Seq(M)
      BY <3>1 DEF Packages
    <3> QED BY <3>1, <3>2, <3>3, AppendProperties DEF Packages
  <2> QED BY <2>1, <2>2 DEF BInv, Builder, TxRecord, Way, Receiver, RxRecord, BppTypeOK
<1> QED BY <1>1, BppInvariant, PTL

\* The encryption counter and the chain stay together on both sides, over the
\* '88' that is not encrypted, over failures and over damaged packages.
THEOREM CountersCount == Spec => []CounterCountsTlvs
<1>1. BInv => CounterCountsTlvs
  <2> SUFFICES ASSUME BInv PROVE CounterCountsTlvs
    OBVIOUS
  <2>1. tx.session # None => CountsEveryTlv(tx.session)
    BY DEF BInv, Builder, Progress, SessionOK
  <2>2. rx.session # None => CountsEveryTlv(rx.session)
    BY BoundsAssumption DEF BInv, Receiver, RxRecord, SessionOK
  <2> QED BY <2>1, <2>2 DEF CounterCountsTlvs
<1> QED BY <1>1, BppInvariant, PTL

\* rsp_bpp_build cuts a UPP of any length into segments of any size without gap
\* or overlap, and none of them is empty.
THEOREM SegmentsCover == Spec => []SegmentsCoverUpp
<1>1. BInv => SegmentsCoverUpp
  <2> SUFFICES ASSUME BInv, sent # None
               PROVE  LET segments == Len(sent[Len(sent)].elements) IN
                      /\ Len(tx.protected) = segments + 2
                      /\ (segments - 1) * SegmentSize < Len(tx.upp)
                      /\ Len(tx.upp) <= segments * SegmentSize
                      /\ \A n \in 1 .. segments :
                           tx.protected[n + 2].text =
                             SubSeq(tx.upp, (n - 1) * SegmentSize + 1, End(n))
    BY DEF SegmentsCoverUpp
  <2> DEFINE n == Len(tx.seq86)
  <2>1. /\ tx.phase = "done" /\ Builder
        /\ sent = Append(tx.content, Member("sequenceOf86", tx.seq86))
    BY DEF BInv, Way
  <2>2. sent[Len(sent)].elements = tx.seq86
    <3>1. tx.content \in MadePackages(tx.session) /\ tx.seq86 \in Seq(MadeElements(tx.session))
      BY <2>1 DEF Builder
    <3>2. Member("sequenceOf86", tx.seq86) \in MembersOf(tx.session)
      BY <3>1 DEF Member, MembersOf, MemberTags, ElementTag
    <3>3. Len(sent) = Len(tx.content) + 1 /\ sent[Len(tx.content) + 1] = Member("sequenceOf86", tx.seq86)
      BY <2>1, <3>1, <3>2, AppendProperties DEF MadePackages
    <3> QED BY <3>3 DEF Member
  <2>3. /\ SessionOK(tx.session, tx.protected) /\ ChainInOrder
        /\ Len(tx.session.chain) = n + 2 /\ CutAt(n)
        /\ tx.seq86 \in Seq(ElementsOnTheWire)
    BY <2>1 DEF Builder, Progress, TxRecord
  <2>4. n \in Nat
    BY <2>3, LenProperties
  <2>5. Len(tx.protected) = n + 2
    BY <2>3 DEF SessionOK, Logs
  <2>6. ASSUME NEW i \in 1 .. n
        PROVE  tx.protected[i + 2].text = SubSeq(tx.upp, (i - 1) * SegmentSize + 1, End(i))
    <3>1. i + 2 \in 1 .. Len(tx.session.chain) /\ i + 2 > 2 /\ i + 2 - 2 = i
      BY <2>3, <2>4
    <3>2. tx.protected[i + 2].text = tx.session.chain[i + 2].body.text
      <4> DEFINE j == i + 2
      <4>1. j \in 1 .. Len(tx.session.chain)
        BY <3>1
      <4>2. Logs(tx.protected, tx.session)
        BY <2>3 DEF SessionOK
      <4> HIDE DEF j
      <4>3. tx.protected[j] = [tag |-> tx.session.chain[j].tag,
                               text |-> tx.session.chain[j].body.text]
        BY <4>1, <4>2 DEF Logs
      <4>4. tx.protected[j].text = tx.session.chain[j].body.text
        BY <4>3
      <4> QED BY <4>4 DEF j
    <3>3. tx.session.chain[i + 2].body.text = SegmentText(i)
      BY <2>3, <3>1 DEF ChainInOrder
    <3> QED BY <3>2, <3>3 DEF SegmentText
  <2>7. (n - 1) * SegmentSize < Len(tx.upp) /\ Len(tx.upp) <= n * SegmentSize
    BY <2>1, <2>3 DEF CutAt
  <2> HIDE DEF n
  <2>8. Len(sent[Len(sent)].elements) = n
    BY <2>2 DEF n
  <2> QED BY <2>5, <2>6, <2>7, <2>8
<1> QED BY <1>1, BppInvariant, PTL

\* What the receiver accepted is the beginning of what the builder protected.
LEMMA AcceptedIsPrefix ==
  ASSUME BInv, rx.calls > 0
  PROVE  /\ Len(rx.accepted) <= Len(tx.protected)
         /\ Len(tx.protected) = Len(tx.seq86) + 2
         /\ rx.accepted = SubSeq(tx.protected, 1, Len(rx.accepted))
<1> DEFINE a == rx.accepted
           p == tx.protected
           R == [tag : Tags, text : Texts]
<1>1. /\ SessionOK(rx.session, a) /\ SessionOK(tx.session, p)
      /\ Follows(rx.session, tx.session)
      /\ Len(tx.session.chain) = Len(tx.seq86) + 2
  BY ReceiverKnows
<1>2. /\ Logs(a, rx.session) /\ Logs(p, tx.session)
      /\ a \in Seq(R) /\ p \in Seq(R)
  BY <1>1 DEF SessionOK, Plaintexts
<1>3. /\ Len(a) = Len(rx.session.chain) /\ Len(p) = Len(tx.session.chain)
      /\ Len(a) <= Len(p)
  BY <1>1, <1>2 DEF Logs, Follows
<1>4. Len(a) \in Nat /\ Len(p) \in Nat
  BY <1>2, LenProperties
<1>5. ASSUME NEW i \in 1 .. Len(a) PROVE a[i] = p[i] /\ p[i] \in R
  <2> HIDE DEF R
  <2>1. i \in 1 .. Len(p)
    BY <1>3, <1>4
  <2>2. a[i] = p[i]
    BY <1>1, <1>2, <1>3, <2>1 DEF Logs, Follows
  <2> QED BY <1>2, <2>1, <2>2, ElementOfSeq
<1>6. a = SubSeq(p, 1, Len(a))
  <2> HIDE DEF R, a, p
  <2>1. /\ SubSeq(p, 1, Len(a)) \in Seq(R)
        /\ Len(SubSeq(p, 1, Len(a))) = Len(a)
        /\ \A i \in 1 .. Len(a) : SubSeq(p, 1, Len(a))[i] = p[i]
    BY <1>4, <1>5, SubSeqProperties
  <2> QED BY <1>2, <1>5, <2>1, SeqEqual
<1> QED BY <1>1, <1>3, <1>6

\* A recovery that succeeded collected a piece of the UPP that ends where the
\* last segment accepted ends.
LEMMA RecoveredPiece ==
  ASSUME BInv, Recovered
  PROVE  LET n == Len(rx.accepted) - 2 IN
         /\ rx.calls > 0
         /\ n \in 1 .. Len(tx.seq86)
         /\ \E i \in 1 .. End(n) : /\ rx.upp = SubSeq(tx.upp, i, End(n))
                                   /\ rx.calls = 1 => i = 1
         /\ End(n) \in 1 .. Len(tx.upp)
<1> DEFINE n == Len(rx.accepted) - 2
<1>1. /\ rx.phase = "done" /\ rx.calls \in Nat /\ rx.calls # 0
      /\ rx.upp = rx.g /\ rx.g # <<>>
  BY BoundsAssumption DEF BInv, Receiver, RxRecord, Recovered
<1>2. rx.calls > 0
  BY <1>1
<1>3. /\ Len(rx.accepted) <= Len(tx.seq86) + 2 /\ Len(rx.accepted) \in Nat
      /\ Len(tx.seq86) \in Nat /\ Len(tx.upp) \in Nat
      /\ (Len(tx.seq86) - 1) * SegmentSize < Len(tx.upp)
      /\ Collects
  BY <1>2, ReceiverKnows, AcceptedIsPrefix
<1>4. /\ n > 0
      /\ \E i \in 1 .. End(n) : /\ rx.g = SubSeq(tx.upp, i, End(n))
                                /\ rx.calls = 1 => i = 1
  BY <1>1, <1>3 DEF Collects
<1>5. n \in 1 .. Len(tx.seq86)
  BY <1>3, <1>4
<1>6. End(n) \in 1 .. Len(tx.upp)
  <2> DEFINE k == Len(tx.seq86)
  <2>1. k \in Nat /\ n \in 1 .. k /\ (k - 1) * SegmentSize < Len(tx.upp)
    BY <1>3, <1>5
  <2> HIDE DEF k, n
  <2>2. /\ (n - 1) * SegmentSize \in Nat /\ (n - 1) * SegmentSize < End(n)
        /\ End(n) <= Len(tx.upp) /\ End(n) \in Nat
    BY <1>3, <2>1, SegmentLies
  <2> QED BY <1>3, <2>2
<1> QED BY <1>1, <1>2, <1>4, <1>5, <1>6

\* On a fresh session success means the '87' and the '88' as they were sent and
\* the UPP up to the end of one of its segments, whatever happened on the way.
THEOREM PrefixRecovered == Spec => []SuccessIsPrefixOfSent
<1>1. BInv => SuccessIsPrefixOfSent
  <2> SUFFICES ASSUME BInv, Recovered, rx.calls = 1
               PROVE  \E n \in 1 .. Len(tx.protected) - 2 :
                        /\ rx.accepted = SubSeq(tx.protected, 1, n + 2)
                        /\ rx.upp = SubSeq(tx.upp, 1, End(n))
    BY DEF SuccessIsPrefixOfSent
  <2> DEFINE n == Len(rx.accepted) - 2
  <2>1. /\ n \in 1 .. Len(tx.seq86)
        /\ rx.upp = SubSeq(tx.upp, 1, End(n))
    BY RecoveredPiece
  <2>2. /\ Len(tx.protected) = Len(tx.seq86) + 2
        /\ rx.accepted = SubSeq(tx.protected, 1, Len(rx.accepted))
        /\ Len(tx.seq86) \in Nat /\ Len(rx.accepted) \in Nat
    BY AcceptedIsPrefix, ReceiverKnows
  <2>3. n \in 1 .. Len(tx.protected) - 2 /\ n + 2 = Len(rx.accepted)
    BY <2>1, <2>2
  <2> HIDE DEF n
  <2> QED BY <2>1, <2>2, <2>3
<1> QED BY <1>1, BppInvariant, PTL

\* Even on a session an earlier recovery has left somewhere, success means one
\* uninterrupted piece of the UPP.
THEOREM OnePieceRecovered == Spec => []RecoveredIsOnePiece
<1>1. BInv => RecoveredIsOnePiece
  <2> SUFFICES ASSUME BInv, Recovered
               PROVE  \E i, j \in 1 .. Len(tx.upp) : i <= j /\ rx.upp = SubSeq(tx.upp, i, j)
    BY DEF RecoveredIsOnePiece
  <2> DEFINE j == End(Len(rx.accepted) - 2)
  <2>1. j \in 1 .. Len(tx.upp) /\ \E i \in 1 .. j : rx.upp = SubSeq(tx.upp, i, j)
    BY RecoveredPiece
  <2>2. Len(tx.upp) \in Nat
    BY RecoveredPiece, ReceiverKnows
  <2> HIDE DEF j
  <2>3. PICK i \in 1 .. j : rx.upp = SubSeq(tx.upp, i, j)
    BY <2>1
  <2>4. i \in 1 .. Len(tx.upp) /\ i <= j
    BY <2>1, <2>2, <2>3
  <2> QED BY <2>1, <2>3, <2>4
<1> QED BY <1>1, BppInvariant, PTL

-----------------------------------------------------------------------------
(* The refinement of SecureChannel *)

\* A step that protects and accepts nothing is a stutter of the channel.
LEMMA QuietStep ==
  ASSUME tx'.protected = tx.protected, rx'.accepted = rx.accepted
  PROVE  [Channel!Next]_<<tx.protected, rx.accepted>>
OBVIOUS

\* Protecting one more TLV is a Send.
LEMMA SendStep ==
  ASSUME tx.protected \in Plaintexts, NEW x, tx'.protected = Append(tx.protected, x),
         rx'.accepted = rx.accepted
  PROVE  [Channel!Next]_<<tx.protected, rx.accepted>>
<1> DEFINE p == tx.protected
           R == [tag : Tags, text : Texts] \cup {x}
<1>1. p \in Seq(R) /\ x \in R
  BY SeqMonotonic DEF Plaintexts
<1> HIDE DEF R
<1>2. /\ Append(p, x) \in Seq(R) /\ Len(Append(p, x)) = Len(p) + 1
      /\ \A i \in 1 .. Len(p) : Append(p, x)[i] = p[i]
      /\ Len(p) \in Nat
  BY <1>1, AppendProperties, LenProperties
<1>3. \A i \in 1 .. Len(p) : Append(p, x)[i] \in R
  BY <1>1, <1>2, ElementOfSeq
<1>4. SubSeq(Append(p, x), 1, Len(p)) = p
  <2> HIDE DEF p
  <2>1. /\ SubSeq(Append(p, x), 1, Len(p)) \in Seq(R)
        /\ Len(SubSeq(Append(p, x), 1, Len(p))) = Len(p)
        /\ \A i \in 1 .. Len(p) : SubSeq(Append(p, x), 1, Len(p))[i] = Append(p, x)[i]
    BY <1>2, <1>3, SubSeqProperties
  <2> QED BY <1>1, <1>2, <2>1, SeqEqual
<1>5. Channel!Send
  BY <1>2, <1>4 DEF Channel!Send
<1> QED BY <1>5 DEF Channel!Next

\* The builder's steps protect one TLV or none.
LEMMA BuilderSends ==
  ASSUME BInv, BuildConfigure \/ BuildMetadata \/ BuildSegment
  PROVE  [Channel!Next]_<<tx.protected, rx.accepted>>
<1>1. /\ rx' = rx /\ TxRecord /\ tx.protected \in Plaintexts
  BY DEF BInv, Builder, TxRecord, BuildConfigure, BuildMetadata, BuildSegment
<1>2. ASSUME NEW x, tx'.protected = Append(tx.protected, x)
      PROVE  [Channel!Next]_<<tx.protected, rx.accepted>>
  BY <1>1, <1>2, SendStep
<1>3. ASSUME tx'.protected = tx.protected
      PROVE  [Channel!Next]_<<tx.protected, rx.accepted>>
  BY <1>1, <1>3, QuietStep
<1>4. CASE BuildConfigure
  <2>1. tx'.protected = Append(tx.protected, [tag |-> "87", text |-> Configure])
    BY <1>1, <1>4 DEF BuildConfigure, Protects, TxRecord
  <2> QED BY <1>2, <2>1
<1>5. CASE BuildMetadata
  <2>1. \/ tx'.protected = tx.protected
        \/ tx'.protected = Append(tx.protected, [tag |-> "88", text |-> tx.metadata])
    BY <1>1, <1>5 DEF BuildMetadata, BuildReturns, Protects, TxRecord
  <2> QED BY <1>2, <1>3, <2>1
<1>6. CASE BuildSegment
  <2> DEFINE text == SubSeq(tx.upp, tx.off + 1, tx.off + Chunk(Len(tx.upp) - tx.off))
  <2>1. tx'.protected = Append(tx.protected, [tag |-> "86", text |-> text])
    BY <1>1, <1>6 DEF BuildSegment, Protects, TxRecord
  <2> QED BY <1>2, <2>1
<1> QED BY <1>4, <1>5, <1>6

\* An element accepted is the first TLV protected and not yet accepted; one
\* that is not ends the call.
LEMMA TakeReceives ==
  ASSUME BInv, TakeElement
  PROVE  [Channel!Next]_<<tx.protected, rx.accepted>>
<1> DEFINE e == Elements[rx.elem]
           tag == ElementTag[rx.next]
           un == IF tag = "88" THEN UnprotectMacOnly(rx.session, e, tag)
                               ELSE Unprotect(rx.session, e, tag)
           m == Len(rx.accepted) + 1
<1>1. /\ rx.phase = "elements" /\ rx.elem <= Len(Elements)
      /\ tx' = tx
      /\ Receiver /\ RxRecord /\ Way /\ rx.calls > 0
      /\ rx.next \in DOMAIN ElementTag
      /\ rx.elem \in Nat /\ rx.elem > 0
  BY DEF TakeElement, BInv, Receiver, RxRecord
<1>2. tag \in Tags
  BY <1>1 DEF Tags, ElementTag
<1>3. e \in MadeElements(tx.session)
  <2>1. wire \in Seq(MembersOf(tx.session)) /\ rx.pos \in 1 .. Len(wire)
    BY <1>1 DEF Way, Receiver, MadePackages
  <2>2. wire[rx.pos] \in MembersOf(tx.session)
    BY <2>1, ElementOfSeq
  <2>3. Elements \in Seq(MadeElements(tx.session))
    BY <2>2 DEF Elements, MembersOf
  <2>4. rx.elem \in 1 .. Len(Elements)
    BY <1>1, <2>3, LenProperties
  <2> QED BY <2>3, <2>4, ElementOfSeq
<1>4. un.ret = 0 => /\ e.body # TooShort
                    /\ e.mac = Mac(rx.session, tag, e.body)
                    /\ un.text = IF tag = "88" THEN e.body.text
                                 ELSE Decrypted(rx.session, e.body)
  BY DEF Unprotect, UnprotectMacOnly, Refusal, Accepted
<1>5. CASE \E ret : RecoverReturns(ret)
  <2>1. rx'.accepted = rx.accepted
    BY <1>1, <1>5 DEF RecoverReturns, RxRecord
  <2> QED BY <1>1, <2>1, QuietStep
<1>6. CASE /\ un.ret = 0
           /\ rx' = [rx EXCEPT !.session = un.session,
                               !.elem = rx.elem + 1,
                               !.g = IF tag = "86" THEN rx.g \o un.text ELSE rx.g,
                               !.accepted = Append(rx.accepted, [tag |-> tag, text |-> un.text])]
  <2> HIDE DEF e, tag, un
  <2>1. rx'.accepted = Append(rx.accepted, [tag |-> tag, text |-> un.text])
    BY <1>1, <1>6 DEF RxRecord
  <2>2. /\ SessionOK(rx.session, rx.accepted) /\ SessionOK(tx.session, tx.protected)
        /\ Len(rx.accepted) \in Nat /\ Len(rx.accepted) = Len(rx.session.chain)
    BY <1>1, ReceiverKnows
  <2>3. /\ m \in 1 .. Len(tx.session.chain)
        /\ tx.session.chain[m] = [tag |-> tag, body |-> e.body]
        /\ tag # "88" => e.body.icv = Icv(rx.session)
    BY <1>1, <1>2, <1>3, <1>4, <1>6, <2>2, AcceptedIsNext
  <2>4. un.text = e.body.text
    BY <1>4, <1>6, <2>3 DEF Decrypted
  <2>5. Logs(tx.protected, tx.session)
    BY <2>2 DEF SessionOK
  <2>6. Len(rx.accepted) < Len(tx.protected)
    BY <2>2, <2>3, <2>5 DEF Logs
  <2> HIDE DEF m
  <2>7. tx.protected[m] = [tag |-> tag, text |-> e.body.text]
    BY <2>3, <2>5 DEF Logs
  <2>8. rx'.accepted = Append(rx.accepted, tx.protected[m])
    BY <2>1, <2>4, <2>7
  <2>9. Channel!Receive
    BY <1>1, <2>6, <2>8 DEF Channel!Receive, m
  <2> QED BY <2>9 DEF Channel!Next
<1> QED BY <1>1, <1>5, <1>6 DEF TakeElement

\* Every other step leaves both ends of the channel alone.
LEMMA RestIsQuiet ==
  ASSUME BInv,
         \/ UNCHANGED vars
         \/ \E k \in Keys, upp \in Upps, metadata \in Metadatas : Build(k, upp, metadata)
         \/ BuildDone \/ BuildFails \/ Damage \/ Redelivered
         \/ \E k \in Keys : Recover(k)
         \/ OpenMember \/ CloseMember \/ RecoverFails
  PROVE  [Channel!Next]_<<tx.protected, rx.accepted>>
<1>1. TxRecord /\ RxRecord
  BY DEF BInv, Builder, Receiver
<1>2. CASE UNCHANGED vars
  BY <1>2, QuietStep DEF vars
<1>3. ASSUME NEW k, NEW upp, NEW metadata, Build(k, upp, metadata)
      PROVE  tx'.protected = tx.protected /\ rx' = rx
  BY <1>1, <1>3 DEF Build, TxRecord
<1>4. ASSUME BuildDone \/ BuildFails
      PROVE  tx'.protected = tx.protected /\ rx' = rx
  BY <1>1, <1>4 DEF BuildDone, BuildFails, BuildReturns, TxRecord
<1>5. CASE Damage
  BY <1>5, QuietStep DEF Damage
<1>6. ASSUME Redelivered
      PROVE  tx' = tx /\ rx'.accepted = rx.accepted
  BY <1>1, <1>6 DEF Redelivered, RxRecord
<1>7. ASSUME NEW k, Recover(k)
      PROVE  tx' = tx /\ rx'.accepted = rx.accepted
  BY <1>1, <1>7 DEF Recover, RxRecord
<1>8. ASSUME NEW ret, RecoverReturns(ret)
      PROVE  rx'.accepted = rx.accepted
  BY <1>1, <1>8 DEF RecoverReturns, RxRecord
<1>9. ASSUME OpenMember
      PROVE  tx' = tx /\ rx'.accepted = rx.accepted
  BY <1>1, <1>8, <1>9 DEF OpenMember, RxRecord
<1>10. ASSUME CloseMember
       PROVE  tx' = tx /\ rx'.accepted = rx.accepted
  BY <1>1, <1>8, <1>10 DEF CloseMember, CloseSequenceOf86, RxRecord
<1>11. ASSUME RecoverFails
       PROVE  tx' = tx /\ rx'.accepted = rx.accepted
  BY <1>8, <1>11 DEF RecoverFails
<1> QED BY <1>2, <1>3, <1>4, <1>5, <1>6, <1>7, <1>9, <1>10, <1>11, QuietStep

\* Over a way that loses, repeats, exchanges and alters what it carries, and a
\* receiver that fails and is called again, rsp_bpp_build and rsp_bpp_recover
\* implement the channel: first protected, first accepted, nothing twice,
\* nothing skipped.
THEOREM OrderKept == Spec => KeepsOrder
<1>1. Init => Channel!Init
  BY DEF Init, Channel!Init
<1>2. BInv /\ [Next]_vars => [Channel!Next]_<<tx.protected, rx.accepted>>
  <2> SUFFICES ASSUME BInv, [Next]_vars
               PROVE  [Channel!Next]_<<tx.protected, rx.accepted>>
    OBVIOUS
  <2>1. CASE BuildConfigure \/ BuildMetadata \/ BuildSegment
    BY <2>1, BuilderSends
  <2>2. CASE TakeElement
    BY <2>2, TakeReceives
  <2>3. CASE \/ UNCHANGED vars
             \/ \E k \in Keys, upp \in Upps, metadata \in Metadatas : Build(k, upp, metadata)
             \/ BuildDone \/ BuildFails \/ Damage \/ Redelivered
             \/ \E k \in Keys : Recover(k)
             \/ OpenMember \/ CloseMember \/ RecoverFails
    BY <2>3, RestIsQuiet
  <2> QED BY <2>1, <2>2, <2>3 DEF Next
<1> QED BY <1>1, <1>2, BppInvariant, PTL DEF Spec, KeepsOrder, Channel!Spec

=============================================================================
