---------------------------- MODULE IntactProofs ----------------------------
(***************************************************************************)
(* The theorem that nothing is refused without cause: a package that       *)
(* arrives as it was sent is recovered whole, for any keys, UPPs, metadata *)
(* and segment size.                                                       *)
(*                                                                         *)
(* BppProofs bounds what a receiver may accept.  Here the package is known *)
(* exactly, element by element, and a receiver under the same keys is in   *)
(* step with it: where it stands in the package and how many TLVs its      *)
(* chain holds say the same.                                               *)
(***************************************************************************)
EXTENDS BppProofs

\* The element the builder made of the i-th TLV of its chain.
MadeAt(i) ==
  [tag |-> tx.session.chain[i].tag, body |-> tx.session.chain[i].body,
   mac |-> [key |-> tx.session.key, over |-> SubSeq(tx.session.chain, 1, i)]]

Building == {"configure", "metadata", "segments", "wrap", "done"}

\* What is in the buffers of rsp_bpp_build.
Packed ==
  tx.phase \in Building =>
    /\ tx.content[1].tag = "initialiseSecureChannelRequest"
    /\ tx.phase = "configure" => Len(tx.content) = 1
    /\ tx.phase = "metadata" => Len(tx.content) = 2
    /\ tx.phase \notin {"configure", "metadata"} => Len(tx.content) = 3
    /\ tx.phase # "configure" =>
         tx.content[2] = Member("firstSequenceOf87", <<MadeAt(1)>>)
    /\ tx.phase \notin {"configure", "metadata"} =>
         /\ tx.content[3] = Member("sequenceOf88", <<MadeAt(2)>>)
         /\ \A j \in 1 .. Len(tx.seq86) : tx.seq86[j] = MadeAt(j + 2)

AsSent == wire # None /\ damage = 0 => wire = sent

\* Where each group of TLVs lies in a package.
Place == [firstSequenceOf87 |-> 2, sequenceOf88 |-> 3, sequenceOf86 |-> 4]

Undisturbed == rx.calls = 1 /\ damage = 0 /\ rx.session.key = tx.session.key

InStep ==
  Undisturbed =>
    /\ rx.phase \in {"open", "elements"} => rx.pos = Place[rx.next]
    /\ rx.phase = "open" => Len(rx.session.chain) = rx.pos - 2
    /\ rx.phase = "elements" =>
         /\ Len(rx.session.chain) = rx.pos - 3 + rx.elem
         /\ rx.elem <= Len(sent[rx.pos].elements) + 1
    /\ rx.phase = "done" =>
         \/ rx.ret = 0 /\ rx.upp = tx.upp
         \/ rx.ret = -2 /\ MemoryMayFail

\* Inductive together with BInv.
Intact == Packed /\ AsSent /\ InStep

-----------------------------------------------------------------------------
(* The package *)

\* A chain that grew begins with what it was.
LEMMA BeginningStays ==
  ASSUME NEW c \in Seq(Tlvs), NEW t \in Tlvs
  PROVE  /\ \A n \in 1 .. Len(c) : SubSeq(Append(c, t), 1, n) = SubSeq(c, 1, n)
         /\ SubSeq(Append(c, t), 1, Len(c) + 1) = Append(c, t)
<1> DEFINE a == Append(c, t)
<1>1. /\ a \in Seq(Tlvs) /\ Len(a) = Len(c) + 1 /\ Len(c) \in Nat
      /\ \A i \in 1 .. Len(c) : a[i] = c[i]
  BY AppendProperties, LenProperties
<1>2. ASSUME NEW n \in 1 .. Len(c) PROVE SubSeq(a, 1, n) = SubSeq(c, 1, n)
  <2>1. \A i \in 1 .. n : c[i] \in Tlvs /\ a[i] = c[i]
    BY <1>1, ElementOfSeq
  <2>2. /\ SubSeq(a, 1, n) \in Seq(Tlvs) /\ SubSeq(c, 1, n) \in Seq(Tlvs)
        /\ Len(SubSeq(a, 1, n)) = n /\ Len(SubSeq(c, 1, n)) = n
        /\ \A i \in 1 .. n : SubSeq(a, 1, n)[i] = a[i]
        /\ \A i \in 1 .. n : SubSeq(c, 1, n)[i] = c[i]
    BY <2>1, <1>1, SubSeqProperties
  <2> QED BY <2>1, <2>2, SeqEqual
<1>3. SubSeq(a, 1, Len(a)) = a
  BY <1>1, SubSeqFull
<1> QED BY <1>1, <1>2, <1>3

\* What Append does to a sequence, whatever is appended.
LEMMA Appended ==
  ASSUME NEW S, NEW q \in Seq(S), NEW k, k = Len(q) + 1, NEW e, NEW a, a = Append(q, e)
  PROVE  /\ Len(a) = k
         /\ a[k] = e
         /\ \A i \in 1 .. k : i # k => a[i] = q[i]
OBVIOUS

\* The element rsp_protect returns is the one made of the chain's new TLV, and
\* those made before stay as they were.
LEMMA MadeStays ==
  ASSUME Builder, tx.phase # "idle", NEW tag \in Tags, NEW body \in Bodies,
         body.icv = IF tag = "88" THEN NoIcv ELSE Icv(tx.session),
         tx'.session = Advanced(tx.session, tag, body),
         NEW m, m = Len(tx.session.chain) + 1
  PROVE  /\ \A i \in 1 .. Len(tx.session.chain) : MadeAt(i)' = MadeAt(i)
         /\ MadeAt(m)' = Element(tx.session, tag, body)
<1> DEFINE s == tx.session
           c == s.chain
           t == [tag |-> tag, body |-> body]
           a == Append(c, t)
<1>1. s \in ScpSessions /\ CountsEveryTlv(s) /\ c \in Seq(Tlvs) /\ t \in Tlvs
  BY DEF Builder, SessionOK, ScpSessions, Tlvs
<1>2. tx'.session.key = s.key /\ tx'.session.chain = a
  BY <1>1, AdvancedIsOK
<1>3. /\ \A i \in 1 .. Len(c) : a[i] = c[i]
      /\ a[Len(c) + 1] = t
  BY <1>1, AppendProperties
<1>4. /\ \A n \in 1 .. Len(c) : SubSeq(a, 1, n) = SubSeq(c, 1, n)
      /\ SubSeq(a, 1, Len(c) + 1) = a
  BY <1>1, BeginningStays
<1>5. \A i \in 1 .. Len(c) : MadeAt(i)' = MadeAt(i)
  BY <1>2, <1>3, <1>4 DEF MadeAt
<1>6. MadeAt(m)' =
        [tag |-> tag, body |-> body, mac |-> [key |-> s.key, over |-> a]]
  <2>1. a[m].tag = tag /\ a[m].body = body
    BY <1>3
  <2> QED BY <1>2, <1>4, <2>1 DEF MadeAt
<1>7. Element(s, tag, body) =
        [tag |-> tag, body |-> body, mac |-> [key |-> s.key, over |-> a]]
  BY DEF Element, Mac, Chained
<1> QED BY <1>5, <1>6, <1>7

\* rsp_bpp_build begins with the member that is not protected.
LEMMA BuildPacks ==
  ASSUME BInv, NEW k \in Keys, NEW upp \in Upps, NEW metadata \in Metadatas,
         Build(k, upp, metadata)
  PROVE  Packed'
<1> DEFINE isc == <<Member("initialiseSecureChannelRequest", <<>>)>>
<1>1. TxRecord
  BY DEF BInv, Builder
<1>2. tx'.phase \in {"failed", "configure"} /\ tx'.content = isc
  BY <1>1 DEF Build, TxRecord
<1>3. Len(isc) = 1 /\ isc[1].tag = "initialiseSecureChannelRequest"
  BY DEF Member
<1> QED BY <1>2, <1>3 DEF Packed, Building

\* The '87' group follows it.
LEMMA BuildConfigurePacks ==
  ASSUME BInv, Packed, BuildConfigure
  PROVE  Packed'
<1> DEFINE s == tx.session
           body == Encrypted(s, Configure)
           e == Element(s, "87", body)
           m == Member("firstSequenceOf87", <<e>>)
<1>1. /\ tx.phase = "configure" /\ TxRecord /\ Builder
      /\ Len(s.chain) = 0 /\ s \in ScpSessions
      /\ tx.content \in MadePackages(s)
      /\ Len(tx.content) = 1 /\ tx.content[1].tag = "initialiseSecureChannelRequest"
  BY DEF BuildConfigure, BInv, Builder, Progress, SessionOK, Packed, Building
<1>2. body.icv = Icv(s) /\ body \in Bodies
  BY <1>1 DEF Encrypted, Icv, Bodies, Texts, ScpSessions
<1>3. tx' = [tx EXCEPT !.session = Advanced(s, "87", body),
                       !.protected = Append(tx.protected, [tag |-> "87", text |-> Configure]),
                       !.phase = "metadata",
                       !.content = Append(tx.content, m)]
  BY <1>1 DEF BuildConfigure, Protects, Protect, TxRecord
<1> HIDE DEF body, e, m
<1>4. /\ tx'.session = Advanced(s, "87", body) /\ tx'.phase = "metadata"
      /\ tx'.content = Append(tx.content, m)
  BY <1>1, <1>3 DEF TxRecord
<1>5. MadeAt(1)' = e
  <2>1. 1 = Len(s.chain) + 1 /\ "87" \in Tags /\ tx.phase # "idle"
    BY <1>1 DEF Tags
  <2> QED BY <1>1, <1>2, <1>4, <2>1, MadeStays DEF e
<1>6. /\ Len(tx'.content) = 2 /\ tx'.content[1] = tx.content[1] /\ tx'.content[2] = m
  <2>1. tx.content \in Seq(MembersOf(s)) /\ 2 = Len(tx.content) + 1
    BY <1>1 DEF MadePackages
  <2>2. /\ Len(tx'.content) = 2 /\ tx'.content[2] = m
        /\ \A i \in 1 .. 2 : i # 2 => tx'.content[i] = tx.content[i]
    BY <1>4, <2>1, Appended
  <2> QED BY <2>2
<1>7. m = Member("firstSequenceOf87", <<MadeAt(1)>>)'
  BY <1>5 DEF m, Member
<1> QED BY <1>1, <1>4, <1>6, <1>7 DEF Packed

\* The '88' group is the third member.
LEMMA BuildMetadataPacks ==
  ASSUME BInv, Packed, BuildMetadata
  PROVE  Packed'
<1> DEFINE s == tx.session
           body == Clear(tx.metadata)
           e == Element(s, "88", body)
           m == Member("sequenceOf88", <<e>>)
<1>1. /\ tx.phase = "metadata" /\ TxRecord /\ Builder
      /\ Len(s.chain) = 1 /\ s \in ScpSessions
      /\ tx.content \in MadePackages(s) /\ tx.metadata \in Metadatas
      /\ tx.seq86 = <<>>
      /\ Len(tx.content) = 2 /\ tx.content[1].tag = "initialiseSecureChannelRequest"
      /\ tx.content[2] = Member("firstSequenceOf87", <<MadeAt(1)>>)
  BY DEF BuildMetadata, BInv, Builder, Progress, SessionOK, Packed, Building
<1>2. CASE BuildReturns("failed")
  <2>1. tx'.phase = "failed"
    BY <1>1, <1>2 DEF BuildReturns, TxRecord
  <2> QED BY <2>1 DEF Packed, Building
<1>3. CASE tx.metadata \in FittingMetadatas
  <2>1. body.icv = NoIcv /\ body \in Bodies
    BY <1>1 DEF Clear, Bodies, Texts
  <2>2. tx' = [tx EXCEPT !.session = Advanced(s, "88", body),
                         !.protected = Append(tx.protected, [tag |-> "88", text |-> tx.metadata]),
                         !.phase = "segments",
                         !.content = Append(tx.content, m)]
    BY <1>1, <1>3 DEF BuildMetadata, Protects, ProtectMacOnly, TxRecord
  <2> HIDE DEF body, e, m
  <2>3. /\ tx'.session = Advanced(s, "88", body) /\ tx'.phase = "segments"
        /\ tx'.content = Append(tx.content, m) /\ tx'.seq86 = <<>>
    BY <1>1, <2>2 DEF TxRecord
  <2>4. MadeAt(2)' = e /\ MadeAt(1)' = MadeAt(1)
    <3>1. /\ 2 = Len(s.chain) + 1 /\ 1 \in 1 .. Len(s.chain)
          /\ "88" \in Tags /\ tx.phase # "idle"
      BY <1>1 DEF Tags
    <3> QED BY <1>1, <2>1, <2>3, <3>1, MadeStays DEF e
  <2>5. /\ Len(tx'.content) = 3 /\ tx'.content[1] = tx.content[1]
        /\ tx'.content[2] = tx.content[2] /\ tx'.content[3] = m
    <3>1. tx.content \in Seq(MembersOf(s)) /\ 3 = Len(tx.content) + 1
      BY <1>1 DEF MadePackages
    <3>2. /\ Len(tx'.content) = 3 /\ tx'.content[3] = m
          /\ \A i \in 1 .. 3 : i # 3 => tx'.content[i] = tx.content[i]
      BY <2>3, <3>1, Appended
    <3> QED BY <3>2
  <2>6. /\ m = Member("sequenceOf88", <<MadeAt(2)>>)'
        /\ tx'.content[2] = Member("firstSequenceOf87", <<MadeAt(1)>>)'
    BY <1>1, <2>4, <2>5 DEF m, Member
  <2>7. Len(tx'.seq86) = 0
    BY <2>3
  <2> QED BY <1>1, <2>3, <2>5, <2>6, <2>7 DEF Packed
<1> QED BY <1>2, <1>3 DEF BuildMetadata

\* A segment joins those before it.
LEMMA BuildSegmentPacks ==
  ASSUME BInv, Packed, BuildSegment
  PROVE  Packed'
<1> DEFINE s == tx.session
           n == Len(tx.seq86)
           chunk == Chunk(Len(tx.upp) - tx.off)
           text == SubSeq(tx.upp, tx.off + 1, tx.off + chunk)
           body == Encrypted(s, text)
           e == Element(s, "86", body)
           phase == IF MoreSegments(tx.off + chunk) THEN "segments" ELSE "wrap"
<1>1. /\ tx.phase = "segments" /\ TxRecord /\ Builder
      /\ Len(s.chain) = n + 2 /\ s \in ScpSessions
      /\ tx.seq86 \in Seq(MadeElements(s))
      /\ Len(tx.content) = 3 /\ tx.content[1].tag = "initialiseSecureChannelRequest"
      /\ tx.content[2] = Member("firstSequenceOf87", <<MadeAt(1)>>)
      /\ tx.content[3] = Member("sequenceOf88", <<MadeAt(2)>>)
      /\ \A j \in 1 .. n : tx.seq86[j] = MadeAt(j + 2)
  BY DEF BuildSegment, BInv, Builder, Progress, SessionOK, Packed, Building
<1>2. n \in Nat
  BY <1>1, LenProperties
<1>3. body.icv = Icv(s) /\ body \in Bodies
  BY <1>1, NextSegment
<1>4. tx' = [tx EXCEPT !.session = Advanced(s, "86", body),
                       !.protected = Append(tx.protected, [tag |-> "86", text |-> text]),
                       !.seq86 = Append(tx.seq86, e),
                       !.off = tx.off + chunk,
                       !.phase = phase]
  BY <1>1 DEF BuildSegment, Protects, Protect, TxRecord
<1> HIDE DEF body, e, text, chunk, phase
<1>5. /\ tx'.session = Advanced(s, "86", body) /\ tx'.phase = phase
      /\ tx'.content = tx.content /\ tx'.seq86 = Append(tx.seq86, e)
  BY <1>1, <1>4 DEF TxRecord
<1>6. phase \in {"segments", "wrap"}
  BY DEF phase
<1>7. \A m \in 1 .. n + 3 :
        MadeAt(m)' = IF m = n + 3 THEN e ELSE MadeAt(m)
  <2> SUFFICES ASSUME NEW m \in 1 .. n + 3
               PROVE  MadeAt(m)' = IF m = n + 3 THEN e ELSE MadeAt(m)
    OBVIOUS
  <2>1. "86" \in Tags /\ tx.phase # "idle" /\ Len(s.chain) + 1 = n + 3
    BY <1>1, <1>2 DEF Tags
  <2>2. CASE m = n + 3
    BY <1>1, <1>3, <1>5, <2>1, <2>2, MadeStays DEF e
  <2>3. CASE m # n + 3
    <3>1. m \in 1 .. Len(s.chain)
      BY <1>2, <2>1, <2>3
    <3>2. PICK k : k = Len(s.chain) + 1
      OBVIOUS
    <3> QED BY <1>1, <1>3, <1>5, <2>1, <2>3, <3>1, <3>2, MadeStays
  <2> QED BY <2>2, <2>3
<1>8. /\ Len(tx'.seq86) = n + 1
      /\ \A j \in 1 .. n : tx'.seq86[j] = tx.seq86[j]
      /\ tx'.seq86[n + 1] = e
  <2>1. /\ tx.seq86 \in Seq(MadeElements(s)) /\ tx'.seq86 = Append(tx.seq86, e)
        /\ n + 1 = Len(tx.seq86) + 1
    BY <1>1, <1>5
  <2>2. /\ Len(tx'.seq86) = n + 1 /\ tx'.seq86[n + 1] = e
        /\ \A i \in 1 .. n + 1 : i # n + 1 => tx'.seq86[i] = tx.seq86[i]
    BY <2>1, Appended
  <2> QED BY <1>2, <2>2
<1>9. ASSUME NEW j \in 1 .. n + 1 PROVE tx'.seq86[j] = MadeAt(j + 2)'
  <2>1. PICK m : m = j + 2
    OBVIOUS
  <2>2. m \in 1 .. n + 3 /\ (m = n + 3 <=> j = n + 1)
    BY <1>2, <2>1
  <2>3. CASE j = n + 1
    BY <1>7, <1>8, <2>1, <2>2, <2>3
  <2>4. CASE j # n + 1
    <3>1. j \in 1 .. n
      BY <1>2, <2>4
    <3>2. tx.seq86[j] = MadeAt(m)
      BY <1>1, <2>1, <3>1
    <3>3. MadeAt(m)' = MadeAt(m)
      BY <1>7, <2>2, <2>4
    <3> QED BY <1>8, <2>1, <3>1, <3>2, <3>3
  <2> QED BY <2>3, <2>4
<1>10. MadeAt(1)' = MadeAt(1) /\ MadeAt(2)' = MadeAt(2)
  <2>1. 1 \in 1 .. n + 3 /\ 2 \in 1 .. n + 3 /\ n + 3 # 1 /\ n + 3 # 2
    BY <1>2
  <2> QED BY <1>7, <2>1
<1>11. /\ tx'.content[2] = Member("firstSequenceOf87", <<MadeAt(1)>>)'
       /\ tx'.content[3] = Member("sequenceOf88", <<MadeAt(2)>>)'
  BY <1>1, <1>5, <1>10 DEF Member
<1> QED BY <1>1, <1>5, <1>6, <1>8, <1>9, <1>11 DEF Packed

\* What does not touch the session and the buffers leaves them packed.
LEMMA StaysPacked ==
  ASSUME Packed,
         tx'.session = tx.session, tx'.content = tx.content, tx'.seq86 = tx.seq86,
         \/ tx'.phase = tx.phase
         \/ tx'.phase = "failed"
         \/ tx.phase = "wrap" /\ tx'.phase = "done"
  PROVE  Packed'
<1>1. \A i : MadeAt(i)' = MadeAt(i)
  BY DEF MadeAt
<1>2. CASE tx'.phase = "failed"
  BY <1>2 DEF Packed, Building
<1>3. CASE tx'.phase # "failed"
  <2>1. /\ tx'.phase \in Building => tx.phase \in Building
        /\ tx'.phase = "configure" => tx.phase = "configure"
        /\ tx'.phase = "metadata" => tx.phase = "metadata"
        /\ tx'.phase \notin {"configure", "metadata"} =>
             tx.phase \notin {"configure", "metadata"}
        /\ tx'.phase # "configure" => tx.phase # "configure"
    BY <1>3 DEF Building
  <2>2. /\ tx'.content[2] = Member("firstSequenceOf87", <<MadeAt(1)>>)' <=>
           tx.content[2] = Member("firstSequenceOf87", <<MadeAt(1)>>)
        /\ tx'.content[3] = Member("sequenceOf88", <<MadeAt(2)>>)' <=>
           tx.content[3] = Member("sequenceOf88", <<MadeAt(2)>>)
    BY <1>1 DEF Member
  <2>3. (\A j \in 1 .. Len(tx.seq86) : tx.seq86[j] = MadeAt(j + 2)) =>
        (\A j \in 1 .. Len(tx'.seq86) : tx'.seq86[j] = MadeAt(j + 2)')
    BY <1>1
  <2> QED BY <2>1, <2>2, <2>3 DEF Packed
<1> QED BY <1>2, <1>3

\* A package that was sent, element by element.
LEMMA SentIs ==
  ASSUME BInv, Packed, sent # None
  PROVE  /\ Len(sent) = 4
         /\ sent[1].tag = "initialiseSecureChannelRequest"
         /\ sent[2] = Member("firstSequenceOf87", <<MadeAt(1)>>)
         /\ sent[3] = Member("sequenceOf88", <<MadeAt(2)>>)
         /\ sent[4] = Member("sequenceOf86", tx.seq86)
         /\ \A j \in 1 .. Len(tx.seq86) : tx.seq86[j] = MadeAt(j + 2)
<1>1. /\ tx.phase = "done" /\ Builder
      /\ sent = Append(tx.content, Member("sequenceOf86", tx.seq86))
  BY DEF BInv, Way
<1>2. /\ tx.content[1].tag = "initialiseSecureChannelRequest"
      /\ Len(tx.content) = 3
      /\ tx.content[2] = Member("firstSequenceOf87", <<MadeAt(1)>>)
      /\ tx.content[3] = Member("sequenceOf88", <<MadeAt(2)>>)
      /\ \A j \in 1 .. Len(tx.seq86) : tx.seq86[j] = MadeAt(j + 2)
  BY <1>1 DEF Packed, Building
<1>3. tx.content \in Seq(MembersOf(tx.session))
  BY <1>1 DEF Builder, MadePackages
<1> DEFINE last == Member("sequenceOf86", tx.seq86)
<1>4. /\ Len(sent) = 4 /\ sent[4] = last
      /\ sent[1] = tx.content[1] /\ sent[2] = tx.content[2] /\ sent[3] = tx.content[3]
  <2>1. /\ sent = Append(tx.content, last) /\ 4 = Len(tx.content) + 1
        /\ tx.content \in Seq(MembersOf(tx.session))
    BY <1>1, <1>2, <1>3
  <2> HIDE DEF last
  <2>2. /\ Len(sent) = 4 /\ sent[4] = last
        /\ \A i \in 1 .. 4 : i # 4 => sent[i] = tx.content[i]
    BY <2>1, Appended
  <2> QED BY <2>2
<1> QED BY <1>2, <1>4

\* Group by group: how many elements, and which.
LEMMA GroupsAre ==
  ASSUME BInv, Packed, rx.calls > 0, NEW next \in DOMAIN ElementTag
  PROVE  LET p == Place[next]
             n == Len(sent[p].elements)
         IN  /\ p \in 2 .. 4 /\ Len(sent) = 4
             /\ sent[p].tag = next
             /\ n = IF p = 4 THEN Len(tx.seq86) ELSE 1
             /\ \A j \in 1 .. n : sent[p].elements[j] = MadeAt(p - 2 + j)
<1>1. sent # None
  BY DEF BInv, Receiver
<1>2. /\ Len(sent) = 4
      /\ sent[2] = Member("firstSequenceOf87", <<MadeAt(1)>>)
      /\ sent[3] = Member("sequenceOf88", <<MadeAt(2)>>)
      /\ sent[4] = Member("sequenceOf86", tx.seq86)
      /\ \A j \in 1 .. Len(tx.seq86) : tx.seq86[j] = MadeAt(j + 2)
  BY <1>1, SentIs
<1>3. next \in {"firstSequenceOf87", "sequenceOf88", "sequenceOf86"}
  BY DEF ElementTag
<1>4. CASE next = "firstSequenceOf87"
  <2>1. Place[next] = 2 /\ 2 - 2 + 1 = 1
    BY <1>4 DEF Place
  <2>2. /\ sent[2].tag = next /\ Len(sent[2].elements) = 1
        /\ sent[2].elements[1] = MadeAt(1)
    BY <1>2, <1>4 DEF Member
  <2> QED BY <1>2, <2>1, <2>2
<1>5. CASE next = "sequenceOf88"
  <2>1. Place[next] = 3 /\ 3 - 2 + 1 = 2
    BY <1>5 DEF Place
  <2>2. /\ sent[3].tag = next /\ Len(sent[3].elements) = 1
        /\ sent[3].elements[1] = MadeAt(2)
    BY <1>2, <1>5 DEF Member
  <2> QED BY <1>2, <2>1, <2>2
<1>6. CASE next = "sequenceOf86"
  <2>1. Place[next] = 4
    BY <1>6 DEF Place
  <2>2. sent[4].tag = next /\ sent[4].elements = tx.seq86
    BY <1>2, <1>6 DEF Member
  <2>3. ASSUME NEW j \in 1 .. Len(tx.seq86) PROVE tx.seq86[j] = MadeAt(4 - 2 + j)
    <3>1. 4 - 2 + j = j + 2
      BY <2>3, ReceiverKnows
    <3> QED BY <1>2, <2>3, <3>1
  <2> QED BY <1>2, <2>1, <2>2, <2>3
<1> QED BY <1>3, <1>4, <1>5, <1>6

-----------------------------------------------------------------------------
(* The receiver *)

\* While the builder works there is nobody to be in step with it.
LEMMA BuilderAlone ==
  ASSUME BInv, AsSent, tx.phase # "done", Packed', UNCHANGED <<damage, rx>>,
         wire' = sent'
  PROVE  Intact'
<1>1. rx.calls = 0
  BY NotSentYet
<1> QED BY <1>1 DEF Intact, AsSent, InStep, Undisturbed

\* The receiver leaves the package as it is.
LEMMA ReceiverAlone ==
  ASSUME Packed, AsSent, UNCHANGED <<tx, sent, wire, damage>>, InStep'
  PROVE  Intact'
<1>1. Packed'
  BY StaysPacked
<1> QED BY <1>1 DEF Intact, AsSent

\* What an undisturbed call knows: the package is as it was sent, the receiver
\* has the builder's key, and its chain is the beginning of the builder's.
LEMMA UndisturbedIs ==
  ASSUME BInv, Packed, AsSent, Undisturbed, rx.phase \in {"open", "elements"}
  PROVE  /\ rx.calls > 0 /\ wire = sent /\ sent # None
         /\ rx.next \in DOMAIN ElementTag
         /\ rx.session.key = tx.session.key
         /\ Follows(rx.session, tx.session)
         /\ RxRecord
<1>1. rx.calls > 0 /\ wire # None /\ rx.next \in DOMAIN ElementTag /\ RxRecord
  BY DEF BInv, Receiver
<1>2. sent # None /\ Follows(rx.session, tx.session)
  BY <1>1 DEF BInv, Receiver
<1> QED BY <1>1, <1>2 DEF AsSent, Undisturbed

\* The call begins before the first protected TLV, with a chain of none.
LEMMA RecoverInStep ==
  ASSUME BInv, Packed, AsSent, NEW k \in Keys, Recover(k)
  PROVE  Intact'
<1>1. /\ rx.phase = "idle" /\ wire # None /\ UNCHANGED <<tx, sent, wire, damage>>
      /\ RxRecord /\ sent # None
  BY DEF Recover, BInv, Receiver, Way
<1>2. SUFFICES ASSUME Undisturbed'
               PROVE  InStep'
  BY <1>1, ReceiverAlone DEF InStep
<1>3. rx.calls \in Nat /\ rx'.calls = rx.calls + 1
  BY <1>1, BoundsAssumption DEF Recover, RxRecord
<1>4. rx.calls = 0 /\ damage = 0
  BY <1>1, <1>2, <1>3 DEF Undisturbed
<1>5. HasMember(1, "initialiseSecureChannelRequest")
  <2>1. wire = sent
    BY <1>1, <1>4 DEF AsSent
  <2>2. Len(sent) = 4 /\ sent[1].tag = "initialiseSecureChannelRequest"
    BY <1>1, SentIs
  <2> QED BY <2>1, <2>2 DEF HasMember
<1>6. /\ rx'.phase = "open" /\ rx'.session = InitSession(k)
      /\ rx'.next = "firstSequenceOf87" /\ rx'.pos = 2
  BY <1>1, <1>4, <1>5 DEF Recover, RxRecord
<1>7. rx'.session.chain = <<>> /\ Len(rx'.session.chain) = 0
  BY <1>6, FreshIsOK
<1> QED BY <1>6, <1>7 DEF InStep, Place

\* Every group is found where it was put.
LEMMA OpenMemberInStep ==
  ASSUME BInv, Intact, OpenMember
  PROVE  Intact'
<1>1. /\ rx.phase = "open" /\ UNCHANGED <<tx, sent, wire, damage>>
      /\ RxRecord /\ Packed /\ AsSent /\ InStep
  BY DEF OpenMember, BInv, Receiver, Intact
<1>2. /\ rx'.session = rx.session /\ rx'.calls = rx.calls
  BY <1>1 DEF OpenMember, RecoverReturns, RxRecord
<1>3. SUFFICES ASSUME Undisturbed'
               PROVE  InStep'
  BY <1>1, ReceiverAlone DEF InStep
<1>4. Undisturbed
  BY <1>1, <1>2, <1>3 DEF Undisturbed
<1>5. /\ rx.calls > 0 /\ wire = sent /\ rx.next \in DOMAIN ElementTag
  BY <1>1, <1>4, UndisturbedIs
<1>6. rx.pos = Place[rx.next] /\ Len(rx.session.chain) = rx.pos - 2
  BY <1>1, <1>4 DEF InStep
<1> DEFINE n == Len(sent[rx.pos].elements)
<1>7. /\ rx.pos \in 2 .. 4 /\ Len(sent) = 4 /\ sent[rx.pos].tag = rx.next
      /\ n \in Nat
  <2>1. Len(tx.seq86) \in Nat
    BY <1>5, ReceiverKnows
  <2> QED BY <1>1, <1>5, <1>6, <2>1, GroupsAre
<1>8. HasMember(rx.pos, rx.next) /\ (rx.next = "sequenceOf86" => rx.pos = Len(wire))
  BY <1>5, <1>6, <1>7 DEF HasMember, Place
<1>9. rx' = [rx EXCEPT !.phase = "elements", !.elem = 1]
  BY <1>8 DEF OpenMember
<1>10. /\ rx'.phase = "elements" /\ rx'.elem = 1 /\ rx'.pos = rx.pos
       /\ rx'.next = rx.next
  BY <1>1, <1>9 DEF RxRecord
<1>11. Len(rx'.session.chain) = rx'.pos - 3 + rx'.elem /\ 1 <= n + 1
  BY <1>2, <1>6, <1>7, <1>10
<1> QED BY <1>1, <1>6, <1>10, <1>11 DEF InStep

\* The element at hand is the one made of the TLV after those the receiver has
\* accepted, so its tag is the one expected and its MAC matches.
LEMMA ElementMatches ==
  ASSUME BInv, Intact, Undisturbed, rx.phase = "elements",
         rx.elem <= Len(Elements)
  PROVE  LET e == Elements[rx.elem]
             tag == ElementTag[rx.next]
         IN  e.tag = tag /\ e.body # TooShort /\ e.mac = Mac(rx.session, tag, e.body)
<1> DEFINE c == tx.session.chain
           r == rx.session.chain
           m == Len(r) + 1
           e == Elements[rx.elem]
           tag == ElementTag[rx.next]
           p == rx.pos
<1>1. /\ Packed /\ AsSent /\ InStep
      /\ rx.elem \in Nat /\ rx.elem > 0
  BY DEF Intact, BInv, Receiver, RxRecord
<1>2. /\ rx.calls > 0 /\ wire = sent /\ rx.next \in DOMAIN ElementTag
      /\ rx.session.key = tx.session.key /\ Follows(rx.session, tx.session)
  BY <1>1, UndisturbedIs
<1>3. p = Place[rx.next] /\ Len(r) = p - 3 + rx.elem
  BY <1>1 DEF InStep
<1>4. /\ Len(c) = Len(tx.seq86) + 2 /\ Len(tx.seq86) \in Nat /\ ChainInOrder
      /\ Len(r) \in Nat /\ tx.session \in ScpSessions /\ rx.session \in ScpSessions
  BY <1>2, ReceiverKnows DEF SessionOK
<1>5. /\ p \in 2 .. 4
      /\ Len(Elements) = IF p = 4 THEN Len(tx.seq86) ELSE 1
      /\ \A j \in 1 .. Len(Elements) : Elements[j] = MadeAt(p - 2 + j)
  BY <1>1, <1>2, <1>3, GroupsAre DEF Elements
<1>6. rx.elem \in 1 .. Len(Elements) /\ m = p - 2 + rx.elem
  BY <1>1, <1>3, <1>4, <1>5
<1>7. m \in 1 .. Len(c) /\ e = MadeAt(m)
  <2>1. e = MadeAt(m)
    BY <1>5, <1>6
  <2>2. rx.elem \in 1 .. (IF p = 4 THEN Len(tx.seq86) ELSE 1)
    BY <1>5, <1>6
  <2>3. m \in 1 .. Len(c)
    BY SMTT(30), <1>4, <1>5, <1>6, <2>2
  <2> QED BY <2>1, <2>3
<1>8. c \in Seq(Tlvs) /\ r \in Seq(Tlvs) /\ c[m] \in Tlvs
  BY <1>4, <1>7, ElementOfSeq DEF ScpSessions
<1>9. e.tag = c[m].tag /\ e.body = c[m].body
      /\ e.mac = [key |-> tx.session.key, over |-> SubSeq(c, 1, m)]
  BY <1>7 DEF MadeAt
<1>10. c[m].tag = tag
  <2>1. c[m].tag = TagAt(m)
    BY <1>4, <1>7 DEF ChainInOrder
  <2>2. CASE rx.next = "firstSequenceOf87"
    BY <1>3, <1>5, <1>6, <2>1, <2>2 DEF Place, ElementTag, TagAt
  <2>3. CASE rx.next = "sequenceOf88"
    BY <1>3, <1>5, <1>6, <2>1, <2>3 DEF Place, ElementTag, TagAt
  <2>4. CASE rx.next = "sequenceOf86"
    <3>1. p = 4 /\ m > 2
      BY <1>3, <1>6, <2>4 DEF Place
    <3> QED BY <2>1, <2>4, <3>1 DEF ElementTag, TagAt
  <2> QED BY <1>2, <2>2, <2>3, <2>4 DEF ElementTag
<1>11. e.body # TooShort
  <2>1. e.body \in Bodies
    BY <1>8, <1>9 DEF Tlvs
  <2> QED BY <2>1, ForgeriesAssumption
<1>12. SubSeq(c, 1, m) = Append(r, c[m])
  <2>1. \A i \in 1 .. m : c[i] \in Tlvs
    BY <1>4, <1>7, <1>8, ElementOfSeq
  <2>2. /\ SubSeq(c, 1, m) \in Seq(Tlvs) /\ Len(SubSeq(c, 1, m)) = m
        /\ \A i \in 1 .. m : SubSeq(c, 1, m)[i] = c[i]
    BY <1>4, <1>7, <2>1, SubSeqProperties
  <2>3. /\ Append(r, c[m]) \in Seq(Tlvs) /\ Len(Append(r, c[m])) = m
        /\ \A i \in 1 .. Len(r) : Append(r, c[m])[i] = r[i]
        /\ Append(r, c[m])[m] = c[m]
    BY <1>8, AppendProperties
  <2>4. \A i \in 1 .. Len(r) : r[i] = c[i]
    BY <1>2 DEF Follows
  <2>5. \A i \in 1 .. m : SubSeq(c, 1, m)[i] = Append(r, c[m])[i]
    BY <1>4, <2>2, <2>3, <2>4
  <2> QED BY <2>2, <2>3, <2>5, SeqEqual
<1>13. c[m] = [tag |-> tag, body |-> e.body]
  BY <1>8, <1>9, <1>10 DEF Tlvs
<1>14. e.mac = Mac(rx.session, tag, e.body)
  BY <1>2, <1>9, <1>12, <1>13 DEF Mac, Chained
<1> QED BY <1>9, <1>10, <1>11, <1>14

\* One element further, one TLV longer.
LEMMA TakeElementInStep ==
  ASSUME BInv, Intact, TakeElement
  PROVE  Intact'
<1> DEFINE e == Elements[rx.elem]
           tag == ElementTag[rx.next]
           un == IF tag = "88" THEN UnprotectMacOnly(rx.session, e, tag)
                               ELSE Unprotect(rx.session, e, tag)
           g == IF tag = "86" THEN rx.g \o un.text ELSE rx.g
           log == Append(rx.accepted, [tag |-> tag, text |-> un.text])
           elem == rx.elem + 1
           session == un.session
           taken == [rx EXCEPT !.session = session, !.elem = elem, !.g = g, !.accepted = log]
<1>1. /\ rx.phase = "elements" /\ rx.elem <= Len(Elements)
      /\ UNCHANGED <<tx, sent, wire, damage>>
      /\ RxRecord /\ Packed /\ AsSent /\ InStep /\ rx.elem \in Nat /\ rx.elem > 0
  BY DEF TakeElement, BInv, Receiver, RxRecord, Intact
<1>2. \/ RecoverReturns(-2)
      \/ un.ret # 0 /\ RecoverReturns(un.ret)
      \/ un.ret = 0 /\ rx' = taken
  BY <1>1 DEF TakeElement
<1>3. un.ret = 0 => /\ session = Advanced(rx.session, tag, e.body)
                    /\ e.body # TooShort /\ e.mac = Mac(rx.session, tag, e.body)
  BY DEF Unprotect, UnprotectMacOnly, Refusal, Accepted
<1>4. Advanced(rx.session, tag, e.body).key = rx.session.key
  <2>1. rx.session \in ScpSessions
    BY <1>1, ReceiverKnows DEF SessionOK, BInv, Receiver
  <2> QED BY <2>1 DEF Advanced, ScpSessions
<1>5. rx'.calls = rx.calls /\ rx'.session.key = rx.session.key
  <2> HIDE DEF e, tag, un, g, log, elem
  <2>1. CASE rx'.session = rx.session /\ rx'.calls = rx.calls
    BY <2>1
  <2>2. CASE un.ret = 0 /\ rx' = taken
    <3>1. rx'.session = session /\ rx'.calls = rx.calls
      BY <1>1, <2>2 DEF RxRecord
    <3> QED BY <1>3, <1>4, <2>2, <3>1
  <2>3. ASSUME NEW ret, RecoverReturns(ret)
        PROVE  rx'.session = rx.session /\ rx'.calls = rx.calls
    BY <1>1, <2>3 DEF RecoverReturns, RxRecord
  <2> QED BY <1>2, <2>1, <2>2, <2>3
<1>6. SUFFICES ASSUME Undisturbed'
               PROVE  InStep'
  BY <1>1, ReceiverAlone DEF InStep
<1>7. Undisturbed
  BY <1>1, <1>5, <1>6 DEF Undisturbed
<1>8. e.tag = tag /\ e.body # TooShort /\ e.mac = Mac(rx.session, tag, e.body)
  BY <1>1, <1>7, ElementMatches
<1>9. un.ret = 0
  BY <1>8 DEF Unprotect, UnprotectMacOnly, Accepted
<1>10. rx' = taken
  BY <1>1, <1>8, <1>9 DEF TakeElement
<1>11. /\ rx.calls > 0 /\ wire = sent /\ rx.next \in DOMAIN ElementTag
  BY <1>1, <1>7, UndisturbedIs
<1>12. tag \in Tags
  BY <1>11 DEF Tags, ElementTag
<1>13. e \in MadeElements(tx.session)
  <2>1. wire \in Seq(MembersOf(tx.session)) /\ rx.pos \in 1 .. Len(wire)
    BY <1>1 DEF BInv, Way, Receiver, MadePackages
  <2>2. wire[rx.pos] \in MembersOf(tx.session)
    BY <2>1, ElementOfSeq
  <2>3. Elements \in Seq(MadeElements(tx.session))
    BY <2>2 DEF Elements, MembersOf
  <2>4. rx.elem \in 1 .. Len(Elements)
    BY <1>1, <2>3, LenProperties
  <2> QED BY <2>3, <2>4, ElementOfSeq
<1>14. Len(session.chain) = Len(rx.session.chain) + 1
  <2>1. /\ e.body \in Bodies
        /\ SessionOK(Advanced(rx.session, tag, e.body),
                     Append(rx.accepted, [tag |-> tag, text |-> e.body.text]))
        /\ Len(Append(rx.accepted, [tag |-> tag, text |-> e.body.text])) =
             Len(rx.accepted) + 1
    BY <1>8, <1>11, <1>12, <1>13, AcceptedIsNext
  <2>2. Len(rx.accepted) = Len(rx.session.chain)
    BY <1>11, ReceiverKnows
  <2> HIDE DEF e, tag
  <2> QED BY <1>3, <1>9, <2>1, <2>2 DEF SessionOK, Logs
<1> HIDE DEF e, tag, un, g, log, elem, session
<1>15. /\ rx'.phase = "elements" /\ rx'.session = session /\ rx'.elem = elem
       /\ rx'.pos = rx.pos /\ rx'.next = rx.next
  BY <1>1, <1>10 DEF RxRecord
<1>16. /\ rx.pos = Place[rx.next] /\ Len(rx.session.chain) = rx.pos - 3 + rx.elem
  BY <1>1, <1>7 DEF InStep
<1>17. /\ rx.pos \in 2 .. 4 /\ Len(rx.session.chain) \in Nat
       /\ Len(Elements) \in Nat /\ Elements = sent[rx.pos].elements
  <2>1. Len(rx.session.chain) \in Nat /\ Len(tx.seq86) \in Nat
    BY <1>11, ReceiverKnows
  <2>2. Elements = sent[rx.pos].elements
    BY <1>11 DEF Elements
  <2>3. /\ rx.pos \in 2 .. 4
        /\ Len(sent[rx.pos].elements) = IF rx.pos = 4 THEN Len(tx.seq86) ELSE 1
    BY <1>1, <1>11, <1>16, GroupsAre
  <2> QED BY <2>1, <2>2, <2>3
<1>18. /\ Len(rx'.session.chain) = rx.pos - 3 + rx'.elem
       /\ rx'.elem <= Len(sent[rx.pos].elements) + 1
  <2>1. /\ rx.elem \in Nat /\ rx.elem <= Len(Elements) /\ rx'.elem = rx.elem + 1
        /\ Len(rx'.session.chain) = Len(rx.session.chain) + 1
    BY <1>1, <1>14, <1>15 DEF elem
  <2>2. Len(Elements) = Len(sent[rx.pos].elements)
    BY <1>17
  <2>3. Len(rx'.session.chain) = rx.pos - 3 + rx'.elem
    BY SMTT(30), <1>16, <1>17, <2>1
  <2>4. rx'.elem <= Len(sent[rx.pos].elements) + 1
    BY SMTT(30), <1>17, <2>1, <2>2
  <2> QED BY <2>3, <2>4
<1> QED BY <1>1, <1>15, <1>16, <1>18 DEF InStep

\* The next group follows, and behind the last one the whole UPP has been
\* collected.
LEMMA CloseMemberInStep ==
  ASSUME BInv, Intact, CloseMember
  PROVE  Intact'
<1>1. /\ rx.phase = "elements" /\ rx.elem > Len(Elements)
      /\ UNCHANGED <<tx, sent, wire, damage>>
      /\ RxRecord /\ Packed /\ AsSent /\ InStep /\ rx.elem \in Nat
  BY DEF CloseMember, BInv, Receiver, RxRecord, Intact
<1>2. rx'.session = rx.session /\ rx'.calls = rx.calls
  BY <1>1 DEF CloseMember, CloseSequenceOf86, RecoverReturns, RxRecord
<1>3. SUFFICES ASSUME Undisturbed'
               PROVE  InStep'
  BY <1>1, ReceiverAlone DEF InStep
<1>4. Undisturbed
  BY <1>1, <1>2, <1>3 DEF Undisturbed
<1>5. rx.calls > 0 /\ rx.calls = 1 /\ wire = sent /\ sent # None
      /\ rx.next \in DOMAIN ElementTag
  BY <1>1, <1>4, UndisturbedIs DEF Undisturbed
<1>6. /\ rx.pos = Place[rx.next] /\ Len(rx.session.chain) = rx.pos - 3 + rx.elem
      /\ rx.elem <= Len(Elements) + 1
  BY <1>1, <1>4, <1>5 DEF InStep, Elements
<1>7. /\ Len(tx.seq86) \in Nat /\ Len(tx.seq86) > 0
      /\ tx.upp \in Seq(Nat) /\ Len(tx.upp) \in Nat
      /\ Len(tx.upp) <= Len(tx.seq86) * SegmentSize
      /\ Len(rx.accepted) = Len(rx.session.chain) /\ Collects
  BY <1>5, ReceiverKnows
<1>8. Len(Elements) = IF rx.pos = 4 THEN Len(tx.seq86) ELSE 1
  BY <1>1, <1>5, <1>6, GroupsAre DEF Elements
<1>9. rx.elem = Len(Elements) + 1
  BY <1>1, <1>6, <1>7, <1>8
<1>10. CASE rx.next = "firstSequenceOf87"
  <2>1. rx.pos = 2 /\ Len(rx.session.chain) = 1
    BY <1>6, <1>8, <1>9, <1>10 DEF Place
  <2>2. rx' = [rx EXCEPT !.phase = "open", !.next = "sequenceOf88", !.pos = rx.pos + 1]
    BY <1>1, <1>10 DEF CloseMember
  <2>3. /\ rx'.phase = "open" /\ rx'.next = "sequenceOf88" /\ rx'.pos = 3
    BY <1>1, <2>1, <2>2 DEF RxRecord
  <2> QED BY <1>2, <2>1, <2>3 DEF InStep, Place
<1>11. CASE rx.next = "sequenceOf88"
  <2>1. rx.pos = 3 /\ Len(rx.session.chain) = 2
    BY <1>6, <1>8, <1>9, <1>11 DEF Place
  <2>2. Len(sent) = 4 /\ sent[4].tag = "sequenceOf86"
    BY <1>1, <1>5, SentIs DEF Member
  <2>3. AfterSequenceOf88 = 4
    BY <1>5, <2>1, <2>2 DEF AfterSequenceOf88, HasMember
  <2>4. /\ rx'.phase = "open" /\ rx'.next = "sequenceOf86" /\ rx'.pos = 4
    BY <1>1, <1>11, <2>3 DEF CloseMember, RxRecord
  <2> QED BY <1>2, <2>1, <2>4 DEF InStep, Place
<1>12. CASE rx.next = "sequenceOf86"
  <2> DEFINE n == Len(tx.seq86)
  <2>1. rx.pos = 4 /\ Len(rx.accepted) - 2 = n /\ Len(Elements) = n
    BY <1>6, <1>7, <1>8, <1>9, <1>12 DEF Place
  <2>2. Elements # <<>>
    BY <1>7, <2>1, EmptySeq
  <2>3. RecoverReturns(0)
    BY <1>1, <1>12, <2>2 DEF CloseMember, CloseSequenceOf86
  <2>4. rx'.phase = "done" /\ rx'.ret = 0 /\ rx'.upp = rx.g
    BY <1>1, <2>3 DEF RecoverReturns, RxRecord
  <2>5. End(n) = Len(tx.upp)
    BY <1>7, SegmentSizeAssumption DEF End
  <2>6. rx.g = SubSeq(tx.upp, 1, Len(tx.upp))
    BY <1>5, <1>7, <2>1, <2>5 DEF Collects
  <2>7. rx.g = tx.upp
    BY <1>7, <2>6, SubSeqFull
  <2> QED BY <1>1, <2>4, <2>7 DEF InStep
<1> QED BY <1>5, <1>10, <1>11, <1>12 DEF ElementTag

\* Only a failing primitive ends an undisturbed call early, with -2.
LEMMA RecoverFailsInStep ==
  ASSUME BInv, Intact, RecoverFails
  PROVE  Intact'
<1>1. RxRecord /\ Packed /\ AsSent
  BY DEF BInv, Receiver, Intact
<1>2. rx'.phase = "done" /\ rx'.ret = -2 /\ MemoryMayFail
  BY <1>1 DEF RecoverFails, RecoverReturns, RxRecord
<1>3. InStep'
  BY <1>2 DEF InStep
<1> QED BY <1>1, <1>3, ReceiverAlone DEF RecoverFails

-----------------------------------------------------------------------------
(* The invariant *)

\* Nothing is packed, sent or received yet.
LEMMA InitIntact == Init => Intact
BY DEF Init, Intact, Packed, Building, AsSent, InStep, Undisturbed

\* What happens on the way happens between two calls.
LEMMA WayIntact ==
  ASSUME BInv, Intact, Damage \/ Redelivered
  PROVE  Intact'
<1>1. Packed /\ RxRecord /\ UNCHANGED <<tx, sent>> /\ damage \in Nat
  BY BoundsAssumption DEF Damage, Redelivered, BInv, Way, Receiver, Intact
<1>2. rx'.phase = "idle"
  BY <1>1 DEF Damage, Redelivered, RxRecord
<1>3. damage' = 0 => wire' = sent'
  BY <1>1 DEF Damage, Redelivered
<1>4. Packed'
  BY <1>1, StaysPacked
<1> QED BY <1>2, <1>3, <1>4 DEF Intact, AsSent, InStep

\* The package is packed and sent.
LEMMA BuilderIntact ==
  ASSUME BInv, Intact,
         \/ \E k \in Keys, upp \in Upps, metadata \in Metadatas : Build(k, upp, metadata)
         \/ BuildConfigure \/ BuildMetadata \/ BuildSegment \/ BuildDone \/ BuildFails
  PROVE  Intact'
<1>1. Packed /\ AsSent /\ TxRecord
  BY DEF Intact, BInv, Builder
<1>2. tx.phase # "done"
  BY DEF Build, BuildConfigure, BuildMetadata, BuildSegment, BuildDone, BuildFails
<1>3. UNCHANGED <<damage, rx>> /\ wire' = sent'
  BY <1>2, NotSentYet DEF Build, BuildConfigure, BuildMetadata, BuildSegment, BuildDone,
     BuildFails
<1>4. CASE BuildDone \/ BuildFails
  <2>1. /\ tx'.session = tx.session /\ tx'.content = tx.content /\ tx'.seq86 = tx.seq86
        /\ tx'.phase = "failed" \/ (tx.phase = "wrap" /\ tx'.phase = "done")
    BY <1>1, <1>4 DEF BuildDone, BuildFails, BuildReturns, TxRecord
  <2> QED BY <1>1, <1>2, <1>3, <2>1, StaysPacked, BuilderAlone
<1> QED BY <1>1, <1>2, <1>3, <1>4, BuildPacks, BuildConfigurePacks, BuildMetadataPacks,
           BuildSegmentPacks, BuilderAlone

\* Every step of Bpp keeps package, way and receiver intact.
LEMMA NextIntact == BInv /\ Intact /\ [Next]_vars => Intact'
<1> SUFFICES ASSUME BInv, Intact, [Next]_vars PROVE Intact'
  OBVIOUS
<1>1. CASE UNCHANGED vars
  <2>1. Packed /\ AsSent /\ InStep'
    BY <1>1 DEF vars, Intact, InStep, Undisturbed
  <2> QED BY <1>1, <2>1, ReceiverAlone DEF vars
<1>2. ASSUME NEW k \in Keys, Recover(k) PROVE Intact'
  BY <1>2, RecoverInStep DEF Intact
<1> QED BY <1>1, <1>2, BuilderIntact, WayIntact, OpenMemberInStep, TakeElementInStep,
           CloseMemberInStep, RecoverFailsInStep DEF Next

-----------------------------------------------------------------------------
(* The theorem *)

\* A package that arrives as it was sent, under the same keys, is recovered
\* whole, or a primitive failed and the call says that it was not read: never
\* is it refused, whatever the UPP, the metadata and the segment size.
THEOREM IntactRecovered == Spec => []IntactRecovers
<1>1. Intact => IntactRecovers
  BY DEF Intact, InStep, Undisturbed, IntactRecovers
<1> QED BY <1>1, InitIntact, NextIntact, BppInvariant, PTL DEF Spec
=============================================================================
