-------------------------------- MODULE Bpp --------------------------------
(***************************************************************************)
(* The Bound Profile Package, src/rsp_bpp.c: rsp_bpp_build protects it TLV *)
(* by TLV under one SCP03t session, the package travels, rsp_bpp_recover   *)
(* walks what arrives under another session.  A step is the work one call  *)
(* does for one TLV, so that a failure between two TLVs, which leaves the  *)
(* session where it was, is a behaviour of its own.                        *)
(*                                                                         *)
(* A package is the sequence of its outer SEQUENCE's members.  On the way  *)
(* members and elements are lost, repeated, exchanged, altered or cut.     *)
(***************************************************************************)
EXTENDS Scp03t, SequencesExt

CONSTANTS
  Upps,              \* profile packages, sequences of octets
  Metadatas,         \* encoded StoreMetadataRequests
  FittingMetadatas,  \* those no longer than RSP_BPP_MAX_SEGMENT_PLAINTEXT
  SegmentSize,       \* RSP_BPP_MAX_SEGMENT_PLAINTEXT
  Configure,         \* the encoded ConfigureISDPRequest
  None,              \* nothing
  MemoryMayFail,     \* an allocation or a primitive may fail
  MaxDamage,         \* bound: what goes wrong with one delivery
  MaxRecoveries      \* bound: calls of rsp_bpp_recover on one session

ASSUME SegmentSizeAssumption == SegmentSize \in Nat \ {0}

ASSUME InputsAssumption ==
  /\ Upps \subseteq Seq(Nat)
  /\ FittingMetadatas \subseteq Metadatas
  /\ MemoryMayFail \in BOOLEAN

ASSUME BoundsAssumption == MaxDamage \in Nat /\ MaxRecoveries \in Nat \ {0}

\* What a TLV that was MACed consists of.
Tags == {"86", "87", "88"}
Texts == {Configure} \cup Metadatas \cup Seq(Nat \cup {Garbled})
Bodies == [icv : {NoIcv} \cup [key : Keys, counter : Nat \ {0}], text : Texts]
Tlvs == [tag : Tags, body : Bodies]

\* Octets that are no TLV value and octets that are no MAC are neither.
ASSUME ForgeriesAssumption ==
  /\ TooShort \notin Bodies
  /\ NoMac \notin [key : Keys, over : Seq(Tlvs)]

VARIABLES
  tx,        \* the builder: phase, session, arguments, progress
  sent,      \* *out of rsp_bpp_build, or None
  wire,      \* what reaches rsp_bpp_recover, or None
  damage,    \* how often wire was damaged since it was sent
  rx         \* the receiver: phase, session, progress, *upp

vars == <<tx, sent, wire, damage, rx>>

ElementTag ==
  [firstSequenceOf87 |-> "87", sequenceOf88 |-> "88", sequenceOf86 |-> "86"]

Member(tag, elements) == [tag |-> tag, elements |-> elements]

Init ==
  /\ tx = [phase |-> "idle", session |-> None, upp |-> None, metadata |-> None,
           off |-> 0, content |-> <<>>, seq86 |-> <<>>, protected |-> <<>>]
  /\ sent = None
  /\ wire = None
  /\ damage = 0
  /\ rx = [phase |-> "idle", session |-> None, calls |-> 0, next |-> None,
           pos |-> 1, elem |-> 1, g |-> <<>>, accepted |-> <<>>,
           ret |-> None, upp |-> None]

-----------------------------------------------------------------------------
(* rsp_bpp_build *)

BuildReturns(phase) == tx' = [tx EXCEPT !.phase = phase]

\* Called on a fresh session; an empty UPP is refused at once, before the
\* session is used.
Build(k, upp, metadata) ==
  /\ tx.phase = "idle"
  /\ tx' = [tx EXCEPT !.phase = IF upp = <<>> THEN "failed" ELSE "configure",
                      !.session = InitSession(k),
                      !.upp = upp, !.metadata = metadata,
                      !.content = <<Member("initialiseSecureChannelRequest", <<>>)>>]
  /\ UNCHANGED <<sent, wire, damage, rx>>

\* protected is a history: the properties read it, the code has no such thing.
Protects(p, tag, text) ==
  [tx EXCEPT !.session = p.session,
             !.protected = Append(@, [tag |-> tag, text |-> text])]

BuildConfigure ==
  /\ tx.phase = "configure"
  /\ LET p == Protect(tx.session, Configure, "87")
     IN  tx' = [Protects(p, "87", Configure) EXCEPT
                  !.phase = "metadata",
                  !.content = Append(@, Member("firstSequenceOf87", <<p.element>>))]
  /\ UNCHANGED <<sent, wire, damage, rx>>

\* One '88' TLV holds the metadata, or the call fails.
BuildMetadata ==
  /\ tx.phase = "metadata"
  /\ LET p == ProtectMacOnly(tx.session, tx.metadata, "88") IN
     \/ /\ tx.metadata \notin FittingMetadatas
        /\ BuildReturns("failed")
     \/ /\ tx.metadata \in FittingMetadatas
        /\ tx' = [Protects(p, "88", tx.metadata) EXCEPT
                    !.phase = "segments",
                    !.content = Append(@, Member("sequenceOf88", <<p.element>>))]
  /\ UNCHANGED <<sent, wire, damage, rx>>

\* Mutant: a segment one octet longer than a card has to take.
ChunkTooLong(left) == IF left > SegmentSize + 1 THEN SegmentSize ELSE left

Chunk(left) == IF left > SegmentSize THEN SegmentSize ELSE left

MoreSegments(off) == off < Len(tx.upp)

\* One round of the do/while loop.
BuildSegment ==
  /\ tx.phase = "segments"
  /\ LET chunk == Chunk(Len(tx.upp) - tx.off)
         text == SubSeq(tx.upp, tx.off + 1, tx.off + chunk)
         p == Protect(tx.session, text, "86")
     IN  tx' = [Protects(p, "86", text) EXCEPT
                  !.seq86 = Append(@, p.element),
                  !.off = @ + chunk,
                  !.phase = IF MoreSegments(tx.off + chunk) THEN "segments" ELSE "wrap"]
  /\ UNCHANGED <<sent, wire, damage, rx>>

\* The package is handed over; from here the network has a copy of it.
BuildDone ==
  /\ tx.phase = "wrap"
  /\ BuildReturns("done")
  /\ sent' = Append(tx.content, Member("sequenceOf86", tx.seq86))
  /\ wire' = sent'
  /\ UNCHANGED <<damage, rx>>

\* An allocation, a cipher or the signature fails.  After rsp_protect and
\* before its TLV is appended is the same to everybody as after both.
BuildFails ==
  /\ MemoryMayFail
  /\ tx.phase \in {"configure", "metadata", "segments", "wrap"}
  /\ BuildReturns("failed")
  /\ UNCHANGED <<sent, wire, damage, rx>>

-----------------------------------------------------------------------------
(* The way the package takes, external to the library *)

\* A sequence with one entry lost, repeated, or exchanged with its neighbour.
Disordered(q) ==
  {RemoveAt(q, i) : i \in DOMAIN q}
    \cup {InsertAt(q, i, q[i]) : i \in DOMAIN q}
    \cup {[q EXCEPT ![i] = q[i + 1], ![i + 1] = q[i]] : i \in 1 .. Len(q) - 1}

\* One element with an octet changed, a length cut, or a tag changed.
Altered(e) ==
  {[e EXCEPT !.mac = NoMac], [e EXCEPT !.body = TooShort]}
    \cup {[e EXCEPT !.tag = t] : t \in {"86", "87", "88"} \ {e.tag}}

Damage ==
  /\ wire # None
  /\ rx.phase = "idle"
  /\ damage < MaxDamage
  /\ damage' = damage + 1
  /\ \/ wire' \in Disordered(wire)
     \/ \E i \in DOMAIN wire :      \* a member this library never writes
          wire' = InsertAt(wire, i, Member("secondSequenceOf87", wire[i].elements))
     \/ \E i \in DOMAIN wire :
          \E q \in Disordered(wire[i].elements) \cup
                   {ReplaceAt(wire[i].elements, j, e) : j \in DOMAIN wire[i].elements,
                      e \in UNION {Altered(wire[i].elements[n]) :
                                     n \in DOMAIN wire[i].elements}} :
            wire' = [wire EXCEPT ![i].elements = q]
  /\ UNCHANGED <<tx, sent, rx>>

\* The same package arrives once more.
Redelivered ==
  /\ rx.phase = "done"
  /\ rx.calls < MaxRecoveries
  /\ wire' = sent
  /\ damage' = 0
  /\ rx' = [rx EXCEPT !.phase = "idle"]
  /\ UNCHANGED <<tx, sent>>

-----------------------------------------------------------------------------
(* rsp_bpp_recover *)

RecoverReturns(ret) ==
  rx' = [rx EXCEPT !.phase = "done", !.ret = ret,
                   !.upp = IF ret = 0 THEN rx.g ELSE None]

HasMember(i, tag) == i <= Len(wire) /\ wire[i].tag = tag

\* The outer SEQUENCE is opened and initialiseSecureChannelRequest skipped.
\* A caller that calls again does so with the session as it was left.
Recover(k) ==
  /\ rx.phase = "idle"
  /\ wire # None
  /\ rx.calls > 0 => k = rx.session.key
  /\ rx' = [rx EXCEPT
              !.phase = IF HasMember(1, "initialiseSecureChannelRequest")
                        THEN "open" ELSE "done",
              !.ret = IF HasMember(1, "initialiseSecureChannelRequest")
                      THEN None ELSE -2,
              !.session = IF rx.calls = 0 THEN InitSession(k) ELSE @,
              !.calls = @ + 1,
              !.next = "firstSequenceOf87", !.pos = 2, !.g = <<>>, !.upp = None]
  /\ UNCHANGED <<tx, sent, wire, damage>>

\* A member is found where it must be, and sequenceOf86 with nothing after it.
OpenMember ==
  /\ rx.phase = "open"
  /\ LET found == /\ HasMember(rx.pos, rx.next)
                  /\ rx.next = "sequenceOf86" => rx.pos = Len(wire)
     IN  \/ found /\ rx' = [rx EXCEPT !.phase = "elements", !.elem = 1]
         \/ ~found /\ RecoverReturns(-2)
  /\ UNCHANGED <<tx, sent, wire, damage>>

Elements == wire[rx.pos].elements

\* rsp_unprotect, or rsp_unprotect_mac_only for '88', on one element; what
\* the '86' elements held is kept.
TakeElement ==
  /\ rx.phase = "elements"
  /\ rx.elem <= Len(Elements)
  /\ LET e == Elements[rx.elem]
         tag == ElementTag[rx.next]
         un == IF tag = "88" THEN UnprotectMacOnly(rx.session, e, tag)
                             ELSE Unprotect(rx.session, e, tag)
     IN  \/ e.tag # tag /\ RecoverReturns(-2)
         \/ e.tag = tag /\ un.ret # 0 /\ RecoverReturns(un.ret)
         \/ /\ e.tag = tag /\ un.ret = 0
            /\ rx' = [rx EXCEPT !.session = un.session,
                                !.elem = @ + 1,
                                !.g = IF tag = "86" THEN @ \o un.text ELSE @,
                                !.accepted = Append(@, [tag |-> tag, text |-> un.text])]
  /\ UNCHANGED <<tx, sent, wire, damage>>

\* secondSequenceOf87 is optional and, if there, skipped unread.
AfterSequenceOf88 ==
  IF HasMember(rx.pos + 1, "secondSequenceOf87") THEN rx.pos + 2 ELSE rx.pos + 1

\* Mutant: a sequenceOf86 without segments passes for an empty UPP.
CloseSequenceOf86Empty == RecoverReturns(0)

CloseSequenceOf86 == RecoverReturns(IF Elements = <<>> THEN -2 ELSE 0)

CloseMember ==
  /\ rx.phase = "elements"
  /\ rx.elem > Len(Elements)
  /\ \/ /\ rx.next = "firstSequenceOf87"
        /\ rx' = [rx EXCEPT !.phase = "open", !.next = "sequenceOf88", !.pos = @ + 1]
     \/ /\ rx.next = "sequenceOf88"
        /\ rx' = [rx EXCEPT !.phase = "open", !.next = "sequenceOf86",
                            !.pos = AfterSequenceOf88]
     \/ rx.next = "sequenceOf86" /\ CloseSequenceOf86
  /\ UNCHANGED <<tx, sent, wire, damage>>

\* An allocation or a primitive fails; the session stays where it is.
RecoverFails ==
  /\ MemoryMayFail
  /\ rx.phase \in {"open", "elements"}
  /\ RecoverReturns(-2)
  /\ UNCHANGED <<tx, sent, wire, damage>>

-----------------------------------------------------------------------------
Next ==
  \/ \E k \in Keys, upp \in Upps, metadata \in Metadatas : Build(k, upp, metadata)
  \/ BuildConfigure \/ BuildMetadata \/ BuildSegment \/ BuildDone \/ BuildFails
  \/ Damage \/ Redelivered
  \/ \E k \in Keys : Recover(k)
  \/ OpenMember \/ TakeElement \/ CloseMember \/ RecoverFails

Spec == Init /\ [][Next]_vars

-----------------------------------------------------------------------------
(* Properties *)

ScpSessions == [key : Keys, chain : Seq(Tlvs), enc_counter : Nat \ {0}]
ElementsOnTheWire ==
  [tag : Tags, body : {TooShort} \cup Bodies,
   mac : {NoMac} \cup [key : Keys, over : Seq(Tlvs)]]
Packages == Seq([tag : {"initialiseSecureChannelRequest", "secondSequenceOf87"}
                         \cup DOMAIN ElementTag,
                 elements : Seq(ElementsOnTheWire)])
Plaintexts == Seq([tag : Tags, text : Texts])

\* A session's counter is never zero, what is on the wire is what rsp_protect or
\* the way made of it, and the builder and the receiver are between two TLVs.
BppTypeOK ==
  /\ tx \in [phase : {"idle", "configure", "metadata", "segments", "wrap", "done", "failed"},
             session : {None} \cup ScpSessions, upp : {None} \cup Upps,
             metadata : {None} \cup Metadatas, off : Nat, content : Packages,
             seq86 : Seq(ElementsOnTheWire), protected : Plaintexts]
  /\ sent \in {None} \cup Packages
  /\ wire \in {None} \cup Packages
  /\ damage \in 0 .. MaxDamage
  /\ rx \in [phase : {"idle", "open", "elements", "done"},
             session : {None} \cup ScpSessions, calls : 0 .. MaxRecoveries,
             next : {None} \cup DOMAIN ElementTag, pos : Nat, elem : Nat,
             g : Seq(Nat \cup {Garbled}), accepted : Plaintexts,
             ret : {None, 0, -1, -2}, upp : {None} \cup Seq(Nat \cup {Garbled})]

\* The encryption counter counts every TLV, the '88' that is not encrypted
\* included, so that it and the chain never come apart and no two TLVs of a
\* session share an ICV (rsp_crypto.c: "a '88' that left the counter alone
\* would put every later '86' one step behind the card's own").
CountsEveryTlv(s) ==
  /\ s.enc_counter = Len(s.chain) + 1
  /\ \A i \in DOMAIN s.chain :
       s.chain[i].body.icv = IF s.chain[i].tag = "88" THEN NoIcv
                             ELSE [key |-> s.key, counter |-> i]

CounterCountsTlvs ==
  /\ tx.session # None => CountsEveryTlv(tx.session)
  /\ rx.session # None => CountsEveryTlv(rx.session)

\* What rsp_bpp_recover accepts is what rsp_bpp_build protected, TLV by TLV,
\* with the same tag, in the same order, whatever happened on the way and
\* however often it was called on the session.
Channel == INSTANCE SecureChannel WITH sent <- tx.protected, received <- rx.accepted

KeepsOrder == Channel!Spec

End(n) == IF n * SegmentSize < Len(tx.upp) THEN n * SegmentSize ELSE Len(tx.upp)

\* rsp_bpp_build cuts the UPP without gap or overlap: every '86' TLV but the
\* last is full, none is empty, and the last one ends where the UPP ends.
SegmentsCoverUpp ==
  sent # None =>
    LET segments == Len(sent[Len(sent)].elements) IN
    /\ Len(tx.protected) = segments + 2
    /\ (segments - 1) * SegmentSize < Len(tx.upp)
    /\ Len(tx.upp) <= segments * SegmentSize
    /\ \A n \in 1 .. segments :
         tx.protected[n + 2].text = SubSeq(tx.upp, (n - 1) * SegmentSize + 1, End(n))

Recovered == rx.phase = "done" /\ rx.ret = 0

\* On a fresh session, success means the '87' and the '88' arrived as sent and
\* *upp is the UPP up to the end of one of its segments, at least the first.
\* That trailing segments are missing is beyond rsp_bpp_recover.
SuccessIsPrefixOfSent ==
  Recovered /\ rx.calls = 1 =>
    \E n \in 1 .. Len(tx.protected) - 2 :
      /\ rx.accepted = SubSeq(tx.protected, 1, n + 2)
      /\ rx.upp = SubSeq(tx.upp, 1, End(n))

\* A package that arrives as it was sent, under the same keys, is recovered
\* whole; it can be left unread (-2), never refused (-1).
IntactRecovers ==
  /\ rx.phase = "done" /\ rx.calls = 1
  /\ damage = 0 /\ rx.session.key = tx.session.key
  => \/ rx.ret = 0 /\ rx.upp = tx.upp
     \/ rx.ret = -2 /\ MemoryMayFail

\* With the session reused after a failure, against rsp.h ("treat it as
\* consumed"), *upp need not start where the UPP starts, but it is still one
\* uninterrupted piece of it.
RecoveredIsOnePiece ==
  Recovered => \E i, j \in 1 .. Len(tx.upp) : i <= j /\ rx.upp = SubSeq(tx.upp, i, j)

=============================================================================
