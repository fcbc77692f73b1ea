------------------------------- MODULE Response -------------------------------
(***************************************************************************)
(* A response of the library from its encoding to the fields a caller cuts *)
(* out of it, src/rsp_es9.c: der_encode_alloc collects what the ASN.1      *)
(* encoder emits in a growing buffer, the caller gets that buffer, and     *)
(* rsp_dp_initiate_fields or rsp_dp_authenticate_fields walks what the     *)
(* caller passes on, which may be less, or something else.                 *)
(***************************************************************************)
EXTENDS Growbuf, Der, SequencesExt

CONSTANTS
  Responses,       \* [fn, members]: for which accessor, and its five members
  SequenceTag, ChoiceTag,
  StrayOctets      \* octets that may stand in place of one of the response's

Accessors == {"initiate", "authenticate"}
Members == [tag : WellFormedTags, value : Seq(Octet)]

ASSUME ResponseAssumption ==
  /\ Responses \subseteq [fn : Accessors, members : [1..5 -> Members]]
  /\ SequenceTag \in WellFormedTags /\ ChoiceTag \in WellFormedTags
  /\ StrayOctets \subseteq Octet

VARIABLES
  made,     \* the response asked for
  pieces,   \* what the encoder has still to emit
  resp,     \* *resp, <<>> until it is set
  given,    \* false until der_encode_alloc has returned
  cut       \* the accessor call in progress, or the latest one

respVars == <<g, call, made, pieces, resp, given, cut>>

MemberTlv(m) == Header(m.tag, Len(m.value)) \o m.value

-----------------------------------------------------------------------------
(* Encoding *)

\* What is inside the SEQUENCE.
Body(r) ==
  MemberTlv(r.members[1]) \o MemberTlv(r.members[2]) \o MemberTlv(r.members[3])
    \o MemberTlv(r.members[4]) \o MemberTlv(r.members[5])

\* The headers before the first member.
Wrappers(r) ==
  LET n == Len(Body(r))
      sequence == Header(SequenceTag, n)
  IN  IF r.fn = "initiate" THEN <<sequence>>
      ELSE <<Header(ChoiceTag, Len(sequence) + n), sequence>>

\* What der_encode passes to der_collect: headers and values.
MemberPieces(m) == <<Header(m.tag, Len(m.value)), m.value>>
Pieces(r) ==
  Wrappers(r) \o MemberPieces(r.members[1]) \o MemberPieces(r.members[2])
    \o MemberPieces(r.members[3]) \o MemberPieces(r.members[4])
    \o MemberPieces(r.members[5])

Encoding(r) == FlattenSeq(Pieces(r))

\* No response reaches the 4 GiB from which rsp_der_length_octets has no form.
ASSUME LengthsEncodable == \A r \in Responses : Len(Encoding(r)) < LongFormLimit

Collects ==
  /\ pieces # <<>>
  /\ AppendStarts(Head(pieces))
  /\ pieces' = Tail(pieces)
  /\ UNCHANGED <<made, resp, given, cut>>

Appends == GrowbufStep /\ UNCHANGED <<made, pieces, resp, given, cut>>

\* der_encode stops at the first piece that could not be collected, and
\* der_encode_alloc frees what there is.
EncodeFails ==
  /\ call.stage = "failed"
  /\ Frees
  /\ pieces' = <<>>
  /\ given' = TRUE
  /\ UNCHANGED <<made, resp, cut>>

EncodeReturns ==
  /\ ~given /\ pieces = <<>> /\ call.stage = "ok"
  /\ resp' = g.buf
  /\ given' = TRUE
  /\ UNCHANGED <<g, call, made, pieces, cut>>

-----------------------------------------------------------------------------
(* Cutting *)

Slices == [at : Nat, len : Nat]
CutCalls == [fn : Accessors, buf : Seq(Octet), off : Nat, end : Nat,
             taken : Seq(Slices), out : Seq(Slices),
             stage : {"idle", "walking", "cut", "refused"}]

Idle == [fn |-> "initiate", buf |-> <<>>, off |-> 0, end |-> 0,
         taken |-> <<>>, out |-> <<>>, stage |-> "idle"]

\* What a caller may pass: the response, a part of it, or another object.
Passed ==
  {resp} \cup {SubSeq(resp, 1, n) : n \in 0..(Len(resp) - 1)}
    \cup {[resp EXCEPT ![i] = o] : i \in 1..Len(resp), o \in StrayOctets}

\* The SEQUENCE itself, or the SEQUENCE inside the CHOICE.
Opened(fn, buf) ==
  LET outer == ParseTlv(buf, Len(buf), 0)
  IN  IF fn = "initiate" \/ outer = Malformed THEN outer
      ELSE ParseTlv(buf, outer.val_off + outer.val_len, outer.val_off)

\* One accessor call: they keep nothing from one call to the next.
Opens(fn, buf) ==
  LET v == Opened(fn, buf)
      begun == [Idle EXCEPT !.fn = fn, !.buf = buf]
  IN  /\ cut.stage = "idle"
      /\ cut' = IF v = Malformed THEN [begun EXCEPT !.stage = "refused"]
                ELSE [begun EXCEPT !.off = v.val_off, !.end = v.val_off + v.val_len,
                                   !.stage = "walking"]
      /\ UNCHANGED <<g, call, made, pieces, resp, given>>

\* Mutant: the two offsets are exchanged.
SliceExchanged(off, next) == [at |-> off, len |-> off - next]

Slice(off, next) == [at |-> off, len |-> next - off]

\* take_field, and what its caller does with the answer.
Takes ==
  /\ cut.stage = "walking"
  /\ LET v == ParseTlv(cut.buf, cut.end, cut.off)
         fields == Append(cut.taken, Slice(cut.off, v.next_off))
     IN  \/ /\ v = Malformed
            /\ cut' = [cut EXCEPT !.stage = "refused"]
         \/ /\ v # Malformed
            /\ Len(fields) < 5
            /\ cut' = [cut EXCEPT !.taken = fields, !.off = v.next_off]
         \/ /\ v # Malformed
            /\ Len(fields) = 5
            /\ cut' = [cut EXCEPT !.taken = fields, !.off = v.next_off,
                                  !.out = fields, !.stage = "cut"]
  /\ UNCHANGED <<g, call, made, pieces, resp, given>>

-----------------------------------------------------------------------------
RespInit ==
  /\ GrowbufInit
  /\ made \in Responses
  /\ pieces = Pieces(made)
  /\ resp = <<>> /\ given = FALSE
  /\ cut = Idle

RespNext ==
  \/ Collects \/ Appends \/ EncodeFails \/ EncodeReturns
  \/ resp # <<>> /\ \E fn \in Accessors, buf \in Passed : Opens(fn, buf)
  \/ Takes

\* The thread that entered rsp_growbuf_append runs until it leaves it.
RespSpec == RespInit /\ [][RespNext]_respVars /\ WF_respVars(Appends)

-----------------------------------------------------------------------------
(* Properties *)

CutOctets(i) == SubSeq(cut.buf, cut.out[i].at + 1, cut.out[i].at + cut.out[i].len)

RespTypeOK ==
  /\ g \in [buf : Seq(Octet), cap : 0..AddressSpace]
  /\ call \in [data : Seq(Octet), newcap : 0..(SizeLimit - 1), stage : Stages]
  /\ made \in Responses
  /\ resp \in Seq(Octet) /\ given \in BOOLEAN
  /\ cut \in CutCalls

\* Length octets rsp_der_length_octets writes are read back by the walker as
\* the length they were written for, behind every tag of the response and at
\* every boundary between two forms, and are the fewest possible (X.690 8.1.3,
\* cited by rsp_internal.h).  Checked while the encoder runs.
LengthsAgree ==
  ~given => \A i \in 1..5, k \in 0..LengthOctetsMax, d \in -2..2 :
    LET n == (IF k = 0 THEN Bit8 ELSE PlaceValue[k]) + d
        head == Header(made.members[i].tag, n)
        lead == Len(head)
    IN  n \in 0..(LongFormLimit - 1) =>
          /\ ParseTlv(head \o [p \in 1..n |-> 0], lead + n, 0) =
               [val_off |-> lead, val_len |-> n, next_off |-> lead + n]
          /\ lead > Len(made.members[i].tag) + 1 =>
               n >= Bit8 /\ head[Len(made.members[i].tag) + 2] # 0

\* However often the buffer had to move while it was filled, *resp is the whole
\* encoding in order; a response that could not be collected is not handed out.
RespIsWhole == resp # <<>> => resp = Encoding(made)

\* Cut from the response they were made for, the five fields are the complete
\* TLVs the library encoded, in their order, and such a response is never
\* refused (rsp.h: "the bytes such a caller then puts on the wire are the
\* bytes this library produced").
FieldsAreMembers ==
  cut.buf = resp /\ resp # <<>> /\ cut.fn = made.fn =>
    /\ cut.stage # "refused"
    /\ cut.stage = "cut" =>
         \A i \in 1..5 : CutOctets(i) = MemberTlv(made.members[i])

\* A response that lost octets at its end is refused (rsp.h: "truncated").
TruncatedIsRefused ==
  Len(cut.buf) < Len(resp) /\ cut.fn = made.fn => cut.stage # "cut"

\* Whatever was passed, the walk stays inside it: the fields taken lie one
\* behind the other, none is empty, and the last ends inside the buffer; *out
\* is set to all five or not at all.
WalkStaysInside ==
  /\ cut.stage = "walking" => cut.off <= cut.end
  /\ cut.end <= Len(cut.buf)
  /\ \A i \in 1..Len(cut.taken) :
       /\ cut.taken[i].len >= 2
       /\ cut.taken[i].at + cut.taken[i].len =
            IF i < Len(cut.taken) THEN cut.taken[i + 1].at ELSE cut.off
  /\ cut.off <= Len(cut.buf)
  /\ cut.out # <<>> => cut.stage = "cut" /\ cut.out = cut.taken /\ Len(cut.out) = 5
=============================================================================
