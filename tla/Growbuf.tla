------------------------------- MODULE Growbuf -------------------------------
(***************************************************************************)
(* rsp_growbuf_t, src/rsp_internal.h: one growing buffer and the call that *)
(* appends to it, a step for each turn of its loop and for each effect.    *)
(* size_t arithmetic wraps at SizeLimit.                                   *)
(***************************************************************************)
EXTENDS Integers, Sequences

CONSTANTS
  SizeLimit,       \* the values of a size_t, 2^64 or 2^32
  AddressSpace,    \* octets that can be allocated at one time
  FirstCapacity    \* capacity of the first allocation, 512

\* A size_t counts the octets of any object.  Objects may fill more than half
\* of what it counts, as they do in a 32-bit process that owns 3 GiB.
ASSUME GrowbufAssumption ==
  /\ SizeLimit \in Nat
  /\ AddressSpace \in 0..(SizeLimit - 1)
  /\ FirstCapacity \in 1..AddressSpace

VARIABLES
  g,      \* [buf |-> the octets appended, cap |-> octets allocated]
  call    \* the append in progress, or the latest one, and its outcome

growbufVars == <<g, call>>

Empty == [buf |-> <<>>, cap |-> 0]
Outcome(o) == [data |-> <<>>, newcap |-> 0, stage |-> o]

Stages == {"grow", "copy", "ok", "failed"}
Running == call.stage \in {"grow", "copy"}

GrowbufInit == g = Empty /\ call = Outcome("ok")

\* g->len + n
Needed(data) == (Len(g.buf) + Len(data)) % SizeLimit

\* Mutant: there is no first capacity, so doubling nothing gives nothing.
DoubledCapacity == (2 * g.cap) % SizeLimit

StartCapacity == IF g.cap = 0 THEN FirstCapacity ELSE (2 * g.cap) % SizeLimit

\* Mutant: one octet too many is taken to fit.
FitsLoosely(data) == Needed(data) <= g.cap + 1

Fits(data) == Needed(data) <= g.cap

\* The data is an object of its own beside the buffer.
AppendStarts(data) ==
  /\ call.stage = "ok"
  /\ g.cap + Len(data) <= AddressSpace
  /\ call' = [data |-> data, newcap |-> StartCapacity,
              stage |-> IF Fits(data) THEN "copy" ELSE "grow"]
  /\ UNCHANGED g

Doubles ==
  /\ call.stage = "grow"
  /\ call.newcap < Needed(call.data)
  /\ call' = [call EXCEPT !.newcap = (2 * @) % SizeLimit]
  /\ UNCHANGED g

BigEnough == call.newcap >= Needed(call.data)

\* Mutant: the larger buffer is a new one, and nobody moves the octets.
ReallocatesAfresh ==
  /\ call.stage = "grow"
  /\ BigEnough
  /\ \/ /\ call.newcap + Len(call.data) <= AddressSpace
        /\ g' = [buf |-> [i \in 1..Len(g.buf) |-> 0], cap |-> call.newcap]
        /\ call' = [call EXCEPT !.stage = "copy"]
     \/ /\ call' = Outcome("failed")
        /\ UNCHANGED g

\* realloc: the octets move with the buffer, or everything stays as it was.
Reallocates ==
  /\ call.stage = "grow"
  /\ BigEnough
  /\ \/ /\ call.newcap + Len(call.data) <= AddressSpace
        /\ g' = [g EXCEPT !.cap = call.newcap]
        /\ call' = [call EXCEPT !.stage = "copy"]
     \/ /\ call' = Outcome("failed")
        /\ UNCHANGED g

Copies ==
  /\ call.stage = "copy"
  /\ g' = [g EXCEPT !.buf = @ \o call.data]
  /\ call' = Outcome("ok")

\* rsp_growbuf_free; every caller of this library frees what it could not fill.
Frees ==
  /\ ~Running
  /\ g' = Empty
  /\ call' = Outcome("ok")

GrowbufStep == Doubles \/ Reallocates \/ Copies

-----------------------------------------------------------------------------
(* Properties *)

\* What was appended lies inside what was allocated, and what was allocated
\* exists, so the memcpy of rsp_growbuf_append stays inside its object, even
\* when a doubled capacity has wrapped on its way.
AppendsStayInside ==
  /\ Len(g.buf) <= g.cap
  /\ g.cap <= AddressSpace
  /\ call.stage = "copy" => Len(g.buf) + Len(call.data) <= g.cap
  /\ call.stage = "grow" => Len(g.buf) + Len(call.data) < SizeLimit

\* A doubled capacity reaches what is needed before it can wrap.
Reachable == Len(g.buf) + Len(call.data) <= SizeLimit \div 2

\* While what is needed is at most half of what a size_t counts, every turn of
\* the doubling loop gives a larger capacity, and none is asked for that is
\* twice what is needed, but for the first one.
LoopAdvances ==
  call.stage = "grow" /\ Reachable =>
    /\ BigEnough \/ (2 * call.newcap) % SizeLimit > call.newcap
    /\ call.newcap < 2 * Needed(call.data) \/ call.newcap = FirstCapacity

\* Under the same condition a call of rsp_growbuf_append returns.  Beyond it a
\* capacity that wraps to 0 is doubled for ever, against "Returns 0, or -1 on an
\* allocation failure" (rsp_internal.h:218).
ReachableAppendReturns == Running /\ Reachable ~> ~Running
=============================================================================
