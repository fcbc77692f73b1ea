--------------------------- MODULE SecureChannel ---------------------------
(***************************************************************************)
(* What the SCP03t protection of a Bound Profile Package promises: of the  *)
(* TLVs one side protected, the other accepts the first, then the second,  *)
(* and so on, each with its tag and its plaintext, none twice, none        *)
(* skipped and none out of order.  It may stop early: nothing in a package *)
(* says how many TLVs it has.                                              *)
(***************************************************************************)
EXTENDS Integers, Sequences

VARIABLES
  sent,       \* tag and plaintext of the TLVs protected so far
  received    \* tag and plaintext of the TLVs accepted so far

Init == sent = <<>> /\ received = <<>>

Send ==
  /\ Len(sent') = Len(sent) + 1
  /\ SubSeq(sent', 1, Len(sent)) = sent
  /\ UNCHANGED received

Receive ==
  /\ Len(received) < Len(sent)
  /\ received' = Append(received, sent[Len(received) + 1])
  /\ UNCHANGED sent

Next == Send \/ Receive

Spec == Init /\ [][Next]_<<sent, received>>

=============================================================================
