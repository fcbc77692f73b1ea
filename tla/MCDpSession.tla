---------------------------- MODULE MCDpSession ----------------------------
(* A small instance of DpSession for TLC: three eUICCs the CI vouches for, *)
(* one of them with an EID no BPP can be bound to, and one it does not,    *)
(* which claims the EID of the first.  Where the heap is not zeroed two    *)
(* eUICCs do: an unwritten field reads as anything of theirs.              *)
EXTENDS DpSession

CONSTANTS c1, c2, c3, c4, e1, e2, e3

MCCards == {c1, c2, c3, c4}
MCTwoCards == {c1, c2}
MCEids == {e1, e2, e3}
MCTwoEids == {e1, e2}
MCDecimalEids == {e1, e2}
MCEidOf ==
  [c \in Cards |->
     CASE c = c1 -> e1 [] c = c2 -> e2 [] c = c3 -> e3 [] OTHER -> e1]
=============================================================================
