----------------------------- MODULE MCResponse -----------------------------
(* Responses for TLC, with octets of four bits: a length has its short form *)
(* below 8, one more octet below 16 and two below 256.  The last response   *)
(* needs 182 octets, more than half of the sizes there are.                 *)
EXTENDS Response

Filling(n) == [i \in 1..n |-> (5 * i) % 16]
Member(tag, n) == [tag |-> tag, value |-> Filling(n)]

\* Tags of one, two and three octets; values around the ends of two forms.
Initiate(a, b, c, d, e) ==
  [fn |-> "initiate",
   members |-> <<Member(<<8>>, a), Member(<<4>>, b), Member(<<7, 5>>, c),
                 Member(<<1>>, d), Member(<<4>>, e)>>]
Authenticate(a, b, c, d, e) ==
  [fn |-> "authenticate",
   members |-> <<Member(<<8>>, a), Member(<<15, 9, 5>>, b), Member(<<4>>, c),
                 Member(<<7, 5>>, d), Member(<<4>>, e)>>]

MCResponses ==
  {Initiate(0, 0, 0, 0, 0), Initiate(7, 8, 0, 1, 2), Initiate(3, 15, 16, 1, 7),
   Initiate(1, 1, 1, 1, 60), Authenticate(0, 0, 0, 0, 0),
   Authenticate(2, 8, 7, 4, 15), Authenticate(1, 16, 1, 4, 17),
   Initiate(1, 1, 1, 60, 100)}
MCSequenceTag == <<4>>
MCChoiceTag == <<15, 6>>
=============================================================================
