--------------------------- MODULE MCNotification ---------------------------
(* Notifications for TLC: octets of three bits, three cards of which one is *)
(* made by an EUM the CI does not vouch for.                                *)
EXTENDS Notification, TLC

CONSTANTS c1, c2, c3, q1, q2, i1

MCEumOf == (c1 :> q1) @@ (c2 :> q1) @@ (c3 :> q2)

Bits(size, unused, set) == [size |-> size, bits_unused |-> unused, set |-> set]
Meta(seq, bits, iccid) ==
  [seqNumber |-> seq, profileManagementOperation |-> bits, iccid |-> iccid]

Install == Bits(1, 2, {0})

\* Every BIT STRING of one octet, and some of none and of two.
OddBits ==
  {Bits(1, u, s) : u \in 0..2, s \in SUBSET (0..2)}
    \cup {Bits(0, 0, {}), Bits(2, 2, {0, 1, 3}), Bits(2, 2, {3}), Bits(2, 2, {2, 4}),
          Bits(2, 0, {1, 5}), Bits(2, 1, {5})}

SignedMetas == {Meta(1, Install, i1), Meta(1, Install, NotTen)}
MCMetas ==
  SignedMetas \cup {Meta(TooWide, Install, i1)}
    \cup {Meta(1, b, None) : b \in OddBits}

MCContents ==
  {[arm |-> "result", metadata |-> d, success |-> s] : d \in SignedMetas, s \in BOOLEAN}
    \cup {[arm |-> "other", metadata |-> d] : d \in SignedMetas \cup {Meta(1, Bits(2, 2, {3}), None)}}

MCSymmetry == Permutations({c1, c2})
=============================================================================
