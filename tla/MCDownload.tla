----------------------------- MODULE MCDownload -----------------------------
(* Small instances of Download for TLC: two eUICCs the CI vouches for.     *)
EXTENDS Download, TLC

CONSTANTS c1, c2, e1, e2, n1, n2, t1, t2, m1, m2

MCEidOf == (c1 :> e1) @@ (c2 :> e2)
MCIssuedBy == (n1 :> c1) @@ (n2 :> c2)
MCOneMetadata == (t1 :> {m1}) @@ (t2 :> {m2})
MCTwoMetadata == (t1 :> {m1, m2})
MCOneTransaction == (t1 :> {m1})
MCOneIssuer == (n1 :> c1)

MCSymmetry == Permutations(Sessions) \cup Permutations(ServerChallenges)
                \cup Permutations(OneTimeKeys) \cup Permutations(Salts)
=============================================================================
