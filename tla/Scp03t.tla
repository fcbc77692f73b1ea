------------------------------- MODULE Scp03t -------------------------------
(***************************************************************************)
(* SCP03t as src/rsp_crypto.c computes it: one session, its chaining value *)
(* and its encryption counter, and the four functions that protect a TLV   *)
(* or take its protection off.                                             *)
(*                                                                         *)
(* Cryptography is symbolic.  A MAC is the key and everything it was       *)
(* chained over, so the chaining value is the list of TLVs MACed so far    *)
(* and two MACs are equal exactly when key, history, tag and value are.    *)
(* CBC under an ICV is undone by the same key and the same counter only.   *)
(* Lengths, padding octets and the truncation to eight octets are left     *)
(* out; a value too short, or not a whole number of blocks, is TooShort.   *)
(***************************************************************************)
EXTENDS Integers, Sequences

CONSTANTS
  Keys,       \* what a session's KeyData is derived from
  TooShort,   \* a TLV value no MAC and no whole block fits in
  Garbled,    \* octets decrypted under another ICV
  NoMac       \* eight octets that are nobody's MAC

NoIcv == [key |-> "none", counter |-> 0]     \* '88' is not encrypted

-----------------------------------------------------------------------------
\* Mutant: the counter is zeroed with the rest of the session and left at that.
InitSessionAtZero(key) == [key |-> key, chain |-> <<>>, enc_counter |-> 0]

\* rsp_session_init: the counter starts at 00...01.
InitSession(key) == [key |-> key, chain |-> <<>>, enc_counter |-> 1]

Chained(s, tag, body) == Append(s.chain, [tag |-> tag, body |-> body])

Mac(s, tag, body) == [key |-> s.key, over |-> Chained(s, tag, body)]

Icv(s) == [key |-> s.key, counter |-> s.enc_counter]

\* Mutant: only an encrypted TLV moves the encryption counter.
AdvancedChainOnly(s, tag, body) ==
  [s EXCEPT !.chain = Chained(s, tag, body),
            !.enc_counter = IF body.icv = NoIcv THEN @ ELSE @ + 1]

\* The full MAC becomes the chaining value, and every TLV is counted.
Advanced(s, tag, body) ==
  [s EXCEPT !.chain = Chained(s, tag, body), !.enc_counter = @ + 1]

-----------------------------------------------------------------------------
(* rsp_protect ('86', '87') and rsp_protect_mac_only ('88').               *)

Encrypted(s, text) == [icv |-> Icv(s), text |-> text]

Clear(text) == [icv |-> NoIcv, text |-> text]

Element(s, tag, body) == [tag |-> tag, body |-> body, mac |-> Mac(s, tag, body)]

Protect(s, text, tag) ==
  LET body == Encrypted(s, text) IN
  [element |-> Element(s, tag, body), session |-> Advanced(s, tag, body)]

\* Mutant: '88' leaves the chain and the counter alone.
ProtectMacOnlyKeepsSession(s, text, tag) ==
  [element |-> Element(s, tag, Clear(text)), session |-> s]

ProtectMacOnly(s, text, tag) ==
  LET body == Clear(text) IN
  [element |-> Element(s, tag, body), session |-> Advanced(s, tag, body)]

-----------------------------------------------------------------------------
(* rsp_unprotect and rsp_unprotect_mac_only.  The MAC is checked under the *)
(* tag the caller expects, before anything is decrypted, and the session   *)
(* moves only when everything has succeeded.                               *)

\* Another ICV garbles the first block.  The padding stands in the last one, so
\* the -1 for padding after a matching MAC takes a TLV of a single block and two
\* counters apart behind equal chains; one release of octets stands for both.
Decrypted(s, body) == IF body.icv = Icv(s) THEN body.text ELSE <<Garbled>>

Refusal(s, ret) == [ret |-> ret, text |-> <<>>, session |-> s]

Accepted(s, tag, body, text) ==
  [ret |-> 0, text |-> text, session |-> Advanced(s, tag, body)]

\* Mutant: the MAC comparison is dropped.
UnprotectUnchecked(s, e, tag) ==
  IF e.body = TooShort THEN Refusal(s, -2)
  ELSE Accepted(s, tag, e.body, Decrypted(s, e.body))

Unprotect(s, e, tag) ==
  IF e.body = TooShort THEN Refusal(s, -2)
  ELSE IF e.mac # Mac(s, tag, e.body) THEN Refusal(s, -1)
  ELSE Accepted(s, tag, e.body, Decrypted(s, e.body))

UnprotectMacOnly(s, e, tag) ==
  IF e.body = TooShort THEN Refusal(s, -2)
  ELSE IF e.mac # Mac(s, tag, e.body) THEN Refusal(s, -1)
  ELSE Accepted(s, tag, e.body, e.body.text)

=============================================================================
