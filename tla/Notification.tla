---------------------------- MODULE Notification ----------------------------
(***************************************************************************)
(* What an eUICC says after a download, src/rsp_es9.c: the two functions   *)
(* that read and verify a pending notification, called the way             *)
(* include/rsp.h describes: the caller reads the ICCID out of the          *)
(* unverified notification, looks up the certificate it kept from that     *)
(* Profile's download, and verifies with it.  A notification has no        *)
(* session behind it, so between any two of these steps the Profile may be *)
(* downloaded to another eUICC.  The functions share nothing between       *)
(* calls, so the caller's one notification at a time stands for many.      *)
(*                                                                         *)
(* Signatures are symbolic, as in DpSession: a key and what it signed.     *)
(***************************************************************************)
EXTENDS Integers, FiniteSets

CONSTANTS
  Cards,           \* eUICCs; names a key pair and its CERT.EUICC.ECDSA
  Eums,            \* CERT.EUMs
  EumOf,           \* the CERT.EUM each card's certificate chains to
  TrustedEums,     \* CERT.EUMs that chain to the compiled-in CI
  Iccids,          \* ICCIDs of ten octets
  NotTen,          \* an ICCID that is not ten octets
  TooWide,         \* a seqNumber that is no long
  OctetBits,       \* bits of an octet, 8
  Metas,           \* the NotificationMetadata that occur
  Contents,        \* what cards sign
  MaxSigned,       \* bound: signatures made
  None

\* A BIT STRING: its octets, and which bits are set, counted from the first
\* one; the last octet's unused bits may be set too.
BitStrings ==
  [size : Nat, bits_unused : 0..(OctetBits - 1), set : SUBSET Nat]

NotificationMetadata ==
  [seqNumber : Int \cup {TooWide}, profileManagementOperation : BitStrings,
   iccid : Iccids \cup {None, NotTen}]

\* The data of a ProfileInstallationResult, and the tbsOtherNotification.
ResultContents == [arm : {"result"}, metadata : NotificationMetadata, success : BOOLEAN]
OtherContents == [arm : {"other"}, metadata : NotificationMetadata]

ASSUME NotificationAssumption ==
  /\ EumOf \in [Cards -> Eums]
  /\ TrustedEums \subseteq Eums
  /\ OctetBits \in Nat \ {0}
  /\ Metas \subseteq NotificationMetadata
  /\ Contents \subseteq {d \in ResultContents \cup OtherContents : d.metadata \in Metas}
  /\ None \notin Cards /\ None \notin Iccids
  /\ None \notin [key : Cards, over : ResultContents \cup OtherContents]
  /\ NotTen \notin Iccids /\ NotTen # None
  /\ TooWide \notin Int

VARIABLES
  held,      \* <<iccid, card>>: the Profile was downloaded to the card
  kept,      \* the certificate the caller keeps for each ICCID, or None
  signed,    \* the signatures made so far
  pending,   \* the notification at hand, what was read and looked up for it
  last       \* the call of the latest step, or None

nvars == <<held, kept, signed, pending, last>>

Signatures == [key : Cards, over : Contents]

\* A message in either arm; None in a signature is one that is not 64 octets
\* long, and Undecodable stands for octets that are no PendingNotification.
Undecodable == [arm |-> "none"]
Messages(signatures) ==
  {Undecodable}
    \cup [arm : {"result"}, metadata : Metas, success : BOOLEAN,
          signature : signatures \cup {None}]
    \cup [arm : {"other"}, metadata : Metas, signature : signatures \cup {None},
          euiccCertificate : Cards, eumCertificate : Eums]

\* rsp_notification_t; iccid is None where have_iccid is 0.
Verdicts ==
  [is_installation_result : {0, 1}, seq_number : Int, operation : Int,
   iccid : Iccids \cup {None}, installed : {0, 1}]

\* memset, and the operation nobody has read yet.
Cleared == [is_installation_result |-> 0, seq_number |-> 0, operation |-> -1,
            iccid |-> None, installed |-> 0]

\* out_of_memory says whether an allocation of the call failed.
Calls == [fn : {"read", "verify"}, message : Messages(Signatures),
          given : Cards \cup {None}, ret : {0, -1, -2}, out : Verdicts,
          out_of_memory : BOOLEAN]

Pendings == [message : Messages(Signatures), given : Cards \cup {None},
             ret : {0, -2}, out : Verdicts]

-----------------------------------------------------------------------------
(* notification_meta *)

\* The bits the scan looks at: in the last octet, not the unused ones.
Scanned(b, p) ==
  ~ /\ p \div OctetBits + 1 = b.size
    /\ p % OctetBits >= OctetBits - b.bits_unused

\* Mutant: a second set bit forgets the first but does not end the scan.
ScanStepOn(b, acc, p) ==
  IF ~Scanned(b, p) \/ p \notin b.set THEN acc
  ELSE IF acc.found >= 0 THEN [acc EXCEPT !.found = -1]
  ELSE [acc EXCEPT !.found = p]

ScanStep(b, acc, p) ==
  IF acc.done \/ ~Scanned(b, p) \/ p \notin b.set THEN acc
  ELSE IF acc.found >= 0 THEN [found |-> -1, done |-> TRUE]
  ELSE [acc EXCEPT !.found = p]

\* What the scan holds after its first p bits; it goes over all of them.
Operation(b) ==
  LET scan[p \in 0..(b.size * OctetBits)] ==
        IF p = 0 THEN [found |-> -1, done |-> FALSE]
        ELSE ScanStep(b, scan[p - 1], p - 1)
  IN  scan[b.size * OctetBits].found

\* Mutant: ten octets are copied however long the ICCID is.
NotificationMetaUnsized(d, out) ==
  IF d.seqNumber = TooWide THEN [ok |-> FALSE, out |-> out]
  ELSE [ok |-> TRUE,
        out |-> [out EXCEPT !.seq_number = d.seqNumber,
                            !.operation = Operation(d.profileManagementOperation),
                            !.iccid = d.iccid]]

\* What is in out when notification_meta returns, and whether with 0.
NotificationMeta(d, out) ==
  IF d.seqNumber = TooWide THEN [ok |-> FALSE, out |-> out]
  ELSE LET routed == [out EXCEPT !.seq_number = d.seqNumber,
                                 !.operation = Operation(d.profileManagementOperation)]
       IN  [ok |-> d.iccid # NotTen,
            out |-> IF d.iccid \in Iccids THEN [routed EXCEPT !.iccid = d.iccid]
                    ELSE routed]

Returns(fn, m, given, ret, out, short) ==
  last' = [fn |-> fn, message |-> m, given |-> given, ret |-> ret, out |-> out,
           out_of_memory |-> short]

-----------------------------------------------------------------------------
(* rsp_dp_notification_metadata *)

\* Mutant: both arms are filled in alike.
ReadOutAlike(m) == NotificationMeta(m.metadata, Cleared).out

ReadOut(m) ==
  LET d == NotificationMeta(m.metadata, Cleared)
  IN  IF d.ok /\ m.arm = "result" THEN [d.out EXCEPT !.is_installation_result = 1]
      ELSE d.out

\* The caller finds the certificate by the ICCID it was told.
LookedUp(ret, out) == IF ret = 0 /\ out.iccid \in Iccids THEN kept[out.iccid] ELSE None

Read(m, ret, out, short) ==
  /\ pending = None
  /\ Returns("read", m, None, ret, out, short)
  /\ pending' = [message |-> m, given |-> LookedUp(ret, out), ret |-> ret, out |-> out]
  /\ UNCHANGED <<held, kept, signed>>

ReadMetadata(m) ==
  \/ Read(m, -2, Cleared, TRUE)
  \/ /\ m = Undecodable
     /\ Read(m, -2, Cleared, FALSE)
  \/ /\ m # Undecodable
     /\ Read(m, IF NotificationMeta(m.metadata, Cleared).ok THEN 0 ELSE -2, ReadOut(m), FALSE)

-----------------------------------------------------------------------------
(* rsp_dp_verify_notification *)

\* The signed part of a message, as it arrived.
Tbs(m) ==
  IF m.arm = "result"
  THEN [arm |-> "result", metadata |-> m.metadata, success |-> m.success]
  ELSE [arm |-> "other", metadata |-> m.metadata]

SignedBy(m, c) == m.signature = [key |-> c, over |-> Tbs(m)]

\* Whose key the signature is checked with.
Signer(m, given) == IF m.arm = "result" THEN given ELSE m.euiccCertificate

\* Mutant: a given certificate is not compared.
OtherEuiccUnchecked(m, given) == FALSE

\* Mutant: it is compared with the wrong one of the two certificates.
OtherEuiccByEum(m, given) == given # None /\ given # m.eumCertificate

\* "asked, and this is a different eUICC"
OtherEuicc(m, given) == given # None /\ given # m.euiccCertificate

Chains(m) ==
  /\ m.eumCertificate \in TrustedEums
  /\ EumOf[m.euiccCertificate] = m.eumCertificate

\* The signature is there, and for an installation result a certificate too.
Asked(m, given) ==
  /\ m # Undecodable
  /\ m.signature # None
  /\ m.arm = "result" => given # None

Genuine(m, given) ==
  /\ m.arm = "other" => ~OtherEuicc(m, given) /\ Chains(m)
  /\ SignedBy(m, Signer(m, given))

\* Mutant: the signature is checked when everything else is done.
WrittenFirst(m) == NotificationMeta(m.metadata, Cleared).out

\* What a refused or unreached notification leaves behind.
Written(m) == Cleared

\* Filled in after the signature has verified.
VerdictOf(m) ==
  LET d == NotificationMeta(m.metadata, Cleared)
  IN  IF ~d.ok THEN d.out
      ELSE IF m.arm = "other" THEN [d.out EXCEPT !.is_installation_result = 0]
      ELSE [d.out EXCEPT !.is_installation_result = 1,
                         !.installed = IF m.success THEN 1 ELSE 0]

VerifyNotification(given) ==
  LET m == pending.message
      Verified(ret, out, short) == Returns("verify", m, given, ret, out, short)
  IN  /\ pending # None
      /\ given \in {pending.given, None}
      /\ \/ \* An allocation fails: -2, or -1 inside a verification of mbedTLS.
            \/ Verified(-2, Cleared, TRUE)
            \/ Asked(m, given) /\ Verified(-1, Cleared, TRUE)
         \/ /\ ~Asked(m, given)
            /\ Verified(-2, Cleared, FALSE)
         \/ /\ Asked(m, given)
            /\ ~Genuine(m, given)
            /\ Verified(-1, Written(m), FALSE)
         \/ /\ Asked(m, given)
            /\ Genuine(m, given)
            /\ Verified(IF NotificationMeta(m.metadata, Cleared).ok THEN 0 ELSE -2,
                        VerdictOf(m), FALSE)
      /\ UNCHANGED <<held, kept, signed, pending>>

-----------------------------------------------------------------------------
(* Around the library *)

\* A download to an eUICC authenticate_client accepts; the caller keeps what
\* rsp_dp_session_euicc_cert gives it.
Downloads(i, c) ==
  /\ EumOf[c] \in TrustedEums
  /\ held' = held \cup {<<i, c>>}
  /\ kept' = [kept EXCEPT ![i] = c]
  /\ last' = None
  /\ UNCHANGED <<signed, pending>>

\* The caller is done with the notification; the next one may be the same.
Finishes ==
  /\ pending # None
  /\ pending' = None
  /\ last' = None
  /\ UNCHANGED <<held, kept, signed>>

\* A card signs a notification, about a Profile of its own or not.
Signs(c) ==
  /\ Cardinality(signed) < MaxSigned
  /\ \E d \in Contents : signed' = signed \cup {[key |-> c, over |-> d]}
  /\ last' = None
  /\ UNCHANGED <<held, kept, pending>>

NotifInit ==
  /\ held = {}
  /\ kept = [i \in Iccids |-> None]
  /\ signed = {}
  /\ pending = None
  /\ last = None

NotifNext ==
  \/ \E i \in Iccids, c \in Cards : Downloads(i, c)
  \/ \E c \in Cards : Signs(c)
  \/ \E m \in Messages(signed) : ReadMetadata(m)
  \/ \E given \in Cards \cup {None} : VerifyNotification(given)
  \/ Finishes

NotifSpec == NotifInit /\ [][NotifNext]_nvars

-----------------------------------------------------------------------------
(* Properties *)

NotifTypeOK ==
  /\ held \subseteq Iccids \X Cards
  /\ kept \in [Iccids -> Cards \cup {None}]
  /\ signed \subseteq Signatures
  /\ pending \in Pendings \cup {None}
  /\ last \in Calls \cup {None}

\* rsp_dp_verify_notification tells nothing, whatever it returns, that a card
\* did not sign: whoever looks at *out without looking at the return value is
\* not told of an installation nobody reported.
ToldIsSigned ==
  last # None /\ last.fn = "verify" /\ last.out # Cleared =>
    /\ \E s \in signed :
         /\ s.over = Tbs(last.message)
         /\ last.message.arm = "result" => s.key = last.given
    /\ last.out.installed = 1 =>
         /\ last.ret = 0
         /\ [key |-> last.given,
             over |-> [arm |-> "result", metadata |-> last.message.metadata,
                       success |-> TRUE]] \in signed

\* Verified with the certificate found under the unverified ICCID, a
\* notification comes from an eUICC that had this Profile, whichever download
\* came in between (rsp.h: "otherwise a genuine notification from one eUICC
\* would verify while claiming to be about another's Profile").
FiledUnderHolder ==
  last # None /\ last.fn = "verify" /\ last.ret = 0 /\ last.given # None =>
    \E c \in Cards :
      /\ <<last.out.iccid, c>> \in held
      /\ [key |-> c, over |-> Tbs(last.message)] \in signed

\* What the caller read before verifying is what is verified, but for
\* installed, which is never read.  A notification whose reading failed can
\* only be verified if it needs no certificate, and was given none.
ReadIsVerified ==
  last # None /\ last.fn = "verify" /\ last.ret = 0 =>
    IF pending.ret = 0 THEN [last.out EXCEPT !.installed = 0] = pending.out
    ELSE last.message.arm = "other" /\ last.given = None

\* The operation told is the one bit set among the bits that are used; with
\* none or several there is none (rsp.h: "-1 when the eUICC set no single
\* bit").
OperationIsTheOneBit ==
  last # None /\ last.ret = 0 =>
    LET b == last.message.metadata.profileManagementOperation
        bits == {p \in b.set : p < b.size * OctetBits - b.bits_unused}
    IN  IF Cardinality(bits) = 1 THEN bits = {last.out.operation}
        ELSE last.out.operation = -1

\* A notification its card signed, that can be described, with the right
\* certificate or with none where none is needed, is accepted, unless memory
\* ran out; and "no" is never the answer to it then.
GenuineIsAccepted ==
  last # None /\ last.fn = "verify" /\ ~last.out_of_memory /\ last.ret # 0 =>
    LET m == last.message
    IN  \/ m = Undecodable
        \/ m.metadata.seqNumber = TooWide \/ m.metadata.iccid = NotTen
        \/ \A c \in Cards :
             \/ ~SignedBy(m, c)
             \/ m.arm = "result" /\ last.given # c
             \/ /\ m.arm = "other"
                /\ \/ m.euiccCertificate # c \/ ~Chains(m)
                   \/ last.given \notin {c, None}
=============================================================================
