------------------------------ MODULE DpSession ------------------------------
(***************************************************************************)
(* The SM-DP+ side of one or more RSP sessions, src/rsp_es9.c: the opaque  *)
(* rsp_dp_session_t and the functions of include/rsp.h that read or write  *)
(* it.  A step is one call of the library, from its first argument check   *)
(* to its return; the library keeps no state between calls other than the  *)
(* session objects.                                                        *)
(*                                                                         *)
(* Signatures are symbolic: a signature is the key that made it and the    *)
(* content it was made over, and it verifies against a certificate and a   *)
(* content exactly when both are those.  The caller is unconstrained: it   *)
(* may pass any readable message to any live session, in any order.  What  *)
(* honest eUICCs and a network add to that is module Download.             *)
(***************************************************************************)
EXTENDS Integers

CONSTANTS
  Sessions,          \* the session pointers the caller can hold
  Cards,             \* eUICCs; names a key pair and its CERT.EUICC.ECDSA
  EumTrusted,        \* cards whose CERT.EUM chains to the compiled-in CI
  EuiccTrusted,      \* cards whose CERT.EUICC chains to that CERT.EUM
  Eids,              \* EIDs a certificate can name
  DecimalEids,       \* the EIDs that are 32 decimal digits
  EidOf,             \* serialNumber of each card's certificate, or None
  TransactionIds, EuiccChallenges, ServerChallenges,
  Salts,             \* what tells two signatures over one content apart
  OneTimeKeys,       \* otPK.EUICC.ECKA values
  OneTimeSecrets,    \* otsk_dp values
  Metadata,          \* encodings AuthenticateClient accepts as metadata
  Profiles,          \* UPPs
  ZeroedHeap,        \* malloc happens to return zeroed memory
  MemoryMayFail,     \* an allocation may fail
  None,              \* NULL, or no value
  Installed, NotInstalled,   \* *installed after a genuine result
  Untouched,         \* the caller's out parameters still hold what they held
  Wild               \* what memory holds that nobody initialised

ASSUME CardsAssumption ==
  /\ EumTrusted \subseteq Cards
  /\ EuiccTrusted \subseteq Cards
  /\ DecimalEids \subseteq Eids
  /\ EidOf \in [Cards -> Eids \cup {None}]

ASSUME FlagsAssumption ==
  /\ ZeroedHeap \in BOOLEAN
  /\ MemoryMayFail \in BOOLEAN

ASSUME MarkersAssumption ==
  /\ Wild \notin Cards /\ Wild \notin Eids /\ Wild \notin Metadata
  /\ None \notin Cards /\ None \notin Eids /\ None \notin Metadata
  /\ None # Wild

-----------------------------------------------------------------------------
(* Messages *)

\* EuiccSigned1 as far as this library reads it, and a euiccSignature1.
EuiccSigned1s == [transactionId : TransactionIds, serverChallenge : ServerChallenges]
EuiccSignature1s == [key : Cards, over : EuiccSigned1s, salt : Salts]

\* smdpSignature2, over smdpSigned2 || euiccSignature1.  ccRequiredFlag is
\* always FALSE, so smdpSigned2 is its transactionId.
SmdpSignature2s ==
  [key : {"DPauth", "DPpb"},
   over : [transactionId : TransactionIds, euiccSignature1 : EuiccSignature1s]]

ASSUME SignaturesAssumption == Wild \notin SmdpSignature2s

\* EUICCSigned2, and a euiccSignature2 over euiccSigned2 || smdpSignature2.
EuiccSigned2s == [transactionId : TransactionIds, euiccOtpk : OneTimeKeys]
EuiccSignature2s ==
  [key : Cards,
   over : [euiccSigned2 : EuiccSigned2s, smdpSignature2 : SmdpSignature2s]]

\* ProfileInstallationResultData, and the euiccSignPIR over it.
ResultDatas == [transactionId : TransactionIds, success : BOOLEAN]
ResultSignatures == [key : Cards, over : ResultDatas]

\* The "Ok" arms of the three messages an eUICC sends.  None in a signature
\* field is an OCTET STRING that is not 64 octets long.
AuthenticateServerResponses ==
  [euiccSigned1 : EuiccSigned1s, euiccSignature1 : EuiccSignature1s \cup {None},
   euiccCertificate : Cards]
PrepareDownloadResponses ==
  [euiccSigned2 : EuiccSigned2s, euiccSignature2 : EuiccSignature2s \cup {None}]
ProfileInstallationResults ==
  [data : ResultDatas, euiccSignPIR : ResultSignatures \cup {None}]

\* What the library hands back.
InitiateAuthenticationOks ==
  [transactionId : TransactionIds, euiccChallenge : EuiccChallenges,
   serverChallenge : ServerChallenges, key : {"DPauth", "DPpb"}]
AuthenticateClientOks ==
  [transactionId : TransactionIds, profileMetaData : Metadata,
   smdpSignature2 : SmdpSignature2s]

\* rsp_session_init's key schedule as a function of its inputs.
SessionKeys == [otsk : OneTimeSecrets, otpk : OneTimeKeys, eid : Eids]

\* Octets nobody wrote are among those of an unwritten field.
Junk == IF ZeroedHeap THEN {} ELSE {Wild}

BoundProfilePackages ==
  [transactionId : TransactionIds, euiccOtpk : OneTimeKeys,
   smdpOtpk : OneTimeSecrets, key : {"DPauth", "DPpb"},
   protection : SessionKeys, metadata : Metadata \cup Junk, upp : Profiles]

-----------------------------------------------------------------------------
VARIABLES
  session,   \* session[s] is None, or the object s points to
  last,      \* the latest call: its function, session, return value, output
  crashed    \* a pointer nobody wrote was followed or freed, and the process
             \* did not survive it; nothing runs after that

vars == <<session, last, crashed>>

SessionObjects ==
  [transaction_id : TransactionIds,
   euicc_challenge : EuiccChallenges,
   server_challenge : ServerChallenges,
   authenticated : BOOLEAN,
   euicc_cert : Cards \cup {None} \cup Junk,
   eid : Eids \cup {None} \cup Junk,
   metadata : Metadata \cup {None} \cup Junk,
   smdp_signature2 : SmdpSignature2s \cup {None} \cup Junk,
   bpp_session : SessionKeys \cup {None} \cup Junk]

Functions == {"initiate", "authenticate", "getBpp", "verifyResult",
              "eid", "euiccCert", "free"}

Outputs == {Untouched, None, Wild, Installed, NotInstalled} \cup Eids \cup Cards
             \cup InitiateAuthenticationOks \cup AuthenticateClientOks
             \cup BoundProfilePackages

Calls == [fn : Functions, s : Sessions, ret : {0, -1, -2}, out : Outputs]

\* Session objects hold what struct rsp_dp_session can hold, and what malloc'ed
\* memory can hold in the fields nobody wrote; Wild only there.
TypeOK ==
  /\ session \in [Sessions -> SessionObjects \cup {None}]
  /\ last \in Calls \cup {None}
  /\ crashed \in BOOLEAN

Init ==
  /\ session = [s \in Sessions |-> None]
  /\ last = None
  /\ crashed = FALSE

Live(s) == session[s] # None

-----------------------------------------------------------------------------
(* Outcomes.  -1: the question was asked and the answer is no.  -2: it was *)
(* never reached, which covers arguments, undecodable or error-arm         *)
(* messages and internal failures alike, so it can meet any call.          *)

Returns(fn, s, ret, out) == last' = [fn |-> fn, s |-> s, ret |-> ret, out |-> out]

Reads(fn, s, ret, out) ==
  /\ Returns(fn, s, ret, out)
  /\ UNCHANGED <<session, crashed>>

Fails(fn, s, ret) == Reads(fn, s, ret, Untouched)

\* Following or freeing a pointer nobody wrote: one outcome is that the process
\* does not survive it.  The other outcomes stand beside each use of this one.
FollowsWild(fn, s) ==
  /\ crashed' = TRUE
  /\ Returns(fn, s, -2, Wild)
  /\ UNCHANGED session

-----------------------------------------------------------------------------
(* rsp_dp_initiate_authentication *)

StaleFields ==
  [authenticated : BOOLEAN, euicc_cert : {None, Wild}, eid : {None, Wild},
   metadata : {None, Wild}, smdp_signature2 : {Wild}, bpp_session : {Wild}]

\* What the fields the function never writes can hold in the malloc'ed block:
\* zeros, or Wild, which may read as anything (Views, below).
UnwrittenFields ==
  IF ZeroedHeap
  THEN [authenticated : {FALSE}, euicc_cert : {None}, eid : {None},
        metadata : {None}, smdp_signature2 : {None}, bpp_session : {None}]
  ELSE StaleFields

NewSession(t, ec, sc, f) ==
  [transaction_id |-> t, euicc_challenge |-> ec, server_challenge |-> sc,
   authenticated |-> f.authenticated, euicc_cert |-> f.euicc_cert,
   eid |-> f.eid, metadata |-> f.metadata,
   smdp_signature2 |-> f.smdp_signature2, bpp_session |-> f.bpp_session]

InitiateOk(t, ec, sc) ==
  [transactionId |-> t, euiccChallenge |-> ec, serverChallenge |-> sc, key |-> "DPauth"]

\* The requested address is compared before anything else is done.
InitiateRefused(s) == Fails("initiate", s, -1)

InitiateNotReached(s) ==
  \/ Fails("initiate", s, -2)
  \/ /\ MemoryMayFail     \* the response was encoded, the session not allocated
     /\ Reads("initiate", s, -2, None)

InitiateAuthentication(s, t, ec, sc, addressMatches) ==
  /\ ~Live(s)
  /\ \/ ~addressMatches /\ InitiateRefused(s)
     \/ InitiateNotReached(s)
     \/ /\ addressMatches
        /\ \E f \in UnwrittenFields :
             session' = [session EXCEPT ![s] = NewSession(t, ec, sc, f)]
        /\ Returns("initiate", s, 0, InitiateOk(t, ec, sc))
        /\ UNCHANGED crashed

-----------------------------------------------------------------------------
(* Reading a session object.  A field nobody wrote reads as anything of its *)
(* kind, the leavings of another session included, or as octets that are    *)
(* nothing of the kind, which Wild then stands for.                         *)

Readings(v, S) == IF v = Wild THEN S \cup {Wild} ELSE {v}

FieldReadings(o) ==
  [euicc_cert : Readings(o.euicc_cert, Cards), eid : Readings(o.eid, Eids),
   metadata : Readings(o.metadata, Metadata),
   smdp_signature2 : Readings(o.smdp_signature2, SmdpSignature2s)]

\* The objects a call may take o for.
Views(o) ==
  {[o EXCEPT !.euicc_cert = f.euicc_cert, !.eid = f.eid, !.metadata = f.metadata,
             !.smdp_signature2 = f.smdp_signature2] : f \in FieldReadings(o)}

-----------------------------------------------------------------------------
(* rsp_dp_authenticate_client *)

\* Mutant: the serverChallenge comparison is lost.
EchoesTransactionOnly(o, m) == m.euiccSigned1.transactionId = o.transaction_id

\* Mutant: neither comparison is made, the signature is trusted to tell.
EchoesAnything(o, m) == TRUE

EchoesSession(o, m) ==
  /\ m.euiccSigned1.transactionId = o.transaction_id
  /\ m.euiccSigned1.serverChallenge = o.server_challenge

ChainsToCi(c) == c \in EumTrusted /\ c \in EuiccTrusted

\* rsp_sign_verify answers 0 ...
Signature1Verifies(m) ==
  /\ m.euiccSignature1 # None
  /\ m.euiccSignature1.key = m.euiccCertificate
  /\ m.euiccSignature1.over = m.euiccSigned1

AuthenticateAccepts(o, m) ==
  /\ EchoesSession(o, m)
  /\ ChainsToCi(m.euiccCertificate)
  /\ Signature1Verifies(m)
  /\ EidOf[m.euiccCertificate] # None

\* ... and -1 also when mbedTLS runs out of memory inside a verification:
\* every non-zero answer of mbedtls_x509_crt_verify and mbedtls_ecdsa_verify
\* is taken for a "no".
AuthenticateRefuses(o, m) ==
  \/ ~EchoesSession(o, m)
  \/ ~ChainsToCi(m.euiccCertificate)
  \/ MemoryMayFail
  \/ m.euiccSignature1 # None /\ ~Signature1Verifies(m)

SmdpSignature2(o, m) ==
  [key |-> "DPpb",
   over |-> [transactionId |-> o.transaction_id, euiccSignature1 |-> m.euiccSignature1]]

AuthenticateClientOk(o, m, md) ==
  [transactionId |-> o.transaction_id, profileMetaData |-> md,
   smdpSignature2 |-> SmdpSignature2(o, m)]

\* Mutant: a second authentication leaves the first one's EID in place.
AuthenticatedKeepsEid(o, m, md) ==
  [o EXCEPT !.euicc_cert = m.euiccCertificate,
            !.eid = IF o.eid = None THEN EidOf[m.euiccCertificate] ELSE o.eid,
            !.metadata = md,
            !.smdp_signature2 = SmdpSignature2(o, m),
            !.authenticated = TRUE]

\* The commit block: everything the session learns, at once.
Authenticated(o, m, md) ==
  [o EXCEPT !.euicc_cert = m.euiccCertificate,
            !.eid = EidOf[m.euiccCertificate],
            !.metadata = md,
            !.smdp_signature2 = SmdpSignature2(o, m),
            !.authenticated = TRUE]

AuthenticateNotReached(s) ==
  \/ Fails("authenticate", s, -2)
  \/ /\ MemoryMayFail     \* the copies for the session could not be made
     /\ Reads("authenticate", s, -2, None)

AuthenticateClient(s, m, md) ==
  /\ Live(s)
  /\ LET o == session[s] IN
     \/ AuthenticateRefuses(o, m) /\ Fails("authenticate", s, -1)
     \/ AuthenticateNotReached(s)
     \/ /\ AuthenticateAccepts(o, m)
        /\ Wild \in {o.euicc_cert, o.metadata}    \* the old copies are freed
        /\ FollowsWild("authenticate", s)
     \/ /\ AuthenticateAccepts(o, m)
        /\ session' = [session EXCEPT ![s] = Authenticated(o, m, md)]
        /\ Returns("authenticate", s, 0, AuthenticateClientOk(o, m, md))
        /\ UNCHANGED crashed

-----------------------------------------------------------------------------
(* rsp_dp_get_bound_profile_package *)

\* Mutant: euiccSignature2 taken over euiccSigned2 alone.
Signature2OverBodyOnly(o, m) ==
  /\ m.euiccSignature2 # None
  /\ m.euiccSignature2.key = o.euicc_cert
  /\ m.euiccSignature2.over.euiccSigned2 = m.euiccSigned2

\* The signature is over the received euiccSigned2 and the smdpSignature2
\* this session kept, checked with the certificate this session kept.
Signature2Verifies(o, m) ==
  /\ m.euiccSignature2 # None
  /\ m.euiccSignature2.key = o.euicc_cert
  /\ m.euiccSignature2.over =
       [euiccSigned2 |-> m.euiccSigned2, smdpSignature2 |-> o.smdp_signature2]

GetBppAccepts(o, m) ==
  /\ o.authenticated
  /\ m.euiccSigned2.transactionId = o.transaction_id
  /\ Signature2Verifies(o, m)
  /\ o.eid \in DecimalEids
  /\ o.metadata # None

\* Mutant: the transactionId is looked at before the session's own state.
GetBppRefusesEarly(o, m) ==
  \/ m.euiccSigned2.transactionId # o.transaction_id
  \/ m.euiccSignature2 # None /\ ~Signature2Verifies(o, m)

\* rsp_sign_verify says -1 of a signature and -2 of a certificate it has not got.
GetBppRefuses(o, m) ==
  /\ o.authenticated
  /\ \/ m.euiccSigned2.transactionId # o.transaction_id
     \/ /\ m.euiccSignature2 # None
        /\ o.euicc_cert # None
        /\ ~Signature2Verifies(o, m) \/ MemoryMayFail

\* Mutant: a rebind keeps the EID of the keys the session already holds.
BppKeysStaleEid(o, m, otsk) ==
  [otsk |-> otsk, otpk |-> m.euiccSigned2.euiccOtpk,
   eid |-> IF o.bpp_session = None THEN o.eid ELSE o.bpp_session.eid]

BppKeys(o, m, otsk) ==
  [otsk |-> otsk, otpk |-> m.euiccSigned2.euiccOtpk, eid |-> o.eid]

\* Mutant: '88' carries a rebuilt StoreMetadataRequest, not the caller's.
BuiltBppOtherMetadata(o, m, otsk, upp) ==
  [transactionId |-> o.transaction_id, euiccOtpk |-> m.euiccSigned2.euiccOtpk,
   smdpOtpk |-> otsk, key |-> "DPpb", protection |-> BppKeys(o, m, otsk),
   metadata |-> CHOOSE md \in Metadata : md # o.metadata, upp |-> upp]

BuiltBpp(o, m, otsk, upp) ==
  [transactionId |-> o.transaction_id, euiccOtpk |-> m.euiccSigned2.euiccOtpk,
   smdpOtpk |-> otsk, key |-> "DPpb", protection |-> BppKeys(o, m, otsk),
   metadata |-> o.metadata, upp |-> upp]

GetBoundProfilePackage(s, m, otsk, upp) ==
  /\ Live(s)
  /\ LET o == session[s] IN
     \/ /\ o.authenticated
        /\ o.euicc_cert # None /\ Wild \in {o.euicc_cert, o.metadata}
        /\ m.euiccSigned2.transactionId = o.transaction_id
        /\ FollowsWild("getBpp", s)
     \/ /\ \E v \in Views(o) : GetBppRefuses(v, m)
        /\ Fails("getBpp", s, -1)
     \/ Fails("getBpp", s, -2)
     \/ \E v \in Views(o) :
          /\ GetBppAccepts(v, m)
          /\ session' = [session EXCEPT ![s].bpp_session = BppKeys(v, m, otsk)]
          /\ Returns("getBpp", s, 0, BuiltBpp(v, m, otsk, upp))
          /\ UNCHANGED crashed

-----------------------------------------------------------------------------
(* rsp_dp_verify_installation_result *)

ResultVerifies(o, m) ==
  /\ m.euiccSignPIR # None
  /\ m.euiccSignPIR.key = o.euicc_cert
  /\ m.euiccSignPIR.over = m.data

\* Mutant: any transaction's result of this eUICC will do.
VerifyAcceptsAnyTransaction(o, m) ==
  /\ o.authenticated /\ o.euicc_cert # None
  /\ ResultVerifies(o, m)

VerifyAccepts(o, m) ==
  /\ o.authenticated /\ o.euicc_cert # None
  /\ m.data.transactionId = o.transaction_id
  /\ ResultVerifies(o, m)

VerifyRefuses(o, m) ==
  /\ o.authenticated /\ o.euicc_cert # None
  /\ \/ m.data.transactionId # o.transaction_id
     \/ m.euiccSignPIR # None /\ ~ResultVerifies(o, m)
     \/ m.euiccSignPIR # None /\ MemoryMayFail

\* Mutant: a genuine report is taken for a report of success.
VerdictOnArrival(m) == Installed

Verdict(m) == IF m.data.success THEN Installed ELSE NotInstalled

VerifyInstallationResult(s, m) ==
  /\ Live(s)
  /\ LET o == session[s] IN
     \/ /\ o.authenticated /\ o.euicc_cert = Wild
        /\ m.data.transactionId = o.transaction_id
        /\ FollowsWild("verifyResult", s)
     \/ /\ \E v \in Views(o) : VerifyRefuses(v, m)
        /\ Fails("verifyResult", s, -1)
     \/ Fails("verifyResult", s, -2)
     \/ /\ \E v \in Views(o) : VerifyAccepts(v, m)
        /\ Reads("verifyResult", s, 0, Verdict(m))

-----------------------------------------------------------------------------
(* The accessors and the destructor *)

SessionEid(s, fits) ==
  /\ Live(s)
  /\ LET o == session[s]
         has == o.authenticated /\ o.eid # None /\ fits
     IN  \/ has /\ \E e \in Readings(o.eid, Eids) : Reads("eid", s, 0, e)
         \/ ~has /\ Fails("eid", s, -1)

SessionEuiccCert(s) ==
  /\ Live(s)
  /\ LET o == session[s] IN
     \/ /\ o.euicc_cert # None
        /\ \E c \in Readings(o.euicc_cert, Cards) : Reads("euiccCert", s, 0, c)
     \/ /\ o.euicc_cert \in {None, Wild}     \* a length nobody wrote may be 0
        /\ Fails("euiccCert", s, -1)

SessionFree(s) ==
  /\ Live(s)
  /\ \/ /\ Wild \in {session[s].euicc_cert, session[s].metadata}
        /\ FollowsWild("free", s)
     \/ /\ session' = [session EXCEPT ![s] = None]
        /\ Returns("free", s, 0, Untouched)
        /\ UNCHANGED crashed

-----------------------------------------------------------------------------
Next ==
  /\ ~crashed
  /\ \E s \in Sessions :
     \/ \E t \in TransactionIds, ec \in EuiccChallenges, sc \in ServerChallenges,
           addressMatches \in BOOLEAN :
          InitiateAuthentication(s, t, ec, sc, addressMatches)
     \/ \E m \in AuthenticateServerResponses, md \in Metadata :
          AuthenticateClient(s, m, md)
     \/ \E m \in PrepareDownloadResponses, otsk \in OneTimeSecrets, upp \in Profiles :
          GetBoundProfilePackage(s, m, otsk, upp)
     \/ \E m \in ProfileInstallationResults : VerifyInstallationResult(s, m)
     \/ \E fits \in BOOLEAN : SessionEid(s, fits)
     \/ SessionEuiccCert(s)
     \/ SessionFree(s)

Spec == Init /\ [][Next]_vars

-----------------------------------------------------------------------------
(* Properties *)

\* What an authenticated session keeps belongs together, also after it was
\* authenticated again with another card's answer: the certificate chains,
\* the kept smdpSignature2 covers that card's signature over this session's
\* transactionId and serverChallenge, the EID is that certificate's.
Consistent(o) ==
  LET sig1 == o.smdp_signature2.over.euiccSignature1 IN
  /\ o.smdp_signature2 \in SmdpSignature2s
  /\ o.smdp_signature2.key = "DPpb"
  /\ o.smdp_signature2.over.transactionId = o.transaction_id
  /\ o.metadata \in Metadata
  /\ o.eid \in Eids
  /\ ChainsToCi(o.euicc_cert)
  /\ o.eid = EidOf[o.euicc_cert]
  /\ sig1 \in EuiccSignature1s
  /\ sig1.key = o.euicc_cert
  /\ sig1.over = [transactionId |-> o.transaction_id,
                  serverChallenge |-> o.server_challenge]

AuthenticatedIsProven ==
  \A s \in Sessions : Live(s) /\ session[s].authenticated => Consistent(session[s])

\* One successful AuthenticateClient leaves nothing of what the heap held: a
\* session that holds the certificate of the card that answered it is
\* authenticated, and flag, EID, metadata and smdpSignature2 are of that same
\* answer, whatever malloc returned and whatever ran on the session before.
ProvenOnceAuthenticated ==
  \A s \in Sessions :
    Live(s) /\ session[s].euicc_cert \in Cards =>
      session[s].authenticated /\ Consistent(session[s])

\* A BPP that was handed out is the one the session's keys protect: what
\* InitialiseSecureChannel announces is what the keys were derived from, for
\* the card the session is authenticated with, and '88' carries the metadata
\* AuthenticateClient last echoed.
BppMatchesSession ==
  last # None /\ last.fn = "getBpp" /\ last.ret = 0 =>
      LET b == last.out
          o == session[last.s]
      IN  /\ b.protection = o.bpp_session
          /\ b.protection = [otsk |-> b.smdpOtpk, otpk |-> b.euiccOtpk,
                             eid |-> EidOf[o.euicc_cert]]
          /\ b.transactionId = o.transaction_id
          /\ b.metadata = o.metadata

\* rsp_dp_session_eid hands out an EID only of a session AuthenticateClient has
\* succeeded on (rsp.h: -1 when it "has not yet succeeded on this session").
EidOnlyAfterAuthentication ==
  last # None /\ last.fn = "eid" /\ last.ret = 0 => Consistent(session[last.s])

\* A call that fails leaves the caller's out parameters alone (rsp.h: "On
\* either, *out / *resp / *resp_len are untouched").
OutUntouchedOnFailure ==
  last # None /\ last.ret # 0 => last.out = Untouched

\* A session nobody authenticated answers "never reached", not "no", to the
\* calls that need the eUICC's key, and has no EID and no certificate.
NothingBeforeAuthentication ==
  [][\A s \in Sessions :
       Live(s) /\ ~session[s].authenticated /\ last'.s = s =>
         /\ last'.fn \in {"getBpp", "verifyResult"} => last'.ret = -2
         /\ last'.fn \in {"eid", "euiccCert"} => last'.ret = -1]_vars

=============================================================================
