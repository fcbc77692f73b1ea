-------------------------- MODULE DpSessionProofs --------------------------
(***************************************************************************)
(* Proofs about DpSession, for any number of sessions, cards and messages. *)
(*                                                                         *)
(* AuthenticatedIsProven is not inductive: the fields authenticated speaks *)
(* about are written elsewhere than it is.  What is inductive is anchored  *)
(* in the certificate: a session holding a card's certificate went through *)
(* the commit block of rsp_dp_authenticate_client, whatever malloc         *)
(* returned, and on a zeroed heap authenticated means there is one.  On    *)
(* any other heap an unwritten field reads as anything (Views), so only    *)
(* what that commit block wrote can be relied on.                          *)
(***************************************************************************)
EXTENDS DpSession, TLAPS

Anchored(o) ==
  /\ o.euicc_cert \in Cards => o.authenticated /\ Consistent(o)
  /\ ZeroedHeap => o.euicc_cert = None \/ o.euicc_cert \in Cards
  /\ ZeroedHeap => (o.authenticated => o.euicc_cert \in Cards)

AllAnchored == \A s \in Sessions : Live(s) => Anchored(session[s])

IInv == TypeOK /\ AllAnchored

-----------------------------------------------------------------------------
(* What one call makes of a session object *)

\* The malloc'ed block is a session object that belongs to no card.
LEMMA NewSessionAnchored ==
  ASSUME NEW t \in TransactionIds, NEW ec \in EuiccChallenges,
         NEW sc \in ServerChallenges, NEW f \in UnwrittenFields
  PROVE  /\ NewSession(t, ec, sc, f) \in SessionObjects
         /\ Anchored(NewSession(t, ec, sc, f))
<1> DEFINE o == NewSession(t, ec, sc, f)
<1>1. CASE ZeroedHeap
  <2>1. f \in [authenticated : {FALSE}, euicc_cert : {None}, eid : {None},
               metadata : {None}, smdp_signature2 : {None}, bpp_session : {None}]
    BY <1>1 DEF UnwrittenFields
  <2>2. o \in SessionObjects
    BY <2>1 DEF NewSession, SessionObjects
  <2>3. o.euicc_cert = None /\ o.authenticated = FALSE
    BY <2>1 DEF NewSession
  <2> QED BY <2>2, <2>3, MarkersAssumption DEF Anchored
<1>2. CASE ~ZeroedHeap
  <2>1. f \in StaleFields
    BY <1>2 DEF UnwrittenFields
  <2>2. o \in SessionObjects
    BY <1>2, <2>1 DEF StaleFields, NewSession, SessionObjects, Junk
  <2>3. o.euicc_cert \in {None, Wild}
    BY <2>1 DEF StaleFields, NewSession
  <2> QED BY <1>2, <2>2, <2>3, MarkersAssumption DEF Anchored
<1> QED BY <1>1, <1>2

\* The commit block makes any session object consistent, an anchored one or not.
LEMMA AuthenticatedConsistent ==
  ASSUME NEW o \in SessionObjects, NEW m \in AuthenticateServerResponses,
         NEW md \in Metadata, AuthenticateAccepts(o, m)
  PROVE  /\ Authenticated(o, m, md) \in SessionObjects
         /\ Consistent(Authenticated(o, m, md))
         /\ Authenticated(o, m, md).euicc_cert \in Cards
         /\ Authenticated(o, m, md).authenticated
         /\ SmdpSignature2(o, m) \in SmdpSignature2s
<1> DEFINE n == Authenticated(o, m, md)
<1>1. /\ m.euiccSigned1 \in EuiccSigned1s
      /\ m.euiccSignature1 \in EuiccSignature1s
      /\ m.euiccCertificate \in Cards
  BY DEF AuthenticateAccepts, Signature1Verifies, AuthenticateServerResponses
<1>2. o.transaction_id \in TransactionIds /\ o.server_challenge \in ServerChallenges
  BY DEF SessionObjects
<1>3. SmdpSignature2(o, m) \in SmdpSignature2s
  BY <1>1, <1>2 DEF SmdpSignature2, SmdpSignature2s
<1>4. EidOf[m.euiccCertificate] \in Eids
  BY <1>1, CardsAssumption DEF AuthenticateAccepts
<1>5. n \in SessionObjects
  BY <1>1, <1>3, <1>4 DEF Authenticated, SessionObjects
<1>6. /\ n.euicc_cert = m.euiccCertificate
      /\ n.eid = EidOf[m.euiccCertificate]
      /\ n.metadata = md
      /\ n.smdp_signature2 = SmdpSignature2(o, m)
      /\ n.transaction_id = o.transaction_id
      /\ n.server_challenge = o.server_challenge
      /\ n.authenticated
  BY DEF Authenticated, SessionObjects
<1>7. m.euiccSigned1 = [transactionId |-> o.transaction_id,
                        serverChallenge |-> o.server_challenge]
  BY <1>1, <1>2 DEF EuiccSigned1s, AuthenticateAccepts, EchoesSession
<1>8. /\ n.smdp_signature2.key = "DPpb"
      /\ n.smdp_signature2.over.transactionId = n.transaction_id
      /\ n.smdp_signature2.over.euiccSignature1 = m.euiccSignature1
  BY <1>6 DEF SmdpSignature2
<1>9. Consistent(n)
  BY <1>1, <1>3, <1>4, <1>6, <1>7, <1>8
  DEF Consistent, AuthenticateAccepts, Signature1Verifies
<1> QED BY <1>1, <1>3, <1>5, <1>6, <1>9

\* A view differs from the object in unwritten fields only, and reads them as
\* something of their kind or as no such thing.
LEMMA ViewFields ==
  ASSUME NEW o \in SessionObjects, NEW v \in Views(o)
  PROVE  /\ v.authenticated = o.authenticated
         /\ v.transaction_id = o.transaction_id
         /\ v.metadata \in Metadata \cup {None} \cup Junk
<1>1. PICK f \in FieldReadings(o) :
        v = [o EXCEPT !.euicc_cert = f.euicc_cert, !.eid = f.eid,
                      !.metadata = f.metadata, !.smdp_signature2 = f.smdp_signature2]
  BY DEF Views
<1>2. /\ v.authenticated = o.authenticated
      /\ v.transaction_id = o.transaction_id
      /\ v.metadata = f.metadata
  BY <1>1 DEF SessionObjects
<1>3. o.metadata \in Metadata \cup {None} \cup Junk
  BY DEF SessionObjects
<1>4. f.metadata \in Metadata \cup {None} \cup Junk
  BY <1>3, MarkersAssumption DEF FieldReadings, Readings
<1> QED BY <1>2, <1>4

\* A consistent object has no unwritten field, so it is read as it is.
LEMMA ConsistentReadsAsItIs ==
  ASSUME NEW o \in SessionObjects, o.euicc_cert \in Cards, Consistent(o),
         NEW v \in Views(o)
  PROVE  v = o
<1>1. PICK f \in FieldReadings(o) :
        v = [o EXCEPT !.euicc_cert = f.euicc_cert, !.eid = f.eid,
                      !.metadata = f.metadata, !.smdp_signature2 = f.smdp_signature2]
  BY DEF Views
<1>2. /\ o.eid \in Eids /\ o.metadata \in Metadata
      /\ o.smdp_signature2 \in SmdpSignature2s
  BY DEF Consistent
<1>3. /\ f.euicc_cert = o.euicc_cert /\ f.eid = o.eid /\ f.metadata = o.metadata
      /\ f.smdp_signature2 = o.smdp_signature2
  BY <1>2, MarkersAssumption, SignaturesAssumption DEF FieldReadings, Readings
<1> QED BY <1>1, <1>3 DEF SessionObjects

\* If malloc's memory is zeroed, an authenticated session is consistent and is
\* read as it is.
LEMMA AuthenticatedReadsAsItIs ==
  ASSUME ZeroedHeap, IInv, NEW s \in Sessions, Live(s), session[s].authenticated,
         NEW v \in Views(session[s])
  PROVE  v = session[s] /\ session[s].euicc_cert \in Cards /\ Consistent(session[s])
<1>1. session[s] \in SessionObjects /\ Anchored(session[s])
  BY DEF IInv, TypeOK, AllAnchored, Live
<1>2. session[s].euicc_cert \in Cards /\ Consistent(session[s])
  BY <1>1 DEF Anchored
<1> QED BY <1>1, <1>2, ConsistentReadsAsItIs

\* The session that was bound is the one that was authenticated.
LEMMA BoundConsistent ==
  ASSUME NEW o \in SessionObjects, Consistent(o), NEW k \in SessionKeys
  PROVE  /\ [o EXCEPT !.bpp_session = k] \in SessionObjects
         /\ Consistent([o EXCEPT !.bpp_session = k])
<1>1. [o EXCEPT !.bpp_session = k] \in SessionObjects
  BY DEF SessionObjects
<1>2. Consistent([o EXCEPT !.bpp_session = k])
  BY DEF Consistent, SessionObjects
<1> QED BY <1>1, <1>2

\* A call that reads a session.
LEMMA ReadsKeeps ==
  ASSUME IInv, NEW fn \in Functions, NEW s \in Sessions, NEW ret \in {0, -1, -2},
         NEW out \in Outputs, Reads(fn, s, ret, out)
  PROVE  IInv'
<1>1. TypeOK'
  BY DEF IInv, TypeOK, Reads, Returns, Calls
<1>2. AllAnchored'
  BY DEF IInv, AllAnchored, Live, Anchored, Consistent, Reads
<1> QED BY <1>1, <1>2 DEF IInv

\* A call that fails; Untouched is among the outputs.
LEMMA FailsKeeps ==
  ASSUME IInv, NEW fn \in Functions, NEW s \in Sessions, NEW ret \in {-1, -2},
         Fails(fn, s, ret)
  PROVE  IInv'
BY ReadsKeeps DEF Fails, Outputs

\* A call that follows a wild pointer leaves the session objects as they were.
LEMMA FollowsWildKeeps ==
  ASSUME IInv, NEW fn \in Functions, NEW s \in Sessions, FollowsWild(fn, s)
  PROVE  IInv'
<1>1. TypeOK'
  BY DEF IInv, TypeOK, FollowsWild, Returns, Calls, Outputs
<1>2. AllAnchored'
  BY DEF IInv, AllAnchored, Live, Anchored, Consistent, FollowsWild
<1> QED BY <1>1, <1>2 DEF IInv

\* A call that replaces one session object by another, anchored one.
LEMMA ReplacesKeeps ==
  ASSUME IInv, NEW fn \in Functions, NEW s \in Sessions, NEW o \in SessionObjects,
         NEW out \in Outputs, Anchored(o), UNCHANGED crashed,
         session' = [session EXCEPT ![s] = o], Returns(fn, s, 0, out)
  PROVE  IInv'
<1>0. session \in [Sessions -> SessionObjects \cup {None}]
  BY DEF IInv, TypeOK
<1>1. TypeOK'
  BY <1>0 DEF IInv, TypeOK, Returns, Calls
<1>2. session'[s] = o /\ \A r \in Sessions : r # s => session'[r] = session[r]
  BY <1>0
<1>3. AllAnchored'
  <2> SUFFICES ASSUME NEW r \in Sessions, session'[r] # None
               PROVE  Anchored(session'[r])
    BY DEF AllAnchored, Live, Anchored, Consistent
  <2> QED BY <1>2 DEF IInv, AllAnchored, Live
<1> QED BY <1>1, <1>3 DEF IInv

-----------------------------------------------------------------------------
(* One lemma per call of the library *)

\* rsp_dp_initiate_authentication: a new object belongs to no card, a failure
\* leaves the sessions alone.
LEMMA InitiateKeeps ==
  ASSUME IInv, NEW s \in Sessions, NEW t \in TransactionIds,
         NEW ec \in EuiccChallenges, NEW sc \in ServerChallenges,
         NEW addressMatches \in BOOLEAN,
         InitiateAuthentication(s, t, ec, sc, addressMatches)
  PROVE  IInv'
<1>1. "initiate" \in Functions /\ None \in Outputs
  BY DEF Functions, Outputs
<1>2. CASE InitiateRefused(s)
  BY <1>1, <1>2, FailsKeeps DEF InitiateRefused
<1>3. CASE InitiateNotReached(s)
  BY <1>1, <1>3, FailsKeeps, ReadsKeeps DEF InitiateNotReached
<1>4. CASE /\ \E f \in UnwrittenFields :
                session' = [session EXCEPT ![s] = NewSession(t, ec, sc, f)]
           /\ Returns("initiate", s, 0, InitiateOk(t, ec, sc))
           /\ UNCHANGED crashed
  <2>1. PICK f \in UnwrittenFields :
          session' = [session EXCEPT ![s] = NewSession(t, ec, sc, f)]
    BY <1>4
  <2>2. InitiateOk(t, ec, sc) \in Outputs
    BY DEF InitiateOk, InitiateAuthenticationOks, Outputs
  <2> QED BY <1>1, <1>4, <2>1, <2>2, NewSessionAnchored, ReplacesKeeps
<1> QED BY <1>2, <1>3, <1>4 DEF InitiateAuthentication

\* rsp_dp_authenticate_client: the commit block leaves a consistent session,
\* every other return the session as it was.
LEMMA AuthenticateKeeps ==
  ASSUME IInv, NEW s \in Sessions, NEW m \in AuthenticateServerResponses,
         NEW md \in Metadata, AuthenticateClient(s, m, md)
  PROVE  IInv'
<1> DEFINE o == session[s]
<1>0. o \in SessionObjects
  BY DEF IInv, TypeOK, AuthenticateClient, Live
<1>1. "authenticate" \in Functions /\ None \in Outputs
  BY DEF Functions, Outputs
<1>2. CASE Fails("authenticate", s, -1)
  BY <1>1, <1>2, FailsKeeps
<1>3. CASE AuthenticateNotReached(s)
  BY <1>1, <1>3, FailsKeeps, ReadsKeeps DEF AuthenticateNotReached
<1>4. CASE FollowsWild("authenticate", s)
  BY <1>1, <1>4, FollowsWildKeeps
<1>5. CASE /\ AuthenticateAccepts(o, m)
           /\ session' = [session EXCEPT ![s] = Authenticated(o, m, md)]
           /\ Returns("authenticate", s, 0, AuthenticateClientOk(o, m, md))
           /\ UNCHANGED crashed
  <2>1. /\ Authenticated(o, m, md) \in SessionObjects
        /\ Consistent(Authenticated(o, m, md))
        /\ Authenticated(o, m, md).euicc_cert \in Cards
        /\ Authenticated(o, m, md).authenticated
        /\ SmdpSignature2(o, m) \in SmdpSignature2s
    BY <1>0, <1>5, AuthenticatedConsistent
  <2>2. AuthenticateClientOk(o, m, md) \in Outputs
    BY <1>0, <2>1 DEF AuthenticateClientOk, AuthenticateClientOks, SessionObjects, Outputs
  <2>3. Anchored(Authenticated(o, m, md))
    BY <2>1 DEF Anchored
  <2> QED BY <1>1, <1>5, <2>1, <2>2, <2>3, ReplacesKeeps
<1> QED BY <1>2, <1>3, <1>4, <1>5 DEF AuthenticateClient

\* Whatever the call takes the object for, package and keys have their types.
LEMMA BuiltBppType ==
  ASSUME NEW o \in SessionObjects, NEW v \in Views(o),
         NEW m \in PrepareDownloadResponses, GetBppAccepts(v, m),
         NEW otsk \in OneTimeSecrets, NEW upp \in Profiles
  PROVE  /\ BppKeys(v, m, otsk) \in SessionKeys
         /\ BuiltBpp(v, m, otsk, upp) \in BoundProfilePackages
<1>1. m.euiccSigned2.euiccOtpk \in OneTimeKeys
  BY DEF PrepareDownloadResponses, EuiccSigned2s
<1>2. v.eid \in Eids /\ v.metadata \in Metadata \cup Junk
  BY ViewFields, CardsAssumption DEF GetBppAccepts
<1>3. v.transaction_id \in TransactionIds
  BY ViewFields DEF SessionObjects
<1>4. BppKeys(v, m, otsk) \in SessionKeys
  BY <1>1, <1>2 DEF BppKeys, SessionKeys
<1>5. BuiltBpp(v, m, otsk, upp) \in BoundProfilePackages
  BY <1>1, <1>2, <1>3, <1>4 DEF BuiltBpp, BoundProfilePackages
<1> QED BY <1>4, <1>5

\* rsp_dp_get_bound_profile_package changes bpp_session only.
LEMMA GetBppKeeps ==
  ASSUME IInv, NEW s \in Sessions, NEW m \in PrepareDownloadResponses,
         NEW otsk \in OneTimeSecrets, NEW upp \in Profiles,
         GetBoundProfilePackage(s, m, otsk, upp)
  PROVE  IInv'
<1> DEFINE o == session[s]
<1>0. o \in SessionObjects
  BY DEF IInv, TypeOK, GetBoundProfilePackage, Live
<1>1. "getBpp" \in Functions
  BY DEF Functions
<1>2. CASE FollowsWild("getBpp", s)
  BY <1>1, <1>2, FollowsWildKeeps
<1>3. CASE Fails("getBpp", s, -1)
  BY <1>1, <1>3, FailsKeeps
<1>4. CASE Fails("getBpp", s, -2)
  BY <1>1, <1>4, FailsKeeps
<1>5. ASSUME NEW v \in Views(o), GetBppAccepts(v, m),
             session' = [session EXCEPT ![s].bpp_session = BppKeys(v, m, otsk)],
             Returns("getBpp", s, 0, BuiltBpp(v, m, otsk, upp)),
             UNCHANGED crashed
      PROVE  IInv'
  <2>1. BppKeys(v, m, otsk) \in SessionKeys /\ BuiltBpp(v, m, otsk, upp) \in Outputs
    BY <1>0, <1>5, BuiltBppType DEF Outputs
  <2> DEFINE n == [o EXCEPT !.bpp_session = BppKeys(v, m, otsk)]
  <2>2. n \in SessionObjects
    BY <1>0, <2>1 DEF SessionObjects
  <2>3. Anchored(n)
    <3>1. Anchored(o)
      BY DEF IInv, AllAnchored, GetBoundProfilePackage
    <3>2. n.euicc_cert = o.euicc_cert /\ n.authenticated = o.authenticated
      BY <1>0 DEF SessionObjects
    <3>3. Consistent(o) => Consistent(n)
      BY <1>0, <2>1, BoundConsistent
    <3> QED BY <3>1, <3>2, <3>3 DEF Anchored
  <2>4. session' = [session EXCEPT ![s] = n]
    BY <1>5 DEF IInv, TypeOK
  <2> QED BY <1>1, <1>5, <2>1, <2>2, <2>3, <2>4, ReplacesKeeps
<1> QED BY <1>2, <1>3, <1>4, <1>5 DEF GetBoundProfilePackage

\* rsp_dp_verify_installation_result changes nothing.
LEMMA VerifyKeeps ==
  ASSUME IInv, NEW s \in Sessions, NEW m \in ProfileInstallationResults,
         VerifyInstallationResult(s, m)
  PROVE  IInv'
<1> DEFINE o == session[s]
<1>0. o \in SessionObjects
  BY DEF IInv, TypeOK, VerifyInstallationResult, Live
<1>1. "verifyResult" \in Functions /\ Verdict(m) \in Outputs
  BY DEF Functions, Verdict, Outputs
<1>2. CASE FollowsWild("verifyResult", s)
  BY <1>1, <1>2, FollowsWildKeeps
<1>3. CASE Fails("verifyResult", s, -1)
  BY <1>1, <1>3, FailsKeeps
<1>4. CASE Fails("verifyResult", s, -2)
  BY <1>1, <1>4, FailsKeeps
<1>5. CASE Reads("verifyResult", s, 0, Verdict(m))
  BY <1>1, <1>5, ReadsKeeps
<1> QED BY <1>2, <1>3, <1>4, <1>5 DEF VerifyInstallationResult

\* rsp_dp_session_eid and rsp_dp_session_euicc_cert only read.
LEMMA AccessorsKeep ==
  ASSUME IInv, NEW s \in Sessions,
         (\E fits \in BOOLEAN : SessionEid(s, fits)) \/ SessionEuiccCert(s)
  PROVE  IInv'
<1> DEFINE o == session[s]
<1>1. "eid" \in Functions /\ "euiccCert" \in Functions
  BY DEF Functions
<1>2. o \in SessionObjects
  BY DEF IInv, TypeOK, SessionEid, SessionEuiccCert, Live
<1>3. CASE \E fits \in BOOLEAN : SessionEid(s, fits)
  <2>1. ASSUME o.eid # None, NEW e \in Readings(o.eid, Eids), Reads("eid", s, 0, e)
        PROVE  IInv'
    <3>1. e \in Outputs
      BY <1>2, <2>1 DEF SessionObjects, Junk, Readings, Outputs
    <3> QED BY <1>1, <2>1, <3>1, ReadsKeeps
  <2>2. CASE Fails("eid", s, -1)
    BY <1>1, <2>2, FailsKeeps
  <2> QED BY <1>3, <2>1, <2>2 DEF SessionEid
<1>4. CASE SessionEuiccCert(s)
  <2>1. ASSUME o.euicc_cert # None, NEW c \in Readings(o.euicc_cert, Cards),
               Reads("euiccCert", s, 0, c)
        PROVE  IInv'
    <3>1. c \in Outputs
      BY <1>2, <2>1 DEF SessionObjects, Junk, Readings, Outputs
    <3> QED BY <1>1, <2>1, <3>1, ReadsKeeps
  <2>2. CASE Fails("euiccCert", s, -1)
    BY <1>1, <2>2, FailsKeeps
  <2> QED BY <1>4, <2>1, <2>2 DEF SessionEuiccCert
<1> QED BY <1>3, <1>4

\* rsp_dp_session_free: a session that is gone constrains nothing.
LEMMA FreeKeeps ==
  ASSUME IInv, NEW s \in Sessions, SessionFree(s)
  PROVE  IInv'
<1>1. "free" \in Functions
  BY DEF Functions
<1>2. CASE FollowsWild("free", s)
  BY <1>1, <1>2, FollowsWildKeeps
<1>3. CASE /\ session' = [session EXCEPT ![s] = None]
           /\ Returns("free", s, 0, Untouched)
           /\ UNCHANGED crashed
  <2>1. TypeOK'
    BY <1>1, <1>3 DEF IInv, TypeOK, Returns, Calls, Outputs
  <2>2. AllAnchored'
    BY <1>3 DEF IInv, TypeOK, AllAnchored, Live, Anchored, Consistent
  <2> QED BY <2>1, <2>2 DEF IInv
<1> QED BY <1>2, <1>3 DEF SessionFree

-----------------------------------------------------------------------------
(* The invariant *)

\* A call on session s.
NextStep(s) ==
  \/ \E t \in TransactionIds, ec \in EuiccChallenges, sc \in ServerChallenges,
        addressMatches \in BOOLEAN :
       InitiateAuthentication(s, t, ec, sc, addressMatches)
  \/ \E m \in AuthenticateServerResponses, md \in Metadata :
       AuthenticateClient(s, m, md)
  \/ \E m \in PrepareDownloadResponses, otsk \in OneTimeSecrets, upp \in Profiles :
       GetBoundProfilePackage(s, m, otsk, upp)
  \/ \E m \in ProfileInstallationResults : VerifyInstallationResult(s, m)
  \/ \E fits \in BOOLEAN : SessionEid(s, fits)
  \/ SessionEuiccCert(s)
  \/ SessionFree(s)

\* Before the first call there is no session.
LEMMA InitIInv == Init => IInv
<1> SUFFICES ASSUME Init PROVE IInv
  OBVIOUS
<1>1. TypeOK
  BY DEF Init, TypeOK
<1>2. AllAnchored
  BY DEF Init, AllAnchored, Live
<1> QED BY <1>1, <1>2 DEF IInv

\* Whatever is called, the invariant survives it.
LEMMA NextIInv == IInv /\ [Next]_vars => IInv'
<1> SUFFICES ASSUME IInv, [Next]_vars PROVE IInv'
  OBVIOUS
<1>1. CASE UNCHANGED vars
  BY <1>1 DEF vars, IInv, TypeOK, AllAnchored, Live, Anchored, Consistent
<1>2. CASE Next
  <2>1. PICK s \in Sessions : NextStep(s)
    BY <1>2 DEF Next, NextStep
  <2> QED BY <2>1, InitiateKeeps, AuthenticateKeeps, GetBppKeeps, VerifyKeeps,
             AccessorsKeep, FreeKeeps DEF NextStep
<1> QED BY <1>1, <1>2

\* The inductive invariant holds in every behaviour of the library.
LEMMA InvariantHolds == Spec => []IInv
<1>1. Init => IInv
  BY InitIInv
<1>2. IInv /\ [Next]_vars => IInv'
  BY NextIInv
<1> QED BY <1>1, <1>2, PTL DEF Spec

\* Every session object, and everything the library returns, has its type,
\* whatever the heap held and however calls and messages are mixed.
THEOREM TypeCorrect == Spec => []TypeOK
<1>1. IInv => TypeOK
  BY DEF IInv
<1> QED BY <1>1, InvariantHolds, PTL

\* Whatever malloc returned, one success of rsp_dp_authenticate_client leaves
\* nothing of it: flag, certificate, EID, metadata and smdpSignature2 are all of
\* one card's answer to this session, and stay so.
THEOREM ProvenOnce == Spec => []ProvenOnceAuthenticated
<1>1. IInv => ProvenOnceAuthenticated
  BY DEF IInv, AllAnchored, Anchored, ProvenOnceAuthenticated
<1> QED BY <1>1, InvariantHolds, PTL

\* If malloc's memory is zeroed, what rsp_dp_authenticate_client commits is
\* consistent and stays so until it is committed again as a whole.
THEOREM AuthenticatedProven == ZeroedHeap => (Spec => []AuthenticatedIsProven)
<1> SUFFICES ASSUME ZeroedHeap PROVE Spec => []AuthenticatedIsProven
  OBVIOUS
<1>1. IInv => AuthenticatedIsProven
  BY DEF IInv, AllAnchored, Anchored, AuthenticatedIsProven
<1> QED BY <1>1, InvariantHolds, PTL

-----------------------------------------------------------------------------
(* What a step may not do *)

\* A session that is not authenticated is asked, and says that the question
\* was never reached, or that it has nothing to show.
LEMMA StepNothingBeforeAuthentication ==
  ASSUME ZeroedHeap, IInv, NEW r \in Sessions, NextStep(r), NEW s \in Sessions,
         Live(s), ~session[s].authenticated, last'.s = s
  PROVE  /\ last'.fn \in {"getBpp", "verifyResult"} => last'.ret = -2
         /\ last'.fn \in {"eid", "euiccCert"} => last'.ret = -1
<1> DEFINE Goal ==
      /\ last'.fn \in {"getBpp", "verifyResult"} => last'.ret = -2
      /\ last'.fn \in {"eid", "euiccCert"} => last'.ret = -1
<1> SUFFICES Goal
  OBVIOUS
<1>0. session[s].euicc_cert = None
  BY DEF IInv, AllAnchored, Anchored
<1>01. session[s] \in SessionObjects
  BY DEF IInv, TypeOK, Live
<1>1. ASSUME NEW t \in TransactionIds, NEW ec \in EuiccChallenges,
             NEW sc \in ServerChallenges, NEW addressMatches \in BOOLEAN,
             InitiateAuthentication(r, t, ec, sc, addressMatches)
      PROVE  Goal
  BY <1>1 DEF InitiateAuthentication, InitiateRefused, InitiateNotReached, Fails,
              Reads, Returns
<1>2. ASSUME NEW m \in AuthenticateServerResponses, NEW md \in Metadata,
             AuthenticateClient(r, m, md)
      PROVE  Goal
  BY <1>2 DEF AuthenticateClient, AuthenticateNotReached, Fails, Reads, Returns,
              FollowsWild
<1>3. ASSUME NEW m \in PrepareDownloadResponses, NEW otsk \in OneTimeSecrets,
             NEW upp \in Profiles, GetBoundProfilePackage(r, m, otsk, upp)
      PROVE  Goal
  <2>1. \A v \in Views(session[s]) : ~GetBppRefuses(v, m) /\ ~GetBppAccepts(v, m)
    BY <1>01, ViewFields DEF GetBppRefuses, GetBppAccepts
  <2> QED BY <1>3, <2>1 DEF GetBoundProfilePackage, Fails, Reads, Returns, FollowsWild
<1>4. ASSUME NEW m \in ProfileInstallationResults, VerifyInstallationResult(r, m)
      PROVE  Goal
  <2>1. \A v \in Views(session[s]) : ~VerifyRefuses(v, m) /\ ~VerifyAccepts(v, m)
    BY <1>01, ViewFields DEF VerifyRefuses, VerifyAccepts
  <2> QED BY <1>4, <2>1 DEF VerifyInstallationResult, Fails, Reads, Returns, FollowsWild
<1>5. CASE \E fits \in BOOLEAN : SessionEid(r, fits)
  BY <1>5 DEF SessionEid, Fails, Reads, Returns
<1>6. CASE SessionEuiccCert(r)
  BY <1>0, <1>6 DEF SessionEuiccCert, Fails, Reads, Returns
<1>7. CASE SessionFree(r)
  BY <1>7 DEF SessionFree, FollowsWild, Returns
<1> QED BY <1>1, <1>2, <1>3, <1>4, <1>5, <1>6, <1>7 DEF NextStep

\* If malloc's memory is zeroed, a session nobody authenticated gives nothing
\* away and refuses nobody.
THEOREM NothingEarly == ZeroedHeap => (Spec => NothingBeforeAuthentication)
<1> SUFFICES ASSUME ZeroedHeap PROVE Spec => NothingBeforeAuthentication
  OBVIOUS
<1> DEFINE A ==
      \A s \in Sessions :
        Live(s) /\ ~session[s].authenticated /\ last'.s = s =>
          /\ last'.fn \in {"getBpp", "verifyResult"} => last'.ret = -2
          /\ last'.fn \in {"eid", "euiccCert"} => last'.ret = -1
<1>1. IInv /\ [Next]_vars => [A]_vars
  BY StepNothingBeforeAuthentication DEF Next, NextStep
<1> QED BY <1>1, InvariantHolds, PTL DEF Spec, NothingBeforeAuthentication

-----------------------------------------------------------------------------
(* What a package is bound to *)

\* A call that hands out a package leaves the session with that package's keys;
\* any other call hands out none.
LEMMA StepBppMatchesSession ==
  ASSUME ZeroedHeap, IInv, NEW s \in Sessions, NextStep(s)
  PROVE  BppMatchesSession'
<1>1. CASE ~(last'.fn = "getBpp" /\ last'.ret = 0)
  BY <1>1 DEF BppMatchesSession
<1>2. CASE last'.fn = "getBpp" /\ last'.ret = 0
  <2>1. PICK m \in PrepareDownloadResponses, otsk \in OneTimeSecrets, upp \in Profiles :
          GetBoundProfilePackage(s, m, otsk, upp)
    BY <1>2 DEF NextStep, InitiateAuthentication, InitiateRefused, InitiateNotReached,
       AuthenticateClient, AuthenticateNotReached, VerifyInstallationResult, SessionEid,
       SessionEuiccCert, SessionFree, Fails, Reads, Returns, FollowsWild
  <2> DEFINE o == session[s]
  <2>2. PICK v \in Views(o) :
          /\ GetBppAccepts(v, m)
          /\ session' = [session EXCEPT ![s].bpp_session = BppKeys(v, m, otsk)]
          /\ Returns("getBpp", s, 0, BuiltBpp(v, m, otsk, upp))
    BY <1>2, <2>1 DEF GetBoundProfilePackage, Fails, Reads, Returns, FollowsWild
  <2>3. o \in SessionObjects /\ Live(s)
    BY <2>1 DEF IInv, TypeOK, GetBoundProfilePackage, Live
  <2>4. v = o /\ Consistent(o)
    <3>1. o.authenticated
      BY <2>2, <2>3, ViewFields DEF GetBppAccepts
    <3> QED BY <2>3, <3>1, AuthenticatedReadsAsItIs
  <2>5. session'[s] = [o EXCEPT !.bpp_session = BppKeys(o, m, otsk)]
    BY <2>2, <2>4 DEF IInv, TypeOK
  <2>6. /\ session'[s].bpp_session = BppKeys(o, m, otsk)
        /\ session'[s].euicc_cert = o.euicc_cert
        /\ session'[s].transaction_id = o.transaction_id
        /\ session'[s].metadata = o.metadata
    BY <2>3, <2>5 DEF SessionObjects
  <2>7. last'.s = s /\ last'.out = BuiltBpp(o, m, otsk, upp)
    BY <2>2, <2>4 DEF Returns
  <2> QED BY <2>4, <2>6, <2>7 DEF BppMatchesSession, BuiltBpp, BppKeys, Consistent
<1> QED BY <1>1, <1>2

\* If malloc's memory is zeroed, every package handed out is protected for, and
\* announces, the one eUICC the session is authenticated with, and carries the
\* metadata echoed to it.
THEOREM BppBound == ZeroedHeap => (Spec => []BppMatchesSession)
<1> SUFFICES ASSUME ZeroedHeap PROVE Spec => []BppMatchesSession
  OBVIOUS
<1>1. Init => BppMatchesSession
  BY DEF Init, BppMatchesSession
<1>2. BppMatchesSession /\ UNCHANGED vars => BppMatchesSession'
  BY DEF BppMatchesSession, vars
<1>3. IInv /\ BppMatchesSession /\ [Next]_vars => BppMatchesSession'
  BY <1>2, StepBppMatchesSession DEF Next, NextStep
<1> QED BY <1>1, <1>3, InvariantHolds, PTL DEF Spec

=============================================================================
