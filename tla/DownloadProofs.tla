---------------------------- MODULE DownloadProofs ----------------------------
(***************************************************************************)
(* Proofs about Download, for any number of sessions, eUICCs, transactions *)
(* and messages in flight.                                                 *)
(*                                                                         *)
(* What a session may believe is decided by messages other parties sent,   *)
(* so the invariant is about the network: whatever a card has signed goes  *)
(* back, message by message, to an InitiateAuthentication whose challenge  *)
(* that card drew.  The library's part is that it compares, verifies and   *)
(* keeps what is needed to follow that chain.  All of it presupposes that  *)
(* malloc's memory is zeroed: a session that trusts an unwritten field     *)
(* believes what nobody signed.                                            *)
(***************************************************************************)
EXTENDS Download, DpSessionProofs

-----------------------------------------------------------------------------
(* The invariant *)

\* Transaction t was opened for card c.
OpenedFor(t, c) ==
  \E i \in network.initiateOk : i.transactionId = t /\ IssuedBy[i.euiccChallenge] = c

\* serverChallenges are fresh, and transactionIds if the caller says so.
OpenedOnce ==
  \A i, j \in network.initiateOk :
    /\ i.serverChallenge = j.serverChallenge => i = j
    /\ TransactionIdsFresh /\ i.transactionId = j.transactionId => i = j

\* A card answers only to a challenge of its own.
AnswersAreToChallenges ==
  \A m \in network.authenticateResponse :
    /\ m.euiccSignature1.key = m.euiccCertificate
    /\ m.euiccSignature1.over = m.euiccSigned1
    /\ \E i \in network.initiateOk :
         /\ i.transactionId = m.euiccSigned1.transactionId
         /\ i.serverChallenge = m.euiccSigned1.serverChallenge
         /\ IssuedBy[i.euiccChallenge] = m.euiccCertificate

\* smdpSignature2 covers a card's answer, and goes with the caller's metadata.
OksCoverAnswers ==
  \A m \in network.authenticateOk :
    LET sig1 == m.smdpSignature2.over.euiccSignature1
    IN  /\ OpenedFor(sig1.over.transactionId, sig1.key)
        /\ m.profileMetaData \in OrderedMetadata[m.transactionId]

\* A card prepares only what was opened for it.
PreparedAreOpened ==
  \A c \in Cards : \A p \in prepared[c] :
    /\ OpenedFor(p.transactionId, c)
    /\ p.shown \in OrderedMetadata[p.transactionId]

BppsAreOrdered == \A b \in network.bpp : b.metadata \in OrderedMetadata[b.transactionId]

\* A card loads only what was opened for it, and protected for it.
LoadedAreOpened ==
  \A l \in loaded :
    /\ OpenedFor(l.bpp.transactionId, l.card)
    /\ l.bpp.protection.eid = EidOf[l.card]
    /\ l.bpp.metadata \in OrderedMetadata[l.bpp.transactionId]
    /\ l.shown \in OrderedMetadata[l.bpp.transactionId]

\* A card reports success only of what it loaded.
ResultsAreTrue ==
  \A m \in network.result :
    m.data.success =>
      \E l \in loaded :
        /\ l.card = m.euiccSignPIR.key
        /\ l.bpp.transactionId = m.data.transactionId

\* A card draws a one-time key for one answer only.
KeysAreDrawnOnce ==
  \A m, n \in network.prepareResponse :
    m.euiccSigned2.euiccOtpk = n.euiccSigned2.euiccOtpk => m = n

\* A package's one-time key came from a card.
BoundKeyWasSent ==
  last # None /\ last.fn = "getBpp" /\ last.ret = 0 =>
    \E m \in network.prepareResponse : m.euiccSigned2.euiccOtpk = last.out.euiccOtpk

\* A session is one of those opened; the card it holds is the one it was
\* opened for, and its metadata the caller's.
SessionsAreOpened ==
  \A s \in Sessions : Live(s) =>
    LET o == session[s]
    IN  /\ InitiateOk(o.transaction_id, o.euicc_challenge, o.server_challenge)
             \in network.initiateOk
        /\ o.euicc_cert \in Cards =>
             /\ o.euicc_cert = IssuedBy[o.euicc_challenge]
             /\ o.metadata \in OrderedMetadata[o.transaction_id]

History ==
  /\ OpenedOnce
  /\ AnswersAreToChallenges
  /\ OksCoverAnswers
  /\ PreparedAreOpened
  /\ BppsAreOrdered
  /\ LoadedAreOpened
  /\ ResultsAreTrue
  /\ KeysAreDrawnOnce
  /\ SessionsAreOpened

DInv ==
  /\ ZeroedHeap
  /\ IInv
  /\ DownloadTypeOK
  /\ History
  /\ InstalledMeansLoaded
  /\ BoundKeyWasSent
  /\ BoundInThisSession

-----------------------------------------------------------------------------
(* How a call of the server can end *)

\* A new session and the challenge that goes out with it, or nothing.
LEMMA InitiateOutcome ==
  ASSUME NEW s \in Sessions, ServerInitiates(s)
  PROVE  /\ last'.fn = "initiate"
         /\ UNCHANGED <<prepared, loaded, confirmed>>
         /\ \/ last'.ret # 0 /\ UNCHANGED <<session, network>>
            \/ \E t \in TransactionIds, ec \in EuiccChallenges,
                  sc \in ServerChallenges, f \in UnwrittenFields :
                 /\ Fresh(t, sc)
                 /\ session' = [session EXCEPT ![s] = NewSession(t, ec, sc, f)]
                 /\ Sends("initiateOk", InitiateOk(t, ec, sc))
<1>1. PICK t \in TransactionIds, ec \in EuiccChallenges, sc \in ServerChallenges :
        Fresh(t, sc) /\ InitiateAuthentication(s, t, ec, sc, TRUE)
  BY DEF ServerInitiates
<1>2. CASE InitiateNotReached(s)
  <2>1. last'.fn = "initiate" /\ last'.ret = -2 /\ UNCHANGED session
    BY <1>2 DEF InitiateNotReached, Fails, Reads, Returns
  <2> QED BY <2>1 DEF ServerInitiates, SendsAnswer, cardVars
<1>3. CASE /\ \E f \in UnwrittenFields :
                session' = [session EXCEPT ![s] = NewSession(t, ec, sc, f)]
           /\ Returns("initiate", s, 0, InitiateOk(t, ec, sc))
  <2>1. last'.fn = "initiate" /\ last'.ret = 0 /\ last'.out = InitiateOk(t, ec, sc)
    BY <1>3 DEF Returns
  <2>2. Sends("initiateOk", InitiateOk(t, ec, sc))
    BY <2>1 DEF ServerInitiates, SendsAnswer
  <2> QED BY <1>1, <1>3, <2>1, <2>2 DEF ServerInitiates, cardVars
<1> QED BY <1>1, <1>2, <1>3 DEF InitiateAuthentication

\* The commit block and the smdpSignature2 that goes out with it, or nothing.
LEMMA AuthenticateOutcome ==
  ASSUME NEW s \in Sessions, ServerAuthenticates(s)
  PROVE  /\ last'.fn = "authenticate"
         /\ UNCHANGED <<prepared, loaded, confirmed>>
         /\ \/ last'.ret # 0 /\ UNCHANGED <<session, network>>
            \/ \E m \in network.authenticateResponse :
                 \E md \in OrderedMetadata[session[s].transaction_id] :
                   /\ AuthenticateAccepts(session[s], m)
                   /\ session' = [session EXCEPT ![s] = Authenticated(session[s], m, md)]
                   /\ Sends("authenticateOk", AuthenticateClientOk(session[s], m, md))
<1> DEFINE o == session[s]
<1>1. PICK m \in network.authenticateResponse :
        \E md \in OrderedMetadata[o.transaction_id] : AuthenticateClient(s, m, md)
  BY DEF ServerAuthenticates
<1>2. PICK md \in OrderedMetadata[o.transaction_id] : AuthenticateClient(s, m, md)
  BY <1>1
<1>3. UNCHANGED <<prepared, loaded, confirmed>>
  BY DEF ServerAuthenticates, cardVars
<1>4. CASE \/ Fails("authenticate", s, -1)
           \/ AuthenticateNotReached(s)
           \/ FollowsWild("authenticate", s)
  <2>1. last'.fn = "authenticate" /\ last'.ret # 0 /\ UNCHANGED session
    BY <1>4 DEF AuthenticateNotReached, FollowsWild, Fails, Reads, Returns
  <2> QED BY <1>3, <2>1 DEF ServerAuthenticates, SendsAnswer
<1>5. CASE /\ AuthenticateAccepts(o, m)
           /\ session' = [session EXCEPT ![s] = Authenticated(o, m, md)]
           /\ Returns("authenticate", s, 0, AuthenticateClientOk(o, m, md))
  <2>1. /\ last'.fn = "authenticate" /\ last'.ret = 0
        /\ last'.out = AuthenticateClientOk(o, m, md)
    BY <1>5 DEF Returns
  <2>2. Sends("authenticateOk", AuthenticateClientOk(o, m, md))
    BY <2>1 DEF ServerAuthenticates, SendsAnswer
  <2> QED BY <1>3, <1>5, <2>1, <2>2
<1> QED BY <1>2, <1>4, <1>5 DEF AuthenticateClient

\* A package for the session as it is, or nothing.
LEMMA BindOutcome ==
  ASSUME ZeroedHeap, IInv, NEW s \in Sessions, ServerBinds(s)
  PROVE  /\ last'.fn = "getBpp" /\ last'.s = s
         /\ UNCHANGED <<prepared, loaded, confirmed>>
         /\ \/ last'.ret # 0 /\ UNCHANGED <<session, network>>
            \/ \E m \in network.prepareResponse, otsk \in OneTimeSecrets, upp \in Profiles :
                 /\ GetBppAccepts(session[s], m)
                 /\ session' = [session EXCEPT
                                  ![s].bpp_session = BppKeys(session[s], m, otsk)]
                 /\ Sends("bpp", BuiltBpp(session[s], m, otsk, upp))
                 /\ last'.out = BuiltBpp(session[s], m, otsk, upp)
<1> DEFINE o == session[s]
<1>1. PICK m \in network.prepareResponse, otsk \in OneTimeSecrets, upp \in Profiles :
        GetBoundProfilePackage(s, m, otsk, upp)
  BY DEF ServerBinds
<1>2. UNCHANGED <<prepared, loaded, confirmed>>
  BY DEF ServerBinds, cardVars
<1>3. CASE \/ Fails("getBpp", s, -1)
           \/ Fails("getBpp", s, -2)
           \/ FollowsWild("getBpp", s)
  <2>1. last'.fn = "getBpp" /\ last'.s = s /\ last'.ret # 0 /\ UNCHANGED session
    BY <1>3 DEF FollowsWild, Fails, Reads, Returns
  <2> QED BY <1>2, <2>1 DEF ServerBinds, SendsAnswer
<1>4. ASSUME NEW v \in Views(o), GetBppAccepts(v, m),
             session' = [session EXCEPT ![s].bpp_session = BppKeys(v, m, otsk)],
             Returns("getBpp", s, 0, BuiltBpp(v, m, otsk, upp))
      PROVE  /\ last'.fn = "getBpp" /\ last'.s = s
             /\ GetBppAccepts(o, m)
             /\ session' = [session EXCEPT ![s].bpp_session = BppKeys(o, m, otsk)]
             /\ Sends("bpp", BuiltBpp(o, m, otsk, upp))
             /\ last'.out = BuiltBpp(o, m, otsk, upp)
  <2>1. Live(s) /\ o \in SessionObjects
    BY <1>1 DEF GetBoundProfilePackage, IInv, TypeOK, Live
  <2>2. v = o
    BY <1>4, <2>1, ViewFields, AuthenticatedReadsAsItIs DEF GetBppAccepts
  <2>3. /\ last'.fn = "getBpp" /\ last'.s = s /\ last'.ret = 0
        /\ last'.out = BuiltBpp(o, m, otsk, upp)
    BY <1>4, <2>2 DEF Returns
  <2>4. Sends("bpp", BuiltBpp(o, m, otsk, upp))
    BY <2>3 DEF ServerBinds, SendsAnswer
  <2> QED BY <1>4, <2>2, <2>3, <2>4
<1> QED BY <1>1, <1>2, <1>3, <1>4 DEF GetBoundProfilePackage

\* An installation is confirmed on a genuine report of success only.
LEMMA VerifyOutcome ==
  ASSUME ZeroedHeap, IInv, NEW s \in Sessions, ServerVerifies(s)
  PROVE  /\ last'.fn = "verifyResult" /\ last'.s = s
         /\ UNCHANGED <<session, network, prepared, loaded>>
         /\ \/ last'.out # Installed /\ UNCHANGED confirmed
            \/ \E m \in network.result :
                 /\ VerifyAccepts(session[s], m)
                 /\ m.data.success
                 /\ confirmed' = confirmed \cup {session[s].transaction_id}
<1> DEFINE o == session[s]
<1>1. PICK m \in network.result : VerifyInstallationResult(s, m)
  BY DEF ServerVerifies
<1>2. UNCHANGED <<network, prepared, loaded>>
  BY DEF ServerVerifies, cardVars
<1>3. CASE \/ Fails("verifyResult", s, -1)
           \/ Fails("verifyResult", s, -2)
           \/ FollowsWild("verifyResult", s)
  <2>1. /\ last'.fn = "verifyResult" /\ last'.s = s /\ last'.out \in {Untouched, Wild}
        /\ UNCHANGED session
    BY <1>3 DEF FollowsWild, Fails, Reads, Returns
  <2> QED BY <1>2, <2>1, DownloadAssumption DEF ServerVerifies
<1>4. ASSUME NEW v \in Views(o), VerifyAccepts(v, m),
             Reads("verifyResult", s, 0, Verdict(m))
      PROVE  /\ last'.fn = "verifyResult" /\ last'.s = s /\ UNCHANGED session
             /\ \/ last'.out # Installed /\ UNCHANGED confirmed
                \/ /\ VerifyAccepts(o, m)
                   /\ m.data.success
                   /\ confirmed' = confirmed \cup {session[s].transaction_id}
  <2>0. Live(s) /\ o \in SessionObjects
    BY <1>1 DEF VerifyInstallationResult, IInv, TypeOK, Live
  <2>00. VerifyAccepts(o, m)
    BY <1>4, <2>0, ViewFields, AuthenticatedReadsAsItIs DEF VerifyAccepts
  <2>1. /\ last'.fn = "verifyResult" /\ last'.s = s /\ last'.ret = 0
        /\ last'.out = Verdict(m) /\ UNCHANGED session
    BY <1>4 DEF Reads, Returns
  <2>2. CASE m.data.success
    BY <2>00, <2>1, <2>2 DEF ServerVerifies, Verdict
  <2>3. CASE ~m.data.success
    BY <2>1, <2>3, DownloadAssumption DEF ServerVerifies, Verdict
  <2> QED BY <2>1, <2>2, <2>3
<1> QED BY <1>1, <1>2, <1>3, <1>4 DEF VerifyInstallationResult

\* A session is gone, or the process is.
LEMMA ForgetOutcome ==
  ASSUME NEW s \in Sessions, ServerForgets(s)
  PROVE  /\ last'.fn = "free"
         /\ UNCHANGED <<network, prepared, loaded, confirmed>>
         /\ session' = session \/ session' = [session EXCEPT ![s] = None]
BY DEF ServerForgets, SessionFree, FollowsWild, Returns, cardVars

-----------------------------------------------------------------------------
(* Types *)

\* What a call on the network is also a call of DpSession.
LEMMA ServerCalls ==
  ASSUME DownloadTypeOK, NEW s \in Sessions,
         \/ ServerInitiates(s) \/ ServerAuthenticates(s) \/ ServerBinds(s)
         \/ ServerVerifies(s) \/ ServerForgets(s)
  PROVE  NextStep(s)
<1>1. /\ network.authenticateResponse \subseteq AuthenticateServerResponses
      /\ network.prepareResponse \subseteq PrepareDownloadResponses
      /\ network.result \subseteq ProfileInstallationResults
      /\ Live(s) => OrderedMetadata[session[s].transaction_id] \subseteq Metadata
  BY DownloadAssumption DEF DownloadTypeOK, TypeOK, Live, SessionObjects
<1>2. CASE ServerInitiates(s)
  BY <1>2 DEF ServerInitiates, NextStep
<1>3. CASE ServerAuthenticates(s)
  BY <1>1, <1>3 DEF ServerAuthenticates, NextStep
<1>4. CASE ServerBinds(s)
  BY <1>1, <1>4 DEF ServerBinds, NextStep
<1>5. CASE ServerVerifies(s)
  BY <1>1, <1>5 DEF ServerVerifies, NextStep
<1>6. CASE ServerForgets(s)
  BY <1>6 DEF ServerForgets, NextStep
<1> QED BY <1>2, <1>3, <1>4, <1>5, <1>6

\* What the library's sessions keep, they keep here.
LEMMA ServerKeepsIInv ==
  ASSUME IInv, NEW s \in Sessions, NextStep(s)
  PROVE  IInv'
BY InitiateKeeps, AuthenticateKeeps, GetBppKeeps, VerifyKeeps, AccessorsKeep, FreeKeeps
   DEF NextStep

\* What is sent is added to its kind, and nothing is taken back.
LEMMA SendsShape ==
  ASSUME DownloadTypeOK, NEW kind \in Kinds, NEW m, Sends(kind, m)
  PROVE  /\ network'.initiateOk =
              network.initiateOk \cup (IF kind = "initiateOk" THEN {m} ELSE {})
         /\ network'.authenticateResponse =
              network.authenticateResponse
                \cup (IF kind = "authenticateResponse" THEN {m} ELSE {})
         /\ network'.authenticateOk =
              network.authenticateOk \cup (IF kind = "authenticateOk" THEN {m} ELSE {})
         /\ network'.prepareResponse =
              network.prepareResponse \cup (IF kind = "prepareResponse" THEN {m} ELSE {})
         /\ network'.bpp = network.bpp \cup (IF kind = "bpp" THEN {m} ELSE {})
         /\ network'.result = network.result \cup (IF kind = "result" THEN {m} ELSE {})
BY DEF DownloadTypeOK, Sends, Kinds

\* A message of its kind's type leaves the network of its type.
LEMMA SendsType ==
  ASSUME DownloadTypeOK, NEW kind \in Kinds, NEW m, Sends(kind, m),
         kind = "initiateOk" => m \in InitiateAuthenticationOks,
         kind = "authenticateResponse" => m \in AuthenticateServerResponses,
         kind = "authenticateOk" => m \in AuthenticateClientOks,
         kind = "prepareResponse" => m \in PrepareDownloadResponses,
         kind = "bpp" => m \in BoundProfilePackages,
         kind = "result" => m \in ProfileInstallationResults,
         TypeOK', prepared' \in [Cards -> SUBSET Preparations],
         loaded' \subseteq Loads, confirmed' \subseteq TransactionIds
  PROVE  DownloadTypeOK'
<1> DEFINE T == [initiateOk : SUBSET InitiateAuthenticationOks,
                 authenticateResponse : SUBSET AuthenticateServerResponses,
                 authenticateOk : SUBSET AuthenticateClientOks,
                 prepareResponse : SUBSET PrepareDownloadResponses,
                 bpp : SUBSET BoundProfilePackages,
                 result : SUBSET ProfileInstallationResults]
<1>1. network \in T
  BY DEF DownloadTypeOK
<1>2. network' \in T
  <2>1. network' = [network EXCEPT ![kind] = network[kind] \cup {m}]
    BY DEF Sends
  <2>2. CASE kind = "initiateOk"
    BY <1>1, <2>1, <2>2
  <2>3. CASE kind = "authenticateResponse"
    BY <1>1, <2>1, <2>3
  <2>4. CASE kind = "authenticateOk"
    BY <1>1, <2>1, <2>4
  <2>5. CASE kind = "prepareResponse"
    BY <1>1, <2>1, <2>5
  <2>6. CASE kind = "bpp"
    BY <1>1, <2>1, <2>6
  <2>7. CASE kind = "result"
    BY <1>1, <2>1, <2>7
  <2> QED BY <2>2, <2>3, <2>4, <2>5, <2>6, <2>7 DEF Kinds
<1> QED BY <1>2 DEF DownloadTypeOK

\* A step that sends nothing.
LEMMA QuietType ==
  ASSUME DownloadTypeOK, TypeOK', UNCHANGED <<network, prepared, loaded>>,
         confirmed' \subseteq TransactionIds
  PROVE  DownloadTypeOK'
BY DEF DownloadTypeOK

-----------------------------------------------------------------------------
(* What never gets lost *)

\* A transaction that was opened stays opened.
LEMMA OpenedGrows ==
  ASSUME network.initiateOk \subseteq network'.initiateOk, NEW t, NEW c, OpenedFor(t, c)
  PROVE  OpenedFor(t, c)'
BY DEF OpenedFor

\* Without a new message the messages' part of the invariant stays.
LEMMA QuietKeeps ==
  ASSUME History, UNCHANGED <<network, prepared, loaded>>, SessionsAreOpened'
  PROVE  History'
BY DEF History, OpenedOnce, AnswersAreToChallenges, OksCoverAnswers,
       PreparedAreOpened, BppsAreOrdered, LoadedAreOpened, ResultsAreTrue,
       KeysAreDrawnOnce, OpenedFor

\* A session that is not touched stays one of those opened.
LEMMA SessionsStay ==
  ASSUME SessionsAreOpened, UNCHANGED session,
         network.initiateOk \subseteq network'.initiateOk
  PROVE  SessionsAreOpened'
BY DEF SessionsAreOpened, Live

\* Nor is what was confirmed or bound, as long as no call is made.
LEMMA CardsKeepVerdicts ==
  ASSUME InstalledMeansLoaded, BoundKeyWasSent, BoundInThisSession,
         UNCHANGED <<session, last>>, loaded \subseteq loaded',
         network.prepareResponse \subseteq network'.prepareResponse,
         \A m \in network'.prepareResponse :
           \/ m \in network.prepareResponse
           \/ \A r \in network.prepareResponse :
                r.euiccSigned2.euiccOtpk # m.euiccSigned2.euiccOtpk
  PROVE  InstalledMeansLoaded' /\ BoundKeyWasSent' /\ BoundInThisSession'
BY DEF InstalledMeansLoaded, BoundKeyWasSent, BoundInThisSession

-----------------------------------------------------------------------------
(* One lemma per call of the server *)

\* rsp_dp_initiate_authentication opens a transaction under fresh values.
LEMMA InitiatesKeeps ==
  ASSUME DInv, NEW s \in Sessions, ServerInitiates(s)
  PROVE  DInv'
<1>0. IInv' /\ TypeOK' /\ session \in [Sessions -> SessionObjects \cup {None}]
  BY ServerCalls, ServerKeepsIInv DEF DInv, IInv, TypeOK
<1>1. InstalledMeansLoaded' /\ BoundKeyWasSent' /\ BoundInThisSession'
  BY InitiateOutcome DEF InstalledMeansLoaded, BoundKeyWasSent, BoundInThisSession
<1>2. CASE UNCHANGED <<session, network>>
  <2>1. UNCHANGED <<prepared, loaded, confirmed>>
    BY InitiateOutcome
  <2>2. SessionsAreOpened'
    BY <1>2, SessionsStay DEF DInv, History
  <2>3. History'
    BY <1>2, <2>1, <2>2, QuietKeeps DEF DInv
  <2>4. DownloadTypeOK'
    BY <1>0, <1>2, <2>1 DEF DInv, DownloadTypeOK
  <2> QED BY <1>0, <1>1, <2>3, <2>4 DEF DInv
<1>3. ASSUME NEW t \in TransactionIds, NEW ec \in EuiccChallenges,
             NEW sc \in ServerChallenges, NEW f \in UnwrittenFields,
             Fresh(t, sc),
             session' = [session EXCEPT ![s] = NewSession(t, ec, sc, f)],
             Sends("initiateOk", InitiateOk(t, ec, sc))
      PROVE  DInv'
  <2> DEFINE n == InitiateOk(t, ec, sc)
  <2>1. UNCHANGED <<prepared, loaded, confirmed>>
    BY InitiateOutcome
  <2>2. /\ network'.initiateOk = network.initiateOk \cup {n}
        /\ network'.authenticateResponse = network.authenticateResponse
        /\ network'.authenticateOk = network.authenticateOk
        /\ network'.prepareResponse = network.prepareResponse
        /\ network'.bpp = network.bpp
        /\ network'.result = network.result
    BY <1>3, SendsShape DEF DInv, Kinds
  <2>3. n \in InitiateAuthenticationOks
    BY DEF InitiateOk, InitiateAuthenticationOks
  <2>4. DownloadTypeOK'
    BY <1>0, <1>3, <2>1, <2>3, SendsType DEF DInv, DownloadTypeOK, Kinds
  <2>5. \A tt, c : OpenedFor(tt, c) => OpenedFor(tt, c)'
    BY <2>2, OpenedGrows
  <2>6. OpenedOnce'
    <3>1. n.transactionId = t /\ n.serverChallenge = sc
      BY DEF InitiateOk
    <3>2. \A i \in network.initiateOk :
            /\ i.serverChallenge # n.serverChallenge
            /\ TransactionIdsFresh => i.transactionId # n.transactionId
      BY <1>3, <3>1 DEF Fresh
    <3> HIDE DEF n
    <3> QED BY <2>2, <3>2 DEF DInv, History, OpenedOnce
  <2>7. AnswersAreToChallenges'
    BY <2>2 DEF DInv, History, AnswersAreToChallenges
  <2>8. OksCoverAnswers' /\ PreparedAreOpened' /\ LoadedAreOpened'
    BY <2>1, <2>2, <2>5 DEF DInv, History, OksCoverAnswers, PreparedAreOpened, LoadedAreOpened
  <2>9. BppsAreOrdered' /\ ResultsAreTrue' /\ KeysAreDrawnOnce'
    BY <2>1, <2>2 DEF DInv, History, BppsAreOrdered, ResultsAreTrue, KeysAreDrawnOnce
  <2>10. SessionsAreOpened'
    <3> DEFINE o == NewSession(t, ec, sc, f)
    <3>1. session'[s] = o /\ \A r \in Sessions : r # s => session'[r] = session[r]
      BY <1>0, <1>3
    <3>2. /\ o.transaction_id = t /\ o.euicc_challenge = ec /\ o.server_challenge = sc
          /\ o.euicc_cert \notin Cards
      <4>1. f.euicc_cert \in {None, Wild}
        BY DEF UnwrittenFields, StaleFields
      <4> QED BY <4>1, MarkersAssumption DEF NewSession
    <3> SUFFICES ASSUME NEW r \in Sessions, session'[r] # None
                 PROVE  LET q == session'[r]
                        IN  /\ InitiateOk(q.transaction_id, q.euicc_challenge,
                                          q.server_challenge) \in network'.initiateOk
                            /\ q.euicc_cert \in Cards =>
                                 /\ q.euicc_cert = IssuedBy[q.euicc_challenge]
                                 /\ q.metadata \in OrderedMetadata[q.transaction_id]
      BY DEF SessionsAreOpened, Live, InitiateOk
    <3>3. CASE r = s
      <4> HIDE DEF o
      <4> QED BY <2>2, <3>1, <3>2, <3>3
    <3>4. CASE r # s
      BY <2>2, <3>1, <3>4 DEF DInv, History, SessionsAreOpened, Live
    <3> QED BY <3>3, <3>4
  <2>11. History'
    BY <2>6, <2>7, <2>8, <2>9, <2>10 DEF History
  <2> QED BY <1>0, <1>1, <2>4, <2>11 DEF DInv
<1> QED BY <1>2, <1>3, InitiateOutcome

\* rsp_dp_authenticate_client compares the echoed serverChallenge, so the card
\* it commits is the one that drew the session's own euiccChallenge.
LEMMA AuthenticatedIsChallenger ==
  ASSUME DInv, NEW s \in Sessions, Live(s), NEW m \in network.authenticateResponse,
         AuthenticateAccepts(session[s], m)
  PROVE  /\ m.euiccCertificate = IssuedBy[session[s].euicc_challenge]
         /\ m.euiccSignature1.key = m.euiccCertificate
         /\ m.euiccSignature1.over.transactionId = session[s].transaction_id
         /\ OpenedFor(session[s].transaction_id, m.euiccCertificate)
<1> DEFINE o == session[s]
           n == InitiateOk(o.transaction_id, o.euicc_challenge, o.server_challenge)
<1>1. PICK i \in network.initiateOk :
        /\ i.transactionId = m.euiccSigned1.transactionId
        /\ i.serverChallenge = m.euiccSigned1.serverChallenge
        /\ IssuedBy[i.euiccChallenge] = m.euiccCertificate
  BY DEF DInv, History, AnswersAreToChallenges
<1>2. /\ i.transactionId = o.transaction_id
      /\ i.serverChallenge = o.server_challenge
  BY <1>1 DEF AuthenticateAccepts, EchoesSession
<1>3. n \in network.initiateOk
  BY DEF DInv, History, SessionsAreOpened
<1>4. n.serverChallenge = o.server_challenge /\ n.euiccChallenge = o.euicc_challenge
  BY DEF InitiateOk
<1>5. i = n
  BY <1>2, <1>3, <1>4 DEF DInv, History, OpenedOnce
<1>6. m.euiccCertificate = IssuedBy[o.euicc_challenge]
  BY <1>1, <1>4, <1>5
<1>7. /\ m.euiccSignature1.key = m.euiccCertificate
      /\ m.euiccSignature1.over = m.euiccSigned1
  BY DEF DInv, History, AnswersAreToChallenges
<1> QED BY <1>1, <1>2, <1>6, <1>7 DEF OpenedFor

\* So the session's card stays the one it was opened for.
LEMMA AuthenticatesKeeps ==
  ASSUME DInv, NEW s \in Sessions, ServerAuthenticates(s)
  PROVE  DInv'
<1>0. /\ IInv' /\ TypeOK' /\ session \in [Sessions -> SessionObjects \cup {None}]
      /\ Live(s)
  BY ServerCalls, ServerKeepsIInv DEF DInv, IInv, TypeOK, ServerAuthenticates
<1>1. InstalledMeansLoaded' /\ BoundKeyWasSent' /\ BoundInThisSession'
  BY AuthenticateOutcome DEF InstalledMeansLoaded, BoundKeyWasSent, BoundInThisSession
<1>2. CASE UNCHANGED <<session, network>>
  <2>1. UNCHANGED <<prepared, loaded, confirmed>>
    BY AuthenticateOutcome
  <2>2. SessionsAreOpened'
    BY <1>2, SessionsStay DEF DInv, History
  <2>3. History'
    BY <1>2, <2>1, <2>2, QuietKeeps DEF DInv
  <2>4. DownloadTypeOK'
    BY <1>0, <1>2, <2>1 DEF DInv, DownloadTypeOK
  <2> QED BY <1>0, <1>1, <2>3, <2>4 DEF DInv
<1>3. ASSUME NEW m \in network.authenticateResponse,
             NEW md \in OrderedMetadata[session[s].transaction_id],
             AuthenticateAccepts(session[s], m),
             session' = [session EXCEPT ![s] = Authenticated(session[s], m, md)],
             Sends("authenticateOk", AuthenticateClientOk(session[s], m, md))
      PROVE  DInv'
  <2> DEFINE o == session[s]
             n == AuthenticateClientOk(o, m, md)
  <2>1. UNCHANGED <<prepared, loaded, confirmed>>
    BY AuthenticateOutcome
  <2>2. /\ network'.initiateOk = network.initiateOk
        /\ network'.authenticateResponse = network.authenticateResponse
        /\ network'.authenticateOk = network.authenticateOk \cup {n}
        /\ network'.prepareResponse = network.prepareResponse
        /\ network'.bpp = network.bpp
        /\ network'.result = network.result
    BY <1>3, SendsShape DEF DInv, Kinds
  <2>3. /\ o \in SessionObjects /\ o.transaction_id \in TransactionIds
        /\ md \in Metadata /\ m \in AuthenticateServerResponses
    <3>1. o \in SessionObjects
      BY <1>0 DEF Live
    <3>2. o.transaction_id \in TransactionIds
      BY <3>1 DEF SessionObjects
    <3>3. network.authenticateResponse \subseteq AuthenticateServerResponses
      BY DEF DInv, DownloadTypeOK
    <3> QED BY <3>1, <3>2, <3>3, DownloadAssumption
  <2>4. n \in AuthenticateClientOks
    BY <1>3, <2>3, AuthenticatedConsistent DEF AuthenticateClientOk, AuthenticateClientOks
  <2>5. DownloadTypeOK'
    BY <1>0, <1>3, <2>1, <2>4, SendsType DEF DInv, DownloadTypeOK, Kinds
  <2>6. /\ m.euiccCertificate = IssuedBy[o.euicc_challenge]
        /\ m.euiccSignature1.key = m.euiccCertificate
        /\ m.euiccSignature1.over.transactionId = o.transaction_id
        /\ OpenedFor(o.transaction_id, m.euiccCertificate)
    BY <1>0, <1>3, AuthenticatedIsChallenger
  <2>7. \A tt, c : OpenedFor(tt, c) => OpenedFor(tt, c)'
    BY <2>2, OpenedGrows
  <2>8. OksCoverAnswers'
    <3>1. /\ n.profileMetaData = md /\ n.transactionId = o.transaction_id
          /\ n.smdpSignature2.over.euiccSignature1 = m.euiccSignature1
      BY DEF AuthenticateClientOk, SmdpSignature2
    <3> HIDE DEF n
    <3> QED BY <2>2, <2>6, <2>7, <3>1 DEF DInv, History, OksCoverAnswers
  <2>9. /\ OpenedOnce' /\ AnswersAreToChallenges' /\ BppsAreOrdered' /\ ResultsAreTrue'
        /\ KeysAreDrawnOnce'
    BY <2>1, <2>2 DEF DInv, History, OpenedOnce, AnswersAreToChallenges,
                      BppsAreOrdered, ResultsAreTrue, KeysAreDrawnOnce
  <2>10. PreparedAreOpened' /\ LoadedAreOpened'
    BY <2>1, <2>7 DEF DInv, History, PreparedAreOpened, LoadedAreOpened
  <2>11. SessionsAreOpened'
    <3> DEFINE q == Authenticated(o, m, md)
    <3>1. session'[s] = q /\ \A r \in Sessions : r # s => session'[r] = session[r]
      BY <1>0, <1>3
    <3>2. /\ q.transaction_id = o.transaction_id
          /\ q.euicc_challenge = o.euicc_challenge
          /\ q.server_challenge = o.server_challenge
          /\ q.euicc_cert = m.euiccCertificate /\ q.metadata = md
      BY <2>3 DEF Authenticated, SessionObjects
    <3> SUFFICES ASSUME NEW r \in Sessions, session'[r] # None
                 PROVE  LET p == session'[r]
                        IN  /\ InitiateOk(p.transaction_id, p.euicc_challenge,
                                          p.server_challenge) \in network'.initiateOk
                            /\ p.euicc_cert \in Cards =>
                                 /\ p.euicc_cert = IssuedBy[p.euicc_challenge]
                                 /\ p.metadata \in OrderedMetadata[p.transaction_id]
      BY DEF SessionsAreOpened, Live, InitiateOk
    <3>3. CASE r = s
      <4>1. InitiateOk(o.transaction_id, o.euicc_challenge, o.server_challenge)
              \in network.initiateOk
        BY <1>0 DEF DInv, History, SessionsAreOpened
      <4> HIDE DEF q
      <4> QED BY <2>2, <2>6, <3>1, <3>2, <3>3, <4>1
    <3>4. CASE r # s
      BY <2>2, <3>1, <3>4 DEF DInv, History, SessionsAreOpened, Live
    <3> QED BY <3>3, <3>4
  <2>12. History'
    BY <2>8, <2>9, <2>10, <2>11 DEF History
  <2> QED BY <1>0, <1>1, <2>5, <2>12 DEF DInv
<1> QED BY <1>2, <1>3, AuthenticateOutcome

\* rsp_dp_get_bound_profile_package serves a session that holds a card's
\* certificate, with the metadata it keeps.
LEMMA BindsKeeps ==
  ASSUME DInv, NEW s \in Sessions, ServerBinds(s)
  PROVE  DInv'
<1>0. /\ IInv' /\ TypeOK' /\ session \in [Sessions -> SessionObjects \cup {None}]
      /\ Live(s)
  BY ServerCalls, ServerKeepsIInv
     DEF DInv, IInv, TypeOK, ServerBinds, GetBoundProfilePackage
<1>1. InstalledMeansLoaded'
  BY BindOutcome DEF DInv, InstalledMeansLoaded
<1>2. CASE last'.ret # 0 /\ UNCHANGED <<session, network>>
  <2>1. UNCHANGED <<prepared, loaded, confirmed>>
    BY BindOutcome DEF DInv
  <2>2. SessionsAreOpened'
    BY <1>2, SessionsStay DEF DInv, History
  <2>3. History'
    BY <1>2, <2>1, <2>2, QuietKeeps DEF DInv
  <2>4. DownloadTypeOK'
    BY <1>0, <1>2, <2>1 DEF DInv, DownloadTypeOK
  <2>5. BoundKeyWasSent' /\ BoundInThisSession'
    BY <1>2 DEF BoundKeyWasSent, BoundInThisSession
  <2> QED BY <1>0, <1>1, <2>3, <2>4, <2>5 DEF DInv
<1>3. ASSUME NEW m \in network.prepareResponse, NEW otsk \in OneTimeSecrets,
             NEW upp \in Profiles,
             GetBppAccepts(session[s], m),
             session' = [session EXCEPT ![s].bpp_session = BppKeys(session[s], m, otsk)],
             Sends("bpp", BuiltBpp(session[s], m, otsk, upp)),
             last'.out = BuiltBpp(session[s], m, otsk, upp)
      PROVE  DInv'
  <2> DEFINE o == session[s]
             n == BuiltBpp(o, m, otsk, upp)
             q == [o EXCEPT !.bpp_session = BppKeys(o, m, otsk)]
  <2>1. UNCHANGED <<prepared, loaded, confirmed>> /\ last'.s = s
    BY BindOutcome DEF DInv
  <2>2. /\ network'.initiateOk = network.initiateOk
        /\ network'.authenticateResponse = network.authenticateResponse
        /\ network'.authenticateOk = network.authenticateOk
        /\ network'.prepareResponse = network.prepareResponse
        /\ network'.bpp = network.bpp \cup {n}
        /\ network'.result = network.result
    BY <1>3, SendsShape DEF DInv, Kinds
  <2>3. o \in SessionObjects /\ m \in PrepareDownloadResponses
    BY <1>0 DEF DInv, DownloadTypeOK, Live
  <2>4. o.euicc_cert \in Cards /\ Consistent(o)
    BY <1>0, <1>3 DEF DInv, IInv, AllAnchored, Anchored, GetBppAccepts
  <2>5. n \in BoundProfilePackages
    <3>1. m.euiccSigned2.euiccOtpk \in OneTimeKeys
      BY <2>3 DEF PrepareDownloadResponses, EuiccSigned2s
    <3>2. o.eid \in Eids /\ o.metadata \in Metadata /\ o.transaction_id \in TransactionIds
      BY <2>3, <2>4 DEF SessionObjects, Consistent
    <3>3. BppKeys(o, m, otsk) \in SessionKeys
      BY <3>1, <3>2 DEF BppKeys, SessionKeys
    <3> QED BY <3>1, <3>2, <3>3 DEF BuiltBpp, BoundProfilePackages
  <2>6. DownloadTypeOK'
    BY <1>0, <1>3, <2>1, <2>5, SendsType DEF DInv, DownloadTypeOK, Kinds
  <2>7. \A tt, c : OpenedFor(tt, c) => OpenedFor(tt, c)'
    BY <2>2, OpenedGrows
  <2>8. BppsAreOrdered'
    <3>1. n.metadata = o.metadata /\ n.transactionId = o.transaction_id
      BY DEF BuiltBpp
    <3>2. o.metadata \in OrderedMetadata[o.transaction_id]
      BY <1>0, <2>4 DEF DInv, History, SessionsAreOpened
    <3> HIDE DEF n
    <3> QED BY <2>2, <3>1, <3>2 DEF DInv, History, BppsAreOrdered
  <2>9. OpenedOnce' /\ AnswersAreToChallenges' /\ ResultsAreTrue' /\ KeysAreDrawnOnce'
    BY <2>1, <2>2 DEF DInv, History, OpenedOnce, AnswersAreToChallenges, ResultsAreTrue,
                      KeysAreDrawnOnce
  <2>10. PreparedAreOpened' /\ LoadedAreOpened' /\ OksCoverAnswers'
    BY <2>1, <2>2, <2>7 DEF DInv, History, PreparedAreOpened, LoadedAreOpened, OksCoverAnswers
  <2>11. /\ session'[s] = q /\ \A r \in Sessions : r # s => session'[r] = session[r]
         /\ q.transaction_id = o.transaction_id
         /\ q.euicc_challenge = o.euicc_challenge
         /\ q.server_challenge = o.server_challenge
         /\ q.euicc_cert = o.euicc_cert /\ q.metadata = o.metadata
         /\ q.smdp_signature2 = o.smdp_signature2
    BY <1>0, <1>3, <2>3 DEF SessionObjects
  <2>12. SessionsAreOpened'
    <3> HIDE DEF q
    <3> SUFFICES ASSUME NEW r \in Sessions, session'[r] # None
                 PROVE  LET p == session'[r]
                        IN  /\ InitiateOk(p.transaction_id, p.euicc_challenge,
                                          p.server_challenge) \in network'.initiateOk
                            /\ p.euicc_cert \in Cards =>
                                 /\ p.euicc_cert = IssuedBy[p.euicc_challenge]
                                 /\ p.metadata \in OrderedMetadata[p.transaction_id]
      BY DEF SessionsAreOpened, Live, InitiateOk
    <3>1. CASE r = s
      BY <1>0, <2>2, <2>11, <3>1 DEF DInv, History, SessionsAreOpened, Live
    <3>2. CASE r # s
      BY <2>2, <2>11, <3>2 DEF DInv, History, SessionsAreOpened, Live
    <3> QED BY <3>1, <3>2
  <2>13. BoundKeyWasSent' /\ BoundInThisSession'
    <3>1. n.euiccOtpk = m.euiccSigned2.euiccOtpk /\ last'.out = n
      BY <1>3 DEF BuiltBpp
    <3>2. m.euiccSignature2.over.smdpSignature2 = o.smdp_signature2
      BY <1>3 DEF GetBppAccepts, Signature2Verifies
    <3> DEFINE answered == o.smdp_signature2.over.euiccSignature1
    <3>3. /\ answered.key = IssuedBy[o.euicc_challenge]
          /\ answered.over.serverChallenge = o.server_challenge
      BY <1>0, <2>4 DEF Consistent, DInv, History, SessionsAreOpened
    <3>4. /\ session'[last'.s].euicc_challenge = o.euicc_challenge
          /\ session'[last'.s].server_challenge = o.server_challenge
      BY <2>1, <2>11
    <3> HIDE DEF n, q
    <3>5. BoundKeyWasSent'
      BY <2>2, <3>1 DEF BoundKeyWasSent
    <3>6. ASSUME NEW r \in network'.prepareResponse,
                 r.euiccSigned2.euiccOtpk = last'.out.euiccOtpk
          PROVE  r = m
      BY <2>2, <3>1, <3>6 DEF DInv, History, KeysAreDrawnOnce
    <3> QED BY <3>2, <3>3, <3>4, <3>5, <3>6 DEF BoundInThisSession
  <2>14. History'
    BY <2>8, <2>9, <2>10, <2>12 DEF History
  <2> QED BY <1>0, <1>1, <2>6, <2>13, <2>14 DEF DInv
<1> QED BY <1>2, <1>3, BindOutcome DEF DInv

\* A genuine report of success for the session's transaction, made with the
\* key of the session's card, is one that card made of something it loaded.
LEMMA VerifiedIsLoaded ==
  ASSUME DInv, NEW s \in Sessions, Live(s), NEW m \in network.result,
         VerifyAccepts(session[s], m), m.data.success
  PROVE  /\ session[s].transaction_id \in TransactionIds
         /\ \E l \in loaded :
              /\ l.card = session[s].euicc_cert
              /\ l.bpp.transactionId = session[s].transaction_id
              /\ l.bpp.protection.eid = session[s].eid
<1> DEFINE o == session[s]
<1>1. o \in SessionObjects /\ m \in ProfileInstallationResults
  BY DEF DInv, IInv, TypeOK, DownloadTypeOK, Live
<1>2. o.euicc_cert \in Cards
  BY DEF DInv, IInv, AllAnchored, Anchored, VerifyAccepts
<1>3. o.eid = EidOf[o.euicc_cert]
  BY <1>2 DEF DInv, IInv, AllAnchored, Anchored, Consistent
<1>4. m.euiccSignPIR.key = o.euicc_cert /\ m.data.transactionId = o.transaction_id
  BY DEF VerifyAccepts, ResultVerifies
<1>5. PICK l \in loaded : /\ l.card = m.euiccSignPIR.key
                          /\ l.bpp.transactionId = m.data.transactionId
  BY DEF DInv, History, ResultsAreTrue
<1>6. l.bpp.protection.eid = EidOf[l.card]
  BY DEF DInv, History, LoadedAreOpened
<1>7. o.transaction_id \in TransactionIds
  BY <1>1 DEF SessionObjects
<1> QED BY <1>3, <1>4, <1>5, <1>6, <1>7

\* rsp_dp_verify_installation_result says "installed" of nothing else.
LEMMA VerifiesKeeps ==
  ASSUME DInv, NEW s \in Sessions, ServerVerifies(s)
  PROVE  DInv'
<1>0. IInv' /\ TypeOK' /\ Live(s)
  BY ServerCalls, ServerKeepsIInv
     DEF DInv, IInv, ServerVerifies, VerifyInstallationResult
<1>1. /\ last'.fn = "verifyResult" /\ last'.s = s
      /\ UNCHANGED <<session, network, prepared, loaded>>
      /\ \/ last'.out # Installed /\ UNCHANGED confirmed
         \/ \E m \in network.result :
              /\ VerifyAccepts(session[s], m)
              /\ m.data.success
              /\ confirmed' = confirmed \cup {session[s].transaction_id}
  BY VerifyOutcome DEF DInv
<1>2. BoundKeyWasSent' /\ BoundInThisSession'
  BY <1>1 DEF BoundKeyWasSent, BoundInThisSession
<1>3. SessionsAreOpened'
  BY <1>1, SessionsStay DEF DInv, History
<1>4. History'
  BY <1>1, <1>3, QuietKeeps DEF DInv
<1>5. CASE last'.out # Installed /\ UNCHANGED confirmed
  <2>1. InstalledMeansLoaded'
    BY <1>5 DEF InstalledMeansLoaded
  <2>2. DownloadTypeOK'
    BY <1>0, <1>1, <1>5 DEF DInv, DownloadTypeOK
  <2> QED BY <1>0, <1>2, <1>4, <2>1, <2>2 DEF DInv
<1>6. ASSUME NEW m \in network.result, VerifyAccepts(session[s], m), m.data.success,
             confirmed' = confirmed \cup {session[s].transaction_id}
      PROVE  DInv'
  <2>1. /\ session[s].transaction_id \in TransactionIds
        /\ \E l \in loaded :
             /\ l.card = session[s].euicc_cert
             /\ l.bpp.transactionId = session[s].transaction_id
             /\ l.bpp.protection.eid = session[s].eid
    BY <1>0, <1>6, VerifiedIsLoaded
  <2>2. InstalledMeansLoaded'
    BY <1>1, <2>1 DEF InstalledMeansLoaded
  <2>3. DownloadTypeOK'
    BY <1>0, <1>1, <1>6, <2>1 DEF DInv, DownloadTypeOK
  <2> QED BY <1>0, <1>2, <1>4, <2>2, <2>3 DEF DInv
<1> QED BY <1>1, <1>5, <1>6

\* rsp_dp_session_free takes a session away.
LEMMA ForgetsKeeps ==
  ASSUME DInv, NEW s \in Sessions, ServerForgets(s)
  PROVE  DInv'
<1>0. IInv' /\ TypeOK' /\ session \in [Sessions -> SessionObjects \cup {None}]
  BY ServerCalls, ServerKeepsIInv DEF DInv, IInv, TypeOK
<1>1. /\ last'.fn = "free"
      /\ UNCHANGED <<network, prepared, loaded, confirmed>>
      /\ session' = session \/ session' = [session EXCEPT ![s] = None]
  BY ForgetOutcome
<1>2. InstalledMeansLoaded' /\ BoundKeyWasSent' /\ BoundInThisSession'
  BY <1>1 DEF InstalledMeansLoaded, BoundKeyWasSent, BoundInThisSession
<1>3. DownloadTypeOK'
  BY <1>0, <1>1 DEF DInv, DownloadTypeOK
<1>4. \A r \in Sessions : session'[r] \in {None, session[r]}
  BY <1>0, <1>1
<1>5. SessionsAreOpened'
  BY <1>1, <1>4 DEF DInv, History, SessionsAreOpened, Live
<1>6. History'
  BY <1>1, <1>5, QuietKeeps DEF DInv
<1> QED BY <1>0, <1>2, <1>3, <1>6 DEF DInv

-----------------------------------------------------------------------------
(* One lemma per step of a card *)

\* The sessions do not notice what a card does.
LEMMA CardsLeaveSessions ==
  ASSUME DInv, UNCHANGED <<session, last, crashed>>
  PROVE  IInv' /\ TypeOK'
<1>1. UNCHANGED vars
  BY DEF vars
<1> QED BY <1>1, NextIInv DEF DInv, IInv

\* A card answers a challenge of its own.
LEMMA CardAuthenticatesKeeps ==
  ASSUME DInv, NEW c \in Cards, CardAuthenticates(c)
  PROVE  DInv'
<1>1. PICK m \in network.initiateOk, x \in Salts :
        /\ IssuedBy[m.euiccChallenge] = c
        /\ LET signed == [transactionId |-> m.transactionId,
                          serverChallenge |-> m.serverChallenge]
           IN  Sends("authenticateResponse",
                 [euiccSigned1 |-> signed,
                  euiccSignature1 |-> [key |-> c, over |-> signed, salt |-> x],
                  euiccCertificate |-> c])
  BY DEF CardAuthenticates
<1> DEFINE signed == [transactionId |-> m.transactionId,
                      serverChallenge |-> m.serverChallenge]
           n == [euiccSigned1 |-> signed,
                 euiccSignature1 |-> [key |-> c, over |-> signed, salt |-> x],
                 euiccCertificate |-> c]
<1>2. Sends("authenticateResponse", n) /\ IssuedBy[m.euiccChallenge] = c
  BY <1>1
<1>3. UNCHANGED <<session, last, crashed, prepared, loaded, confirmed>>
  BY DEF CardAuthenticates, cardVars
<1>4. IInv' /\ TypeOK'
  BY <1>3, CardsLeaveSessions
<1>5. n \in AuthenticateServerResponses
  <2>1. m \in InitiateAuthenticationOks
    BY DEF DInv, DownloadTypeOK
  <2>2. m.transactionId \in TransactionIds /\ m.serverChallenge \in ServerChallenges
    BY <2>1 DEF InitiateAuthenticationOks
  <2> QED BY <2>2 DEF AuthenticateServerResponses, EuiccSigned1s, EuiccSignature1s
<1>6. /\ n.euiccCertificate = c
      /\ n.euiccSignature1.key = c /\ n.euiccSignature1.over = n.euiccSigned1
      /\ n.euiccSigned1.transactionId = m.transactionId
      /\ n.euiccSigned1.serverChallenge = m.serverChallenge
  OBVIOUS
<1> HIDE DEF n
<1>7. /\ network'.initiateOk = network.initiateOk
      /\ network'.authenticateResponse = network.authenticateResponse \cup {n}
      /\ network'.authenticateOk = network.authenticateOk
      /\ network'.prepareResponse = network.prepareResponse
      /\ network'.bpp = network.bpp
      /\ network'.result = network.result
  BY <1>2, SendsShape DEF DInv, Kinds
<1>8. DownloadTypeOK'
  BY <1>2, <1>3, <1>4, <1>5, SendsType DEF DInv, DownloadTypeOK, Kinds
<1>9. \A tt, cc : OpenedFor(tt, cc) => OpenedFor(tt, cc)'
  BY <1>7, OpenedGrows
<1>10. AnswersAreToChallenges'
  BY <1>2, <1>6, <1>7 DEF DInv, History, AnswersAreToChallenges
<1>11. OpenedOnce' /\ BppsAreOrdered' /\ ResultsAreTrue' /\ KeysAreDrawnOnce'
  BY <1>3, <1>7 DEF DInv, History, OpenedOnce, BppsAreOrdered, ResultsAreTrue,
                    KeysAreDrawnOnce
<1>12. OksCoverAnswers' /\ PreparedAreOpened' /\ LoadedAreOpened'
  BY <1>3, <1>7, <1>9 DEF DInv, History, OksCoverAnswers, PreparedAreOpened, LoadedAreOpened
<1>13. SessionsAreOpened'
  BY <1>3, <1>7, SessionsStay DEF DInv, History
<1>14. InstalledMeansLoaded' /\ BoundKeyWasSent' /\ BoundInThisSession'
  BY <1>3, <1>7, CardsKeepVerdicts DEF DInv
<1> QED BY <1>4, <1>8, <1>10, <1>11, <1>12, <1>13, <1>14 DEF DInv, History

\* A card prepares for a server that echoed its own signature.
LEMMA CardPreparesKeeps ==
  ASSUME DInv, NEW c \in Cards, CardPrepares(c)
  PROVE  DInv'
<1>1. PICK m \in network.authenticateOk, k \in OneTimeKeys :
        LET sig1 == m.smdpSignature2.over.euiccSignature1
            signed == [transactionId |-> m.transactionId, euiccOtpk |-> k]
        IN  /\ sig1.key = c
            /\ sig1.over.transactionId = m.transactionId
            /\ \A r \in network.prepareResponse : r.euiccSigned2.euiccOtpk # k
            /\ prepared' = [prepared EXCEPT ![c] =
                 {p \in prepared[c] : p.transactionId # m.transactionId} \cup
                 {[transactionId |-> m.transactionId, otpk |-> k,
                   shown |-> m.profileMetaData]}]
            /\ Sends("prepareResponse",
                 [euiccSigned2 |-> signed,
                  euiccSignature2 |->
                    [key |-> c, over |-> [euiccSigned2 |-> signed,
                                          smdpSignature2 |-> m.smdpSignature2]]])
  BY DEF CardPrepares
<1> DEFINE signed == [transactionId |-> m.transactionId, euiccOtpk |-> k]
           n == [euiccSigned2 |-> signed,
                 euiccSignature2 |->
                   [key |-> c, over |-> [euiccSigned2 |-> signed,
                                         smdpSignature2 |-> m.smdpSignature2]]]
           new == [transactionId |-> m.transactionId, otpk |-> k,
                   shown |-> m.profileMetaData]
<1>2. /\ m.smdpSignature2.over.euiccSignature1.key = c
      /\ m.smdpSignature2.over.euiccSignature1.over.transactionId = m.transactionId
      /\ prepared' = [prepared EXCEPT ![c] =
           {p \in prepared[c] : p.transactionId # m.transactionId} \cup {new}]
      /\ Sends("prepareResponse", n)
  BY <1>1
<1>21. /\ \A r \in network.prepareResponse : r.euiccSigned2.euiccOtpk # k
       /\ n.euiccSigned2.euiccOtpk = k
  BY <1>1
<1>3. UNCHANGED <<session, last, crashed, loaded, confirmed>>
  BY DEF CardPrepares
<1>4. IInv' /\ TypeOK'
  BY <1>3, CardsLeaveSessions
<1>5. /\ m.transactionId \in TransactionIds /\ m.profileMetaData \in Metadata
      /\ m.smdpSignature2 \in SmdpSignature2s
  <2>1. m \in AuthenticateClientOks
    BY DEF DInv, DownloadTypeOK
  <2> QED BY <2>1 DEF AuthenticateClientOks
<1>6. n \in PrepareDownloadResponses
  BY <1>5 DEF PrepareDownloadResponses, EuiccSigned2s, EuiccSignature2s
<1>7. /\ new \in Preparations
      /\ new.transactionId = m.transactionId /\ new.shown = m.profileMetaData
  BY <1>5 DEF Preparations
<1>8. /\ OpenedFor(m.transactionId, c)
      /\ m.profileMetaData \in OrderedMetadata[m.transactionId]
  BY <1>2 DEF DInv, History, OksCoverAnswers
<1> HIDE DEF n, new
<1>9. /\ network'.initiateOk = network.initiateOk
      /\ network'.authenticateResponse = network.authenticateResponse
      /\ network'.authenticateOk = network.authenticateOk
      /\ network'.prepareResponse = network.prepareResponse \cup {n}
      /\ network'.bpp = network.bpp
      /\ network'.result = network.result
  BY <1>2, SendsShape DEF DInv, Kinds
<1>10. /\ prepared \in [Cards -> SUBSET Preparations]
       /\ prepared' \in [Cards -> SUBSET Preparations]
       /\ \A d \in Cards : \A p \in prepared'[d] :
            p \in prepared[d] \/ (d = c /\ p = new)
  <2>1. prepared \in [Cards -> SUBSET Preparations]
    BY DEF DInv, DownloadTypeOK
  <2> QED BY <1>2, <1>7, <2>1
<1>11. DownloadTypeOK'
  BY <1>2, <1>3, <1>4, <1>6, <1>10, SendsType DEF DInv, DownloadTypeOK, Kinds
<1>12. \A tt, cc : OpenedFor(tt, cc) => OpenedFor(tt, cc)'
  BY <1>9, OpenedGrows
<1>13. PreparedAreOpened'
  BY <1>7, <1>8, <1>10, <1>12 DEF DInv, History, PreparedAreOpened
<1>14. OpenedOnce' /\ AnswersAreToChallenges' /\ BppsAreOrdered' /\ ResultsAreTrue'
  BY <1>3, <1>9 DEF DInv, History, OpenedOnce, AnswersAreToChallenges,
                    BppsAreOrdered, ResultsAreTrue
<1>141. KeysAreDrawnOnce'
  BY <1>9, <1>21 DEF DInv, History, KeysAreDrawnOnce
<1>15. OksCoverAnswers' /\ LoadedAreOpened'
  BY <1>3, <1>9, <1>12 DEF DInv, History, OksCoverAnswers, LoadedAreOpened
<1>16. SessionsAreOpened'
  BY <1>3, <1>9, SessionsStay DEF DInv, History
<1>17. InstalledMeansLoaded' /\ BoundKeyWasSent' /\ BoundInThisSession'
  BY <1>3, <1>9, <1>21, CardsKeepVerdicts DEF DInv
<1> QED BY <1>4, <1>11, <1>13, <1>14, <1>141, <1>15, <1>16, <1>17 DEF DInv, History

\* A card loads or gives up on a package of one of its preparations, and says
\* which.
LEMMA CardOutcome ==
  ASSUME DInv, NEW c \in Cards, CardLoads(c) \/ CardRejects(c)
  PROVE  \E b \in network.bpp, p \in prepared[c], success \in BOOLEAN :
           /\ b.transactionId = p.transactionId
           /\ success => b.protection.eid = EidOf[c]
           /\ loaded' = IF success
                        THEN loaded \cup {[card |-> c, bpp |-> b, shown |-> p.shown]}
                        ELSE loaded
           /\ prepared' = [prepared EXCEPT ![c] = prepared[c] \ {p}]
           /\ Sends("result", SignedResult(c, b.transactionId, success))
           /\ UNCHANGED <<session, last, crashed, confirmed>>
<1>1. CASE CardLoads(c)
  <2>1. PICK b \in network.bpp, p \in prepared[c] :
          /\ b.transactionId = p.transactionId
          /\ b.protection = [otsk |-> b.smdpOtpk, otpk |-> p.otpk, eid |-> EidOf[c]]
          /\ loaded' = loaded \cup {[card |-> c, bpp |-> b, shown |-> p.shown]}
          /\ prepared' = [prepared EXCEPT ![c] = prepared[c] \ {p}]
          /\ Sends("result", SignedResult(c, b.transactionId, TRUE))
    BY <1>1 DEF CardLoads
  <2>2. b.protection.eid = EidOf[c]
    BY <2>1
  <2> QED BY <1>1, <2>1, <2>2 DEF CardLoads
<1>2. CASE CardRejects(c)
  <2>1. PICK b \in network.bpp, p \in prepared[c] :
          /\ b.transactionId = p.transactionId
          /\ prepared' = [prepared EXCEPT ![c] = prepared[c] \ {p}]
          /\ Sends("result", SignedResult(c, b.transactionId, FALSE))
    BY <1>2 DEF CardRejects
  <2> QED BY <1>2, <2>1 DEF CardRejects
<1> QED BY <1>1, <1>2

\* What it reports is what it did.
LEMMA CardResultsKeep ==
  ASSUME DInv, NEW c \in Cards, CardLoads(c) \/ CardRejects(c)
  PROVE  DInv'
<1>1. PICK b \in network.bpp, p \in prepared[c], success \in BOOLEAN :
        /\ b.transactionId = p.transactionId
        /\ success => b.protection.eid = EidOf[c]
        /\ loaded' = IF success
                     THEN loaded \cup {[card |-> c, bpp |-> b, shown |-> p.shown]}
                     ELSE loaded
        /\ prepared' = [prepared EXCEPT ![c] = prepared[c] \ {p}]
        /\ Sends("result", SignedResult(c, b.transactionId, success))
        /\ UNCHANGED <<session, last, crashed, confirmed>>
  BY CardOutcome
<1> DEFINE n == SignedResult(c, b.transactionId, success)
           l == [card |-> c, bpp |-> b, shown |-> p.shown]
<1>2. IInv' /\ TypeOK'
  BY <1>1, CardsLeaveSessions
<1>3. /\ b \in BoundProfilePackages /\ p \in Preparations
      /\ prepared \in [Cards -> SUBSET Preparations]
  BY DEF DInv, DownloadTypeOK
<1>4. /\ n.data.transactionId = b.transactionId /\ n.data.success = success
      /\ n.euiccSignPIR.key = c
      /\ n \in ProfileInstallationResults
  <2>1. b.transactionId \in TransactionIds
    BY <1>3 DEF BoundProfilePackages
  <2> QED BY <2>1 DEF SignedResult, ProfileInstallationResults, ResultDatas, ResultSignatures
<1>5. /\ l \in Loads
      /\ l.card = c /\ l.bpp = b /\ l.shown = p.shown
  BY <1>3 DEF Loads, Preparations
<1>6. /\ OpenedFor(b.transactionId, c)
      /\ b.metadata \in OrderedMetadata[b.transactionId]
      /\ p.shown \in OrderedMetadata[b.transactionId]
  BY <1>1 DEF DInv, History, PreparedAreOpened, BppsAreOrdered
<1> HIDE DEF n, l
<1>7. /\ loaded \subseteq loaded'
      /\ loaded' \subseteq Loads
      /\ \A k \in loaded' : k \in loaded \/ (success /\ k = l)
      /\ success => l \in loaded'
  BY <1>1, <1>5 DEF DInv, DownloadTypeOK, l
<1>8. /\ network'.initiateOk = network.initiateOk
      /\ network'.authenticateResponse = network.authenticateResponse
      /\ network'.authenticateOk = network.authenticateOk
      /\ network'.prepareResponse = network.prepareResponse
      /\ network'.bpp = network.bpp
      /\ network'.result = network.result \cup {n}
  BY <1>1, SendsShape DEF DInv, Kinds, n
<1>9. /\ prepared' \in [Cards -> SUBSET Preparations]
      /\ \A d \in Cards : prepared'[d] \subseteq prepared[d]
  BY <1>1, <1>3
<1>10. DownloadTypeOK'
  BY <1>1, <1>2, <1>4, <1>7, <1>9, SendsType DEF DInv, DownloadTypeOK, Kinds, n
<1>11. \A tt, cc : OpenedFor(tt, cc) => OpenedFor(tt, cc)'
  BY <1>8, OpenedGrows
<1>12. PreparedAreOpened'
  BY <1>9, <1>11 DEF DInv, History, PreparedAreOpened
<1>13. LoadedAreOpened'
  BY <1>1, <1>5, <1>6, <1>7, <1>11 DEF DInv, History, LoadedAreOpened
<1>14. ResultsAreTrue'
  <2> SUFFICES ASSUME NEW m \in network'.result, m.data.success
               PROVE  \E k \in loaded' :
                        /\ k.card = m.euiccSignPIR.key
                        /\ k.bpp.transactionId = m.data.transactionId
    BY DEF ResultsAreTrue
  <2>1. CASE m \in network.result
    BY <1>7, <2>1 DEF DInv, History, ResultsAreTrue
  <2>2. CASE m = n
    BY <1>4, <1>5, <1>7, <2>2
  <2> QED BY <1>8, <2>1, <2>2
<1>15. /\ OpenedOnce' /\ AnswersAreToChallenges' /\ BppsAreOrdered' /\ OksCoverAnswers'
       /\ KeysAreDrawnOnce'
  BY <1>8, <1>11 DEF DInv, History, OpenedOnce, AnswersAreToChallenges,
                     BppsAreOrdered, OksCoverAnswers, KeysAreDrawnOnce
<1>16. SessionsAreOpened'
  BY <1>1, <1>8, SessionsStay DEF DInv, History
<1>17. InstalledMeansLoaded' /\ BoundKeyWasSent' /\ BoundInThisSession'
  BY <1>1, <1>7, <1>8, CardsKeepVerdicts DEF DInv
<1> QED BY <1>2, <1>10, <1>12, <1>13, <1>14, <1>15, <1>16, <1>17 DEF DInv, History

-----------------------------------------------------------------------------
(* The invariant holds *)

\* Nobody has said anything yet.
LEMMA InitDInv == ZeroedHeap /\ DownloadInit => DInv
<1> SUFFICES ASSUME ZeroedHeap, DownloadInit PROVE DInv
  OBVIOUS
<1>1. IInv /\ TypeOK /\ last = None /\ \A s \in Sessions : session[s] = None
  BY InitIInv DEF DownloadInit, Init, IInv
<1>2. /\ network.initiateOk = {} /\ network.authenticateResponse = {}
      /\ network.authenticateOk = {} /\ network.prepareResponse = {}
      /\ network.bpp = {} /\ network.result = {}
      /\ network \in [initiateOk : SUBSET InitiateAuthenticationOks,
                      authenticateResponse : SUBSET AuthenticateServerResponses,
                      authenticateOk : SUBSET AuthenticateClientOks,
                      prepareResponse : SUBSET PrepareDownloadResponses,
                      bpp : SUBSET BoundProfilePackages,
                      result : SUBSET ProfileInstallationResults]
  <2>1. network = [initiateOk |-> {}, authenticateResponse |-> {}, authenticateOk |-> {},
                   prepareResponse |-> {}, bpp |-> {}, result |-> {}]
    BY DEF DownloadInit, Kinds
  <2> QED BY <2>1
<1>3. DownloadTypeOK
  BY <1>1, <1>2 DEF DownloadInit, DownloadTypeOK
<1>4. History
  BY <1>1, <1>2 DEF DownloadInit, History, OpenedOnce, AnswersAreToChallenges,
     OksCoverAnswers, PreparedAreOpened, BppsAreOrdered, LoadedAreOpened,
     ResultsAreTrue, KeysAreDrawnOnce, SessionsAreOpened, Live
<1> QED BY <1>1, <1>3, <1>4 DEF DInv, InstalledMeansLoaded,
       BoundKeyWasSent, BoundInThisSession

\* Nothing that can happen breaks it.
LEMMA NextDInv == DInv /\ [DownloadNext]_dvars => DInv'
<1> SUFFICES ASSUME DInv, [DownloadNext]_dvars PROVE DInv'
  OBVIOUS
<1>1. CASE UNCHANGED dvars
  <2>1. UNCHANGED <<session, last, crashed, network, prepared, loaded, confirmed>>
    BY <1>1 DEF dvars
  <2>2. IInv' /\ TypeOK'
    BY <2>1, CardsLeaveSessions
  <2>3. DownloadTypeOK'
    BY <2>1, <2>2 DEF DInv, DownloadTypeOK
  <2>4. SessionsAreOpened'
    BY <2>1, SessionsStay DEF DInv, History
  <2>5. History'
    BY <2>1, <2>4, QuietKeeps DEF DInv
  <2>6. InstalledMeansLoaded' /\ BoundKeyWasSent' /\ BoundInThisSession'
    BY <2>1, CardsKeepVerdicts DEF DInv
  <2> QED BY <2>2, <2>3, <2>5, <2>6 DEF DInv
<1>2. CASE DownloadNext
  BY <1>2, InitiatesKeeps, AuthenticatesKeeps, BindsKeeps, VerifiesKeeps, ForgetsKeeps,
     CardAuthenticatesKeeps, CardPreparesKeeps, CardResultsKeep DEF DownloadNext
<1> QED BY <1>1, <1>2

\* The invariant of a download.
LEMMA DownloadInvariant == ZeroedHeap => (DownloadSpec => []DInv)
<1> SUFFICES ASSUME ZeroedHeap PROVE DownloadSpec => []DInv
  OBVIOUS
<1>1. DownloadInit => DInv
  BY InitDInv
<1> QED BY <1>1, NextDInv, PTL DEF DownloadSpec

-----------------------------------------------------------------------------
(* Theorems *)

\* If malloc's memory is zeroed, only messages of their types are ever in
\* flight, and cards hold and load only what they can.
THEOREM DownloadTypeCorrect == ZeroedHeap => (DownloadSpec => []DownloadTypeOK)
<1> SUFFICES ASSUME ZeroedHeap PROVE DownloadSpec => []DownloadTypeOK
  OBVIOUS
<1>1. DInv => DownloadTypeOK
  BY DEF DInv
<1> QED BY <1>1, DownloadInvariant, PTL

\* If malloc's memory is zeroed, an authenticated session is with the card
\* whose challenge opened it, even if the caller reuses transactionIds.
THEOREM ChallengerHolds == ZeroedHeap => (DownloadSpec => []SessionCardIsChallenger)
<1> SUFFICES ASSUME ZeroedHeap PROVE DownloadSpec => []SessionCardIsChallenger
  OBVIOUS
<1>1. DInv => SessionCardIsChallenger
  BY DEF DInv, IInv, AllAnchored, Anchored, History, SessionsAreOpened,
         SessionCardIsChallenger
<1> QED BY <1>1, DownloadInvariant, PTL

\* If malloc's memory is zeroed, a profile reported installed was loaded by the
\* session's card, bound for it under this transaction, however messages stray.
THEOREM InstalledLoaded == ZeroedHeap => (DownloadSpec => []InstalledMeansLoaded)
<1> SUFFICES ASSUME ZeroedHeap PROVE DownloadSpec => []InstalledMeansLoaded
  OBVIOUS
<1>1. DInv => InstalledMeansLoaded
  BY DEF DInv
<1> QED BY <1>1, DownloadInvariant, PTL

\* If malloc's memory is zeroed, a package is bound only with a one-time key the
\* session's card drew for this session's challenge, for any number of sessions
\* live at once, transactionIds reused or not.
THEOREM BoundHere == ZeroedHeap => (DownloadSpec => []BoundInThisSession)
<1> SUFFICES ASSUME ZeroedHeap PROVE DownloadSpec => []BoundInThisSession
  OBVIOUS
<1>1. DInv => BoundInThisSession
  BY DEF DInv
<1> QED BY <1>1, DownloadInvariant, PTL

\* A caller that has one metadata for each transaction.
OneMetadata ==
  \A t \in TransactionIds : \A a, b \in OrderedMetadata[t] : a = b

\* Then, and if malloc's memory is zeroed, what is loaded is what was shown.
THEOREM ShownLoaded == ZeroedHeap /\ OneMetadata => (DownloadSpec => []ShownIsLoaded)
<1> SUFFICES ASSUME ZeroedHeap, OneMetadata PROVE DownloadSpec => []ShownIsLoaded
  OBVIOUS
<1>1. DInv => ShownIsLoaded
  <2> SUFFICES ASSUME DInv, NEW l \in loaded PROVE l.bpp.metadata = l.shown
    BY DEF ShownIsLoaded
  <2>1. l.bpp.transactionId \in TransactionIds
    BY DEF DInv, DownloadTypeOK, Loads, BoundProfilePackages
  <2> QED BY <2>1 DEF DInv, History, LoadedAreOpened, OneMetadata
<1> QED BY <1>1, DownloadInvariant, PTL

-----------------------------------------------------------------------------
(* The promise is kept *)

openedPairs == {<<m.transactionId, IssuedBy[m.euiccChallenge]>> : m \in network.initiateOk}
loadedPairs == {<<l.bpp.transactionId, l.card>> : l \in loaded}

\* A step that opens, loads and confirms nothing is no step of the promise.
LEMMA QuietKeepsPromise ==
  ASSUME network'.initiateOk = network.initiateOk, UNCHANGED <<loaded, confirmed>>
  PROVE  [Promise!Next]_(Promise!vars)
BY DEF Promise!vars

\* With fresh transactionIds, what the server sends first opens a transaction.
LEMMA InitiateKeepsPromise ==
  ASSUME TransactionIdsFresh, DInv, NEW s \in Sessions, ServerInitiates(s)
  PROVE  [Promise!Next]_(Promise!vars)
<1>1. UNCHANGED <<loaded, confirmed>>
  BY InitiateOutcome
<1>2. CASE UNCHANGED network
  BY <1>1, <1>2, QuietKeepsPromise
<1>3. ASSUME NEW t \in TransactionIds, NEW ec \in EuiccChallenges,
             NEW sc \in ServerChallenges, Fresh(t, sc),
             Sends("initiateOk", InitiateOk(t, ec, sc))
      PROVE  Promise!Next
  <2> DEFINE n == InitiateOk(t, ec, sc)
  <2>1. network'.initiateOk = network.initiateOk \cup {n}
    BY <1>3, SendsShape DEF DInv, Kinds
  <2>2. openedPairs' = openedPairs \cup {<<t, IssuedBy[ec]>>}
    <3>1. n.transactionId = t /\ n.euiccChallenge = ec
      BY DEF InitiateOk
    <3> HIDE DEF n
    <3> QED BY <2>1, <3>1 DEF openedPairs
  <2>3. \A q \in openedPairs : q[1] # t
    BY <1>3 DEF openedPairs, Fresh
  <2>4. IssuedBy[ec] \in Cards
    BY DownloadAssumption
  <2>5. Promise!Open(t, IssuedBy[ec])
    BY <1>1, <2>2, <2>3 DEF Promise!Open, openedPairs
  <2> QED BY <2>4, <2>5 DEF Promise!Next
<1> QED BY <1>2, <1>3, InitiateOutcome

\* A card loads only under a transaction that was opened for it.
LEMMA CardKeepsPromise ==
  ASSUME DInv, NEW c \in Cards, CardLoads(c) \/ CardRejects(c)
  PROVE  [Promise!Next]_(Promise!vars)
<1>1. PICK b \in network.bpp, p \in prepared[c], success \in BOOLEAN :
        /\ b.transactionId = p.transactionId
        /\ loaded' = IF success
                     THEN loaded \cup {[card |-> c, bpp |-> b, shown |-> p.shown]}
                     ELSE loaded
        /\ Sends("result", SignedResult(c, b.transactionId, success))
        /\ UNCHANGED confirmed
  BY CardOutcome
<1>2. network'.initiateOk = network.initiateOk
  BY <1>1, SendsShape DEF DInv, Kinds
<1>3. CASE ~success
  BY <1>1, <1>2, <1>3, QuietKeepsPromise
<1>4. CASE success
  <2>1. b.transactionId \in TransactionIds
    BY DEF DInv, DownloadTypeOK, BoundProfilePackages
  <2>2. <<b.transactionId, c>> \in openedPairs
    BY <1>1 DEF DInv, History, PreparedAreOpened, OpenedFor, openedPairs
  <2>3. loadedPairs' = loadedPairs \cup {<<b.transactionId, c>>}
    <3> DEFINE l == [card |-> c, bpp |-> b, shown |-> p.shown]
    <3>1. loaded' = loaded \cup {l}
      BY <1>1, <1>4
    <3>2. l.bpp = b /\ l.card = c
      OBVIOUS
    <3> HIDE DEF l
    <3> QED BY <3>1, <3>2 DEF loadedPairs
  <2>4. Promise!Load(b.transactionId, c)
    BY <1>1, <1>2, <2>2, <2>3 DEF Promise!Load, openedPairs, loadedPairs
  <2> QED BY <2>1, <2>4 DEF Promise!Next
<1> QED BY <1>3, <1>4

\* The server holds for installed only what was loaded.
LEMMA VerifyKeepsPromise ==
  ASSUME DInv, NEW s \in Sessions, ServerVerifies(s)
  PROVE  [Promise!Next]_(Promise!vars)
<1>1. UNCHANGED <<network, loaded>>
  BY VerifyOutcome DEF DInv
<1>2. CASE UNCHANGED confirmed
  BY <1>1, <1>2, QuietKeepsPromise
<1>3. ASSUME NEW m \in network.result, VerifyAccepts(session[s], m), m.data.success,
             confirmed' = confirmed \cup {session[s].transaction_id}
      PROVE  Promise!Next
  <2> DEFINE t == session[s].transaction_id
  <2>1. Live(s)
    BY DEF ServerVerifies, VerifyInstallationResult
  <2>2. t \in TransactionIds /\ \E l \in loaded : l.bpp.transactionId = t
    BY <1>3, <2>1, VerifiedIsLoaded
  <2>3. \E q \in loadedPairs : q[1] = t
    <3>1. PICK l \in loaded : l.bpp.transactionId = t
      BY <2>2
    <3>2. <<l.bpp.transactionId, l.card>> \in loadedPairs
      BY DEF loadedPairs
    <3>3. <<l.bpp.transactionId, l.card>>[1] = t
      BY <3>1
    <3> QED BY <3>2, <3>3
  <2>4. Promise!Confirm(t)
    BY <1>1, <1>3, <2>3 DEF Promise!Confirm, loadedPairs
  <2> QED BY <2>2, <2>4 DEF Promise!Next
<1> QED BY <1>2, <1>3, VerifyOutcome DEF DInv

\* Every step of a download is a step of the promise or none.
LEMMA NextKeepsPromise ==
  TransactionIdsFresh /\ DInv /\ [DownloadNext]_dvars => [Promise!Next]_(Promise!vars)
<1> SUFFICES ASSUME TransactionIdsFresh, DInv, [DownloadNext]_dvars
             PROVE  [Promise!Next]_(Promise!vars)
  OBVIOUS
<1>1. CASE UNCHANGED dvars
  BY <1>1, QuietKeepsPromise DEF dvars
<1>2. ASSUME NEW s \in Sessions, ServerAuthenticates(s)
      PROVE  [Promise!Next]_(Promise!vars)
  <2>1. /\ UNCHANGED <<loaded, confirmed>>
        /\ \/ UNCHANGED network
           \/ \E m : Sends("authenticateOk", m)
    BY <1>2, AuthenticateOutcome
  <2>2. network'.initiateOk = network.initiateOk
    BY <2>1, SendsShape DEF DInv, Kinds
  <2> QED BY <2>1, <2>2, QuietKeepsPromise
<1>3. ASSUME NEW s \in Sessions, ServerBinds(s)
      PROVE  [Promise!Next]_(Promise!vars)
  <2>1. /\ UNCHANGED <<loaded, confirmed>>
        /\ \/ UNCHANGED network
           \/ \E m : Sends("bpp", m)
    BY <1>3, BindOutcome DEF DInv
  <2>2. network'.initiateOk = network.initiateOk
    BY <2>1, SendsShape DEF DInv, Kinds
  <2> QED BY <2>1, <2>2, QuietKeepsPromise
<1>4. ASSUME NEW s \in Sessions, ServerForgets(s)
      PROVE  [Promise!Next]_(Promise!vars)
  BY <1>4, ForgetOutcome, QuietKeepsPromise
<1>5. ASSUME NEW c \in Cards, CardAuthenticates(c) \/ CardPrepares(c)
      PROVE  [Promise!Next]_(Promise!vars)
  <2>1. /\ UNCHANGED <<loaded, confirmed>>
        /\ \E m : Sends("authenticateResponse", m) \/ Sends("prepareResponse", m)
    BY <1>5 DEF CardAuthenticates, CardPrepares, cardVars
  <2>2. network'.initiateOk = network.initiateOk
    BY <2>1, SendsShape DEF DInv, Kinds
  <2> QED BY <2>1, <2>2, QuietKeepsPromise
<1> QED BY <1>1, <1>2, <1>3, <1>4, <1>5, InitiateKeepsPromise, CardKeepsPromise,
           VerifyKeepsPromise DEF DownloadNext

\* On a zeroed heap and with fresh transactionIds the library's sessions and the eUICCs, over a
\* network that may do anything but invent signatures, implement the promise:
\* one card per transaction, loaded by that card, installed only if loaded.
THEOREM PromiseKept == ZeroedHeap /\ TransactionIdsFresh => (DownloadSpec => KeepsPromise)
<1> SUFFICES ASSUME ZeroedHeap, TransactionIdsFresh PROVE DownloadSpec => KeepsPromise
  OBVIOUS
<1>1. DownloadInit => Promise!Init
  BY DEF DownloadInit, Kinds, Promise!Init
<1>2. DInv /\ [DownloadNext]_dvars => [Promise!Next]_(Promise!vars)
  BY NextKeepsPromise
<1> QED BY <1>1, <1>2, DownloadInvariant, PTL DEF DownloadSpec, KeepsPromise, Promise!Spec
=============================================================================
