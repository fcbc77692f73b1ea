------------------------------ MODULE Download ------------------------------
(***************************************************************************)
(* Profile downloads end to end: the library's sessions (DpSession), the   *)
(* eUICCs at the other end, and the path between them.                     *)
(*                                                                         *)
(* The network is the set of messages ever sent.  A message may be         *)
(* delivered never, late, twice, or to a session other than its own, so a  *)
(* call takes any message of the network.  The cards are not part of this  *)
(* repository: a card here does what the checks of src/rsp_es9.c assume a  *)
(* conformant eUICC does, and no more.                                     *)
(***************************************************************************)
EXTENDS DpSession, FiniteSets

CONSTANTS
  IssuedBy,           \* the card that drew each euiccChallenge
  OrderedMetadata,    \* the metadata the caller has for each transaction
  TransactionIdsFresh \* the caller never draws a transactionId twice

ASSUME DownloadAssumption ==
  /\ IssuedBy \in [EuiccChallenges -> Cards]
  /\ OrderedMetadata \in [TransactionIds -> SUBSET Metadata]
  /\ TransactionIdsFresh \in BOOLEAN
  /\ Installed \notin {NotInstalled, Untouched, Wild}

VARIABLES
  network,    \* the messages sent so far, by kind
  prepared,   \* the one-time keys each card holds, and what for
  loaded,     \* what each card loaded: [card, bpp, shown]
  confirmed   \* history: transactions whose result was reported installed

dvars == <<session, last, crashed, network, prepared, loaded, confirmed>>
cardVars == <<prepared, loaded>>

Kinds == {"initiateOk", "authenticateResponse", "authenticateOk",
          "prepareResponse", "bpp", "result"}

\* A one-time key pair on a card: for which transaction, and which metadata
\* the LPA was given for it.
Preparations ==
  [transactionId : TransactionIds, otpk : OneTimeKeys, shown : Metadata]

Loads == [card : Cards, bpp : BoundProfilePackages, shown : Metadata]

\* The network carries only what the library or a card sends, each of its type,
\* and a card holds one-time keys and loads packages of theirs.
DownloadTypeOK ==
  /\ TypeOK
  /\ network \in [initiateOk : SUBSET InitiateAuthenticationOks,
                  authenticateResponse : SUBSET AuthenticateServerResponses,
                  authenticateOk : SUBSET AuthenticateClientOks,
                  prepareResponse : SUBSET PrepareDownloadResponses,
                  bpp : SUBSET BoundProfilePackages,
                  result : SUBSET ProfileInstallationResults]
  /\ prepared \in [Cards -> SUBSET Preparations]
  /\ loaded \subseteq Loads
  /\ confirmed \subseteq TransactionIds

DownloadInit ==
  /\ Init
  /\ network = [k \in Kinds |-> {}]
  /\ prepared = [c \in Cards |-> {}]
  /\ loaded = {}
  /\ confirmed = {}

Sends(kind, m) == network' = [network EXCEPT ![kind] = @ \cup {m}]

-----------------------------------------------------------------------------
(* The server: library calls, their answer sent on when there is one *)

SendsAnswer(kind) ==
  IF last'.ret = 0 THEN Sends(kind, last'.out) ELSE UNCHANGED network

\* transaction_id and server_challenge are the caller's: "production passes
\* fresh random" (include/rsp.h).
Fresh(t, sc) ==
  \A m \in network.initiateOk :
    /\ TransactionIdsFresh => m.transactionId # t
    /\ m.serverChallenge # sc

ServerInitiates(s) ==
  /\ \E t \in TransactionIds, ec \in EuiccChallenges, sc \in ServerChallenges :
       Fresh(t, sc) /\ InitiateAuthentication(s, t, ec, sc, TRUE)
  /\ SendsAnswer("initiateOk")
  /\ UNCHANGED <<cardVars, confirmed>>

ServerAuthenticates(s) ==
  /\ Live(s)
  /\ \E m \in network.authenticateResponse :
       \E md \in OrderedMetadata[session[s].transaction_id] :
         AuthenticateClient(s, m, md)
  /\ SendsAnswer("authenticateOk")
  /\ UNCHANGED <<cardVars, confirmed>>

ServerBinds(s) ==
  /\ \E m \in network.prepareResponse, otsk \in OneTimeSecrets, upp \in Profiles :
       GetBoundProfilePackage(s, m, otsk, upp)
  /\ SendsAnswer("bpp")
  /\ UNCHANGED <<cardVars, confirmed>>

ServerVerifies(s) ==
  /\ \E m \in network.result : VerifyInstallationResult(s, m)
  /\ confirmed' = IF last'.ret = 0 /\ last'.out = Installed
                  THEN confirmed \cup {session[s].transaction_id}
                  ELSE confirmed
  /\ UNCHANGED <<network, cardVars>>

ServerForgets(s) ==
  /\ SessionFree(s)
  /\ UNCHANGED <<network, cardVars, confirmed>>

-----------------------------------------------------------------------------
(* The cards *)

\* AuthenticateServer: the server's signature, over a challenge of its own.
CardAuthenticates(c) ==
  /\ \E m \in network.initiateOk, x \in Salts :
       /\ m.key = "DPauth"
       /\ IssuedBy[m.euiccChallenge] = c
       /\ LET signed == [transactionId |-> m.transactionId,
                         serverChallenge |-> m.serverChallenge]
          IN  Sends("authenticateResponse",
                [euiccSigned1 |-> signed,
                 euiccSignature1 |-> [key |-> c, over |-> signed, salt |-> x],
                 euiccCertificate |-> c])
  /\ UNCHANGED <<session, last, crashed, cardVars, confirmed>>

\* PrepareDownload: smdpSignature2 is DPpb's, over this card's own
\* euiccSignature1.  One key pair per transaction, drawn afresh.
CardPrepares(c) ==
  /\ \E m \in network.authenticateOk, k \in OneTimeKeys :
       LET sig1 == m.smdpSignature2.over.euiccSignature1
           signed == [transactionId |-> m.transactionId, euiccOtpk |-> k]
       IN  /\ m.smdpSignature2.key = "DPpb"
           /\ m.smdpSignature2.over.transactionId = m.transactionId
           /\ sig1.key = c
           /\ sig1.over.transactionId = m.transactionId
           /\ \A r \in network.prepareResponse : r.euiccSigned2.euiccOtpk # k
           /\ prepared' = [prepared EXCEPT ![c] =
                {p \in @ : p.transactionId # m.transactionId} \cup
                {[transactionId |-> m.transactionId, otpk |-> k,
                  shown |-> m.profileMetaData]}]
           /\ Sends("prepareResponse",
                [euiccSigned2 |-> signed,
                 euiccSignature2 |->
                   [key |-> c, over |-> [euiccSigned2 |-> signed,
                                         smdpSignature2 |-> m.smdpSignature2]]])
  /\ UNCHANGED <<session, last, crashed, loaded, confirmed>>

SignedResult(c, t, success) ==
  LET d == [transactionId |-> t, success |-> success]
  IN  [data |-> d, euiccSignPIR |-> [key |-> c, over |-> d]]

\* LoadBoundProfilePackage: smdpSign covers the card's own one-time key, and
\* the keys the card derives are those the segments are protected with.
CardLoads(c) ==
  /\ \E b \in network.bpp, p \in prepared[c] :
       /\ b.key = "DPpb"
       /\ b.transactionId = p.transactionId
       /\ b.euiccOtpk = p.otpk
       /\ b.protection = [otsk |-> b.smdpOtpk, otpk |-> p.otpk, eid |-> EidOf[c]]
       /\ loaded' = loaded \cup {[card |-> c, bpp |-> b, shown |-> p.shown]}
       /\ prepared' = [prepared EXCEPT ![c] = @ \ {p}]
       /\ Sends("result", SignedResult(c, b.transactionId, TRUE))
  /\ UNCHANGED <<session, last, crashed, confirmed>>

\* The card gives up on a BPP, for whatever reason, and says so.
CardRejects(c) ==
  /\ \E b \in network.bpp, p \in prepared[c] :
       /\ b.transactionId = p.transactionId
       /\ prepared' = [prepared EXCEPT ![c] = @ \ {p}]
       /\ Sends("result", SignedResult(c, b.transactionId, FALSE))
  /\ UNCHANGED <<session, last, crashed, loaded, confirmed>>

-----------------------------------------------------------------------------
DownloadNext ==
  /\ ~crashed
  /\ \/ \E s \in Sessions :
          \/ ServerInitiates(s)
          \/ ServerAuthenticates(s)
          \/ ServerBinds(s)
          \/ ServerVerifies(s)
          \/ ServerForgets(s)
     \/ \E c \in Cards :
          \/ CardAuthenticates(c)
          \/ CardPrepares(c)
          \/ CardLoads(c)
          \/ CardRejects(c)

DownloadSpec == DownloadInit /\ [][DownloadNext]_dvars

-----------------------------------------------------------------------------
(* Properties *)

\* An authenticated session is with the card whose challenge opened it, and
\* stays with that card however often it is authenticated again.
SessionCardIsChallenger ==
  \A s \in Sessions :
    Live(s) /\ session[s].authenticated =>
      session[s].euicc_cert = IssuedBy[session[s].euicc_challenge]

\* When rsp_dp_verify_installation_result reports a profile installed, the
\* session's card has loaded a BPP this session bound for it.
InstalledMeansLoaded ==
  last # None /\ last.fn = "verifyResult" /\ last.out = Installed =>
    \E l \in loaded :
      /\ l.card = session[last.s].euicc_cert
      /\ l.bpp.transactionId = session[last.s].transaction_id
      /\ l.bpp.protection.eid = session[last.s].eid

\* A BPP is bound only with a one-time key drawn for this very session: the card
\* that drew it answered this session's serverChallenge, and is the one this
\* session's euiccChallenge came from.  The key the same card drew for another
\* live session is refused, also under the same transactionId.
BoundInThisSession ==
  last # None /\ last.fn = "getBpp" /\ last.ret = 0 =>
    \A m \in network.prepareResponse :
      m.euiccSigned2.euiccOtpk = last.out.euiccOtpk =>
        LET answered == m.euiccSignature2.over.smdpSignature2.over.euiccSignature1
        IN  /\ answered.key = IssuedBy[session[last.s].euicc_challenge]
            /\ answered.over.serverChallenge = session[last.s].server_challenge

\* The metadata in a loaded profile's '88' group is the metadata the LPA was
\* given to show before the card prepared the download.
ShownIsLoaded == \A l \in loaded : l.bpp.metadata = l.shown

\* The library's sessions, with these cards, keep the promise of a download.
Promise == INSTANCE DownloadPromise WITH
  Transactions <- TransactionIds,
  Holders <- Cards,
  opened <- {<<m.transactionId, IssuedBy[m.euiccChallenge]>> : m \in network.initiateOk},
  loaded <- {<<l.bpp.transactionId, l.card>> : l \in loaded}

KeepsPromise == Promise!Spec
=============================================================================
