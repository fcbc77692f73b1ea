# Verification of euicc-rsp

TLA+ models of the SM-DP+ library in this repository (`include/rsp.h`,
`src/*.c`), the TLC configurations that check them, and TLAPS proofs.

Line numbers are those of `src/rsp_es9.c`, `src/rsp_bpp.c`,
`src/rsp_crypto.c`, `src/rsp_sign.c`, `src/rsp_internal.h` and
`include/rsp.h`.

## 1. The system

euicc-rsp is a passive library. It holds no global state, starts no thread,
opens no connection and never waits: a caller (a server) passes it messages
and it returns messages. What lives between two calls is the opaque
`rsp_dp_session_t` and the `rsp_session_t` (SCP03t keys, chain, counter).

| Part | State | Operations | Hard behaviour | What makes it correct |
| --- | --- | --- | --- | --- |
| DP session, `rsp_es9.c:195-1373, 1510-1519` | `struct rsp_dp_session` | `rsp_dp_initiate_authentication`, `rsp_dp_authenticate_client`, `rsp_dp_get_bound_profile_package`, `rsp_dp_verify_installation_result`, `rsp_dp_session_eid`, `rsp_dp_session_euicc_cert`, `rsp_dp_session_free` | any order of calls; re-authentication; rebind; a failing allocation after the output was written; unwritten fields of a malloc'ed object | a session serves only the eUICC that proved itself to it, what it keeps belongs together, failures leave it alone, and nothing it owns is lost or released twice |
| The download protocol, the same functions with their peers | both ends and the path | the ES9+ exchange | late, repeated, lost and misdelivered messages, several sessions | a card loads only what was bound for it and shown to it; "installed" means loaded |
| SCP03t, `rsp_crypto.c:166-218, 378-446, 471-799` | `chain`, `enc_counter`, keys | `rsp_session_init`, `rsp_protect`, `rsp_protect_mac_only`, `rsp_unprotect`, `rsp_unprotect_mac_only` | chain and counter in lockstep over encrypted and plain TLVs; refusal without advancing | TLVs accepted are TLVs protected, in order |
| Bound Profile Package, `rsp_bpp.c` | a builder's buffers, a receiver's position | `rsp_bpp_build`, `rsp_bpp_recover` | segment boundaries; failure between TLVs; damage on the way; truncation | the segments cover the UPP, success is a prefix of what was sent |
| Notifications, `rsp_es9.c:1521-1867` | none | `rsp_dp_notification_metadata`, `rsp_dp_verify_notification` | two CHOICE arms, BIT STRING scan | routing data only of what verified |
| Field accessors, `rsp_es9.c:1375-1504` | none | `rsp_dp_initiate_fields`, `rsp_dp_authenticate_fields` | offsets in nested TLVs | a field handed out is the encoded field |
| Buffers and lengths, `rsp_internal.h:182-268` | a growing buffer | `rsp_growbuf_append`, `rsp_der_length_octets` | a sum or a doubled capacity that wraps, length-form boundaries | no write leaves the buffer; an append returns, if what it needs is within reach of a doubled capacity |
| Signatures, PKI, key derivation, `rsp_sign.c`, `rsp_pki.c`, `rsp_crypto.c:35-164` | none | `rsp_sign`, `rsp_sign_verify`, `rsp_pki_*`, `rsp_ecdh_p256`, `rsp_kdf_x963` | "no" versus "not reached" | three-way return values |
| ASN.1 codec, mbedTLS | — | generated, vendored | — | assumed |

How they interact: `rsp_dp_get_bound_profile_package` derives an
`rsp_session_t` (`rsp_session_init`), hands it with the session's metadata to
`rsp_bpp_build`, which protects TLV by TLV, and keeps it in the session.
`rsp_dp_authenticate_client` and the two verifying functions use
`rsp_sign_verify`. `rsp_bpp_recover` is the eUICC's side of a BPP, for tests
and for a self-check before sending.

Return values: 0; -1 "the question was asked and the answer is no"; -2 "the
question was never reached".

## 2. Modules

| Module | Models |
| --- | --- |
| `DpSession` | the DP session. One action per exported function, a whole call each: `InitiateAuthentication`, `AuthenticateClient`, `GetBoundProfilePackage`, `VerifyInstallationResult`, `SessionEid`, `SessionEuiccCert`, `SessionFree`. `session[s]` is the struct with the source's field names; `last` is the latest call with its return value and its output |
| `SessionMemory` | what `DpSession` takes as one step: the functions that make, fill and free a session, allocation by allocation, free by free and assignment by assignment, each allocation able to fail. `ptr` has the source's names for the pointers, `call.at` says what comes next |
| `Download` | EXTENDS `DpSession` with the messages ever sent and the eUICCs. `Server*` actions are the library's calls on messages taken from the network; `Card*` actions are external |
| `DownloadPromise` | the abstract promise of a download; `Download!KeepsPromise` is the refinement |
| `Scp03t` | the SCP03t functions as operators on a session record |
| `SecureChannel` | the abstract promise of the protection: first protected, first accepted, nothing twice, nothing skipped |
| `Bpp` | `rsp_bpp_build` and `rsp_bpp_recover` over `Scp03t`, one step per TLV; `Bpp!KeepsOrder` refines `SecureChannel` |
| `Notification` | `rsp_dp_notification_metadata` and `rsp_dp_verify_notification`, a whole call each, with the caller of `rsp.h` around them: it reads the ICCID, looks up the certificate it kept from that Profile's download, verifies. Downloads, signing cards and the caller are external; `held`, `kept` and `signed` are theirs. The functions keep nothing between two calls, so one notification at a time stands for many |
| `Growbuf` | `rsp_growbuf_append`, a step for each turn of its loop and each effect, in `size_t` arithmetic that wraps; `rsp_growbuf_free` |
| `Der` | `rsp_der_length_octets`, `put_tlv_tag` and `parse_tlv` as operators on sequences of octets, the octet base a parameter |
| `Response` | EXTENDS `Growbuf` and `Der`: `der_encode_alloc` collects a response piece by piece in a growing buffer, `*resp` is that buffer, the caller passes it on whole, cut or altered, and `rsp_dp_initiate_fields` or `rsp_dp_authenticate_fields` walks it, one `take_field` a step |
| `MCDpSession`, `MCSessionMemory`, `MCDownload`, `MCBpp`, `MCNotification`, `MCResponse` | values for TLC |
| `DpSessionProofs`, `DownloadProofs`, `BppProofs`, `IntactProofs`, `NotificationProofs`, `DerProofs`, `ResponseProofs` | theorems, see section 4 |
| `DataInduction` | lemmas: induction and recursion over data, for the three last |

`Download` composes with `DpSession` because its actions are the session's
actions; `Bpp` uses `Scp03t` for every TLV. `Download` treats a BPP as one
message: what happens inside it is `Bpp`, which shows that a package is
accepted only in order and from its beginning.

### What the models keep and what they leave out

*Kept*: every check in its code order as far as it decides between 0, -1 and
-2, every write to a session, the point in a call where an output is written
or a session changes, the memory a session object is made of.

*Cryptography is symbolic.* A signature is its key and its content
(`rsp_sign` is deterministic ECDSA, `rsp_sign.c:60-125`, so equal contents give
equal signatures; a card's signature has a `salt`). A MAC is its key and
everything it was chained over: the chaining value is therefore the list of
TLVs MACed so far. CBC under an ICV is undone only by the same key and
counter. Whether a certificate chains to the CI is a constant of the card.

*-2 is an outcome of every call.* Null arguments, octets that do not decode,
error arms and internal failures are one disjunct, without the reason for it.

*Memory.* `ZeroedHeap` says whether `malloc` happens to return zeroes. If not,
the unwritten fields of a new session hold NULL or `Wild`, and a call reads a
wild field as anything of its kind, what another session left there included, or
as something that is nothing of the kind (`Views`): a stale certificate may be
readable and verify a signature, a stale EID may be digits. `crashed` is one
more outcome where a wild pointer is followed or freed; the other is that it goes
unnoticed. What a stray free does to the block of another live session is not
modelled: no statement about such a run would hold. `MemoryMayFail` enables the
paths behind a failing allocation. mbedTLS running out of memory in a
verification is among them: it is answered with -1 (`AuthenticateRefuses`,
`GetBppRefuses`, `VerifyRefuses`).

`SessionMemory` starts from a heap that reads as zero, since the other case is
`DpSession`'s. Its allocator gives the lowest free block, so that what was freed
is used again at once. Temporaries of asn1c and mbedTLS are theirs; the blocks
modelled are those this library frees by name. Its caller releases whatever
`*resp` or `*out` points to after any answer.

*A step of `DpSession` is one call.* The library is documented as callable from
several threads, and shares nothing between calls but the session object; two
threads on one session object are the caller's race and not modelled. A step of
`Bpp` is one TLV, since a call that fails between two TLVs leaves the session
where it was and that state is visible.

*Lengths* are abstracted, except the segmentation of the UPP and everything in
`Growbuf`, `Der` and `Response`, which are about octets and lengths. In `Bpp` a
TLV value too short for its MAC is `TooShort`; in `Notification` a `seqNumber`
that fits no `long` is `TooWide` and an ICCID of another length than ten octets
is `NotTen`.

*Reads and writes outside an object.* A model reads a sequence with
`buf[p + 1]`: an offset outside is an error TLC reports. So each run is a check
of the offsets too.

*History variables*: `tx.protected`, `rx.accepted`, `confirmed`, `loaded`,
`last` with its ghost `out_of_memory`, `made`, `held` and `before` exist for the properties
only.

## 3. Runs

| Run | Shows | Bounds and why they are enough |
| --- | --- | --- |
| `DpSession` | `TypeOK`, `AuthenticatedIsProven`, `BppMatchesSession`, `NothingBeforeAuthentication` | one session (calls on other sessions do not touch it; `Download` has two); four cards: two trusted, one trusted with an EID that is not 32 decimal digits, one untrusted that claims the EID of the first; two transaction ids, challenges, metadata and one-time keys of the eUICC, so that every comparison has a side on which it fails and a re-authentication or rebind can change every field |
| `DpSessionAnyHeap` | `ProvenOnceAuthenticated` | any heap, every reading of every unwritten field; two trusted cards with an EID each, so that a field can be left over from the wrong one, and one transaction id, since the property compares none. The process may end (`crashed`), so deadlock is off |
| `SessionMemory` | `MemTypeOK`, `NothingDangles`, `NothingLeaks`, `FailureChangesNothing`, `AllOfOneAnswer` | nine blocks, what a call holds at most, so an allocation fails only because the model lets it; two answers, so that a second authentication replaces what a first one left by the same or by another |
| `Download` | `DownloadTypeOK`, `SessionCardIsChallenger`, `InstalledMeansLoaded`, `ShownIsLoaded`, `KeepsPromise` | two sessions, two cards, two transactions, two challenges, two one-time keys: every message has a session and a card it is not meant for |
| `DownloadRebind` | `SessionCardIsChallenger`, `BoundInThisSession` | one transaction id for two live sessions, and two salts: a card can answer the same server message twice, both answers can be in flight, and only the serverChallenge tells the sessions apart. One message can authenticate a session twice: then the signatures are the same too and an earlier answer is bound, as `DownloadMetadataDrift` shows. `BoundInThisSession` therefore names the session, not the latest authentication |
| `Bpp` | `BppTypeOK`, `CounterCountsTlvs`, `SegmentsCoverUpp`, `SuccessIsPrefixOfSent`, `IntactRecovers`, `KeepsOrder` | segments of 2 octets and UPPs of 0 to 5: empty, short, exactly one, one more, exactly two, two and one. Two damages of a package, two keys, a metadata that fits and one that does not, one failing primitive anywhere. Finite inputs run out, so deadlock is off |
| `BppReused` | `RecoveredIsOnePiece`, `KeepsOrder` | a session used for two recoveries, three damages: the first can fail after any TLV and the second package can lack exactly what the first had |
| `Notification` | `NotifTypeOK`, `ToldIsSigned`, `FiledUnderHolder`, `ReadIsVerified`, `OperationIsTheOneBit`, `GenuineIsAccepted` | octets of three bits: every BIT STRING of one octet, with every count of unused bits, and those of none and two in which bits straddle the octets or are three. Two vouched-for cards and one that is not, one ICCID that moves between them, one signature, since a message carries one; the two vouched-for cards are symmetric |
| `Response` | `RespTypeOK`, `LengthsAgree`, `AppendsStayInside`, `LoopAdvances`, `RespIsWhole`, `FieldsAreMembers`, `TruncatedIsRefused`, `WalkStaysInside`, `ReachableAppendReturns` | octets of four bits, so that a length leaves its short form at 8 and its next form at 16 and both boundaries lie inside a response; tags of one, two and three octets; values of 0, 1, 7, 8, 15, 16, 60 and 100 octets; a `size_t` of eight bits, all of it memory, and a first capacity of 8, so that a buffer doubles four times, fails to grow anywhere, and for the last response wraps to a capacity of 0. The caller passes the response, every beginning of it, and every copy with one stray octet. A response is encoded once, so deadlock is off |

Three runs end in a counterexample, each a disagreement of code and comment:

| Run | What the code does | What is written |
| --- | --- | --- |
| `DpSessionStaleHeap` | the session is `malloc`ed (`rsp_es9.c:452`) and only three fields are set; `rsp_dp_session_eid` can answer 0 from stale memory before any authentication. `rsp_dp_get_bound_profile_package` and `rsp_dp_verify_installation_result` (1071, 1269) ask the same flag and verify with whatever certificate the unwritten pointer leads to | `rsp.h:542`: -1 "if rsp_dp_authenticate_client has not yet succeeded on this session" |
| `DpSessionOutOfMemory` | when the last allocation fails, `*resp` (`*out`) has been written, freed and set to NULL (`rsp_es9.c:453-457, 858-864`) | `rsp.h:480`, `rsp.h:517`: outputs "are untouched" |
| `DownloadMetadataDrift` | a second `rsp_dp_authenticate_client` on the same eUICC message with other metadata gives the same smdpSignature2, so an answer to the first is bound with the second metadata (`rsp_es9.c:878`) | `rsp.h:510`: "one caller-supplied value, reused, not two that could drift apart" |

`ProvenOnceAuthenticated` is what is left of the session's promises on any heap: although
`authenticated`, and everything else nobody wrote, may lie, a certificate that a
session was given by `rsp_dp_authenticate_client` is that of an eUICC which
proved itself, and what is kept beside it is of the same answer.

`ShownIsLoaded` in run `Download` holds because the caller there has one
metadata per transaction, a different one for each; `DownloadMetadataDrift` lets
it have two for one transaction.

Smaller disagreements, which have no run of their own:

- An append that needs more than half of what a `size_t` counts doubles its
  capacity to 0 and goes on for ever (`rsp_internal.h:236-237`); line 218 says
  "Returns 0, or -1 on an allocation failure". It takes a buffer and its data of
  together more than 2 GiB in a 32-bit process, and no response of this library
  is near that. The last response of run `Response` does it: `LoopAdvances` and
  `ReachableAppendReturns` are about the appends below that bound,
  `AppendsStayInside` about all.
- `rsp.h:405` says that a sequenceOf86 without segments "is refused (-1)". It is
  -2 (`rsp_bpp.c:922`), as `rsp.h:389-393` and the tests have it.
- `rsp.h:748` says the accessors answer -1 for "some other DER object". They
  check no tag (`rsp_es9.c:1375-1504`): any object of the right shape is cut.
- `rsp.h:648-649` says `operation` is 0 to 3, or -1. A single bit above 3 is
  reported by its number (`rsp_es9.c:1540`).
- `rsp_dp_notification_metadata` answers -2 also for an ICCID that is not ten
  octets and a `seqNumber` too wide, with part of `*out` written.

**Fairness.** Nothing in this library is scheduled, retried or waited for: a
download that stops is one whose caller stopped calling, and no fairness is
assumed of a caller, a card or the network. One thing must end by itself, the
loop of `rsp_growbuf_append`. `RespSpec` therefore has weak fairness of
`Appends` alone: the thread that entered the function is not stopped for ever
inside it. `ReachableAppendReturns` is the liveness property that it leaves.

Every property has a mutant: an operator marked `Mutant:` beside the
definition it replaces, a mistake this code could have had, under which the
property fails in its own run.

## 4. Proofs

All are for any sets of sessions, cards, challenges, messages, keys, UPPs,
responses and any bounds, from the assumptions on the constants alone:

| Assumption | Says |
| --- | --- |
| `CardsAssumption`, `MarkersAssumption`, `SignaturesAssumption` | trusted cards are cards, `EidOf` is a function; `None` and `Wild` are not cards, EIDs or metadata, and `Wild` is no signature |
| `SegmentSizeAssumption`, `InputsAssumption`, `BoundsAssumption` | the constants of `Bpp` are of their kinds |
| `ForgeriesAssumption` | `TooShort` is no TLV body and `NoMac` no MAC |
| `NotificationAssumption` | EUMs, cards and metadata are of their kinds, the markers are none of them |
| `GrowbufAssumption` | a `size_t` counts the octets of any object, so all memory is less than what it counts; the first capacity can be allocated |
| `DerAssumption` | an octet has a bit 8 and, below it, room for the length of the length; the encoder writes no more octets of length than a `size_t` has |
| `ResponseAssumption` | responses have five members of octets; their tags are well-formed as X.690 8.1.2 and `parse_tlv` have it, one octet or a leading one and continued ones |
| `LengthsEncodable` | no response reaches the 4 GiB from which `rsp_der_length_octets` has no form |

### `DpSessionProofs`

| Theorem | States |
| --- | --- |
| `TypeCorrect` | `Spec => []TypeOK` |
| `ProvenOnce` | `Spec => []ProvenOnceAuthenticated`, whatever the heap held and however it reads |
| `AuthenticatedProven` | `ZeroedHeap => (Spec => []AuthenticatedIsProven)` |
| `NothingEarly` | `ZeroedHeap => (Spec => NothingBeforeAuthentication)` |
| `BppBound` | `ZeroedHeap => (Spec => []BppMatchesSession)` |

`ZeroedHeap` is a premise where the property is false without it:
`DpSessionStaleHeap` shows why.

The inductive invariant is `IInv == TypeOK /\ AllAnchored`.
`AuthenticatedIsProven` alone is not inductive: the certificate, not the flag,
is what only the commit block of `rsp_dp_authenticate_client` can write, and on
a dirty heap the flag says nothing. `Anchored` therefore says that a session
holding a card's certificate is consistent, always, and that with `ZeroedHeap`
the flag is set exactly when there is a certificate. A call reads an object
through `Views`; `ConsistentReadsAsItIs` and `AuthenticatedReadsAsItIs` say when
there is only one reading. One lemma per call shows that it keeps `IInv`; the
lemmas share `ReadsKeeps`, `FailsKeeps`, `FollowsWildKeeps` and `ReplacesKeeps`,
one per way a call can end. The rest is about single calls: what `NewSession`,
the commit block and the two accepting conditions guarantee.

### `DownloadProofs`

| Theorem | States |
| --- | --- |
| `DownloadTypeCorrect` | `ZeroedHeap => (DownloadSpec => []DownloadTypeOK)` |
| `ChallengerHolds` | `ZeroedHeap => (DownloadSpec => []SessionCardIsChallenger)` |
| `InstalledLoaded` | `ZeroedHeap => (DownloadSpec => []InstalledMeansLoaded)` |
| `BoundHere` | `ZeroedHeap => (DownloadSpec => []BoundInThisSession)` |
| `ShownLoaded` | `ZeroedHeap /\ OneMetadata => (DownloadSpec => []ShownIsLoaded)` |
| `PromiseKept` | `ZeroedHeap /\ TransactionIdsFresh => (DownloadSpec => KeepsPromise)`: the refinement of `DownloadPromise` |

The module extends `DpSessionProofs` and its invariant `DInv` extends `IInv`.
What a session may believe is decided by messages of other parties, so the
added part, `History`, is about the network: whatever a card signed goes back,
message by message, to an InitiateAuthentication whose challenge that card
drew; a result that reports success has a load behind it. For each server call
an `...Outcome` lemma says how it can end, and for each action a `...Keeps`
lemma says that it keeps `History`. `OneMetadata` is the premise
`DownloadMetadataDrift` shows to be needed. `TransactionIdsFresh` is what
`rsp.h:440` says a caller in production does; without it two downloads are one
transaction.

### `BppProofs`

| Theorem | States |
| --- | --- |
| `BppTypeCorrect` | `Spec => []BppTypeOK` |
| `CountersCount` | `Spec => []CounterCountsTlvs` |
| `SegmentsCover` | `Spec => []SegmentsCoverUpp` |
| `PrefixRecovered` | `Spec => []SuccessIsPrefixOfSent` |
| `OnePieceRecovered` | `Spec => []RecoveredIsOnePiece` |
| `OrderKept` | `Spec => KeepsOrder`: the refinement of `SecureChannel` |

The inductive invariant is `BInv == Builder /\ Way /\ Receiver`. The properties
speak of the history of both ends and are not inductive: that an accepted TLV is
the next one follows from what its MAC covers. `Way` therefore says that every
MAC in flight, on whatever element damage left it, was made by the builder over
a beginning of its own chain, and `Receiver` that the receiver's chain is such a
beginning. `MatchingIsNext` is the step: a receiver that accepts a TLV has the
builder's key and accepts the TLV the builder protected after those the
receiver has accepted before. Every kind of damage keeps `Way`, because a
sequence that is disordered or altered has no element that was not in it or is
not altered from one that was. `Builder` ties the offset in the UPP to the
number of '86' TLVs protected.

### `IntactProofs`

| Theorem | States |
| --- | --- |
| `IntactRecovered` | `Spec => []IntactRecovers` |

`BppProofs` bounds what a receiver may accept; this says that it accepts.
`Intact == Packed /\ AsSent /\ InStep` is inductive together with `BInv`.
`Packed` knows the buffers of `rsp_bpp_build` exactly, one element for each TLV
of the chain in its order. `AsSent` is the way without damage. `InStep` ties the
receiver's place in the package to the length of its chain, so that the next
element is always the one whose MAC covers what the receiver's chain holds
(`ElementMatches`), and when the last group ends the whole UPP has been
collected.

### `DataInduction`

Loops of the code are recursive functions in the model, and the induction
theorems of the library take an operator as a parameter, which no backend can
instantiate. This module states induction about a *set* instead
(`SetInduction`, `BoundedInduction`), proved from the well-foundedness of Nat.
From it follows that a loop of n turns has a trace, a function from the number
of turns done to the state then (`Traced`), and what `FlattenSeq` of the
community modules computes (`FlattenType`, `FlattenConcat`, `FlattenHead`). A
proof about a loop is then an induction along its trace.

### `NotificationProofs`

| Theorem | States |
| --- | --- |
| `ToldSigned` | `NotifSpec => []ToldIsSigned` |
| `FiledSafely` | `NotifSpec => []FiledUnderHolder` |
| `ReadVerified` | `NotifSpec => []ReadIsVerified` |
| `GenuineAccepted` | `NotifSpec => []GenuineIsAccepted` |
| `NotifTypeCorrect` | `NotifSpec => []NotifTypeOK` |
| `OperationTold` | `NotifSpec => []OperationIsTheOneBit`, for BIT STRINGs of any length |

The inductive invariant `NInv` adds to the first four that a certificate the
caller keeps for an ICCID is of a card that had the Profile (`KeptIsHolder`),
and that the notification at hand is what `ReadMetadata` made of it
(`PendingIsRead`): several steps lie between the reading and the verifying,
downloads among them.

`TInv` joins the last two. What a call tells is what the loop of
`notification_meta` found, and the loop is an induction over bits
(`OperationFinds`): after each bit the accumulator holds nothing and no used bit
was set, or the one used bit that was, or -1 for ever because there were two.
`ScanStepFinds` is one turn of it.

### `DerProofs`

| Theorem | States |
| --- | --- |
| `ParseReads` | behind any octets and at any distance from the end, `parse_tlv` returns the value, its length and the next TLV of a header that was written for it, or refuses if the TLV is not all there |

A length lies between two place values (`PlaceOf`) and has as many octets as
the lower one says (`OctetsIs`), so it fits the long form
`rsp_der_length_octets` gives it and its first octet is not 0
(`LengthShortest`). `BigEndianReads` is the loop of `parse_tlv`: after i octets
it holds the number without the places behind them. `LastTagOctetReads` is the
other loop, over the octets of a tag. `ParseReads` has no premise on the octets
behind `end`, so one theorem serves the whole response and the truncated one.
`ParsedInside` is about any octets at all: what `parse_tlv` returns lies inside
the end it was given.

### `ResponseProofs`

| Theorem | States |
| --- | --- |
| `RespTypeCorrect` | `RespSpec => []RespTypeOK` |
| `AppendsSafe` | `RespSpec => []AppendsStayInside` |
| `LoopGoesUp` | `RespSpec => []LoopAdvances` |
| `WalksSafe` | `RespSpec => []WalkStaysInside`, for any octets and any wrong length in them |
| `RespWhole` | `RespSpec => []RespIsWhole` |
| `FieldsCut` | `RespSpec => []FieldsAreMembers` |
| `TruncatedRefused` | `RespSpec => []TruncatedIsRefused` |
| `LengthsReadBack` | `RespSpec => []LengthsAgree` |

`RespInv` joins `RespTypeOK`, `AppendsStayInside` and `WalkStaysInside` to the
kind of the pieces not yet collected. `AppendsStayInside` is inductive because
the data to append lies in memory beside the buffer, so their sum does not wrap,
and the loop ends only with a capacity that is enough, wrapped on the way or not.
The walk rests on `ParsedInside`. `WalkStaysInside` is about the slices and
offsets; that no octet outside is read on the way to them is what TLC reports as
an error if it happens.

`GrowInv` adds that, within the reach of a doubled capacity (`Reachable`), a
buffer that has to grow starts from a capacity other than 0 and less than twice
what is needed. Then a capacity that is not enough yet is less than half of what
a `size_t` counts and doubling it makes it larger.

`FieldInv == RespInv /\ Filled /\ OnTrack /\ Refused` is for the other three.
None of them is inductive: they speak of the end of an encoding and the end of a
walk. `Filled` says that what the buffer holds, what is being appended and what
is still to come are together the encoding, in order, at every step of every
append. `OnTrack` says that a walk through the response it was made for stands
at the end of as many members as it has taken. `Refused` says that a truncated
response does not even get as far as a walk, because the outermost header
announces more than is there. The step of `OnTrack` is `MemberReads`: the
encoding splits at every member (`EncodingSplits`), so that `ParseReads`
applies behind it.

`LengthsAgree` holds for every length, not only around the boundaries where TLC
looks; that is `ParseReads` and `LengthShortest`.

### Only model-checked

`ReachableAppendReturns`. It is liveness under fairness, out of the prover's
reach; `LoopGoesUp` proves its safety part, that no turn of the loop stands still
or wraps. `ENABLED` is out of reach too, and no theorem speaks of it.
`SessionMemory`: its heap has as many blocks as one call can hold, and its
question, which order of allocations, frees and assignments survives any failure,
has no parameter beyond that. Every other property of a run that passes is a
theorem.

## 5. Not modelled

- The ASN.1 codec is generated at build time and mbedTLS is vendored. A message
  that does not decode is an outcome of every call.
- The mathematics of elliptic curves, hashes and ciphers (`rsp_ecdh_p256`,
  `rsp_kdf_x963`, `rsp_cmac`), zeroization and constant-time comparison are not
  observable at this level.
- `rsp_pki.c` loads compiled-in test material and keeps no state. Whether a
  certificate chains to the CI is a constant.
- Padding of the last block and truncation of a MAC to eight octets. The -1 of
  `rsp_unprotect` for invalid padding behind a MAC that matches
  (`rsp_crypto.c:704-716`) needs equal chains with unequal counters, which
  `CounterCountsTlvs` excludes; the model releases garbled octets there.
- The tools and tests are not part of the library.
- Threads: the library shares nothing between calls but the session object; two
  threads on one session object are the caller's race.

Two hazards have no property. An error the card reports late for a first BPP
reaches the session after a rebind (`rsp_es9.c:1343`): the result names the
transaction and not the BPP, so the library cannot tell. A rebind with the same
`otsk_dp` and the same one-time key of the eUICC derives the same SCP03t keys
(`rsp_es9.c:1165`): `rsp.h` asks the caller for fresh random there.

## 6. Plan

Done: the session and the download with their peers, SCP03t and the BPP with
their abstract specifications, notifications, response buffers and accessors;
the proofs of section 4. Left, in this order:

1. Two builds under one derived key, as a property of which inputs repeat an
   ICV.
2. The certificate chain of `rsp_pki_verify` and the counter of
   `rsp_kdf_x963` at its limit.
3. The error result a card reports late, with a result that tells which package
   it is of: what a caller can still conclude from it.
