---------------------------- MODULE SessionMemory ----------------------------
(***************************************************************************)
(* Who owns what on the heap while rsp_dp_initiate_authentication,         *)
(* rsp_dp_authenticate_client and rsp_dp_session_free of src/rsp_es9.c run *)
(* on one session: every allocation, each of which may fail, every free    *)
(* and every assignment of the commit, in the order of the code.  Fresh    *)
(* memory reads as zero here; DpSession has the case that it does not.     *)
(***************************************************************************)
EXTENDS Integers

CONSTANTS
  BlockCount,   \* blocks the heap has room for
  Answers       \* genuine AuthenticateServerResponses, each with its metadata

Blocks == 1..BlockCount
Null == 0
Free == "free"
Held == "held"       \* in use, and nothing depends on what it holds
None == "none"

\* Local variables of the two functions, released at their label out.
Locals == {"ss1_der", "eum_der", "euicc_der", "es1_der"}
\* Local variables released before it.
Copies == {"sd2_der", "tbs", "cert_copy", "md_copy"}
\* What the session object owns; resp is the caller's *resp or *out.
Pointers == Locals \cup Copies \cup {"s", "euicc_cert_der", "metadata", "resp"}

VARIABLES
  heap,     \* what a block holds: Free, Held, or a copy out of one answer
  ptr,      \* the pointers that somebody will follow or free
  fields,   \* [eid, smdp_signature2, authenticated] of the session
  call,     \* [at, answer, ret]: the call in progress, or the latest one
  broken,   \* free() was given a block that is not allocated
  before    \* history: what the session said when the call began

memVars == <<heap, ptr, fields, call, broken, before>>

Fresh == [eid |-> None, smdp_signature2 |-> None, authenticated |-> FALSE]

\* What a reader of the session sees, the octets behind its pointers included.
Octets(p) == IF ptr[p] = Null THEN None ELSE heap[ptr[p]]
Session == [fields |-> fields, cert |-> Octets("euicc_cert_der"),
            metadata |-> Octets("metadata"), live |-> ptr["s"] # Null]

-----------------------------------------------------------------------------
(* malloc and free *)

\* The block given is the lowest free one, so what was freed is used again.
Lowest == CHOOSE b \in Blocks :
            heap[b] = Free /\ \A c \in Blocks : heap[c] = Free => b <= c

Goes(step) == call' = [call EXCEPT !.at = step]
\* goto out, with an answer: -2, what ret is set to first, or -1.
Fails(r) == call' = [call EXCEPT !.at = "out", !.ret = r]
Succeeds == call' = [call EXCEPT !.at = "out", !.ret = 0]

\* A pointer is set to a new block.
Gets(p) ==
  /\ \E b \in Blocks : heap[b] = Free
  /\ heap' = [heap EXCEPT ![Lowest] = Held]
  /\ ptr' = [ptr EXCEPT ![p] = Lowest]

\* An allocation, or der_encode_alloc, at a step: on failure the call ends.
Allocates(step, p, next) ==
  /\ call.at = step
  /\ \/ Gets(p) /\ Goes(next)
     \/ Fails(-2) /\ UNCHANGED <<heap, ptr>>
  /\ UNCHANGED <<fields, broken, before>>

\* free() of every pointer of a set; those of dropped are no longer there.
Releases(ps, dropped) ==
  /\ heap' = [b \in Blocks |-> IF \E p \in ps : ptr[p] = b THEN Free ELSE heap[b]]
  /\ broken' = \/ broken
               \/ \E p \in ps : ptr[p] # Null /\ heap[ptr[p]] = Free
               \/ \E p, q \in ps : p # q /\ ptr[p] = ptr[q] /\ ptr[p] # Null
  /\ ptr' = [p \in Pointers |-> IF p \in dropped THEN Null ELSE ptr[p]]

\* What is verified, signed or decoded at a step, and how it can fail.
Checks(step, next, answers) ==
  /\ call.at = step
  /\ Goes(next) \/ \E r \in answers : Fails(r)
  /\ UNCHANGED <<heap, ptr, fields, broken, before>>

\* The label out of both functions.
Leaves ==
  /\ call.at = "out"
  /\ Releases(Locals, Locals)
  /\ Goes("idle")
  /\ UNCHANGED <<fields, before>>

\* A caller passes a pointer that owns nothing for *resp or *out.
Begins(step, a) ==
  /\ call.at = "idle" /\ ptr["resp"] = Null
  /\ call' = [at |-> step, answer |-> a, ret |-> -2]
  /\ before' = Session
  /\ UNCHANGED <<heap, ptr, fields, broken>>

-----------------------------------------------------------------------------
(* rsp_dp_initiate_authentication *)

CallsInitiate == ptr["s"] = Null /\ Begins("address", None)

\* Mutant: what the new block held is what the session says.
NewSessionUnwritten ==
  /\ call.at = "sess"
  /\ Gets("s")
  /\ fields' = [Fresh EXCEPT !.eid = Held]
  /\ Succeeds
  /\ UNCHANGED <<broken, before>>

\* *resp is released again when there is no session to go with it.
NewSession ==
  /\ call.at = "sess"
  /\ \/ Gets("s") /\ fields' = Fresh /\ Succeeds /\ UNCHANGED broken
     \/ Releases({"resp"}, {"resp"}) /\ Fails(-2) /\ UNCHANGED fields
  /\ UNCHANGED before

Initiate ==
  \/ Checks("address", "ss1_der", {-1, -2})
  \/ Allocates("ss1_der", "ss1_der", "serverSignature1")
  \/ Checks("serverSignature1", "resp", {-2})
  \/ Allocates("resp", "resp", "sess")
  \/ NewSession

-----------------------------------------------------------------------------
(* rsp_dp_authenticate_client *)

CallsAuthenticate(a) == ptr["s"] # Null /\ Begins("transactionId", a)

\* Mutant: the EID is written where it is found, into the session.
ExtractsEidIntoSession ==
  /\ call.at = "eid"
  /\ \/ Goes("sd2_der") /\ fields' = [fields EXCEPT !.eid = call.answer]
     \/ Fails(-2) /\ UNCHANGED fields
  /\ UNCHANGED <<heap, ptr, broken, before>>

\* The EID goes into a buffer of the function's own.
ExtractsEid == Checks("eid", "sd2_der", {-2})

Verifies ==
  \/ Checks("transactionId", "eum_der", {-1, -2})
  \/ Allocates("eum_der", "eum_der", "euicc_der")
  \/ Allocates("euicc_der", "euicc_der", "certificates")
  \/ Checks("certificates", "es1_der", {-1, -2})
  \/ Allocates("es1_der", "es1_der", "euiccSignature1")
  \/ Checks("euiccSignature1", "eid", {-1, -2})
  \/ ExtractsEid

\* malloc() whose answer is looked at later.
Asks(step, p, next) ==
  /\ call.at = step
  /\ Gets(p) \/ UNCHANGED <<heap, ptr>>
  /\ Goes(next)
  /\ UNCHANGED <<fields, broken, before>>

\* The signature needs tbs; sd2_der and tbs are released with or without one.
SignsBoth ==
  /\ call.at = "smdpSignature2"
  /\ Releases({"sd2_der", "tbs"}, {"sd2_der", "tbs"})
  /\ \/ ptr["tbs"] # Null /\ Goes("out_der")
     \/ Fails(-2)
  /\ UNCHANGED <<fields, before>>

Responds ==
  \/ Allocates("sd2_der", "sd2_der", "tbs")
  \/ Asks("tbs", "tbs", "smdpSignature2")
  \/ SignsBoth
  \/ Allocates("out_der", "resp", "cert_copy")

\* Mutant: *out is released, and still points to where it was.
LosesCopiesOnly ==
  /\ call.at = "copies" /\ (ptr["cert_copy"] = Null \/ ptr["md_copy"] = Null)
  /\ Releases({"cert_copy", "md_copy", "resp"}, {"cert_copy", "md_copy"})
  /\ Fails(-2)
  /\ UNCHANGED <<fields, before>>

LosesCopies ==
  /\ call.at = "copies" /\ (ptr["cert_copy"] = Null \/ ptr["md_copy"] = Null)
  /\ Releases({"cert_copy", "md_copy", "resp"}, {"cert_copy", "md_copy", "resp"})
  /\ Fails(-2)
  /\ UNCHANGED <<fields, before>>

TakesCopies ==
  \/ Asks("cert_copy", "cert_copy", "md_copy")
  \/ Asks("md_copy", "md_copy", "copies")
  \/ LosesCopies
  \/ /\ call.at = "copies" /\ ptr["cert_copy"] # Null /\ ptr["md_copy"] # Null
     /\ Goes("euicc_cert_der")
     /\ UNCHANGED <<heap, ptr, fields, broken, before>>

\* A copy is filled, what it replaces is released, and the session owns it.
Replaces(step, owned, copy, next) ==
  /\ call.at = step
  /\ LET old == ptr[owned]
     IN  /\ broken' = (broken \/ (old # Null /\ heap[old] = Free))
         /\ heap' = [b \in Blocks |-> IF b = ptr[copy] THEN call.answer
                                       ELSE IF b = old THEN Free ELSE heap[b]]
         /\ ptr' = [ptr EXCEPT ![owned] = ptr[copy], ![copy] = Null]
  /\ Goes(next)
  /\ UNCHANGED <<fields, before>>

\* Mutant: the certificate of an earlier answer is not released.
CommitCertificateOnly ==
  /\ call.at = "euicc_cert_der"
  /\ heap' = [heap EXCEPT ![ptr["cert_copy"]] = call.answer]
  /\ ptr' = [ptr EXCEPT !["euicc_cert_der"] = ptr["cert_copy"], !["cert_copy"] = Null]
  /\ Goes("s->eid")
  /\ UNCHANGED <<fields, broken, before>>

CommitCertificate == Replaces("euicc_cert_der", "euicc_cert_der", "cert_copy", "s->eid")

\* Mutant: metadata once kept stays.
CommitFirstMetadata ==
  IF ptr["metadata"] = Null THEN Replaces("metadata", "metadata", "md_copy", "authenticated")
  ELSE /\ call.at = "metadata"
       /\ Releases({"md_copy"}, {"md_copy"})
       /\ Goes("authenticated")
       /\ UNCHANGED <<fields, before>>

CommitMetadata == Replaces("metadata", "metadata", "md_copy", "authenticated")

CommitFields ==
  \/ /\ call.at = "s->eid"
     /\ fields' = [fields EXCEPT !.eid = call.answer]
     /\ Goes("metadata")
     /\ UNCHANGED <<heap, ptr, broken, before>>
  \/ /\ call.at = "authenticated"
     /\ fields' = [fields EXCEPT !.smdp_signature2 = call.answer, !.authenticated = TRUE]
     /\ Succeeds
     /\ UNCHANGED <<heap, ptr, broken, before>>

AuthenticateClient ==
  Verifies \/ Responds \/ TakesCopies \/ CommitCertificate \/ CommitMetadata \/ CommitFields

-----------------------------------------------------------------------------
(* The caller *)

SessionFree ==
  /\ call.at = "idle" /\ ptr["s"] # Null
  /\ LET owned == {"euicc_cert_der", "metadata", "s"} IN Releases(owned, owned)
  /\ fields' = Fresh
  /\ UNCHANGED <<call, before>>

\* It frees whatever *resp or *out points to, NULL after a failure included.
CallerFrees ==
  /\ call.at = "idle" /\ ptr["resp"] # Null
  /\ Releases({"resp"}, {"resp"})
  /\ UNCHANGED <<fields, call, before>>

MemInit ==
  /\ heap = [b \in Blocks |-> Free]
  /\ ptr = [p \in Pointers |-> Null]
  /\ fields = Fresh
  /\ call = [at |-> "idle", answer |-> None, ret |-> 0]
  /\ broken = FALSE
  /\ before = Session

MemNext ==
  \/ CallsInitiate \/ \E a \in Answers : CallsAuthenticate(a)
  \/ Initiate \/ AuthenticateClient \/ Leaves
  \/ SessionFree \/ CallerFrees

MemSpec == MemInit /\ [][MemNext]_memVars

-----------------------------------------------------------------------------
(* Properties *)

MemTypeOK ==
  /\ heap \in [Blocks -> {Free, Held} \cup Answers]
  /\ ptr \in [Pointers -> Blocks \cup {Null}]
  /\ fields.eid \in Answers \cup {None} /\ fields.authenticated \in BOOLEAN
  /\ call.ret \in {0, -1, -2}

\* No pointer dangles between two steps of any call, no block has two owners,
\* and nothing is freed twice, whichever allocations failed: a caller may free
\* *resp and *out after every answer.
NothingDangles ==
  /\ ~broken
  /\ \A p \in Pointers : ptr[p] # Null => heap[ptr[p]] # Free
  /\ \A p, q \in Pointers : p # q /\ ptr[p] = ptr[q] => ptr[p] = Null

\* Every block has an owner at every step, and between two calls that owner is
\* the session or the caller: no allocation failure on the way and no second
\* authentication leaves a block behind.
NothingLeaks ==
  /\ \A b \in Blocks : heap[b] # Free => \E p \in Pointers : ptr[p] = b
  /\ call.at = "idle" => \A p \in Locals \cup Copies : ptr[p] = Null

\* A call that failed, wherever it did, leaves the session saying what it said
\* ("a failing call leaves *s exactly as it was", rsp_es9.c:849), the octets
\* behind its pointers included.
FailureChangesNothing ==
  call.at = "idle" /\ call.ret # 0 /\ ptr["s"] # Null => Session = before

\* Between two calls certificate, EID, metadata and smdpSignature2 come from
\* one answer, the last that was accepted.
AllOfOneAnswer ==
  call.at = "idle" /\ ptr["s"] # Null =>
    /\ fields.smdp_signature2 = fields.eid
    /\ Session.cert = fields.eid /\ Session.metadata = fields.eid
    /\ fields.authenticated <=> fields.eid # None
=============================================================================
