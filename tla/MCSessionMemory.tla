--------------------------- MODULE MCSessionMemory ---------------------------
(* Nine blocks are what rsp_dp_authenticate_client holds at most: the session *)
(* with its certificate and metadata, three encodings, *out and two copies.   *)
EXTENDS SessionMemory

CONSTANTS a1, a2

MCBlockCount == 9
MCAnswers == {a1, a2}
=============================================================================
