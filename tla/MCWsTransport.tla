--------------------------- MODULE MCWsTransport ---------------------------
(* TLC instances of WsTransport over EvalQueue. *)
EXTENDS WsTransport
=============================================================================
