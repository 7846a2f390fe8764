----------------------------- MODULE KhcSession -----------------------------
(***************************************************************************)
(* Khc implements HttpSession: the mapping forgets the state machine, the  *)
(* buffers and the server, and keeps what crosses the interface.           *)
(***************************************************************************)
EXTENDS Khc

Verdict ==
  IF app = "idle" THEN "none"
  ELSE IF state # "FINISHED" THEN "running"
  ELSE IF result = "OK" THEN "ok" ELSE "error"

Session == INSTANCE HttpSession WITH
  request <- req, response <- resp, sent <- out, body <- got, verdict <- Verdict

(***************************************************************************)
(* Every step of a handler is a step of the session, or changes nothing    *)
(* that the application or the server can see.                             *)
(***************************************************************************)
ImplementsSession == Session!Spec

=============================================================================
