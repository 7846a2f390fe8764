---------------------------- MODULE HttpSession -----------------------------
(***************************************************************************)
(* What khc_perform promises the application, with no handler, buffer or   *)
(* socket call in sight (khc.h:19-60, 334-348): a session writes one       *)
(* request, then passes the body of the response on piece by piece, and    *)
(* ends with a verdict.  It may fail at any point.  It succeeds only after *)
(* the whole request is out, and, for a chunked response, which says where *)
(* it ends, only after the whole body has been passed on.  A body that     *)
(* ends with the connection has no such mark, and may be cut short.        *)
(***************************************************************************)
EXTENDS HttpWire

VARIABLES
  request, response,  \* The messages of the current session.
  sent,               \* The part of the request that is out.
  body,               \* The part of the body passed on.
  verdict             \* "none" outside a session, "running", "ok" or "error".

sessionVars == <<request, response, sent, body, verdict>>

Init ==
  /\ request \in Requests /\ response \in Responses
  /\ sent = <<>> /\ body = <<>>
  /\ verdict = "none"

Begin ==
  /\ verdict = "none"
  /\ request' \in Requests /\ response' \in Responses
  /\ sent' = <<>> /\ body' = <<>>
  /\ verdict' = "running"

Transmit ==
  /\ verdict = "running"
  /\ IsStrictPrefix(sent, sent')
  /\ IsPrefix(sent', RequestWire(request))
  /\ UNCHANGED <<request, response, body, verdict>>

PassOn ==
  /\ verdict = "running"
  /\ sent = RequestWire(request)
  /\ IsStrictPrefix(body, body')
  /\ IsPrefix(body', Payload(response))
  /\ UNCHANGED <<request, response, sent, verdict>>

Succeed ==
  /\ verdict = "running"
  /\ sent = RequestWire(request)
  /\ response.chunked => body = Payload(response)
  /\ verdict' = "ok"
  /\ UNCHANGED <<request, response, sent, body>>

Fail ==
  /\ verdict = "running"
  /\ verdict' = "error"
  /\ UNCHANGED <<request, response, sent, body>>

End ==
  /\ verdict \in {"ok", "error"}
  /\ verdict' = "none"
  /\ sent' = <<>> /\ body' = <<>>
  /\ UNCHANGED <<request, response>>

Next == Begin \/ Transmit \/ PassOn \/ Succeed \/ Fail \/ End

Spec == Init /\ [][Next]_sessionVars

=============================================================================
