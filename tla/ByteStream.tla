----------------------------- MODULE ByteStream -----------------------------
(***************************************************************************)
(* What khc and the push task take a socket for: the bytes that the server *)
(* sends on a connection are received in order, each once and none left    *)
(* out, until the connection is closed.                                    *)
(***************************************************************************)
EXTENDS Integers

VARIABLES
  conn,  \* Is there a connection: "open" or "closed"?
  sent,  \* The number of bytes the server has sent on it.
  got    \* The number of bytes that have been received.

vars == <<conn, sent, got>>

Init == conn = "closed" /\ sent = 0 /\ got = 0

Open == conn = "closed" /\ conn' = "open" /\ sent' = 0 /\ got' = 0

Arrive ==
  /\ conn = "open"
  /\ sent' \in Nat /\ sent' > sent
  /\ UNCHANGED <<conn, got>>

Read ==
  /\ conn = "open"
  /\ got' \in got + 1..sent
  /\ UNCHANGED <<conn, sent>>

Close == conn = "open" /\ conn' = "closed" /\ UNCHANGED <<sent, got>>

Next == Open \/ Arrive \/ Read \/ Close

Spec == Init /\ [][Next]_vars

=============================================================================
