------------------------------ MODULE MCWiced -------------------------------
(***************************************************************************)
(* The sockets of the sample application.                                  *)
(***************************************************************************)
EXTENDS WicedSocket

Both == {"http", "mqtt"}
Http == {"http"}
=============================================================================
