-------------------------- MODULE MCClientService --------------------------
(***************************************************************************)
(* Two connections on which clients send any command, on one or on both.   *)
(***************************************************************************)
EXTENDS ClientService

CONSTANTS c1, c2

Connections == {c1, c2}
AllKinds == {"PING", "GET", "SET"}
=============================================================================
