----------------------------- MODULE MCSwtServer -----------------------------
(***************************************************************************)
(* The server with two clients and a handful of bytes.                     *)
(***************************************************************************)
EXTENDS SwtServer

CONSTANTS c1, c2
MCClients == {c1, c2}
=============================================================================
