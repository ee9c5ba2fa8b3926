---------------------------- MODULE MCPingRequest ----------------------------
(***************************************************************************)
(* The runs of PingRequest: a counter of four values, a limit of four      *)
(* pings, which stand to each other as in the source (65536 each), and     *)
(* requests of up to five servers.                                         *)
(***************************************************************************)
EXTENDS PingRequest
=============================================================================
