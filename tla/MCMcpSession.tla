---------------------------- MODULE MCMcpSession ----------------------------
(* Instances of the client session for TLC: three calls, so that one can be   *)
(* in its handshake, one in flight and one waiting or told 404.               *)
EXTENDS McpSession, TLC

CONSTANTS c1, c2, c3
MCCalls == {c1, c2, c3}
=============================================================================
