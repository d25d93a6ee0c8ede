---------------------------- MODULE MCMcpGateway ----------------------------
(* Three calls over a query that needs a datasource and one that does not:   *)
(* two can share a flight while a third, another query or a write, takes the *)
(* token they need.                                                          *)
EXTENDS McpGateway
CONSTANTS r1, r2, r3, range, incidents
MCRequests == {r1, r2, r3}
MCWriters == {r3}
MCQueries == {range, incidents}
MCMetadata == {incidents}
MCSourced == {range}
=============================================================================
