---------------------------- MODULE MCRunStream ----------------------------
(* Two overlapping tool calls, two overlapping verifications and a lost      *)
(* connection: the least that lets each kind of event race another.          *)
EXTENDS RunStream
=============================================================================
