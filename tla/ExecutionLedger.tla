--------------------------- MODULE ExecutionLedger ---------------------------
(***************************************************************************)
(* What the action-executor promises of each idempotency key, a run and an *)
(* option of it, however many requests come with the key: in one lifetime  *)
(* of the service the key is opened once and decided once, never open to   *)
(* two requests and never opened again; a restart forgets the decisions;   *)
(* and the farm carries out the key's action no more often than the key    *)
(* was opened, lifetimes taken together.  How requests are kept apart, how *)
(* calls fail and which of them take effect late is left to ActionExecutor.*)
(***************************************************************************)
EXTENDS Naturals

CONSTANT Keys

VARIABLES
    status,     \* what the service knows of each key
    opened,     \* how often the execution of each key was begun
    applied,    \* how often the farm carried out each key's action
    lifetime    \* the restarts so far

vars == <<status, opened, applied, lifetime>>

Init ==
    /\ status = [k \in Keys |-> "free"]
    /\ opened = [k \in Keys |-> 0]
    /\ applied = [k \in Keys |-> 0]
    /\ lifetime = 0

Open(k) ==
    /\ status[k] = "free"
    /\ status' = [status EXCEPT ![k] = "open"]
    /\ opened' = [opened EXCEPT ![k] = @ + 1]
    /\ UNCHANGED <<applied, lifetime>>

Decide(k) ==
    /\ status[k] = "open"
    /\ status' = [status EXCEPT ![k] = "decided"]
    /\ UNCHANGED <<opened, applied, lifetime>>

Change(k) ==
    /\ applied[k] < opened[k]
    /\ applied' = [applied EXCEPT ![k] = @ + 1]
    /\ UNCHANGED <<status, opened, lifetime>>

Forget ==
    /\ status' = [k \in Keys |-> "free"]
    /\ lifetime' = lifetime + 1
    /\ UNCHANGED <<opened, applied>>

Next == Forget \/ \E k \in Keys : Open(k) \/ Decide(k) \/ Change(k)

Spec == Init /\ [][Next]_vars
=============================================================================
