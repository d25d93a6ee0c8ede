---------------------------- MODULE ActionExecutor ----------------------------
(***************************************************************************)
(* The action-executor: approved remediations arrive as requests, each     *)
(* under the idempotency key of its run and option.  A request holds its   *)
(* key's lock from the duplicate check to the record that answers later    *)
(* duplicates, across two upstream calls: the render farm's control plane  *)
(* applies the action, and a best-effort write-back marks it in Grafana.   *)
(*                                                                         *)
(* The control plane's call is an actor of its own: it may be carried out, *)
(* refused, or declined (an HTTP 200 that says FAILED), and it may still   *)
(* be carried out after the executor has given up on the answer.           *)
(***************************************************************************)
EXTENDS Integers, Sequences, FiniteSets

CONSTANTS
    Requests,       \* the execute requests
    Keys,           \* the idempotency keys: a run and an option of it
    NoRequest,      \* nobody: the holder of a free lock
    MaxRestarts     \* bound on the restarts of the service

ASSUME ExecutorAssumption ==
    /\ NoRequest \notin Requests
    /\ MaxRestarts \in Nat

VARIABLES
    pc,         \* how far each request is
    key,        \* the key each request came with
    reply,      \* what each request was answered
    holder,     \* the request that holds each key's lock
    approvals,  \* the recorded outcome under each key
    audit,      \* the audit log
    control,    \* what became of each request's call to the control plane
    applied,    \* how often the farm carried out each key's action
    noted,      \* how often Grafana was told that each key's action was applied
    restarts

memory == <<holder, approvals, audit>>      \* lost with the process
outside == <<control, applied, noted>>      \* kept by the farm and by Grafana
vars == <<pc, key, reply, memory, outside, restarts>>

\* lost: the service went down on the request.
Stages == {"idle", "waiting", "applying", "writing", "replied", "lost"}
Outcomes == {"SUCCESS", "FAILED"}
Replies == {"none", "ALREADY_APPLIED"} \cup Outcomes
ControlCalls == {"none", "sent", "applied", "declined", "refused"}

Init ==
    /\ pc = [r \in Requests |-> "idle"]
    /\ key \in [Requests -> Keys]
    /\ reply = [r \in Requests |-> "none"]
    /\ holder = [k \in Keys |-> NoRequest]
    /\ approvals = [k \in Keys |-> "none"]
    /\ audit = <<>>
    /\ control = [r \in Requests |-> "none"]
    /\ applied = [k \in Keys |-> 0]
    /\ noted = [k \in Keys |-> 0]
    /\ restarts = 0

-----------------------------------------------------------------------------
\* A request arrives.
Submit(r) ==
    /\ pc[r] = "idle"
    /\ pc' = [pc EXCEPT ![r] = "waiting"]
    /\ UNCHANGED <<key, reply, memory, outside, restarts>>

\* Fault: a duplicate ends without an answer.
Duplicate_Silent(r) ==
    /\ pc[r] = "waiting"
    /\ holder[key[r]] = NoRequest
    /\ approvals[key[r]] # "none"
    /\ pc' = [pc EXCEPT ![r] = "replied"]
    /\ UNCHANGED <<key, reply, memory, outside, restarts>>

\* The lock is had and a record is there: its outcome is returned.
Duplicate(r) ==
    /\ pc[r] = "waiting"
    /\ holder[key[r]] = NoRequest
    /\ approvals[key[r]] # "none"
    /\ pc' = [pc EXCEPT ![r] = "replied"]
    /\ reply' = [reply EXCEPT ![r] = "ALREADY_APPLIED"]
    /\ UNCHANGED <<key, memory, outside, restarts>>

\* Fault: the check and the call are not under the key's lock.
Execute_Unlocked(r) ==
    /\ pc[r] = "waiting"
    /\ approvals[key[r]] = "none"
    /\ holder' = [holder EXCEPT ![key[r]] = r]
    /\ control' = [control EXCEPT ![r] = "sent"]
    /\ pc' = [pc EXCEPT ![r] = "applying"]
    /\ UNCHANGED <<key, reply, approvals, audit, applied, noted, restarts>>

\* The lock is had and no record is there: the control plane is called.
Execute(r) ==
    /\ pc[r] = "waiting"
    /\ holder[key[r]] = NoRequest
    /\ approvals[key[r]] = "none"
    /\ holder' = [holder EXCEPT ![key[r]] = r]
    /\ control' = [control EXCEPT ![r] = "sent"]
    /\ pc' = [pc EXCEPT ![r] = "applying"]
    /\ UNCHANGED <<key, reply, approvals, audit, applied, noted, restarts>>

\* Fault: only a success is recorded.
Record_SuccessOnly(r, outcome) ==
    /\ approvals' = IF outcome = "SUCCESS"
                    THEN [approvals EXCEPT ![key[r]] = outcome] ELSE approvals
    /\ audit' = Append(audit, [key |-> key[r], status |-> outcome])
    /\ holder' = [holder EXCEPT ![key[r]] = NoRequest]
    /\ pc' = [pc EXCEPT ![r] = "replied"]
    /\ reply' = [reply EXCEPT ![r] = outcome]

\* Fault: the lock is not released when the action failed.
Record_LeaksLock(r, outcome) ==
    /\ approvals' = [approvals EXCEPT ![key[r]] = outcome]
    /\ audit' = Append(audit, [key |-> key[r], status |-> outcome])
    /\ holder' = IF outcome = "SUCCESS"
                 THEN [holder EXCEPT ![key[r]] = NoRequest] ELSE holder
    /\ pc' = [pc EXCEPT ![r] = "replied"]
    /\ reply' = [reply EXCEPT ![r] = outcome]

\* The outcome, good or bad, is recorded and audited, and the lock released.
Record(r, outcome) ==
    /\ approvals' = [approvals EXCEPT ![key[r]] = outcome]
    /\ audit' = Append(audit, [key |-> key[r], status |-> outcome])
    /\ holder' = [holder EXCEPT ![key[r]] = NoRequest]
    /\ pc' = [pc EXCEPT ![r] = "replied"]
    /\ reply' = [reply EXCEPT ![r] = outcome]

\* Any 2xx answer counts as a success, whatever its body says.  With write-back
\* to Grafana switched off it is recorded at once.
ApplySucceeds(r) ==
    /\ pc[r] = "applying"
    /\ control[r] \in {"applied", "declined"}
    /\ \/ pc' = [pc EXCEPT ![r] = "writing"] /\ UNCHANGED <<reply, memory>>
       \/ Record(r, "SUCCESS")
    /\ UNCHANGED <<key, outside, restarts>>

\* The call raises: it was refused, or its answer did not come in time, whether
\* or not the farm carried it out or is still going to.
ApplyFails(r) ==
    /\ pc[r] = "applying"
    /\ Record(r, "FAILED")
    /\ UNCHANGED <<key, outside, restarts>>

\* The write-back lands or is swallowed; the outcome is a success all the same.
WritesBack(r) ==
    /\ pc[r] = "writing"
    /\ \/ noted' = [noted EXCEPT ![key[r]] = @ + 1]
       \/ UNCHANGED noted
    /\ Record(r, "SUCCESS")
    /\ UNCHANGED <<key, control, applied, restarts>>

-----------------------------------------------------------------------------
\* execute_control_action: the farm carries out a call that reached it, early or
\* late, or declines or refuses it.
ControlApplies(r) ==
    /\ control[r] = "sent"
    /\ control' = [control EXCEPT ![r] = "applied"]
    /\ applied' = [applied EXCEPT ![key[r]] = @ + 1]
    /\ UNCHANGED <<pc, key, reply, memory, noted, restarts>>

ControlRejects(r) ==
    /\ control[r] = "sent"
    /\ \E answer \in {"declined", "refused"} : control' = [control EXCEPT ![r] = answer]
    /\ UNCHANGED <<pc, key, reply, memory, applied, noted, restarts>>

\* The service restarts: locks, records and audit log were only in memory.
Restart ==
    /\ restarts < MaxRestarts
    /\ restarts' = restarts + 1
    /\ pc' = [r \in Requests |->
                IF pc[r] \in {"idle", "replied"} THEN pc[r] ELSE "lost"]
    /\ holder' = [k \in Keys |-> NoRequest]
    /\ approvals' = [k \in Keys |-> "none"]
    /\ audit' = <<>>
    /\ UNCHANGED <<key, reply, outside>>

Serve(r) ==
    Duplicate(r) \/ Execute(r) \/ ApplySucceeds(r) \/ ApplyFails(r) \/ WritesBack(r)

Next ==
    \/ \E r \in Requests :
         Submit(r) \/ Serve(r) \/ ControlApplies(r) \/ ControlRejects(r)
    \/ Restart

Spec == Init /\ [][Next]_vars

\* The event loop serves every request that can go on, and every upstream call is
\* answered or times out.  The farm need not do anything.
Fairness == \A r \in Requests : WF_vars(Serve(r))

FairSpec == Spec /\ Fairness

-----------------------------------------------------------------------------
(* Properties *)

\* Every variable is well formed, and a request has its answer exactly when it has
\* been replied to.
TypeOK ==
    /\ pc \in [Requests -> Stages]
    /\ key \in [Requests -> Keys]
    /\ reply \in [Requests -> Replies]
    /\ \A r \in Requests : reply[r] # "none" <=> pc[r] = "replied"
    /\ holder \in [Keys -> Requests \cup {NoRequest}]
    /\ approvals \in [Keys -> Outcomes \cup {"none"}]
    /\ audit \in Seq([key : Keys, status : Outcomes])
    /\ control \in [Requests -> ControlCalls]
    /\ applied \in [Keys -> Nat]
    /\ noted \in [Keys -> Nat]
    /\ restarts \in 0..MaxRestarts

\* However many approvals of an option race, time out or are repeated, the farm is
\* changed once at most, as long as the service is not restarted.
AppliedOnce == restarts = 0 => \A k \in Keys : applied[k] <= 1

\* A key's lock is held by exactly the request that is between its check and its
\* record; two requests are never both there for one key.
LockIsHeld ==
    \A k \in Keys, r \in Requests :
        holder[k] = r <=> key[r] = k /\ pc[r] \in {"applying", "writing"}

\* Record and audit log say the same: under each key one entry with the recorded
\* outcome, and none without a record.
AuditAgrees ==
    /\ \A i \in DOMAIN audit : approvals[audit[i].key] = audit[i].status
    /\ \A i, j \in DOMAIN audit : audit[i].key = audit[j].key => i = j
    /\ \A k \in Keys : approvals[k] # "none" => \E i \in DOMAIN audit : audit[i].key = k

\* No change of the farm goes unaccounted for: absent a restart, its key is on
\* record or a request is on its way to record it.
ChangesAreRecorded ==
    restarts = 0 =>
        \A k \in Keys :
            applied[k] > 0 => approvals[k] # "none" \/ holder[k] # NoRequest

\* The requests whose call under a key has left for the control plane.
Called(k) == {r \in Requests : key[r] = k /\ control[r] # "none"}

\* A key is decided once its outcome is on record, and open while its lock is held.
StatusOf(k) == IF approvals[k] # "none" THEN "decided"
               ELSE IF holder[k] # NoRequest THEN "open" ELSE "free"

Ledger == INSTANCE ExecutionLedger WITH
    status <- [k \in Keys |-> StatusOf(k)],
    opened <- [k \in Keys |-> Cardinality(Called(k))],
    lifetime <- restarts

\* However locks, records, upstream calls and their late effects interleave, each key
\* goes from free to open to decided once per lifetime of the executor, and the farm
\* never carries it out more often than it was opened, restarts or not.
ImplementsLedger == Ledger!Spec

\* Every approval that arrives is answered, or the service went down on it: no
\* request waits for ever behind another's lock.
EveryRequestAnswered ==
    \A r \in Requests : pc[r] = "waiting" ~> pc[r] \in {"replied", "lost"}
=============================================================================
