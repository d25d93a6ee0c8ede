------------------------ MODULE ActionExecutor_proofs ------------------------
(***************************************************************************)
(* Proofs about ActionExecutor, for any set of requests and keys: the farm *)
(* carries out an action once at most unless the service restarts, and the *)
(* idempotency record, the audit log and the locks agree with each other.  *)
(***************************************************************************)
EXTENDS ActionExecutor, FiniteSetTheorems, TLAPS

\* A request that has not been given the lock has made no call.
NoCallYet == \A r \in Requests : pc[r] \in {"idle", "waiting"} => control[r] = "none"

\* While a key's lock is held nothing is recorded under the key.
HeldIsUndecided == \A k \in Keys : holder[k] # NoRequest => approvals[k] = "none"

\* Absent a restart a call is on record or its caller holds the lock, so that a
\* key has one call at most, and the farm's count is that call's doing.
OneCall ==
    restarts = 0 =>
        /\ \A r \in Requests :
             control[r] # "none" => approvals[key[r]] # "none" \/ holder[key[r]] = r
        /\ \A r, q \in Requests :
             control[r] # "none" /\ control[q] # "none" /\ key[r] = key[q] => r = q
        /\ \A k \in Keys :
             \/ applied[k] = 0
             \/ applied[k] = 1 /\ \E r \in Requests : key[r] = k /\ control[r] = "applied"

\* The inductive invariant.
Inv ==
    /\ TypeOK
    /\ LockIsHeld
    /\ AuditAgrees
    /\ NoCallYet
    /\ HeldIsUndecided
    /\ OneCall

-----------------------------------------------------------------------------
\* What Record does, in the form the proofs use: r's key is decided, with one
\* new audit entry, and its lock is free.
LEMMA RecordTypes ==
    ASSUME TypeOK, NEW r \in Requests, NEW outcome \in Outcomes, Record(r, outcome)
    PROVE  /\ pc' \in [Requests -> Stages]
           /\ reply' \in [Requests -> Replies]
           /\ holder' \in [Keys -> Requests \cup {NoRequest}]
           /\ approvals' \in [Keys -> Outcomes \cup {"none"}]
           /\ audit' \in Seq([key : Keys, status : Outcomes])
           /\ \A q \in Requests : reply'[q] # "none" <=> pc'[q] = "replied"
<1>1. key[r] \in Keys
  BY DEF TypeOK
<1>2. [key |-> key[r], status |-> outcome] \in [key : Keys, status : Outcomes]
  BY <1>1
<1>3. audit' \in Seq([key : Keys, status : Outcomes])
  BY <1>2 DEF TypeOK, Record
<1>4. \A q \in Requests : reply'[q] # "none" <=> pc'[q] = "replied"
  BY DEF TypeOK, Record, Outcomes
<1>. QED
  BY <1>1, <1>3, <1>4 DEF TypeOK, Record, Stages, Replies

\* Recording under a key that holds nothing yet keeps record and log in step.
LEMMA RecordAgrees ==
    ASSUME TypeOK, AuditAgrees, NEW r \in Requests, NEW outcome \in Outcomes,
           approvals[key[r]] = "none", Record(r, outcome)
    PROVE  AuditAgrees'
<1>. DEFINE e == [key |-> key[r], status |-> outcome]
<1>1. key[r] \in Keys /\ outcome # "none"
  BY DEF TypeOK, Outcomes
<1>2. audit \in Seq([key : Keys, status : Outcomes]) /\ Len(audit) \in Nat
  BY DEF TypeOK
<1>3. /\ Len(audit') = Len(audit) + 1
      /\ DOMAIN audit' = 1..(Len(audit) + 1)
      /\ audit'[Len(audit) + 1] = e
      /\ \A i \in DOMAIN audit : audit'[i] = audit[i]
      /\ DOMAIN audit = 1..Len(audit)
  BY <1>1, <1>2 DEF Record
<1>4. \A i \in DOMAIN audit : audit[i].key \in Keys /\ audit[i].key # key[r]
  <2>. SUFFICES ASSUME NEW i \in DOMAIN audit
                PROVE  audit[i].key \in Keys /\ audit[i].key # key[r]
    OBVIOUS
  <2>1. audit[i] \in [key : Keys, status : Outcomes]
    <3>. DEFINE S == [key : Keys, status : Outcomes]
    <3>1. audit \in Seq(S) /\ i \in 1..Len(audit)
      BY <1>2, <1>3
    <3>. HIDE DEF S
    <3>2. audit[i] \in S
      BY <3>1
    <3>. QED
      BY <3>2 DEF S
  <2>2. audit[i].key \in Keys /\ audit[i].status # "none"
    BY <2>1 DEF Outcomes
  <2>3. approvals[audit[i].key] = audit[i].status
    BY DEF AuditAgrees
  <2>. QED
    BY <2>2, <2>3
<1>5. approvals' = [approvals EXCEPT ![key[r]] = outcome]
  BY DEF Record
<1>6. \A k \in Keys : approvals'[k] = IF k = key[r] THEN outcome ELSE approvals[k]
  BY <1>5 DEF TypeOK
<1>7. \A i \in DOMAIN audit' : approvals'[audit'[i].key] = audit'[i].status
  BY <1>1, <1>2, <1>3, <1>4, <1>6 DEF AuditAgrees
<1>8. \A i, j \in DOMAIN audit' : audit'[i].key = audit'[j].key => i = j
  BY <1>2, <1>3, <1>4 DEF AuditAgrees
<1>9. \A k \in Keys : approvals'[k] # "none" => \E i \in DOMAIN audit' : audit'[i].key = k
  <2>. SUFFICES ASSUME NEW k \in Keys, approvals'[k] # "none"
                PROVE  \E i \in DOMAIN audit' : audit'[i].key = k
    OBVIOUS
  <2>1. CASE k = key[r]
    <3>1. Len(audit) + 1 \in DOMAIN audit'
      BY <1>2, <1>3
    <3>. QED
      BY <2>1, <3>1, <1>3
  <2>2. CASE k # key[r]
    <3>1. PICK i \in DOMAIN audit : audit[i].key = k
      BY <2>2, <1>6 DEF AuditAgrees
    <3>2. i \in DOMAIN audit'
      BY <1>2, <1>3
    <3>. QED
      BY <3>1, <3>2, <1>3
  <2>. QED
    BY <2>1, <2>2
<1>. QED
  BY <1>7, <1>8, <1>9 DEF AuditAgrees

\* A request under the lock that records its outcome keeps the invariant, whatever
\* was noted in Grafana meanwhile.
LEMMA RecordInv ==
    ASSUME Inv, ExecutorAssumption, NEW r \in Requests, NEW outcome \in Outcomes,
           pc[r] \in {"applying", "writing"}, Record(r, outcome),
           noted' \in [Keys -> Nat],
           UNCHANGED <<key, control, applied, restarts>>
    PROVE  Inv'
<1>. USE DEF Inv
<1>1. key[r] \in Keys /\ holder[key[r]] = r /\ r # NoRequest
  BY DEF TypeOK, LockIsHeld, ExecutorAssumption
<1>2. approvals[key[r]] = "none"
  BY <1>1 DEF HeldIsUndecided
<1>3. TypeOK'
  BY RecordTypes DEF TypeOK
<1>4. AuditAgrees'
  BY <1>2, RecordAgrees
<1>5. /\ \A k \in Keys : holder'[k] = IF k = key[r] THEN NoRequest ELSE holder[k]
      /\ \A q \in Requests : pc'[q] = IF q = r THEN "replied" ELSE pc[q]
      /\ \A k \in Keys : approvals'[k] = IF k = key[r] THEN outcome ELSE approvals[k]
      /\ outcome # "none"
  BY <1>1 DEF Record, TypeOK, Outcomes
<1>6. LockIsHeld'
  BY <1>1, <1>5 DEF LockIsHeld, TypeOK, ExecutorAssumption
<1>7. NoCallYet'
  BY <1>5 DEF NoCallYet
<1>8. HeldIsUndecided'
  BY <1>5 DEF HeldIsUndecided
<1>9. OneCall'
  <2>. SUFFICES ASSUME restarts = 0 PROVE OneCall'
    BY DEF OneCall
  <2>1. \A q \in Requests : control[q] # "none" =>
            approvals'[key[q]] # "none" \/ holder'[key[q]] = q
    BY <1>5 DEF OneCall, TypeOK
  <2>. QED
    BY <2>1 DEF OneCall
<1>. QED
  BY <1>3, <1>4, <1>6, <1>7, <1>8, <1>9

-----------------------------------------------------------------------------
\* The invariant holds initially.
LEMMA InitInv == ExecutorAssumption /\ Init => Inv
<1>. SUFFICES ASSUME ExecutorAssumption, Init PROVE Inv
  OBVIOUS
<1>1. TypeOK
  BY DEF Init, TypeOK, Stages, Replies, ControlCalls, Outcomes, ExecutorAssumption
<1>2. LockIsHeld
  BY DEF Init, LockIsHeld, ExecutorAssumption
<1>3. AuditAgrees
  BY DEF Init, AuditAgrees
<1>4. NoCallYet /\ HeldIsUndecided /\ OneCall
  BY DEF Init, NoCallYet, HeldIsUndecided, OneCall
<1>. QED
  BY <1>1, <1>2, <1>3, <1>4 DEF Inv

\* Every step keeps the invariant.
LEMMA NextInv == ExecutorAssumption /\ Inv /\ [Next]_vars => Inv'
<1>. SUFFICES ASSUME ExecutorAssumption, Inv, [Next]_vars PROVE Inv'
  OBVIOUS
<1>. USE DEF Inv
<1>1. ASSUME NEW r \in Requests, Submit(r) PROVE Inv'
  <2>1. TypeOK'
    BY <1>1 DEF TypeOK, Submit, memory, outside, Stages
  <2>2. LockIsHeld'
    BY <1>1 DEF LockIsHeld, Submit, memory, outside, TypeOK
  <2>3. AuditAgrees'
    BY <1>1 DEF AuditAgrees, Submit, memory
  <2>4. NoCallYet' /\ HeldIsUndecided' /\ OneCall'
    BY <1>1 DEF NoCallYet, HeldIsUndecided, OneCall, Submit, memory, outside, TypeOK
  <2>. QED
    BY <2>1, <2>2, <2>3, <2>4
<1>2. ASSUME NEW r \in Requests, Duplicate(r) PROVE Inv'
  <2>1. TypeOK'
    BY <1>2 DEF TypeOK, Duplicate, memory, outside, Stages, Replies
  <2>2. LockIsHeld'
    BY <1>2 DEF LockIsHeld, Duplicate, memory, outside, TypeOK
  <2>3. AuditAgrees'
    BY <1>2 DEF AuditAgrees, Duplicate, memory
  <2>4. NoCallYet' /\ HeldIsUndecided' /\ OneCall'
    BY <1>2 DEF NoCallYet, HeldIsUndecided, OneCall, Duplicate, memory, outside, TypeOK
  <2>. QED
    BY <2>1, <2>2, <2>3, <2>4
<1>3. ASSUME NEW r \in Requests, Execute(r) PROVE Inv'
  <2>. USE <1>3
  <2>1. TypeOK'
    BY DEF TypeOK, Execute, Stages, ControlCalls
  <2>2. key[r] \in Keys /\ r # NoRequest /\ control[r] = "none"
    BY DEF TypeOK, ExecutorAssumption, NoCallYet, Execute
  <2>3. /\ \A k \in Keys : holder'[k] = IF k = key[r] THEN r ELSE holder[k]
        /\ \A q \in Requests : pc'[q] = IF q = r THEN "applying" ELSE pc[q]
        /\ \A q \in Requests : control'[q] = IF q = r THEN "sent" ELSE control[q]
    BY <2>2 DEF TypeOK, Execute
  <2>4. LockIsHeld'
    BY <2>2, <2>3 DEF LockIsHeld, Execute, TypeOK, ExecutorAssumption
  <2>5. AuditAgrees' /\ NoCallYet' /\ HeldIsUndecided'
    BY <2>2, <2>3 DEF AuditAgrees, NoCallYet, HeldIsUndecided, Execute, TypeOK
  <2>6. OneCall'
    <3>. SUFFICES ASSUME restarts = 0 PROVE OneCall'
      BY DEF OneCall, Execute
    <3>1. \A q \in Requests : control[q] # "none" => key[q] # key[r]
      BY <2>2 DEF OneCall, Execute, ExecutorAssumption
    <3>2. \A q \in Requests : control'[q] # "none" =>
              approvals'[key'[q]] # "none" \/ holder'[key'[q]] = q
      BY <2>2, <2>3, <3>1 DEF OneCall, Execute, TypeOK
    <3>3. \A p, q \in Requests :
             control'[p] # "none" /\ control'[q] # "none" /\ key'[p] = key'[q] => p = q
      BY <2>3, <3>1 DEF OneCall, Execute
    <3>4. \A k \in Keys :
             \/ applied'[k] = 0
             \/ applied'[k] = 1 /\ \E q \in Requests : key'[q] = k /\ control'[q] = "applied"
      BY <2>2, <2>3 DEF OneCall, Execute
    <3>. QED
      BY <3>2, <3>3, <3>4 DEF OneCall
  <2>. QED
    BY <2>1, <2>4, <2>5, <2>6
<1>4. ASSUME NEW r \in Requests, ApplySucceeds(r) PROVE Inv'
  <2>1. CASE Record(r, "SUCCESS")
    BY <1>4, <2>1, RecordInv DEF ApplySucceeds, outside, Outcomes, TypeOK
  <2>2. CASE pc' = [pc EXCEPT ![r] = "writing"] /\ UNCHANGED <<reply, memory>>
    <3>. USE <1>4, <2>2
    <3>1. TypeOK'
      BY DEF TypeOK, ApplySucceeds, memory, outside, Stages
    <3>2. LockIsHeld'
      BY DEF LockIsHeld, ApplySucceeds, memory, outside, TypeOK
    <3>3. AuditAgrees'
      BY DEF AuditAgrees, ApplySucceeds, memory, outside
    <3>4. NoCallYet' /\ HeldIsUndecided' /\ OneCall'
      BY DEF NoCallYet, HeldIsUndecided, OneCall, ApplySucceeds, memory, outside, TypeOK
    <3>. QED
      BY <3>1, <3>2, <3>3, <3>4
  <2>. QED
    BY <1>4, <2>1, <2>2 DEF ApplySucceeds
<1>5. ASSUME NEW r \in Requests, ApplyFails(r) PROVE Inv'
  BY <1>5, RecordInv DEF ApplyFails, outside, Outcomes, TypeOK
<1>6. ASSUME NEW r \in Requests, WritesBack(r) PROVE Inv'
  <2>1. noted' \in [Keys -> Nat]
    <3>1. noted \in [Keys -> Nat] /\ key[r] \in Keys /\ noted[key[r]] + 1 \in Nat
      BY DEF TypeOK
    <3>2. noted' = [noted EXCEPT ![key[r]] = noted[key[r]] + 1] \/ noted' = noted
      BY <1>6 DEF WritesBack
    <3>. QED
      BY <3>1, <3>2
  <2>. QED
    BY <1>6, <2>1, RecordInv DEF WritesBack, Outcomes
<1>7. ASSUME NEW r \in Requests, ControlApplies(r) PROVE Inv'
  <2>. USE <1>7
  <2>1. TypeOK'
    BY DEF TypeOK, ControlApplies, memory, ControlCalls
  <2>2. LockIsHeld' /\ HeldIsUndecided'
    BY DEF LockIsHeld, HeldIsUndecided, ControlApplies, memory
  <2>3. AuditAgrees'
    BY DEF AuditAgrees, ControlApplies, memory
  <2>4. NoCallYet'
    BY DEF NoCallYet, ControlApplies, TypeOK
  <2>5. OneCall'
    <3>. SUFFICES ASSUME restarts = 0 PROVE OneCall'
      BY DEF OneCall, ControlApplies
    <3>1. applied[key[r]] = 0 /\ key[r] \in Keys
      <4>1. key[r] \in Keys /\ control[r] = "sent"
        BY DEF ControlApplies, TypeOK
      <4>2. \A q \in Requests : key[q] = key[r] /\ control[q] # "none" => q = r
        BY <4>1 DEF OneCall
      <4>3. ~ \E q \in Requests : key[q] = key[r] /\ control[q] = "applied"
        BY <4>1, <4>2
      <4>. QED
        BY <4>1, <4>3 DEF OneCall
    <3>2. /\ \A k \in Keys : applied'[k] = IF k = key[r] THEN 1 ELSE applied[k]
          /\ \A q \in Requests : control'[q] = IF q = r THEN "applied" ELSE control[q]
      BY <3>1 DEF ControlApplies, TypeOK
    <3>. QED
      BY <3>1, <3>2 DEF OneCall, ControlApplies, memory
  <2>. QED
    BY <2>1, <2>2, <2>3, <2>4, <2>5
<1>8. ASSUME NEW r \in Requests, ControlRejects(r) PROVE Inv'
  <2>. USE <1>8
  <2>0. PICK answer \in {"declined", "refused"} : control' = [control EXCEPT ![r] = answer]
    BY DEF ControlRejects
  <2>1. TypeOK'
    BY <2>0 DEF TypeOK, ControlRejects, memory, ControlCalls
  <2>2. LockIsHeld' /\ HeldIsUndecided'
    BY DEF LockIsHeld, HeldIsUndecided, ControlRejects, memory
  <2>3. AuditAgrees'
    BY DEF AuditAgrees, ControlRejects, memory
  <2>4. NoCallYet'
    BY <2>0 DEF NoCallYet, ControlRejects, TypeOK
  <2>5. \A q \in Requests : control'[q] = IF q = r THEN answer ELSE control[q]
    BY <2>0 DEF TypeOK
  <2>6. OneCall'
    BY <2>5 DEF OneCall, ControlRejects, memory
  <2>. QED
    BY <2>1, <2>2, <2>3, <2>4, <2>6
<1>9. ASSUME Restart PROVE Inv'
  <2>. USE <1>9
  <2>1. TypeOK'
    BY DEF TypeOK, Restart, outside, Stages, Outcomes, ExecutorAssumption
  <2>2. LockIsHeld'
    BY DEF LockIsHeld, Restart, TypeOK, ExecutorAssumption
  <2>3. AuditAgrees' /\ HeldIsUndecided'
    BY DEF AuditAgrees, HeldIsUndecided, Restart
  <2>4. NoCallYet'
    BY DEF NoCallYet, Restart, outside
  <2>5. OneCall'
    BY DEF OneCall, Restart, TypeOK
  <2>. QED
    BY <2>1, <2>2, <2>3, <2>4, <2>5
<1>10. ASSUME UNCHANGED vars PROVE Inv'
  BY <1>10 DEF vars, memory, outside, TypeOK, LockIsHeld, AuditAgrees, NoCallYet,
               HeldIsUndecided, OneCall
<1>. QED
  BY <1>1, <1>2, <1>3, <1>4, <1>5, <1>6, <1>7, <1>8, <1>9, <1>10 DEF Next, Serve

\* Every reachable state satisfies the invariant.
THEOREM InvCorrect == Spec => []Inv
<1>1. Init => Inv
  BY InitInv, ExecutorAssumption
<1>2. Inv /\ [Next]_vars => Inv'
  BY NextInv, ExecutorAssumption
<1>. QED
  BY <1>1, <1>2, PTL DEF Spec

\* The state of the service, of its callers and of its calls stays well formed.
THEOREM TypeCorrect == Spec => []TypeOK
<1>1. Inv => TypeOK
  BY DEF Inv
<1>. QED
  BY InvCorrect, <1>1, PTL

\* The farm carries out an approved option once at most, for any number of racing
\* approvals, timed-out calls and late effects, until the service restarts.
THEOREM AppliedOnceCorrect == Spec => []AppliedOnce
<1>1. Inv => AppliedOnce
  <2>. SUFFICES ASSUME Inv, restarts = 0, NEW k \in Keys PROVE applied[k] <= 1
    BY DEF AppliedOnce
  <2>1. applied[k] = 0 \/ applied[k] = 1
    BY DEF Inv, OneCall
  <2>. QED
    BY <2>1
<1>. QED
  BY InvCorrect, <1>1, PTL

\* Per-key mutual exclusion: who holds a lock is between its check and its record.
THEOREM LockCorrect == Spec => []LockIsHeld
<1>1. Inv => LockIsHeld
  BY DEF Inv
<1>. QED
  BY InvCorrect, <1>1, PTL

\* The audit log and the idempotency records agree, across restarts too.
THEOREM AuditCorrect == Spec => []AuditAgrees
<1>1. Inv => AuditAgrees
  BY DEF Inv
<1>. QED
  BY InvCorrect, <1>1, PTL

\* A change of the farm is on record, or being recorded, until a restart.
THEOREM ChangesCorrect == Spec => []ChangesAreRecorded
<1>1. Inv => ChangesAreRecorded
  <2>. SUFFICES ASSUME Inv, restarts = 0, NEW k \in Keys, applied[k] > 0
                PROVE  approvals[k] # "none" \/ holder[k] # NoRequest
    BY DEF ChangesAreRecorded
  <2>1. PICK r \in Requests : key[r] = k /\ control[r] = "applied"
    BY DEF Inv, OneCall
  <2>2. approvals[k] # "none" \/ holder[k] = r
    BY <2>1 DEF Inv, OneCall
  <2>. QED
    BY <2>2, ExecutorAssumption DEF ExecutorAssumption
<1>. QED
  BY InvCorrect, <1>1, PTL

-----------------------------------------------------------------------------
(* What the callers are told *)

\* Whoever is told ALREADY_APPLIED repeats an option whose outcome another was told;
\* and until a restart no second caller of an option is told an outcome.
AnswersAgree ==
    /\ \A r \in Requests : reply[r] = "ALREADY_APPLIED" =>
         \E q \in Requests : key[q] = key[r] /\ reply[q] \in Outcomes
    /\ restarts = 0 =>
         \A r, q \in Requests :
            key[r] = key[q] /\ reply[r] \in Outcomes /\ reply[q] \in Outcomes => r = q

\* A record is what its caller was told; and whoever was told an outcome, or is
\* between its check and its record, has called the farm.
Answered ==
    /\ \A k \in Keys : approvals[k] # "none" =>
         \E q \in Requests : key[q] = k /\ reply[q] = approvals[k]
    /\ \A r \in Requests :
         pc[r] \in {"applying", "writing"} \/ reply[r] \in Outcomes => control[r] # "none"

AnswerInv == Inv /\ Answered /\ AnswersAgree

\* Recording an outcome tells it to the one caller that called the farm for the key.
LEMMA RecordAnswers ==
    ASSUME Inv, Answered, AnswersAgree, NEW r \in Requests, NEW outcome \in Outcomes,
           pc[r] \in {"applying", "writing"}, Record(r, outcome),
           UNCHANGED <<key, control, restarts>>
    PROVE  Answered' /\ AnswersAgree'
<1>1. /\ reply' = [reply EXCEPT ![r] = outcome] /\ reply \in [Requests -> Replies]
      /\ approvals' = [approvals EXCEPT ![key[r]] = outcome]
      /\ approvals \in [Keys -> Outcomes \cup {"none"}] /\ key[r] \in Keys
      /\ pc' = [pc EXCEPT ![r] = "replied"] /\ pc \in [Requests -> Stages]
      /\ key' = key /\ control' = control /\ restarts' = restarts
  BY DEF Inv, TypeOK, Record
<1>2. reply[r] = "none"
  BY DEF Inv, TypeOK
<1>3. \A q \in Requests : reply'[q] = IF q = r THEN outcome ELSE reply[q]
  BY <1>1
<1>4. Answered'
  <2>1. ASSUME NEW k \in Keys, approvals'[k] # "none"
        PROVE  \E q \in Requests : key'[q] = k /\ reply'[q] = approvals'[k]
    <3>1. CASE k = key[r]
      BY <1>1, <1>3, <3>1
    <3>2. CASE k # key[r]
      <4>1. PICK q \in Requests : key[q] = k /\ reply[q] = approvals[k]
        BY <1>1, <2>1, <3>2 DEF Answered
      <4>. QED
        BY <1>1, <1>3, <3>2, <4>1
    <3>. QED
      BY <3>1, <3>2
  <2>2. \A q \in Requests : pc'[q] \in {"applying", "writing"} \/ reply'[q] \in Outcomes
                              => control'[q] # "none"
    BY <1>1, <1>3 DEF Answered
  <2>. QED
    BY <2>1, <2>2 DEF Answered
<1>5. AnswersAgree'
  <2>1. ASSUME NEW q \in Requests, reply'[q] = "ALREADY_APPLIED"
        PROVE  \E p \in Requests : key'[p] = key'[q] /\ reply'[p] \in Outcomes
    <3>1. PICK p \in Requests : key[p] = key[q] /\ reply[p] \in Outcomes
      BY <1>3, <2>1 DEF AnswersAgree, Outcomes
    <3>. QED
      BY <1>1, <1>2, <1>3, <3>1
  <2>2. ASSUME restarts' = 0, NEW p \in Requests, NEW q \in Requests,
               key'[p] = key'[q], reply'[p] \in Outcomes, reply'[q] \in Outcomes
        PROVE  p = q
    <3>1. control[p] # "none" /\ control[q] # "none"
      BY <1>1, <1>3, <2>2 DEF Answered
    <3>. QED
      BY <1>1, <2>2, <3>1 DEF Inv, OneCall
  <2>. QED
    BY <2>1, <2>2 DEF AnswersAgree
<1>. QED
  BY <1>4, <1>5

\* A step that tells nobody anything leaves the answers in agreement, if it keeps the
\* records or loses them all, and if whoever goes on to call the farm does call it.
LEMMA SilentAnswers ==
    ASSUME Answered, AnswersAgree, UNCHANGED <<reply, key>>, restarts' = 0 => restarts = 0,
           UNCHANGED approvals \/ approvals' = [k \in Keys |-> "none"],
           \A r \in Requests : pc'[r] \in {"applying", "writing"}
                => control'[r] # "none" \/ pc[r] \in {"applying", "writing"},
           \A r \in Requests : control[r] # "none" => control'[r] # "none"
    PROVE  Answered' /\ AnswersAgree'
<1>1. AnswersAgree'
  BY DEF AnswersAgree
<1>2. Answered'
  BY DEF Answered
<1>. QED
  BY <1>1, <1>2

LEMMA NextAnswers ==
    AnswerInv /\ [Next]_vars => AnswerInv'
<1>. SUFFICES ASSUME AnswerInv, [Next]_vars PROVE AnswerInv'
  OBVIOUS
<1>1. Inv' /\ Inv /\ Answered /\ AnswersAgree /\ TypeOK
  BY NextInv, ExecutorAssumption DEF AnswerInv, Inv
<1>2. ASSUME NEW r \in Requests,
             Submit(r) \/ Execute(r) \/ ControlApplies(r) \/ ControlRejects(r)
      PROVE  Answered' /\ AnswersAgree'
  <2>1. UNCHANGED <<reply, key, restarts, approvals>>
    BY <1>2 DEF Submit, Execute, ControlApplies, ControlRejects, memory, outside
  <2>2. \A q \in Requests :
          /\ control[q] # "none" => control'[q] # "none"
          /\ pc'[q] \in {"applying", "writing"}
               => control'[q] # "none" \/ pc[q] \in {"applying", "writing"}
    BY <1>1, <1>2 DEF Submit, Execute, ControlApplies, ControlRejects, memory, outside, TypeOK
  <2>. QED
    BY <1>1, <2>1, <2>2, SilentAnswers
<1>3. ASSUME NEW r \in Requests, Duplicate(r)
      PROVE  Answered' /\ AnswersAgree'
  <2>1. /\ \A q \in Requests : reply'[q] = IF q = r THEN "ALREADY_APPLIED" ELSE reply[q]
        /\ \A q \in Requests : pc'[q] = IF q = r THEN "replied" ELSE pc[q]
        /\ reply[r] = "none" /\ approvals[key[r]] \in Outcomes /\ key[r] \in Keys
        /\ UNCHANGED <<key, approvals, control, restarts>>
    BY <1>1, <1>3 DEF Duplicate, TypeOK, memory, outside
  <2>2. \A q \in Requests : reply'[q] \in Outcomes <=> reply[q] \in Outcomes
    BY <2>1 DEF Outcomes
  <2>3. Answered'
    <3>1. ASSUME NEW k \in Keys, approvals'[k] # "none"
          PROVE  \E q \in Requests : key'[q] = k /\ reply'[q] = approvals'[k]
      <4>1. PICK q \in Requests : key[q] = k /\ reply[q] = approvals[k]
        BY <1>1, <2>1, <3>1 DEF Answered
      <4>. QED
        BY <2>1, <3>1, <4>1
    <3>. QED
      BY <1>1, <2>1, <2>2, <3>1 DEF Answered
  <2>4. \E q \in Requests : key[q] = key[r] /\ reply[q] \in Outcomes
    BY <1>1, <2>1 DEF Answered, Outcomes
  <2>5. AnswersAgree'
    BY <1>1, <2>1, <2>2, <2>4 DEF AnswersAgree
  <2>. QED
    BY <2>3, <2>5
<1>4. ASSUME NEW r \in Requests, ApplySucceeds(r) \/ ApplyFails(r) \/ WritesBack(r)
      PROVE  Answered' /\ AnswersAgree'
  <2>1. /\ pc[r] \in {"applying", "writing"} /\ UNCHANGED <<key, control, restarts>>
        /\ \/ \E outcome \in Outcomes : Record(r, outcome)
           \/ pc' = [pc EXCEPT ![r] = "writing"] /\ UNCHANGED <<reply, memory>>
    BY <1>4 DEF ApplySucceeds, ApplyFails, WritesBack, outside, Outcomes
  <2>2. CASE \E outcome \in Outcomes : Record(r, outcome)
    BY <1>1, <2>1, <2>2, RecordAnswers
  <2>3. CASE pc' = [pc EXCEPT ![r] = "writing"] /\ UNCHANGED <<reply, memory>>
    <3>1. UNCHANGED <<reply, approvals, key, restarts, control>>
      BY <2>1, <2>3 DEF memory
    <3>2. \A q \in Requests : pc'[q] \in {"applying", "writing"} => pc[q] \in {"applying", "writing"}
      BY <1>1, <2>1, <2>3 DEF TypeOK
    <3>. QED
      BY <1>1, <3>1, <3>2, SilentAnswers
  <2>. QED
    BY <2>1, <2>2, <2>3
<1>5. ASSUME Restart PROVE Answered' /\ AnswersAgree'
  <2>1. /\ UNCHANGED <<reply, key, control>> /\ restarts' # 0
        /\ approvals' = [k \in Keys |-> "none"]
    BY <1>1, <1>5 DEF Restart, outside, TypeOK
  <2>2. \A q \in Requests : pc'[q] \notin {"applying", "writing"}
    BY <1>5 DEF Restart
  <2>. QED
    BY <1>1, <2>1, <2>2, SilentAnswers
<1>6. ASSUME UNCHANGED vars PROVE Answered' /\ AnswersAgree'
  BY <1>1, <1>6, SilentAnswers DEF vars, memory, outside
<1>. QED
  BY <1>1, <1>2, <1>3, <1>4, <1>5, <1>6 DEF Next, Serve, AnswerInv

\* Whoever is told that an option was applied already repeats one whose outcome
\* another caller was told, restarts or not, and no two callers of an option are told
\* an outcome before the first restart.
THEOREM AnswersCorrect == Spec => []AnswersAgree
<1>1. Init => AnswerInv
  <2>. SUFFICES ASSUME Init PROVE AnswerInv
    OBVIOUS
  <2>1. Inv
    BY InitInv, ExecutorAssumption
  <2>. QED
    BY <2>1 DEF Init, AnswerInv, Answered, AnswersAgree, Outcomes
<1>2. AnswerInv => AnswersAgree
  BY DEF AnswerInv
<1>. QED
  BY <1>1, <1>2, NextAnswers, PTL DEF Spec

-----------------------------------------------------------------------------
(* The executor implements the ledger *)

\* The requests whose call under a key the farm has carried out.
CarriedOut(k) == {r \in Requests : key[r] = k /\ control[r] = "applied"}

\* The farm's count under a key is the number of calls it carried out, and only
\* finitely many requests have called it.
Counted ==
    /\ IsFiniteSet({r \in Requests : control[r] # "none"})
    /\ \A k \in Keys : applied[k] = Cardinality(CarriedOut(k))

\* The calls carried out under a key are among the calls made under it.
LEMMA CallCounts ==
    ASSUME Counted, NEW k
    PROVE  /\ IsFiniteSet(Called(k)) /\ Cardinality(Called(k)) \in Nat
           /\ IsFiniteSet(CarriedOut(k)) /\ Cardinality(CarriedOut(k)) \in Nat
<1>1. /\ Called(k) \in SUBSET {r \in Requests : control[r] # "none"}
      /\ CarriedOut(k) \in SUBSET {r \in Requests : control[r] # "none"}
  BY DEF Called, CarriedOut
<1>2. IsFiniteSet(Called(k)) /\ IsFiniteSet(CarriedOut(k))
  BY <1>1, FS_Subset DEF Counted
<1>. QED
  BY <1>2, FS_CardinalityType

\* A call not carried out yet leaves room for one more under its key.
LEMMA RoomForOne ==
    ASSUME Counted, NEW r \in Requests, control[r] = "sent", key[r] \in Keys
    PROVE  applied[key[r]] < Cardinality(Called(key[r]))
<1>1. /\ CarriedOut(key[r]) \in SUBSET Called(key[r])
      /\ r \in Called(key[r]) /\ r \notin CarriedOut(key[r])
  BY DEF Called, CarriedOut
<1>2. /\ IsFiniteSet(Called(key[r])) /\ Cardinality(Called(key[r])) \in Nat
      /\ Cardinality(CarriedOut(key[r])) \in Nat
  BY CallCounts
<1>3. /\ Cardinality(CarriedOut(key[r])) <= Cardinality(Called(key[r]))
      /\ Cardinality(CarriedOut(key[r])) # Cardinality(Called(key[r]))
  BY <1>1, <1>2, FS_Subset
<1>. QED
  BY <1>2, <1>3 DEF Counted

\* A step that makes no call and has none carried out keeps the counts.
LEMMA QuietCounts ==
    ASSUME UNCHANGED <<key, applied>>,
           \A r \in Requests : control'[r] = "none" <=> control[r] = "none",
           \A r \in Requests : control'[r] = "applied" <=> control[r] = "applied"
    PROVE  /\ Counted => Counted'
           /\ \A k : Called(k)' = Called(k)
<1>1. \A k : Called(k)' = Called(k) /\ CarriedOut(k)' = CarriedOut(k)
  BY DEF Called, CarriedOut
<1>2. {r \in Requests : control'[r] # "none"} = {r \in Requests : control[r] # "none"}
  OBVIOUS
<1>. QED
  BY <1>1, <1>2 DEF Counted

\* What each action does to the counts, and what it is in the ledger.
LEMMA StepImplements ==
    ASSUME Inv, Counted, [Next]_vars
    PROVE  Counted' /\ [Ledger!Next]_(Ledger!vars)
<1>. USE ExecutorAssumption
<1>. DEFINE St == [k \in Keys |-> StatusOf(k)]
            Op == [k \in Keys |-> Cardinality(Called(k))]
<1>0. TypeOK /\ LockIsHeld /\ HeldIsUndecided /\ NoCallYet
  BY DEF Inv
<1>1. ASSUME NEW r \in Requests, Submit(r) \/ Duplicate(r) \/ ControlRejects(r)
      PROVE  Counted' /\ UNCHANGED <<St, Op, applied, restarts>>
  <2>1. UNCHANGED <<key, applied, approvals, holder, restarts>>
    BY <1>1 DEF Submit, Duplicate, ControlRejects, memory, outside
  <2>0. \/ control' = control
        \/ control[r] = "sent" /\ \E answer \in {"declined", "refused"} :
                                    control' = [control EXCEPT ![r] = answer]
    BY <1>1 DEF Submit, Duplicate, ControlRejects, outside
  <2>3. \A q \in Requests : control'[q] = "none" <=> control[q] = "none"
    BY <1>0, <2>0 DEF TypeOK
  <2>4. \A q \in Requests : control'[q] = "applied" <=> control[q] = "applied"
    BY <1>0, <2>0 DEF TypeOK
  <2>2. Counted' /\ \A k : Called(k)' = Called(k)
    BY <2>1, <2>3, <2>4, QuietCounts
  <2>. QED
    BY <2>1, <2>2 DEF StatusOf
<1>2. ASSUME NEW r \in Requests, Execute(r)
      PROVE  /\ Counted' /\ UNCHANGED <<applied, restarts>> /\ key[r] \in Keys
             /\ St[key[r]] = "free"
             /\ St' = [St EXCEPT ![key[r]] = "open"]
             /\ Op' = [Op EXCEPT ![key[r]] = @ + 1]
  <2>1. /\ key[r] \in Keys /\ r # NoRequest /\ control[r] = "none"
        /\ holder[key[r]] = NoRequest /\ approvals[key[r]] = "none"
        /\ UNCHANGED <<key, applied, approvals, restarts>>
        /\ \A k \in Keys : holder'[k] = IF k = key[r] THEN r ELSE holder[k]
        /\ \A q \in Requests : control'[q] = IF q = r THEN "sent" ELSE control[q]
    BY <1>0, <1>2 DEF Execute, TypeOK, NoCallYet, ExecutorAssumption
  <2>2. \A k \in Keys : /\ CarriedOut(k)' = CarriedOut(k)
                        /\ k # key[r] => Called(k)' = Called(k)
    BY <2>1 DEF Called, CarriedOut
  <2>3. /\ Called(key[r])' = Called(key[r]) \cup {r} /\ r \notin Called(key[r])
        /\ {q \in Requests : control'[q] # "none"}
             = {q \in Requests : control[q] # "none"} \cup {r}
    BY <2>1 DEF Called
  <2>4. Cardinality(Called(key[r]))' = Cardinality(Called(key[r])) + 1
    BY <2>3, CallCounts, FS_AddElement
  <2>5. Counted'
    <3>1. IsFiniteSet({q \in Requests : control'[q] # "none"})
      BY <2>3, FS_AddElement DEF Counted
    <3>2. \A k \in Keys : applied'[k] = Cardinality(CarriedOut(k))'
      BY <2>1, <2>2 DEF Counted
    <3>. QED
      BY <3>1, <3>2 DEF Counted
  <2>6. \A k \in Keys : StatusOf(k)' = IF k = key[r] THEN "open" ELSE StatusOf(k)
    BY <2>1 DEF StatusOf
  <2>7. StatusOf(key[r]) = "free"
    BY <2>1 DEF StatusOf
  <2>8. \A k \in Keys : Cardinality(Called(k))'
             = IF k = key[r] THEN Cardinality(Called(k)) + 1 ELSE Cardinality(Called(k))
    <3>. SUFFICES ASSUME NEW k \in Keys
                  PROVE  Cardinality(Called(k))'
                    = IF k = key[r] THEN Cardinality(Called(k)) + 1 ELSE Cardinality(Called(k))
      OBVIOUS
    <3>1. CASE k = key[r]
      BY <2>1, <2>4, <3>1
    <3>2. CASE k # key[r]
      BY <2>2, <3>2
    <3>. QED
      BY <3>1, <3>2
  <2>. QED
    BY <2>1, <2>5, <2>6, <2>7, <2>8
<1>3. ASSUME NEW r \in Requests, ApplySucceeds(r) \/ ApplyFails(r) \/ WritesBack(r)
      PROVE  /\ Counted' /\ UNCHANGED <<Op, applied, restarts>> /\ key[r] \in Keys
             /\ \/ UNCHANGED St
                \/ St[key[r]] = "open" /\ St' = [St EXCEPT ![key[r]] = "decided"]
  <2>1. /\ UNCHANGED <<key, control, applied, restarts>>
        /\ key[r] \in Keys /\ holder[key[r]] = r /\ r # NoRequest
        /\ \/ \E outcome \in Outcomes : Record(r, outcome)
           \/ UNCHANGED <<approvals, holder>>
    BY <1>0, <1>3 DEF ApplySucceeds, ApplyFails, WritesBack, outside, memory, Outcomes,
                      LockIsHeld, TypeOK, ExecutorAssumption
  <2>2. Counted' /\ \A k : Called(k)' = Called(k)
    BY <2>1, QuietCounts
  <2>3. CASE UNCHANGED <<approvals, holder>>
    BY <2>1, <2>2, <2>3 DEF StatusOf
  <2>4. CASE \E outcome \in Outcomes : Record(r, outcome)
    <3>1. PICK outcome \in Outcomes : Record(r, outcome)
      BY <2>4
    <3>2. /\ \A k \in Keys : approvals'[k] = IF k = key[r] THEN outcome ELSE approvals[k]
          /\ \A k \in Keys : holder'[k] = IF k = key[r] THEN NoRequest ELSE holder[k]
          /\ outcome # "none" /\ approvals[key[r]] = "none"
      BY <1>0, <2>1, <3>1 DEF Record, TypeOK, Outcomes, HeldIsUndecided
    <3>3. \A k \in Keys : StatusOf(k)' = IF k = key[r] THEN "decided" ELSE StatusOf(k)
      BY <3>2 DEF StatusOf
    <3>4. StatusOf(key[r]) = "open"
      BY <2>1, <3>2 DEF StatusOf
    <3>. QED
      BY <2>1, <2>2, <3>3, <3>4
  <2>. QED
    BY <2>1, <2>3, <2>4
<1>4. ASSUME NEW r \in Requests, ControlApplies(r)
      PROVE  /\ Counted' /\ UNCHANGED <<St, Op, restarts>> /\ key[r] \in Keys
             /\ applied[key[r]] < Op[key[r]]
             /\ applied' = [applied EXCEPT ![key[r]] = @ + 1]
  <2>1. /\ key[r] \in Keys /\ control[r] = "sent"
        /\ UNCHANGED <<key, approvals, holder, restarts>>
        /\ applied' = [applied EXCEPT ![key[r]] = applied[key[r]] + 1]
        /\ \A k \in Keys : applied'[k] = IF k = key[r] THEN applied[k] + 1 ELSE applied[k]
        /\ \A q \in Requests : control'[q] = IF q = r THEN "applied" ELSE control[q]
    BY <1>0, <1>4 DEF ControlApplies, memory, TypeOK
  <2>2. /\ \A k : Called(k)' = Called(k)
        /\ \A k \in Keys : k # key[r] => CarriedOut(k)' = CarriedOut(k)
        /\ CarriedOut(key[r])' = CarriedOut(key[r]) \cup {r} /\ r \notin CarriedOut(key[r])
        /\ {q \in Requests : control'[q] # "none"} = {q \in Requests : control[q] # "none"}
    BY <2>1 DEF Called, CarriedOut
  <2>3. Cardinality(CarriedOut(key[r]))' = Cardinality(CarriedOut(key[r])) + 1
    BY <2>2, CallCounts, FS_AddElement
  <2>4. Counted'
    BY <2>1, <2>2, <2>3 DEF Counted
  <2>5. applied[key[r]] < Cardinality(Called(key[r]))
    BY <2>1, RoomForOne
  <2>. QED
    BY <2>1, <2>2, <2>4, <2>5 DEF StatusOf
<1>5. ASSUME Restart
      PROVE  /\ Counted' /\ UNCHANGED <<Op, applied>>
             /\ St' = [k \in Keys |-> "free"] /\ restarts' = restarts + 1
  <2>1. /\ UNCHANGED <<key, control, applied>> /\ restarts' = restarts + 1
        /\ \A k \in Keys : holder'[k] = NoRequest /\ approvals'[k] = "none"
    BY <1>5 DEF Restart, outside
  <2>2. Counted' /\ \A k : Called(k)' = Called(k)
    BY <2>1, QuietCounts
  <2>. QED
    BY <2>1, <2>2 DEF StatusOf
<1>6. ASSUME UNCHANGED vars
      PROVE  Counted' /\ UNCHANGED <<St, Op, applied, restarts>>
  <2>1. UNCHANGED <<key, control, applied, approvals, holder, restarts>>
    BY <1>6 DEF vars, memory, outside
  <2>2. Counted' /\ \A k : Called(k)' = Called(k)
    BY <2>1, QuietCounts
  <2>. QED
    BY <2>1, <2>2 DEF StatusOf
<1>. HIDE DEF St, Op
<1>7. /\ Counted'
      /\ \/ UNCHANGED <<St, Op, applied, restarts>>
         \/ /\ St' = [k \in Keys |-> "free"] /\ restarts' = restarts + 1
            /\ UNCHANGED <<Op, applied>>
         \/ \E k \in Keys :
              \/ /\ St[k] = "free" /\ St' = [St EXCEPT ![k] = "open"]
                 /\ Op' = [Op EXCEPT ![k] = @ + 1] /\ UNCHANGED <<applied, restarts>>
              \/ /\ St[k] = "open" /\ St' = [St EXCEPT ![k] = "decided"]
                 /\ UNCHANGED <<Op, applied, restarts>>
              \/ /\ applied[k] < Op[k] /\ applied' = [applied EXCEPT ![k] = @ + 1]
                 /\ UNCHANGED <<St, Op, restarts>>
  BY <1>1, <1>2, <1>3, <1>4, <1>5, <1>6, Zenon DEF Next, Serve
<1>. QED
  BY <1>7 DEF St, Op, Ledger!Next, Ledger!Open, Ledger!Decide, Ledger!Change,
              Ledger!Forget, Ledger!vars

\* The executor implements the ledger for any requests and keys: a key is executed and
\* decided once per lifetime of the service, and carried out no more often than it was
\* executed, whatever is lost, late or repeated.
THEOREM LedgerCorrect == Spec => ImplementsLedger
<1>1. Init => Counted /\ Ledger!Init
  <2>. SUFFICES ASSUME Init PROVE Counted /\ Ledger!Init
    OBVIOUS
  <2>1. \A k \in Keys : Called(k) = {} /\ CarriedOut(k) = {} /\ StatusOf(k) = "free"
    BY DEF Init, Called, CarriedOut, StatusOf
  <2>2. {r \in Requests : control[r] # "none"} = {}
    BY DEF Init
  <2>3. IsFiniteSet({}) /\ Cardinality({}) = 0
    BY FS_EmptySet
  <2>. QED
    BY <2>1, <2>2, <2>3 DEF Init, Counted, Ledger!Init
<1>2. Inv /\ Counted /\ [Next]_vars => Counted' /\ [Ledger!Next]_(Ledger!vars)
  BY StepImplements
<1>. QED
  BY <1>1, <1>2, InvCorrect, PTL DEF Spec, ImplementsLedger, Ledger!Spec
=============================================================================
