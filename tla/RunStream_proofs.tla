--------------------------- MODULE RunStream_proofs ---------------------------
(***************************************************************************)
(* Proofs about AgentRun and RunStream, for any number of tool calls,      *)
(* verifications and lost connections.  Of the run alone: it stays well    *)
(* formed, and its document says VERIFYING only while some verification is *)
(* still to report.  Of its way to the browser: the stream leaves no hole  *)
(* in the ledger, and a browser that was given all of a run at rest shows  *)
(* the state the run is in.  Those arguments are about numbers.  The       *)
(* planner numbers its events without repetition, and what verifications   *)
(* and failures add is numbered beside them (Numbered); so a stream that   *)
(* resumes behind the last event the browser was given skips nothing of    *)
(* the planner's (Delivered).                                              *)
(***************************************************************************)
EXTENDS RunStream, TLAPS, SequenceTheorems, FiniteSetTheorems

-----------------------------------------------------------------------------
(* The run alone *)

\* The inductive invariant: what is proved, and that the calls in flight, whose
\* number is bounded, are finitely many.
Inv ==
    /\ RunTypeOK
    /\ VerifyingIsLive
    /\ IsFiniteSet(calls)

-----------------------------------------------------------------------------
\* An event with a number and a type is an event.
LEMMA AtType ==
    ASSUME NEW n \in Nat, NEW type \in EventTypes
    PROVE  At(n, type) \in Event
BY DEF At, Event

\* Emitting one event leaves a sequence of events.
LEMMA EmitType ==
    ASSUME NEW s \in Seq(Event), NEW n \in Nat, NEW type \in EventTypes
    PROVE  Append(s, At(n, type)) \in Seq(Event)
BY AtType, AppendProperties

\* A verification that moves on leaves a sequence of verifications, in which it
\* alone has changed.
LEMMA MoveType ==
    ASSUME NEW s \in Seq(Verify), NEW i \in DOMAIN s, NEW v \in Verify
    PROVE  /\ [s EXCEPT ![i] = v] \in Seq(Verify)
           /\ DOMAIN [s EXCEPT ![i] = v] = DOMAIN s
           /\ [s EXCEPT ![i] = v][i] = v
           /\ \A j \in DOMAIN s : j # i => [s EXCEPT ![i] = v][j] = s[j]
<1>1. DOMAIN s = 1..Len(s)
    BY LenProperties
<1>2. [s EXCEPT ![i] = v] \in Seq(Verify)
    BY <1>1, ExceptSeq
<1> QED BY <1>2

\* A call that comes back leaves the other calls, no more than before.
LEMMA CallReturns ==
    ASSUME Inv, NEW c \in calls
    PROVE  /\ calls \ {c} \subseteq 1..turn
           /\ IsFiniteSet(calls \ {c})
           /\ Cardinality(calls \ {c}) <= Parallel
<1>1. /\ IsFiniteSet(calls \ {c})
      /\ Cardinality(calls \ {c}) = Cardinality(calls) - 1
      /\ Cardinality(calls) \in Nat
    BY FS_RemoveElement, FS_CardinalityType DEF Inv
<1> QED BY <1>1, RunAssumption DEF Inv, RunTypeOK

\* The end of an investigation leaves the run well formed and not in VERIFYING.
LEMMA ConcludeInv ==
    ASSUME Inv, NEW before \in Seq(Event), NEW warranted \in BOOLEAN,
           Conclude(before, warranted)
    PROVE  Inv'
<1> DEFINE n == seq + Len(before)
           last == IF warranted THEN "APPROVAL_REQUIRED" ELSE "COMPLETED"
<1>1. n \in Nat /\ last \in EventTypes
    BY LenProperties DEF Inv, RunTypeOK, EventTypes
<1>2. <<At(n, last)>> \in Seq(Event)
    BY <1>1, AtType
<1>3. events' = events \o before \o <<At(n, last)>>
    BY DEF Conclude
<1> HIDE DEF n, last
<1>4. events' \in Seq(Event)
    BY <1>2, <1>3, ConcatProperties DEF Inv, RunTypeOK
<1>5. seq' \in Nat /\ stepCount' \in Nat
    BY <1>1 DEF Conclude, n
<1>6. state' \in {"AWAITING_APPROVAL", "COMPLETED"} /\ phase' = "concluded"
      /\ offered' = warranted
    BY DEF Conclude
<1>7. UNCHANGED <<turn, calls, evidence, verifies>>
    BY DEF Conclude
<1>8. RunTypeOK'
    BY <1>4, <1>5, <1>6, <1>7 DEF Inv, RunTypeOK, Phases, RunStates
<1>9. VerifyingIsLive'
    BY <1>6 DEF VerifyingIsLive
<1> QED BY <1>7, <1>8, <1>9 DEF Inv

-----------------------------------------------------------------------------
\* The invariant holds initially.
LEMMA InitInv == RunInit => Inv
<1> SUFFICES ASSUME RunInit PROVE Inv
    OBVIOUS
<1>1. IsFiniteSet(calls) /\ Cardinality(calls) = 0
    BY FS_EmptySet DEF RunInit
<1>2. calls \subseteq 1..turn /\ turn \in 0..MaxTurns
    BY RunAssumption DEF RunInit
<1>3. evidence \in [1..MaxTurns -> 0..MaxTurns]
    BY RunAssumption DEF RunInit
<1>4. verifies \in Seq(Verify) /\ events \in Seq(Event)
    BY DEF RunInit
<1>5. Cardinality(calls) <= Parallel
    BY <1>1, RunAssumption
<1>6. phase \in Phases /\ state \in RunStates /\ offered \in BOOLEAN
    BY DEF RunInit, Phases, RunStates
<1>7. stepCount \in Nat /\ seq \in Nat
    BY DEF RunInit
<1>8. RunTypeOK
    BY <1>2, <1>3, <1>4, <1>5, <1>6, <1>7 DEF RunTypeOK
<1> QED BY <1>1, <1>8 DEF Inv, VerifyingIsLive, RunInit

\* Every step of the investigation task keeps the invariant.
LEMMA InvestigationInv ==
    ASSUME Inv,
           \/ Begin \/ ToolCall \/ Score \/ Project \/ Fail
           \/ \E c \in calls : ToolAnswers(c) \/ ToolFails(c)
    PROVE  Inv'
<1> USE DEF Inv
<1>1. CASE Begin
    <2>1. events' \in Seq(Event)
        BY <1>1, EmitType DEF Begin, RunTypeOK, EventTypes
    <2>2. RunTypeOK'
        BY <1>1, <2>1 DEF Begin, RunTypeOK, Phases, RunStates
    <2> QED BY <1>1, <2>2 DEF Begin, VerifyingIsLive
<1>2. CASE ToolCall
    <2>1. events' \in Seq(Event)
        BY <1>2, EmitType DEF ToolCall, RunTypeOK, EventTypes
    <2>2. turn' \in 0..MaxTurns /\ calls' \subseteq 1..turn'
        BY <1>2, RunAssumption DEF ToolCall, RunTypeOK, Exhausted
    <2>3. turn + 1 \notin calls
        BY DEF RunTypeOK
    <2>4. IsFiniteSet(calls') /\ Cardinality(calls') = Cardinality(calls) + 1
        BY <1>2, <2>3, FS_AddElement DEF ToolCall
    <2>5. Cardinality(calls') <= Parallel
        BY <1>2, <2>4, FS_CardinalityType, RunAssumption DEF ToolCall
    <2>6. RunTypeOK'
        BY <1>2, <2>1, <2>2, <2>5 DEF ToolCall, RunTypeOK, Phases
    <2> QED BY <1>2, <2>4, <2>6 DEF ToolCall, VerifyingIsLive, VerifyLive
<1>3. CASE Score
    <2>1. CASE \E warranted \in BOOLEAN :
                  Conclude(<<At(seq, "HYPOTHESIS"), At(seq + 1, "IMPACT")>>, warranted)
        <3>1. At(seq, "HYPOTHESIS") \in Event /\ At(seq + 1, "IMPACT") \in Event
            BY AtType DEF RunTypeOK, EventTypes
        <3>2. <<At(seq, "HYPOTHESIS"), At(seq + 1, "IMPACT")>> \in Seq(Event)
            BY <3>1
        <3> QED BY <2>1, <3>2, ConcludeInv
    <2>2. CASE /\ phase' = "projecting"
               /\ events' = Append(events, At(seq, "HYPOTHESIS"))
               /\ seq' = seq + 1
               /\ UNCHANGED <<state, offered, stepCount, turn, calls, evidence, verifies>>
        <3>1. events' \in Seq(Event)
            BY <2>2, EmitType DEF RunTypeOK, EventTypes
        <3>2. RunTypeOK'
            BY <2>2, <3>1 DEF RunTypeOK, Phases
        <3> QED BY <2>2, <3>2 DEF VerifyingIsLive, VerifyLive
    <2> QED BY <1>3, <2>1, <2>2 DEF Score
<1>4. CASE Project
    <2>1. <<At(seq, "IMPACT")>> \in Seq(Event)
        BY AtType DEF RunTypeOK, EventTypes
    <2> QED BY <1>4, <2>1, ConcludeInv DEF Project
<1>5. CASE Fail
    <2>1. events' \in Seq(Event)
        BY <1>5, EmitType DEF Fail, RunTypeOK, EventTypes
    <2>2. RunTypeOK'
        BY <1>5, <2>1 DEF Fail, RunTypeOK, Phases, RunStates
    <2> QED BY <1>5, <2>2 DEF Fail, VerifyingIsLive
<1>6. ASSUME NEW c \in calls, ToolAnswers(c)
      PROVE  Inv'
    <2>1. events' \in Seq(Event)
        BY <1>6, EmitType DEF ToolAnswers, RunTypeOK, EventTypes
    <2>2. evidence' \in [1..MaxTurns -> 0..MaxTurns]
        BY <1>6, RunAssumption DEF ToolAnswers, RunTypeOK
    <2>3. calls' = calls \ {c} /\ turn' = turn
        BY <1>6 DEF ToolAnswers
    <2>4. calls' \subseteq 1..turn' /\ IsFiniteSet(calls') /\ Cardinality(calls') <= Parallel
        BY <2>3, CallReturns
    <2>5. RunTypeOK'
        BY <1>6, <2>1, <2>2, <2>4 DEF ToolAnswers, RunTypeOK
    <2> QED BY <1>6, <2>4, <2>5 DEF ToolAnswers, VerifyingIsLive, VerifyLive
<1>7. ASSUME NEW c \in calls, ToolFails(c)
      PROVE  Inv'
    <2>1. events' \in Seq(Event)
        BY <1>7, EmitType DEF ToolFails, RunTypeOK, EventTypes
    <2>2. calls' = calls \ {c} /\ turn' = turn
        BY <1>7 DEF ToolFails
    <2>3. calls' \subseteq 1..turn' /\ IsFiniteSet(calls') /\ Cardinality(calls') <= Parallel
        BY <2>2, CallReturns
    <2>4. RunTypeOK'
        BY <1>7, <2>1, <2>3 DEF ToolFails, RunTypeOK
    <2> QED BY <1>7, <2>3, <2>4 DEF ToolFails, VerifyingIsLive, VerifyLive
<1> QED BY <1>1, <1>2, <1>3, <1>4, <1>5, <1>6, <1>7

\* Every step of a verification keeps the invariant, whatever other verifications
\* are under way.
LEMMA VerificationInv ==
    ASSUME Inv,
           \/ VerifyRequested
           \/ \E i \in DOMAIN verifies :
                \/ VerifyBegins(i)
                \/ \E recovered \in BOOLEAN : VerifyReports(i, recovered)
                \/ VerifyFails(i)
    PROVE  Inv'
<1> USE DEF Inv
<1>1. CASE VerifyRequested
    <2> DEFINE v == [status |-> "queued", seq |-> 0]
    <2>1. v \in Verify
        BY DEF Verify
    <2>2. verifies' = Append(verifies, v)
        BY <1>1 DEF VerifyRequested
    <2>3. v.status = "queued"
        OBVIOUS
    <2> HIDE DEF v
    <2>4. /\ verifies' \in Seq(Verify)
          /\ Len(verifies) + 1 \in DOMAIN verifies'
          /\ verifies'[Len(verifies) + 1] = v
        BY <2>1, <2>2, AppendProperties, LenProperties DEF RunTypeOK
    <2>5. RunTypeOK'
        BY <1>1, <2>4 DEF VerifyRequested, RunTypeOK, RunStates
    <2>6. VerifyingIsLive'
        BY <2>3, <2>4 DEF VerifyingIsLive, VerifyLive
    <2> QED BY <1>1, <2>5, <2>6 DEF VerifyRequested
<1>2. ASSUME NEW i \in DOMAIN verifies, VerifyBegins(i)
      PROVE  Inv'
    <2> DEFINE v == [status |-> "settling", seq |-> stepCount + 1]
    <2>1. v \in Verify /\ v.status = "settling"
        BY DEF Verify, RunTypeOK
    <2>2. verifies' = [verifies EXCEPT ![i] = v]
        BY <1>2 DEF VerifyBegins
    <2> HIDE DEF v
    <2>3. /\ verifies' \in Seq(Verify)
          /\ i \in DOMAIN verifies'
          /\ verifies'[i] = v
        BY <2>1, <2>2, MoveType DEF RunTypeOK
    <2>4. RunTypeOK'
        BY <1>2, <2>3 DEF VerifyBegins, RunTypeOK
    <2>5. VerifyingIsLive'
        BY <2>1, <2>3 DEF VerifyingIsLive, VerifyLive
    <2> QED BY <1>2, <2>4, <2>5 DEF VerifyBegins
<1>3. ASSUME NEW i \in DOMAIN verifies
      PROVE  /\ verifies[i] \in Verify /\ verifies[i].seq \in Nat
             /\ [verifies EXCEPT ![i].status = "over"] \in Seq(Verify)
    <2>1. verifies[i] \in Verify
        BY ElementOfSeq, LenProperties DEF RunTypeOK
    <2> DEFINE v == [verifies[i] EXCEPT !.status = "over"]
    <2>2. v \in Verify
        BY <2>1 DEF Verify
    <2>3. [verifies EXCEPT ![i].status = "over"] = [verifies EXCEPT ![i] = v]
        OBVIOUS
    <2> HIDE DEF v
    <2>4. [verifies EXCEPT ![i] = v] \in Seq(Verify)
        BY <2>2, MoveType DEF RunTypeOK
    <2> QED BY <2>1, <2>3, <2>4 DEF Verify
<1>4. ASSUME NEW i \in DOMAIN verifies, NEW recovered \in BOOLEAN,
             VerifyReports(i, recovered)
      PROVE  Inv'
    <2> DEFINE a == At(verifies[i].seq, "VERIFICATION")
               b == At(verifies[i].seq + 1, "COMPLETED")
    <2>1. a \in Event /\ b \in Event
        <3>1. verifies[i].seq \in Nat
            BY <1>3, Zenon
        <3>2. "VERIFICATION" \in EventTypes /\ "COMPLETED" \in EventTypes
            BY DEF EventTypes
        <3>3. verifies[i].seq + 1 \in Nat
            BY <3>1
        <3> QED BY <3>1, <3>2, <3>3, AtType
    <2>2. events' = events \o <<a, b>>
        BY <1>4 DEF VerifyReports
    <2> HIDE DEF a, b
    <2>3. events' \in Seq(Event)
        BY <2>1, <2>2, ConcatProperties DEF RunTypeOK
    <2>4. verifies' \in Seq(Verify)
        BY <1>3, <1>4 DEF VerifyReports
    <2>5. state' \in {"COMPLETED", "DEGRADED"} /\ stepCount' \in Nat
        BY <1>3, <1>4 DEF VerifyReports
    <2>6. RunTypeOK'
        BY <1>4, <2>3, <2>4, <2>5 DEF VerifyReports, RunTypeOK, RunStates
    <2> QED BY <1>4, <2>5, <2>6 DEF VerifyReports, VerifyingIsLive
<1>5. ASSUME NEW i \in DOMAIN verifies, VerifyFails(i)
      PROVE  Inv'
    <2>1. events' \in Seq(Event)
        BY <1>3, <1>5, EmitType DEF VerifyFails, RunTypeOK, EventTypes
    <2>2. verifies' \in Seq(Verify)
        BY <1>3, <1>5 DEF VerifyFails
    <2>3. RunTypeOK'
        BY <1>5, <2>1, <2>2 DEF VerifyFails, RunTypeOK, RunStates
    <2> QED BY <1>5, <2>3 DEF VerifyFails, VerifyingIsLive
<1> QED BY <1>1, <1>2, <1>4, <1>5

\* A restart leaves a run as empty as a new one.
LEMMA RestartInv ==
    ASSUME Inv, Restart
    PROVE  Inv'
<1>1. IsFiniteSet(calls') /\ Cardinality(calls') = 0
    BY FS_EmptySet DEF Restart
<1>2. Cardinality(calls') <= Parallel
    BY <1>1, RunAssumption
<1>3. calls' \subseteq 1..turn' /\ turn' \in 0..MaxTurns
    BY RunAssumption DEF Restart
<1>4. evidence' \in [1..MaxTurns -> 0..MaxTurns]
    BY RunAssumption DEF Restart
<1>5. verifies' \in Seq(Verify) /\ events' \in Seq(Event)
    BY DEF Restart
<1>6. phase' \in Phases /\ state' \in RunStates /\ offered' \in BOOLEAN
    BY DEF Restart, Phases, RunStates
<1>7. stepCount' \in Nat /\ seq' \in Nat
    BY DEF Restart
<1>8. RunTypeOK'
    BY <1>2, <1>3, <1>4, <1>5, <1>6, <1>7 DEF RunTypeOK
<1> QED BY <1>1, <1>8 DEF Inv, Restart, VerifyingIsLive

\* Every step keeps the invariant.
LEMMA NextInv == Inv /\ [RunNext]_runVars => Inv'
<1> SUFFICES ASSUME Inv, [RunNext]_runVars PROVE Inv'
    OBVIOUS
<1>1. CASE UNCHANGED runVars
    BY <1>1 DEF runVars, Inv, RunTypeOK, VerifyingIsLive, VerifyLive
<1>2. CASE RunNext
    BY <1>2, InvestigationInv, VerificationInv, RestartInv DEF RunNext, Progress
<1> QED BY <1>1, <1>2

\* The invariant holds in every reachable state of the worker.
THEOREM InvCorrect == RunSpec => []Inv
BY InitInv, NextInv, PTL DEF RunSpec

\* The run is well formed in every reachable state; in particular the turns never
\* pass the ceiling, nor the calls in flight the agent's parallelism.
THEOREM RunTypeCorrect == RunSpec => []RunTypeOK
<1>1. Inv => RunTypeOK
    BY DEF Inv
<1> QED BY InvCorrect, <1>1, PTL

\* However many verifications overlap and however they end, the document says
\* VERIFYING only while one of them is still to report.
THEOREM VerifyingCorrect == RunSpec => []VerifyingIsLive
<1>1. Inv => VerifyingIsLive
    BY DEF Inv
<1> QED BY InvCorrect, <1>1, PTL

-----------------------------------------------------------------------------
(* The numbers of the events *)

\* The k-th of the events ev is the planner's, whose next number is n.
Planner(ev, n, k) == ev[k].seq < n /\ ev[k].type # "ERROR"

AllBelow(ev, n) == \A k \in 1..Len(ev) : ev[k].seq < n

\* An event numbered no higher than another was emitted no later, if it is the
\* planner's: a reader with a cursor may take the store's order for the numbers'.
Ordered(ev, n) ==
    \A j, k \in 1..Len(ev) : Planner(ev, n, k) /\ ev[k].seq <= ev[j].seq => k <= j

\* From ev to ew events were only added, and of those the planner's, if it is still
\* running, are numbered from n on.
Extended(ev, n, ew, m, running) ==
    /\ Len(ev) <= Len(ew)
    /\ \A k \in 1..Len(ev) : ew[k] = ev[k] /\ (Planner(ev, n, k) <=> Planner(ew, m, k))
    /\ \A k \in 1..Len(ew) :
         Planner(ew, m, k) /\ k > Len(ev) => running /\ n <= ew[k].seq

Running == phase \in {"queued", "gathering", "projecting"}

\* How the worker numbers a run's events.
Numbered ==
    /\ Running => AllBelow(events, seq)
    /\ calls # {} => phase = "gathering"
    /\ phase = "concluded" => seq <= stepCount
    /\ \A i \in DOMAIN verifies :
         /\ phase = "concluded"
         /\ verifies[i].status = "queued" \/ seq <= verifies[i].seq
    /\ phase = "lost" => events = <<>>
    /\ Ordered(events, seq)

\* What a step of the worker does to the events.
Effect ==
    \/ phase' = "lost" /\ events' = <<>>
    \/ /\ phase # "lost" /\ phase' # "lost"
       /\ Extended(events, seq, events', seq', Running)
       /\ Running' => Running /\ seq <= seq'

-----------------------------------------------------------------------------
\* The events of a sequence have natural numbers.
LEMMA NumbersAreNat ==
    ASSUME NEW s \in Seq(Event)
    PROVE  \A k \in 1..Len(s) : s[k].seq \in Nat
<1> SUFFICES ASSUME NEW k \in 1..Len(s)
             PROVE  s[k].seq \in Nat
    OBVIOUS
<1>1. s[k] \in Event
    BY ElementOfSeq
<1> QED BY <1>1 DEF Event

\* The planner emits the events s, numbered on from n.
LEMMA Emission ==
    ASSUME NEW ev \in Seq(Event), NEW n \in Nat, NEW s \in Seq(Event),
           AllBelow(ev, n), Ordered(ev, n),
           \A i \in 1..Len(s) : s[i].seq = n + (i - 1)
    PROVE  /\ AllBelow(ev \o s, n + Len(s))
           /\ Ordered(ev \o s, n + Len(s))
           /\ Extended(ev, n, ev \o s, n + Len(s), TRUE)
<1> DEFINE ew == ev \o s
           m == n + Len(s)
<1>1. /\ Len(ev) \in Nat /\ Len(s) \in Nat
      /\ Len(ew) = Len(ev) + Len(s)
      /\ \A k \in 1..Len(ev) : ew[k] = ev[k]
      /\ \A k \in 1..Len(ew) : k > Len(ev) => ew[k] = s[k - Len(ev)]
    BY ConcatProperties, LenProperties
<1>2. \A k \in 1..Len(ev) : ev[k].seq \in Nat
    BY NumbersAreNat
<1> HIDE DEF ew
<1>3. \A k \in 1..Len(ew) : k > Len(ev) => /\ k - Len(ev) \in 1..Len(s)
                                           /\ ew[k].seq = n + (k - Len(ev) - 1)
    BY <1>1
<1>4. AllBelow(ew, m)
    <2> SUFFICES ASSUME NEW k \in 1..Len(ew)
                 PROVE  ew[k].seq < m
        BY DEF AllBelow
    <2>1. CASE k <= Len(ev)
        BY <1>1, <1>2, <2>1 DEF AllBelow
    <2>2. CASE k > Len(ev)
        BY <1>1, <1>3, <2>2
    <2> QED BY <1>1, <2>1, <2>2
<1>5. Ordered(ew, m)
    <2> SUFFICES ASSUME NEW j \in 1..Len(ew), NEW k \in 1..Len(ew),
                        Planner(ew, m, k), ew[k].seq <= ew[j].seq
                 PROVE  k <= j
        BY DEF Ordered
    <2>1. CASE k <= Len(ev) /\ j <= Len(ev)
        <3>1. /\ k \in 1..Len(ev) /\ j \in 1..Len(ev)
              /\ ew[k] = ev[k] /\ ew[j] = ev[j]
            BY <1>1, <2>1
        <3>2. Planner(ev, n, k)
            BY <3>1 DEF Planner, AllBelow
        <3> QED BY <3>1, <3>2 DEF Ordered
    <2>2. CASE k <= Len(ev) /\ j > Len(ev)
        BY <1>1, <2>2
    <2>3. CASE k > Len(ev) /\ j <= Len(ev)
        <3>1. ew[k].seq = n + (k - Len(ev) - 1)
            BY <1>3, <2>3
        <3>2. ew[j].seq < n /\ ew[j].seq \in Nat
            BY <1>1, <1>2, <2>3 DEF AllBelow
        <3> QED BY <1>1, <2>3, <3>1, <3>2
    <2>4. CASE k > Len(ev) /\ j > Len(ev)
        BY <1>1, <1>3, <2>4
    <2> QED BY <1>1, <2>1, <2>2, <2>3, <2>4
<1>6. Extended(ev, n, ew, m, TRUE)
    <2>1. \A k \in 1..Len(ev) : ew[k] = ev[k] /\ (Planner(ev, n, k) <=> Planner(ew, m, k))
        <3> SUFFICES ASSUME NEW k \in 1..Len(ev)
                     PROVE  ew[k] = ev[k] /\ (Planner(ev, n, k) <=> Planner(ew, m, k))
            OBVIOUS
        <3>1. ev[k].seq < n /\ ev[k].seq < m
            BY <1>1, <1>2 DEF AllBelow
        <3> QED BY <1>1, <3>1 DEF Planner
    <2>2. \A k \in 1..Len(ew) : k > Len(ev) => n <= ew[k].seq
        BY <1>1, <1>3
    <2>3. Len(ev) <= Len(ew)
        BY <1>1
    <2> QED BY <2>1, <2>2, <2>3, Zenon DEF Extended
<1> QED BY <1>4, <1>5, <1>6 DEF ew

\* Events s are added that are not the planner's.
LEMMA Aside ==
    ASSUME NEW ev \in Seq(Event), NEW n \in Nat, NEW s \in Seq(Event), Ordered(ev, n),
           \A i \in 1..Len(s) : n <= s[i].seq \/ s[i].type = "ERROR",
           NEW running
    PROVE  /\ Ordered(ev \o s, n)
           /\ Extended(ev, n, ev \o s, n, running)
<1> DEFINE ew == ev \o s
<1>1. /\ Len(ev) \in Nat /\ Len(s) \in Nat
      /\ Len(ew) = Len(ev) + Len(s)
      /\ \A k \in 1..Len(ev) : ew[k] = ev[k]
      /\ \A k \in 1..Len(ew) : k > Len(ev) => ew[k] = s[k - Len(ev)]
    BY ConcatProperties, LenProperties
<1>2. \A k \in 1..Len(s) : s[k].seq \in Nat
    BY NumbersAreNat
<1> HIDE DEF ew
<1>3. \A k \in 1..Len(ew) : Planner(ew, n, k) => k <= Len(ev)
    <2> SUFFICES ASSUME NEW k \in 1..Len(ew), k > Len(ev)
                 PROVE  ~Planner(ew, n, k)
        BY <1>1
    <2>1. k - Len(ev) \in 1..Len(s) /\ ew[k] = s[k - Len(ev)]
        BY <1>1
    <2> QED BY <1>2, <2>1 DEF Planner
<1>4. \A k \in 1..Len(ev) : Planner(ev, n, k) <=> Planner(ew, n, k)
    BY <1>1 DEF Planner
<1>5. Ordered(ew, n)
    <2> SUFFICES ASSUME NEW j \in 1..Len(ew), NEW k \in 1..Len(ew),
                        Planner(ew, n, k), ew[k].seq <= ew[j].seq
                 PROVE  k <= j
        BY DEF Ordered
    <2>1. k <= Len(ev)
        BY <1>3
    <2>2. CASE j <= Len(ev)
        <3>1. k \in 1..Len(ev) /\ j \in 1..Len(ev) /\ Planner(ev, n, k)
            BY <1>1, <1>4, <2>1, <2>2
        <3> QED BY <1>1, <3>1 DEF Ordered
    <2> QED BY <1>1, <2>1, <2>2
<1>6. Extended(ev, n, ew, n, running)
    <2>1. Len(ev) <= Len(ew)
        BY <1>1
    <2>2. \A k \in 1..Len(ew) : ~(Planner(ew, n, k) /\ k > Len(ev))
        BY <1>1, <1>3
    <2>3. \A k \in 1..Len(ev) : ew[k] = ev[k] /\ (Planner(ev, n, k) <=> Planner(ew, n, k))
        BY <1>1, <1>4, Zenon
    <2> QED BY <2>1, <2>2, <2>3, Zenon DEF Extended
<1> QED BY <1>5, <1>6 DEF ew

-----------------------------------------------------------------------------
\* A step that emits the events s as the planner's keeps the numbering.
LEMMA EmitStep ==
    ASSUME Inv, Numbered, Running, phase' # "lost", NEW s \in Seq(Event),
           \A i \in 1..Len(s) : s[i].seq = seq + (i - 1),
           events' = events \o s, seq' = seq + Len(s)
    PROVE  /\ AllBelow(events', seq')
           /\ Ordered(events', seq')
           /\ Effect
<1>1. events \in Seq(Event) /\ seq \in Nat /\ Len(s) \in Nat
    BY LenProperties DEF Inv, RunTypeOK
<1>2. AllBelow(events, seq) /\ Ordered(events, seq)
    BY DEF Numbered
<1>3. /\ AllBelow(events', seq')
      /\ Ordered(events', seq')
      /\ Extended(events, seq, events', seq', TRUE)
    BY <1>1, <1>2, Emission
<1>4. Extended(events, seq, events', seq', Running)
    BY <1>3 DEF Extended
<1>5. seq <= seq'
    BY <1>1
<1> QED BY <1>3, <1>4, <1>5 DEF Effect, Running

\* A step that emits events s beside the planner's keeps the numbering.
LEMMA AsideStep ==
    ASSUME Inv, Numbered, phase # "lost", phase' # "lost", Running' => Running,
           NEW s \in Seq(Event),
           \A i \in 1..Len(s) : seq <= s[i].seq \/ s[i].type = "ERROR",
           events' = events \o s, seq' = seq
    PROVE  /\ Ordered(events', seq')
           /\ Effect
<1>1. events \in Seq(Event) /\ seq \in Nat
    BY DEF Inv, RunTypeOK
<1>2. Ordered(events, seq)
    BY DEF Numbered
<1>3. Ordered(events', seq') /\ Extended(events, seq, events', seq', Running)
    BY <1>1, <1>2, Aside
<1>4. seq <= seq'
    BY <1>1
<1> QED BY <1>3, <1>4 DEF Effect

\* A step that emits nothing keeps the numbering.
LEMMA SilentStep ==
    ASSUME Inv, Numbered, phase # "lost", phase' # "lost", Running' => Running,
           UNCHANGED <<events, seq>>
    PROVE  /\ Ordered(events', seq')
           /\ Effect
<1>1. events \in Seq(Event) /\ <<>> \in Seq(Event) /\ Len(<<>>) = 0
    BY DEF Inv, RunTypeOK
<1>2. events' = events \o <<>>
    BY <1>1
<1>3. \A i \in 1..Len(<<>>) : seq <= <<>>[i].seq \/ <<>>[i].type = "ERROR"
    BY <1>1
<1> QED BY <1>1, <1>2, <1>3, AsideStep

\* Emitting one event is adding a sequence of one.
LEMMA EmitOne ==
    ASSUME NEW ev \in Seq(Event), NEW n \in Nat, NEW type \in EventTypes
    PROVE  /\ Append(ev, At(n, type)) = ev \o <<At(n, type)>>
           /\ <<At(n, type)>> \in Seq(Event)
           /\ Len(<<At(n, type)>>) = 1
           /\ <<At(n, type)>>[1] = [seq |-> n, type |-> type]
BY AtType, AppendIsConcat DEF At

\* Events may be added one batch after the other or both at once.
LEMMA Associative ==
    \A x, y, z \in Seq(Event) : (x \o y) \o z = x \o (y \o z)
BY ConcatAssociative

\* The end of an investigation keeps the numbering, when the events before it are
\* the planner's.
LEMMA ConcludeStep ==
    ASSUME Inv, Numbered, Running, NEW before \in Seq(Event), NEW warranted \in BOOLEAN,
           \A i \in 1..Len(before) : before[i].seq = seq + (i - 1),
           calls = {}, Conclude(before, warranted)
    PROVE  Numbered' /\ Effect
<1> DEFINE n == seq + Len(before)
           last == At(n, IF warranted THEN "APPROVAL_REQUIRED" ELSE "COMPLETED")
           s == before \o <<last>>
<1>1. seq \in Nat /\ events \in Seq(Event) /\ Len(before) \in Nat /\ n \in Nat
    BY LenProperties DEF Inv, RunTypeOK
<1>2. last \in Event /\ last.seq = n /\ <<last>> \in Seq(Event) /\ Len(<<last>>) = 1
      /\ <<last>>[1] = last
    BY <1>1 DEF At, Event, EventTypes
<1>3. /\ phase' = "concluded"
      /\ events' = events \o before \o <<last>>
      /\ seq' = n + 1 /\ stepCount' = n + 1
      /\ UNCHANGED <<calls, verifies>>
    BY DEF Conclude
<1> HIDE DEF last
<1>4. /\ s \in Seq(Event) /\ Len(s) = Len(before) + 1
      /\ \A i \in 1..Len(before) : s[i] = before[i]
      /\ s[Len(before) + 1] = last
    BY <1>1, <1>2, ConcatProperties
<1>5. events' = events \o s
    <2>1. <<last>> \in Seq(Event) /\ events \in Seq(Event)
        BY <1>1, <1>2
    <2>2. (events \o before) \o <<last>> = events \o (before \o <<last>>)
        BY <2>1, Associative
    <2>3. events' = (events \o before) \o <<last>>
        BY <1>3, Zenon
    <2> QED BY <2>2, <2>3, Zenon
<1> HIDE DEF s
<1>6. \A i \in 1..Len(s) : s[i].seq = seq + (i - 1)
    <2> SUFFICES ASSUME NEW i \in 1..Len(s)
                 PROVE  s[i].seq = seq + (i - 1)
        OBVIOUS
    <2>1. CASE i <= Len(before)
        <3>1. i \in 1..Len(before)
            BY <1>1, <1>4, <2>1
        <3>2. s[i] = before[i] /\ before[i].seq = seq + (i - 1)
            BY <1>4, <3>1
        <3> QED BY <3>2
    <2>2. CASE i > Len(before)
        <3>1. i = Len(before) + 1
            BY <1>1, <1>4, <2>2
        <3>2. s[i] = last
            BY <1>1, <1>4, <3>1
        <3>3. s[i].seq = n
            BY <1>2, <3>2
        <3> QED BY <1>1, <3>1, <3>3
    <2> QED BY <1>1, <1>4, <2>1, <2>2
<1>7. seq' = seq + Len(s)
    BY <1>1, <1>3, <1>4
<1>8. phase' # "lost" /\ ~Running'
    BY <1>3 DEF Running
<1>9. Ordered(events', seq') /\ Effect
    BY <1>4, <1>5, <1>6, <1>7, <1>8, EmitStep
<1>10. DOMAIN verifies = {}
    BY DEF Numbered, Running
<1>11. seq' <= stepCount'
    BY <1>1, <1>3
<1> QED BY <1>3, <1>8, <1>9, <1>10, <1>11 DEF Numbered

-----------------------------------------------------------------------------
\* The numbering holds initially.
LEMMA InitNumbered == RunInit => Numbered
BY DEF RunInit, Numbered, Running, AllBelow, Ordered

\* Every step of the investigation task keeps the numbering and only adds events.
LEMMA InvestigationNumbered ==
    ASSUME Inv, Numbered, phase = "queued" => seq = 1,
           \/ Begin \/ ToolCall \/ Score \/ Project \/ Fail
           \/ \E c \in calls : ToolAnswers(c) \/ ToolFails(c)
    PROVE  Numbered' /\ Effect
<1>1. seq \in Nat /\ stepCount \in Nat /\ events \in Seq(Event)
    BY DEF Inv, RunTypeOK
<1>2. Running => DOMAIN verifies = {}
    BY DEF Numbered, Running
<1>3. ASSUME NEW type \in EventTypes, Running, Running', UNCHANGED verifies,
             calls' # {} => phase' = "gathering",
             events' = Append(events, At(seq, type)), seq' = seq + 1
      PROVE  Numbered' /\ Effect
    <2> DEFINE s == <<At(seq, type)>>
    <2>1. /\ events' = events \o s
          /\ s \in Seq(Event) /\ Len(s) = 1 /\ s[1] = [seq |-> seq, type |-> type]
        BY <1>1, <1>3, EmitOne
    <2> HIDE DEF s
    <2>2. \A i \in 1..Len(s) : s[i].seq = seq + (i - 1)
        BY <1>1, <2>1
    <2>3. phase' \notin {"lost", "concluded"}
        BY <1>3 DEF Running
    <2>4. seq' = seq + Len(s)
        BY <1>3, <2>1
    <2>5. AllBelow(events', seq') /\ Ordered(events', seq') /\ Effect
        BY <1>3, <2>1, <2>2, <2>3, <2>4, EmitStep
    <2> QED BY <1>2, <1>3, <2>3, <2>5 DEF Numbered
<1>4. CASE Begin
    BY <1>3, <1>4 DEF Begin, Running, Numbered, EventTypes
<1>5. CASE ToolCall
    BY <1>3, <1>5 DEF ToolCall, Running, EventTypes
<1>6. CASE Score
    <2>1. CASE \E warranted \in BOOLEAN :
                  Conclude(<<At(seq, "HYPOTHESIS"), At(seq + 1, "IMPACT")>>, warranted)
        <3> DEFINE s == <<At(seq, "HYPOTHESIS"), At(seq + 1, "IMPACT")>>
        <3>1. At(seq, "HYPOTHESIS") \in Event /\ At(seq + 1, "IMPACT") \in Event
            BY <1>1, AtType DEF EventTypes
        <3>2. s \in Seq(Event) /\ Len(s) = 2
            BY <3>1
        <3>3. s[1].seq = seq + (1 - 1) /\ s[2].seq = seq + (2 - 1)
            BY <1>1 DEF At
        <3>4. Running /\ calls = {}
            BY <1>6 DEF Score, Running
        <3>5. PICK warranted \in BOOLEAN : Conclude(s, warranted)
            BY <2>1
        <3> HIDE DEF s
        <3>6. \A i \in 1..Len(s) : s[i].seq = seq + (i - 1)
            <4> SUFFICES ASSUME NEW i \in 1..Len(s)
                         PROVE  s[i].seq = seq + (i - 1)
                OBVIOUS
            <4>1. i = 1 \/ i = 2
                BY <3>2
            <4> QED BY <3>3, <4>1
        <3> QED BY <3>2, <3>4, <3>5, <3>6, ConcludeStep
    <2>2. CASE /\ phase' = "projecting"
               /\ events' = Append(events, At(seq, "HYPOTHESIS"))
               /\ seq' = seq + 1
               /\ UNCHANGED <<state, offered, stepCount, turn, calls, evidence, verifies>>
        BY <1>3, <1>6, <2>2 DEF Score, Running, EventTypes
    <2> QED BY <1>6, <2>1, <2>2 DEF Score
<1>7. CASE Project
    <2> DEFINE s == <<At(seq, "IMPACT")>>
    <2>1. s \in Seq(Event) /\ Len(s) = 1 /\ s[1] = [seq |-> seq, type |-> "IMPACT"]
        BY <1>1, EmitOne DEF EventTypes
    <2>2. Running /\ calls = {}
        BY <1>7 DEF Project, Running, Numbered
    <2>3. PICK warranted \in BOOLEAN : Conclude(s, warranted)
        BY <1>7 DEF Project
    <2> HIDE DEF s
    <2>4. \A i \in 1..Len(s) : s[i].seq = seq + (i - 1)
        BY <1>1, <2>1
    <2> QED BY <2>1, <2>2, <2>3, <2>4, ConcludeStep
<1>8. CASE Fail
    <2> DEFINE n == stepCount + 1
               s == <<At(n, "ERROR")>>
    <2>1. n \in Nat /\ events' = Append(events, At(n, "ERROR"))
        BY <1>1, <1>8 DEF Fail
    <2> HIDE DEF n
    <2>2. /\ events' = events \o s
          /\ s \in Seq(Event) /\ Len(s) = 1
          /\ s[1] = [seq |-> n, type |-> "ERROR"]
        BY <1>1, <2>1, EmitOne DEF EventTypes
    <2> HIDE DEF s
    <2>3. \A i \in 1..Len(s) : seq <= s[i].seq \/ s[i].type = "ERROR"
        BY <2>2
    <2>4. phase' = "failed" /\ ~Running' /\ UNCHANGED <<seq, calls, verifies>>
          /\ calls = {} /\ Running
        BY <1>8 DEF Fail, Running
    <2>5. Ordered(events', seq') /\ Effect
        BY <2>2, <2>3, <2>4, AsideStep DEF Running
    <2> QED BY <1>2, <2>4, <2>5 DEF Numbered
<1>9. CASE \E c \in calls : ToolAnswers(c) \/ ToolFails(c)
    <2>1. phase = "gathering"
        BY <1>9 DEF Numbered
    <2>2. PICK c \in calls : ToolAnswers(c) \/ ToolFails(c)
        BY <1>9
    <2>3. CASE ToolAnswers(c)
        BY <1>3, <2>1, <2>3 DEF ToolAnswers, Running, EventTypes
    <2>4. CASE ToolFails(c)
        BY <1>3, <2>1, <2>4 DEF ToolFails, Running, EventTypes
    <2> QED BY <2>2, <2>3, <2>4
<1> QED BY <1>4, <1>5, <1>6, <1>7, <1>8, <1>9

\* Every step of the verifications keeps the numbering and only adds events.
LEMMA VerificationNumbered ==
    ASSUME Inv, Numbered,
           \/ VerifyRequested
           \/ \E i \in DOMAIN verifies :
                \/ VerifyBegins(i)
                \/ \E recovered \in BOOLEAN : VerifyReports(i, recovered)
                \/ VerifyFails(i)
    PROVE  Numbered' /\ Effect
<1>1. /\ seq \in Nat /\ stepCount \in Nat /\ events \in Seq(Event)
      /\ verifies \in Seq(Verify)
    BY DEF Inv, RunTypeOK
<1>2. CASE VerifyRequested
    <2>1. phase = "concluded" /\ phase' = phase /\ UNCHANGED <<seq, stepCount, calls, events>>
        BY <1>2 DEF VerifyRequested
    <2>2. Ordered(events', seq') /\ Effect
        BY <2>1, SilentStep DEF Running
    <2>3. \A j \in DOMAIN verifies' :
             verifies'[j].status = "queued" \/ seq <= verifies'[j].seq
        <3>1. [status |-> "queued", seq |-> 0] \in Verify
            BY DEF Verify
        <3>2. /\ Len(verifies') = Len(verifies) + 1
              /\ \A j \in 1..Len(verifies) : verifies'[j] = verifies[j]
              /\ verifies'[Len(verifies) + 1] = [status |-> "queued", seq |-> 0]
              /\ DOMAIN verifies' = 1..Len(verifies')
            BY <1>1, <1>2, <3>1, AppendProperties, LenProperties DEF VerifyRequested
        <3> SUFFICES ASSUME NEW j \in DOMAIN verifies'
                     PROVE  verifies'[j].status = "queued" \/ seq <= verifies'[j].seq
            OBVIOUS
        <3>3. CASE j \in 1..Len(verifies)
            <4>1. j \in DOMAIN verifies /\ verifies'[j] = verifies[j]
                BY <1>1, <3>2, <3>3, LenProperties
            <4> QED BY <4>1 DEF Numbered
        <3>4. CASE j = Len(verifies) + 1
            BY <3>2, <3>4
        <3>5. Len(verifies) \in Nat
            BY <1>1, LenProperties
        <3> QED BY <3>2, <3>3, <3>4, <3>5
    <2> QED BY <2>1, <2>2, <2>3 DEF Numbered, Running
<1>3. ASSUME NEW i \in DOMAIN verifies, NEW v \in Verify, seq <= v.seq,
             verifies' = [verifies EXCEPT ![i] = v],
             UNCHANGED <<phase, seq, calls>>, stepCount' = stepCount \/ seq <= stepCount',
             NEW s \in Seq(Event), \A k \in 1..Len(s) : seq <= s[k].seq,
             events' = events \o s
      PROVE  Numbered' /\ Effect
    <2>1. phase = "concluded" /\ phase' = "concluded" /\ seq <= stepCount
        BY <1>3 DEF Numbered
    <2>2. Ordered(events', seq') /\ Effect
        BY <1>3, <2>1, AsideStep DEF Running
    <2>3. \A j \in DOMAIN verifies' :
             verifies'[j].status = "queued" \/ seq <= verifies'[j].seq
        <3>1. /\ DOMAIN verifies' = DOMAIN verifies
              /\ verifies'[i] = v
              /\ \A j \in DOMAIN verifies : j # i => verifies'[j] = verifies[j]
            BY <1>1, <1>3, MoveType
        <3> SUFFICES ASSUME NEW j \in DOMAIN verifies'
                     PROVE  verifies'[j].status = "queued" \/ seq <= verifies'[j].seq
            OBVIOUS
        <3>2. CASE j = i
            BY <1>3, <3>1, <3>2
        <3>3. CASE j # i
            BY <3>1, <3>3 DEF Numbered
        <3> QED BY <3>2, <3>3
    <2>4. seq' <= stepCount'
        BY <1>3, <2>1
    <2>5. calls' # {} => phase' = "gathering"
        BY <1>3 DEF Numbered
    <2> QED BY <1>3, <2>1, <2>2, <2>3, <2>4, <2>5 DEF Numbered, Running
<1>4. ASSUME NEW i \in DOMAIN verifies, VerifyBegins(i)
      PROVE  Numbered' /\ Effect
    <2> DEFINE v == [status |-> "settling", seq |-> stepCount + 1]
    <2>1. seq <= stepCount
        BY DEF Numbered
    <2>2. v \in Verify /\ seq <= v.seq
        BY <1>1, <2>1 DEF Verify
    <2>3. verifies' = [verifies EXCEPT ![i] = v]
        BY <1>4 DEF VerifyBegins
    <2>4. UNCHANGED <<phase, seq, calls, stepCount, events>>
        BY <1>4 DEF VerifyBegins
    <2> DEFINE s == <<>>
    <2>5. s \in Seq(Event) /\ events' = events \o s /\ Len(s) = 0
        BY <1>1, <2>4
    <2> HIDE DEF v, s
    <2>6. \A k \in 1..Len(s) : seq <= s[k].seq
        BY <2>5
    <2> QED BY <1>3, <2>2, <2>3, <2>4, <2>5, <2>6
<1>5. ASSUME NEW i \in DOMAIN verifies, verifies[i].status = "settling"
      PROVE  /\ verifies[i] \in Verify /\ verifies[i].seq \in Nat
             /\ seq <= verifies[i].seq
             /\ [verifies[i] EXCEPT !.status = "over"] \in Verify
             /\ [verifies[i] EXCEPT !.status = "over"].seq = verifies[i].seq
    <2>1. verifies[i] \in Verify
        BY <1>1, LenProperties, ElementOfSeq
    <2>2. seq <= verifies[i].seq
        BY <1>5 DEF Numbered
    <2> QED BY <2>1, <2>2 DEF Verify
<1>6. ASSUME NEW i \in DOMAIN verifies, NEW recovered \in BOOLEAN,
             VerifyReports(i, recovered)
      PROVE  Numbered' /\ Effect
    <2> DEFINE n == verifies[i].seq
               s == <<At(n, "VERIFICATION"), At(n + 1, "COMPLETED")>>
               v == [verifies[i] EXCEPT !.status = "over"]
    <2>1. verifies[i].status = "settling"
        BY <1>6 DEF VerifyReports
    <2>2. n \in Nat /\ seq <= n /\ v \in Verify /\ v.seq = n
        BY <1>5, <2>1
    <2>3. /\ verifies' = [verifies EXCEPT ![i] = v]
          /\ stepCount' = n + 1
          /\ events' = events \o s
          /\ UNCHANGED <<phase, seq, calls>>
        BY <1>6 DEF VerifyReports
    <2> HIDE DEF n, v
    <2>4. At(n, "VERIFICATION") \in Event /\ At(n + 1, "COMPLETED") \in Event
        BY <2>2, AtType DEF EventTypes
    <2>5. s \in Seq(Event) /\ Len(s) = 2
        BY <2>4
    <2>6. s[1].seq = n /\ s[2].seq = n + 1
        BY <2>2 DEF At
    <2> HIDE DEF s
    <2>7. \A k \in 1..Len(s) : seq <= s[k].seq
        BY <1>1, <2>2, <2>5, <2>6
    <2>8. seq <= stepCount' /\ seq <= v.seq
        BY <1>1, <2>2, <2>3
    <2> QED BY <1>3, <2>2, <2>3, <2>5, <2>7, <2>8
<1>7. ASSUME NEW i \in DOMAIN verifies, VerifyFails(i)
      PROVE  Numbered' /\ Effect
    <2> DEFINE n == verifies[i].seq
               s == <<At(n, "DEGRADED")>>
               v == [verifies[i] EXCEPT !.status = "over"]
    <2>1. verifies[i].status = "settling"
        BY <1>7 DEF VerifyFails
    <2>2. n \in Nat /\ seq <= n /\ v \in Verify /\ v.seq = n
        BY <1>5, <2>1
    <2>3. /\ verifies' = [verifies EXCEPT ![i] = v]
          /\ events' = Append(events, At(n, "DEGRADED"))
          /\ UNCHANGED <<phase, seq, calls, stepCount>>
        BY <1>7 DEF VerifyFails
    <2> HIDE DEF n, v
    <2>4. /\ events' = events \o s
          /\ s \in Seq(Event) /\ Len(s) = 1
          /\ s[1] = [seq |-> n, type |-> "DEGRADED"]
        BY <1>1, <2>2, <2>3, EmitOne DEF EventTypes
    <2> HIDE DEF s
    <2>5. \A k \in 1..Len(s) : seq <= s[k].seq
        BY <2>2, <2>4
    <2>6. seq <= v.seq
        BY <2>2
    <2> QED BY <1>3, <2>2, <2>3, <2>4, <2>5, <2>6
<1> QED BY <1>2, <1>4, <1>6, <1>7

\* Every step of the worker, a restart included, keeps the numbering and either only
\* adds events or loses them all.
LEMMA NextNumbered ==
    ASSUME Inv, Numbered, phase = "queued" => seq = 1, [RunNext]_runVars
    PROVE  Numbered' /\ Effect
<1>1. CASE \/ Begin \/ ToolCall \/ Score \/ Project \/ Fail
           \/ \E c \in calls : ToolAnswers(c) \/ ToolFails(c)
    BY <1>1, InvestigationNumbered
<1>2. CASE \/ VerifyRequested
           \/ \E i \in DOMAIN verifies :
                \/ VerifyBegins(i)
                \/ \E recovered \in BOOLEAN : VerifyReports(i, recovered)
                \/ VerifyFails(i)
    BY <1>2, VerificationNumbered
<1>3. CASE Restart
    BY <1>3 DEF Restart, Numbered, Effect, Running, AllBelow, Ordered
<1>4. CASE UNCHANGED runVars
    <2>1. UNCHANGED <<phase, seq, stepCount, calls, verifies, events>>
        BY <1>4 DEF runVars
    <2>2. Numbered'
        BY <2>1 DEF Numbered, Running, AllBelow, Ordered, Planner
    <2>3. CASE phase = "lost"
        BY <2>1, <2>2, <2>3 DEF Effect, Numbered
    <2>4. CASE phase # "lost"
        BY <2>1, <2>2, <2>4, SilentStep DEF Running
    <2> QED BY <2>3, <2>4
<1> QED BY <1>1, <1>2, <1>3, <1>4 DEF RunNext, Progress

-----------------------------------------------------------------------------
\* How far the stream has brought the browser, of the planner's events: everything
\* up to the last id received, everything up to the cursor of an open stream, and
\* beyond the cursor everything fetched before what it is about to write.
Delivered ==
    /\ \A k \in 1..Len(events) :
         Planner(events, seq, k) /\ events[k].seq <= lastId => <<k, events[k]>> \in seen
    /\ \A k \in 1..Len(events) :
         open /\ Planner(events, seq, k) /\ events[k].seq <= cursor => <<k, events[k]>> \in seen
    /\ \A p \in batch : \A k \in 1..Len(events) :
         Planner(events, seq, k) /\ cursor < events[k].seq /\ k <= p[1] =>
             <<k, events[k]>> \in batch
    /\ phase # "lost" =>
         \A p \in batch : p[1] \in 1..Len(events) /\ p[2] = events[p[1]]
    /\ Running => lastId < seq /\ cursor < seq
    /\ ~open => batch = {}

\* The inductive invariant of the composition.
StreamInv ==
    /\ TypeOK
    /\ Inv
    /\ phase = "queued" => seq = 1
    /\ Numbered
    /\ Delivered

-----------------------------------------------------------------------------
\* The stream's own steps keep its state well formed.
LEMMA StreamTypes ==
    ASSUME TypeOK, Fetch \/ Deliver \/ Drop \/ Reconnect
    PROVE  TypeOK'
<1>1. UNCHANGED runVars
    BY DEF Fetch, Deliver, Drop, Reconnect
<1>2. RunTypeOK'
    BY <1>1 DEF TypeOK, RunTypeOK, runVars
<1>3. events \in Seq(Event)
    BY DEF TypeOK, RunTypeOK
<1>4. CASE Fetch
    <2>1. EventsSince(cursor) \subseteq Nat \X Event
        BY <1>3, ElementOfSeq, LenProperties DEF EventsSince
    <2> QED BY <1>2, <1>4, <2>1 DEF Fetch, TypeOK
<1>5. CASE Deliver
    <2>1. PICK p \in batch :
            /\ cursor' = IF p[2].seq > cursor THEN p[2].seq ELSE cursor
            /\ lastId' = p[2].seq
            /\ seen' = seen \cup {p}
            /\ ui' = Reduce(ui, p[2].type)
            /\ waiting' = (waiting /\ ~(p[2].type \in TerminalEvents))
            /\ open' = ~(p[2].type \in TerminalEvents)
            /\ batch' = IF p[2].type \in TerminalEvents THEN {} ELSE batch \ {p}
        BY <1>5 DEF Deliver
    <2>2. p[2] \in Event /\ p[2].seq \in Nat
        BY DEF TypeOK, Event
    <2>3. cursor' \in Nat /\ lastId' \in Nat
        BY <2>1, <2>2 DEF TypeOK
    <2>4. seen' \subseteq Nat \X Event
        BY <2>1, <2>2 DEF TypeOK
    <2>5. batch' \subseteq Nat \X Event
        BY <2>1 DEF TypeOK
    <2>6. ui' \in RunStates
        BY <2>1 DEF TypeOK, Reduce, RunStates
    <2>7. waiting' \in BOOLEAN /\ open' \in BOOLEAN
        BY <2>1, Zenon DEF TypeOK
    <2>8. drops' \in 0..MaxDrops
        BY <1>5 DEF Deliver, TypeOK
    <2> QED BY <1>2, <2>3, <2>4, <2>5, <2>6, <2>7, <2>8 DEF TypeOK
<1>6. CASE Drop
    <2>1. drops' \in 0..MaxDrops
        BY <1>6, StreamAssumption DEF Drop, TypeOK
    <2>2. /\ open' = FALSE /\ batch' = {}
          /\ UNCHANGED <<cursor, lastId, seen, ui, waiting>>
        BY <1>6 DEF Drop
    <2> QED BY <1>2, <2>1, <2>2 DEF TypeOK
<1>7. CASE Reconnect
    BY <1>2, <1>7 DEF Reconnect, TypeOK
<1> QED BY <1>4, <1>5, <1>6, <1>7

\* A step of the worker takes nothing from what the stream has delivered: what it
\* adds of the planner's is numbered beyond every id the browser was given.
LEMMA WorkerDelivers ==
    ASSUME StreamInv, Numbered', Effect, TypeOK', UNCHANGED streamVars
    PROVE  Delivered'
<1>1. UNCHANGED <<open, cursor, batch, lastId, seen>>
    BY DEF streamVars
<1>2. CASE phase' = "lost" /\ events' = <<>>
    <2>1. Len(events') = 0 /\ ~Running'
        BY <1>2 DEF Running
    <2>2. \A k \in 1..Len(events') : FALSE
        BY <2>1
    <2> QED BY <1>1, <1>2, <2>1, <2>2 DEF StreamInv, Delivered
<1>3. CASE /\ phase # "lost" /\ phase' # "lost"
           /\ Extended(events, seq, events', seq', Running)
           /\ Running' => Running /\ seq <= seq'
    <2>1. /\ seq \in Nat /\ seq' \in Nat /\ cursor \in Nat /\ lastId \in Nat
          /\ events \in Seq(Event) /\ events' \in Seq(Event)
          /\ batch \subseteq Nat \X Event
        BY DEF StreamInv, TypeOK, RunTypeOK
    <2>2. Len(events) \in Nat /\ Len(events') \in Nat
        BY <2>1, LenProperties
    <2>3. ASSUME NEW k \in 1..Len(events'), Planner(events', seq', k), k > Len(events)
          PROVE  cursor < events'[k].seq /\ lastId < events'[k].seq
        <3>1. Running /\ seq <= events'[k].seq
            BY <1>3, <2>3 DEF Extended
        <3>2. lastId < seq /\ cursor < seq
            BY <3>1 DEF StreamInv, Delivered
        <3>3. events'[k].seq \in Nat
            BY <2>1, NumbersAreNat
        <3> QED BY <2>1, <3>1, <3>2, <3>3
    <2>4. ASSUME NEW k \in 1..Len(events'), Planner(events', seq', k), k <= Len(events)
          PROVE  /\ k \in 1..Len(events)
                 /\ events'[k] = events[k] /\ Planner(events, seq, k)
        <3>1. k \in 1..Len(events)
            BY <2>2, <2>4
        <3> QED BY <1>3, <2>4, <3>1 DEF Extended
    <2>5. \A k \in 1..Len(events') :
            Planner(events', seq', k) /\ events'[k].seq <= lastId => <<k, events'[k]>> \in seen
        <3> SUFFICES ASSUME NEW k \in 1..Len(events'),
                            Planner(events', seq', k), events'[k].seq <= lastId
                     PROVE  <<k, events'[k]>> \in seen
            OBVIOUS
        <3>1. events'[k].seq \in Nat
            BY <2>1, NumbersAreNat
        <3>2. k <= Len(events)
            BY <2>1, <2>2, <2>3, <3>1
        <3> QED BY <2>4, <3>2 DEF StreamInv, Delivered
    <2>6. \A k \in 1..Len(events') :
            open /\ Planner(events', seq', k) /\ events'[k].seq <= cursor =>
                <<k, events'[k]>> \in seen
        <3> SUFFICES ASSUME NEW k \in 1..Len(events'),
                            open, Planner(events', seq', k), events'[k].seq <= cursor
                     PROVE  <<k, events'[k]>> \in seen
            OBVIOUS
        <3>1. events'[k].seq \in Nat
            BY <2>1, NumbersAreNat
        <3>2. k <= Len(events)
            BY <2>1, <2>2, <2>3, <3>1
        <3> QED BY <2>4, <3>2 DEF StreamInv, Delivered
    <2>7. \A p \in batch : p[1] \in 1..Len(events) /\ p[2] = events[p[1]]
        BY <1>3 DEF StreamInv, Delivered
    <2>8. \A p \in batch : \A k \in 1..Len(events') :
            Planner(events', seq', k) /\ cursor < events'[k].seq /\ k <= p[1] =>
                <<k, events'[k]>> \in batch
        <3> SUFFICES ASSUME NEW p \in batch, NEW k \in 1..Len(events'),
                            Planner(events', seq', k), cursor < events'[k].seq,
                            k <= p[1]
                     PROVE  <<k, events'[k]>> \in batch
            OBVIOUS
        <3>1. k <= Len(events)
            BY <2>2, <2>7
        <3> QED BY <2>4, <3>1 DEF StreamInv, Delivered
    <2>9. \A p \in batch : p[1] \in 1..Len(events') /\ p[2] = events'[p[1]]
        BY <1>3, <2>2, <2>7 DEF Extended
    <2>10. Running' => lastId < seq' /\ cursor < seq'
        BY <1>3, <2>1 DEF StreamInv, Delivered
    <2>11. ~open => batch = {}
        BY DEF StreamInv, Delivered
    <2> QED BY <1>1, <2>5, <2>6, <2>8, <2>9, <2>10, <2>11 DEF Delivered
<1> QED BY <1>2, <1>3 DEF Effect

\* Writing the first of the fetched events brings the browser up to its number: by
\* the store's order nothing of the planner's up to that number comes after it.
LEMMA DeliverDelivers ==
    ASSUME StreamInv, Deliver
    PROVE  Delivered'
<1>1. PICK p \in batch :
        /\ First(p[1])
        /\ cursor' = IF p[2].seq > cursor THEN p[2].seq ELSE cursor
        /\ lastId' = p[2].seq
        /\ seen' = seen \cup {p}
        /\ open' = ~(p[2].type \in TerminalEvents)
        /\ batch' = IF p[2].type \in TerminalEvents THEN {} ELSE batch \ {p}
    BY DEF Deliver
<1>2. open /\ UNCHANGED runVars
    BY DEF Deliver
<1>3. UNCHANGED <<phase, seq, events>>
    BY <1>2 DEF runVars
<1>4. /\ seq \in Nat /\ cursor \in Nat /\ lastId \in Nat
      /\ events \in Seq(Event) /\ batch \subseteq Nat \X Event
    BY DEF StreamInv, TypeOK, RunTypeOK
<1>5. p[1] \in Nat /\ p[2] \in Event /\ p[2].seq \in Nat /\ p = <<p[1], p[2]>>
    BY <1>4 DEF Event
<1>6. CASE phase = "lost"
    <2>1. events' = <<>> /\ ~Running'
        BY <1>3, <1>6 DEF StreamInv, Numbered, Running
    <2>2. \A k \in 1..Len(events') : FALSE
        BY <2>1
    <2>3. ~open' => batch' = {}
        BY <1>1, Zenon
    <2> QED BY <1>3, <1>6, <2>1, <2>2, <2>3 DEF Delivered
<1>7. CASE phase # "lost"
    <2>1. p[1] \in 1..Len(events) /\ p[2] = events[p[1]]
        BY <1>7 DEF StreamInv, Delivered
    <2>2. \A k \in 1..Len(events) : events[k].seq \in Nat
        BY <1>4, NumbersAreNat
    <2>3. ASSUME NEW k \in 1..Len(events), Planner(events, seq, k),
                 events[k].seq <= p[2].seq
          PROVE  <<k, events[k]>> \in seen'
        <3>1. k <= p[1]
            BY <2>1, <2>3 DEF StreamInv, Numbered, Ordered
        <3>2. CASE events[k].seq <= cursor
            <4>1. <<k, events[k]>> \in seen
                BY <1>2, <2>3, <3>2 DEF StreamInv, Delivered
            <4> QED BY <1>1, <4>1
        <3>3. CASE cursor < events[k].seq
            <4>1. <<k, events[k]>> \in batch
                BY <2>3, <3>1, <3>3 DEF StreamInv, Delivered
            <4>2. p[1] <= k
                BY <1>1, <4>1 DEF First
            <4>3. k = p[1]
                BY <1>5, <3>1, <4>2
            <4>4. <<k, events[k]>> = p
                BY <1>5, <2>1, <4>3
            <4> QED BY <1>1, <4>4
        <3> QED BY <1>4, <2>2, <3>2, <3>3
    <2>4. \A k \in 1..Len(events) :
            Planner(events, seq, k) /\ events[k].seq <= lastId' => <<k, events[k]>> \in seen'
        BY <1>1, <2>3
    <2>5. \A k \in 1..Len(events) :
            open' /\ Planner(events, seq, k) /\ events[k].seq <= cursor' =>
                <<k, events[k]>> \in seen'
        <3> SUFFICES ASSUME NEW k \in 1..Len(events), Planner(events, seq, k),
                            events[k].seq <= cursor'
                     PROVE  <<k, events[k]>> \in seen'
            OBVIOUS
        <3>1. CASE events[k].seq <= cursor
            <4>1. <<k, events[k]>> \in seen
                BY <1>2, <3>1 DEF StreamInv, Delivered
            <4> QED BY <1>1, <4>1
        <3>2. CASE cursor < events[k].seq
            <4>1. events[k].seq <= p[2].seq
                BY <1>1, <1>4, <1>5, <2>2, <3>2
            <4> QED BY <2>3, <4>1
        <3> QED BY <1>4, <2>2, <3>1, <3>2
    <2>6. batch' \subseteq batch \ {p}
        BY <1>1, Zenon
    <2>7. \A q \in batch' : \A k \in 1..Len(events) :
            Planner(events, seq, k) /\ cursor' < events[k].seq /\ k <= q[1] =>
                <<k, events[k]>> \in batch'
        <3> SUFFICES ASSUME NEW q \in batch', NEW k \in 1..Len(events),
                            Planner(events, seq, k), cursor' < events[k].seq,
                            k <= q[1]
                     PROVE  <<k, events[k]>> \in batch'
            OBVIOUS
        <3>1. cursor < events[k].seq /\ p[2].seq < events[k].seq
            BY <1>1, <1>4, <1>5, <2>2
        <3>2. <<k, events[k]>> \in batch
            BY <2>6, <3>1 DEF StreamInv, Delivered
        <3>3. <<k, events[k]>> # p
            BY <1>5, <2>2, <3>1
        <3>4. batch' = batch \ {p}
            BY <1>1
        <3> QED BY <3>2, <3>3, <3>4
    <2>8. \A q \in batch' : q[1] \in 1..Len(events) /\ q[2] = events[q[1]]
        BY <1>7, <2>6 DEF StreamInv, Delivered
    <2>9. Running => lastId' < seq /\ cursor' < seq
        <3> SUFFICES ASSUME Running
                     PROVE  lastId' < seq /\ cursor' < seq
            OBVIOUS
        <3>1. p[2].seq < seq
            BY <2>1 DEF StreamInv, Numbered, AllBelow
        <3>2. cursor < seq
            BY DEF StreamInv, Delivered
        <3> QED BY <1>1, <3>1, <3>2
    <2>10. ~open' => batch' = {}
        BY <1>1, Zenon
    <2>11. Running' <=> Running
        BY <1>3 DEF Running
    <2> QED BY <1>3, <2>4, <2>5, <2>7, <2>8, <2>9, <2>10, <2>11 DEF Delivered, Planner
<1> QED BY <1>6, <1>7

\* Fetching, losing the connection and reconnecting leave what was delivered.
LEMMA StreamDelivers ==
    ASSUME StreamInv, Fetch \/ Drop \/ Reconnect
    PROVE  Delivered'
<1>1. UNCHANGED <<phase, seq, events, lastId, seen>>
    BY DEF Fetch, Drop, Reconnect, runVars
<1>2. Running' <=> Running
    BY <1>1 DEF Running
<1>3. events \in Seq(Event)
    BY DEF StreamInv, TypeOK, RunTypeOK
<1>4. CASE Fetch
    <2>1. open /\ batch' = EventsSince(cursor) /\ UNCHANGED <<open, cursor>>
        BY <1>4 DEF Fetch
    <2>2. \A q \in batch' : q[1] \in 1..Len(events) /\ q[2] = events[q[1]]
        BY <1>3, <2>1, LenProperties DEF EventsSince
    <2>3. \A k \in 1..Len(events) : cursor < events[k].seq => <<k, events[k]>> \in batch'
        <3> SUFFICES ASSUME NEW k \in 1..Len(events), cursor < events[k].seq
                     PROVE  <<k, events[k]>> \in batch'
            OBVIOUS
        <3>1. events[k].seq \in Nat /\ cursor \in Nat
            BY <1>3, NumbersAreNat DEF StreamInv, TypeOK
        <3>2. k \in {j \in DOMAIN events : events[j].seq > cursor}
            BY <1>3, <3>1, LenProperties
        <3> QED BY <2>1, <3>2 DEF EventsSince
    <2> QED BY <1>1, <1>2, <2>1, <2>2, <2>3 DEF StreamInv, Delivered, Planner
<1>5. CASE Drop
    BY <1>1, <1>2, <1>5 DEF Drop, StreamInv, Delivered, Planner
<1>6. CASE Reconnect
    <2>1. batch = {} /\ UNCHANGED batch /\ cursor' = lastId
        BY <1>6 DEF Reconnect, StreamInv, Delivered
    <2> QED BY <1>1, <1>2, <1>6, <2>1 DEF StreamInv, Delivered, Planner
<1> QED BY <1>4, <1>5, <1>6

-----------------------------------------------------------------------------
\* A run that has not begun numbers from one.
LEMMA QueuedStart ==
    ASSUME Numbered, phase = "queued" => seq = 1, [RunNext]_runVars
    PROVE  phase' = "queued" => seq' = 1
<1>1. CASE \E c \in calls : ToolAnswers(c) \/ ToolFails(c)
    BY <1>1 DEF Numbered, ToolAnswers, ToolFails
<1>2. CASE \/ Begin \/ ToolCall \/ Score \/ Project \/ Fail \/ Restart
    BY <1>2 DEF Begin, ToolCall, Score, Project, Conclude, Fail, Restart
<1>3. CASE \/ VerifyRequested
           \/ \E i \in DOMAIN verifies :
                \/ VerifyBegins(i)
                \/ \E recovered \in BOOLEAN : VerifyReports(i, recovered)
                \/ VerifyFails(i)
    BY <1>3 DEF VerifyRequested, VerifyBegins, VerifyReports, VerifyFails
<1>4. CASE UNCHANGED runVars
    BY <1>4 DEF runVars
<1> QED BY <1>1, <1>2, <1>3, <1>4 DEF RunNext, Progress

\* Seen from the run alone, every step of the composition is a step of the run or
\* leaves it as it was: the stream and the browser never act on the worker.
LEMMA StepRefines == [Next]_vars => [RunNext]_runVars
BY DEF Next, vars, Fetch, Deliver, Drop, Reconnect

\* The stream's invariant holds initially.
LEMMA InitStream == Init => StreamInv
<1> SUFFICES ASSUME Init PROVE StreamInv
    OBVIOUS
<1>1. Inv /\ Numbered
    BY InitInv, InitNumbered DEF Init
<1>2. TypeOK
    BY <1>1, StreamAssumption DEF Init, TypeOK, Inv, RunStates
<1>3. events = <<>> /\ seq = 1 /\ cursor = 0 /\ lastId = 0 /\ batch = {}
    BY DEF Init, RunInit
<1>4. Delivered
    BY <1>3 DEF Delivered
<1> QED BY <1>1, <1>2, <1>3, <1>4 DEF StreamInv

\* Every step keeps the stream's invariant.
LEMMA NextStream == StreamInv /\ [Next]_vars => StreamInv'
<1> SUFFICES ASSUME StreamInv, [Next]_vars PROVE StreamInv'
    OBVIOUS
<1>1. [RunNext]_runVars
    BY StepRefines
<1>2. Inv'
    BY <1>1, NextInv DEF StreamInv
<1>3. Numbered' /\ Effect
    BY <1>1, NextNumbered DEF StreamInv
<1>4. phase' = "queued" => seq' = 1
    BY <1>1, QueuedStart DEF StreamInv
<1>5. CASE UNCHANGED streamVars
    <2>1. TypeOK'
        BY <1>2, <1>5 DEF StreamInv, TypeOK, Inv, streamVars
    <2>2. Delivered'
        BY <1>3, <1>5, <2>1, WorkerDelivers
    <2> QED BY <1>2, <1>3, <1>4, <2>1, <2>2 DEF StreamInv
<1>6. CASE Fetch \/ Deliver \/ Drop \/ Reconnect
    <2>1. TypeOK'
        BY <1>6, StreamTypes DEF StreamInv
    <2>2. Delivered'
        BY <1>6, DeliverDelivers, StreamDelivers
    <2> QED BY <1>2, <1>3, <1>4, <2>1, <2>2 DEF StreamInv
<1> QED BY <1>5, <1>6 DEF Next, vars

\* The stream's invariant holds throughout.
THEOREM StreamInvCorrect == Spec => []StreamInv
BY InitStream, NextStream, PTL DEF Spec

\* What the composition keeps of each part is well formed, for any number of tool
\* calls, verifications and lost connections (sse.py, agent-worker's main.py and
\* store, useRunStream.ts).
THEOREM StreamTypeCorrect == Spec => []TypeOK
<1>1. StreamInv => TypeOK
    BY DEF StreamInv
<1> QED BY <1>1, StreamInvCorrect, PTL

\* However tool calls overlap and however often the stream breaks and resumes from
\* Last-Event-ID, the browser was given every event of the planner's up to the id it
\* resumes from: the ledger it shows has no hole.
THEOREM LedgerCorrect == Spec => []LedgerHasNoHoles
<1>1. StreamInv => LedgerHasNoHoles
    <2> SUFFICES ASSUME StreamInv, NEW k \in PlannerEvents, events[k].seq <= lastId
                 PROVE  <<k, events[k]>> \in seen
        BY DEF LedgerHasNoHoles, Given
    <2>1. k \in 1..Len(events)
        BY LenProperties DEF PlannerEvents, StreamInv, TypeOK, RunTypeOK
    <2>2. Planner(events, seq, k)
        BY DEF PlannerEvents, Planner
    <2> QED BY <2>1, <2>2 DEF StreamInv, Delivered
<1> QED BY <1>1, StreamInvCorrect, PTL

-----------------------------------------------------------------------------
(* The state that is shown *)

\* The run has neither failed nor been lost: its events are the planner's and the
\* verifications'.
Sound == phase \notin {"failed", "lost"}

\* Among the first k events is one numbered n that says that the run is over.
Closed(ev, n, k) == \E j \in 1..Len(ev) : j <= k /\ ev[j].seq = n /\ ev[j].type = "COMPLETED"

\* The k-th event is a verification's: it ends the run, or it is numbered next to
\* the end of the investigation or of an earlier verification.
Follows(ev, n, k) ==
    /\ n < ev[k].seq
    /\ \/ ev[k].type = "COMPLETED"
       \/ ev[k].seq = n + 1
       \/ Closed(ev, ev[k].seq - 1, k - 1)

\* A verification may number its events on from m: the investigation or an earlier
\* verification ended with that number.
Base(ev, n, m) == m = n \/ (n < m /\ Closed(ev, m, Len(ev)))

\* How verifications number their events, however they overlap.
Chained ==
    /\ Sound => \A k \in 1..Len(events) : Planner(events, seq, k) \/ Follows(events, seq, k)
    /\ phase = "concluded" =>
         /\ Base(events, seq, stepCount)
         /\ \A i \in DOMAIN verifies :
              verifies[i].status # "queued" => Base(events, seq, verifies[i].seq - 1)

\* What the last event of a run says of the state the run is in.
Says(type, st) ==
    \/ type = "APPROVAL_REQUIRED" /\ st = "AWAITING_APPROVAL"
    \/ type = "COMPLETED" /\ st \in {"COMPLETED", "DEGRADED"}
    \/ type = "DEGRADED" /\ st = "DEGRADED"

Told ==
    phase = "concluded" /\ (\A i \in DOMAIN verifies : ~VerifyLive(i)) =>
        events # <<>> /\ Says(events[Len(events)].type, state)

\* The browser was given p, and nothing from beyond p's place in the store.
LastGiven(p) == p \in seen /\ \A q \in seen : q[1] <= p[1]

\* The stream only goes forward in the store: what it has fetched or may still fetch
\* lies behind all that the browser was given; and before it writes anything it has
\* written every end of the run that it fetched from before.  The browser shows the
\* last that it was given.
Forward ==
  Sound =>
    /\ \A p \in seen : p[1] \in 1..Len(events) /\ p[2] = events[p[1]]
    /\ open => lastId <= cursor
    /\ \A k \in 1..Len(events) : lastId < events[k].seq => \A p \in seen : p[1] < k
    /\ \A q \in batch : lastId <= q[2].seq /\ \A p \in seen : p[1] < q[1]
    /\ \A q \in batch : \A k \in 1..Len(events) :
         k < q[1] /\ events[k].type = "COMPLETED" /\ q[2].seq <= events[k].seq =>
             <<k, events[k]>> \in batch
    /\ \A p \in seen : LastGiven(p) => ui = Reduce(ui, p[2].type)

\* The inductive invariant: the composition's, and how verifications are numbered,
\* what the last event says, and that the stream goes forward.
ShownInv == StreamInv /\ Chained /\ Told /\ Forward

\* Events y behind events x.
LEMMA Joined ==
    ASSUME NEW x \in Seq(Event), NEW y \in Seq(Event)
    PROVE  /\ Len(x \o y) = Len(x) + Len(y)
           /\ \A k \in 1..Len(x) : (x \o y)[k] = x[k]
           /\ \A k \in 1..Len(x \o y) : k > Len(x) => (x \o y)[k] = y[k - Len(x)]
BY ConcatProperties, LenProperties

\* What is said of the first events stays true when events are added.
LEMMA ChainStays ==
    ASSUME NEW ev \in Seq(Event), NEW ew \in Seq(Event), NEW n \in Nat,
           Len(ev) <= Len(ew), \A k \in 1..Len(ev) : ew[k] = ev[k]
    PROVE  /\ \A m, k \in Int : Closed(ev, m, k) => Closed(ew, m, k)
           /\ \A k \in 1..Len(ev) : Follows(ev, n, k) => Follows(ew, n, k)
           /\ \A m \in Int : Base(ev, n, m) => Base(ew, n, m)
<1>1. Len(ev) \in Nat /\ Len(ew) \in Nat
    BY LenProperties
<1>2. \A m, k \in Int : Closed(ev, m, k) => Closed(ew, m, k)
    BY <1>1 DEF Closed
<1>3. \A k \in 1..Len(ev) : ev[k].seq \in Nat
    BY NumbersAreNat
<1>4. \A k \in 1..Len(ev) : Follows(ev, n, k) => Follows(ew, n, k)
    <2> SUFFICES ASSUME NEW k \in 1..Len(ev), Follows(ev, n, k)
                 PROVE  Follows(ew, n, k)
        OBVIOUS
    <2>1. ew[k] = ev[k] /\ ev[k].seq - 1 \in Int /\ k - 1 \in Int
        BY <1>3
    <2>2. Closed(ev, ev[k].seq - 1, k - 1) => Closed(ew, ev[k].seq - 1, k - 1)
        BY <1>2, <2>1
    <2> QED BY <2>1, <2>2, Zenon DEF Follows
<1>5. \A m \in Int : Base(ev, n, m) => Base(ew, n, m)
    <2> SUFFICES ASSUME NEW m \in Int, Closed(ev, m, Len(ev))
                 PROVE  Closed(ew, m, Len(ew))
        BY DEF Base
    <2> QED BY <1>1 DEF Closed
<1> QED BY <1>2, <1>4, <1>5

-----------------------------------------------------------------------------
\* While the investigation runs, all events are the planner's, and so are those that
\* it adds.
LEMMA PlannerEmits ==
    ASSUME Inv, Numbered, Chained, Running, NEW s \in Seq(Event),
           \A i \in 1..Len(s) : s[i].seq = seq + (i - 1) /\ s[i].type # "ERROR",
           events' = events \o s, seq' = seq + Len(s)
    PROVE  \A k \in 1..Len(events') : Planner(events', seq', k)
<1>1. /\ events \in Seq(Event) /\ seq \in Nat /\ Len(s) \in Nat /\ Len(events) \in Nat
      /\ Len(events') = Len(events) + Len(s)
      /\ \A k \in 1..Len(events) : events'[k] = events[k]
      /\ \A k \in 1..Len(events') : k > Len(events) => events'[k] = s[k - Len(events)]
    BY ConcatProperties, LenProperties DEF Inv, RunTypeOK
<1>2. \A k \in 1..Len(events) : Planner(events, seq, k) /\ events[k].seq \in Nat
    <2>1. \A k \in 1..Len(events) : events[k].seq \in Nat
        BY <1>1, NumbersAreNat
    <2>2. Sound /\ AllBelow(events, seq)
        BY DEF Running, Sound, Numbered
    <2> QED BY <1>1, <2>1, <2>2 DEF Chained, AllBelow, Follows
<1> SUFFICES ASSUME NEW k \in 1..Len(events') PROVE Planner(events', seq', k)
    OBVIOUS
<1>3. CASE k <= Len(events)
    <2>1. k \in 1..Len(events) /\ events'[k] = events[k]
        BY <1>1, <1>3
    <2> QED BY <1>1, <1>2, <2>1 DEF Planner
<1>4. CASE k > Len(events)
    <2>1. k - Len(events) \in 1..Len(s) /\ events'[k] = s[k - Len(events)]
        BY <1>1, <1>4
    <2>2. events'[k].seq = seq + (k - Len(events) - 1) /\ events'[k].type # "ERROR"
        BY <2>1
    <2> QED BY <1>1, <2>1, <2>2 DEF Planner
<1> QED BY <1>1, <1>3, <1>4

\* The end of an investigation: the last event says what the document says.
LEMMA ConcludeShown ==
    ASSUME Inv, Numbered, Chained, Running, NEW before \in Seq(Event),
           NEW warranted \in BOOLEAN,
           \A i \in 1..Len(before) : before[i].seq = seq + (i - 1) /\ before[i].type # "ERROR",
           Conclude(before, warranted)
    PROVE  Chained' /\ Told'
<1> DEFINE n == seq + Len(before)
           type == IF warranted THEN "APPROVAL_REQUIRED" ELSE "COMPLETED"
           last == At(n, type)
           s == before \o <<last>>
<1>1. seq \in Nat /\ events \in Seq(Event) /\ Len(before) \in Nat /\ n \in Nat
    BY LenProperties DEF Inv, RunTypeOK
<1>2. /\ phase' = "concluded"
      /\ events' = events \o before \o <<last>>
      /\ state' = IF warranted THEN "AWAITING_APPROVAL" ELSE "COMPLETED"
      /\ seq' = n + 1 /\ stepCount' = n + 1
      /\ UNCHANGED verifies
    BY DEF Conclude
<1>3. Says(type, state')
    BY <1>2 DEF Says
<1>4. type \in EventTypes \ {"ERROR"}
    BY DEF EventTypes
<1> HIDE DEF type
<1>5. last \in Event /\ last.seq = n /\ last.type = type
    BY <1>1, <1>4 DEF At, Event
<1> HIDE DEF last
<1>6. <<last>> \in Seq(Event) /\ Len(<<last>>) = 1 /\ <<last>>[1] = last
    BY <1>5
<1>7. /\ s \in Seq(Event) /\ Len(s) = Len(before) + 1
      /\ \A i \in 1..Len(before) : s[i] = before[i]
      /\ s[Len(before) + 1] = last
    BY <1>1, <1>6, ConcatProperties
<1>8. events' = events \o s
    <2>1. (events \o before) \o <<last>> = events \o (before \o <<last>>)
        BY <1>1, <1>6, Associative
    <2>2. events' = (events \o before) \o <<last>>
        BY <1>2, Zenon
    <2> QED BY <2>1, <2>2, Zenon
<1> HIDE DEF s
<1>9. \A i \in 1..Len(s) : s[i].seq = seq + (i - 1) /\ s[i].type # "ERROR"
    <2> SUFFICES ASSUME NEW i \in 1..Len(s)
                 PROVE  s[i].seq = seq + (i - 1) /\ s[i].type # "ERROR"
        OBVIOUS
    <2>1. CASE i \in 1..Len(before)
        BY <1>7, <2>1
    <2>2. CASE i = Len(before) + 1
        <3>1. s[i] = last
            BY <1>7, <2>2
        <3> QED BY <1>1, <1>4, <1>5, <2>2, <3>1
    <2> QED BY <1>1, <1>7, <2>1, <2>2
<1>10. seq' = seq + Len(s)
    BY <1>1, <1>2, <1>7
<1>11. \A k \in 1..Len(events') : Planner(events', seq', k)
    BY <1>7, <1>8, <1>9, <1>10, PlannerEmits
<1>12. DOMAIN verifies = {}
    BY DEF Numbered, Running
<1>13. Chained'
    BY <1>2, <1>11, <1>12 DEF Chained, Base
<1>14. events' # <<>> /\ events'[Len(events')] = last
    <2>1. /\ Len(events') = Len(events) + Len(s) /\ Len(events) \in Nat
          /\ \A k \in 1..Len(events') : k > Len(events) => events'[k] = s[k - Len(events)]
        <3>1. s \in Seq(Event) /\ events \in Seq(Event)
            BY <1>1, <1>7
        <3> QED BY <1>8, <3>1, ConcatProperties, LenProperties
    <2>2. Len(events') \in 1..Len(events') /\ Len(events') > Len(events)
        BY <1>1, <1>7, <2>1
    <2>3. events'[Len(events')] = s[Len(events') - Len(events)]
        BY <2>1, <2>2
    <2>4. Len(events') - Len(events) = Len(before) + 1
        BY <1>1, <1>7, <2>1
    <2> QED BY <1>7, <2>2, <2>3, <2>4
<1>15. Told'
    BY <1>3, <1>5, <1>14 DEF Told
<1> QED BY <1>13, <1>15

\* Every step of the investigation task keeps the chain.
LEMMA InvestigationShown ==
    ASSUME Inv, Numbered, Chained, phase = "queued" => seq = 1,
           \/ Begin \/ ToolCall \/ Score \/ Project \/ Fail
           \/ \E c \in calls : ToolAnswers(c) \/ ToolFails(c)
    PROVE  Chained' /\ Told'
<1>1. seq \in Nat /\ events \in Seq(Event)
    BY DEF Inv, RunTypeOK
<1>2. ASSUME NEW type \in EventTypes \ {"ERROR"}, Running, Running',
             events' = Append(events, At(seq, type)), seq' = seq + 1
      PROVE  Chained' /\ Told'
    <2> DEFINE s == <<At(seq, type)>>
    <2>1. /\ events' = events \o s
          /\ s \in Seq(Event) /\ Len(s) = 1 /\ s[1] = [seq |-> seq, type |-> type]
        BY <1>1, <1>2, EmitOne
    <2> HIDE DEF s
    <2>2. \A i \in 1..Len(s) : s[i].seq = seq + (i - 1) /\ s[i].type # "ERROR"
        BY <1>1, <2>1
    <2>3. seq' = seq + Len(s)
        BY <1>2, <2>1
    <2>4. \A k \in 1..Len(events') : Planner(events', seq', k)
        BY <1>2, <2>1, <2>2, <2>3, PlannerEmits
    <2>5. phase' # "concluded"
        BY <1>2 DEF Running
    <2> QED BY <2>4, <2>5 DEF Chained, Told
<1>3. CASE Begin
    BY <1>2, <1>3 DEF Begin, Running, EventTypes
<1>4. CASE ToolCall
    BY <1>2, <1>4 DEF ToolCall, Running, EventTypes
<1>5. CASE Score
    <2>1. CASE \E warranted \in BOOLEAN :
                  Conclude(<<At(seq, "HYPOTHESIS"), At(seq + 1, "IMPACT")>>, warranted)
        <3> DEFINE s == <<At(seq, "HYPOTHESIS"), At(seq + 1, "IMPACT")>>
        <3>1. At(seq, "HYPOTHESIS") \in Event /\ At(seq + 1, "IMPACT") \in Event
            BY <1>1, AtType DEF EventTypes
        <3>2. s \in Seq(Event) /\ Len(s) = 2
            BY <3>1
        <3>3. /\ s[1].seq = seq + (1 - 1) /\ s[2].seq = seq + (2 - 1)
              /\ s[1].type # "ERROR" /\ s[2].type # "ERROR"
            BY <1>1 DEF At
        <3>4. Running
            BY <1>5 DEF Score, Running
        <3>5. PICK warranted \in BOOLEAN : Conclude(s, warranted)
            BY <2>1
        <3> HIDE DEF s
        <3>6. \A i \in 1..Len(s) : s[i].seq = seq + (i - 1) /\ s[i].type # "ERROR"
            <4> SUFFICES ASSUME NEW i \in 1..Len(s)
                         PROVE  s[i].seq = seq + (i - 1) /\ s[i].type # "ERROR"
                OBVIOUS
            <4>1. i = 1 \/ i = 2
                BY <3>2
            <4> QED BY <3>3, <4>1
        <3> QED BY <3>2, <3>4, <3>5, <3>6, ConcludeShown
    <2>2. CASE /\ phase' = "projecting"
               /\ events' = Append(events, At(seq, "HYPOTHESIS"))
               /\ seq' = seq + 1
        BY <1>2, <1>5, <2>2 DEF Score, Running, EventTypes
    <2> QED BY <1>5, <2>1, <2>2 DEF Score
<1>6. CASE Project
    <2> DEFINE s == <<At(seq, "IMPACT")>>
    <2>1. s \in Seq(Event) /\ Len(s) = 1 /\ s[1] = [seq |-> seq, type |-> "IMPACT"]
        BY <1>1, EmitOne DEF EventTypes
    <2>2. Running
        BY <1>6 DEF Project, Running
    <2>3. PICK warranted \in BOOLEAN : Conclude(s, warranted)
        BY <1>6 DEF Project
    <2> HIDE DEF s
    <2>4. \A i \in 1..Len(s) : s[i].seq = seq + (i - 1) /\ s[i].type # "ERROR"
        BY <1>1, <2>1
    <2> QED BY <2>1, <2>2, <2>3, <2>4, ConcludeShown
<1>7. CASE Fail
    BY <1>7 DEF Fail, Chained, Told, Sound
<1>8. CASE \E c \in calls : ToolAnswers(c) \/ ToolFails(c)
    <2>1. phase = "gathering"
        BY <1>8 DEF Numbered
    <2>2. PICK c \in calls : ToolAnswers(c) \/ ToolFails(c)
        BY <1>8
    <2>3. CASE ToolAnswers(c)
        BY <1>2, <2>1, <2>3 DEF ToolAnswers, Running, EventTypes
    <2>4. CASE ToolFails(c)
        BY <1>2, <2>1, <2>4 DEF ToolFails, Running, EventTypes
    <2> QED BY <2>2, <2>3, <2>4
<1> QED BY <1>3, <1>4, <1>5, <1>6, <1>7, <1>8

\* Every step of the verifications keeps the chain: one that begins is numbered next
\* to the last end, and one that reports adds an end next to its verdict.
LEMMA VerificationShown ==
    ASSUME Inv, Numbered, Chained,
           \/ VerifyRequested
           \/ \E i \in DOMAIN verifies :
                \/ VerifyBegins(i)
                \/ \E recovered \in BOOLEAN : VerifyReports(i, recovered)
                \/ VerifyFails(i)
    PROVE  Chained' /\ Told'
<1>1. /\ seq \in Nat /\ stepCount \in Nat /\ events \in Seq(Event)
      /\ verifies \in Seq(Verify) /\ DOMAIN verifies = 1..Len(verifies)
      /\ Len(events) \in Nat /\ Len(verifies) \in Nat
    BY LenProperties DEF Inv, RunTypeOK
<1>2. phase = "concluded"
    BY DEF VerifyRequested, Numbered
<1>3. /\ \A k \in 1..Len(events) : Planner(events, seq, k) \/ Follows(events, seq, k)
      /\ Base(events, seq, stepCount)
      /\ \A i \in DOMAIN verifies :
           verifies[i].status # "queued" => Base(events, seq, verifies[i].seq - 1)
    BY <1>2 DEF Chained, Sound
<1>4. CASE VerifyRequested
    <2> DEFINE v == [status |-> "queued", seq |-> 0]
    <2>1. /\ UNCHANGED <<phase, seq, stepCount, events>>
          /\ verifies' = Append(verifies, v)
        BY <1>4 DEF VerifyRequested
    <2>2. v \in Verify /\ v.status = "queued"
        BY DEF Verify
    <2> HIDE DEF v
    <2>3. /\ DOMAIN verifies' = 1..(Len(verifies) + 1)
          /\ \A j \in 1..Len(verifies) : verifies'[j] = verifies[j]
          /\ verifies'[Len(verifies) + 1] = v
        BY <1>1, <2>1, <2>2, AppendProperties, LenProperties
    <2>4. \A i \in DOMAIN verifies' :
            verifies'[i].status # "queued" => Base(events, seq, verifies'[i].seq - 1)
        <3> SUFFICES ASSUME NEW i \in DOMAIN verifies', verifies'[i].status # "queued"
                     PROVE  Base(events, seq, verifies'[i].seq - 1)
            OBVIOUS
        <3>1. i \in 1..Len(verifies)
            BY <1>1, <2>2, <2>3
        <3> QED BY <1>1, <1>3, <2>3, <3>1
    <2>5. Chained'
        BY <1>3, <2>1, <2>4 DEF Chained, Planner, Follows, Base, Closed
    <2>6. \E i \in DOMAIN verifies' : verifies'[i].status = "queued"
        <3>1. Len(verifies) + 1 \in 1..(Len(verifies) + 1)
            BY <1>1
        <3> QED BY <2>2, <2>3, <3>1
    <2> QED BY <2>5, <2>6 DEF Told, VerifyLive
<1>5. ASSUME NEW i \in DOMAIN verifies, NEW v \in Verify,
             verifies' = [verifies EXCEPT ![i] = v],
             UNCHANGED <<phase, seq>>, NEW s \in Seq(Event), events' = events \o s,
             Base(events', seq, stepCount'), Base(events', seq, v.seq - 1),
             \A k \in 1..Len(events') : k > Len(events) => Follows(events', seq, k)
      PROVE  Chained'
    <2>1. /\ Len(events') = Len(events) + Len(s) /\ Len(s) \in Nat /\ events' \in Seq(Event)
          /\ \A k \in 1..Len(events) : events'[k] = events[k]
        BY <1>1, <1>5, ConcatProperties, LenProperties
    <2>2. /\ \A k \in 1..Len(events) : Follows(events, seq, k) => Follows(events', seq, k)
          /\ \A m \in Int : Base(events, seq, m) => Base(events', seq, m)
        BY <1>1, <2>1, ChainStays
    <2>3. \A k \in 1..Len(events') : Planner(events', seq, k) \/ Follows(events', seq, k)
        <3> SUFFICES ASSUME NEW k \in 1..Len(events')
                     PROVE  Planner(events', seq, k) \/ Follows(events', seq, k)
            OBVIOUS
        <3>1. CASE k > Len(events)
            BY <1>5, <3>1
        <3>2. CASE k <= Len(events)
            <4>1. k \in 1..Len(events) /\ events'[k] = events[k]
                BY <1>1, <2>1, <3>2
            <4> QED BY <1>3, <2>2, <4>1 DEF Planner
        <3> QED BY <1>1, <2>1, <3>1, <3>2
    <2>4. /\ DOMAIN verifies' = DOMAIN verifies
          /\ verifies'[i] = v
          /\ \A j \in DOMAIN verifies : j # i => verifies'[j] = verifies[j]
        BY <1>1, <1>5, MoveType
    <2>5. \A j \in DOMAIN verifies' :
            verifies'[j].status # "queued" => Base(events', seq, verifies'[j].seq - 1)
        <3> SUFFICES ASSUME NEW j \in DOMAIN verifies, verifies'[j].status # "queued", j # i
                     PROVE  Base(events', seq, verifies'[j].seq - 1)
            BY <1>5, <2>4
        <3>1. verifies[j] \in Verify /\ verifies'[j] = verifies[j]
            BY <1>1, <2>4, ElementOfSeq
        <3>2. verifies[j].seq - 1 \in Int
            BY <3>1 DEF Verify
        <3>3. Base(events, seq, verifies[j].seq - 1)
            BY <1>3, <3>1
        <3> QED BY <2>2, <3>1, <3>2, <3>3
    <2> QED BY <1>5, <2>3, <2>5 DEF Chained
<1>6. ASSUME NEW i \in DOMAIN verifies, VerifyBegins(i)
      PROVE  Chained' /\ Told'
    <2> DEFINE v == [status |-> "settling", seq |-> stepCount + 1]
    <2>1. v \in Verify /\ v.seq - 1 = stepCount /\ v.status = "settling"
        BY <1>1 DEF Verify
    <2>2. /\ verifies' = [verifies EXCEPT ![i] = v]
          /\ UNCHANGED <<phase, seq, stepCount, events>>
        BY <1>6 DEF VerifyBegins
    <2> HIDE DEF v
    <2> DEFINE s == <<>>
    <2>3. s \in Seq(Event) /\ events' = events \o s /\ Len(events') = Len(events)
        BY <1>1, <2>2
    <2> HIDE DEF s
    <2>4. Base(events', seq, stepCount') /\ Base(events', seq, v.seq - 1)
        BY <1>3, <2>1, <2>2
    <2>5. \A k \in 1..Len(events') : k > Len(events) => Follows(events', seq, k)
        BY <1>1, <2>3
    <2>6. Chained'
        BY <1>5, <2>1, <2>2, <2>3, <2>4, <2>5
    <2>7. i \in DOMAIN verifies' /\ verifies'[i] = v
        BY <1>1, <2>1, <2>2, MoveType
    <2> QED BY <2>1, <2>6, <2>7 DEF Told, VerifyLive
<1>7. \A i \in DOMAIN verifies : verifies[i].seq \in Nat
    <2> SUFFICES ASSUME NEW i \in DOMAIN verifies PROVE verifies[i].seq \in Nat
        OBVIOUS
    <2>1. verifies[i] \in Verify
        BY <1>1, ElementOfSeq
    <2> QED BY <2>1 DEF Verify
<1>8. ASSUME NEW i \in DOMAIN verifies, verifies[i].status = "settling",
             NEW s \in Seq(Event)
      PROVE  /\ verifies[i].seq \in Nat /\ seq < verifies[i].seq
             /\ [verifies[i] EXCEPT !.status = "over"] \in Verify
             /\ [verifies[i] EXCEPT !.status = "over"].seq = verifies[i].seq
             /\ \/ verifies[i].seq = seq + 1
                \/ Closed(events \o s, verifies[i].seq - 1, Len(events))
             /\ Base(events \o s, seq, verifies[i].seq - 1)
    <2>1. verifies[i] \in Verify
        BY <1>1, ElementOfSeq
    <2> DEFINE n == verifies[i].seq
               ew == events \o s
    <2>2. n \in Nat /\ n - 1 \in Int
        BY <2>1 DEF Verify
    <2>3. Base(events, seq, n - 1)
        BY <1>3, <1>8
    <2>4. /\ ew \in Seq(Event) /\ Len(events) <= Len(ew)
          /\ \A k \in 1..Len(events) : ew[k] = events[k]
        <3>1. Len(ew) = Len(events) + Len(s) /\ Len(s) \in Nat
            BY <1>1, ConcatProperties, LenProperties
        <3> QED BY <1>1, <3>1, ConcatProperties
    <2> HIDE DEF ew
    <2>5. /\ \A m, k \in Int : Closed(events, m, k) => Closed(ew, m, k)
          /\ \A m \in Int : Base(events, seq, m) => Base(ew, seq, m)
        BY <1>1, <2>4, ChainStays
    <2>6. Closed(events, n - 1, Len(events)) => Closed(ew, n - 1, Len(events))
        BY <1>1, <2>2, <2>5
    <2>7. seq < n /\ (n = seq + 1 \/ Closed(events, n - 1, Len(events)))
        BY <1>1, <2>2, <2>3 DEF Base
    <2>8. Base(ew, seq, n - 1)
        BY <2>2, <2>3, <2>5
    <2> QED BY <2>1, <2>2, <2>6, <2>7, <2>8 DEF Verify, ew
<1>9. ASSUME NEW i \in DOMAIN verifies, NEW recovered \in BOOLEAN,
             VerifyReports(i, recovered)
      PROVE  Chained' /\ Told'
    <2> DEFINE n == verifies[i].seq
               s == <<At(n, "VERIFICATION"), At(n + 1, "COMPLETED")>>
               v == [verifies[i] EXCEPT !.status = "over"]
    <2>1. verifies[i].status = "settling"
        BY <1>9 DEF VerifyReports
    <2>2. /\ verifies' = [verifies EXCEPT ![i] = v]
          /\ state' \in {"COMPLETED", "DEGRADED"}
          /\ stepCount' = n + 1
          /\ events' = events \o s
          /\ UNCHANGED <<phase, seq>>
        BY <1>9 DEF VerifyReports
    <2>3. n \in Nat
        BY <1>7
    <2>4. At(n, "VERIFICATION") \in Event /\ At(n + 1, "COMPLETED") \in Event
        BY <2>3, AtType DEF EventTypes
    <2>5. /\ s \in Seq(Event) /\ Len(s) = 2
          /\ s[1].seq = n /\ s[2].seq = n + 1 /\ s[2].type = "COMPLETED"
        BY <2>3, <2>4 DEF At
    <2> HIDE DEF s
    <2>6. /\ seq < n /\ v \in Verify /\ v.seq = n
          /\ n = seq + 1 \/ Closed(events', n - 1, Len(events))
          /\ Base(events', seq, n - 1)
        BY <1>8, <2>1, <2>2, <2>5
    <2> HIDE DEF n, v
    <2>7. /\ Len(events') = Len(events) + 2
          /\ events'[Len(events) + 1] = s[1] /\ events'[Len(events) + 2] = s[2]
        <3>1. /\ Len(events') = Len(events) + Len(s)
              /\ \A k \in 1..Len(events') : k > Len(events) => events'[k] = s[k - Len(events)]
            BY <1>1, <2>2, <2>5, Joined
        <3>2. /\ Len(events) + 1 \in 1..Len(events') /\ Len(events) + 2 \in 1..Len(events')
              /\ Len(events) + 1 - Len(events) = 1 /\ Len(events) + 2 - Len(events) = 2
              /\ Len(events') = Len(events) + 2
            BY <1>1, <2>5, <3>1
        <3>3. events'[Len(events) + 1] = s[Len(events) + 1 - Len(events)]
            BY <1>1, <3>1, <3>2
        <3>4. events'[Len(events) + 2] = s[Len(events) + 2 - Len(events)]
            BY <1>1, <3>1, <3>2
        <3> QED BY <3>2, <3>3, <3>4
    <2>8. \A k \in 1..Len(events') : k > Len(events) => Follows(events', seq, k)
        <3>1. Len(events) + 1 - 1 = Len(events)
            BY <1>1
        <3>2. Follows(events', seq, Len(events) + 1)
            BY <2>5, <2>6, <2>7, <3>1 DEF Follows
        <3>3. Follows(events', seq, Len(events) + 2)
            BY <1>1, <2>3, <2>5, <2>6, <2>7 DEF Follows
        <3>4. \A k \in 1..Len(events') :
                k > Len(events) => k = Len(events) + 1 \/ k = Len(events) + 2
            BY <1>1, <2>7
        <3> QED BY <3>2, <3>3, <3>4
    <2>9. Base(events', seq, stepCount')
        <3>1. Len(events) + 2 \in 1..Len(events') /\ Len(events) + 2 <= Len(events')
            BY <1>1, <2>7
        <3>2. Closed(events', n + 1, Len(events'))
            BY <2>5, <2>7, <3>1 DEF Closed
        <3> QED BY <1>1, <2>2, <2>3, <2>6, <3>2 DEF Base
    <2>10. Chained'
        BY <1>5, <2>2, <2>5, <2>6, <2>8, <2>9
    <2>11. events' # <<>> /\ events'[Len(events')].type = "COMPLETED"
        BY <1>1, <2>5, <2>7
    <2> QED BY <2>2, <2>10, <2>11 DEF Told, Says
<1>10. ASSUME NEW i \in DOMAIN verifies, VerifyFails(i)
      PROVE  Chained' /\ Told'
    <2> DEFINE n == verifies[i].seq
               s == <<At(n, "DEGRADED")>>
               v == [verifies[i] EXCEPT !.status = "over"]
    <2>1. verifies[i].status = "settling"
        BY <1>10 DEF VerifyFails
    <2>2. /\ verifies' = [verifies EXCEPT ![i] = v]
          /\ state' = "DEGRADED"
          /\ events' = Append(events, At(n, "DEGRADED"))
          /\ UNCHANGED <<phase, seq, stepCount>>
        BY <1>10 DEF VerifyFails
    <2>3. n \in Nat
        BY <1>7
    <2>4. /\ events' = events \o s
          /\ s \in Seq(Event) /\ Len(s) = 1
          /\ s[1] = [seq |-> n, type |-> "DEGRADED"]
        BY <1>1, <2>2, <2>3, EmitOne DEF EventTypes
    <2> HIDE DEF s
    <2>5. /\ seq < n /\ v \in Verify /\ v.seq = n
          /\ n = seq + 1 \/ Closed(events', n - 1, Len(events))
          /\ Base(events', seq, n - 1)
        BY <1>8, <2>1, <2>4
    <2> HIDE DEF n, v
    <2>6. Len(events') = Len(events) + 1 /\ events'[Len(events) + 1] = s[1]
        <3>1. /\ Len(events') = Len(events) + Len(s)
              /\ \A k \in 1..Len(events') : k > Len(events) => events'[k] = s[k - Len(events)]
            BY <1>1, <2>4, Joined
        <3>2. /\ Len(events) + 1 \in 1..Len(events')
              /\ Len(events) + 1 - Len(events) = 1
            BY <1>1, <2>4, <3>1
        <3>3. events'[Len(events) + 1] = s[Len(events) + 1 - Len(events)]
            BY <1>1, <3>1, <3>2
        <3> QED BY <2>4, <3>1, <3>2, <3>3
    <2>7. \A k \in 1..Len(events') : k > Len(events) => Follows(events', seq, k)
        <3>1. Len(events) + 1 - 1 = Len(events)
            BY <1>1
        <3>2. Follows(events', seq, Len(events) + 1)
            BY <2>4, <2>5, <2>6, <3>1 DEF Follows
        <3>3. \A k \in 1..Len(events') : k > Len(events) => k = Len(events) + 1
            BY <1>1, <2>6
        <3> QED BY <3>2, <3>3
    <2>8. Base(events', seq, stepCount')
        <3>1. \A k \in 1..Len(events) : events'[k] = events[k]
            BY <1>1, <2>4, ConcatProperties
        <3>2. events' \in Seq(Event) /\ Len(events) <= Len(events')
            BY <1>1, <2>4, <2>6, ConcatProperties
        <3>3. \A m \in Int : Base(events, seq, m) => Base(events', seq, m)
            BY <1>1, <3>1, <3>2, ChainStays
        <3> QED BY <1>1, <1>3, <2>2, <3>3
    <2>9. Chained'
        BY <1>5, <2>2, <2>4, <2>5, <2>7, <2>8
    <2>10. events' # <<>> /\ events'[Len(events')].type = "DEGRADED"
        BY <1>1, <2>4, <2>6
    <2> QED BY <2>2, <2>9, <2>10 DEF Told, Says
<1> QED BY <1>4, <1>6, <1>9, <1>10

\* Every step of the worker keeps the chain, and a run that is sound was so before.
LEMMA NextShown ==
    ASSUME Inv, Numbered, Chained, Told, phase = "queued" => seq = 1, [RunNext]_runVars
    PROVE  Chained' /\ Told' /\ (Sound' => Sound)
<1>1. CASE \/ Begin \/ ToolCall \/ Score \/ Project \/ Fail
           \/ \E c \in calls : ToolAnswers(c) \/ ToolFails(c)
    <2>1. Sound
        BY <1>1 DEF Begin, ToolCall, Score, Project, Fail, Numbered, Sound
    <2> QED BY <1>1, <2>1, InvestigationShown
<1>2. CASE \/ VerifyRequested
           \/ \E i \in DOMAIN verifies :
                \/ VerifyBegins(i)
                \/ \E recovered \in BOOLEAN : VerifyReports(i, recovered)
                \/ VerifyFails(i)
    <2>1. phase = "concluded"
        BY <1>2 DEF VerifyRequested, Numbered
    <2> QED BY <1>2, <2>1, VerificationShown DEF Sound
<1>3. CASE Restart
    BY <1>3 DEF Restart, Chained, Told, Sound
<1>4. CASE UNCHANGED runVars
    <2>1. UNCHANGED <<phase, state, seq, stepCount, verifies, events>>
        BY <1>4 DEF runVars
    <2>2. Chained'
        BY <2>1 DEF Chained, Sound, Planner, Follows, Base, Closed
    <2>3. Told'
        BY <2>1 DEF Told, VerifyLive
    <2> QED BY <2>1, <2>2, <2>3 DEF Sound
<1> QED BY <1>1, <1>2, <1>3, <1>4 DEF RunNext, Progress

-----------------------------------------------------------------------------
\* Where an event is followed by one with a lower number, an end of the run numbered
\* no lower than that one is no later than the first: that event itself, or the one it
\* is numbered next to.
LEMMA EndBetween ==
    ASSUME Inv, Numbered, Chained, Sound,
           NEW j \in 1..Len(events), NEW k \in 1..Len(events),
           k < j, events[j].seq < events[k].seq
    PROVE  \E i \in 1..k : events[i].type = "COMPLETED" /\ events[j].seq <= events[i].seq
<1>1. /\ events \in Seq(Event) /\ seq \in Nat /\ Len(events) \in Nat
      /\ events[j].seq \in Nat /\ events[k].seq \in Nat
    BY LenProperties, NumbersAreNat DEF Inv, RunTypeOK
<1>2. ~Planner(events, seq, j)
    BY <1>1 DEF Numbered, Ordered
<1>3. Follows(events, seq, j)
    BY <1>2 DEF Chained
<1>4. seq < events[j].seq /\ ~Planner(events, seq, k)
    BY <1>1, <1>3 DEF Follows, Planner
<1>5. Follows(events, seq, k)
    BY <1>4 DEF Chained
<1>6. CASE events[k].type = "COMPLETED"
    BY <1>1, <1>6
<1>7. CASE Closed(events, events[k].seq - 1, k - 1)
    <2>1. PICK i \in 1..Len(events) : /\ i <= k - 1 /\ events[i].seq = events[k].seq - 1
                                      /\ events[i].type = "COMPLETED"
        BY <1>7 DEF Closed
    <2> QED BY <1>1, <2>1
<1>8. events[k].seq # seq + 1
    BY <1>1, <1>4
<1> QED BY <1>5, <1>6, <1>7, <1>8 DEF Follows

\* Showing an event twice is showing it once.
LEMMA ReduceTwice ==
    ASSUME NEW shown, NEW type
    PROVE  Reduce(Reduce(shown, type), type) = Reduce(shown, type)
BY DEF Reduce

\* The worker only adds events behind all that the browser was given.
LEMMA WorkerForward ==
    ASSUME StreamInv, Forward, Effect, TypeOK', Sound' => Sound, UNCHANGED streamVars
    PROVE  Forward'
<1> SUFFICES ASSUME Sound' PROVE Forward'
    BY DEF Forward
<1>1. Sound /\ phase' # "lost" /\ phase # "lost"
    BY DEF Sound
<1>2. UNCHANGED <<open, cursor, batch, lastId, seen, ui>>
    BY DEF streamVars
<1>3. /\ events \in Seq(Event) /\ events' \in Seq(Event)
      /\ Len(events) \in Nat /\ Len(events') \in Nat
      /\ Len(events) <= Len(events')
      /\ \A k \in 1..Len(events) : events'[k] = events[k]
    BY <1>1, LenProperties DEF StreamInv, TypeOK, RunTypeOK, Effect, Extended
<1>4. \A p \in seen : p[1] \in 1..Len(events) /\ p[2] = events[p[1]]
    BY <1>1 DEF Forward
<1>5. \A p \in seen : p[1] \in 1..Len(events') /\ p[2] = events'[p[1]]
    BY <1>3, <1>4
<1>6. \A k \in 1..Len(events') : lastId < events'[k].seq => \A p \in seen : p[1] < k
    <2> SUFFICES ASSUME NEW k \in 1..Len(events'), lastId < events'[k].seq, NEW p \in seen
                 PROVE  p[1] < k
        OBVIOUS
    <2>1. p[1] \in 1..Len(events)
        BY <1>4
    <2>2. CASE k <= Len(events)
        <3>1. k \in 1..Len(events) /\ events'[k] = events[k]
            BY <1>3, <2>2
        <3> QED BY <1>1, <3>1 DEF Forward
    <2> QED BY <1>3, <2>1, <2>2
<1>7. \A q \in batch : q[1] \in 1..Len(events)
    BY <1>1 DEF StreamInv, Delivered
<1>8. \A q \in batch : \A k \in 1..Len(events') :
         k < q[1] /\ events'[k].type = "COMPLETED" /\ q[2].seq <= events'[k].seq =>
             <<k, events'[k]>> \in batch
    <2> SUFFICES ASSUME NEW q \in batch, NEW k \in 1..Len(events'),
                        k < q[1], events'[k].type = "COMPLETED", q[2].seq <= events'[k].seq
                 PROVE  <<k, events'[k]>> \in batch
        OBVIOUS
    <2>1. k \in 1..Len(events) /\ events'[k] = events[k]
        BY <1>3, <1>7
    <2> QED BY <1>1, <2>1 DEF Forward
<1>9. /\ open' => lastId' <= cursor'
      /\ \A q \in batch : lastId <= q[2].seq /\ \A p \in seen : p[1] < q[1]
      /\ \A p \in seen : LastGiven(p) => ui = Reduce(ui, p[2].type)
    BY <1>1, <1>2 DEF Forward
<1>10. \A p \in seen : LastGiven(p)' <=> LastGiven(p)
    BY <1>2 DEF LastGiven
<1> QED BY <1>2, <1>5, <1>6, <1>8, <1>9, <1>10 DEF Forward, LastGiven

\* What is written next is numbered no lower than what was written before, and what
\* is fetched later lies behind it.
LEMMA DeliverForward ==
    ASSUME StreamInv, Chained, Forward, Deliver
    PROVE  Forward'
<1>1. PICK p \in batch :
        /\ First(p[1])
        /\ cursor' = IF p[2].seq > cursor THEN p[2].seq ELSE cursor
        /\ lastId' = p[2].seq
        /\ seen' = seen \cup {p}
        /\ ui' = Reduce(ui, p[2].type)
        /\ open' = ~(p[2].type \in TerminalEvents)
        /\ batch' = IF p[2].type \in TerminalEvents THEN {} ELSE batch \ {p}
    BY DEF Deliver
<1>2. UNCHANGED <<phase, seq, events>> /\ open
    BY DEF Deliver, runVars
<1> SUFFICES ASSUME Sound PROVE Forward'
    BY <1>2 DEF Forward, Sound
<1>3. /\ cursor \in Nat /\ lastId \in Nat /\ events \in Seq(Event) /\ Len(events) \in Nat
      /\ batch \subseteq Nat \X Event
      /\ \A k \in 1..Len(events) : events[k].seq \in Nat
    BY LenProperties, NumbersAreNat DEF StreamInv, TypeOK, RunTypeOK
<1>4. \A q \in batch : /\ q[1] \in 1..Len(events) /\ q[2] = events[q[1]]
                       /\ q = <<q[1], q[2]>> /\ q[2].seq \in Nat
    BY <1>3 DEF StreamInv, Delivered, Sound, Event
<1>5. /\ \A q \in seen : q[1] \in 1..Len(events) /\ q[2] = events[q[1]]
      /\ \A k \in 1..Len(events) : lastId < events[k].seq => \A q \in seen : q[1] < k
      /\ \A q \in batch : lastId <= q[2].seq /\ \A g \in seen : g[1] < q[1]
      /\ \A q \in batch : \A k \in 1..Len(events) :
           k < q[1] /\ events[k].type = "COMPLETED" /\ q[2].seq <= events[k].seq =>
               <<k, events[k]>> \in batch
    BY DEF Forward
<1>6. batch' \subseteq batch \ {p}
    BY <1>1, Zenon
<1>7. \A q \in batch : p[1] <= q[1]
    BY <1>1 DEF First
<1>8. \A q \in batch : q # p => p[1] < q[1]
    BY <1>4, <1>7
<1>9. \A k \in 1..p[1] : ~(events[k].type = "COMPLETED" /\ p[2].seq <= events[k].seq /\ k # p[1])
    <2> SUFFICES ASSUME NEW k \in 1..p[1], events[k].type = "COMPLETED",
                        p[2].seq <= events[k].seq, k # p[1]
                 PROVE  FALSE
        OBVIOUS
    <2>1. k \in 1..Len(events) /\ k < p[1]
        BY <1>3, <1>4
    <2>2. <<k, events[k]>> \in batch
        BY <1>5, <2>1
    <2> QED BY <1>7, <2>1, <2>2, <1>4
<1>10. \A k \in 1..Len(events) : p[2].seq < events[k].seq => p[1] < k
    <2> SUFFICES ASSUME NEW k \in 1..Len(events), p[2].seq < events[k].seq, ~(p[1] < k)
                 PROVE  FALSE
        OBVIOUS
    <2>1. p[1] \in 1..Len(events) /\ p[2] = events[p[1]]
        BY <1>4
    <2>2. k < p[1]
        BY <1>3, <2>1
    <2>3. PICK i \in 1..k : events[i].type = "COMPLETED" /\ p[2].seq <= events[i].seq
        BY <2>1, <2>2, EndBetween DEF StreamInv
    <2>4. i \in 1..p[1] /\ i # p[1]
        BY <1>3, <2>1, <2>2
    <2> QED BY <1>9, <2>3, <2>4
<1>11. \A q \in batch' : p[2].seq <= q[2].seq
    <2> SUFFICES ASSUME NEW q \in batch', ~(p[2].seq <= q[2].seq)
                 PROVE  FALSE
        OBVIOUS
    <2>1. q \in batch /\ p[1] < q[1] /\ p[2].type \notin TerminalEvents
        BY <1>1, <1>6, <1>8
    <2>2. /\ q[1] \in 1..Len(events) /\ p[1] \in 1..Len(events)
          /\ q[2] = events[q[1]] /\ p[2] = events[p[1]]
          /\ q[2].seq \in Nat /\ p[2].seq \in Nat
        BY <1>4, <2>1
    <2>3. PICK i \in 1..p[1] : events[i].type = "COMPLETED" /\ q[2].seq <= events[i].seq
        <3>1. events[q[1]].seq < events[p[1]].seq
            BY <2>2
        <3>2. Inv /\ Numbered
            BY DEF StreamInv
        <3>3. \E i \in 1..p[1] :
                events[i].type = "COMPLETED" /\ events[q[1]].seq <= events[i].seq
            BY <2>1, <2>2, <3>1, <3>2, EndBetween
        <3> QED BY <2>2, <3>3
    <2>4. i # p[1]
        BY <2>1, <2>2, <2>3 DEF TerminalEvents
    <2>5. i \in 1..Len(events) /\ i < q[1] /\ i < p[1]
        BY <1>3, <2>1, <2>2, <2>4
    <2>6. <<i, events[i]>> \in batch
        BY <1>5, <2>1, <2>3, <2>5
    <2> QED BY <1>7, <2>2, <2>5, <2>6
<1>12. \A q \in seen' : q[1] \in 1..Len(events) /\ q[2] = events[q[1]]
    BY <1>1, <1>4, <1>5
<1>13. open' => lastId' <= cursor'
    BY <1>1, <1>3, <1>4
<1>14. \A k \in 1..Len(events) : lastId' < events[k].seq => \A q \in seen' : q[1] < k
    <2> SUFFICES ASSUME NEW k \in 1..Len(events), p[2].seq < events[k].seq, NEW q \in seen'
                 PROVE  q[1] < k
        BY <1>1
    <2>1. lastId < events[k].seq
        BY <1>3, <1>4, <1>5
    <2> QED BY <1>1, <1>5, <1>10, <2>1
<1>15. \A q \in batch' : lastId' <= q[2].seq /\ \A g \in seen' : g[1] < q[1]
    BY <1>1, <1>5, <1>6, <1>8, <1>11
<1>16. \A q \in batch' : \A k \in 1..Len(events) :
           k < q[1] /\ events[k].type = "COMPLETED" /\ q[2].seq <= events[k].seq =>
               <<k, events[k]>> \in batch'
    <2> SUFFICES ASSUME NEW q \in batch', NEW k \in 1..Len(events),
                        k < q[1], events[k].type = "COMPLETED", q[2].seq <= events[k].seq
                 PROVE  <<k, events[k]>> \in batch'
        OBVIOUS
    <2>1. <<k, events[k]>> \in batch
        BY <1>5, <1>6
    <2>2. p[2].type \notin TerminalEvents /\ batch' = batch \ {p}
        BY <1>1
    <2>3. <<k, events[k]>> # p
        BY <2>2 DEF TerminalEvents
    <2> QED BY <2>1, <2>2, <2>3
<1>17. \A q \in seen' : LastGiven(q)' => ui' = Reduce(ui', q[2].type)
    <2> SUFFICES ASSUME NEW q \in seen', LastGiven(q)'
                 PROVE  ui' = Reduce(ui', q[2].type)
        BY Zenon
    <2>1. p[1] <= q[1] /\ p \in seen'
        BY <1>1 DEF LastGiven
    <2>2. q = p
        <3> SUFFICES ASSUME q # p PROVE FALSE
            OBVIOUS
        <3>1. q \in seen
            BY <1>1
        <3>2. q[1] < p[1] /\ q[1] \in 1..Len(events) /\ p[1] \in 1..Len(events)
            BY <1>4, <1>5, <3>1
        <3> QED BY <2>1, <3>2
    <2> QED BY <1>1, <2>2, ReduceTwice
<1> QED BY <1>2, <1>12, <1>13, <1>14, <1>15, <1>16, <1>17 DEF Forward

\* What is fetched lies behind what the browser was given.
LEMMA StreamForward ==
    ASSUME StreamInv, Forward, Fetch \/ Drop \/ Reconnect
    PROVE  Forward'
<1>1. UNCHANGED <<phase, seq, events, lastId, seen, ui>>
    BY DEF Fetch, Drop, Reconnect, runVars
<1> SUFFICES ASSUME Sound PROVE Forward'
    BY <1>1 DEF Forward, Sound
<1>2. /\ cursor \in Nat /\ lastId \in Nat /\ events \in Seq(Event)
      /\ \A k \in 1..Len(events) : events[k].seq \in Nat
      /\ DOMAIN events = 1..Len(events)
    BY LenProperties, NumbersAreNat DEF StreamInv, TypeOK, RunTypeOK
<1>3. /\ \A p \in seen : p[1] \in 1..Len(events) /\ p[2] = events[p[1]]
      /\ \A k \in 1..Len(events) : lastId < events[k].seq => \A p \in seen : p[1] < k
      /\ \A p \in seen : LastGiven(p) => ui = Reduce(ui, p[2].type)
    BY DEF Forward
<1>4. \A p \in seen' : LastGiven(p)' => ui' = Reduce(ui', p[2].type)
    BY <1>1, <1>3 DEF LastGiven
<1>5. CASE Fetch
    <2>1. lastId <= cursor /\ batch' = EventsSince(cursor) /\ UNCHANGED <<open, cursor>>
        BY <1>5 DEF Fetch, Forward
    <2>2. \A q \in batch' : /\ q[1] \in 1..Len(events) /\ q[2] = events[q[1]]
                            /\ cursor < q[2].seq
        BY <1>2, <2>1 DEF EventsSince
    <2>3. \A q \in batch' : lastId <= q[2].seq /\ \A p \in seen : p[1] < q[1]
        BY <1>2, <1>3, <2>1, <2>2
    <2>4. \A q \in batch' : \A k \in 1..Len(events) :
            q[2].seq <= events[k].seq => <<k, events[k]>> \in batch'
        <3> SUFFICES ASSUME NEW q \in batch', NEW k \in 1..Len(events),
                            q[2].seq <= events[k].seq
                     PROVE  <<k, events[k]>> \in batch'
            OBVIOUS
        <3>1. events[k].seq > cursor
            BY <1>2, <2>2
        <3> QED BY <1>2, <2>1, <3>1 DEF EventsSince
    <2> QED BY <1>1, <1>3, <1>4, <2>1, <2>3, <2>4 DEF Forward
<1>6. CASE Drop
    BY <1>1, <1>3, <1>4, <1>6 DEF Drop, Forward
<1>7. CASE Reconnect
    <2>1. batch' = {} /\ cursor' = lastId
        BY <1>7 DEF Reconnect, StreamInv, Delivered
    <2> QED BY <1>1, <1>2, <1>3, <1>4, <2>1 DEF Forward
<1> QED BY <1>5, <1>6, <1>7

-----------------------------------------------------------------------------
\* The invariant holds initially.
LEMMA InitShown == Init => ShownInv
<1> SUFFICES ASSUME Init PROVE ShownInv
    OBVIOUS
<1>1. StreamInv
    BY InitStream
<1>2. Chained /\ Told
    BY DEF Init, RunInit, Chained, Told
<1>3. Forward
    BY DEF Init, RunInit, Forward
<1> QED BY <1>1, <1>2, <1>3 DEF ShownInv

\* Every step keeps it.
LEMMA NextShownInv == ShownInv /\ [Next]_vars => ShownInv'
<1> SUFFICES ASSUME ShownInv, [Next]_vars PROVE ShownInv'
    OBVIOUS
<1>1. StreamInv /\ StreamInv' /\ TypeOK'
    BY NextStream DEF ShownInv, StreamInv
<1>2. [RunNext]_runVars
    BY StepRefines
<1>3. Inv /\ Numbered /\ (phase = "queued" => seq = 1)
    BY <1>1 DEF StreamInv
<1>4. Effect
    BY <1>2, <1>3, NextNumbered
<1>5. Chained' /\ Told' /\ (Sound' => Sound)
    BY <1>2, <1>3, NextShown DEF ShownInv
<1>6. CASE UNCHANGED streamVars
    BY <1>1, <1>4, <1>5, <1>6, WorkerForward DEF ShownInv
<1>7. CASE Fetch \/ Deliver \/ Drop \/ Reconnect
    BY <1>1, <1>5, <1>7, DeliverForward, StreamForward DEF ShownInv
<1> QED BY <1>1, <1>5, <1>6, <1>7 DEF Next, vars, ShownInv

\* However many verifications overlap, fail and report under the same numbers, and
\* however often the stream breaks, a browser that was given every event of a run at
\* rest was given the last of them last, and shows the state the run is in.
THEOREM ShownCorrect == Spec => []ShownStateIsTrue
<1>1. ShownInv => ShownStateIsTrue
    <2> SUFFICES ASSUME ShownInv, phase = "concluded", Idle,
                        \A k \in DOMAIN events : <<k, events[k]>> \in seen
                 PROVE  ui \in Shows(state)
        BY DEF ShownStateIsTrue, Given
    <2> DEFINE k == Len(events)
               p == <<k, events[k]>>
    <2>1. /\ events \in Seq(Event) /\ k \in Nat /\ DOMAIN events = 1..k
        BY LenProperties DEF ShownInv, StreamInv, TypeOK, RunTypeOK
    <2>2. events # <<>> /\ Says(events[k].type, state)
        BY DEF ShownInv, Told, Idle
    <2>3. k \in 1..k
        BY <2>1, <2>2
    <2>4. p \in seen
        BY <2>1, <2>3
    <2>5. Sound
        BY DEF Sound
    <2>6. LastGiven(p)
        BY <2>1, <2>4, <2>5 DEF LastGiven, ShownInv, Forward
    <2>7. ui = Reduce(ui, p[2].type)
        BY <2>4, <2>5, <2>6 DEF ShownInv, Forward
    <2>8. ui = Reduce(ui, events[k].type)
        BY <2>7
    <2> QED BY <2>2, <2>8 DEF Says, Reduce, Shows
<1>2. Spec => []ShownInv
    BY InitShown, NextShownInv, PTL DEF Spec
<1> QED BY <1>1, <1>2, PTL

\* Until a run fails or is lost, whatever is delivered was never given before, was
\* stored after all that was, and takes the id to resume from no lower: across broken
\* streams, reconnections and reports with the same number, the reducer is fed each
\* event once at most and in the order of the store.
GivenOnceInOrder ==
    [][Sound /\ Deliver =>
         /\ lastId <= lastId'
         /\ \E p \in seen' : p \notin seen /\ \A q \in seen : q[1] < p[1]]_vars

THEOREM OrderCorrect == Spec => GivenOnceInOrder
<1>1. ShownInv /\ [Next]_vars =>
        [Sound /\ Deliver =>
          /\ lastId <= lastId'
          /\ \E p \in seen' : p \notin seen /\ \A q \in seen : q[1] < p[1]]_vars
    <2> SUFFICES ASSUME ShownInv, Sound, Deliver
                 PROVE  /\ lastId <= lastId'
                        /\ \E p \in seen' : p \notin seen /\ \A q \in seen : q[1] < p[1]
        OBVIOUS
    <2>1. PICK p \in batch : lastId' = p[2].seq /\ seen' = seen \cup {p}
        BY DEF Deliver
    <2>2. lastId <= p[2].seq /\ \A q \in seen : q[1] < p[1] /\ q[1] \in 1..Len(events)
        BY <2>1 DEF ShownInv, Forward
    <2>3. p \notin seen
        <3> SUFFICES ASSUME p \in seen PROVE FALSE
            OBVIOUS
        <3>1. p[1] < p[1] /\ p[1] \in Int
            BY <2>2
        <3> QED BY <3>1
    <2> QED BY <2>1, <2>2, <2>3
<1>2. Spec => []ShownInv
    BY InitShown, NextShownInv, PTL DEF Spec
<1> QED BY <1>1, <1>2, PTL DEF Spec, GivenOnceInOrder

-----------------------------------------------------------------------------
\* The composition implements the run: stream and browser only read the worker, so
\* all that is proved of the run alone holds of the composition.
THEOREM StreamRefinesRun == Spec => RunSpec
BY StepRefines, PTL DEF Spec, RunSpec, Init

=============================================================================
