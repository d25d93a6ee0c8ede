------------------------- MODULE McpSession_proofs -------------------------
(***************************************************************************)
(* Proofs about McpSession, for any set of calls and any bounds: its state *)
(* stays well formed, the server runs no call twice, and calls share their *)
(* handshakes.                                                             *)
(***************************************************************************)
EXTENDS McpSession, FiniteSetTheorems, TLAPS

\* No call waits in two places.
OnceInLine == \A i, j \in DOMAIN waiters : waiters[i] = waiters[j] => i = j

\* A handshake begins when there is no session, and brings a session when it is
\* answered.
Handshake ==
    \A c \in Calls : pc[c] = "initializing" =>
        /\ session = NoSession
        /\ answer[c] = "none" => header[c] = NoSession
        /\ answer[c] = "ok" => header[c] # NoSession

\* What is known of how often a call ran, from how far it is.
Ran ==
    \A c \in Calls :
        /\ pc[c] \in {"idle", "waiting", "initializing", "notifying"} => ran[c] = 0
        /\ pc[c] = "calling" /\ answer[c] \in {"none", "gone", "rejected"} => ran[c] = 0
        /\ pc[c] = "calling" /\ answer[c] = "ok" => ran[c] = 1
        /\ pc[c] = "answered" => ran[c] = 1
        /\ ran[c] \in {0, 1}

\* The inductive invariant behind TypeOK and RanOnce.
Inv == TypeOK /\ OnceInLine /\ Handshake /\ Ran

-----------------------------------------------------------------------------
\* What each way of going on from _ensure_session does to lock, line and call.
LEMMA EnsureInv ==
    ASSUME SessionAssumption, Inv, NEW c \in Calls, NEW s \in 0..issued, Ensure(c, s),
           pc[c] \in {"idle", "calling"}
    PROVE  /\ lock' \in Calls \cup {NoCall}
           /\ waiters' \in Seq(Calls)
           /\ pc' \in [Calls -> Stages]
           /\ header' \in [Calls -> 0..issued]
           /\ answer' \in [Calls -> Answers]
           /\ \A d \in Calls : lock' = d <=> pc'[d] \in {"initializing", "notifying"}
           /\ \A d \in Calls :
                pc'[d] = "waiting" <=> \E i \in DOMAIN waiters' : waiters'[i] = d
           /\ OnceInLine'
<1>. USE DEF Inv, TypeOK, Stages, Posting, Ended, Answers, NoSession
<1>1. CASE s # NoSession /\ Post(c, "calling", s) /\ UNCHANGED <<lock, waiters>>
  BY <1>1 DEF Post, OnceInLine
<1>2. CASE /\ s = NoSession /\ lock = NoCall /\ waiters = <<>>
           /\ lock' = c /\ Post(c, "initializing", NoSession) /\ UNCHANGED waiters
  BY <1>2 DEF Post, OnceInLine, SessionAssumption
<1>3. CASE waiters' = Append(waiters, c) /\ End(c, "waiting") /\ UNCHANGED lock
  <2>1. /\ waiters' \in Seq(Calls)
        /\ Len(waiters) \in Nat
        /\ DOMAIN waiters = 1..Len(waiters)
        /\ DOMAIN waiters' = 1..(Len(waiters) + 1)
        /\ waiters'[Len(waiters) + 1] = c
        /\ \A i \in DOMAIN waiters : waiters'[i] = waiters[i]
    BY <1>3
  <2>2. \A i \in DOMAIN waiters : waiters[i] # c
    OBVIOUS
  <2>3. OnceInLine'
    <3>1. OnceInLine
      OBVIOUS
    <3>. HIDE DEF Inv, TypeOK
    <3>2. ASSUME NEW i \in DOMAIN waiters', NEW j \in DOMAIN waiters', waiters'[i] = waiters'[j]
          PROVE  i = j
      BY <2>1, <2>2, <3>1, <3>2 DEF OnceInLine
    <3>. QED
      BY <3>2 DEF OnceInLine
  <2>4. pc' = [pc EXCEPT ![c] = "waiting"] /\ UNCHANGED <<header, answer>>
    BY <1>3 DEF End
  <2>5. pc' \in [Calls -> Stages] /\ \A d \in Calls : pc'[d] = IF d = c THEN "waiting" ELSE pc[d]
    BY <2>4
  <2>6. \A d \in Calls : pc[d] = "waiting" <=> \E i \in DOMAIN waiters : waiters[i] = d
    OBVIOUS
  <2>7. \A d \in Calls : lock' = d <=> pc'[d] \in {"initializing", "notifying"}
    BY <1>3, <2>5
  <2>. HIDE DEF Inv, TypeOK
  <2>8. \A d \in Calls : pc'[d] = "waiting" <=> \E i \in DOMAIN waiters' : waiters'[i] = d
    <3>1. Len(waiters) + 1 \in DOMAIN waiters'
      BY <2>1
    <3>2. \A d \in Calls : d # c =>
            ((\E i \in DOMAIN waiters' : waiters'[i] = d)
                <=> (\E i \in DOMAIN waiters : waiters[i] = d))
      BY <2>1
    <3>3. \E i \in DOMAIN waiters' : waiters'[i] = c
      BY <3>1, <2>1
    <3>. QED
      BY <3>2, <3>3, <2>5, <2>6
  <2>. QED
    BY <1>3, <2>1, <2>3, <2>4, <2>5, <2>7, <2>8 DEF Inv, TypeOK
<1>. QED
  <2>1. \/ s # NoSession /\ Post(c, "calling", s) /\ UNCHANGED <<lock, waiters>>
        \/ /\ s = NoSession /\ lock = NoCall /\ waiters = <<>>
           /\ lock' = c /\ Post(c, "initializing", NoSession) /\ UNCHANGED waiters
        \/ waiters' = Append(waiters, c) /\ End(c, "waiting") /\ UNCHANGED lock
    BY DEF Ensure
  <2>. QED
    BY <1>1, <1>2, <1>3, <2>1

\* The head of the line leaves it.
LEMMA LineMovesOn ==
    ASSUME Inv, waiters # <<>>
    PROVE  /\ Tail(waiters) \in Seq(Calls)
           /\ \A i, j \in DOMAIN Tail(waiters) :
                Tail(waiters)[i] = Tail(waiters)[j] => i = j
           /\ \A d \in Calls :
                (\E i \in DOMAIN Tail(waiters) : Tail(waiters)[i] = d)
                    <=> d # Head(waiters) /\ \E i \in DOMAIN waiters : waiters[i] = d
<1>. DEFINE t == Tail(waiters)
<1>1. /\ waiters \in Seq(Calls) /\ Len(waiters) \in Nat /\ Len(waiters) > 0
      /\ DOMAIN waiters = 1..Len(waiters)
      /\ Head(waiters) = waiters[1]
  BY DEF Inv, TypeOK
<1>2. /\ t \in Seq(Calls)
      /\ DOMAIN t = 1..(Len(waiters) - 1)
      /\ \A i \in 1..(Len(waiters) - 1) : t[i] = waiters[i + 1]
  BY <1>1
<1>. HIDE DEF t
<1>3. \A i, j \in DOMAIN t : t[i] = t[j] => i = j
  BY <1>1, <1>2 DEF Inv, OnceInLine
<1>4. ASSUME NEW d \in Calls
      PROVE  (\E i \in DOMAIN t : t[i] = d)
                <=> d # Head(waiters) /\ \E i \in DOMAIN waiters : waiters[i] = d
  <2>1. ASSUME NEW i \in DOMAIN t, t[i] = d
        PROVE  d # Head(waiters) /\ \E j \in DOMAIN waiters : waiters[j] = d
    <3>1. i + 1 \in DOMAIN waiters /\ i + 1 # 1 /\ 1 \in DOMAIN waiters /\ waiters[i + 1] = d
      BY <2>1, <1>1, <1>2
    <3>. QED
      BY <3>1, <1>1 DEF Inv, OnceInLine
  <2>2. ASSUME d # Head(waiters), NEW j \in DOMAIN waiters, waiters[j] = d
        PROVE  \E i \in DOMAIN t : t[i] = d
    <3>1. j - 1 \in DOMAIN t /\ t[j - 1] = d
      BY <2>2, <1>1, <1>2
    <3>. QED
      BY <3>1
  <2>. QED
    BY <2>1, <2>2
<1>. QED
  BY <1>2, <1>3, <1>4 DEF t

-----------------------------------------------------------------------------
\* TypeOK in two parts: the line of waiting calls, and all the rest.
Line ==
    /\ waiters \in Seq(Calls)
    /\ \A c \in Calls : pc[c] = "waiting" <=> \E i \in DOMAIN waiters : waiters[i] = c
    /\ OnceInLine

Shape ==
    /\ session \in 0..issued
    /\ lock \in Calls \cup {NoCall}
    /\ pc \in [Calls -> Stages]
    /\ again \subseteq Calls
    /\ issued \in Nat
    /\ known \subseteq 1..issued
    /\ ready \subseteq known
    /\ header \in [Calls -> 0..issued]
    /\ answer \in [Calls -> Answers]
    /\ ran \in [Calls -> Nat]
    /\ lost \in 0..MaxLosses
    /\ \A c \in Calls : lock = c <=> pc[c] \in {"initializing", "notifying"}

LEMMA InvParts == Inv <=> Line /\ Shape /\ Handshake /\ Ran
BY DEF Inv, TypeOK, Line, Shape

LEMMA InvPartsNext == Inv' <=> Line' /\ Shape' /\ Handshake' /\ Ran'
BY DEF Inv, TypeOK, Line, Shape

\* A step that neither moves the line nor sends a call there keeps it.
LEMMA LineStays ==
    ASSUME Line, UNCHANGED waiters,
           \A d \in Calls : pc'[d] = "waiting" <=> pc[d] = "waiting"
    PROVE  Line'
BY DEF Line, OnceInLine

LEMMA CallInv ==
    ASSUME SessionAssumption, Inv, NEW c \in Calls, Call(c)
    PROVE  Inv'
<1>. USE DEF NoSession
<1>1. /\ pc[c] = "idle" /\ Ensure(c, session) /\ session \in 0..issued
      /\ UNCHANGED <<session, again, issued, known, ready, ran, lost>>
  BY DEF Call, Inv, TypeOK, server
<1>2. Line' /\ Shape'
  BY <1>1, EnsureInv DEF Inv, TypeOK, Line, Shape
<1>3. /\ \A d \in Calls : d # c =>
           pc'[d] = pc[d] /\ header'[d] = header[d] /\ answer'[d] = answer[d]
      /\ \/ pc'[c] = "waiting"
         \/ pc'[c] = "calling" /\ answer'[c] = "none"
         \/ session = NoSession /\ pc'[c] = "initializing"
            /\ answer'[c] = "none" /\ header'[c] = NoSession
  BY <1>1 DEF Inv, TypeOK, Ensure, Post, End
<1>4. Handshake'
  BY <1>1, <1>3 DEF Inv, Handshake
<1>5. Ran'
  BY <1>1, <1>3 DEF Inv, Ran
<1>. QED
  BY <1>2, <1>4, <1>5, InvPartsNext

LEMMA EnterInv ==
    ASSUME SessionAssumption, Inv, NEW c \in Calls, Enter(c)
    PROVE  Inv'
<1>. USE DEF NoSession
<1>1. /\ waiters # <<>> /\ c = Head(waiters) /\ waiters' = Tail(waiters) /\ lock = NoCall
      /\ UNCHANGED <<session, again, issued, known, ready, ran, lost>>
  BY DEF Enter, server
<1>2. Line /\ Shape /\ Handshake /\ Ran
  BY InvParts
<1>3. /\ pc' \in [Calls -> Stages] /\ header' \in [Calls -> 0..issued]
      /\ answer' \in [Calls -> Answers] /\ lock' \in Calls \cup {NoCall}
      /\ \A d \in Calls : d # c =>
           pc'[d] = pc[d] /\ header'[d] = header[d] /\ answer'[d] = answer[d]
      /\ answer'[c] = "none"
      /\ \/ session # NoSession /\ pc'[c] = "calling" /\ lock' = NoCall
         \/ session = NoSession /\ pc'[c] = "initializing" /\ header'[c] = NoSession
            /\ lock' = c
  <2>. USE DEF Stages, Posting, Ended, Answers
  <2>1. CASE session # NoSession /\ Post(c, "calling", session) /\ UNCHANGED lock
    BY <1>1, <1>2, <2>1 DEF Shape, Post
  <2>2. CASE session = NoSession /\ lock' = c /\ Post(c, "initializing", NoSession)
    BY <1>2, <2>2 DEF Shape, Post
  <2>. QED
    BY <2>1, <2>2 DEF Enter
<1>4. /\ \E i \in DOMAIN waiters : waiters[i] = c
      /\ pc[c] = "waiting"
  <2>1. 1 \in DOMAIN waiters /\ waiters[1] = c
    BY <1>1, <1>2 DEF Line
  <2>. QED
    BY <2>1, <1>2 DEF Line
<1>5. Line'
  <2>1. \A d \in Calls :
          (\E i \in DOMAIN waiters' : waiters'[i] = d)
              <=> d # c /\ \E i \in DOMAIN waiters : waiters[i] = d
    BY <1>1, LineMovesOn
  <2>2. waiters' \in Seq(Calls) /\ OnceInLine'
    BY <1>1, LineMovesOn DEF OnceInLine
  <2>3. \A d \in Calls : pc'[d] = "waiting" <=> d # c /\ pc[d] = "waiting"
    BY <1>3
  <2>4. \A d \in Calls : pc[d] = "waiting" <=> \E i \in DOMAIN waiters : waiters[i] = d
    BY <1>2 DEF Line
  <2>. QED
    BY <2>1, <2>2, <2>3, <2>4 DEF Line
<1>6. Shape'
  BY <1>1, <1>2, <1>3 DEF Shape, SessionAssumption
<1>7. Handshake'
  BY <1>1, <1>2, <1>3 DEF Handshake
<1>8. Ran'
  BY <1>1, <1>2, <1>3, <1>4 DEF Ran
<1>. QED
  BY <1>5, <1>6, <1>7, <1>8, InvPartsNext

\* The steps of a handshake.
LEMMA HandshakeInv ==
    ASSUME SessionAssumption, Inv, NEW c \in Calls,
           Initialized(c) \/ Notified(c) \/ HandshakeFails(c)
    PROVE  Inv'
<1>. USE DEF NoSession, Stages, Posting, Ended, Answers
<1>1. Line /\ Shape /\ Handshake /\ Ran
  BY InvParts
<1>2. CASE Initialized(c)
  <2>1. Line'
    BY <1>1, <1>2, LineStays DEF Initialized, Post, Shape
  <2>2. Shape'
    BY <1>1, <1>2 DEF Initialized, Post, Shape, server
  <2>3. Handshake'
    BY <1>1, <1>2 DEF Initialized, Post, Shape, server, Handshake
  <2>4. Ran'
    BY <1>1, <1>2 DEF Initialized, Post, Shape, server, Ran
  <2>. QED
    BY <2>1, <2>2, <2>3, <2>4, InvPartsNext
<1>3. CASE Notified(c)
  <2>1. Line'
    BY <1>1, <1>3, LineStays DEF Notified, Post, Shape
  <2>2. Shape'
    BY <1>1, <1>3 DEF Notified, Post, Shape, server, SessionAssumption
  <2>3. Handshake'
    BY <1>1, <1>3 DEF Notified, Post, Shape, server, Handshake
  <2>4. Ran'
    BY <1>1, <1>3 DEF Notified, Post, Shape, server, Ran
  <2>. QED
    BY <2>1, <2>2, <2>3, <2>4, InvPartsNext
<1>4. CASE HandshakeFails(c)
  <2>1. Line'
    BY <1>1, <1>4, LineStays DEF HandshakeFails, End, Shape
  <2>2. Shape'
    BY <1>1, <1>4 DEF HandshakeFails, End, Shape, server, SessionAssumption
  <2>3. Handshake'
    BY <1>1, <1>4 DEF HandshakeFails, End, Shape, server, Handshake
  <2>4. Ran'
    BY <1>1, <1>4 DEF HandshakeFails, End, Shape, server, Ran
  <2>. QED
    BY <2>1, <2>2, <2>3, <2>4, InvPartsNext
<1>. QED
  BY <1>2, <1>3, <1>4

\* A call is posted again, or ends.
LEMMA AnswerInv ==
    ASSUME SessionAssumption, Inv, NEW c \in Calls, CallAgain(c) \/ CallEnds(c)
    PROVE  Inv'
<1>. USE DEF NoSession
<1>1. Line /\ Shape /\ Handshake /\ Ran
  BY InvParts
<1>2. CASE CallAgain(c)
  <2>1. /\ pc[c] = "calling" /\ answer[c] = "gone" /\ Ensure(c, NoSession)
        /\ NoSession \in 0..issued /\ session' = NoSession /\ again' = again \cup {c}
        /\ UNCHANGED <<issued, known, ready, ran, lost>>
    BY <1>1, <1>2 DEF CallAgain, Retries, server, Shape
  <2>2. Line' /\ Shape'
    BY <1>1, <2>1, EnsureInv DEF Line, Shape
  <2>3. /\ \A d \in Calls : d # c =>
             pc'[d] = pc[d] /\ header'[d] = header[d] /\ answer'[d] = answer[d]
        /\ \/ pc'[c] = "waiting"
           \/ pc'[c] = "initializing" /\ answer'[c] = "none" /\ header'[c] = NoSession
    BY <1>1, <2>1 DEF Shape, Ensure, Post, End
  <2>4. Handshake'
    BY <1>1, <2>1, <2>3 DEF Handshake
  <2>5. Ran'
    BY <1>1, <2>1, <2>3 DEF Ran
  <2>. QED
    BY <2>2, <2>4, <2>5, InvPartsNext
<1>3. CASE CallEnds(c)
  <2>. USE DEF Stages, Posting, Ended
  <2>1. Line'
    BY <1>1, <1>3, LineStays DEF CallEnds, End, Shape
  <2>2. Shape'
    BY <1>1, <1>3 DEF CallEnds, End, Shape, server
  <2>3. Handshake'
    BY <1>1, <1>3 DEF CallEnds, End, Shape, Handshake
  <2>4. Ran'
    BY <1>1, <1>3 DEF CallEnds, End, Shape, server, Ran
  <2>. QED
    BY <2>1, <2>2, <2>3, <2>4, InvPartsNext
<1>. QED
  BY <1>2, <1>3

\* The steps of the server and of the network.
LEMMA OutsideInv ==
    ASSUME SessionAssumption, Inv, NEW c \in Calls, Serve(c) \/ Lose(c)
    PROVE  Inv'
<1>. USE DEF NoSession, Posting, Answers, Respond, client
<1>1. Line /\ Shape /\ Handshake /\ Ran
  BY InvParts
<1>2. CASE ServeInitialize(c)
  <2>1. Line'
    BY <1>1, <1>2, LineStays DEF ServeInitialize
  <2>2. Shape'
    <3>1. CASE /\ issued' = issued + 1 /\ known' = known \cup {issued + 1}
               /\ header' = [header EXCEPT ![c] = issued + 1] /\ Respond(c, "ok")
      <4>1. /\ issued' \in Nat /\ known' \subseteq 1..issued' /\ session \in 0..issued'
            /\ ready \subseteq known'
        BY <1>1, <3>1 DEF Shape
      <4>2. header' \in [Calls -> 0..issued']
        BY <1>1, <3>1 DEF Shape
      <4>. QED
        BY <1>1, <1>2, <3>1, <4>1, <4>2 DEF ServeInitialize, Shape
    <3>2. CASE Respond(c, "rejected") /\ UNCHANGED <<issued, known, header>>
      BY <1>1, <1>2, <3>2 DEF ServeInitialize, Shape
    <3>. QED
      BY <1>2, <3>1, <3>2 DEF ServeInitialize
  <2>3. Handshake'
    BY <1>1, <1>2 DEF ServeInitialize, Shape, Handshake
  <2>4. Ran'
    BY <1>1, <1>2 DEF ServeInitialize, Shape, Ran
  <2>. QED
    BY <2>1, <2>2, <2>3, <2>4, InvPartsNext
<1>3. CASE ServeNotification(c)
  <2>1. Line'
    BY <1>1, <1>3, LineStays DEF ServeNotification
  <2>2. Shape'
    BY <1>1, <1>3 DEF ServeNotification, Shape
  <2>3. Handshake'
    BY <1>1, <1>3 DEF ServeNotification, Shape, Handshake
  <2>4. Ran'
    BY <1>1, <1>3 DEF ServeNotification, Shape, Ran
  <2>. QED
    BY <2>1, <2>2, <2>3, <2>4, InvPartsNext
<1>4. CASE ServeCall(c)
  <2>1. Line'
    BY <1>1, <1>4, LineStays DEF ServeCall
  <2>2. Shape'
    BY <1>1, <1>4 DEF ServeCall, Shape
  <2>3. Handshake'
    BY <1>1, <1>4 DEF ServeCall, Shape, Handshake
  <2>4. Ran'
    BY <1>1, <1>4 DEF ServeCall, Shape, Ran
  <2>. QED
    BY <2>1, <2>2, <2>3, <2>4, InvPartsNext
<1>5. CASE Lose(c)
  <2>1. Line'
    BY <1>1, <1>5, LineStays DEF Lose
  <2>2. Shape'
    BY <1>1, <1>5 DEF Lose, server, Shape, SessionAssumption
  <2>3. Handshake'
    BY <1>1, <1>5 DEF Lose, Shape, Handshake
  <2>4. Ran'
    BY <1>1, <1>5 DEF Lose, server, Shape, Ran
  <2>. QED
    BY <2>1, <2>2, <2>3, <2>4, InvPartsNext
<1>. QED
  BY <1>2, <1>3, <1>4, <1>5 DEF Serve

LEMMA ForgetInv ==
    ASSUME Inv, NEW s \in known, Forget(s)
    PROVE  Inv'
<1>1. Line /\ Shape /\ Handshake /\ Ran
  BY InvParts
<1>2. Line'
  BY <1>1, LineStays DEF Forget, client
<1>3. Shape'
  BY <1>1 DEF Forget, client, Shape
<1>4. Handshake' /\ Ran'
  BY <1>1 DEF Forget, client, Handshake, Ran
<1>. QED
  BY <1>2, <1>3, <1>4, InvPartsNext

LEMMA InitInv == SessionAssumption /\ Init => Inv
BY DEF Init, Inv, TypeOK, OnceInLine, Handshake, Ran, NoSession, Stages, Answers,
       SessionAssumption

LEMMA NextInv == SessionAssumption /\ Inv /\ [Next]_vars => Inv'
<1>. SUFFICES ASSUME SessionAssumption, Inv, [Next]_vars
              PROVE  Inv'
  OBVIOUS
<1>1. ASSUME NEW c \in Calls, Call(c) PROVE Inv'
  BY <1>1, CallInv
<1>2. ASSUME NEW c \in Calls, GoOn(c) PROVE Inv'
  BY <1>2, EnterInv, HandshakeInv, AnswerInv DEF GoOn
<1>3. ASSUME NEW c \in Calls, Serve(c) \/ Lose(c) PROVE Inv'
  BY <1>3, OutsideInv
<1>4. ASSUME NEW s \in known, Forget(s) PROVE Inv'
  BY <1>4, ForgetInv
<1>5. CASE UNCHANGED vars
  BY <1>5 DEF vars, client, server, Inv, TypeOK, OnceInLine, Handshake, Ran
<1>. QED
  BY <1>1, <1>2, <1>3, <1>4, <1>5 DEF Next

\* The invariant holds in every reachable state.
THEOREM InvCorrect == Spec => []Inv
<1>1. Init => Inv
  BY InitInv, SessionAssumption
<1>2. Inv /\ [Next]_vars => Inv'
  BY NextInv, SessionAssumption
<1>. QED
  BY <1>1, <1>2, PTL DEF Spec

\* The client's and the server's state stays well formed, and exactly the call that is
\* in its handshake holds the session lock (mcp_client.py, _ensure_session).
THEOREM TypeCorrect == Spec => []TypeOK
<1>1. Inv => TypeOK
  BY DEF Inv
<1>. QED
  BY InvCorrect, <1>1, PTL

\* No tool call runs twice, however often posts are lost and sessions forgotten, and
\* one that is answered has run (mcp_client.py, call_upstream_mcp).
THEOREM RanOnceCorrect == Spec => []RanOnce
<1>1. Inv => RanOnce
  BY DEF Inv, Ran, RanOnce
<1>. QED
  BY InvCorrect, <1>1, PTL

-----------------------------------------------------------------------------
Failed == {c \in Calls : pc[c] = "failed"}
Spent == Cardinality(again) + Cardinality(Failed)

\* The next handshake will issue a session: there is none, nor one on its way.
Owed ==
    /\ session = NoSession
    /\ \A c \in Calls : pc[c] = "initializing" => header[c] = NoSession

\* The invariant behind SessionsAreShared: a handshake that is still owed has been
\* paid for by a call that gave a session up or failed, but for the first.
Sharing ==
    /\ IsFiniteSet(again) /\ IsFiniteSet(Failed)
    /\ issued <= 1 + Spent
    /\ Owed => issued <= Spent

LEMMA SpentNat == IsFiniteSet(again) /\ IsFiniteSet(Failed) => Spent \in Nat
BY FS_CardinalityType DEF Spent

\* A step in which nobody fails, nobody gives up and no session is issued.
LEMMA SharingStays ==
    ASSUME Sharing, UNCHANGED <<issued, again>>, Failed' = Failed, Owed' => Owed
    PROVE  Sharing'
BY DEF Sharing, Spent

\* A step in which one more call fails or gives up.
LEMMA SharingPaid ==
    ASSUME Inv, Sharing, UNCHANGED issued, NEW c \in Calls,
           \/ again' = again /\ Failed' = Failed \cup {c} /\ c \notin Failed
           \/ Failed' = Failed /\ again' = again \cup {c} /\ c \notin again
    PROVE  Sharing'
<1>1. issued \in Nat /\ Spent \in Nat /\ IsFiniteSet(again) /\ IsFiniteSet(Failed)
  BY SpentNat DEF Inv, TypeOK, Sharing
<1>2. /\ IsFiniteSet(again') /\ IsFiniteSet(Failed')
      /\ Spent' = Spent + 1
  <2>1. Cardinality(again) \in Nat /\ Cardinality(Failed) \in Nat
    BY <1>1, FS_CardinalityType
  <2>2. CASE again' = again /\ Failed' = Failed \cup {c} /\ c \notin Failed
    <3>1. IsFiniteSet(Failed') /\ Cardinality(Failed') = Cardinality(Failed) + 1
      BY <1>1, <2>2, FS_AddElement
    <3>. QED
      BY <1>1, <2>1, <2>2, <3>1 DEF Spent
  <2>3. CASE Failed' = Failed /\ again' = again \cup {c} /\ c \notin again
    <3>1. IsFiniteSet(again') /\ Cardinality(again') = Cardinality(again) + 1
      BY <1>1, <2>3, FS_AddElement
    <3>. QED
      BY <1>1, <2>1, <2>3, <3>1 DEF Spent
  <2>. QED
    BY <2>2, <2>3
<1>3. issued' <= Spent'
  BY <1>1, <1>2 DEF Sharing
<1>4. Spent' \in Nat
  BY <1>1, <1>2
<1>. QED
  BY <1>1, <1>2, <1>3, <1>4 DEF Sharing

LEMMA SharingOfClient ==
    ASSUME Inv, Sharing, NEW c \in Calls, Call(c) \/ GoOn(c)
    PROVE  Sharing'
<1>. USE DEF NoSession
<1>1. pc \in [Calls -> Stages] /\ header \in [Calls -> 0..issued] /\ Handshake
  BY DEF Inv, TypeOK
<1>2. ASSUME Call(c) \/ Enter(c)
      PROVE  Sharing'
  <2>1. UNCHANGED <<issued, again, session>>
    BY <1>2 DEF Call, Enter, server
  <2>2. pc[c] \in {"idle", "waiting"}
    <3>1. CASE Call(c)
      BY <3>1 DEF Call
    <3>2. CASE Enter(c)
      <4>1. waiters \in Seq(Calls) /\ waiters # <<>> /\ waiters[1] = c
        BY <3>2 DEF Enter, Inv, TypeOK
      <4>2. 1 \in DOMAIN waiters
        BY <4>1
      <4>. QED
        BY <4>1, <4>2 DEF Inv, TypeOK
    <3>. QED
      BY <1>2, <3>1, <3>2
  <2>3. /\ \A d \in Calls : d # c => pc'[d] = pc[d] /\ header'[d] = header[d]
        /\ pc'[c] # "failed"
    BY <1>1, <1>2 DEF Call, Enter, Ensure, Post, End
  <2>4. Failed' = Failed
    BY <2>2, <2>3 DEF Failed
  <2>5. Owed' => Owed
    BY <2>1, <2>2, <2>3 DEF Owed
  <2>. QED
    BY <2>1, <2>4, <2>5, SharingStays
<1>3. CASE Initialized(c)
  <2>1. Failed' = Failed /\ UNCHANGED <<issued, again>> /\ session' # NoSession
    BY <1>1, <1>3 DEF Initialized, Post, server, Failed, Handshake
  <2>. QED
    BY <2>1, SharingStays DEF Owed
<1>4. CASE Notified(c)
  <2>1. /\ pc[c] = "notifying" /\ UNCHANGED <<issued, again, session>>
        /\ \A d \in Calls : d # c => pc'[d] = pc[d] /\ header'[d] = header[d]
        /\ pc'[c] = "calling"
    BY <1>1, <1>4 DEF Notified, Post, server
  <2>2. Failed' = Failed
    BY <2>1 DEF Failed
  <2>3. Owed' => Owed
    BY <2>1 DEF Owed
  <2>. QED
    BY <2>1, <2>2, <2>3, SharingStays
<1>5. ASSUME HandshakeFails(c) \/ (CallEnds(c) /\ pc'[c] = "failed")
      PROVE  Sharing'
  <2>1. /\ UNCHANGED <<issued, again>> /\ pc[c] # "failed" /\ pc'[c] = "failed"
        /\ \A d \in Calls : d # c => pc'[d] = pc[d]
    BY <1>1, <1>5 DEF HandshakeFails, CallEnds, End, server
  <2>2. Failed' = Failed \cup {c} /\ c \notin Failed
    BY <2>1 DEF Failed
  <2>. QED
    BY <2>1, <2>2, SharingPaid
<1>6. ASSUME CallEnds(c), pc'[c] # "failed"
      PROVE  Sharing'
  <2>1. /\ UNCHANGED <<issued, again, session, header>> /\ pc[c] = "calling"
        /\ pc'[c] = "answered" /\ \A d \in Calls : d # c => pc'[d] = pc[d]
    BY <1>1, <1>6 DEF CallEnds, End, server
  <2>2. Failed' = Failed
    BY <2>1 DEF Failed
  <2>3. Owed' => Owed
    BY <2>1 DEF Owed
  <2>. QED
    BY <2>1, <2>2, <2>3, SharingStays
<1>7. CASE CallAgain(c)
  <2>1. /\ UNCHANGED issued /\ pc[c] = "calling" /\ pc'[c] # "failed"
        /\ c \notin again /\ again' = again \cup {c}
        /\ \A d \in Calls : d # c => pc'[d] = pc[d]
    BY <1>1, <1>7 DEF CallAgain, Retries, Ensure, Post, End, server
  <2>2. Failed' = Failed
    BY <2>1 DEF Failed
  <2>. QED
    BY <2>1, <2>2, SharingPaid
<1>. QED
  BY <1>2, <1>3, <1>4, <1>5, <1>6, <1>7 DEF GoOn

LEMMA SharingOutside ==
    ASSUME Inv, Sharing, NEW c \in Calls, Serve(c) \/ Lose(c)
    PROVE  Sharing'
<1>. USE DEF NoSession
<1>1. /\ header \in [Calls -> 0..issued] /\ issued \in Nat /\ Handshake
      /\ \A d \in Calls : lock = d <=> pc[d] \in {"initializing", "notifying"}
      /\ Spent \in Nat
  BY SpentNat DEF Inv, TypeOK, Sharing
<1>2. UNCHANGED <<pc, session, again>>
  BY DEF Serve, ServeInitialize, ServeNotification, ServeCall, Lose, client
<1>3. Failed' = Failed
  BY <1>2 DEF Failed
<1>4. CASE issued' = issued + 1
  <2>1. /\ pc[c] = "initializing" /\ answer[c] = "none"
        /\ header' = [header EXCEPT ![c] = issued + 1]
    BY <1>1, <1>4 DEF Serve, ServeInitialize, ServeNotification, ServeCall, Lose, server
  <2>2. Owed /\ ~Owed'
    <3>1. \A d \in Calls : d # c => pc[d] # "initializing"
      BY <1>1, <2>1
    <3>2. session = NoSession /\ header[c] = NoSession
      BY <1>1, <2>1 DEF Handshake
    <3>3. header'[c] # NoSession /\ pc'[c] = "initializing"
      BY <1>1, <1>2, <2>1
    <3>. QED
      BY <3>1, <3>2, <3>3 DEF Owed
  <2>3. Spent' = Spent
    BY <1>2, <1>3 DEF Spent
  <2>4. issued <= Spent
    BY <1>1, <2>2 DEF Sharing
  <2>. QED
    BY <1>1, <1>2, <1>3, <1>4, <2>2, <2>3, <2>4 DEF Sharing
<1>5. CASE issued' # issued + 1
  <2>1. UNCHANGED <<issued, header>>
    BY <1>5 DEF Serve, ServeInitialize, ServeNotification, ServeCall, Lose, server
  <2>. QED
    BY <1>2, <1>3, <2>1, SharingStays DEF Owed
<1>. QED
  BY <1>4, <1>5

LEMMA SharingInit == SessionAssumption /\ Init => Sharing
<1>. SUFFICES ASSUME SessionAssumption, Init
              PROVE  Sharing
  OBVIOUS
<1>1. again = {} /\ Failed = {} /\ issued = 0
  BY DEF Init, Failed
<1>2. IsFiniteSet(again) /\ IsFiniteSet(Failed) /\ Spent = 0
  BY <1>1, FS_EmptySet DEF Spent
<1>. QED
  BY <1>1, <1>2 DEF Sharing

LEMMA SharingNext == Inv /\ Sharing /\ [Next]_vars => Sharing'
<1>. SUFFICES ASSUME Inv, Sharing, [Next]_vars
              PROVE  Sharing'
  OBVIOUS
<1>1. ASSUME NEW c \in Calls, Call(c) \/ GoOn(c) PROVE Sharing'
  BY <1>1, SharingOfClient
<1>2. ASSUME NEW c \in Calls, Serve(c) \/ Lose(c) PROVE Sharing'
  BY <1>2, SharingOutside
<1>3. ASSUME UNCHANGED vars \/ \E s \in known : Forget(s) PROVE Sharing'
  BY <1>3, SharingStays DEF vars, client, server, Forget, Failed, Owed
<1>. QED
  BY <1>1, <1>2, <1>3 DEF Next

\* Calls that start together, or are told 404 together, share handshakes, however many
\* calls there are (mcp_client.py, _ensure_session).
THEOREM SharedCorrect == Spec => []SessionsAreShared
<1>1. Init => Sharing
  BY SharingInit, SessionAssumption
<1>2. Inv /\ Sharing /\ [Next]_vars => Sharing'
  BY SharingNext
<1>3. Inv /\ Sharing => SessionsAreShared
  <2>. SUFFICES ASSUME Inv, Sharing
                PROVE  SessionsAreShared
    OBVIOUS
  <2>1. Cardinality(again) \in Nat /\ Cardinality(Failed) \in Nat
    BY FS_CardinalityType DEF Sharing
  <2>. QED
    BY <2>1 DEF Sharing, Spent, SessionsAreShared, Failed, Inv, TypeOK
<1>. QED
  BY InvCorrect, <1>1, <1>2, <1>3, PTL DEF Spec
=============================================================================
