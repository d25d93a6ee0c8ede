----------------------------- MODULE McpSession -----------------------------
(***************************************************************************)
(* The MCP session of the mcp-gateway's client (GrafanaMCPClient): tool    *)
(* calls share one session with the Grafana MCP server, which the first of *)
(* them establishes by a handshake of two posts under the session lock.  A *)
(* call that is told 404 gives the session up and is posted once more.     *)
(*                                                                         *)
(* The gateway is one asyncio process: between two awaits nothing else     *)
(* runs, and the awaits are the session lock and the posts.  A post takes  *)
(* its session header as it is sent.  The server issues a session with     *)
(* every handshake, may forget any, and may reject a call whose session it *)
(* has not been told is initialized; a post or its answer may be lost.     *)
(***************************************************************************)
EXTENDS Integers, Sequences, FiniteSets

CONSTANTS
    Calls,          \* the tool calls
    NoCall,         \* no call: the holder of the free session lock
    MaxLosses,      \* bound on the posts that are lost
    MaxForgotten    \* bound on the sessions the server forgets

ASSUME SessionAssumption ==
    /\ NoCall \notin Calls
    /\ MaxLosses \in Nat
    /\ MaxForgotten \in Nat

NoSession == 0

VARIABLES
    session,    \* the client's session id, or NoSession
    lock,       \* the call that holds the session lock
    waiters,    \* the calls that wait for it, in order
    pc,         \* how far each call is
    again,      \* the calls that are posted for the second time
    header,     \* the session id each call's post carries, or its answer brings
    answer,     \* what became of each call's post
    issued,     \* the sessions the server has issued: 1..issued
    known,      \* those it still knows
    ready,      \* those whose handshake it has seen completed
    ran,        \* how often the server ran each call's tool
    lost        \* how many posts were lost

client == <<session, lock, waiters, pc, again>>
server == <<issued, known, ready, ran>>
vars == <<client, header, answer, server, lost>>

\* initializing, notifying, calling: the call's post is under way.
Posting == {"initializing", "notifying", "calling"}
Ended == {"answered", "failed"}
Stages == {"idle", "waiting"} \cup Posting \cup Ended

\* gone: 404; rejected: any other status that is not 200; broken: no status.
Answers == {"none", "ok", "gone", "rejected", "broken"}

Init ==
    /\ session = NoSession
    /\ lock = NoCall
    /\ waiters = <<>>
    /\ pc = [c \in Calls |-> "idle"]
    /\ again = {}
    /\ header = [c \in Calls |-> NoSession]
    /\ answer = [c \in Calls |-> "none"]
    /\ issued = 0
    /\ known = {}
    /\ ready = {}
    /\ ran = [c \in Calls |-> 0]
    /\ lost = 0

-----------------------------------------------------------------------------
(* The client *)

\* _post: call c posts, as stage says, under session s.
Post(c, stage, s) ==
    /\ pc' = [pc EXCEPT ![c] = stage]
    /\ header' = [header EXCEPT ![c] = s]
    /\ answer' = [answer EXCEPT ![c] = "none"]

End(c, stage) ==
    /\ pc' = [pc EXCEPT ![c] = stage]
    /\ UNCHANGED <<header, answer>>

\* _ensure_session when the session is s: post at once, or take the lock and begin
\* the handshake, or queue up for the lock.
Ensure(c, s) ==
    \/ /\ s # NoSession
       /\ Post(c, "calling", s)
       /\ UNCHANGED <<lock, waiters>>
    \/ /\ s = NoSession /\ lock = NoCall /\ waiters = <<>>
       /\ lock' = c
       /\ Post(c, "initializing", NoSession)
       /\ UNCHANGED waiters
    \/ /\ s = NoSession /\ ~(lock = NoCall /\ waiters = <<>>)
       /\ waiters' = Append(waiters, c)
       /\ End(c, "waiting")
       /\ UNCHANGED lock

\* call_upstream_mcp up to its first await.
Call(c) ==
    /\ pc[c] = "idle"
    /\ Ensure(c, session)
    /\ UNCHANGED <<session, again, server, lost>>

\* Fault: the session is not looked at again once the lock is had.
Enter_Unchecked(c) ==
    /\ lock = NoCall /\ waiters # <<>> /\ Head(waiters) = c
    /\ waiters' = Tail(waiters)
    /\ lock' = c /\ Post(c, "initializing", NoSession)
    /\ session' = NoSession
    /\ UNCHANGED <<again, server, lost>>

\* The lock is had: another call has established a session meanwhile, or this one
\* begins the handshake.
Enter(c) ==
    /\ lock = NoCall /\ waiters # <<>> /\ Head(waiters) = c
    /\ waiters' = Tail(waiters)
    /\ \/ session # NoSession /\ Post(c, "calling", session) /\ UNCHANGED lock
       \/ session = NoSession /\ lock' = c /\ Post(c, "initializing", NoSession)
    /\ UNCHANGED <<session, again, server, lost>>

\* initialize is answered with a session: it is recorded, and the server is told.
Initialized(c) ==
    /\ pc[c] = "initializing" /\ answer[c] = "ok"
    /\ session' = header[c]
    /\ Post(c, "notifying", header[c])
    /\ UNCHANGED <<lock, waiters, again, server, lost>>

\* Whatever the server says to the notification, the lock is released and the call
\* is posted, under the session there is by then.
Notified(c) ==
    /\ pc[c] = "notifying" /\ answer[c] \in {"ok", "gone"}
    /\ lock' = NoCall
    /\ Post(c, "calling", session)
    /\ UNCHANGED <<session, waiters, again, server, lost>>

\* Fault: a handshake that fails keeps the lock.
HandshakeFails_Locked(c) ==
    /\ \/ pc[c] = "initializing" /\ answer[c] \in {"rejected", "broken"}
       \/ pc[c] = "notifying" /\ answer[c] = "broken"
    /\ End(c, "failed")
    /\ UNCHANGED <<session, lock, waiters, again, server, lost>>

\* Either post of the handshake fails: the call fails and the lock is released.  A
\* session that was recorded stays.
HandshakeFails(c) ==
    /\ \/ pc[c] = "initializing" /\ answer[c] \in {"rejected", "broken"}
       \/ pc[c] = "notifying" /\ answer[c] = "broken"
    /\ lock' = NoCall
    /\ End(c, "failed")
    /\ UNCHANGED <<session, waiters, again, server, lost>>

\* Fault: a call that gets no answer is posted again, too.
Retries_Broken(c) ==
    answer[c] \in {"gone", "broken"} /\ c \notin again /\ session # NoSession

\* A call that was told 404 for the first time, while there is a session to give up.
Retries(c) ==
    answer[c] = "gone" /\ c \notin again /\ session # NoSession

\* The call is told that its session is gone: it gives up the session there is and
\* is posted again under a new one.
CallAgain(c) ==
    /\ pc[c] = "calling" /\ Retries(c)
    /\ session' = NoSession
    /\ again' = again \cup {c}
    /\ Ensure(c, NoSession)
    /\ UNCHANGED <<server, lost>>

\* Any other answer is final; that of a tool may still be an error.
CallEnds(c) ==
    /\ pc[c] = "calling" /\ answer[c] # "none" /\ ~Retries(c)
    /\ \/ answer[c] = "ok" /\ End(c, "answered")
       \/ End(c, "failed")
    /\ UNCHANGED <<session, lock, waiters, again, server, lost>>

-----------------------------------------------------------------------------
(* The server, and the way there and back *)

Respond(c, a) == answer' = [answer EXCEPT ![c] = a]

\* initialize: a new session is issued, or the request turned down.
ServeInitialize(c) ==
    /\ pc[c] = "initializing" /\ answer[c] = "none"
    /\ \/ /\ issued' = issued + 1
          /\ known' = known \cup {issued + 1}
          /\ header' = [header EXCEPT ![c] = issued + 1]
          /\ Respond(c, "ok")
       \/ Respond(c, "rejected") /\ UNCHANGED <<issued, known, header>>
    /\ UNCHANGED <<client, ready, ran, lost>>

ServeNotification(c) ==
    /\ pc[c] = "notifying" /\ answer[c] = "none"
    /\ Respond(c, IF header[c] \in known THEN "ok" ELSE "gone")
    /\ ready' = ready \cup ({header[c]} \cap known)
    /\ UNCHANGED <<client, header, issued, known, ran, lost>>

\* A call runs under a session that is known, and if the server so pleases also
\* before the session is ready; a call without a session is malformed.
ServeCall(c) ==
    /\ pc[c] = "calling" /\ answer[c] = "none"
    /\ \/ /\ header[c] \in known
          /\ ran' = [ran EXCEPT ![c] = @ + 1]
          /\ Respond(c, "ok")
       \/ /\ header[c] \in (known \ ready) \cup {NoSession}
          /\ Respond(c, "rejected") /\ UNCHANGED ran
       \/ /\ header[c] \notin known \cup {NoSession}
          /\ Respond(c, "gone") /\ UNCHANGED ran
    /\ UNCHANGED <<client, header, issued, known, ready, lost>>

\* A post is lost before it is served, or its answer after.
Lose(c) ==
    /\ lost < MaxLosses
    /\ pc[c] \in Posting /\ answer[c] # "broken"
    /\ lost' = lost + 1
    /\ Respond(c, "broken")
    /\ UNCHANGED <<client, header, server>>

\* The server restarts or a session times out.
Forget(s) ==
    /\ s \in known
    /\ issued - Cardinality(known) < MaxForgotten
    /\ known' = known \ {s}
    /\ ready' = ready \ {s}
    /\ UNCHANGED <<client, header, answer, issued, ran, lost>>

Serve(c) == ServeInitialize(c) \/ ServeNotification(c) \/ ServeCall(c)

GoOn(c) ==
    \/ Enter(c) \/ Initialized(c) \/ Notified(c) \/ HandshakeFails(c)
    \/ CallAgain(c) \/ CallEnds(c)

Next ==
    \/ \E c \in Calls : Call(c) \/ GoOn(c) \/ Serve(c) \/ Lose(c)
    \/ \E s \in known : Forget(s)

Spec == Init /\ [][Next]_vars

\* The event loop goes on with every call it can go on with, and every post is
\* answered or times out.  Nobody has to call.
Fairness == \A c \in Calls : WF_vars(GoOn(c)) /\ WF_vars(Serve(c))

FairSpec == Spec /\ Fairness

-----------------------------------------------------------------------------
(* Properties *)

\* Every variable is well formed; in particular the lock is held by exactly the
\* call that is in its handshake, and the waiting calls are those that queue.
TypeOK ==
    /\ session \in 0..issued
    /\ lock \in Calls \cup {NoCall}
    /\ waiters \in Seq(Calls)
    /\ pc \in [Calls -> Stages]
    /\ again \subseteq Calls
    /\ issued \in Nat
    /\ known \subseteq 1..issued
    /\ ready \subseteq known
    /\ header \in [Calls -> 0..issued]
    /\ answer \in [Calls -> Answers]
    /\ ran \in [Calls -> Nat]
    /\ lost \in 0..MaxLosses
    /\ \A c \in Calls : lock = c <=> pc[c] \in {"initializing", "notifying"}
    /\ \A c \in Calls : pc[c] = "waiting" <=> \E i \in DOMAIN waiters : waiters[i] = c

\* The server runs no call twice, though a call may be posted twice and answers may
\* be lost (a second annotation or incident would be written): only a call that was
\* told 404, and so did not run, is posted again; and what was answered did run.
RanOnce ==
    /\ \A c \in Calls : ran[c] <= 1
    /\ \A c \in Calls : pc[c] = "answered" => ran[c] = 1

\* Calls that start or are told 404 together share handshakes: beyond the first,
\* every session that was issued is owed to a call that gave one up, or to a call
\* that failed in its handshake.
SessionsAreShared ==
    issued <= 1 + Cardinality(again) + Cardinality({c \in Calls : pc[c] = "failed"})

\* Every call ends: none waits for ever for the session lock, whichever post of
\* whichever handshake fails.
EveryCallEnds == \A c \in Calls : pc[c] \notin Ended \cup {"idle"} ~> pc[c] \in Ended
=============================================================================
