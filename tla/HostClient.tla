------------------------------ MODULE HostClient ------------------------------
(***************************************************************************)
(* HostClient (packages/networking/src/index.ts): the command transport    *)
(* over a WebSocket.  One request is sent at a time, and a socket whose    *)
(* request timed out is replaced before the next is sent.  The host proves *)
(* the key that is pinned, or that the user confirms on first use.         *)
(***************************************************************************)
EXTENDS Transport

CONSTANTS HostKeys, None     \* the keys that hosts at the address prove; no key

VARIABLES
    hostTrust,     \* the pinned key or None
    proven         \* the key the host at the other end of the socket has

clientVars == <<hostTrust, proven>>

HostClientInit ==
    /\ phase = "connecting"
    /\ hostTrust \in HostKeys \cup {None}
    /\ proven = None

\* connect() after replaceTimedOutConnection, of a socket that is fenced from then on.
Replace == generation' = generation + 1 /\ phase' = "connecting"

\* deviation: the request that was made last is sent first
DispatchNewest(q, f, o) ==
    IF f # <<>> \/ q = <<>>
    THEN /\ queue' = q /\ inFlight' = f /\ outcome' = o
         /\ phase' = "ready"
         /\ UNCHANGED <<generation, up, faults>>
    ELSE /\ queue' = Front(q) /\ inFlight' = <<Last(q)>> /\ outcome' = o
         /\ up' = Sent(Last(q))
         /\ phase' = "ready"
         /\ UNCHANGED <<generation, faults>>

\* dispatchNextRequest of an open client, with q to send, f in flight and the outcomes so far.  A send may
\* fail, and so may the limit on what the socket receives.
Dispatch(q, f, o) ==
    IF f # <<>> \/ q = <<>>
    THEN /\ queue' = q /\ inFlight' = f /\ outcome' = o
         /\ phase' = "ready"
         /\ UNCHANGED <<generation, up, faults>>
    ELSE /\ queue' = Tail(q)
         /\ \/ /\ inFlight' = <<Head(q)>> /\ outcome' = o
               /\ up' = Sent(Head(q))
               /\ phase' = "ready"
               /\ UNCHANGED <<generation, faults>>
            \/ /\ Fault
               /\ inFlight' = <<>> /\ outcome' = Settled(o, {Head(q)}, "failed")
               /\ Replace
               /\ UNCHANGED up

\* request(), command() and send().
ClientRequest(r) ==
    /\ ~closed /\ Made(r)
    /\ LET o == [outcome EXCEPT ![r] = "waiting"]
       IN  IF phase = "ready" THEN Dispatch(Append(queue, r), inFlight, o)
           ELSE /\ queue' = Append(queue, r) /\ outcome' = o
                /\ UNCHANGED <<phase, generation, inFlight, up, faults>>
    /\ UNCHANGED <<kind, closed, down, executed, notices, refused, clientVars>>

(***************************************************************************)
(* The socket.                                                             *)
(***************************************************************************)
\* The other end is the host there is at the address by now.
SocketOpens ==
    /\ ~closed /\ phase = "connecting"
    /\ phase' = "begun"
    /\ proven' \in HostKeys
    /\ UNCHANGED <<kind, closed, generation, requestVars, wireVars, notices, refused, faults,
                   hostTrust>>

\* What the close event does, and close(): every request fails, once.
Ends ==
    /\ closed' = TRUE
    /\ queue' = <<>> /\ inFlight' = <<>>
    /\ outcome' = Settled(outcome, Waiting, "failed")
    /\ notices' = Append(notices, "closed")
    /\ UNCHANGED <<kind, phase, generation, asked, wireVars, refused, clientVars>>

\* auth.challenge, signed by the key that is pinned, or by the one to confirm.
Challenge ==
    /\ phase = "begun" /\ hostTrust \in {None, proven}
    /\ phase' = IF hostTrust = None THEN "confirming" ELSE "proved"
    /\ UNCHANGED <<kind, closed, generation, requestVars, wireVars, notices, refused, faults,
                   clientVars>>

\* onLegacyHostFirstUse returns true, unless the socket is closed by then.
Confirmed ==
    /\ ~closed /\ phase = "confirming"
    /\ phase' = "proved" /\ hostTrust' = proven
    /\ UNCHANGED <<kind, closed, generation, requestVars, wireVars, notices, refused, faults, proven>>

\* A challenge that is not accepted, or not confirmed: the socket is closed.
Rejected ==
    /\ ~closed
    /\ \/ phase = "begun" /\ hostTrust \notin {None, proven}
       \/ phase = "confirming"
    /\ Ends
    /\ UNCHANGED faults

\* auth.ready: markOpen.
SocketReady ==
    /\ ~closed /\ phase = "proved"
    /\ notices' = Append(notices, "open")
    /\ Dispatch(queue, inFlight, outcome)
    /\ UNCHANGED <<kind, closed, asked, down, executed, refused, clientVars>>

\* handleRequestResult: whatever is in flight is settled with it.
ResultArrives ==
    /\ ~closed /\ phase = "ready" /\ down[generation] # <<>>
    /\ down' = [down EXCEPT ![generation] = Tail(@)]
    /\ IF inFlight = <<>>
       THEN UNCHANGED <<phase, generation, queue, inFlight, outcome, up, faults>>
       ELSE LET r == Head(inFlight)
                v == Value(r, Head(down[generation]))
            IN  Dispatch(queue, Tail(inFlight), Settled(outcome, {r}, v))
    /\ UNCHANGED <<kind, closed, asked, executed, notices, refused, clientVars>>

\* deviation: the socket of a request that timed out is kept
ClientTimeoutKept(r) ==
    /\ ~closed /\ r \in Waiting /\ Fault
    /\ outcome' = Settled(outcome, {r}, "failed")
    /\ queue' = Without(queue, r) /\ inFlight' = Without(inFlight, r)
    /\ UNCHANGED <<kind, connectionVars, asked, wireVars, notices, refused, clientVars>>

\* handleRequestTimeout.
ClientTimeout(r) ==
    /\ ~closed /\ r \in Waiting /\ Fault
    /\ outcome' = Settled(outcome, {r}, "failed")
    /\ IF r \in ToSet(inFlight)
       THEN inFlight' = <<>> /\ Replace /\ UNCHANGED queue
       ELSE queue' = Without(queue, r) /\ UNCHANGED <<phase, generation, inFlight>>
    /\ UNCHANGED <<kind, closed, asked, wireVars, notices, refused, clientVars>>

\* The socket is lost, in any phase, or the application closes it.
SocketCloses ==
    /\ ~closed /\ Fault
    /\ Ends

HostClientNext ==
    /\ kind = "ws"
    /\ \/ \E r \in Requests : ClientRequest(r) \/ ClientTimeout(r)
       \/ \E r \in Requests : RequestClosed(r) /\ UNCHANGED clientVars
       \/ \E g \in Generations : (HostExecutes(g) \/ ConnectionEnds(g)) /\ UNCHANGED clientVars
       \/ SocketOpens \/ Challenge \/ Confirmed \/ Rejected \/ SocketReady \/ ResultArrives
       \/ SocketCloses

(***************************************************************************)
(* Properties.                                                             *)
(***************************************************************************)
\* A client that is open talks to the host whose key is pinned, and a key that was
\* pinned stays, on every socket that replaces another.
TrustIsPinned ==
    [][/\ hostTrust # None => hostTrust' = hostTrust
       /\ phase' = "ready" /\ kind = "ws" => proven' = hostTrust']_<<transportVars, clientVars>>
=============================================================================
