------------------------------ MODULE Transport ------------------------------
(***************************************************************************)
(* What the two transports of packages/networking/src/index.ts have in     *)
(* common: requests that wait to be sent or for their result, and the      *)
(* connections they go through.  A result is matched to its request by its *)
(* position only.                                                          *)
(***************************************************************************)
EXTENDS Naturals, SequencesExt

CONSTANTS
    Requests,         \* bound: the requests of the application
    MaxGeneration,    \* bound: connections
    MaxFaults         \* bound: losses, timeouts, refusals

\* HostClient replaces its socket after a fault, whatever the bound on connections.
ASSUME TransportAssumption ==
    /\ {MaxGeneration, MaxFaults} \subseteq Nat
    /\ MaxFaults < MaxGeneration

VARIABLES
    kind,         \* "ws" for HostClient, "ice" for IceHostTransport
    phase,        \* of the connection `generation`
    closed,       \* close() was called, or HostClient lost its connection
    generation,   \* the connection that is not fenced
    queue,        \* pendingRequests, outbound
    inFlight,     \* inFlightRequest (at most one), inFlight
    outcome,      \* [Requests -> of the request]
    up, down,     \* [connections -> requests and results on their way]
    executed,     \* the requests the host executed, in its order
    asked,        \* the requests in the order they were made
    notices,      \* what onAuthenticatedOpen and onClose told the application
    refused,      \* sendMessage refused a frame of flushOutbound
    faults

connectionVars == <<phase, closed, generation>>
requestVars    == <<queue, inFlight, outcome, asked>>
wireVars       == <<up, down, executed>>
transportVars  == <<kind, connectionVars, requestVars, wireVars, notices, refused, faults>>

Generations == 1..MaxGeneration

TransportInit ==
    /\ closed = FALSE /\ generation = 1
    /\ queue = <<>> /\ inFlight = <<>> /\ asked = <<>>
    /\ outcome = [r \in Requests |-> "new"]
    /\ up = [g \in Generations |-> <<>>] /\ down = up /\ executed = <<>>
    /\ notices = <<>> /\ refused = FALSE /\ faults = 0

Fault == faults < MaxFaults /\ faults' = faults + 1

Waiting == {r \in Requests : outcome[r] = "waiting"}

\* settleRequest: what was settled stays.
Settled(o, rs, value) == [r \in Requests |-> IF r \in rs /\ o[r] = "waiting" THEN value ELSE o[r]]

\* The result of request x settles request r.
Value(r, x) == IF r = x THEN "answered" ELSE "misanswered"

\* splice(indexOf(r), 1); nothing is queued twice.
Without(q, r) ==
    IF r \in ToSet(q) THEN RemoveAt(q, CHOOSE i \in DOMAIN q : q[i] = r) ELSE q

Sent(r) == [up EXCEPT ![generation] = Append(@, r)]

Made(r) == outcome[r] = "new" /\ asked' = Append(asked, r)

\* request() of a transport that is closed.
RequestClosed(r) ==
    /\ closed /\ Made(r)
    /\ outcome' = [outcome EXCEPT ![r] = "failed"]
    /\ UNCHANGED <<kind, connectionVars, queue, inFlight, wireVars, notices, refused, faults>>

(***************************************************************************)
(* The host's end of a connection: it answers the frames in their order.   *)
(* Of a connection that was given up, what is on its way may still arrive. *)
(***************************************************************************)
HostExecutes(g) ==
    /\ up[g] # <<>>
    /\ executed' = Append(executed, Head(up[g]))
    /\ up' = [up EXCEPT ![g] = Tail(@)]
    /\ down' = [down EXCEPT ![g] = Append(@, Head(up[g]))]
    /\ UNCHANGED <<kind, connectionVars, requestVars, notices, refused, faults>>

ConnectionEnds(g) ==
    /\ g # generation \/ closed
    /\ up[g] # <<>> \/ down[g] # <<>>
    /\ up' = [up EXCEPT ![g] = <<>>] /\ down' = [down EXCEPT ![g] = <<>>]
    /\ UNCHANGED <<kind, connectionVars, requestVars, executed, notices, refused, faults>>
=============================================================================
