----------------------------- MODULE IceTransport -----------------------------
(***************************************************************************)
(* IceHostTransport (packages/networking/src/index.ts): the command        *)
(* transport over a DataChannel, signaled through a JanjaBridge.  Requests *)
(* are in flight together, and a connection attempt that ends is fenced by *)
(* the generation of the next.                                             *)
(*                                                                         *)
(* The phases of an attempt: backoff, bridge (its socket connects), asked  *)
(* (ice.request), offered, answered, channel (auth.begin), ready; and      *)
(* stopped, after the last attempt.  The PeerConnection of the library has *)
(* no restartIce, so that tryIceRestart never does anything.               *)
(***************************************************************************)
EXTENDS IceGateway

CONSTANTS
    MaxAttempts,     \* maxReconnectAttempts
    MaxOutbound      \* the frames that wait for a connection, at most

VARIABLES
    privacy,          \* networkPrivacy of the client
    attempts,         \* reconnectAttempt
    refreshTimer,     \* the generation the credential refresh timer was set in, or NoSession
    relayed           \* the selected candidate pair of the connection is relay to relay

iceVars == <<privacy, attempts, refreshTimer, relayed>>

Connecting == {"bridge", "asked", "offered", "answered", "channel"}
OnBridge   == Connecting \cup {"ready"}

IceInit ==
    /\ phase = "bridge"
    /\ privacy \in Privacy /\ attempts = 0 /\ refreshTimer = NoSession /\ relayed = FALSE
    /\ GatewayInit

\* notifyClose, once per time the transport was open.
NotifyClose ==
    notices' = IF notices # <<>> /\ Last(notices) = "closed" THEN notices
               ELSE Append(notices, "closed")

\* scheduleReconnect: the attempt is fenced, what it had in flight fails.
Fence(o) ==
    /\ generation < MaxGeneration
    /\ generation' = generation + 1 /\ phase' = "backoff" /\ attempts' = attempts + 1
    /\ outcome' = Settled(o, ToSet(inFlight), "failed") /\ inFlight' = <<>>
    /\ NotifyClose

\* Its teardown closes the session, if the bridge is still there.
Reconnect(o) ==
    /\ Fence(o)
    /\ BridgeCloses(generation)

(***************************************************************************)
(* Requests.                                                               *)
(***************************************************************************)
\* flushOutbound.
Flush ==
    /\ inFlight' = queue /\ queue' = <<>>
    /\ up' = [up EXCEPT ![generation] = queue]

\* The nth frame is refused: it is dropped, and those behind it stay.
FlushRefused(n) ==
    /\ inFlight' = SubSeq(queue, 1, n - 1)
    /\ up' = [up EXCEPT ![generation] = SubSeq(queue, 1, n - 1)]
    /\ queue' = SubSeq(queue, n + 1, Len(queue))

\* queueApplicationFrame: sent when the channel is open, and refused when it is full.
IceRequest(r) ==
    /\ ~closed /\ Made(r)
    /\ \/ /\ phase = "ready"
          /\ inFlight' = Append(inFlight, r) /\ up' = Sent(r)
          /\ outcome' = [outcome EXCEPT ![r] = "waiting"]
          /\ UNCHANGED <<queue, faults>>
       \/ /\ phase # "ready" /\ Len(queue) < MaxOutbound
          /\ queue' = Append(queue, r)
          /\ outcome' = [outcome EXCEPT ![r] = "waiting"]
          /\ UNCHANGED <<inFlight, up, faults>>
       \/ /\ IF phase = "ready" THEN Fault ELSE Len(queue) >= MaxOutbound /\ UNCHANGED faults
          /\ outcome' = [outcome EXCEPT ![r] = "failed"]
          /\ UNCHANGED <<queue, inFlight, up>>
    /\ UNCHANGED <<kind, connectionVars, down, executed, notices, refused, gatewayVars, iceVars>>

\* handleResultTimeout: of a request in flight it gives the connection up.
IceTimeout(r) ==
    /\ ~closed /\ r \in Waiting /\ Fault
    /\ LET o == Settled(outcome, {r}, "failed")
       IN  IF r \in ToSet(inFlight)
           THEN Reconnect(o) /\ UNCHANGED <<queue, toClient>>
           ELSE /\ queue' = Without(queue, r) /\ outcome' = o
                /\ UNCHANGED <<phase, generation, inFlight, notices, attempts, bridgeVars>>
    /\ UNCHANGED <<kind, closed, asked, wireVars, refused, hostPrivacy, hostUp, sessionVars,
                   privacy, refreshTimer, relayed>>

\* A result settles the request that has waited longest.
IceResult ==
    /\ ~closed /\ phase = "ready" /\ down[generation] # <<>>
    /\ down' = [down EXCEPT ![generation] = Tail(@)]
    /\ IF inFlight = <<>> THEN UNCHANGED <<inFlight, outcome>>
       ELSE /\ inFlight' = Tail(inFlight)
            /\ outcome' = Settled(outcome, {Head(inFlight)},
                                  Value(Head(inFlight), Head(down[generation])))
    /\ UNCHANGED <<kind, connectionVars, queue, asked, up, executed, notices, refused, faults,
                   gatewayVars, iceVars>>

(***************************************************************************)
(* A connection attempt.                                                   *)
(***************************************************************************)
Rest == <<kind, closed, queue, asked, wireVars, refused>>

\* beginAttempt, or the end of them.
BeginAttempt ==
    /\ ~closed /\ phase = "backoff"
    /\ IF attempts > MaxAttempts
       THEN /\ phase' = "stopped"
            /\ NotifyClose
            /\ outcome' = Settled(outcome, ToSet(queue \o inFlight), "failed")
            /\ queue' = <<>> /\ inFlight' = <<>>
       ELSE phase' = "bridge" /\ UNCHANGED <<notices, outcome, queue, inFlight>>
    /\ UNCHANGED <<kind, closed, generation, asked, wireVars, refused, faults, gatewayVars, iceVars>>

\* The bridge's socket opens: signal.open with ice.request.
AskIce ==
    /\ ~closed /\ phase = "bridge" /\ hostUp
    /\ phase' = "asked"
    /\ signaling' = [signaling EXCEPT ![generation] = "open"]
    /\ ToHost(Frame("ice.request", generation, privacy))
    /\ UNCHANGED <<Rest, generation, inFlight, outcome, notices, faults, toClient, hostPrivacy,
                   hostUp, sessionVars, iceVars>>

\* Without the host, or beyond the bridge's limits, it is refused.
IceRefused ==
    /\ ~closed /\ phase = "bridge" /\ Fault
    /\ Reconnect(outcome)
    /\ UNCHANGED <<Rest, toClient, hostPrivacy, hostUp, sessionVars, privacy, refreshTimer, relayed>>

TookByClient(type) ==
    /\ ~closed /\ phase \in OnBridge
    /\ toClient # <<>> /\ Head(toClient).type = type /\ Head(toClient).session = generation
    /\ toClient' = Tail(toClient)

\* A frame for another session than the current one is nothing.
StaleFrame ==
    /\ toClient # <<>> /\ (closed \/ phase \notin OnBridge \/ Head(toClient).session # generation)
    /\ toClient' = Tail(toClient)
    /\ UNCHANGED <<transportVars, hostPrivacy, hostUp, signaling, toHost, sessionVars, iceVars>>

\* ice.config: createPeerConnection and its offer, or the refreshed credentials.  A
\* client of relay privacy does not go on with a direct one, nor any after its offer was
\* refused, because the bridge has closed the session.
IceConfigured ==
    /\ TookByClient("ice.config")
    /\ IF privacy = "relay" /\ Head(toClient).privacy # "relay"
       THEN Reconnect(outcome) /\ UNCHANGED refreshTimer
       ELSE /\ refreshTimer' = generation
            /\ IF phase = "asked" /\ ~PassedOn(Head(toClient))
               THEN Reconnect(outcome)
               ELSE /\ IF phase = "asked"
                       THEN phase' = "offered" /\ ToHost(Frame("offer", generation, privacy))
                       ELSE UNCHANGED <<phase, toHost>>
                    /\ UNCHANGED <<generation, inFlight, outcome, notices, attempts, signaling>>
    /\ UNCHANGED <<Rest, faults, hostPrivacy, hostUp, sessionVars, privacy, relayed>>

IceAnswered ==
    /\ TookByClient("answer")
    /\ phase' = IF phase = "offered" THEN "answered" ELSE phase
    /\ UNCHANGED <<Rest, generation, inFlight, outcome, notices, faults, signaling, toHost,
                   hostPrivacy, hostUp, sessionVars, iceVars>>

IceFailed ==
    /\ TookByClient("ice.error")
    /\ Reconnect(outcome)
    /\ UNCHANGED <<Rest, faults, hostPrivacy, hostUp, sessionVars, privacy, refreshTimer, relayed>>

\* Both sides look at the pair when they are connected, each by its own policy.
PairAccepted(pair) ==
    /\ privacy = "relay" => pair
    /\ policy[generation] = "relay" => pair

\* The peers connect, the channel opens, and auth.begin is sent; or a pair is refused,
\* by the client or by the host.
ChannelOpens(pair) ==
    /\ ~closed /\ phase = "answered" /\ generation \in peers
    /\ IF PairAccepted(pair)
       THEN /\ phase' = "channel" /\ relayed' = pair
            /\ UNCHANGED <<generation, inFlight, outcome, notices, attempts, bridgeVars, sessionVars,
                           faults>>
       ELSE /\ Fault
            /\ Reconnect(outcome)
            /\ UNCHANGED <<relayed, toClient, sessionVars>>
    /\ UNCHANGED <<Rest, hostPrivacy, hostUp, privacy, refreshTimer>>

\* auth.ready after the challenge and its proof: flushOutbound, then the application is
\* told.  A frame that is refused ends both.
ChannelReady ==
    /\ ~closed /\ phase = "channel" /\ generation \in peers
    /\ phase' = "ready" /\ attempts' = 0
    /\ \/ /\ Flush
          /\ notices' = Append(notices, "open")
          /\ UNCHANGED <<refused, faults>>
       \/ /\ queue # <<>> /\ Fault /\ refused' = TRUE
          /\ \E n \in 1..Len(queue) : FlushRefused(n)
          /\ UNCHANGED notices
    /\ UNCHANGED <<kind, closed, generation, outcome, asked, down, executed, gatewayVars, privacy,
                   refreshTimer, relayed>>

\* The host gave the session up: the channel closes, or nothing will come.
GivenUp ==
    \/ phase \in {"answered", "channel", "ready"} /\ generation \notin peers
    \/ phase \in {"asked", "offered"} /\ signaling[generation] = "none" /\ toClient = <<>>

\* What ends an attempt: the connection timer, a failed or closed channel, the bridge's
\* socket.
AttemptFails ==
    /\ ~closed /\ phase \in OnBridge
    /\ IF GivenUp THEN UNCHANGED faults ELSE Fault
    /\ Reconnect(outcome)
    /\ UNCHANGED <<Rest, toClient, hostPrivacy, hostUp, sessionVars, privacy, refreshTimer, relayed>>

\* With the bridge go the frames on their way.
BridgeRestarts ==
    /\ ~closed /\ phase \in OnBridge /\ Fault
    /\ Fence(outcome)
    /\ Dispose
    /\ toClient' = <<>>
    /\ UNCHANGED <<Rest, privacy, refreshTimer, relayed>>

\* The timer that refreshes the credentials.  teardownAttempt does not clear it: when it
\* fires after its generation, it ends the attempt that is under way.
RefreshFires ==
    /\ ~closed /\ refreshTimer # NoSession
    /\ refreshTimer' = NoSession
    /\ IF refreshTimer = generation /\ signaling[generation] # "none"
       THEN /\ ToHost(Frame("ice.refresh", generation, privacy))
            /\ UNCHANGED <<phase, generation, inFlight, outcome, notices, attempts, signaling>>
       ELSE IF phase \in OnBridge THEN Reconnect(outcome)
       ELSE UNCHANGED <<phase, generation, inFlight, outcome, notices, attempts, signaling, toHost>>
    /\ UNCHANGED <<Rest, faults, toClient, hostPrivacy, hostUp, sessionVars, privacy, relayed>>

\* close(), by the application or because the host is not the one that is pinned.
IceCloses ==
    /\ ~closed /\ Fault
    /\ closed' = TRUE
    /\ refreshTimer' = NoSession
    /\ outcome' = Settled(outcome, ToSet(queue \o inFlight), "failed")
    /\ queue' = <<>> /\ inFlight' = <<>>
    /\ NotifyClose
    /\ IF phase \in OnBridge THEN BridgeCloses(generation) ELSE UNCHANGED <<signaling, toHost>>
    /\ UNCHANGED <<kind, phase, generation, asked, wireVars, refused, toClient, hostPrivacy, hostUp,
                   sessionVars, privacy, attempts, relayed>>

IceNext ==
    /\ kind = "ice"
    /\ \/ \E r \in Requests : IceRequest(r) \/ IceTimeout(r)
       \/ \E r \in Requests : RequestClosed(r) /\ UNCHANGED <<gatewayVars, iceVars>>
       \/ \E g \in Generations :
             (HostExecutes(g) \/ ConnectionEnds(g)) /\ UNCHANGED <<gatewayVars, iceVars>>
       \/ IceResult \/ BeginAttempt \/ AskIce \/ IceRefused \/ StaleFrame \/ IceConfigured
       \/ IceAnswered \/ IceFailed \/ \E pair \in BOOLEAN : ChannelOpens(pair)
       \/ ChannelReady \/ AttemptFails \/ BridgeRestarts \/ RefreshFires \/ IceCloses
       \/ IceGatewayNext /\ UNCHANGED iceVars

(***************************************************************************)
(* Properties.                                                             *)
(***************************************************************************)
\* A connection that either side wants relayed goes through relays at both ends.
RelayOnly ==
    kind = "ice" /\ phase \in {"channel", "ready"} /\ generation \in peers
        /\ "relay" \in {privacy, hostPrivacy} => relayed

\* The application hears of openings and closings in turn, across every generation,
\* unless a frame of flushOutbound was refused.
NoticesAlternate ==
    kind = "ice" /\ ~refused => \A i \in 1..(Len(notices) - 1) : notices[i] # notices[i + 1]
=============================================================================
