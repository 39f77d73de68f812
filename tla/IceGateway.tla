------------------------------ MODULE IceGateway ------------------------------
(***************************************************************************)
(* The signaling of one client through one JanjaBridge (relaySignal of     *)
(* apps/rendezvous/src/main.ts) to the ICE gateway of a host               *)
(* (apps/janjanode/src/ice-gateway.ts).                                    *)
(*                                                                         *)
(* A session is the connection attempt it belongs to.  The bridge passes a *)
(* frame on in the step that sends it.  Descriptions and candidates are    *)
(* part of the offer and its answer; a malformed one is not modelled.  An  *)
(* answer of the TURN issuer that comes after its request was given up has *)
(* another requestId, and is nothing.                                      *)
(***************************************************************************)
EXTENDS Transport

CONSTANT NoSession

ASSUME SessionAssumption == NoSession \notin Generations

VARIABLES
    hostPrivacy,     \* JC_NETWORK_PRIVACY of the host: "direct" or "relay"
    hostUp,          \* the host is registered at the bridge, and its gateway attached
    signaling,       \* the bridge: [sessions -> "none", "open" or "authorized"]
    toHost,          \* frames the bridge passed to the host
    toClient,        \* frames the bridge passed to the client
    authorized,      \* authorizedSessions: SUBSET Generations, and
    policy,          \* [Generations -> their networkPrivacy]
    configured,      \* sessionConfigurations
    peers,           \* the sessions with a PeerConnection
    turnQueue, activeTurn    \* the requests for TURN credentials

bridgeVars  == <<signaling, toHost, toClient>>
sessionVars == <<authorized, policy, configured, peers, turnQueue, activeTurn>>
gatewayVars == <<hostPrivacy, hostUp, bridgeVars, sessionVars>>

Privacy == {"direct", "relay"}
Stricter(a, b) == IF "relay" \in {a, b} THEN "relay" ELSE "direct"

GatewayInit ==
    /\ hostPrivacy \in Privacy /\ hostUp = TRUE
    /\ signaling = [g \in Generations |-> "none"]
    /\ toHost = <<>> /\ toClient = <<>>
    /\ authorized = {} /\ policy = [g \in Generations |-> "direct"]
    /\ configured = {} /\ peers = {}
    /\ turnQueue = <<>> /\ activeTurn = NoSession

Frame(type, g, privacy) == [type |-> type, session |-> g, privacy |-> privacy]

(***************************************************************************)
(* The bridge.                                                             *)
(***************************************************************************)
\* A frame of the client that the bridge passes on.
ToHost(f) == toHost' = Append(toHost, f)

\* A frame of a session the bridge still has, from the host or to it.  ice.config authorizes the
\* session, ice.error ends it.
PassedOn(f) == signaling[f.session] # "none"

SignalingAfter(f) ==
    CASE f.type = "ice.error"  -> "none"
      [] f.type = "ice.config" -> "authorized"
      [] OTHER                 -> signaling[f.session]

FromHost(f) ==
    /\ toClient' = IF PassedOn(f) THEN Append(toClient, f) ELSE toClient
    /\ signaling' = IF PassedOn(f) THEN [signaling EXCEPT ![f.session] = SignalingAfter(f)]
                    ELSE signaling

\* closeSignalingSession at the client's word, or when its socket closes.
BridgeCloses(g) ==
    /\ signaling' = [signaling EXCEPT ![g] = "none"]
    /\ toHost' = IF signaling[g] # "none" THEN Append(toHost, Frame("signal.close", g, "direct"))
                 ELSE toHost

(***************************************************************************)
(* The gateway's requests for TURN credentials, one at a time.  Each of    *)
(* these says what becomes of the queue q and of the active request a.     *)
(***************************************************************************)
\* pumpTurnRequests.
Pump(q, a) ==
    IF a = NoSession /\ q # <<>> THEN turnQueue' = Tail(q) /\ activeTurn' = Head(q)
    ELSE turnQueue' = q /\ activeTurn' = a

\* deviation: the request of a session that is gone is not replaced by the next
CleanupStalls(g) ==
    /\ authorized' = authorized \ {g} /\ configured' = configured \ {g} /\ peers' = peers \ {g}
    /\ turnQueue' = Without(turnQueue, g)
    /\ activeTurn' = IF activeTurn = g THEN NoSession ELSE activeTurn
    /\ UNCHANGED policy

\* deviation: the requests of a session that is gone stay queued
CleanupKeepsRequests(g) ==
    /\ authorized' = authorized \ {g} /\ configured' = configured \ {g} /\ peers' = peers \ {g}
    /\ Pump(turnQueue, IF activeTurn = g THEN NoSession ELSE activeTurn)
    /\ UNCHANGED policy

\* cleanupSession, whose microtask is part of it.
Cleanup(g) ==
    /\ authorized' = authorized \ {g} /\ configured' = configured \ {g} /\ peers' = peers \ {g}
    /\ Pump(Without(turnQueue, g), IF activeTurn = g THEN NoSession ELSE activeTurn)
    /\ UNCHANGED policy

\* requestTurn: one request of a session at a time.
RequestTurn(g) ==
    IF activeTurn = g \/ g \in ToSet(turnQueue) THEN UNCHANGED <<turnQueue, activeTurn>>
    ELSE Pump(Append(turnQueue, g), activeTurn)

\* completeTurnRequest, with credentials or, after 1.5 s, without.
CompleteTurn(g, credentials) ==
    IF policy[g] = "relay" /\ ~credentials
    THEN Cleanup(g) /\ FromHost(Frame("ice.error", g, "relay"))
    ELSE /\ configured' = configured \cup {g}
         /\ FromHost(Frame("ice.config", g, policy[g]))
         /\ Pump(turnQueue, NoSession)
         /\ UNCHANGED <<authorized, policy, peers>>

TurnAnswered(credentials) ==
    /\ credentials \/ faults < MaxFaults
    /\ faults' = IF credentials THEN faults ELSE faults + 1
    /\ activeTurn # NoSession /\ CompleteTurn(activeTurn, credentials)
    /\ UNCHANGED <<hostPrivacy, hostUp, toHost>>

(***************************************************************************)
(* Frames from the bridge: onMessage.                                      *)
(***************************************************************************)
Took(type) ==
    /\ hostUp /\ toHost # <<>> /\ Head(toHost).type = type
    /\ toHost' = Tail(toHost)

\* ice.request: authorizeAccess may refuse it, a proof may have expired.
IceRequested(granted) ==
    LET f == Head(toHost) IN
    /\ Took("ice.request")
    /\ granted \/ faults < MaxFaults
    /\ faults' = IF granted THEN faults ELSE faults + 1
    /\ IF granted
       THEN /\ authorized' = authorized \cup {f.session}
            /\ policy' = [policy EXCEPT ![f.session] = Stricter(hostPrivacy, f.privacy)]
            /\ RequestTurn(f.session)
            /\ UNCHANGED <<signaling, toClient>>
       ELSE /\ FromHost(Frame("ice.error", f.session, "direct"))
            /\ UNCHANGED <<authorized, policy, turnQueue, activeTurn>>
    /\ UNCHANGED <<configured, peers, hostPrivacy, hostUp>>

\* ice.refresh.
IceRefreshed ==
    LET g == Head(toHost).session IN
    /\ Took("ice.refresh")
    /\ IF g \notin authorized
       THEN FromHost(Frame("ice.error", g, "direct")) /\ UNCHANGED <<turnQueue, activeTurn>>
       ELSE /\ IF g \in configured THEN RequestTurn(g) ELSE UNCHANGED <<turnQueue, activeTurn>>
            /\ UNCHANGED <<signaling, toClient>>
    /\ UNCHANGED <<authorized, policy, configured, peers, hostPrivacy, hostUp, faults>>

\* openPeer: a session that is not configured is refused, and so is one more than the
\* gateway has room for, whose authorization stays.
OfferArrives(room) ==
    LET g == Head(toHost).session IN
    /\ Took("offer")
    /\ room \/ faults < MaxFaults
    /\ faults' = IF room THEN faults ELSE faults + 1
    /\ IF g \in authorized \cap configured /\ room
       THEN /\ peers' = peers \cup {g}
            /\ FromHost(Frame("answer", g, policy[g]))
       ELSE /\ FromHost(Frame("ice.error", g, policy[g]))
            /\ peers' = IF g \in authorized \cap configured THEN peers \ {g} ELSE peers
    /\ UNCHANGED <<authorized, policy, configured, turnQueue, activeTurn, hostPrivacy, hostUp>>

SignalClosed ==
    /\ Took("signal.close")
    /\ Cleanup(Head(toHost).session)
    /\ UNCHANGED <<signaling, toClient, hostPrivacy, hostUp, faults>>

\* A session that nothing was heard of for ten minutes.
SessionExpires(g) ==
    /\ g \in authorized /\ g # generation
    /\ Cleanup(g)
    /\ UNCHANGED <<bridgeVars, hostPrivacy, hostUp, faults>>

(***************************************************************************)
(* The host's socket to the bridge closes: dispose, and unbindSocket at    *)
(* the bridge.  A bridge that restarts loses the frames to the client too. *)
(***************************************************************************)
Dispose ==
    /\ hostUp' = FALSE /\ toHost' = <<>>
    /\ signaling' = [g \in Generations |-> "none"]
    /\ authorized' = {} /\ configured' = {} /\ peers' = {}
    /\ turnQueue' = <<>> /\ activeTurn' = NoSession
    /\ UNCHANGED <<policy, hostPrivacy>>

HostUnbinds ==
    /\ hostUp /\ Fault
    /\ Dispose
    /\ UNCHANGED toClient

\* The host renews its registration on the socket it has: the bridge closes the signaling of
\* that socket, of which the gateway, whose socket it is, hears nothing, and keeps what it has.
\* The client takes no notice either.
HostRegisters ==
    /\ hostUp /\ Fault
    /\ \E g \in Generations : signaling[g] # "none"
    /\ signaling' = [g \in Generations |-> "none"]
    /\ UNCHANGED <<hostPrivacy, hostUp, toHost, toClient, sessionVars>>

HostReturns ==
    /\ ~hostUp /\ hostUp' = TRUE
    /\ UNCHANGED <<hostPrivacy, bridgeVars, sessionVars, faults>>

IceGatewayNext ==
    /\ \/ \E yes \in BOOLEAN : TurnAnswered(yes) \/ IceRequested(yes) \/ OfferArrives(yes)
       \/ IceRefreshed \/ SignalClosed
       \/ \E g \in Generations : SessionExpires(g)
       \/ HostUnbinds \/ HostRegisters \/ HostReturns
    /\ UNCHANGED <<kind, connectionVars, requestVars, wireVars, notices, refused>>

(***************************************************************************)
(* Properties.                                                             *)
(***************************************************************************)
\* Requests for credentials never wait for nobody: with a bridge there, one is active
\* whenever one is queued, whichever way the one before it ended.
TurnNeverStalls == turnQueue # <<>> => activeTurn # NoSession

\* Nothing of a session outlives its authorization: a configuration, a peer, a request.
SessionsAreAuthorized ==
    configured \cup peers \cup ToSet(turnQueue) \cup ({activeTurn} \ {NoSession}) \subseteq authorized
=============================================================================
