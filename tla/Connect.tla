------------------------------- MODULE Connect -------------------------------
(***************************************************************************)
(* The client's connection to a host, over the one transport or the other, *)
(* against what both promise.                                              *)
(***************************************************************************)
EXTENDS HostClient, IceTransport

Promise == INSTANCE TransportPromise

vars == <<transportVars, clientVars, gatewayVars, iceVars>>

Init ==
    /\ TransportInit
    /\ \/ kind = "ws" /\ HostClientInit
          /\ privacy = "direct" /\ attempts = 0 /\ refreshTimer = NoSession /\ relayed = FALSE
          /\ GatewayInit /\ hostPrivacy = "direct"
       \/ kind = "ice" /\ IceInit /\ hostTrust = None /\ proven = None

Next ==
    \/ HostClientNext /\ UNCHANGED <<gatewayVars, iceVars>>
    \/ IceNext /\ UNCHANGED clientVars

\* What happens without a fault: frames are taken, by the client and by the host ...
ClientTakes ==
    /\ kind = "ice" /\ UNCHANGED clientVars
    /\ StaleFrame \/ IceConfigured \/ IceAnswered \/ IceFailed

HostActs(A) ==
    /\ kind = "ice" /\ A
    /\ UNCHANGED <<kind, connectionVars, requestVars, wireVars, notices, refused, iceVars, clientVars>>

HostTakes ==
    HostActs(IceRequested(TRUE) \/ OfferArrives(TRUE) \/ IceRefreshed \/ SignalClosed)

\* ... sockets and channels open, and an attempt that was given up is followed by another.
Attempts ==
    /\ kind = "ice" /\ UNCHANGED clientVars
    /\ \/ BeginAttempt \/ AskIce \/ ChannelOpens(TRUE)
       \/ ChannelReady /\ UNCHANGED refused
       \/ GivenUp /\ AttemptFails

Fairness ==
    /\ WF_vars(ClientTakes) /\ WF_vars(HostTakes) /\ WF_vars(Attempts)
    /\ WF_vars(HostActs(TurnAnswered(TRUE))) /\ WF_vars(HostActs(HostReturns))

Spec == Init /\ [][Next]_vars /\ Fairness

(***************************************************************************)
(* Properties.                                                             *)
(***************************************************************************)
Phases == {"connecting", "begun", "confirming", "proved", "ready", "backoff", "bridge", "asked",
           "offered", "answered", "channel", "stopped"}

TypeOK ==
    /\ phase \in Phases /\ generation \in Generations
    /\ inFlight \in Seq(Requests) /\ queue \in Seq(Requests)
    /\ ToSet(inFlight) \cap ToSet(queue) = {}
    /\ kind = "ws" => Len(inFlight) <= 1
    /\ \A r \in Requests : r \in ToSet(queue \o inFlight) => outcome[r] = "waiting"
    /\ closed => queue \o inFlight = <<>>
    /\ ToSet(up[generation] \o down[generation]) \cap ToSet(queue) = {}

\* Whatever connections were lost and replaced, and whichever results came late: a
\* request is answered by its own result, or fails, once; and the host executes it at
\* most once.
ImplementsPromise == Promise!Spec

\* The host executes requests in the order they were made, but for one that was failed
\* before a later one was sent, unless a frame of flushOutbound was refused.
Before(r, s) == \E i, j \in 1..Len(asked) : i < j /\ asked[i] = r /\ asked[j] = s

InOrder ==
    ~refused => \A i, j \in 1..Len(executed) :
        i < j /\ Before(executed[j], executed[i]) => outcome[executed[j]] = "failed"

\* An attempt does not hang: once nothing fails any more, the client is connected, or
\* was closed, or has no attempt left.
Reconnects == kind = "ice" => <>[](phase \in {"ready", "stopped"} \/ closed)

\* The requests of a client are in one place each and reach the host in order.
RequestsInOrder == TypeOK /\ InOrder

\* What a client talks to, and over what, is what was agreed and authorized: the pinned
\* host, through relays when a side wants them, for a session that lasts, whose
\* credentials somebody asks for, and whose ends and beginnings it is told in turn.
SessionsHold ==
    /\ [](RelayOnly /\ NoticesAlternate /\ TurnNeverStalls /\ SessionsAreAuthorized)
    /\ TrustIsPinned
=============================================================================
