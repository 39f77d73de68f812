--------------------------- MODULE TunnelProviders ---------------------------
(***************************************************************************)
(* The providers that publish the port of a community host                 *)
(* (apps/desktop/electron/connectivity/providers.mjs, behind the registry  *)
(* of index.mjs; subprocess.mjs runs their commands).  There are three     *)
(* kinds: a tunnel process of our own (ngrok, cloudflared), a switch of a  *)
(* system service (tailscale funnel), and a share of an agent that may be  *)
(* ours or the operator's (zrok).                                          *)
(*                                                                         *)
(* What a start or a stop does is one step here, when it ends; whether an  *)
(* adapter refuses to start is asked when it begins.  Two operations of    *)
(* one adapter that overlap happen in the order in which they end.         *)
(***************************************************************************)
EXTENDS FiniteSets

CONSTANTS Processes, Switches, Shares    \* the providers of each kind

Tunnels == Processes \cup Switches \cup Shares

\* A provider is of one kind.
ASSUME KindsAssumption ==
    Processes \cap Switches = {} /\ Shares \cap (Processes \cup Switches) = {}

VARIABLES
    held,        \* the adapter has a child, an active switch, or an agent or share token
    published,   \* the port is reachable through the provider
    left         \* published by what is out of hand: its stop failed, or the app died

tunnelVars == <<held, published, left>>

TunnelsInit == held = {} /\ published = {} /\ left = {}

\* The adapter's already_running; the adapter of the shares has no such guard.  Asked
\* before a start awaits anything.
AlreadyRunning(p) == p \in held \ Shares

\* What stopping p takes from the public.  A process or a share that was left goes on, under
\* a name of its own; a switch is one and the same for every run of the application.
Withdrawn(p) == {p} \ (left \ Switches)

\* start() of an adapter that publishes: its process, its switch or, after the agent and
\* the name are there, its share.
Start(p) ==
    /\ held' = held \cup {p}
    /\ published' = published \cup {p}
    /\ left' = left \ ({p} \cap Switches)

\* start() throws.  A process of ours is terminated ...
ProcessFails(p) == p \in Processes /\ published' = published \ Withdrawn(p) /\ UNCHANGED left

\* ... the switch is turned off again if that works ...
SwitchFails(p) ==
    /\ p \in Switches
    /\ \/ published' = published \ {p} /\ left' = left \ {p}
       \/ published' = published \cup {p} /\ left' = left \cup {p}

\* ... and the share an earlier start made is forgotten, as is its agent.
ShareFails(p) == p \in Shares /\ UNCHANGED <<published, left>>

StartFails(p) ==
    /\ held' = held \ {p}
    /\ ProcessFails(p) \/ SwitchFails(p) \/ ShareFails(p)

\* stop() does what it says ...
Ends(p) ==
    /\ held' = held \ {p}
    /\ published' = IF p \in held THEN published \ Withdrawn(p) ELSE published
    /\ left' = left \cap published'

\* ... or a switch does not turn off and stays active, which the caller is told ...
SwitchStays(p) ==
    /\ p \in Switches \cap held \cap published
    /\ left' = left \cup {p}
    /\ UNCHANGED <<held, published>>

\* ... or the agent does not delete a share, which nobody is told: it stays public.
ShareStays(p) ==
    /\ p \in Shares \cap held \cap published
    /\ held' = held \ {p}
    /\ left' = left \cup {p}
    /\ UNCHANGED published

Stop(p) == Ends(p) \/ SwitchStays(p) \/ ShareStays(p)

\* attachLifecycle: the process exits, or the provider takes the route down; or one that was
\* left does.
Exits(p) ==
    \/ /\ p \in published \cap (held \cup Switches)
       /\ held' = held \ ({p} \ Switches)
       /\ published' = published \ Withdrawn(p)
       /\ left' = left \cap published'
    \/ /\ p \in left \ Switches
       /\ left' = left \ {p}
       /\ published' = published \ ({p} \ held)
       /\ UNCHANGED held

\* The application dies; its tunnels do not.
Orphans ==
    /\ held' = {}
    /\ left' = published
    /\ UNCHANGED published

\* stopProvidersOnQuit: nobody waits for what the stop of `p` does.
QuitStop(p) ==
    /\ published' \in (IF p \notin held THEN {published}
                       ELSE IF p \in Processes THEN {published \ Withdrawn(p)}
                       ELSE {published, published \ Withdrawn(p)})
    /\ held' = {}
    /\ left' = published'
=============================================================================
