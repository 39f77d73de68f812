---------------------------- MODULE DesktopHosting ----------------------------
(***************************************************************************)
(* The main process of the desktop application as the host of a community  *)
(* (apps/desktop/electron/main.mjs): the JanjaNode it forks, the calls of  *)
(* its window that reconfigure, restart or leave it, the watchdog, and     *)
(* what they leave on disk when the application dies.                      *)
(*                                                                         *)
(* A call runs from one await to the next without interruption, and then   *)
(* any other call may run.  What it carries over an await is in its record.*)
(* What the client of a call gets from the host is not modelled: it opens  *)
(* or it does not.                                                         *)
(***************************************************************************)
EXTENDS DesktopDisk, TunnelProviders

CONSTANTS
    Slots,         \* calls of the window that can be in progress together
    Hosts,         \* bound: the JanjaNode processes of one application run
    MaxCalls,      \* bound: calls of the window, and launches
    MaxFaults      \* bound: crashes, wedged hosts, restored files, failed removals

ASSUME HostingAssumption ==
    /\ Tunnels = Providers
    /\ None \notin Hosts /\ Hosts # {} /\ "watchdog" \notin Slots
    /\ MaxCalls \in Nat /\ MaxFaults \in Nat

VARIABLES
    app,           \* "off", "window" or "background"
    disk,
    hostProcess,   \* Hosts or None
    state,         \* [Hosts -> ProcessState]
    killed,        \* SUBSET Hosts: kill() was called
    started,       \* [Hosts -> what it was started with, or None]
    serverState,   \* BOOLEAN: there is one
    primary,       \* the registry has a primary community
    running,       \* runningProviderId
    failures,      \* hostWatchdogFailures
    calls,         \* [Slots \cup {Watchdog} -> Call]
    wanted,        \* autostart was asked for, and not taken back since
    made, faults   \* the bounds

hostVars  == <<hostProcess, state, killed, started>>
appVars   == <<serverState, primary, running, failures>>
boundVars == <<made, faults>>
vars == <<app, disk, hostVars, appVars, calls, tunnelVars, wanted, boundVars>>

\* exited: the exit event is still to come.
ProcessState == {"none", "starting", "serving", "wedged", "exited", "gone"}
Alive(p)     == state[p] \in {"starting", "serving", "wedged"}
HoldsPort(p) == state[p] \in {"serving", "wedged"}

Watchdog == "watchdog"
Ops == {"bridge.add", "bridge.remove", "provider.start", "provider.stop", "create", "activate",
        "visit", "join"}
ProviderOps   == {"provider.start", "provider.stop"}

\* A call: what it awaits, and what it has read before: a configuration, the process that
\* is to exit, the provider that is to stop.  `alone`, of a call of the providers, is the
\* one field the code does not have: none has been in progress together with it.
Idle == [op |-> "none", pc |-> "idle", arg |-> None, config |-> DefaultConfig, process |-> None,
         target |-> None, alone |-> TRUE]

Busy == {c \in DOMAIN calls : calls[c] # Idle}

ProviderCalls == {c \in Busy : calls[c].op \in ProviderOps}

Init ==
    /\ app = "off"
    /\ disk \in FirstDisks
    /\ hostProcess = None
    /\ state = [p \in Hosts |-> "none"]
    /\ killed = {} /\ started = [p \in Hosts |-> None]
    /\ serverState = FALSE /\ primary = (disk.db # "none") /\ running = None /\ failures = 0
    /\ calls = [c \in Slots \cup {Watchdog} |-> Idle]
    /\ TunnelsInit
    /\ wanted = FALSE
    /\ made = 0 /\ faults = 0

(***************************************************************************)
(* Processes.  Each of these says what becomes of hostVars, given `d`, the *)
(* disk as the code that calls it has left it.                             *)
(***************************************************************************)
Unused == {p \in Hosts : state[p] = "none"}

\* deviation: a host that is there already is not looked for
SpawnAnother(d, h, s, k) ==
    IF KeyFails(d) \/ Unused = {}
    THEN /\ hostProcess' = h /\ state' = s /\ killed' = k
         /\ disk' = d
         /\ UNCHANGED started
    ELSE LET p == CHOOSE p \in Unused : TRUE
         IN  /\ hostProcess' = p
             /\ state' = [s EXCEPT ![p] = "starting"]
             /\ started' = [started EXCEPT ![p] = Material(Stored(d))]
             /\ killed' = k
             /\ disk' = Last(EnsureKey(d))

\* spawnHost, after the processes' states became s, those killed k and the tracked one
\* h.  It reads the configuration now, and first sees to the key of the database.
SpawnThrows(d, h) == h = None /\ KeyFails(d)

SpawnHost(d, h, s, k) ==
    IF h # None \/ KeyFails(d) \/ Unused = {}
    THEN /\ hostProcess' = h /\ state' = s /\ killed' = k
         /\ disk' = d
         /\ UNCHANGED started
    ELSE LET p == CHOOSE p \in Unused : TRUE
         IN  /\ hostProcess' = p
             /\ state' = [s EXCEPT ![p] = "starting"]
             /\ started' = [started EXCEPT ![p] = Material(Stored(d))]
             /\ killed' = k
             /\ disk' = Last(EnsureKey(d))

\* stopHost, and the first half of stopHostForRestart.
KillHost ==
    /\ hostProcess' = None
    /\ killed' = IF hostProcess = None THEN killed ELSE killed \cup {hostProcess}
    /\ UNCHANGED <<state, started>>

\* The port is free, or it is not and the process throws.
HostListens(p) ==
    /\ state[p] = "starting"
    /\ state' = [state EXCEPT ![p] = IF \E q \in Hosts : HoldsPort(q) THEN "exited" ELSE "serving"]
    /\ disk' = IF disk.db = "none" THEN [disk EXCEPT !.db = "new"] ELSE disk
    /\ UNCHANGED <<app, hostProcess, killed, started, appVars, calls, tunnelVars, wanted,
                   boundVars>>

HostWedges(p) ==
    /\ state[p] = "serving" /\ faults < MaxFaults
    /\ state' = [state EXCEPT ![p] = "wedged"]
    /\ faults' = faults + 1
    /\ UNCHANGED <<app, disk, hostProcess, killed, started, appVars, calls, tunnelVars,
                   wanted, made>>

\* No handler of the signal: a process that was killed exits, wedged or not.  Another
\* exits by a crash.
HostExits(p) ==
    /\ Alive(p)
    /\ p \in killed \/ faults < MaxFaults
    /\ state' = [state EXCEPT ![p] = "exited"]
    /\ faults' = IF p \in killed THEN faults ELSE faults + 1
    /\ UNCHANGED <<app, disk, hostProcess, killed, started, appVars, calls, tunnelVars,
                   wanted, made>>

(***************************************************************************)
(* A restart: restartHostedServer, of the call in slot c.  It stops what   *)
(* is tracked and awaits its exit, spawns, and awaits a connection.        *)
(***************************************************************************)
Await(c, pc, process) == [calls EXCEPT ![c].pc = pc, ![c].process = process]
Done(c)               == [calls EXCEPT ![c] = Idle]

\* deviation: a restart that is in progress already is left to do it
BeginRestartJoined(c) ==
    IF \E x \in Busy \ {c} : calls[x].pc = "opening"
    THEN calls' = Done(c) /\ UNCHANGED hostVars
    ELSE /\ KillHost
         /\ calls' = IF hostProcess = None THEN Done(c) ELSE Await(c, "stopping", hostProcess)

\* Without a host it is done at once.
BeginRestart(c) ==
    /\ KillHost
    /\ calls' = IF hostProcess = None THEN Done(c) ELSE Await(c, "stopping", hostProcess)

\* Its old host is gone, or given up on: what the call in slot c does next, in the
\* processes' states s, those killed k and the tracked one h.  A visit of a remote
\* community needs no host.
Resume(c, h, s, k) ==
    IF calls[c].op = "visit"
    THEN /\ hostProcess' = h /\ state' = s /\ killed' = k
         /\ calls' = Await(c, "remote", None)
         /\ UNCHANGED <<started, disk>>
    ELSE /\ SpawnHost(disk, h, s, k)
         /\ calls' = IF SpawnThrows(disk, h) THEN Done(c) ELSE Await(c, "opening", None)

Waiting(p) == {c \in Busy : calls[c].pc = "stopping" /\ calls[c].process = p}

\* The exit event: the handler, and whoever awaits it goes on at once.
ExitEvent(p) ==
    LET s == [state EXCEPT ![p] = "gone"]
        h == IF hostProcess = p THEN None ELSE hostProcess
    IN  /\ state[p] = "exited"
        /\ IF Waiting(p) # {}
           THEN Resume(CHOOSE c \in Waiting(p) : TRUE, h, s, killed)
           ELSE hostProcess' = h /\ state' = s /\ UNCHANGED <<killed, started, disk, calls>>
        /\ UNCHANGED <<app, appVars, tunnelVars, wanted, boundVars>>

\* Five seconds without an exit.  A restart gives up; closeActiveCommunitySession
\* stops whatever is tracked by now, and its caller goes on.
StopTimeout(c) ==
    /\ calls[c].pc = "stopping" /\ Alive(calls[c].process)
    /\ faults < MaxFaults /\ faults' = faults + 1
    /\ IF calls[c].op \in {"activate", "visit"}
       THEN Resume(c, None, state, IF hostProcess = None THEN killed ELSE killed \cup {hostProcess})
       ELSE calls' = Done(c) /\ UNCHANGED <<hostVars, disk>>
    /\ UNCHANGED <<app, appVars, tunnelVars, wanted, made>>

\* The connection opens and the host answers with its state ...
HostOpens(c) ==
    /\ calls[c].pc = "opening"
    /\ hostProcess # None /\ \E p \in Hosts : state[p] = "serving"
    /\ serverState' = TRUE
    /\ primary' = (primary \/ calls[c].op \in {"create", "activate"})
    /\ calls' = Done(c)
    /\ UNCHANGED <<app, disk, hostVars, running, failures, tunnelVars, wanted, boundVars>>

\* ... or it does not within the deadline, or no host is tracked any more.
OpenFails(c) ==
    /\ calls[c].pc = "opening"
    /\ calls' = Done(c)
    /\ UNCHANGED <<app, disk, hostVars, appVars, tunnelVars, wanted, boundVars>>

(***************************************************************************)
(* The calls of the window.                                                *)
(***************************************************************************)
\* Nothing keeps the calls of the window apart: each may begin while any is in progress.
MayBegin(c) == app = "window" /\ calls[c] = Idle /\ made < MaxCalls

Begin(c, op, pc, arg) ==
    /\ MayBegin(c)
    /\ calls' = [calls EXCEPT ![c] = [Idle EXCEPT !.op = op, !.pc = pc, !.arg = arg]]
    /\ made' = made + 1

\* A call throws: the one that started a provider stops it again.
Fail(c) == IF calls[c].op = "provider.start" /\ running = calls[c].arg
           THEN Await(c, "undoing", None) ELSE Done(c)

\* applyConnectivityConfigAndReconfigure: write, refresh the bundle, restart.
ApplySteps(next) ==
    LET written == WriteConfig(disk, next)
    IN  IF next.background THEN written \o Refresh(Last(written), next) ELSE written

\* Its refresh fails: what was there is written again.
RollbackSteps(next) ==
    LET written == WriteConfig(disk, next)
    IN  written \o WriteConfig(Last(written), Stored(disk))

Apply(c, next) ==
    \/ /\ Trusted(disk)
       /\ disk' = Last(ApplySteps(next))
       /\ BeginRestart(c)
       /\ UNCHANGED faults
    \/ /\ Trusted(disk) /\ next.background
       /\ faults < MaxFaults /\ faults' = faults + 1
       /\ disk' = Last(RollbackSteps(next))
       /\ calls' = Fail(c)
       /\ UNCHANGED hostVars
    \/ /\ ~Trusted(disk)
       /\ calls' = Fail(c)
       /\ UNCHANGED <<disk, hostVars, faults>>

\* connectivity.bridge.add and connectivity.bridge.remove read the configuration when
\* they apply it.
BridgeCall(c, op, b) ==
    /\ op \in {"bridge.add", "bridge.remove"}
    /\ Begin(c, op, "applying", b)
    /\ UNCHANGED <<app, disk, hostVars, appVars, tunnelVars, wanted, faults>>

\* deviation: the fields that do not change are left out of the new configuration
CallChangeAlone(c) ==
    LET b == calls[c].arg
    IN  CASE calls[c].op = "bridge.add" -> [DefaultConfig EXCEPT !.bridges = {b}]
          [] calls[c].op = "bridge.remove" -> DefaultConfig
          [] OTHER -> [DefaultConfig EXCEPT !.route = b]

\* The configuration that the call in slot c stores.
CallChange(c) ==
    LET config == Stored(disk)
        b      == calls[c].arg
    IN  CASE calls[c].op = "bridge.add" -> [config EXCEPT !.bridges = @ \cup {b}]
          [] calls[c].op = "bridge.remove" -> [config EXCEPT !.bridges = @ \ {b}]
          [] OTHER -> [config EXCEPT !.route = b]

RunningOr(route) == IF running # None THEN running ELSE route

BridgeApplies(c) ==
    /\ calls[c].pc = "applying"
    /\ calls[c].op = "bridge.remove" => calls[c].arg \in Stored(disk).bridges
    /\ calls[c].op = "provider.stop" => RunningOr(Stored(disk).route) = None
    /\ Apply(c, CallChange(c))
    /\ UNCHANGED <<app, appVars, tunnelVars, wanted, made>>

\* A bridge that does not answer, or is not configured; a route that delivers no host,
\* or another.
ProbeFails(c) ==
    /\ calls[c].pc = "applying"
    /\ calls' = Fail(c)
    /\ UNCHANGED <<app, disk, hostVars, appVars, tunnelVars, wanted, boundVars>>

\* The call in slot c becomes `call`, of a provider, and is no longer alone with those
\* that are in progress.
BeginProvider(c, call) ==
    /\ MayBegin(c) /\ made' = made + 1
    /\ calls' = [x \in DOMAIN calls |->
           CASE x = c -> IF call = Idle THEN Idle ELSE [call EXCEPT !.alone = (ProviderCalls = {})]
             [] x \in ProviderCalls -> [calls[x] EXCEPT !.alone = FALSE]
             [] OTHER -> calls[x]]

\* What an adapter may answer at once: that it runs, as its child does while it starts.
ChildStarts(p) == p \in Processes /\ \E x \in Slots : calls[x].pc = "starting" /\ calls[x].arg = p
Refusals(p)    == IF AlreadyRunning(p) THEN {TRUE} ELSE {FALSE, ChildStarts(p)}

\* What becomes of a call that starts p while `run` runs.
Entered(call, p, run, refused) ==
    CASE ~refused -> [call EXCEPT !.pc = "starting", !.target = None]
      [] refused /\ run = p -> [call EXCEPT !.pc = "undoing", !.target = None]
      [] OTHER -> Idle

\* connectivity.provider.start: it stops the provider that runs, starts its own,
\* probes the route, and applies it.
ProviderStart(c, p) ==
    LET call == [Idle EXCEPT !.op = "provider.start", !.arg = p]
    IN  /\ hostProcess # None /\ serverState
        /\ IF running \in {None, p}
           THEN \E refused \in Refusals(p) : BeginProvider(c, Entered(call, p, running, refused))
           ELSE BeginProvider(c, [call EXCEPT !.pc = "switching", !.target = running])
        /\ UNCHANGED <<app, disk, hostVars, appVars, tunnelVars, wanted, faults>>

\* deviation: the provider that runs is forgotten before it is stopped
SwitchedUnstopped(c) ==
    /\ calls[c].pc = "switching"
    /\ running' = None
    /\ \E refused \in Refusals(calls[c].arg) :
          calls' = [calls EXCEPT ![c] = Entered(calls[c], calls[c].arg, None, refused)]
    /\ UNCHANGED <<app, disk, hostVars, serverState, primary, failures, tunnelVars, wanted,
                   boundVars>>

ProviderSwitched(c) ==
    /\ calls[c].pc = "switching"
    /\ Stop(calls[c].target)
    /\ running' = None
    /\ \E refused \in Refusals(calls[c].arg) :
          calls' = [calls EXCEPT ![c] = Entered(calls[c], calls[c].arg, None, refused)]
    /\ UNCHANGED <<app, disk, hostVars, serverState, primary, failures, wanted, boundVars>>

ProviderStarted(c) ==
    /\ calls[c].pc = "starting"
    /\ Start(calls[c].arg)
    /\ running' = calls[c].arg
    /\ calls' = Await(c, "applying", None)
    /\ UNCHANGED <<app, disk, hostVars, serverState, primary, failures, wanted, boundVars>>

ProviderFails(c) ==
    /\ calls[c].pc = "starting"
    /\ StartFails(calls[c].arg)
    /\ calls' = Fail(c)
    /\ UNCHANGED <<app, disk, hostVars, appVars, wanted, boundVars>>

ProviderUndone(c) ==
    /\ calls[c].pc = "undoing"
    /\ Stop(calls[c].arg)
    /\ running' = None
    /\ calls' = Done(c)
    /\ UNCHANGED <<app, disk, hostVars, serverState, primary, failures, wanted, boundVars>>

\* connectivity.provider.stop: which provider it stops, and what it writes at the end, it
\* reads at the beginning; with none to stop it waits for nothing in between.
ProviderStop(c) ==
    LET p    == RunningOr(Stored(disk).route)
        call == [Idle EXCEPT !.op = "provider.stop", !.pc = "applying"]
    IN  /\ BeginProvider(c, IF p = None THEN call
                            ELSE [call EXCEPT !.pc = "halting", !.config = Stored(disk),
                                              !.target = p])
        /\ UNCHANGED <<app, disk, hostVars, appVars, tunnelVars, wanted, faults>>

ProviderHalts(c) ==
    LET p == calls[c].target
    IN  /\ calls[c].pc = "halting"
        /\ Stop(p)
        /\ running' = None
        /\ Apply(c, [calls[c].config EXCEPT !.route = None])
        /\ UNCHANGED <<app, serverState, primary, failures, wanted, made>>

\* server.create.
Create(c) ==
    /\ ~primary /\ hostProcess = None
    /\ Begin(c, "create", "opening", None)
    /\ SpawnHost(disk, None, state, killed)
    /\ UNCHANGED <<app, appVars, tunnelVars, wanted, faults>>

\* community.activate, of the primary community or of a remote one: the session that
\* is active is closed first, and the host with it.
Activate(c, op) ==
    /\ op \in {"activate", "visit"}
    /\ op = "activate" => primary
    /\ serverState' = FALSE
    /\ MayBegin(c) /\ made' = made + 1
    /\ LET call(pc, p) == [Idle EXCEPT !.op = op, !.pc = pc, !.process = p]
       IN  IF hostProcess # None
           THEN /\ KillHost
                /\ calls' = [calls EXCEPT ![c] = call("stopping", hostProcess)]
                /\ UNCHANGED disk
           ELSE IF op = "visit" \/ SpawnThrows(disk, None)
           THEN /\ calls' = [calls EXCEPT ![c] =
                                IF op = "visit" THEN call("remote", None) ELSE Idle]
                /\ UNCHANGED <<hostVars, disk>>
           ELSE /\ SpawnHost(disk, None, state, killed)
                /\ calls' = [calls EXCEPT ![c] = call("opening", None)]
    /\ UNCHANGED <<app, primary, running, failures, tunnelVars, wanted, faults>>

RemoteOpens(c) ==
    /\ calls[c].pc = "remote"
    /\ serverState' \in {serverState, TRUE}
    /\ calls' = Done(c)
    /\ UNCHANGED <<app, disk, hostVars, primary, running, failures, tunnelVars, wanted,
                   boundVars>>

\* server.join over a bridge: the host's registration is resolved, of a sequence that
\* may be an old one, judged against the high water
\* of the configuration, and that configuration is written when ICE has had its time,
\* whether or not it opened.
Join(c) ==
    /\ Begin(c, "join", "resolving", None)
    /\ UNCHANGED <<app, disk, hostVars, appVars, tunnelVars, wanted, faults>>

\* selectHostRegistrations, of the one grant of the one host that is there: a record is the
\* first, or continues the one the mark is of.  The same is a replay, one left out a conflict.
Continues(config, seq) == config.mark \in {0, seq - 1}

JoinResolved(c) ==
    /\ calls[c].pc = "resolving"
    /\ \E seq \in 1..MaxSeq :
          calls' = IF Trusted(disk) /\ Continues(Stored(disk), seq)
                   THEN [calls EXCEPT ![c].pc = "connecting",
                                      ![c].config = [Stored(disk) EXCEPT !.mark = seq]]
                   ELSE Done(c)
    /\ UNCHANGED <<app, disk, hostVars, appVars, tunnelVars, wanted, boundVars>>

JoinConnected(c) ==
    /\ calls[c].pc = "connecting"
    /\ disk' = IF Trusted(disk) THEN Last(WriteConfig(disk, calls[c].config)) ELSE disk
    /\ serverState' \in {serverState, TRUE}
    /\ calls' = Done(c)
    /\ UNCHANGED <<app, hostVars, primary, running, failures, tunnelVars, wanted, boundVars>>

\* A call that began with autostart on is to store that again.
WritesItBack == \E c \in Busy : calls[c].config.background

\* hosting.autostart; it awaits nothing.  Without a primary community there is no
\* bundle to write.
AutostartOn ==
    /\ app = "window" /\ made < MaxCalls /\ made' = made + 1
    /\ ~Launches(disk)
    /\ IF primary /\ Trusted(disk) /\ ~KeyFails(disk)
       THEN disk' = Last(EnableAutostart(disk)) /\ wanted' = TRUE
       ELSE /\ disk' = Last(IF Trusted(disk) THEN RollbackAutostart(disk, TRUE)
                            ELSE RemoveArtifacts(disk, TRUE))
            /\ wanted' = WritesItBack
    /\ UNCHANGED <<app, hostVars, appVars, calls, tunnelVars, faults>>

\* A store that is not trusted is not written; its artifacts may be removed.
TakesBack(unlinks) == Trusted(disk) \/ unlinks

AutostartOff(unlinks) ==
    /\ app = "window" /\ made < MaxCalls /\ made' = made + 1
    /\ unlinks \/ faults < MaxFaults
    /\ faults' = IF unlinks THEN faults ELSE faults + 1
    /\ disk' = Last(IF Trusted(disk) THEN DisableAutostart(disk, unlinks)
                    ELSE RemoveArtifacts(disk, unlinks))
    /\ wanted' = (WritesItBack \/ (wanted /\ ~TakesBack(unlinks)))
    /\ UNCHANGED <<app, hostVars, appVars, calls, tunnelVars>>

(***************************************************************************)
(* The watchdog: checkHostResponsiveness, two silences and a restart.      *)
(***************************************************************************)
WatchdogTick ==
    /\ app = "window" /\ calls[Watchdog] = Idle
    /\ IF hostProcess = None
       THEN failures # 0 /\ failures' = 0 /\ UNCHANGED calls
       ELSE /\ calls' = [calls EXCEPT ![Watchdog].op = "watchdog", ![Watchdog].pc = "probing"]
            /\ UNCHANGED failures
    /\ UNCHANGED <<app, disk, hostVars, serverState, primary, running, tunnelVars, wanted,
                   boundVars>>

WatchdogAnswered ==
    /\ calls[Watchdog].pc = "probing"
    /\ \E p \in Hosts : state[p] = "serving"
    /\ failures' = 0
    /\ calls' = Done(Watchdog)
    /\ UNCHANGED <<app, disk, hostVars, serverState, primary, running, tunnelVars, wanted,
                   boundVars>>

WatchdogSilent ==
    /\ calls[Watchdog].pc = "probing"
    /\ \A p \in Hosts : state[p] # "serving"
    /\ IF failures = 0
       THEN failures' = 1 /\ calls' = Done(Watchdog) /\ UNCHANGED hostVars
       ELSE failures' = 0 /\ BeginRestart(Watchdog)
    /\ UNCHANGED <<app, disk, serverState, primary, running, tunnelVars, wanted, boundVars>>

(***************************************************************************)
(* The application.                                                        *)
(***************************************************************************)
\* The hosts are its children and end with it; the processes of the next run are new.
AppEnds ==
    /\ app' = "off"
    /\ hostProcess' = None
    /\ state' = [p \in Hosts |-> "none"]
    /\ killed' = {} /\ started' = [p \in Hosts |-> None]
    /\ serverState' = FALSE /\ running' = None /\ failures' = 0
    /\ calls' = [c \in DOMAIN calls |-> Idle]

\* What is being done to the disk when the application dies.
UnderWay ==
    {<<disk>>, EnsureKey(disk)}
    \cup (IF ~Trusted(disk) THEN {} ELSE
          {EnableAutostart(disk), DisableAutostart(disk, TRUE)}
          \cup {ApplySteps(CallChange(c)) : c \in {x \in Busy : calls[x].pc = "applying"}}
          \cup {ApplySteps([calls[c].config EXCEPT !.route = None]) :
                   c \in {x \in Busy : calls[x].pc = "halting"}}
          \cup {WriteConfig(disk, calls[c].config) :
                   c \in {x \in Busy : calls[x].pc = "connecting"}})

Crash ==
    /\ app = "window" /\ faults < MaxFaults
    /\ \E steps \in UnderWay : disk' \in Range(steps)
    /\ wanted' = (wanted \/ Stored(disk').background)
    /\ AppEnds
    /\ Orphans
    /\ faults' = faults + 1
    /\ UNCHANGED <<primary, made>>

\* before-quit, from the window or of a background host.
Quit ==
    /\ app # "off"
    /\ AppEnds
    /\ QuitStop(RunningOr(Stored(disk).route))
    /\ UNCHANGED <<disk, primary, wanted, boundVars>>

LaunchWindow(unlinks) ==
    /\ app = "off" /\ made < MaxCalls /\ made' = made + 1
    /\ unlinks \/ faults < MaxFaults
    /\ faults' = IF unlinks THEN faults ELSE faults + 1
    /\ disk' = Last(Reconcile(disk, unlinks))
    /\ wanted' = (wanted /\ (Launches(disk) \/ ~TakesBack(unlinks)))
    /\ app' = "window"
    /\ UNCHANGED <<hostVars, appVars, calls, tunnelVars>>

\* --background-host: reconcile, and exit or spawnBackgroundHost from the bundle.
LaunchBackground ==
    /\ app = "off" /\ made < MaxCalls /\ made' = made + 1
    /\ disk' = Last(Reconcile(disk, TRUE))
    /\ IF Launches(disk)
       THEN LET p == CHOOSE p \in Unused : TRUE
            IN  /\ app' = "background"
                /\ hostProcess' = p
                /\ state' = [state EXCEPT ![p] = "starting"]
                /\ started' = [started EXCEPT ![p] = disk.bundle]
                /\ UNCHANGED <<killed, wanted>>
       ELSE wanted' = FALSE /\ UNCHANGED <<app, hostVars>>
    /\ UNCHANGED <<appVars, calls, tunnelVars, faults>>

BackupRestored ==
    /\ app = "off" /\ faults < MaxFaults
    /\ disk.older # None
    /\ disk' = [disk EXCEPT !.data = disk.older]
    /\ faults' = faults + 1
    /\ UNCHANGED <<app, hostVars, appVars, calls, tunnelVars, wanted, made>>

TunnelExits(p) ==
    /\ Exits(p)
    /\ faults < MaxFaults /\ faults' = faults + 1
    /\ UNCHANGED <<app, disk, hostVars, appVars, calls, wanted, made>>

Next ==
    \/ \E p \in Hosts : HostListens(p) \/ HostWedges(p) \/ HostExits(p) \/ ExitEvent(p)
    \/ \E c \in Slots :
          \/ \E op \in Ops : Activate(c, op) \/ \E b \in Bridges : BridgeCall(c, op, b)
          \/ \E p \in Providers : ProviderStart(c, p)
          \/ ProviderStop(c) \/ Create(c) \/ Join(c)
          \/ BridgeApplies(c) \/ ProbeFails(c)
          \/ ProviderSwitched(c) \/ ProviderStarted(c) \/ ProviderFails(c) \/ ProviderUndone(c)
          \/ ProviderHalts(c) \/ RemoteOpens(c) \/ JoinResolved(c) \/ JoinConnected(c)
    \/ \E c \in Slots \cup {Watchdog} : StopTimeout(c) \/ HostOpens(c) \/ OpenFails(c)
    \/ WatchdogTick \/ WatchdogAnswered \/ WatchdogSilent
    \/ AutostartOn \/ \E unlinks \in BOOLEAN : AutostartOff(unlinks) \/ LaunchWindow(unlinks)
    \/ Crash \/ Quit \/ LaunchBackground \/ BackupRestored
    \/ \E p \in Providers : TunnelExits(p)

Spec == Init /\ [][Next]_vars

(***************************************************************************)
(* Properties.                                                             *)
(***************************************************************************)
TypeOK ==
    /\ app \in {"off", "window", "background"}
    /\ disk.data \in {None} \cup Config \/ IsEnvelope(disk.data)
    /\ disk.anchor = None \/ IsEnvelope(disk.anchor)
    /\ disk.older = None \/ IsEnvelope(disk.older)
    /\ disk.db \in {"none", "old", "new", "damaged"} /\ disk.backup \in {"none", "partial", "old"}
    /\ hostProcess \in Hosts \cup {None}
    /\ state \in [Hosts -> ProcessState] /\ killed \subseteq Hosts
    /\ \A p \in Hosts : state[p] # "none" => started[p] # None
    /\ running \in Tunnels \cup {None} /\ failures \in 0..1
    /\ app # "window" => Busy = {}
    /\ Cardinality({p \in Hosts : HoldsPort(p)}) <= 1
    /\ held \subseteq Tunnels /\ published \subseteq Tunnels /\ left \subseteq published

\* A JanjaNode that runs is the one the application tracks, or was told to exit: with
\* restarts, sessions that are opened and the watchdog at the same time, and exit
\* events that come late, none is forgotten while it runs.
ProcessesTracked == \A p \in Hosts : Alive(p) /\ p \notin killed => hostProcess = p

\* The host that runs has the bridges and the route that are stored.
Current == hostProcess # None => started[hostProcess] = Material(Stored(disk))

\* Whatever calls change the configuration together, and whichever fail, the host that runs
\* was started with the bridges and the route that are stored, at every moment: but for
\* the calls that write without a restart.  A join stores the configuration that it had read
\* before another call changed it, and from then on the host has what that call made of it.
HostRunsCurrentConfig ==
    [][app' = "window" /\ ~Current' =>
           \/ ~Current /\ UNCHANGED <<hostProcess, started, Material(Stored(disk))>>
           \/ \E c \in Slots : /\ calls[c].pc = "connecting" /\ calls[c].config = Stored(disk)'
                             /\ Material(calls[c].config) # Material(Stored(disk))]_vars

\* The host's data can be opened: the database by one of its keys, or its backup.
HostDataRecoverable == disk.db # "damaged" \/ disk.backup = "old"

\* What is public and not what provider.stop or the end of the application would stop:
\* unless its own stop had failed or the application had died, or it is a share, which may be
\* forgotten.
Untracked ==
    {p \in published \ Shares : (p \in held => p # running) /\ p \notin left \ (held \ Switches)}

\* No route gets out of hand, whatever of start, switch, stop and undo fails, and whatever
\* else is in progress: but by the step of a provider's call that overlapped another one.
RoutesStayTracked ==
    [][~(Untracked' \subseteq Untracked) =>
           \E c \in Slots : /\ calls[c].op \in ProviderOps /\ ~calls[c].alone
                         /\ calls'[c] # calls[c]]_vars

\* A call that is to store the configuration it read before it waited.
Holds(c) == calls[c].pc \in {"halting", "connecting"}

\* The high water of a trusted store never goes back, not through crashes between its
\* files, nor a file that comes back from a backup: but to what a call had read.
MarksOnlyGrow ==
    [][Trusted(disk) /\ Trusted(disk)' /\ Stored(disk)'.mark < Stored(disk).mark =>
           \E c \in Slots : Holds(c) /\ calls[c].config.mark = Stored(disk)'.mark]_vars

\* A bridge that is configured stays until it is removed, or a call ends that read the
\* configuration before it was there.
BridgesStay ==
    [][\A b \in Stored(disk).bridges \ Stored(disk)'.bridges : Trusted(disk) /\ Trusted(disk)' =>
           \E c \in Slots : \/ calls[c].op = "bridge.remove" /\ calls[c].arg = b
                            \/ Holds(c) /\ calls[c].config.bridges = Stored(disk)'.bridges]_vars

\* Once autostart was taken back, no launch starts a host in the background, through
\* crashes, artifacts that could not be removed and restored files, unless a call in
\* progress stores it again.
DisabledStaysOff == [][app' = "background" /\ app = "off" => wanted]_vars

\* No host that the application started is forgotten while it runs.
StartedIsTracked == TypeOK /\ ProcessesTracked

\* The store of the connectivity configuration says what the calls made of it.
StoreIsKept == MarksOnlyGrow /\ BridgesStay /\ DisabledStaysOff
=============================================================================
