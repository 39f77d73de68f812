----------------------------- MODULE DesktopDisk -----------------------------
(***************************************************************************)
(* What the desktop application keeps on disk to host a community          *)
(* (apps/desktop/electron/main.mjs, primary-host-profile.mjs): the         *)
(* authenticated trust store in its three files, the two artifacts that    *)
(* launch a host in the background, the host's database and its backup.    *)
(*                                                                         *)
(* A disk is a record, and what a synchronous piece of code does to it is  *)
(* the sequence of the disks it leaves behind, one after each rename or    *)
(* removal: the code ends with the last of them, a crash with any.         *)
(*                                                                         *)
(* A MAC covers the counter and the payload of an envelope, so an anchor   *)
(* is modelled by the envelope it was made for.  The keyring is there.  Of *)
(* the payload, four fields stand for the rest.                            *)
(***************************************************************************)
EXTENDS Naturals, SequencesExt

CONSTANTS
    Bridges,      \* bridge descriptors
    Providers,    \* tunnel providers
    MaxSeq,       \* bound: registration sequences of the remote host
    None

Config == [bridges: SUBSET Bridges,
           route: Providers \cup {None},    \* activeRoute and providerSettings
           background: BOOLEAN,             \* backgroundHosting
           mark: 0..MaxSeq]                 \* hostHighWater, of the remote host

DefaultConfig == [bridges |-> {}, route |-> None, background |-> FALSE, mark |-> 0]

\* What a host is started with.
Materials == [bridges: SUBSET Bridges, route: Providers \cup {None}]

Material(config) == [bridges |-> config.bridges, route |-> config.route]

\* A store's data is None, a plain config of before it was authenticated, or an
\* envelope; `older` is the envelope a backup of that file still holds.
Envelope == [counter: Nat \ {0}, payload: Config]
IsEnvelope(x) == x # None /\ DOMAIN x = {"counter", "payload"}

Disk == [key: BOOLEAN, data: {None} \cup Config \cup Envelope, anchor: {None} \cup Envelope,
         older: {None} \cup Envelope,
         bundle: {None} \cup Materials,
         entry: BOOLEAN,
         db: {"none", "old", "new", "damaged"}, backup: {"none", "partial", "old"}]

ASSUME DiskAssumption ==
    /\ MaxSeq \in Nat
    /\ None \notin Providers \cup Materials \cup Config \cup Envelope

FirstDisks ==
    {d \in [key: {FALSE}, data: {None, DefaultConfig}, anchor: {None}, older: {None},
            bundle: {None}, entry: {FALSE}, db: {"none", "old"}, backup: {"none"}] :
        d.data = None <=> d.db = "none"}

(***************************************************************************)
(* The trust store: loadAuthenticatedConnectivityStore.                    *)
(***************************************************************************)
Empty(d)  == d.data = None /\ ~d.key /\ d.anchor = None
Legacy(d) == d.data # None /\ ~IsEnvelope(d.data) /\ ~d.key /\ d.anchor = None

Intact(d)  == IsEnvelope(d.data) /\ d.key /\ d.anchor = d.data
Trusted(d) == Empty(d) \/ Legacy(d) \/ Intact(d)

\* readConnectivityConfig: an invalid store reads as the default, without high
\* water and without authority trust.
Stored(d) ==
    CASE Legacy(d) -> d.data
      [] Intact(d) -> d.data.payload
      [] OTHER -> DefaultConfig

\* persistConnectivityStore: the key when there is none, the envelope, the anchor.
Persist(d, config) ==
    LET envelope == [counter |-> IF Intact(d) THEN d.data.counter + 1 ELSE 1, payload |-> config]
        keyed    == [d EXCEPT !.key = TRUE]
        written  == [keyed EXCEPT !.data = envelope,
                                  !.older = IF IsEnvelope(d.data) THEN d.data ELSE @]
    IN  <<keyed, written, [written EXCEPT !.anchor = envelope]>>

\* The first read of a legacy store replaces it.
Migrate(d) == IF Legacy(d) THEN Persist(d, d.data) ELSE <<d>>

\* writeConnectivityConfig, of a store that is trusted; of another it throws.
WriteConfig(d, config) == Migrate(d) \o Persist(Last(Migrate(d)), config)

(***************************************************************************)
(* The launch artifacts.  `unlinks` is FALSE when they cannot be removed.  *)
(***************************************************************************)
RemoveArtifacts(d, unlinks) ==
    IF unlinks THEN <<[d EXCEPT !.bundle = None], [d EXCEPT !.bundle = None, !.entry = FALSE]>>
    ELSE <<d>>

Refresh(d, config) == <<[d EXCEPT !.bundle = Material(config)]>>

\* What reconcileAutostartState answers.
Launches(d) == Stored(d).background /\ d.bundle # None /\ d.entry

\* reconcileAutostartState: an intent without its artifacts is taken back.
Reconcile(d, unlinks) ==
    LET read  == Migrate(d)
        taken == IF Stored(d).background /\ ~Launches(d)
                 THEN read \o WriteConfig(Last(read), [Stored(d) EXCEPT !.background = FALSE])
                 ELSE read
    IN  IF Launches(d) THEN read ELSE taken \o RemoveArtifacts(Last(taken), unlinks)

\* hosting.autostart, off: the intent is committed first.
DisableAutostart(d, unlinks) ==
    LET written == WriteConfig(d, [Stored(d) EXCEPT !.background = FALSE])
    IN  written \o RemoveArtifacts(Last(written), unlinks)

\* hosting.autostart, on: the intent is committed last, both artifacts exist.
EnableAutostart(d) ==
    LET read   == Migrate(d)
        bundle == [Last(read) EXCEPT !.bundle = Material(Stored(d))]
        entry  == [bundle EXCEPT !.entry = TRUE]
    IN  read \o <<bundle, entry>> \o WriteConfig(entry, [Stored(d) EXCEPT !.background = TRUE])

\* Its catch, whatever had failed: the intent is taken back, the artifacts removed.
RollbackAutostart(d, unlinks) == DisableAutostart(d, unlinks)

(***************************************************************************)
(* The host's database: ensureEncryptedDatabaseKey, which moves it from    *)
(* the identity's key to a key of its own.                                 *)
(***************************************************************************)
\* deviation: the backup is removed once the rekey has begun
RekeyUnsaved(d) ==
    LET saved == [d EXCEPT !.backup = "old"]
    IN  <<[d EXCEPT !.backup = "partial"], saved, [saved EXCEPT !.backup = "none"],
          [saved EXCEPT !.backup = "none", !.db = "damaged"],
          [saved EXCEPT !.backup = "none", !.db = "new"]>>

\* migrateDatabaseKey, of a database that opens with the old key.  A crash may cut
\* the copy short, and the rekey leave pages of both keys.
Rekey(d) ==
    LET saved == [d EXCEPT !.backup = "old"]
        copy  == IF d.backup = "none" THEN <<[d EXCEPT !.backup = "partial"], saved>> ELSE <<d>>
    IN  copy \o <<[saved EXCEPT !.db = "damaged"], [saved EXCEPT !.db = "new"],
                  [saved EXCEPT !.db = "new", !.backup = "none"]>>

\* It throws when a backup is there that does not open, or nothing opens.
KeyFails(d) ==
    \/ d.db = "old" /\ d.backup = "partial"
    \/ d.db = "damaged" /\ d.backup # "old"

EnsureKey(d) ==
    CASE d.db = "new" -> <<[d EXCEPT !.backup = "none"]>>
      [] d.db = "old" /\ d.backup # "partial" -> Rekey(d)
      [] d.db = "damaged" /\ d.backup = "old" ->
             <<[d EXCEPT !.db = "old"]>> \o Rekey([d EXCEPT !.db = "old"])
      [] OTHER -> <<d>>
=============================================================================
