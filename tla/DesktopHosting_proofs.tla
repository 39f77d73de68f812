------------------------- MODULE DesktopHosting_proofs -------------------------
(***************************************************************************)
(* Why the desktop application forgets no host that runs and no public     *)
(* route, why a host runs what is stored, why the store keeps its marks,   *)
(* bridges and autostart, and why the host's data can be opened: for any   *)
(* bridges, providers, processes, calls in progress and faults.            *)
(*                                                                         *)
(* The disk: whatever a synchronous piece of code leaves behind, when it   *)
(* is cut short too, is a store that reads as it did, reads as what is     *)
(* being written, or is not trusted (Wrote); and a database that one of    *)
(* the keys opens, or its backup (Rekeyed).  So each step moves the store  *)
(* by one of few changes (StoreMove), those of the calls that are to write *)
(* (Change).                                                               *)
(*                                                                         *)
(* The processes: the tracked one is the only one alive that was not told  *)
(* to exit (HostsFit), and what a call knows of another while it waits is  *)
(* only whose exit it waits for.                                           *)
(*                                                                         *)
(* The routes: a call of a provider that was alone from its beginning is   *)
(* the only one, and knows the provider that runs (RouteInv).              *)
(***************************************************************************)
EXTENDS DesktopHosting, SequenceTheorems, FiniteSetTheorems, TLAPS

(***************************************************************************)
(* Sequences of disks.                                                     *)
(***************************************************************************)
LEMMA JoinFacts ==
    ASSUME NEW S, NEW s \in Seq(S), NEW t \in Seq(S), t # <<>>
    PROVE  /\ s \o t \in Seq(S) /\ s \o t # <<>>
           /\ Range(s \o t) = Range(s) \cup Range(t)
           /\ Last(s \o t) = Last(t) /\ Last(t) \in Range(t)
<1>1. s \o t \in Seq(S) /\ Len(s \o t) = Len(s) + Len(t) /\ Len(t) \in Nat \ {0} /\ Len(s) \in Nat
      /\ \A i \in 1..(Len(s) + Len(t)) :
            (s \o t)[i] = IF i <= Len(s) THEN s[i] ELSE t[i - Len(s)]
  BY ConcatProperties, LenProperties, EmptySeq
<1>2. DOMAIN s = 1..Len(s) /\ DOMAIN t = 1..Len(t) /\ DOMAIN (s \o t) = 1..(Len(s) + Len(t))
  BY <1>1, LenProperties
<1>3. \A i \in 1..Len(s) : s[i] = (s \o t)[i] /\ i \in 1..(Len(s) + Len(t))
  BY <1>1
<1>4. \A i \in 1..Len(t) : t[i] = (s \o t)[i + Len(s)] /\ i + Len(s) \in 1..(Len(s) + Len(t))
  BY <1>1
<1>5. \A i \in 1..(Len(s) + Len(t)) : i \in 1..Len(s) \/ (i - Len(s) \in 1..Len(t) /\ i > Len(s))
  BY <1>1
<1>6. Range(s \o t) = Range(s) \cup Range(t)
  <2>1. \A x : x \in Range(s \o t) <=> \E i \in 1..(Len(s) + Len(t)) : x = (s \o t)[i]
    BY <1>2 DEF Range
  <2>2. \A x : x \in Range(s) <=> \E i \in 1..Len(s) : x = s[i]
    BY <1>2 DEF Range
  <2>3. \A x : x \in Range(t) <=> \E i \in 1..Len(t) : x = t[i]
    BY <1>2 DEF Range
  <2>4. \A x : x \in Range(s) \/ x \in Range(t) => x \in Range(s \o t)
    <3>1. \A x \in Range(s) : x \in Range(s \o t)
      BY <1>3, <2>1, <2>2
    <3>2. ASSUME NEW x \in Range(t) PROVE x \in Range(s \o t)
      <4>1. PICK i \in 1..Len(t) : x = t[i]
        BY <2>3
      <4> QED BY <4>1, <1>4, <2>1
    <3> QED BY <3>1, <3>2
  <2>5. \A i \in 1..(Len(s) + Len(t)) : (s \o t)[i] \in Range(s) \cup Range(t)
    BY <1>1, <1>5, <2>2, <2>3
  <2> QED BY <2>1, <2>4, <2>5
<1>7. Last(s \o t) = Last(t) /\ Last(t) \in Range(t)
  BY <1>1, <1>2, <1>4 DEF Last, Range
<1>8. s \o t # <<>>
  BY <1>1, EmptySeq
<1> QED BY <1>1, <1>6, <1>7, <1>8

\* Of what a synchronous piece of code does, and what follows it.
LEMMA ThenFacts ==
    \A s, t \in Seq(Disk) : t # <<>> =>
        /\ s \o t \in Seq(Disk) /\ s \o t # <<>>
        /\ Range(s \o t) = Range(s) \cup Range(t)
        /\ Last(s \o t) = Last(t) /\ Last(t) \in Range(t)
BY JoinFacts

LEMMA ShortFacts ==
    /\ \A a \in Disk : <<a>> \in Seq(Disk) /\ <<a>> # <<>> /\ Range(<<a>>) = {a} /\ Last(<<a>>) = a
    /\ \A a, b \in Disk : /\ <<a, b>> \in Seq(Disk) /\ <<a, b>> # <<>>
                          /\ Range(<<a, b>>) = {a, b} /\ Last(<<a, b>>) = b
    /\ \A a, b, c \in Disk : /\ <<a, b, c>> \in Seq(Disk) /\ <<a, b, c>> # <<>>
                             /\ Range(<<a, b, c>>) = {a, b, c} /\ Last(<<a, b, c>>) = c
<1>1. ASSUME NEW a \in Disk
      PROVE  <<a>> \in Seq(Disk) /\ <<a>> # <<>> /\ Range(<<a>>) = {a} /\ Last(<<a>>) = a
  BY DEF Range, Last
<1>2. ASSUME NEW a \in Disk, NEW b \in Disk
      PROVE  /\ <<a, b>> \in Seq(Disk) /\ <<a, b>> # <<>>
             /\ Range(<<a, b>>) = {a, b} /\ Last(<<a, b>>) = b
  BY DEF Range, Last
<1>3. ASSUME NEW a \in Disk, NEW b \in Disk, NEW c \in Disk
      PROVE  /\ <<a, b, c>> \in Seq(Disk) /\ <<a, b, c>> # <<>>
             /\ Range(<<a, b, c>>) = {a, b, c} /\ Last(<<a, b, c>>) = c
  BY DEF Range, Last
<1> QED BY <1>1, <1>2, <1>3

(***************************************************************************)
(* The trust store.                                                        *)
(***************************************************************************)
\* A store that was never authenticated holds nothing yet; an anchor has its key.
StoreTyped(d) ==
    /\ d \in Disk
    /\ d.data \in {None, DefaultConfig} \cup Envelope
    /\ d.anchor # None \/ d.older # None => d.key

SameStore(d, e) == e.key = d.key /\ e.data = d.data /\ e.anchor = d.anchor /\ e.older = d.older

SameArtifacts(d, e) == e.bundle = d.bundle /\ e.entry = d.entry

SameDatabase(d, e) == e.db = d.db /\ e.backup = d.backup

LEMMA ConfigFacts ==
    /\ DefaultConfig \in Config
    /\ \A c \in Config : Material(c) \in Materials /\ c # None
    /\ None \notin Materials /\ None \notin Envelope
    /\ \A x \in Envelope : IsEnvelope(x) /\ x.payload \in Config /\ x.counter \in Nat \ {0}
    /\ ~IsEnvelope(None) /\ ~IsEnvelope(DefaultConfig)
<1>1. DefaultConfig \in Config
  BY DiskAssumption DEF DefaultConfig, Config
<1>2. \A c \in Config : Material(c) \in Materials /\ c # None
  BY DiskAssumption DEF Config, Material, Materials
<1>3. \A x \in Envelope : IsEnvelope(x) /\ x.payload \in Config /\ x.counter \in Nat \ {0}
  BY DiskAssumption DEF Envelope, IsEnvelope
<1>4. ~IsEnvelope(DefaultConfig)
  BY DEF IsEnvelope, DefaultConfig
<1> QED BY <1>1, <1>2, <1>3, <1>4, DiskAssumption DEF IsEnvelope

LEMMA StoreFacts ==
    ASSUME NEW d, StoreTyped(d)
    PROVE  /\ Stored(d) \in Config
           /\ Intact(d) <=> d.data \in Envelope /\ d.key /\ d.anchor = d.data
           /\ Intact(d) => Stored(d) = d.data.payload
           /\ ~Intact(d) => Stored(d) = DefaultConfig
           /\ Legacy(d) <=> d.data = DefaultConfig /\ ~d.key
           /\ Empty(d) <=> d.data = None /\ ~d.key
           /\ Legacy(d) => ~Intact(d) /\ ~Empty(d)
<1>1. d \in Disk /\ d.data \in {None, DefaultConfig} \cup Envelope
      /\ (d.anchor # None \/ d.older # None => d.key) /\ d.key \in BOOLEAN
  BY DEF StoreTyped, Disk
<1>2. Intact(d) <=> d.data \in Envelope /\ d.key /\ d.anchor = d.data
  BY <1>1, ConfigFacts DEF Intact
<1>3. Legacy(d) <=> d.data = DefaultConfig /\ ~d.key
  BY <1>1, ConfigFacts DEF Legacy
<1>4. Empty(d) <=> d.data = None /\ ~d.key
  BY <1>1 DEF Empty
<1>5. Legacy(d) => ~Intact(d) /\ ~Empty(d)
  BY <1>1, <1>2, <1>3, <1>4, ConfigFacts
<1>6. Intact(d) => Stored(d) = d.data.payload
  BY <1>5 DEF Stored
<1>7. ~Intact(d) => Stored(d) = DefaultConfig
  BY <1>3 DEF Stored
<1> QED BY <1>2, <1>3, <1>4, <1>5, <1>6, <1>7, ConfigFacts

\* e is among what is left behind while a trusted d is written to hold one of C.
Wrote(d, e, C) ==
    /\ StoreTyped(e) /\ SameDatabase(d, e)
    /\ e.anchor # None => e.anchor.payload = Stored(d) \/ Intact(e)
    /\ Trusted(e) => Stored(e) \in C \cup {Stored(d)}

LEMMA UnwrittenFacts ==
    ASSUME NEW d, StoreTyped(d), Trusted(d), NEW e, e \in Disk, SameStore(d, e), SameDatabase(d, e),
           NEW C
    PROVE  Wrote(d, e, C)
<1>1. StoreTyped(e) /\ Stored(e) = Stored(d) /\ (Intact(e) <=> Intact(d)) /\ e.anchor = d.anchor
  BY DEF StoreTyped, SameStore, Stored, Intact, Legacy
<1>2. d.anchor # None => Intact(d)
  BY StoreFacts DEF Trusted, Empty, Legacy
<1> QED BY <1>1, <1>2 DEF Wrote

LEMMA PersistFacts ==
    ASSUME NEW d, StoreTyped(d), Trusted(d), NEW c \in Config
    PROVE  /\ Persist(d, c) \in Seq(Disk) /\ Persist(d, c) # <<>>
           /\ \A e \in Range(Persist(d, c)) :
                 Wrote(d, e, {c}) /\ SameArtifacts(d, e)
           /\ LET e == Last(Persist(d, c))
              IN  Intact(e) /\ Stored(e) = c /\ e \in Range(Persist(d, c))
<1> DEFINE v == [counter |-> IF Intact(d) THEN d.data.counter + 1 ELSE 1, payload |-> c]
           k == [d EXCEPT !.key = TRUE]
           w == [k EXCEPT !.data = v, !.older = IF IsEnvelope(d.data) THEN d.data ELSE @]
           z == [w EXCEPT !.anchor = v]
<1>1. d \in Disk /\ d.data \in {None, DefaultConfig} \cup Envelope
      /\ (d.anchor # None \/ d.older # None => d.key) /\ d.key \in BOOLEAN
  BY DEF StoreTyped, Disk
<1>2. v \in Envelope /\ v # None /\ v.payload = c
  <2>1. Intact(d) => d.data.counter \in Nat
    BY StoreFacts, ConfigFacts
  <2> QED BY <2>1, ConfigFacts DEF Envelope
<1>3. Persist(d, c) = <<k, w, z>>
  BY DEF Persist
<1>4. IsEnvelope(d.data) => d.data \in Envelope
  BY <1>1, ConfigFacts
<1>5. k \in Disk /\ k.key /\ k.data = d.data /\ k.anchor = d.anchor /\ k.older = d.older
      /\ SameArtifacts(d, k) /\ SameDatabase(d, k)
  BY <1>1 DEF Disk, SameArtifacts, SameDatabase
<1>6. w \in Disk /\ w.key /\ w.data = v /\ w.anchor = d.anchor
      /\ SameArtifacts(d, w) /\ SameDatabase(d, w)
  BY <1>1, <1>2, <1>4 DEF Disk, SameArtifacts, SameDatabase
<1>7. z \in Disk /\ z.key /\ z.data = v /\ z.anchor = v
      /\ SameArtifacts(d, z) /\ SameDatabase(d, z)
  BY <1>1, <1>2, <1>4 DEF Disk, SameArtifacts, SameDatabase
<1> HIDE DEF v, k, w, z
<1>8. StoreTyped(k) /\ StoreTyped(w) /\ StoreTyped(z)
  BY <1>1, <1>2, <1>5, <1>6, <1>7 DEF StoreTyped
<1>9. d.anchor # None => d.anchor.payload = Stored(d)
  BY <1>1, StoreFacts DEF Trusted
<1>10. Wrote(d, k, {c})
  <2>1. Trusted(k) => Intact(k)
    BY <1>5, <1>8, StoreFacts DEF Trusted
  <2>2. Intact(k) => Stored(k) = k.data.payload /\ k.anchor = k.data /\ k.data \in Envelope
    BY <1>8, StoreFacts
  <2>3. Trusted(k) => Stored(k) = Stored(d)
    BY <1>5, <1>9, <2>1, <2>2, ConfigFacts
  <2> QED BY <1>5, <1>8, <1>9, <2>3 DEF Wrote
<1>11. Wrote(d, w, {c})
  <2>1. d.anchor # v
    <3>1. CASE Intact(d)
      <4>1. d.anchor = d.data /\ d.data.counter \in Nat
        BY <3>1, StoreFacts, ConfigFacts
      <4>2. v.counter = d.data.counter + 1
        BY <3>1 DEF v
      <4> QED BY <4>1, <4>2
    <3>2. CASE ~Intact(d)
      <4>1. d.anchor = None
        BY <3>2, <1>1, StoreFacts DEF Trusted
      <4> QED BY <4>1, <1>2
    <3> QED BY <3>1, <3>2
  <2>2. ~Trusted(w)
    BY <1>6, <1>8, <2>1, StoreFacts DEF Trusted
  <2> QED BY <1>6, <1>8, <1>9, <2>2 DEF Wrote
<1>12. Intact(z) /\ Stored(z) = c
  BY <1>2, <1>7, <1>8, StoreFacts
<1>13. Wrote(d, z, {c})
  BY <1>2, <1>7, <1>8, <1>12 DEF Wrote
<1>14. Range(<<k, w, z>>) = {k, w, z} /\ Last(<<k, w, z>>) = z /\ <<k, w, z>> \in Seq(Disk)
       /\ <<k, w, z>> # <<>>
  BY <1>5, <1>6, <1>7, ShortFacts
<1>15. \A e \in {k, w, z} : Wrote(d, e, {c}) /\ SameArtifacts(d, e)
  BY <1>5, <1>6, <1>7, <1>10, <1>11, <1>13
<1>16. z \in {k, w, z}
  OBVIOUS
<1> QED BY <1>3, <1>12, <1>14, <1>15, <1>16

LEMMA MigrateFacts ==
    ASSUME NEW d, StoreTyped(d)
    PROVE  /\ Migrate(d) \in Seq(Disk) /\ Migrate(d) # <<>>
           /\ ~Trusted(d) => Migrate(d) = <<d>>
           /\ Trusted(d) => \A e \in Range(Migrate(d)) : Wrote(d, e, {Stored(d)}) /\ SameArtifacts(d, e)
           /\ LET e == Last(Migrate(d))
              IN  /\ e \in Range(Migrate(d)) /\ Stored(e) = Stored(d)
                  /\ Trusted(e) <=> Trusted(d)
                  /\ Intact(d) => e = d
                  /\ StoreTyped(e) /\ SameArtifacts(d, e) /\ SameDatabase(d, e)
<1>1. CASE Legacy(d)
  <2>1. Trusted(d) /\ d.data = Stored(d) /\ d.data \in Config /\ Migrate(d) = Persist(d, d.data)
        /\ ~Intact(d)
    BY <1>1, StoreFacts DEF Trusted, Migrate
  <2>2. \A e : Intact(e) => Trusted(e)
    BY DEF Trusted
  <2> QED BY <2>1, <2>2, PersistFacts DEF Wrote
<1>2. CASE ~Legacy(d)
  <2>1. Migrate(d) = <<d>> /\ d \in Disk
    BY <1>2 DEF Migrate, StoreTyped
  <2>2. <<d>> \in Seq(Disk) /\ <<d>> # <<>> /\ Range(<<d>>) = {d} /\ Last(<<d>>) = d
    BY <2>1, ShortFacts
  <2>3. SameStore(d, d) /\ SameArtifacts(d, d) /\ SameDatabase(d, d)
    BY DEF SameStore, SameArtifacts, SameDatabase
  <2> QED BY <2>1, <2>2, <2>3, UnwrittenFacts
<1> QED BY <1>1, <1>2

\* What is written after a step that left the configuration alone.
LEMMA WroteThen ==
    ASSUME NEW d, NEW m, Stored(m) = Stored(d), SameDatabase(d, m), NEW e, NEW C, Wrote(m, e, C)
    PROVE  Wrote(d, e, C)
BY DEF Wrote, SameDatabase

\* Artifacts that come or go after what was written.
LEMMA ThenWrote ==
    ASSUME NEW d, NEW m, NEW C, Wrote(d, m, C), NEW e, e \in Disk, SameStore(m, e), SameDatabase(m, e)
    PROVE  Wrote(d, e, C)
<1>1. StoreTyped(e) /\ Stored(e) = Stored(m) /\ (Intact(e) <=> Intact(m)) /\ (Trusted(e) <=> Trusted(m))
      /\ e.anchor = m.anchor
  BY DEF Wrote, StoreTyped, SameStore, Stored, Intact, Legacy, Trusted, Empty
<1> QED BY <1>1 DEF Wrote, SameDatabase

LEMMA WriteFacts ==
    ASSUME NEW d, StoreTyped(d), Trusted(d), NEW c \in Config
    PROVE  /\ WriteConfig(d, c) \in Seq(Disk) /\ WriteConfig(d, c) # <<>>
           /\ \A e \in Range(WriteConfig(d, c)) : Wrote(d, e, {c}) /\ SameArtifacts(d, e)
           /\ LET e == Last(WriteConfig(d, c))
              IN  /\ Intact(e) /\ Trusted(e) /\ Stored(e) = c
                  /\ e \in Range(WriteConfig(d, c))
<1> DEFINE m == Last(Migrate(d))
<1>1. m \in Range(Migrate(d)) /\ Stored(m) = Stored(d) /\ Trusted(m) /\ StoreTyped(m)
      /\ SameArtifacts(d, m) /\ SameDatabase(d, m)
  BY MigrateFacts
<1> HIDE DEF m
<1>2. /\ Persist(m, c) \in Seq(Disk) /\ Persist(m, c) # <<>>
      /\ \A e \in Range(Persist(m, c)) : Wrote(m, e, {c}) /\ SameArtifacts(m, e)
      /\ Intact(Last(Persist(m, c))) /\ Stored(Last(Persist(m, c))) = c
      /\ Last(Persist(m, c)) \in Range(Persist(m, c))
  BY <1>1, PersistFacts
<1>3. WriteConfig(d, c) = Migrate(d) \o Persist(m, c)
  BY DEF WriteConfig, m
<1>4. /\ WriteConfig(d, c) \in Seq(Disk) /\ WriteConfig(d, c) # <<>>
      /\ Range(WriteConfig(d, c)) = Range(Migrate(d)) \cup Range(Persist(m, c))
      /\ Last(WriteConfig(d, c)) = Last(Persist(m, c))
  <2>1. Migrate(d) \in Seq(Disk) /\ Persist(m, c) \in Seq(Disk) /\ Persist(m, c) # <<>>
    BY <1>2, MigrateFacts
  <2> QED BY <2>1, <1>3, ThenFacts
<1>5. ASSUME NEW e \in Range(Persist(m, c)) PROVE Wrote(d, e, {c}) /\ SameArtifacts(d, e)
  BY <1>1, <1>2, WroteThen DEF SameArtifacts
<1>6. ASSUME NEW e \in Range(Migrate(d)) PROVE Wrote(d, e, {c}) /\ SameArtifacts(d, e)
  BY MigrateFacts DEF Wrote
<1>7. \A e : Intact(e) => Trusted(e)
  BY DEF Trusted
<1> QED BY <1>2, <1>4, <1>5, <1>6, <1>7

LEMMA SameFacts ==
    ASSUME NEW d, NEW e, SameStore(d, e)
    PROVE  /\ Stored(e) = Stored(d) /\ (Trusted(e) <=> Trusted(d)) /\ (Intact(e) <=> Intact(d))
           /\ StoreTyped(d) /\ e \in Disk => StoreTyped(e)
BY DEF SameStore, Stored, Trusted, Empty, Legacy, Intact, StoreTyped

(***************************************************************************)
(* The launch artifacts.                                                   *)
(***************************************************************************)
LEMMA RemoveFacts ==
    ASSUME NEW d \in Disk, NEW unlinks \in BOOLEAN
    PROVE  /\ RemoveArtifacts(d, unlinks) \in Seq(Disk) /\ RemoveArtifacts(d, unlinks) # <<>>
           /\ \A e \in Range(RemoveArtifacts(d, unlinks)) :
                 e \in Disk /\ SameStore(d, e) /\ SameDatabase(d, e)
           /\ LET e == Last(RemoveArtifacts(d, unlinks))
              IN  /\ e \in Range(RemoveArtifacts(d, unlinks))
                  /\ unlinks => ~e.entry
                  /\ ~unlinks => e = d
<1> DEFINE b == [d EXCEPT !.bundle = None]
           e == [d EXCEPT !.bundle = None, !.entry = FALSE]
<1>1. b \in Disk /\ SameStore(d, b) /\ SameDatabase(d, b)
  BY DEF Disk, SameStore, SameDatabase
<1>2. e \in Disk /\ SameStore(d, e) /\ SameDatabase(d, e) /\ ~e.entry
  BY DEF Disk, SameStore, SameDatabase
<1>3. SameStore(d, d) /\ SameDatabase(d, d)
  BY DEF SameStore, SameDatabase
<1>4. RemoveArtifacts(d, unlinks) = IF unlinks THEN <<b, e>> ELSE <<d>>
  BY DEF RemoveArtifacts
<1> HIDE DEF b, e
<1>5. /\ <<b, e>> \in Seq(Disk) /\ <<b, e>> # <<>> /\ Range(<<b, e>>) = {b, e} /\ Last(<<b, e>>) = e
      /\ <<d>> \in Seq(Disk) /\ <<d>> # <<>> /\ Range(<<d>>) = {d} /\ Last(<<d>>) = d
  BY <1>1, <1>2, ShortFacts
<1>6. CASE unlinks
  BY <1>1, <1>2, <1>4, <1>5, <1>6
<1>7. CASE ~unlinks
  BY <1>3, <1>4, <1>5, <1>7
<1> QED BY <1>6, <1>7

\* The configuration with autostart set to what is asked for.
SwitchedOn(d)  == [Stored(d) EXCEPT !.background = TRUE]
SwitchedOff(d) == [Stored(d) EXCEPT !.background = FALSE]

LEMMA SwitchedFacts ==
    ASSUME NEW d, StoreTyped(d)
    PROVE  /\ SwitchedOn(d) \in Config /\ SwitchedOff(d) \in Config /\ ~SwitchedOff(d).background
           /\ \A c \in {SwitchedOn(d), SwitchedOff(d)} :
                 /\ c.bridges = Stored(d).bridges /\ c.mark = Stored(d).mark
                 /\ Material(c) = Material(Stored(d))
BY StoreFacts DEF SwitchedOn, SwitchedOff, Config, Material

LEMMA DisableFacts ==
    ASSUME NEW d, StoreTyped(d), Trusted(d), NEW unlinks \in BOOLEAN
    PROVE  /\ DisableAutostart(d, unlinks) \in Seq(Disk) /\ DisableAutostart(d, unlinks) # <<>>
           /\ \A e \in Range(DisableAutostart(d, unlinks)) : Wrote(d, e, {SwitchedOff(d)})
           /\ LET e == Last(DisableAutostart(d, unlinks))
              IN  /\ e \in Range(DisableAutostart(d, unlinks))
                  /\ Intact(e) /\ Stored(e) = SwitchedOff(d)
                  /\ unlinks => ~e.entry
<1> DEFINE off == SwitchedOff(d)
           s == WriteConfig(d, off)
           t == RemoveArtifacts(Last(s), unlinks)
<1>1. /\ s \in Seq(Disk) /\ s # <<>>
      /\ \A e \in Range(s) : Wrote(d, e, {off})
      /\ Intact(Last(s)) /\ Stored(Last(s)) = off /\ Last(s) \in Range(s)
  BY SwitchedFacts, WriteFacts
<1>2. Last(s) \in Disk /\ StoreTyped(Last(s))
  BY <1>1 DEF Wrote, StoreTyped
<1>3. /\ t \in Seq(Disk) /\ t # <<>>
      /\ \A e \in Range(t) : e \in Disk /\ SameStore(Last(s), e) /\ SameDatabase(Last(s), e)
      /\ Last(t) \in Range(t) /\ (unlinks => ~Last(t).entry)
  BY <1>2, RemoveFacts
<1>4. DisableAutostart(d, unlinks) = s \o t
  BY DEF DisableAutostart, SwitchedOff
<1> HIDE DEF s, t, off
<1>5. /\ s \o t \in Seq(Disk) /\ s \o t # <<>> /\ Range(s \o t) = Range(s) \cup Range(t)
      /\ Last(s \o t) = Last(t)
  BY <1>1, <1>3, ThenFacts
<1>6. ASSUME NEW e \in Range(t) PROVE Wrote(d, e, {off})
  BY <1>1, <1>3, ThenWrote
<1>7. Intact(Last(t)) /\ Stored(Last(t)) = off
  BY <1>1, <1>3, SameFacts
<1> QED BY <1>1, <1>3, <1>4, <1>5, <1>6, <1>7 DEF off

LEMMA EnableFacts ==
    ASSUME NEW d, StoreTyped(d), Trusted(d)
    PROVE  /\ \A e \in Range(EnableAutostart(d)) : Wrote(d, e, {SwitchedOn(d)})
           /\ LET e == Last(EnableAutostart(d))
              IN  /\ e \in Range(EnableAutostart(d))
                  /\ Intact(e) /\ Stored(e) = SwitchedOn(d)
<1> DEFINE on == SwitchedOn(d)
           r == Migrate(d)
           b == [Last(r) EXCEPT !.bundle = Material(Stored(d))]
           e == [b EXCEPT !.entry = TRUE]
           w == WriteConfig(e, on)
<1>1. /\ r \in Seq(Disk) /\ r # <<>> /\ \A x \in Range(r) : Wrote(d, x, {Stored(d)})
      /\ Last(r) \in Range(r) /\ Stored(Last(r)) = Stored(d) /\ Trusted(Last(r))
      /\ StoreTyped(Last(r)) /\ SameDatabase(d, Last(r))
  BY MigrateFacts
<1>2. Last(r) \in Disk /\ Stored(d) \in Config /\ Material(Stored(d)) \in Materials
  BY <1>1, StoreFacts, ConfigFacts DEF StoreTyped
<1>3. b \in Disk /\ SameStore(Last(r), b) /\ SameDatabase(Last(r), b)
  BY <1>2 DEF Disk, SameStore, SameDatabase
<1>4. e \in Disk /\ SameStore(Last(r), e) /\ SameDatabase(Last(r), e)
  BY <1>2 DEF Disk, SameStore, SameDatabase
<1>5. EnableAutostart(d) = (r \o <<b, e>>) \o w
  BY DEF EnableAutostart, SwitchedOn
<1> HIDE DEF r, b, e
<1>6. StoreTyped(e) /\ Trusted(e) /\ Stored(e) = Stored(d) /\ SameDatabase(d, e)
  BY <1>1, <1>4, SameFacts DEF SameDatabase
<1>7. Wrote(d, b, {on}) /\ Wrote(d, e, {on})
  <2>1. Wrote(d, Last(r), {Stored(d)})
    BY <1>1
  <2>2. Wrote(d, b, {Stored(d)}) /\ Wrote(d, e, {Stored(d)})
    BY <1>3, <1>4, <2>1, ThenWrote
  <2> QED BY <2>2 DEF Wrote
<1>8. /\ w \in Seq(Disk) /\ w # <<>> /\ \A x \in Range(w) : Wrote(e, x, {on})
      /\ Intact(Last(w)) /\ Stored(Last(w)) = on /\ Last(w) \in Range(w)
  BY <1>6, SwitchedFacts, WriteFacts
<1> HIDE DEF w, on
<1>9. <<b, e>> \in Seq(Disk) /\ <<b, e>> # <<>> /\ Range(<<b, e>>) = {b, e}
  BY <1>3, <1>4, ShortFacts
<1>10. r \o <<b, e>> \in Seq(Disk) /\ Range(r \o <<b, e>>) = Range(r) \cup {b, e}
  BY <1>1, <1>9, ThenFacts
<1>11. /\ Range((r \o <<b, e>>) \o w) = (Range(r) \cup {b, e}) \cup Range(w)
       /\ Last((r \o <<b, e>>) \o w) = Last(w)
  BY <1>8, <1>10, ThenFacts
<1>12. ASSUME NEW x \in Range(w) PROVE Wrote(d, x, {on})
  BY <1>6, <1>8, WroteThen
<1>13. ASSUME NEW x \in Range(r) PROVE Wrote(d, x, {on})
  BY <1>1 DEF Wrote
<1> QED BY <1>5, <1>7, <1>8, <1>11, <1>12, <1>13 DEF on

\* Of what the application finds when it starts.
LEMMA ReconcileFacts ==
    ASSUME NEW d, StoreTyped(d), NEW unlinks \in BOOLEAN
    PROVE  LET e == Last(Reconcile(d, unlinks))
           IN  /\ StoreTyped(e) /\ SameDatabase(d, e) /\ (Trusted(e) <=> Trusted(d))
               /\ Stored(e) \in {Stored(d), SwitchedOff(d)}
               /\ Launches(d) => e = d
               /\ ~Launches(d) /\ Trusted(d) => ~Stored(e).background
               /\ ~Launches(d) /\ unlinks => ~e.entry
               /\ ~Trusted(d) /\ ~unlinks => e = d
<1> DEFINE r == Migrate(d)
           off == SwitchedOff(d)
           w == WriteConfig(Last(r), off)
           intent == Stored(d).background /\ ~Launches(d)
           k == IF intent THEN r \o w ELSE r
           t == RemoveArtifacts(Last(k), unlinks)
<1>1. /\ r \in Seq(Disk) /\ r # <<>> /\ Last(r) \in Range(r)
      /\ Stored(Last(r)) = Stored(d) /\ (Trusted(Last(r)) <=> Trusted(d)) /\ (Intact(d) => Last(r) = d)
      /\ StoreTyped(Last(r)) /\ SameDatabase(d, Last(r))
      /\ (~Trusted(d) => Last(r) = d)
  <2>1. ~Trusted(d) => Last(r) = d
    BY MigrateFacts, ShortFacts DEF StoreTyped
  <2> QED BY <2>1, MigrateFacts
<1>2. Stored(d).background => Intact(d) /\ Trusted(d)
  BY StoreFacts DEF DefaultConfig, Trusted
<1>3. Launches(d) => Stored(d).background
  BY DEF Launches
<1>4. Reconcile(d, unlinks) = IF Launches(d) THEN r ELSE k \o t
  BY DEF Reconcile, SwitchedOff
<1>5. CASE Launches(d)
  <2>1. Last(Reconcile(d, unlinks)) = d
    BY <1>1, <1>2, <1>3, <1>4, <1>5
  <2> QED BY <2>1, <1>2, <1>3, <1>5 DEF SameDatabase
<1>6. CASE ~Launches(d)
  <2>1. /\ k \in Seq(Disk) /\ StoreTyped(Last(k)) /\ SameDatabase(d, Last(k))
        /\ (Trusted(Last(k)) <=> Trusted(d))
        /\ Stored(Last(k)) \in {Stored(d), off} /\ ~Stored(Last(k)).background
        /\ (~Trusted(d) => Last(k) = d)
    <3>1. CASE intent
      <4>1. Trusted(Last(r)) /\ Trusted(d)
        BY <1>1, <1>2, <3>1
      <4>2. /\ w \in Seq(Disk) /\ w # <<>> /\ Wrote(Last(r), Last(w), {off})
            /\ Trusted(Last(w)) /\ Stored(Last(w)) = off
        BY <1>1, <4>1, SwitchedFacts, WriteFacts
      <4> HIDE DEF w, r
      <4>3. r \o w \in Seq(Disk) /\ Last(r \o w) = Last(w)
        BY <1>1, <4>2, ThenFacts
      <4>4. ~off.background
        BY SwitchedFacts
      <4>5. StoreTyped(Last(w)) /\ SameDatabase(d, Last(w))
        BY <1>1, <4>2 DEF Wrote, SameDatabase
      <4>6. k = r \o w
        BY <3>1
      <4> HIDE DEF k, off
      <4> QED BY <4>1, <4>2, <4>3, <4>4, <4>5, <4>6
    <3>2. CASE ~intent
      <4>1. k = r /\ ~Stored(d).background
        BY <1>6, <3>2
      <4> QED BY <1>1, <4>1
    <3> QED BY <3>1, <3>2
  <2> HIDE DEF k
  <2>2. Last(k) \in Disk
    BY <2>1 DEF StoreTyped
  <2>3. /\ t \in Seq(Disk) /\ t # <<>> /\ Last(t) \in Disk
        /\ SameStore(Last(k), Last(t)) /\ SameDatabase(Last(k), Last(t))
        /\ (unlinks => ~Last(t).entry) /\ (~unlinks => Last(t) = Last(k))
    BY <2>2, RemoveFacts
  <2> HIDE DEF t
  <2>4. Last(Reconcile(d, unlinks)) = Last(t)
    <3>1. Last(k \o t) = Last(t)
      BY <2>1, <2>3, ThenFacts
    <3> QED BY <1>4, <1>6, <3>1
  <2>5. /\ StoreTyped(Last(t)) /\ Stored(Last(t)) = Stored(Last(k))
        /\ (Trusted(Last(t)) <=> Trusted(Last(k)))
    BY <2>1, <2>3, SameFacts
  <2>6. SameDatabase(d, Last(t))
    BY <2>1, <2>3 DEF SameDatabase
  <2> QED BY <1>6, <2>1, <2>3, <2>4, <2>5, <2>6
<1> QED BY <1>5, <1>6

LEMMA ApplyFacts ==
    ASSUME NEW next \in Config, StoreTyped(disk), Trusted(disk)
    PROVE  /\ \A e \in Range(ApplySteps(next)) : Wrote(disk, e, {next})
           /\ LET e == Last(ApplySteps(next))
              IN  e \in Range(ApplySteps(next)) /\ Intact(e) /\ Stored(e) = next
<1> DEFINE w == WriteConfig(disk, next)
           b == [Last(w) EXCEPT !.bundle = Material(next)]
<1>1. /\ w \in Seq(Disk) /\ w # <<>> /\ \A x \in Range(w) : Wrote(disk, x, {next})
      /\ Intact(Last(w)) /\ Stored(Last(w)) = next /\ Last(w) \in Range(w)
  BY WriteFacts
<1>2. Last(w) \in Disk /\ Material(next) \in Materials
  BY <1>1, ConfigFacts DEF Wrote, StoreTyped
<1>3. b \in Disk /\ SameStore(Last(w), b) /\ SameDatabase(Last(w), b)
  BY <1>2 DEF Disk, SameStore, SameDatabase
<1>4. ApplySteps(next) = IF next.background THEN w \o <<b>> ELSE w
  BY DEF ApplySteps, Refresh
<1> HIDE DEF w, b
<1>5. <<b>> \in Seq(Disk) /\ <<b>> # <<>> /\ Range(<<b>>) = {b} /\ Last(<<b>>) = b
  BY <1>3, ShortFacts
<1>6. Range(w \o <<b>>) = Range(w) \cup {b} /\ Last(w \o <<b>>) = b
  BY <1>1, <1>5, ThenFacts
<1>7. Wrote(disk, b, {next}) /\ Intact(b) /\ Stored(b) = next
  BY <1>1, <1>3, ThenWrote, SameFacts
<1> QED BY <1>1, <1>4, <1>6, <1>7

LEMMA RollbackFacts ==
    ASSUME NEW next \in Config, StoreTyped(disk), Trusted(disk)
    PROVE  LET e == Last(RollbackSteps(next))
           IN  /\ StoreTyped(e) /\ SameDatabase(disk, e)
               /\ Intact(e) /\ Stored(e) = Stored(disk)
<1> DEFINE w == WriteConfig(disk, next)
           v == WriteConfig(Last(w), Stored(disk))
<1>1. /\ w \in Seq(Disk) /\ Wrote(disk, Last(w), {next}) /\ Trusted(Last(w))
      /\ Stored(disk) \in Config
  BY WriteFacts, StoreFacts
<1>2. /\ v \in Seq(Disk) /\ v # <<>> /\ Wrote(Last(w), Last(v), {Stored(disk)})
      /\ Intact(Last(v)) /\ Stored(Last(v)) = Stored(disk)
  BY <1>1, WriteFacts DEF Wrote
<1>3. RollbackSteps(next) = w \o v
  BY DEF RollbackSteps
<1> HIDE DEF w, v
<1>4. Last(w \o v) = Last(v)
  BY <1>1, <1>2, ThenFacts
<1> QED BY <1>1, <1>2, <1>3, <1>4 DEF Wrote, SameDatabase

(***************************************************************************)
(* The database.                                                           *)
(***************************************************************************)
Recoverable(d) == d.db # "damaged" \/ d.backup = "old"

\* e is d but for the database, whose data can be opened as before.
Rekeyed(d, e) ==
    /\ e \in Disk /\ SameStore(d, e) /\ SameArtifacts(d, e)
    /\ Recoverable(d) => Recoverable(e)

LEMMA RekeyFacts ==
    ASSUME NEW d \in Disk, Recoverable(d)
    PROVE  /\ Rekey(d) \in Seq(Disk) /\ Rekey(d) # <<>>
           /\ \A e \in Range(Rekey(d)) : Rekeyed(d, e)
           /\ Last(Rekey(d)) \in Range(Rekey(d))
<1> DEFINE part == [d EXCEPT !.backup = "partial"]
           saved == [d EXCEPT !.backup = "old"]
           torn == [saved EXCEPT !.db = "damaged"]
           new == [saved EXCEPT !.db = "new"]
           clean == [saved EXCEPT !.db = "new", !.backup = "none"]
           copy == IF d.backup = "none" THEN <<part, saved>> ELSE <<d>>
           more == <<torn, new, clean>>
<1>1. Rekeyed(d, saved) /\ Rekeyed(d, torn) /\ Rekeyed(d, new) /\ Rekeyed(d, clean) /\ Rekeyed(d, d)
  BY ZenonT(60) DEF Disk, Rekeyed, SameStore, SameArtifacts, Recoverable
<1>2. d.backup = "none" => Rekeyed(d, part)
  BY DEF Disk, Rekeyed, SameStore, SameArtifacts, Recoverable
<1>3. part \in Disk
  BY DEF Disk
<1>4. Rekey(d) = copy \o more
  BY DEF Rekey
<1> HIDE DEF part, saved, torn, new, clean
<1>5. /\ <<part, saved>> \in Seq(Disk) /\ Range(<<part, saved>>) = {part, saved}
      /\ <<d>> \in Seq(Disk) /\ Range(<<d>>) = {d}
      /\ more \in Seq(Disk) /\ more # <<>> /\ Range(more) = {torn, new, clean} /\ Last(more) = clean
  BY <1>1, <1>3, ShortFacts DEF Rekeyed
<1>6. copy \in Seq(Disk) /\ \A e \in Range(copy) : Rekeyed(d, e)
  BY <1>1, <1>2, <1>5
<1> HIDE DEF copy, more
<1>7. /\ copy \o more \in Seq(Disk) /\ copy \o more # <<>>
      /\ Range(copy \o more) = Range(copy) \cup Range(more) /\ Last(copy \o more) = Last(more)
  BY <1>5, <1>6, ThenFacts
<1> QED BY <1>1, <1>4, <1>5, <1>6, <1>7

LEMMA EnsureFacts ==
    ASSUME NEW d \in Disk, Recoverable(d)
    PROVE  /\ \A e \in Range(EnsureKey(d)) : Rekeyed(d, e)
           /\ Last(EnsureKey(d)) \in Range(EnsureKey(d))
<1>1. CASE d.db = "new"
  <2> DEFINE e == [d EXCEPT !.backup = "none"]
  <2>1. Rekeyed(d, e)
    BY <1>1 DEF Disk, Rekeyed, SameStore, SameArtifacts, Recoverable
  <2>2. EnsureKey(d) = <<e>>
    BY <1>1 DEF EnsureKey
  <2> HIDE DEF e
  <2>3. Range(<<e>>) = {e} /\ Last(<<e>>) = e
    BY <2>1, ShortFacts DEF Rekeyed
  <2> QED BY <2>1, <2>2, <2>3
<1>2. CASE d.db = "old" /\ d.backup # "partial"
  <2>1. EnsureKey(d) = Rekey(d)
    BY <1>2 DEF EnsureKey
  <2> QED BY <2>1, RekeyFacts
<1>3. CASE d.db = "damaged" /\ d.backup = "old"
  <2> DEFINE o == [d EXCEPT !.db = "old"]
  <2>1. Rekeyed(d, o) /\ Recoverable(o) /\ o \in Disk
    BY <1>3 DEF Disk, Rekeyed, SameStore, SameArtifacts, Recoverable
  <2>2. EnsureKey(d) = <<o>> \o Rekey(o)
    BY <1>3 DEF EnsureKey
  <2> HIDE DEF o
  <2>3. <<o>> \in Seq(Disk) /\ Range(<<o>>) = {o}
    BY <2>1, ShortFacts
  <2>4. /\ Rekey(o) \in Seq(Disk) /\ Rekey(o) # <<>> /\ \A e \in Range(Rekey(o)) : Rekeyed(o, e)
        /\ Last(Rekey(o)) \in Range(Rekey(o))
    BY <2>1, RekeyFacts
  <2>5. /\ Range(<<o>> \o Rekey(o)) = {o} \cup Range(Rekey(o))
        /\ Last(<<o>> \o Rekey(o)) = Last(Rekey(o))
    BY <2>3, <2>4, ThenFacts
  <2>6. ASSUME NEW e, Rekeyed(o, e) PROVE Rekeyed(d, e)
    BY <2>1, <2>6 DEF Rekeyed, SameStore, SameArtifacts
  <2> QED BY <2>1, <2>2, <2>4, <2>5, <2>6
<1>4. CASE /\ d.db # "new" /\ ~(d.db = "old" /\ d.backup # "partial")
           /\ ~(d.db = "damaged" /\ d.backup = "old")
  <2>1. EnsureKey(d) = <<d>>
    BY <1>4 DEF EnsureKey
  <2>2. Rekeyed(d, d)
    BY DEF Rekeyed, SameStore, SameArtifacts
  <2> QED BY <2>1, <2>2, ShortFacts
<1> QED BY <1>1, <1>2, <1>3, <1>4

(***************************************************************************)
(* What a step makes of the disk.                                          *)
(***************************************************************************)
Callers == Slots \cup {Watchdog}

Call == [op: Ops \cup {"none", Watchdog},
         pc: {"idle", "applying", "switching", "starting", "undoing", "halting", "resolving",
              "connecting", "remote", "stopping", "opening", "probing"},
         arg: Bridges \cup Providers \cup {None},
         config: Config,
         process: Hosts \cup {None},
         target: Providers \cup {None},
         alone: BOOLEAN]

\* Which calls pass through a place, and what they bring there.
CallShape(k) ==
    /\ k.pc = "applying" => \/ k.op \in {"bridge.add", "bridge.remove"} /\ k.arg \in Bridges
                            \/ k.op = "provider.start" /\ k.arg \in Providers
                            \/ k.op = "provider.stop" /\ k.arg = None
    /\ k.pc \in {"switching", "starting", "undoing"} => k.op = "provider.start" /\ k.arg \in Providers
    /\ k.pc = "halting" => k.op = "provider.stop" /\ k.target \in Providers
    /\ k.pc \in {"resolving", "connecting"} => k.op = "join"

CallsInv ==
    /\ calls \in [Callers -> Call]
    /\ \A c \in Callers : CallShape(calls[c])
    /\ calls[Watchdog].pc \in {"idle", "probing", "stopping", "opening"}
    /\ calls[Watchdog].op \in {"none", Watchdog}
    /\ app # "window" => \A c \in Callers : calls[c] = Idle

StoreInv == StoreTyped(disk) /\ Recoverable(disk)

\* The configuration that the call in slot c is about to store.
Change(c) ==
    CASE calls[c].pc = "applying" -> CallChange(c)
      [] calls[c].pc = "halting" -> [calls[c].config EXCEPT !.route = None]
      [] OTHER -> calls[c].config

Changing(c) == calls[c].pc \in {"applying", "halting", "connecting"}

LEMMA CallFacts ==
    ASSUME CallsInv, NEW c \in Callers
    PROVE  /\ calls[c] \in Call /\ CallShape(calls[c]) /\ calls[c].config \in Config
           /\ calls[c].pc # "idle" => app = "window" /\ c \in Busy
           /\ calls[c].pc \in {"applying", "switching", "starting", "undoing", "halting", "resolving",
                               "connecting", "remote"} => c \in Slots
<1>1. calls[c] \in Call /\ CallShape(calls[c]) /\ calls[c].config \in Config
  BY DEF CallsInv, Call
<1>2. calls[c].pc # "idle" => app = "window" /\ c \in Busy
  BY DEF CallsInv, Busy, Idle, Callers
<1>3. c # Watchdog => c \in Slots
  BY DEF Callers
<1>4. calls[Watchdog].pc \in {"idle", "probing", "stopping", "opening"}
  BY DEF CallsInv
<1> QED BY <1>1, <1>2, <1>3, <1>4

LEMMA ChangeTyped ==
    ASSUME CallsInv, StoreInv, NEW c \in Callers
    PROVE  Change(c) \in Config
<1>1. Stored(disk) \in Config
  BY StoreFacts DEF StoreInv
<1>2. calls[c].config \in Config /\ CallShape(calls[c])
  BY CallFacts
<1>3. calls[c].pc = "applying" => CallChange(c) \in Config
  BY <1>1, <1>2 DEF CallShape, CallChange, Config
<1>4. [calls[c].config EXCEPT !.route = None] \in Config
  BY <1>2 DEF Config
<1> QED BY <1>2, <1>3, <1>4 DEF Change

\* What a step makes of the configuration in a store that is to be trusted before and after.
StoreMove ==
    Trusted(disk) /\ Trusted(disk)' =>
        \/ Stored(disk)' = Stored(disk)
        \/ Stored(disk)' \in {SwitchedOn(disk), SwitchedOff(disk)}
        \/ \E c \in Slots : Changing(c) /\ Stored(disk)' = Change(c)

LEMMA KeepsStore ==
    ASSUME StoreInv, Rekeyed(disk, disk')
    PROVE  /\ StoreInv' /\ StoreMove
           /\ SameStore(disk, disk') /\ SameArtifacts(disk, disk')
BY SameFacts DEF StoreInv, Rekeyed, StoreMove

LEMMA WritesStore ==
    ASSUME StoreInv, NEW C, Wrote(disk, disk', C)
    PROVE  StoreInv' /\ (Trusted(disk)' => Stored(disk)' \in C \cup {Stored(disk)})
BY DEF StoreInv, Wrote, Recoverable, SameDatabase

LEMMA SpawnStore ==
    ASSUME StoreInv, NEW h, NEW s, NEW k, SpawnHost(disk, h, s, k)
    PROVE  Rekeyed(disk, disk')
<1>1. CASE h # None \/ KeyFails(disk) \/ Unused = {}
  <2>1. disk' = disk
    BY <1>1 DEF SpawnHost
  <2> QED BY <2>1 DEF Rekeyed, SameStore, SameArtifacts, StoreInv, StoreTyped
<1>2. CASE ~(h # None \/ KeyFails(disk) \/ Unused = {})
  <2>1. disk' = Last(EnsureKey(disk))
    BY <1>2 DEF SpawnHost
  <2> QED BY <2>1, EnsureFacts DEF StoreInv, StoreTyped
<1> QED BY <1>1, <1>2

LEMMA ResumeStore ==
    ASSUME StoreInv, NEW c, NEW h, NEW s, NEW k, Resume(c, h, s, k)
    PROVE  Rekeyed(disk, disk')
<1>1. CASE calls[c].op = "visit"
  <2>1. disk' = disk
    BY <1>1 DEF Resume
  <2> QED BY <2>1 DEF Rekeyed, SameStore, SameArtifacts, StoreInv, StoreTyped
<1>2. CASE calls[c].op # "visit"
  BY <1>2, SpawnStore DEF Resume
<1> QED BY <1>1, <1>2

\* A call that reconfigures: it stores what it is to store and stops the host, or it leaves
\* the configuration as it was.
LEMMA ApplyStore ==
    ASSUME StoreInv, NEW c, NEW next \in Config, Apply(c, next)
    PROVE  /\ StoreInv'
           /\ ~Trusted(disk) => disk' = disk
           /\ Trusted(disk) => Intact(disk)'
           /\ \/ Stored(disk)' = next /\ hostProcess' = None
              \/ Stored(disk)' = Stored(disk) /\ UNCHANGED hostVars
<1>1. CASE Trusted(disk) /\ disk' = Last(ApplySteps(next)) /\ BeginRestart(c)
  <2>1. Wrote(disk, disk', {next}) /\ Intact(disk') /\ Stored(disk') = next
    BY <1>1, ApplyFacts DEF StoreInv
  <2>2. hostProcess' = None
    BY <1>1 DEF BeginRestart, KillHost
  <2> QED BY <1>1, <2>1, <2>2, WritesStore
<1>2. CASE Trusted(disk) /\ disk' = Last(RollbackSteps(next)) /\ UNCHANGED hostVars
  <2>1. StoreTyped(disk') /\ SameDatabase(disk, disk') /\ Intact(disk') /\ Stored(disk') = Stored(disk)
    BY <1>2, RollbackFacts DEF StoreInv
  <2> QED BY <1>2, <2>1 DEF StoreInv, Recoverable, SameDatabase
<1>3. CASE ~Trusted(disk) /\ UNCHANGED <<disk, hostVars>>
  BY <1>3 DEF StoreInv
<1> QED BY <1>1, <1>2, <1>3 DEF Apply

LEMMA CrashStore ==
    ASSUME StoreInv, CallsInv, Crash
    PROVE  StoreInv' /\ StoreMove
<1>1. PICK steps \in UnderWay : disk' \in Range(steps)
  BY DEF Crash
<1>2. CASE steps = <<disk>> \/ steps = EnsureKey(disk)
  <2>1. disk \in Disk /\ Recoverable(disk)
    BY DEF StoreInv, StoreTyped
  <2>2. Rekeyed(disk, disk)
    BY <2>1 DEF Rekeyed, SameStore, SameArtifacts
  <2>3. Rekeyed(disk, disk')
    BY <1>1, <1>2, <2>1, <2>2, ShortFacts, EnsureFacts
  <2> QED BY <2>3, KeepsStore
<1>3. CASE Trusted(disk) /\ steps \in {EnableAutostart(disk), DisableAutostart(disk, TRUE)}
  <2>1. Wrote(disk, disk', {SwitchedOn(disk)}) \/ Wrote(disk, disk', {SwitchedOff(disk)})
    BY <1>1, <1>3, EnableFacts, DisableFacts DEF StoreInv
  <2> QED BY <2>1, WritesStore DEF StoreMove
<1>4. ASSUME Trusted(disk), NEW c \in Busy, calls[c].pc = "applying",
             steps = ApplySteps(CallChange(c))
      PROVE  StoreInv' /\ StoreMove
  <2>1. c \in Callers /\ c \in Slots
    BY <1>4, CallFacts DEF Busy, CallsInv
  <2>2. Change(c) = CallChange(c) /\ Change(c) \in Config
    BY <1>4, <2>1, ChangeTyped DEF Change
  <2>3. Wrote(disk, disk', {Change(c)})
    BY <1>1, <1>4, <2>2, ApplyFacts DEF StoreInv
  <2> QED BY <1>4, <2>1, <2>3, WritesStore DEF StoreMove, Changing
<1>5. ASSUME Trusted(disk), NEW c \in Busy, calls[c].pc = "halting",
             steps = ApplySteps([calls[c].config EXCEPT !.route = None])
      PROVE  StoreInv' /\ StoreMove
  <2>1. c \in Callers /\ c \in Slots
    BY <1>5, CallFacts DEF Busy, CallsInv
  <2>2. Change(c) = [calls[c].config EXCEPT !.route = None] /\ Change(c) \in Config
    BY <1>5, <2>1, ChangeTyped DEF Change
  <2>3. Wrote(disk, disk', {Change(c)})
    BY <1>1, <1>5, <2>2, ApplyFacts DEF StoreInv
  <2> QED BY <1>5, <2>1, <2>3, WritesStore DEF StoreMove, Changing
<1>6. ASSUME Trusted(disk), NEW c \in Busy, calls[c].pc = "connecting",
             steps = WriteConfig(disk, calls[c].config)
      PROVE  StoreInv' /\ StoreMove
  <2>1. c \in Callers /\ c \in Slots
    BY <1>6, CallFacts DEF Busy, CallsInv
  <2>2. Change(c) = calls[c].config /\ Change(c) \in Config
    BY <1>6, <2>1, ChangeTyped DEF Change
  <2>3. Wrote(disk, disk', {Change(c)})
    BY <1>1, <1>6, <2>2, WriteFacts DEF StoreInv
  <2> QED BY <1>6, <2>1, <2>3, WritesStore DEF StoreMove, Changing
<1> QED BY <1>2, <1>3, <1>4, <1>5, <1>6 DEF UnderWay

LEMMA LaunchStore ==
    ASSUME StoreInv, NEW unlinks \in BOOLEAN, disk' = Last(Reconcile(disk, unlinks))
    PROVE  StoreInv' /\ StoreMove
<1>1. /\ StoreTyped(disk') /\ SameDatabase(disk, disk')
      /\ Stored(disk') \in {Stored(disk), SwitchedOff(disk)}
  BY ReconcileFacts DEF StoreInv
<1> QED BY <1>1 DEF StoreInv, StoreMove, SameDatabase, Recoverable

LEMMA RestoredStore ==
    ASSUME StoreInv, BackupRestored
    PROVE  StoreInv' /\ StoreMove
<1>1. disk \in Disk /\ disk.older \in Envelope /\ disk.key /\ disk' = [disk EXCEPT !.data = disk.older]
  BY DEF StoreInv, StoreTyped, Disk, BackupRestored
<1>2. disk' \in Disk /\ disk'.data \in Envelope /\ disk'.key = disk.key /\ disk'.anchor = disk.anchor
      /\ disk'.older = disk.older /\ disk'.data = disk.older /\ SameDatabase(disk, disk')
  BY <1>1 DEF Disk, SameDatabase
<1>3. StoreInv'
  BY <1>1, <1>2 DEF StoreInv, StoreTyped, Recoverable, SameDatabase
<1>4. ASSUME Trusted(disk), Trusted(disk)' PROVE Stored(disk)' = Stored(disk)
  <2>1. Intact(disk) /\ Intact(disk)'
    BY <1>1, <1>2, <1>4 DEF Trusted, Empty, Legacy
  <2>2. disk'.data = disk.data
    BY <1>2, <2>1 DEF Intact
  <2> QED BY <1>3, <2>1, <2>2, StoreFacts DEF StoreInv
<1> QED BY <1>3, <1>4 DEF StoreMove

LEMMA QuietStore ==
    ASSUME StoreInv, disk' = disk
    PROVE  StoreInv' /\ StoreMove
BY DEF StoreInv, StoreMove

\* The calls that leave the disk alone.
LEMMA CallsLeaveDisk ==
    ASSUME NEW c,
           \/ \E op \in Ops : \E b \in Bridges : BridgeCall(c, op, b)
           \/ \E p \in Providers : ProviderStart(c, p)
           \/ ProviderStop(c) \/ Join(c) \/ ProbeFails(c)
           \/ ProviderSwitched(c) \/ ProviderStarted(c) \/ ProviderFails(c) \/ ProviderUndone(c)
           \/ RemoteOpens(c) \/ JoinResolved(c) \/ HostOpens(c) \/ OpenFails(c)
    PROVE  UNCHANGED <<app, disk, hostVars, wanted>>
BY DEF BridgeCall, ProviderStart, ProviderStop, Join, ProbeFails, ProviderSwitched, ProviderStarted,
       ProviderFails, ProviderUndone, RemoteOpens, JoinResolved, HostOpens, OpenFails

LEMMA StoreStep ==
    ASSUME StoreInv, CallsInv, Next
    PROVE  StoreInv' /\ StoreMove
<1>1. ASSUME NEW p \in Hosts, HostListens(p) PROVE StoreInv' /\ StoreMove
  <2>1. disk' = disk \/ (disk.db = "none" /\ disk' = [disk EXCEPT !.db = "new"])
    BY <1>1 DEF HostListens
  <2>2. Rekeyed(disk, disk')
    BY <2>1 DEF StoreInv, StoreTyped, Rekeyed, SameStore, SameArtifacts, Disk, Recoverable
  <2> QED BY <2>2, KeepsStore
<1>2. ASSUME NEW p \in Hosts, HostWedges(p) \/ HostExits(p) PROVE StoreInv' /\ StoreMove
  BY <1>2, QuietStore DEF HostWedges, HostExits
<1>3. ASSUME NEW p \in Hosts, ExitEvent(p) PROVE StoreInv' /\ StoreMove
  <2>1. disk' = disk \/ \E c, h, s : Resume(c, h, s, killed)
    BY <1>3 DEF ExitEvent
  <2> QED BY <2>1, QuietStore, ResumeStore, KeepsStore
<1>4. ASSUME NEW c \in Callers, StopTimeout(c) PROVE StoreInv' /\ StoreMove
  <2>1. disk' = disk \/ \E k : Resume(c, None, state, k)
    BY <1>4 DEF StopTimeout
  <2> QED BY <2>1, QuietStore, ResumeStore, KeepsStore
<1>5. ASSUME NEW c \in Slots, BridgeApplies(c) PROVE StoreInv' /\ StoreMove
  <2>1. Apply(c, Change(c)) /\ Changing(c) /\ Change(c) \in Config
    BY <1>5, ChangeTyped DEF BridgeApplies, Change, Changing, Callers
  <2> QED BY <2>1, ApplyStore DEF StoreMove
<1>6. ASSUME NEW c \in Slots, ProviderHalts(c) PROVE StoreInv' /\ StoreMove
  <2>1. Apply(c, Change(c)) /\ Changing(c) /\ Change(c) \in Config
    BY <1>6, ChangeTyped DEF ProviderHalts, Change, Changing, Callers
  <2> QED BY <2>1, ApplyStore DEF StoreMove
<1>7. ASSUME NEW c \in Slots, Create(c) PROVE StoreInv' /\ StoreMove
  BY <1>7, SpawnStore, KeepsStore DEF Create
<1>8. ASSUME NEW c \in Slots, NEW op \in Ops, Activate(c, op) PROVE StoreInv' /\ StoreMove
  <2>1. disk' = disk \/ SpawnHost(disk, None, state, killed)
    BY <1>8 DEF Activate
  <2> QED BY <2>1, QuietStore, SpawnStore, KeepsStore
<1>9. ASSUME NEW c \in Slots, JoinConnected(c) PROVE StoreInv' /\ StoreMove
  <2>1. CASE ~Trusted(disk)
    BY <1>9, <2>1, QuietStore DEF JoinConnected
  <2>2. CASE Trusted(disk)
    <3>1. Change(c) \in Config /\ Change(c) = calls[c].config /\ Changing(c)
      BY <1>9, ChangeTyped DEF JoinConnected, Change, Changing, Callers
    <3>2. Wrote(disk, disk', {Change(c)}) 
      BY <1>9, <2>2, <3>1, WriteFacts DEF JoinConnected, StoreInv
    <3> QED BY <3>1, <3>2, WritesStore DEF StoreMove
  <2> QED BY <2>1, <2>2
<1>10. ASSUME AutostartOn \/ \E unlinks \in BOOLEAN : AutostartOff(unlinks)
       PROVE  StoreInv' /\ StoreMove
  <2>1. \/ /\ Trusted(disk)
           /\ \/ disk' = Last(EnableAutostart(disk))
              \/ \E unlinks \in BOOLEAN : disk' = Last(DisableAutostart(disk, unlinks))
        \/ \E unlinks \in BOOLEAN : disk' = Last(RemoveArtifacts(disk, unlinks))
    BY <1>10 DEF AutostartOn, AutostartOff, RollbackAutostart
  <2>2. CASE Trusted(disk) /\ disk' = Last(EnableAutostart(disk))
    <3>1. Wrote(disk, disk', {SwitchedOn(disk)})
      BY <2>2, EnableFacts DEF StoreInv
    <3> QED BY <3>1, WritesStore DEF StoreMove
  <2>3. ASSUME Trusted(disk), NEW unlinks \in BOOLEAN, disk' = Last(DisableAutostart(disk, unlinks))
        PROVE  StoreInv' /\ StoreMove
    <3>1. Wrote(disk, disk', {SwitchedOff(disk)})
      BY <2>3, DisableFacts DEF StoreInv
    <3> QED BY <3>1, WritesStore DEF StoreMove
  <2>4. ASSUME NEW unlinks \in BOOLEAN, disk' = Last(RemoveArtifacts(disk, unlinks))
        PROVE  StoreInv' /\ StoreMove
    <3>1. disk' \in Disk /\ SameStore(disk, disk') /\ SameDatabase(disk, disk')
      BY <2>4, RemoveFacts DEF StoreInv, StoreTyped
    <3> QED BY <3>1, SameFacts DEF StoreInv, StoreMove, SameDatabase, Recoverable
  <2> QED BY <2>1, <2>2, <2>3, <2>4
<1>11. ASSUME WatchdogTick \/ WatchdogAnswered \/ WatchdogSilent PROVE StoreInv' /\ StoreMove
  BY <1>11, QuietStore DEF WatchdogTick, WatchdogAnswered, WatchdogSilent
<1>12. ASSUME Quit \/ \E p \in Providers : TunnelExits(p) PROVE StoreInv' /\ StoreMove
  BY <1>12, QuietStore DEF Quit, TunnelExits
<1>13. ASSUME LaunchBackground \/ \E unlinks \in BOOLEAN : LaunchWindow(unlinks)
       PROVE  StoreInv' /\ StoreMove
  BY <1>13, LaunchStore DEF LaunchBackground, LaunchWindow
<1> QED
  BY <1>1, <1>2, <1>3, <1>4, <1>5, <1>6, <1>7, <1>8, <1>9, <1>10, <1>11, <1>12, <1>13,
     CallsLeaveDisk, QuietStore, CrashStore, RestoredStore DEF Next, Callers

(***************************************************************************)
(* The calls, and what they carry over an await.                           *)
(***************************************************************************)
LEMMA WatchdogIsNoSlot == Watchdog \notin Slots
BY HostingAssumption DEF Watchdog

LEMMA IdleTyped == Idle \in Call /\ CallShape(Idle) /\ Idle.pc = "idle" /\ Idle.op = "none"
BY ConfigFacts DEF Idle, Call, CallShape

\* The record of one call becomes k.
LEMMA CallBecomes ==
    ASSUME CallsInv, NEW c \in Callers, NEW k \in Call, CallShape(k),
           calls' = [calls EXCEPT ![c] = k],
           \/ c \in Slots
           \/ k.pc \in {"idle", "probing", "stopping", "opening"} /\ k.op \in {"none", Watchdog},
           app' = "window" \/ (k = Idle /\ UNCHANGED app)
    PROVE  CallsInv'
<1>1. calls' \in [Callers -> Call] /\ \A x \in Callers : calls'[x] = IF x = c THEN k ELSE calls[x]
  BY DEF CallsInv
<1>2. Watchdog \in Callers /\ (c = Watchdog => c \notin Slots)
  BY WatchdogIsNoSlot DEF Callers
<1> QED BY <1>1, <1>2 DEF CallsInv

\* A call that moves on keeps what it is and what it has read.
LEMMA AwaitCalls ==
    ASSUME CallsInv, NEW c \in Callers, calls[c].pc # "idle",
           NEW pc, NEW process \in Hosts \cup {None},
           calls' = Await(c, pc, process), UNCHANGED app,
           \/ pc \in {"stopping", "opening"}
           \/ pc \in {"applying", "starting", "undoing"} /\ calls[c].op = "provider.start"
              /\ calls[c].arg \in Providers /\ c \in Slots
           \/ pc = "remote" /\ c \in Slots
    PROVE  CallsInv'
<1>1. calls[c] \in Call /\ app = "window"
  BY CallFacts
<1> DEFINE k == [calls[c] EXCEPT !.pc = pc, !.process = process]
<1>2. k \in Call /\ CallShape(k) /\ k.pc = pc /\ k.op = calls[c].op
  <2>1. k \in Call
    BY <1>1 DEF Call
  <2>2. k.pc = pc /\ k.op = calls[c].op /\ k.arg = calls[c].arg
    BY <1>1 DEF Call
  <2> HIDE DEF k
  <2> QED BY <2>1, <2>2 DEF CallShape
<1>3. calls' = [calls EXCEPT ![c] = k]
  BY <1>1 DEF Await, CallsInv, Call
<1> HIDE DEF k
<1>4. c \in Slots \/ calls[c].op \in {"none", Watchdog}
  BY DEF CallsInv, Callers
<1> QED BY <1>1, <1>2, <1>3, <1>4, CallBecomes

LEMMA DoneCalls ==
    ASSUME CallsInv, NEW c \in Callers, calls' = Done(c), UNCHANGED app
    PROVE  CallsInv'
<1>1. calls' = [calls EXCEPT ![c] = Idle]
  BY DEF Done
<1>2. app' = "window" \/ calls' = calls
  BY <1>1 DEF CallsInv
<1> QED BY <1>1, <1>2, IdleTyped, CallBecomes DEF CallsInv

LEMMA FailCalls ==
    ASSUME CallsInv, NEW c \in Slots, calls[c].pc \in {"applying", "starting", "halting"},
           calls' = Fail(c), UNCHANGED app
    PROVE  CallsInv'
<1>1. c \in Callers /\ calls[c].pc # "idle" /\ CallShape(calls[c])
  BY CallFacts DEF Callers
<1>2. CASE calls[c].op = "provider.start" /\ running = calls[c].arg
  <2>1. calls' = Await(c, "undoing", None) /\ calls[c].arg \in Providers
    BY <1>1, <1>2 DEF Fail, CallShape
  <2> QED BY <1>1, <1>2, <2>1, AwaitCalls
<1>3. CASE ~(calls[c].op = "provider.start" /\ running = calls[c].arg)
  BY <1>1, <1>3, DoneCalls DEF Fail
<1> QED BY <1>2, <1>3

\* A call begins, or one that needs nothing is over at once.
LEMMA BeginCalls ==
    ASSUME CallsInv, NEW c \in Slots, NEW k \in Call, CallShape(k),
           calls' = [calls EXCEPT ![c] = k], app = "window", UNCHANGED app
    PROVE  CallsInv'
BY CallBecomes DEF Callers

LEMMA RestartCalls ==
    ASSUME CallsInv, NEW c \in Callers, calls[c].pc # "idle", hostProcess \in Hosts \cup {None},
           BeginRestart(c), UNCHANGED app
    PROVE  CallsInv'
BY AwaitCalls, DoneCalls DEF BeginRestart

LEMMA ResumeCalls ==
    ASSUME CallsInv, NEW c \in Callers, calls[c].pc # "idle", NEW h, NEW s, NEW k,
           Resume(c, h, s, k), UNCHANGED app
    PROVE  CallsInv'
<1>1. \/ calls' = Await(c, "remote", None) /\ calls[c].op = "visit"
      \/ calls' \in {Done(c), Await(c, "opening", None)}
  BY DEF Resume
<1>2. calls[c].op = "visit" => c \in Slots
  BY DEF CallsInv, Callers, Watchdog
<1> QED BY <1>1, <1>2, AwaitCalls, DoneCalls

LEMMA QuietCalls == ASSUME CallsInv, UNCHANGED <<app, calls>> PROVE CallsInv'
BY DEF CallsInv

\* What a call of a provider that is alone knows of the one that runs, `run`.
Owns(k, run) ==
    /\ k.pc = "switching" => run = k.target
    /\ k.pc = "starting" => run \in {None, k.arg}
    /\ k.pc = "undoing" => run = k.arg
    /\ k.pc = "halting" => run \in {None, k.target}

\* What becomes of the others when a call of a provider begins.
Marked(x) == calls'[x] = calls[x] \/ (x \in ProviderCalls /\ calls'[x] = [calls[x] EXCEPT !.alone = FALSE])

LEMMA BeginProviderFacts ==
    ASSUME CallsInv, NEW c \in Slots, NEW call, call = Idle \/ (call \in Call /\ CallShape(call)),
           BeginProvider(c, call)
    PROVE  /\ app = "window" /\ calls[c] = Idle /\ DOMAIN calls' = Callers /\ c \in Callers
           /\ calls'[c] = IF call = Idle THEN Idle ELSE [call EXCEPT !.alone = (ProviderCalls = {})]
           /\ \A x \in Callers \ {c} : Marked(x)
           /\ \A x \in ProviderCalls : ~calls'[x].alone
           /\ c \notin ProviderCalls
<1>1. app = "window" /\ calls[c] = Idle /\ DOMAIN calls = Callers /\ c \in Callers
  BY DEF BeginProvider, MayBegin, CallsInv, Callers
<1>2. c \notin ProviderCalls /\ ProviderCalls \subseteq Callers
  BY <1>1 DEF ProviderCalls, Busy
<1>3. calls' = [x \in Callers |->
           CASE x = c -> IF call = Idle THEN Idle ELSE [call EXCEPT !.alone = (ProviderCalls = {})]
             [] x \in ProviderCalls -> [calls[x] EXCEPT !.alone = FALSE]
             [] OTHER -> calls[x]]
  BY <1>1 DEF BeginProvider
<1>4. /\ DOMAIN calls' = Callers
      /\ calls'[c] = IF call = Idle THEN Idle ELSE [call EXCEPT !.alone = (ProviderCalls = {})]
  <2> DEFINE k == IF call = Idle THEN Idle ELSE [call EXCEPT !.alone = (ProviderCalls = {})]
  <2> HIDE DEF k
  <2>1. calls' = [x \in Callers |-> CASE x = c -> k
                                      [] x \in ProviderCalls -> [calls[x] EXCEPT !.alone = FALSE]
                                      [] OTHER -> calls[x]]
    BY <1>3 DEF k
  <2>2. DOMAIN calls' = Callers /\ calls'[c] = k
    BY <1>1, <1>2, <2>1
  <2> QED BY <2>2 DEF k
<1>5. \A x \in Callers \ {c} :
          /\ x \in ProviderCalls => calls'[x] = [calls[x] EXCEPT !.alone = FALSE]
          /\ x \notin ProviderCalls => calls'[x] = calls[x]
  BY <1>3
<1>6. \A x \in ProviderCalls : ~calls'[x].alone
  <2>1. ASSUME NEW x \in ProviderCalls PROVE ~calls'[x].alone
    <3>1. calls'[x] = [calls[x] EXCEPT !.alone = FALSE] /\ calls[x] \in Call
      BY <1>2, <1>5 DEF CallsInv
    <3> QED BY <3>1 DEF Call
  <2> QED BY <2>1
<1> QED BY <1>1, <1>2, <1>4, <1>5, <1>6 DEF Marked

LEMMA ProviderBeginCalls ==
    ASSUME CallsInv, NEW c \in Slots, NEW call, call = Idle \/ (call \in Call /\ CallShape(call)),
           BeginProvider(c, call), UNCHANGED app
    PROVE  CallsInv'
<1>1. calls'[c] \in Call /\ CallShape(calls'[c])
  <2>1. calls'[c] = IF call = Idle THEN Idle ELSE [call EXCEPT !.alone = (ProviderCalls = {})]
    BY BeginProviderFacts
  <2>2. call \in Call /\ CallShape(call) => /\ [call EXCEPT !.alone = (ProviderCalls = {})] \in Call
                                           /\ CallShape([call EXCEPT !.alone = (ProviderCalls = {})])
    BY DEF Call, CallShape
  <2> QED BY <2>1, <2>2, IdleTyped
<1>2. ASSUME NEW x \in Callers \ {c}
      PROVE  calls'[x] \in Call /\ CallShape(calls'[x]) /\ calls'[x].pc = calls[x].pc
             /\ calls'[x].op = calls[x].op
  <2>1. calls[x] \in Call /\ CallShape(calls[x]) /\ Marked(x)
    BY BeginProviderFacts DEF CallsInv
  <2>2. CASE calls'[x] = [calls[x] EXCEPT !.alone = FALSE]
    <3>1. calls'[x] \in Call
      BY <2>1, <2>2 DEF Call
    <3>2. /\ calls'[x].pc = calls[x].pc /\ calls'[x].op = calls[x].op
          /\ calls'[x].arg = calls[x].arg /\ calls'[x].target = calls[x].target
      BY <2>1, <2>2 DEF Call
    <3> QED BY <2>1, <3>1, <3>2 DEF CallShape
  <2> QED BY <2>1, <2>2 DEF Marked
<1>3. calls' \in [Callers -> Call]
  <2>1. \A x \in Callers : calls'[x] \in Call
    BY <1>1, <1>2
  <2>2. DOMAIN calls' = Callers /\ \E F : calls' = F /\ F = [x \in DOMAIN F |-> F[x]]
    <3>1. DOMAIN calls' = Callers /\ DOMAIN calls = Callers
      BY BeginProviderFacts DEF CallsInv
    <3> DEFINE F == [x \in DOMAIN calls |->
                        CASE x = c -> IF call = Idle THEN Idle ELSE [call EXCEPT !.alone = (ProviderCalls = {})]
                          [] x \in ProviderCalls -> [calls[x] EXCEPT !.alone = FALSE]
                          [] OTHER -> calls[x]]
    <3>2. calls' = F
      BY DEF BeginProvider
    <3>3. F = [x \in DOMAIN F |-> F[x]]
      OBVIOUS
    <3> QED BY <3>1, <3>2, <3>3
  <2> QED BY <2>1, <2>2
<1>4. app' = "window" /\ Watchdog \in Callers \ {c}
  BY BeginProviderFacts, WatchdogIsNoSlot DEF Callers
<1> QED BY <1>1, <1>2, <1>3, <1>4 DEF CallsInv

\* What becomes of a call that starts a provider.
LEMMA EnteredFacts ==
    ASSUME NEW k \in Call, k.op = "provider.start", k.arg \in Providers, NEW p, NEW run,
           NEW refused \in BOOLEAN
    PROVE  LET e == Entered(k, p, run, refused)
           IN  \/ e = Idle
               \/ /\ e \in Call /\ CallShape(e)
                  /\ e.op = k.op /\ e.arg = k.arg /\ e.config = k.config /\ e.alone = k.alone
                  /\ \/ e.pc = "starting" /\ ~refused
                     \/ e.pc = "undoing" /\ run = p
<1>1. CASE ~refused
  <2>1. Entered(k, p, run, refused) = [k EXCEPT !.pc = "starting", !.target = None]
    BY <1>1 DEF Entered
  <2> QED BY <1>1, <2>1 DEF Call, CallShape
<1>2. CASE refused /\ run = p
  <2>1. Entered(k, p, run, refused) = [k EXCEPT !.pc = "undoing", !.target = None]
    BY <1>2 DEF Entered
  <2> QED BY <1>2, <2>1 DEF Call, CallShape
<1>3. CASE refused /\ run # p
  BY <1>3 DEF Entered
<1> QED BY <1>1, <1>2, <1>3

LEMMA BeginStep ==
    ASSUME CallsInv, NEW c \in Slots, NEW op \in Ops, NEW pc, NEW arg, Begin(c, op, pc, arg),
           UNCHANGED app,
           \/ pc = "applying" /\ op \in {"bridge.add", "bridge.remove"} /\ arg \in Bridges
           \/ pc \in {"opening", "resolving"} /\ op \in {"create", "join"} /\ arg = None
              /\ (pc = "resolving" => op = "join")
    PROVE  CallsInv'
<1> DEFINE k == [Idle EXCEPT !.op = op, !.pc = pc, !.arg = arg]
<1>1. k \in Call /\ CallShape(k)
  BY ConfigFacts DEF Idle, Call, CallShape
<1>2. calls' = [calls EXCEPT ![c] = k] /\ app = "window"
  BY DEF Begin, MayBegin
<1> HIDE DEF k
<1> QED BY <1>1, <1>2, BeginCalls

\* Which provider runs, if the stored or the running one is one.
PlainInv ==
    /\ app \in {"off", "window", "background"}
    /\ running \in Tunnels \cup {None} /\ failures \in 0..1

LEMMA ProviderStartFacts ==
    ASSUME CallsInv, PlainInv, NEW c \in Slots, NEW p \in Providers, ProviderStart(c, p)
    PROVE  /\ UNCHANGED <<app, running, disk, wanted>>
           /\ \E call : /\ BeginProvider(c, call)
                        /\ call = Idle \/ (call \in Call /\ CallShape(call) /\ call.op = "provider.start"
                                             /\ call.config = DefaultConfig /\ Owns(call, running))
<1> DEFINE k == [Idle EXCEPT !.op = "provider.start", !.arg = p]
<1>1. k \in Call /\ k.op = "provider.start" /\ k.arg = p /\ k.config = DefaultConfig
  BY IdleTyped DEF Idle, Call, Ops
<1>2. UNCHANGED <<app, running, disk, wanted>>
  BY DEF ProviderStart, appVars
<1>3. CASE running \in {None, p}
  <2>1. PICK refused \in Refusals(p) : BeginProvider(c, Entered(k, p, running, refused))
    BY <1>3 DEF ProviderStart
  <2>2. refused \in BOOLEAN
    BY DEF Refusals, ChildStarts
  <2> HIDE DEF k
  <2>3. \/ Entered(k, p, running, refused) = Idle
        \/ LET e == Entered(k, p, running, refused)
           IN  e \in Call /\ CallShape(e) /\ e.op = k.op /\ e.arg = k.arg /\ e.config = k.config
               /\ (e.pc = "starting" \/ (e.pc = "undoing" /\ running = p))
    BY <1>1, <2>2, EnteredFacts
  <2> QED BY <1>1, <1>2, <1>3, <2>1, <2>3 DEF Owns
<1>4. CASE running \notin {None, p}
  <2> DEFINE e == [k EXCEPT !.pc = "switching", !.target = running]
  <2>1. BeginProvider(c, e)
    BY <1>4 DEF ProviderStart
  <2>2. running \in Providers
    BY <1>4, HostingAssumption DEF PlainInv
  <2>3. e \in Call /\ CallShape(e) /\ e.op = "provider.start" /\ e.config = DefaultConfig
        /\ e.pc = "switching" /\ e.target = running
    BY <1>1, <2>2 DEF Call, CallShape
  <2> HIDE DEF e
  <2> QED BY <1>2, <2>1, <2>3 DEF Owns
<1> QED BY <1>3, <1>4

LEMMA ProviderStopFacts ==
    ASSUME CallsInv, StoreInv, PlainInv, NEW c \in Slots, ProviderStop(c)
    PROVE  /\ UNCHANGED <<app, running, disk, wanted>>
           /\ \E call : /\ BeginProvider(c, call)
                        /\ call \in Call /\ CallShape(call) /\ call.op = "provider.stop"
                        /\ call.config \in {DefaultConfig, Stored(disk)} /\ Owns(call, running)
<1> DEFINE p == RunningOr(Stored(disk).route)
           j == [Idle EXCEPT !.op = "provider.stop", !.pc = "applying"]
           k == [j EXCEPT !.pc = "halting", !.config = Stored(disk), !.target = p]
<1>1. BeginProvider(c, IF p = None THEN j ELSE k) /\ UNCHANGED <<app, running, disk, wanted>>
  BY DEF ProviderStop, appVars
<1>2. Stored(disk) \in Config
  BY StoreFacts DEF StoreInv
<1>3. p \in Providers \cup {None} /\ running \in {None, p}
  BY <1>2, HostingAssumption DEF PlainInv, RunningOr, Config
<1>4. j \in Call /\ CallShape(j) /\ j.op = "provider.stop" /\ j.config = DefaultConfig
      /\ j.pc = "applying"
  BY IdleTyped DEF Idle, Call, CallShape, Ops
<1>5. ASSUME p # None
      PROVE  k \in Call /\ CallShape(k) /\ k.op = "provider.stop" /\ k.config = Stored(disk)
             /\ k.pc = "halting" /\ k.target = p
  <2>1. p \in Providers
    BY <1>3, <1>5
  <2> HIDE DEF j, p
  <2> QED BY <1>2, <1>4, <2>1 DEF Call, CallShape
<1> HIDE DEF j, k, p
<1> QED BY <1>1, <1>3, <1>4, <1>5 DEF Owns

LEMMA BeginningsKeepCalls ==
    ASSUME CallsInv, StoreInv, PlainInv, hostProcess \in Hosts \cup {None}, NEW c \in Slots,
           \/ \E op \in Ops : Activate(c, op) \/ \E b \in Bridges : BridgeCall(c, op, b)
           \/ \E p \in Providers : ProviderStart(c, p)
           \/ ProviderStop(c) \/ Create(c) \/ Join(c)
    PROVE  CallsInv'
<1>1. ASSUME NEW op \in Ops, NEW b \in Bridges, BridgeCall(c, op, b) PROVE CallsInv'
  BY <1>1, BeginStep DEF BridgeCall
<1>2. ASSUME NEW p \in Providers, ProviderStart(c, p) PROVE CallsInv'
  <2>1. PICK call : /\ BeginProvider(c, call) /\ UNCHANGED app
                    /\ call = Idle \/ (call \in Call /\ CallShape(call))
    BY <1>2, ProviderStartFacts
  <2> QED BY <2>1, ProviderBeginCalls
<1>3. ASSUME Join(c) \/ Create(c) PROVE CallsInv'
  BY <1>3, BeginStep DEF Join, Create, Ops
<1>4. ASSUME ProviderStop(c) PROVE CallsInv'
  <2>1. PICK call : /\ BeginProvider(c, call) /\ UNCHANGED app
                    /\ call \in Call /\ CallShape(call)
    BY <1>4, ProviderStopFacts
  <2> QED BY <2>1, ProviderBeginCalls
<1>5. ASSUME NEW op \in Ops, Activate(c, op) PROVE CallsInv'
  <2> DEFINE call(pc, p) == [Idle EXCEPT !.op = op, !.pc = pc, !.process = p]
  <2>1. \A pc \in {"stopping", "remote", "opening"} : \A p \in Hosts \cup {None} :
            call(pc, p) \in Call /\ CallShape(call(pc, p))
    BY <1>5, ConfigFacts, ZenonT(60) DEF Idle, Call, CallShape
  <2>2. \E k \in {call("stopping", hostProcess), call("remote", None), Idle, call("opening", None)} :
            calls' = [calls EXCEPT ![c] = k]
    BY <1>5 DEF Activate
  <2>3. app = "window" /\ UNCHANGED app
    BY <1>5 DEF Activate, MayBegin
  <2> HIDE DEF call
  <2>4. \A k \in {call("stopping", hostProcess), call("remote", None), Idle, call("opening", None)} :
            k \in Call /\ CallShape(k)
    BY <2>1, IdleTyped
  <2> QED BY <2>2, <2>3, <2>4, BeginCalls
<1> QED BY <1>1, <1>2, <1>3, <1>4, <1>5

LEMMA ApplyCalls ==
    ASSUME CallsInv, hostProcess \in Hosts \cup {None}, NEW c \in Slots,
           calls[c].pc \in {"applying", "halting"}, NEW next, Apply(c, next), UNCHANGED app
    PROVE  CallsInv'
<1>1. c \in Callers
  BY DEF Callers
<1>2. BeginRestart(c) \/ calls' = Fail(c)
  BY DEF Apply
<1> QED BY <1>1, <1>2, RestartCalls, FailCalls

LEMMA ContinuingsKeepCalls ==
    ASSUME CallsInv, StoreInv, hostProcess \in Hosts \cup {None}, NEW c \in Slots,
           \/ BridgeApplies(c) \/ ProbeFails(c)
           \/ ProviderSwitched(c) \/ ProviderStarted(c) \/ ProviderFails(c) \/ ProviderUndone(c)
           \/ ProviderHalts(c) \/ RemoteOpens(c) \/ JoinResolved(c) \/ JoinConnected(c)
    PROVE  CallsInv'
<1>1. c \in Callers /\ CallShape(calls[c]) /\ calls[c] \in Call
  BY CallFacts DEF Callers
<1>2. ASSUME BridgeApplies(c) \/ ProviderHalts(c) PROVE CallsInv'
  BY <1>2, ApplyCalls DEF BridgeApplies, ProviderHalts
<1>3. ASSUME ProbeFails(c) \/ ProviderFails(c) PROVE CallsInv'
  BY <1>3, FailCalls DEF ProbeFails, ProviderFails
<1>4. ASSUME ProviderSwitched(c) PROVE CallsInv'
  <2>1. calls[c].op = "provider.start" /\ calls[c].arg \in Providers /\ UNCHANGED app
        /\ app = "window"
    BY <1>1, <1>4, CallFacts DEF ProviderSwitched, CallShape
  <2>2. PICK refused \in Refusals(calls[c].arg) :
            calls' = [calls EXCEPT ![c] = Entered(calls[c], calls[c].arg, None, refused)]
    BY <1>4 DEF ProviderSwitched
  <2>3. refused \in BOOLEAN
    BY DEF Refusals, ChildStarts
  <2>4. LET e == Entered(calls[c], calls[c].arg, None, refused) IN e \in Call /\ CallShape(e)
    BY <1>1, <2>1, <2>3, EnteredFacts, IdleTyped
  <2> QED BY <2>1, <2>2, <2>4, BeginCalls
<1>5. ASSUME ProviderStarted(c) PROVE CallsInv'
  BY <1>1, <1>5, AwaitCalls DEF ProviderStarted, CallShape
<1>6. ASSUME ProviderUndone(c) \/ RemoteOpens(c) \/ JoinConnected(c) PROVE CallsInv'
  BY <1>1, <1>6, DoneCalls DEF ProviderUndone, RemoteOpens, JoinConnected
<1>7. ASSUME JoinResolved(c) PROVE CallsInv'
  <2>1. CASE calls' = Done(c)
    BY <1>1, <1>7, <2>1, DoneCalls DEF JoinResolved
  <2>2. ASSUME NEW seq \in 1..MaxSeq,
               calls' = [calls EXCEPT ![c].pc = "connecting",
                                      ![c].config = [Stored(disk) EXCEPT !.mark = seq]]
        PROVE  CallsInv'
    <3> DEFINE k == [calls[c] EXCEPT !.pc = "connecting", !.config = [Stored(disk) EXCEPT !.mark = seq]]
    <3>1. [Stored(disk) EXCEPT !.mark = seq] \in Config
      BY StoreFacts, DiskAssumption DEF StoreInv, Config
    <3>2. k \in Call /\ CallShape(k)
      BY <1>1, <1>7, <3>1 DEF Call, CallShape, JoinResolved
    <3>3. calls' = [calls EXCEPT ![c] = k]
      BY <1>1, <2>2 DEF CallsInv, Call
    <3>4. app = "window" /\ UNCHANGED app
      BY <1>1, <1>7, CallFacts DEF JoinResolved
    <3> HIDE DEF k
    <3> QED BY <3>2, <3>3, <3>4, BeginCalls
  <2> QED BY <1>7, <2>1, <2>2 DEF JoinResolved
<1> QED BY <1>2, <1>3, <1>4, <1>5, <1>6, <1>7

LEMMA CallsStep ==
    ASSUME CallsInv, StoreInv, PlainInv, hostProcess \in Hosts \cup {None}, Next
    PROVE  CallsInv'
<1>1. ASSUME NEW p \in Hosts, HostListens(p) \/ HostWedges(p) \/ HostExits(p) PROVE CallsInv'
  BY <1>1, QuietCalls DEF HostListens, HostWedges, HostExits
<1>2. ASSUME NEW p \in Hosts, ExitEvent(p) PROVE CallsInv'
  <2>1. CASE Waiting(p) = {}
    BY <1>2, <2>1, QuietCalls DEF ExitEvent
  <2>2. CASE Waiting(p) # {}
    <3>1. PICK c \in Waiting(p) : \E s, h : Resume(c, h, s, killed)
      BY <1>2, <2>2 DEF ExitEvent
    <3>2. c \in Callers /\ calls[c].pc # "idle" /\ UNCHANGED app
      BY <1>2, <3>1 DEF ExitEvent, Waiting, Busy, CallsInv
    <3> QED BY <3>1, <3>2, ResumeCalls
  <2> QED BY <2>1, <2>2
<1>3. ASSUME NEW c \in Callers, StopTimeout(c) PROVE CallsInv'
  <2>1. calls' = Done(c) \/ \E k : Resume(c, None, state, k)
    BY <1>3 DEF StopTimeout
  <2>2. calls[c].pc # "idle" /\ UNCHANGED app
    BY <1>3 DEF StopTimeout
  <2> QED BY <2>1, <2>2, DoneCalls, ResumeCalls
<1>4. ASSUME NEW c \in Callers, HostOpens(c) \/ OpenFails(c) PROVE CallsInv'
  BY <1>4, DoneCalls DEF HostOpens, OpenFails
<1>5. Watchdog \in Callers
  BY DEF Callers
<1>6. ASSUME WatchdogTick PROVE CallsInv'
  <2> DEFINE k == [calls[Watchdog] EXCEPT !.op = "watchdog", !.pc = "probing"]
  <2>1. calls[Watchdog] \in Call /\ CallShape(calls[Watchdog])
    BY <1>5, CallFacts
  <2>2. k \in Call /\ CallShape(k) /\ k.pc = "probing" /\ k.op = Watchdog
    BY <2>1 DEF Call, CallShape, Watchdog
  <2>3. calls' = calls \/ calls' = [calls EXCEPT ![Watchdog] = k]
    BY <1>5, <1>6, <2>1 DEF WatchdogTick, CallsInv, Call
  <2>4. app = "window" /\ UNCHANGED app
    BY <1>6 DEF WatchdogTick
  <2> HIDE DEF k
  <2> QED BY <1>5, <2>2, <2>3, <2>4, CallBecomes, QuietCalls
<1>7. ASSUME WatchdogAnswered \/ WatchdogSilent PROVE CallsInv'
  BY <1>5, <1>7, DoneCalls, RestartCalls DEF WatchdogAnswered, WatchdogSilent
<1>8. ASSUME AutostartOn \/ (\E unlinks \in BOOLEAN : AutostartOff(unlinks)) \/ BackupRestored
             \/ \E p \in Providers : TunnelExits(p)
      PROVE  CallsInv'
  BY <1>8, QuietCalls DEF AutostartOn, AutostartOff, BackupRestored, TunnelExits
<1>9. ASSUME Crash \/ Quit PROVE CallsInv'
  <2>1. calls' = [c \in Callers |-> Idle]
    BY <1>9 DEF Crash, Quit, AppEnds, CallsInv
  <2> QED BY <2>1, IdleTyped DEF CallsInv, Callers
<1>10. ASSUME LaunchBackground \/ \E unlinks \in BOOLEAN : LaunchWindow(unlinks) PROVE CallsInv'
  <2>1. calls' = calls /\ \A c \in Callers : calls[c] = Idle
    BY <1>10 DEF LaunchBackground, LaunchWindow, CallsInv
  <2> QED BY <2>1 DEF CallsInv
<1> QED
  BY <1>1, <1>2, <1>3, <1>4, <1>6, <1>7, <1>8, <1>9, <1>10, BeginningsKeepCalls,
     ContinuingsKeepCalls DEF Next, Callers

(***************************************************************************)
(* The processes.                                                          *)
(***************************************************************************)
\* The tracked host h, the states s, those killed k and what they were started with, st.
HostsFit(h, s, k, st) ==
    /\ h \in Hosts \cup {None} /\ s \in [Hosts -> ProcessState] /\ k \subseteq Hosts
    /\ st \in [Hosts -> Materials \cup {None}]
    /\ \A p \in Hosts : s[p] # "none" => st[p] # None
    /\ \A p, q \in Hosts : s[p] \in {"serving", "wedged"} /\ s[q] \in {"serving", "wedged"} => p = q
    /\ \A p \in Hosts : s[p] \in {"starting", "serving", "wedged"} /\ p \notin k => h = p

HostsInv ==
    /\ HostsFit(hostProcess, state, killed, started)
    /\ app = "off" => hostProcess = None /\ \A p \in Hosts : state[p] = "none"

LEMMA HostsStay == ASSUME HostsInv, UNCHANGED hostVars, app' = app \/ app' # "off" PROVE HostsInv'
BY DEF HostsInv, hostVars

\* Another host is started, or none, when the one that was tracked is gone or was told to exit.
LEMMA SpawnHosts ==
    ASSUME StoreInv, NEW h, NEW s, NEW k, HostsFit(h, s, k, started), SpawnHost(disk, h, s, k),
           HostsInv, \A p \in Hosts : state[p] = "none" => s[p] = "none"
    PROVE  HostsFit(hostProcess, state, killed, started)'
<1>1. CASE h # None \/ KeyFails(disk) \/ Unused = {}
  <2>1. hostProcess' = h /\ state' = s /\ killed' = k /\ started' = started
    BY <1>1 DEF SpawnHost
  <2> QED BY <2>1
<1>2. CASE ~(h # None \/ KeyFails(disk) \/ Unused = {})
  <2>1. PICK p \in Unused :
            /\ hostProcess' = p /\ state' = [s EXCEPT ![p] = "starting"]
            /\ started' = [started EXCEPT ![p] = Material(Stored(disk))] /\ killed' = k
    BY <1>2 DEF SpawnHost
  <2>2. p \in Hosts /\ s[p] = "none" /\ h = None
    BY <1>2, <2>1 DEF Unused
  <2>3. Material(Stored(disk)) \in Materials /\ None \notin Materials
    BY StoreFacts, ConfigFacts DEF StoreInv
  <2>4. state' \in [Hosts -> ProcessState] /\ started' \in [Hosts -> Materials \cup {None}]
        /\ (\A q \in Hosts : state'[q] = IF q = p THEN "starting" ELSE s[q])
        /\ (\A q \in Hosts : started'[q] = IF q = p THEN Material(Stored(disk)) ELSE started[q])
    BY <2>1, <2>2, <2>3 DEF HostsFit, ProcessState
  <2> QED BY <2>1, <2>2, <2>3, <2>4, HostingAssumption DEF HostsFit
<1> QED BY <1>1, <1>2

LEMMA ResumeHosts ==
    ASSUME StoreInv, NEW c, NEW h, NEW s, NEW k, HostsFit(h, s, k, started), Resume(c, h, s, k),
           HostsInv, \A p \in Hosts : state[p] = "none" => s[p] = "none"
    PROVE  HostsFit(hostProcess, state, killed, started)'
<1>1. CASE calls[c].op = "visit"
  <2>1. hostProcess' = h /\ state' = s /\ killed' = k /\ started' = started
    BY <1>1 DEF Resume
  <2> QED BY <2>1
<1>2. CASE calls[c].op # "visit"
  <2>1. SpawnHost(disk, h, s, k)
    BY <1>2 DEF Resume
  <2> QED BY <2>1, SpawnHosts
<1> QED BY <1>1, <1>2

\* What is tracked may be told to exit.
LEMMA KilledFit ==
    ASSUME HostsInv
    PROVE  HostsFit(None, state, IF hostProcess = None THEN killed ELSE killed \cup {hostProcess},
                    started)
BY DEF HostsInv, HostsFit

LEMMA KillHosts ==
    ASSUME HostsInv, KillHost
    PROVE  HostsFit(hostProcess, state, killed, started)'
<1>1. /\ hostProcess' = None /\ state' = state /\ started' = started
      /\ killed' = IF hostProcess = None THEN killed ELSE killed \cup {hostProcess}
  BY DEF KillHost
<1> QED BY <1>1, KilledFit

\* The state of one process.
LEMMA ProcessChanges ==
    ASSUME HostsInv, NEW p \in Hosts, state[p] # "none", NEW x \in ProcessState \ {"none", "starting"},
           state' = [state EXCEPT ![p] = x], UNCHANGED <<app, hostProcess, killed, started>>,
           x \in {"serving", "wedged"} =>
               \A q \in Hosts \ {p} : state[q] \notin {"serving", "wedged"},
           x \in {"serving", "wedged"} => Alive(p)
    PROVE  HostsInv'
<1>1. state' \in [Hosts -> ProcessState]
      /\ \A q \in Hosts : state'[q] = IF q = p THEN x ELSE state[q]
  BY DEF HostsInv, HostsFit
<1> QED BY <1>1 DEF HostsInv, HostsFit, Alive

LEMMA HostsEnd ==
    ASSUME HostsInv, AppEnds
    PROVE  HostsInv'
<1>1. /\ hostProcess' = None /\ state' = [p \in Hosts |-> "none"]
      /\ killed' = {} /\ started' = [p \in Hosts |-> None]
  BY DEF AppEnds
<1> QED BY <1>1 DEF HostsInv, HostsFit, ProcessState

LEMMA HostsStep ==
    ASSUME HostsInv, StoreInv, CallsInv, Next
    PROVE  HostsInv'
<1>1. ASSUME NEW p \in Hosts, HostListens(p) PROVE HostsInv'
  <2>1. CASE \E q \in Hosts : HoldsPort(q)
    BY <1>1, <2>1, ProcessChanges DEF HostListens, ProcessState
  <2>2. CASE ~\E q \in Hosts : HoldsPort(q)
    BY <1>1, <2>2, ProcessChanges DEF HostListens, ProcessState, HoldsPort, Alive
  <2> QED BY <2>1, <2>2
<1>2. ASSUME NEW p \in Hosts, HostWedges(p) PROVE HostsInv'
  <2>1. \A q \in Hosts \ {p} : state[q] \notin {"serving", "wedged"}
    BY <1>2 DEF HostWedges, HostsInv, HostsFit
  <2> QED BY <1>2, <2>1, ProcessChanges DEF HostWedges, ProcessState, Alive
<1>3. ASSUME NEW p \in Hosts, HostExits(p) PROVE HostsInv'
  BY <1>3, ProcessChanges DEF HostExits, ProcessState, Alive
<1>4. ASSUME NEW p \in Hosts, ExitEvent(p) PROVE HostsInv'
  <2> DEFINE s == [state EXCEPT ![p] = "gone"]
             h == IF hostProcess = p THEN None ELSE hostProcess
  <2>1. s \in [Hosts -> ProcessState] /\ \A q \in Hosts : s[q] = IF q = p THEN "gone" ELSE state[q]
    BY DEF HostsInv, HostsFit, ProcessState
  <2>2. state[p] = "exited" /\ app # "off" /\ UNCHANGED app
    BY <1>4 DEF ExitEvent, HostsInv
  <2> HIDE DEF s
  <2>3. HostsFit(h, s, killed, started)
    BY <2>1, <2>2 DEF HostsInv, HostsFit
  <2>4. \A q \in Hosts : state[q] = "none" => s[q] = "none"
    BY <2>1, <2>2
  <2>5. \/ \E c : Resume(c, h, s, killed)
        \/ hostProcess' = h /\ state' = s /\ UNCHANGED <<killed, started>>
    BY <1>4 DEF ExitEvent, s
  <2>6. HostsFit(hostProcess, state, killed, started)'
    BY <2>3, <2>4, <2>5, ResumeHosts
  <2> QED BY <2>2, <2>6 DEF HostsInv
<1>5. ASSUME NEW c \in Callers, StopTimeout(c) PROVE HostsInv'
  <2>1. app = "window" /\ UNCHANGED app
    BY <1>5, CallFacts DEF StopTimeout
  <2>2. CASE UNCHANGED hostVars
    BY <2>1, <2>2, HostsStay
  <2>3. CASE Resume(c, None, state, IF hostProcess = None THEN killed ELSE killed \cup {hostProcess})
    BY <2>1, <2>3, KilledFit, ResumeHosts DEF HostsInv
  <2> QED BY <1>5, <2>2, <2>3 DEF StopTimeout
<1>6. ASSUME NEW c \in Slots, BridgeApplies(c) \/ ProviderHalts(c) PROVE HostsInv'
  <2>1. app = "window" /\ UNCHANGED app
    BY <1>6, CallFacts DEF BridgeApplies, ProviderHalts, Callers
  <2>2. KillHost \/ UNCHANGED hostVars
    BY <1>6 DEF BridgeApplies, ProviderHalts, Apply, BeginRestart
  <2> QED BY <2>1, <2>2, KillHosts, HostsStay DEF HostsInv
<1>7. ASSUME NEW c \in Slots, Create(c) PROVE HostsInv'
  <2>1. app = "window" /\ UNCHANGED app /\ hostProcess = None
    BY <1>7 DEF Create, Begin, MayBegin
  <2> QED BY <1>7, <2>1, SpawnHosts DEF Create, HostsInv
<1>8. ASSUME NEW c \in Slots, NEW op \in Ops, Activate(c, op) PROVE HostsInv'
  <2>1. app = "window" /\ UNCHANGED app
    BY <1>8 DEF Activate, MayBegin
  <2>2. KillHost \/ UNCHANGED hostVars \/ (hostProcess = None /\ SpawnHost(disk, None, state, killed))
    BY <1>8 DEF Activate
  <2> QED BY <2>1, <2>2, KillHosts, HostsStay, SpawnHosts DEF HostsInv
<1>9. ASSUME NEW c \in Slots, JoinConnected(c) PROVE HostsInv'
  BY <1>9, HostsStay DEF JoinConnected
<1>10. ASSUME AutostartOn \/ (\E unlinks \in BOOLEAN : AutostartOff(unlinks)) \/ BackupRestored
              \/ \E p \in Providers : TunnelExits(p)
       PROVE  HostsInv'
  BY <1>10, HostsStay DEF AutostartOn, AutostartOff, BackupRestored, TunnelExits
<1>11. ASSUME WatchdogTick \/ WatchdogAnswered PROVE HostsInv'
  BY <1>11, HostsStay DEF WatchdogTick, WatchdogAnswered
<1>12. ASSUME WatchdogSilent PROVE HostsInv'
  <2>1. app = "window" /\ UNCHANGED app
    BY <1>12, CallFacts DEF WatchdogSilent, Callers
  <2>2. KillHost \/ UNCHANGED hostVars
    BY <1>12 DEF WatchdogSilent, BeginRestart
  <2> QED BY <2>1, <2>2, KillHosts, HostsStay DEF HostsInv
<1>13. ASSUME Crash \/ Quit PROVE HostsInv'
  BY <1>13, HostsEnd DEF Crash, Quit
<1>14. ASSUME NEW unlinks \in BOOLEAN, LaunchWindow(unlinks) PROVE HostsInv'
  BY <1>14, HostsStay DEF LaunchWindow
<1>15. ASSUME LaunchBackground PROVE HostsInv'
  <2>1. CASE ~Launches(disk)
    BY <1>15, <2>1, HostsStay DEF LaunchBackground
  <2>2. CASE Launches(disk)
    <3>1. hostProcess = None /\ \A p \in Hosts : state[p] = "none"
      BY <1>15 DEF LaunchBackground, HostsInv
    <3>2. Unused # {}
      BY <3>1, HostingAssumption DEF Unused
    <3>3. PICK p \in Unused :
              /\ app' = "background" /\ hostProcess' = p /\ state' = [state EXCEPT ![p] = "starting"]
              /\ started' = [started EXCEPT ![p] = disk.bundle] /\ killed' = killed
      BY <1>15, <2>2, <3>2 DEF LaunchBackground
    <3>4. p \in Hosts /\ disk.bundle \in Materials /\ None \notin Materials
      BY <2>2, ConfigFacts DEF Unused, Launches, StoreInv, StoreTyped, Disk
    <3>5. state' \in [Hosts -> ProcessState] /\ started' \in [Hosts -> Materials \cup {None}]
          /\ (\A q \in Hosts : state'[q] = IF q = p THEN "starting" ELSE "none")
          /\ (\A q \in Hosts : started'[q] = IF q = p THEN disk.bundle ELSE started[q])
      BY <3>1, <3>3, <3>4 DEF HostsInv, HostsFit, ProcessState
    <3>6. killed' \subseteq Hosts /\ hostProcess' \in Hosts \cup {None}
      BY <3>3, <3>4 DEF HostsInv, HostsFit
    <3> QED BY <3>3, <3>4, <3>5, <3>6 DEF HostsInv, HostsFit
  <2> QED BY <2>1, <2>2
<1> QED
  BY <1>1, <1>2, <1>3, <1>4, <1>5, <1>6, <1>7, <1>8, <1>9, <1>10, <1>11, <1>12, <1>13, <1>14, <1>15,
     CallsLeaveDisk, HostsStay DEF Next, Callers

(***************************************************************************)
(* How a call goes on, whichever step it is.                               *)
(***************************************************************************)
\* What a step may make of the call c.
IsOver(c) == calls'[c] = Idle

GoesOn(c) ==
    /\ calls[c].pc # "idle"
    /\ calls'[c].op = calls[c].op /\ calls'[c].alone = calls[c].alone
    /\ calls'[c].config = calls[c].config
    /\ Owns(calls'[c], running')

Resolves(c) ==
    /\ calls[c].pc = "resolving"
    /\ calls'[c].op = calls[c].op /\ calls'[c].pc = "connecting"
    /\ \E seq \in 1..MaxSeq : calls'[c].config = [Stored(disk) EXCEPT !.mark = seq]
    /\ UNCHANGED <<app, disk, wanted>>

\* The calls of the providers know of each other from the beginning of the second.
Begins(c) ==
    /\ calls[c] = Idle /\ app = "window"
    /\ calls'[c].config # DefaultConfig =>
           calls'[c].config = Stored(disk) /\ UNCHANGED <<app, disk, wanted>>
    /\ calls'[c].op \in ProviderOps =>
           /\ Owns(calls'[c], running') /\ (calls'[c].alone => ProviderCalls = {})
           /\ \A x \in ProviderCalls : ~calls'[x].alone

CallMoves(c) ==
    /\ \A x \in Callers \ {c} : Marked(x)
    /\ running' = running \/ calls[c].op \in ProviderOps
    /\ IsOver(c) \/ GoesOn(c) \/ (c \in Slots /\ (Resolves(c) \/ Begins(c)))
       \/ (c = Watchdog /\ calls[c] = Idle /\ calls'[c] = [Idle EXCEPT !.op = Watchdog, !.pc = "probing"])

OneCallMoves ==
    \/ calls' = calls /\ running' = running
    \/ \A x \in Callers : calls'[x] = Idle
    \/ \E c \in Callers : CallMoves(c)

LEMMA DoneMoves ==
    ASSUME CallsInv, NEW c \in Callers, calls' = Done(c),
           running' = running \/ calls[c].op \in ProviderOps
    PROVE  OneCallMoves
BY DEF Done, CallsInv, OneCallMoves, CallMoves, IsOver, Marked

LEMMA AwaitMoves ==
    ASSUME CallsInv, NEW c \in Callers, calls[c].pc # "idle",
           NEW pc \in {"stopping", "opening", "remote", "applying", "undoing"}, NEW process,
           calls' = Await(c, pc, process),
           running' = running \/ calls[c].op \in ProviderOps,
           pc = "undoing" => running' = calls[c].arg
    PROVE  OneCallMoves
<1>1. calls[c] \in Call
  BY CallFacts
<1> DEFINE k == [calls[c] EXCEPT !.pc = pc, !.process = process]
<1>2. k.pc = pc /\ k.op = calls[c].op /\ k.arg = calls[c].arg /\ k.config = calls[c].config
      /\ k.alone = calls[c].alone
  BY <1>1 DEF Call
<1>3. calls' = [calls EXCEPT ![c] = k]
  BY <1>1 DEF Await, CallsInv, Call
<1> HIDE DEF k
<1>4. calls'[c] = k /\ \A x \in Callers \ {c} : calls'[x] = calls[x]
  BY <1>3 DEF CallsInv
<1>5. Owns(k, running')
  BY <1>2 DEF Owns
<1> QED BY <1>2, <1>4, <1>5 DEF OneCallMoves, CallMoves, GoesOn, Marked

LEMMA FailMoves ==
    ASSUME CallsInv, NEW c \in Callers, calls[c].pc # "idle", calls' = Fail(c), UNCHANGED running
    PROVE  OneCallMoves
BY AwaitMoves, DoneMoves DEF Fail

LEMMA RestartMoves ==
    ASSUME CallsInv, NEW c \in Callers, calls[c].pc # "idle", BeginRestart(c),
           running' = running \/ calls[c].op \in ProviderOps
    PROVE  OneCallMoves
BY AwaitMoves, DoneMoves DEF BeginRestart

LEMMA ResumeMoves ==
    ASSUME CallsInv, NEW c \in Callers, calls[c].pc # "idle", NEW h, NEW s, NEW k, Resume(c, h, s, k),
           UNCHANGED running
    PROVE  OneCallMoves
<1>1. calls' \in {Await(c, "remote", None), Done(c), Await(c, "opening", None)}
  BY DEF Resume
<1> QED BY <1>1, AwaitMoves, DoneMoves

LEMMA BeginMoves ==
    ASSUME CallsInv, NEW c \in Slots, NEW op \in Ops \ ProviderOps, NEW pc, NEW arg,
           Begin(c, op, pc, arg), UNCHANGED running
    PROVE  OneCallMoves
<1> DEFINE k == [Idle EXCEPT !.op = op, !.pc = pc, !.arg = arg]
<1>1. k.op = op /\ k.config = DefaultConfig
  BY DEF Idle
<1>2. calls' = [calls EXCEPT ![c] = k] /\ app = "window" /\ calls[c] = Idle
  BY DEF Begin, MayBegin
<1> HIDE DEF k
<1>3. c \in Callers /\ calls'[c] = k /\ \A x \in Callers \ {c} : calls'[x] = calls[x]
  BY <1>2 DEF CallsInv, Callers
<1> QED BY <1>1, <1>2, <1>3 DEF OneCallMoves, CallMoves, Begins, Marked

LEMMA ProviderBeginMoves ==
    ASSUME CallsInv, NEW c \in Slots, NEW call, call = Idle \/ (call \in Call /\ CallShape(call)),
           BeginProvider(c, call), UNCHANGED <<app, running, disk, wanted>>,
           call # Idle => Owns(call, running) /\ call.config \in {DefaultConfig, Stored(disk)}
    PROVE  OneCallMoves
<1>1. /\ app = "window" /\ calls[c] = Idle /\ c \in Callers
      /\ calls'[c] = IF call = Idle THEN Idle ELSE [call EXCEPT !.alone = (ProviderCalls = {})]
      /\ \A x \in Callers \ {c} : Marked(x)
      /\ \A x \in ProviderCalls : ~calls'[x].alone
  BY BeginProviderFacts
<1>2. CASE call = Idle
  BY <1>1, <1>2 DEF OneCallMoves, CallMoves, IsOver
<1>3. CASE call # Idle
  <2>1. call \in Call
    BY <1>3
  <2>2. /\ calls'[c].config = call.config /\ (calls'[c].alone <=> ProviderCalls = {})
        /\ Owns(calls'[c], running')
    BY <1>1, <1>3, <2>1 DEF Call, Owns
  <2> QED BY <1>1, <1>3, <2>2 DEF OneCallMoves, CallMoves, Begins
<1> QED BY <1>2, <1>3

LEMMA CallsMove ==
    ASSUME CallsInv, StoreInv, PlainInv, Next
    PROVE  OneCallMoves
<1> USE DEF Callers
<1>1. ASSUME \/ \E p \in Hosts : HostListens(p) \/ HostWedges(p) \/ HostExits(p)
             \/ AutostartOn \/ LaunchBackground \/ BackupRestored
             \/ \E unlinks \in BOOLEAN : AutostartOff(unlinks) \/ LaunchWindow(unlinks)
             \/ \E p \in Providers : TunnelExits(p)
      PROVE  OneCallMoves
  BY <1>1 DEF HostListens, HostWedges, HostExits, AutostartOn, LaunchBackground, BackupRestored,
              AutostartOff, LaunchWindow, TunnelExits, OneCallMoves, appVars
<1>2. ASSUME NEW p \in Hosts, ExitEvent(p) PROVE OneCallMoves
  <2>1. CASE Waiting(p) = {}
    BY <1>2, <2>1 DEF ExitEvent, OneCallMoves, appVars
  <2>2. CASE Waiting(p) # {}
    <3>1. PICK c \in Waiting(p) : \E s, h : Resume(c, h, s, killed)
      BY <1>2, <2>2 DEF ExitEvent
    <3>2. c \in Callers /\ calls[c].pc # "idle" /\ UNCHANGED running
      BY <1>2, <3>1 DEF Waiting, Busy, CallsInv, ExitEvent, appVars
    <3> QED BY <3>1, <3>2, ResumeMoves
  <2> QED BY <2>1, <2>2
<1>3. ASSUME NEW c \in Callers, StopTimeout(c) PROVE OneCallMoves
  <2>1. calls' = Done(c) \/ \E k : Resume(c, None, state, k)
    BY <1>3 DEF StopTimeout
  <2>2. calls[c].pc # "idle" /\ UNCHANGED running
    BY <1>3 DEF StopTimeout, appVars
  <2> QED BY <2>1, <2>2, DoneMoves, ResumeMoves
<1>4. ASSUME NEW c \in Callers, HostOpens(c) \/ OpenFails(c) PROVE OneCallMoves
  BY <1>4, DoneMoves DEF HostOpens, OpenFails, appVars
<1>5. ASSUME WatchdogTick PROVE OneCallMoves
  <2>1. calls' = calls \/ calls' = [calls EXCEPT ![Watchdog] = [Idle EXCEPT !.op = Watchdog, !.pc = "probing"]]
    BY <1>5 DEF WatchdogTick, CallsInv, Idle, Watchdog
  <2>2. calls[Watchdog] = Idle /\ UNCHANGED running
    BY <1>5 DEF WatchdogTick
  <2> QED BY <2>1, <2>2 DEF OneCallMoves, CallMoves, CallsInv, Marked
<1>6. ASSUME WatchdogAnswered \/ WatchdogSilent PROVE OneCallMoves
  BY <1>6, DoneMoves, RestartMoves DEF WatchdogAnswered, WatchdogSilent
<1>7. ASSUME Crash \/ Quit PROVE OneCallMoves
  BY <1>7 DEF Crash, Quit, AppEnds, CallsInv, OneCallMoves
<1>8. ASSUME NEW c \in Slots, BridgeApplies(c) PROVE OneCallMoves
  <2>1. /\ calls[c].pc = "applying" /\ (BeginRestart(c) \/ calls' = Fail(c))
        /\ UNCHANGED running
    BY <1>8 DEF BridgeApplies, Apply, appVars
  <2> QED BY <2>1, RestartMoves, FailMoves
<1>9. ASSUME NEW c \in Slots, ProbeFails(c) \/ ProviderFails(c) PROVE OneCallMoves
  BY <1>9, FailMoves DEF ProbeFails, ProviderFails, appVars
<1>10. ASSUME NEW c \in Slots,
              ProviderSwitched(c) \/ ProviderStarted(c) \/ ProviderUndone(c) \/ ProviderHalts(c)
       PROVE  OneCallMoves
  <2>1. calls[c].op \in ProviderOps /\ calls[c].pc # "idle" /\ calls[c] \in Call /\ CallShape(calls[c])
    BY <1>10, CallFacts
       DEF ProviderSwitched, ProviderStarted, ProviderUndone, ProviderHalts, CallShape, ProviderOps
  <2>2. CASE ProviderStarted(c)
    BY <2>1, <2>2, AwaitMoves DEF ProviderStarted
  <2>3. CASE ProviderUndone(c)
    BY <2>1, <2>3, DoneMoves DEF ProviderUndone
  <2>4. CASE ProviderHalts(c)
    <3>1. calls[c].op # "provider.start"
      BY <2>1, <2>4 DEF ProviderHalts, CallShape
    <3>2. BeginRestart(c) \/ calls' = Done(c)
      BY <2>4, <3>1 DEF ProviderHalts, Apply, Fail
    <3> QED BY <2>1, <3>2, RestartMoves, DoneMoves
  <2>5. CASE ProviderSwitched(c)
    <3>1. PICK refused \in Refusals(calls[c].arg) :
              calls' = [calls EXCEPT ![c] = Entered(calls[c], calls[c].arg, None, refused)]
      BY <2>5 DEF ProviderSwitched
    <3>2. refused \in BOOLEAN /\ running' = None /\ calls[c].op = "provider.start"
          /\ calls[c].arg \in Providers /\ None \notin Providers
      BY <2>1, <2>5, DiskAssumption DEF Refusals, ChildStarts, ProviderSwitched, CallShape
    <3> DEFINE e == Entered(calls[c], calls[c].arg, None, refused)
    <3>3. \/ e = Idle
          \/ /\ e.op = calls[c].op /\ e.config = calls[c].config /\ e.alone = calls[c].alone
             /\ e.pc = "starting"
      BY <2>1, <3>2, EnteredFacts
    <3> HIDE DEF e
    <3>4. calls'[c] = e /\ \A x \in Callers \ {c} : calls'[x] = calls[x]
      BY <3>1 DEF e, CallsInv
    <3>5. IsOver(c) \/ GoesOn(c)
      BY <2>1, <3>2, <3>3, <3>4 DEF IsOver, GoesOn, Owns
    <3> QED BY <2>1, <3>4, <3>5 DEF OneCallMoves, CallMoves, Marked
  <2> QED BY <1>10, <2>2, <2>3, <2>4, <2>5
<1>11. ASSUME NEW c \in Slots, RemoteOpens(c) \/ JoinConnected(c) PROVE OneCallMoves
  BY <1>11, DoneMoves DEF RemoteOpens, JoinConnected
<1>12. ASSUME NEW c \in Slots, JoinResolved(c) PROVE OneCallMoves
  <2>1. CASE calls' = Done(c)
    BY <1>12, <2>1, DoneMoves DEF JoinResolved, appVars
  <2>2. ASSUME NEW seq \in 1..MaxSeq,
               calls' = [calls EXCEPT ![c].pc = "connecting",
                                      ![c].config = [Stored(disk) EXCEPT !.mark = seq]]
        PROVE  OneCallMoves
    <3> DEFINE f == [Stored(disk) EXCEPT !.mark = seq]
               k == [calls[c] EXCEPT !.pc = "connecting", !.config = f]
    <3>1. calls[c] \in Call
      BY CallFacts
    <3>2. k.pc = "connecting" /\ k.config = f /\ k.op = calls[c].op
      BY <3>1 DEF Call
    <3>3. calls' = [calls EXCEPT ![c] = k]
      BY <3>1, <2>2 DEF CallsInv, Call
    <3> HIDE DEF k
    <3>4. calls'[c] = k /\ \A x \in Callers \ {c} : calls'[x] = calls[x]
      BY <3>3 DEF CallsInv
    <3>5. calls[c].pc = "resolving" /\ UNCHANGED <<app, disk, wanted, running>>
      BY <1>12 DEF JoinResolved, appVars
    <3> QED BY <3>2, <3>4, <3>5 DEF OneCallMoves, CallMoves, Resolves, Marked
  <2> QED BY <1>12, <2>1, <2>2 DEF JoinResolved
<1>13. ASSUME NEW c \in Slots, NEW op \in Ops, NEW b \in Bridges, BridgeCall(c, op, b) PROVE OneCallMoves
  BY <1>13, BeginMoves DEF BridgeCall, ProviderOps, appVars
<1>14. ASSUME NEW c \in Slots, NEW p \in Providers, ProviderStart(c, p) PROVE OneCallMoves
  BY <1>14, ProviderStartFacts, ProviderBeginMoves
<1>15. ASSUME NEW c \in Slots, Join(c) \/ Create(c) PROVE OneCallMoves
  BY <1>15, BeginMoves DEF Join, Create, Ops, ProviderOps, appVars
<1>16. ASSUME NEW c \in Slots, ProviderStop(c) PROVE OneCallMoves
  BY <1>16, ProviderStopFacts, ProviderBeginMoves
<1>17. ASSUME NEW c \in Slots, NEW op \in Ops, Activate(c, op) PROVE OneCallMoves
  <2> DEFINE call(pc, p) == [Idle EXCEPT !.op = op, !.pc = pc, !.process = p]
  <2>1. \A pc, p : call(pc, p).op = op /\ call(pc, p).pc = pc /\ call(pc, p).config = DefaultConfig
    BY DEF Idle
  <2>2. \/ \E pc \in {"stopping", "remote", "opening"} : \E p : calls' = [calls EXCEPT ![c] = call(pc, p)]
        \/ calls' = [calls EXCEPT ![c] = Idle]
    BY <1>17 DEF Activate
  <2>3. app = "window" /\ calls[c] = Idle /\ UNCHANGED running /\ op \notin ProviderOps
    <3>1. app = "window" /\ calls[c] = Idle /\ op \in {"activate", "visit"}
      BY <1>17 DEF Activate, MayBegin
    <3>2. UNCHANGED running
      BY <1>17 DEF Activate
    <3> QED BY <3>1, <3>2 DEF ProviderOps
  <2> HIDE DEF call
  <2>4. ASSUME NEW pc \in {"stopping", "remote", "opening"}, NEW p, calls' = [calls EXCEPT ![c] = call(pc, p)]
        PROVE  OneCallMoves
    <3>1. calls'[c] = call(pc, p) /\ \A x \in Callers \ {c} : calls'[x] = calls[x]
      BY <2>4 DEF CallsInv
    <3> QED BY <2>1, <2>3, <3>1 DEF OneCallMoves, CallMoves, Begins, Marked
  <2>5. CASE calls' = [calls EXCEPT ![c] = Idle]
    BY <2>3, <2>5, DoneMoves DEF Done
  <2> QED BY <2>2, <2>4, <2>5
<1> QED
  BY <1>1, <1>2, <1>3, <1>4, <1>5, <1>6, <1>7, <1>8, <1>9, <1>10, <1>11, <1>12, <1>13, <1>14, <1>15,
     <1>16, <1>17 DEF Next

(***************************************************************************)
(* The tunnels.                                                            *)
(***************************************************************************)
\* The public routes that somebody has to know of.
Routes == published \ (left \cup Shares)

TunnelsFit == held \subseteq Tunnels /\ published \subseteq Tunnels /\ left \subseteq published
TunnelsInv == TunnelsFit /\ Routes \subseteq held

\* No route that was in hand is out of hand.
Tracks == Untracked' \subseteq Untracked

LEMMA StopFacts ==
    ASSUME TunnelsInv, NEW p, Stop(p)
    PROVE  /\ TunnelsInv'
           /\ running \in {None, p} /\ running' = None /\ None \notin Tunnels => Tracks
<1>1. CASE Ends(p)
  <2>1. /\ held' = held \ {p} /\ left' = left \cap published'
        /\ published' = IF p \in held THEN published \ Withdrawn(p) ELSE published
    BY <1>1 DEF Ends
  <2>2. p \in Routes => p \notin published'
    BY <2>1 DEF TunnelsInv, Routes, Withdrawn
  <2>3. TunnelsInv'
    BY <2>1, <2>2 DEF TunnelsInv, TunnelsFit, Routes
  <2>4. ASSUME NEW q \in Untracked', running \in {None, p}, running' = None, None \notin Tunnels
        PROVE  q \in Untracked
    <3>1. q \in published /\ q \notin Shares /\ q # None
      BY <2>1, <2>4 DEF Untracked, TunnelsInv, TunnelsFit
    <3>2. CASE q = p
      <4>1. q \notin held
        <5>1. q \in published' /\ q \notin left' \ (held' \ Switches)
          BY <2>4 DEF Untracked
        <5>2. p \in left \ Switches => p \in left' /\ p \notin held'
          BY <2>1, <3>2, <5>1
        <5>3. p \in held => p \in left \ Switches
          BY <2>1, <3>2, <5>1 DEF Withdrawn
        <5> QED BY <3>2, <5>1, <5>2, <5>3
      <4>2. published' = published /\ left' = left
        BY <2>1, <3>2, <4>1 DEF TunnelsInv, TunnelsFit
      <4>3. held' = held /\ q \in Untracked'
        BY <2>1, <2>4, <3>2, <4>1
      <4> QED BY <3>1, <4>1, <4>2, <4>3 DEF Untracked
    <3>3. CASE q # p
      BY <2>1, <2>4, <3>1, <3>3 DEF Untracked
    <3> QED BY <3>2, <3>3
  <2> QED BY <2>3, <2>4 DEF Tracks
<1>2. CASE SwitchStays(p)
  <2>1. TunnelsInv'
    BY <1>2 DEF SwitchStays, TunnelsInv, TunnelsFit, Routes
  <2>2. ASSUME NEW q \in Untracked', running \in {None, p}, running' = None, None \notin Tunnels
        PROVE  q \in Untracked
    <3>1. q \in published /\ q # None /\ q # p
      BY <1>2, <2>2 DEF SwitchStays, Untracked, TunnelsInv, TunnelsFit
    <3> QED BY <1>2, <2>2, <3>1 DEF SwitchStays, Untracked
  <2> QED BY <2>1, <2>2 DEF Tracks
<1>3. CASE ShareStays(p)
  <2>1. TunnelsInv'
    BY <1>3 DEF ShareStays, TunnelsInv, TunnelsFit, Routes
  <2>2. ASSUME NEW q \in Untracked', running \in {None, p}, running' = None, None \notin Tunnels
        PROVE  q \in Untracked
    <3>1. q \in published /\ q # None /\ q # p
      BY <1>3, <2>2 DEF ShareStays, Untracked, TunnelsInv, TunnelsFit
    <3> QED BY <1>3, <2>2, <3>1 DEF ShareStays, Untracked
  <2> QED BY <2>1, <2>2 DEF Tracks
<1> QED BY <1>1, <1>2, <1>3 DEF Stop

LEMMA StartFacts ==
    ASSUME TunnelsInv, NEW p \in Tunnels, Start(p)
    PROVE  /\ TunnelsInv'
           /\ running \in {None, p} /\ running' = p /\ None \notin Tunnels => Tracks
<1>1. TunnelsInv'
  BY DEF Start, TunnelsInv, TunnelsFit, Routes
<1>2. ASSUME NEW q \in Untracked', running \in {None, p}, running' = p, None \notin Tunnels
      PROVE  q \in Untracked
  <2>1. q # p /\ q \in published /\ q # None
    BY <1>2 DEF Start, Untracked, TunnelsInv, TunnelsFit
  <2> QED BY <1>2, <2>1 DEF Start, Untracked
<1> QED BY <1>1, <1>2 DEF Tracks

LEMMA StartFailsFacts ==
    ASSUME TunnelsInv, NEW p \in Tunnels, StartFails(p)
    PROVE  TunnelsInv' /\ (running' = running => Tracks)
<1>1. held' = held \ {p}
  BY DEF StartFails
<1>2. CASE ProcessFails(p)
  <2>1. p \in Processes /\ p \notin Switches /\ left' = left /\ published' = published \ Withdrawn(p)
    BY <1>2, KindsAssumption DEF ProcessFails
  <2>2. p \notin left => p \notin published'
    BY <2>1 DEF Withdrawn
  <2>3. p \in left => p \in published'
    BY <2>1 DEF Withdrawn, TunnelsInv, TunnelsFit
  <2>4. published \ {p} \subseteq published' /\ published' \subseteq published
    BY <2>1 DEF Withdrawn
  <2>5. TunnelsInv'
    BY <1>1, <2>1, <2>2, <2>3, <2>4 DEF TunnelsInv, TunnelsFit, Routes
  <2>6. ASSUME NEW q \in Untracked', running' = running PROVE q \in Untracked
    <3>1. q # p /\ q \in published
      BY <1>1, <2>1, <2>2, <2>4, <2>6 DEF Untracked
    <3> QED BY <1>1, <2>1, <2>6, <3>1 DEF Untracked
  <2> QED BY <2>5, <2>6 DEF Tracks
<1>3. CASE SwitchFails(p)
  <2>1. TunnelsInv'
    BY <1>1, <1>3 DEF SwitchFails, TunnelsInv, TunnelsFit, Routes
  <2>2. ASSUME NEW q \in Untracked', running' = running PROVE q \in Untracked
    <3>1. q # p /\ q \in published
      BY <1>1, <1>3, <2>2 DEF SwitchFails, Untracked
    <3> QED BY <1>1, <1>3, <2>2, <3>1 DEF SwitchFails, Untracked
  <2> QED BY <2>1, <2>2 DEF Tracks
<1>4. CASE ShareFails(p)
  <2>1. TunnelsInv'
    BY <1>1, <1>4 DEF ShareFails, TunnelsInv, TunnelsFit, Routes
  <2>2. ASSUME NEW q \in Untracked', running' = running PROVE q \in Untracked
    BY <1>1, <1>4, <2>2 DEF ShareFails, Untracked
  <2> QED BY <2>1, <2>2 DEF Tracks
<1> QED BY <1>2, <1>3, <1>4 DEF StartFails

LEMMA ExitsFacts ==
    ASSUME TunnelsInv, NEW p, Exits(p), UNCHANGED running
    PROVE  TunnelsInv' /\ Tracks
<1>1. CASE /\ p \in published \cap (held \cup Switches)
           /\ held' = held \ ({p} \ Switches)
           /\ published' = published \ Withdrawn(p)
           /\ left' = left \cap published'
  <2>1. p \in Routes => p \notin published'
    BY <1>1 DEF Routes, Withdrawn
  <2>2. TunnelsInv'
    BY <1>1, <2>1 DEF TunnelsInv, TunnelsFit, Routes
  <2>3. ASSUME NEW q \in Untracked' PROVE q \in Untracked
    <3>1. q # p
      BY <1>1, <2>3 DEF Untracked, Withdrawn
    <3> QED BY <1>1, <2>3, <3>1 DEF Untracked
  <2> QED BY <2>2, <2>3 DEF Tracks
<1>2. CASE /\ p \in left \ Switches
           /\ left' = left \ {p}
           /\ published' = published \ ({p} \ held)
           /\ UNCHANGED held
  <2>1. TunnelsInv'
    BY <1>2 DEF TunnelsInv, TunnelsFit, Routes
  <2>2. ASSUME NEW q \in Untracked' PROVE q \in Untracked
    BY <1>2, <2>2 DEF Untracked
  <2> QED BY <2>1, <2>2 DEF Tracks
<1> QED BY <1>1, <1>2 DEF Exits

LEMMA GoneFacts ==
    ASSUME TunnelsInv, Orphans \/ \E p : QuitStop(p)
    PROVE  TunnelsInv' /\ Tracks
<1>1. held' = {} /\ left' = published' /\ published' \subseteq published
  BY DEF Orphans, QuitStop
<1>2. Untracked' = {}
  BY <1>1 DEF Untracked
<1> QED BY <1>1, <1>2 DEF TunnelsInv, TunnelsFit, Routes, Tracks

\* A call of a provider that was alone all the time is the only one, and knows which runs.
IsAlone(c) == calls[c].op \in ProviderOps /\ calls[c].alone

RouteInv ==
    \A c \in Slots : IsAlone(c) => /\ Owns(calls[c], running)
                                 /\ \A x \in Slots : calls[x].op \in ProviderOps => x = c

LEMMA TunnelsStay ==
    ASSUME UNCHANGED <<tunnelVars, running>>
    PROVE  (TunnelsInv => TunnelsInv') /\ Tracks
BY DEF tunnelVars, TunnelsInv, TunnelsFit, Routes, Untracked, Tracks

\* The calls that leave the tunnels alone, and everything else that does.
LEMMA OthersLeaveTunnels ==
    ASSUME \/ \E p \in Hosts : HostListens(p) \/ HostWedges(p) \/ HostExits(p) \/ ExitEvent(p)
           \/ \E c \in Slots : \/ \E op \in Ops : Activate(c, op) \/ \E b \in Bridges : BridgeCall(c, op, b)
                               \/ \E p \in Providers : ProviderStart(c, p)
                               \/ ProviderStop(c) \/ Create(c) \/ Join(c)
                               \/ BridgeApplies(c) \/ ProbeFails(c)
                               \/ RemoteOpens(c) \/ JoinResolved(c) \/ JoinConnected(c)
           \/ \E c \in Slots \cup {Watchdog} : StopTimeout(c) \/ HostOpens(c) \/ OpenFails(c)
           \/ WatchdogTick \/ WatchdogAnswered \/ WatchdogSilent
           \/ AutostartOn \/ \E unlinks \in BOOLEAN : AutostartOff(unlinks) \/ LaunchWindow(unlinks)
           \/ LaunchBackground \/ BackupRestored
    PROVE  UNCHANGED <<tunnelVars, running>>
BY DEF HostListens, HostWedges, HostExits, ExitEvent, Activate, BridgeCall, ProviderStart, ProviderStop,
       Create, Join, BridgeApplies, ProbeFails, RemoteOpens, JoinResolved, JoinConnected, StopTimeout,
       HostOpens, OpenFails, WatchdogTick, WatchdogAnswered, WatchdogSilent, AutostartOn, AutostartOff,
       LaunchWindow, LaunchBackground, BackupRestored, appVars

\* What a step of the call of a provider does to the tunnels.
LEMMA ProviderTunnels ==
    ASSUME TunnelsInv, CallsInv, NEW c \in Slots,
           \/ ProviderSwitched(c) \/ ProviderStarted(c) \/ ProviderFails(c) \/ ProviderUndone(c)
           \/ ProviderHalts(c)
    PROVE  /\ TunnelsInv'
           /\ calls[c].op \in ProviderOps /\ calls'[c].pc # calls[c].pc
           /\ Owns(calls[c], running) => Tracks
<1>1. None \notin Tunnels /\ c \in Callers
  BY HostingAssumption, DiskAssumption DEF Callers
<1>2. /\ calls[c] \in Call /\ CallShape(calls[c]) /\ calls[c].op \in ProviderOps
      /\ calls[c].pc \in {"switching", "starting", "undoing", "halting"}
      /\ calls[c].arg \in Tunnels \/ calls[c].pc = "halting"
  BY <1>1, CallFacts, HostingAssumption
     DEF ProviderSwitched, ProviderStarted, ProviderFails, ProviderUndone, ProviderHalts, CallShape,
         ProviderOps
<1>3. ASSUME NEW pc, NEW process, calls' = Await(c, pc, process) PROVE calls'[c].pc = pc
  BY <1>1, <1>2, <1>3 DEF Await, CallsInv, Call
<1>4. calls' = Done(c) => calls'[c].pc = "idle"
  BY <1>1 DEF Done, Idle, CallsInv
<1>5. BeginRestart(c) => calls'[c].pc \in {"idle", "stopping"}
  BY <1>3, <1>4 DEF BeginRestart
<1>6. CASE ProviderSwitched(c)
  <2>1. calls[c].pc = "switching" /\ Stop(calls[c].target) /\ running' = None
    BY <1>6 DEF ProviderSwitched
  <2>2. PICK refused \in Refusals(calls[c].arg) :
            calls' = [calls EXCEPT ![c] = Entered(calls[c], calls[c].arg, None, refused)]
    BY <1>6 DEF ProviderSwitched
  <2>3. refused \in BOOLEAN /\ calls[c].op = "provider.start" /\ calls[c].arg \in Providers
    BY <1>2, <2>1 DEF Refusals, ChildStarts, CallShape
  <2> DEFINE e == Entered(calls[c], calls[c].arg, None, refused)
  <2>4. e.pc # "switching"
    <3>1. e = Idle \/ e.pc \in {"starting", "undoing"}
      BY <1>2, <2>3, EnteredFacts
    <3> HIDE DEF e
    <3> QED BY <3>1 DEF Idle
  <2>5. calls'[c] = e
    BY <1>1, <2>2 DEF CallsInv
  <2> HIDE DEF e
  <2> QED BY <1>1, <1>2, <2>1, <2>4, <2>5, StopFacts DEF Owns
<1>7. CASE ProviderStarted(c)
  BY <1>1, <1>2, <1>3, <1>7, StartFacts DEF ProviderStarted, Owns
<1>8. CASE ProviderFails(c)
  <2>1. calls[c].pc = "starting" /\ StartFails(calls[c].arg) /\ running' = running /\ calls' = Fail(c)
    BY <1>8 DEF ProviderFails, appVars
  <2>2. calls'[c].pc # "starting"
    BY <1>3, <1>4, <2>1 DEF Fail
  <2> QED BY <1>2, <2>1, <2>2, StartFailsFacts
<1>9. CASE ProviderUndone(c)
  <2>1. calls[c].pc = "undoing" /\ Stop(calls[c].arg) /\ running' = None /\ calls' = Done(c)
    BY <1>9 DEF ProviderUndone
  <2> QED BY <1>1, <1>2, <1>4, <2>1, StopFacts DEF Owns
<1>10. CASE ProviderHalts(c)
  <2>1. /\ calls[c].pc = "halting" /\ running' = None
        /\ Stop(calls[c].target)
        /\ BeginRestart(c) \/ calls' = Fail(c)
    BY <1>10 DEF ProviderHalts, Apply
  <2>2. calls'[c].pc # "halting"
    BY <1>3, <1>4, <1>5, <2>1 DEF Fail
  <2> QED BY <1>1, <1>2, <2>1, <2>2, StopFacts DEF Owns
<1> QED BY <1>6, <1>7, <1>8, <1>9, <1>10

\* What a step does to the tunnels.
LEMMA TunnelsStep ==
    ASSUME TunnelsInv, CallsInv, RouteInv, Next
    PROVE  /\ TunnelsInv'
           /\ \/ Tracks
              \/ \E c \in Slots : calls[c].op \in ProviderOps /\ ~calls[c].alone /\ calls'[c] # calls[c]
<1>1. ASSUME NEW c \in Slots,
             \/ ProviderSwitched(c) \/ ProviderStarted(c) \/ ProviderFails(c) \/ ProviderUndone(c)
             \/ ProviderHalts(c)
      PROVE  /\ TunnelsInv'
             /\ Tracks \/ (calls[c].op \in ProviderOps /\ ~calls[c].alone /\ calls'[c] # calls[c])
  BY <1>1, ProviderTunnels DEF RouteInv, IsAlone
<1>2. ASSUME Crash \/ Quit PROVE TunnelsInv' /\ Tracks
  BY <1>2, GoneFacts DEF Crash, Quit
<1>3. ASSUME NEW p \in Providers, TunnelExits(p) PROVE TunnelsInv' /\ Tracks
  BY <1>3, ExitsFacts DEF TunnelExits, appVars
<1> QED BY <1>1, <1>2, <1>3, OthersLeaveTunnels, TunnelsStay DEF Next

LEMMA RouteStep ==
    ASSUME CallsInv, RouteInv, OneCallMoves
    PROVE  RouteInv'
<1>1. Slots \subseteq Callers /\ Idle.op \notin ProviderOps
  BY DEF Callers, Idle, ProviderOps
<1>2. CASE calls' = calls /\ running' = running
  BY <1>2 DEF RouteInv, IsAlone
<1>3. CASE \A x \in Callers : calls'[x] = Idle
  BY <1>1, <1>3 DEF RouteInv, IsAlone
<1>4. ASSUME NEW c \in Callers, CallMoves(c) PROVE RouteInv'
  <2>1. ASSUME NEW x \in Slots \ {c}
        PROVE  /\ calls'[x].op = calls[x].op /\ (calls'[x].alone => calls'[x] = calls[x])
    <3>1. Marked(x) /\ calls[x] \in Call
      BY <1>1, <1>4, <2>1 DEF CallMoves, CallsInv
    <3>2. CASE calls'[x] = [calls[x] EXCEPT !.alone = FALSE]
      BY <3>1, <3>2 DEF Call
    <3> QED BY <3>1, <3>2 DEF Marked
  <2>2. CASE c \in Slots /\ Begins(c) /\ calls'[c].op \in ProviderOps
    <3>1. /\ calls[c] = Idle /\ Owns(calls'[c], running') /\ (calls'[c].alone => ProviderCalls = {})
          /\ \A x \in ProviderCalls : ~calls'[x].alone
      BY <2>2 DEF Begins
    <3>2. ASSUME NEW x \in Slots, calls[x].op \in ProviderOps PROVE x \in ProviderCalls
      BY <1>1, <3>2 DEF ProviderCalls, Busy, CallsInv
    <3>3. ASSUME NEW x \in Slots \ {c}, calls'[x].op \in ProviderOps
          PROVE  ~calls'[x].alone /\ ~calls'[c].alone
      BY <2>1, <3>1, <3>2, <3>3
    <3> QED BY <3>1, <3>3 DEF RouteInv, IsAlone
  <2>3. CASE ~(c \in Slots /\ Begins(c) /\ calls'[c].op \in ProviderOps)
    <3>1. c \in Slots /\ calls'[c].op \in ProviderOps =>
              /\ calls'[c].op = calls[c].op /\ calls'[c].alone = calls[c].alone
              /\ Owns(calls'[c], running')
      <4>1. Resolves(c) => calls'[c].op = "join"
        BY <1>4, CallFacts DEF Resolves, CallShape
      <4> QED BY <1>1, <1>4, <2>3, <4>1, WatchdogIsNoSlot
              DEF CallMoves, IsOver, GoesOn, ProviderOps
    <3>2. ASSUME NEW x \in Slots, calls'[x].op \in ProviderOps, calls'[x].alone
          PROVE  IsAlone(x) /\ Owns(calls'[x], running')
      <4>1. CASE x = c
        BY <3>1, <3>2, <4>1 DEF IsAlone
      <4>2. CASE x # c
        <5>1. calls'[x] = calls[x] /\ IsAlone(x)
          BY <2>1, <3>2, <4>2 DEF IsAlone
        <5>2. running' = running
          <6>1. c \in Slots /\ calls[c].op \in ProviderOps => FALSE
            BY <3>2, <4>2, <5>1 DEF RouteInv
          <6>2. c \notin Slots => calls[c].op \notin ProviderOps
            BY DEF Callers, CallsInv, ProviderOps, Watchdog
          <6> QED BY <1>4, <6>1, <6>2 DEF CallMoves
        <5> QED BY <5>1, <5>2, <3>2 DEF RouteInv
      <4> QED BY <4>1, <4>2
    <3>3. ASSUME NEW x \in Slots, calls'[x].op \in ProviderOps PROVE calls[x].op \in ProviderOps
      BY <2>1, <3>1, <3>3
    <3> QED BY <3>2, <3>3 DEF RouteInv, IsAlone
  <2> QED BY <2>2, <2>3
<1> QED BY <1>2, <1>3, <1>4 DEF OneCallMoves

(***************************************************************************)
(* The intent to host in the background.                                   *)
(***************************************************************************)
\* The last envelope that was sealed does not ask for a host in the background.
SealedOff(d) == d.anchor # None => ~d.anchor.payload.background

\* Who did not ask for autostart has nothing on disk that could start a host, not even
\* after a file came back, and no call that could store the intent again.
IntentFits(w, a, d) ==
    ~w => SealedOff(d) \/ (~d.entry /\ (a = "window" => ~Trusted(d)))

ConfigsOff == \A c \in Callers : ~calls[c].config.background

IntentInv ==
    /\ wanted \in BOOLEAN /\ IntentFits(wanted, app, disk)
    /\ ~wanted => ConfigsOff

LEMMA SealFacts ==
    ASSUME NEW d, StoreTyped(d)
    PROVE  /\ SealedOff(d) => ~Stored(d).background
           /\ ~Trusted(d) => ~Stored(d).background
           /\ Trusted(d) /\ ~Stored(d).background => SealedOff(d)
<1>1. ~DefaultConfig.background
  BY DEF DefaultConfig
<1>2. SealedOff(d) => ~Stored(d).background
  BY <1>1, StoreFacts, ConfigFacts DEF SealedOff
<1>3. ~Trusted(d) => ~Stored(d).background
  BY <1>1, StoreFacts DEF Trusted
<1>4. Trusted(d) /\ ~Stored(d).background => SealedOff(d)
  <2>1. d.anchor # None => d.key
    BY DEF StoreTyped
  <2>2. Trusted(d) /\ d.anchor # None => Intact(d)
    BY <2>1 DEF Trusted, Empty, Legacy
  <2> QED BY <2>2, StoreFacts DEF SealedOff
<1> QED BY <1>2, <1>3, <1>4

\* In the window, the stored configuration has the intent only if it was asked for.
LEMMA StoredOff ==
    ASSUME StoreInv, IntentInv, app = "window", ~wanted
    PROVE  ~Stored(disk).background
BY SealFacts DEF StoreInv, IntentInv, IntentFits

LEMMA ChangeOff ==
    ASSUME StoreInv, CallsInv, IntentInv, app = "window", ~wanted, NEW c \in Callers
    PROVE  ~Change(c).background
<1>1. Stored(disk) \in Config /\ ~Stored(disk).background
  BY StoreFacts, StoredOff DEF StoreInv
<1>2. calls[c].config \in Config /\ ~calls[c].config.background
  BY CallFacts DEF IntentInv, ConfigsOff
<1>3. ~CallChange(c).background
  BY <1>1 DEF CallChange, Config
<1>4. ~[calls[c].config EXCEPT !.route = None].background
  BY <1>2 DEF Config
<1> QED BY <1>2, <1>3, <1>4 DEF Change

LEMMA ConfigsStayOff ==
    ASSUME StoreInv, CallsInv, IntentInv, OneCallMoves, ~wanted
    PROVE  ConfigsOff'
<1>1. ~DefaultConfig.background /\ Idle.config = DefaultConfig
  BY DEF DefaultConfig, Idle
<1>2. CASE calls' = calls
  BY <1>2 DEF IntentInv, ConfigsOff
<1>3. CASE \A x \in Callers : calls'[x] = Idle
  BY <1>1, <1>3 DEF ConfigsOff
<1>4. ASSUME NEW c \in Callers, CallMoves(c) PROVE ConfigsOff'
  <2>1. \A x \in Callers \ {c} : ~calls'[x].config.background
    <3>1. TAKE x \in Callers \ {c}
    <3>2. calls[x] \in Call /\ ~calls[x].config.background
      BY DEF CallsInv, IntentInv, ConfigsOff
    <3>3. Marked(x)
      BY <1>4 DEF CallMoves
    <3>4. CASE calls'[x] = [calls[x] EXCEPT !.alone = FALSE]
      <4>1. calls'[x].config = calls[x].config
        BY <3>2, <3>4 DEF Call
      <4> QED BY <3>2, <4>1
    <3> QED BY <3>2, <3>3, <3>4 DEF Marked
  <2>2. CASE IsOver(c) \/ GoesOn(c)
    BY <1>1, <2>1, <2>2 DEF IsOver, GoesOn, IntentInv, ConfigsOff
  <2>3. CASE Resolves(c)
    <3>1. app = "window"
      BY <2>3, CallFacts DEF Resolves
    <3>2. Stored(disk) \in Config /\ ~Stored(disk).background
      BY <3>1, StoreFacts, StoredOff DEF StoreInv
    <3>3. \A seq : ~[Stored(disk) EXCEPT !.mark = seq].background
      BY <3>2 DEF Config
    <3> QED BY <2>1, <2>3, <3>3 DEF Resolves, ConfigsOff
  <2>4. CASE Begins(c)
    <3>1. calls'[c].config \in {DefaultConfig, Stored(disk)} /\ app = "window"
      BY <2>4 DEF Begins
    <3> QED BY <1>1, <2>1, <3>1, StoredOff DEF ConfigsOff
  <2>5. CASE calls'[c] = [Idle EXCEPT !.op = Watchdog, !.pc = "probing"]
    <3>1. calls'[c].config = DefaultConfig
      BY <2>5 DEF Idle
    <3> QED BY <1>1, <2>1, <3>1 DEF ConfigsOff
  <2> QED BY <1>4, <2>2, <2>3, <2>4, <2>5 DEF CallMoves
<1> QED BY <1>2, <1>3, <1>4 DEF OneCallMoves

\* Nothing is asked for or taken back, and what could launch a host stays as it is.
LEMMA IntentStays ==
    ASSUME StoreInv, CallsInv, IntentInv, OneCallMoves, UNCHANGED wanted,
           app' = app \/ app' # "window",
           disk'.entry = disk.entry, disk'.anchor = disk.anchor,
           app' = "window" => (Trusted(disk)' <=> Trusted(disk))
    PROVE  IntentInv'
<1>1. ~wanted => ConfigsOff'
  BY ConfigsStayOff
<1>2. IntentFits(wanted', app', disk')
  BY DEF IntentInv, IntentFits, SealedOff
<1> QED BY <1>1, <1>2 DEF IntentInv

LEMMA IntentKept ==
    ASSUME StoreInv, CallsInv, IntentInv, OneCallMoves, UNCHANGED wanted,
           app' = app \/ app' # "window", SameStore(disk, disk'), SameArtifacts(disk, disk')
    PROVE  IntentInv'
BY IntentStays, SameFacts DEF SameStore, SameArtifacts

\* The store was written, and no intent into it.
LEMMA IntentWritten ==
    ASSUME StoreInv, StoreInv', CallsInv, IntentInv, OneCallMoves, UNCHANGED wanted,
           Trusted(disk)', ~wanted => ~Stored(disk)'.background
    PROVE  IntentInv'
<1>1. ~wanted => ConfigsOff'
  BY ConfigsStayOff
<1>2. ~wanted => SealedOff(disk')
  BY SealFacts DEF StoreInv
<1> QED BY <1>1, <1>2 DEF IntentInv, IntentFits

LEMMA CrashIntent ==
    ASSUME StoreInv, CallsInv, IntentInv, Crash
    PROVE  IntentInv'
<1>1. app = "window" /\ app' = "off" /\ wanted' = (wanted \/ Stored(disk').background)
  BY DEF Crash, AppEnds
<1>2. ConfigsOff'
  <2>1. \A c \in Callers : calls'[c] = Idle
    BY DEF Crash, AppEnds, CallsInv
  <2> QED BY <2>1 DEF ConfigsOff, Idle, DefaultConfig
<1>3. SUFFICES ASSUME ~wanted, ~Stored(disk').background
               PROVE  SealedOff(disk') \/ ~disk'.entry
  BY <1>1, <1>2 DEF IntentInv, IntentFits
<1>4. PICK steps \in UnderWay : disk' \in Range(steps)
  BY DEF Crash
<1>5. ~Stored(disk).background
  BY <1>1, <1>3, StoredOff
<1>6. CASE steps = <<disk>> \/ steps = EnsureKey(disk)
  <2>1. disk \in Disk /\ Recoverable(disk)
    BY DEF StoreInv, StoreTyped
  <2>2. Rekeyed(disk, disk)
    BY <2>1 DEF Rekeyed, SameStore, SameArtifacts
  <2>3. Rekeyed(disk, disk')
    BY <1>4, <1>6, <2>1, <2>2, ShortFacts, EnsureFacts
  <2>4. disk'.anchor = disk.anchor /\ disk'.entry = disk.entry
    BY <2>3 DEF Rekeyed, SameStore, SameArtifacts
  <2> QED BY <1>3, <2>4 DEF IntentInv, IntentFits, SealedOff
\* Whatever was being written, what is sealed is what is stored now, or what was.
<1>7. ASSUME NEW C, Wrote(disk, disk', C) PROVE SealedOff(disk')
  <2>1. disk'.anchor # None => disk'.anchor.payload = Stored(disk) \/ Intact(disk')
    BY <1>7 DEF Wrote
  <2>2. Intact(disk') => SealedOff(disk')
    BY <1>3, <1>7, SealFacts DEF Wrote, Trusted
  <2> QED BY <1>5, <2>1, <2>2 DEF SealedOff
<1>8. CASE Trusted(disk) /\ steps = EnableAutostart(disk)
  BY <1>4, <1>7, <1>8, EnableFacts DEF StoreInv
<1>9. CASE Trusted(disk) /\ steps = DisableAutostart(disk, TRUE)
  <2>1. Wrote(disk, disk', {SwitchedOff(disk)})
    BY <1>4, <1>9, DisableFacts DEF StoreInv
  <2> QED BY <1>7, <2>1
<1>10. ASSUME Trusted(disk), NEW c \in Busy,
              \/ calls[c].pc = "applying" /\ steps = ApplySteps(CallChange(c))
              \/ calls[c].pc = "halting" /\ steps = ApplySteps([calls[c].config EXCEPT !.route = None])
              \/ calls[c].pc = "connecting" /\ steps = WriteConfig(disk, calls[c].config)
       PROVE  SealedOff(disk')
  <2>1. c \in Callers
    BY <1>10 DEF Busy, CallsInv
  <2>2. Change(c) \in Config /\ (steps = ApplySteps(Change(c)) \/ steps = WriteConfig(disk, Change(c)))
    BY <1>10, <2>1, ChangeTyped DEF Change
  <2>3. Wrote(disk, disk', {Change(c)})
    BY <1>4, <1>10, <2>2, ApplyFacts, WriteFacts DEF StoreInv
  <2> QED BY <1>7, <2>3
<1> QED BY <1>4, <1>6, <1>8, <1>9, <1>10 DEF UnderWay

\* A launch takes an intent without its artifacts back.
LEMMA LaunchIntent ==
    ASSUME StoreInv, CallsInv, IntentInv, app = "off", NEW unlinks \in BOOLEAN,
           disk' = Last(Reconcile(disk, unlinks)), UNCHANGED calls,
           wanted' \in BOOLEAN,
           wanted' => wanted,
           wanted /\ ~wanted' => ~Launches(disk) /\ TakesBack(unlinks)
    PROVE  IntentInv'
<1>1. \A c \in Callers : calls'[c] = Idle
  BY DEF CallsInv
<1>2. ConfigsOff'
  BY <1>1 DEF ConfigsOff, Idle, DefaultConfig
<1>3. SUFFICES ASSUME ~wanted' PROVE IntentFits(FALSE, app', disk')
  BY <1>2, <1>3 DEF IntentInv, IntentFits
<1>4. ~Launches(disk)
  <2>1. CASE wanted
    BY <1>3, <2>1
  <2>2. CASE ~wanted
    <3>1. SealedOff(disk) \/ ~disk.entry
      BY <2>2 DEF IntentInv, IntentFits
    <3> QED BY <3>1, SealFacts DEF Launches, StoreInv
  <2> QED BY <2>1, <2>2
<1>5. CASE Trusted(disk)
  <2>1. StoreTyped(disk') /\ Trusted(disk') /\ ~Stored(disk').background
    BY <1>4, <1>5, ReconcileFacts DEF StoreInv
  <2> QED BY <2>1, SealFacts DEF IntentFits
<1>6. CASE ~Trusted(disk) /\ unlinks
  <2>1. ~Trusted(disk') /\ ~disk'.entry
    BY <1>4, <1>6, ReconcileFacts DEF StoreInv
  <2> QED BY <2>1 DEF IntentFits
<1>7. CASE ~Trusted(disk) /\ ~unlinks
  <2>1. disk' = disk /\ ~wanted
    BY <1>3, <1>7, ReconcileFacts DEF StoreInv, TakesBack
  <2> QED BY <1>7, <2>1 DEF IntentInv, IntentFits
<1> QED BY <1>5, <1>6, <1>7

LEMMA NotWrittenBack ==
    ASSUME CallsInv, ~WritesItBack, UNCHANGED calls
    PROVE  ConfigsOff'
<1>1. ~Idle.config.background
  BY DEF Idle, DefaultConfig
<1>2. DOMAIN calls = Callers
  BY DEF CallsInv
<1>3. \A c \in Callers : ~calls[c].config.background
  BY <1>1, <1>2 DEF WritesItBack, Busy
<1> QED BY <1>3 DEF ConfigsOff

LEMMA AutostartIntent ==
    ASSUME StoreInv, CallsInv, IntentInv, OneCallMoves,
           AutostartOn \/ \E unlinks \in BOOLEAN : AutostartOff(unlinks)
    PROVE  IntentInv'
<1>1. ASSUME Trusted(disk), NEW unlinks \in BOOLEAN, disk' = Last(DisableAutostart(disk, unlinks))
      PROVE  SealedOff(disk')
  <2>1. /\ Wrote(disk, disk', {SwitchedOff(disk)}) /\ Intact(disk')
        /\ Stored(disk') = SwitchedOff(disk) /\ ~SwitchedOff(disk).background
    BY <1>1, DisableFacts, SwitchedFacts DEF StoreInv
  <2> QED BY <2>1, SealFacts DEF Wrote, Trusted
<1>2. ASSUME ~Trusted(disk), NEW unlinks \in BOOLEAN, disk' = Last(RemoveArtifacts(disk, unlinks))
      PROVE  ~Trusted(disk') /\ (unlinks => ~disk'.entry) /\ (~unlinks => disk' = disk)
  <2>1. /\ SameStore(disk, disk') /\ (unlinks => ~disk'.entry) /\ (~unlinks => disk' = disk)
    BY <1>2, RemoveFacts DEF StoreInv, StoreTyped
  <2> QED BY <1>2, <2>1, SameFacts
<1>3. CASE AutostartOn
  <2>1. CASE primary /\ Trusted(disk) /\ ~KeyFails(disk)
    <3>1. wanted' = TRUE
      BY <1>3, <2>1 DEF AutostartOn
    <3> QED BY <3>1 DEF IntentInv, IntentFits
  <2>2. CASE ~(primary /\ Trusted(disk) /\ ~KeyFails(disk))
    <3>1. /\ disk' = Last(IF Trusted(disk) THEN RollbackAutostart(disk, TRUE)
                          ELSE RemoveArtifacts(disk, TRUE))
          /\ wanted' = WritesItBack /\ UNCHANGED calls
      BY <1>3, <2>2 DEF AutostartOn
    <3>2. SealedOff(disk') \/ (~disk'.entry /\ ~Trusted(disk'))
      BY <1>1, <1>2, <3>1 DEF RollbackAutostart
    <3>3. WritesItBack \in BOOLEAN
      BY DEF WritesItBack
    <3> QED BY <3>1, <3>2, <3>3, NotWrittenBack DEF IntentInv, IntentFits
  <2> QED BY <2>1, <2>2
<1>4. ASSUME NEW unlinks \in BOOLEAN, AutostartOff(unlinks) PROVE IntentInv'
  <2>1. /\ disk' = Last(IF Trusted(disk) THEN DisableAutostart(disk, unlinks)
                        ELSE RemoveArtifacts(disk, unlinks))
        /\ wanted' = (WritesItBack \/ (wanted /\ ~TakesBack(unlinks))) /\ UNCHANGED <<app, calls>>
    BY <1>4 DEF AutostartOff
  <2>2. SUFFICES ASSUME ~wanted' PROVE IntentFits(FALSE, app', disk')
    BY <2>1, NotWrittenBack DEF IntentInv, IntentFits
  <2>3. CASE Trusted(disk)
    BY <1>1, <2>1, <2>3 DEF IntentFits
  <2>4. CASE ~Trusted(disk) /\ unlinks
    BY <1>2, <2>1, <2>4 DEF IntentFits
  <2>5. CASE ~Trusted(disk) /\ ~unlinks
    <3>1. disk' = disk /\ ~wanted
      BY <1>2, <2>1, <2>2, <2>5 DEF TakesBack
    <3> QED BY <2>1, <3>1 DEF IntentInv, IntentFits
  <2> QED BY <2>3, <2>4, <2>5
<1> QED BY <1>3, <1>4

LEMMA IntentStep ==
    ASSUME StoreInv, CallsInv, PlainInv, IntentInv, Next
    PROVE  IntentInv'
<1> OneCallMoves /\ StoreInv'
  BY CallsMove, StoreStep
<1>1. ASSUME UNCHANGED <<app, disk, wanted>> PROVE IntentInv'
  BY <1>1, IntentStays
<1>2. ASSUME UNCHANGED <<app, wanted>>, Rekeyed(disk, disk') PROVE IntentInv'
  BY <1>2, IntentKept DEF Rekeyed
<1>3. ASSUME NEW p \in Hosts, HostListens(p) PROVE IntentInv'
  <2>1. disk' = disk \/ disk' = [disk EXCEPT !.db = "new"]
    BY <1>3 DEF HostListens
  <2>2. SameStore(disk, disk') /\ SameArtifacts(disk, disk')
    BY <2>1 DEF StoreInv, StoreTyped, SameStore, SameArtifacts, Disk
  <2> QED BY <1>3, <2>2, IntentKept DEF HostListens
<1>4. ASSUME NEW p \in Hosts, ExitEvent(p) PROVE IntentInv'
  <2>1. UNCHANGED <<app, wanted>> /\ (disk' = disk \/ \E c, h, s : Resume(c, h, s, killed))
    BY <1>4 DEF ExitEvent
  <2> QED BY <1>1, <1>2, <2>1, ResumeStore
<1>5. ASSUME NEW c \in Callers, StopTimeout(c) PROVE IntentInv'
  <2>1. UNCHANGED <<app, wanted>> /\ (disk' = disk \/ \E k : Resume(c, None, state, k))
    BY <1>5 DEF StopTimeout
  <2> QED BY <1>1, <1>2, <2>1, ResumeStore
<1>6. ASSUME NEW c \in Slots, BridgeApplies(c) \/ ProviderHalts(c) PROVE IntentInv'
  <2>1. Apply(c, Change(c)) /\ c \in Callers /\ UNCHANGED <<app, wanted>> /\ calls[c].pc # "idle"
    BY <1>6 DEF BridgeApplies, ProviderHalts, Change, Callers
  <2>2. app = "window" /\ Change(c) \in Config
    BY <2>1, CallFacts, ChangeTyped
  <2>3. /\ ~Trusted(disk) => disk' = disk
        /\ Trusted(disk) => Trusted(disk)'
        /\ Stored(disk)' \in {Change(c), Stored(disk)}
    BY <2>1, <2>2, ApplyStore DEF Trusted
  <2>4. ~wanted => ~Stored(disk)'.background
    BY <2>1, <2>2, <2>3, ChangeOff, StoredOff
  <2> QED BY <1>1, <2>1, <2>3, <2>4, IntentWritten
<1>7. ASSUME NEW c \in Slots, Create(c) PROVE IntentInv'
  BY <1>2, <1>7, SpawnStore DEF Create
<1>8. ASSUME NEW c \in Slots, NEW op \in Ops, Activate(c, op) PROVE IntentInv'
  <2>1. UNCHANGED <<app, wanted>> /\ (disk' = disk \/ SpawnHost(disk, None, state, killed))
    BY <1>8 DEF Activate
  <2> QED BY <1>1, <1>2, <2>1, SpawnStore
<1>9. ASSUME NEW c \in Slots, JoinConnected(c) PROVE IntentInv'
  <2>1. c \in Callers /\ calls[c].pc = "connecting" /\ UNCHANGED <<app, wanted>>
    BY <1>9 DEF JoinConnected, Callers
  <2>2. app = "window" /\ Change(c) = calls[c].config /\ Change(c) \in Config
    BY <2>1, CallFacts, ChangeTyped DEF Change
  <2>3. CASE ~Trusted(disk)
    BY <1>1, <1>9, <2>1, <2>3 DEF JoinConnected
  <2>4. CASE Trusted(disk)
    <3>1. Trusted(disk)' /\ Stored(disk)' = Change(c)
      BY <1>9, <2>2, <2>4, WriteFacts DEF JoinConnected, StoreInv
    <3> QED BY <2>1, <2>2, <3>1, ChangeOff, IntentWritten
  <2> QED BY <2>3, <2>4
<1>10. ASSUME BackupRestored PROVE IntentInv'
  <2>1. app = "off" /\ UNCHANGED <<app, wanted>> /\ disk' = [disk EXCEPT !.data = disk.older]
    BY <1>10 DEF BackupRestored
  <2>2. disk'.entry = disk.entry /\ disk'.anchor = disk.anchor
    BY <2>1 DEF StoreInv, StoreTyped, Disk
  <2> QED BY <2>1, <2>2, IntentStays
<1>11. ASSUME Quit PROVE IntentInv'
  BY <1>11, IntentStays DEF Quit, AppEnds
<1>12. ASSUME NEW unlinks \in BOOLEAN, LaunchWindow(unlinks) PROVE IntentInv'
  <2>1. /\ app = "off" /\ disk' = Last(Reconcile(disk, unlinks)) /\ UNCHANGED calls
        /\ wanted' = (wanted /\ (Launches(disk) \/ ~TakesBack(unlinks)))
    BY <1>12 DEF LaunchWindow
  <2> QED BY <2>1, LaunchIntent
<1>13. ASSUME LaunchBackground PROVE IntentInv'
  <2>1. PICK unlinks \in BOOLEAN : unlinks = TRUE
    OBVIOUS
  <2>2. /\ app = "off" /\ disk' = Last(Reconcile(disk, unlinks)) /\ UNCHANGED calls
        /\ (wanted' = wanted) \/ (~Launches(disk) /\ wanted' = FALSE)
    BY <1>13, <2>1 DEF LaunchBackground
  <2>3. TakesBack(unlinks) /\ wanted \in BOOLEAN
    BY <2>1 DEF TakesBack, IntentInv
  <2>4. CASE wanted' = wanted
    BY <2>2, <2>3, <2>4, LaunchIntent
  <2>5. CASE ~Launches(disk) /\ wanted' = FALSE
    <3>1. wanted' \in BOOLEAN /\ ~wanted'
      BY <2>5
    <3> QED BY <2>2, <2>3, <2>5, <3>1, LaunchIntent
  <2> QED BY <2>2, <2>4, <2>5
<1>14. ASSUME \/ \E p \in Hosts : HostWedges(p) \/ HostExits(p)
              \/ WatchdogTick \/ WatchdogAnswered \/ WatchdogSilent
              \/ \E p \in Providers : TunnelExits(p)
       PROVE  IntentInv'
  BY <1>1, <1>14 DEF HostWedges, HostExits, WatchdogTick, WatchdogAnswered, WatchdogSilent, TunnelExits
<1> QED
  BY <1>1, <1>3, <1>4, <1>5, <1>6, <1>7, <1>8, <1>9, <1>10, <1>11, <1>12, <1>13, <1>14,
     AutostartIntent, CrashIntent, CallsLeaveDisk DEF Next, Callers

(***************************************************************************)
(* The configuration of the host that runs.                                *)
(***************************************************************************)
MaterialKept == Material(Stored(disk))' = Material(Stored(disk))

\* A join stores what it had read before other bridges or another route were stored.
JoinLeaves ==
    \E c \in Slots : /\ calls[c].pc = "connecting" /\ calls[c].config = Stored(disk)'
                   /\ Material(calls[c].config) # Material(Stored(disk))

\* Whether there is a host, and what it was started with, after a step of a window.
ConfigMoves ==
    app' = "window" =>
        \/ hostProcess' = None
        \/ started'[hostProcess'] = Material(Stored(disk))'
        \/ UNCHANGED <<hostProcess, started>> /\ MaterialKept
        \/ JoinLeaves

LEMMA StoreKeepsMaterial ==
    ASSUME SameStore(disk, disk')
    PROVE  MaterialKept
BY SameFacts DEF MaterialKept

LEMMA QuietConfig ==
    ASSUME UNCHANGED <<app, hostProcess, started>>, MaterialKept
    PROVE  ConfigMoves
BY DEF ConfigMoves

LEMMA SpawnConfig ==
    ASSUME StoreInv, HostsInv, UNCHANGED app, NEW h \in {None, hostProcess}, NEW s, NEW k,
           SpawnHost(disk, h, s, k)
    PROVE  ConfigMoves
<1>1. MaterialKept
  BY SpawnStore, StoreKeepsMaterial DEF Rekeyed
<1>2. CASE h # None \/ KeyFails(disk) \/ Unused = {}
  <2>1. hostProcess' = h /\ UNCHANGED started
    BY <1>2 DEF SpawnHost
  <2> QED BY <1>1, <2>1 DEF ConfigMoves
<1>3. CASE ~(h # None \/ KeyFails(disk) \/ Unused = {})
  <2>1. PICK p \in Unused :
            hostProcess' = p /\ started' = [started EXCEPT ![p] = Material(Stored(disk))]
    BY <1>3 DEF SpawnHost
  <2>2. started'[p] = Material(Stored(disk))
    BY <2>1 DEF Unused, HostsInv, HostsFit
  <2> QED BY <1>1, <2>1, <2>2 DEF ConfigMoves, MaterialKept
<1> QED BY <1>2, <1>3

LEMMA ResumeConfig ==
    ASSUME StoreInv, HostsInv, UNCHANGED app, NEW c, NEW h \in {None, hostProcess}, NEW s, NEW k,
           Resume(c, h, s, k)
    PROVE  ConfigMoves
<1>1. CASE calls[c].op = "visit"
  <2>1. hostProcess' = h /\ UNCHANGED <<started, disk>>
    BY <1>1 DEF Resume
  <2> QED BY <2>1 DEF ConfigMoves, MaterialKept
<1>2. CASE calls[c].op # "visit"
  BY <1>2, SpawnConfig DEF Resume
<1> QED BY <1>1, <1>2

LEMMA AutostartConfig ==
    ASSUME StoreInv, AutostartOn \/ \E unlinks \in BOOLEAN : AutostartOff(unlinks)
    PROVE  ConfigMoves
<1>1. UNCHANGED <<app, hostProcess, started>>
  BY DEF AutostartOn, AutostartOff, hostVars
<1>2. CASE Trusted(disk) /\ disk' = Last(EnableAutostart(disk))
  <2>1. Stored(disk') = SwitchedOn(disk)
    BY <1>2, EnableFacts DEF StoreInv
  <2> QED BY <1>1, <2>1, SwitchedFacts, QuietConfig DEF StoreInv, MaterialKept
<1>3. ASSUME Trusted(disk), NEW unlinks \in BOOLEAN, disk' = Last(DisableAutostart(disk, unlinks))
      PROVE  ConfigMoves
  <2>1. Stored(disk') = SwitchedOff(disk)
    BY <1>3, DisableFacts DEF StoreInv
  <2> QED BY <1>1, <2>1, SwitchedFacts, QuietConfig DEF StoreInv, MaterialKept
<1>4. ASSUME NEW unlinks \in BOOLEAN, disk' = Last(RemoveArtifacts(disk, unlinks)) PROVE ConfigMoves
  <2>1. SameStore(disk, disk')
    BY <1>4, RemoveFacts DEF StoreInv, StoreTyped
  <2> QED BY <1>1, <2>1, StoreKeepsMaterial, QuietConfig
<1> QED BY <1>2, <1>3, <1>4 DEF AutostartOn, AutostartOff, RollbackAutostart

LEMMA MaterialStep ==
    ASSUME StoreInv, CallsInv, HostsInv, Next
    PROVE  ConfigMoves
<1>1. ASSUME UNCHANGED <<app, disk, hostProcess, started>> PROVE ConfigMoves
  BY <1>1, QuietConfig DEF MaterialKept
<1>2. ASSUME app' # "window" PROVE ConfigMoves
  BY <1>2 DEF ConfigMoves
<1>3. ASSUME UNCHANGED app, disk' = disk, hostProcess' = None PROVE ConfigMoves
  BY <1>3 DEF ConfigMoves, MaterialKept
<1>4. ASSUME NEW p \in Hosts, HostListens(p) PROVE ConfigMoves
  <2>1. disk' = disk \/ disk' = [disk EXCEPT !.db = "new"]
    BY <1>4 DEF HostListens
  <2>2. SameStore(disk, disk')
    BY <2>1 DEF StoreInv, StoreTyped, SameStore, Disk
  <2> QED BY <1>4, <2>2, StoreKeepsMaterial, QuietConfig DEF HostListens
<1>5. ASSUME NEW p \in Hosts, ExitEvent(p) PROVE ConfigMoves
  <2> DEFINE h == IF hostProcess = p THEN None ELSE hostProcess
             s == [state EXCEPT ![p] = "gone"]
  <2>1. /\ UNCHANGED app /\ h \in {None, hostProcess}
        /\ \/ \E c : Resume(c, h, s, killed)
           \/ hostProcess' = h /\ UNCHANGED <<started, disk>>
    BY <1>5 DEF ExitEvent
  <2> HIDE DEF h, s
  <2>2. CASE hostProcess' = h /\ UNCHANGED <<started, disk>>
    BY <1>1, <1>3, <2>1, <2>2
  <2> QED BY <2>1, <2>2, ResumeConfig
<1>6. ASSUME NEW c \in Callers, StopTimeout(c) PROVE ConfigMoves
  <2>1. UNCHANGED app /\ ((\E k : Resume(c, None, state, k)) \/ UNCHANGED <<hostVars, disk>>)
    BY <1>6 DEF StopTimeout
  <2>2. CASE UNCHANGED <<hostVars, disk>>
    BY <1>1, <2>1, <2>2 DEF hostVars
  <2> QED BY <2>1, <2>2, ResumeConfig
<1>7. ASSUME NEW c \in Slots, BridgeApplies(c) \/ ProviderHalts(c) PROVE ConfigMoves
  <2>1. Apply(c, Change(c)) /\ c \in Callers /\ UNCHANGED app /\ calls[c].pc # "idle"
        /\ calls[c].pc \in {"applying", "halting"}
    BY <1>7 DEF BridgeApplies, ProviderHalts, Change, Callers
  <2>2. Change(c) \in Config
    BY <2>1, ChangeTyped
  <2>3. hostProcess' = None \/ (Stored(disk)' = Stored(disk) /\ UNCHANGED hostVars)
    BY <2>1, <2>2, ApplyStore
  <2> QED BY <2>1, <2>2, <2>3 DEF ConfigMoves, MaterialKept, hostVars
<1>8. ASSUME NEW c \in Slots, Create(c) PROVE ConfigMoves
  BY <1>8, SpawnConfig DEF Create
<1>9. ASSUME NEW c \in Slots, NEW op \in Ops, Activate(c, op) PROVE ConfigMoves
  <2>1. /\ UNCHANGED app
        /\ \/ UNCHANGED <<hostVars, disk>>
           \/ KillHost /\ UNCHANGED disk
           \/ SpawnHost(disk, None, state, killed)
    BY <1>9 DEF Activate
  <2>2. CASE UNCHANGED <<hostVars, disk>>
    BY <1>1, <2>1, <2>2 DEF hostVars
  <2>3. CASE KillHost /\ UNCHANGED disk
    BY <1>3, <2>1, <2>3 DEF KillHost
  <2> QED BY <2>1, <2>2, <2>3, SpawnConfig
<1>10. ASSUME NEW c \in Slots, JoinConnected(c) PROVE ConfigMoves
  <2>1. c \in Callers /\ calls[c].pc = "connecting" /\ UNCHANGED <<app, hostProcess, started>>
    BY <1>10 DEF JoinConnected, Callers, hostVars
  <2>2. CASE ~Trusted(disk)
    BY <1>1, <1>10, <2>1, <2>2 DEF JoinConnected
  <2>3. CASE Trusted(disk)
    <3>1. calls[c].config \in Config
      BY <2>1, CallFacts
    <3>2. Stored(disk') = calls[c].config
      BY <1>10, <2>3, <3>1, WriteFacts DEF JoinConnected, StoreInv
    <3>3. CASE Material(calls[c].config) = Material(Stored(disk))
      BY <2>1, <3>2, <3>3, QuietConfig DEF MaterialKept
    <3>4. CASE Material(calls[c].config) # Material(Stored(disk))
      BY <2>1, <3>2, <3>4 DEF ConfigMoves, JoinLeaves
    <3> QED BY <3>3, <3>4
  <2> QED BY <2>2, <2>3
<1>11. ASSUME WatchdogSilent PROVE ConfigMoves
  <2>1. UNCHANGED <<app, disk>> /\ (KillHost \/ UNCHANGED hostVars)
    BY <1>11 DEF WatchdogSilent, BeginRestart
  <2> QED BY <1>1, <1>3, <2>1 DEF KillHost, hostVars
<1>12. ASSUME Crash \/ Quit \/ BackupRestored PROVE ConfigMoves
  <2>1. app' = "off"
    BY <1>12 DEF Crash, Quit, AppEnds, BackupRestored
  <2> QED BY <1>2, <2>1
<1>13. ASSUME NEW unlinks \in BOOLEAN, LaunchWindow(unlinks) PROVE ConfigMoves
  <2>1. app = "off" /\ hostProcess' = None
    BY <1>13 DEF LaunchWindow, hostVars, HostsInv
  <2> QED BY <2>1 DEF ConfigMoves
<1>14. ASSUME LaunchBackground PROVE ConfigMoves
  <2>1. app' # "window"
    BY <1>14 DEF LaunchBackground
  <2> QED BY <1>2, <2>1
<1>15. ASSUME \/ \E p \in Hosts : HostWedges(p) \/ HostExits(p)
              \/ WatchdogTick \/ WatchdogAnswered
              \/ \E p \in Providers : TunnelExits(p)
       PROVE  ConfigMoves
  BY <1>1, <1>15 DEF HostWedges, HostExits, WatchdogTick, WatchdogAnswered, TunnelExits, hostVars
<1>16. ASSUME UNCHANGED <<app, disk, hostVars, wanted>> PROVE ConfigMoves
  BY <1>1, <1>16 DEF hostVars
<1> QED
  BY <1>4, <1>5, <1>6, <1>7, <1>8, <1>9, <1>10, <1>11, <1>12, <1>13, <1>14, <1>15, <1>16,
     AutostartConfig, CallsLeaveDisk DEF Next, Callers

(***************************************************************************)
(* What is left to say of the types.                                       *)
(***************************************************************************)
LEMMA PlainStep ==
    ASSUME PlainInv, CallsInv, Next
    PROVE  PlainInv'
<1>1. ASSUME UNCHANGED <<app, running, failures>> PROVE PlainInv'
  BY <1>1 DEF PlainInv
<1>2. ASSUME NEW c \in Slots, ProviderStarted(c) PROVE PlainInv'
  <2>1. calls[c].arg \in Tunnels
    BY <1>2, CallFacts, HostingAssumption DEF ProviderStarted, CallShape, Callers
  <2> QED BY <1>2, <2>1 DEF ProviderStarted, PlainInv
<1>3. ASSUME NEW c \in Slots, ProviderSwitched(c) \/ ProviderUndone(c) \/ ProviderHalts(c)
      PROVE  PlainInv'
  BY <1>3 DEF ProviderSwitched, ProviderUndone, ProviderHalts, PlainInv
<1>4. ASSUME WatchdogTick \/ WatchdogAnswered \/ WatchdogSilent PROVE PlainInv'
  BY <1>4 DEF WatchdogTick, WatchdogAnswered, WatchdogSilent, PlainInv
<1>5. ASSUME Crash \/ Quit PROVE PlainInv'
  BY <1>5 DEF Crash, Quit, AppEnds, PlainInv
<1>6. ASSUME LaunchBackground \/ \E unlinks \in BOOLEAN : LaunchWindow(unlinks) PROVE PlainInv'
  BY <1>6 DEF LaunchBackground, LaunchWindow, PlainInv, appVars
<1>7. ASSUME \E p \in Hosts : HostListens(p) \/ HostWedges(p) \/ HostExits(p) \/ ExitEvent(p)
      PROVE  PlainInv'
  BY <1>1, <1>7 DEF HostListens, HostWedges, HostExits, ExitEvent, appVars
<1>8. ASSUME NEW c \in Slots,
             \/ \E op \in Ops : Activate(c, op) \/ \E b \in Bridges : BridgeCall(c, op, b)
             \/ \E p \in Providers : ProviderStart(c, p)
             \/ ProviderStop(c) \/ Create(c) \/ Join(c)
             \/ BridgeApplies(c) \/ ProbeFails(c) \/ ProviderFails(c)
             \/ RemoteOpens(c) \/ JoinResolved(c) \/ JoinConnected(c)
      PROVE  PlainInv'
  BY <1>1, <1>8
     DEF Activate, BridgeCall, ProviderStart, ProviderStop, Create, Join, BridgeApplies, ProbeFails,
         ProviderFails, RemoteOpens, JoinResolved, JoinConnected, appVars
<1>9. ASSUME NEW c \in Callers, StopTimeout(c) \/ HostOpens(c) \/ OpenFails(c) PROVE PlainInv'
  BY <1>1, <1>9 DEF StopTimeout, HostOpens, OpenFails, appVars
<1>10. ASSUME \/ AutostartOn \/ \E unlinks \in BOOLEAN : AutostartOff(unlinks)
              \/ BackupRestored \/ \E p \in Providers : TunnelExits(p)
       PROVE  PlainInv'
  BY <1>1, <1>10 DEF AutostartOn, AutostartOff, BackupRestored, TunnelExits, appVars
<1> QED BY <1>2, <1>3, <1>4, <1>5, <1>6, <1>7, <1>8, <1>9, <1>10 DEF Next, Callers

HostingInv ==
    StoreInv /\ CallsInv /\ HostsInv /\ TunnelsInv /\ RouteInv /\ IntentInv /\ PlainInv

LEMMA HostingStep ==
    ASSUME HostingInv, [Next]_vars
    PROVE  HostingInv'
<1>1. CASE Next
  <2>1. hostProcess \in Hosts \cup {None}
    BY DEF HostingInv, HostsInv, HostsFit
  <2>2. OneCallMoves
    BY <1>1, CallsMove DEF HostingInv
  <2> QED BY <1>1, <2>1, <2>2, StoreStep, CallsStep, HostsStep, TunnelsStep, RouteStep, IntentStep,
             PlainStep
          DEF HostingInv
<1>2. CASE UNCHANGED vars
  BY <1>2 DEF HostingInv, vars, hostVars, appVars, tunnelVars, StoreInv, CallsInv, HostsInv,
              TunnelsInv, TunnelsFit, Routes, RouteInv, IsAlone, IntentInv, ConfigsOff, PlainInv
<1> QED BY <1>1, <1>2

LEMMA HostingStarts ==
    ASSUME Init
    PROVE  HostingInv
<1>1. disk \in FirstDisks
  BY DEF Init
<1>2. disk \in Disk /\ disk.data \in {None, DefaultConfig} /\ ~disk.key /\ disk.anchor = None
      /\ disk.older = None /\ ~disk.entry /\ disk.db \in {"none", "old"}
  BY <1>1, ConfigFacts DEF FirstDisks, Disk
<1>3. StoreInv
  BY <1>2 DEF StoreInv, StoreTyped, Recoverable
<1>4. \A c \in Callers : calls[c] = Idle
  BY DEF Init, Callers
<1>5. CallsInv
  BY <1>4, IdleTyped DEF Init, CallsInv, Callers
<1>6. HostsInv
  BY DEF Init, HostsInv, HostsFit, ProcessState
<1>7. TunnelsInv
  BY DEF Init, TunnelsInit, TunnelsInv, TunnelsFit, Routes
<1>8. IntentInv
  <2>1. ~Idle.config.background
    BY DEF Idle, DefaultConfig
  <2> QED BY <1>2, <1>4, <2>1 DEF Init, IntentInv, IntentFits, SealedOff, ConfigsOff
<1>9. PlainInv
  BY DEF Init, PlainInv
<1>10. RouteInv
  <2>1. Idle.op \notin ProviderOps
    BY DEF Idle, ProviderOps
  <2> QED BY <1>4, <2>1 DEF RouteInv, IsAlone, Callers
<1> QED BY <1>3, <1>5, <1>6, <1>7, <1>8, <1>9, <1>10 DEF HostingInv

LEMMA HostingSafe == Spec => []HostingInv
BY HostingStarts, HostingStep, PTL DEF Spec

\* A set with no two different elements has one at most.
LEMMA FewInSet ==
    ASSUME NEW S, \A x, y \in S : x = y
    PROVE  Cardinality(S) <= 1
<1>1. CASE S = {}
  <2>1. Cardinality(S) = 0
    BY <1>1, FS_EmptySet
  <2> QED BY <2>1
<1>2. CASE S # {}
  <2>1. PICK x : x \in S
    BY <1>2
  <2>2. S = {x}
    BY <2>1
  <2>3. Cardinality({x}) = 1
    BY FS_Singleton
  <2>4. Cardinality(S) = 1
    BY <2>2, <2>3
  <2> QED BY <2>4
<1> QED BY <1>1, <1>2

LEMMA HostingTypes ==
    ASSUME HostingInv
    PROVE  TypeOK
<1>1. disk \in Disk /\ disk.data \in {None, DefaultConfig} \cup Envelope
  BY DEF HostingInv, StoreInv, StoreTyped
<1>2. disk.data \in {None} \cup Config \/ IsEnvelope(disk.data)
  BY <1>1, ConfigFacts
<1>3. /\ disk.anchor = None \/ IsEnvelope(disk.anchor)
      /\ disk.older = None \/ IsEnvelope(disk.older)
      /\ disk.db \in {"none", "old", "new", "damaged"} /\ disk.backup \in {"none", "partial", "old"}
  BY <1>1, ConfigFacts DEF Disk
<1>4. app # "window" => Busy = {}
  BY DEF HostingInv, CallsInv, Busy
<1>5. Cardinality({p \in Hosts : HoldsPort(p)}) <= 1
  <2>1. \A p, q \in Hosts : HoldsPort(p) /\ HoldsPort(q) => p = q
    BY DEF HostingInv, HostsInv, HostsFit, HoldsPort
  <2> DEFINE S == {p \in Hosts : HoldsPort(p)}
  <2>2. \A p, q \in S : p = q
    BY <2>1
  <2> HIDE DEF S
  <2>3. Cardinality(S) <= 1
    BY <2>2, FewInSet
  <2> QED BY <2>3 DEF S
<1> QED BY <1>2, <1>3, <1>4, <1>5
        DEF TypeOK, HostingInv, HostsInv, HostsFit, PlainInv, TunnelsInv, TunnelsFit

(***************************************************************************)
(* What the application never forgets, and what its disk keeps.            *)
(***************************************************************************)
\* However the calls of the window overlap: a JanjaNode that runs is the one the application
\* tracks, or was told to exit, one process at most has the port, and a route that is public
\* and was not left is one its adapter holds, so that it can still be stopped.
THEOREM HostsAreTracked == Spec => [](StartedIsTracked /\ Routes \subseteq held)
<1>1. HostingInv => StartedIsTracked /\ Routes \subseteq held
  BY HostingTypes DEF HostingInv, HostsInv, HostsFit, TunnelsInv, StartedIsTracked, ProcessesTracked, Alive
<1> QED BY <1>1, HostingSafe, PTL

\* Whatever of start, switch, stop and undo fails, and whatever else of the application goes on
\* meanwhile: no route that somebody would stop gets out of hand, but by the step of a
\* provider's call that overlapped another such call.
THEOREM RoutesAreTracked == Spec => RoutesStayTracked
<1>1. HostingInv /\ [Next]_vars =>
          [~(Untracked' \subseteq Untracked) =>
               \E c \in Slots : /\ calls[c].op \in ProviderOps /\ ~calls[c].alone
                             /\ calls'[c] # calls[c]]_vars
  <2>1. ASSUME HostingInv, Next, ~(Untracked' \subseteq Untracked)
        PROVE  \E c \in Slots : /\ calls[c].op \in ProviderOps /\ ~calls[c].alone
                              /\ calls'[c] # calls[c]
    BY <2>1, TunnelsStep DEF HostingInv, Tracks
  <2> QED BY <2>1
<1> QED BY <1>1, HostingSafe, PTL DEF Spec, RoutesStayTracked

\* Whatever calls change the configuration together, joins too, and whichever fail: a host runs
\* with what the store does not hold only from the write of a join on that had read it before
\* another call stored other bridges or another route, and no longer than that host runs.
THEOREM HostsFollowStore == Spec => HostRunsCurrentConfig
<1>1. HostingInv /\ [Next]_vars =>
          [app' = "window" /\ ~Current' =>
               \/ ~Current /\ UNCHANGED <<hostProcess, started, Material(Stored(disk))>>
               \/ \E c \in Slots : /\ calls[c].pc = "connecting" /\ calls[c].config = Stored(disk)'
                                 /\ Material(calls[c].config) # Material(Stored(disk))]_vars
  <2>1. ASSUME HostingInv, Next, app' = "window", ~Current', ~JoinLeaves
        PROVE  ~Current /\ UNCHANGED <<hostProcess, started, Material(Stored(disk))>>
    <3>1. ConfigMoves
      BY <2>1, MaterialStep DEF HostingInv
    <3>2. hostProcess' # None /\ started'[hostProcess'] # Material(Stored(disk))'
      BY <2>1 DEF Current
    <3>3. UNCHANGED <<hostProcess, started>> /\ MaterialKept
      BY <2>1, <3>1, <3>2 DEF ConfigMoves
    <3> QED BY <3>2, <3>3 DEF Current, MaterialKept
  <2> QED BY <2>1 DEF JoinLeaves
<1> QED BY <1>1, HostingSafe, PTL DEF Spec, HostRunsCurrentConfig

\* Whenever the application dies in the migration of the database's key, its data can be
\* opened: by one of the keys, or from the backup.
THEOREM DataIsRecoverable == Spec => []HostDataRecoverable
<1>1. HostingInv => HostDataRecoverable
  BY DEF HostingInv, StoreInv, Recoverable, HostDataRecoverable
<1> QED BY <1>1, HostingSafe, PTL

LEMMA ChangeFacts ==
    ASSUME StoreInv, CallsInv, NEW c \in Slots, Changing(c)
    PROVE  /\ Change(c).mark # Stored(disk).mark => Holds(c) /\ Change(c).mark = calls[c].config.mark
           /\ \A b \in Stored(disk).bridges \ Change(c).bridges :
                 \/ calls[c].op = "bridge.remove" /\ calls[c].arg = b
                 \/ Holds(c) /\ Change(c).bridges = calls[c].config.bridges
<1>1. Stored(disk) \in Config /\ calls[c].config \in Config
  BY StoreFacts, CallFacts DEF StoreInv, Callers
<1>2. CASE calls[c].pc = "applying"
  <2>1. Change(c) = CallChange(c)
    BY <1>2 DEF Change
  <2> QED BY <1>1, <2>1 DEF CallChange, Config
<1>3. CASE calls[c].pc = "halting"
  <2>1. Change(c) = [calls[c].config EXCEPT !.route = None] /\ Holds(c)
    BY <1>3 DEF Change, Holds
  <2> QED BY <1>1, <2>1 DEF Config
<1>4. CASE calls[c].pc = "connecting"
  BY <1>4 DEF Change, Holds
<1> QED BY <1>2, <1>3, <1>4 DEF Changing

\* Through crashes between the files of the store and files from a backup: the high water
\* never goes back and no bridge is lost but by what a call had read before it waited, or was
\* to remove; and once autostart was taken back, no launch starts a host in the background.
THEOREM StoreStaysKept == Spec => StoreIsKept
<1>1. ASSUME HostingInv, [Next]_vars PROVE StoreMove
  BY <1>1, StoreStep DEF HostingInv, StoreMove, vars
<1>2. HostingInv /\ [Next]_vars =>
          [Trusted(disk) /\ Trusted(disk)' /\ Stored(disk)'.mark < Stored(disk).mark =>
               \E c \in Slots : Holds(c) /\ calls[c].config.mark = Stored(disk)'.mark]_vars
  <2>1. ASSUME HostingInv, [Next]_vars, Trusted(disk), Trusted(disk)',
               Stored(disk)'.mark < Stored(disk).mark
        PROVE  \E c \in Slots : Holds(c) /\ calls[c].config.mark = Stored(disk)'.mark
    <3>1. Stored(disk).mark \in Int
      BY <2>1, StoreFacts, DiskAssumption DEF HostingInv, StoreInv, Config
    <3>2. Stored(disk)'.mark # Stored(disk).mark
      BY <2>1, <3>1
    <3>3. PICK c \in Slots : Changing(c) /\ Stored(disk)' = Change(c)
      BY <1>1, <2>1, <3>2, SwitchedFacts DEF StoreMove, HostingInv, StoreInv
    <3> QED BY <2>1, <3>2, <3>3, ChangeFacts DEF HostingInv
  <2> QED BY <2>1
<1>3. HostingInv /\ [Next]_vars =>
          [\A b \in Stored(disk).bridges \ Stored(disk)'.bridges : Trusted(disk) /\ Trusted(disk)' =>
               \E c \in Slots : \/ calls[c].op = "bridge.remove" /\ calls[c].arg = b
                                \/ Holds(c) /\ calls[c].config.bridges = Stored(disk)'.bridges]_vars
  <2>1. ASSUME HostingInv, [Next]_vars, Trusted(disk), Trusted(disk)',
               NEW b \in Stored(disk).bridges \ Stored(disk)'.bridges
        PROVE  \E c \in Slots : \/ calls[c].op = "bridge.remove" /\ calls[c].arg = b
                                \/ Holds(c) /\ calls[c].config.bridges = Stored(disk)'.bridges
    <3>1. PICK c \in Slots : Changing(c) /\ Stored(disk)' = Change(c)
      BY <1>1, <2>1, SwitchedFacts DEF StoreMove, HostingInv, StoreInv
    <3> QED BY <2>1, <3>1, ChangeFacts DEF HostingInv
  <2> QED BY <2>1
<1>4. HostingInv /\ [Next]_vars => [app' = "background" /\ app = "off" => wanted]_vars
  <2>1. ASSUME HostingInv, Next, app' = "background", app = "off" PROVE wanted
    <3>1. LaunchBackground
      <4>1. app' # app /\ app' # "off" /\ app' # "window"
        BY <2>1
      <4>2. \A c : ~(\/ \E op \in Ops : Activate(c, op)
                     \/ Create(c) \/ BridgeApplies(c) \/ ProviderHalts(c) \/ JoinConnected(c)
                     \/ StopTimeout(c))
        BY <4>1 DEF Activate, Create, BridgeApplies, ProviderHalts, JoinConnected, StopTimeout
      <4>3. \A p : ~(HostListens(p) \/ HostWedges(p) \/ HostExits(p) \/ ExitEvent(p) \/ TunnelExits(p))
        BY <4>1 DEF HostListens, HostWedges, HostExits, ExitEvent, TunnelExits
      <4>4. ~(\/ WatchdogTick \/ WatchdogAnswered \/ WatchdogSilent \/ AutostartOn
              \/ \E unlinks \in BOOLEAN : AutostartOff(unlinks) \/ LaunchWindow(unlinks)
              \/ Crash \/ Quit \/ BackupRestored)
        BY <4>1 DEF WatchdogTick, WatchdogAnswered, WatchdogSilent, AutostartOn, AutostartOff,
                    LaunchWindow, Crash, Quit, AppEnds, BackupRestored
      <4> QED BY <2>1, <4>1, <4>2, <4>3, <4>4, CallsLeaveDisk DEF Next
    <3>2. Launches(disk)
      BY <2>1, <3>1 DEF LaunchBackground
    <3> QED BY <2>1, <3>2, SealFacts
            DEF HostingInv, StoreInv, IntentInv, IntentFits, Launches
  <2> QED BY <2>1 DEF vars
<1> QED BY <1>2, <1>3, <1>4, HostingSafe, PTL
        DEF Spec, StoreIsKept, MarksOnlyGrow, BridgesStay, DisabledStaysOff
=============================================================================
