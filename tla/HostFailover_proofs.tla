------------------------ MODULE HostFailover_proofs ------------------------
(***************************************************************************)
(* Theorems about HostFailover, for every set of hosts, every bridge set   *)
(* of at most three and every trust configuration of two bridges or more.  *)
(***************************************************************************)
EXTENDS HostFailover, FiniteSetTheorems, TLAPS

(***************************************************************************)
(* Types.  TypeInv is inductive; TypeOK alone is not, because a step may   *)
(* only read the epoch of a mark or of an election target that exists.     *)
(***************************************************************************)

LEMMA PrimaryInHosts == PrimaryHost \in Hosts /\ Replicas \subseteq Hosts
BY PrimaryAssumption DEF Replicas

LEMMA FirstRecordType == FirstRecord \in Record
BY PrimaryAssumption, BoundsAssumption DEF FirstRecord, Record, Epochs, Roles

LEMMA FreshRecordType ==
    ASSUME DatabasesTypeOK, NEW h \in Hosts
    PROVE  FreshRecord(h) \in Record
<1>1. chain[h] \in Seq(Record) /\ signed[h] \in Nat /\ hostEpoch[h] \in Epochs
  BY DEF DatabasesTypeOK
<1>2. (IF chain[h] = <<>> THEN 0 ELSE chain[h][Len(chain[h])].id) \in Nat
  <2>1. CASE chain[h] = <<>>
    BY <2>1
  <2>2. CASE chain[h] # <<>>
    <3>1. Len(chain[h]) \in 1..Len(chain[h])
      BY <1>1, <2>2
    <3>2. chain[h][Len(chain[h])] \in Record
      BY <1>1, <3>1
    <3> QED BY <2>2, <3>2 DEF Record
  <2> QED BY <2>1, <2>2
<1> QED BY <1>1, <1>2 DEF FreshRecord, Record, Roles

LEMMA InitTypeInv == Init => TypeInv
<1> SUFFICES ASSUME Init PROVE TypeInv
  OBVIOUS
<1>1. FirstRecord \in Record /\ <<FirstRecord>> \in Seq(Record)
  BY FirstRecordType
<1>2. BridgesTypeOK
  BY <1>1, PrimaryInHosts DEF Init, BridgesTypeOK, ByHost, Presence
<1>3. DatabasesTypeOK
  BY <1>1, PrimaryInHosts, BoundsAssumption
  DEF Init, DatabasesTypeOK, ByHost, Epochs
<1>4. MemoryTypeOK
  BY <1>1 DEF Init, MemoryTypeOK, ByHost
<1>5. CoordinatorsTypeOK
  BY DEF Init, CoordinatorsTypeOK, ByHost, LinkState, Election, NoElection
<1>6. faults \in Faults
  BY EnvironmentAssumption DEF Init, Faults
<1>7. ListedHaveMarks
  BY <1>1, NullAssumption, PrimaryInHosts DEF Init, ListedHaveMarks, ByHost
<1>8. ElectionShape
  BY DEF Init, ElectionShape, NoElection
<1> QED BY <1>2, <1>3, <1>4, <1>5, <1>6, <1>7, <1>8 DEF TypeInv, TypeOK

\* A fault takes one off the budget.
LEMMA SocketFaultType ==
    ASSUME TypeInv, NEW h \in Hosts, NEW b \in Bridges, SocketFault(h, b)
    PROVE  faults' \in Faults
<1>1. faults \in Faults
  BY DEF TypeInv, TypeOK
<1>2. faults.drop - 1 \in Nat
  BY <1>1 DEF SocketFault, Faults
<1> QED BY <1>1, <1>2 DEF SocketFault, Faults

LEMMA UnbindType ==
    ASSUME TypeInv, NEW h \in Hosts, NEW b \in Bridges, UnbindSocket(b, h)
    PROVE  BridgesTypeOK' /\ ListedHaveMarks'
BY DEF TypeInv, TypeOK, BridgesTypeOK, ListedHaveMarks, UnbindSocket, Presence

\* A step that leaves the bridges, the databases, ... alone keeps their types.
LEMMA UnchangedTypes ==
    ASSUME TypeInv
    PROVE  /\ UNCHANGED bridgeVars => BridgesTypeOK' /\ ListedHaveMarks'
           /\ UNCHANGED databaseVars => DatabasesTypeOK'
           /\ UNCHANGED memoryVars => MemoryTypeOK'
           /\ UNCHANGED coordinatorVars => CoordinatorsTypeOK' /\ ElectionShape'
           /\ UNCHANGED faults => faults' \in Faults
BY DEF TypeInv, TypeOK, bridgeVars, databaseVars, memoryVars, coordinatorVars, BridgesTypeOK,
       ListedHaveMarks, DatabasesTypeOK, MemoryTypeOK, CoordinatorsTypeOK, ElectionShape

LEMMA LinkType ==
    ASSUME TypeInv, NEW h \in Hosts, NEW b \in Bridges, NEW state \in LinkState,
           SetLink(h, b, state), acks' \in [Hosts -> SUBSET Bridges],
           UNCHANGED <<election, spent>>
    PROVE  CoordinatorsTypeOK' /\ ElectionShape'
BY DEF TypeInv, TypeOK, CoordinatorsTypeOK, ElectionShape, SetLink

LEMMA SocketTypeInv ==
    ASSUME TypeInv, NEW h \in Hosts, NEW b \in Bridges,
           Connect(h, b) \/ HostSeesClose(h, b) \/ BridgeSeesClose(h, b)
    PROVE  TypeInv'
<1> USE DEF TypeInv, TypeOK
<1>0. acks \in [Hosts -> SUBSET Bridges] /\ "open" \in LinkState /\ "down" \in LinkState
      /\ "half" \in LinkState
  BY DEF CoordinatorsTypeOK, LinkState
<1>1. CASE Connect(h, b)
  BY <1>0, <1>1, UnchangedTypes, LinkType DEF Connect, hostVars
<1>2. CASE HostSeesClose(h, b)
  <2>1. faults' \in Faults
    BY <1>2, SocketFaultType DEF HostSeesClose
  <2>2. CoordinatorsTypeOK' /\ ElectionShape'
    BY <1>0, <1>2, LinkType DEF HostSeesClose
  <2>3. MemoryTypeOK'
    BY <1>2 DEF HostSeesClose, MemoryTypeOK
  <2> QED BY <1>2, <2>1, <2>2, <2>3, UnchangedTypes DEF HostSeesClose
<1>3. CASE BridgeSeesClose(h, b)
  <2>1. BridgesTypeOK' /\ ListedHaveMarks'
    BY <1>3, UnbindType, UnchangedTypes DEF BridgeSeesClose
  <2>2. CoordinatorsTypeOK' /\ ElectionShape'
    BY <1>0, <1>3, LinkType, UnchangedTypes DEF BridgeSeesClose
  <2>3. faults' \in Faults
    BY <1>3, SocketFaultType, UnchangedTypes DEF BridgeSeesClose
  <2> QED BY <1>3, <2>1, <2>2, <2>3, UnchangedTypes DEF BridgeSeesClose, hostVars
<1> QED BY <1>1, <1>2, <1>3

LEMMA SignRecordType ==
    ASSUME TypeInv, NEW h \in Hosts, SignRecord(h),
           UNCHANGED <<hostEpoch, writerState, chain, certificate, up, writer, resumeEligible>>
    PROVE  DatabasesTypeOK' /\ MemoryTypeOK'
<1>1. DatabasesTypeOK /\ MemoryTypeOK
  BY DEF TypeInv, TypeOK
<1>2. FreshRecord(h) \in Record
  BY <1>1, FreshRecordType
<1>3. DatabasesTypeOK'
  BY <1>1 DEF DatabasesTypeOK, SignRecord
<1>4. MemoryTypeOK'
  BY <1>1, <1>2 DEF MemoryTypeOK, SignRecord
<1> QED BY <1>3, <1>4

LEMMA PublicationType ==
    ASSUME TypeInv, NEW h \in Hosts, NEW b \in Bridges, NEW r \in Publication(h, b)
    PROVE  r \in Record /\ (IsCommitted(h, r) \/ r = round[h])
<1>1. /\ chain[h] \in Seq(Record)
      /\ round[h] \in Record \cup {NoRecord}
      /\ highWaterMarks[b][h] \in Record \cup {NoRecord}
  BY DEF TypeInv, TypeOK, DatabasesTypeOK, MemoryTypeOK, BridgesTypeOK
<1> DEFINE mark == highWaterMarks[b][h]
           next == IF mark = NoRecord THEN 1 ELSE mark.seq + 1
<1>2. next \in Nat /\ next >= 1
  BY <1>1 DEF Record
<1>3. CASE next <= Len(chain[h])
  <2>1. next \in 1..Len(chain[h]) /\ r = chain[h][next]
    BY <1>1, <1>2, <1>3 DEF Publication
  <2> QED BY <1>1, <2>1 DEF IsCommitted, CommittedRecords
<1>4. CASE ~(next <= Len(chain[h]))
  BY <1>1, <1>4 DEF Publication
<1> QED BY <1>3, <1>4

LEMMA RegisterTypeInv ==
    ASSUME TypeInv, NEW h \in Hosts, NEW b \in Bridges, Register(h, b)
    PROVE  TypeInv'
<1>1. PICK r \in Publication(h, b) :
         /\ CommitRegistration(b, r)
         /\ acks' = IF r = round[h] THEN [acks EXCEPT ![h] = @ \cup {b}] ELSE acks
  BY DEF Register
<1>2. r \in Record
  BY <1>1, PublicationType
<1>3. r.host \in Hosts /\ r # NoRecord
  BY <1>2, NullAssumption DEF Record
<1>4. BridgesTypeOK /\ ListedHaveMarks /\ acks \in [Hosts -> SUBSET Bridges]
  BY DEF TypeInv, TypeOK, CoordinatorsTypeOK
<1>5. BridgesTypeOK'
  BY <1>1, <1>2, <1>3, <1>4 DEF CommitRegistration, BridgesTypeOK, Presence
<1>6. ListedHaveMarks'
  BY <1>1, <1>2, <1>3, <1>4 DEF CommitRegistration, BridgesTypeOK, ListedHaveMarks
<1>7. acks' \in [Hosts -> SUBSET Bridges]
  BY <1>1, <1>4
<1>8. CoordinatorsTypeOK' /\ ElectionShape'
  BY <1>7, LinkType DEF Register, LinkState
<1>9. UNCHANGED databaseVars /\ UNCHANGED memoryVars /\ UNCHANGED faults
  BY DEF Register, hostVars
<1> QED BY <1>5, <1>6, <1>8, <1>9, UnchangedTypes DEF TypeInv, TypeOK

LEMMA AcknowledgeRoundType ==
    ASSUME TypeInv, NEW h \in Hosts, NEW b \in Bridges,
           round[h] # NoRecord, AcknowledgeRound(h, b)
    PROVE  DatabasesTypeOK' /\ MemoryTypeOK'
<1>1. DatabasesTypeOK /\ MemoryTypeOK
  BY DEF TypeInv, TypeOK
<1>2. round[h] \in Record
  BY <1>1 DEF MemoryTypeOK
<1>3. chain' \in [Hosts -> Seq(Record)]
  BY <1>1, <1>2 DEF AcknowledgeRound, DatabasesTypeOK
<1>4. writerState' \in [Hosts -> {"none", "writer", "fenced"}]
  BY <1>1 DEF AcknowledgeRound, DatabasesTypeOK
<1>5. DatabasesTypeOK'
  BY <1>1, <1>3, <1>4 DEF AcknowledgeRound, DatabasesTypeOK
<1>6. /\ acked' \in [Hosts -> SUBSET Bridges]
      /\ writer' \in [Hosts -> BOOLEAN]
      /\ resumeEligible' \in [Hosts -> BOOLEAN]
  <2>1. acked' \in [Hosts -> SUBSET Bridges]
    BY <1>1 DEF AcknowledgeRound, MemoryTypeOK
  <2>2. writer' \in [Hosts -> BOOLEAN]
    BY <1>1, Zenon DEF AcknowledgeRound, MemoryTypeOK
  <2>3. resumeEligible' \in [Hosts -> BOOLEAN]
    BY <1>1, Zenon DEF AcknowledgeRound, MemoryTypeOK
  <2> QED BY <2>1, <2>2, <2>3
<1>7. MemoryTypeOK'
  BY <1>1, <1>6 DEF AcknowledgeRound, MemoryTypeOK
<1> QED BY <1>5, <1>7

LEMMA ReceiveAckTypeInv ==
    ASSUME TypeInv, NEW h \in Hosts, NEW b \in Bridges, ReceiveAck(h, b)
    PROVE  TypeInv'
<1>1. acks' \in [Hosts -> SUBSET Bridges] /\ UNCHANGED <<link, election, spent>>
  BY DEF ReceiveAck, TypeInv, TypeOK, CoordinatorsTypeOK
<1>2. CoordinatorsTypeOK' /\ ElectionShape'
  BY <1>1 DEF TypeInv, TypeOK, CoordinatorsTypeOK, ElectionShape
<1>3. DatabasesTypeOK' /\ MemoryTypeOK'
  BY AcknowledgeRoundType, UnchangedTypes DEF ReceiveAck, hostVars
<1> QED BY <1>2, <1>3, UnchangedTypes DEF ReceiveAck, TypeInv, TypeOK

\* Steps that touch the writer state of one host: none of them invents a value.
LEMMA FenceTypeInv ==
    ASSUME TypeInv, NEW h \in Hosts, Fence(h)
    PROVE  TypeInv'
<1>1. DatabasesTypeOK /\ MemoryTypeOK
  BY DEF TypeInv, TypeOK
<1>2. DatabasesTypeOK'
  BY <1>1 DEF Fence, FencePrimaryWriter, DatabasesTypeOK
<1>3. MemoryTypeOK'
  BY <1>1 DEF Fence, FencePrimaryWriter, MemoryTypeOK
<1> QED BY <1>2, <1>3, UnchangedTypes DEF Fence, TypeInv, TypeOK

LEMMA ObserveHigherTypeInv ==
    ASSUME TypeInv, NEW h \in Hosts, NEW b \in Bridges, ObserveHigher(h, b)
    PROVE  TypeInv'
<1>1. BridgesTypeOK /\ DatabasesTypeOK /\ MemoryTypeOK /\ ListedHaveMarks
  BY DEF TypeInv, TypeOK
<1>2. PICK g \in listed[b] : ObserveHigherEpoch(h, highWaterMarks[b][g], certificate[g])
  BY DEF ObserveHigher
<1>3. g \in Hosts /\ highWaterMarks[b][g] \in Record
  BY <1>1 DEF BridgesTypeOK, ListedHaveMarks
<1>4. highWaterMarks[b][g].epoch \in Epochs
  BY <1>3 DEF Record
<1>5. DatabasesTypeOK'
  BY <1>1, <1>2, <1>4 DEF ObserveHigherEpoch, DatabasesTypeOK
<1>6. MemoryTypeOK'
  BY <1>1, <1>2 DEF ObserveHigherEpoch, MemoryTypeOK
<1> QED BY <1>5, <1>6, UnchangedTypes DEF ObserveHigher, TypeInv, TypeOK

LEMMA ClockTypeInv ==
    ASSUME TypeInv, NEW h \in Hosts, NEW b \in Bridges, GraceElapses(h, b) \/ Expire(h, b)
    PROVE  TypeInv'
<1>1. BridgesTypeOK /\ ListedHaveMarks /\ CoordinatorsTypeOK
  BY DEF TypeInv, TypeOK
<1>2. CASE GraceElapses(h, b)
  <2>1. BridgesTypeOK' /\ ListedHaveMarks'
    BY <1>1, <1>2 DEF GraceElapses, AbsenceGraceElapses, BridgesTypeOK, ListedHaveMarks, Presence
  <2> QED BY <1>2, <2>1, UnchangedTypes DEF GraceElapses, hostVars, TypeInv, TypeOK
<1>3. CASE Expire(h, b)
  <2>1. BridgesTypeOK' /\ ListedHaveMarks'
    BY <1>1, <1>3 DEF Expire, RecordExpires, BridgesTypeOK, ListedHaveMarks, Presence
  <2>2. CoordinatorsTypeOK' /\ ElectionShape'
    BY <1>1, <1>3 DEF Expire, CoordinatorsTypeOK, LinkState, TypeInv, ElectionShape
  <2> QED BY <1>3, <2>1, <2>2, UnchangedTypes DEF Expire, hostVars, TypeInv, TypeOK
<1> QED BY <1>2, <1>3

LEMMA CrashBridgeTypeInv ==
    ASSUME TypeInv, NEW b \in Bridges, CrashBridge(b)
    PROVE  TypeInv'
<1>1. BridgesTypeOK /\ ListedHaveMarks /\ CoordinatorsTypeOK /\ faults \in Faults
  BY DEF TypeInv, TypeOK
<1>2. BridgesTypeOK' /\ ListedHaveMarks'
  BY <1>1 DEF CrashBridge, BridgeRestart, BridgesTypeOK, ListedHaveMarks, Presence
<1>3. link' \in [Hosts -> [Bridges -> LinkState]]
  BY <1>1 DEF CrashBridge, CoordinatorsTypeOK, LinkState
<1>4. CoordinatorsTypeOK' /\ ElectionShape'
  BY <1>1, <1>3 DEF CrashBridge, CoordinatorsTypeOK, TypeInv, ElectionShape
<1>5. faults' \in Faults
  <2>1. faults.restart - 1 \in Nat
    BY <1>1 DEF CrashBridge, Faults
  <2> QED BY <1>1, <2>1 DEF CrashBridge, Faults
<1> QED BY <1>2, <1>4, <1>5, UnchangedTypes DEF CrashBridge, hostVars, TypeInv, TypeOK

LEMMA NoElectionType == NoElection \in Election
BY DEF NoElection, Election

LEMMA CrashTypeInv ==
    ASSUME TypeInv, NEW h \in Hosts, Crash(h)
    PROVE  TypeInv'
<1>1. MemoryTypeOK /\ CoordinatorsTypeOK /\ ElectionShape /\ faults \in Faults
  BY DEF TypeInv, TypeOK
<1>2. MemoryTypeOK'
  BY <1>1 DEF Crash, HostCrash, MemoryTypeOK
<1>3. link' \in [Hosts -> [Bridges -> LinkState]]
  BY <1>1 DEF Crash, CoordinatorsTypeOK, LinkState
<1>4. acks' \in [Hosts -> SUBSET Bridges]
  BY <1>1 DEF Crash, CoordinatorsTypeOK
<1>5. election' \in [Replicas -> Election]
  BY <1>1, NoElectionType DEF Crash, CoordinatorsTypeOK
<1>6. spent' \in [Replicas -> BOOLEAN]
  BY <1>1 DEF Crash, CoordinatorsTypeOK
<1>7. ElectionShape'
  BY <1>1 DEF Crash, ElectionShape, NoElection
<1>8. faults' \in Faults
  <2>1. faults.crash[h] - 1 \in Nat
    BY <1>1 DEF Crash, Faults
  <2> QED BY <1>1, <2>1 DEF Crash, Faults
<1> QED BY <1>2, <1>3, <1>4, <1>5, <1>6, <1>7, <1>8, UnchangedTypes
        DEF Crash, HostCrash, CoordinatorsTypeOK, TypeInv, TypeOK

LEMMA BootTypeInv ==
    ASSUME TypeInv, NEW h \in Hosts, Boot(h)
    PROVE  TypeInv'
<1>1. MemoryTypeOK
  BY DEF TypeInv, TypeOK
<1>2. up' \in [Hosts -> BOOLEAN]
  BY <1>1 DEF Boot, HostBoot, MemoryTypeOK
<1>3. resumeEligible' \in [Hosts -> BOOLEAN]
  BY <1>1, Zenon DEF Boot, HostBoot, MemoryTypeOK
<1>4. MemoryTypeOK'
  BY <1>1, <1>2, <1>3 DEF Boot, HostBoot, MemoryTypeOK
<1> QED BY <1>4, UnchangedTypes DEF Boot, HostBoot, TypeInv, TypeOK

\* An attempt that moves on to a well-formed state.
LEMMA SetElectionType ==
    ASSUME TypeInv, NEW n \in Replicas, NEW e \in Election, SetElection(n, e),
           e.phase # "idle" => e.target \in Record,
           e.absent \subseteq Trust[n], e.granted \subseteq Trust[n]
    PROVE  /\ DatabasesTypeOK' /\ MemoryTypeOK' /\ CoordinatorsTypeOK' /\ ElectionShape'
           /\ faults' \in Faults
<1>1. CoordinatorsTypeOK /\ ElectionShape
  BY DEF TypeInv, TypeOK
<1>2. CoordinatorsTypeOK' /\ ElectionShape'
  BY <1>1 DEF SetElection, CoordinatorsTypeOK, ElectionShape
<1> QED BY <1>2, UnchangedTypes DEF SetElection, hostVars

\* Asking bridge b moves the attempt of n within its type.
LEMMA AnsweredType ==
    ASSUME TypeInv, NEW n \in Replicas, NEW b \in Bridges
    PROVE  /\ Answered(n, b) \in Election
           /\ Answered(n, b).phase = election[n].phase
           /\ Answered(n, b).target = election[n].target
           /\ Answered(n, b).absent = election[n].absent
           /\ Answered(n, b).granted = election[n].granted
BY DEF TypeInv, TypeOK, CoordinatorsTypeOK, Election, Answered

LEMMA TargetType ==
    ASSUME TypeInv, NEW n \in Replicas
    PROVE  /\ election[n] \in Election
           /\ election[n].phase # "idle" => election[n].target \in Record
           /\ election[n].absent \subseteq Trust[n]
           /\ election[n].granted \subseteq Trust[n]
           /\ Trust[n] \subseteq Bridges
BY TrustAssumption DEF TypeInv, TypeOK, CoordinatorsTypeOK, ElectionShape

LEMMA AskTypeInv ==
    ASSUME TypeInv, NEW n \in Replicas, NEW b \in Bridges, AskStep(n, b)
    PROVE  TypeInv'
<1> USE DEF TypeInv, TypeOK
<1>1. /\ election[n] \in Election
      /\ election[n].phase # "idle" => election[n].target \in Record
      /\ election[n].absent \subseteq Trust[n]
      /\ election[n].granted \subseteq Trust[n]
  BY TargetType
<1> DEFINE e == Answered(n, b)
<1>2. /\ e \in Election /\ e.phase = election[n].phase /\ e.target = election[n].target
      /\ e.absent = election[n].absent /\ e.granted = election[n].granted
  BY AnsweredType
<1>3. ASSUME SetElection(n, e), UNCHANGED bridgeVars PROVE TypeInv'
  BY <1>1, <1>2, <1>3, SetElectionType, UnchangedTypes
<1>4. CASE WitnessAbsent(n, b)
  <2>1. [e EXCEPT !.absent = @ \cup {b}] \in Election
    BY <1>2 DEF Election
  <2>2. b \in Trust[n] /\ election[n].phase = "witness"
    BY <1>4 DEF WitnessAbsent, Awaited
  <2>3. DatabasesTypeOK' /\ MemoryTypeOK' /\ CoordinatorsTypeOK' /\ ElectionShape'
        /\ faults' \in Faults
    BY <1>1, <1>2, <1>4, <2>1, <2>2, SetElectionType DEF WitnessAbsent, Election
  <2> QED BY <1>4, <2>3, UnchangedTypes DEF WitnessAbsent
<1>5. CASE WitnessOnline(n, b)
  BY <1>5, NoElectionType, SetElectionType, UnchangedTypes DEF WitnessOnline, NoElection
<1>6. CASE WitnessUnavailable(n, b)
  BY <1>3, <1>6 DEF WitnessUnavailable
<1>7. CASE ClaimGranted(n, b)
  <2>1. b \in Trust[n] /\ b \in Bridges /\ election[n].target \in Record
    BY <1>1, <1>7 DEF ClaimGranted, NextClaim, Unclaimed
  <2>2. BridgesTypeOK' /\ ListedHaveMarks'
    BY <1>7, <2>1 DEF ClaimGranted, GrantPromotionVote, BridgesTypeOK, ListedHaveMarks, Vote,
                      Replicas
  <2>3. CASE SetElection(n, e)
    BY <1>1, <1>2, <2>1, <2>2, <2>3, SetElectionType
  <2>4. CASE SetElection(n, [e EXCEPT !.granted = @ \cup {b}])
    <3>1. [e EXCEPT !.granted = @ \cup {b}] \in Election
      BY <1>2 DEF Election
    <3>2. DatabasesTypeOK' /\ MemoryTypeOK' /\ CoordinatorsTypeOK' /\ ElectionShape'
          /\ faults' \in Faults
      BY <1>1, <1>2, <2>1, <2>4, <3>1, SetElectionType DEF Election
    <3> QED BY <2>2, <3>2
  <2> QED BY <1>7, <2>3, <2>4 DEF ClaimGranted
<1>8. CASE ClaimUnavailable(n, b)
  BY <1>3, <1>8 DEF ClaimUnavailable
<1>9. CASE ClaimConflict(n, b)
  <2>1. [election[n] EXCEPT !.tried = election[n].absent] \in Election
    BY <1>1 DEF Election
  <2>2. DatabasesTypeOK' /\ MemoryTypeOK' /\ CoordinatorsTypeOK' /\ ElectionShape'
        /\ faults' \in Faults
    BY <1>1, <1>9, <2>1, SetElectionType DEF ClaimConflict, Election
  <2> QED BY <1>9, <2>2, UnchangedTypes DEF ClaimConflict
<1> QED BY <1>4, <1>5, <1>6, <1>7, <1>8, <1>9 DEF AskStep

\* A replica that promotes holds receipts of trusted bridges for its target.
LEMMA PromoteType ==
    ASSUME TypeInv, NEW n \in Replicas, Promote(n)
    PROVE  /\ n \in Hosts
           /\ election[n].target \in Record
           /\ election[n].target.epoch + 1 \in Epochs
           /\ [primary |-> election[n].target, bridges |-> election[n].granted] \in Certificate
<1>1. election[n].target \in Record /\ election[n].granted \subseteq Bridges
  BY TargetType DEF Promote
<1>2. election[n].target.epoch + 1 \in Epochs
  BY <1>1, BoundsAssumption DEF Promote, Record, Epochs
<1> QED BY <1>1, <1>2 DEF Certificate, Replicas

LEMMA ElectionStepTypeInv ==
    ASSUME TypeInv, NEW n \in Replicas, ElectionStep(n)
    PROVE  TypeInv'
<1> USE DEF TypeInv, TypeOK
<1>1. /\ election[n] \in Election
      /\ election[n].phase # "idle" => election[n].target \in Record
      /\ election[n].absent \subseteq Trust[n]
      /\ election[n].granted \subseteq Trust[n]
      /\ Trust[n] \subseteq Bridges
  BY TargetType
<1>2. CASE StartElection(n)
  <2>1. PICK b \in Resolvable(n) :
          SetElection(n, [NoElection EXCEPT !.phase = "witness",
                                            !.target = highWaterMarks[b][PrimaryHost]])
    BY <1>2 DEF StartElection
  <2>2. b \in Bridges /\ PrimaryHost \in listed[b]
    BY <1>1, <2>1 DEF Resolvable, Listing
  <2>3. highWaterMarks[b][PrimaryHost] \in Record
    BY <2>2, PrimaryInHosts DEF BridgesTypeOK, ListedHaveMarks
  <2> DEFINE e == [NoElection EXCEPT !.phase = "witness",
                                     !.target = highWaterMarks[b][PrimaryHost]]
  <2>4. e \in Election /\ e.target \in Record /\ e.absent = {} /\ e.granted = {}
    BY <2>3 DEF Election, NoElection
  <2> QED BY <1>2, <2>1, <2>4, SetElectionType, UnchangedTypes DEF StartElection
<1>3. CASE BeginClaims(n)
  <2> DEFINE e == [election[n] EXCEPT !.phase = "claim", !.tried = {}]
  <2>1. e \in Election /\ e.target \in Record
        /\ e.absent = election[n].absent /\ e.granted = election[n].granted
    BY <1>1, <1>3 DEF BeginClaims, Election
  <2> QED BY <1>1, <1>3, <2>1, SetElectionType, UnchangedTypes DEF BeginClaims
<1>4. CASE Promote(n)
  <2> DEFINE cert == [primary |-> election[n].target, bridges |-> election[n].granted]
  <2>1. n \in Hosts /\ election[n].target.epoch + 1 \in Epochs /\ cert \in Certificate
    BY <1>4, PromoteType
  <2>2. DatabasesTypeOK'
    BY <1>4, <2>1 DEF Promote, PromoteFromWitness, DatabasesTypeOK
  <2>3. MemoryTypeOK'
    BY <1>4, <2>1 DEF Promote, PromoteFromWitness, MemoryTypeOK
  <2>4. CoordinatorsTypeOK' /\ ElectionShape'
    BY <1>4, NoElectionType DEF Promote, CoordinatorsTypeOK, ElectionShape, NoElection
  <2> QED BY <1>4, <2>2, <2>3, <2>4, UnchangedTypes DEF Promote
<1>5. CASE AbandonElection(n)
  BY <1>5, NoElectionType, SetElectionType, UnchangedTypes DEF AbandonElection, NoElection
<1> QED BY <1>2, <1>3, <1>4, <1>5 DEF ElectionStep

LEMMA StepTypeInv == TypeInv /\ [Next]_vars => TypeInv'
<1> SUFFICES ASSUME TypeInv, [Next]_vars PROVE TypeInv'
  OBVIOUS
<1>1. CASE UNCHANGED vars
  BY <1>1, UnchangedTypes DEF vars, hostVars, TypeInv, TypeOK
<1>2. ASSUME NEW h \in Hosts, NEW b \in Bridges, HostBridgeStep(h, b) PROVE TypeInv'
  BY <1>2, SocketTypeInv, RegisterTypeInv, ReceiveAckTypeInv, ObserveHigherTypeInv, ClockTypeInv
  DEF HostBridgeStep
<1>3. ASSUME NEW h \in Hosts, HostStep(h) PROVE TypeInv'
  <2>1. CASE SignRound(h) \/ Heartbeat(h)
    <3>1. /\ SignRecord(h)
          /\ UNCHANGED <<hostEpoch, writerState, chain, certificate, up, writer, resumeEligible>>
          /\ UNCHANGED bridgeVars /\ UNCHANGED faults
          /\ acks' \in [Hosts -> SUBSET Bridges] /\ UNCHANGED <<link, election, spent>>
      BY <2>1 DEF SignRound, EnsureRound, Heartbeat, RotateRound, coordinatorVars, TypeInv, TypeOK,
                  CoordinatorsTypeOK
    <3>2. CoordinatorsTypeOK' /\ ElectionShape'
      BY <3>1 DEF TypeInv, TypeOK, CoordinatorsTypeOK, ElectionShape
    <3> QED BY <3>1, <3>2, SignRecordType, UnchangedTypes DEF TypeInv, TypeOK
  <2> QED BY <1>3, <2>1, FenceTypeInv, CrashTypeInv, BootTypeInv DEF HostStep
<1>4. ASSUME NEW n \in Replicas, NEW b \in Bridges, AskStep(n, b) PROVE TypeInv'
  BY <1>4, AskTypeInv
<1>5. ASSUME NEW n \in Replicas, ElectionStep(n) PROVE TypeInv'
  BY <1>5, ElectionStepTypeInv
<1>6. ASSUME NEW b \in Bridges, CrashBridge(b) PROVE TypeInv'
  BY <1>6, CrashBridgeTypeInv
<1> QED BY <1>1, <1>2, <1>3, <1>4, <1>5, <1>6 DEF Next

LEMMA TypeInvHolds == Spec => []TypeInv
BY InitTypeInv, StepTypeInv, PTL DEF Spec

\* Type correctness of every reachable state: every mark, vote, certificate and
\* round is a record or vote of an epoch the community can be in.
THEOREM TypeCorrect == Spec => []TypeOK
<1>1. TypeInv => TypeOK
  BY DEF TypeInv
<1> QED BY <1>1, TypeInvHolds, PTL

(***************************************************************************)
(* Votes.  The argument of ElectionSafety: a receipt a replica holds, in   *)
(* an attempt or in its stored certificate, is a vote its bridge still     *)
(* has; a certificate holds a strict majority of a configuration of two or *)
(* three bridges; two such majorities meet in a bridge, and that bridge    *)
(* has one vote per epoch.                                                 *)
(***************************************************************************)

Backed(n, primary, bridges) ==
    \A b \in bridges :
        promotionVotes[b][primary.epoch + 1] = [candidate |-> n, primary |-> primary]

ReceiptsBacked ==
    \A n \in Replicas : election[n].granted # {} =>
        /\ election[n].target \in Record
        /\ election[n].target.epoch < MaxEpoch
        /\ Backed(n, election[n].target, election[n].granted)

CertificatesHold ==
    \A n \in Replicas : Promoted(n) =>
        /\ certificate[n] \in Certificate
        /\ certificate[n].primary.epoch < MaxEpoch
        /\ IsMajority(certificate[n].bridges, Trust[n])
        /\ Backed(n, certificate[n].primary, certificate[n].bridges)

VoteInv == ReceiptsBacked /\ CertificatesHold

LEMMA InitVoteInv == Init => VoteInv
BY DEF Init, VoteInv, ReceiptsBacked, CertificatesHold, NoElection, Promoted, Replicas

\* Only a granted claim writes promotionVotes.
LEMMA OnlyClaimsVote ==
    ASSUME [Next]_vars
    PROVE  promotionVotes' = promotionVotes
           \/ \E n \in Replicas, b \in Bridges : ClaimGranted(n, b)
<1>1. ASSUME NEW h \in Hosts, NEW b \in Bridges, HostBridgeStep(h, b)
      PROVE  promotionVotes' = promotionVotes
  BY <1>1 DEF HostBridgeStep, Connect, HostSeesClose, BridgeSeesClose, UnbindSocket, Register,
     CommitRegistration, ReceiveAck, ObserveHigher, GraceElapses, AbsenceGraceElapses, Expire,
     RecordExpires, bridgeVars
<1>2. ASSUME NEW h \in Hosts, HostStep(h)
      PROVE  promotionVotes' = promotionVotes
  BY <1>2 DEF HostStep, SignRound, Heartbeat, Fence, Crash, Boot, bridgeVars
<1>3. ASSUME NEW n \in Replicas, NEW b \in Bridges, AskStep(n, b)
      PROVE  promotionVotes' = promotionVotes \/ ClaimGranted(n, b)
  BY <1>3 DEF AskStep, WitnessAbsent, WitnessOnline, WitnessUnavailable, ClaimUnavailable,
     ClaimConflict, bridgeVars
<1>4. ASSUME NEW n \in Replicas, ElectionStep(n)
      PROVE  promotionVotes' = promotionVotes
  BY <1>4 DEF ElectionStep, StartElection, BeginClaims, Promote, AbandonElection, bridgeVars
<1>5. ASSUME NEW b \in Bridges, CrashBridge(b)
      PROVE  promotionVotes' = promotionVotes
  BY <1>5 DEF CrashBridge, BridgeRestart
<1>6. CASE UNCHANGED vars
  BY <1>6 DEF vars, bridgeVars
<1> QED BY <1>1, <1>2, <1>3, <1>4, <1>5, <1>6 DEF Next

\* A vote that is there stays, and stays the same.
LEMMA VotesStay ==
    ASSUME TypeInv, [Next]_vars
    PROVE  \A b \in Bridges, e \in Epochs :
               promotionVotes[b][e] # NoVote => promotionVotes'[b][e] = promotionVotes[b][e]
<1>1. CASE promotionVotes' = promotionVotes
  BY <1>1
<1>2. ASSUME NEW n \in Replicas, NEW c \in Bridges, ClaimGranted(n, c)
      PROVE  \A b \in Bridges, e \in Epochs :
               promotionVotes[b][e] # NoVote => promotionVotes'[b][e] = promotionVotes[b][e]
  <2> DEFINE target == election[n].target
             ballot == [candidate |-> n, primary |-> target]
  <2>1. /\ promotionVotes[c][target.epoch + 1] \in {NoVote, ballot}
        /\ promotionVotes' = [promotionVotes EXCEPT ![c][target.epoch + 1] = ballot]
    BY <1>2 DEF ClaimGranted, GrantPromotionVote, VoteConflict
  <2>2. promotionVotes \in [Bridges -> [Epochs -> Vote \cup {NoVote}]]
    BY DEF TypeInv, TypeOK, BridgesTypeOK
  <2> QED BY <2>1, <2>2
<1> QED BY <1>1, <1>2, OnlyClaimsVote

\* Receipts that are backed stay backed: nothing removes a vote.
LEMMA BackedStays ==
    ASSUME TypeInv, [Next]_vars, NEW n \in Replicas, NEW primary \in Record,
           primary.epoch < MaxEpoch, NEW bridges \in SUBSET Bridges, Backed(n, primary, bridges)
    PROVE  Backed(n, primary, bridges)'
<1>1. primary.epoch + 1 \in Epochs
  BY BoundsAssumption DEF Record, Epochs
<1>2. [candidate |-> n, primary |-> primary] \in Vote
  BY DEF Vote, Replicas
<1> QED BY <1>1, <1>2, VotesStay, NullAssumption DEF Backed

\* What a step can do to the receipts of an attempt.
LEMMA ReceiptsStep ==
    ASSUME TypeInv, [Next]_vars, NEW n \in Replicas
    PROVE  \/ /\ election'[n].target = election[n].target
              /\ election'[n].granted = election[n].granted
           \/ election'[n].granted = {}
           \/ \E b \in Bridges :
                /\ ClaimGranted(n, b)
                /\ election'[n].target = election[n].target
                /\ election'[n].granted = election[n].granted \cup {b}
<1> DEFINE Kept == /\ election'[n].target = election[n].target
                   /\ election'[n].granted = election[n].granted
<1>0. election \in [Replicas -> Election]
  BY DEF TypeInv, TypeOK, CoordinatorsTypeOK
<1>1. ASSUME NEW h \in Hosts, NEW b \in Bridges, HostBridgeStep(h, b)
      PROVE  Kept
  BY <1>1 DEF HostBridgeStep, Connect, HostSeesClose, BridgeSeesClose, Register, ReceiveAck,
     ObserveHigher, GraceElapses, Expire, coordinatorVars
<1>2. ASSUME NEW h \in Hosts, HostStep(h)
      PROVE  Kept \/ election'[n].granted = {}
  BY <1>2 DEF HostStep, SignRound, Heartbeat, Fence, Crash, Boot, coordinatorVars, NoElection
<1>3. ASSUME NEW m \in Replicas, NEW b \in Bridges, AskStep(m, b)
      PROVE  Kept \/ election'[n].granted = {}
             \/ /\ ClaimGranted(n, b)
                /\ election'[n].target = election[n].target
                /\ election'[n].granted = election[n].granted \cup {b}
  <2>1. \/ election' = [election EXCEPT ![m] = Answered(m, b)]
        \/ election' = [election EXCEPT ![m] = NoElection]
        \/ election' = [election EXCEPT ![m] = [Answered(m, b) EXCEPT !.absent = @ \cup {b}]]
        \/ election' = [election EXCEPT ![m] = [election[m] EXCEPT !.tried = election[m].absent]]
        \/ /\ ClaimGranted(m, b)
           /\ election' = [election EXCEPT ![m] = [Answered(m, b) EXCEPT !.granted = @ \cup {b}]]
    BY <1>3 DEF AskStep, WitnessAbsent, WitnessOnline, WitnessUnavailable, ClaimGranted,
       ClaimUnavailable, ClaimConflict, SetElection
  <2>2. CASE m # n
    <3>1. election'[n] = election[n]
      BY <1>0, <2>1, <2>2
    <3> QED BY <3>1
  <2>3. CASE m = n
    BY <1>0, <2>1, <2>3, AnsweredType DEF Election, NoElection
  <2> QED BY <2>2, <2>3
<1>4. ASSUME NEW m \in Replicas, ElectionStep(m)
      PROVE  Kept \/ election'[n].granted = {}
  <2>1. \/ \E e : e.granted = {} /\ election' = [election EXCEPT ![m] = e]
        \/ election' = [election EXCEPT ![m] = [election[m] EXCEPT !.phase = "claim",
                                                                  !.tried = {}]]
    <3>1. CASE StartElection(m)
      <4>1. PICK b \in Resolvable(m) :
              election' = [election EXCEPT ![m] =
                  [NoElection EXCEPT !.phase = "witness",
                                     !.target = highWaterMarks[b][PrimaryHost]]]
        BY <3>1 DEF StartElection, SetElection
      <4>2. [NoElection EXCEPT !.phase = "witness",
                               !.target = highWaterMarks[b][PrimaryHost]].granted = {}
        BY DEF NoElection
      <4> QED BY <4>1, <4>2
    <3>2. NoElection.granted = {}
      BY DEF NoElection
    <3> QED BY <1>4, <3>1, <3>2
            DEF ElectionStep, BeginClaims, Promote, AbandonElection, SetElection
  <2>2. CASE m # n
    <3>1. election'[n] = election[n]
      BY <1>0, <2>1, <2>2
    <3> QED BY <3>1
  <2>3. CASE m = n
    BY <1>0, <2>1, <2>3, ZenonT(60) DEF Election, NoElection
  <2> QED BY <2>2, <2>3
<1>5. ASSUME NEW b \in Bridges, CrashBridge(b)
      PROVE  Kept
  BY <1>5 DEF CrashBridge
<1>6. CASE UNCHANGED vars
  BY <1>6 DEF vars, coordinatorVars
<1> QED BY <1>1, <1>2, <1>3, <1>4, <1>5, <1>6 DEF Next

\* Receipts in hand only grow by a vote the bridge has just recorded.
LEMMA StepReceiptsBacked == TypeInv /\ ReceiptsBacked /\ [Next]_vars => ReceiptsBacked'
<1> SUFFICES ASSUME TypeInv, ReceiptsBacked, [Next]_vars,
                    NEW n \in Replicas, election'[n].granted # {}
             PROVE  /\ election'[n].target \in Record
                    /\ election'[n].target.epoch < MaxEpoch
                    /\ Backed(n, election[n].target, election[n].granted)'
  BY DEF ReceiptsBacked
<1>1. election[n].granted \in SUBSET Bridges
  BY TargetType
<1>2. CASE election'[n].target = election[n].target /\ election'[n].granted = election[n].granted
  <2>1. /\ election[n].target \in Record /\ election[n].target.epoch < MaxEpoch
        /\ Backed(n, election[n].target, election[n].granted)
    BY <1>2 DEF ReceiptsBacked
  <2>2. \A b \in election[n].granted :
          promotionVotes'[b][election[n].target.epoch + 1] =
              [candidate |-> n, primary |-> election[n].target]
    BY <1>1, <2>1, BackedStays DEF Backed
  <2> QED BY <1>2, <2>1, <2>2 DEF Backed
<1>3. ASSUME NEW b \in Bridges, ClaimGranted(n, b),
             election'[n].target = election[n].target,
             election'[n].granted = election[n].granted \cup {b}
      PROVE  /\ election'[n].target \in Record
             /\ election'[n].target.epoch < MaxEpoch
             /\ Backed(n, election[n].target, election[n].granted)'
  <2>1. election[n].target \in Record /\ election[n].target.epoch < MaxEpoch
    BY <1>3, TargetType DEF ClaimGranted, NextClaim
  <2>2. \A c \in election[n].granted :
          promotionVotes'[c][election[n].target.epoch + 1] =
              [candidate |-> n, primary |-> election[n].target]
    <3>1. Backed(n, election[n].target, election[n].granted)
      BY DEF ReceiptsBacked, Backed
    <3> QED BY <1>1, <2>1, <3>1, BackedStays DEF Backed
  <2>3. promotionVotes'[b][election[n].target.epoch + 1] =
            [candidate |-> n, primary |-> election[n].target]
    <3>1. promotionVotes \in [Bridges -> [Epochs -> Vote \cup {NoVote}]]
      BY DEF TypeInv, TypeOK, BridgesTypeOK
    <3>2. election[n].target.epoch + 1 \in Epochs
      BY <2>1, BoundsAssumption DEF Record, Epochs
    <3> QED BY <1>3, <3>1, <3>2 DEF ClaimGranted, GrantPromotionVote
  <2> QED BY <1>3, <2>1, <2>2, <2>3 DEF Backed
<1> QED BY <1>2, <1>3, ReceiptsStep

\* What a step can do to a stored certificate.
LEMMA CertificateStep ==
    ASSUME TypeInv, [Next]_vars, NEW n \in Replicas
    PROVE  \/ certificate'[n] = certificate[n]
           \/ /\ Promote(n)
              /\ certificate'[n] = [primary |-> election[n].target,
                                    bridges |-> election[n].granted]
<1>0. certificate \in [Hosts -> Certificate \cup {NoCertificate}] /\ n \in Hosts
  BY DEF TypeInv, TypeOK, DatabasesTypeOK, Replicas
<1>1. ASSUME NEW h \in Hosts, NEW b \in Bridges, HostBridgeStep(h, b)
      PROVE  certificate' = certificate
  BY <1>1 DEF HostBridgeStep, Connect, HostSeesClose, BridgeSeesClose, Register, ReceiveAck,
     AcknowledgeRound, ObserveHigher, ObserveHigherEpoch, GraceElapses, Expire, hostVars,
     databaseVars
<1>2. ASSUME NEW h \in Hosts, HostStep(h)
      PROVE  certificate' = certificate
  BY <1>2 DEF HostStep, SignRound, Heartbeat, Fence, FencePrimaryWriter, Crash, HostCrash, Boot,
     HostBoot, databaseVars
<1>3. ASSUME NEW m \in Replicas, NEW b \in Bridges, AskStep(m, b)
      PROVE  certificate' = certificate
  BY <1>3 DEF AskStep, WitnessAbsent, WitnessOnline, WitnessUnavailable, ClaimGranted,
     ClaimUnavailable, ClaimConflict, SetElection, hostVars, databaseVars
<1>4. ASSUME NEW m \in Replicas, ElectionStep(m)
      PROVE  certificate'[n] = certificate[n]
             \/ /\ Promote(n)
                /\ certificate'[n] = [primary |-> election[n].target,
                                      bridges |-> election[n].granted]
  <2>1. CASE Promote(m)
    BY <1>0, <2>1 DEF Promote, PromoteFromWitness
  <2>2. CASE ~Promote(m)
    BY <1>4, <2>2 DEF ElectionStep, StartElection, BeginClaims, AbandonElection, SetElection,
       hostVars, databaseVars
  <2> QED BY <2>1, <2>2
<1>5. ASSUME NEW b \in Bridges, CrashBridge(b)
      PROVE  certificate' = certificate
  BY <1>5 DEF CrashBridge, hostVars, databaseVars
<1>6. CASE UNCHANGED vars
  BY <1>6 DEF vars, hostVars, databaseVars
<1> QED BY <1>1, <1>2, <1>3, <1>4, <1>5, <1>6 DEF Next

\* A majority of a configuration of two bridges or more is not empty.
LEMMA MajorityNonempty ==
    ASSUME NEW n \in Replicas, NEW S \in SUBSET Bridges, IsMajority(S, Trust[n])
    PROVE  S # {}
<1>1. IsFiniteSet(Trust[n]) /\ Cardinality(Trust[n]) \in Nat /\ Cardinality(Trust[n]) >= 2
  BY TrustAssumption, BridgesAssumption, FS_Subset, FS_CardinalityType
<1>2. (Cardinality(Trust[n]) \div 2) + 1 >= 1 /\ (Cardinality(Trust[n]) \div 2) + 1 \in Nat
  BY <1>1
<1>3. S = {} => Cardinality(S \cap Trust[n]) = 0
  BY FS_EmptySet
<1> QED BY <1>2, <1>3 DEF IsMajority

\* A certificate is stored with a majority of receipts that are votes, and stays.
LEMMA StepCertificatesHold ==
    TypeInv /\ TypeInv' /\ VoteInv /\ [Next]_vars => CertificatesHold'
<1> SUFFICES ASSUME TypeInv, TypeInv', VoteInv, [Next]_vars,
                    NEW n \in Replicas, Promoted(n)'
             PROVE  /\ certificate'[n] \in Certificate
                    /\ certificate'[n].primary.epoch < MaxEpoch
                    /\ IsMajority(certificate'[n].bridges, Trust[n])
                    /\ Backed(n, certificate[n].primary, certificate[n].bridges)'
  BY DEF CertificatesHold
<1>1. CASE certificate'[n] = certificate[n]
  <2>1. /\ certificate[n] \in Certificate
        /\ certificate[n].primary.epoch < MaxEpoch
        /\ IsMajority(certificate[n].bridges, Trust[n])
        /\ Backed(n, certificate[n].primary, certificate[n].bridges)
    BY <1>1 DEF VoteInv, CertificatesHold, Promoted
  <2>2. \A b \in certificate[n].bridges :
          promotionVotes'[b][certificate[n].primary.epoch + 1] =
              [candidate |-> n, primary |-> certificate[n].primary]
    BY <2>1, BackedStays DEF Certificate, Backed
  <2> QED BY <1>1, <2>1, <2>2 DEF Backed
<1>2. CASE /\ Promote(n)
           /\ certificate'[n] = [primary |-> election[n].target, bridges |-> election[n].granted]
  <2>1. [primary |-> election[n].target, bridges |-> election[n].granted] \in Certificate
    BY <1>2, PromoteType
  <2>2. IsMajority(election[n].granted, Trust[n]) /\ election[n].target.epoch < MaxEpoch
        /\ promotionVotes' = promotionVotes
    BY <1>2 DEF Promote, PromoteFromWitness, bridgeVars
  <2>3. election[n].granted # {}
    BY <2>2, MajorityNonempty, TargetType
  <2>4. Backed(n, election[n].target, election[n].granted)
    BY <2>3 DEF VoteInv, ReceiptsBacked
  <2> QED BY <1>2, <2>1, <2>2, <2>4 DEF Backed
<1> QED BY <1>1, <1>2, CertificateStep

LEMMA VoteInvHolds == Spec => [](TypeInv /\ VoteInv)
<1>1. Init => TypeInv /\ VoteInv
  BY InitTypeInv, InitVoteInv
<1>2. TypeInv /\ VoteInv /\ [Next]_vars => TypeInv' /\ VoteInv'
  BY StepTypeInv, StepReceiptsBacked, StepCertificatesHold DEF VoteInv
<1> QED BY <1>1, <1>2, PTL DEF Spec

\* Every receipt of a stored certificate is still the signer's durable vote.
THEOREM CertificatesBacked == Spec => []CertificateBacked
<1>1. TypeInv /\ VoteInv => CertificateBacked
  BY DEF VoteInv, CertificatesHold, Backed, CertificateBacked
<1> QED BY <1>1, VoteInvHolds, PTL

\* Majorities of two configurations of at least two of at most three bridges
\* have a bridge in common.
LEMMA MajoritiesMeet ==
    ASSUME NEW n \in Replicas, NEW m \in Replicas,
           NEW S \in SUBSET Bridges, NEW T \in SUBSET Bridges,
           IsMajority(S, Trust[n]), IsMajority(T, Trust[m])
    PROVE  S \cap T # {}
<1> DEFINE P == S \cap Trust[n]
           Q == T \cap Trust[m]
<1>1. /\ IsFiniteSet(Trust[n]) /\ Cardinality(Trust[n]) \in Nat /\ Cardinality(Trust[n]) >= 2
      /\ IsFiniteSet(Trust[m]) /\ Cardinality(Trust[m]) \in Nat /\ Cardinality(Trust[m]) >= 2
  BY TrustAssumption, BridgesAssumption, FS_Subset, FS_CardinalityType
<1>2. /\ IsFiniteSet(P) /\ Cardinality(P) \in Nat /\ Cardinality(P) >= 2
      /\ IsFiniteSet(Q) /\ Cardinality(Q) \in Nat /\ Cardinality(Q) >= 2
  <2>1. (Cardinality(Trust[n]) \div 2) + 1 >= 2 /\ (Cardinality(Trust[m]) \div 2) + 1 >= 2
    BY <1>1
  <2>2. IsFiniteSet(P) /\ IsFiniteSet(Q) /\ Cardinality(P) \in Nat /\ Cardinality(Q) \in Nat
    BY BridgesAssumption, FS_Subset, FS_CardinalityType
  <2>3. (Cardinality(Trust[n]) \div 2) + 1 \in Nat /\ (Cardinality(Trust[m]) \div 2) + 1 \in Nat
    BY <1>1
  <2> QED BY <2>1, <2>2, <2>3 DEF IsMajority
<1>3. IsFiniteSet(P \cup Q) /\ Cardinality(P \cup Q) <= 3 /\ Cardinality(P \cup Q) \in Nat
  <2>1. P \cup Q \subseteq Bridges
    OBVIOUS
  <2> HIDE DEF P, Q
  <2> QED BY <2>1, BridgesAssumption, FS_Subset, FS_CardinalityType
<1>4. Cardinality(P \cup Q) = Cardinality(P) + Cardinality(Q) - Cardinality(P \cap Q)
  BY <1>2, FS_Union
<1>5. P \cap Q # {}
  <2>1. P \cap Q = {} => Cardinality(P \cap Q) = 0
    BY FS_EmptySet
  <2> HIDE DEF P, Q
  <2> QED BY <1>2, <1>3, <1>4, <2>1
<1> QED BY <1>5

\* No two replicas are ever promoted to one epoch.
THEOREM FailoverElectsOne == Spec => []ElectionSafety
<1>1. ASSUME VoteInv PROVE ElectionSafety
  <2> SUFFICES ASSUME NEW n \in Replicas, NEW m \in Replicas, Promoted(n), Promoted(m),
                      certificate[n].primary.epoch = certificate[m].primary.epoch
               PROVE  n = m
    BY DEF ElectionSafety
  <2>1. /\ certificate[n] \in Certificate /\ certificate[m] \in Certificate
        /\ IsMajority(certificate[n].bridges, Trust[n])
        /\ IsMajority(certificate[m].bridges, Trust[m])
        /\ Backed(n, certificate[n].primary, certificate[n].bridges)
        /\ Backed(m, certificate[m].primary, certificate[m].bridges)
    BY <1>1 DEF VoteInv, CertificatesHold
  <2>2. PICK b \in certificate[n].bridges \cap certificate[m].bridges : TRUE
    BY <2>1, MajoritiesMeet, SMTT(30) DEF Certificate
  <2> QED BY <2>1, <2>2 DEF Backed
<1>2. VoteInv => ElectionSafety
  BY <1>1
<1> QED BY <1>2, VoteInvHolds, PTL

(***************************************************************************)
(* HostFailover implements EpochElection, and its bridges agree on the     *)
(* primary of every epoch.                                                 *)
(*                                                                         *)
(* The argument: a replica binds its election to a record of the founder   *)
(* with the primary role, and the founder has that role in epoch 0 only.   *)
(* So every certificate is for epoch 0, epochs beyond 1 do not occur, and  *)
(* epoch 1 occurs, in a database, a record or a mark, only after a replica *)
(* was promoted to it, which by ElectionSafety is one replica.             *)
(***************************************************************************)

\* An epoch something may carry: the founder's, or the one somebody was promoted to.
EpochFits(e) == e = 0 \/ (e = 1 /\ SomeReplicaPromoted)

\* Whom an epoch belongs to.
Holds(h, e) == IF h = PrimaryHost THEN e = 0 ELSE e = 1 /\ Promoted(h)

RecordFits(h, r) ==
    /\ r.host = h
    /\ EpochFits(r.epoch)
    /\ r.role = "primary" => Holds(h, r.epoch)

\* h writes, or may resume writing now or after a restart.
Claims(h) == writer[h] \/ resumeEligible[h] \/ writerState[h] = "writer"

HostsFit ==
    \A h \in Hosts : EpochFits(hostEpoch[h]) /\ (Claims(h) => Holds(h, hostEpoch[h]))

RoundsFit == \A h \in Hosts : round[h] # NoRecord => RecordFits(h, round[h])

ChainsFit == \A h \in Hosts : \A i \in 1..Len(chain[h]) : RecordFits(h, chain[h][i])

MarksFit ==
    \A b \in Bridges, h \in Hosts :
        highWaterMarks[b][h] # NoRecord => RecordFits(h, highWaterMarks[b][h])

TargetsFit == \A n \in Replicas : election[n].phase # "idle" => election[n].target.epoch = 0

CertificatesFit == \A n \in Replicas : Promoted(n) => certificate[n].primary.epoch = 0

EpochInv ==
    HostsFit /\ RoundsFit /\ ChainsFit /\ MarksFit /\ TargetsFit /\ CertificatesFit

LEMMA InitEpochInv == Init => EpochInv
<1> SUFFICES ASSUME Init PROVE EpochInv
  OBVIOUS
<1>1. RecordFits(PrimaryHost, FirstRecord)
  BY DEF RecordFits, FirstRecord, EpochFits, Holds
<1>2. HostsFit
  BY DEF Init, HostsFit, EpochFits, Claims, Holds, ByHost
<1>3. RoundsFit
  BY <1>1 DEF Init, RoundsFit, ByHost
<1>4. ChainsFit
  <2>1. \A h \in Hosts : chain[h] = IF h = PrimaryHost THEN <<FirstRecord>> ELSE <<>>
    BY DEF Init, ByHost
  <2> QED BY <1>1, <2>1 DEF ChainsFit
<1>5. MarksFit
  BY <1>1 DEF Init, MarksFit, ByHost
<1>6. TargetsFit /\ CertificatesFit
  BY DEF Init, TargetsFit, CertificatesFit, NoElection, Promoted, Replicas
<1> QED BY <1>2, <1>3, <1>4, <1>5, <1>6 DEF EpochInv

\* A promotion is for good.
LEMMA PromotionStays ==
    ASSUME TypeInv, [Next]_vars, NEW n \in Replicas, Promoted(n)
    PROVE  Promoted(n)'
<1>1. CASE certificate'[n] = certificate[n]
  BY <1>1 DEF Promoted
<1>2. CASE /\ Promote(n)
           /\ certificate'[n] = [primary |-> election[n].target, bridges |-> election[n].granted]
  BY <1>2, PromoteType, NullAssumption DEF Promoted, NoCertificate
<1> QED BY <1>1, <1>2, CertificateStep

\* So what fits goes on to fit.
LEMMA FitsStay ==
    ASSUME TypeInv, [Next]_vars
    PROVE  /\ \A e : EpochFits(e) => EpochFits(e)'
           /\ \A e : \A h \in Hosts : Holds(h, e) => Holds(h, e)'
           /\ \A r : \A h \in Hosts : RecordFits(h, r) => RecordFits(h, r)'
<1>1. \A n \in Replicas : Promoted(n) => Promoted(n)'
  BY PromotionStays
<1>2. SomeReplicaPromoted => SomeReplicaPromoted'
  BY <1>1 DEF SomeReplicaPromoted
<1>3. \A e : EpochFits(e) => EpochFits(e)'
  BY <1>2 DEF EpochFits
<1>4. \A e : \A h \in Hosts : Holds(h, e) => Holds(h, e)'
  BY <1>1 DEF Holds, Replicas
<1> QED BY <1>3, <1>4 DEF RecordFits

\* What a step does to the round of a host.
LEMMA RoundStep ==
    ASSUME TypeInv, [Next]_vars, NEW h \in Hosts
    PROVE  \/ round'[h] \in {round[h], NoRecord}
           \/ (SignRound(h) \/ Heartbeat(h)) /\ round'[h] = FreshRecord(h)
<1>0. round \in [Hosts -> Record \cup {NoRecord}]
  BY DEF TypeInv, TypeOK, MemoryTypeOK
<1>1. ASSUME NEW g \in Hosts, NEW b \in Bridges, HostBridgeStep(g, b)
      PROVE  round'[h] \in {round[h], NoRecord}
  BY <1>0, <1>1 DEF HostBridgeStep, Connect, HostSeesClose, BridgeSeesClose, Register, ReceiveAck,
     AcknowledgeRound, ObserveHigher, ObserveHigherEpoch, GraceElapses, Expire, hostVars,
     memoryVars
<1>2. ASSUME NEW g \in Hosts, HostStep(g)
      PROVE  \/ round'[h] \in {round[h], NoRecord}
             \/ (SignRound(h) \/ Heartbeat(h)) /\ round'[h] = FreshRecord(h)
  <2>1. CASE SignRound(g) \/ Heartbeat(g)
    <3>1. round' = [round EXCEPT ![g] = FreshRecord(g)]
      BY <2>1 DEF SignRound, EnsureRound, Heartbeat, RotateRound, SignRecord
    <3> QED BY <1>0, <2>1, <3>1
  <2>2. CASE ~(SignRound(g) \/ Heartbeat(g))
    BY <1>0, <1>2, <2>2 DEF HostStep, Fence, FencePrimaryWriter, Crash, HostCrash, Boot, HostBoot
  <2> QED BY <2>1, <2>2
<1>3. ASSUME NEW n \in Replicas, NEW b \in Bridges, AskStep(n, b)
      PROVE  round'[h] = round[h]
  BY <1>3 DEF AskStep, WitnessAbsent, WitnessOnline, WitnessUnavailable, ClaimGranted,
     ClaimUnavailable, ClaimConflict, SetElection, hostVars, memoryVars
<1>4. ASSUME NEW n \in Replicas, ElectionStep(n)
      PROVE  round'[h] \in {round[h], NoRecord}
  BY <1>0, <1>4 DEF ElectionStep, StartElection, BeginClaims, Promote, PromoteFromWitness,
     AbandonElection, SetElection, hostVars, memoryVars
<1>5. ASSUME NEW b \in Bridges, CrashBridge(b)
      PROVE  round'[h] = round[h]
  BY <1>5 DEF CrashBridge, hostVars, memoryVars
<1>6. CASE UNCHANGED vars
  BY <1>6 DEF vars, hostVars, memoryVars
<1> QED BY <1>1, <1>2, <1>3, <1>4, <1>5, <1>6 DEF Next

\* Only the round is committed.
LEMMA ChainStep ==
    ASSUME TypeInv, [Next]_vars, NEW h \in Hosts
    PROVE  \/ chain'[h] = chain[h]
           \/ /\ round[h] # NoRecord /\ ~IsCommitted(h, round[h])
              /\ chain'[h] = Append(chain[h], round[h])
<1>0. chain \in [Hosts -> Seq(Record)]
  BY DEF TypeInv, TypeOK, DatabasesTypeOK
<1>1. ASSUME NEW g \in Hosts, NEW b \in Bridges, HostBridgeStep(g, b)
      PROVE  \/ chain'[h] = chain[h]
             \/ /\ round[h] # NoRecord /\ ~IsCommitted(h, round[h])
                /\ chain'[h] = Append(chain[h], round[h])
  <2>1. CASE ReceiveAck(g, b)
    <3>1. \/ chain' = chain
          \/ /\ round[g] # NoRecord /\ ~IsCommitted(g, round[g])
             /\ chain' = [chain EXCEPT ![g] = Append(@, round[g])]
      BY <2>1 DEF ReceiveAck, AcknowledgeRound, hostVars, databaseVars
    <3> QED BY <1>0, <3>1
  <2>2. CASE ~ReceiveAck(g, b)
    BY <1>1, <2>2 DEF HostBridgeStep, Connect, HostSeesClose, BridgeSeesClose, Register,
       ObserveHigher, ObserveHigherEpoch, GraceElapses, Expire, hostVars, databaseVars
  <2> QED BY <2>1, <2>2
<1>2. ASSUME NEW g \in Hosts, HostStep(g)
      PROVE  chain'[h] = chain[h]
  BY <1>2 DEF HostStep, SignRound, Heartbeat, Fence, FencePrimaryWriter, Crash, HostCrash, Boot,
     HostBoot, databaseVars
<1>3. ASSUME NEW n \in Replicas, NEW b \in Bridges, AskStep(n, b)
      PROVE  chain'[h] = chain[h]
  BY <1>3 DEF AskStep, WitnessAbsent, WitnessOnline, WitnessUnavailable, ClaimGranted,
     ClaimUnavailable, ClaimConflict, SetElection, hostVars, databaseVars
<1>4. ASSUME NEW n \in Replicas, ElectionStep(n)
      PROVE  chain'[h] = chain[h]
  BY <1>4 DEF ElectionStep, StartElection, BeginClaims, Promote, PromoteFromWitness,
     AbandonElection, SetElection, hostVars, databaseVars
<1>5. ASSUME NEW b \in Bridges, CrashBridge(b)
      PROVE  chain'[h] = chain[h]
  BY <1>5 DEF CrashBridge, hostVars, databaseVars
<1>6. CASE UNCHANGED vars
  BY <1>6 DEF vars, hostVars, databaseVars
<1> QED BY <1>1, <1>2, <1>3, <1>4, <1>5, <1>6 DEF Next

\* What a step does to the authority of a host.
LEMMA AuthorityStep ==
    ASSUME TypeInv, [Next]_vars, NEW h \in Hosts
    PROVE  \/ hostEpoch'[h] = hostEpoch[h] /\ (Claims(h)' => Claims(h))
           \/ /\ ~Claims(h)'
              /\ \E b \in Bridges, g \in Hosts :
                    highWaterMarks[b][g] # NoRecord /\ hostEpoch'[h] = highWaterMarks[b][g].epoch
           \/ h \in Replicas /\ Promote(h) /\ hostEpoch'[h] = election[h].target.epoch + 1
<1> DEFINE Kept == hostEpoch'[h] = hostEpoch[h] /\ (Claims(h)' => Claims(h))
<1>0. /\ hostEpoch \in [Hosts -> Epochs]
      /\ writerState \in [Hosts -> {"none", "writer", "fenced"}]
      /\ writer \in [Hosts -> BOOLEAN] /\ resumeEligible \in [Hosts -> BOOLEAN]
  BY DEF TypeInv, TypeOK, DatabasesTypeOK, MemoryTypeOK
<1>1. ASSUME UNCHANGED hostVars PROVE Kept
  BY <1>1 DEF hostVars, databaseVars, memoryVars, Claims
<1>2. ASSUME NEW g \in Hosts, NEW b \in Bridges, HostBridgeStep(g, b)
      PROVE  \/ Kept
             \/ /\ ~Claims(h)'
                /\ \E c \in Bridges, k \in Hosts :
                      highWaterMarks[c][k] # NoRecord
                      /\ hostEpoch'[h] = highWaterMarks[c][k].epoch
  <2>1. CASE ReceiveAck(g, b)
    <3>1. CASE UNCHANGED hostVars
      BY <1>1, <3>1
    <3>2. CASE AcknowledgeRound(g, b)
      <4>1. hostEpoch' = hostEpoch
        BY <3>2 DEF AcknowledgeRound
      <4>2. CASE g # h
        <5>1. /\ writer'[h] = writer[h] /\ resumeEligible'[h] = resumeEligible[h]
              /\ writerState'[h] = writerState[h]
          BY <1>0, <3>2, <4>2 DEF AcknowledgeRound
        <5> QED BY <4>1, <5>1 DEF Claims
      <4>3. CASE g = h
        <5>1. CASE resumeEligible[h]
          BY <4>1, <5>1 DEF Claims
        <5>2. CASE ~resumeEligible[h]
          <6>1. writer' = [writer EXCEPT ![h] = @ \/ FALSE] /\ writerState' = writerState
            BY <3>2, <4>3, <5>2 DEF AcknowledgeRound
          <6>2. resumeEligible'[h] = FALSE
            BY <1>0, <3>2, <4>3, <5>2 DEF AcknowledgeRound
          <6>3. writer'[h] = writer[h]
            BY <1>0, <6>1
          <6> QED BY <4>1, <6>1, <6>2, <6>3 DEF Claims
        <5> QED BY <5>1, <5>2
      <4> QED BY <4>2, <4>3
    <3> QED BY <2>1, <3>1, <3>2 DEF ReceiveAck
  <2>2. CASE ObserveHigher(g, b)
    <3>1. PICK k \in listed[b] : ObserveHigherEpoch(g, highWaterMarks[b][k], certificate[k])
      BY <2>2 DEF ObserveHigher
    <3>2. k \in Hosts /\ highWaterMarks[b][k] # NoRecord
      BY <3>1 DEF TypeInv, TypeOK, BridgesTypeOK, ListedHaveMarks
    <3>3. CASE g = h
      <4>1. hostEpoch'[h] = highWaterMarks[b][k].epoch
        BY <1>0, <3>1, <3>3 DEF ObserveHigherEpoch
      <4>2. ~Claims(h)'
        BY <1>0, <3>1, <3>3 DEF ObserveHigherEpoch, Claims
      <4> QED BY <3>2, <4>1, <4>2
    <3>4. CASE g # h
      BY <1>0, <3>1, <3>4 DEF ObserveHigherEpoch, Claims
    <3> QED BY <3>3, <3>4
  <2>3. CASE HostSeesClose(g, b)
    BY <2>3 DEF HostSeesClose, databaseVars, Claims
  <2>4. CASE ~ReceiveAck(g, b) /\ ~ObserveHigher(g, b) /\ ~HostSeesClose(g, b)
    <3>1. UNCHANGED hostVars
      BY <1>2, <2>4 DEF HostBridgeStep, Connect, BridgeSeesClose, Register, GraceElapses, Expire
    <3> QED BY <1>1, <3>1
  <2> QED BY <2>1, <2>2, <2>3, <2>4
<1>3. ASSUME NEW g \in Hosts, HostStep(g) PROVE Kept
  <2>1. CASE SignRound(g) \/ Heartbeat(g)
    BY <2>1 DEF SignRound, Heartbeat, Claims
  <2>2. CASE Fence(g)
    BY <1>0, <2>2 DEF Fence, FencePrimaryWriter, Claims
  <2>3. CASE Crash(g)
    BY <1>0, <2>3 DEF Crash, HostCrash, databaseVars, Claims
  <2>4. CASE Boot(g)
    <3>1. /\ hostEpoch' = hostEpoch /\ writer' = writer /\ writerState' = writerState
          /\ resumeEligible' = [resumeEligible EXCEPT ![g] = (writerState[g] = "writer")]
      BY <2>4 DEF Boot, HostBoot, databaseVars
    <3>2. resumeEligible'[h] => resumeEligible[h] \/ writerState[h] = "writer"
      <4>1. CASE g = h
        BY <1>0, <3>1, <4>1, Zenon
      <4>2. CASE g # h
        BY <1>0, <3>1, <4>2
      <4> QED BY <4>1, <4>2
    <3> QED BY <3>1, <3>2 DEF Claims
  <2> QED BY <1>3, <2>1, <2>2, <2>3, <2>4 DEF HostStep
<1>4. ASSUME NEW n \in Replicas, NEW b \in Bridges, AskStep(n, b) PROVE Kept
  <2>1. UNCHANGED hostVars
    BY <1>4 DEF AskStep, WitnessAbsent, WitnessOnline, WitnessUnavailable, ClaimGranted,
       ClaimUnavailable, ClaimConflict, SetElection
  <2> QED BY <1>1, <2>1
<1>5. ASSUME NEW n \in Replicas, ElectionStep(n)
      PROVE  Kept \/ (h \in Replicas /\ Promote(h)
                      /\ hostEpoch'[h] = election[h].target.epoch + 1)
  <2>1. CASE Promote(n) /\ n = h
    BY <1>0, <2>1 DEF Promote, PromoteFromWitness
  <2>2. CASE Promote(n) /\ n # h
    BY <1>0, <2>2 DEF Promote, PromoteFromWitness, Claims
  <2>3. CASE ~Promote(n)
    <3>1. UNCHANGED hostVars
      BY <1>5, <2>3 DEF ElectionStep, StartElection, BeginClaims, AbandonElection, SetElection
    <3> QED BY <1>1, <3>1
  <2> QED BY <2>1, <2>2, <2>3
<1>6. ASSUME NEW b \in Bridges, CrashBridge(b) PROVE Kept
  BY <1>1, <1>6 DEF CrashBridge
<1>7. CASE UNCHANGED vars
  BY <1>1, <1>7 DEF vars
<1> QED BY <1>2, <1>3, <1>4, <1>5, <1>6, <1>7 DEF Next

\* Only a registration changes a mark.
LEMMA MarksStep ==
    ASSUME [Next]_vars
    PROVE  \/ highWaterMarks' = highWaterMarks
           \/ \E h \in Hosts, b \in Bridges : Register(h, b)
<1>1. ASSUME NEW h \in Hosts, NEW b \in Bridges, HostBridgeStep(h, b)
      PROVE  highWaterMarks' = highWaterMarks \/ Register(h, b)
  BY <1>1 DEF HostBridgeStep, Connect, HostSeesClose, BridgeSeesClose, UnbindSocket, ReceiveAck,
     ObserveHigher, GraceElapses, AbsenceGraceElapses, Expire, RecordExpires, bridgeVars
<1>2. ASSUME NEW h \in Hosts, HostStep(h)
      PROVE  highWaterMarks' = highWaterMarks
  BY <1>2 DEF HostStep, SignRound, Heartbeat, Fence, Crash, Boot, bridgeVars
<1>3. ASSUME NEW n \in Replicas, NEW b \in Bridges, AskStep(n, b)
      PROVE  highWaterMarks' = highWaterMarks
  BY <1>3 DEF AskStep, WitnessAbsent, WitnessOnline, WitnessUnavailable, ClaimGranted,
     GrantPromotionVote, ClaimUnavailable, ClaimConflict, bridgeVars
<1>4. ASSUME NEW n \in Replicas, ElectionStep(n)
      PROVE  highWaterMarks' = highWaterMarks
  BY <1>4 DEF ElectionStep, StartElection, BeginClaims, Promote, AbandonElection, bridgeVars
<1>5. ASSUME NEW b \in Bridges, CrashBridge(b)
      PROVE  highWaterMarks' = highWaterMarks
  BY <1>5 DEF CrashBridge, BridgeRestart
<1>6. CASE UNCHANGED vars
  BY <1>6 DEF vars, bridgeVars
<1> QED BY <1>1, <1>2, <1>3, <1>4, <1>5, <1>6 DEF Next

\* An attempt keeps its checkpoint, or takes one that a bridge lists of the founder.
LEMMA TargetStep ==
    ASSUME TypeInv, [Next]_vars, NEW n \in Replicas, election'[n].phase # "idle"
    PROVE  \/ election[n].phase # "idle" /\ election'[n].target = election[n].target
           \/ \E b \in Bridges : /\ PrimaryHost \in listed[b]
                                 /\ highWaterMarks[b][PrimaryHost].role = "primary"
                                 /\ election'[n].target = highWaterMarks[b][PrimaryHost]
<1> DEFINE Kept == election[n].phase # "idle" /\ election'[n].target = election[n].target
<1>0. election \in [Replicas -> Election] /\ NoElection.phase = "idle"
  BY DEF TypeInv, TypeOK, CoordinatorsTypeOK, NoElection
<1>1. CASE election' = election
  BY <1>1
<1>2. ASSUME NEW h \in Hosts, NEW b \in Bridges, HostBridgeStep(h, b)
      PROVE  election' = election
  BY <1>2 DEF HostBridgeStep, Connect, HostSeesClose, BridgeSeesClose, Register, ReceiveAck,
     ObserveHigher, GraceElapses, Expire, coordinatorVars
<1>3. ASSUME NEW h \in Hosts, HostStep(h)
      PROVE  Kept
  BY <1>0, <1>3 DEF HostStep, SignRound, Heartbeat, Fence, Crash, Boot, coordinatorVars
<1>4. ASSUME NEW m \in Replicas, NEW b \in Bridges, AskStep(m, b)
      PROVE  Kept
  <2>1. /\ election[m].phase # "idle"
        /\ \/ election' = [election EXCEPT ![m] = Answered(m, b)]
           \/ election' = [election EXCEPT ![m] = NoElection]
           \/ election' = [election EXCEPT ![m] = [Answered(m, b) EXCEPT !.absent = @ \cup {b}]]
           \/ election' = [election EXCEPT ![m] = [election[m] EXCEPT !.tried = election[m].absent]]
           \/ election' = [election EXCEPT ![m] = [Answered(m, b) EXCEPT !.granted = @ \cup {b}]]
    BY <1>4 DEF AskStep, WitnessAbsent, WitnessOnline, WitnessUnavailable, ClaimGranted,
       ClaimUnavailable, ClaimConflict, SetElection, Awaited, NextClaim
  <2>2. CASE m # n
    <3>1. election'[n] = election[n]
      BY <1>0, <2>1, <2>2
    <3> QED BY <3>1
  <2>3. CASE m = n
    BY <1>0, <2>1, <2>3, AnsweredType DEF Election
  <2> QED BY <2>2, <2>3
<1>5. ASSUME NEW m \in Replicas, ElectionStep(m)
      PROVE  \/ Kept
             \/ \E b \in Bridges : /\ PrimaryHost \in listed[b]
                                   /\ highWaterMarks[b][PrimaryHost].role = "primary"
                                   /\ election'[n].target = highWaterMarks[b][PrimaryHost]
  <2>1. CASE StartElection(m)
    <3>1. PICK b \in Resolvable(m) :
            /\ highWaterMarks[b][PrimaryHost].role = "primary"
            /\ election' = [election EXCEPT ![m] =
                  [NoElection EXCEPT !.phase = "witness",
                                     !.target = highWaterMarks[b][PrimaryHost]]]
      BY <2>1 DEF StartElection, SetElection
    <3>2. b \in Bridges /\ PrimaryHost \in listed[b]
      BY <3>1, TargetType DEF Resolvable, Listing
    <3>3. [NoElection EXCEPT !.phase = "witness",
                             !.target = highWaterMarks[b][PrimaryHost]].target
            = highWaterMarks[b][PrimaryHost]
      BY DEF NoElection
    <3>4. CASE m # n
      <4>1. election'[n] = election[n]
        BY <1>0, <3>1, <3>4
      <4> QED BY <4>1
    <3>5. CASE m = n
      BY <1>0, <3>1, <3>2, <3>3, <3>5
    <3> QED BY <3>4, <3>5
  <2>2. CASE BeginClaims(m)
    <3>1. /\ election[m].phase # "idle"
          /\ election' = [election EXCEPT ![m] = [election[m] EXCEPT !.phase = "claim",
                                                                     !.tried = {}]]
      BY <2>2 DEF BeginClaims, SetElection
    <3> QED BY <1>0, <3>1 DEF Election
  <2>3. CASE Promote(m) \/ AbandonElection(m)
    <3>1. election' = [election EXCEPT ![m] = NoElection]
      BY <2>3 DEF Promote, AbandonElection, SetElection
    <3> QED BY <1>0, <3>1
  <2> QED BY <1>5, <2>1, <2>2, <2>3 DEF ElectionStep
<1>6. ASSUME NEW b \in Bridges, CrashBridge(b)
      PROVE  election' = election
  BY <1>6 DEF CrashBridge
<1>7. CASE UNCHANGED vars
  BY <1>7 DEF vars, coordinatorVars
<1> QED BY <1>1, <1>2, <1>3, <1>4, <1>5, <1>6, <1>7 DEF Next

LEMMA FreshRecordFits ==
    ASSUME NEW h \in Hosts, HostsFit
    PROVE  RecordFits(h, FreshRecord(h))
BY DEF HostsFit, Claims, RecordFits, FreshRecord

LEMMA PublicationFits ==
    ASSUME TypeInv, RoundsFit, ChainsFit, NEW h \in Hosts, NEW b \in Bridges,
           NEW r \in Publication(h, b)
    PROVE  RecordFits(h, r)
<1>1. r # NoRecord
  BY PublicationType, NullAssumption
<1>2. CASE r = round[h]
  BY <1>1, <1>2 DEF RoundsFit
<1>3. CASE IsCommitted(h, r)
  BY <1>3 DEF IsCommitted, CommittedRecords, ChainsFit
<1> QED BY <1>2, <1>3, PublicationType

\* What a promotion is for: the epoch after the founder's.
LEMMA PromotionFits ==
    ASSUME TypeInv, TargetsFit, NEW n \in Replicas, Promote(n)
    PROVE  /\ Promoted(n)'
           /\ hostEpoch'[n] = 1
           /\ certificate'[n].primary.epoch = 0
<1>1. /\ certificate \in [Hosts -> Certificate \cup {NoCertificate}]
      /\ hostEpoch \in [Hosts -> Epochs] /\ n \in Hosts
  BY DEF TypeInv, TypeOK, DatabasesTypeOK, Replicas
<1>2. election[n].target.epoch = 0
  BY DEF Promote, TargetsFit
<1>3. certificate'[n] = [primary |-> election[n].target, bridges |-> election[n].granted]
  BY <1>1 DEF Promote, PromoteFromWitness
<1>4. Promoted(n)'
  BY <1>3, PromoteType, NullAssumption DEF Promoted, NoCertificate
<1>5. hostEpoch'[n] = 1
  BY <1>1, <1>2 DEF Promote, PromoteFromWitness
<1> QED BY <1>2, <1>3, <1>4, <1>5

LEMMA StepEpochInv == TypeInv /\ EpochInv /\ [Next]_vars => EpochInv'
<1> SUFFICES ASSUME TypeInv, EpochInv, [Next]_vars PROVE EpochInv'
  OBVIOUS
<1>0. HostsFit /\ RoundsFit /\ ChainsFit /\ MarksFit /\ TargetsFit /\ CertificatesFit
  BY DEF EpochInv
<1>1. ASSUME NEW h \in Hosts
      PROVE  EpochFits(hostEpoch[h])' /\ (Claims(h)' => Holds(h, hostEpoch[h])')
  <2>1. CASE hostEpoch'[h] = hostEpoch[h] /\ (Claims(h)' => Claims(h))
    <3>1. EpochFits(hostEpoch[h]) /\ (Claims(h) => Holds(h, hostEpoch[h]))
      BY <1>0 DEF HostsFit
    <3>2. EpochFits(hostEpoch[h]) => (SomeReplicaPromoted => SomeReplicaPromoted')
      BY PromotionStays DEF SomeReplicaPromoted
    <3>3. EpochFits(hostEpoch[h])'
      BY <2>1, <3>1, <3>2 DEF EpochFits
    <3>4. Holds(h, hostEpoch[h]) => Holds(h, hostEpoch[h])'
      BY <2>1, PromotionStays DEF Holds, Replicas
    <3> QED BY <2>1, <3>1, <3>3, <3>4
  <2>2. ASSUME ~Claims(h)', NEW b \in Bridges, NEW g \in Hosts,
               highWaterMarks[b][g] # NoRecord, hostEpoch'[h] = highWaterMarks[b][g].epoch
        PROVE  EpochFits(hostEpoch[h])' /\ (Claims(h)' => Holds(h, hostEpoch[h])')
    <3>1. EpochFits(highWaterMarks[b][g].epoch)
      BY <1>0, <2>2 DEF MarksFit, RecordFits
    <3>2. SomeReplicaPromoted => SomeReplicaPromoted'
      BY PromotionStays DEF SomeReplicaPromoted
    <3> QED BY <2>2, <3>1, <3>2 DEF EpochFits
  <2>3. CASE h \in Replicas /\ Promote(h)
    BY <1>0, <2>3, PromotionFits DEF EpochFits, Holds, SomeReplicaPromoted, Replicas
  <2> QED BY <2>1, <2>2, <2>3, AuthorityStep
<1>2. HostsFit'
  BY <1>1 DEF HostsFit
<1>3. ASSUME NEW h \in Hosts, round'[h] # NoRecord
      PROVE  RecordFits(h, round[h])'
  <2>1. PICK r : r = round'[h] /\ RecordFits(h, r)
    BY <1>0, <1>3, RoundStep, FreshRecordFits DEF RoundsFit
  <2>2. RecordFits(h, r)'
    BY <2>1, FitsStay
  <2> QED BY <2>1, <2>2 DEF RecordFits
<1>4. RoundsFit'
  BY <1>3 DEF RoundsFit
<1>5. ASSUME NEW h \in Hosts, NEW i \in 1..Len(chain'[h])
      PROVE  RecordFits(h, chain[h][i])'
  <2>1. chain[h] \in Seq(Record) /\ round[h] \in Record \cup {NoRecord}
    BY DEF TypeInv, TypeOK, DatabasesTypeOK, MemoryTypeOK
  <2>2. RecordFits(h, chain'[h][i])
    <3>1. CASE chain'[h] = chain[h]
      BY <1>0, <3>1 DEF ChainsFit
    <3>2. CASE round[h] # NoRecord /\ chain'[h] = Append(chain[h], round[h])
      <4>1. CASE i \in 1..Len(chain[h])
        <5>1. chain'[h][i] = chain[h][i]
          BY <2>1, <3>2, <4>1
        <5> QED BY <1>0, <4>1, <5>1 DEF ChainsFit
      <4>2. CASE i = Len(chain[h]) + 1
        <5>1. chain'[h][i] = round[h]
          BY <2>1, <3>2, <4>2
        <5> QED BY <1>0, <3>2, <5>1 DEF RoundsFit
      <4> QED BY <2>1, <3>2, <4>1, <4>2
    <3> QED BY <3>1, <3>2, ChainStep
  <2>3. PICK r : r = chain'[h][i] /\ RecordFits(h, r)
    BY <2>2
  <2>4. RecordFits(h, r)'
    BY <2>3, FitsStay
  <2> QED BY <2>3, <2>4 DEF RecordFits
<1>6. ChainsFit'
  BY <1>5 DEF ChainsFit
<1>7. ASSUME NEW b \in Bridges, NEW h \in Hosts, highWaterMarks'[b][h] # NoRecord
      PROVE  RecordFits(h, highWaterMarks[b][h])'
  <2>1. highWaterMarks \in [Bridges -> [Hosts -> Record \cup {NoRecord}]]
    BY DEF TypeInv, TypeOK, BridgesTypeOK
  <2>2. RecordFits(h, highWaterMarks'[b][h])
    <3>1. CASE highWaterMarks' = highWaterMarks
      BY <1>0, <1>7, <3>1 DEF MarksFit
    <3>2. ASSUME NEW g \in Hosts, NEW c \in Bridges, Register(g, c)
          PROVE  RecordFits(h, highWaterMarks'[b][h])
      <4>1. PICK r \in Publication(g, c) :
              highWaterMarks' = [highWaterMarks EXCEPT ![c][r.host] = r]
        BY <3>2 DEF Register, CommitRegistration
      <4>2. RecordFits(g, r) /\ r.host = g
        BY <1>0, <4>1, PublicationFits DEF RecordFits
      <4>3. CASE c = b /\ g = h
        BY <2>1, <4>1, <4>2, <4>3
      <4>4. CASE ~(c = b /\ g = h)
        <5>1. highWaterMarks'[b][h] = highWaterMarks[b][h]
          BY <2>1, <4>1, <4>2, <4>4
        <5> QED BY <1>0, <1>7, <5>1 DEF MarksFit
      <4> QED BY <4>3, <4>4
    <3> QED BY <3>1, <3>2, MarksStep
  <2>3. PICK r : r = highWaterMarks'[b][h] /\ RecordFits(h, r)
    BY <2>2
  <2>4. RecordFits(h, r)'
    BY <2>3, FitsStay
  <2> QED BY <2>3, <2>4 DEF RecordFits
<1>8. MarksFit'
  BY <1>7 DEF MarksFit
<1>9. TargetsFit'
  <2> SUFFICES ASSUME NEW n \in Replicas, election'[n].phase # "idle"
               PROVE  election'[n].target.epoch = 0
    BY DEF TargetsFit
  <2>1. CASE election[n].phase # "idle" /\ election'[n].target = election[n].target
    BY <1>0, <2>1 DEF TargetsFit
  <2>2. ASSUME NEW b \in Bridges, PrimaryHost \in listed[b],
               highWaterMarks[b][PrimaryHost].role = "primary",
               election'[n].target = highWaterMarks[b][PrimaryHost]
        PROVE  election'[n].target.epoch = 0
    <3>1. highWaterMarks[b][PrimaryHost] # NoRecord
      BY <2>2 DEF TypeInv, ListedHaveMarks
    <3> QED BY <1>0, <2>2, <3>1, PrimaryInHosts DEF MarksFit, RecordFits, Holds
  <2> QED BY <2>1, <2>2, TargetStep
<1>10. CertificatesFit'
  <2> SUFFICES ASSUME NEW n \in Replicas, Promoted(n)'
               PROVE  certificate'[n].primary.epoch = 0
    BY DEF CertificatesFit
  <2>1. CASE certificate'[n] = certificate[n]
    BY <1>0, <2>1 DEF CertificatesFit, Promoted
  <2>2. CASE Promote(n)
    BY <1>0, <2>2, PromotionFits
  <2> QED BY <2>1, <2>2, CertificateStep
<1> QED BY <1>2, <1>4, <1>6, <1>8, <1>9, <1>10 DEF EpochInv

LEMMA EpochInvHolds == Spec => [](TypeInv /\ VoteInv /\ EpochInv /\ ElectionSafety)
<1>1. Init => TypeInv /\ EpochInv
  BY InitTypeInv, InitEpochInv
<1>2. TypeInv /\ EpochInv /\ [Next]_vars => TypeInv' /\ EpochInv'
  BY StepTypeInv, StepEpochInv
<1>3. Spec => [](TypeInv /\ EpochInv)
  BY <1>1, <1>2, PTL DEF Spec
<1> QED BY <1>3, VoteInvHolds, FailoverElectsOne, PTL

\* All bridges that list a primary for an epoch list the same host, whoever restarted,
\* voted or caught up late: the founder for epoch 0, the elected one for epoch 1.
THEOREM BridgesAgree == Spec => []PrimaryAgreement
<1>1. ASSUME MarksFit, CertificatesFit, ElectionSafety PROVE PrimaryAgreement
  <2> SUFFICES ASSUME NEW b \in Bridges, NEW c \in Bridges,
                      NEW r \in Marks(b), NEW s \in Marks(c),
                      r.role = "primary", s.role = "primary", r.epoch = s.epoch
               PROVE  r.host = s.host
    BY DEF PrimaryAgreement
  <2>1. PICK g \in Hosts : r = highWaterMarks[b][g] /\ r # NoRecord
    BY DEF Marks
  <2>2. PICK h \in Hosts : s = highWaterMarks[c][h] /\ s # NoRecord
    BY DEF Marks
  <2>3. r.host = g /\ s.host = h /\ Holds(g, r.epoch) /\ Holds(h, r.epoch)
    BY <1>1, <2>1, <2>2 DEF MarksFit, RecordFits
  <2>4. CASE g = PrimaryHost \/ h = PrimaryHost
    BY <2>3, <2>4 DEF Holds
  <2>5. CASE g # PrimaryHost /\ h # PrimaryHost
    BY <1>1, <2>3, <2>5 DEF Holds, Replicas, CertificatesFit, ElectionSafety
  <2> QED BY <2>4, <2>5
<1>2. EpochInv /\ ElectionSafety => PrimaryAgreement
  BY <1>1 DEF EpochInv
<1> QED BY <1>2, EpochInvHolds, PTL

(***************************************************************************)
(* The refinement.  Leaders and Adopted are functions of the certificates  *)
(* and of the marks; a promotion is Elect, a registration that moves a     *)
(* bridge to a higher epoch is Adopt, and every other step stutters.       *)
(***************************************************************************)
LEMMA InitRefines == Init => Abstract!Init
<1> SUFFICES ASSUME Init PROVE Abstract!Init
  OBVIOUS
<1>1. Leaders = [e \in 0..MaxEpoch |-> IF e = 0 THEN {PrimaryHost} ELSE {}]
  BY DEF Init, Leaders, Promoted, Epochs, Replicas
<1>2. ASSUME NEW b \in Bridges
      PROVE  {e \in Epochs : \E m \in Marks(b) : e <= m.epoch} = {0}
  <2>1. Marks(b) = {FirstRecord}
    BY PrimaryInHosts, FirstRecordType, NullAssumption DEF Init, Marks, ByHost
  <2> QED BY <2>1, BoundsAssumption DEF FirstRecord, Epochs
<1>3. Adopted = [b \in Bridges |-> {0}]
  BY <1>2 DEF Adopted
<1> QED BY <1>1, <1>3 DEF Abstract!Init

\* Whom the epochs were given to, knowing that no replica is promoted beyond epoch 1.
Electees == {n \in Replicas : Promoted(n)}

Allotted == [e \in Epochs |-> IF e = 0 THEN {PrimaryHost} ELSE IF e = 1 THEN Electees ELSE {}]

LEMMA LeadersAllotted == CertificatesFit => Leaders = Allotted
<1> SUFFICES ASSUME CertificatesFit PROVE Leaders = Allotted
  OBVIOUS
<1>1. ASSUME NEW e \in Epochs, e # 0
      PROVE  {n \in Replicas : Promoted(n) /\ certificate[n].primary.epoch + 1 = e}
               = IF e = 1 THEN Electees ELSE {}
  <2>1. \A n \in Replicas : Promoted(n) => certificate[n].primary.epoch + 1 = 1
    BY DEF CertificatesFit
  <2> QED BY <2>1 DEF Electees
<1> QED BY <1>1 DEF Leaders, Allotted

LEMMA LeadersAllottedNext == CertificatesFit' => (Leaders = Allotted)'
BY LeadersAllotted, PTL

\* The leaders change only by a promotion, and then there were none but the founder.
LEMMA LeadersStep ==
    ASSUME TypeInv, CertificatesFit, CertificatesFit', ElectionSafety', [Next]_vars
    PROVE  \/ Leaders' = Leaders
           \/ \E n \in Replicas : /\ Promote(n)
                                  /\ Leaders[0] # {} /\ Leaders[1] = {}
                                  /\ Leaders' = [Leaders EXCEPT ![1] = {n}]
<1>1. 0 \in Epochs /\ 1 \in Epochs
  BY BoundsAssumption DEF Epochs
<1>2. (Leaders = Allotted)'
  BY LeadersAllottedNext
<1>3. Leaders = Allotted /\ Leaders' = Allotted'
  BY <1>2, LeadersAllotted
<1>4. Electees \subseteq Electees'
  BY PromotionStays DEF Electees
<1>5. \A n, m \in Electees' : n = m
  BY DEF ElectionSafety, CertificatesFit, Electees
<1>6. CASE Electees' = Electees
  BY <1>3, <1>6 DEF Allotted
<1>7. CASE Electees' # Electees
  <2>1. PICK n \in Electees' : n \notin Electees
    BY <1>4, <1>7
  <2>2. Electees' = {n} /\ Electees = {}
    BY <1>4, <1>5, <2>1
  <2>3. n \in Replicas /\ Promote(n)
    BY <2>1, CertificateStep DEF Promoted, Electees
  <2>4. Leaders[0] # {} /\ Leaders[1] = {} /\ Leaders' = [Leaders EXCEPT ![1] = {n}]
    BY <1>1, <1>3, <2>2 DEF Allotted
  <2> QED BY <2>3, <2>4
<1> QED BY <1>6, <1>7

LEMMA FittingEpochIsGiven ==
    ASSUME CertificatesFit, NEW e \in Epochs, EpochFits(e)
    PROVE  Leaders[e] # {}
BY LeadersAllotted DEF EpochFits, Allotted, Electees, SomeReplicaPromoted

\* A mark only moves to the same or to a later epoch.
LEMMA RegisterAdopts ==
    ASSUME TypeInv, EpochInv, NEW h \in Hosts, NEW b \in Bridges, Register(h, b)
    PROVE  \/ Adopted' = Adopted
           \/ \E e \in Epochs : /\ Leaders[e] # {}
                                /\ e \notin Adopted[b]
                                /\ Adopted' = [Adopted EXCEPT ![b] = @ \cup 0..e]
<1>1. PICK r \in Publication(h, b) :
        /\ ContiguousRecord(b, r)
        /\ highWaterMarks' = [highWaterMarks EXCEPT ![b][r.host] = r]
  BY DEF Register, ValidateRegistration, CommitRegistration
<1>2. highWaterMarks \in [Bridges -> [Hosts -> Record \cup {NoRecord}]]
  BY DEF TypeInv, TypeOK, BridgesTypeOK
<1>3. r \in Record /\ r # NoRecord /\ r.host = h /\ EpochFits(r.epoch) /\ r.epoch \in Epochs
  BY <1>1, PublicationType, PublicationFits, NullAssumption DEF EpochInv, RecordFits, Record
<1> DEFINE previous == highWaterMarks[b][h]
<1>4. previous # NoRecord => previous \in Record /\ previous.epoch <= r.epoch
  <2>1. previous # NoRecord => previous \in Record
    BY <1>2
  <2>2. previous # NoRecord => previous = r \/ r.epoch >= previous.epoch
    BY <1>1, <1>3 DEF ContiguousRecord
  <2> QED BY <1>3, <2>1, <2>2 DEF Record, Epochs
<1>5. \A c \in Bridges : c # b => Marks(c)' = Marks(c)
  BY <1>1, <1>2, <1>3 DEF Marks
<1>6. /\ r \in Marks(b)'
      /\ \A m \in Marks(b) : m \in Marks(b)' \/ m = previous
      /\ \A m \in Marks(b)' : m \in Marks(b) \/ m = r
  <2>1. \A g \in Hosts : highWaterMarks'[b][g] = IF g = h THEN r ELSE highWaterMarks[b][g]
    BY <1>1, <1>2, <1>3
  <2> QED BY <1>3, <2>1 DEF Marks
<1>7. \A m \in Marks(b) : m \in Record
  BY <1>2 DEF Marks
<1>8. ASSUME NEW e \in Epochs
      PROVE  (\E m \in Marks(b)' : e <= m.epoch) <=> e <= r.epoch \/ \E m \in Marks(b) : e <= m.epoch
  <2>1. ASSUME NEW m \in Marks(b), e <= m.epoch, m \notin Marks(b)'
        PROVE  e <= r.epoch
    BY <1>3, <1>4, <1>6, <1>7, <2>1 DEF Record, Epochs, Marks
  <2> QED BY <1>6, <2>1
<1>9. \A e \in Epochs : e \in 0..r.epoch <=> e <= r.epoch
  BY <1>3 DEF Epochs
<1>10. 0..r.epoch \subseteq Epochs
  BY <1>3, BoundsAssumption DEF Epochs
<1>11. Adopted'[b] = Adopted[b] \cup 0..r.epoch
  BY <1>8, <1>9, <1>10 DEF Adopted
<1>12. Adopted' = [Adopted EXCEPT ![b] = @ \cup 0..r.epoch]
  <2>1. \A c \in Bridges : c # b => Adopted'[c] = Adopted[c]
    BY <1>5 DEF Adopted
  <2> QED BY <1>11, <2>1 DEF Adopted
<1>13. CASE r.epoch \in Adopted[b]
  <2>1. 0..r.epoch \subseteq Adopted[b]
    <3>1. PICK m \in Marks(b) : r.epoch <= m.epoch
      BY <1>13 DEF Adopted
    <3>2. \A e \in 0..r.epoch : e <= m.epoch
      BY <1>3, <1>7, <3>1 DEF Record, Epochs
    <3> QED BY <1>10, <3>2 DEF Adopted
  <2>2. Adopted[b] \cup 0..r.epoch = Adopted[b]
    BY <2>1
  <2> QED BY <1>12, <2>2 DEF Adopted
<1>14. CASE r.epoch \notin Adopted[b]
  BY <1>3, <1>12, <1>14, FittingEpochIsGiven DEF EpochInv
<1> QED BY <1>13, <1>14

LEMMA NextRefines ==
    ASSUME TypeInv, EpochInv, CertificatesFit', ElectionSafety', [Next]_vars
    PROVE  [Abstract!Next]_(Abstract!vars)
<1>1. ASSUME NEW n \in Replicas, Promote(n),
             Leaders[0] # {}, Leaders[1] = {}, Leaders' = [Leaders EXCEPT ![1] = {n}]
      PROVE  Abstract!Next
  <2>1. Adopted' = Adopted
    BY <1>1 DEF Promote, bridgeVars, Adopted, Marks
  <2>2. Abstract!Elect(0, n)
    BY <1>1, <2>1 DEF Abstract!Elect
  <2>3. 0 \in 0..(MaxEpoch - 1) /\ n \in Hosts
    BY BoundsAssumption DEF Replicas
  <2> QED BY <2>2, <2>3 DEF Abstract!Next
<1>2. CASE Leaders' = Leaders
  <2>1. CASE highWaterMarks' = highWaterMarks
    <3>1. Adopted' = Adopted
      BY <2>1 DEF Adopted, Marks
    <3> QED BY <1>2, <3>1 DEF Abstract!vars
  <2>2. ASSUME NEW h \in Hosts, NEW b \in Bridges, Register(h, b)
        PROVE  [Abstract!Next]_(Abstract!vars)
    <3>1. CASE Adopted' = Adopted
      BY <1>2, <3>1 DEF Abstract!vars
    <3>2. ASSUME NEW e \in Epochs, Leaders[e] # {}, e \notin Adopted[b],
                 Adopted' = [Adopted EXCEPT ![b] = @ \cup 0..e]
          PROVE  Abstract!Next
      BY <1>2, <3>2 DEF Abstract!Next, Abstract!Adopt, Epochs
    <3> QED BY <2>2, <3>1, <3>2, RegisterAdopts
  <2> QED BY <2>1, <2>2, MarksStep
<1> QED BY <1>1, <1>2, LeadersStep DEF EpochInv

\* Failover implements the election of epochs: the initial states are initial states of it,
\* and every step, of whatever host or bridge and with whatever fault, is one of its
\* steps or a stutter.
THEOREM FailoverImplementsElection == Spec => ImplementsElection
<1>1. TypeInv /\ EpochInv /\ EpochInv' /\ ElectionSafety' /\ [Next]_vars
        => [Abstract!Next]_(Abstract!vars)
  BY NextRefines DEF EpochInv
<1> QED BY <1>1, InitRefines, EpochInvHolds, PTL DEF Spec, ImplementsElection, Abstract!Spec

(***************************************************************************)
(* Who may write, proved of HostFailover for every set of hosts, bridges   *)
(* and faults.                                                             *)
(*                                                                         *)
(* The argument: a bridge that lists a record of a successor granted it a  *)
(* vote, and could only do so once it had unbound the founder; from then   *)
(* on it refuses the founder's records of epoch 0, so it never binds the   *)
(* founder again.  A promoted replica counts a bridge as confirming it     *)
(* only when the bridge lists its record of epoch 1.  Hence the bridges    *)
(* that confirm the founder and those that confirm a successor are         *)
(* disjoint, and they cannot both be a majority.                           *)
(***************************************************************************)

\* The records of h that the host itself or a bridge holds.
Known(h) ==
    ({round[h]} \cup CommittedRecords(h) \cup {highWaterMarks[b][h] : b \in Bridges})
        \ {NoRecord}

\* A host that counts a socket as bound has it bound at the bridge.
EndsAgree ==
    \A h \in Hosts, b \in Bridges : link[h][b] = "bound" => presence[b][h] = "bound"

\* A running host writes or may resume exactly when its database says writer.
MayWrite ==
    \A h \in Hosts :
        /\ writer[h] \/ resumeEligible[h] <=> up[h] /\ writerState[h] = "writer"
        /\ ~(writer[h] /\ resumeEligible[h])

ElectorsAreUp == \A n \in Replicas : election[n].phase # "idle" => up[n]

\* The place a record has in its host's chain.
ChainNumbered(h) == \A i \in 1..Len(chain[h]) : chain[h][i].seq = i

RoundNumbered(h) ==
    round[h] # NoRecord => IsCommitted(h, round[h]) \/ round[h].seq = Len(chain[h]) + 1

KnownNumbered(h) ==
    \A r \in Known(h) : r.seq <= Len(chain[h]) + 1 /\ r.epoch <= hostEpoch[h]

Numbered == \A h \in Hosts : ChainNumbered(h) /\ RoundNumbered(h) /\ KnownNumbered(h)

\* A promoted replica that was fenced signs with the replica role, for good and after
\* everything it signed as a primary.
Demoted(r) == r.role = "replica" /\ r.epoch = 1

OfficeHeld(n) == hostEpoch[n] = 1 => Promoted(n) /\ writerState[n] # "none"

OfficeEnds(n) ==
    \A r \in Known(n) : Demoted(r) =>
        /\ writerState[n] = "fenced"
        /\ \A s \in Known(n) : s.role = "primary" => s.seq <= r.seq

OfficeOrder == \A n \in Replicas : OfficeHeld(n) /\ OfficeEnds(n)

\* What a replica that holds the office publishes, and what it counts as an ACK, is of
\* its own epoch.
ListedAt(n, b) == highWaterMarks[b][n] # NoRecord /\ highWaterMarks[b][n].epoch = 1

RoundOfOffice(n) == writerState[n] = "writer" /\ round[n] # NoRecord => round[n].epoch = 1

AcksOfOffice(n) ==
    writerState[n] = "writer" => \A b \in acks[n] \cup acked[n] : ListedAt(n, b)

AcksMark == \A n \in Replicas : RoundOfOffice(n) /\ AcksOfOffice(n)

FounderMarked == \A b \in Bridges : highWaterMarks[b][PrimaryHost] # NoRecord

\* Whoever b voted against is not bound to b, unless it has published again since.
FounderSilent(b, p) ==
    \/ highWaterMarks[b][PrimaryHost].seq > p.seq
    \/ /\ highWaterMarks[b][PrimaryHost] = p
       /\ presence[b][PrimaryHost] \in {"absent", "unknown"}

VotedAgainst ==
    \A b \in Bridges :
        promotionVotes[b][1] # NoVote => FounderSilent(b, promotionVotes[b][1].primary)

\* A bridge that lists a successor does not bind the founder, until the founder has
\* fenced itself.
ListsSuccessor(b) ==
    \E n \in Replicas :
        highWaterMarks[b][n] # NoRecord /\ highWaterMarks[b][n].role = "primary"

Superseded ==
    \A b \in Bridges :
        ListsSuccessor(b) /\ hostEpoch[PrimaryHost] = 0 => link[PrimaryHost][b] # "bound"

OfficeInv == MayWrite /\ ElectorsAreUp /\ Numbered /\ OfficeOrder

AuthorityInv ==
    OfficeInv /\ EndsAgree /\ AcksMark /\ FounderMarked /\ VotedAgainst /\ Superseded

-----------------------------------------------------------------------------
\* The marks of a bridge, and what a registration does to them.
LEMMA MarkType ==
    ASSUME TypeInv, NEW b \in Bridges, NEW h \in Hosts, highWaterMarks[b][h] # NoRecord
    PROVE  /\ highWaterMarks[b][h] \in Record
           /\ highWaterMarks[b][h] \in Known(h)
           /\ highWaterMarks[b][h] \in Marks(b)
BY DEF TypeInv, TypeOK, BridgesTypeOK, Known, Marks

LEMMA KnownType ==
    ASSUME TypeInv, EpochInv, NEW h \in Hosts, NEW r \in Known(h)
    PROVE  r \in Record /\ RecordFits(h, r)
<1>1. /\ round[h] \in Record \cup {NoRecord} /\ chain[h] \in Seq(Record)
      /\ \A b \in Bridges : highWaterMarks[b][h] \in Record \cup {NoRecord}
  BY DEF TypeInv, TypeOK, MemoryTypeOK, DatabasesTypeOK, BridgesTypeOK
<1>2. CASE r = round[h]
  BY <1>1, <1>2 DEF Known, EpochInv, RoundsFit
<1>3. ASSUME NEW i \in 1..Len(chain[h]), r = chain[h][i]
      PROVE  r \in Record /\ RecordFits(h, r)
  BY <1>1, <1>3 DEF EpochInv, ChainsFit
<1>4. ASSUME NEW b \in Bridges, r = highWaterMarks[b][h]
      PROVE  r \in Record /\ RecordFits(h, r)
  BY <1>1, <1>4 DEF Known, EpochInv, MarksFit
<1> QED BY <1>2, <1>3, <1>4 DEF Known, CommittedRecords

\* A registration publishes a record of the host that is known already; when the bridge
\* has a mark, the next one.
LEMMA PublicationKnown ==
    ASSUME TypeInv, EpochInv, Numbered, NEW h \in Hosts, NEW b \in Bridges,
           NEW r \in Publication(h, b)
    PROVE  /\ r \in Known(h) /\ r \in Record /\ r.host = h
           /\ r.seq = IF highWaterMarks[b][h] = NoRecord THEN 1
                      ELSE highWaterMarks[b][h].seq + 1
<1>1. r \in Record /\ (IsCommitted(h, r) \/ r = round[h])
  BY PublicationType
<1>2. r \in Known(h)
  BY <1>1, NullAssumption DEF Known, IsCommitted
<1>3. r.host = h
  BY PublicationFits DEF EpochInv, RecordFits
<1> DEFINE mark == highWaterMarks[b][h]
           next == IF mark = NoRecord THEN 1 ELSE mark.seq + 1
<1>4. next \in Nat /\ next >= 1
  BY MarkType DEF Record
<1>5. r.seq = next
  <2>1. CASE next <= Len(chain[h])
    <3>1. chain[h] \in Seq(Record)
      BY DEF TypeInv, TypeOK, DatabasesTypeOK
    <3>2. next \in 1..Len(chain[h]) /\ r = chain[h][next]
      BY <1>4, <2>1, <3>1 DEF Publication
    <3> QED BY <3>2 DEF Numbered, ChainNumbered
  <2>2. CASE ~(next <= Len(chain[h]))
    BY <2>2 DEF Publication
  <2> QED BY <2>1, <2>2
<1> QED BY <1>1, <1>2, <1>3, <1>5

\* What a step does to the mark bridge b has of host h.
LEMMA MarkStep ==
    ASSUME TypeInv, EpochInv, Numbered, [Next]_vars, NEW h \in Hosts, NEW b \in Bridges
    PROVE  \/ highWaterMarks'[b][h] = highWaterMarks[b][h]
           \/ /\ Register(h, b)
              /\ highWaterMarks'[b][h] \in Publication(h, b)
              /\ ValidateRegistration(b, highWaterMarks'[b][h],
                                      SentCertificate(h, highWaterMarks'[b][h]))
<1>1. CASE highWaterMarks' = highWaterMarks
  BY <1>1
<1>2. ASSUME NEW g \in Hosts, NEW c \in Bridges, Register(g, c)
      PROVE  \/ highWaterMarks'[b][h] = highWaterMarks[b][h]
             \/ /\ Register(h, b)
                /\ highWaterMarks'[b][h] \in Publication(h, b)
                /\ ValidateRegistration(b, highWaterMarks'[b][h],
                                        SentCertificate(h, highWaterMarks'[b][h]))
  <2>1. PICK r \in Publication(g, c) :
          /\ ValidateRegistration(c, r, SentCertificate(g, r))
          /\ highWaterMarks' = [highWaterMarks EXCEPT ![c][r.host] = r]
    BY <1>2 DEF Register, CommitRegistration
  <2>2. r.host = g
    BY <2>1, PublicationKnown
  <2>3. highWaterMarks \in [Bridges -> [Hosts -> Record \cup {NoRecord}]]
    BY DEF TypeInv, TypeOK, BridgesTypeOK
  <2>4. CASE c = b /\ g = h
    <3>1. highWaterMarks'[b][h] = r
      BY <2>1, <2>2, <2>3, <2>4
    <3> QED BY <1>2, <2>1, <2>4, <3>1
  <2>5. CASE ~(c = b /\ g = h)
    BY <2>1, <2>2, <2>3, <2>5
  <2> QED BY <2>4, <2>5
<1> QED BY <1>1, <1>2, MarksStep

\* A mark is never lost, and never goes back.
LEMMA MarksAdvance ==
    ASSUME TypeInv, EpochInv, Numbered, [Next]_vars, NEW h \in Hosts, NEW b \in Bridges,
           highWaterMarks[b][h] # NoRecord
    PROVE  /\ highWaterMarks'[b][h] # NoRecord
           /\ \/ highWaterMarks'[b][h] = highWaterMarks[b][h]
              \/ /\ highWaterMarks'[b][h].seq = highWaterMarks[b][h].seq + 1
                 /\ highWaterMarks'[b][h].epoch >= highWaterMarks[b][h].epoch
<1>1. CASE highWaterMarks'[b][h] = highWaterMarks[b][h]
  BY <1>1
<1>2. CASE /\ highWaterMarks'[b][h] \in Publication(h, b)
           /\ ValidateRegistration(b, highWaterMarks'[b][h],
                                   SentCertificate(h, highWaterMarks'[b][h]))
  <2>1. PICK r \in Publication(h, b) :
          r = highWaterMarks'[b][h] /\ ContiguousRecord(b, r)
    BY <1>2 DEF ValidateRegistration
  <2>2. r \in Record /\ r.host = h /\ r.seq = highWaterMarks[b][h].seq + 1
    BY <2>1, PublicationKnown
  <2>3. r = highWaterMarks[b][h] \/ r.epoch >= highWaterMarks[b][h].epoch
    BY <2>1, <2>2 DEF ContiguousRecord
  <2>4. highWaterMarks[b][h] \in Record
    BY MarkType
  <2>5. r # highWaterMarks[b][h]
    BY <2>2, <2>4 DEF Record
  <2> QED BY <2>1, <2>2, <2>3, <2>5, NullAssumption
<1> QED BY <1>1, <1>2, MarkStep

-----------------------------------------------------------------------------
(***************************************************************************)
(* What a step does to the authority of a host: its process, its writer    *)
(* flags, its writer state and its epoch.                                  *)
(***************************************************************************)
SameEpoch(h) == hostEpoch'[h] = hostEpoch[h]
SameState(h) == writerState'[h] = writerState[h] /\ SameEpoch(h)
SameFlags(h) == writer'[h] = writer[h] /\ resumeEligible'[h] = resumeEligible[h]
NoFlags(h)   == ~writer'[h] /\ ~resumeEligible'[h]
SameUp(h)    == up'[h] = up[h]

StaysAs(h) == SameUp(h) /\ SameFlags(h) /\ SameState(h)

Resumes(h) ==
    /\ resumeEligible[h] /\ writer'[h] /\ ~resumeEligible'[h]
    /\ writerState'[h] = "writer" /\ SameUp(h) /\ SameEpoch(h)

IsFenced(h) ==
    /\ writer[h] /\ ~writer'[h] /\ resumeEligible'[h] = resumeEligible[h]
    /\ writerState'[h] = "fenced" /\ SameUp(h) /\ SameEpoch(h)

Stops(h) == ~up'[h] /\ NoFlags(h) /\ SameState(h)

Starts(h) ==
    /\ ~up[h] /\ up'[h] /\ writer'[h] = writer[h]
    /\ resumeEligible'[h] = (writerState[h] = "writer") /\ SameState(h)

\* Only the founder learns of a successor: a replica has committed primary records of
\* epoch 1 only, and nothing is of a later epoch.
IsSucceeded(h) ==
    /\ h = PrimaryHost
    /\ NoFlags(h) /\ writerState'[h] = "fenced" /\ SameUp(h)
    /\ hostEpoch'[h] = hostEpoch[h] + 1

IsElected(h) ==
    /\ h \in Replicas /\ Promote(h)
    /\ writer'[h] /\ ~resumeEligible'[h] /\ writerState'[h] = "writer" /\ SameUp(h)
    /\ hostEpoch[h] = 0 /\ hostEpoch'[h] = 1

OfficeChange(h) ==
    \/ StaysAs(h) \/ Resumes(h) \/ IsFenced(h) \/ Stops(h) \/ Starts(h)
    \/ IsSucceeded(h) \/ IsElected(h)

LEMMA UnchangedOffice ==
    ASSUME UNCHANGED <<up, writer, resumeEligible, writerState, hostEpoch>>, NEW h \in Hosts
    PROVE  OfficeChange(h)
BY DEF OfficeChange, StaysAs, SameUp, SameFlags, SameState, SameEpoch

LEMMA ObservedOffice ==
    ASSUME TypeInv, EpochInv, NEW g \in Hosts, NEW b \in Bridges, ObserveHigher(g, b),
           NEW h \in Hosts
    PROVE  OfficeChange(h)
<1>0. /\ hostEpoch \in [Hosts -> Epochs] /\ up \in [Hosts -> BOOLEAN]
      /\ writerState \in [Hosts -> {"none", "writer", "fenced"}]
      /\ writer \in [Hosts -> BOOLEAN] /\ resumeEligible \in [Hosts -> BOOLEAN]
      /\ certificate \in [Hosts -> Certificate \cup {NoCertificate}]
  BY DEF TypeInv, TypeOK, DatabasesTypeOK, MemoryTypeOK
<1>1. PICK k \in listed[b] \ {g} : ObserveHigherEpoch(g, highWaterMarks[b][k], certificate[k])
  BY DEF ObserveHigher
<1>2. k \in Hosts /\ k # g
  BY <1>1 DEF TypeInv, TypeOK, BridgesTypeOK
<1>3. g = PrimaryHost
  <2> SUFFICES ASSUME g # PrimaryHost PROVE FALSE
    OBVIOUS
  <2> DEFINE p == certificate[k].primary
  <2>1. IsLastPrimaryRecord(g, p)
    BY <1>1 DEF ObserveHigherEpoch
  <2>2. PICK i \in 1..Len(chain[g]) : chain[g][i] = p
    BY <2>1 DEF IsLastPrimaryRecord, IsCommitted, CommittedRecords
  <2>3. RecordFits(g, p) /\ p.role = "primary"
    BY <2>1, <2>2 DEF EpochInv, ChainsFit, IsLastPrimaryRecord
  <2>4. p.epoch = 1 /\ hostEpoch[g] = 1
    BY <2>1, <2>3 DEF RecordFits, Holds, IsLastPrimaryRecord
  <2>5. highWaterMarks[b][k].epoch = 2
    BY <1>1, <2>4 DEF ObserveHigherEpoch
  <2>6. highWaterMarks[b][k] # NoRecord
    BY <1>1 DEF TypeInv, ListedHaveMarks
  <2> QED BY <1>2, <2>5, <2>6 DEF EpochInv, MarksFit, RecordFits, EpochFits
<1>4. CASE h = g
  BY <1>0, <1>1, <1>3, <1>4
  DEF ObserveHigherEpoch, OfficeChange, IsSucceeded, NoFlags, SameUp
<1>5. CASE h # g
  BY <1>0, <1>1, <1>5
  DEF ObserveHigherEpoch, OfficeChange, StaysAs, SameUp, SameFlags, SameState, SameEpoch
<1> QED BY <1>4, <1>5

LEMMA AcknowledgedOffice ==
    ASSUME TypeInv, NEW g \in Hosts, NEW b \in Bridges, AcknowledgeRound(g, b), NEW h \in Hosts
    PROVE  OfficeChange(h)
<1>0. /\ writerState \in [Hosts -> {"none", "writer", "fenced"}]
      /\ writer \in [Hosts -> BOOLEAN] /\ resumeEligible \in [Hosts -> BOOLEAN]
  BY DEF TypeInv, TypeOK, DatabasesTypeOK, MemoryTypeOK
<1>1. up' = up /\ hostEpoch' = hostEpoch
  BY DEF AcknowledgeRound
<1>2. CASE h # g
  <2>1. /\ writer'[h] = writer[h] /\ resumeEligible'[h] = resumeEligible[h]
        /\ writerState'[h] = writerState[h]
    BY <1>0, <1>2 DEF AcknowledgeRound
  <2> QED BY <1>1, <2>1 DEF OfficeChange, StaysAs, SameUp, SameFlags, SameState, SameEpoch
<1>3. CASE h = g
  <2> DEFINE resumes == /\ resumeEligible[h] /\ pending[h]
                        /\ round[h].role = "primary" /\ round[h].epoch = hostEpoch[h]
                        /\ HasStrictQuorum(acked[h] \cup {b})
  <2>1. /\ writer' = [writer EXCEPT ![h] = @ \/ resumes]
        /\ resumeEligible' = [resumeEligible EXCEPT ![h] = @ /\ ~resumes]
        /\ writerState' = IF resumes THEN [writerState EXCEPT ![h] = "writer"]
                                     ELSE writerState
    BY <1>3 DEF AcknowledgeRound
  <2>2. resumes => resumeEligible[h]
    OBVIOUS
  <2> HIDE DEF resumes
  <2>3. CASE resumes
    <3>1. writer'[h] /\ ~resumeEligible'[h] /\ writerState'[h] = "writer"
      BY <1>0, <2>1, <2>3
    <3> QED BY <1>1, <2>2, <2>3, <3>1 DEF OfficeChange, Resumes, SameUp, SameEpoch
  <2>4. CASE ~resumes
    <3>1. writerState' = writerState
      BY <2>1, <2>4
    <3>2. writer'[h] = writer[h]
      BY <1>0, <2>1, <2>4, Zenon
    <3>3. resumeEligible'[h] = resumeEligible[h]
      BY <1>0, <2>1, <2>4, Zenon
    <3> QED BY <1>1, <3>1, <3>2, <3>3
            DEF OfficeChange, StaysAs, SameUp, SameFlags, SameState, SameEpoch
  <2> QED BY <2>3, <2>4
<1> QED BY <1>2, <1>3

LEMMA ElectedOffice ==
    ASSUME TypeInv, EpochInv, NEW n \in Replicas, Promote(n), NEW h \in Hosts
    PROVE  OfficeChange(h)
<1>0. /\ hostEpoch \in [Hosts -> Epochs] /\ up \in [Hosts -> BOOLEAN] /\ n \in Hosts
      /\ writerState \in [Hosts -> {"none", "writer", "fenced"}]
      /\ writer \in [Hosts -> BOOLEAN] /\ resumeEligible \in [Hosts -> BOOLEAN]
  BY DEF TypeInv, TypeOK, DatabasesTypeOK, MemoryTypeOK, Replicas
<1>1. election[n].target.epoch = 0
  BY DEF Promote, EpochInv, TargetsFit
<1>2. CASE h = n
  <2>1. /\ writer' = [writer EXCEPT ![h] = TRUE]
        /\ resumeEligible' = [resumeEligible EXCEPT ![h] = FALSE]
        /\ writerState' = [writerState EXCEPT ![h] = "writer"]
        /\ up' = up
        /\ hostEpoch[h] = 0 /\ hostEpoch' = [hostEpoch EXCEPT ![h] = 0 + 1]
    BY <1>1, <1>2 DEF Promote, PromoteFromWitness
  <2>2. /\ writer'[h] /\ ~resumeEligible'[h] /\ writerState'[h] = "writer" /\ up'[h] = up[h]
        /\ hostEpoch[h] = 0 /\ hostEpoch'[h] = 1
    BY <1>0, <1>2, <2>1
  <2> QED BY <1>2, <2>2 DEF OfficeChange, IsElected, SameUp
<1>3. CASE h # n
  BY <1>0, <1>3
  DEF Promote, PromoteFromWitness, OfficeChange, StaysAs, SameUp, SameFlags, SameState, SameEpoch
<1> QED BY <1>2, <1>3

LEMMA HostStepOffice ==
    ASSUME TypeInv, NEW g \in Hosts, HostStep(g), NEW h \in Hosts
    PROVE  OfficeChange(h)
<1>0. /\ up \in [Hosts -> BOOLEAN]
      /\ writerState \in [Hosts -> {"none", "writer", "fenced"}]
      /\ writer \in [Hosts -> BOOLEAN] /\ resumeEligible \in [Hosts -> BOOLEAN]
  BY DEF TypeInv, TypeOK, DatabasesTypeOK, MemoryTypeOK
<1> USE DEF OfficeChange, StaysAs, SameUp, SameFlags, SameState, SameEpoch
<1>1. CASE SignRound(g) \/ Heartbeat(g)
  BY <1>1, UnchangedOffice DEF SignRound, Heartbeat
<1>2. CASE Fence(g)
  BY <1>0, <1>2 DEF Fence, FencePrimaryWriter, IsFenced
<1>3. CASE Crash(g)
  BY <1>0, <1>3 DEF Crash, HostCrash, databaseVars, Stops, NoFlags
<1>4. CASE Boot(g)
  <2>1. /\ ~up[g] /\ up' = [up EXCEPT ![g] = TRUE]
        /\ resumeEligible' = [resumeEligible EXCEPT ![g] = (writerState[g] = "writer")]
        /\ hostEpoch' = hostEpoch /\ writerState' = writerState /\ writer' = writer
    BY <1>4 DEF Boot, HostBoot, databaseVars
  <2>2. CASE h # g
    BY <1>0, <2>1, <2>2
  <2>3. CASE h = g
    <3>1. resumeEligible'[h] = (writerState[h] = "writer")
      BY <1>0, <2>1, <2>3, Zenon
    <3> QED BY <1>0, <2>1, <2>3, <3>1 DEF Starts
  <2> QED BY <2>2, <2>3
<1> QED BY <1>1, <1>2, <1>3, <1>4 DEF HostStep

LEMMA OfficeStep ==
    ASSUME TypeInv, EpochInv, [Next]_vars, NEW h \in Hosts
    PROVE  OfficeChange(h)
<1>0. UNCHANGED hostVars => OfficeChange(h)
  BY UnchangedOffice DEF hostVars, databaseVars, memoryVars
<1>1. ASSUME NEW g \in Hosts, NEW b \in Bridges, HostBridgeStep(g, b) PROVE OfficeChange(h)
  <2>1. CASE ReceiveAck(g, b)
    BY <1>0, <2>1, AcknowledgedOffice DEF ReceiveAck
  <2>2. CASE ObserveHigher(g, b)
    BY <2>2, ObservedOffice
  <2>3. CASE HostSeesClose(g, b)
    BY <2>3, UnchangedOffice DEF HostSeesClose, databaseVars
  <2>4. CASE ~ReceiveAck(g, b) /\ ~ObserveHigher(g, b) /\ ~HostSeesClose(g, b)
    BY <1>0, <1>1, <2>4 DEF HostBridgeStep, Connect, BridgeSeesClose, Register, GraceElapses, Expire
  <2> QED BY <2>1, <2>2, <2>3, <2>4
<1>2. ASSUME NEW g \in Hosts, HostStep(g) PROVE OfficeChange(h)
  BY <1>2, HostStepOffice
<1>3. ASSUME NEW n \in Replicas, NEW b \in Bridges, AskStep(n, b) PROVE OfficeChange(h)
  BY <1>0, <1>3 DEF AskStep, WitnessAbsent, WitnessOnline, WitnessUnavailable, ClaimGranted,
     ClaimUnavailable, ClaimConflict, SetElection
<1>4. ASSUME NEW n \in Replicas, ElectionStep(n) PROVE OfficeChange(h)
  <2>1. CASE Promote(n)
    BY <2>1, ElectedOffice
  <2>2. CASE ~Promote(n)
    BY <1>0, <1>4, <2>2 DEF ElectionStep, StartElection, BeginClaims, AbandonElection, SetElection
  <2> QED BY <2>1, <2>2
<1>5. ASSUME NEW b \in Bridges, CrashBridge(b) PROVE OfficeChange(h)
  BY <1>0, <1>5 DEF CrashBridge
<1>6. CASE UNCHANGED vars
  BY <1>0, <1>6 DEF vars
<1> QED BY <1>1, <1>2, <1>3, <1>4, <1>5, <1>6 DEF Next

\* An attempt belongs to a process that runs.
LEMMA StepElectorsAreUp ==
    ASSUME TypeInv, ElectorsAreUp, [Next]_vars
    PROVE  ElectorsAreUp'
<1>0. /\ up \in [Hosts -> BOOLEAN] /\ election \in [Replicas -> Election]
      /\ NoElection.phase = "idle" /\ Replicas \subseteq Hosts
  BY PrimaryInHosts DEF TypeInv, TypeOK, MemoryTypeOK, CoordinatorsTypeOK, NoElection
<1>1. ASSUME UNCHANGED up, UNCHANGED election PROVE ElectorsAreUp'
  BY <1>1 DEF ElectorsAreUp
<1>2. ASSUME NEW h \in Hosts, NEW b \in Bridges, HostBridgeStep(h, b) PROVE ElectorsAreUp'
  <2>1. UNCHANGED up /\ UNCHANGED election
    BY <1>2 DEF HostBridgeStep, Connect, HostSeesClose, BridgeSeesClose, Register, ReceiveAck,
       AcknowledgeRound, ObserveHigher, ObserveHigherEpoch, GraceElapses, Expire, hostVars,
       memoryVars, coordinatorVars
  <2> QED BY <1>1, <2>1
<1>3. ASSUME NEW h \in Hosts, HostStep(h) PROVE ElectorsAreUp'
  <2>1. CASE Crash(h)
    BY <1>0, <2>1 DEF Crash, HostCrash, ElectorsAreUp
  <2>2. CASE Boot(h)
    BY <1>0, <2>2 DEF Boot, HostBoot, coordinatorVars, ElectorsAreUp
  <2>3. CASE ~Crash(h) /\ ~Boot(h)
    <3>1. UNCHANGED up /\ UNCHANGED election
      BY <1>3, <2>3 DEF HostStep, SignRound, Heartbeat, Fence, FencePrimaryWriter, coordinatorVars
    <3> QED BY <1>1, <3>1
  <2> QED BY <2>1, <2>2, <2>3
<1>4. ASSUME NEW n \in Replicas, NEW e, election' = [election EXCEPT ![n] = e], UNCHANGED up,
             e.phase # "idle" => up[n]
      PROVE  ElectorsAreUp'
  BY <1>0, <1>4 DEF ElectorsAreUp
<1>5. ASSUME NEW n \in Replicas, NEW b \in Bridges, AskStep(n, b) PROVE ElectorsAreUp'
  <2>1. /\ election[n].phase # "idle"
        /\ UNCHANGED up
        /\ \E e : election' = [election EXCEPT ![n] = e]
    BY <1>5 DEF AskStep, WitnessAbsent, WitnessOnline, WitnessUnavailable, ClaimGranted,
       ClaimUnavailable, ClaimConflict, SetElection, Awaited, NextClaim, hostVars, memoryVars
  <2>2. up[n]
    BY <2>1 DEF ElectorsAreUp
  <2> QED BY <1>4, <2>1, <2>2
<1>6. ASSUME NEW n \in Replicas, ElectionStep(n) PROVE ElectorsAreUp'
  <2>1. /\ election[n].phase # "idle" \/ up[n]
        /\ UNCHANGED up
        /\ \E e : election' = [election EXCEPT ![n] = e]
    BY <1>6 DEF ElectionStep, StartElection, BeginClaims, Promote, PromoteFromWitness,
       AbandonElection, SetElection, hostVars, memoryVars
  <2>2. up[n]
    BY <2>1 DEF ElectorsAreUp
  <2> QED BY <1>4, <2>1, <2>2
<1>7. ASSUME NEW b \in Bridges, CrashBridge(b) PROVE ElectorsAreUp'
  BY <1>1, <1>7 DEF CrashBridge, hostVars, memoryVars
<1>8. CASE UNCHANGED vars
  BY <1>1, <1>8 DEF vars, hostVars, memoryVars, coordinatorVars
<1> QED BY <1>2, <1>3, <1>5, <1>6, <1>7, <1>8 DEF Next

\* The flags of a host follow its writer state.
LEMMA StepMayWrite ==
    ASSUME TypeInv, EpochInv, MayWrite, ElectorsAreUp, [Next]_vars
    PROVE  MayWrite'
<1> SUFFICES ASSUME NEW h \in Hosts
             PROVE  /\ writer'[h] \/ resumeEligible'[h] <=> up'[h] /\ writerState'[h] = "writer"
                    /\ ~(writer'[h] /\ resumeEligible'[h])
  BY DEF MayWrite
<1>1. /\ writer[h] \/ resumeEligible[h] <=> up[h] /\ writerState[h] = "writer"
      /\ ~(writer[h] /\ resumeEligible[h])
  BY DEF MayWrite
<1>2. IsElected(h) => up[h]
  BY DEF IsElected, Promote, ElectorsAreUp
<1> USE <1>1 DEF SameUp, SameFlags, SameState, NoFlags
<1>3. CASE StaysAs(h)
  BY <1>3 DEF StaysAs
<1>4. CASE Resumes(h)
  BY <1>4 DEF Resumes
<1>5. CASE IsFenced(h)
  BY <1>5 DEF IsFenced
<1>6. CASE Stops(h)
  BY <1>6 DEF Stops
<1>7. CASE Starts(h)
  <2>1. ~writer[h] /\ ~writer'[h] /\ up'[h] /\ writerState'[h] = writerState[h]
    BY <1>7 DEF Starts
  <2>2. resumeEligible'[h] <=> writerState[h] = "writer"
    BY <1>7 DEF Starts
  <2> QED BY <2>1, <2>2
<1>8. CASE IsSucceeded(h)
  BY <1>8 DEF IsSucceeded
<1>9. CASE IsElected(h)
  BY <1>2, <1>9 DEF IsElected
<1> QED BY <1>3, <1>4, <1>5, <1>6, <1>7, <1>8, <1>9, OfficeStep DEF OfficeChange

-----------------------------------------------------------------------------
(***************************************************************************)
(* The records of a host: only a fresh one, the next of its chain, is new. *)
(***************************************************************************)
SignsFresh(h) ==
    /\ up[h] /\ round'[h] = FreshRecord(h) /\ chain'[h] = chain[h] /\ StaysAs(h)
    /\ ~(h \in Replicas /\ Promote(h))

LEMMA SigningStep ==
    ASSUME TypeInv, NEW h \in Hosts, SignRound(h) \/ Heartbeat(h), round'[h] = FreshRecord(h)
    PROVE  SignsFresh(h)
<1>1. up[h] /\ round[h] \in Record \cup {NoRecord}
  BY DEF SignRound, Heartbeat, TypeInv, TypeOK, MemoryTypeOK
<1>2. UNCHANGED <<hostEpoch, writerState, chain, certificate, up, writer, resumeEligible>>
  BY DEF SignRound, Heartbeat
<1>3. ~(h \in Replicas /\ Promote(h))
  <2> SUFFICES ASSUME h \in Replicas, Promote(h) PROVE FALSE
    OBVIOUS
  <2>1. round' = [round EXCEPT ![h] = NoRecord]
    BY DEF Promote, PromoteFromWitness
  <2>2. round'[h] = NoRecord
    BY <2>1 DEF TypeInv, TypeOK, MemoryTypeOK
  <2>3. FreshRecord(h) \in Record
    BY FreshRecordType DEF TypeInv, TypeOK
  <2> QED BY <2>2, <2>3, NullAssumption
<1> QED BY <1>1, <1>2, <1>3 DEF SignsFresh, StaysAs, SameUp, SameFlags, SameState, SameEpoch

LEMMA RecordsStep ==
    ASSUME TypeInv, EpochInv, Numbered, [Next]_vars, NEW h \in Hosts
    PROVE  \/ Known(h)' \subseteq Known(h) /\ round'[h] \in {round[h], NoRecord}
           \/ Known(h)' \subseteq Known(h) \cup {FreshRecord(h)} /\ SignsFresh(h)
<1>1. \/ round'[h] \in {round[h], NoRecord}
      \/ round'[h] = FreshRecord(h) /\ SignsFresh(h)
  <2>1. CASE (SignRound(h) \/ Heartbeat(h)) /\ round'[h] = FreshRecord(h)
    BY <2>1, SigningStep
  <2> QED BY <2>1, RoundStep
<1>2. chain[h] \in Seq(Record)
  BY DEF TypeInv, TypeOK, DatabasesTypeOK
<1>3. \A i \in 1..Len(chain'[h]) : chain'[h][i] # NoRecord => chain'[h][i] \in Known(h)
  <2>1. CASE chain'[h] = chain[h]
    BY <2>1 DEF Known, CommittedRecords
  <2>2. CASE round[h] # NoRecord /\ chain'[h] = Append(chain[h], round[h])
    <3> TAKE i \in 1..Len(chain'[h])
    <3>1. CASE i \in 1..Len(chain[h])
      <4>1. chain'[h][i] = chain[h][i]
        BY <1>2, <2>2, <3>1
      <4> QED BY <3>1, <4>1 DEF Known, CommittedRecords
    <3>2. CASE i = Len(chain[h]) + 1
      <4>1. chain'[h][i] = round[h]
        BY <1>2, <2>2, <3>2
      <4> QED BY <4>1 DEF Known
    <3>3. Len(chain'[h]) = Len(chain[h]) + 1
      BY <1>2, <2>2
    <3> QED BY <1>2, <3>1, <3>2, <3>3
  <2> QED BY <2>1, <2>2, ChainStep
<1>4. ASSUME NEW b \in Bridges, highWaterMarks'[b][h] # NoRecord
      PROVE  highWaterMarks'[b][h] \in Known(h)
  <2>1. CASE highWaterMarks'[b][h] = highWaterMarks[b][h]
    BY <1>4, <2>1 DEF Known
  <2>2. CASE highWaterMarks'[b][h] \in Publication(h, b)
    BY <2>2, PublicationKnown
  <2> QED BY <2>1, <2>2, MarkStep
<1>5. Known(h)' \subseteq Known(h) \cup {round'[h]}
  <2> SUFFICES ASSUME NEW r \in Known(h)', r # round'[h] PROVE r \in Known(h)
    OBVIOUS
  <2>1. CASE \E i \in 1..Len(chain'[h]) : r = chain'[h][i]
    BY <1>3, <2>1 DEF Known
  <2>2. CASE \E b \in Bridges : r = highWaterMarks'[b][h]
    BY <1>4, <2>2 DEF Known
  <2> QED BY <2>1, <2>2 DEF Known, CommittedRecords
<1>6. \A r \in Known(h)' : r # NoRecord
  BY DEF Known
<1>7. CASE round'[h] \in {round[h], NoRecord}
  <2>1. round[h] # NoRecord => round[h] \in Known(h)
    BY DEF Known
  <2> QED BY <1>5, <1>6, <1>7, <2>1
<1>8. CASE round'[h] = FreshRecord(h) /\ SignsFresh(h)
  BY <1>5, <1>8
<1> QED BY <1>1, <1>7, <1>8

LEMMA FreshRecordIs ==
    ASSUME TypeInv, NEW h \in Hosts
    PROVE  /\ FreshRecord(h) \in Record
           /\ FreshRecord(h).seq = Len(chain[h]) + 1 /\ FreshRecord(h).epoch = hostEpoch[h]
           /\ FreshRecord(h).role = IF writer[h] \/ resumeEligible[h] THEN "primary" ELSE "replica"
BY FreshRecordType DEF TypeInv, TypeOK, FreshRecord

\* Epochs of hosts only grow.
LEMMA EpochGrows ==
    ASSUME TypeInv, EpochInv, [Next]_vars, NEW h \in Hosts
    PROVE  /\ hostEpoch[h] \in Nat /\ hostEpoch'[h] \in Nat
           /\ hostEpoch[h] <= hostEpoch'[h]
<1>1. hostEpoch[h] \in Nat
  BY DEF TypeInv, TypeOK, DatabasesTypeOK, Epochs
<1> QED BY <1>1, OfficeStep DEF OfficeChange, StaysAs, Resumes, IsFenced, Stops, Starts,
           IsSucceeded, IsElected, SameState, SameEpoch

LEMMA StepNumbered ==
    ASSUME TypeInv, EpochInv, Numbered, [Next]_vars
    PROVE  Numbered'
<1> SUFFICES ASSUME NEW h \in Hosts
             PROVE  ChainNumbered(h)' /\ RoundNumbered(h)' /\ KnownNumbered(h)'
  BY DEF Numbered
<1>0. /\ chain[h] \in Seq(Record) /\ round[h] \in Record \cup {NoRecord}
      /\ ChainNumbered(h) /\ RoundNumbered(h) /\ KnownNumbered(h)
  BY DEF TypeInv, TypeOK, DatabasesTypeOK, MemoryTypeOK, Numbered
<1> DEFINE appended == /\ round[h] # NoRecord /\ ~IsCommitted(h, round[h])
                       /\ chain'[h] = Append(chain[h], round[h])
<1>1. chain'[h] = chain[h] \/ appended
  BY ChainStep
<1>2. appended => /\ Len(chain'[h]) = Len(chain[h]) + 1
                  /\ \A i \in 1..Len(chain[h]) : chain'[h][i] = chain[h][i]
                  /\ chain'[h][Len(chain[h]) + 1] = round[h]
                  /\ round[h].seq = Len(chain[h]) + 1
  BY <1>0 DEF RoundNumbered
<1> HIDE DEF appended
<1>3. Len(chain[h]) \in Nat /\ Len(chain'[h]) \in Nat /\ Len(chain[h]) <= Len(chain'[h])
  BY <1>0, <1>1, <1>2
<1>4. ChainNumbered(h)'
  <2> SUFFICES ASSUME NEW i \in 1..Len(chain'[h]) PROVE chain'[h][i].seq = i
    BY DEF ChainNumbered
  <2>1. CASE chain'[h] = chain[h]
    BY <1>0, <2>1 DEF ChainNumbered
  <2>2. CASE appended
    <3>1. i \in 1..Len(chain[h]) \/ i = Len(chain[h]) + 1
      BY <1>2, <1>3, <2>2
    <3> QED BY <1>0, <1>2, <2>2, <3>1 DEF ChainNumbered
  <2> QED BY <1>1, <2>1, <2>2
<1>5. RoundNumbered(h)'
  <2> SUFFICES ASSUME round'[h] # NoRecord
               PROVE  IsCommitted(h, round[h])' \/ round'[h].seq = Len(chain'[h]) + 1
    BY DEF RoundNumbered
  <2>1. CASE SignsFresh(h)
    BY <2>1, FreshRecordIs DEF SignsFresh
  <2>2. CASE round'[h] = round[h]
    <3>1. CASE chain'[h] = chain[h]
      BY <1>0, <2>2, <3>1 DEF RoundNumbered, IsCommitted, CommittedRecords
    <3>2. CASE appended
      <4>1. Len(chain[h]) + 1 \in 1..Len(chain'[h])
        BY <1>2, <1>3, <3>2
      <4> QED BY <1>2, <2>2, <3>2, <4>1 DEF IsCommitted, CommittedRecords
    <3> QED BY <1>1, <3>1, <3>2
  <2> QED BY <2>1, <2>2, RecordsStep
<1>6. KnownNumbered(h)'
  <2> SUFFICES ASSUME NEW r \in Known(h)'
               PROVE  r.seq <= Len(chain'[h]) + 1 /\ r.epoch <= hostEpoch'[h]
    BY DEF KnownNumbered
  <2>1. CASE r \in Known(h)
    <3>1. r.seq \in Nat /\ r.epoch \in Nat
      BY <2>1, KnownType DEF Record, Epochs
    <3>2. r.seq <= Len(chain[h]) + 1 /\ r.epoch <= hostEpoch[h]
      BY <1>0, <2>1 DEF KnownNumbered
    <3> QED BY <1>3, <3>1, <3>2, EpochGrows
  <2>2. CASE r = FreshRecord(h) /\ SignsFresh(h)
    BY <1>3, <2>2, FreshRecordIs, EpochGrows DEF SignsFresh
  <2> QED BY <2>1, <2>2, RecordsStep
<1> QED BY <1>4, <1>5, <1>6

\* A promoted replica holds its office until it is fenced, and is then fenced for good.
LEMMA StepOfficeHeld ==
    ASSUME TypeInv, EpochInv, MayWrite, [Next]_vars, NEW n \in Replicas, OfficeHeld(n)
    PROVE  OfficeHeld(n)'
<1> SUFFICES ASSUME hostEpoch'[n] = 1 PROVE Promoted(n)' /\ writerState'[n] # "none"
  BY DEF OfficeHeld
<1>0. n \in Hosts /\ n # PrimaryHost
  BY DEF Replicas
<1>1. CASE IsElected(n)
  <2>1. Promoted(n)'
    BY <1>1, PromotionFits DEF IsElected, EpochInv
  <2> QED BY <1>1, <2>1 DEF IsElected
<1>2. CASE ~IsElected(n)
  <2>1. hostEpoch'[n] = hostEpoch[n]
        /\ (writerState'[n] = writerState[n] \/ writerState'[n] \in {"writer", "fenced"})
    BY <1>0, <1>2, OfficeStep DEF OfficeChange, StaysAs, Resumes, IsFenced, Stops, Starts,
       IsSucceeded, SameState, SameEpoch
  <2>2. Promoted(n) /\ writerState[n] # "none"
    BY <2>1 DEF OfficeHeld
  <2> QED BY <2>1, <2>2, PromotionStays
<1> QED BY <1>1, <1>2

LEMMA StepOfficeEnds ==
    ASSUME TypeInv, EpochInv, MayWrite, Numbered, [Next]_vars, NEW n \in Replicas,
           OfficeHeld(n), OfficeEnds(n)
    PROVE  OfficeEnds(n)'
<1>0. n \in Hosts /\ n # PrimaryHost /\ writerState[n] \in {"none", "writer", "fenced"}
  BY DEF Replicas, TypeInv, TypeOK, DatabasesTypeOK
<1>1. writer[n] \/ resumeEligible[n] <=> up[n] /\ writerState[n] = "writer"
  BY <1>0 DEF MayWrite
<1>2. \A r \in Known(n) : /\ r.seq \in Nat /\ r.epoch \in Nat
                          /\ r.seq <= Len(chain[n]) + 1 /\ r.epoch <= hostEpoch[n]
  BY <1>0, KnownType DEF Numbered, KnownNumbered, Record, Epochs
<1>3. hostEpoch[n] \in Nat
  BY <1>0, EpochGrows
<1> SUFFICES ASSUME NEW r \in Known(n)', Demoted(r)
             PROVE  /\ writerState'[n] = "fenced"
                    /\ \A s \in Known(n)' : s.role = "primary" => s.seq <= r.seq
  BY DEF OfficeEnds, Demoted
<1>4. CASE r \in Known(n)
  <2>1. /\ writerState[n] = "fenced" /\ hostEpoch[n] >= 1
        /\ \A s \in Known(n) : s.role = "primary" => s.seq <= r.seq
    BY <1>2, <1>4 DEF OfficeEnds, Demoted
  <2>2. ~writer[n] /\ ~resumeEligible[n]
    BY <1>1, <2>1
  <2>3. writerState'[n] = "fenced"
    <3>1. ~IsElected(n) /\ ~Resumes(n)
      BY <1>3, <2>1, <2>2 DEF IsElected, Resumes
    <3> QED BY <1>0, <2>1, <3>1, OfficeStep DEF OfficeChange, StaysAs, IsFenced, Stops, Starts,
               IsSucceeded, SameState
  <2>4. ASSUME NEW s \in Known(n)', s.role = "primary" PROVE s.seq <= r.seq
    <3>1. s # FreshRecord(n)
      BY <1>0, <2>2, <2>4, FreshRecordIs
    <3> QED BY <1>0, <2>1, <2>4, <3>1, RecordsStep
  <2> QED BY <2>3, <2>4
<1>5. CASE r = FreshRecord(n) /\ SignsFresh(n) /\ Known(n)' \subseteq Known(n) \cup {FreshRecord(n)}
  <2>1. /\ r.seq = Len(chain[n]) + 1 /\ hostEpoch[n] = 1 /\ ~writer[n] /\ ~resumeEligible[n]
        /\ r.role = "replica"
    BY <1>0, <1>5, FreshRecordIs DEF Demoted
  <2>2. writerState[n] = "fenced" /\ writerState'[n] = writerState[n]
    BY <1>0, <1>1, <1>5, <2>1 DEF SignsFresh, StaysAs, SameState, OfficeHeld
  <2>3. ASSUME NEW s \in Known(n)', s.role = "primary" PROVE s.seq <= r.seq
    <3>1. s \in Known(n)
      BY <1>5, <2>1, <2>3
    <3> QED BY <1>2, <2>1, <3>1
  <2> QED BY <2>2, <2>3
<1> QED BY <1>0, <1>4, <1>5, RecordsStep

-----------------------------------------------------------------------------
(***************************************************************************)
(* Sockets and acknowledgements.                                           *)
(***************************************************************************)

\* Only a registration binds a host, at the bridge as at the host.
SocketChange(h, b) ==
    \/ Register(h, b) /\ link'[h][b] = "bound" /\ presence'[b][h] = "bound"
    \/ /\ link'[h][b] = "bound" => link[h][b] = "bound" /\ presence'[b][h] = "bound"
       /\ presence[b][h] \in {"absent", "unknown"} => presence'[b][h] \in {"absent", "unknown"}

LEMMA UnchangedSocket ==
    ASSUME EndsAgree, NEW h \in Hosts, NEW b \in Bridges,
           presence'[b][h] = presence[b][h], link'[h][b] = "bound" => link[h][b] = "bound"
    PROVE  SocketChange(h, b)
BY DEF SocketChange, EndsAgree

LEMMA BridgeSocketStep ==
    ASSUME TypeInv, EpochInv, Numbered, EndsAgree, NEW g \in Hosts, NEW c \in Bridges,
           HostBridgeStep(g, c), NEW h \in Hosts, NEW b \in Bridges
    PROVE  SocketChange(h, b)
<1>0. /\ link \in [Hosts -> [Bridges -> LinkState]] /\ presence \in [Bridges -> [Hosts -> Presence]]
      /\ link[h][b] = "bound" => presence[b][h] = "bound"
  BY DEF TypeInv, TypeOK, CoordinatorsTypeOK, BridgesTypeOK, EndsAgree
<1>1. CASE Connect(g, c)
  <2>1. presence' = presence /\ link' = [link EXCEPT ![g][c] = "open"]
    BY <1>1 DEF Connect, SetLink, bridgeVars
  <2> QED BY <1>0, <2>1, UnchangedSocket
<1>2. CASE HostSeesClose(g, c)
  <2>1. presence' = presence /\ link' = [link EXCEPT ![g][c] = "down"]
    BY <1>2 DEF HostSeesClose, SetLink, bridgeVars
  <2> QED BY <1>0, <2>1, UnchangedSocket
<1>3. CASE BridgeSeesClose(g, c)
  <2>1. CASE SetLink(g, c, "half")
    <3>1. \/ presence' = presence
          \/ presence' = [presence EXCEPT ![c][g] = IF @ = "bound" THEN "gone" ELSE @]
      BY <1>3 DEF BridgeSeesClose, UnbindSocket, bridgeVars
    <3> QED BY <1>0, <2>1, <3>1 DEF SetLink, SocketChange
  <2>2. CASE link[g][c] # "bound" /\ UnbindSocket(c, g) /\ UNCHANGED coordinatorVars
    BY <1>0, <2>2 DEF UnbindSocket, coordinatorVars, SocketChange
  <2> QED BY <1>3, <2>1, <2>2 DEF BridgeSeesClose
<1>4. CASE Register(g, c)
  <2>1. PICK r \in Publication(g, c) : presence' = [presence EXCEPT ![c][r.host] = "bound"]
    BY <1>4 DEF Register, CommitRegistration
  <2>2. r.host = g /\ link' = [link EXCEPT ![g][c] = "bound"]
    BY <1>4, <2>1, PublicationKnown DEF Register, SetLink
  <2>3. CASE g = h /\ c = b
    BY <1>0, <1>4, <2>1, <2>2, <2>3 DEF SocketChange
  <2>4. CASE ~(g = h /\ c = b)
    BY <1>0, <2>1, <2>2, <2>4, UnchangedSocket
  <2> QED BY <2>3, <2>4
<1>5. CASE ReceiveAck(g, c) \/ ObserveHigher(g, c)
  BY <1>5, UnchangedSocket DEF ReceiveAck, ObserveHigher, bridgeVars, coordinatorVars
<1>6. CASE GraceElapses(g, c)
  <2>1. /\ link' = link /\ presence[c][g] = "gone"
        /\ presence' = [presence EXCEPT ![c][g] = "absent"]
    BY <1>6 DEF GraceElapses, AbsenceGraceElapses, coordinatorVars
  <2> QED BY <1>0, <2>1 DEF SocketChange
<1>7. CASE Expire(g, c)
  <2>1. /\ presence' = [presence EXCEPT ![c][g] = IF @ = "bound" THEN "gone" ELSE @]
        /\ link' = [link EXCEPT ![g][c] = IF @ = "bound" THEN "open" ELSE @]
    BY <1>7 DEF Expire, RecordExpires
  <2> QED BY <1>0, <2>1 DEF SocketChange
<1> QED BY <1>1, <1>2, <1>3, <1>4, <1>5, <1>6, <1>7 DEF HostBridgeStep

LEMMA SocketStep ==
    ASSUME TypeInv, EpochInv, Numbered, EndsAgree, [Next]_vars, NEW h \in Hosts, NEW b \in Bridges
    PROVE  SocketChange(h, b)
<1>0. link \in [Hosts -> [Bridges -> LinkState]] /\ presence \in [Bridges -> [Hosts -> Presence]]
  BY DEF TypeInv, TypeOK, CoordinatorsTypeOK, BridgesTypeOK
<1>1. ASSUME NEW g \in Hosts, NEW c \in Bridges, HostBridgeStep(g, c) PROVE SocketChange(h, b)
  BY <1>1, BridgeSocketStep
<1>2. ASSUME NEW g \in Hosts, HostStep(g) PROVE SocketChange(h, b)
  <2>1. CASE Crash(g)
    <3>1. presence' = presence /\ link' = [link EXCEPT ![g] = [d \in Bridges |-> "down"]]
      BY <2>1 DEF Crash, bridgeVars
    <3> QED BY <1>0, <3>1, UnchangedSocket
  <2>2. CASE ~Crash(g)
    <3>1. presence' = presence /\ link' = link
      BY <1>2, <2>2 DEF HostStep, SignRound, Heartbeat, Fence, Boot, bridgeVars, coordinatorVars
    <3> QED BY <3>1, UnchangedSocket
  <2> QED BY <2>1, <2>2
<1>3. ASSUME NEW n \in Replicas, NEW c \in Bridges, AskStep(n, c) PROVE SocketChange(h, b)
  <2>1. presence' = presence /\ link' = link
    BY <1>3 DEF AskStep, WitnessAbsent, WitnessOnline, WitnessUnavailable, ClaimGranted,
       GrantPromotionVote, ClaimUnavailable, ClaimConflict, SetElection, bridgeVars
  <2> QED BY <2>1, UnchangedSocket
<1>4. ASSUME NEW n \in Replicas, ElectionStep(n) PROVE SocketChange(h, b)
  <2>1. presence' = presence /\ link' = link
    BY <1>4 DEF ElectionStep, StartElection, BeginClaims, Promote, AbandonElection, SetElection,
       bridgeVars
  <2> QED BY <2>1, UnchangedSocket
<1>5. ASSUME NEW c \in Bridges, CrashBridge(c) PROVE SocketChange(h, b)
  <2>1. /\ presence' = [presence EXCEPT ![c] = [k \in Hosts |-> "unknown"]]
        /\ link'[h] = [link[h] EXCEPT ![c] = IF Connected(h, c) THEN "half" ELSE @]
    BY <1>5 DEF CrashBridge, BridgeRestart
  <2>2. CASE c = b
    <3>1. presence'[b][h] = "unknown" /\ link'[h][b] # "bound"
      BY <1>0, <2>1, <2>2 DEF Connected
    <3> QED BY <3>1 DEF SocketChange
  <2>3. CASE c # b
    BY <1>0, <2>1, <2>3, UnchangedSocket
  <2> QED BY <2>2, <2>3
<1>6. CASE UNCHANGED vars
  BY <1>6, UnchangedSocket DEF vars, bridgeVars, coordinatorVars
<1> QED BY <1>1, <1>2, <1>3, <1>4, <1>5, <1>6 DEF Next

LEMMA StepEndsAgree ==
    ASSUME TypeInv, EpochInv, Numbered, EndsAgree, [Next]_vars
    PROVE  EndsAgree'
BY SocketStep DEF EndsAgree, SocketChange

\* A host is acknowledged for what it registered at the bridge.
AckChange(n, b) ==
    \/ b \in acks[n] \cup acked[n]
    \/ Register(n, b) /\ highWaterMarks'[b][n] = round[n]

LEMMA AcksStep ==
    ASSUME TypeInv, EpochInv, Numbered, [Next]_vars, NEW n \in Hosts, NEW b \in Bridges,
           b \in acks'[n] \cup acked'[n]
    PROVE  AckChange(n, b)
<1>0. acks \in [Hosts -> SUBSET Bridges] /\ acked \in [Hosts -> SUBSET Bridges]
  BY DEF TypeInv, TypeOK, CoordinatorsTypeOK, MemoryTypeOK
<1>1. ASSUME acks'[n] \subseteq acks[n], acked'[n] \subseteq acked[n] \cup acks[n]
      PROVE  AckChange(n, b)
  BY <1>1 DEF AckChange
<1>2. ASSUME NEW g \in Hosts, NEW c \in Bridges, HostBridgeStep(g, c) PROVE AckChange(n, b)
  <2>1. CASE Register(g, c)
    <3>1. PICK r \in Publication(g, c) :
            /\ highWaterMarks' = [highWaterMarks EXCEPT ![c][r.host] = r]
            /\ acks' = IF r = round[g] THEN [acks EXCEPT ![g] = @ \cup {c}] ELSE acks
      BY <2>1 DEF Register, CommitRegistration
    <3>2. r.host = g /\ acked' = acked
      BY <2>1, <3>1, PublicationKnown DEF Register, hostVars, memoryVars
    <3>3. CASE g = n /\ c = b /\ r = round[g]
      <4>1. highWaterMarks'[b][n] = round[n]
        BY <3>1, <3>2, <3>3 DEF TypeInv, TypeOK, BridgesTypeOK
      <4> QED BY <2>1, <3>3, <4>1 DEF AckChange
    <3>4. CASE ~(g = n /\ c = b /\ r = round[g])
      BY <1>0, <3>1, <3>2, <3>4 DEF AckChange
    <3> QED BY <3>3, <3>4
  <2>2. CASE ReceiveAck(g, c)
    <3>1. /\ c \in acks[g] /\ acks' = [acks EXCEPT ![g] = @ \ {c}]
          /\ acked' = acked \/ acked' = [acked EXCEPT ![g] = acked[g] \cup {c}]
      BY <2>2 DEF ReceiveAck, AcknowledgeRound, hostVars, memoryVars
    <3> QED BY <1>0, <1>1, <3>1
  <2>3. CASE HostSeesClose(g, c)
    BY <1>0, <1>1, <2>3 DEF HostSeesClose
  <2>4. CASE ObserveHigher(g, c)
    BY <1>0, <1>1, <2>4 DEF ObserveHigher, ObserveHigherEpoch, coordinatorVars
  <2>5. CASE Connect(g, c) \/ BridgeSeesClose(g, c) \/ GraceElapses(g, c) \/ Expire(g, c)
    <3>1. acks' = acks /\ acked' = acked
      BY <2>5 DEF Connect, BridgeSeesClose, GraceElapses, Expire, hostVars, memoryVars,
         coordinatorVars
    <3> QED BY <1>1, <3>1
  <2> QED BY <1>2, <2>1, <2>2, <2>3, <2>4, <2>5 DEF HostBridgeStep
<1>3. ASSUME NEW g \in Hosts, HostStep(g) PROVE AckChange(n, b)
  BY <1>0, <1>1, <1>3 DEF HostStep, SignRound, EnsureRound, Heartbeat, RotateRound, SignRecord,
     Fence, FencePrimaryWriter, Crash, HostCrash, Boot, HostBoot, coordinatorVars
<1>4. ASSUME NEW m \in Replicas, NEW c \in Bridges, AskStep(m, c) PROVE AckChange(n, b)
  <2>1. acks' = acks /\ acked' = acked
    BY <1>4 DEF AskStep, WitnessAbsent, WitnessOnline, WitnessUnavailable, ClaimGranted,
       ClaimUnavailable, ClaimConflict, SetElection, hostVars, memoryVars
  <2> QED BY <1>1, <2>1
<1>5. ASSUME NEW m \in Replicas, ElectionStep(m) PROVE AckChange(n, b)
  <2>1. CASE Promote(m)
    BY <1>0, <1>1, <2>1 DEF Promote, PromoteFromWitness
  <2>2. CASE ~Promote(m)
    <3>1. acks' = acks /\ acked' = acked
      BY <1>5, <2>2 DEF ElectionStep, StartElection, BeginClaims, AbandonElection, SetElection,
         hostVars, memoryVars
    <3> QED BY <1>1, <3>1
  <2> QED BY <2>1, <2>2
<1>6. ASSUME NEW c \in Bridges, CrashBridge(c) PROVE AckChange(n, b)
  BY <1>1, <1>6 DEF CrashBridge, hostVars, memoryVars
<1>7. CASE UNCHANGED vars
  BY <1>1, <1>7 DEF vars, hostVars, memoryVars, coordinatorVars
<1> QED BY <1>2, <1>3, <1>4, <1>5, <1>6, <1>7 DEF Next

LEMMA WriterBefore ==
    ASSUME TypeInv, EpochInv, MayWrite, [Next]_vars, NEW h \in Hosts, writerState'[h] = "writer"
    PROVE  writerState[h] = "writer" \/ IsElected(h)
<1>1. resumeEligible[h] => writerState[h] = "writer"
  BY DEF MayWrite
<1> QED BY <1>1, OfficeStep DEF OfficeChange, StaysAs, Resumes, IsFenced, Stops, Starts,
           IsSucceeded, SameState

LEMMA WriterEpoch ==
    ASSUME EpochInv, NEW n \in Replicas, writerState[n] = "writer"
    PROVE  hostEpoch[n] = 1 /\ Promoted(n)
BY DEF EpochInv, HostsFit, Claims, Holds, Replicas

LEMMA StepAcksMark ==
    ASSUME TypeInv, EpochInv, EpochInv', MayWrite, Numbered, AcksMark, [Next]_vars
    PROVE  AcksMark'
<1> SUFFICES ASSUME NEW n \in Replicas, writerState'[n] = "writer"
             PROVE  /\ round'[n] # NoRecord => round'[n].epoch = 1
                    /\ \A b \in acks'[n] \cup acked'[n] :
                         highWaterMarks'[b][n] # NoRecord /\ highWaterMarks'[b][n].epoch = 1
  BY DEF AcksMark, RoundOfOffice, AcksOfOffice, ListedAt
<1>0. n \in Hosts
  BY DEF Replicas
<1>1. CASE IsElected(n)
  <2>1. /\ round' = [round EXCEPT ![n] = NoRecord]
        /\ acked' = [acked EXCEPT ![n] = {}] /\ acks' = [acks EXCEPT ![n] = {}]
    BY <1>1 DEF IsElected, Promote, PromoteFromWitness
  <2>2. round'[n] = NoRecord /\ acked'[n] = {} /\ acks'[n] = {}
    BY <1>0, <2>1 DEF TypeInv, TypeOK, MemoryTypeOK, CoordinatorsTypeOK
  <2> QED BY <2>2
<1>2. CASE ~IsElected(n)
  <2>1. writerState[n] = "writer" /\ hostEpoch[n] = 1
    BY <1>0, <1>2, WriterBefore, WriterEpoch
  <2>2. /\ round[n] # NoRecord => round[n].epoch = 1
        /\ \A b \in acks[n] \cup acked[n] : ListedAt(n, b)
    BY <2>1 DEF AcksMark, RoundOfOffice, AcksOfOffice
  <2>3. round'[n] # NoRecord => round'[n].epoch = 1
    BY <1>0, <2>1, <2>2, RecordsStep, FreshRecordIs DEF SignsFresh
  <2>4. ASSUME NEW b \in acks'[n] \cup acked'[n]
        PROVE  highWaterMarks'[b][n] # NoRecord /\ highWaterMarks'[b][n].epoch = 1
    <3>0. b \in Bridges
      BY <1>0, StepTypeInv DEF TypeInv, TypeOK, CoordinatorsTypeOK, MemoryTypeOK
    <3>1. CASE Register(n, b) /\ highWaterMarks'[b][n] = round[n]
      BY <2>2, <3>1 DEF Register
    <3>2. CASE b \in acks[n] \cup acked[n]
      <4>1. highWaterMarks[b][n] # NoRecord /\ highWaterMarks[b][n].epoch = 1
        BY <2>2, <3>2 DEF ListedAt
      <4>2. highWaterMarks'[b][n] # NoRecord /\ highWaterMarks'[b][n].epoch >= 1
        BY <1>0, <3>0, <4>1, MarksAdvance
      <4>3. highWaterMarks'[b][n].epoch \in {0, 1}
        BY <1>0, <3>0, <4>2 DEF EpochInv, MarksFit, RecordFits, EpochFits
      <4> QED BY <4>2, <4>3
    <3> QED BY <1>0, <3>0, <3>1, <3>2, AcksStep DEF AckChange
  <2> QED BY <2>3, <2>4
<1> QED BY <1>1, <1>2

LEMMA StepFounderMarked ==
    ASSUME TypeInv, EpochInv, Numbered, FounderMarked, [Next]_vars
    PROVE  FounderMarked'
BY MarksAdvance, PrimaryInHosts DEF FounderMarked

-----------------------------------------------------------------------------
(***************************************************************************)
(* Votes, and what they do to the founder.                                 *)
(***************************************************************************)

\* A checkpoint of epoch 0 with the primary role is the founder's mark.
LEMMA CheckpointIsFounders ==
    ASSUME TypeInv, EpochInv, NEW b \in Bridges, NEW p, IsKnownPrimary(b, p), p.epoch = 0
    PROVE  p = highWaterMarks[b][PrimaryHost] /\ p.host = PrimaryHost
<1>1. PICK h \in Hosts : p = highWaterMarks[b][h] /\ p # NoRecord
  BY DEF IsKnownPrimary, Marks
<1>2. p.host = h /\ Holds(h, 0)
  BY <1>1 DEF EpochInv, MarksFit, RecordFits, IsKnownPrimary
<1> QED BY <1>1, <1>2 DEF Holds

\* A founder that was silent is silent still, or has published again.
LEMMA FounderStaysSilent ==
    ASSUME TypeInv, EpochInv, Numbered, EndsAgree, FounderMarked, [Next]_vars,
           NEW b \in Bridges, NEW p \in Record, FounderSilent(b, p)
    PROVE  FounderSilent(b, p)'
<1> DEFINE m == highWaterMarks[b][PrimaryHost]
<1>0. PrimaryHost \in Hosts /\ m # NoRecord /\ m \in Record
  BY PrimaryInHosts, MarkType DEF FounderMarked
<1>1. Register(PrimaryHost, b) => highWaterMarks'[b][PrimaryHost].seq = m.seq + 1
  <2> SUFFICES ASSUME Register(PrimaryHost, b)
               PROVE  highWaterMarks'[b][PrimaryHost].seq = m.seq + 1
    OBVIOUS
  <2>1. PICK r \in Publication(PrimaryHost, b) :
          highWaterMarks' = [highWaterMarks EXCEPT ![b][r.host] = r]
    BY DEF Register, CommitRegistration
  <2>2. r.host = PrimaryHost /\ r.seq = m.seq + 1
    BY <1>0, <2>1, PublicationKnown
  <2>3. highWaterMarks'[b][PrimaryHost] = r
    BY <1>0, <2>1, <2>2 DEF TypeInv, TypeOK, BridgesTypeOK
  <2> QED BY <2>2, <2>3
<1>2. \/ highWaterMarks'[b][PrimaryHost] = m /\ ~Register(PrimaryHost, b)
      \/ highWaterMarks'[b][PrimaryHost].seq = m.seq + 1
  BY <1>0, <1>1, MarksAdvance
<1>3. presence[b][PrimaryHost] \in {"absent", "unknown"}
        => Register(PrimaryHost, b) \/ presence'[b][PrimaryHost] \in {"absent", "unknown"}
  BY <1>0, SocketStep DEF SocketChange
<1> QED BY <1>0, <1>2, <1>3 DEF FounderSilent, Record

LEMMA StepVotedAgainst ==
    ASSUME TypeInv, EpochInv, Numbered, EndsAgree, FounderMarked, VotedAgainst, [Next]_vars
    PROVE  VotedAgainst'
<1> SUFFICES ASSUME NEW b \in Bridges, promotionVotes'[b][1] # NoVote
             PROVE  FounderSilent(b, promotionVotes[b][1].primary)'
  BY DEF VotedAgainst
<1> DEFINE p == promotionVotes'[b][1].primary
<1>0. 1 \in Epochs
  BY BoundsAssumption DEF Epochs
<1>1. FounderSilent(b, p)
  <2>1. CASE promotionVotes'[b][1] = promotionVotes[b][1]
    BY <2>1 DEF VotedAgainst
  <2>2. ASSUME NEW n \in Replicas, NEW c \in Bridges, ClaimGranted(n, c),
               promotionVotes'[b][1] # promotionVotes[b][1]
        PROVE  FounderSilent(b, p)
    <3> DEFINE t == election[n].target
    <3>1. t.epoch = 0 /\ t \in Record
      BY <2>2, TargetType DEF ClaimGranted, NextClaim, EpochInv, TargetsFit
    <3>2. /\ IsKnownPrimary(c, t) /\ presence[c][t.host] = "absent"
          /\ promotionVotes' = [promotionVotes EXCEPT ![c][t.epoch + 1] =
                                   [candidate |-> n, primary |-> t]]
      BY <2>2 DEF ClaimGranted, GrantPromotionVote, VoteConflict, PrimaryOnline
    <3>3. t.epoch + 1 = 1
      BY <3>1
    <3>4. promotionVotes' = [promotionVotes EXCEPT ![c][1] = [candidate |-> n, primary |-> t]]
      BY <3>2, <3>3
    <3>5. c = b /\ promotionVotes'[b][1] = [candidate |-> n, primary |-> t]
      BY <1>0, <2>2, <3>4 DEF TypeInv, TypeOK, BridgesTypeOK
    <3>6. t = highWaterMarks[c][PrimaryHost] /\ t.host = PrimaryHost
      BY <3>1, <3>2, CheckpointIsFounders
    <3> QED BY <3>2, <3>5, <3>6 DEF FounderSilent
  <2> QED BY <2>1, <2>2, OnlyClaimsVote
<1>2. p \in Record
  BY <1>0, StepTypeInv DEF TypeInv, TypeOK, BridgesTypeOK, Vote
<1> QED BY <1>1, <1>2, FounderStaysSilent DEF FounderSilent

\* Only one replica has records of epoch 1 while the founder is at epoch 0.
LEMMA EpochOneIsHers ==
    ASSUME TypeInv, EpochInv, ElectionSafety, Numbered, OfficeOrder, hostEpoch[PrimaryHost] = 0,
           NEW n \in Replicas, Promoted(n), NEW h \in Hosts, NEW r \in Known(h), r.epoch # 0
    PROVE  h = n /\ r.epoch = 1
<1>1. r.epoch \in {0, 1} /\ hostEpoch[h] \in {0, 1} /\ r.epoch <= hostEpoch[h]
  BY KnownType DEF RecordFits, EpochFits, EpochInv, HostsFit, Numbered, KnownNumbered
<1>2. r.epoch = 1 /\ hostEpoch[h] = 1
  BY <1>1
<1>3. h \in Replicas
  BY <1>2 DEF Replicas
<1>4. Promoted(h)
  BY <1>2, <1>3 DEF OfficeOrder, OfficeHeld
<1>5. certificate[h].primary.epoch = certificate[n].primary.epoch
  BY <1>3, <1>4 DEF EpochInv, CertificatesFit
<1> QED BY <1>2, <1>3, <1>4, <1>5 DEF ElectionSafety

\* A bridge takes the first record of a successor only when the founder is not bound.
LEMMA SuccessorFindsFounderGone ==
    ASSUME TypeInv, EpochInv, ElectionSafety, Numbered, OfficeOrder, EndsAgree, FounderMarked,
           VotedAgainst, NEW b \in Bridges, ~ListsSuccessor(b), hostEpoch[PrimaryHost] = 0,
           NEW n \in Replicas, NEW r \in Publication(n, b), r.role = "primary",
           ValidateRegistration(b, r, SentCertificate(n, r))
    PROVE  link[PrimaryHost][b] # "bound"
<1>0. n \in Hosts /\ PrimaryHost \in Hosts
  BY PrimaryInHosts DEF Replicas
<1>1. r \in Known(n) /\ r \in Record /\ r.host = n
      /\ r.seq = IF highWaterMarks[b][n] = NoRecord THEN 1 ELSE highWaterMarks[b][n].seq + 1
  BY <1>0, PublicationKnown
<1>2. r.epoch = 1 /\ Promoted(n)
  BY <1>0, <1>1, KnownType DEF RecordFits, Holds, Replicas
<1>3. ASSUME NEW m \in Marks(b) PROVE m.epoch = 0
  <2> SUFFICES ASSUME m.epoch # 0 PROVE FALSE
    OBVIOUS
  <2>1. PICK h \in Hosts : m = highWaterMarks[b][h] /\ m # NoRecord
    BY DEF Marks
  <2>2. m \in Known(h) /\ m \in Record
    BY <2>1, MarkType
  <2>3. h = n /\ m.epoch = 1
    BY <1>2, <2>2, EpochOneIsHers
  <2>4. m.role = "replica"
    BY <2>1, <2>2, <2>3 DEF ListsSuccessor, Record, Roles
  <2>5. r.seq <= m.seq
    BY <1>1, <2>2, <2>3, <2>4 DEF OfficeOrder, OfficeEnds, Demoted
  <2> QED BY <1>1, <2>1, <2>2, <2>3, <2>5 DEF Record
<1>4. IsHighestEpoch(b, 0) /\ 0 \in Epochs
  <2>1. highWaterMarks[b][PrimaryHost] \in Marks(b)
    BY <1>0, MarkType DEF FounderMarked
  <2> QED BY <1>3, <2>1, BoundsAssumption DEF IsHighestEpoch, Epochs
<1> DEFINE p == certificate[n].primary
<1>5. ValidPromotionCertificate(b, r, certificate[n])
  BY <1>2, <1>4 DEF ValidateRegistration, SentCertificate
<1>6. p.epoch = 0
  BY <1>2 DEF EpochInv, CertificatesFit
<1>7. p = highWaterMarks[b][PrimaryHost]
  BY <1>5, <1>6, CheckpointIsFounders DEF ValidPromotionCertificate
<1>8. promotionVotes[b][1] = [candidate |-> n, primary |-> p]
  BY <1>1, <1>2, <1>5 DEF ValidPromotionCertificate
<1>9. p \in Record
  BY <1>0, <1>7, MarkType DEF FounderMarked
<1>10. promotionVotes[b][1] # NoVote /\ promotionVotes[b][1].primary = p
  BY <1>0, <1>8, <1>9, NullAssumption DEF Vote
<1>11. FounderSilent(b, p)
  BY <1>10 DEF VotedAgainst
<1>12. presence[b][PrimaryHost] \in {"absent", "unknown"}
  BY <1>7, <1>9, <1>11 DEF FounderSilent, Record
<1> QED BY <1>0, <1>12 DEF EndsAgree

\* A bridge that lists a successor refuses whatever the founder signs at epoch 0.
LEMMA FounderIsRefused ==
    ASSUME TypeInv, EpochInv, Numbered, NEW b \in Bridges, ListsSuccessor(b),
           hostEpoch[PrimaryHost] = 0
    PROVE  ~Register(PrimaryHost, b)
<1> SUFFICES ASSUME Register(PrimaryHost, b) PROVE FALSE
  OBVIOUS
<1>1. PICK r \in Publication(PrimaryHost, b) :
        ValidateRegistration(b, r, SentCertificate(PrimaryHost, r))
  BY DEF Register
<1>2. r.epoch = 0
  <2>1. r \in Known(PrimaryHost) /\ r \in Record
    BY <1>1, PrimaryInHosts, PublicationKnown
  <2>2. r.epoch <= 0
    BY <2>1, PrimaryInHosts DEF Numbered, KnownNumbered
  <2> QED BY <2>1, <2>2 DEF Record, Epochs
<1>3. PICK n \in Replicas :
        highWaterMarks[b][n] # NoRecord /\ highWaterMarks[b][n].role = "primary"
  BY DEF ListsSuccessor
<1>4. n \in Hosts /\ n # PrimaryHost
  BY DEF Replicas
<1>5. highWaterMarks[b][n].epoch = 1 /\ highWaterMarks[b][n] \in Marks(b)
  BY <1>3, <1>4, MarkType DEF EpochInv, MarksFit, RecordFits, Holds
<1>6. ASSUME NEW m \in Marks(b) PROVE m.epoch \in {0, 1}
  BY DEF Marks, EpochInv, MarksFit, RecordFits, EpochFits
<1>7. IsHighestEpoch(b, 1) /\ 1 \in Epochs
  BY <1>5, <1>6, BoundsAssumption DEF IsHighestEpoch, Epochs
<1> QED BY <1>1, <1>2, <1>7 DEF ValidateRegistration

LEMMA StepSuperseded ==
    ASSUME TypeInv, EpochInv, ElectionSafety, Numbered, OfficeOrder, EndsAgree, FounderMarked,
           VotedAgainst, Superseded, [Next]_vars
    PROVE  Superseded'
<1> SUFFICES ASSUME NEW b \in Bridges, ListsSuccessor(b)', hostEpoch'[PrimaryHost] = 0
             PROVE  link'[PrimaryHost][b] # "bound"
  BY DEF Superseded
<1>0. PrimaryHost \in Hosts
  BY PrimaryInHosts
<1>1. hostEpoch[PrimaryHost] = 0
  BY <1>0, EpochGrows
<1>2. CASE ListsSuccessor(b)
  <2>1. link[PrimaryHost][b] # "bound" /\ ~Register(PrimaryHost, b)
    BY <1>1, <1>2, FounderIsRefused DEF Superseded
  <2> QED BY <1>0, <2>1, SocketStep DEF SocketChange
<1>3. CASE ~ListsSuccessor(b)
  <2>1. PICK n \in Replicas :
          highWaterMarks'[b][n] # NoRecord /\ highWaterMarks'[b][n].role = "primary"
    BY DEF ListsSuccessor
  <2>2. n \in Hosts /\ n # PrimaryHost
    BY DEF Replicas
  <2>3. highWaterMarks'[b][n] # highWaterMarks[b][n]
    BY <1>3, <2>1 DEF ListsSuccessor
  <2>4. PICK r \in Publication(n, b) :
          /\ Register(n, b) /\ r.role = "primary"
          /\ ValidateRegistration(b, r, SentCertificate(n, r))
    BY <2>1, <2>2, <2>3, MarkStep
  <2>5. link'[PrimaryHost][b] = link[PrimaryHost][b]
    BY <1>0, <2>2, <2>4 DEF Register, SetLink, TypeInv, TypeOK, CoordinatorsTypeOK
  <2> QED BY <1>1, <1>3, <2>4, <2>5, SuccessorFindsFounderGone
<1> QED BY <1>2, <1>3

-----------------------------------------------------------------------------
LEMMA InitAuthorityInv == Init => AuthorityInv
<1> SUFFICES ASSUME Init PROVE AuthorityInv
  OBVIOUS
<1>0. /\ PrimaryHost \in Hosts /\ Replicas \subseteq Hosts /\ PrimaryHost \notin Replicas
      /\ FirstRecord \in Record /\ FirstRecord # NoRecord
  BY PrimaryInHosts, FirstRecordType, NullAssumption DEF Replicas
<1>1. ASSUME NEW h \in Hosts, h # PrimaryHost
      PROVE  /\ chain[h] = <<>> /\ round[h] = NoRecord /\ Known(h) = {}
             /\ hostEpoch[h] = 0 /\ writerState[h] = "none"
  <2>1. chain[h] = <<>> /\ round[h] = NoRecord /\ \A b \in Bridges : highWaterMarks[b][h] = NoRecord
    BY <1>1 DEF Init, ByHost
  <2>2. CommittedRecords(h) = {}
    BY <2>1 DEF CommittedRecords
  <2> QED BY <1>1, <2>1, <2>2 DEF Known, Init, ByHost
<1>2. /\ chain[PrimaryHost] = <<FirstRecord>> /\ round[PrimaryHost] = FirstRecord
      /\ Known(PrimaryHost) = {FirstRecord} /\ hostEpoch[PrimaryHost] = 0
      /\ IsCommitted(PrimaryHost, FirstRecord)
  <2>1. /\ chain[PrimaryHost] = <<FirstRecord>> /\ round[PrimaryHost] = FirstRecord
        /\ \A b \in Bridges : highWaterMarks[b][PrimaryHost] = FirstRecord
        /\ hostEpoch[PrimaryHost] = 0
    BY <1>0 DEF Init, ByHost
  <2>2. CommittedRecords(PrimaryHost) = {FirstRecord}
    BY <2>1 DEF CommittedRecords
  <2> QED BY <1>0, <2>1, <2>2 DEF Known, IsCommitted
<1>3. MayWrite
  BY DEF Init, MayWrite, ByHost
<1>4. ElectorsAreUp
  BY DEF Init, ElectorsAreUp, NoElection
<1>5. Numbered
  <2> SUFFICES ASSUME NEW h \in Hosts
               PROVE  ChainNumbered(h) /\ RoundNumbered(h) /\ KnownNumbered(h)
    BY DEF Numbered
  <2>1. CASE h = PrimaryHost
    <3>1. FirstRecord.seq = 1 /\ FirstRecord.epoch = 0
      BY DEF FirstRecord
    <3> QED BY <1>2, <2>1, <3>1 DEF ChainNumbered, RoundNumbered, KnownNumbered
  <2>2. CASE h # PrimaryHost
    BY <1>1, <2>2 DEF ChainNumbered, RoundNumbered, KnownNumbered
  <2> QED BY <2>1, <2>2
<1>6. OfficeOrder
  BY <1>0, <1>1 DEF OfficeOrder, OfficeHeld, OfficeEnds
<1>7. EndsAgree
  BY <1>0 DEF Init, EndsAgree, ByHost
<1>8. AcksMark
  BY <1>0, <1>1 DEF AcksMark, RoundOfOffice, AcksOfOffice
<1>9. FounderMarked
  BY <1>0 DEF Init, FounderMarked, ByHost
<1>10. VotedAgainst
  BY BoundsAssumption DEF Init, VotedAgainst, Epochs
<1>11. Superseded
  BY <1>0 DEF Init, Superseded, ListsSuccessor, ByHost
<1> QED BY <1>3, <1>4, <1>5, <1>6, <1>7, <1>8, <1>9, <1>10, <1>11 DEF AuthorityInv, OfficeInv

LEMMA StepAuthorityInv ==
    ASSUME TypeInv, EpochInv, EpochInv', ElectionSafety, AuthorityInv, [Next]_vars
    PROVE  AuthorityInv'
<1> USE DEF AuthorityInv, OfficeInv
<1>1. MayWrite' /\ ElectorsAreUp'
  BY StepMayWrite, StepElectorsAreUp
<1>2. Numbered'
  BY StepNumbered
<1>3. OfficeOrder'
  <2>1. ASSUME NEW n \in Replicas PROVE OfficeHeld(n)' /\ OfficeEnds(n)'
    <3>1. OfficeHeld(n) /\ OfficeEnds(n)
      BY DEF OfficeOrder
    <3> QED BY <3>1, StepOfficeHeld, StepOfficeEnds
  <2> QED BY <2>1 DEF OfficeOrder
<1>4. EndsAgree' /\ AcksMark' /\ FounderMarked'
  BY StepEndsAgree, StepAcksMark, StepFounderMarked
<1>5. VotedAgainst' /\ Superseded'
  BY StepVotedAgainst, StepSuperseded
<1> QED BY <1>1, <1>2, <1>3, <1>4, <1>5

LEMMA AuthorityInvHolds == Spec => [](TypeInv /\ EpochInv /\ ElectionSafety /\ AuthorityInv)
<1>1. Init => AuthorityInv
  BY InitAuthorityInv
<1>2. TypeInv /\ EpochInv /\ EpochInv' /\ ElectionSafety /\ AuthorityInv /\ [Next]_vars
        => AuthorityInv'
  BY StepAuthorityInv
<1> QED BY <1>1, <1>2, EpochInvHolds, PTL DEF Spec

-----------------------------------------------------------------------------
(***************************************************************************)
(* Confirmed writers.                                                      *)
(***************************************************************************)
LEMMA BridgeMajoritiesMeet ==
    ASSUME NEW S \in SUBSET Bridges, NEW T \in SUBSET Bridges,
           IsMajority(S, Bridges), IsMajority(T, Bridges)
    PROVE  S \cap T # {}
<1>1. S \cap Bridges = S /\ T \cap Bridges = T
  OBVIOUS
<1>2. /\ IsFiniteSet(S) /\ IsFiniteSet(T) /\ Cardinality(S) \in Nat /\ Cardinality(T) \in Nat
      /\ Cardinality(Bridges) \in Nat
  BY BridgesAssumption, FS_Subset, FS_CardinalityType
<1>3. Cardinality(S) + Cardinality(T) > Cardinality(Bridges)
  <2>1. ASSUME NEW n \in Nat, NEW s \in Nat, NEW t \in Nat, s >= (n \div 2) + 1, t >= (n \div 2) + 1
        PROVE  s + t > n
    BY <2>1
  <2>2. /\ Cardinality(S) >= (Cardinality(Bridges) \div 2) + 1
        /\ Cardinality(T) >= (Cardinality(Bridges) \div 2) + 1
    BY <1>1 DEF IsMajority
  <2> QED BY <1>2, <2>1, <2>2
<1> QED BY <1>2, <1>3, BridgesAssumption, FS_MajoritiesIntersect

LEMMA NoMajorityOfNone == ~IsMajority({}, Bridges)
<1>1. {} \cap Bridges = {} /\ Cardinality({}) = 0 /\ Cardinality(Bridges) \in Nat
  BY BridgesAssumption, FS_EmptySet, FS_CardinalityType
<1> QED BY <1>1 DEF IsMajority

\* The bridges that confirm a replica list it; so they do not bind the founder.
LEMMA ConfirmedIsListed ==
    ASSUME TypeInv, EpochInv, AuthorityInv, NEW n \in Replicas, writerState[n] = "writer",
           NEW b \in acked[n]
    PROVE  b \in Bridges /\ ListsSuccessor(b)
<1>0. n \in Hosts /\ b \in Bridges
  BY DEF Replicas, TypeInv, TypeOK, MemoryTypeOK
<1>1. highWaterMarks[b][n] # NoRecord /\ highWaterMarks[b][n].epoch = 1
  BY DEF AuthorityInv, AcksMark, AcksOfOffice, ListedAt
<1>2. highWaterMarks[b][n] \in Known(n) /\ highWaterMarks[b][n] \in Record
  BY <1>0, <1>1, MarkType
<1>3. highWaterMarks[b][n].role # "replica"
  BY <1>1, <1>2 DEF AuthorityInv, OfficeInv, OfficeOrder, OfficeEnds, Demoted
<1>4. highWaterMarks[b][n].role = "primary"
  BY <1>2, <1>3 DEF Record, Roles
<1> QED BY <1>0, <1>1, <1>4 DEF ListsSuccessor

LEMMA ReplicasDoNotOverlap ==
    ASSUME EpochInv, ElectionSafety, NEW m \in Replicas, NEW n \in Replicas,
           Claims(m), Claims(n)
    PROVE  m = n
<1>1. Promoted(m) /\ Promoted(n)
  BY DEF EpochInv, HostsFit, Holds, Replicas
<1> QED BY <1>1 DEF EpochInv, CertificatesFit, ElectionSafety

\* Two hosts never hold a write lease that a strict majority of live sockets confirms:
\* whatever crashed, was partitioned, delayed or elected in between.
THEOREM WritersAreExclusive == Spec => []ConfirmedWriterExclusive
<1>1. ASSUME TypeInv, EpochInv, ElectionSafety, AuthorityInv, NEW n \in Replicas,
             ConfirmedWriter(PrimaryHost), ConfirmedWriter(n)
      PROVE  FALSE
  <2>0. n \in Hosts /\ PrimaryHost \in Hosts
    BY PrimaryInHosts DEF Replicas
  <2>1. LiveBridges(PrimaryHost) \in SUBSET Bridges /\ LiveBridges(n) \in SUBSET Bridges
    BY <1>1, <2>0 DEF LiveBridges, TypeInv, TypeOK, MemoryTypeOK
  <2>2. PICK b \in Bridges : b \in LiveBridges(PrimaryHost) /\ b \in LiveBridges(n)
    BY <1>1, <2>1, BridgeMajoritiesMeet DEF ConfirmedWriter
  <2>3. writer[n] /\ writer[PrimaryHost] /\ writerState[n] = "writer"
    BY <1>1, <2>0 DEF ConfirmedWriter, AuthorityInv, OfficeInv, MayWrite
  <2>4. ListsSuccessor(b)
    BY <1>1, <2>2, <2>3, ConfirmedIsListed DEF LiveBridges
  <2>5. hostEpoch[PrimaryHost] = 0
    BY <1>1, <2>0, <2>3 DEF EpochInv, HostsFit, Claims, Holds
  <2> QED BY <1>1, <2>2, <2>4, <2>5 DEF AuthorityInv, Superseded, LiveBridges
<1>2. TypeInv /\ EpochInv /\ ElectionSafety /\ AuthorityInv => ConfirmedWriterExclusive
  <2> SUFFICES ASSUME TypeInv, EpochInv, ElectionSafety, AuthorityInv,
                      NEW g \in Hosts, NEW h \in Hosts, ConfirmedWriter(g), ConfirmedWriter(h),
                      g # h
               PROVE  FALSE
    BY DEF ConfirmedWriterExclusive
  <2>1. CASE g \in Replicas /\ h \in Replicas
    BY <2>1, ReplicasDoNotOverlap DEF ConfirmedWriter, Claims
  <2>2. CASE g = PrimaryHost \/ h = PrimaryHost
    BY <1>1, <2>2 DEF Replicas
  <2> QED BY <2>1, <2>2 DEF Replicas
<1> QED BY <1>2, AuthorityInvHolds, PTL

\* A host comes to write by an election or by the ACK that completes its quorum.
LEMMA ResumingStep ==
    ASSUME TypeInv, [Next]_vars, NEW h \in Hosts, ~writer[h], writer'[h],
           ~(h \in Replicas /\ Promote(h))
    PROVE  \E c \in Bridges : AcknowledgeRound(h, c)
<1>0. writer \in [Hosts -> BOOLEAN]
  BY DEF TypeInv, TypeOK, MemoryTypeOK
<1>1. writer' # writer
  OBVIOUS
<1>2. ASSUME NEW g \in Hosts, NEW b \in Bridges, HostBridgeStep(g, b)
      PROVE  AcknowledgeRound(h, b)
  <2>1. CASE AcknowledgeRound(g, b)
    <3>1. CASE g # h
      <4>1. writer'[h] = writer[h]
        BY <1>0, <2>1, <3>1 DEF AcknowledgeRound
      <4> QED BY <4>1
    <3> QED BY <2>1, <3>1
  <2>2. CASE ~AcknowledgeRound(g, b)
    BY <1>0, <1>1, <1>2, <2>2 DEF HostBridgeStep, Connect, HostSeesClose, BridgeSeesClose, Register,
       ReceiveAck, ObserveHigher, ObserveHigherEpoch, GraceElapses, Expire, hostVars, memoryVars
  <2> QED BY <2>1, <2>2
<1>3. ASSUME NEW g \in Hosts, HostStep(g) PROVE FALSE
  BY <1>0, <1>1, <1>3 DEF HostStep, SignRound, Heartbeat, Fence, FencePrimaryWriter, Crash,
     HostCrash, Boot, HostBoot
<1>4. ASSUME NEW n \in Replicas, NEW b \in Bridges, AskStep(n, b) PROVE FALSE
  BY <1>1, <1>4 DEF AskStep, WitnessAbsent, WitnessOnline, WitnessUnavailable, ClaimGranted,
     ClaimUnavailable, ClaimConflict, SetElection, hostVars, memoryVars
<1>5. ASSUME NEW n \in Replicas, ElectionStep(n) PROVE FALSE
  <2>1. CASE Promote(n)
    BY <1>0, <2>1 DEF Promote, PromoteFromWitness
  <2>2. CASE ~Promote(n)
    BY <1>1, <1>5, <2>2 DEF ElectionStep, StartElection, BeginClaims, AbandonElection, SetElection,
       hostVars, memoryVars
  <2> QED BY <2>1, <2>2
<1>6. ASSUME NEW b \in Bridges, CrashBridge(b) PROVE FALSE
  BY <1>1, <1>6 DEF CrashBridge, hostVars, memoryVars
<1>7. CASE UNCHANGED vars
  BY <1>1, <1>7 DEF vars, hostVars, memoryVars
<1> QED BY <1>2, <1>3, <1>4, <1>5, <1>6, <1>7 DEF Next

LEMMA ResumingRound ==
    ASSUME TypeInv, NEW h \in Hosts, NEW c \in Bridges, AcknowledgeRound(h, c),
           ~writer[h], writer'[h]
    PROVE  /\ acked'[h] = acked[h] \cup {c}
           /\ HasStrictQuorum(acked[h] \cup {c})
<1> DEFINE resumes == /\ resumeEligible[h] /\ pending[h]
                      /\ round[h].role = "primary" /\ round[h].epoch = hostEpoch[h]
                      /\ HasStrictQuorum(acked[h] \cup {c})
<1>0. writer \in [Hosts -> BOOLEAN] /\ acked \in [Hosts -> SUBSET Bridges]
  BY DEF TypeInv, TypeOK, MemoryTypeOK
<1>1. writer' = [writer EXCEPT ![h] = @ \/ resumes]
  BY DEF AcknowledgeRound
<1>2. resumes
  <2> HIDE DEF resumes
  <2>1. writer'[h] = (writer[h] \/ resumes)
    BY <1>0, <1>1, Zenon
  <2> QED BY <2>1
<1>3. acked' = [acked EXCEPT ![h] = acked[h] \cup {c}]
  BY <1>2 DEF AcknowledgeRound
<1> QED BY <1>0, <1>2, <1>3

\* A restarted writer whose ACKs all came over sockets that are still bound does not
\* resume once a majority of the bridges lists a successor.
THEOREM SucceededDoNotResume == Spec => ResumesUnlessSucceeded
<1>1. ASSUME TypeInv, EpochInv, ElectionSafety, AuthorityInv, [Next]_vars, NEW h \in Hosts,
             resumeEligible[h], writer'[h], \A b \in acked'[h] : link[h][b] = "bound",
             Succeeded(h)
      PROVE  FALSE
  <2>0. TypeInv' /\ acked \in [Hosts -> SUBSET Bridges]
    BY <1>1, StepTypeInv DEF TypeInv, TypeOK, MemoryTypeOK
  <2>1. ~writer[h] /\ Holds(h, hostEpoch[h])
    BY <1>1 DEF AuthorityInv, OfficeInv, MayWrite, EpochInv, HostsFit, Claims
  <2> DEFINE listing == {b \in Bridges : \E m \in Marks(b) :
                            m.role = "primary" /\ m.epoch > hostEpoch[h]}
  <2>3. h = PrimaryHost
    <3> SUFFICES ASSUME h # PrimaryHost PROVE FALSE
      OBVIOUS
    <3>1. hostEpoch[h] = 1
      BY <2>1 DEF Holds
    <3>2. \A b \in Bridges : \A m \in Marks(b) : m.epoch \in {0, 1}
      BY <1>1 DEF Marks, EpochInv, MarksFit, RecordFits, EpochFits
    <3>3. listing = {}
      BY <3>1, <3>2
    <3> QED BY <1>1, <3>3, NoMajorityOfNone DEF Succeeded
  <2>4. IsMajority(acked'[h], Bridges)
    <3>1. PICK c \in Bridges : AcknowledgeRound(h, c)
      BY <1>1, <2>1, <2>3, ResumingStep DEF Replicas
    <3>2. acked'[h] = acked[h] \cup {c} /\ HasStrictQuorum(acked[h] \cup {c})
      BY <1>1, <2>1, <3>1, ResumingRound
    <3> QED BY <3>2 DEF HasStrictQuorum, WitnessBridgeSets
  <2>5. PICK b \in Bridges : b \in acked'[h] /\ b \in listing
    <3>1. acked'[h] \in SUBSET Bridges /\ listing \in SUBSET Bridges
      BY <2>0 DEF TypeInv, TypeOK, MemoryTypeOK
    <3>2. IsMajority(listing, Bridges)
      BY <1>1 DEF Succeeded
    <3> HIDE DEF listing
    <3> QED BY <2>4, <3>1, <3>2, BridgeMajoritiesMeet
  <2>6. hostEpoch[h] = 0 /\ link[PrimaryHost][b] = "bound"
    BY <1>1, <2>1, <2>3, <2>5 DEF Holds
  <2>7. PICK m \in Marks(b) : m.role = "primary" /\ m.epoch > 0
    BY <2>5, <2>6
  <2>8. ListsSuccessor(b)
    <3>1. PICK g \in Hosts : m = highWaterMarks[b][g] /\ m # NoRecord
      BY DEF Marks
    <3>2. g # PrimaryHost
      BY <1>1, <2>7, <3>1 DEF EpochInv, MarksFit, RecordFits, Holds
    <3> QED BY <2>7, <3>1, <3>2 DEF ListsSuccessor, Replicas
  <2> QED BY <1>1, <2>3, <2>6, <2>8 DEF AuthorityInv, Superseded
<1>2. TypeInv /\ EpochInv /\ ElectionSafety /\ AuthorityInv /\ [Next]_vars
        => [\A h \in Hosts :
              resumeEligible[h] /\ writer'[h] /\ (\A b \in acked'[h] : link[h][b] = "bound")
                => ~Succeeded(h)]_vars
  BY <1>1
<1> QED BY <1>2, AuthorityInvHolds, PTL DEF Spec, ResumesUnlessSucceeded

-----------------------------------------------------------------------------
(***************************************************************************)
(* One writer, while the founder's process does not crash.  Bridges may    *)
(* restart, replicas crash, sockets break and requests fail.  A replica    *)
(* claims votes only of the bridges that it saw call the founder absent;   *)
(* a claim succeeds only where the founder has not published since; so     *)
(* when the claims begin, those that can still succeed are bridges that    *)
(* call the founder absent at that one moment, and by then the founder is  *)
(* fenced if they are a majority.                                          *)
(***************************************************************************)
FounderNeverCrashes == MaxCrashes[PrimaryHost] = 0

FounderRuns ==
    faults.crash[PrimaryHost] = 0 /\ up[PrimaryHost] /\ ~resumeEligible[PrimaryHost]

NoReceiptsYet == \A n \in Replicas : election[n].phase = "witness" => election[n].granted = {}

AbsentAreSilent ==
    \A n \in Replicas : election[n].phase # "idle" =>
        \A b \in election[n].absent : FounderSilent(b, election[n].target)

\* The votes that n has, and those its attempt may still get.
StillAbsent(b, p) ==
    highWaterMarks[b][PrimaryHost] = p /\ presence[b][PrimaryHost] = "absent"

Winnable(n) ==
    election[n].granted \cup {b \in Unclaimed(n) : StillAbsent(b, election[n].target)}

Hopeless(n) == election[n].phase = "claim" => ~IsMajority(Winnable(n), Trust[n])

\* While the founder writes, no majority calls it absent, no attempt can succeed and
\* none has succeeded.
FounderWrites ==
    writer[PrimaryHost] =>
        /\ ~IsMajority(AbsentAt(PrimaryHost), Bridges)
        /\ \A n \in Replicas : Hopeless(n) /\ ~Promoted(n)

SoleWriterInv == FounderRuns /\ NoReceiptsYet /\ AbsentAreSilent /\ FounderWrites

LEMMA InitSoleWriterInv ==
    ASSUME FounderNeverCrashes, Init
    PROVE  SoleWriterInv
<1>0. PrimaryHost \in Hosts /\ PrimaryHost \notin Replicas /\ Replicas \subseteq Hosts
  BY PrimaryInHosts DEF Replicas
<1>1. FounderRuns
  BY <1>0 DEF Init, FounderRuns, FounderNeverCrashes
<1>2. NoReceiptsYet /\ AbsentAreSilent
  BY DEF Init, NoReceiptsYet, AbsentAreSilent, NoElection
<1>3. AbsentAt(PrimaryHost) = {}
  BY <1>0 DEF Init, AbsentAt, ByHost
<1>4. \A n \in Replicas : Hopeless(n) /\ ~Promoted(n)
  BY <1>0 DEF Init, Hopeless, Promoted, NoElection
<1> QED BY <1>1, <1>2, <1>3, <1>4, NoMajorityOfNone DEF SoleWriterInv, FounderWrites

\* The budget of crashes is only spent by crashes.
LEMMA StepFounderRuns ==
    ASSUME TypeInv, EpochInv, FounderRuns, [Next]_vars
    PROVE  FounderRuns' /\ ~Starts(PrimaryHost) /\ ~Resumes(PrimaryHost)
<1>0. PrimaryHost \in Hosts /\ faults \in Faults
  BY PrimaryInHosts DEF TypeInv, TypeOK
<1>1. ASSUME NEW h \in Hosts, NEW b \in Bridges, HostBridgeStep(h, b)
      PROVE  faults' = faults \/ faults' = [faults EXCEPT !.drop = @ - 1]
  BY <1>1 DEF HostBridgeStep, Connect, HostSeesClose, BridgeSeesClose, SocketFault, Register,
     ReceiveAck, ObserveHigher, GraceElapses, Expire
<1>2. ASSUME NEW h \in Hosts, HostStep(h)
      PROVE  /\ faults' = faults \/ (h # PrimaryHost /\ faults' = [faults EXCEPT !.crash[h] = @ - 1])
             /\ Crash(h) => h # PrimaryHost
  <2>1. CASE Crash(h)
    <3>1. faults.crash[h] > 0 /\ faults' = [faults EXCEPT !.crash[h] = @ - 1]
      BY <2>1 DEF Crash
    <3>2. h # PrimaryHost
      BY <3>1 DEF FounderRuns
    <3> QED BY <3>1, <3>2
  <2>2. CASE ~Crash(h)
    BY <1>2, <2>2 DEF HostStep, SignRound, Heartbeat, Fence, Boot
  <2> QED BY <2>1, <2>2
<1>3. ASSUME NEW n \in Replicas, NEW b \in Bridges, AskStep(n, b) PROVE faults' = faults
  BY <1>3 DEF AskStep, WitnessAbsent, WitnessOnline, WitnessUnavailable, ClaimGranted,
     ClaimUnavailable, ClaimConflict, SetElection
<1>4. ASSUME NEW n \in Replicas, ElectionStep(n) PROVE faults' = faults
  BY <1>4 DEF ElectionStep, StartElection, BeginClaims, Promote, AbandonElection, SetElection
<1>5. ASSUME NEW b \in Bridges, CrashBridge(b) PROVE faults' = [faults EXCEPT !.restart = @ - 1]
  BY <1>5 DEF CrashBridge
<1>6. ASSUME UNCHANGED vars PROVE faults' = faults
  BY <1>6 DEF vars
<1>7. \/ faults' = faults
      \/ faults' = [faults EXCEPT !.drop = @ - 1]
      \/ faults' = [faults EXCEPT !.restart = @ - 1]
      \/ \E h \in Hosts : h # PrimaryHost /\ faults' = [faults EXCEPT !.crash[h] = @ - 1]
  BY <1>1, <1>2, <1>3, <1>4, <1>5, <1>6 DEF Next
<1>8. faults'.crash[PrimaryHost] = faults.crash[PrimaryHost]
  BY <1>0, <1>7 DEF Faults
<1>9. up'[PrimaryHost]
  <2>1. ASSUME NEW h \in Hosts, HostStep(h) PROVE up' = up \/ Boot(h) \/ (Crash(h) /\ h # PrimaryHost)
    BY <1>2, <2>1 DEF HostStep, SignRound, Heartbeat, Fence, FencePrimaryWriter
  <2>2. up' = up \/ \E h \in Hosts : Boot(h) \/ (Crash(h) /\ h # PrimaryHost)
    <3>1. ASSUME NEW h \in Hosts, NEW b \in Bridges, HostBridgeStep(h, b) PROVE up' = up
      BY <3>1 DEF HostBridgeStep, Connect, HostSeesClose, BridgeSeesClose, Register, ReceiveAck,
         AcknowledgeRound, ObserveHigher, ObserveHigherEpoch, GraceElapses, Expire, hostVars,
         memoryVars
    <3>2. ASSUME NEW n \in Replicas, NEW b \in Bridges, AskStep(n, b) PROVE up' = up
      BY <3>2 DEF AskStep, WitnessAbsent, WitnessOnline, WitnessUnavailable, ClaimGranted,
         ClaimUnavailable, ClaimConflict, SetElection, hostVars, memoryVars
    <3>3. ASSUME NEW n \in Replicas, ElectionStep(n) PROVE up' = up
      BY <3>3 DEF ElectionStep, StartElection, BeginClaims, Promote, PromoteFromWitness,
         AbandonElection, SetElection, hostVars, memoryVars
    <3>4. ASSUME NEW b \in Bridges, CrashBridge(b) PROVE up' = up
      BY <3>4 DEF CrashBridge, hostVars, memoryVars
    <3>5. CASE UNCHANGED vars
      BY <3>5 DEF vars, hostVars, memoryVars
    <3> QED BY <2>1, <3>1, <3>2, <3>3, <3>4, <3>5 DEF Next
  <2>3. up \in [Hosts -> BOOLEAN] /\ up[PrimaryHost]
    BY DEF TypeInv, TypeOK, MemoryTypeOK, FounderRuns
  <2>4. ASSUME NEW h \in Hosts, Boot(h) PROVE up'[PrimaryHost]
    BY <1>0, <2>3, <2>4 DEF Boot, HostBoot
  <2>5. ASSUME NEW h \in Hosts, Crash(h), h # PrimaryHost PROVE up'[PrimaryHost]
    BY <1>0, <2>3, <2>5 DEF Crash, HostCrash
  <2> QED BY <2>2, <2>3, <2>4, <2>5
<1>10. ~Starts(PrimaryHost) /\ ~Resumes(PrimaryHost)
  BY DEF FounderRuns, Starts, Resumes
<1>11. ~resumeEligible'[PrimaryHost]
  BY <1>0, <1>10, OfficeStep DEF FounderRuns, OfficeChange, StaysAs, SameFlags, IsFenced, Stops,
     NoFlags, IsSucceeded, IsElected
<1> QED BY <1>8, <1>9, <1>10, <1>11 DEF FounderRuns

\* What a step does to the attempt of replica n: an attempt of its own moves on, at most
\* one bridge answering, or it is left alone or dropped.
Drops(n) == election'[n].phase = "idle" /\ election'[n].granted = {}

OwnAttempt(n) == UNCHANGED <<highWaterMarks, presence, writer>>

Begins(n) ==
    /\ OwnAttempt(n)
    /\ election'[n].phase = "witness"
    /\ election'[n].absent = {} /\ election'[n].granted = {}

Witnesses(n) ==
    /\ OwnAttempt(n)
    /\ election[n].phase = "witness" /\ election'[n].phase = "witness"
    /\ election'[n].target = election[n].target /\ election'[n].granted = election[n].granted
    /\ \A b \in election'[n].absent :
         b \in election[n].absent \/ StillAbsent(b, election[n].target)

MovesToClaims(n) ==
    /\ OwnAttempt(n)
    /\ election[n].phase = "witness" /\ election'[n].phase = "claim"
    /\ election'[n].target = election[n].target /\ election'[n].granted = election[n].granted
    /\ election'[n].absent = election[n].absent

Claimed(n) ==
    /\ OwnAttempt(n)
    /\ election[n].phase = "claim" /\ election'[n].phase = "claim"
    /\ election'[n].target = election[n].target /\ election'[n].absent = election[n].absent
    /\ Winnable(n)' \subseteq Winnable(n)

ElectionChange(n) ==
    \/ election'[n] = election[n]
    \/ Drops(n) \/ Begins(n) \/ Witnesses(n) \/ MovesToClaims(n) \/ Claimed(n)

LEMMA AskChange ==
    ASSUME TypeInv, EpochInv, NEW n \in Replicas, NEW b \in Bridges, AskStep(n, b)
    PROVE  ElectionChange(n)
<1>0. /\ election \in [Replicas -> Election] /\ election[n] \in Election
  BY DEF TypeInv, TypeOK, CoordinatorsTypeOK
<1> DEFINE e == Answered(n, b)
           t == election[n].target
<1>1. /\ e \in Election /\ e.phase = election[n].phase /\ e.target = t
      /\ e.absent = election[n].absent /\ e.granted = election[n].granted
      /\ e.tried = election[n].tried \cup {b}
  BY <1>0, AnsweredType DEF Answered, Election
<1>2. OwnAttempt(n)
  BY DEF AskStep, WitnessAbsent, WitnessOnline, WitnessUnavailable, ClaimGranted,
     GrantPromotionVote, ClaimUnavailable, ClaimConflict, SetElection, OwnAttempt, bridgeVars,
     hostVars, memoryVars
<1>3. CASE WitnessAbsent(n, b)
  <2>1. /\ election[n].phase = "witness" /\ IsKnownPrimary(b, t)
        /\ presence[b][PrimaryHost] = "absent"
        /\ election' = [election EXCEPT ![n] = [e EXCEPT !.absent = @ \cup {b}]]
    BY <1>3 DEF WitnessAbsent, Awaited, PrimaryOnline, SetElection
  <2>2. t.epoch = 0
    BY <2>1 DEF EpochInv, TargetsFit
  <2>3. StillAbsent(b, t)
    BY <2>1, <2>2, CheckpointIsFounders DEF StillAbsent
  <2>4. election'[n] = [e EXCEPT !.absent = @ \cup {b}]
    BY <1>0, <2>1
  <2>5. /\ election'[n].phase = "witness" /\ election'[n].target = t
        /\ election'[n].granted = election[n].granted
        /\ election'[n].absent = election[n].absent \cup {b}
    BY <1>1, <2>1, <2>4 DEF Election
  <2> QED BY <1>2, <2>1, <2>3, <2>5 DEF ElectionChange, Witnesses
<1>4. CASE WitnessOnline(n, b)
  BY <1>0, <1>4 DEF WitnessOnline, SetElection, ElectionChange, Drops, NoElection
<1>5. CASE WitnessUnavailable(n, b)
  <2>1. election[n].phase = "witness" /\ election'[n] = e
    BY <1>0, <1>5 DEF WitnessUnavailable, Awaited, SetElection
  <2> QED BY <1>1, <1>2, <2>1 DEF ElectionChange, Witnesses
<1>6. ASSUME election[n].phase = "claim", election'[n] = e
      PROVE  ElectionChange(n)
  <2>1. Winnable(n)' \subseteq Winnable(n)
    BY <1>1, <1>2, <1>6 DEF Winnable, Unclaimed, StillAbsent, OwnAttempt
  <2> QED BY <1>1, <1>2, <1>6, <2>1 DEF ElectionChange, Claimed
<1>7. CASE ClaimGranted(n, b)
  <2>1. /\ election[n].phase = "claim" /\ b \in Unclaimed(n)
        /\ IsKnownPrimary(b, t) /\ presence[b][t.host] = "absent"
    BY <1>7 DEF ClaimGranted, NextClaim, GrantPromotionVote, VoteConflict, PrimaryOnline
  <2>2. t.epoch = 0
    BY <2>1 DEF EpochInv, TargetsFit
  <2>3. StillAbsent(b, t)
    BY <2>1, <2>2, CheckpointIsFounders DEF StillAbsent
  <2>4. CASE SetElection(n, e)
    BY <1>0, <1>6, <2>1, <2>4 DEF SetElection
  <2>5. CASE SetElection(n, [e EXCEPT !.granted = @ \cup {b}])
    <3>1. election'[n] = [e EXCEPT !.granted = @ \cup {b}]
      BY <1>0, <2>5 DEF SetElection
    <3>2. /\ election'[n].phase = "claim" /\ election'[n].target = t
          /\ election'[n].absent = election[n].absent
          /\ election'[n].granted = election[n].granted \cup {b}
          /\ election'[n].tried = election[n].tried \cup {b}
      BY <1>1, <2>1, <3>1 DEF Election
    <3>3. Winnable(n)' \subseteq Winnable(n)
      BY <1>2, <2>1, <2>3, <3>2 DEF Winnable, Unclaimed, StillAbsent, OwnAttempt
    <3> QED BY <1>2, <2>1, <3>2, <3>3 DEF ElectionChange, Claimed
  <2> QED BY <1>7, <2>4, <2>5 DEF ClaimGranted
<1>8. CASE ClaimUnavailable(n, b)
  BY <1>0, <1>6, <1>8 DEF ClaimUnavailable, NextClaim, SetElection
<1>9. CASE ClaimConflict(n, b)
  <2>1. /\ election[n].phase = "claim"
        /\ election'[n] = [election[n] EXCEPT !.tried = election[n].absent]
    BY <1>0, <1>9 DEF ClaimConflict, NextClaim, SetElection
  <2>2. /\ election'[n].phase = "claim" /\ election'[n].target = t
        /\ election'[n].absent = election[n].absent
        /\ election'[n].granted = election[n].granted
        /\ election'[n].tried = election[n].absent
    BY <1>0, <2>1 DEF Election
  <2>3. Winnable(n)' \subseteq Winnable(n)
    BY <2>2 DEF Winnable, Unclaimed
  <2> QED BY <1>2, <2>1, <2>2, <2>3 DEF ElectionChange, Claimed
<1> QED BY <1>3, <1>4, <1>5, <1>7, <1>8, <1>9 DEF AskStep

LEMMA ElectionStepChange ==
    ASSUME TypeInv, NEW n \in Replicas, ElectionStep(n)
    PROVE  ElectionChange(n)
<1>0. /\ election \in [Replicas -> Election] /\ election[n] \in Election
  BY DEF TypeInv, TypeOK, CoordinatorsTypeOK
<1>1. CASE StartElection(n)
  <2>1. PICK b \in Resolvable(n) :
          election' = [election EXCEPT ![n] =
                [NoElection EXCEPT !.phase = "witness",
                                   !.target = highWaterMarks[b][PrimaryHost]]]
    BY <1>1 DEF StartElection, SetElection
  <2>2. /\ election'[n].phase = "witness"
        /\ election'[n].absent = {} /\ election'[n].granted = {}
    BY <1>0, <2>1 DEF NoElection
  <2>3. OwnAttempt(n)
    BY <1>1 DEF StartElection, SetElection, OwnAttempt, bridgeVars, hostVars, memoryVars
  <2> QED BY <2>2, <2>3 DEF ElectionChange, Begins
<1>2. CASE BeginClaims(n)
  <2>1. /\ election[n].phase = "witness"
        /\ election' = [election EXCEPT ![n] = [election[n] EXCEPT !.phase = "claim", !.tried = {}]]
    BY <1>2 DEF BeginClaims, SetElection
  <2>2. /\ election'[n].phase = "claim" /\ election'[n].target = election[n].target
        /\ election'[n].absent = election[n].absent
        /\ election'[n].granted = election[n].granted
    BY <1>0, <2>1 DEF Election
  <2>3. OwnAttempt(n)
    BY <1>2 DEF BeginClaims, SetElection, OwnAttempt, bridgeVars, hostVars, memoryVars
  <2> QED BY <2>1, <2>2, <2>3 DEF ElectionChange, MovesToClaims
<1>3. CASE Promote(n) \/ AbandonElection(n)
  <2>1. election' = [election EXCEPT ![n] = NoElection]
    BY <1>3 DEF Promote, AbandonElection, SetElection
  <2> QED BY <1>0, <2>1 DEF ElectionChange, Drops, NoElection
<1> QED BY <1>1, <1>2, <1>3 DEF ElectionStep

LEMMA AttemptStep ==
    ASSUME TypeInv, EpochInv, [Next]_vars, NEW n \in Replicas
    PROVE  ElectionChange(n)
<1>0. election \in [Replicas -> Election]
  BY DEF TypeInv, TypeOK, CoordinatorsTypeOK
<1>1. ASSUME election' = election PROVE ElectionChange(n)
  BY <1>1 DEF ElectionChange
<1>2. ASSUME NEW h \in Hosts, NEW b \in Bridges, HostBridgeStep(h, b) PROVE election' = election
  BY <1>2 DEF HostBridgeStep, Connect, HostSeesClose, BridgeSeesClose, Register, ReceiveAck,
     ObserveHigher, GraceElapses, Expire, coordinatorVars
<1>3. ASSUME NEW h \in Hosts, HostStep(h) PROVE ElectionChange(n)
  <2>1. CASE Crash(h)
    BY <1>0, <2>1 DEF Crash, ElectionChange, Drops, NoElection
  <2>2. CASE ~Crash(h)
    <3>1. election' = election
      BY <1>3, <2>2 DEF HostStep, SignRound, Heartbeat, Fence, Boot, coordinatorVars
    <3> QED BY <1>1, <3>1
  <2> QED BY <2>1, <2>2
<1>4. ASSUME NEW m \in Replicas, m # n, NEW e, election' = [election EXCEPT ![m] = e]
      PROVE  ElectionChange(n)
  <2>1. election'[n] = election[n]
    BY <1>0, <1>4
  <2> QED BY <2>1 DEF ElectionChange
<1>5. ASSUME NEW m \in Replicas, NEW b \in Bridges, AskStep(m, b) PROVE ElectionChange(n)
  <2>1. \E e : election' = [election EXCEPT ![m] = e]
    BY <1>5 DEF AskStep, WitnessAbsent, WitnessOnline, WitnessUnavailable, ClaimGranted,
       ClaimUnavailable, ClaimConflict, SetElection
  <2> QED BY <1>4, <1>5, <2>1, AskChange
<1>6. ASSUME NEW m \in Replicas, ElectionStep(m) PROVE ElectionChange(n)
  <2>1. \E e : election' = [election EXCEPT ![m] = e]
    BY <1>6 DEF ElectionStep, StartElection, BeginClaims, Promote, AbandonElection, SetElection
  <2> QED BY <1>4, <1>6, <2>1, ElectionStepChange
<1>7. ASSUME NEW b \in Bridges, CrashBridge(b) PROVE election' = election
  BY <1>7 DEF CrashBridge
<1>8. ASSUME UNCHANGED vars PROVE election' = election
  BY <1>8 DEF vars, coordinatorVars
<1> QED BY <1>1, <1>2, <1>3, <1>5, <1>6, <1>7, <1>8 DEF Next

LEMMA MajorityGrows ==
    ASSUME NEW W \in SUBSET Bridges, NEW T, NEW S \in SUBSET T, IsMajority(S, W)
    PROVE  IsMajority(T, W)
<1>1. IsFiniteSet(T \cap W) /\ S \cap W \subseteq T \cap W
  BY BridgesAssumption, FS_Subset
<1>2. /\ Cardinality(S \cap W) <= Cardinality(T \cap W)
      /\ Cardinality(S \cap W) \in Nat /\ Cardinality(T \cap W) \in Nat
  BY <1>1, FS_Subset, FS_CardinalityType
<1>3. Cardinality(W) \in Nat
  BY BridgesAssumption, FS_Subset, FS_CardinalityType
<1>4. (Cardinality(W) \div 2) + 1 \in Nat
  BY <1>3
<1> QED BY <1>2, <1>4 DEF IsMajority

\* A strict majority of two or three bridges is two, and so is one of all of them.
LEMMA TrustMajorityIsMajority ==
    ASSUME NEW n \in Replicas, NEW S \in SUBSET Bridges, IsMajority(S, Trust[n])
    PROVE  IsMajority(S, Bridges)
<1>1. Trust[n] \subseteq Bridges /\ Cardinality(Trust[n]) >= 2
  BY TrustAssumption
<1>2. /\ Cardinality(Trust[n]) \in Nat /\ IsFiniteSet(S \cap Bridges)
      /\ Cardinality(Bridges) \in Nat /\ Cardinality(Bridges) <= 3
  BY <1>1, BridgesAssumption, FS_Subset, FS_CardinalityType
<1>3. S \cap Trust[n] \subseteq S \cap Bridges
  BY <1>1
<1>4. /\ Cardinality(S \cap Trust[n]) <= Cardinality(S \cap Bridges)
      /\ Cardinality(S \cap Trust[n]) \in Nat /\ Cardinality(S \cap Bridges) \in Nat
  BY <1>2, <1>3, FS_Subset, FS_CardinalityType
<1>5. (Cardinality(Trust[n]) \div 2) + 1 >= 2 /\ (Cardinality(Trust[n]) \div 2) + 1 \in Nat
  BY <1>1, <1>2
<1>6. (Cardinality(Bridges) \div 2) + 1 <= 2 /\ (Cardinality(Bridges) \div 2) + 1 \in Nat
  BY <1>2
<1>7. Cardinality(S \cap Trust[n]) >= 2
  BY <1>4, <1>5 DEF IsMajority
<1> QED BY <1>4, <1>6, <1>7 DEF IsMajority

\* The founder turns absent at a bridge when the bridge's clock says so, and only there.
LEMMA TurnsAbsent ==
    ASSUME TypeInv, EpochInv, Numbered, [Next]_vars, NEW b \in Bridges, NEW f \in Hosts,
           presence'[b][f] = "absent", presence[b][f] # "absent"
    PROVE  GraceElapses(f, b)
<1>0. presence \in [Bridges -> [Hosts -> Presence]]
  BY DEF TypeInv, TypeOK, BridgesTypeOK
<1>1. presence' # presence
  OBVIOUS
<1>2. ASSUME NEW h \in Hosts, NEW c \in Bridges, HostBridgeStep(h, c) PROVE GraceElapses(f, b)
  <2>1. CASE Register(h, c)
    <3>1. PICK r \in Publication(h, c) : presence' = [presence EXCEPT ![c][r.host] = "bound"]
      BY <2>1 DEF Register, CommitRegistration
    <3>2. r.host \in Hosts
      BY <3>1, PublicationKnown
    <3> QED BY <1>0, <3>1, <3>2
  <2>2. CASE BridgeSeesClose(h, c)
    <3>1. \/ presence' = presence
          \/ presence' = [presence EXCEPT ![c][h] = IF @ = "bound" THEN "gone" ELSE @]
      BY <2>2 DEF BridgeSeesClose, UnbindSocket, bridgeVars
    <3> QED BY <1>0, <3>1
  <2>3. CASE Expire(h, c)
    <3>1. presence' = [presence EXCEPT ![c][h] = IF @ = "bound" THEN "gone" ELSE @]
      BY <2>3 DEF Expire, RecordExpires
    <3> QED BY <1>0, <3>1
  <2>4. CASE GraceElapses(h, c)
    <3>1. presence' = [presence EXCEPT ![c][h] = "absent"]
      BY <2>4 DEF GraceElapses, AbsenceGraceElapses
    <3>2. c = b /\ h = f
      BY <1>0, <3>1
    <3> QED BY <2>4, <3>2
  <2> QED BY <1>1, <1>2, <2>1, <2>2, <2>3, <2>4
          DEF HostBridgeStep, Connect, HostSeesClose, ReceiveAck, ObserveHigher, bridgeVars
<1>3. ASSUME NEW h \in Hosts, HostStep(h) PROVE FALSE
  BY <1>1, <1>3 DEF HostStep, SignRound, Heartbeat, Fence, Crash, Boot, bridgeVars
<1>4. ASSUME NEW n \in Replicas, NEW c \in Bridges, AskStep(n, c) PROVE FALSE
  BY <1>1, <1>4 DEF AskStep, WitnessAbsent, WitnessOnline, WitnessUnavailable, ClaimGranted,
     GrantPromotionVote, ClaimUnavailable, ClaimConflict, bridgeVars
<1>5. ASSUME NEW n \in Replicas, ElectionStep(n) PROVE FALSE
  BY <1>1, <1>5 DEF ElectionStep, StartElection, BeginClaims, Promote, AbandonElection, bridgeVars
<1>6. ASSUME NEW c \in Bridges, CrashBridge(c) PROVE FALSE
  <2>1. presence' = [presence EXCEPT ![c] = [h \in Hosts |-> "unknown"]]
    BY <1>6 DEF CrashBridge, BridgeRestart
  <2> QED BY <1>0, <2>1
<1>7. CASE UNCHANGED vars
  BY <1>1, <1>7 DEF vars, bridgeVars
<1> QED BY <1>2, <1>3, <1>4, <1>5, <1>6, <1>7 DEF Next

LEMMA StepAbsentAreSilent ==
    ASSUME TypeInv, EpochInv, Numbered, EndsAgree, FounderMarked, AbsentAreSilent, [Next]_vars
    PROVE  AbsentAreSilent'
<1> SUFFICES ASSUME NEW n \in Replicas, election'[n].phase # "idle", NEW b \in election'[n].absent
             PROVE  FounderSilent(b, election[n].target)'
  BY DEF AbsentAreSilent
<1>1. CASE election'[n].absent = {}
  BY <1>1
<1>2. CASE /\ election[n].phase # "idle" /\ election'[n].target = election[n].target
           /\ b \in election[n].absent \/ StillAbsent(b, election[n].target)
  <2>1. election[n].target \in Record
    BY <1>2, TargetType
  <2>2. b \in Bridges
    BY StepTypeInv, TrustAssumption DEF TypeInv, ElectionShape
  <2>3. FounderSilent(b, election[n].target)
    BY <1>2 DEF AbsentAreSilent, StillAbsent, FounderSilent
  <2>4. FounderSilent(b, election[n].target) => \A p : p = election[n].target => FounderSilent(b, p)
    OBVIOUS
  <2>5. \A p \in Record : FounderSilent(b, p) => FounderSilent(b, p)'
    BY <2>2, FounderStaysSilent
  <2> QED BY <1>2, <2>1, <2>3, <2>5 DEF FounderSilent
<1> QED BY <1>1, <1>2, AttemptStep
        DEF ElectionChange, Drops, Begins, Witnesses, MovesToClaims, Claimed

LEMMA StepNoReceiptsYet ==
    ASSUME TypeInv, EpochInv, NoReceiptsYet, [Next]_vars
    PROVE  NoReceiptsYet'
BY AttemptStep
DEF NoReceiptsYet, ElectionChange, Drops, Begins, Witnesses, MovesToClaims, Claimed

\* The attempt of n wins nothing by what the others do.
LEMMA WinnableShrinks ==
    ASSUME TypeInv, EpochInv, Numbered, EndsAgree, FounderMarked, AbsentAreSilent, [Next]_vars,
           NEW n \in Replicas, election[n].phase = "claim", election'[n] = election[n]
    PROVE  Winnable(n)' \subseteq Winnable(n)
<1> DEFINE t == election[n].target
<1>1. ASSUME NEW b \in Unclaimed(n), StillAbsent(b, t)'
      PROVE  StillAbsent(b, t)
  <2>0. b \in Bridges /\ b \in election[n].absent /\ t \in Record /\ PrimaryHost \in Hosts
    BY TargetType, PrimaryInHosts DEF Unclaimed
  <2>1. FounderSilent(b, t)
    BY <2>0 DEF AbsentAreSilent
  <2>2. highWaterMarks'[b][PrimaryHost] = t /\ presence'[b][PrimaryHost] = "absent"
    BY <1>1 DEF StillAbsent
  <2>3. /\ highWaterMarks[b][PrimaryHost] \in Record
        /\ \/ t = highWaterMarks[b][PrimaryHost]
           \/ t.seq = highWaterMarks[b][PrimaryHost].seq + 1
    BY <2>0, <2>2, MarkType, MarksAdvance DEF FounderMarked
  <2>4. highWaterMarks[b][PrimaryHost] = t /\ presence[b][PrimaryHost] \in {"absent", "unknown"}
    BY <2>0, <2>1, <2>3 DEF FounderSilent, Record
  <2>5. presence[b][PrimaryHost] = "absent"
    <3>1. presence[b][PrimaryHost] # "absent" => presence[b][PrimaryHost] = "gone"
      BY <2>0, <2>2, TurnsAbsent DEF GraceElapses, AbsenceGraceElapses
    <3> QED BY <2>4, <3>1
  <2> QED BY <2>4, <2>5 DEF StillAbsent
<1> QED BY <1>1 DEF Winnable, Unclaimed, StillAbsent

LEMMA StepFounderWrites ==
    ASSUME TypeInv, EpochInv, AuthorityInv, SoleWriterInv, [Next]_vars
    PROVE  FounderWrites'
<1> USE DEF AuthorityInv, OfficeInv, SoleWriterInv
<1> SUFFICES ASSUME writer'[PrimaryHost]
             PROVE  /\ ~IsMajority(AbsentAt(PrimaryHost), Bridges)'
                    /\ \A n \in Replicas : Hopeless(n)' /\ ~Promoted(n)'
  BY DEF FounderWrites
<1>0. PrimaryHost \in Hosts /\ PrimaryHost \notin Replicas
  BY PrimaryInHosts DEF Replicas
<1>1. writer[PrimaryHost]
  BY <1>0, StepFounderRuns, OfficeStep DEF OfficeChange, StaysAs, SameFlags, IsFenced, Stops,
     NoFlags, IsSucceeded, IsElected
<1>2. /\ ~IsMajority(AbsentAt(PrimaryHost), Bridges)
      /\ \A n \in Replicas : Hopeless(n) /\ ~Promoted(n)
  BY <1>1 DEF FounderWrites
<1>3. ~IsMajority(AbsentAt(PrimaryHost), Bridges)'
  <2>1. CASE AbsentAt(PrimaryHost)' \subseteq AbsentAt(PrimaryHost)
    BY <1>2, <2>1, MajorityGrows DEF IsMajority
  <2>2. CASE ~(AbsentAt(PrimaryHost)' \subseteq AbsentAt(PrimaryHost))
    <3>1. PICK b \in Bridges : GraceElapses(PrimaryHost, b)
      BY <1>0, <2>2, TurnsAbsent DEF AbsentAt
    <3>2. /\ ~IsMajority(AbsentAt(PrimaryHost) \cup {b}, Bridges)
          /\ presence' = [presence EXCEPT ![b][PrimaryHost] = "absent"]
      BY <1>1, <3>1 DEF GraceElapses, AbsenceGraceElapses
    <3>3. AbsentAt(PrimaryHost)' = AbsentAt(PrimaryHost) \cup {b}
      BY <1>0, <3>2 DEF AbsentAt, TypeInv, TypeOK, BridgesTypeOK
    <3> QED BY <3>2, <3>3 DEF IsMajority
  <2> QED BY <2>1, <2>2
<1>4. ASSUME NEW n \in Replicas PROVE Hopeless(n)' /\ ~Promoted(n)'
  <2>0. Trust[n] \in SUBSET Bridges
    BY TrustAssumption
  <2>1. ASSUME election'[n].phase = "claim", IsMajority(Winnable(n)', Trust[n])
        PROVE  FALSE
    <3>1. ASSUME election[n].phase = "claim", Winnable(n)' \subseteq Winnable(n)
          PROVE  FALSE
      BY <1>2, <2>0, <2>1, <3>1, MajorityGrows DEF Hopeless
    <3>2. CASE MovesToClaims(n)
      <4>1. election'[n].granted = {}
        BY <3>2 DEF MovesToClaims, NoReceiptsYet
      <4>2. Winnable(n)' \subseteq AbsentAt(PrimaryHost)'
        <5>1. TypeInv'
          BY StepTypeInv
        <5>2. Unclaimed(n)' \subseteq Bridges
          BY <2>0, <5>1 DEF TypeInv, ElectionShape, Unclaimed
        <5> QED BY <4>1, <5>2 DEF Winnable, StillAbsent, AbsentAt
      <4>3. AbsentAt(PrimaryHost)' \in SUBSET Bridges
        BY DEF AbsentAt
      <4>4. IsMajority(AbsentAt(PrimaryHost)', Trust[n])
        BY <2>0, <2>1, <4>2, MajorityGrows
      <4>5. IsMajority(AbsentAt(PrimaryHost)', Bridges)
        BY <4>3, <4>4, TrustMajorityIsMajority
      <4> QED BY <1>3, <4>5 DEF IsMajority
    <3>3. CASE Claimed(n)
      BY <3>1, <3>3 DEF Claimed
    <3>4. CASE election'[n] = election[n]
      BY <2>1, <3>1, <3>4, WinnableShrinks
    <3> QED BY <2>1, <3>2, <3>3, <3>4, AttemptStep DEF ElectionChange, Drops, Begins, Witnesses
  <2>2. Hopeless(n)'
    BY <2>1 DEF Hopeless, IsMajority
  <2>3. ~Promoted(n)'
    <3>1. CASE certificate'[n] = certificate[n]
      BY <1>2, <3>1 DEF Promoted
    <3>2. CASE Promote(n)
      <4>1. election[n].phase = "claim" /\ IsMajority(election[n].granted, Trust[n])
        BY <3>2 DEF Promote, PromoteFromWitness
      <4>2. IsMajority(Winnable(n), Trust[n])
        BY <2>0, <4>1, MajorityGrows DEF Winnable
      <4> QED BY <1>2, <4>1, <4>2 DEF Hopeless
    <3> QED BY <3>1, <3>2, CertificateStep
  <2> QED BY <2>2, <2>3
<1> QED BY <1>3, <1>4

\* At most one running host accepts commands, whatever the bridges, the sockets and the
\* replicas do, as long as the founder's process does not crash.  With such a crash a
\* restarted founder may write beside its successor for a while (run Failover_two_writers);
\* WritersAreExclusive holds with it.
THEOREM OneWriter ==
    ASSUME FounderNeverCrashes
    PROVE  Spec => []SingleWriter
<1>1. Init => SoleWriterInv
  BY InitSoleWriterInv
<1>2. TypeInv /\ EpochInv /\ AuthorityInv /\ SoleWriterInv /\ [Next]_vars => SoleWriterInv'
  BY StepFounderRuns, StepNoReceiptsYet, StepAbsentAreSilent, StepFounderWrites
  DEF SoleWriterInv, AuthorityInv, OfficeInv
<1>3. TypeInv /\ EpochInv /\ ElectionSafety /\ AuthorityInv /\ SoleWriterInv => SingleWriter
  <2> SUFFICES ASSUME TypeInv, EpochInv, ElectionSafety, AuthorityInv, SoleWriterInv,
                      NEW g \in Hosts, NEW h \in Hosts, writer[g], writer[h]
               PROVE  g = h
    BY DEF SingleWriter
  <2>1. ASSUME NEW n \in Replicas, writer[n] PROVE Promoted(n) /\ Claims(n)
    BY <2>1 DEF EpochInv, HostsFit, Claims, Holds, Replicas
  <2>2. CASE g \in Replicas /\ h \in Replicas
    BY <2>1, <2>2, ReplicasDoNotOverlap
  <2>3. CASE g = PrimaryHost \/ h = PrimaryHost
    BY <2>1, <2>3 DEF SoleWriterInv, FounderWrites, Replicas
  <2> QED BY <2>2, <2>3 DEF Replicas
<1> QED BY <1>1, <1>2, <1>3, AuthorityInvHolds, PTL DEF Spec
===============================================================================
