------------------------- MODULE LeaseAndSpool_proofs -------------------------
(***************************************************************************)
(* Two parts of a JanjaNode that share no state: the clocks of its write   *)
(* authority (WriteLease) and its message spool (Spool).                   *)
(***************************************************************************)
EXTENDS WriteLease, Spool, FiniteSetTheorems, TLAPS

(***************************************************************************)
(* Why a writer is fenced before its absence can be attested, for every    *)
(* set of bridges and all clocks that satisfy GraceAssumption.             *)
(*                                                                         *)
(* The lease is as old as the last second in which a strict majority       *)
(* answered.  None of that majority can have lost the host for longer      *)
(* than the lease is old, plus what an answer may travel and one period of *)
(* the timers (LeaseBounded).  Such a majority meets every majority of     *)
(* bridges that would attest absence.                                      *)
(***************************************************************************)

LEMMA LeaseTypeInit == LeaseInit => LeaseTypeOK
<1> SUFFICES ASSUME LeaseInit PROVE LeaseTypeOK
  OBVIOUS
<1>1. leaseAge \in 0..FenceAfter /\ renewAge \in 0..RenewEvery /\ drops \in 0..MaxDrops
  BY LeaseAssumption DEF LeaseInit
<1>2. ackAge \in [Bridges -> 0..MaxDelay] /\ lostFor \in [Bridges -> 0..Grace]
  BY LeaseAssumption DEF LeaseInit
<1>3. committed \in BOOLEAN /\ acked \subseteq Bridges /\ listed \subseteq Bridges
  BY DEF LeaseInit
<1>4. link \in [Bridges -> LinkState]
  BY DEF LeaseInit, LinkState
<1> QED BY <1>1, <1>2, <1>3, <1>4 DEF LeaseInit, LeaseTypeOK

LEMMA LeaseTypeStep ==
    ASSUME LeaseTypeOK, [LeaseNext]_clockVars PROVE LeaseTypeOK'
<1> USE LeaseAssumption DEF LeaseTypeOK
<1>1. CASE BeginLivenessRound
  BY <1>1 DEF BeginLivenessRound, leaseVars, bridgeVars, networkVars
<1>2. CASE CheckFence
  BY <1>2 DEF CheckFence, quorumVars, bridgeVars, networkVars
<1>3. CASE Heartbeat
  <2>1. renewAge' \in 0..RenewEvery
    BY <1>3 DEF Heartbeat
  <2>2. UNCHANGED <<leaseVars, livenessDue, fenceDue, lost, lostFor, link, ackAge, drops>>
    BY <1>3 DEF Heartbeat
  <2>3. CASE committed
    BY <1>3, <2>1, <2>2, <2>3 DEF Heartbeat, leaseVars
  <2>4. CASE ~committed
    BY <1>3, <2>1, <2>2, <2>4 DEF Heartbeat, leaseVars, quorumVars
  <2> QED BY <2>3, <2>4
<1>4. CASE Tick
  <2>1. leaseAge' \in 0..FenceAfter /\ renewAge' \in 0..RenewEvery
    BY <1>4 DEF Tick, Older
  <2>2. lostFor' \in [Bridges -> 0..Grace]
    BY <1>4 DEF Tick, Older
  <2>3. ackAge' \in [Bridges -> 0..MaxDelay]
    <3>1. ASSUME NEW b \in Bridges
          PROVE  (IF b \in inFlight THEN ackAge[b] + 1 ELSE ackAge[b]) \in 0..MaxDelay
      BY <1>4 DEF Tick
    <3> QED BY <1>4, <3>1 DEF Tick
  <2> QED BY <1>4, <2>1, <2>2, <2>3 DEF Tick, quorumVars
<1>5. ASSUME NEW b \in Bridges, Answer(b) PROVE LeaseTypeOK'
  BY <1>5 DEF Answer, leaseVars, timerVars, bridgeVars, networkVars
<1>6. ASSUME NEW b \in Bridges, ConfirmLiveness(b) PROVE LeaseTypeOK'
  <2>1. leaseAge' \in 0..FenceAfter /\ live' \subseteq acked
    BY <1>6 DEF ConfirmLiveness, Observe
  <2> QED BY <1>6, <2>1 DEF ConfirmLiveness, timerVars, bridgeVars, networkVars
<1>7. ASSUME NEW b \in Bridges, Register(b) PROVE LeaseTypeOK'
  BY <1>7 DEF Register, leaseVars, timerVars, quorumVars, LinkState
<1>8. ASSUME NEW b \in Bridges, Acknowledge(b) PROVE LeaseTypeOK'
  <2>1. leaseAge' \in 0..FenceAfter
    BY <1>8 DEF Acknowledge, Observe
  <2> QED BY <1>8, <2>1 DEF Acknowledge, timerVars, bridgeVars
<1>9. ASSUME NEW b \in Bridges, BridgeSeesClose(b) PROVE LeaseTypeOK'
  <2>1. drops' \in 0..MaxDrops /\ link' \in [Bridges -> LinkState]
    BY <1>9 DEF BridgeSeesClose, SocketFault, LinkState
  <2>2. lost' \subseteq Bridges /\ lostFor' \in [Bridges -> 0..Grace]
    BY <1>9 DEF BridgeSeesClose
  <2> QED BY <1>9, <2>1, <2>2 DEF BridgeSeesClose, leaseVars, timerVars, quorumVars
<1>10. ASSUME NEW b \in Bridges, HostSeesClose(b) PROVE LeaseTypeOK'
  <2>1. link' \in [Bridges -> LinkState]
    BY <1>10 DEF HostSeesClose, LinkState
  <2>2. /\ drops' \in 0..MaxDrops
        /\ lost' \subseteq Bridges /\ lostFor' \in [Bridges -> 0..Grace]
    BY <1>10 DEF HostSeesClose, SocketFault
  <2> QED BY <1>10, <2>1, <2>2 DEF HostSeesClose, leaseVars, timerVars
<1>11. ASSUME NEW b \in Bridges, Connect(b) PROVE LeaseTypeOK'
  BY <1>11 DEF Connect, leaseVars, timerVars, quorumVars, bridgeVars, LinkState
<1>12. CASE UNCHANGED clockVars
  BY <1>12 DEF clockVars, leaseVars, timerVars, quorumVars, bridgeVars, networkVars
<1> QED BY <1>1, <1>2, <1>3, <1>4, <1>5, <1>6, <1>7, <1>8, <1>9, <1>10, <1>11, <1>12 DEF LeaseNext

\* Every variable of the lease, the timers, the quorum and the sockets keeps its
\* type, and only acknowledging bridges ever count as live (confirmLiveness).
THEOREM LeaseTypeCorrect == LeaseSpec => []LeaseTypeOK
<1>1. LeaseTypeOK /\ [LeaseNext]_clockVars => LeaseTypeOK'
  BY LeaseTypeStep
<1> QED BY LeaseTypeInit, <1>1, PTL DEF LeaseSpec

(***************************************************************************)
(* The inductive invariant.                                                *)
(***************************************************************************)

\* A timer that has fired this second leaves no expired writer behind.
FenceChecked == writer /\ ~fenceDue => leaseAge < FenceAfter

\* A bridge has lost the host only while it holds no bound socket of it, and a
\* bridge whose ACK the host has or will get is one it registered at.
SocketsAgree ==
    \A b \in Bridges :
        /\ link[b] = "bound" => b \notin lost
        /\ b \notin lost => lostFor[b] = 0
        /\ b \in acked \cup inFlight => link[b] \in {"bound", "half"}

\* How old an answer can be when it arrives.
AnswersFresh ==
    \A b \in Bridges :
        LET period == IF livenessDue THEN 1 ELSE 0
        IN  /\ b \in inFlight => lostFor[b] <= ackAge[b]
            /\ b \in answered /\ b \in acked \cup inFlight => lostFor[b] <= period
            /\ b \in live => lostFor[b] <= MaxDelay + period

LeaseBounded ==
    \E S \in SUBSET Bridges :
        /\ IsMajority(S)
        /\ \A b \in S : lostFor[b] <= leaseAge + MaxDelay + 1

LeaseInv == LeaseTypeOK /\ FenceChecked /\ SocketsAgree /\ AnswersFresh /\ LeaseBounded

LEMMA AllBridgesAreMajority == IsMajority(Bridges)
<1>1. Cardinality(Bridges) \in Nat /\ Cardinality(Bridges) # 0
  BY LeaseAssumption, FS_CardinalityType, FS_EmptySet
<1> QED BY <1>1 DEF IsMajority

LEMMA LeaseInvInit == LeaseInit => LeaseInv
<1> SUFFICES ASSUME LeaseInit PROVE LeaseInv
  OBVIOUS
<1>1. LeaseTypeOK
  BY LeaseTypeInit
<1>2. FenceChecked
  BY LeaseAssumption DEF LeaseInit, FenceChecked
<1>3. SocketsAgree
  BY DEF LeaseInit, SocketsAgree
<1>4. AnswersFresh
  BY DEF LeaseInit, AnswersFresh
<1>5. LeaseBounded
  <2>1. \A b \in Bridges : lostFor[b] <= leaseAge + MaxDelay + 1
    BY LeaseAssumption DEF LeaseInit
  <2> QED BY <2>1, AllBridgesAreMajority DEF LeaseBounded
<1> QED BY <1>1, <1>2, <1>3, <1>4, <1>5 DEF LeaseInv

\* Only the passing of a second makes a loss older.
LEMMA LossesStayYoung ==
    ASSUME LeaseInv, leaseAge' = leaseAge,
           \A b \in Bridges : lostFor'[b] = lostFor[b] \/ lostFor'[b] = 0
    PROVE  LeaseBounded'
<1>1. PICK S \in SUBSET Bridges :
           IsMajority(S) /\ \A b \in S : lostFor[b] <= leaseAge + MaxDelay + 1
  BY DEF LeaseInv, LeaseBounded
<1>2. \A b \in S : lostFor'[b] <= leaseAge' + MaxDelay + 1
  BY <1>1, LeaseAssumption DEF LeaseInv, LeaseTypeOK
<1> QED BY <1>1, <1>2 DEF LeaseBounded, IsMajority

\* A renewal is young: every bridge that counts for it has answered just now.
LEMMA RenewalsAreYoung ==
    ASSUME LeaseInv, AnswersFresh', LeaseTypeOK', Observe(acked', live'), UNCHANGED lostFor
    PROVE  LeaseBounded'
<1>1. CASE IsMajority(live')
  <2>1. \A b \in live' : lostFor'[b] <= MaxDelay + 1
    BY LeaseAssumption DEF AnswersFresh, LeaseTypeOK
  <2>2. leaseAge' = 0
    BY <1>1 DEF Observe
  <2>3. live' \in SUBSET Bridges
    BY DEF LeaseTypeOK
  <2>4. \A b \in live' : lostFor'[b] <= leaseAge' + MaxDelay + 1
    BY <2>1, <2>2, LeaseAssumption
  <2> QED BY <1>1, <2>3, <2>4 DEF LeaseBounded, IsMajority
<1>2. CASE ~IsMajority(live')
  BY <1>2, LossesStayYoung DEF Observe
<1> QED BY <1>1, <1>2

\* A second older, the lease and every loss alike: the fence timer has made sure
\* that the age of the lease is not yet at its cap.
LEMMA TickStep == ASSUME LeaseInv, writer, Tick PROVE LeaseInv'
<1> USE LeaseAssumption DEF LeaseInv
<1>1. LeaseTypeOK'
  BY LeaseTypeStep DEF LeaseNext
<1>2. leaseAge' = leaseAge + 1
  BY DEF FenceChecked, Tick, Older, LeaseTypeOK
<1>3. \A b \in Bridges : lostFor'[b] <= lostFor[b] + 1
  BY DEF Tick, Older, LeaseTypeOK
<1>4. FenceChecked'
  BY DEF FenceChecked, Tick
<1>5. SocketsAgree'
  BY DEF SocketsAgree, Tick, quorumVars
<1>6. AnswersFresh'
  <2> SUFFICES ASSUME NEW b \in Bridges
               PROVE  /\ b \in inFlight' => lostFor'[b] <= ackAge'[b]
                      /\ b \in answered' /\ b \in acked' \cup inFlight' => lostFor'[b] <= 1
                      /\ b \in live' => lostFor'[b] <= MaxDelay + 1
    BY DEF AnswersFresh, Tick
  <2>1. /\ b \in inFlight => lostFor[b] <= ackAge[b]
        /\ b \in answered /\ b \in acked \cup inFlight => lostFor[b] <= 0
        /\ b \in live => lostFor[b] <= MaxDelay
    BY DEF AnswersFresh, Tick, LeaseTypeOK
  <2>2. b \in inFlight => ackAge'[b] = ackAge[b] + 1
    BY DEF Tick
  <2>3. UNCHANGED <<inFlight, answered, acked, live>>
    BY DEF Tick, quorumVars
  <2>4. lostFor[b] \in Nat /\ lostFor'[b] \in Nat /\ ackAge[b] \in Nat
    BY <1>1 DEF LeaseTypeOK
  <2> QED BY <1>3, <2>1, <2>2, <2>3, <2>4
<1>7. LeaseBounded'
  <2>1. PICK S \in SUBSET Bridges :
             IsMajority(S) /\ \A b \in S : lostFor[b] <= leaseAge + MaxDelay + 1
    BY DEF LeaseBounded
  <2>2. \A b \in S : lostFor'[b] <= leaseAge' + MaxDelay + 1
    <3> SUFFICES ASSUME NEW b \in S PROVE lostFor'[b] <= leaseAge' + MaxDelay + 1
      OBVIOUS
    <3>1. lostFor[b] \in Nat /\ lostFor'[b] \in Nat /\ leaseAge \in Nat
      BY <1>1 DEF LeaseTypeOK
    <3> QED BY <1>2, <1>3, <2>1, <3>1
  <2> QED BY <2>1, <2>2 DEF LeaseBounded, IsMajority
<1> QED BY <1>1, <1>4, <1>5, <1>6, <1>7

LEMMA LivenessStep == ASSUME LeaseInv, writer, BeginLivenessRound PROVE LeaseInv'
<1> USE LeaseAssumption DEF LeaseInv
<1>1. LeaseTypeOK'
  BY LeaseTypeStep DEF LeaseNext
<1>2. FenceChecked'
  BY DEF FenceChecked, BeginLivenessRound, leaseVars
<1>3. SocketsAgree'
  BY DEF SocketsAgree, BeginLivenessRound, bridgeVars, networkVars
<1>4. AnswersFresh'
  BY DEF AnswersFresh, BeginLivenessRound, bridgeVars, networkVars
<1>5. LeaseBounded'
  BY LossesStayYoung DEF BeginLivenessRound, leaseVars, bridgeVars
<1> QED BY <1>1, <1>2, <1>3, <1>4, <1>5

LEMMA CheckFenceStep == ASSUME LeaseInv, writer, CheckFence PROVE LeaseInv'
<1> USE LeaseAssumption DEF LeaseInv
<1>1. LeaseTypeOK'
  BY LeaseTypeStep DEF LeaseNext
<1>2. FenceChecked'
  BY DEF FenceChecked, CheckFence, LeaseTypeOK
<1>3. SocketsAgree'
  BY DEF SocketsAgree, CheckFence, LeaseTypeOK, quorumVars, bridgeVars, networkVars
<1>4. AnswersFresh'
  BY DEF AnswersFresh, CheckFence, LeaseTypeOK, timerVars, quorumVars, bridgeVars, networkVars
<1>5. LeaseBounded'
  BY LossesStayYoung DEF CheckFence, LeaseTypeOK, leaseVars, bridgeVars
<1> QED BY <1>1, <1>2, <1>3, <1>4, <1>5

LEMMA HeartbeatStep == ASSUME LeaseInv, writer, Heartbeat PROVE LeaseInv'
<1> USE LeaseAssumption DEF LeaseInv
<1>1. LeaseTypeOK'
  BY LeaseTypeStep DEF LeaseNext
<1>2. FenceChecked'
  BY DEF FenceChecked, Heartbeat, leaseVars, timerVars
<1>3. SocketsAgree'
  BY DEF SocketsAgree, Heartbeat, LeaseTypeOK, quorumVars, bridgeVars, networkVars
<1>4. AnswersFresh'
  BY DEF AnswersFresh, Heartbeat, LeaseTypeOK, timerVars, quorumVars, bridgeVars, networkVars
<1>5. LeaseBounded'
  BY LossesStayYoung DEF Heartbeat, LeaseTypeOK, leaseVars, bridgeVars
<1> QED BY <1>1, <1>2, <1>3, <1>4, <1>5

LEMMA AnswerStep == ASSUME LeaseInv, writer, NEW b \in Bridges, Answer(b) PROVE LeaseInv'
<1> USE LeaseAssumption DEF LeaseInv
<1>1. LeaseTypeOK'
  BY LeaseTypeStep DEF LeaseNext
<1>2. FenceChecked'
  BY DEF FenceChecked, Answer, leaseVars, timerVars
<1>3. SocketsAgree'
  BY DEF SocketsAgree, Answer, LeaseTypeOK, quorumVars, bridgeVars, networkVars
<1>4. AnswersFresh'
  BY DEF AnswersFresh, SocketsAgree, Answer, BridgeSide, LeaseTypeOK, timerVars, bridgeVars, networkVars
<1>5. LeaseBounded'
  BY LossesStayYoung DEF Answer, LeaseTypeOK, leaseVars, bridgeVars
<1> QED BY <1>1, <1>2, <1>3, <1>4, <1>5

LEMMA ConfirmStep == ASSUME LeaseInv, writer, NEW b \in Bridges, ConfirmLiveness(b) PROVE LeaseInv'
<1> USE LeaseAssumption DEF LeaseInv
<1>1. LeaseTypeOK'
  BY LeaseTypeStep DEF LeaseNext
<1>2. FenceChecked'
  BY DEF FenceChecked, ConfirmLiveness, Observe, timerVars
<1>3. SocketsAgree'
  BY DEF SocketsAgree, ConfirmLiveness, LeaseTypeOK, quorumVars, bridgeVars, networkVars
<1>4. AnswersFresh'
  BY DEF AnswersFresh, ConfirmLiveness, LeaseTypeOK, timerVars, quorumVars, bridgeVars, networkVars
<1>5. LeaseBounded'
  BY <1>1, <1>4, RenewalsAreYoung, LossesStayYoung DEF ConfirmLiveness, bridgeVars
<1> QED BY <1>1, <1>2, <1>3, <1>4, <1>5

LEMMA RegisterStep == ASSUME LeaseInv, writer, NEW b \in Bridges, Register(b) PROVE LeaseInv'
<1> USE LeaseAssumption DEF LeaseInv
<1>1. LeaseTypeOK'
  BY LeaseTypeStep DEF LeaseNext
<1>2. FenceChecked'
  BY DEF FenceChecked, Register, leaseVars, timerVars
<1>3. SocketsAgree'
  BY DEF SocketsAgree, Register, LeaseTypeOK, quorumVars, bridgeVars, networkVars
<1>4. AnswersFresh'
  BY DEF AnswersFresh, Register, LeaseTypeOK, timerVars, quorumVars, bridgeVars, networkVars
<1>5. LeaseBounded'
  BY LossesStayYoung DEF Register, LeaseTypeOK, leaseVars, bridgeVars
<1> QED BY <1>1, <1>2, <1>3, <1>4, <1>5

LEMMA AcknowledgeStep == ASSUME LeaseInv, writer, NEW b \in Bridges, Acknowledge(b) PROVE LeaseInv'
<1> USE LeaseAssumption DEF LeaseInv
<1>1. LeaseTypeOK'
  BY LeaseTypeStep DEF LeaseNext
<1>2. FenceChecked'
  BY DEF FenceChecked, Acknowledge, Observe, timerVars
<1>3. SocketsAgree'
  BY DEF SocketsAgree, Acknowledge, LeaseTypeOK, quorumVars, bridgeVars, networkVars
<1>4. AnswersFresh'
  BY DEF AnswersFresh, Acknowledge, LeaseTypeOK, timerVars, quorumVars, bridgeVars, networkVars
<1>5. LeaseBounded'
  BY <1>1, <1>4, RenewalsAreYoung DEF Acknowledge, bridgeVars
<1> QED BY <1>1, <1>2, <1>3, <1>4, <1>5

LEMMA BridgeCloseStep == ASSUME LeaseInv, writer, NEW b \in Bridges, BridgeSeesClose(b) PROVE LeaseInv'
<1> USE LeaseAssumption DEF LeaseInv
<1>1. LeaseTypeOK'
  BY LeaseTypeStep DEF LeaseNext
<1>2. FenceChecked'
  BY DEF FenceChecked, BridgeSeesClose, leaseVars, timerVars
<1>3. SocketsAgree'
  BY DEF SocketsAgree, BridgeSeesClose, LeaseTypeOK, quorumVars, bridgeVars, networkVars
<1>4. AnswersFresh'
  BY DEF AnswersFresh, BridgeSeesClose, LeaseTypeOK, timerVars, quorumVars, bridgeVars, networkVars
<1>5. LeaseBounded'
  BY LossesStayYoung DEF BridgeSeesClose, LeaseTypeOK, leaseVars, bridgeVars
<1> QED BY <1>1, <1>2, <1>3, <1>4, <1>5

LEMMA HostCloseStep == ASSUME LeaseInv, writer, NEW b \in Bridges, HostSeesClose(b) PROVE LeaseInv'
<1> USE LeaseAssumption DEF LeaseInv
<1>1. LeaseTypeOK'
  BY LeaseTypeStep DEF LeaseNext
<1>2. FenceChecked'
  BY DEF FenceChecked, HostSeesClose, leaseVars, timerVars
<1>3. SocketsAgree'
  BY DEF SocketsAgree, HostSeesClose, LeaseTypeOK, quorumVars, bridgeVars, networkVars
<1>4. AnswersFresh'
  BY DEF AnswersFresh, HostSeesClose, LeaseTypeOK, timerVars, quorumVars, bridgeVars, networkVars
<1>5. LeaseBounded'
  BY LossesStayYoung DEF HostSeesClose, LeaseTypeOK, leaseVars, bridgeVars
<1> QED BY <1>1, <1>2, <1>3, <1>4, <1>5

LEMMA ConnectStep == ASSUME LeaseInv, writer, NEW b \in Bridges, Connect(b) PROVE LeaseInv'
<1> USE LeaseAssumption DEF LeaseInv
<1>1. LeaseTypeOK'
  BY LeaseTypeStep DEF LeaseNext
<1>2. FenceChecked'
  BY DEF FenceChecked, Connect, leaseVars, timerVars
<1>3. SocketsAgree'
  BY DEF SocketsAgree, Connect, LeaseTypeOK, quorumVars, bridgeVars, networkVars
<1>4. AnswersFresh'
  BY DEF AnswersFresh, Connect, LeaseTypeOK, timerVars, quorumVars, bridgeVars, networkVars
<1>5. LeaseBounded'
  BY LossesStayYoung DEF Connect, LeaseTypeOK, leaseVars, bridgeVars
<1> QED BY <1>1, <1>2, <1>3, <1>4, <1>5

LEMMA LeaseInvHolds == LeaseSpec => []LeaseInv
<1>1. ASSUME LeaseInv, [LeaseNext]_clockVars PROVE LeaseInv'
  <2>1. CASE LeaseNext
    BY <1>1, <2>1, TickStep, LivenessStep, CheckFenceStep, HeartbeatStep, AnswerStep,
       ConfirmStep, RegisterStep, AcknowledgeStep, BridgeCloseStep, HostCloseStep, ConnectStep
    DEF LeaseNext
  <2>2. CASE UNCHANGED clockVars
    <3>1. LeaseTypeOK'
      BY <1>1, LeaseTypeStep DEF LeaseInv
    <3>2. FenceChecked' /\ SocketsAgree' /\ AnswersFresh'
      BY <1>1, <2>2
      DEF LeaseInv, FenceChecked, SocketsAgree, AnswersFresh, clockVars, leaseVars, timerVars,
          quorumVars, bridgeVars, networkVars
    <3>3. LeaseBounded'
      BY <1>1, <2>2, LossesStayYoung DEF clockVars, leaseVars, bridgeVars
    <3> QED BY <3>1, <3>2, <3>3 DEF LeaseInv
  <2> QED BY <1>1, <2>1, <2>2
<1> QED BY <1>1, LeaseInvInit, PTL DEF LeaseSpec

(***************************************************************************)
(* Two strict majorities of the bridges share one.                         *)
(***************************************************************************)
LEMMA BridgeMajoritiesMeet ==
    ASSUME NEW S \in SUBSET Bridges, NEW T \in SUBSET Bridges, IsMajority(S), IsMajority(T)
    PROVE  S \cap T # {}
<1>1. /\ Cardinality(Bridges) \in Nat
      /\ Cardinality(S) \in Nat /\ Cardinality(T) \in Nat
  BY LeaseAssumption, FS_Subset, FS_CardinalityType
<1>2. Cardinality(S) + Cardinality(T) > Cardinality(Bridges)
  BY <1>1 DEF IsMajority
<1> QED BY <1>2, LeaseAssumption, FS_MajoritiesIntersect

\* A host that loses its bridges stops writing before a majority of them would
\* attest its absence, for every bridge set and every setting of the clocks with
\* absenceGraceMs above primaryFenceMs, one period and the slowest ACK
\* (fenceIfQuorumExpired against witnessPrimary).
THEOREM WriterIsFencedFirst == LeaseSpec => []FencedBeforeAbsent
<1>1. ASSUME LeaseInv PROVE FencedFirst
  <2> SUFFICES ASSUME IsMajority(Absent) PROVE FALSE
    BY DEF FencedFirst
  <2>1. PICK S \in SUBSET Bridges :
             IsMajority(S) /\ \A b \in S : lostFor[b] <= leaseAge + MaxDelay + 1
    BY <1>1 DEF LeaseInv, LeaseBounded
  <2>2. Absent \in SUBSET Bridges
    BY <1>1 DEF LeaseInv, LeaseTypeOK, Absent
  <2>3. PICK b : b \in S /\ b \in Absent
    BY <2>1, <2>2, BridgeMajoritiesMeet
  <2>4. lostFor[b] \in Nat /\ leaseAge \in 0..FenceAfter /\ lostFor[b] >= Grace
    BY <1>1, <2>1, <2>3 DEF LeaseInv, LeaseTypeOK, Absent
  <2> QED BY <2>1, <2>3, <2>4, LeaseAssumption, GraceAssumption
<1>2. LeaseInv => FencedBeforeAbsent
  BY <1>1 DEF FencedBeforeAbsent, LeaseInv
<1> QED BY <1>2, LeaseInvHolds, PTL

-----------------------------------------------------------------------------
(***************************************************************************)
(* The spool's accounts are exact and within the quotas, an attachment     *)
(* goes with its message, what is served is whole, and a message goes with *)
(* its last acknowledgement or its expiry, deaths of the process apart:    *)
(* for any identities, messages, assets and quotas.                        *)
(*                                                                         *)
(* The argument for the accounts: a row is charged in the step that stores *)
(* it, after its owner's and the total quota were asked for, and refunded  *)
(* in the step that deletes it.  The clamp of a refund at zero never bites *)
(* because the rows deleted are among those counted.                       *)
(***************************************************************************)

RowsTyped ==
    /\ spool \in [MessageIds -> Message \cup {None}]
    /\ attachments \in [AssetIds -> Attachment \cup {None}]
    /\ \A m \in Spooled : spool[m].consumed \subseteq spool[m].recipients

\* A transfer is complete once its bytes were compared, and they are not written again.
CompletedIsWhole ==
    \A a \in Stored : attachments[a].completed =>
        \A c \in Chunks : attachments[a].chunks[c] = attachments[a].hash

RowInv == RowsTyped /\ LinkedWithMessage /\ CompletedIsWhole

\* Everything that is not a row or a counter.
AroundTyped ==
    /\ members \subseteq Identities /\ viewers \subseteq Identities
    /\ seen \subseteq MessageIds
    /\ sequences \in [Identities -> Nat]
    /\ up \in BOOLEAN /\ sends \in 0..MaxSends /\ turns \in 0..MaxTurns

CountersTyped == globalUsage \in Nat /\ memberUsage \in [Identities -> Nat]

AccountInv == CountersTyped /\ UsageExact /\ QuotaHolds

SpoolInv == RowInv /\ AroundTyped /\ AccountInv

LEMMA NoneIsNoRow ==
    /\ None \notin Message /\ None \notin Attachment
    /\ None \notin Contents /\ None \notin MessageIds
BY NoneAssumption

(***************************************************************************)
(* Rows.                                                                   *)
(***************************************************************************)
\* Messages and assets are deleted: with a message, what was linked to it.
Deletes(messages, assets) ==
    /\ messages \subseteq Spooled /\ assets \subseteq Stored
    /\ \A a \in Stored \ assets : attachments[a].linked \notin messages
    /\ spool' = [m \in MessageIds |-> IF m \in messages THEN None ELSE spool[m]]
    /\ attachments' = [a \in AssetIds |-> IF a \in assets THEN None ELSE attachments[a]]

LEMMA DeletesRows ==
    ASSUME RowInv, NEW messages, NEW assets, Deletes(messages, assets)
    PROVE  RowInv'
<1> USE DEF RowInv, Deletes
<1>1. Spooled' = Spooled \ messages /\ \A m \in Spooled' : spool'[m] = spool[m]
  BY DEF Spooled
<1>2. Stored' = Stored \ assets /\ \A a \in Stored' : attachments'[a] = attachments[a]
  BY DEF Stored
<1>3. RowsTyped'
  BY <1>1 DEF RowsTyped
<1>4. LinkedWithMessage'
  BY <1>1, <1>2 DEF LinkedWithMessage
<1>5. CompletedIsWhole'
  BY <1>1, <1>2 DEF CompletedIsWhole
<1> QED BY <1>3, <1>4, <1>5

\* One message changes, none of its attachments does.
LEMMA MessageRows ==
    ASSUME RowInv, NEW m \in MessageIds, NEW row \in Message, m \in Spooled,
           UNCHANGED attachments, spool' = [spool EXCEPT ![m] = row],
           row.recipients = spool[m].recipients, row.assets = spool[m].assets,
           row.consumed \subseteq row.recipients
    PROVE  RowInv'
<1> USE DEF RowInv
<1>1. Spooled' = Spooled /\ spool'[m] = row /\ \A n \in Spooled \ {m} : spool'[n] = spool[n]
  BY NoneIsNoRow DEF Spooled, RowsTyped
<1>2. RowsTyped'
  BY <1>1 DEF RowsTyped
<1>3. LinkedWithMessage'
  BY <1>1 DEF LinkedWithMessage, Stored
<1>4. CompletedIsWhole'
  BY <1>1 DEF CompletedIsWhole, Stored
<1> QED BY <1>2, <1>3, <1>4

\* One attachment comes or changes; its link, and who it is for, do not change.
LEMMA AttachmentRows ==
    ASSUME RowInv, NEW a \in AssetIds, NEW row \in Attachment,
           UNCHANGED spool, attachments' = [attachments EXCEPT ![a] = row],
           row.linked # None => /\ a \in Stored
                                /\ row.linked = attachments[a].linked
                                /\ row.audience = attachments[a].audience,
           row.completed => \A c \in Chunks : row.chunks[c] = row.hash
    PROVE  RowInv'
<1> USE DEF RowInv
<1>1. /\ Stored' = Stored \cup {a} /\ attachments'[a] = row
      /\ \A x \in Stored \ {a} : attachments'[x] = attachments[x]
  BY NoneIsNoRow DEF Stored, RowsTyped
<1>2. RowsTyped'
  BY <1>1 DEF RowsTyped, Spooled
<1>3. LinkedWithMessage'
  BY <1>1 DEF LinkedWithMessage, Spooled
<1>4. CompletedIsWhole'
  BY <1>1 DEF CompletedIsWhole, Spooled
<1> QED BY <1>2, <1>3, <1>4

(***************************************************************************)
(* Accounts.                                                               *)
(***************************************************************************)
Sent(messages, i)   == {m \in MessageIds : messages[m] # None /\ messages[m].sender = i}
Uploaded(assets, i) == {a \in AssetIds : assets[a] # None /\ assets[a].owner = i}

LEMMA BytesAreSums ==
    ASSUME NEW i
    PROVE  /\ OwnedBytes(spool, attachments, i) =
                  Cardinality(Sent(spool, i)) + AssetBytes * Cardinality(Uploaded(attachments, i))
           /\ AllBytes(spool, attachments) = Cardinality(Spooled) + AssetBytes * Cardinality(Stored)
BY DEF OwnedBytes, AllBytes, Sent, Uploaded, Spooled, Stored

LEMMA RowsAreFinite ==
    ASSUME NEW i
    PROVE  /\ IsFiniteSet(Spooled) /\ IsFiniteSet(Stored)
           /\ IsFiniteSet(Sent(spool, i)) /\ IsFiniteSet(Uploaded(attachments, i))
           /\ Cardinality(Spooled) \in Nat /\ Cardinality(Stored) \in Nat
           /\ Cardinality(Sent(spool, i)) \in Nat
           /\ Cardinality(Uploaded(attachments, i)) \in Nat
<1>1. /\ Spooled \in SUBSET MessageIds /\ Sent(spool, i) \in SUBSET MessageIds
      /\ Stored \in SUBSET AssetIds /\ Uploaded(attachments, i) \in SUBSET AssetIds
  BY DEF Spooled, Stored, Sent, Uploaded
<1>2. /\ IsFiniteSet(Spooled) /\ IsFiniteSet(Stored)
      /\ IsFiniteSet(Sent(spool, i)) /\ IsFiniteSet(Uploaded(attachments, i))
  BY <1>1, SpoolAssumption, FS_Subset
<1> QED BY <1>2, FS_CardinalityType

\* Neither the rows nor their owners change.
LEMMA SameBytes ==
    ASSUME AccountInv, UNCHANGED <<globalUsage, memberUsage>>,
           Spooled' = Spooled, \A m \in Spooled : spool'[m].sender = spool[m].sender,
           Stored' = Stored, \A a \in Stored : attachments'[a].owner = attachments[a].owner
    PROVE  AccountInv'
<1>1. AllBytes(spool, attachments)' = AllBytes(spool, attachments)
  BY DEF AllBytes, Spooled, Stored
<1>2. ASSUME NEW i \in Identities
      PROVE  OwnedBytes(spool, attachments, i)' = OwnedBytes(spool, attachments, i)
  <2>1. Sent(spool, i)' = Sent(spool, i) /\ Uploaded(attachments, i)' = Uploaded(attachments, i)
    BY DEF Sent, Uploaded, Spooled, Stored
  <2> QED BY <2>1 DEF OwnedBytes, Sent, Uploaded
<1> QED BY <1>1, <1>2 DEF AccountInv, CountersTyped, UsageExact, QuotaHolds

LEMMA Product ==
    ASSUME NEW k \in Nat, NEW q \in Nat, NEW s \in Nat, s <= q
    PROVE  k * q \in Nat /\ k * s \in Nat /\ k * (q - s) \in Nat /\ k * (q - s) = k * q - k * s
OBVIOUS

LEMMA CountWithout ==
    ASSUME NEW S, IsFiniteSet(S), NEW T \in SUBSET S
    PROVE  /\ Cardinality(S) \in Nat /\ Cardinality(T) \in Nat
           /\ Cardinality(T) <= Cardinality(S)
           /\ Cardinality(S \ T) = Cardinality(S) - Cardinality(T)
<1>1. S \cap T = T /\ IsFiniteSet(T)
  BY FS_Subset
<1>2. Cardinality(S) \in Nat /\ Cardinality(T) \in Nat
  BY <1>1, FS_CardinalityType
<1>3. Cardinality(T) <= Cardinality(S)
  BY FS_Subset
<1>4. Cardinality(S \ T) = Cardinality(S) - Cardinality(S \cap T)
  BY <1>1, FS_Difference
<1> QED BY <1>1, <1>2, <1>3, <1>4

\* Bytes of messages S and assets U, of which T and V are refunded.
LEMMA Refunded ==
    ASSUME NEW S, IsFiniteSet(S), NEW T \in SUBSET S, NEW U, IsFiniteSet(U), NEW V \in SUBSET U
    PROVE  LET before == Cardinality(S) + AssetBytes * Cardinality(U)
               after  == Cardinality(S \ T) + AssetBytes * Cardinality(U \ V)
           IN  /\ Less(before, Cardinality(T) + AssetBytes * Cardinality(V)) = after
               /\ after \in Nat /\ before \in Nat /\ after <= before
<1> DEFINE p == Cardinality(S)
           q == Cardinality(U)
           r == Cardinality(T)
           s == Cardinality(V)
<1>1. AssetBytes \in Nat
  BY SpoolAssumption
<1>2. /\ Cardinality(S) \in Nat /\ Cardinality(T) \in Nat /\ Cardinality(T) <= Cardinality(S)
      /\ Cardinality(S \ T) = Cardinality(S) - Cardinality(T)
  BY CountWithout
<1>3. /\ Cardinality(U) \in Nat /\ Cardinality(V) \in Nat /\ Cardinality(V) <= Cardinality(U)
      /\ Cardinality(U \ V) = Cardinality(U) - Cardinality(V)
  BY CountWithout
<1>4. p \in Nat /\ q \in Nat /\ r \in Nat /\ s \in Nat /\ r <= p /\ s <= q
  BY <1>2, <1>3
<1>5. Cardinality(S \ T) = p - r /\ Cardinality(U \ V) = q - s
  BY <1>2, <1>3
<1> HIDE DEF p, q, r, s
<1>6. /\ AssetBytes * q \in Nat /\ AssetBytes * s \in Nat /\ AssetBytes * (q - s) \in Nat
      /\ AssetBytes * (q - s) = AssetBytes * q - AssetBytes * s
  BY <1>1, <1>4, Product
<1>7. \A x, y, z \in Nat : z = x - y =>
          /\ Less(p + x, r + y) = (p - r) + z
          /\ (p - r) + z \in Nat /\ p + x \in Nat /\ (p - r) + z <= p + x
  BY <1>4 DEF Less
<1>8. /\ Less(p + AssetBytes * q, r + AssetBytes * s) = (p - r) + AssetBytes * (q - s)
      /\ (p - r) + AssetBytes * (q - s) \in Nat /\ p + AssetBytes * q \in Nat
      /\ (p - r) + AssetBytes * (q - s) <= p + AssetBytes * q
  BY <1>6, <1>7, Zenon
<1> QED BY <1>5, <1>8 DEF p, q, r, s

\* A refund of rows that are deleted.
LEMMA RefundAccounts ==
    ASSUME AccountInv, RowsTyped, NEW messages, NEW assets,
           Deletes(messages, assets), Refund(messages, assets)
    PROVE  AccountInv'
<1>1. /\ globalUsage' = AllBytes(spool, attachments)' /\ globalUsage' \in Nat
      /\ globalUsage' <= globalUsage /\ globalUsage \in Nat
  <2>1. Spooled' = Spooled \ messages /\ Stored' = Stored \ assets
    BY DEF Deletes, Spooled, Stored
  <2>2. messages \in SUBSET Spooled /\ assets \in SUBSET Stored
    BY DEF Deletes
  <2>3. globalUsage' =
            Less(globalUsage, Cardinality(messages) + AssetBytes * Cardinality(assets))
    BY DEF Refund
  <2>4. globalUsage = Cardinality(Spooled) + AssetBytes * Cardinality(Stored)
    BY BytesAreSums DEF AccountInv, UsageExact
  <2>5. AllBytes(spool, attachments)' = Cardinality(Spooled') + AssetBytes * Cardinality(Stored')
    BY DEF AllBytes, Spooled, Stored
  <2>6. IsFiniteSet(Spooled) /\ IsFiniteSet(Stored)
    BY RowsAreFinite
  <2> QED BY <2>1, <2>2, <2>3, <2>4, <2>5, <2>6, Refunded
<1>2. ASSUME NEW i \in Identities
      PROVE  /\ memberUsage'[i] = OwnedBytes(spool, attachments, i)' /\ memberUsage'[i] \in Nat
             /\ memberUsage'[i] <= memberUsage[i] /\ memberUsage[i] \in Nat
  <2> DEFINE M == {m \in messages : spool[m].sender = i}
             A == {a \in assets : attachments[a].owner = i}
  <2>1. /\ Sent(spool, i)' = Sent(spool, i) \ M
        /\ Uploaded(attachments, i)' = Uploaded(attachments, i) \ A
    BY DEF Deletes, Sent, Uploaded, Spooled, Stored
  <2>2. M \in SUBSET Sent(spool, i) /\ A \in SUBSET Uploaded(attachments, i)
    BY DEF Deletes, Sent, Uploaded, Spooled, Stored
  <2>3. memberUsage'[i] = Less(memberUsage[i], Cardinality(M) + AssetBytes * Cardinality(A))
    BY DEF Refund
  <2> HIDE DEF M, A
  <2>4. memberUsage[i] =
            Cardinality(Sent(spool, i)) + AssetBytes * Cardinality(Uploaded(attachments, i))
    BY BytesAreSums DEF AccountInv, UsageExact
  <2>5. OwnedBytes(spool, attachments, i)' =
            Cardinality(Sent(spool, i)') + AssetBytes * Cardinality(Uploaded(attachments, i)')
    BY DEF OwnedBytes, Sent, Uploaded
  <2>6. IsFiniteSet(Sent(spool, i)) /\ IsFiniteSet(Uploaded(attachments, i))
    BY RowsAreFinite
  <2> QED BY <2>1, <2>2, <2>3, <2>4, <2>5, <2>6, Refunded
<1>3. CountersTyped'
  <2>1. memberUsage' = [i \in Identities |-> memberUsage'[i]]
    BY DEF Refund
  <2> QED BY <1>1, <1>2, <2>1 DEF CountersTyped
<1>4. UsageExact'
  BY <1>1, <1>2 DEF UsageExact
<1>5. QuotaHolds'
  <2>1. SpoolQuota \in Nat /\ MemberQuota \in Nat
    BY SpoolAssumption
  <2>2. globalUsage <= SpoolQuota /\ \A i \in Identities : memberUsage[i] <= MemberQuota
    BY DEF AccountInv, UsageExact, QuotaHolds
  <2>3. AllBytes(spool, attachments)' <= SpoolQuota
    BY <1>1, <2>1, <2>2
  <2>4. ASSUME NEW i \in Identities PROVE OwnedBytes(spool, attachments, i)' <= MemberQuota
    BY <1>2, <2>1, <2>2
  <2> QED BY <2>3, <2>4 DEF QuotaHolds
<1> QED BY <1>3, <1>4, <1>5 DEF AccountInv

\* A charge for what is stored by i, within the quotas.
LEMMA ChargeAccounts ==
    ASSUME AccountInv, NEW i \in Identities, NEW bytes \in Nat,
           Charge(i, bytes), WithinQuota(i, bytes),
           AllBytes(spool, attachments)' = AllBytes(spool, attachments) + bytes,
           \A j \in Identities :
               OwnedBytes(spool, attachments, j)' =
                   OwnedBytes(spool, attachments, j) + (IF j = i THEN bytes ELSE 0)
    PROVE  AccountInv'
<1> USE DEF AccountInv, Charge, WithinQuota
<1>1. /\ globalUsage' = globalUsage + bytes
      /\ \A j \in Identities : memberUsage'[j] = memberUsage[j] + (IF j = i THEN bytes ELSE 0)
  BY DEF CountersTyped
<1>2. CountersTyped'
  BY DEF CountersTyped
<1>3. UsageExact'
  BY <1>1 DEF UsageExact
<1>4. QuotaHolds'
  BY <1>1 DEF UsageExact, QuotaHolds, CountersTyped
<1> QED BY <1>2, <1>3, <1>4

LEMMA MessageBytes ==
    ASSUME RowsTyped, NEW m \in MessageIds, m \notin Spooled, NEW row \in Message,
           spool' = [spool EXCEPT ![m] = row],
           Stored' = Stored, \A a \in Stored : attachments'[a].owner = attachments[a].owner
    PROVE  /\ AllBytes(spool, attachments)' = AllBytes(spool, attachments) + 1
           /\ \A j \in Identities :
                  OwnedBytes(spool, attachments, j)' =
                      OwnedBytes(spool, attachments, j) + (IF j = row.sender THEN 1 ELSE 0)
<1>k. AssetBytes \in Nat
  BY SpoolAssumption
<1>1. spool'[m] = row /\ row # None /\ \A n \in MessageIds \ {m} : spool'[n] = spool[n]
  BY NoneIsNoRow DEF RowsTyped
<1>2. AllBytes(spool, attachments)' = AllBytes(spool, attachments) + 1
  <2>1. Spooled' = Spooled \cup {m}
    BY <1>1 DEF Spooled
  <2>2. Cardinality(Spooled') = Cardinality(Spooled) + 1
    BY <2>1, RowsAreFinite, FS_AddElement
  <2>3. AllBytes(spool, attachments)' = Cardinality(Spooled') + AssetBytes * Cardinality(Stored')
    BY DEF AllBytes, Spooled, Stored
  <2> QED BY <1>k, <2>2, <2>3, BytesAreSums, RowsAreFinite
<1>3. ASSUME NEW j \in Identities
      PROVE  OwnedBytes(spool, attachments, j)' =
                 OwnedBytes(spool, attachments, j) + (IF j = row.sender THEN 1 ELSE 0)
  <2>1. /\ Sent(spool, j)' = IF j = row.sender THEN Sent(spool, j) \cup {m} ELSE Sent(spool, j)
        /\ m \notin Sent(spool, j)
    BY <1>1 DEF Sent, Spooled
  <2>2. Uploaded(attachments, j)' = Uploaded(attachments, j)
    BY DEF Uploaded, Stored
  <2>3. Cardinality(Sent(spool, j)') =
            Cardinality(Sent(spool, j)) + (IF j = row.sender THEN 1 ELSE 0)
    <3>1. IsFiniteSet(Sent(spool, j)) /\ Cardinality(Sent(spool, j)) \in Nat
      BY RowsAreFinite
    <3>2. Cardinality(Sent(spool, j) \cup {m}) = Cardinality(Sent(spool, j)) + 1
      BY <2>1, <3>1, FS_AddElement
    <3> QED BY <2>1, <3>1, <3>2
  <2>4. OwnedBytes(spool, attachments, j)' =
            Cardinality(Sent(spool, j)') + AssetBytes * Cardinality(Uploaded(attachments, j)')
    BY DEF OwnedBytes, Sent, Uploaded
  <2> QED BY <1>k, <2>2, <2>3, <2>4, BytesAreSums, RowsAreFinite
<1> QED BY <1>2, <1>3

LEMMA UploadBytes ==
    ASSUME RowsTyped, NEW a \in AssetIds, a \notin Stored, NEW row \in Attachment,
           attachments' = [attachments EXCEPT ![a] = row], UNCHANGED spool
    PROVE  /\ AllBytes(spool, attachments)' = AllBytes(spool, attachments) + AssetBytes
           /\ \A j \in Identities :
                  OwnedBytes(spool, attachments, j)' =
                      OwnedBytes(spool, attachments, j) + (IF j = row.owner THEN AssetBytes ELSE 0)
<1>k. AssetBytes \in Nat
  BY SpoolAssumption
<1>p. \A n \in Nat : AssetBytes * (n + 1) = AssetBytes * n + AssetBytes
  BY <1>k
<1>1. /\ attachments'[a] = row /\ row # None
      /\ \A x \in AssetIds \ {a} : attachments'[x] = attachments[x]
  BY NoneIsNoRow DEF RowsTyped
<1>2. AllBytes(spool, attachments)' = AllBytes(spool, attachments) + AssetBytes
  <2>1. Stored' = Stored \cup {a}
    BY <1>1 DEF Stored
  <2>2. Cardinality(Stored') = Cardinality(Stored) + 1
    BY <2>1, RowsAreFinite, FS_AddElement
  <2>3. AllBytes(spool, attachments)' = Cardinality(Spooled) + AssetBytes * Cardinality(Stored')
    BY DEF AllBytes, Spooled, Stored
  <2> QED BY <1>k, <1>p, <2>2, <2>3, BytesAreSums, RowsAreFinite
<1>3. ASSUME NEW j \in Identities
      PROVE  OwnedBytes(spool, attachments, j)' =
                 OwnedBytes(spool, attachments, j) + (IF j = row.owner THEN AssetBytes ELSE 0)
  <2>1. /\ Uploaded(attachments, j)' =
               IF j = row.owner THEN Uploaded(attachments, j) \cup {a} ELSE Uploaded(attachments, j)
        /\ a \notin Uploaded(attachments, j)
    BY <1>1 DEF Uploaded, Stored
  <2>2. OwnedBytes(spool, attachments, j)' =
            Cardinality(Sent(spool, j)) + AssetBytes * Cardinality(Uploaded(attachments, j)')
    BY DEF OwnedBytes, Sent, Uploaded
  <2>3. CASE j = row.owner
    <3>1. Cardinality(Uploaded(attachments, j)') = Cardinality(Uploaded(attachments, j)) + 1
      BY <2>1, <2>3, RowsAreFinite, FS_AddElement
    <3> QED BY <1>k, <1>p, <2>2, <2>3, <3>1, BytesAreSums, RowsAreFinite
  <2>4. CASE j # row.owner
    BY <1>k, <2>1, <2>2, <2>4, BytesAreSums, RowsAreFinite
  <2> QED BY <2>3, <2>4
<1> QED BY <1>2, <1>3

(***************************************************************************)
(* Steps.                                                                  *)
(***************************************************************************)
LEMMA SendSteps ==
    ASSUME SpoolInv, NEW i \in Identities, NEW m \in MessageIds, NEW audience \in SUBSET Identities,
           NEW assets \in SUBSET AssetIds, SendEnvelope(i, m, audience, assets)
    PROVE  RowInv' /\ AccountInv'
<1> USE DEF SpoolInv
<1>1. CASE UNCHANGED <<spool, attachmentVars>>
  BY <1>1 DEF attachmentVars, RowInv, RowsTyped, LinkedWithMessage, CompletedIsWhole,
              Spooled, Stored, AccountInv, CountersTyped, UsageExact, QuotaHolds
<1>2. CASE ~(UNCHANGED <<spool, attachmentVars>>)
  <2> DEFINE row == [sender |-> i, recipients |-> audience, consumed |-> {},
                     seq |-> sequences'[i], assets |-> assets, expired |-> FALSE]
  <2>1. /\ WithinQuota(i, 1) /\ \A a \in assets : Bindable(a, i, audience)
        /\ m \notin Spooled
        /\ spool' = [spool EXCEPT ![m] = row]
        /\ attachments' = [a \in AssetIds |->
               IF a \in assets THEN [attachments[a] EXCEPT !.linked = m] ELSE attachments[a]]
        /\ Charge(i, 1)
    BY <1>2 DEF SendEnvelope
  <2>2. row \in Message /\ audience # {}
    <3>1. sequences'[i] \in Nat
      BY DEF SendEnvelope, AroundTyped
    <3> QED BY <3>1 DEF Message, SendEnvelope, Audiences
  <2>3. row.sender = i /\ row.recipients = audience /\ row.consumed = {} /\ row.assets = assets
    OBVIOUS
  <2> HIDE DEF row
  <2>4. /\ Spooled' = Spooled \cup {m} /\ spool'[m] = row
        /\ \A n \in Spooled : n # m /\ spool'[n] = spool[n]
    BY <2>1, <2>2, NoneIsNoRow DEF RowInv, RowsTyped, Spooled
  <2>5. /\ assets \subseteq Stored
        /\ \A a \in assets : attachments[a].completed /\ attachments[a].audience = audience
    BY <2>1 DEF Bindable
  <2>6. \A a \in Stored : attachments[a] \in Attachment
    BY DEF RowInv, RowsTyped, Stored
  <2>7. /\ \A a \in assets :
               /\ attachments'[a] = [attachments[a] EXCEPT !.linked = m]
               /\ attachments'[a] \in Attachment
        /\ \A a \in AssetIds \ assets : attachments'[a] = attachments[a]
    BY <2>1, <2>5, <2>6 DEF Attachment
  <2>8. ASSUME NEW a \in assets
        PROVE  /\ attachments'[a].linked = m
               /\ attachments'[a].audience = attachments[a].audience
               /\ attachments'[a].owner = attachments[a].owner
               /\ attachments'[a].chunks = attachments[a].chunks
               /\ attachments'[a].hash = attachments[a].hash
    <3>1. attachments[a] \in Attachment /\ attachments'[a] = [attachments[a] EXCEPT !.linked = m]
      BY <2>5, <2>6, <2>7
    <3> QED BY <3>1 DEF Attachment
  <2>9. Stored' = Stored
    BY <2>5, <2>7, NoneIsNoRow DEF Stored
  <2>10. RowsTyped'
    <3>1. spool' \in [MessageIds -> Message \cup {None}]
      BY <2>1, <2>2 DEF RowInv, RowsTyped
    <3>2. attachments' \in [AssetIds -> Attachment \cup {None}]
      BY <2>1, <2>7 DEF RowInv, RowsTyped
    <3> QED BY <2>3, <2>4, <3>1, <3>2 DEF RowInv, RowsTyped
  <2>11. LinkedWithMessage'
    <3> SUFFICES ASSUME NEW a \in Stored, attachments'[a].linked # None
                 PROVE  /\ attachments'[a].linked \in Spooled'
                        /\ a \in spool'[attachments'[a].linked].assets
                        /\ attachments'[a].audience = spool'[attachments'[a].linked].recipients
      BY <2>9 DEF LinkedWithMessage
    <3>1. CASE a \in assets
      BY <2>3, <2>4, <2>5, <2>8, <3>1
    <3>2. CASE a \notin assets
      <4>1. attachments'[a] = attachments[a]
        BY <2>7, <3>2 DEF Stored
      <4> QED BY <2>4, <4>1 DEF RowInv, LinkedWithMessage
    <3> QED BY <3>1, <3>2
  <2>12. CompletedIsWhole'
    BY <2>5, <2>7, <2>8, <2>9 DEF RowInv, CompletedIsWhole, Stored
  <2>14. AccountInv'
    <3>1. \A a \in Stored : attachments'[a].owner = attachments[a].owner
      BY <2>7, <2>8 DEF Stored
    <3>2. /\ AllBytes(spool, attachments)' = AllBytes(spool, attachments) + 1
          /\ \A j \in Identities :
                 OwnedBytes(spool, attachments, j)' =
                     OwnedBytes(spool, attachments, j) + (IF j = i THEN 1 ELSE 0)
      BY <2>1, <2>2, <2>3, <2>9, <3>1, MessageBytes DEF RowInv
    <3> QED BY <2>1, <3>2, ChargeAccounts
  <2> QED BY <2>10, <2>11, <2>12, <2>14 DEF RowInv
<1> QED BY <1>1, <1>2

LEMMA PurgeSteps ==
    ASSUME SpoolInv, NEW messages, messages \subseteq Spooled, Purge(messages)
    PROVE  RowInv' /\ AccountInv'
<1> DEFINE linked == {a \in Stored : attachments[a].linked \in messages}
<1>1. Deletes(messages, linked) /\ Refund(messages, linked)
  BY DEF Purge, Deletes, Stored
<1> HIDE DEF linked
<1> QED BY <1>1, DeletesRows, RefundAccounts DEF SpoolInv, RowInv

LEMMA DeleteSteps ==
    ASSUME SpoolInv, NEW gone, gone \subseteq Stored, DeleteAttachments(gone), UNCHANGED spool
    PROVE  RowInv' /\ AccountInv'
<1>1. Deletes({}, gone) /\ Refund({}, gone)
  BY DEF DeleteAttachments, Deletes, SpoolInv, RowInv, RowsTyped
<1> QED BY <1>1, DeletesRows, RefundAccounts DEF SpoolInv, RowInv

\* A message's row changes, and stays its sender's.
LEMMA MessageSteps ==
    ASSUME SpoolInv, NEW m \in Spooled, NEW row \in Message,
           UNCHANGED attachmentVars, spool' = [spool EXCEPT ![m] = row],
           row.sender = spool[m].sender,
           row.recipients = spool[m].recipients, row.assets = spool[m].assets,
           row.consumed \subseteq row.recipients
    PROVE  RowInv' /\ AccountInv'
<1>1. m \in MessageIds /\ UNCHANGED <<attachments, globalUsage, memberUsage>>
  BY DEF Spooled, attachmentVars
<1>2. RowInv'
  BY <1>1, MessageRows DEF SpoolInv
<1>3. /\ Spooled' = Spooled /\ \A n \in Spooled : spool'[n].sender = spool[n].sender
      /\ Stored' = Stored
  BY <1>1, NoneIsNoRow DEF SpoolInv, RowInv, RowsTyped, Spooled, Stored
<1>4. AccountInv'
  BY <1>1, <1>3, SameBytes DEF SpoolInv
<1> QED BY <1>2, <1>4

\* A recipient's mark.
LEMMA MarkSteps ==
    ASSUME SpoolInv, NEW m \in Spooled, NEW i \in spool[m].recipients, MarkConsumed(i, m)
    PROVE  RowInv' /\ AccountInv'
<1> DEFINE row == [spool[m] EXCEPT !.consumed = spool[m].consumed \cup {i}]
<1>1. spool' = [spool EXCEPT ![m] = row] /\ UNCHANGED attachmentVars
  BY DEF MarkConsumed
<1>2. spool[m] \in Message /\ spool[m].consumed \subseteq spool[m].recipients
  BY DEF SpoolInv, RowInv, RowsTyped, Spooled
<1>3. /\ row \in Message /\ row.sender = spool[m].sender
      /\ row.recipients = spool[m].recipients /\ row.assets = spool[m].assets
      /\ row.consumed = spool[m].consumed \cup {i}
  BY <1>2 DEF Message
<1> HIDE DEF row
<1> QED BY <1>1, <1>2, <1>3, MessageSteps

LEMMA AckSteps ==
    ASSUME SpoolInv, NEW i \in Identities, NEW m \in MessageIds,
           AckConsumed(i, m) \/ AckDies(i, m)
    PROVE  RowInv' /\ AccountInv'
<1>1. m \in Spooled /\ i \in spool[m].recipients
  BY DEF AckConsumed, AckDies
<1>2. CASE Purge({m})
  BY <1>1, <1>2, PurgeSteps
<1>3. CASE MarkConsumed(i, m)
  BY <1>1, <1>3, MarkSteps
<1> QED BY <1>2, <1>3 DEF AckConsumed, AckDies

LEMMA MessageExpiresSteps ==
    ASSUME SpoolInv, NEW m \in MessageIds, MessageExpires(m)
    PROVE  RowInv' /\ AccountInv'
<1> DEFINE row == [spool[m] EXCEPT !.expired = TRUE]
<1>1. m \in Spooled /\ spool' = [spool EXCEPT ![m] = row] /\ UNCHANGED attachmentVars
  BY DEF MessageExpires
<1>2. spool[m] \in Message /\ spool[m].consumed \subseteq spool[m].recipients
  BY <1>1 DEF SpoolInv, RowInv, RowsTyped, Spooled
<1>3. /\ row \in Message /\ row.sender = spool[m].sender
      /\ row.recipients = spool[m].recipients /\ row.assets = spool[m].assets
      /\ row.consumed = spool[m].consumed
  BY <1>2 DEF Message
<1> HIDE DEF row
<1> QED BY <1>1, <1>2, <1>3, MessageSteps

LEMMA BeginSteps ==
    ASSUME SpoolInv, NEW i \in Identities, NEW a \in AssetIds, NEW audience \in SUBSET Identities,
           NEW hash \in Contents, UploadBegin(i, a, audience, hash)
    PROVE  RowInv' /\ AccountInv'
<1> DEFINE row == [owner |-> i, audience |-> audience, hash |-> hash,
                   chunks |-> [c \in Chunks |-> None], completed |-> FALSE, linked |-> None,
                   expired |-> FALSE]
<1>1. /\ attachments' = [attachments EXCEPT ![a] = row] /\ UNCHANGED spool
      /\ a \notin Stored /\ WithinQuota(i, AssetBytes) /\ Charge(i, AssetBytes)
  BY DEF UploadBegin, spoolVars
<1>2. row \in Attachment /\ row.owner = i /\ row.linked = None /\ ~row.completed
  BY DEF Attachment
<1> HIDE DEF row
<1>3. RowInv'
  BY <1>1, <1>2, AttachmentRows DEF SpoolInv
<1>4. /\ AllBytes(spool, attachments)' = AllBytes(spool, attachments) + AssetBytes
      /\ \A j \in Identities :
             OwnedBytes(spool, attachments, j)' =
                 OwnedBytes(spool, attachments, j) + (IF j = i THEN AssetBytes ELSE 0)
  BY <1>1, <1>2, UploadBytes DEF SpoolInv, RowInv
<1>5. AssetBytes \in Nat
  BY SpoolAssumption
<1>6. AccountInv'
  BY <1>1, <1>4, <1>5, ChargeAccounts DEF SpoolInv
<1> QED BY <1>3, <1>6

\* The row of an attachment changes, and stays its owner's.
LEMMA AttachmentSteps ==
    ASSUME SpoolInv, NEW a \in Stored, NEW row \in Attachment,
           attachments' = [attachments EXCEPT ![a] = row],
           UNCHANGED <<spool, globalUsage, memberUsage>>,
           row.owner = attachments[a].owner, row.linked = attachments[a].linked,
           row.audience = attachments[a].audience,
           row.completed => \A c \in Chunks : row.chunks[c] = row.hash
    PROVE  RowInv' /\ AccountInv'
<1>1. a \in AssetIds
  BY DEF Stored
<1>2. RowInv'
  BY <1>1, AttachmentRows DEF SpoolInv
<1>3. /\ Stored' = Stored /\ \A x \in Stored : attachments'[x].owner = attachments[x].owner
      /\ Spooled' = Spooled
  BY <1>1, NoneIsNoRow DEF SpoolInv, RowInv, RowsTyped, Spooled, Stored
<1>4. AccountInv'
  BY <1>3, SameBytes DEF SpoolInv
<1> QED BY <1>2, <1>4

LEMMA ChunkSteps ==
    ASSUME SpoolInv, NEW i \in Identities, NEW a \in AssetIds, NEW c \in Chunks,
           NEW content \in Contents, UploadChunk(i, a, c, content)
    PROVE  RowInv' /\ AccountInv'
<1> DEFINE chunks == [attachments[a].chunks EXCEPT ![c] = content]
           row    == [attachments[a] EXCEPT !.chunks = chunks]
<1>1. /\ a \in Stored /\ attachments[a].chunks[c] = None
      /\ attachments' = [attachments EXCEPT ![a] = row]
      /\ UNCHANGED <<spool, globalUsage, memberUsage>>
  BY DEF UploadChunk, Writable, spoolVars
<1>2. attachments[a] \in Attachment
  BY <1>1 DEF SpoolInv, RowInv, RowsTyped, Stored
<1>3. chunks \in [Chunks -> Contents \cup {None}]
  BY <1>2 DEF Attachment
<1> HIDE DEF chunks
<1>4. /\ row \in Attachment /\ row.owner = attachments[a].owner
      /\ row.linked = attachments[a].linked /\ row.audience = attachments[a].audience
      /\ row.completed = attachments[a].completed
  BY <1>2, <1>3 DEF Attachment
<1>5. ~attachments[a].completed
  <2>1. attachments[a].hash \in Contents
    BY <1>2 DEF Attachment
  <2> QED BY <1>1, <2>1, NoneIsNoRow DEF SpoolInv, RowInv, CompletedIsWhole
<1> HIDE DEF row
<1> QED BY <1>1, <1>4, <1>5, AttachmentSteps

LEMMA CompleteSteps ==
    ASSUME SpoolInv, NEW i \in Identities, NEW a \in AssetIds, UploadComplete(i, a)
    PROVE  RowInv' /\ AccountInv'
<1> DEFINE row == [attachments[a] EXCEPT !.completed = TRUE]
<1>1. /\ a \in Stored /\ \A c \in Chunks : attachments[a].chunks[c] = attachments[a].hash
      /\ attachments' = [attachments EXCEPT ![a] = row]
      /\ UNCHANGED <<spool, globalUsage, memberUsage>>
  BY DEF UploadComplete, Writable, spoolVars
<1>2. attachments[a] \in Attachment
  BY <1>1 DEF SpoolInv, RowInv, RowsTyped, Stored
<1>3. /\ row \in Attachment /\ row.owner = attachments[a].owner
      /\ row.linked = attachments[a].linked /\ row.audience = attachments[a].audience
      /\ row.chunks = attachments[a].chunks /\ row.hash = attachments[a].hash
  BY <1>2 DEF Attachment
<1> HIDE DEF row
<1> QED BY <1>1, <1>3, AttachmentSteps

LEMMA AttachmentExpiresSteps ==
    ASSUME SpoolInv, NEW a \in AssetIds, AttachmentExpires(a)
    PROVE  RowInv' /\ AccountInv'
<1> DEFINE row == [attachments[a] EXCEPT !.expired = TRUE]
<1>1. /\ a \in Stored /\ attachments' = [attachments EXCEPT ![a] = row]
      /\ UNCHANGED <<spool, globalUsage, memberUsage>>
  BY DEF AttachmentExpires, spoolVars
<1>2. attachments[a] \in Attachment
  BY <1>1 DEF SpoolInv, RowInv, RowsTyped, Stored
<1>3. /\ row \in Attachment /\ row.owner = attachments[a].owner
      /\ row.linked = attachments[a].linked /\ row.audience = attachments[a].audience
      /\ row.chunks = attachments[a].chunks /\ row.hash = attachments[a].hash
      /\ row.completed = attachments[a].completed
  BY <1>2 DEF Attachment
<1> HIDE DEF row
<1> QED BY <1>1, <1>3, AttachmentSteps DEF SpoolInv, RowInv, CompletedIsWhole

(***************************************************************************)
(* The invariant.                                                          *)
(***************************************************************************)
LEMMA InitSpoolInv == Init => SpoolInv
<1> SUFFICES ASSUME Init PROVE SpoolInv
  OBVIOUS
<1>1. Spooled = {} /\ Stored = {}
  BY DEF Init, Spooled, Stored
<1>2. RowInv
  BY <1>1 DEF Init, RowInv, RowsTyped, LinkedWithMessage, CompletedIsWhole
<1>3. AroundTyped
  BY SpoolAssumption DEF Init, AroundTyped
<1>b. AssetBytes \in Nat
  BY SpoolAssumption
<1>4. AllBytes(spool, attachments) = 0
  <2>1. Cardinality(Spooled) = 0 /\ Cardinality(Stored) = 0
    BY <1>1, FS_EmptySet
  <2> QED BY <1>b, <2>1, BytesAreSums
<1>5. ASSUME NEW i \in Identities PROVE OwnedBytes(spool, attachments, i) = 0
  <2>1. Sent(spool, i) = {} /\ Uploaded(attachments, i) = {}
    BY DEF Init, Sent, Uploaded
  <2>2. Cardinality(Sent(spool, i)) = 0 /\ Cardinality(Uploaded(attachments, i)) = 0
    BY <2>1, FS_EmptySet
  <2> QED BY <1>b, <2>2, BytesAreSums
<1>6. AccountInv
  BY <1>4, <1>5, SpoolAssumption DEF Init, AccountInv, CountersTyped, UsageExact, QuotaHolds
<1> QED BY <1>2, <1>3, <1>6 DEF SpoolInv

\* Rows and counters stay as they are.
LEMMA ElsewhereSteps ==
    ASSUME SpoolInv, UNCHANGED <<spool, attachmentVars>>
    PROVE  RowInv' /\ AccountInv'
<1>1. UNCHANGED <<spool, attachments, globalUsage, memberUsage>>
  BY DEF attachmentVars
<1> QED
  BY <1>1 DEF SpoolInv, RowInv, RowsTyped, LinkedWithMessage, CompletedIsWhole,
              Spooled, Stored, AccountInv, CountersTyped, UsageExact, QuotaHolds

\* The recount at open counts what the triggers had counted.
LEMMA RestartSteps ==
    ASSUME SpoolInv, Restart
    PROVE  RowInv' /\ AccountInv'
<1>1. UNCHANGED <<spool, attachments>>
  BY DEF Restart, spoolVars
<1>2. globalUsage' = globalUsage
  BY DEF Restart, Recount, SpoolInv, AccountInv, UsageExact
<1>3. memberUsage' = memberUsage
  BY DEF Restart, Recount, SpoolInv, AccountInv, UsageExact, CountersTyped
<1> QED BY <1>1, <1>2, <1>3, ElsewhereSteps DEF attachmentVars

LEMMA RowsStep ==
    ASSUME SpoolInv, [Next]_vars
    PROVE  RowInv' /\ AccountInv'
<1>1. CASE \E i \in Identities, m \in MessageIds, A \in SUBSET Identities, S \in SUBSET AssetIds :
               SendEnvelope(i, m, A, S)
  BY <1>1, SendSteps
<1>2. CASE \E i \in Identities, m \in MessageIds : AckConsumed(i, m) \/ AckDies(i, m)
  BY <1>2, AckSteps
<1>3. CASE \E m \in MessageIds : MessageExpires(m)
  BY <1>3, MessageExpiresSteps
<1>4. CASE \E i \in Identities, a \in AssetIds, A \in SUBSET Identities, h \in Contents :
               UploadBegin(i, a, A, h)
  BY <1>4, BeginSteps
<1>5. CASE \E i \in Identities, a \in AssetIds, c \in Chunks, h \in Contents :
               UploadChunk(i, a, c, h)
  BY <1>5, ChunkSteps
<1>6. CASE \E i \in Identities, a \in AssetIds : UploadComplete(i, a)
  BY <1>6, CompleteSteps
<1>7. CASE \E i \in Identities, a \in AssetIds : UploadAbort(i, a)
  <2>1. PICK a \in AssetIds : {a} \subseteq Stored /\ DeleteAttachments({a}) /\ UNCHANGED spool
    BY <1>7 DEF UploadAbort, spoolVars
  <2> QED BY <2>1, DeleteSteps
<1>8. CASE \E a \in AssetIds : AttachmentExpires(a)
  BY <1>8, AttachmentExpiresSteps
<1>9. CASE \E S \in SUBSET AssetIds : AttachmentCleanup(S)
  <2>1. PICK gone : gone \subseteq Stored /\ DeleteAttachments(gone) /\ UNCHANGED spool
    BY <1>9 DEF AttachmentCleanup, Unlinked, spoolVars
  <2> QED BY <2>1, DeleteSteps
<1>10. CASE RetentionLoop \/ \E S \in SUBSET MessageIds : RetentionDies(S)
  <2>1. PICK messages : messages \subseteq Spooled /\ Purge(messages)
    BY <1>10 DEF RetentionLoop, RetentionDies
  <2> QED BY <2>1, PurgeSteps
<1>11. CASE Restart
  BY <1>11, RestartSteps
<1>12. CASE \/ \E m \in MessageIds : ReplayWindowPasses(m)
            \/ \E i \in Identities : MembershipChanges(i) \/ AccessChanges(i)
            \/ Stop \/ UNCHANGED vars
  <2>1. UNCHANGED <<spool, attachmentVars>>
    BY <1>12 DEF ReplayWindowPasses, MembershipChanges, AccessChanges, Stop, Dies, vars, spoolVars
  <2> QED BY <2>1, ElsewhereSteps
<1> QED
  BY <1>1, <1>2, <1>3, <1>4, <1>5, <1>6, <1>7, <1>8, <1>9, <1>10, <1>11, <1>12 DEF Next

LEMMA AroundStep ==
    ASSUME AroundTyped, [Next]_vars
    PROVE  AroundTyped'
<1> USE SpoolAssumption DEF AroundTyped, communityVars, spoolVars
<1>1. CASE \E i \in Identities, m \in MessageIds, A \in SUBSET Identities, S \in SUBSET AssetIds :
               SendEnvelope(i, m, A, S)
  BY <1>1 DEF SendEnvelope
<1>2. CASE \E i \in Identities, a \in AssetIds, A \in SUBSET Identities, h \in Contents :
               UploadBegin(i, a, A, h)
  BY <1>2 DEF UploadBegin
<1>3. CASE \E m \in MessageIds : ReplayWindowPasses(m)
  BY <1>3 DEF ReplayWindowPasses
<1>6. CASE \E i \in Identities : MembershipChanges(i) \/ AccessChanges(i)
  BY <1>6 DEF MembershipChanges, AccessChanges
<1>7. CASE \/ Stop
           \/ \E i \in Identities, m \in MessageIds : AckDies(i, m)
           \/ \E S \in SUBSET MessageIds : RetentionDies(S)
  <2>1. Dies /\ UNCHANGED <<communityVars, sends>>
    BY <1>7 DEF Stop, AckDies, RetentionDies
  <2>2. up' \in BOOLEAN /\ seen' \subseteq MessageIds /\ sequences' \in [Identities -> Nat]
    BY <2>1 DEF Dies
  <2>3. turns' \in 0..MaxTurns /\ UNCHANGED <<members, viewers, sends>>
    BY <2>1 DEF Dies
  <2> QED BY <2>2, <2>3
<1>8. CASE Restart \/ UNCHANGED vars
  BY <1>8 DEF Restart, vars
<1>4. CASE \/ \E i \in Identities, m \in MessageIds : AckConsumed(i, m)
           \/ \E m \in MessageIds : MessageExpires(m)
           \/ RetentionLoop
  BY <1>4 DEF AckConsumed, MessageExpires, RetentionLoop
<1>5. CASE \/ \E i \in Identities, a \in AssetIds :
                 \/ \E c \in Chunks, h \in Contents : UploadChunk(i, a, c, h)
                 \/ UploadComplete(i, a) \/ UploadAbort(i, a)
           \/ \E a \in AssetIds : AttachmentExpires(a)
           \/ \E S \in SUBSET AssetIds : AttachmentCleanup(S)
  BY <1>5 DEF UploadChunk, UploadComplete, UploadAbort, AttachmentExpires, AttachmentCleanup
<1> QED
  BY <1>1, <1>2, <1>3, <1>4, <1>5, <1>6, <1>7, <1>8 DEF Next

LEMMA SpoolInvHolds == Spec => []SpoolInv
<1>1. SpoolInv /\ [Next]_vars => SpoolInv'
  BY RowsStep, AroundStep DEF SpoolInv
<1> QED BY <1>1, InitSpoolInv, PTL DEF Spec

(***************************************************************************)
(* The theorems.                                                           *)
(***************************************************************************)
\* store.ts, ensureSpoolQuota: the counters the triggers keep are the bytes stored, in all
\* and for each member, and never over a quota, through deletions of several rows at once,
\* restarts and recounts.
THEOREM SpoolAccountsAreExact == Spec => []AccountsExact
<1>1. SpoolInv => AccountsExact
  <2> SUFFICES ASSUME SpoolInv PROVE AccountsExact
    OBVIOUS
  <2>1. /\ \A m \in Spooled : spool[m] \in Message
        /\ \A a \in Stored : attachments[a] \in Attachment
    BY DEF SpoolInv, RowInv, RowsTyped, Spooled, Stored
  <2>2. TypeOK
    BY <2>1 DEF SpoolInv, RowInv, RowsTyped, AroundTyped, AccountInv, CountersTyped, TypeOK
  <2> QED BY <2>2 DEF SpoolInv, AccountInv, AccountsExact
<1> QED BY <1>1, SpoolInvHolds, PTL

\* purgeMessage: an attachment linked to a message is there only as long as the message
\* is, and for exactly the message's recipients.
THEOREM AttachmentsFollowMessages == Spec => []LinkedWithMessage
<1>1. SpoolInv => LinkedWithMessage
  BY DEF SpoolInv, RowInv
<1> QED BY <1>1, SpoolInvHolds, PTL

\* attachmentDownload: what is served is all the chunks of the asset its owner announced.
THEOREM ServedIsWhole == Spec => []ReadableIsWhole
<1>1. SpoolInv => ReadableIsWhole
  BY DEF SpoolInv, RowInv, CompletedIsWhole, ReadableIsWhole, Readable
<1> QED BY <1>1, SpoolInvHolds, PTL

\* A message that stays, and whose recipients and consumers stay.
LEMMA RowsKept ==
    ASSUME RowsTyped, UNCHANGED spool, NEW m \in Spooled
    PROVE  spool'[m] # None /\ spool'[m].consumed = spool[m].consumed
BY DEF Spooled

\* ackConsumed, startRetentionLoop: a message goes when it has expired or with the last ack
\* that was missing, and the last ack leaves it only if the process dies in it.
THEOREM ConsumedAreGone == Spec => PurgedWhenConsumed
<1> DEFINE Goes(m) == \/ spool[m].expired
                      \/ \E i \in members : ConsumedBy(m, spool[m].consumed \cup {i})
           Right(m) == /\ spool'[m] = None => Goes(m)
                       /\ (spool'[m] # None /\ ConsumedBy(m, spool'[m].consumed)) =>
                             ConsumedBy(m, spool[m].consumed) \/ ~up'
<1>1. ASSUME SpoolInv, Next, NEW m \in Spooled PROVE Right(m)
  <2>1. RowsTyped /\ m \in MessageIds /\ spool[m] \in Message /\ spool[m] # None
    BY <1>1 DEF SpoolInv, RowInv, RowsTyped, Spooled
  <2>2. CASE UNCHANGED spool
    BY <2>1, <2>2, RowsKept
  <2>3. CASE \E i \in Identities, n \in MessageIds, A \in SUBSET Identities, S \in SUBSET AssetIds :
                 SendEnvelope(i, n, A, S)
    <3>1. spool'[m] = spool[m]
      BY <2>1, <2>3 DEF SendEnvelope, Spooled, RowsTyped
    <3> QED BY <2>1, <3>1
  <2>4. CASE \E i \in Identities, n \in MessageIds : AckConsumed(i, n) \/ AckDies(i, n)
    <3>1. PICK i \in Identities, n \in MessageIds : AckConsumed(i, n) \/ AckDies(i, n)
      BY <2>4
    <3>2. CASE n # m
      <4>1. spool'[m] = spool[m]
        BY <2>1, <3>1, <3>2 DEF AckConsumed, AckDies, Purge, MarkConsumed, RowsTyped
      <4> QED BY <2>1, <4>1
    <3>3. CASE n = m /\ Purge({m}) /\ ConsumedBy(m, spool[m].consumed \cup {i})
      <4>1. spool'[m] = None
        BY <2>1, <3>3 DEF Purge
      <4>2. i \in members
        BY <3>1 DEF AckConsumed, AckDies
      <4> QED BY <3>3, <4>1, <4>2
    <3>4. CASE n = m /\ MarkConsumed(i, m) /\ (~ConsumedBy(m, spool[m].consumed \cup {i}) \/ ~up')
      <4>1. spool'[m] = [spool[m] EXCEPT !.consumed = spool[m].consumed \cup {i}]
        BY <2>1, <3>4 DEF MarkConsumed, RowsTyped
      <4>2. spool'[m] \in Message /\ spool'[m].consumed = spool[m].consumed \cup {i}
        <5>1. i \in Identities /\ i \in spool[m].recipients
          BY <3>1, <3>4 DEF AckConsumed, AckDies
        <5> QED BY <2>1, <4>1, <5>1 DEF Message
      <4>3. spool'[m] # None
        BY <4>2, NoneIsNoRow
      <4> QED BY <3>4, <4>2, <4>3
    <3> QED BY <3>1, <3>2, <3>3, <3>4 DEF AckConsumed, AckDies, Dies
  <2>5. CASE RetentionLoop \/ \E S \in SUBSET MessageIds : RetentionDies(S)
    <3>1. PICK gone : Purge(gone) /\ \A n \in gone : spool[n].expired
      BY <2>5 DEF RetentionLoop, RetentionDies
    <3>2. spool'[m] = IF m \in gone THEN None ELSE spool[m]
      BY <2>1, <3>1 DEF Purge
    <3> QED BY <2>1, <3>1, <3>2
  <2>6. CASE \E n \in MessageIds : MessageExpires(n)
    <3>1. PICK n \in MessageIds : spool' = [spool EXCEPT ![n].expired = TRUE]
      BY <2>6 DEF MessageExpires
    <3>2. \/ spool'[m] = spool[m]
          \/ spool'[m] = [spool[m] EXCEPT !.expired = TRUE]
      BY <2>1, <3>1 DEF RowsTyped
    <3>3. spool'[m] \in Message /\ spool'[m].consumed = spool[m].consumed
      BY <2>1, <3>2 DEF Message
    <3>4. spool'[m] # None
      BY <3>3, NoneIsNoRow
    <3> QED BY <3>3, <3>4
  <2> HIDE DEF Right
  <2>7. CASE \/ \E n \in MessageIds : ReplayWindowPasses(n)
             \/ \E i \in Identities, a \in AssetIds :
                   \/ \E A \in SUBSET Identities, h \in Contents : UploadBegin(i, a, A, h)
                   \/ \E c \in Chunks, h \in Contents : UploadChunk(i, a, c, h)
                   \/ UploadComplete(i, a) \/ UploadAbort(i, a)
             \/ \E a \in AssetIds : AttachmentExpires(a)
             \/ \E S \in SUBSET AssetIds : AttachmentCleanup(S)
             \/ \E i \in Identities : MembershipChanges(i) \/ AccessChanges(i)
             \/ Stop \/ Restart
    <3>1. UNCHANGED spool
      BY <2>7 DEF ReplayWindowPasses, UploadBegin, UploadChunk, UploadComplete, UploadAbort,
                  AttachmentExpires, AttachmentCleanup, MembershipChanges, AccessChanges,
                  Stop, Restart, spoolVars
    <3> QED BY <2>2, <3>1
  <2> QED BY <1>1, <2>3, <2>4, <2>5, <2>6, <2>7 DEF Next
<1>2. SpoolInv /\ [Next]_vars => [\A m \in Spooled : Right(m)]_vars
  BY <1>1
<1> QED BY <1>2, SpoolInvHolds, PTL DEF Spec, PurgedWhenConsumed
=============================================================================
