---------------------------- MODULE PeeringProofs ----------------------------
(***************************************************************************)
(* How peers come together, for any number of processes and lost datagrams: *)
(* discovery misses nobody; and how a lost one is given up.                 *)
(***************************************************************************)
EXTENDS TLAPS, Discovery, ConnectionHealth

-----------------------------------------------------------------------------
(* Discovery.                                                               *)

\* The types the argument about the registry needs.
DiscoveryTypeOK ==
    /\ stage \in [Processes -> {"down", "listening", "calling", "up"}]
    /\ registry \in [Processes -> SUBSET Processes]
    /\ notify \in [Processes -> SUBSET Processes]
    /\ tried \in [Processes -> SUBSET Processes]
    /\ datagrams \subseteq Datagrams
    /\ losses \in 0 .. MaxLosses

\* Every step of UDP discovery and of main keeps the types.
LEMMA DiscoveryTypeStep ==
    ASSUME DiscoveryTypeOK, [DiscoveryNext]_discoveryVars
    PROVE  DiscoveryTypeOK'
<1> USE DiscoveryAssumption DEF DiscoveryTypeOK, Datagrams
<1>1. CASE \E p \in Processes : StartDiscovery(p) \/ SendDiscovery(p) \/ Main(p)
  BY <1>1 DEF StartDiscovery, SendDiscovery, Main, AddDiscoveryCallback,
              ConnectToKnownPeers, KnownPeers
<1>2. CASE \E p, q \in Processes : NotifyCallbacks(p, q)
  BY <1>2 DEF NotifyCallbacks
<1>3. CASE \E d \in datagrams : RespondToDiscovery(d)
  BY <1>3 DEF RespondToDiscovery
<1>4. CASE \E d \in datagrams : AddOrUpdatePeer(d)
  BY <1>4 DEF AddOrUpdatePeer
<1>5. CASE \E d \in datagrams : LoseDatagram(d)
  BY <1>5 DEF LoseDatagram
<1>6. CASE UNCHANGED discoveryVars
  BY <1>6 DEF discoveryVars
<1>7. QED BY <1>1, <1>2, <1>3, <1>4, <1>5, <1>6 DEF DiscoveryNext

\* The variables of UDP discovery and of main keep their types.
THEOREM DiscoveryTypeCorrect == DiscoverySpec => []DiscoveryTypeOK
<1>1. DiscoveryInit => DiscoveryTypeOK
  BY DiscoveryAssumption DEF DiscoveryInit, DiscoveryTypeOK
<1>2. DiscoveryTypeOK /\ [DiscoveryNext]_discoveryVars => DiscoveryTypeOK'
  BY DiscoveryTypeStep
<1>3. QED BY <1>1, <1>2, PTL DEF DiscoverySpec

\* Once main has read the registry, AddOrUpdatePeer hands every new peer to
\* notifyCallbacks and notifyCallbacks finds the callback: no interleaving of
\* the two with main leaves a registered peer without a connection attempt.
THEOREM NoPeerMissedHolds == DiscoverySpec => []NoPeerMissed
<1>1. DiscoveryInit => NoPeerMissed
  BY DEF DiscoveryInit, NoPeerMissed
<1>2. DiscoveryTypeOK /\ NoPeerMissed /\ [DiscoveryNext]_discoveryVars => NoPeerMissed'
  <2> SUFFICES ASSUME DiscoveryTypeOK, NoPeerMissed, [DiscoveryNext]_discoveryVars
               PROVE  NoPeerMissed'
    OBVIOUS
  <2> USE DEF DiscoveryTypeOK, NoPeerMissed
  <2>1. ASSUME NEW p \in Processes, StartDiscovery(p) \/ SendDiscovery(p)
        PROVE  NoPeerMissed'
    BY <2>1 DEF StartDiscovery, SendDiscovery
  <2>2. ASSUME NEW p \in Processes, AddDiscoveryCallback(p)
        PROVE  NoPeerMissed'
    BY <2>2 DEF AddDiscoveryCallback
  <2>3. ASSUME NEW p \in Processes, ConnectToKnownPeers(p)
        PROVE  NoPeerMissed'
    BY <2>3 DEF ConnectToKnownPeers, KnownPeers
  <2>4. ASSUME NEW p \in Processes, NEW q \in Processes, NotifyCallbacks(p, q)
        PROVE  NoPeerMissed'
    BY <2>4 DEF NotifyCallbacks, HasCallback
  <2>5. ASSUME NEW d \in datagrams, AddOrUpdatePeer(d)
        PROVE  NoPeerMissed'
    BY <2>5 DEF AddOrUpdatePeer, Datagrams
  <2>6. ASSUME NEW d \in datagrams, RespondToDiscovery(d) \/ LoseDatagram(d)
        PROVE  NoPeerMissed'
    BY <2>6 DEF RespondToDiscovery, LoseDatagram
  <2>7. CASE UNCHANGED discoveryVars
    BY <2>7 DEF discoveryVars
  <2>8. QED
    BY <2>1, <2>2, <2>3, <2>4, <2>5, <2>6, <2>7 DEF DiscoveryNext, Main
<1>3. QED BY <1>1, <1>2, DiscoveryTypeCorrect, PTL DEF DiscoverySpec

-----------------------------------------------------------------------------
(* The health check.                                                        *)

\* What the health check found holds until it marks the connection: nothing else
\* takes a connection out of "connected".
HealthInv ==
    /\ attempts \in Nat /\ returns \in Nat
    /\ expired => state = "connected"
    /\ GivenUpOnce

\* Each loss of a peer starts one attempt to reconnect at most, for any number
\* of returns and in every order of the checks, marks, returns and attempts.
THEOREM GivenUpOnceHolds == HealthSpec => []GivenUpOnce
<1>1. HealthInit => HealthInv
  BY DEF HealthInit, HealthInv, GivenUpOnce
<1>2. HealthInv /\ [HealthNext]_healthVars => HealthInv'
  <2> SUFFICES ASSUME HealthInv, [HealthNext]_healthVars PROVE HealthInv'
    OBVIOUS
  <2>1. CASE Tick \/ PeerDies \/ LinkFails \/ SendHeartbeat \/ HandleHeartbeat
    BY <2>1 DEF Tick, PeerDies, LinkFails, SendHeartbeat, HandleHeartbeat, HealthInv, GivenUpOnce
  <2>2. CASE PeerReturns
    BY <2>2 DEF PeerReturns, HealthInv, GivenUpOnce
  <2>3. CASE CheckConnectionHealth
    BY <2>3 DEF CheckConnectionHealth, HealthInv, GivenUpOnce
  <2>4. CASE MarkDisconnected
    BY <2>4 DEF MarkDisconnected, HealthInv, GivenUpOnce
  <2>5. CASE AttemptReconnection
    BY <2>5 DEF AttemptReconnection, HealthInv, GivenUpOnce
  <2>6. CASE UNCHANGED healthVars
    BY <2>6 DEF healthVars, HealthInv, GivenUpOnce
  <2>7. QED BY <2>1, <2>2, <2>3, <2>4, <2>5, <2>6 DEF HealthNext, Monitor
<1>3. HealthInv => GivenUpOnce
  BY DEF HealthInv
<1>4. QED BY <1>1, <1>2, <1>3, PTL DEF HealthSpec
=============================================================================
