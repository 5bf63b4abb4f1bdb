------------------------------ MODULE Discovery ------------------------------
(***************************************************************************)
(* How a process finds peers: internal/network/discovery (UDP broadcasts,  *)
(* their answers and the registry) and the part of main that connects to   *)
(* what is found, before and after it has registered its callback.         *)
(***************************************************************************)
EXTENDS Naturals, FiniteSets

CONSTANTS
    Processes,
    MaxLosses      \* bound: datagrams the network loses

ASSUME DiscoveryAssumption == IsFiniteSet(Processes) /\ MaxLosses \in Nat

VARIABLES
    stage,       \* how far main is: "down", "listening", "calling" or "up"
    registry,    \* the peers of the registry
    notify,      \* AddOrUpdatePeer calls between the unlock and the callbacks
    tried,       \* peers that ConnectToPeer has been called for
    datagrams, losses

discoveryVars == <<stage, registry, notify, tried, datagrams, losses>>

Datagrams == [kind : {"discovery", "response"}, from : Processes, to : Processes]

DiscoveryInit ==
    /\ stage = [p \in Processes |-> "down"]
    /\ registry = [p \in Processes |-> {}]
    /\ notify = [p \in Processes |-> {}]
    /\ tried = [p \in Processes |-> {}]
    /\ datagrams = {} /\ losses = 0

\* UDPDiscovery.Start, before the transport is started.
StartDiscovery(p) ==
    /\ stage[p] = "down"
    /\ stage' = [stage EXCEPT ![p] = "listening"]
    /\ UNCHANGED <<registry, notify, tried, datagrams, losses>>

\* The first broadcast and the one every 30 seconds: it reaches whoever
\* listens, the sender included.
SendDiscovery(p) ==
    /\ stage[p] # "down"
    /\ datagrams' = datagrams \cup
          {[kind |-> "discovery", from |-> p, to |-> q] :
              q \in {r \in Processes : stage[r] # "down"}}
    /\ UNCHANGED <<stage, registry, notify, tried, losses>>

\* Mutant: a peer that is known is not answered.
AnswersStrangers(p, q) == q # p /\ q \notin registry[p]

\* A process skips its own datagrams.
Answers(p, q) == q # p

\* listen and respondToDiscovery: the sender of a discovery is answered, not
\* registered.
RespondToDiscovery(d) ==
    /\ d \in datagrams /\ d.kind = "discovery"
    /\ datagrams' = (datagrams \ {d}) \cup
          IF Answers(d.to, d.from)
          THEN {[kind |-> "response", from |-> d.to, to |-> d.from]} ELSE {}
    /\ UNCHANGED <<stage, registry, notify, tried, losses>>

\* handleDiscoveryResponse and AddOrUpdatePeer up to the unlock.
AddOrUpdatePeer(d) ==
    LET p == d.to
        q == d.from
    IN  /\ d \in datagrams /\ d.kind = "response"
        /\ datagrams' = datagrams \ {d}
        /\ registry' = [registry EXCEPT ![p] = @ \cup {q}]
        /\ notify' = [notify EXCEPT ![p] = IF q \in registry[p] THEN @ ELSE @ \cup {q}]
        /\ UNCHANGED <<stage, tried, losses>>

HasCallback(p) == stage[p] \in {"calling", "up"}

\* notifyCallbacks calls the callbacks there are when it copies the list.
NotifyCallbacks(p, q) ==
    /\ q \in notify[p]
    /\ notify' = [notify EXCEPT ![p] = @ \ {q}]
    /\ tried' = [tried EXCEPT ![p] = IF HasCallback(p) THEN @ \cup {q} ELSE @]
    /\ UNCHANGED <<stage, registry, datagrams, losses>>

\* main: AddDiscoveryCallback, once the transport runs.
AddDiscoveryCallback(p) ==
    /\ stage[p] = "listening"
    /\ stage' = [stage EXCEPT ![p] = "calling"]
    /\ UNCHANGED <<registry, notify, tried, datagrams, losses>>

\* Mutant: only peers that come later are connected to.
NoKnownPeers(p) == {}

\* GetAllPeers.
KnownPeers(p) == registry[p]

\* main: the loop over the peers that were found before the callback was there.
ConnectToKnownPeers(p) ==
    /\ stage[p] = "calling"
    /\ stage' = [stage EXCEPT ![p] = "up"]
    /\ tried' = [tried EXCEPT ![p] = @ \cup KnownPeers(p)]
    /\ UNCHANGED <<registry, notify, datagrams, losses>>

LoseDatagram(d) ==
    /\ d \in datagrams /\ losses < MaxLosses
    /\ datagrams' = datagrams \ {d}
    /\ losses' = losses + 1
    /\ UNCHANGED <<stage, registry, notify, tried>>

Main(p) == AddDiscoveryCallback(p) \/ ConnectToKnownPeers(p)

DiscoveryNext ==
    \/ \E p \in Processes :
          \/ StartDiscovery(p) \/ SendDiscovery(p) \/ Main(p)
          \/ \E q \in Processes : NotifyCallbacks(p, q)
    \/ \E d \in datagrams :
          RespondToDiscovery(d) \/ AddOrUpdatePeer(d) \/ LoseDatagram(d)

DiscoverySpec == DiscoveryInit /\ [][DiscoveryNext]_discoveryVars

\* The ticker ticks, goroutines run, datagrams that are not lost arrive.
DiscoveryFairness ==
    /\ \A p \in Processes :
          /\ WF_discoveryVars(SendDiscovery(p)) /\ WF_discoveryVars(Main(p))
          /\ \A q \in Processes : WF_discoveryVars(NotifyCallbacks(p, q))
    /\ \A d \in Datagrams :
          WF_discoveryVars(RespondToDiscovery(d) \/ AddOrUpdatePeer(d))

-----------------------------------------------------------------------------
\* No peer is missed between the registration of the callback and the reading
\* of the registry, wherever AddOrUpdatePeer stands between its unlock and its
\* notification: a registered peer has been tried or is about to be.
NoPeerMissed ==
    \A p \in Processes :
        stage[p] = "up" => registry[p] \subseteq tried[p] \cup notify[p]

\* Two processes that run try to connect to each other, whichever started
\* first and although datagrams get lost.
PeersDiscovered ==
    \A p, q \in Processes :
        p # q /\ stage[p] # "down" /\ stage[q] # "down" ~> q \in tried[p]
=============================================================================
