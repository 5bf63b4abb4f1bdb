-------------------------- MODULE ConnectionHealth --------------------------
(***************************************************************************)
(* internal/network/connection: the heartbeats and the health check of a   *)
(* connection manager that has a configuration.  One connection is         *)
(* followed; time is in seconds and the heartbeat interval is one second.  *)
(***************************************************************************)
EXTENDS Naturals, FiniteSetsExt

CONSTANTS
    MaxTicks,      \* bound: the oldest age that is told apart
    MaxReturns     \* bound: how often the peer comes back

ASSUME HealthAssumption == MaxTicks \in Nat /\ MaxTicks > 2 /\ MaxReturns \in Nat

VARIABLES
    state,         \* Connection.State
    beatAge,       \* time since LastHeartbeat
    retryCount, retryAge,   \* RetryCount and time since LastRetryAt
    expired,       \* checkConnectionHealth found the connection expired
    attempts,      \* AttemptReconnection goroutines
    alive,         \* the peer runs
    linkUp,        \* SendMessage to it succeeds
    returns

healthVars == <<state, beatAge, retryCount, retryAge, expired, attempts, alive,
                linkUp, returns>>

HealthInit ==
    /\ state = "connected"
    /\ beatAge = 0
    /\ retryCount = 0 /\ retryAge = MaxTicks
    /\ expired = FALSE /\ attempts = 0
    /\ alive = TRUE /\ linkUp = TRUE /\ returns = 0

\* 300 seconds at most; an age of MaxTicks is as old as it gets.
CalculateBackoffDuration(n) == IF n = 0 THEN 0 ELSE Min({2 ^ (n - 1), 300})

Tick ==
    /\ beatAge' = Min({beatAge + 1, MaxTicks})
    /\ retryAge' = Min({retryAge + 1, MaxTicks})
    /\ UNCHANGED <<state, retryCount, expired, attempts, alive, linkUp, returns>>

\* The peer goes away.
PeerDies ==
    /\ alive
    /\ alive' = FALSE
    /\ UNCHANGED <<state, beatAge, retryCount, retryAge, expired, attempts, linkUp, returns>>

\* The connection to a peer that is gone takes messages until keep-alives and
\* retransmissions have failed.
LinkFails ==
    /\ ~alive /\ linkUp
    /\ linkUp' = FALSE
    /\ UNCHANGED <<state, beatAge, retryCount, retryAge, expired, attempts, alive, returns>>

\* The peer comes back and connects: AddConnection makes a new entry, and the
\* transport calls UpdateConnectionState.
PeerReturns ==
    /\ ~alive /\ returns < MaxReturns
    /\ alive' = TRUE /\ linkUp' = TRUE
    /\ returns' = returns + 1
    /\ state' = "connected" /\ beatAge' = 0
    /\ retryCount' = 0 /\ retryAge' = MaxTicks
    /\ UNCHANGED <<expired, attempts>>

\* Mutant: the time of the heartbeat is set before the message is sent.
HeartbeatSentAnyway == TRUE

HeartbeatSent == linkUp

\* sendHeartbeatToAllPeers: connected peers only; UpdateHeartbeat when
\* SendMessage succeeds.
SendHeartbeat ==
    /\ state = "connected"
    /\ beatAge' = IF HeartbeatSent THEN 0 ELSE beatAge
    /\ UNCHANGED <<state, retryCount, retryAge, expired, attempts, alive, linkUp, returns>>

\* HandleHeartbeatResponse: a heartbeat of the peer, whatever the state.
HandleHeartbeat ==
    /\ alive
    /\ beatAge' = 0
    /\ UNCHANGED <<state, retryCount, retryAge, expired, attempts, alive, linkUp, returns>>

\* checkConnectionHealth reads the connection under its lock ...
CheckConnectionHealth ==
    /\ ~expired /\ state = "connected" /\ beatAge > 2
    /\ expired' = TRUE
    /\ UNCHANGED <<state, beatAge, retryCount, retryAge, attempts, alive, linkUp, returns>>

\* Mutant: the connection is given up without being marked.
MarkNothing ==
    /\ expired
    /\ expired' = FALSE
    /\ attempts' = attempts + 1
    /\ UNCHANGED <<state, beatAge, retryCount, retryAge, alive, linkUp, returns>>

\* ... and marks it later, whatever happened in between: a peer that came back
\* meanwhile is marked too.
MarkDisconnected ==
    /\ expired
    /\ expired' = FALSE
    /\ state' = "disconnected"
    /\ attempts' = attempts + 1
    /\ UNCHANGED <<beatAge, retryCount, retryAge, alive, linkUp, returns>>

\* AttemptReconnection: nothing dials, and nothing leaves "connecting" again
\* but a connection of the peer.
AttemptReconnection ==
    /\ attempts > 0
    /\ attempts' = attempts - 1
    /\ IF state = "connected" \/ retryAge < CalculateBackoffDuration(retryCount)
       THEN UNCHANGED <<state, retryCount, retryAge>>
       ELSE /\ retryCount' = retryCount + 1
            /\ retryAge' = 0
            /\ state' = "connecting"
    /\ UNCHANGED <<beatAge, expired, alive, linkUp, returns>>

Monitor == CheckConnectionHealth \/ MarkDisconnected \/ AttemptReconnection

HealthNext ==
    \/ Tick \/ PeerDies \/ LinkFails \/ PeerReturns
    \/ SendHeartbeat \/ HandleHeartbeat \/ Monitor

HealthSpec == HealthInit /\ [][HealthNext]_healthVars

-----------------------------------------------------------------------------
\* Every loss of the peer is acted on once: however often checkConnectionHealth
\* looks, and also when the peer comes back between its look and its mark, it
\* starts at most one AttemptReconnection for each time the peer was connected,
\* so that these goroutines do not pile up for a peer that stays away.
GivenUpOnce ==
    /\ attempts <= returns + 1
    /\ state = "connected" => attempts <= returns

\* A peer that is gone for good does not count as connected for ever, although
\* heartbeats are sent to it all the time: operations and heartbeats go to the
\* peers GetConnectedPeers returns.
LostPeerNoticed == ~alive ~> state # "connected" \/ alive
=============================================================================
