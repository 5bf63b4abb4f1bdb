--------------------------- MODULE ConnectionTable ---------------------------
(***************************************************************************)
(* The table of internal/network/connection/manager.go: one entry per peer *)
(* with the state of the connection, its session key and the address to    *)
(* dial.  A table is a function on the peer IDs; NoEntry stands for an ID  *)
(* that is not in the map.  Every operator is one critical section of      *)
(* cm.mu.                                                                  *)
(***************************************************************************)
EXTENDS Naturals

NoEntry == [state |-> "absent", key |-> {}, addr |-> "none"]

\* A key is the pair of IDs it is derived from; {} is a key that is not set.
\* The port of an accepted TCP connection is not one the peer listens on.
Entries(ids) == [state : {"absent", "disconnected", "connecting", "connected"},
                 key   : SUBSET ids,
                 addr  : {"none", "listening", "ephemeral"}]

HasEntry(tab, q) == tab[q] # NoEntry

\* Whatever was known of the peer is replaced, the session key included.
AddConnection(tab, q, addr) ==
    [tab EXCEPT ![q] = [state |-> "connected", key |-> {}, addr |-> addr]]

\* Nothing happens, an error is returned, where there is no entry.
UpdateConnectionState(tab, q, state) ==
    IF HasEntry(tab, q) THEN [tab EXCEPT ![q].state = state] ELSE tab

SetSessionKey(tab, q, key) ==
    IF HasEntry(tab, q) THEN [tab EXCEPT ![q].key = key] ELSE tab

\* GetSessionKey fails only where there is no entry: a key that is not set is
\* returned as if it were one.
GetSessionKeySucceeds(tab, q) == HasEntry(tab, q)

GetConnectedPeers(tab) == {q \in DOMAIN tab : tab[q].state = "connected"}

\* deriveSessionKey sorts the two IDs.
DeriveSessionKey(p, q) == {p, q}
=============================================================================
