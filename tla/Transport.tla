------------------------------ MODULE Transport ------------------------------
(***************************************************************************)
(* How peers find each other and get a session key: the start of           *)
(* cmd/p2p-sync/main.go, internal/network/discovery, the connection table  *)
(* and the QUIC and TCP transports of internal/network/transport.  Which   *)
(* protocol is configured is chosen in the initial state, the same for all *)
(* peers.  Peers are dialled under their IDs.                              *)
(***************************************************************************)
EXTENDS ConnectionTable, Sequences, FiniteSets

CONSTANTS
    Peers,
    Protocols,  \* subset of {"quic", "tcp"}
    Faults,     \* what may go wrong, once each, with which protocol
    MaxFaults   \* bound: how many of them in one behaviour

\* A link breaks, a process stops and starts again, a handshake is given up
\* although the answer would come.
FaultKinds == {"quic", "tcp"} \X {"loss", "restart", "late"}

ASSUME TransportAssumption ==
    /\ IsFiniteSet(Peers) /\ 0 \notin Peers
    /\ Protocols \subseteq {"quic", "tcp"}
    /\ Faults \subseteq FaultKinds /\ MaxFaults \in Nat

VARIABLES
    proto,     \* cfg.Network.Protocol
    up,        \* the transport listens
    found,     \* peers for which the callback of main has run
    table,     \* ConnectionManager.connections
    conns,     \* the transport's connections: an index of links, or 0
    sent,      \* handshakesSent
    lock,      \* connectionsMu: who holds it across its calls
    call,      \* goroutines in getOrCreateConnection and SendMessage
    links,     \* connections between two processes
    faults     \* history: what has gone wrong

vars == <<proto, up, found, table, conns, sent, lock, call, links, faults>>

\* ConnectToPeer, for a discovered or a configured peer, and SendMessage, for
\* a heartbeat or anything else.
Kinds == {"connect", "send"}
Free  == <<>>
Idle  == [pc |-> "idle", link |-> 0, addr |-> "none"]

\* Every peer but the process itself.
Others(p) == Peers \ {p}

-----------------------------------------------------------------------------
Init ==
    /\ proto \in Protocols
    /\ up = [p \in Peers |-> FALSE]
    /\ found = [p \in Peers |-> {}]
    /\ table = [p \in Peers |-> [q \in Peers |-> NoEntry]]
    /\ conns = [p \in Peers |-> [q \in Peers |-> 0]]
    /\ sent = [p \in Peers |-> {}]
    /\ lock = [p \in Peers |-> Free]
    /\ call = [p \in Peers |-> [q \in Peers |-> [k \in Kinds |-> Idle]]]
    /\ links = <<>>
    /\ faults = {}

Fault(kind) ==
    /\ <<proto, kind>> \in Faults /\ kind \notin faults
    /\ Cardinality(faults) < MaxFaults
    /\ faults' = faults \cup {kind}

-----------------------------------------------------------------------------
\* "Already connected": an entry is enough, see GetSessionKeySucceeds.
AlreadyConnected(p, q) ==
    HasEntry(table[p], q) /\ GetSessionKeySucceeds(table[p], q)

StartTransport(p) ==
    /\ ~up[p]
    /\ up' = [up EXCEPT ![p] = TRUE]
    /\ UNCHANGED <<proto, found, table, conns, sent, lock, call, links,
                   faults>>

\* The callback of main for a peer that discovery has found, once per peer, or
\* its loop over the peers found before: ConnectToPeer in a goroutine.
DiscoveryCallback(p, q) ==
    /\ up[p] /\ q \in Others(p) \ found[p]
    /\ found' = [found EXCEPT ![p] = @ \cup {q}]
    /\ call' = IF AlreadyConnected(p, q) THEN call ELSE
           [call EXCEPT ![p][q]["connect"] =
               [pc |-> "lookup", link |-> 0, addr |-> "listening"]]
    /\ UNCHANGED <<proto, up, table, conns, sent, lock, links, faults>>

-----------------------------------------------------------------------------
(* getOrCreateConnection and SendMessage, alike in both transports.  The    *)
(* time a dial takes under the lock is that of a step.                     *)

Reachable(q, addr) == up[q] /\ addr = "listening"

\* Mutant: a path that returns without unlocking.
UnlockNever(p) == UNCHANGED lock

Unlock(p) == lock' = [lock EXCEPT ![p] = Free]

\* A connection was found: ConnectToPeer is done, SendMessage uses it.
Found(k, c, addr) ==
    IF k = "send" THEN [pc |-> "have", link |-> c, addr |-> addr] ELSE Idle

\* The look under the read lock, and what follows it.
Looked(p, q, k, addr) ==
    IF conns[p][q] # 0 THEN Found(k, conns[p][q], addr)
                       ELSE [pc |-> "lock", link |-> 0, addr |-> addr]

LookUp(p, q) ==
    /\ call[p][q]["connect"].pc = "lookup" /\ lock[p] = Free
    /\ call' = [call EXCEPT ![p][q]["connect"] = Looked(p, q, "connect", "listening")]
    /\ UNCHANGED <<proto, up, found, table, conns, sent, lock, links, faults>>

\* A heartbeat, an operation, a chunk: to the address of the table.
StartSend(p, q) ==
    /\ q \in GetConnectedPeers(table[p])
    /\ call[p][q]["send"] = Idle /\ lock[p] = Free
    /\ call' = [call EXCEPT ![p][q]["send"] = Looked(p, q, "send", table[p][q].addr)]
    /\ UNCHANGED <<proto, up, found, table, conns, sent, lock, links, faults>>

\* Mutant: no second look under the write lock.
MayDialUnchecked(p, q) == TRUE

MayDial(p, q) == conns[p][q] = 0

\* The second look finds a connection, or the peer cannot be reached.
NoDial(p, q, k) ==
    /\ call[p][q][k].pc = "lock" /\ lock[p] = Free
    /\ \/ /\ ~MayDial(p, q)
          /\ call' = [call EXCEPT ![p][q][k] = Found(k, conns[p][q], @.addr)]
       \/ /\ MayDial(p, q) /\ ~Reachable(q, call[p][q][k].addr)
          /\ call' = [call EXCEPT ![p][q][k] = Idle]
    /\ UNCHANGED <<proto, up, found, table, conns, sent, lock, links, faults>>

\* Mutant: the connection is registered once the handshake is done.
AddDialedLate(p, q) ==
    IF q \in sent[p] THEN AddConnection(table[p], q, "listening") ELSE table[p]

AddDialed(p, q) ==
    UpdateConnectionState(AddConnection(table[p], q, "listening"), q, "connected")

\* Under the write lock the connection is stored and registered; a goroutine
\* reads from it; the first connection to a peer, ever, carries a handshake,
\* for whose answer the call keeps the lock.
Dial(p, q, k) ==
    LET c     == Len(links) + 1
        first == q \notin sent[p]
    IN  /\ call[p][q][k].pc = "lock" /\ lock[p] = Free
        /\ MayDial(p, q) /\ Reachable(q, call[p][q][k].addr)
        /\ links' = Append(links, [from |-> p, to |-> q, alive |-> TRUE,
                                   hs  |-> IF first THEN "request" ELSE "none",
                                   reg |-> [e \in Peers |-> "new"]])
        /\ conns' = [conns EXCEPT ![p][q] = c]
        /\ table' = [table EXCEPT ![p] = AddDialed(p, q)]
        /\ sent' = [sent EXCEPT ![p] = @ \cup {q}]
        /\ IF first
           THEN /\ call' = [call EXCEPT ![p][q][k] = [@ EXCEPT !.pc = "wait", !.link = c]]
                /\ lock' = [lock EXCEPT ![p] = <<q, k>>]
           ELSE /\ call' = [call EXCEPT ![p][q][k] = Found(k, c, @.addr)]
                /\ UNCHANGED lock
        /\ UNCHANGED <<proto, up, found, faults>>

\* The other end of a link.
Peer(l, e) == IF e = l.from THEN l.to ELSE l.from

\* The handler at an end has a handshake to read first.
HandshakePending(l, e) ==
    l.hs \in IF e = l.to THEN {"request", "added", "keyed"}
                         ELSE {"response", "answerAdded", "answerKeyed"}

\* The message is written.  Over TCP it is the first one its handler reads
\* when there was no handshake on the link.
SendMessage(p, q) ==
    LET c == call[p][q]["send"].link
    IN  /\ call[p][q]["send"].pc = "have" /\ links[c].alive
        /\ call' = [call EXCEPT ![p][q]["send"] = Idle]
        /\ links' = [links EXCEPT ![c].reg[q] =
               IF proto = "tcp" /\ @ = "new" /\ ~HandshakePending(links[c], q)
               THEN "read" ELSE @]
        /\ UNCHANGED <<proto, up, found, table, conns, sent, lock, faults>>

\* A dead link takes a message that will not arrive.
SendLost(p, q) ==
    /\ call[p][q]["send"].pc = "have" /\ ~links[call[p][q]["send"].link].alive
    /\ call' = [call EXCEPT ![p][q]["send"] = Idle]
    /\ UNCHANGED <<proto, up, found, table, conns, sent, lock, links, faults>>

\* Or its end is noticed: then whatever is stored for the peer is forgotten.
SendFails(p, q) ==
    /\ call[p][q]["send"].pc = "have" /\ ~links[call[p][q]["send"].link].alive
    /\ lock[p] = Free
    /\ call' = [call EXCEPT ![p][q]["send"] = Idle]
    /\ conns' = [conns EXCEPT ![p][q] = 0]
    /\ UNCHANGED <<proto, up, found, table, sent, lock, links, faults>>

-----------------------------------------------------------------------------
(* Handshakes.  The handler of a link keeps its place in links[c].hs.       *)

\* Stored only if there is none for the peer.
StoreIfNone(p, q, c) == [conns EXCEPT ![p][q] = IF @ = 0 THEN c ELSE @]

Step(c, from, to) ==
    /\ links[c].hs = from
    /\ links' = [links EXCEPT ![c].hs = to]

\* QUIC, handleStream: store, register, set the key and answer.
QuicStore(c) ==
    LET l == links[c]
    IN  /\ proto = "quic" /\ l.alive /\ lock[l.to] = Free
        /\ Step(c, "request", "stored")
        /\ conns' = StoreIfNone(l.to, l.from, c)
        /\ UNCHANGED <<proto, up, found, table, sent, lock, call, faults>>

QuicRegister(c) ==
    LET l == links[c]
    IN  /\ Step(c, "stored", "registered")
        /\ table' = [table EXCEPT ![l.to] =
               UpdateConnectionState(AddConnection(@, l.from, "listening"), l.from, "connected")]
        /\ UNCHANGED <<proto, up, found, conns, sent, lock, call, faults>>

Keyed(p, q) == SetSessionKey(table[p], q, DeriveSessionKey(p, q))

\* Mutant: the key is set before the connection is registered.
QuicKeyTooEarly(c) ==
    LET l == links[c]
    IN  /\ Step(c, "registered", "response")
        /\ table' = [table EXCEPT ![l.to] =
               AddConnection(Keyed(l.to, l.from), l.from, "listening")]
        /\ UNCHANGED <<proto, up, found, conns, sent, lock, call, faults>>

QuicKeyAndAnswer(c) ==
    LET l == links[c]
    IN  /\ Step(c, "registered", "response")
        /\ table' = [table EXCEPT ![l.to] = Keyed(l.to, l.from)]
        /\ UNCHANGED <<proto, up, found, conns, sent, lock, call, faults>>

\* The dialler has the answer, the key is set, the lock is given back.
QuicAnswered(p, q, k) ==
    LET c == call[p][q][k].link
    IN  /\ proto = "quic" /\ call[p][q][k].pc = "wait" /\ links[c].alive
        /\ Step(c, "response", "done")
        /\ table' = [table EXCEPT ![p] = Keyed(p, q)]
        /\ call' = [call EXCEPT ![p][q][k] =
               IF k = "send" THEN [@ EXCEPT !.pc = "have"] ELSE Idle]
        /\ Unlock(p)
        /\ UNCHANGED <<proto, up, found, conns, sent, faults>>

\* TCP, handleConnection, a handshake first: register, set the key, store
\* and answer.  The port of the accepted connection becomes the address.
TcpRegister(c) ==
    LET l == links[c]
    IN  /\ proto = "tcp" /\ l.alive
        /\ Step(c, "request", "added")
        /\ table' = [table EXCEPT ![l.to] =
               UpdateConnectionState(AddConnection(@, l.from, "ephemeral"), l.from, "connected")]
        /\ UNCHANGED <<proto, up, found, conns, sent, lock, call, faults>>

TcpKey(c) ==
    LET l == links[c]
    IN  /\ Step(c, "added", "keyed")
        /\ table' = [table EXCEPT ![l.to] = Keyed(l.to, l.from)]
        /\ UNCHANGED <<proto, up, found, conns, sent, lock, call, faults>>

TcpStoreAndAnswer(c) ==
    LET l == links[c]
    IN  /\ l.hs = "keyed" /\ lock[l.to] = Free
        /\ links' = [links EXCEPT ![c].hs = "response", ![c].reg[l.to] = "done"]
        /\ conns' = StoreIfNone(l.to, l.from, c)
        /\ UNCHANGED <<proto, up, found, table, sent, lock, call, faults>>

\* The answer is read by the dialler: readHandshakeResponse calls updatePeerID,
\* which locks connectionsMu, which this call holds.
TcpAnswered(p, q, k) ==
    /\ proto = "tcp" /\ call[p][q][k].pc = "wait"
    /\ links[call[p][q][k].link].alive
    /\ Step(call[p][q][k].link, "response", "done")
    /\ call' = [call EXCEPT ![p][q][k].pc = "stuck"]
    /\ UNCHANGED <<proto, up, found, table, conns, sent, lock, faults>>

\* Or it is read by the goroutine of the dialled connection, for which it is
\* a first handshake like any other; the answer to it is ignored.
TcpReaderRegister(c) ==
    LET l == links[c]
    IN  /\ proto = "tcp" /\ l.alive
        /\ Step(c, "response", "answerAdded")
        /\ table' = [table EXCEPT ![l.from] =
               UpdateConnectionState(AddConnection(@, l.to, "listening"), l.to, "connected")]
        /\ UNCHANGED <<proto, up, found, conns, sent, lock, call, faults>>

TcpReaderKey(c) ==
    LET l == links[c]
    IN  /\ Step(c, "answerAdded", "answerKeyed")
        /\ table' = [table EXCEPT ![l.from] = Keyed(l.from, l.to)]
        /\ UNCHANGED <<proto, up, found, conns, sent, lock, call, faults>>

TcpReaderStore(c) ==
    LET l == links[c]
    IN  /\ l.hs = "answerKeyed" /\ lock[l.from] = Free
        /\ links' = [links EXCEPT ![c].hs = "done", ![c].reg[l.from] = "done"]
        /\ conns' = StoreIfNone(l.from, l.to, c)
        /\ UNCHANGED <<proto, up, found, table, sent, lock, call, faults>>

\* A first message that is no handshake registers the connection, too.
TcpFirstRegister(c, e) ==
    LET l == links[c]
    IN  /\ e \in {l.from, l.to} /\ l.reg[e] = "read"
        /\ links' = [links EXCEPT ![c].reg[e] = "registered"]
        /\ table' = [table EXCEPT ![e] = UpdateConnectionState(
               AddConnection(@, Peer(l, e), IF e = l.to THEN "ephemeral" ELSE "listening"),
               Peer(l, e), "connected")]
        /\ UNCHANGED <<proto, up, found, conns, sent, lock, call, faults>>

TcpFirstStore(c, e) ==
    LET l == links[c]
    IN  /\ e \in {l.from, l.to} /\ l.reg[e] = "registered" /\ lock[e] = Free
        /\ links' = [links EXCEPT ![c].reg[e] = "done"]
        /\ conns' = StoreIfNone(e, Peer(l, e), c)
        /\ UNCHANGED <<proto, up, found, table, sent, lock, call, faults>>

-----------------------------------------------------------------------------
(* A handshake without an answer.                                          *)

\* The dialler at p holds its lock while it waits itself.
Waiting(p) == /\ lock[p] # Free
              /\ call[p][lock[p][1]][lock[p][2]].pc \in {"wait", "stuck"}

\* No answer can come while this lasts: the handler waits for the lock of its
\* peer, or the other reader has taken the answer.
Blocked(l) ==
    \/ proto = "quic" /\ l.hs = "request" /\ Waiting(l.to)
    \/ proto = "tcp" /\ l.hs = "keyed" /\ Waiting(l.to)
    \/ l.hs \in {"answerAdded", "answerKeyed"}

\* The call returns an error.  The connection stays stored and the handshake
\* counts as sent.  Over TCP the read deadline also ends the other reader,
\* which closes the connection, unless it has got the answer.
GiveUp(p, q, k) ==
    /\ call' = [call EXCEPT ![p][q][k] = Idle]
    /\ Unlock(p)
    /\ links' = [links EXCEPT ![call[p][q][k].link].alive =
           @ /\ (proto = "quic" \/ links[call[p][q][k].link].hs
                                        \in {"answerAdded", "answerKeyed"})]
    /\ UNCHANGED <<proto, up, found, table, conns, sent>>

\* Mutant: the answer is waited for without a timer.
HandshakeTimeoutNever(p, q, k) == FALSE /\ UNCHANGED vars

HandshakeTimeout(p, q, k) ==
    /\ call[p][q][k].pc = "wait" /\ Blocked(links[call[p][q][k].link])
    /\ GiveUp(p, q, k)
    /\ UNCHANGED faults

HandshakeLate(p, q, k) ==
    /\ call[p][q][k].pc = "wait"
    /\ ~Blocked(links[call[p][q][k].link]) /\ links[call[p][q][k].link].alive
    /\ GiveUp(p, q, k)
    /\ Fault("late")

HandshakeBroken(p, q, k) ==
    /\ call[p][q][k].pc = "wait" /\ ~links[call[p][q][k].link].alive
    /\ links[call[p][q][k].link].hs \notin {"answerAdded", "answerKeyed"}
    /\ GiveUp(p, q, k)
    /\ UNCHANGED faults

-----------------------------------------------------------------------------
Lose(c) ==
    /\ links[c].alive
    /\ Fault("loss")
    /\ links' = [links EXCEPT ![c].alive = FALSE]
    /\ UNCHANGED <<proto, up, found, table, conns, sent, lock, call>>

\* A process stops and is started again: nothing of this is persistent.
Restart(p) ==
    /\ Fault("restart")
    /\ up' = [up EXCEPT ![p] = FALSE]
    /\ found' = [found EXCEPT ![p] = {}]
    /\ table' = [table EXCEPT ![p] = [q \in Peers |-> NoEntry]]
    /\ conns' = [conns EXCEPT ![p] = [q \in Peers |-> 0]]
    /\ sent' = [sent EXCEPT ![p] = {}]
    /\ lock' = [lock EXCEPT ![p] = Free]
    /\ call' = [call EXCEPT ![p] = [q \in Peers |-> [k \in Kinds |-> Idle]]]
    /\ links' = [c \in DOMAIN links |->
           IF p \notin {links[c].from, links[c].to} THEN links[c] ELSE
           [links[c] EXCEPT !.alive = FALSE, !.reg[p] = "done",
               !.hs = IF p = links[c].to \/ @ \in {"answerAdded", "answerKeyed"}
                      THEN "done" ELSE @]]
    /\ UNCHANGED proto

-----------------------------------------------------------------------------
Main(p) == StartTransport(p) \/ \E q \in Peers : DiscoveryCallback(p, q)

Call(p, q, k) ==
    \/ NoDial(p, q, k) \/ Dial(p, q, k) \/ QuicAnswered(p, q, k)
    \/ HandshakeTimeout(p, q, k) \/ HandshakeBroken(p, q, k)
    \/ k = "connect" /\ LookUp(p, q)
    \/ k = "send" /\ (StartSend(p, q) \/ SendMessage(p, q)
                      \/ SendLost(p, q) \/ SendFails(p, q))

Handler(c) ==
    \/ QuicStore(c) \/ QuicRegister(c) \/ QuicKeyAndAnswer(c)
    \/ TcpRegister(c) \/ TcpKey(c) \/ TcpStoreAndAnswer(c)
    \/ TcpReaderKey(c) \/ TcpReaderStore(c)
    \/ \E e \in Peers : TcpFirstRegister(c, e) \/ TcpFirstStore(c, e)

Next ==
    \/ \E p \in Peers : Main(p) \/ Restart(p)
    \/ \E p \in Peers, q \in Peers, k \in Kinds :
          Call(p, q, k) \/ TcpAnswered(p, q, k) \/ HandshakeLate(p, q, k)
    \/ \E c \in DOMAIN links : Handler(c) \/ TcpReaderRegister(c) \/ Lose(c)

Spec == Init /\ [][Next]_vars

\* Goroutines run, peers broadcast every 30 seconds and send heartbeats, the
\* timer of a handshake fires, one of two readers gets the bytes, and a dead
\* connection is noticed in the end.
FairSpec ==
    /\ Spec
    /\ \A p \in Peers : WF_vars(Main(p))
    /\ \A p \in Peers : \A q \in Others(p) :
          /\ SF_vars(SendFails(p, q))
          /\ \A k \in Kinds : SF_vars(Call(p, q, k))
    /\ SF_vars(\E c \in DOMAIN links : Handler(c))
    /\ WF_vars(\/ \E c \in DOMAIN links : TcpReaderRegister(c)
               \/ \E p, q \in Peers, k \in Kinds : TcpAnswered(p, q, k))

-----------------------------------------------------------------------------
CallRecords ==
    [pc : {"idle", "lookup", "lock", "wait", "have", "stuck"}, link : Nat,
     addr : {"none", "listening", "ephemeral"}]

LinkRecords ==
    [from : Peers, to : Peers, alive : BOOLEAN,
     hs  : {"none", "request", "stored", "registered", "added", "keyed",
            "response", "answerAdded", "answerKeyed", "done"},
     reg : [Peers -> {"new", "read", "registered", "done"}]]

\* What a call uses is a link, and whoever waits for a handshake, and nobody
\* else, has the lock.
CallOK(p, q, k) ==
    /\ call[p][q][k].link \in 0 .. Len(links)
    /\ call[p][q][k].pc \in {"wait", "have"} => call[p][q][k].link # 0
    /\ (lock[p] = <<q, k>>) <=> (call[p][q][k].pc \in {"wait", "stuck"})

\* Every variable has its type, and what is stored is a link.
TypeOK ==
    /\ proto \in Protocols
    /\ up \in [Peers -> BOOLEAN]
    /\ found \in [Peers -> SUBSET Peers] /\ sent \in [Peers -> SUBSET Peers]
    /\ table \in [Peers -> [Peers -> Entries(Peers)]]
    /\ conns \in [Peers -> [Peers -> 0 .. Len(links)]]
    /\ lock \in [Peers -> {Free} \cup (Peers \X Kinds)]
    /\ call \in [Peers -> [Peers -> [Kinds -> CallRecords]]]
    /\ links \in Seq(LinkRecords)
    /\ faults \subseteq {"loss", "restart", "late"}
    /\ \A p, q \in Peers, k \in Kinds : CallOK(p, q, k)

\* A peer that has a key, and so sends encrypted messages, is known to the
\* other side, which does not reject them as from an unknown sender, as long as
\* nobody restarts: both ends register before either sets a key.
KeyedPeerIsKnown ==
    "restart" \notin faults => \A p, q \in Peers : table[p][q].key # {} => HasEntry(table[q], p)

\* A connection that is stored for a peer is not replaced by another, whoever
\* dials at the same time: it is only given up.  (tcp.go: "to avoid overwriting
\* outbound connections with incoming ones".)
StoredConnectionKept ==
    [][\A p, q \in Peers : conns[p][q] # 0 => conns'[p][q] \in {conns[p][q], 0}]_vars

\* readHandshakeResponse has got to updatePeerID.
SelfDeadlocked(p) == \E q \in Peers, k \in Kinds : call[p][q][k].pc = "stuck"

\* Nobody keeps connectionsMu for ever, although it is held across a dial and a
\* handshake with a peer that may do the same: every crossed handshake is
\* resolved by a timeout.  The one exception is a TCP dialler that reads the
\* answer itself.
LockGivenBack ==
    \A p \in Peers : lock[p] # Free ~> (lock[p] = Free \/ SelfDeadlocked(p))

AllKeyed == \A p \in Peers : \A q \in Others(p) : table[p][q].key # {}

\* Over QUIC, when no link breaks, no process restarts and no answer is late,
\* all peers have keys for each other in the end and for ever, in whatever
\* order they start, find each other, and dial, crossing each other or not.
KeysEventually == [](proto = "quic" /\ faults = {}) => <>[]AllKeyed

\* spec.md, "Connection Recovery: Reconnect and resume on disconnection": peers
\* whose connection broke have keys for each other again.
KeysRecover == <>[]AllKeyed
=============================================================================
