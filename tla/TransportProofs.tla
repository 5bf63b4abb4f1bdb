--------------------------- MODULE TransportProofs ---------------------------
(***************************************************************************)
(* The transports and the connection table, for any number of peers and    *)
(* with every fault: the lock belongs to whoever waits for a handshake, a   *)
(* stored connection is not replaced, and a peer with a key is known.       *)
(***************************************************************************)
EXTENDS TLAPS, Transport, SequenceTheorems

Calls  == [Peers -> [Peers -> [Kinds -> CallRecords]]]
Tables == [Peers -> [Peers -> Entries(Peers)]]
Addrs  == {"none", "listening", "ephemeral"}

\* A peer that main has not been told of is not connected to, and whoever waits
\* for a handshake waits on the link it dialled.
CallKnown(p, q, k) ==
    /\ q \notin found[p] /\ k = "connect" => call[p][q][k].pc = "idle"
    /\ call[p][q][k].pc = "wait" =>
          /\ links[call[p][q][k].link].from = p
          /\ links[call[p][q][k].link].to = q

CallsOK == \A p, q \in Peers, k \in Kinds : CallOK(p, q, k) /\ CallKnown(p, q, k)

\* The places of a handshake at which both ends have registered each other.
BothRegistered ==
    {"registered", "added", "keyed", "response", "answerAdded", "answerKeyed", "done"}

\* The types of TypeOK.
VarsOK ==
    /\ proto \in Protocols
    /\ up \in [Peers -> BOOLEAN]
    /\ found \in [Peers -> SUBSET Peers] /\ sent \in [Peers -> SUBSET Peers]
    /\ table \in Tables
    /\ conns \in [Peers -> [Peers -> 0 .. Len(links)]]
    /\ lock \in [Peers -> {Free} \cup (Peers \X Kinds)]
    /\ call \in Calls
    /\ links \in Seq(LinkRecords)
    /\ faults \subseteq {"loss", "restart", "late"}

\* Who dials registers the peer at once, who is dialled before it sets a key.
LinksKnown ==
    \A c \in DOMAIN links :
        LET l == links[c]
        IN  /\ HasEntry(table[l.from], l.to)
            /\ l.hs \in BothRegistered => HasEntry(table[l.to], l.from)

KeysKnown == \A p, q \in Peers : table[p][q].key # {} => HasEntry(table[q], p)

\* The inductive invariant of the transports.
TransportInv ==
    /\ VarsOK
    /\ CallsOK
    /\ "restart" \notin faults => LinksKnown /\ KeysKnown

-----------------------------------------------------------------------------
(* Updates of the variables, entry by entry.                                *)

\* The ends of a link.
LEMMA Ends ==
    ASSUME links \in Seq(LinkRecords)
    PROVE  \A d \in DOMAIN links :
              links[d] \in LinkRecords /\ links[d].from \in Peers /\ links[d].to \in Peers
<1>1. \A d \in DOMAIN links : links[d] \in LinkRecords
  OBVIOUS
<1>2. \A l \in LinkRecords : l.from \in Peers /\ l.to \in Peers
  BY DEF LinkRecords
<1>3. QED BY <1>1, <1>2

\* One link changes.
LEMMA LinkUpdate ==
    ASSUME links \in Seq(LinkRecords), NEW c \in DOMAIN links,
           NEW l \in LinkRecords, links' = [links EXCEPT ![c] = l]
    PROVE  /\ links' \in Seq(LinkRecords)
           /\ Len(links') = Len(links) /\ DOMAIN links' = DOMAIN links
           /\ links'[c] = l
           /\ \A d \in DOMAIN links : d # c => links'[d] = links[d]
<1>1. links' \in Seq(LinkRecords) /\ Len(links') = Len(links)
  BY ExceptSeq
<1>2. QED BY <1>1

\* One table changes.
LEMMA TableUpdate ==
    ASSUME table \in Tables, NEW p \in Peers, NEW tab \in [Peers -> Entries(Peers)],
           table' = [table EXCEPT ![p] = tab]
    PROVE  /\ table' \in Tables /\ table'[p] = tab
           /\ \A x \in Peers : x # p => table'[x] = table[x]
BY DEF Tables

\* AddConnection and UpdateConnectionState leave an entry without a key.
LEMMA Registered ==
    ASSUME NEW tab \in [Peers -> Entries(Peers)], NEW q \in Peers,
           NEW addr \in {"none", "listening", "ephemeral"}
    PROVE  LET new == UpdateConnectionState(AddConnection(tab, q, addr), q, "connected")
           IN  /\ new \in [Peers -> Entries(Peers)]
               /\ HasEntry(new, q) /\ new[q].key = {}
               /\ \A x \in Peers : x # q => new[x] = tab[x]
<1> DEFINE e == [state |-> "connected", key |-> {}, addr |-> addr]
           new == UpdateConnectionState(AddConnection(tab, q, addr), q, "connected")
<1>1. e \in Entries(Peers) /\ e.state = "connected" /\ e.key = {}
  BY DEF Entries
<1>2. e # NoEntry
  BY <1>1 DEF NoEntry
<1>3. [e EXCEPT !.state = "connected"] = e
  OBVIOUS
<1>4. AddConnection(tab, q, addr) = [tab EXCEPT ![q] = e]
  BY DEF AddConnection
<1> HIDE DEF e
<1>5. new = [tab EXCEPT ![q] = e]
  BY <1>2, <1>3, <1>4 DEF UpdateConnectionState, HasEntry
<1>6. QED BY <1>1, <1>2, <1>5 DEF HasEntry

\* SetSessionKey adds the key where there is an entry, and no entry.
LEMMA KeySet ==
    ASSUME table \in Tables, NEW p \in Peers, NEW q \in Peers
    PROVE  /\ Keyed(p, q) \in [Peers -> Entries(Peers)]
           /\ \A x \in Peers : HasEntry(table[p], x) => HasEntry(Keyed(p, q), x)
           /\ \A x \in Peers : x # q => Keyed(p, q)[x] = table[p][x]
<1> DEFINE tab == table[p]
           key == {p, q}
           e == [tab[q] EXCEPT !.key = key]
<1>1. tab \in [Peers -> Entries(Peers)] /\ tab[q] \in Entries(Peers)
  BY DEF Tables
<1>2. e \in Entries(Peers) /\ e.key = key
  BY <1>1 DEF Entries
<1>3. e # NoEntry
  BY <1>2 DEF NoEntry
<1>4. CASE HasEntry(tab, q)
  <2>1. Keyed(p, q) = [tab EXCEPT ![q] = e]
    BY <1>4 DEF Keyed, SetSessionKey, DeriveSessionKey
  <2> HIDE DEF e
  <2>2. QED BY <1>1, <1>2, <1>3, <2>1 DEF HasEntry
<1>5. CASE ~HasEntry(tab, q)
  <2>1. Keyed(p, q) = tab
    BY <1>5 DEF Keyed, SetSessionKey
  <2>2. QED BY <1>1, <2>1
<1>6. QED BY <1>4, <1>5

\* A link that moves on in its handshake.
LEMMA StepRecord ==
    ASSUME links \in Seq(LinkRecords), NEW c \in DOMAIN links, NEW from,
           NEW to \in {"none", "request", "stored", "registered", "added", "keyed",
                       "response", "answerAdded", "answerKeyed", "done"},
           Step(c, from, to)
    PROVE  /\ links[c].hs = from
           /\ \E l \in LinkRecords :
                 /\ l.from = links[c].from /\ l.to = links[c].to /\ l.hs = to
                 /\ links' = [links EXCEPT ![c] = l]
<1> DEFINE l == [links[c] EXCEPT !.hs = to]
<1>1. links[c] \in LinkRecords
  BY Ends
<1>2. l \in LinkRecords /\ l.from = links[c].from /\ l.to = links[c].to /\ l.hs = to
  BY <1>1 DEF LinkRecords
<1>3. links' = [links EXCEPT ![c] = l] /\ links[c].hs = from
  BY DEF Step
<1> HIDE DEF l
<1>4. QED BY <1>2, <1>3

\* StoreIfNone replaces no connection.
LEMMA StoreUpdate ==
    ASSUME VarsOK, NEW p \in Peers, NEW q \in Peers, NEW c \in DOMAIN links,
           conns' = StoreIfNone(p, q, c)
    PROVE  /\ conns' \in [Peers -> [Peers -> 0 .. Len(links)]]
           /\ \A x, y \in Peers : conns[x][y] # 0 => conns'[x][y] = conns[x][y]
<1>1. c \in 0 .. Len(links) /\ conns \in [Peers -> [Peers -> 0 .. Len(links)]]
  BY DEF VarsOK
<1>2. QED BY <1>1 DEF StoreIfNone

-----------------------------------------------------------------------------
(* What kinds of steps keep.                                                *)

\* The links there were have the ends they had.
SameEnds == /\ Len(links) \in Nat /\ Len(links') \in Nat /\ Len(links) <= Len(links')
            /\ \A d \in 1 .. Len(links) : /\ links'[d].from = links[d].from
                                          /\ links'[d].to = links[d].to

\* A call that did not move.
LEMMA CallStays ==
    ASSUME NEW x, NEW y, NEW z, CallOK(x, y, z), CallKnown(x, y, z), SameEnds,
           call'[x][y][z] = call[x][y][z],
           lock'[x] = <<y, z>> <=> lock[x] = <<y, z>>,
           found[x] \subseteq found'[x]
    PROVE  CallOK(x, y, z)' /\ CallKnown(x, y, z)'
<1> DEFINE c == call[x][y][z]
<1>1. CallOK(x, y, z)'
  BY DEF CallOK, SameEnds
<1>2. c.pc = "wait" => c.link \in 1 .. Len(links)
  BY DEF CallOK, SameEnds
<1>3. CallKnown(x, y, z)'
  BY <1>2 DEF CallKnown, SameEnds
<1>4. QED BY <1>1, <1>3

\* A call that moves on without a handshake, or at the end of one.
LEMMA CallMoves ==
    ASSUME NEW x, NEW y, NEW z, NEW r, SameEnds, call'[x][y][z] = r,
           r.pc \notin {"wait", "stuck"}, r.link \in 0 .. Len(links'),
           r.pc = "have" => r.link # 0, lock'[x] # <<y, z>>,
           z = "connect" /\ r.pc # "idle" => y \in found'[x]
    PROVE  CallOK(x, y, z)' /\ CallKnown(x, y, z)'
BY DEF CallOK, CallKnown, SameEnds

\* Nobody's call moves.
LEMMA AllStay ==
    ASSUME CallsOK, SameEnds, call' = call, lock' = lock, found' = found
    PROVE  CallsOK'
BY CallStays DEF CallsOK

\* One call moves on, the lock stays.
LEMMA OneMoves ==
    ASSUME CallsOK, SameEnds, call \in Calls, lock' = lock,
           NEW p \in Peers, NEW q \in Peers, NEW k \in Kinds, NEW r \in CallRecords,
           call' = [call EXCEPT ![p][q][k] = r],
           call[p][q][k].pc \notin {"wait", "stuck"}, r.pc \notin {"wait", "stuck"},
           r.link \in 0 .. Len(links'), r.pc = "have" => r.link # 0,
           k = "connect" /\ r.pc # "idle" => q \in found'[p],
           \A x \in Peers : found[x] \subseteq found'[x]
    PROVE  CallsOK' /\ call' \in Calls
<1>1. /\ call' \in Calls /\ call'[p][q][k] = r
      /\ \A x, y \in Peers, z \in Kinds :
            x # p \/ y # q \/ z # k => call'[x][y][z] = call[x][y][z]
  BY SMTT(30) DEF Calls
<1>2. lock[p] # <<q, k>>
  BY DEF CallsOK, CallOK
<1>3. CallOK(p, q, k)' /\ CallKnown(p, q, k)'
  BY <1>1, <1>2, CallMoves
<1>4. ASSUME NEW x \in Peers, NEW y \in Peers, NEW z \in Kinds,
             x # p \/ y # q \/ z # k
      PROVE  CallOK(x, y, z)' /\ CallKnown(x, y, z)'
  BY <1>1, <1>4, CallStays DEF CallsOK
<1>5. QED BY <1>1, <1>3, <1>4 DEF CallsOK

\* The wait for a handshake is over: the lock is given back.
LEMMA OneUnlocks ==
    ASSUME CallsOK, SameEnds, call \in Calls, found' = found,
           lock \in [Peers -> {Free} \cup (Peers \X Kinds)],
           NEW p \in Peers, NEW q \in Peers, NEW k \in Kinds, NEW r \in CallRecords,
           call' = [call EXCEPT ![p][q][k] = r], Unlock(p),
           call[p][q][k].pc = "wait", r.pc \notin {"wait", "stuck"},
           r.link \in 0 .. Len(links'), r.pc = "have" => r.link # 0,
           k = "connect" => r.pc = "idle"
    PROVE  /\ CallsOK' /\ call' \in Calls
           /\ lock' \in [Peers -> {Free} \cup (Peers \X Kinds)]
<1>1. /\ call' \in Calls /\ call'[p][q][k] = r
      /\ \A x, y \in Peers, z \in Kinds :
            x # p \/ y # q \/ z # k => call'[x][y][z] = call[x][y][z]
  BY SMTT(30) DEF Calls
<1>2. /\ lock' \in [Peers -> {Free} \cup (Peers \X Kinds)]
      /\ lock'[p] = Free /\ \A x \in Peers : x # p => lock'[x] = lock[x]
  BY DEF Unlock
<1>3. lock[p] = <<q, k>> /\ \A y \in Peers, z \in Kinds : <<y, z>> # Free
  BY DEF CallsOK, CallOK, Free
<1>4. CallOK(p, q, k)' /\ CallKnown(p, q, k)'
  BY <1>1, <1>2, <1>3, CallMoves
<1>5. ASSUME NEW x \in Peers, NEW y \in Peers, NEW z \in Kinds,
             x # p \/ y # q \/ z # k
      PROVE  CallOK(x, y, z)' /\ CallKnown(x, y, z)'
  <2>1. lock'[x] = <<y, z>> <=> lock[x] = <<y, z>>
    BY <1>2, <1>3, <1>5
  <2>2. QED BY <1>1, <1>5, <2>1, CallStays DEF CallsOK
<1>6. QED BY <1>1, <1>2, <1>4, <1>5 DEF CallsOK

-----------------------------------------------------------------------------
(* What everybody knows of everybody.                                       *)

\* The invariant has TypeOK and KeyedPeerIsKnown in it.
LEMMA InvImplies == TransportInv => TypeOK /\ KeyedPeerIsKnown
BY DEF TransportInv, VarsOK, Calls, Tables, CallsOK, TypeOK, KeysKnown, KeyedPeerIsKnown

\* Entries stay, and a new key is for a peer that knows of it.
Grows ==
    \A x, y \in Peers :
        /\ HasEntry(table[x], y) => HasEntry(table'[x], y)
        /\ "restart" \notin faults /\ table'[x][y].key # {} =>
              table[x][y].key # {} \/ HasEntry(table'[y], x)

\* A step that moves one link and does not forget anybody.
LEMMA LinkMoves ==
    ASSUME TransportInv, NEW c \in DOMAIN links, NEW l \in LinkRecords,
           links' = [links EXCEPT ![c] = l],
           l.from = links[c].from, l.to = links[c].to,
           l.hs \in BothRegistered =>
               links[c].hs \in BothRegistered \/ HasEntry(table'[l.to], l.from),
           Grows, faults \subseteq faults'
    PROVE  /\ links' \in Seq(LinkRecords) /\ Len(links') = Len(links) /\ SameEnds
           /\ "restart" \notin faults' => LinksKnown' /\ KeysKnown'
<1>1. links \in Seq(LinkRecords)
  BY DEF TransportInv, VarsOK
<1>2. /\ links' \in Seq(LinkRecords) /\ Len(links') = Len(links)
      /\ DOMAIN links' = DOMAIN links /\ links'[c] = l
      /\ \A d \in DOMAIN links : d # c => links'[d] = links[d]
  BY <1>1, LinkUpdate
<1>3. Len(links) \in Nat /\ DOMAIN links = 1 .. Len(links)
  BY <1>1
<1>4. SameEnds
  BY <1>2, <1>3 DEF SameEnds
<1>5. ASSUME "restart" \notin faults'
      PROVE  LinksKnown'
  <2>1. LinksKnown
    BY <1>5 DEF TransportInv
  <2>2. SUFFICES ASSUME NEW d \in DOMAIN links
                 PROVE  /\ HasEntry(table'[links'[d].from], links'[d].to)
                        /\ links'[d].hs \in BothRegistered =>
                              HasEntry(table'[links'[d].to], links'[d].from)
    BY <1>2 DEF LinksKnown
  <2>3. links[d].from \in Peers /\ links[d].to \in Peers
    BY <1>1, Ends
  <2>4. links'[d].from = links[d].from /\ links'[d].to = links[d].to
    BY <1>2
  <2>5. HasEntry(table'[links[d].from], links[d].to)
    BY <2>1, <2>3 DEF LinksKnown, Grows
  <2>6. links[d].hs \in BothRegistered => HasEntry(table'[links[d].to], links[d].from)
    BY <2>1, <2>3 DEF LinksKnown, Grows
  <2>7. CASE d = c
    BY <1>2, <2>4, <2>5, <2>6, <2>7
  <2>8. CASE d # c
    BY <1>2, <2>4, <2>5, <2>6, <2>8
  <2>9. QED BY <2>7, <2>8
<1>6. ASSUME "restart" \notin faults'
      PROVE  KeysKnown'
  BY <1>6 DEF TransportInv, KeysKnown, Grows
<1>7. QED BY <1>2, <1>4, <1>5, <1>6

\* A step of a handler: no call moves, and the rest is well typed.
LEMMA HandlerMoves ==
    ASSUME TransportInv, NEW c \in DOMAIN links, NEW l \in LinkRecords,
           links' = [links EXCEPT ![c] = l],
           l.from = links[c].from, l.to = links[c].to,
           l.hs \in BothRegistered =>
               links[c].hs \in BothRegistered \/ HasEntry(table'[l.to], l.from),
           Grows, table' \in Tables,
           conns' \in [Peers -> [Peers -> 0 .. Len(links)]],
           faults \subseteq faults', faults' \subseteq {"loss", "restart", "late"},
           UNCHANGED <<proto, up, found, sent, lock, call>>
    PROVE  TransportInv'
<1>1. /\ links' \in Seq(LinkRecords) /\ Len(links') = Len(links) /\ SameEnds
      /\ "restart" \notin faults' => LinksKnown' /\ KeysKnown'
  BY LinkMoves
<1>2. CallsOK'
  BY <1>1, AllStay DEF TransportInv
<1>3. VarsOK'
  BY <1>1 DEF TransportInv, VarsOK
<1>4. QED BY <1>1, <1>2, <1>3 DEF TransportInv

\* The table stays.
LEMMA TableStays ==
    ASSUME table' = table
    PROVE  Grows
BY DEF Grows

\* A peer is registered.
LEMMA TableRegisters ==
    ASSUME table \in Tables, NEW e \in Peers, NEW o \in Peers,
           NEW addr \in {"none", "listening", "ephemeral"},
           table' = [table EXCEPT ![e] =
               UpdateConnectionState(AddConnection(table[e], o, addr), o, "connected")]
    PROVE  table' \in Tables /\ Grows /\ HasEntry(table'[e], o)
<1> DEFINE new == UpdateConnectionState(AddConnection(table[e], o, addr), o, "connected")
<1>1. table[e] \in [Peers -> Entries(Peers)]
  BY DEF Tables
<1>2. /\ new \in [Peers -> Entries(Peers)]
      /\ HasEntry(new, o) /\ new[o].key = {}
      /\ \A x \in Peers : x # o => new[x] = table[e][x]
  BY <1>1, Registered
<1> HIDE DEF new
<1>3. /\ table' \in Tables /\ table'[e] = new
      /\ \A x \in Peers : x # e => table'[x] = table[x]
  BY <1>2, TableUpdate DEF new
<1>4. \A x, y \in Peers : x # e \/ y # o => table'[x][y] = table[x][y]
  BY <1>2, <1>3
<1>5. HasEntry(table'[e], o) /\ table'[e][o].key = {}
  BY <1>2, <1>3
<1>6. Grows
  BY <1>4, <1>5 DEF Grows, HasEntry
<1>7. QED BY <1>3, <1>5, <1>6

\* A key is set for a peer that knows of this one.
LEMMA TableKeyed ==
    ASSUME table \in Tables, NEW e \in Peers, NEW o \in Peers,
           "restart" \notin faults => HasEntry(table[o], e),
           table' = [table EXCEPT ![e] = Keyed(e, o)]
    PROVE  table' \in Tables /\ Grows
<1>1. /\ Keyed(e, o) \in [Peers -> Entries(Peers)]
      /\ \A x \in Peers : HasEntry(table[e], x) => HasEntry(Keyed(e, o), x)
      /\ \A x \in Peers : x # o => Keyed(e, o)[x] = table[e][x]
  BY KeySet
<1>2. /\ table' \in Tables /\ table'[e] = Keyed(e, o)
      /\ \A x \in Peers : x # e => table'[x] = table[x]
  BY <1>1, TableUpdate
<1>3. \A x, y \in Peers : HasEntry(table[x], y) => HasEntry(table'[x], y)
  BY <1>1, <1>2
<1>4. \A x, y \in Peers : x # e \/ y # o => table'[x][y] = table[x][y]
  BY <1>1, <1>2
<1>5. Grows
  BY <1>3, <1>4 DEF Grows
<1>6. QED BY <1>2, <1>5

-----------------------------------------------------------------------------
(* The handlers.                                                            *)

\* QuicRegister, TcpRegister and TcpReaderRegister.
LEMMA HandlerRegisters ==
    ASSUME TransportInv, NEW c \in DOMAIN links, NEW from,
           NEW to \in BothRegistered, NEW e \in Peers, NEW o \in Peers,
           NEW addr \in {"none", "listening", "ephemeral"}, Step(c, from, to),
           from \in BothRegistered \/ (e = links[c].to /\ o = links[c].from),
           table' = [table EXCEPT ![e] =
               UpdateConnectionState(AddConnection(table[e], o, addr), o, "connected")],
           UNCHANGED <<proto, up, found, conns, sent, lock, call, faults>>
    PROVE  TransportInv'
<1>1. VarsOK /\ table \in Tables /\ links \in Seq(LinkRecords)
  BY DEF TransportInv, VarsOK
<1>2. table' \in Tables /\ Grows /\ HasEntry(table'[e], o)
  BY <1>1, TableRegisters
<1>3. /\ links[c].hs = from
      /\ \E l \in LinkRecords :
            /\ l.from = links[c].from /\ l.to = links[c].to /\ l.hs = to
            /\ links' = [links EXCEPT ![c] = l]
  BY <1>1, StepRecord DEF BothRegistered
<1>4. conns' \in [Peers -> [Peers -> 0 .. Len(links)]] /\ faults' \subseteq {"loss", "restart", "late"}
  BY <1>1 DEF VarsOK
<1>5. ASSUME NEW l \in LinkRecords, l.from = links[c].from, l.to = links[c].to, l.hs = to,
             links' = [links EXCEPT ![c] = l]
      PROVE  TransportInv'
  <2>1. links[c].hs \in BothRegistered \/ HasEntry(table'[l.to], l.from)
    BY <1>2, <1>3, <1>5
  <2>2. QED BY <1>2, <1>4, <1>5, <2>1, HandlerMoves
<1>6. QED BY <1>3, <1>5

\* QuicKeyAndAnswer, TcpKey and TcpReaderKey.
LEMMA HandlerSetsKey ==
    ASSUME TransportInv, NEW c \in DOMAIN links, NEW from \in BothRegistered,
           NEW to \in BothRegistered, NEW e \in Peers, NEW o \in Peers, Step(c, from, to),
           \/ e = links[c].from /\ o = links[c].to
           \/ e = links[c].to /\ o = links[c].from,
           table' = [table EXCEPT ![e] = Keyed(e, o)],
           UNCHANGED <<proto, up, found, conns, sent, lock, call, faults>>
    PROVE  TransportInv'
<1>1. VarsOK /\ table \in Tables /\ links \in Seq(LinkRecords)
  BY DEF TransportInv, VarsOK
<1>2. /\ links[c].hs = from
      /\ \E l \in LinkRecords :
            /\ l.from = links[c].from /\ l.to = links[c].to /\ l.hs = to
            /\ links' = [links EXCEPT ![c] = l]
  BY <1>1, StepRecord DEF BothRegistered
<1>3. "restart" \notin faults => HasEntry(table[o], e)
  BY <1>2 DEF TransportInv, LinksKnown
<1>4. table' \in Tables /\ Grows
  BY <1>1, <1>3, TableKeyed
<1>5. conns' \in [Peers -> [Peers -> 0 .. Len(links)]] /\ faults' \subseteq {"loss", "restart", "late"}
  BY <1>1 DEF VarsOK
<1>6. QED BY <1>2, <1>4, <1>5, HandlerMoves

\* QuicStore, TcpStoreAndAnswer, TcpReaderStore and TcpFirstStore.
LEMMA HandlerStores ==
    ASSUME TransportInv, NEW c \in DOMAIN links, NEW l \in LinkRecords,
           links' = [links EXCEPT ![c] = l],
           l.from = links[c].from, l.to = links[c].to,
           l.hs \in BothRegistered => links[c].hs \in BothRegistered,
           NEW e \in Peers, NEW o \in Peers, conns' = StoreIfNone(e, o, c),
           UNCHANGED <<proto, up, found, table, sent, lock, call, faults>>
    PROVE  TransportInv'
<1>1. VarsOK /\ table \in Tables /\ faults \subseteq {"loss", "restart", "late"}
  BY DEF TransportInv, VarsOK
<1>2. Grows
  BY TableStays
<1>3. conns' \in [Peers -> [Peers -> 0 .. Len(links)]]
  BY <1>1, StoreUpdate
<1>4. QED BY <1>1, <1>2, <1>3, HandlerMoves

\* The records the handlers make of a link.
LEMMA LinkRecord ==
    ASSUME NEW l \in LinkRecords, NEW e \in Peers,
           NEW to \in {"response", "done"}, NEW r \in {"new", "read", "registered", "done"}
    PROVE  /\ [l EXCEPT !.alive = FALSE] \in LinkRecords
           /\ [l EXCEPT !.reg[e] = r] \in LinkRecords
           /\ [l EXCEPT !.hs = to, !.reg[e] = r] \in LinkRecords
BY DEF LinkRecords

\* A handler that registers changes no end of its link and no handshake step.
LEMMA RegisterKeepsEnds ==
    ASSUME NEW l \in LinkRecords, NEW e \in Peers, NEW r
    PROVE  LET m == [l EXCEPT !.reg[e] = r]
           IN  m.from = l.from /\ m.to = l.to /\ m.hs = l.hs
BY DEF LinkRecords

\* The steps of a QUIC handler.
LEMMA QuicHandler ==
    ASSUME TransportInv, NEW c \in DOMAIN links,
           QuicStore(c) \/ QuicRegister(c) \/ QuicKeyAndAnswer(c)
    PROVE  TransportInv'
<1>1. links \in Seq(LinkRecords) /\ links[c].from \in Peers /\ links[c].to \in Peers
  BY Ends DEF TransportInv, VarsOK
<1>2. CASE QuicStore(c)
  <2>1. Step(c, "request", "stored")
    BY <1>2 DEF QuicStore
  <2>2. PICK l \in LinkRecords : /\ l.from = links[c].from /\ l.to = links[c].to
                                 /\ l.hs = "stored" /\ links' = [links EXCEPT ![c] = l]
    BY <1>1, <2>1, StepRecord
  <2>3. l.hs \notin BothRegistered
    BY <2>2 DEF BothRegistered
  <2>4. /\ conns' = StoreIfNone(links[c].to, links[c].from, c)
        /\ UNCHANGED <<proto, up, found, table, sent, lock, call, faults>>
    BY <1>2 DEF QuicStore
  <2>5. QED BY <1>1, <2>2, <2>3, <2>4, HandlerStores
<1>3. CASE QuicRegister(c)
  BY <1>1, <1>3, HandlerRegisters DEF QuicRegister, BothRegistered
<1>4. CASE QuicKeyAndAnswer(c)
  BY <1>1, <1>4, HandlerSetsKey DEF QuicKeyAndAnswer, BothRegistered
<1>5. QED BY <1>2, <1>3, <1>4

\* The steps of a TCP handler that read a handshake.
LEMMA TcpHandler ==
    ASSUME TransportInv, NEW c \in DOMAIN links,
           \/ TcpRegister(c) \/ TcpKey(c) \/ TcpStoreAndAnswer(c)
           \/ TcpReaderRegister(c) \/ TcpReaderKey(c) \/ TcpReaderStore(c)
    PROVE  TransportInv'
<1>1. /\ links \in Seq(LinkRecords) /\ links[c] \in LinkRecords
      /\ links[c].from \in Peers /\ links[c].to \in Peers
  BY Ends DEF TransportInv, VarsOK
<1>2. CASE TcpRegister(c)
  <2>1. /\ Step(c, "request", "added")
        /\ table' = [table EXCEPT ![links[c].to] = UpdateConnectionState(
               AddConnection(table[links[c].to], links[c].from, "ephemeral"),
               links[c].from, "connected")]
        /\ UNCHANGED <<proto, up, found, conns, sent, lock, call, faults>>
    BY <1>2 DEF TcpRegister
  <2>2. QED BY <1>1, <2>1, HandlerRegisters DEF BothRegistered
<1>3. CASE TcpKey(c)
  BY <1>1, <1>3, HandlerSetsKey DEF TcpKey, BothRegistered
<1>4. CASE TcpStoreAndAnswer(c)
  <2> DEFINE l == [links[c] EXCEPT !.hs = "response", !.reg[links[c].to] = "done"]
  <2>1. l \in LinkRecords
    BY <1>1, LinkRecord
  <2>2. l.from = links[c].from /\ l.to = links[c].to
    BY <1>1 DEF LinkRecords
  <2>3. links' = [links EXCEPT ![c] = l] /\ links[c].hs \in BothRegistered
    BY <1>4 DEF TcpStoreAndAnswer, BothRegistered
  <2>4. /\ conns' = StoreIfNone(links[c].to, links[c].from, c)
        /\ UNCHANGED <<proto, up, found, table, sent, lock, call, faults>>
    BY <1>4 DEF TcpStoreAndAnswer
  <2> HIDE DEF l
  <2>5. QED BY <1>1, <2>1, <2>2, <2>3, <2>4, HandlerStores
<1>5. CASE TcpReaderRegister(c)
  <2>1. /\ Step(c, "response", "answerAdded")
        /\ table' = [table EXCEPT ![links[c].from] = UpdateConnectionState(
               AddConnection(table[links[c].from], links[c].to, "listening"),
               links[c].to, "connected")]
        /\ UNCHANGED <<proto, up, found, conns, sent, lock, call, faults>>
    BY <1>5 DEF TcpReaderRegister
  <2>2. "response" \in BothRegistered /\ "answerAdded" \in BothRegistered
    BY DEF BothRegistered
  <2>3. QED BY <1>1, <2>1, <2>2, HandlerRegisters
<1>6. CASE TcpReaderKey(c)
  BY <1>1, <1>6, HandlerSetsKey DEF TcpReaderKey, BothRegistered
<1>7. CASE TcpReaderStore(c)
  <2> DEFINE l == [links[c] EXCEPT !.hs = "done", !.reg[links[c].from] = "done"]
  <2>1. l \in LinkRecords
    BY <1>1, LinkRecord
  <2>2. l.from = links[c].from /\ l.to = links[c].to
    BY <1>1 DEF LinkRecords
  <2>3. links' = [links EXCEPT ![c] = l] /\ links[c].hs \in BothRegistered
    BY <1>7 DEF TcpReaderStore, BothRegistered
  <2>4. /\ conns' = StoreIfNone(links[c].from, links[c].to, c)
        /\ UNCHANGED <<proto, up, found, table, sent, lock, call, faults>>
    BY <1>7 DEF TcpReaderStore
  <2> HIDE DEF l
  <2>5. QED BY <1>1, <2>1, <2>2, <2>3, <2>4, HandlerStores
<1>8. QED BY <1>2, <1>3, <1>4, <1>5, <1>6, <1>7

\* The steps of a TCP handler whose first message is no handshake.
LEMMA TcpFirst ==
    ASSUME TransportInv, NEW c \in DOMAIN links, NEW e \in Peers,
           TcpFirstRegister(c, e) \/ TcpFirstStore(c, e)
    PROVE  TransportInv'
<1> DEFINE o == Peer(links[c], e)
<1>1. /\ VarsOK /\ table \in Tables
      /\ links \in Seq(LinkRecords) /\ links[c] \in LinkRecords
      /\ links[c].from \in Peers /\ links[c].to \in Peers
  BY Ends DEF TransportInv, VarsOK
<1>2. o \in Peers
  BY <1>1 DEF Peer
<1>3. ASSUME NEW r \in {"registered", "done"}
      PROVE  LET l == [links[c] EXCEPT !.reg[e] = r]
             IN  /\ l \in LinkRecords /\ l.from = links[c].from /\ l.to = links[c].to
                 /\ l.hs = links[c].hs
  <2>1. [links[c] EXCEPT !.reg[e] = r] \in LinkRecords
    BY <1>1, LinkRecord
  <2>2. QED BY <1>1, <2>1, RegisterKeepsEnds
<1>4. CASE TcpFirstRegister(c, e)
  <2> DEFINE l == [links[c] EXCEPT !.reg[e] = "registered"]
             addr == IF e = links[c].to THEN "ephemeral" ELSE "listening"
  <2>1. /\ links' = [links EXCEPT ![c] = l]
        /\ table' = [table EXCEPT ![e] =
               UpdateConnectionState(AddConnection(table[e], o, addr), o, "connected")]
        /\ UNCHANGED <<proto, up, found, conns, sent, lock, call, faults>>
    BY <1>4 DEF TcpFirstRegister
  <2>2. addr \in {"none", "listening", "ephemeral"}
    OBVIOUS
  <2>3. l \in LinkRecords /\ l.from = links[c].from /\ l.to = links[c].to /\ l.hs = links[c].hs
    BY <1>3
  <2> HIDE DEF l, o, addr
  <2>4. table' \in Tables /\ Grows
    BY <1>1, <1>2, <2>1, <2>2, TableRegisters
  <2>5. conns' \in [Peers -> [Peers -> 0 .. Len(links)]] /\ faults' \subseteq {"loss", "restart", "late"}
    BY <1>1, <2>1 DEF VarsOK
  <2>6. QED BY <2>1, <2>3, <2>4, <2>5, HandlerMoves
<1>5. CASE TcpFirstStore(c, e)
  <2> DEFINE l == [links[c] EXCEPT !.reg[e] = "done"]
  <2>1. /\ links' = [links EXCEPT ![c] = l] /\ conns' = StoreIfNone(e, o, c)
        /\ UNCHANGED <<proto, up, found, table, sent, lock, call, faults>>
    BY <1>5 DEF TcpFirstStore
  <2>2. l \in LinkRecords /\ l.from = links[c].from /\ l.to = links[c].to /\ l.hs = links[c].hs
    BY <1>3
  <2> HIDE DEF l, o
  <2>3. QED BY <1>2, <2>1, <2>2, HandlerStores
<1>6. QED BY <1>4, <1>5

\* A link breaks.
LEMMA LinkLost ==
    ASSUME TransportInv, NEW c \in DOMAIN links, Lose(c)
    PROVE  TransportInv'
<1> DEFINE l == [links[c] EXCEPT !.alive = FALSE]
<1>1. VarsOK /\ links \in Seq(LinkRecords) /\ links[c] \in LinkRecords
  BY Ends DEF TransportInv, VarsOK
<1>2. /\ l \in LinkRecords /\ l.from = links[c].from /\ l.to = links[c].to
      /\ l.hs = links[c].hs
  BY <1>1 DEF LinkRecords
<1>3. /\ links' = [links EXCEPT ![c] = l]
      /\ UNCHANGED <<proto, up, found, table, conns, sent, lock, call>>
      /\ faults' = faults \cup {"loss"}
  BY DEF Lose, Fault
<1> HIDE DEF l
<1>4. /\ table' \in Tables /\ conns' \in [Peers -> [Peers -> 0 .. Len(links)]]
      /\ faults \subseteq faults' /\ faults' \subseteq {"loss", "restart", "late"}
  BY <1>1, <1>3 DEF VarsOK
<1>5. Grows
  BY <1>3, TableStays
<1>6. QED BY <1>2, <1>3, <1>4, <1>5, HandlerMoves

-----------------------------------------------------------------------------
(* The calls.                                                               *)

\* A call moves on, the links and the table stay.
LEMMA CallMovesOn ==
    ASSUME TransportInv,
           NEW p \in Peers, NEW q \in Peers, NEW k \in Kinds, NEW r \in CallRecords,
           call' = [call EXCEPT ![p][q][k] = r],
           call[p][q][k].pc \notin {"wait", "stuck"}, r.pc \notin {"wait", "stuck"},
           r.link \in 0 .. Len(links), r.pc = "have" => r.link # 0,
           k = "connect" /\ r.pc # "idle" => q \in found'[p],
           found' \in [Peers -> SUBSET Peers],
           \A x \in Peers : found[x] \subseteq found'[x],
           conns' \in [Peers -> [Peers -> 0 .. Len(links)]],
           UNCHANGED <<proto, up, table, sent, lock, links, faults>>
    PROVE  TransportInv'
<1>1. CallsOK /\ call \in Calls /\ links \in Seq(LinkRecords)
  BY DEF TransportInv, VarsOK
<1>2. SameEnds
  BY <1>1 DEF SameEnds
<1>3. CallsOK' /\ call' \in Calls
  BY <1>1, <1>2, OneMoves
<1>4. VarsOK'
  BY <1>3 DEF TransportInv, VarsOK
<1>5. QED BY <1>3, <1>4 DEF TransportInv, LinksKnown, KeysKnown

\* A peer is found.
LEMMA Discovers ==
    ASSUME TransportInv, NEW p \in Peers, NEW q \in Peers, DiscoveryCallback(p, q)
    PROVE  TransportInv'
<1> DEFINE r == [pc |-> "lookup", link |-> 0, addr |-> "listening"]
<1>1. /\ found \in [Peers -> SUBSET Peers] /\ q \notin found[p]
      /\ conns \in [Peers -> [Peers -> 0 .. Len(links)]]
      /\ links \in Seq(LinkRecords) /\ CallsOK /\ call \in Calls
  BY DEF TransportInv, VarsOK, DiscoveryCallback
<1>2. /\ found' = [found EXCEPT ![p] = found[p] \cup {q}]
      /\ UNCHANGED <<proto, up, table, conns, sent, lock, links, faults>>
  BY DEF DiscoveryCallback
<1>3. /\ found' \in [Peers -> SUBSET Peers] /\ q \in found'[p]
      /\ \A x \in Peers : found[x] \subseteq found'[x]
  BY <1>1, <1>2
<1>4. CASE call' = call
  <2>1. SameEnds
    BY <1>1, <1>2 DEF SameEnds
  <2>2. ASSUME NEW x \in Peers, NEW y \in Peers, NEW z \in Kinds
        PROVE  CallOK(x, y, z)' /\ CallKnown(x, y, z)'
    BY <1>1, <1>2, <1>3, <1>4, <2>1, CallStays DEF CallsOK
  <2>3. VarsOK'
    BY <1>2, <1>3, <1>4 DEF TransportInv, VarsOK
  <2>4. QED BY <1>2, <2>2, <2>3 DEF TransportInv, CallsOK, LinksKnown, KeysKnown
<1>5. CASE call' # call
  <2>1. call' = [call EXCEPT ![p][q]["connect"] = r]
    BY <1>5 DEF DiscoveryCallback
  <2>2. /\ r \in CallRecords /\ r.pc = "lookup" /\ r.link \in 0 .. Len(links)
        /\ "connect" \in Kinds
    BY <1>1 DEF CallRecords, Kinds
  <2>3. call[p][q]["connect"].pc = "idle"
    BY <1>1, <2>2 DEF CallsOK, CallKnown
  <2> HIDE DEF r
  <2>4. QED BY <1>1, <1>2, <1>3, <2>1, <2>2, <2>3, CallMovesOn
<1>6. QED BY <1>4, <1>5

\* What a look at the stored connections gives.
LEMMA FoundRecord ==
    ASSUME NEW k \in Kinds, NEW n \in Nat, NEW c \in 1 .. n, NEW addr \in Addrs
    PROVE  \E r \in CallRecords :
              /\ r = Found(k, c, addr) /\ r.link \in 0 .. n
              /\ r.pc = "idle" \/ (r.pc = "have" /\ r.link # 0 /\ k # "connect")
<1>1. CASE k = "send"
  <2> DEFINE r == [pc |-> "have", link |-> c, addr |-> addr]
  <2>1. r \in CallRecords /\ r.pc = "have" /\ r.link = c
    BY DEF CallRecords, Addrs
  <2>2. r = Found(k, c, addr)
    BY <1>1 DEF Found
  <2> HIDE DEF r
  <2>3. QED BY <1>1, <2>1, <2>2
<1>2. CASE k # "send"
  <2>1. Idle \in CallRecords /\ Idle.pc = "idle" /\ Idle.link = 0
    BY DEF Idle, CallRecords
  <2>2. Found(k, c, addr) = Idle
    BY <1>2 DEF Found
  <2>3. QED BY <2>1, <2>2
<1>3. QED BY <1>1, <1>2

\* The same of the first look, which may find none.
LEMMA LookedRecord ==
    ASSUME TransportInv, NEW p \in Peers, NEW q \in Peers, NEW k \in Kinds, NEW addr \in Addrs
    PROVE  \E r \in CallRecords :
              /\ r = Looked(p, q, k, addr) /\ r.link \in 0 .. Len(links)
              /\ \/ r.pc \in {"idle", "lock"}
                 \/ r.pc = "have" /\ r.link # 0 /\ k # "connect"
<1>1. conns[p][q] \in 0 .. Len(links) /\ Len(links) \in Nat
  BY DEF TransportInv, VarsOK
<1>2. CASE conns[p][q] # 0
  <2>1. Looked(p, q, k, addr) = Found(k, conns[p][q], addr)
    BY <1>2 DEF Looked
  <2>2. conns[p][q] \in 1 .. Len(links)
    BY <1>1, <1>2
  <2>3. QED BY <1>1, <2>1, <2>2, FoundRecord
<1>3. CASE conns[p][q] = 0
  <2> DEFINE r == [pc |-> "lock", link |-> 0, addr |-> addr]
  <2>1. r = Looked(p, q, k, addr)
    BY <1>3 DEF Looked
  <2>2. r \in CallRecords /\ r.link = 0 /\ r.pc = "lock"
    BY DEF CallRecords, Addrs
  <2> HIDE DEF r
  <2>3. QED BY <1>1, <2>1, <2>2
<1>4. QED BY <1>2, <1>3

\* The first look.
LEMMA Looks ==
    ASSUME TransportInv, NEW p \in Peers, NEW q \in Peers, LookUp(p, q) \/ StartSend(p, q)
    PROVE  TransportInv'
<1>1. /\ found \in [Peers -> SUBSET Peers] /\ table \in Tables /\ CallsOK
      /\ conns \in [Peers -> [Peers -> 0 .. Len(links)]]
      /\ "connect" \in Kinds /\ "send" \in Kinds
  BY DEF TransportInv, VarsOK, Kinds
<1>2. CASE LookUp(p, q)
  <2>1. /\ call' = [call EXCEPT ![p][q]["connect"] = Looked(p, q, "connect", "listening")]
        /\ call[p][q]["connect"].pc = "lookup"
        /\ UNCHANGED <<proto, up, found, table, conns, sent, lock, links, faults>>
    BY <1>2 DEF LookUp
  <2>2. q \in found[p]
    BY <1>1, <2>1 DEF CallsOK, CallKnown
  <2>3. "listening" \in Addrs
    BY DEF Addrs
  <2>4. PICK r \in CallRecords :
           /\ r = Looked(p, q, "connect", "listening") /\ r.link \in 0 .. Len(links)
           /\ r.pc \in {"idle", "lock"} \/ (r.pc = "have" /\ r.link # 0)
    BY <1>1, <2>3, LookedRecord
  <2>5. QED BY <1>1, <2>1, <2>2, <2>4, CallMovesOn
<1>3. CASE StartSend(p, q)
  <2>1. /\ call' = [call EXCEPT ![p][q]["send"] = Looked(p, q, "send", table[p][q].addr)]
        /\ call[p][q]["send"] = Idle
        /\ UNCHANGED <<proto, up, found, table, conns, sent, lock, links, faults>>
    BY <1>3 DEF StartSend
  <2>2. table[p][q].addr \in Addrs /\ Idle.pc = "idle"
    BY <1>1 DEF Tables, Entries, Idle, Addrs
  <2>3. PICK r \in CallRecords :
           /\ r = Looked(p, q, "send", table[p][q].addr) /\ r.link \in 0 .. Len(links)
           /\ r.pc \in {"idle", "lock"} \/ (r.pc = "have" /\ r.link # 0)
    BY <1>1, <2>2, LookedRecord
  <2>4. QED BY <1>1, <2>1, <2>2, <2>3, CallMovesOn
<1>4. QED BY <1>2, <1>3

\* The second look.
LEMMA LooksAgain ==
    ASSUME TransportInv, NEW p \in Peers, NEW q \in Peers, NEW k \in Kinds, NoDial(p, q, k)
    PROVE  TransportInv'
<1> DEFINE a == call[p][q][k].addr
<1>1. /\ found \in [Peers -> SUBSET Peers] /\ call \in Calls
      /\ conns \in [Peers -> [Peers -> 0 .. Len(links)]]
      /\ conns[p][q] \in 0 .. Len(links) /\ Len(links) \in Nat
  BY DEF TransportInv, VarsOK
<1>2. a \in Addrs
  BY <1>1 DEF Calls, CallRecords, Addrs
<1>3. /\ Idle \in CallRecords /\ Idle.pc = "idle" /\ Idle.link = 0
  BY DEF Idle, CallRecords
<1>4. /\ call[p][q][k].pc = "lock"
      /\ UNCHANGED <<proto, up, found, table, conns, sent, lock, links, faults>>
      /\ \/ conns[p][q] # 0 /\ call' = [call EXCEPT ![p][q][k] = Found(k, conns[p][q], a)]
         \/ call' = [call EXCEPT ![p][q][k] = Idle]
  BY <1>1 DEF NoDial, MayDial, Calls
<1>5. CASE conns[p][q] # 0 /\ call' = [call EXCEPT ![p][q][k] = Found(k, conns[p][q], a)]
  <2>1. conns[p][q] \in 1 .. Len(links)
    BY <1>1, <1>5
  <2>2. PICK r \in CallRecords :
           /\ r = Found(k, conns[p][q], a) /\ r.link \in 0 .. Len(links)
           /\ r.pc = "idle" \/ (r.pc = "have" /\ r.link # 0 /\ k # "connect")
    BY <1>1, <1>2, <2>1, FoundRecord
  <2>3. QED BY <1>1, <1>4, <1>5, <2>2, CallMovesOn
<1>6. CASE call' = [call EXCEPT ![p][q][k] = Idle]
  <2>1. Idle.link \in 0 .. Len(links)
    BY <1>1, <1>3
  <2>2. QED BY <1>1, <1>3, <1>4, <1>6, <2>1, CallMovesOn
<1>7. QED BY <1>4, <1>5, <1>6

\* The link of a call that has or awaits one.
LEMMA CallLink ==
    ASSUME TransportInv, NEW p \in Peers, NEW q \in Peers, NEW k \in Kinds,
           call[p][q][k].pc \in {"wait", "have"}
    PROVE  LET c == call[p][q][k].link
           IN  /\ c \in DOMAIN links /\ c \in 1 .. Len(links) /\ links[c] \in LinkRecords
               /\ call[p][q][k] \in CallRecords
<1>1. CallOK(p, q, k) /\ links \in Seq(LinkRecords) /\ call \in Calls
  BY DEF TransportInv, CallsOK, VarsOK
<1>2. call[p][q][k].link \in 1 .. Len(links)
  BY <1>1 DEF CallOK
<1>3. call[p][q][k] \in CallRecords
  BY <1>1 DEF Calls
<1>4. QED BY <1>1, <1>2, <1>3

\* A message is written, lost, or cannot be sent.
LEMMA Sends ==
    ASSUME TransportInv, NEW p \in Peers, NEW q \in Peers,
           SendMessage(p, q) \/ SendLost(p, q) \/ SendFails(p, q)
    PROVE  TransportInv'
<1> DEFINE c == call[p][q]["send"].link
<1>1. /\ found \in [Peers -> SUBSET Peers] /\ table \in Tables
      /\ conns \in [Peers -> [Peers -> 0 .. Len(links)]]
      /\ CallsOK /\ call \in Calls /\ links \in Seq(LinkRecords)
      /\ "send" \in Kinds
  BY DEF TransportInv, VarsOK, Kinds
<1>2. Idle \in CallRecords /\ Idle.pc = "idle" /\ Idle.link = 0 /\ Idle.link \in 0 .. Len(links)
  BY <1>1 DEF Idle, CallRecords
<1>3. /\ call[p][q]["send"].pc = "have" /\ call' = [call EXCEPT ![p][q]["send"] = Idle]
      /\ UNCHANGED <<proto, up, found, table, sent, lock, faults>>
  BY DEF SendMessage, SendLost, SendFails
<1>4. CASE SendMessage(p, q)
  <2> DEFINE v == IF proto = "tcp" /\ links[c].reg[q] = "new" /\ ~HandshakePending(links[c], q)
                  THEN "read" ELSE links[c].reg[q]
             l == [links[c] EXCEPT !.reg[q] = v]
  <2>1. c \in DOMAIN links /\ links[c] \in LinkRecords
    BY <1>1, <1>3, CallLink
  <2>2. v \in {"new", "read", "registered", "done"}
    BY <2>1 DEF LinkRecords
  <2>3. links' = [links EXCEPT ![c] = l] /\ conns' = conns
    BY <1>4 DEF SendMessage
  <2> HIDE DEF v, c
  <2>4. /\ l \in LinkRecords /\ l.from = links[c].from /\ l.to = links[c].to
        /\ l.hs = links[c].hs
    BY <2>1, <2>2 DEF LinkRecords
  <2>5. Grows
    BY <1>3, TableStays
  <2> HIDE DEF l
  <2>6. /\ links' \in Seq(LinkRecords) /\ Len(links') = Len(links) /\ SameEnds
        /\ "restart" \notin faults' => LinksKnown' /\ KeysKnown'
    BY <1>3, <2>1, <2>3, <2>4, <2>5, LinkMoves
  <2>7. CallsOK' /\ call' \in Calls
    BY <1>1, <1>2, <1>3, <2>6, OneMoves
  <2>8. VarsOK'
    BY <1>3, <2>3, <2>6, <2>7 DEF TransportInv, VarsOK
  <2>9. QED BY <2>6, <2>7, <2>8 DEF TransportInv
<1>5. CASE SendLost(p, q)
  <2>1. UNCHANGED <<conns, links>>
    BY <1>5 DEF SendLost
  <2>2. QED BY <1>1, <1>2, <1>3, <2>1, CallMovesOn
<1>6. CASE SendFails(p, q)
  <2>1. UNCHANGED links /\ conns' = [conns EXCEPT ![p][q] = 0]
    BY <1>6 DEF SendFails
  <2>2. conns' \in [Peers -> [Peers -> 0 .. Len(links)]]
    BY <1>1, <2>1
  <2>3. QED BY <1>1, <1>2, <1>3, <2>1, <2>2, CallMovesOn
<1>7. QED BY <1>4, <1>5, <1>6

\* The wait for an answer is over.
LEMMA WaitEnds ==
    ASSUME TransportInv,
           NEW p \in Peers, NEW q \in Peers, NEW k \in Kinds, NEW r \in CallRecords,
           call' = [call EXCEPT ![p][q][k] = r], Unlock(p),
           call[p][q][k].pc = "wait",
           r.pc = "idle" \/ (r.pc = "have" /\ k = "send"),
           r.pc = "idle" => r.link = 0, r.pc = "have" => r.link = call[p][q][k].link,
           NEW l \in LinkRecords, links' = [links EXCEPT ![call[p][q][k].link] = l],
           l.from = links[call[p][q][k].link].from, l.to = links[call[p][q][k].link].to,
           l.hs \in BothRegistered => links[call[p][q][k].link].hs \in BothRegistered,
           table' \in Tables, Grows,
           faults \subseteq faults', faults' \subseteq {"loss", "restart", "late"},
           UNCHANGED <<proto, up, found, conns, sent>>
    PROVE  TransportInv'
<1> DEFINE c == call[p][q][k].link
<1>1. c \in DOMAIN links /\ c \in 1 .. Len(links)
  BY CallLink
<1>2. /\ CallsOK /\ call \in Calls /\ lock \in [Peers -> {Free} \cup (Peers \X Kinds)]
      /\ links \in Seq(LinkRecords) /\ VarsOK
  BY DEF TransportInv, VarsOK
<1>3. /\ links' = [links EXCEPT ![c] = l] /\ l.from = links[c].from /\ l.to = links[c].to
      /\ l.hs \in BothRegistered => links[c].hs \in BothRegistered
      /\ r.pc = "have" => r.link = c
  OBVIOUS
<1> HIDE DEF c
<1>4. /\ links' \in Seq(LinkRecords) /\ Len(links') = Len(links) /\ SameEnds
      /\ "restart" \notin faults' => LinksKnown' /\ KeysKnown'
  BY <1>1, <1>3, LinkMoves
<1>5. r.link \in 0 .. Len(links) /\ (r.pc = "have" => r.link # 0)
  BY <1>1, <1>2, <1>3
<1>6. CallsOK' /\ call' \in Calls /\ lock' \in [Peers -> {Free} \cup (Peers \X Kinds)]
  BY <1>2, <1>4, <1>5, OneUnlocks
<1>7. VarsOK'
  BY <1>2, <1>4, <1>6 DEF VarsOK
<1>8. QED BY <1>4, <1>6, <1>7 DEF TransportInv

\* Over QUIC the dialler has its answer.
LEMMA QuicAnswer ==
    ASSUME TransportInv, NEW p \in Peers, NEW q \in Peers, NEW k \in Kinds, QuicAnswered(p, q, k)
    PROVE  TransportInv'
<1> DEFINE c == call[p][q][k].link
           r == IF k = "send" THEN [call[p][q][k] EXCEPT !.pc = "have"] ELSE Idle
<1>1. /\ call[p][q][k].pc = "wait" /\ Step(c, "response", "done")
      /\ table' = [table EXCEPT ![p] = Keyed(p, q)]
      /\ call' = [call EXCEPT ![p][q][k] = r] /\ Unlock(p)
      /\ UNCHANGED <<proto, up, found, conns, sent, faults>>
  BY DEF QuicAnswered, TransportInv, VarsOK, Calls
<1>2. c \in DOMAIN links /\ links[c] \in LinkRecords /\ call[p][q][k] \in CallRecords
  BY <1>1, CallLink
<1>3. /\ links \in Seq(LinkRecords) /\ table \in Tables
      /\ faults' \subseteq {"loss", "restart", "late"} /\ CallKnown(p, q, k)
  BY <1>1 DEF TransportInv, VarsOK, CallsOK
<1>4. /\ r \in CallRecords
      /\ r.pc = "idle" \/ (r.pc = "have" /\ k = "send")
      /\ r.pc = "idle" => r.link = 0
      /\ r.pc = "have" => r.link = c
  <2>1. CASE k = "send"
    BY <1>2, <2>1 DEF CallRecords
  <2>2. CASE k # "send"
    BY <2>2 DEF Idle, CallRecords
  <2>3. QED BY <2>1, <2>2
<1> HIDE DEF r
<1>5. /\ links[c].hs = "response"
      /\ \E l \in LinkRecords :
            /\ l.from = links[c].from /\ l.to = links[c].to /\ l.hs = "done"
            /\ links' = [links EXCEPT ![c] = l]
  BY <1>1, <1>2, <1>3, StepRecord
<1>6. "restart" \notin faults => HasEntry(table[q], p)
  BY <1>1, <1>2, <1>3, <1>5 DEF TransportInv, LinksKnown, CallKnown, BothRegistered
<1>7. table' \in Tables /\ Grows
  BY <1>1, <1>3, <1>6, TableKeyed
<1>8. "response" \in BothRegistered /\ faults \subseteq faults'
  BY <1>1 DEF BothRegistered
<1>9. PICK l \in LinkRecords : /\ l.from = links[c].from /\ l.to = links[c].to
                               /\ l.hs = "done" /\ links' = [links EXCEPT ![c] = l]
  BY <1>5
<1>10. links[c].hs \in BothRegistered
  BY <1>5, <1>8
<1>11. /\ call[p][q][k].pc = "wait" /\ call' = [call EXCEPT ![p][q][k] = r] /\ Unlock(p)
       /\ UNCHANGED <<proto, up, found, conns, sent>>
  BY <1>1
<1>12. faults \subseteq faults' /\ faults' \subseteq {"loss", "restart", "late"}
  BY <1>3, <1>8
<1>13. QED BY <1>4, <1>7, <1>9, <1>10, <1>11, <1>12, WaitEnds

\* No answer, in time or at all.
LEMMA NoAnswer ==
    ASSUME TransportInv, NEW p \in Peers, NEW q \in Peers, NEW k \in Kinds,
           \/ HandshakeTimeout(p, q, k) \/ HandshakeLate(p, q, k) \/ HandshakeBroken(p, q, k)
    PROVE  TransportInv'
<1> DEFINE c == call[p][q][k].link
           a == links[c].alive /\ (proto = "quic" \/ links[c].hs \in {"answerAdded", "answerKeyed"})
           l == [links[c] EXCEPT !.alive = a]
<1>1. call[p][q][k].pc = "wait" /\ GiveUp(p, q, k) /\ faults' \in {faults, faults \cup {"late"}}
  BY DEF HandshakeTimeout, HandshakeLate, HandshakeBroken, Fault
<1>2. c \in DOMAIN links /\ links[c] \in LinkRecords
  BY <1>1, CallLink
<1>3. /\ call' = [call EXCEPT ![p][q][k] = Idle] /\ Unlock(p)
      /\ links' = [links EXCEPT ![c] = l]
      /\ UNCHANGED <<proto, up, found, table, conns, sent>>
  BY <1>1 DEF GiveUp
<1>4. /\ l \in LinkRecords /\ l.from = links[c].from /\ l.to = links[c].to
      /\ l.hs = links[c].hs
  <2>1. a \in BOOLEAN
    OBVIOUS
  <2> HIDE DEF a
  <2>2. QED BY <1>2, <2>1 DEF LinkRecords
<1> HIDE DEF l
<1>5. Idle \in CallRecords /\ Idle.pc = "idle" /\ Idle.link = 0
  BY DEF Idle, CallRecords
<1>6. table' \in Tables /\ Grows
  BY <1>3, TableStays DEF TransportInv, VarsOK
<1>7. faults \subseteq faults' /\ faults' \subseteq {"loss", "restart", "late"}
  BY <1>1 DEF TransportInv, VarsOK
<1>8. QED BY <1>1, <1>3, <1>4, <1>5, <1>6, <1>7, WaitEnds

\* A new link does not make anybody forget anybody.
LEMMA LinkAdded ==
    ASSUME TransportInv, NEW l \in LinkRecords, links' = Append(links, l),
           l.hs \notin BothRegistered, HasEntry(table'[l.from], l.to),
           Grows, faults' = faults
    PROVE  /\ links' \in Seq(LinkRecords) /\ Len(links) \in Nat
           /\ Len(links') = Len(links) + 1 /\ links'[Len(links) + 1] = l /\ SameEnds
           /\ "restart" \notin faults' => LinksKnown' /\ KeysKnown'
<1>1. links \in Seq(LinkRecords)
  BY DEF TransportInv, VarsOK
<1>2. /\ links' \in Seq(LinkRecords) /\ Len(links) \in Nat /\ Len(links') = Len(links) + 1
      /\ links'[Len(links) + 1] = l /\ DOMAIN links' = 1 .. Len(links) + 1
      /\ DOMAIN links = 1 .. Len(links)
      /\ \A d \in 1 .. Len(links) : links'[d] = links[d]
  BY <1>1
<1>3. SameEnds
  BY <1>2 DEF SameEnds
<1>4. ASSUME "restart" \notin faults'
      PROVE  LinksKnown'
  <2>1. LinksKnown
    BY <1>4 DEF TransportInv
  <2>2. SUFFICES ASSUME NEW d \in 1 .. Len(links) + 1
                 PROVE  /\ HasEntry(table'[links'[d].from], links'[d].to)
                        /\ links'[d].hs \in BothRegistered =>
                              HasEntry(table'[links'[d].to], links'[d].from)
    BY <1>2 DEF LinksKnown
  <2>3. CASE d = Len(links) + 1
    BY <1>2, <2>3
  <2>4. CASE d # Len(links) + 1
    <3>1. d \in DOMAIN links /\ links'[d] = links[d]
      BY <1>2, <2>4
    <3>2. links[d].from \in Peers /\ links[d].to \in Peers
      BY <1>1, <3>1, Ends
    <3>3. QED BY <2>1, <3>1, <3>2 DEF LinksKnown, Grows
  <2>5. QED BY <2>3, <2>4
<1>5. ASSUME "restart" \notin faults'
      PROVE  KeysKnown'
  BY <1>5 DEF TransportInv, KeysKnown, Grows
<1>6. QED BY <1>2, <1>3, <1>4, <1>5

\* A call that dials takes the lock for the handshake.
LEMMA OneLocks ==
    ASSUME CallsOK, SameEnds, call \in Calls, found' = found,
           lock \in [Peers -> {Free} \cup (Peers \X Kinds)],
           NEW p \in Peers, NEW q \in Peers, NEW k \in Kinds, NEW r \in CallRecords,
           call' = [call EXCEPT ![p][q][k] = r], lock' = [lock EXCEPT ![p] = <<q, k>>],
           lock[p] = Free, call[p][q][k].pc # "idle", r.pc = "wait",
           r.link \in 1 .. Len(links'), links'[r.link].from = p, links'[r.link].to = q
    PROVE  /\ CallsOK' /\ call' \in Calls
           /\ lock' \in [Peers -> {Free} \cup (Peers \X Kinds)]
<1>1. /\ call' \in Calls /\ call'[p][q][k] = r
      /\ \A x, y \in Peers, z \in Kinds :
            x # p \/ y # q \/ z # k => call'[x][y][z] = call[x][y][z]
  BY SMTT(30) DEF Calls
<1>2. /\ lock' \in [Peers -> {Free} \cup (Peers \X Kinds)]
      /\ lock'[p] = <<q, k>> /\ \A x \in Peers : x # p => lock'[x] = lock[x]
  OBVIOUS
<1>3. \A y \in Peers, z \in Kinds : <<y, z>> # Free
  BY DEF Free
<1>4. CallOK(p, q, k)' /\ CallKnown(p, q, k)'
  <2>1. CallKnown(p, q, k)
    BY DEF CallsOK
  <2>2. CallOK(p, q, k)'
    BY <1>1, <1>2 DEF CallOK, SameEnds
  <2>3. CallKnown(p, q, k)'
    BY <1>1, <2>1 DEF CallKnown
  <2>4. QED BY <2>2, <2>3
<1>5. ASSUME NEW x \in Peers, NEW y \in Peers, NEW z \in Kinds,
             x # p \/ y # q \/ z # k
      PROVE  CallOK(x, y, z)' /\ CallKnown(x, y, z)'
  <2>1. lock'[x] = <<y, z>> <=> lock[x] = <<y, z>>
    <3>1. CASE x = p
      BY <1>2, <1>3, <1>5, <3>1
    <3>2. CASE x # p
      BY <1>2, <3>2
    <3>3. QED BY <3>1, <3>2
  <2>2. QED BY <1>1, <1>5, <2>1, CallStays DEF CallsOK
<1>6. QED BY <1>1, <1>2, <1>4, <1>5 DEF CallsOK

\* A peer is dialled.
LEMMA Dials ==
    ASSUME TransportInv, NEW p \in Peers, NEW q \in Peers, NEW k \in Kinds, Dial(p, q, k)
    PROVE  TransportInv'
<1> DEFINE c == Len(links) + 1
           l == [from |-> p, to |-> q, alive |-> TRUE,
                 hs  |-> IF q \notin sent[p] THEN "request" ELSE "none",
                 reg |-> [e \in Peers |-> "new"]]
           a == call[p][q][k].addr
<1>1. /\ VarsOK /\ CallsOK /\ call \in Calls /\ table \in Tables /\ links \in Seq(LinkRecords)
      /\ lock \in [Peers -> {Free} \cup (Peers \X Kinds)]
      /\ found \in [Peers -> SUBSET Peers]
  BY DEF TransportInv, VarsOK
<1>2. /\ call[p][q][k].pc = "lock" /\ lock[p] = Free
      /\ links' = Append(links, l) /\ conns' = [conns EXCEPT ![p][q] = c]
      /\ sent' = [sent EXCEPT ![p] = sent[p] \cup {q}]
      /\ UNCHANGED <<proto, up, found, faults>>
  BY DEF Dial
<1>3. table' = [table EXCEPT ![p] =
         UpdateConnectionState(AddConnection(table[p], q, "listening"), q, "connected")]
  BY DEF Dial, AddDialed
<1>4. /\ l \in LinkRecords /\ l.from = p /\ l.to = q /\ l.hs \notin BothRegistered
  BY DEF LinkRecords, BothRegistered
<1> HIDE DEF l
<1>5. table' \in Tables /\ Grows /\ HasEntry(table'[p], q)
  BY <1>1, <1>3, TableRegisters
<1>6. /\ links' \in Seq(LinkRecords) /\ Len(links) \in Nat
      /\ Len(links') = c /\ links'[c] = l /\ SameEnds
      /\ "restart" \notin faults' => LinksKnown' /\ KeysKnown'
  BY <1>2, <1>4, <1>5, LinkAdded
<1>7. c \in Nat /\ c # 0 /\ c \in 1 .. Len(links')
  BY <1>6
<1>8. conns' \in [Peers -> [Peers -> 0 .. Len(links')]]
  <2>1. conns \in [Peers -> [Peers -> 0 .. Len(links')]]
    BY <1>1, <1>6 DEF VarsOK
  <2> HIDE DEF c
  <2>2. QED BY <1>2, <1>7, <2>1
<1>9. a \in Addrs /\ call[p][q][k] \in CallRecords
  BY <1>1 DEF Calls, CallRecords, Addrs
<1>10. CallsOK' /\ call' \in Calls /\ lock' \in [Peers -> {Free} \cup (Peers \X Kinds)]
  <2>1. CASE q \notin sent[p]
    <3> DEFINE r == [call[p][q][k] EXCEPT !.pc = "wait", !.link = c]
    <3>1. /\ call' = [call EXCEPT ![p][q][k] = r] /\ lock' = [lock EXCEPT ![p] = <<q, k>>]
      BY <1>1, <2>1 DEF Dial, Calls
    <3> HIDE DEF c
    <3>2. r \in CallRecords /\ r.pc = "wait" /\ r.link = c
      BY <1>7, <1>9 DEF CallRecords
    <3> HIDE DEF r
    <3>3. QED BY <1>1, <1>2, <1>4, <1>6, <1>7, <3>1, <3>2, OneLocks
  <2>2. CASE q \in sent[p]
    <3>1. call' = [call EXCEPT ![p][q][k] = Found(k, c, a)] /\ lock' = lock
      BY <1>1, <2>2 DEF Dial, Calls
    <3> HIDE DEF c
    <3>2. PICK r \in CallRecords :
             /\ r = Found(k, c, a) /\ r.link \in 0 .. Len(links')
             /\ r.pc = "idle" \/ (r.pc = "have" /\ r.link # 0 /\ k # "connect")
      BY <1>6, <1>7, <1>9, FoundRecord
    <3>3. CallsOK' /\ call' \in Calls
      BY <1>1, <1>2, <1>6, <3>1, <3>2, OneMoves
    <3>4. QED BY <1>1, <3>1, <3>3
  <2>3. QED BY <2>1, <2>2
<1>11. VarsOK'
  BY <1>1, <1>2, <1>5, <1>6, <1>8, <1>10 DEF VarsOK
<1>12. QED BY <1>6, <1>10, <1>11 DEF TransportInv

\* Over TCP the dialler that reads its answer keeps the lock.
LEMMA TcpAnswer ==
    ASSUME TransportInv, NEW p \in Peers, NEW q \in Peers, NEW k \in Kinds, TcpAnswered(p, q, k)
    PROVE  TransportInv'
<1> DEFINE c == call[p][q][k].link
           r == [call[p][q][k] EXCEPT !.pc = "stuck"]
<1>1. /\ call[p][q][k].pc = "wait" /\ Step(c, "response", "done")
      /\ call' = [call EXCEPT ![p][q][k] = r]
      /\ UNCHANGED <<proto, up, found, table, conns, sent, lock, faults>>
  BY DEF TcpAnswered
<1>2. c \in DOMAIN links /\ c \in 1 .. Len(links) /\ call[p][q][k] \in CallRecords
  BY <1>1, CallLink
<1>3. VarsOK /\ CallsOK /\ call \in Calls /\ links \in Seq(LinkRecords)
  BY DEF TransportInv, VarsOK
<1>4. r \in CallRecords /\ r.pc = "stuck" /\ r.link = c
  BY <1>2 DEF CallRecords
<1> HIDE DEF r
<1>5. /\ links[c].hs = "response"
      /\ \E l \in LinkRecords :
            /\ l.from = links[c].from /\ l.to = links[c].to /\ l.hs = "done"
            /\ links' = [links EXCEPT ![c] = l]
  BY <1>1, <1>2, <1>3, StepRecord
<1>6. Grows /\ "response" \in BothRegistered
  BY <1>1, TableStays DEF BothRegistered
<1>7. /\ links' \in Seq(LinkRecords) /\ Len(links') = Len(links) /\ SameEnds
      /\ "restart" \notin faults' => LinksKnown' /\ KeysKnown'
  BY <1>1, <1>2, <1>5, <1>6, LinkMoves
<1>8. /\ call' \in Calls /\ call'[p][q][k] = r
      /\ \A x, y \in Peers, z \in Kinds :
            x # p \/ y # q \/ z # k => call'[x][y][z] = call[x][y][z]
  BY <1>1, <1>3, <1>4, SMTT(30) DEF Calls
<1>9. CallOK(p, q, k)' /\ CallKnown(p, q, k)'
  <2>1. CallOK(p, q, k) /\ CallKnown(p, q, k)
    BY <1>3 DEF CallsOK
  <2>2. CallOK(p, q, k)'
    BY <1>1, <1>2, <1>4, <1>7, <1>8, <2>1 DEF CallOK
  <2>3. CallKnown(p, q, k)'
    BY <1>1, <1>4, <1>8, <2>1 DEF CallKnown
  <2>4. QED BY <2>2, <2>3
<1>10. ASSUME NEW x \in Peers, NEW y \in Peers, NEW z \in Kinds,
              x # p \/ y # q \/ z # k
       PROVE  CallOK(x, y, z)' /\ CallKnown(x, y, z)'
  BY <1>1, <1>3, <1>7, <1>8, <1>10, CallStays DEF CallsOK
<1>11. CallsOK'
  BY <1>9, <1>10 DEF CallsOK
<1>12. VarsOK'
  BY <1>1, <1>3, <1>7, <1>8 DEF VarsOK
<1>13. QED BY <1>7, <1>11, <1>12 DEF TransportInv

-----------------------------------------------------------------------------
(* A process starts, and starts again.                                      *)

\* The transport listens.
LEMMA Starts ==
    ASSUME TransportInv, NEW p \in Peers, StartTransport(p)
    PROVE  TransportInv'
<1>1. /\ up' = [up EXCEPT ![p] = TRUE]
      /\ UNCHANGED <<proto, found, table, conns, sent, lock, call, links, faults>>
  BY DEF StartTransport
<1>2. VarsOK /\ CallsOK /\ links \in Seq(LinkRecords)
  BY DEF TransportInv, VarsOK
<1>3. SameEnds
  BY <1>1, <1>2 DEF SameEnds
<1>4. CallsOK'
  BY <1>1, <1>2, <1>3, AllStay
<1>5. VarsOK'
  BY <1>1, <1>2 DEF VarsOK
<1>6. QED BY <1>1, <1>4, <1>5 DEF TransportInv, LinksKnown, KeysKnown

\* Everything the process knew is gone; its calls with it.
LEMMA Restarts ==
    ASSUME TransportInv, NEW p \in Peers, Restart(p)
    PROVE  TransportInv'
<1>1. /\ VarsOK /\ CallsOK /\ links \in Seq(LinkRecords) /\ call \in Calls
      /\ lock \in [Peers -> {Free} \cup (Peers \X Kinds)] /\ found \in [Peers -> SUBSET Peers]
  BY DEF TransportInv, VarsOK
<1>2. /\ Len(links) \in Nat /\ DOMAIN links = 1 .. Len(links)
      /\ DOMAIN links' = 1 .. Len(links)
      /\ \A d \in 1 .. Len(links) : /\ links'[d] \in LinkRecords
                                    /\ links'[d].from = links[d].from
                                    /\ links'[d].to = links[d].to
  <2>1. Len(links) \in Nat /\ DOMAIN links = 1 .. Len(links)
    BY <1>1
  <2>2. links' = [c \in DOMAIN links |->
           IF p \notin {links[c].from, links[c].to} THEN links[c] ELSE
           [links[c] EXCEPT !.alive = FALSE, !.reg[p] = "done",
               !.hs = IF p = links[c].to \/ links[c].hs \in {"answerAdded", "answerKeyed"}
                      THEN "done" ELSE links[c].hs]]
    BY DEF Restart
  <2>3. SUFFICES ASSUME NEW d \in 1 .. Len(links)
                 PROVE  /\ links'[d] \in LinkRecords
                        /\ links'[d].from = links[d].from
                        /\ links'[d].to = links[d].to
    BY <2>1, <2>2
  <2> DEFINE h == IF p = links[d].to \/ links[d].hs \in {"answerAdded", "answerKeyed"}
                  THEN "done" ELSE links[d].hs
  <2>4. links[d] \in LinkRecords
    BY <1>1, <2>1, Ends
  <2>5. links'[d] = IF p \notin {links[d].from, links[d].to} THEN links[d] ELSE
           [links[d] EXCEPT !.alive = FALSE, !.reg[p] = "done", !.hs = h]
    BY <2>1, <2>2
  <2>6. h \in {"none", "request", "stored", "registered", "added", "keyed",
               "response", "answerAdded", "answerKeyed", "done"}
    BY <2>4 DEF LinkRecords
  <2> HIDE DEF h
  <2>7. CASE p \notin {links[d].from, links[d].to}
    BY <2>4, <2>5, <2>7
  <2>8. CASE p \in {links[d].from, links[d].to}
    <3> DEFINE r == [links[d] EXCEPT !.alive = FALSE, !.reg[p] = "done", !.hs = h]
    <3>1. r \in LinkRecords /\ r.from = links[d].from /\ r.to = links[d].to
      BY <2>4, <2>6 DEF LinkRecords
    <3>2. links'[d] = r
      BY <2>5, <2>8
    <3> HIDE DEF r
    <3>3. QED BY <3>1, <3>2
  <2>9. QED BY <2>7, <2>8
<1>3. links' \in Seq(LinkRecords) /\ Len(links') = Len(links)
  <2>1. links' = [d \in 1 .. Len(links) |-> links'[d]]
    BY <1>2 DEF Restart
  <2>2. links' \in [1 .. Len(links) -> LinkRecords]
    BY <1>2, <2>1
  <2>3. links' \in Seq(LinkRecords)
    BY <1>2, <2>2, SeqDef
  <2>4. QED BY <1>2, <2>3, LenProperties
<1>4. SameEnds
  BY <1>2, <1>3 DEF SameEnds
<1>5. /\ found' = [found EXCEPT ![p] = {}]
      /\ lock' = [lock EXCEPT ![p] = Free]
      /\ call' = [call EXCEPT ![p] = [q \in Peers |-> [k \in Kinds |-> Idle]]]
      /\ conns' = [conns EXCEPT ![p] = [q \in Peers |-> 0]]
      /\ table' = [table EXCEPT ![p] = [q \in Peers |-> NoEntry]]
      /\ up' = [up EXCEPT ![p] = FALSE] /\ sent' = [sent EXCEPT ![p] = {}]
      /\ faults' = faults \cup {"restart"} /\ proto' = proto
  BY DEF Restart, Fault
<1>6. Idle \in CallRecords /\ Idle.pc = "idle" /\ Idle.link = 0 /\ NoEntry \in Entries(Peers)
  BY DEF Idle, CallRecords, NoEntry, Entries
<1>7. VarsOK'
  <2>1. call' \in Calls
    BY <1>1, <1>5, <1>6 DEF Calls
  <2>2. table' \in Tables
    BY <1>1, <1>5, <1>6 DEF VarsOK, Tables
  <2>3. conns' \in [Peers -> [Peers -> 0 .. Len(links')]]
    BY <1>1, <1>2, <1>3, <1>5 DEF VarsOK
  <2>4. lock' \in [Peers -> {Free} \cup (Peers \X Kinds)] /\ found' \in [Peers -> SUBSET Peers]
    BY <1>1, <1>5
  <2>5. QED BY <1>1, <1>3, <1>5, <2>1, <2>2, <2>3, <2>4 DEF VarsOK
<1>8. ASSUME NEW x \in Peers, NEW y \in Peers, NEW z \in Kinds
      PROVE  CallOK(x, y, z)' /\ CallKnown(x, y, z)'
  <2>1. CASE x = p
    <3>1. call'[x][y][z] = Idle
      BY <1>1, <1>5, <2>1 DEF Calls
    <3>2. lock'[x] # <<y, z>>
      BY <1>1, <1>5, <2>1 DEF Free
    <3>3. QED BY <1>2, <1>3, <1>4, <1>6, <3>1, <3>2, CallMoves
  <2>2. CASE x # p
    <3>1. call'[x][y][z] = call[x][y][z] /\ lock'[x] = lock[x] /\ found'[x] = found[x]
      BY <1>1, <1>5, <2>2 DEF Calls
    <3>2. QED BY <1>1, <1>4, <3>1, CallStays DEF CallsOK
  <2>3. QED BY <2>1, <2>2
<1>9. CallsOK' /\ "restart" \in faults'
  BY <1>5, <1>8 DEF CallsOK
<1>10. QED BY <1>7, <1>9 DEF TransportInv

-----------------------------------------------------------------------------
(* The theorems.                                                            *)

\* Nothing is connected at first.
LEMMA InitInv == Init => TransportInv
<1> SUFFICES ASSUME Init
             PROVE  TransportInv
  OBVIOUS
<1>1. Idle \in CallRecords /\ Idle.pc = "idle" /\ Idle.link = 0
  BY DEF Idle, CallRecords
<1>2. NoEntry \in Entries(Peers) /\ NoEntry.key = {}
  BY DEF NoEntry, Entries
<1>3. links \in Seq(LinkRecords) /\ Len(links) = 0 /\ DOMAIN links = {}
  BY DEF Init
<1>4. VarsOK
  BY <1>1, <1>2, <1>3 DEF Init, VarsOK, Calls, Tables
<1>5. \A p, q \in Peers, k \in Kinds : call[p][q][k] = Idle /\ lock[p] = Free /\ <<q, k>> # Free
  BY DEF Init, Free
<1>6. CallsOK
  <2>1. ASSUME NEW p \in Peers, NEW q \in Peers, NEW k \in Kinds
        PROVE  CallOK(p, q, k) /\ CallKnown(p, q, k)
    <3>1. call[p][q][k] = Idle /\ lock[p] # <<q, k>>
      BY <1>5
    <3>2. CallOK(p, q, k)
      BY <1>1, <1>3, <3>1 DEF CallOK
    <3>3. CallKnown(p, q, k)
      BY <1>1, <3>1 DEF CallKnown
    <3>4. QED BY <3>2, <3>3
  <2>2. QED BY <2>1 DEF CallsOK
<1>7. LinksKnown /\ KeysKnown
  BY <1>2, <1>3 DEF Init, LinksKnown, KeysKnown
<1>8. QED BY <1>4, <1>6, <1>7 DEF TransportInv

\* Every step keeps the invariant.
LEMMA NextInv == TransportInv /\ [Next]_vars => TransportInv'
<1> SUFFICES ASSUME TransportInv, [Next]_vars
             PROVE  TransportInv'
  OBVIOUS
<1>1. ASSUME NEW p \in Peers, Main(p) \/ Restart(p)
      PROVE  TransportInv'
  BY <1>1, Starts, Discovers, Restarts DEF Main
<1>2. ASSUME NEW p \in Peers, NEW q \in Peers, NEW k \in Kinds, Call(p, q, k)
      PROVE  TransportInv'
  BY <1>2, LooksAgain, Dials, QuicAnswer, NoAnswer, Looks, Sends DEF Call
<1>3. ASSUME NEW p \in Peers, NEW q \in Peers, NEW k \in Kinds,
             TcpAnswered(p, q, k) \/ HandshakeLate(p, q, k)
      PROVE  TransportInv'
  BY <1>3, TcpAnswer, NoAnswer
<1>4. ASSUME NEW c \in DOMAIN links, Handler(c) \/ TcpReaderRegister(c) \/ Lose(c)
      PROVE  TransportInv'
  BY <1>4, QuicHandler, TcpHandler, TcpFirst, LinkLost DEF Handler
<1>5. CASE UNCHANGED vars
  <2>1. UNCHANGED <<proto, up, found, table, conns, sent, lock, call, links, faults>>
    BY <1>5 DEF vars
  <2>2. VarsOK /\ CallsOK /\ links \in Seq(LinkRecords)
    BY DEF TransportInv, VarsOK
  <2>3. SameEnds
    BY <2>1, <2>2 DEF SameEnds
  <2>4. CallsOK'
    BY <2>1, <2>2, <2>3, AllStay
  <2>5. VarsOK'
    BY <2>1, <2>2 DEF VarsOK
  <2>6. QED BY <2>1, <2>4, <2>5 DEF TransportInv, LinksKnown, KeysKnown
<1>6. QED BY <1>1, <1>2, <1>3, <1>4, <1>5 DEF Next

\* The inductive invariant of the transports holds: calls and lock agree, and
\* both ends of a link know each other before either sets a key.
THEOREM TransportInvHolds == Spec => []TransportInv
BY InitInv, NextInv, PTL DEF Spec

\* Every variable has its type, what is stored and used is a link, and
\* connectionsMu is held across calls by exactly the getOrCreateConnection that
\* waits for, or is stuck on, the answer to its handshake.
THEOREM TransportTypeCorrect == Spec => []TypeOK
BY TransportInvHolds, InvImplies, PTL

\* A peer with a session key is in the connection table of the other side, as
\* long as no process restarts, whatever crosses and whichever link breaks.
THEOREM KeyedPeerIsKnownHolds == Spec => []KeyedPeerIsKnown
BY TransportInvHolds, InvImplies, PTL

\* What a step does with the stored connections.
Kept == \A p, q \in Peers : conns[p][q] # 0 => conns'[p][q] \in {conns[p][q], 0}

\* No step replaces a stored connection.
LEMMA NextKeeps == TransportInv /\ [Next]_vars => Kept
<1> SUFFICES ASSUME TransportInv, [Next]_vars
             PROVE  Kept
  OBVIOUS
<1>1. /\ VarsOK /\ conns \in [Peers -> [Peers -> 0 .. Len(links)]]
      /\ \A c \in DOMAIN links : links[c].from \in Peers /\ links[c].to \in Peers
  BY Ends DEF TransportInv, VarsOK
<1>2. ASSUME UNCHANGED conns
      PROVE  Kept
  BY <1>2 DEF Kept
<1>3. ASSUME NEW c \in DOMAIN links, NEW p \in Peers, NEW q \in Peers,
             conns' = StoreIfNone(p, q, c)
      PROVE  Kept
  BY <1>1, <1>3, StoreUpdate DEF Kept
<1>4. ASSUME NEW p \in Peers, NEW q \in Peers, NEW k \in Kinds, Dial(p, q, k)
      PROVE  Kept
  <2>1. conns[p][q] = 0 /\ conns' = [conns EXCEPT ![p][q] = Len(links) + 1]
    BY <1>4 DEF Dial, MayDial
  <2>2. \A x, y \in Peers : x # p \/ y # q => conns'[x][y] = conns[x][y]
    BY <1>1, <2>1
  <2>3. QED BY <2>1, <2>2 DEF Kept
<1>5. ASSUME NEW p \in Peers, NEW q \in Peers, SendFails(p, q)
      PROVE  Kept
  <2>1. conns' = [conns EXCEPT ![p][q] = 0]
    BY <1>5 DEF SendFails
  <2>2. QED BY <1>1, <2>1 DEF Kept
<1>6. ASSUME NEW p \in Peers, Restart(p)
      PROVE  Kept
  <2>1. conns' = [conns EXCEPT ![p] = [q \in Peers |-> 0]]
    BY <1>6 DEF Restart
  <2>2. QED BY <1>1, <2>1 DEF Kept
<1>7. ASSUME NEW p \in Peers, Main(p)
      PROVE  Kept
  BY <1>2, <1>7 DEF Main, StartTransport, DiscoveryCallback
<1>8. ASSUME NEW p \in Peers, NEW q \in Peers, NEW k \in Kinds,
             Call(p, q, k) \/ TcpAnswered(p, q, k) \/ HandshakeLate(p, q, k)
      PROVE  Kept
  <2>1. \/ UNCHANGED conns \/ Dial(p, q, k) \/ SendFails(p, q)
    BY <1>8 DEF Call, NoDial, QuicAnswered, HandshakeTimeout, HandshakeBroken, HandshakeLate,
                GiveUp, LookUp, StartSend, SendMessage, SendLost, TcpAnswered
  <2>2. QED BY <1>2, <1>4, <1>5, <2>1
<1>9. ASSUME NEW c \in DOMAIN links, NEW e \in Peers,
             TcpFirstRegister(c, e) \/ TcpFirstStore(c, e)
      PROVE  Kept
  <2>1. Peer(links[c], e) \in Peers
    BY <1>1 DEF Peer
  <2>2. UNCHANGED conns \/ conns' = StoreIfNone(e, Peer(links[c], e), c)
    BY <1>9 DEF TcpFirstRegister, TcpFirstStore
  <2>3. QED BY <1>2, <1>3, <2>1, <2>2
<1>10. ASSUME NEW c \in DOMAIN links,
              Handler(c) \/ TcpReaderRegister(c) \/ Lose(c)
       PROVE  Kept
  <2>1. \/ UNCHANGED conns
        \/ conns' = StoreIfNone(links[c].to, links[c].from, c)
        \/ conns' = StoreIfNone(links[c].from, links[c].to, c)
        \/ \E e \in Peers : TcpFirstRegister(c, e) \/ TcpFirstStore(c, e)
    BY <1>10 DEF Handler, QuicStore, QuicRegister, QuicKeyAndAnswer, TcpRegister, TcpKey,
                 TcpStoreAndAnswer, TcpReaderRegister, TcpReaderKey, TcpReaderStore, Lose
  <2>2. QED BY <1>1, <1>2, <1>3, <1>9, <2>1
<1>11. CASE UNCHANGED vars
  BY <1>2, <1>11 DEF vars
<1>12. QED BY <1>6, <1>7, <1>8, <1>10, <1>11 DEF Next

\* A stored connection is never replaced by another: the second look under the
\* write lock and the stores that check for one see to it, whoever dials.
THEOREM StoredConnectionKeptHolds == Spec => StoredConnectionKept
<1>1. TransportInv /\ [Next]_vars =>
         [\A p, q \in Peers : conns[p][q] # 0 => conns'[p][q] \in {conns[p][q], 0}]_vars
  BY NextKeeps DEF Kept
<1>2. QED BY <1>1, TransportInvHolds, PTL DEF Spec, StoredConnectionKept
=============================================================================
