---------------------------- MODULE Handshake_proofs ----------------------------
(***************************************************************************)
(* Agreement of the two ends of a handshake (Handshake), for any number of *)
(* Dials on any pairs of ports, over a network that loses, repeats and     *)
(* reorders.                                                               *)
(***************************************************************************)
EXTENDS Handshake, TLAPS

-------------------------------------------------------------------------------
(* The inductive invariant *)

ClientStates == {"init", "synSent", "established", "closed", "failed"}
ServerStates == {"synRcvd", "established", "closed"}
Kinds == {"syn", "synack", "ack", "data", "close", "reset"}

ClientRec == [state : ClientStates, sendSeq : Nat, recvSeq : Nat, peer : Nat,
              ackThrough : Nat, localMTU : Nat, remoteMTU : Nat]
ServerRec == [state : ServerStates, sendSeq : Nat, recvSeq : Nat, peer : Dials,
              ackThrough : Nat, localMTU : Nat, remoteMTU : Nat, pair : Pairs]
PacketRec == [to : {"client", "server"}, pair : Pairs, kind : Kinds, send : Nat,
              recv : Nat, seq : Nat, ack : Nat, mtu : Nat]

\* Connection c of Dial a has the numbers of one of the server's connections srv that
\* was made by a SYN of this Dial.
Linked(a, c, srv) ==
    /\ c.peer \in 1 .. Len(srv)
    /\ srv[c.peer].peer = a /\ srv[c.peer].pair = PortPair[a]
    /\ c.recvSeq = ServerISN(c.peer) + 1
    /\ c.ackThrough = ClientISN(a)
    /\ c.remoteMTU = ServerMTU

ClientOK(a, c, srv) ==
    /\ c \in ClientRec
    /\ c.localMTU = MTU[a]
    /\ c.state = "init" => c.sendSeq = ClientISN(a)
    /\ c.state \in {"synSent", "established"} => c.sendSeq = ClientISN(a) + 1
    /\ c.state = "established" => Linked(a, c, srv)

\* A connection of the server has the numbers of the SYN that made it; what completed
\* its handshake acknowledged a connection on the same ports.
ServerOK(s, srv) ==
    /\ srv[s] \in ServerRec
    /\ srv[s].pair = PortPair[srv[s].peer]
    /\ srv[s].sendSeq = ServerISN(s) + 1
    /\ srv[s].recvSeq = ClientISN(srv[s].peer) + 1
    /\ srv[s].localMTU = ServerMTU /\ srv[s].remoteMTU = MTU[srv[s].peer]
    /\ srv[s].state = "established" =>
          \E t \in 1 .. Len(srv) : /\ srv[t].pair = srv[s].pair
                                   /\ srv[s].ackThrough = ServerISN(t)

\* What a packet on its way says of the connection that sent it.
SynOK(p) == /\ p.recv \in Dials /\ p.pair = PortPair[p.recv]
            /\ p.seq = ClientISN(p.recv) /\ p.mtu = MTU[p.recv]
SynAckOK(p, srv) == /\ p.send \in 1 .. Len(srv)
                    /\ srv[p.send].peer = p.recv /\ srv[p.send].pair = p.pair
                    /\ p.seq = ServerISN(p.send) /\ p.ack = ClientISN(p.recv)
                    /\ p.mtu = ServerMTU
AckOK(p, srv) == \E t \in 1 .. Len(srv) : srv[t].pair = p.pair /\ p.ack = ServerISN(t)

PacketOK(p, srv) ==
    /\ p \in PacketRec
    /\ p.kind = "syn" => SynOK(p)
    /\ p.kind = "synack" => SynAckOK(p, srv)
    /\ p.kind \in {"ack", "data"} => AckOK(p, srv)

ClientTableOK(T) == /\ T \in [Pairs -> Dials \cup {0}]
                    /\ \A k \in Pairs : T[k] # 0 => PortPair[T[k]] = k
ServerTableOK(T, srv) ==
    /\ T \in [Pairs -> Nat]
    /\ \A k \in Pairs : T[k] # 0 => T[k] \in 1 .. Len(srv) /\ srv[T[k]].pair = k

HandshakeInv ==
    /\ DOMAIN client = Dials
    /\ \A a \in Dials : ClientOK(a, client[a], server)
    /\ server \in Seq(ServerRec)
    /\ \A s \in 1 .. Len(server) : ServerOK(s, server)
    /\ \A p \in sent : PacketOK(p, server)
    /\ ClientTableOK(clientTable)
    /\ ServerTableOK(serverTable, server)

-------------------------------------------------------------------------------
(* The server's connections are never renamed *)

Extends(srv, new) ==
    /\ Len(srv) <= Len(new)
    /\ \A t \in 1 .. Len(srv) : new[t].peer = srv[t].peer /\ new[t].pair = srv[t].pair

\* What is known of a client, a packet or the server's table stays true when the
\* server's connections change state and others are added.
LEMMA Kept ==
    ASSUME NEW srv \in Seq(ServerRec), NEW new \in Seq(ServerRec), Extends(srv, new)
    PROVE  /\ \A a, c : ClientOK(a, c, srv) => ClientOK(a, c, new)
           /\ \A p : PacketOK(p, srv) => PacketOK(p, new)
           /\ \A T : ServerTableOK(T, srv) => ServerTableOK(T, new)
<1>0. 1 .. Len(srv) \subseteq 1 .. Len(new)
  BY DEF Extends
<1>1. \A a, c : ClientOK(a, c, srv) => ClientOK(a, c, new)
  BY <1>0 DEF Extends, ClientOK, Linked
<1>2. \A p : PacketOK(p, srv) => PacketOK(p, new)
  BY <1>0 DEF Extends, PacketOK, SynAckOK, AckOK
<1>3. \A T : ServerTableOK(T, srv) => ServerTableOK(T, new)
  BY <1>0 DEF Extends, ServerTableOK
<1> QED
  BY <1>1, <1>2, <1>3

\* Every packet is on a pair of ports somebody uses.
LEMMA PairFacts ==
    /\ \A a \in Dials : PortPair[a] \in Pairs
    /\ PortZero \in Pairs
    /\ \A a \in Dials : a \in Nat /\ a # 0 /\ ClientISN(a) \in Nat /\ MTU[a] \in Nat
    /\ \A a, b \in Dials : ClientISN(a) = ClientISN(b) => a = b
    /\ \A s \in Nat : ServerISN(s) \in Nat
    /\ ServerMTU \in Nat
BY HandshakeAssumption DEF Pairs, ClientISN, ServerISN

\* A refusal is a packet that says nothing.
LEMMA ResetOK ==
    ASSUME NEW p \in PacketRec, NEW srv
    PROVE  PacketOK(resetFor(p), srv)
<1>1. resetFor(p) \in PacketRec /\ resetFor(p).kind = "reset"
  BY DEF resetFor, Packet, PacketRec, Kinds
<1> QED
  BY <1>1 DEF PacketOK

\* A step of Dial a: the server is left alone.
LEMMA ClientStep ==
    ASSUME HandshakeInv, NEW a \in Dials, NEW u,
           client' = [client EXCEPT ![a] = u], ClientOK(a, u, server),
           ClientTableOK(clientTable'),
           \A p \in sent' : PacketOK(p, server),
           UNCHANGED <<server, serverTable>>
    PROVE  HandshakeInv'
<1>1. DOMAIN client' = Dials /\ \A b \in Dials : client'[b] = IF b = a THEN u ELSE client[b]
  BY DEF HandshakeInv
<1>2. \A b \in Dials : ClientOK(b, client'[b], server)
  BY <1>1 DEF HandshakeInv
<1> QED
  BY <1>1, <1>2 DEF HandshakeInv

\* A step of the server: the clients are left alone.
LEMMA ServerStep ==
    ASSUME HandshakeInv, server' \in Seq(ServerRec), Extends(server, server'),
           \A s \in 1 .. Len(server') : ServerOK(s, server'),
           \A p \in sent' : p \in sent \/ PacketOK(p, server'),
           ServerTableOK(serverTable', server'),
           UNCHANGED <<client, clientTable>>
    PROVE  HandshakeInv'
<1>1. /\ \A a, c : ClientOK(a, c, server) => ClientOK(a, c, server')
      /\ \A p : PacketOK(p, server) => PacketOK(p, server')
  BY Kept DEF HandshakeInv
<1> QED
  BY <1>1 DEF HandshakeInv

-------------------------------------------------------------------------------
(* The client's steps *)

\* A connection that ends keeps its numbers.
LEMMA ClientEnds ==
    ASSUME NEW a, NEW c, NEW srv, ClientOK(a, c, srv), NEW st \in {"closed", "failed"}
    PROVE  ClientOK(a, [c EXCEPT !.state = st], srv)
<1> DEFINE u == [c EXCEPT !.state = st]
<1>1. u \in ClientRec /\ u.state = st /\ u.localMTU = c.localMTU
  BY DEF ClientOK, ClientRec, ClientStates
<1> HIDE DEF u
<1>2. ClientOK(a, u, srv)
  BY <1>1 DEF ClientOK
<1> QED
  BY <1>2 DEF u

\* Putting a Dial in the place of its ports, or clearing the place.
LEMMA ClientTableStep ==
    ASSUME ClientTableOK(clientTable), NEW a \in Dials
    PROVE  /\ ClientTableOK([clientTable EXCEPT ![PortPair[a]] = a])
           /\ ClientTableOK([clientTable EXCEPT ![PortPair[a]] = 0])
BY PairFacts DEF ClientTableOK

LEMMA DialErrorInv ==
    ASSUME HandshakeInv, NEW a \in Dials, DialError(a), UNCHANGED <<server, serverTable>>
    PROVE  HandshakeInv'
<1> DEFINE u == [client[a] EXCEPT !.state = "failed"]
<1>1. /\ client' = [client EXCEPT ![a] = u] /\ sent' = sent
      /\ clientTable' = [clientTable EXCEPT ![PortPair[a]] = 0]
  BY DEF DialError
<1>2. ClientOK(a, u, server)
  BY ClientEnds DEF HandshakeInv
<1>3. ClientTableOK(clientTable') /\ \A p \in sent' : PacketOK(p, server)
  BY <1>1, ClientTableStep DEF HandshakeInv
<1> HIDE DEF u
<1> QED
  BY <1>1, <1>2, <1>3, ClientStep

LEMMA DialInv ==
    ASSUME HandshakeInv, NEW a \in Dials, DialWithManager(a)
    PROVE  HandshakeInv'
<1>1. CASE DialError(a)
  BY <1>1, DialErrorInv DEF DialWithManager
<1>2. CASE /\ client' = [client EXCEPT ![a].state = "synSent", ![a].sendSeq = @ + 1]
           /\ clientTable' = [clientTable EXCEPT ![PortPair[a]] = a]
           /\ sent' = sent \cup {Packet("server", PortPair[a], "syn", 0, a, ClientISN(a), 0, MTU[a])}
  <2> DEFINE c == client[a]
             u == [c EXCEPT !.state = "synSent", !.sendSeq = c.sendSeq + 1]
             q == Packet("server", PortPair[a], "syn", 0, a, ClientISN(a), 0, MTU[a])
  <2>1. client' = [client EXCEPT ![a] = u] /\ UNCHANGED <<server, serverTable>>
    BY <1>2 DEF DialWithManager
  <2>2. ClientOK(a, c, server) /\ c.state = "init"
    BY DEF HandshakeInv, DialWithManager
  <2> HIDE DEF c
  <2>3. u \in ClientRec /\ u.state = "synSent" /\ u.sendSeq = c.sendSeq + 1 /\ u.localMTU = c.localMTU
    <3>1. c \in ClientRec /\ c.sendSeq \in Nat
      BY <2>2 DEF ClientOK, ClientRec
    <3>2. c.sendSeq + 1 \in Nat
      BY <3>1
    <3> QED
      BY <3>1, <3>2 DEF ClientRec, ClientStates
  <2> HIDE DEF u
  <2>4. ClientOK(a, u, server)
    BY <2>2, <2>3 DEF ClientOK
  <2>5. q \in PacketRec /\ q.kind = "syn" /\ SynOK(q)
    BY PairFacts DEF Packet, PacketRec, Kinds, SynOK
  <2> HIDE DEF q
  <2>6. PacketOK(q, server)
    BY <2>5 DEF PacketOK
  <2>7. \A p \in sent' : PacketOK(p, server)
    BY <1>2, <2>6 DEF HandshakeInv, q
  <2>8. ClientTableOK(clientTable')
    BY <1>2, ClientTableStep DEF HandshakeInv
  <2> QED
    BY <2>1, <2>4, <2>7, <2>8, ClientStep
<1> QED
  BY <1>1, <1>2 DEF DialWithManager, DialError

\* A packet that an established connection of Dial a sends, with the number of the
\* SYN-ACK as its acknowledgement.
LEMMA ClientSends ==
    ASSUME NEW a \in Dials, NEW c, NEW srv \in Seq(ServerRec), ClientOK(a, c, srv),
           Linked(a, c, srv), NEW kind \in {"ack", "data"}, NEW seq \in Nat, NEW pair,
           pair = PortPair[a], NEW recv \in Nat
    PROVE  PacketOK(Packet("server", pair, kind, a, recv, seq, sendACK(c), 0), srv)
<1> DEFINE q == Packet("server", pair, kind, a, recv, seq, sendACK(c), 0)
<1>1. c.peer \in 1 .. Len(srv) /\ c.peer \in Nat
  BY DEF Linked
<1>2. sendACK(c) = ServerISN(c.peer) /\ ServerISN(c.peer) \in Nat
  <2>1. ServerISN(c.peer) \in Nat
    BY <1>1, PairFacts
  <2>2. c.recvSeq = ServerISN(c.peer) + 1
    BY DEF Linked
  <2> QED
    BY <2>1, <2>2 DEF sendACK
<1>3. q \in PacketRec /\ q.kind = kind /\ q.pair = PortPair[a] /\ q.ack = ServerISN(c.peer)
  BY <1>2, PairFacts DEF Packet, PacketRec, Kinds
<1> HIDE DEF q
<1>4. AckOK(q, srv)
  BY <1>1, <1>3 DEF AckOK, Linked
<1>5. PacketOK(q, srv)
  BY <1>3, <1>4 DEF PacketOK
<1> QED
  BY <1>5 DEF q

\* A SYN-ACK that acknowledges the Dial's own SYN was sent by a connection that SYN
\* made: initial numbers differ.
LEMMA SynAckInv ==
    ASSUME HandshakeInv, NEW p \in sent, NEW a \in Dials, PortPair[a] = p.pair,
           client[a].state = "synSent", p.kind = "synack", validateSynAckAckThrough(a, p),
           client' = [client EXCEPT ![a] = processSynAck(a, p)],
           sent' = sent \cup {Packet("server", p.pair, "ack", a, p.send, 0,
                                     sendACK(processSynAck(a, p)), 0)},
           UNCHANGED <<clientTable, server, serverTable>>
    PROVE  HandshakeInv'
<1> DEFINE c == client[a]
           u == processSynAck(a, p)
           q == Packet("server", p.pair, "ack", a, p.send, 0, sendACK(u), 0)
<1>1. /\ ClientOK(a, c, server) /\ c.state = "synSent" /\ server \in Seq(ServerRec)
      /\ SynAckOK(p, server) /\ p \in PacketRec
      /\ \A s \in 1 .. Len(server) : server[s] \in ServerRec
  BY DEF HandshakeInv, PacketOK
<1>2. p.ack = ClientISN(a)
  <2>1. p.ack = c.sendSeq - 1
    BY DEF validateSynAckAckThrough
  <2>2. c.sendSeq = ClientISN(a) + 1 /\ ClientISN(a) \in Nat
    BY <1>1, PairFacts DEF ClientOK
  <2> QED
    BY <2>1, <2>2
<1>3. p.recv \in Dials
  BY <1>1 DEF SynAckOK, ServerRec
<1>4. p.recv = a
  BY <1>1, <1>2, <1>3, PairFacts DEF SynAckOK
<1>5. u = [c EXCEPT !.state = "established", !.recvSeq = p.seq + 1, !.peer = p.send,
                    !.ackThrough = p.ack, !.remoteMTU = p.mtu]
  BY DEF processSynAck
<1> HIDE DEF c, u
<1>6. /\ p.seq \in Nat /\ p.send \in Nat /\ p.ack \in Nat /\ p.mtu \in Nat
  BY <1>1 DEF PacketRec
<1>7. /\ u \in ClientRec /\ u.state = "established" /\ u.recvSeq = p.seq + 1 /\ u.peer = p.send
      /\ u.ackThrough = p.ack /\ u.remoteMTU = p.mtu /\ u.sendSeq = c.sendSeq
      /\ u.localMTU = c.localMTU
  <2>1. c \in ClientRec /\ p.seq + 1 \in Nat
    BY <1>1, <1>6 DEF ClientOK
  <2> QED
    BY <1>5, <1>6, <2>1 DEF ClientRec, ClientStates
<1>8. Linked(a, u, server)
  BY <1>1, <1>2, <1>4, <1>7 DEF Linked, SynAckOK
<1>9. ClientOK(a, u, server)
  BY <1>1, <1>7, <1>8 DEF ClientOK
<1>10. PacketOK(q, server)
  BY <1>1, <1>6, <1>8, <1>9, ClientSends
<1>11. \A r \in sent' : PacketOK(r, server)
  BY <1>10 DEF HandshakeInv, u
<1> QED
  BY <1>9, <1>11, ClientStep DEF HandshakeInv, u

\* A packet of kind close or reset says nothing either.
LEMMA PlainOK ==
    ASSUME NEW to \in {"client", "server"}, NEW pair \in Pairs, NEW kind \in {"close", "reset"},
           NEW send \in Nat, NEW recv \in Nat, NEW srv
    PROVE  PacketOK(Packet(to, pair, kind, send, recv, 0, 0, 0), srv)
<1> DEFINE q == Packet(to, pair, kind, send, recv, 0, 0, 0)
<1>1. q \in PacketRec /\ q.kind = kind
  BY DEF Packet, PacketRec, Kinds
<1> HIDE DEF q
<1>2. PacketOK(q, srv)
  BY <1>1 DEF PacketOK
<1> QED
  BY <1>2 DEF q

LEMMA ClientReceivesInv ==
    ASSUME HandshakeInv, NEW p \in sent, ClientReceives(p)
    PROVE  HandshakeInv'
<1> DEFINE a == clientTable[p.pair]
<1>0. /\ p \in PacketRec /\ p.pair \in Pairs /\ p.send \in Nat /\ UNCHANGED <<server, serverTable>>
      /\ a \in Dials \cup {0} /\ (a # 0 => PortPair[a] = p.pair) /\ 0 \notin Dials
  BY HandshakeAssumption
     DEF HandshakeInv, PacketOK, PacketRec, ClientTableOK, ClientReceives
<1>1. CASE a = 0 /\ sent' = sent \cup {resetFor(p)} /\ UNCHANGED <<client, clientTable>>
  <2>1. PacketOK(resetFor(p), server)
    BY <1>0, ResetOK
  <2> QED
    BY <1>0, <1>1, <2>1 DEF HandshakeInv
<1>2. CASE a # 0 /\ client[a].state = "synSent" /\ waitForSynAck(a, p)
  <2>1. CASE DialError(a)
    BY <1>0, <1>2, <2>1, DialErrorInv
  <2>2. CASE ~DialError(a)
    BY <1>0, <1>2, <2>2, SynAckInv DEF waitForSynAck
  <2> QED
    BY <2>1, <2>2
<1>3. CASE a # 0 /\ client[a].state = "established" /\ clientProcess(a, p)
  <2> DEFINE u == [client[a] EXCEPT !.state = "closed"]
             q == Packet("server", p.pair, "close", a, client[a].peer, 0, 0, 0)
  <2>1. client' = [client EXCEPT ![a] = u] /\ clientTable' = clientTable /\ sent' \subseteq sent \cup {q}
    BY <1>3 DEF clientProcess
  <2>2. ClientOK(a, u, server) /\ client[a].peer \in Nat /\ a \in Nat
    <3>1. a \in Dials /\ a \in Nat
      BY <1>0, <1>3, PairFacts
    <3>2. ClientOK(a, client[a], server)
      BY <3>1 DEF HandshakeInv
    <3>3. client[a].peer \in Nat
      BY <3>2 DEF ClientOK, ClientRec
    <3> QED
      BY <3>1, <3>2, <3>3, ClientEnds
  <2>3. PacketOK(q, server)
    BY <1>0, <2>2, PlainOK
  <2> HIDE DEF u, q
  <2>4. \A r \in sent' : PacketOK(r, server)
    BY <2>1, <2>3 DEF HandshakeInv
  <2> QED
    BY <1>0, <1>3, <2>1, <2>2, <2>4, ClientStep DEF HandshakeInv
<1> QED
  BY <1>1, <1>2, <1>3 DEF ClientReceives

LEMMA ClientWritesInv ==
    ASSUME HandshakeInv, NEW a \in Dials, ClientWrites(a)
    PROVE  HandshakeInv'
<1> DEFINE c == client[a]
           q == Packet("server", PortPair[a], "data", a, c.peer, c.sendSeq, sendACK(c), 0)
<1>1. ClientOK(a, c, server) /\ Linked(a, c, server) /\ server \in Seq(ServerRec)
  BY DEF HandshakeInv, ClientWrites, ClientOK
<1>2. c.peer \in Nat /\ c.sendSeq \in Nat
  BY <1>1 DEF ClientOK, ClientRec
<1>3. PacketOK(q, server)
  BY <1>1, <1>2, ClientSends
<1>4. sent' = sent \cup {q} /\ UNCHANGED <<client, clientTable, server, serverTable>>
  BY DEF ClientWrites
<1> HIDE DEF q
<1> QED
  BY <1>3, <1>4 DEF HandshakeInv

LEMMA ClientClosesInv ==
    ASSUME HandshakeInv, NEW a \in Dials, ClientCloses(a)
    PROVE  HandshakeInv'
<1> DEFINE u == [client[a] EXCEPT !.state = "closed"]
           q == Packet("server", PortPair[a], "close", a, client[a].peer, 0, 0, 0)
<1>1. /\ client' = [client EXCEPT ![a] = u] /\ sent' = sent \cup {q}
      /\ clientTable' = [clientTable EXCEPT ![PortPair[a]] = 0] /\ UNCHANGED <<server, serverTable>>
  BY DEF ClientCloses
<1>2. ClientOK(a, u, server) /\ client[a].peer \in Nat /\ a \in Nat /\ PortPair[a] \in Pairs
  <2>1. ClientOK(a, client[a], server)
    BY DEF HandshakeInv
  <2>2. ClientOK(a, u, server)
    BY <2>1, ClientEnds
  <2>3. client[a].peer \in Nat
    BY <2>1 DEF ClientOK, ClientRec
  <2>4. a \in Nat /\ PortPair[a] \in Pairs
    BY PairFacts
  <2> QED BY <2>2, <2>3, <2>4
<1>3. PacketOK(q, server)
  BY <1>2, PlainOK
<1> HIDE DEF u, q
<1>4. ClientTableOK(clientTable') /\ \A p \in sent' : PacketOK(p, server)
  BY <1>1, <1>3, ClientTableStep DEF HandshakeInv
<1> QED
  BY <1>1, <1>2, <1>4, ClientStep

-------------------------------------------------------------------------------
(* The server's steps *)

\* A connection of the server that changes its state, with the acknowledgement that it
\* takes over when it becomes established.
LEMMA ServerConnStep ==
    ASSUME HandshakeInv, NEW s \in 1 .. Len(server), NEW u \in ServerRec,
           server' = [server EXCEPT ![s] = u],
           u.peer = server[s].peer, u.pair = server[s].pair,
           u.sendSeq = server[s].sendSeq, u.recvSeq = server[s].recvSeq,
           u.localMTU = server[s].localMTU, u.remoteMTU = server[s].remoteMTU,
           u.state = "established" => \E t \in 1 .. Len(server) :
                 server[t].pair = u.pair /\ u.ackThrough = ServerISN(t),
           \A p \in sent' : p \in sent \/ PacketOK(p, server'),
           ServerTableOK(serverTable', server),
           UNCHANGED <<client, clientTable>>
    PROVE  HandshakeInv'
<1>0. /\ server \in Seq(ServerRec) /\ \A t \in 1 .. Len(server) : ServerOK(t, server)
      /\ Len(server) \in Nat
  BY DEF HandshakeInv
<1>1. /\ server' \in Seq(ServerRec) /\ Len(server') = Len(server)
      /\ \A t \in 1 .. Len(server) : server'[t] = IF t = s THEN u ELSE server[t]
  BY <1>0
<1>2. Extends(server, server')
  BY <1>0, <1>1 DEF Extends
<1>3. ASSUME NEW t \in 1 .. Len(server')
      PROVE  ServerOK(t, server')
  <2>1. \A r \in 1 .. Len(server) : server'[r].pair = server[r].pair
    BY <1>2 DEF Extends
  <2>2. CASE t = s
    BY <1>0, <1>1, <2>1, <2>2 DEF ServerOK
  <2>3. CASE t # s
    BY <1>0, <1>1, <1>3, <2>1, <2>3 DEF ServerOK
  <2> QED
    BY <2>2, <2>3
<1>4. ServerTableOK(serverTable', server')
  BY <1>0, <1>1, <1>2, Kept
<1> QED
  BY <1>1, <1>2, <1>3, <1>4, ServerStep

\* A connection of the server that ends.
LEMMA ServerEnds ==
    ASSUME HandshakeInv, NEW s \in 1 .. Len(server),
           server' = [server EXCEPT ![s].state = "closed"],
           \A p \in sent' : p \in sent \/ PacketOK(p, server'),
           ServerTableOK(serverTable', server),
           UNCHANGED <<client, clientTable>>
    PROVE  HandshakeInv'
<1> DEFINE c == server[s]
           u == [c EXCEPT !.state = "closed"]
<1>1. c \in ServerRec /\ server' = [server EXCEPT ![s] = u]
  BY DEF HandshakeInv, ServerOK
<1>2. /\ u \in ServerRec /\ u.state = "closed" /\ u.peer = c.peer /\ u.pair = c.pair
      /\ u.sendSeq = c.sendSeq /\ u.recvSeq = c.recvSeq
      /\ u.localMTU = c.localMTU /\ u.remoteMTU = c.remoteMTU
  <2> HIDE DEF c
  <2> QED
    BY <1>1 DEF ServerRec, ServerStates
<1> HIDE DEF u
<1> QED
  BY <1>1, <1>2, ServerConnStep

\* A SYN, repeated or not, makes a connection with the SYN's numbers.
LEMMA IncomingInv ==
    ASSUME HandshakeInv, NEW p \in sent, p.kind = "syn", handleIncomingSYN(p),
           UNCHANGED <<client, clientTable>>
    PROVE  HandshakeInv'
<1> DEFINE s == Len(server) + 1
           c == incomingConnection(p)
           q == Packet("client", p.pair, "synack", s, p.recv, ServerISN(s), c.recvSeq - 1,
                       ServerMTU)
<1>0. /\ p \in PacketRec /\ SynOK(p) /\ server \in Seq(ServerRec) /\ Len(server) \in Nat
      /\ \A t \in 1 .. Len(server) : ServerOK(t, server)
      /\ ServerTableOK(serverTable, server) /\ p.pair \in Pairs
  BY DEF HandshakeInv, PacketOK, PacketRec
<1>1. /\ p.recv \in Dials /\ p.recv \in Nat /\ p.pair = PortPair[p.recv]
      /\ p.seq = ClientISN(p.recv) /\ ClientISN(p.recv) \in Nat /\ p.mtu = MTU[p.recv]
      /\ MTU[p.recv] \in Nat
      /\ s \in Nat /\ ServerISN(s) \in Nat /\ ServerMTU \in Nat
  <2>1. s \in Nat
    BY <1>0
  <2>2. p.recv \in Dials /\ p.pair = PortPair[p.recv] /\ p.seq = ClientISN(p.recv)
        /\ p.mtu = MTU[p.recv]
    BY <1>0 DEF SynOK
  <2> HIDE DEF s
  <2> QED
    BY <2>1, <2>2, PairFacts
<1>2. c = [state |-> "synRcvd", sendSeq |-> ServerISN(s) + 1, recvSeq |-> p.seq + 1,
           peer |-> p.recv, ackThrough |-> 0, localMTU |-> ServerMTU, remoteMTU |-> p.mtu,
           pair |-> p.pair]
  BY DEF incomingConnection
<1> HIDE DEF c, s
<1>3. PICK d : /\ d \in {c, [c EXCEPT !.state = "closed"]}
               /\ server' = Append(server, d)
               /\ serverTable' \in {[serverTable EXCEPT ![p.pair] = s],
                                    [serverTable EXCEPT ![p.pair] = 0]}
               /\ sent' \in {sent, sent \cup {q}}
  <2>1. \/ /\ server' = Append(server, c)
           /\ serverTable' = [serverTable EXCEPT ![p.pair] = s]
           /\ sent' = sent \cup {q}
        \/ /\ server' = Append(server, [c EXCEPT !.state = "closed"])
           /\ serverTable' = [serverTable EXCEPT ![p.pair] = 0]
           /\ sent' \in {sent, sent \cup {q}}
    BY DEF handleIncomingSYN, c, s
  <2> QED
    BY <2>1
<1>4. /\ d \in ServerRec /\ d.state # "established" /\ d.peer = p.recv /\ d.pair = p.pair
      /\ d.sendSeq = ServerISN(s) + 1 /\ d.recvSeq = ClientISN(p.recv) + 1
      /\ d.localMTU = ServerMTU /\ d.remoteMTU = MTU[p.recv]
  <2>1. ServerISN(s) + 1 \in Nat /\ p.seq + 1 \in Nat
    BY <1>1
  <2>2. c \in ServerRec
    BY <1>0, <1>1, <1>2, <2>1 DEF ServerRec, ServerStates
  <2>3. CASE d = c
    BY <1>1, <1>2, <2>2, <2>3
  <2>4. CASE d = [c EXCEPT !.state = "closed"]
    <3>1. d = [state |-> "closed", sendSeq |-> ServerISN(s) + 1, recvSeq |-> p.seq + 1,
               peer |-> p.recv, ackThrough |-> 0, localMTU |-> ServerMTU, remoteMTU |-> p.mtu,
               pair |-> p.pair]
      BY <1>2, <2>4
    <3> QED
      BY <1>0, <1>1, <2>1, <3>1 DEF ServerRec, ServerStates
  <2> QED
    BY <1>3, <2>3, <2>4
<1>5. /\ server' \in Seq(ServerRec) /\ Len(server') = s /\ s = Len(server) + 1 /\ server'[s] = d
      /\ \A t \in 1 .. Len(server) : server'[t] = server[t]
  BY <1>0, <1>3, <1>4 DEF s
<1>6. Extends(server, server')
  BY <1>0, <1>5 DEF Extends
<1>7. ASSUME NEW t \in 1 .. Len(server')
      PROVE  ServerOK(t, server')
  <2>1. CASE t = s
    BY <1>1, <1>4, <1>5, <2>1 DEF ServerOK
  <2>2. CASE t # s
    <3>1. t \in 1 .. Len(server) /\ server'[t] = server[t] /\ ServerOK(t, server)
      BY <1>0, <1>5, <2>2
    <3>2. \A r \in 1 .. Len(server) : r \in 1 .. Len(server') /\ server'[r] = server[r]
      BY <1>0, <1>5
    <3> QED
      BY <3>1, <3>2 DEF ServerOK
  <2> QED
    BY <2>1, <2>2
<1>8. PacketOK(q, server')
  <2>1. c.recvSeq - 1 = ClientISN(p.recv)
    BY <1>1, <1>2
  <2>2. /\ q \in PacketRec /\ q.kind = "synack" /\ q.send = s /\ q.recv = p.recv /\ q.pair = p.pair
        /\ q.seq = ServerISN(s) /\ q.ack = ClientISN(p.recv) /\ q.mtu = ServerMTU
    BY <1>0, <1>1, <2>1 DEF Packet, PacketRec, Kinds
  <2> HIDE DEF q
  <2>3. SynAckOK(q, server')
    BY <1>0, <1>4, <1>5, <2>2 DEF SynAckOK
  <2> QED
    BY <2>2, <2>3 DEF PacketOK
<1> HIDE DEF q
<1>9. ServerTableOK(serverTable', server')
  <2>1. ServerTableOK(serverTable, server')
    BY <1>0, <1>5, <1>6, Kept
  <2>2. /\ serverTable \in [Pairs -> Nat]
        /\ \A k \in Pairs : serverTable[k] # 0 =>
               serverTable[k] \in 1 .. Len(server') /\ server'[serverTable[k]].pair = k
    BY <2>1 DEF ServerTableOK
  <2>3. s \in 1 .. Len(server') /\ server'[s].pair = p.pair
    BY <1>0, <1>4, <1>5
  <2>4. serverTable' \in [Pairs -> Nat]
    BY <1>0, <1>1, <1>3, <2>2
  <2>5. \A k \in Pairs : IF k = p.pair THEN serverTable'[k] \in {s, 0}
                                       ELSE serverTable'[k] = serverTable[k]
    BY <1>0, <1>3, <2>2
  <2> QED
    BY <2>2, <2>3, <2>4, <2>5 DEF ServerTableOK
<1> QED
  BY <1>3, <1>5, <1>6, <1>7, <1>8, <1>9, ServerStep

\* A packet for a connection that has an entry in the server's table.
LEMMA ServerProcessInv ==
    ASSUME HandshakeInv, NEW p \in sent, NEW s \in 1 .. Len(server), server[s].pair = p.pair,
           serverProcess(s, p), UNCHANGED <<client, clientTable, serverTable>>
    PROVE  HandshakeInv'
<1> DEFINE c == server[s]
<1>0. /\ p \in PacketRec /\ p.pair \in Pairs /\ p.ack \in Nat /\ c \in ServerRec
      /\ ServerTableOK(serverTable', server) /\ Len(server) \in Nat
      /\ p.kind \in {"ack", "data"} => AckOK(p, server)
  BY DEF HandshakeInv, PacketOK, PacketRec, ServerOK
<1>1. CASE handleFinalAck(s, p)
  <2> DEFINE u == [c EXCEPT !.state = "established", !.ackThrough = p.ack]
  <2>1. server' = [server EXCEPT ![s] = u] /\ sent' = sent /\ AckOK(p, server)
    BY <1>0, <1>1 DEF handleFinalAck
  <2> HIDE DEF c
  <2>2. /\ u \in ServerRec /\ u.peer = c.peer /\ u.pair = c.pair /\ u.ackThrough = p.ack
        /\ u.sendSeq = c.sendSeq /\ u.recvSeq = c.recvSeq
        /\ u.localMTU = c.localMTU /\ u.remoteMTU = c.remoteMTU
    BY <1>0 DEF ServerRec, ServerStates
  <2> HIDE DEF u
  <2>3. \E t \in 1 .. Len(server) : server[t].pair = u.pair /\ u.ackThrough = ServerISN(t)
    BY <2>1, <2>2 DEF AckOK, c
  <2> QED
    BY <1>0, <2>1, <2>2, <2>3, ServerConnStep DEF c
<1>2. CASE /\ server' = [server EXCEPT ![s].state = "closed"]
           /\ sent' \in {sent, sent \cup {Packet("client", p.pair, "close", s, c.peer, 0, 0, 0)}}
  <2>1. s \in Nat /\ c.peer \in Nat
    BY <1>0, PairFacts DEF ServerRec
  <2>2. PacketOK(Packet("client", p.pair, "close", s, c.peer, 0, 0, 0), server')
    BY <1>0, <2>1, PlainOK
  <2> QED
    BY <1>0, <1>2, <2>2, ServerEnds
<1> QED
  BY <1>1, <1>2 DEF serverProcess

LEMMA ServerReceivesInv ==
    ASSUME HandshakeInv, NEW p \in sent, ServerReceives(p)
    PROVE  HandshakeInv'
<1>0. /\ p \in PacketRec /\ p.pair \in Pairs /\ p.recv \in Nat /\ UNCHANGED <<client, clientTable>>
      /\ serverTable[p.pair] # 0 =>
            serverTable[p.pair] \in 1 .. Len(server) /\ server[serverTable[p.pair]].pair = p.pair
  BY DEF HandshakeInv, PacketOK, PacketRec, ServerTableOK, ServerReceives
<1>1. CASE /\ UNCHANGED <<server, serverTable>>
           /\ \/ sent' = sent \cup {resetFor(p)}
              \/ sent' = sent \cup {Packet("client", PortZero, "reset", 0, p.recv, 0, 0, 0)}
  <2>1. /\ PacketOK(resetFor(p), server)
        /\ PacketOK(Packet("client", PortZero, "reset", 0, p.recv, 0, 0, 0), server)
    BY <1>0, ResetOK, PlainOK, PairFacts
  <2>2. \A r \in sent' : PacketOK(r, server)
    BY <1>1, <2>1 DEF HandshakeInv
  <2> QED
    BY <1>0, <1>1, <2>2 DEF HandshakeInv
<1>2. CASE p.kind = "syn" /\ handleIncomingSYN(p)
  BY <1>0, <1>2, IncomingInv
<1>3. CASE /\ serverTable[p.pair] # 0 /\ serverProcess(serverTable[p.pair], p)
           /\ UNCHANGED serverTable
  BY <1>0, <1>3, ServerProcessInv
<1> QED
  BY <1>1, <1>2, <1>3 DEF ServerReceives, handleSynPacket

LEMMA ServerClosesInv ==
    ASSUME HandshakeInv, NEW s \in 1 .. Len(server), ServerCloses(s)
    PROVE  HandshakeInv'
<1> DEFINE q == Packet("client", server[s].pair, "close", s, server[s].peer, 0, 0, 0)
<1>0. server[s].pair \in Pairs /\ server[s].peer \in Nat /\ s \in Nat /\ Len(server) \in Nat
  <2>1. server[s] \in ServerRec /\ Len(server) \in Nat
    BY DEF HandshakeInv, ServerOK
  <2>2. server[s].pair \in Pairs /\ server[s].peer \in Dials
    BY <2>1 DEF ServerRec
  <2> QED
    BY <2>1, <2>2, PairFacts
<1>1. PacketOK(q, server')
  BY <1>0, PlainOK
<1>2. /\ server' = [server EXCEPT ![s].state = "closed"] /\ sent' \in {sent, sent \cup {q}}
      /\ serverTable' = [serverTable EXCEPT ![server[s].pair] = 0]
      /\ UNCHANGED <<client, clientTable>>
  BY DEF ServerCloses
<1> HIDE DEF q
<1>3. ServerTableOK(serverTable', server)
  BY <1>0, <1>2 DEF HandshakeInv, ServerTableOK
<1> QED
  BY <1>1, <1>2, <1>3, ServerEnds

-------------------------------------------------------------------------------
(* Results *)

LEMMA HandshakeInvariance == HandshakeSpec => []HandshakeInv
<1>1. HandshakeInit => HandshakeInv
  <2> SUFFICES ASSUME HandshakeInit PROVE HandshakeInv
    OBVIOUS
  <2>1. /\ DOMAIN client = Dials /\ server = <<>> /\ server \in Seq(ServerRec) /\ Len(server) = 0
        /\ sent = {} /\ ClientTableOK(clientTable) /\ ServerTableOK(serverTable, server)
    BY DEF HandshakeInit, ClientTableOK, ServerTableOK
  <2>2. ASSUME NEW a \in Dials
        PROVE  ClientOK(a, client[a], server)
    <3>1. client[a] = [state |-> "init", sendSeq |-> ClientISN(a), recvSeq |-> 0, peer |-> 0,
                       ackThrough |-> 0, localMTU |-> MTU[a], remoteMTU |-> 0]
      BY DEF HandshakeInit
    <3>2. ClientISN(a) \in Nat /\ MTU[a] \in Nat
      BY PairFacts
    <3> QED
      BY <3>1, <3>2 DEF ClientOK, ClientRec, ClientStates
  <2> QED
    BY <2>1, <2>2 DEF HandshakeInv
<1>2. HandshakeInv /\ [HandshakeNext]_handshakeVars => HandshakeInv'
  <2> SUFFICES ASSUME HandshakeInv, [HandshakeNext]_handshakeVars
               PROVE  HandshakeInv'
    OBVIOUS
  <2>1. ASSUME NEW a \in Dials,
               DialWithManager(a) \/ DialTimeout(a) \/ ClientWrites(a) \/ ClientCloses(a)
        PROVE  HandshakeInv'
    BY <2>1, DialInv, DialErrorInv, ClientWritesInv, ClientClosesInv DEF DialTimeout
  <2>2. ASSUME NEW p \in sent, ClientReceives(p) \/ ServerReceives(p)
        PROVE  HandshakeInv'
    BY <2>2, ClientReceivesInv, ServerReceivesInv
  <2>3. ASSUME NEW s \in 1 .. Len(server), ServerCloses(s)
        PROVE  HandshakeInv'
    BY <2>3, ServerClosesInv
  <2>4. CASE ListenerGone \/ UNCHANGED handshakeVars
    BY <2>4 DEF ListenerGone, handshakeVars, HandshakeInv
  <2> QED
    BY <2>1, <2>2, <2>3, <2>4 DEF HandshakeNext
<1> QED
  BY <1>1, <1>2, PTL DEF HandshakeSpec

\* However often packets are repeated and however late they come, also when a pair of
\* ports is dialled again, an established client has the numbers and the packet size of
\* a connection of the server that its own SYN made (validateSynAckAckThrough).
THEOREM ClientAlwaysAgrees == HandshakeSpec => []ClientAgrees
<1>1. HandshakeInv => ClientAgrees
  <2> SUFFICES ASSUME HandshakeInv, NEW a \in Dials, client[a].state = "established"
               PROVE  LET s == client[a].peer
                      IN  s \in 1 .. Len(server) /\ server[s].peer = a /\ Fits(client[a], server[s])
    BY DEF ClientAgrees
  <2> DEFINE c == client[a]
             s == c.peer
             d == server[s]
  <2>1. /\ c.sendSeq = ClientISN(a) + 1 /\ c.localMTU = MTU[a] /\ Linked(a, c, server)
    BY DEF HandshakeInv, ClientOK
  <2>2. s \in 1 .. Len(server) /\ d.peer = a /\ ServerOK(s, server)
    BY <2>1 DEF HandshakeInv, Linked
  <2>3. /\ c.recvSeq = ServerISN(s) + 1 /\ c.ackThrough = ClientISN(a) /\ c.remoteMTU = ServerMTU
    BY <2>1 DEF Linked
  <2>4. /\ d.sendSeq = ServerISN(s) + 1 /\ d.recvSeq = ClientISN(a) + 1
        /\ d.localMTU = ServerMTU /\ d.remoteMTU = MTU[a]
    BY <2>2 DEF ServerOK
  <2>5. ClientISN(a) \in Nat /\ MTU[a] \in Nat /\ ServerMTU \in Nat
    BY PairFacts
  <2> HIDE DEF c, d, s
  <2>6. Negotiated(c) = Negotiated(d)
    BY <2>1, <2>3, <2>4, <2>5 DEF Negotiated, Lesser
  <2>7. Fits(c, d)
    BY <2>1, <2>3, <2>4, <2>5, <2>6 DEF Fits
  <2> QED
    BY <2>2, <2>7 DEF c, d, s
<1> QED
  BY <1>1, HandshakeInvariance, PTL

\* On a pair of ports on which one SYN arrived, the acknowledgement that completed the
\* server's handshake is that of its own SYN-ACK, although the server only warns of one
\* that is not (handleFinalAck).
THEOREM ServerAlwaysAgrees == HandshakeSpec => []ServerAgrees
<1>1. HandshakeInv => ServerAgrees
  <2> SUFFICES ASSUME HandshakeInv, NEW s \in 1 .. Len(server), server[s].state = "established",
                      \A t \in 1 .. Len(server) : server[t].pair = server[s].pair => t = s
               PROVE  server[s].ackThrough = server[s].sendSeq - 1
    BY DEF ServerAgrees
  <2>1. ServerOK(s, server) /\ ServerISN(s) \in Nat
    BY PairFacts DEF HandshakeInv
  <2>2. PICK t \in 1 .. Len(server) : /\ server[t].pair = server[s].pair
                                      /\ server[s].ackThrough = ServerISN(t)
    BY <2>1 DEF ServerOK
  <2>3. server[s].ackThrough = ServerISN(s) /\ server[s].sendSeq = ServerISN(s) + 1
    BY <2>1, <2>2 DEF ServerOK
  <2> QED
    BY <2>1, <2>3
<1> QED
  BY <1>1, HandshakeInvariance, PTL
===============================================================================
