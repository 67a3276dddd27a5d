------------------------------- MODULE Handshake -------------------------------
(***************************************************************************)
(* The three-way handshake between the manager of a client, which dials    *)
(* several times, and the manager of a server with one listener, over a    *)
(* network that loses, repeats and reorders (stream.go, manager.go).       *)
(*                                                                         *)
(* A client's connection is the number of its Dial, a server's the number  *)
(* of its creation; each is also its stream ID.  Initial sequence numbers  *)
(* are random, here all different.  A packet is handled in the step that   *)
(* routes it: between the two it waits in recvChan of one connection,      *)
(* which no other step looks at.  Admission is in Listener, signatures in  *)
(* PacketCodec, what an established connection does in StreamConn.         *)
(***************************************************************************)
EXTENDS Naturals, FiniteSets, Sequences

CONSTANTS
    Dials,               \* the Dial calls, 1 .. n
    PortPair,            \* PortPair[a]: the pair of ports Dial a uses
    MTU,                 \* MTU[a]: the client's MTU in Dial a
    ServerMTU,
    MaxIncoming          \* bound: connections the server creates

ASSUME HandshakeAssumption ==
    /\ Dials \subseteq Nat \ {0}
    /\ ServerMTU \in Nat /\ \A a \in Dials : MTU[a] \in Nat

VARIABLES
    client,              \* Dial -> its connection
    clientTable,         \* connections of the client's manager: port pair -> Dial, or 0
    server,              \* the server's connections, in order
    serverTable,         \* connections of the server's manager: port pair -> index, or 0
    hasListener,         \* the listener is registered
    sent                 \* every packet ever sent; any may arrive, any number of times

handshakeVars == <<client, clientTable, server, serverTable, hasListener, sent>>

PortZero == "port 0"     \* the pair with the port that a refusal is sent to
Pairs == {PortPair[a] : a \in Dials} \cup {PortZero}
ClientISN(a) == 10 * a
ServerISN(s) == 10 * s + 5

Packet(to, pair, kind, send, recv, seq, ack, mtu) ==
    [to |-> to, pair |-> pair, kind |-> kind, send |-> send, recv |-> recv,
     seq |-> seq, ack |-> ack, mtu |-> mtu]

Lesser(x, y) == IF x < y THEN x ELSE y
\* getNegotiatedMTU
Negotiated(c) == Lesser(c.localMTU, c.remoteMTU)

HandshakeInit ==
    /\ client = [a \in Dials |-> [state |-> "init", sendSeq |-> ClientISN(a), recvSeq |-> 0,
                                  peer |-> 0, ackThrough |-> 0,
                                  localMTU |-> MTU[a], remoteMTU |-> 0]]
    /\ clientTable = [k \in Pairs |-> 0]
    /\ server = <<>>
    /\ serverTable = [k \in Pairs |-> 0]
    /\ hasListener = TRUE
    /\ sent = {}

\* createResetPacket: it names the stream ID the packet it answers was sent under.
resetFor(p) ==
    Packet(IF p.to = "server" THEN "client" ELSE "server", p.pair, "reset", 0, p.send, 0, 0, 0)
------------------------------------------------------------------------------
(* The client *)

\* DialWithManager registers the connection before it sends the SYN.  The application
\* does not dial a pair of ports it is using.
DialWithManager(a) ==
    /\ client[a].state = "init"
    /\ \A b \in Dials : PortPair[b] = PortPair[a] => client[b].state \notin {"synSent", "established"}
    /\ \/ /\ client' = [client EXCEPT ![a].state = "synSent", ![a].sendSeq = @ + 1]
          /\ clientTable' = [clientTable EXCEPT ![PortPair[a]] = a]
          /\ sent' = sent \cup {Packet("server", PortPair[a], "syn", 0, a, ClientISN(a), 0, MTU[a])}
       \/ /\ client' = [client EXCEPT ![a].state = "failed"]
          /\ clientTable' = [clientTable EXCEPT ![PortPair[a]] = 0]
          /\ UNCHANGED sent
    /\ UNCHANGED <<server, serverTable, hasListener>>

DialError(a) ==
    /\ client' = [client EXCEPT ![a].state = "failed"]
    /\ clientTable' = [clientTable EXCEPT ![PortPair[a]] = 0]
    /\ UNCHANGED sent

\* Slip: any SYN-ACK on the ports is taken.
validateAnySynAck(a, p) == TRUE

validateSynAckAckThrough(a, p) == p.ack = client[a].sendSeq - 1

\* Slip: the number that is expected next is acknowledged.
sendACKNext(c) == c.recvSeq

\* sendACK, as the number it acknowledges: that of the SYN-ACK.
sendACK(c) == c.recvSeq - 1

processSynAck(a, p) ==
    [client[a] EXCEPT !.state = "established", !.recvSeq = p.seq + 1, !.peer = p.send,
                      !.ackThrough = p.ack, !.remoteMTU = p.mtu]

\* waitForSynAck, while receiveLoop does not run yet: what is no SYN-ACK is ignored, a
\* RESET too; a SYN-ACK that does not fit ends the Dial.  Sending the ACK may fail.
waitForSynAck(a, p) ==
    /\ p.kind = "synack"
    /\ \/ /\ validateSynAckAckThrough(a, p)
          /\ client' = [client EXCEPT ![a] = processSynAck(a, p)]
          /\ sent' = sent \cup {Packet("server", p.pair, "ack", a, p.send, 0,
                                       sendACK(processSynAck(a, p)), 0)}
          /\ UNCHANGED clientTable
       \/ DialError(a)

\* receiveLoop: a second SYN-ACK is an error; CLOSE and RESET leave the table as it is.
clientProcess(a, p) ==
    /\ p.kind \in {"close", "reset"}
    /\ client' = [client EXCEPT ![a].state = "closed"]
    /\ sent' = IF p.kind = "close"
                 THEN sent \cup {Packet("server", p.pair, "close", a, client[a].peer, 0, 0, 0)}
                 ELSE sent
    /\ UNCHANGED clientTable

ClientReceives(p) ==
    /\ p.to = "client"
    /\ LET a == clientTable[p.pair]
       IN  \/ /\ a = 0
              /\ sent' = sent \cup {resetFor(p)}
              /\ UNCHANGED <<client, clientTable>>
           \/ a # 0 /\ client[a].state = "synSent" /\ waitForSynAck(a, p)
           \/ a # 0 /\ client[a].state = "established" /\ clientProcess(a, p)
    /\ UNCHANGED <<server, serverTable, hasListener>>

DialTimeout(a) ==
    /\ client[a].state = "synSent"
    /\ DialError(a)
    /\ UNCHANGED <<server, serverTable, hasListener>>

\* Data carries the same acknowledgement as the ACK.
ClientWrites(a) ==
    /\ client[a].state = "established"
    /\ sent' = sent \cup {Packet("server", PortPair[a], "data", a, client[a].peer,
                                 client[a].sendSeq, sendACK(client[a]), 0)}
    /\ UNCHANGED <<client, clientTable, server, serverTable, hasListener>>

ClientCloses(a) ==
    /\ client[a].state = "established"
    /\ client' = [client EXCEPT ![a].state = "closed"]
    /\ clientTable' = [clientTable EXCEPT ![PortPair[a]] = 0]
    /\ sent' = sent \cup {Packet("server", PortPair[a], "close", a, client[a].peer, 0, 0, 0)}
    /\ UNCHANGED <<server, serverTable, hasListener>>
------------------------------------------------------------------------------
(* The server *)

\* initConnectionState, after sendSynAck has taken a number.
incomingConnection(p) ==
    LET s == Len(server) + 1
    IN  [state |-> "synRcvd", sendSeq |-> ServerISN(s) + 1, recvSeq |-> p.seq + 1,
         peer |-> p.recv, ackThrough |-> 0, localMTU |-> ServerMTU, remoteMTU |-> p.mtu,
         pair |-> p.pair]

\* Every SYN makes a connection and takes the place in the table, a repeated one too.
\* The SYN-ACK may not be sent, or the accept queue be full after it was.
handleIncomingSYN(p) ==
    LET s == Len(server) + 1
        c == incomingConnection(p)
        synAck == Packet("client", p.pair, "synack", s, p.recv, ServerISN(s), c.recvSeq - 1,
                         ServerMTU)
    IN  /\ s <= MaxIncoming
        /\ \/ /\ server' = Append(server, c)
              /\ serverTable' = [serverTable EXCEPT ![p.pair] = s]
              /\ sent' = sent \cup {synAck}
           \/ /\ server' = Append(server, [c EXCEPT !.state = "closed"])
              /\ serverTable' = [serverTable EXCEPT ![p.pair] = 0]
              /\ sent' \in {sent, sent \cup {synAck}}

\* A refused SYN is answered to port 0, one without a listener to its own port.
handleSynPacket(p) ==
    \/ hasListener /\ handleIncomingSYN(p)
    \/ /\ hasListener
       /\ sent' = sent \cup {Packet("client", PortZero, "reset", 0, p.recv, 0, 0, 0)}
       /\ UNCHANGED <<server, serverTable>>
    \/ /\ ~hasListener
       /\ sent' = sent \cup {resetFor(p)}
       /\ UNCHANGED <<server, serverTable>>

\* A number that does not match is only worth a warning; a payload is dropped.
handleFinalAck(s, p) ==
    /\ server[s].state = "synRcvd"
    /\ p.kind \in {"ack", "data"}
    /\ server' = [server EXCEPT ![s].state = "established", ![s].ackThrough = p.ack]
    /\ UNCHANGED sent

\* CLOSE is for an established connection; RESET for any, whatever stream ID it names.
serverProcess(s, p) ==
    \/ handleFinalAck(s, p)
    \/ /\ p.kind = "close" /\ server[s].state = "established"
       /\ server' = [server EXCEPT ![s].state = "closed"]
       /\ sent' = sent \cup {Packet("client", p.pair, "close", s, server[s].peer, 0, 0, 0)}
    \/ /\ p.kind = "reset"
       /\ server' = [server EXCEPT ![s].state = "closed"]
       /\ UNCHANGED sent

ServerReceives(p) ==
    /\ p.to = "server"
    /\ \/ p.kind = "syn" /\ handleSynPacket(p)
       \/ /\ p.kind # "syn" /\ serverTable[p.pair] = 0
          /\ sent' = sent \cup {resetFor(p)}
          /\ UNCHANGED <<server, serverTable>>
       \/ /\ p.kind # "syn" /\ serverTable[p.pair] # 0
          /\ serverProcess(serverTable[p.pair], p)
          /\ UNCHANGED serverTable
    /\ UNCHANGED <<client, clientTable, hasListener>>

\* Close tells the peer only when established, and empties the table's place.
ServerCloses(s) ==
    /\ server[s].state \in {"synRcvd", "established"}
    /\ server' = [server EXCEPT ![s].state = "closed"]
    /\ serverTable' = [serverTable EXCEPT ![server[s].pair] = 0]
    /\ sent' = IF server[s].state = "established"
                 THEN sent \cup {Packet("client", server[s].pair, "close", s, server[s].peer, 0, 0, 0)}
                 ELSE sent
    /\ UNCHANGED <<client, clientTable, hasListener>>

ListenerGone ==
    /\ hasListener
    /\ hasListener' = FALSE
    /\ UNCHANGED <<client, clientTable, server, serverTable, sent>>

HandshakeNext ==
    \/ \E a \in Dials : \/ DialWithManager(a) \/ DialTimeout(a)
                        \/ ClientWrites(a) \/ ClientCloses(a)
    \/ \E p \in sent : ClientReceives(p) \/ ServerReceives(p)
    \/ \E s \in 1..Len(server) : ServerCloses(s)
    \/ ListenerGone

HandshakeSpec == HandshakeInit /\ [][HandshakeNext]_handshakeVars
------------------------------------------------------------------------------
\* The ends fit: next to send here is next to receive there, the same packet size.
Fits(c, s) ==
    /\ c.sendSeq = s.recvSeq /\ s.sendSeq = c.recvSeq
    /\ c.ackThrough = c.sendSeq - 1
    /\ Negotiated(c) = Negotiated(s)

\* "This confirms they received our SYN packet and prevents accepting SYN-ACKs from
\* unrelated connections": an established client, after any repetition and delay and
\* with port pairs used again, has the numbers of a connection made by its own SYN, the
\* ones StreamConn starts from.
ClientAgrees ==
    \A a \in Dials : client[a].state = "established" =>
        LET s == client[a].peer
        IN  s \in 1..Len(server) /\ server[s].peer = a /\ Fits(client[a], server[s])

\* "the client's ACK acknowledges our SYN-ACK (with AckThrough = our ISN)": so it is on
\* a pair of ports on which one SYN arrived, whoever else has dialled them.
ServerAgrees ==
    \A s \in 1..Len(server) :
        /\ server[s].state = "established"
        /\ \A t \in 1..Len(server) : server[t].pair = server[s].pair => t = s
        => server[s].ackThrough = server[s].sendSeq - 1

\* The same on any pair of ports.
FinalAckMatches ==
    \A s \in 1..Len(server) :
        server[s].state = "established" => server[s].ackThrough = server[s].sendSeq - 1

\* "RecvStreamID: The sender's stream ID (so they know which connection to reset)": a
\* connection that is being set up or in use ends by a RESET that names it.
ResetEndsTheNamed ==
    [][\A s \in 1..Len(server), p \in sent :
          ServerReceives(p) /\ p.kind = "reset" /\ server'[s].state # server[s].state
             => p.recv = s]_handshakeVars

\* A RESET is not answered by a RESET.
ResetNotAnswered ==
    [][\A p \in sent : p.kind = "reset" /\ (ClientReceives(p) \/ ServerReceives(p)) => sent' = sent]_handshakeVars
===============================================================================
