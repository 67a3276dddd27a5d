------------------------------- MODULE Listener -------------------------------
(***************************************************************************)
(* Admission of connections: one listener, the manager's table of          *)
(* connections and the limiter they share (stream.go, manager.go).         *)
(*                                                                         *)
(* The manager's processPackets goroutine handles one SYN at a time, in    *)
(* steps (syn.pc) between which the application accepts, closes, dials,    *)
(* closes the listener or changes limits.  The handler does not take l.mu. *)
(* The table is keyed by the pair of ports, here a key; the peer is no     *)
(* part of it.  Of a connection only what admission depends on is kept.    *)
(***************************************************************************)
EXTENDS Limiter

CONSTANTS
    SynKeys,             \* port pairs on which SYNs arrive
    DialKeys,            \* port pairs the application dials
    AcceptBacklog,       \* capacity of acceptChan
    MaxConns             \* bound on connections ever created

Keys == SynKeys \cup DialKeys
None == 0                \* no connection; connections are numbered from 1

ASSUME ListenerAssumption ==
    AcceptBacklog \in Nat \ {0} /\ MaxConns \in Nat

VARIABLES
    conns,               \* every StreamConn ever created, in order
    table,               \* sm.connections: key -> connection or None
    listening,           \* ~l.closed, and the listener is in sm.listeners
    acceptChan,          \* queued connections
    accepting,           \* an Accept has passed its check of l.closed
    syn,                 \* the SYN processPackets is working on
    panicked             \* a send on a closed channel has ended the program

listenerVars == <<listening, acceptChan, accepting>>
vars == <<limiterVars, conns, table, listenerVars, syn, panicked>>

Conn == 1 .. Len(conns)
Idle == [pc |-> "idle", src |-> NoPeer, key |-> None, conn |-> None]

Init ==
    /\ LimiterInit
    /\ conns = <<>>
    /\ table = [k \in Keys |-> None]
    /\ listening = TRUE
    /\ acceptChan = <<>>
    /\ accepting = FALSE
    /\ syn = Idle
    /\ panicked = FALSE

\* running: receiveLoop has been started and conn.cancel has not been called;
\* held: the application has it, from Accept or from Dial; dialling: Dial has not
\* returned.
NewConn(incoming, k) ==
    [incoming |-> incoming, key |-> k, closed |-> FALSE, running |-> FALSE,
     held |-> FALSE, dialling |-> ~incoming]

RegisterConnection(k, c) == [table EXCEPT ![k] = c]

\* Slip: the remote port is not looked at.
UnregisterLocalPort(k) == [x \in Keys |-> None]

UnregisterConnection(k) == [table EXCEPT ![k] = None]
------------------------------------------------------------------------------
(* handleSynPacket, handleIncomingSYN *)

\* The listener is looked up; a SYN without one is answered with RESET, one that
\* the access filter refuses too, and nothing changes.
SynArrives(src, k) ==
    /\ syn = Idle /\ listening
    /\ syn' = [pc |-> "limits", src |-> src, key |-> k, conn |-> None]
    /\ UNCHANGED <<limiterVars, conns, table, listenerVars, panicked>>

checkConnectionLimits ==
    /\ syn.pc = "limits"
    /\ \/ Refuse(syn.src) /\ syn' = Idle
       \/ Record(syn.src) /\ syn' = [syn EXCEPT !.pc = "validate"]
    /\ UNCHANGED <<conns, table, listenerVars, panicked>>

\* No source, a bad signature or replayed NACKs, or creation fails.
validateFails ==
    /\ syn.pc = "validate"
    /\ syn' = Idle
    /\ UNCHANGED <<limiterVars, conns, table, listenerVars, panicked>>

\* The connection is created and registered before the SYN-ACK is sent.
createIncomingConnection ==
    /\ syn.pc = "validate" /\ Len(conns) < MaxConns
    /\ conns' = Append(conns, NewConn(TRUE, syn.key))
    /\ table' = RegisterConnection(syn.key, Len(conns) + 1)
    /\ syn' = [syn EXCEPT !.pc = "synack", !.conn = Len(conns) + 1]
    /\ UNCHANGED <<limiterVars, listenerVars, panicked>>

sendSynAckFails ==
    /\ syn.pc = "synack"
    /\ table' = UnregisterConnection(syn.key)
    /\ syn' = Idle
    /\ UNCHANGED <<limiterVars, conns, listenerVars, panicked>>

sendSynAck ==
    /\ syn.pc = "synack"
    /\ conns' = [conns EXCEPT ![syn.conn].running = ~conns[syn.conn].closed]
    /\ syn' = [syn EXCEPT !.pc = "queue"]
    /\ UNCHANGED <<limiterVars, table, listenerVars, panicked>>

\* The send does not block; on a channel that Close has closed it panics.
queueConnectionForAccept ==
    /\ syn.pc = "queue"
    /\ \/ /\ listening /\ Len(acceptChan) < AcceptBacklog
          /\ acceptChan' = Append(acceptChan, syn.conn)
          /\ UNCHANGED <<conns, table, panicked>>
       \/ /\ listening /\ Len(acceptChan) = AcceptBacklog
          /\ conns' = [conns EXCEPT ![syn.conn].running = FALSE]
          /\ table' = UnregisterConnection(syn.key)
          /\ UNCHANGED <<acceptChan, panicked>>
       \/ /\ ~listening
          /\ panicked' = TRUE
          /\ UNCHANGED <<conns, table, acceptChan>>
    /\ syn' = Idle
    /\ UNCHANGED <<limiterVars, listening, accepting>>
------------------------------------------------------------------------------
(* The application *)

AcceptCall ==
    /\ listening /\ ~accepting
    /\ accepting' = TRUE
    /\ UNCHANGED <<limiterVars, conns, table, listening, acceptChan, syn, panicked>>

AcceptReturns ==
    /\ accepting
    /\ \/ /\ acceptChan # <<>>
          /\ conns' = [conns EXCEPT ![Head(acceptChan)].held = TRUE]
          /\ acceptChan' = Tail(acceptChan)
       \/ /\ acceptChan = <<>> /\ ~listening
          /\ UNCHANGED <<conns, acceptChan>>
    /\ accepting' = FALSE
    /\ UNCHANGED <<limiterVars, table, listening, syn, panicked>>

ListenerClose ==
    /\ listening
    /\ listening' = FALSE
    /\ UNCHANGED <<limiterVars, conns, table, acceptChan, accepting, syn, panicked>>

\* DialWithManager registers the connection and then performs the handshake; the
\* limiter is not asked.
Dial(k) ==
    /\ Len(conns) < MaxConns
    /\ conns' = Append(conns, NewConn(FALSE, k))
    /\ table' = RegisterConnection(k, Len(conns) + 1)
    /\ UNCHANGED <<limiterVars, listenerVars, syn, panicked>>

DialSucceeds(c) ==
    /\ conns[c].dialling
    /\ conns' = [conns EXCEPT ![c].dialling = FALSE, ![c].held = TRUE,
                              ![c].running = ~conns[c].closed]
    /\ UNCHANGED <<limiterVars, table, listenerVars, syn, panicked>>

\* Error or timeout: Dial returns no connection, the application will not close it.
DialFails(c) ==
    /\ conns[c].dialling
    /\ conns' = [conns EXCEPT ![c].dialling = FALSE]
    /\ table' = UnregisterConnection(conns[c].key)
    /\ UNCHANGED <<limiterVars, listenerVars, syn, panicked>>

\* Close and cleanupConnectionLocked: by the application, or by closeAllConnections
\* (the session is destroyed), which has closed the listeners before.
cleanupConnection(c) ==
    /\ table' = UnregisterConnection(conns[c].key)
    /\ activeStreams' = ConnectionClosed

ConnClose(c) ==
    /\ ~conns[c].closed
    /\ conns[c].held \/ (table[conns[c].key] = c /\ ~listening)
    /\ conns' = [conns EXCEPT ![c].closed = TRUE, ![c].running = FALSE]
    /\ cleanupConnection(c)
    /\ UNCHANGED <<now, config, totalHistory, peerHistory, admitted,
                   listenerVars, syn, panicked>>

\* Slip: Close of a connection that is closed cleans up again.
ConnCloseAgainCounts(c) ==
    /\ conns[c].closed /\ conns[c].held
    /\ cleanupConnection(c)
    /\ UNCHANGED <<now, config, totalHistory, peerHistory, admitted, conns,
                   listenerVars, syn, panicked>>

\* Close of a connection that is closed returns at once.
ConnCloseAgain(c) ==
    /\ conns[c].closed /\ conns[c].held
    /\ UNCHANGED vars

\* handleCloseLocked, handleResetLocked: a packet in recvChan, routed to c now or
\* earlier, closes it; it stays in the table and in the limiter's count.
PeerCloses(c) ==
    /\ conns[c].running /\ ~conns[c].closed
    /\ conns' = [conns EXCEPT ![c].closed = TRUE]
    /\ UNCHANGED <<limiterVars, table, listenerVars, syn, panicked>>

LimiterStep ==
    /\ CleanupStaleHistory \/ SetConfig \/ Tick
    /\ UNCHANGED <<conns, table, listenerVars, syn, panicked>>

Next ==
    /\ ~panicked
    /\ \/ \E src \in Source, k \in SynKeys : SynArrives(src, k)
       \/ checkConnectionLimits
       \/ validateFails
       \/ createIncomingConnection
       \/ sendSynAckFails
       \/ sendSynAck
       \/ queueConnectionForAccept
       \/ AcceptCall
       \/ AcceptReturns
       \/ ListenerClose
       \/ \E k \in DialKeys : Dial(k)
       \/ \E c \in Conn : DialSucceeds(c)
       \/ \E c \in Conn : DialFails(c)
       \/ \E c \in Conn : ConnClose(c)
       \/ \E c \in Conn : ConnCloseAgain(c)
       \/ \E c \in Conn : PeerCloses(c)
       \/ LimiterStep

Spec == Init /\ [][Next]_vars
------------------------------------------------------------------------------
\* Type correctness of the limiter, the listener and the table; activeStreams
\* never becomes negative and the accept queue keeps its capacity.
TypeOK ==
    /\ LimiterTypeOK
    /\ conns \in Seq([incoming : BOOLEAN, key : Keys, closed : BOOLEAN,
                      running : BOOLEAN, held : BOOLEAN, dialling : BOOLEAN])
    /\ table \in [Keys -> {None} \cup Conn]
    /\ listening \in BOOLEAN /\ accepting \in BOOLEAN /\ panicked \in BOOLEAN
    /\ acceptChan \in Seq(Conn) /\ Len(acceptChan) <= AcceptBacklog
    /\ syn.pc \in {"idle", "limits", "validate", "synack", "queue"}

\* Connections of the application, or on the way to it, that are not closed.
Open(c) == /\ ~conns[c].closed
           /\ \/ conns[c].held
              \/ \E i \in DOMAIN acceptChan : acceptChan[i] = c
              \/ syn.conn = c
OpenIncoming == {c \in Conn : Open(c) /\ conns[c].incoming}
OpenConns == {c \in Conn : Open(c)}

\* The limiter never counts fewer streams than there are open incoming ones, but
\* for those that closing a dialled stream has un-counted: however SYN handling,
\* Accept, Close and the peer's CLOSE interleave, no stream is released twice
\* (cleanupConnectionLocked).  While nothing is dialled, MaxConcurrentStreams
\* therefore bounds the incoming streams that are open.
NeverUndercounts ==
    Cardinality(OpenIncoming)
       <= activeStreams + Cardinality({c \in Conn : ~conns[c].incoming /\ conns[c].closed})

\* activeStreams is "the current number of active streams" (ActiveStreams): it
\* never counts more than are open or being admitted.
ActiveIsOpen ==
    activeStreams <= Cardinality(OpenIncoming)
                       + (IF syn.pc = "validate" THEN 1 ELSE 0)

\* MaxConcurrentStreams is the limit "for incoming and outgoing streams combined".
CombinedLimit ==
    config.streams > 0 => Cardinality(OpenConns) <= config.streams

\* Close "stops the listener and rejects new connections": a SYN that is being
\* handled meanwhile does not bring the program down.
CloseRejects == ~panicked

\* Packets for an open connection the application holds are routed to it, unless another
\* connection was made on the same pair of ports: no failed Dial, full queue, refused
\* SYN or Close of a connection elsewhere takes its entry from the table.
RouteLostOnlyByClash ==
    \A c \in Conn : conns[c].held /\ ~conns[c].closed =>
        \/ table[conns[c].key] = c
        \/ \E d \in Conn \ {c} : conns[d].key = conns[c].key

\* The table's key "uniquely identifies a connection" (connKey): packets for an open
\* connection the application holds are routed to it.
HeldIsRouted ==
    \A c \in Conn : conns[c].held /\ ~conns[c].closed => table[conns[c].key] = c
===============================================================================
