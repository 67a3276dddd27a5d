------------------------------ MODULE StreamConn ------------------------------
(***************************************************************************)
(* The data plane of one stream connection of go-streaming: the two        *)
(* StreamConn structs at its ends and the packets between them, from the   *)
(* moment the client's final handshake ACK is in flight (stream.go).       *)
(*                                                                         *)
(* Every handler of the code runs under s.mu, so a handler is one action.  *)
(* Write is the exception: it gives up s.mu while it waits for window      *)
(* space, so it is a chain of one-chunk actions between which nothing else *)
(* of that end may run (Locked).  The network keeps every packet ever sent *)
(* and hands over any of them at any time, any number of times or never:   *)
(* loss, duplication, delay and reordering, the manager's and the          *)
(* connection's bounded queues included (a full queue is a loss).          *)
(*                                                                         *)
(* One data packet fills one unit of the receive buffer; a chunk's content *)
(* is a number that is unique to it, a probe's content is ProbeByte.       *)
(* Time is nondeterministic: a timer that is armed may fire.               *)
(***************************************************************************)
EXTENDS SeqNum, Sequences, SequencesExt, FiniteSets

CONSTANTS
    ISN,                      \* ISN[e]: initial sequence number of end e
    MaxSent,                  \* MaxSent[e]: bound on chunks and probes e sends
    MaxWriteChunks,           \* bound on the chunks of one Write
    DefaultWindowSize, MaxWindowSize, FastRetransmitThreshold,
    MaxRetransmissions, MaxNACKs,
    BufSize,                  \* receive buffer, in packets
    SendMayFail,              \* may session.SendMessage return an error?
    StatusReports,            \* does the router report message status?
    Closers                   \* ends whose application calls Close

End == {"client", "server"}
Peer(e) == IF e = "client" THEN "server" ELSE "client"

ASSUME ConstantsAssumption ==
    /\ ISN \in [End -> SeqNums]
    /\ MaxSent \in [End -> Nat]
    /\ \A e \in End : MaxSent[e] + 1 < Half
    /\ MaxWriteChunks \in Nat \ {0}
    /\ DefaultWindowSize \in Nat \ {0} /\ MaxWindowSize \in Nat \ {0, 1}
    /\ DefaultWindowSize <= MaxWindowSize
    /\ FastRetransmitThreshold \in Nat \ {0}
    /\ MaxRetransmissions \in Nat /\ MaxNACKs \in Nat /\ BufSize \in Nat \ {0}
    /\ SendMayFail \in BOOLEAN /\ StatusReports \in BOOLEAN
    /\ Closers \subseteq End

NoPayload == -1          \* len(pkt.Payload) = 0
ProbeByte == 0           \* []byte{0}, the payload of a probe
Chunk == Nat \ {0}       \* MTU-sized pieces of what the application writes
Payload == Chunk \cup {ProbeByte}

Packet == [src : End, flag : {"NONE", "CLOSE", "RESET"}, seq : SeqNums,
           ack : SeqNums, nacks : SUBSET SeqNums,
           delay : {"NONE", "CHOKE", "UNCHOKE"}, pay : Payload \cup {NoPayload}]

VARIABLES
    \* connection state
    state,               \* "SYN_RCVD", "ESTABLISHED", "CLOSING", "CLOSED"
    closed,              \* s.closed
    registered,          \* in the manager's table and s.ctx not cancelled
    queued,              \* packets that may sit in s.recvChan after Close
    timer,               \* retransmitTimer: "off", "running", "closing", "done"
    \* sender
    sendSeq, ackThrough, sentPackets, nackCounts, cwnd, ssthresh,
    choked,              \* s.choked
    chokeHold,           \* time.Now() is before s.chokedUntil
    persist,             \* s.persistTimer # nil
    writer,              \* "idle", "sending" (holds s.mu), "waiting", "woken"
    writeLeft,           \* chunks the current Write has still to send
    \* receiver
    recvSeq, outOfOrderPackets, nackList, recvBuf, sendingChoke,
    lastBufferCheck,
    \* environment and history
    network,             \* every packet ever handed to the router
    used,                \* chunks and probes an end has tried to send
    sentLog,             \* payloads by sequence number, from ISN + 1 on
    recvLog,             \* payloads accepted into the receive buffer
    readLog              \* payloads the application has read

lifeVars == <<state, closed, registered, queued, timer>>
sendVars == <<sendSeq, ackThrough, sentPackets, nackCounts, cwnd, ssthresh>>
flowVars == <<choked, chokeHold, persist>>
writeVars == <<writer, writeLeft>>
recvVars == <<recvSeq, outOfOrderPackets, nackList, recvBuf, sendingChoke,
              lastBufferCheck>>
histVars == <<used, sentLog, recvLog, readLog>>
vars == <<lifeVars, sendVars, flowVars, writeVars, recvVars, network, histVars>>

-------------------------------------------------------------------------------
(* Packets *)

\* A packet without payload and flags: sequence number 0 makes it a plain ACK.
AckPacket(e, rseq, nacks, delay) ==
    [src |-> e, flag |-> "NONE", seq |-> 0, ack |-> seqPrev(rseq),
     nacks |-> nacks, delay |-> delay, pay |-> NoPayload]

\* Slip: the number of the packet expected next is acknowledged.
DataPacketAcksNext(e, seq, rseq, pay) ==
    [src |-> e, flag |-> "NONE", seq |-> seq, ack |-> rseq,
     nacks |-> {}, delay |-> "NONE", pay |-> pay]

DataPacket(e, seq, rseq, pay) ==
    [src |-> e, flag |-> "NONE", seq |-> seq, ack |-> seqPrev(rseq),
     nacks |-> {}, delay |-> "NONE", pay |-> pay]

ClosePacket(e) ==
    [src |-> e, flag |-> "CLOSE", seq |-> sendSeq[e], ack |-> seqPrev(recvSeq[e]),
     nacks |-> {}, delay |-> "NONE", pay |-> NoPayload]

ResetPacket(e) ==
    [src |-> e, flag |-> "RESET", seq |-> 0, ack |-> 0,
     nacks |-> {}, delay |-> "NONE", pay |-> NoPayload]

\* The client has processed the SYN-ACK and sent its final ACK; the server has
\* sent its SYN-ACK and waits in SYN_RCVD with ackThrough still zero.
Init ==
    /\ state = [e \in End |-> IF e = "client" THEN "ESTABLISHED" ELSE "SYN_RCVD"]
    /\ closed = [e \in End |-> FALSE]
    /\ registered = [e \in End |-> TRUE]
    /\ queued = [e \in End |-> {}]
    /\ timer = [e \in End |-> IF e = "client" THEN "running" ELSE "off"]
    /\ sendSeq = [e \in End |-> seqAdd(ISN[e], 1)]
    /\ ackThrough = [e \in End |-> IF e = "client" THEN ISN[e] ELSE 0]
    /\ sentPackets = [e \in End |-> <<>>]
    /\ nackCounts = [e \in End |-> [s \in SeqNums |-> 0]]
    /\ cwnd = [e \in End |-> DefaultWindowSize]
    /\ ssthresh = [e \in End |-> MaxWindowSize]
    /\ choked = [e \in End |-> FALSE]
    /\ chokeHold = [e \in End |-> FALSE]
    /\ persist = [e \in End |-> FALSE]
    /\ writer = [e \in End |-> "idle"]
    /\ writeLeft = [e \in End |-> 0]
    /\ recvSeq = [e \in End |-> seqAdd(ISN[Peer(e)], 1)]
    /\ outOfOrderPackets = [e \in End |-> <<>>]
    /\ nackList = [e \in End |-> {}]
    /\ recvBuf = [e \in End |-> [data |-> <<>>, written |-> 0]]
    /\ sendingChoke = [e \in End |-> FALSE]
    /\ lastBufferCheck = [e \in End |-> 0]
    /\ network = {AckPacket("client", seqAdd(ISN["server"], 1), {}, "NONE")}
    /\ used = [e \in End |-> 0]
    /\ sentLog = [e \in End |-> <<>>]
    /\ recvLog = [e \in End |-> <<>>]
    /\ readLog = [e \in End |-> <<>>]

-------------------------------------------------------------------------------
(* Sender *)

\* A Write that is not waiting holds s.mu: nothing else of that end can run.
Locked(e) == writer[e] = "sending"

\* Slip: the broadcast is left out.
WokenNever(w) == w

\* sendCond.Broadcast.
Woken(w) == IF w = "waiting" THEN "woken" ELSE w

inFlight(e) == Cardinality(DOMAIN sentPackets[e])

\* Slip: a packet that is resent is not counted as a retry.
bumpForgets(info) == info

\* retryCount++, saturating above the last value the code tells apart.
bump(info) == [info EXCEPT !.retryCount =
                  IF @ > MaxRetransmissions THEN @ ELSE @ + 1]

validateWriteState(e) == ~closed[e] /\ state[e] = "ESTABLISHED"

\* waitForChokeCondVar: what ends the wait of a Write that the peer chokes.
chokeWaitOver(e) == ~(choked[e] /\ chokeHold[e])

\* Write(data) of n chunks: refused unless established and open, and held back
\* while the peer chokes us, but only here, before the first chunk.
Write(e, n) ==
    /\ writer[e] = "idle" /\ validateWriteState(e) /\ chokeWaitOver(e)
    /\ used[e] + n <= MaxSent[e]
    /\ writer' = [writer EXCEPT ![e] = "sending"]
    /\ writeLeft' = [writeLeft EXCEPT ![e] = n]
    /\ UNCHANGED <<lifeVars, sendVars, flowVars, recvVars, network, histVars>>

\* trackPacketForRetransmission.
track(tracked, pkt) ==
    [s \in DOMAIN tracked \cup {pkt.seq} |->
        IF s = pkt.seq THEN [pkt |-> pkt, retryCount |-> 0] ELSE tracked[s]]

\* sendDataChunk: the packet is tracked before it is handed to the router.
\* When the router refuses it Write returns, the number stays unused and the
\* tracked packet stays behind.
WriteChunk(e) ==
    /\ Locked(e) /\ inFlight(e) < cwnd[e]
    /\ LET pkt == DataPacket(e, sendSeq[e], recvSeq[e], used[e] + 1)
       IN  /\ sentPackets' = [sentPackets EXCEPT ![e] = track(@, pkt)]
           /\ used' = [used EXCEPT ![e] = @ + 1]
           /\ \/ /\ network' = network \cup {pkt}
                 /\ sendSeq' = [sendSeq EXCEPT ![e] = seqAdd(@, 1)]
                 /\ sentLog' = [sentLog EXCEPT ![e] = Append(@, pkt.pay)]
                 /\ writeLeft' = [writeLeft EXCEPT ![e] = @ - 1]
                 /\ writer' = [writer EXCEPT ![e] =
                                  IF writeLeft[e] = 1 THEN "idle" ELSE "sending"]
              \/ /\ SendMayFail
                 /\ writer' = [writer EXCEPT ![e] = "idle"]
                 /\ writeLeft' = [writeLeft EXCEPT ![e] = 0]
                 /\ UNCHANGED <<network, sendSeq, sentLog>>
    /\ UNCHANGED <<lifeVars, ackThrough, nackCounts, cwnd, ssthresh, flowVars,
                   recvVars, recvLog, readLog>>

\* waitForWindowSpace: the window is full, Write sleeps on sendCond.
WindowWait(e) ==
    /\ Locked(e) /\ inFlight(e) >= cwnd[e]
    /\ writer' = [writer EXCEPT ![e] = "waiting"]
    /\ UNCHANGED <<lifeVars, sendVars, flowVars, writeLeft, recvVars, network,
                   histVars>>

\* Write wakes: it goes on, or fails because the connection is no longer open,
\* or (waiting or woken) because its deadline has passed.
WriteResume(e) ==
    /\ writer[e] = "woken" /\ validateWriteState(e)
    /\ writer' = [writer EXCEPT ![e] = "sending"]
    /\ UNCHANGED <<lifeVars, sendVars, flowVars, writeLeft, recvVars, network,
                   histVars>>

WriteAbort(e) ==
    /\ writer[e] \in {"waiting", "woken"}
    /\ writer' = [writer EXCEPT ![e] = "idle"]
    /\ writeLeft' = [writeLeft EXCEPT ![e] = 0]
    /\ UNCHANGED <<lifeVars, sendVars, flowVars, recvVars, network, histVars>>

\* The packets the router accepts of those a handler resends.
Accepted(S) == IF SendMayFail THEN SUBSET S ELSE {S}

\* Slip: slow start doubles without looking at the threshold.
GrowWindowUncapped(w, ss) == IF w < ss THEN 2 * w ELSE w + 1

\* updateCongestionWindow.
GrowWindow(w, ss) ==
    IF w < ss THEN (IF 2 * w <= ss THEN 2 * w ELSE ss)
              ELSE (IF w + 1 <= MaxWindowSize THEN w + 1 ELSE MaxWindowSize)

\* reduceCongestionWindowLocked: half the window, at least two packets.
HalveWindow(w) == IF w \div 2 >= 2 THEN w \div 2 ELSE 2

\* Slip: the ack is read as the next packet expected, not the last received.
UnackedOffByOne(e, ack) ==
    {s \in DOMAIN sentPackets[e] : ~seqLessThanOrEqual(s, seqAdd(ack, 1))}

\* cleanupAckedPacketsLocked: what stays tracked once ack is cumulative.
Unacked(e, ack) == {s \in DOMAIN sentPackets[e] : ~seqLessThanOrEqual(s, ack)}

\* handleOptionalDelayLocked: choke and unchoke; the persist timer starts with
\* the first choke and stops with the unchoke.
handleOptionalDelay(e, delay) ==
    /\ choked' = [choked EXCEPT ![e] =
                     CASE delay = "CHOKE" -> TRUE
                       [] delay = "UNCHOKE" -> FALSE
                       [] OTHER -> @]
    /\ chokeHold' = [chokeHold EXCEPT ![e] = IF delay = "NONE" THEN @ ELSE delay = "CHOKE"]
    /\ persist' = [persist EXCEPT ![e] =
                     CASE delay = "CHOKE" /\ ~choked[e] -> TRUE
                       [] delay = "UNCHOKE" /\ choked[e] -> FALSE
                       [] OTHER -> @]

\* handleNACKsLocked: the numbers asked for often enough to be resent at once.
fastRetransmit(counts, nacks) ==
    {s \in nacks : counts[s] + 1 >= FastRetransmitThreshold}

\* handleAckLocked: sequence number 0, cumulative ack, NACKs, choke signal.
handleAck(e, p) ==
    LET newer  == seqGreaterThan(p.ack, ackThrough[e])
        kept   == IF newer THEN Unacked(e, p.ack) ELSE DOMAIN sentPackets[e]
        counts == [s \in SeqNums |->
                      IF newer /\ s \notin p.nacks /\ seqLessThanOrEqual(s, p.ack)
                      THEN 0 ELSE nackCounts[e][s]]
        due    == fastRetransmit(counts, p.nacks)
        grown  == IF newer THEN GrowWindow(cwnd[e], ssthresh[e]) ELSE cwnd[e]
        wakes  == \/ newer /\ (kept # DOMAIN sentPackets[e] \/ counts # nackCounts[e])
                  \/ p.delay = "UNCHOKE" /\ choked[e]
    IN  /\ ackThrough' = [ackThrough EXCEPT ![e] = IF newer THEN p.ack ELSE @]
        /\ nackCounts' = [nackCounts EXCEPT ![e] =
              [s \in SeqNums |-> CASE s \in due -> 0
                                   [] s \in p.nacks \ due -> counts[s] + 1
                                   [] OTHER -> counts[s]]]
        /\ cwnd' = [cwnd EXCEPT ![e] = IF due = {} THEN grown ELSE HalveWindow(grown)]
        /\ ssthresh' = [ssthresh EXCEPT ![e] = IF due = {} THEN @ ELSE HalveWindow(grown)]
        /\ \E resent \in Accepted(due \cap kept) :
              /\ sentPackets' = [sentPackets EXCEPT ![e] =
                    [s \in kept |-> IF s \in resent THEN bump(@[s]) ELSE @[s]]]
              /\ network' = network \cup {sentPackets[e][s].pkt : s \in resent}
        /\ handleOptionalDelay(e, p.delay)
        /\ writer' = [writer EXCEPT ![e] = IF wakes THEN Woken(@) ELSE @]
        /\ UNCHANGED <<lifeVars, sendSeq, writeLeft, recvVars, histVars>>

\* checkRetransmissions: the tracked packets in late have timed out.  They are resent
\* in map order until one is found that has used up its retries; the timer then
\* gives up, and closes the connection in a step of its own (GiveUp).
checkRetransmissions(e, late) ==
    LET spent == {s \in late : sentPackets[e][s].retryCount >= MaxRetransmissions}
    IN  /\ \E tried \in IF spent = {} THEN {late} ELSE SUBSET (late \ spent) :
           \E resent \in Accepted(tried) :
              /\ sentPackets' = [sentPackets EXCEPT ![e] =
                    [s \in DOMAIN @ |-> IF s \in resent THEN bump(@[s]) ELSE @[s]]]
              /\ network' = network \cup {sentPackets[e][s].pkt : s \in resent}
        /\ timer' = [timer EXCEPT ![e] = IF spent = {} THEN "running" ELSE "closing"]
        /\ UNCHANGED <<state, closed, registered, queued, sendSeq, ackThrough,
                       nackCounts, cwnd, ssthresh, flowVars, writeVars, recvVars,
                       histVars>>

\* retransmitTimer: a tick finds packets that have timed out.  After Close a tick that
\* is already due is still handled; here any number of them may be.
RetransmitTimeout(e) ==
    /\ timer[e] = "running" /\ ~Locked(e)
    /\ \E late \in SUBSET DOMAIN sentPackets[e] :
          late # {} /\ checkRetransmissions(e, late)

\* s.chokedUntil passes: Write no longer waits, the choked flag stays.
ChokeExpires(e) ==
    /\ chokeHold[e]
    /\ chokeHold' = [chokeHold EXCEPT ![e] = FALSE]
    /\ UNCHANGED <<lifeVars, sendVars, choked, persist, writeVars, recvVars,
                   network, histVars>>

\* runPersistTimer, sendProbePacketLocked: a one-byte data packet that takes the
\* next sequence number, whether or not the router accepts it, and is not tracked.
PersistProbe(e) ==
    /\ persist[e] /\ ~Locked(e) /\ choked[e] /\ ~closed[e]
    /\ used[e] + writeLeft[e] < MaxSent[e]
    /\ network' = network \cup {DataPacket(e, sendSeq[e], recvSeq[e], ProbeByte)}
    /\ sendSeq' = [sendSeq EXCEPT ![e] = seqAdd(@, 1)]
    /\ used' = [used EXCEPT ![e] = @ + 1]
    /\ sentLog' = [sentLog EXCEPT ![e] = Append(@, ProbeByte)]
    /\ UNCHANGED <<lifeVars, ackThrough, sentPackets, nackCounts, cwnd, ssthresh,
                   flowVars, writeVars, recvVars, recvLog, readLog>>

\* handleMessageDelivered: the router reports a tracked packet as delivered.
\* Nobody is woken.
MessageDelivered(e) ==
    /\ StatusReports /\ ~Locked(e)
    /\ \E s \in DOMAIN sentPackets[e] :
          /\ sentPackets[e][s].pkt \in network
          /\ sentPackets' = [sentPackets EXCEPT ![e] = [t \in DOMAIN @ \ {s} |-> @[t]]]
    /\ UNCHANGED <<lifeVars, sendSeq, ackThrough, nackCounts, cwnd, ssthresh,
                   flowVars, writeVars, recvVars, network, histVars>>

\* handleMessageFailed with a retriable status: counted as a retry, resent while
\* retries remain.
MessageFailed(e) ==
    /\ StatusReports /\ ~Locked(e) /\ ~closed[e]
    /\ \E s \in DOMAIN sentPackets[e] :
          LET info == bump(sentPackets[e][s])
          IN  /\ sentPackets' = [sentPackets EXCEPT ![e][s] = info]
              /\ \/ /\ info.retryCount <= MaxRetransmissions
                    /\ network' = network \cup {info.pkt}
                 \/ /\ info.retryCount > MaxRetransmissions \/ SendMayFail
                    /\ UNCHANGED network
    /\ UNCHANGED <<lifeVars, sendSeq, ackThrough, nackCounts, cwnd, ssthresh,
                   flowVars, writeVars, recvVars, histVars>>

-------------------------------------------------------------------------------
(* Receiver *)

\* Slip: what a Read leaves behind is lost when the next packets are written.
bufWriteForgets(b, xs) == [data |-> IF Len(xs) > 0 THEN xs ELSE <<>>,
                           written |-> b.written + Len(xs)]

\* circbuf: a write never fails; the oldest content beyond BufSize is dropped
\* while TotalWritten goes on counting until the next Reset.
bufWrite(b, xs) ==
    LET all == b.data \o xs
    IN  [data |-> IF Len(all) <= BufSize THEN all
                  ELSE SubSeq(all, Len(all) - BufSize + 1, Len(all)),
         written |-> b.written + Len(xs)]

\* deliverBufferedPacketsLocked: exactly the k packets from number from on are
\* buffered without a gap.
IsRun(ooo, from, k) == /\ \A i \in 0 .. k - 1 : seqAdd(from, i) \in DOMAIN ooo
                       /\ seqAdd(from, k) \notin DOMAIN ooo

RunSeqs(from, k) == {seqAdd(from, i) : i \in 0 .. k - 1}
RunPayloads(ooo, from, k) == [i \in 1 .. k |-> ooo[seqAdd(from, i - 1)]]
DropRun(ooo, from, k) == [s \in DOMAIN ooo \ RunSeqs(from, k) |-> ooo[s]]

\* Slip: a packet that arrives stays on the list of missing ones.
removeFromNACKListNot(nacks, seqs) == nacks

removeFromNACKList(nacks, seqs) == nacks \ seqs

AboveChokeMark(w) == 10 * w > 8 * BufSize        \* bufferUsage > 0.8
BelowUnchokeMark(w) == 10 * w < 3 * BufSize      \* bufferUsage < 0.3

\* manageChokeStateLocked: the signal to send when w packets have been written,
\* none if that is what the last check saw.
manageChokeState(e, w) ==
    CASE w # lastBufferCheck[e] /\ AboveChokeMark(w) /\ ~sendingChoke[e] -> "CHOKE"
      [] w # lastBufferCheck[e] /\ BelowUnchokeMark(w) /\ sendingChoke[e] -> "UNCHOKE"
      [] OTHER -> "NONE"

\* Slip: whatever is not old is taken as the expected packet.
isNextOrLater(e, p) == ~seqLessThan(p.seq, recvSeq[e])

\* handleDataLocked, first case: the packet is the one expected.
isNext(e, p) == p.seq = recvSeq[e]

\* processInSequencePacketLocked: the expected packet and the run behind it go
\* into the buffer; then manageChokeStateLocked; then an ACK, unless choking
\* with no gap to report.  A piggybacked ack moves ackThrough and nothing else.
handleInSequence(e, p) ==
    \E k \in 0 .. SeqSpace - 1 :
      LET from  == seqAdd(recvSeq[e], 1)
          ooo   == outOfOrderPackets[e]
          xs    == <<p.pay>> \o RunPayloads(ooo, from, k)
          rseq  == seqAdd(recvSeq[e], k + 1)
          buf   == bufWrite(recvBuf[e], xs)
          nacks == removeFromNACKList(nackList[e], {p.seq} \cup RunSeqs(from, k))
          signal == manageChokeState(e, buf.written)
          choking == signal = "CHOKE" \/ (signal # "UNCHOKE" /\ sendingChoke[e])
      IN  /\ k + 1 < SeqSpace
          /\ isNext(e, p)
          /\ IsRun(ooo, from, k)
          /\ recvSeq' = [recvSeq EXCEPT ![e] = rseq]
          /\ recvBuf' = [recvBuf EXCEPT ![e] = buf]
          /\ recvLog' = [recvLog EXCEPT ![e] = @ \o xs]
          /\ outOfOrderPackets' = [outOfOrderPackets EXCEPT ![e] = DropRun(@, from, k)]
          /\ nackList' = [nackList EXCEPT ![e] = nacks]
          /\ ackThrough' = [ackThrough EXCEPT ![e] =
                               IF seqGreaterThan(p.ack, @) THEN p.ack ELSE @]
          /\ lastBufferCheck' = [lastBufferCheck EXCEPT ![e] = buf.written]
          /\ sendingChoke' = [sendingChoke EXCEPT ![e] = choking]
          /\ network' = network
                \cup (IF signal # "NONE" THEN {AckPacket(e, rseq, nacks, signal)} ELSE {})
                \cup (IF ~choking \/ nacks # {}
                      THEN {AckPacket(e, rseq, nacks, "NONE")} ELSE {})
          /\ UNCHANGED <<lifeVars, sendSeq, sentPackets, nackCounts, cwnd, ssthresh,
                         flowVars, writeVars, used, sentLog, readLog>>

\* Slip: the scan starts behind the expected packet.
MissingSkipsFirst(e, seq, ooo, nacks) ==
    {seqAdd(recvSeq[e], i) : i \in {j \in 1 .. seqDiff(recvSeq[e], seq) - 1 :
        seqAdd(recvSeq[e], j) \notin DOMAIN ooo \cup nacks}}

\* updateNACKListLocked: the numbers missing before seq, the earliest first,
\* while the list has room.
Missing(e, seq, ooo, nacks) ==
    LET gap  == seqDiff(recvSeq[e], seq)
        scan == IF gap > MaxNACKs THEN MaxNACKs ELSE gap
        new  == {i \in 0 .. scan - 1 :
                    seqAdd(recvSeq[e], i) \notin DOMAIN ooo \cup nacks}
    IN  {seqAdd(recvSeq[e], i) :
            i \in {j \in new : Cardinality(nacks)
                                 + Cardinality({h \in new : h < j}) < MaxNACKs}}

\* handleOutOfOrderPacketLocked: buffer a future packet, NACK the gap.
handleOutOfOrder(e, p) ==
    LET ooo   == [s \in DOMAIN outOfOrderPackets[e] \cup {p.seq} |->
                     IF s = p.seq THEN p.pay ELSE outOfOrderPackets[e][s]]
        rest  == removeFromNACKList(nackList[e], {p.seq})
        nacks == rest \cup Missing(e, p.seq, ooo, rest)
    IN  /\ ~isNext(e, p) /\ ~seqLessThan(p.seq, recvSeq[e])
        /\ outOfOrderPackets' = [outOfOrderPackets EXCEPT ![e] = ooo]
        /\ nackList' = [nackList EXCEPT ![e] = nacks]
        /\ network' = network \cup {AckPacket(e, recvSeq[e], nacks, "NONE")}
        /\ UNCHANGED <<lifeVars, sendVars, flowVars, writeVars, recvSeq, recvBuf,
                       sendingChoke, lastBufferCheck, histVars>>

\* handleDataLocked, second case: an old packet is ignored, and not ACKed.
handleOld(e, p) ==
    /\ ~isNext(e, p) /\ seqLessThan(p.seq, recvSeq[e])
    /\ UNCHANGED vars

\* Slip: only an arriving packet lifts a choke.
liftsChokeNever(e, w) == FALSE

\* handlePostReadActionsLocked: a Read that empties the buffer lifts the choke.
liftsChoke(e, w) == sendingChoke[e] /\ BelowUnchokeMark(w)

\* consumeBufferDataLocked: what the application gets of a Read of n packets,
\* and the buffer with the rest.
readTaken(data, n) == SubSeq(data, 1, IF n < Len(data) THEN n ELSE Len(data))
readRest(data, n) == LET rest == SubSeq(data, n + 1, Len(data))
                     IN  [data |-> rest, written |-> Len(rest)]

\* Read into a buffer of n packets: what is left goes back into the emptied
\* buffer; buffered packets are delivered; a choke is lifted below the mark.
Read(e, n) ==
    \E k \in 0 .. SeqSpace - 1 :
      LET data  == recvBuf[e].data
          ooo   == outOfOrderPackets[e]
          xs    == RunPayloads(ooo, recvSeq[e], k)
          buf   == bufWrite(readRest(data, n), xs)
          rseq  == seqAdd(recvSeq[e], k)
          nacks == removeFromNACKList(nackList[e], RunSeqs(recvSeq[e], k))
          unchoke == liftsChoke(e, buf.written)
      IN  /\ ~Locked(e) /\ recvBuf[e].written > 0
          /\ IsRun(ooo, recvSeq[e], k)
          /\ readLog' = [readLog EXCEPT ![e] = @ \o readTaken(data, n)]
          /\ recvLog' = [recvLog EXCEPT ![e] = @ \o xs]
          /\ recvBuf' = [recvBuf EXCEPT ![e] = buf]
          /\ recvSeq' = [recvSeq EXCEPT ![e] = rseq]
          /\ outOfOrderPackets' = [outOfOrderPackets EXCEPT ![e] = DropRun(@, recvSeq[e], k)]
          /\ nackList' = [nackList EXCEPT ![e] = nacks]
          /\ sendingChoke' = [sendingChoke EXCEPT ![e] = @ /\ ~unchoke]
          /\ network' = IF unchoke THEN network \cup {AckPacket(e, rseq, nacks, "UNCHOKE")}
                                   ELSE network
          /\ UNCHANGED <<lifeVars, sendVars, flowVars, writeVars, lastBufferCheck,
                         used, sentLog>>

\* checkInactivity: a duplicate ACK as keepalive.
KeepAlive(e) ==
    /\ registered[e] /\ timer[e] # "off" /\ ~Locked(e)
    /\ state[e] = "ESTABLISHED" /\ ~closed[e]
    /\ network' = network \cup {AckPacket(e, recvSeq[e], nackList[e], "NONE")}
    /\ UNCHANGED <<lifeVars, sendVars, flowVars, writeVars, recvVars, histVars>>

-------------------------------------------------------------------------------
(* Connection state *)

\* handleFinalAckLocked: any packet that is no CLOSE or RESET completes the
\* server's handshake; its payload is dropped, its ack taken unchecked.
handleFinalAck(e, p) ==
    /\ ackThrough' = [ackThrough EXCEPT ![e] = p.ack]
    /\ state' = [state EXCEPT ![e] = "ESTABLISHED"]
    /\ timer' = [timer EXCEPT ![e] = "running"]
    /\ UNCHANGED <<closed, registered, queued, sendSeq, sentPackets, nackCounts,
                   cwnd, ssthresh, flowVars, writeVars, recvVars, network, histVars>>

\* handleCloseLocked: readers are woken, a waiting writer is not, and nothing
\* is released.
handleClose(e) ==
    /\ state[e] \in {"ESTABLISHED", "CLOSING"}
    /\ state' = [state EXCEPT ![e] = "CLOSED"]
    /\ closed' = [closed EXCEPT ![e] = TRUE]
    /\ network' = IF state[e] = "ESTABLISHED" THEN network \cup {ClosePacket(e)}
                                              ELSE network
    /\ UNCHANGED <<registered, queued, timer, sendVars, flowVars, writeVars,
                   recvVars, histVars>>

handleReset(e) ==
    /\ state' = [state EXCEPT ![e] = "CLOSED"]
    /\ closed' = [closed EXCEPT ![e] = TRUE]
    /\ UNCHANGED <<registered, queued, timer, sendVars, flowVars, writeVars,
                   recvVars, network, histVars>>

\* receiveLoop: what the manager may route to the connection and the loop take
\* up; after Close only what was queued before.
Arriving(e) == {p \in network : /\ p.src = Peer(e) /\ ~Locked(e)
                                /\ registered[e] \/ p \in queued[e]}

\* dispatchPacketByFlags: the kind of a packet decides its handler, and the
\* kind depends on the state.  A data packet numbered 0 counts as plain ACK.
Kind(e, p) ==
    CASE p.flag = "NONE" /\ state[e] = "SYN_RCVD" -> "FINAL_ACK"
      [] p.flag = "NONE" /\ state[e] # "SYN_RCVD" /\ p.seq = 0 -> "ACK"
      [] /\ p.flag = "NONE" /\ state[e] # "SYN_RCVD" /\ p.seq # 0
         /\ p.pay # NoPayload -> "DATA"
      [] OTHER -> p.flag

ReceiveFinalAck(e) == \E p \in Arriving(e) : Kind(e, p) = "FINAL_ACK" /\ handleFinalAck(e, p)
ReceiveAck(e) == \E p \in Arriving(e) : Kind(e, p) = "ACK" /\ handleAck(e, p)
ReceiveInSequence(e) == \E p \in Arriving(e) : Kind(e, p) = "DATA" /\ handleInSequence(e, p)
ReceiveOld(e) == \E p \in Arriving(e) : Kind(e, p) = "DATA" /\ handleOld(e, p)
ReceiveOutOfOrder(e) == \E p \in Arriving(e) : Kind(e, p) = "DATA" /\ handleOutOfOrder(e, p)
ReceiveClose(e) == \E p \in Arriving(e) : Kind(e, p) = "CLOSE" /\ handleClose(e)
ReceiveReset(e) == \E p \in Arriving(e) : Kind(e, p) = "RESET" /\ handleReset(e)

\* routeToConnection: a packet for a connection that is not registered any more
\* is answered with RESET.
AnswerUnknown(e) ==
    /\ ~registered[e] /\ \E p \in network : p.src = Peer(e)
    /\ network' = network \cup {ResetPacket(e)}
    /\ UNCHANGED <<lifeVars, sendVars, flowVars, writeVars, recvVars, histVars>>

\* Close of a connection that is not closed yet: CLOSE if established, then
\* cleanupConnectionLocked.
closeConn(e) ==
    /\ ~closed[e]
    /\ network' = IF state[e] = "ESTABLISHED" THEN network \cup {ClosePacket(e)}
                                              ELSE network
    /\ state' = [state EXCEPT ![e] = IF @ = "ESTABLISHED" THEN "CLOSING" ELSE @]
    /\ registered' = [registered EXCEPT ![e] = FALSE]
    /\ queued' = [queued EXCEPT ![e] = {p \in network : p.src = Peer(e)}]
    /\ persist' = [persist EXCEPT ![e] = FALSE]
    /\ closed' = [closed EXCEPT ![e] = TRUE]
    /\ writer' = [writer EXCEPT ![e] = Woken(@)]

Close(e) ==
    /\ e \in Closers /\ ~Locked(e) /\ closeConn(e)
    /\ UNCHANGED <<timer, sendVars, choked, chokeHold, writeLeft, recvVars, histVars>>

\* Slip: the timer ends after checkRetransmissions failed and leaves the connection open.
GiveUpQuietly(e) ==
    /\ timer[e] = "closing" /\ ~Locked(e)
    /\ timer' = [timer EXCEPT ![e] = "done"]
    /\ UNCHANGED <<state, closed, registered, queued, persist, writer, network,
                   sendVars, choked, chokeHold, writeLeft, recvVars, histVars>>

\* retransmitTimer closes the connection after checkRetransmissions failed; it
\* has given up s.mu in between.
GiveUp(e) ==
    /\ timer[e] = "closing" /\ ~Locked(e)
    /\ timer' = [timer EXCEPT ![e] = "done"]
    /\ \/ closeConn(e)
       \/ closed[e] /\ UNCHANGED <<state, closed, registered, queued, persist,
                                   writer, network>>
    /\ UNCHANGED <<sendVars, choked, chokeHold, writeLeft, recvVars, histVars>>

Next ==
    \E e \in End :
       \/ \E n \in 1 .. MaxWriteChunks : Write(e, n)
       \/ WriteChunk(e) \/ WindowWait(e) \/ WriteResume(e) \/ WriteAbort(e)
       \/ \E n \in 1 .. BufSize : Read(e, n)
       \/ ReceiveFinalAck(e) \/ ReceiveAck(e) \/ ReceiveInSequence(e) \/ ReceiveOld(e)
       \/ ReceiveOutOfOrder(e) \/ ReceiveClose(e) \/ ReceiveReset(e) \/ AnswerUnknown(e)
       \/ RetransmitTimeout(e) \/ GiveUp(e) \/ KeepAlive(e)
       \/ ChokeExpires(e) \/ PersistProbe(e)
       \/ MessageDelivered(e) \/ MessageFailed(e)
       \/ Close(e)

Spec == Init /\ [][Next]_vars

\* A tick of the retransmission timer that finds packet s timed out.
TimesOut(e, s) ==
    /\ timer[e] = "running" /\ ~Locked(e)
    /\ \E late \in SUBSET DOMAIN sentPackets[e] :
          s \in late /\ checkRetransmissions(e, late)

\* What the scheduler and the clock guarantee, and no delivery by the network: a Write
\* that holds s.mu goes on; a packet that stays tracked times out, because the timer
\* ticks every 100 ms and the RTO is at most MaxRTO; a timer that has given up closes.
\* The timer waits for s.mu, which others may take again and again, so it is the mutex
\* that lets it in (SF).
FairSpec ==
    /\ Spec
    /\ \A e \in End :
          /\ WF_vars(WriteChunk(e)) /\ WF_vars(WindowWait(e)) /\ SF_vars(GiveUp(e))
          /\ \A i \in 1 .. MaxSent[e] : SF_vars(TimesOut(e, seqAdd(ISN[e], i)))
-------------------------------------------------------------------------------
(* Properties *)

\* The types of the groups of variables.
LifeType ==
    /\ state \in [End -> {"SYN_RCVD", "ESTABLISHED", "CLOSING", "CLOSED"}]
    /\ closed \in [End -> BOOLEAN] /\ registered \in [End -> BOOLEAN]
    /\ queued \in [End -> SUBSET Packet]
    /\ timer \in [End -> {"off", "running", "closing", "done"}]

SentPacket == [pkt : Packet, retryCount : 0 .. MaxRetransmissions + 1]

SendType ==
    /\ sendSeq \in [End -> SeqNums] /\ ackThrough \in [End -> SeqNums]
    /\ DOMAIN sentPackets = End
    /\ \A e \in End : /\ DOMAIN sentPackets[e] \subseteq SeqNums
                      /\ \A s \in DOMAIN sentPackets[e] : sentPackets[e][s] \in SentPacket
    /\ nackCounts \in [End -> [SeqNums -> Nat]]
    /\ cwnd \in [End -> 1 .. MaxWindowSize] /\ ssthresh \in [End -> 1 .. MaxWindowSize]

FlowType == /\ choked \in [End -> BOOLEAN] /\ chokeHold \in [End -> BOOLEAN]
            /\ persist \in [End -> BOOLEAN]

WriteType == /\ writer \in [End -> {"idle", "sending", "waiting", "woken"}]
             /\ writeLeft \in [End -> Nat]

RecvType ==
    /\ recvSeq \in [End -> SeqNums]
    /\ DOMAIN outOfOrderPackets = End
    /\ \A e \in End : /\ DOMAIN outOfOrderPackets[e] \subseteq SeqNums
                      /\ \A s \in DOMAIN outOfOrderPackets[e] :
                            outOfOrderPackets[e][s] \in Payload
    /\ nackList \in [End -> SUBSET SeqNums]
    /\ recvBuf \in [End -> [data : Seq(Payload), written : Nat]]
    /\ sendingChoke \in [End -> BOOLEAN] /\ lastBufferCheck \in [End -> Nat]

HistType == /\ used \in [End -> Nat]
            /\ sentLog \in [End -> Seq(Payload)] /\ recvLog \in [End -> Seq(Payload)]
            /\ readLog \in [End -> Seq(Payload)]

\* Type invariant: every field of the two StreamConn structs and every packet
\* has the shape the code gives it; the windows stay within MaxWindowSize.
TypeOK == LifeType /\ SendType /\ FlowType /\ WriteType /\ RecvType
          /\ network \subseteq Packet /\ HistType

\* What the two ends have agreed on: the packets an end has accepted are a
\* prefix of the packets its peer has sent, whatever the network does.
AcceptedIsPrefix == \A e \in End : IsPrefix(recvLog[e], sentLog[Peer(e)])

\* The index of a packet number in the log of the end that sent it.
SeqIndex(e, seq) == seqDiff(ISN[e], seq)

\* An acknowledgement never covers a packet that has not been accepted: not
\* one on its way, not one already recorded in ackThrough.
AckHonest ==
    /\ \A p \in network : p.flag # "RESET" =>
          SeqIndex(Peer(p.src), p.ack) <= Len(recvLog[p.src])
    /\ \A e \in End : timer[e] # "off" =>
          SeqIndex(e, ackThrough[e]) <= Len(recvLog[Peer(e)])

\* A chunk that Write has handed over and the peer has not accepted is still
\* tracked for retransmission under its number: no order of acks, NACKs and
\* timeouts drops it, and no later chunk takes its place.
NoSilentLoss ==
    \A e \in End : \A i \in 1 .. Len(sentLog[e]) :
       sentLog[e][i] # ProbeByte /\ i > Len(recvLog[Peer(e)])
          => LET s == seqAdd(ISN[e], i)
             IN  s \in DOMAIN sentPackets[e] /\ sentPackets[e][s].pkt.pay = sentLog[e][i]

\* Nobody is forgotten: while a connection is open and has packets that wait for an
\* acknowledgement, its retransmission timer runs, or has given up on one of them and
\* is about to close the connection.
TrackedIsTimed ==
    \A e \in End : DOMAIN sentPackets[e] # {} /\ ~closed[e]
                     => timer[e] \in {"running", "closing"}

\* A NACK asks for a packet that is really missing: ahead of recvSeq or equal
\* to it, below a buffered packet, not buffered, and sent by the peer.
NackSound ==
    \A e \in End : \A s \in nackList[e] :
       /\ s \notin DOMAIN outOfOrderPackets[e]
       /\ SeqIndex(Peer(e), s) > Len(recvLog[e])
       /\ \E t \in DOMAIN outOfOrderPackets[e] :
             SeqIndex(Peer(e), s) < SeqIndex(Peer(e), t)

\* End e has sent no probe, so that every packet it has numbered was tracked.
NoProbe(e) == \A i \in 1 .. Len(sentLog[e]) : sentLog[e][i] # ProbeByte

\* Every gap is asked for: each number missing before a buffered packet is on the
\* list, so the next ACK requests it, whatever was lost and however the list was
\* cut and mended since.  The list has to hold what the window lets out (255 and
\* 128 in the code), and nothing may be out beyond the window: no probes, and no
\* packet released by a report of the router.
GapsNacked ==
    MaxWindowSize <= MaxNACKs /\ ~StatusReports =>
       \A e \in End : NoProbe(Peer(e)) =>
          \A t \in DOMAIN outOfOrderPackets[e] :
             \A i \in Len(recvLog[e]) + 1 .. SeqIndex(Peer(e), t) - 1 :
                seqAdd(ISN[Peer(e)], i) \in DOMAIN outOfOrderPackets[e] \cup nackList[e]

\* An end that has told its peer to stop still has data for its application
\* to read, so the Read that lifts the choke can happen.
NoStuckChoke ==
    \A e \in End : sendingChoke[e] => ~BelowUnchokeMark(recvBuf[e].written)

\* While nothing overflows, the application reads what the peer's application
\* wrote: chunks in order, none missing, none invented.
ReadIsPrefix ==
    \A e \in End :
       LET sent   == sentLog[Peer(e)]
           chunks == {i \in DOMAIN sent : sent[i] # ProbeByte}
           nth(i) == Cardinality({j \in chunks : j <= i})
       IN  /\ Len(readLog[e]) <= Cardinality(chunks)
           /\ \A i \in chunks : nth(i) <= Len(readLog[e]) => readLog[e][nth(i)] = sent[i]

\* Nothing in the receive buffer has been overwritten yet.
BufferFits == \A e \in End : recvBuf[e].written <= BufSize

\* What the application has read and what waits in the buffer is what was accepted.
ReadsAccepted == \A e \in End : readLog[e] \o recvBuf[e].data = recvLog[e]

\* Until a buffer overflows, Read hands over exactly the packets that were accepted,
\* in order, however short reads, arriving packets and the release of buffered ones
\* interleave: what a Read leaves behind goes back and comes first the next time.
ReadUntilOverflow == []BufferFits => []ReadsAccepted

\* Progress is never undone, by any handler at any time: what was accepted stays
\* accepted, ackThrough of an established end does not move back when old ACKs
\* arrive late, and a closed connection neither opens again nor sends a chunk.
NeverBackwards ==
    [][\A e \in End :
          /\ IsPrefix(recvLog[e], recvLog'[e])
          /\ timer[e] # "off" => seqLessThanOrEqual(ackThrough[e], ackThrough'[e])
          /\ closed[e] => closed'[e] /\ sentLog'[e] = sentLog[e]
          /\ state[e] = "CLOSED" => state'[e] = "CLOSED"]_vars

\* Under FairSpec, whatever the network loses, delays, repeats and reorders: a chunk
\* that Write has handed over is accepted by the peer in the end, or its sender gives
\* it up and closes the connection.  No chunk is waited for or resent for ever.
AcceptedOrGivenUp ==
    \A e \in End : \A n \in 1 .. MaxSent[e] :
       Len(sentLog[e]) >= n /\ sentLog[e][n] # ProbeByte
          ~> Len(recvLog[Peer(e)]) >= n \/ closed[e]

\* stream.go says of its sequence numbers that the case "where sequence numbers wrap" is
\* handled: a packet with data that reaches an open connection is dispatched as data.
DataIsData ==
    \A e \in End : \A p \in Arriving(e) :
       state[e] = "ESTABLISHED" /\ p.pay # NoPayload => Kind(e, p) = "DATA"

\* stream.go calls sentPackets the "packets we've sent but not yet ACKed": no
\* tracked packet is covered by ackThrough.
SentNotYetAcked ==
    \A e \in End : \A s \in DOMAIN sentPackets[e] : ~seqLessThanOrEqual(s, ackThrough[e])

\* SPEC.md: after being choked, no more packets with data are sent until the
\* transmitter is unchoked, probes excepted.  Only the second for which the code
\* itself means to pause (chokedUntil) is counted.
NoChunkWhileChoked ==
    [][\A e \in End : choked[e] /\ chokeHold[e] /\ sentLog'[e] # sentLog[e]
                        => Last(sentLog'[e]) = ProbeByte]_vars

\* updateChokeStateForUsage: an end whose buffer is filled above the choke mark
\* has told its peer to stop.
ChokedWhenFull ==
    \A e \in End : AboveChokeMark(recvBuf[e].written) => sendingChoke[e]

\* A Write sleeps on sendCond only while the window is full: whoever makes room
\* in the window wakes it.  An end that has sent a probe is left to the next one.
NoLostWakeup ==
    \A e \in End : writer[e] = "waiting" /\ NoProbe(e) => inFlight(e) >= cwnd[e]

\* stream.go says of an ACK that it wakes "blocked writers waiting for window
\* space": with probes too, a Write sleeps only while the window is full.
NoLostWakeupProbes ==
    \A e \in End : writer[e] = "waiting" => inFlight(e) >= cwnd[e]

\* A Write does not go on sleeping once the connection is closed.
ClosedWakesWriter == \A e \in End : writer[e] = "waiting" => ~closed[e]

\* The connection implements an ordered channel of packets in each direction.
Channel == INSTANCE OrderedChannel
              WITH Ends <- End, Other <- Peer, sent <- sentLog, rcvd <- recvLog,
                   Payloads <- {ProbeByte} \cup 1 .. MaxSent["client"] + MaxSent["server"]
ImplementsChannel == Channel!Spec
===============================================================================
