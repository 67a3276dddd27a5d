-------------------------- MODULE StreamConn_proofs ---------------------------
(***************************************************************************)
(* Safety of StreamConn, for every value of its constants.  The first part *)
(* holds while the router accepts what it is handed (~SendMayFail; the run *)
(* sendfailure shows that AcceptedIsPrefix does not hold otherwise): what  *)
(* an end accepts and reads is what its peer sent, and the connection      *)
(* implements OrderedChannel.  The second part needs no such assumption:   *)
(* no chunk loses its retransmission entry before it is accepted, what is  *)
(* tracked has a timer, every gap is asked for, and a writer that waits is *)
(* woken.                                                                  *)
(***************************************************************************)
EXTENDS StreamConnType_proofs, FiniteSetTheorems

-------------------------------------------------------------------------------
(* The inductive invariant, while the router accepts what it is handed *)

\* Number s with content x is a packet of end e, whose packets are those of log.
Genuine(log, e, s, x) == \E i \in 1 .. Len(log) : s = Num(e, i) /\ x = log[i]

\* AcceptedIsPrefix, item by item.
PrefixInv == \A e \in End :
                /\ Len(recvLog[e]) <= Len(sentLog[Peer(e)])
                /\ \A i \in 1 .. Len(recvLog[e]) : recvLog[e][i] = sentLog[Peer(e)][i]

\* What is on its way, tracked or buffered has been sent.
NetInv == \A p \in network : p.pay # NoPayload => Genuine(sentLog[p.src], p.src, p.seq, p.pay)
TrackInv == \A e \in End : \A s \in DOMAIN sentPackets[e] : sentPackets[e][s].pkt \in network
BufferInv == \A e \in End : \A s \in DOMAIN outOfOrderPackets[e] :
                Genuine(sentLog[Peer(e)], Peer(e), s, outOfOrderPackets[e][s])

ChannelInv == NumberInv /\ PrefixInv /\ NetInv /\ TrackInv /\ BufferInv

-------------------------------------------------------------------------------
(* Packets that were sent *)

\* The packet with the number an end expects is the one its peer sent next.
LEMMA GenuineIndex ==
    ASSUME TypeInv, CountInv, NEW e \in End, NEW i \in 1 .. Len(sentLog[e]) + 1, NEW x,
           Genuine(sentLog[e], e, Num(e, i), x)
    PROVE  i <= Len(sentLog[e]) /\ x = sentLog[e][i]
<1>1. PICK j \in 1 .. Len(sentLog[e]) : Num(e, i) = Num(e, j) /\ x = sentLog[e][j]
  BY DEF Genuine
<1>2. /\ Len(sentLog[e]) \in Nat /\ SeqSpace \in Nat
      /\ Len(sentLog[e]) + 1 < SeqSpace
  BY LogBounds
<1>3. i \in 0 .. SeqSpace - 1 /\ j \in 0 .. SeqSpace - 1
  BY <1>2
<1>4. i = j
  BY <1>1, <1>3, NumFacts
<1> QED BY <1>1, <1>2, <1>4

\* A run of buffered packets that starts with the m-th packet of the peer holds
\* the packets the peer sent from there on, and none that was not sent.
LEMMA RunIsGenuine ==
    ASSUME TypeInv, CountInv, BufferInv, NEW e \in End,
           NEW m \in 1 .. Len(sentLog[Peer(e)]) + 1, NEW k \in 0 .. SeqSpace - 1,
           IsRun(outOfOrderPackets[e], Num(Peer(e), m), k)
    PROVE  /\ m - 1 + k <= Len(sentLog[Peer(e)])
           /\ \A i \in 1 .. k : RunPayloads(outOfOrderPackets[e], Num(Peer(e), m), k)[i]
                                   = sentLog[Peer(e)][m - 1 + i]
<1> DEFINE q == Peer(e)
           N == Len(sentLog[q])
           ooo == outOfOrderPackets[e]
<1>1. q \in End
  BY PeerType
<1>2. N \in Nat /\ SeqSpace \in Nat /\ N + 1 < SeqSpace
  BY <1>1, LogBounds
<1> HIDE DEF q, N
<1>3. m \in 1 .. N + 1 /\ IsRun(ooo, Num(q, m), k)
  BY DEF q, N
<1>4. \A i \in 0 .. k - 1 : m + i <= N + 1 => m + i <= N /\ ooo[seqAdd(Num(q, m), i)] = sentLog[q][m + i]
  <2> SUFFICES ASSUME NEW i \in 0 .. k - 1, m + i <= N + 1
               PROVE  m + i <= N /\ ooo[seqAdd(Num(q, m), i)] = sentLog[q][m + i]
    OBVIOUS
  <2>1. m \in Nat /\ i \in Nat /\ m + i < SeqSpace
    BY <1>2, <1>3
  <2>2. seqAdd(Num(q, m), i) = Num(q, m + i)
    BY <1>1, <2>1, NumFacts
  <2>3. seqAdd(Num(q, m), i) \in DOMAIN ooo
    BY <1>3 DEF IsRun
  <2>4. Genuine(sentLog[q], q, Num(q, m + i), ooo[seqAdd(Num(q, m), i)])
    BY <2>2, <2>3 DEF BufferInv, q
  <2>5. m + i \in 1 .. N + 1
    BY <1>2, <1>3, <2>1
  <2> QED BY <1>1, <2>4, <2>5, GenuineIndex DEF N
<1>5. m - 1 + k <= N
  <2> SUFFICES ASSUME m - 1 + k > N PROVE FALSE
    BY <1>2, <1>3
  <2> DEFINE d == N + 1 - m
  <2>1. d \in 0 .. k - 1 /\ m + d = N + 1
    BY <1>2, <1>3
  <2> HIDE DEF d
  <2>2. m + d <= N
    BY <1>2, <1>4, <2>1
  <2> QED BY <1>2, <2>1, <2>2
<1>6. \A i \in 1 .. k : RunPayloads(ooo, Num(q, m), k)[i] = sentLog[q][m - 1 + i]
  <2> TAKE i \in 1 .. k
  <2>1. i - 1 \in 0 .. k - 1 /\ m + (i - 1) <= N + 1 /\ m + (i - 1) = m - 1 + i
    BY <1>2, <1>3, <1>5
  <2>2. RunPayloads(ooo, Num(q, m), k)[i] = ooo[seqAdd(Num(q, m), i - 1)]
    BY DEF RunPayloads
  <2> QED BY <1>4, <2>1, <2>2
<1> QED BY <1>5, <1>6 DEF q, N

-------------------------------------------------------------------------------
(* The shapes of a step *)

SentGrows == \A f \in End : /\ Len(sentLog[f]) <= Len(sentLog'[f])
                            /\ \A i \in 1 .. Len(sentLog[f]) : sentLog'[f][i] = sentLog[f][i]

\* A step that neither sends nor accepts data.
QuietStep ==
    /\ UNCHANGED <<sentLog, recvLog, outOfOrderPackets>>
    /\ AcksNow /\ ControlOnly
    /\ \A f \in End : \A s \in DOMAIN sentPackets'[f] :
          s \in DOMAIN sentPackets[f] /\ sentPackets'[f][s].pkt = sentPackets[f][s].pkt

\* Packet x takes the next number of end e; a chunk is tracked.
SendStep(e, x) ==
    LET pkt == DataPacket(e, sendSeq[e], recvSeq[e], x)
    IN  /\ x \in {ProbeByte, used[e] + 1}
        /\ sentLog' = [sentLog EXCEPT ![e] = Append(@, x)]
        /\ sendSeq' = [sendSeq EXCEPT ![e] = seqAdd(@, 1)]
        /\ used' = [used EXCEPT ![e] = @ + 1]
        /\ \A f \in End : used'[f] + writeLeft'[f] <= MaxSent[f]
        /\ network' = network \cup {pkt}
        /\ \/ sentPackets' = [sentPackets EXCEPT ![e] = track(@, pkt)]
           \/ UNCHANGED sentPackets
        /\ UNCHANGED <<recvSeq, recvLog, outOfOrderPackets, ackThrough, timer>>

\* End e accepts the next packets of its peer.
AcceptStep(e, xs) ==
    /\ Len(recvLog[e]) + Len(xs) <= Len(sentLog[Peer(e)])
    /\ \A m \in 1 .. Len(xs) : xs[m] = sentLog[Peer(e)][Len(recvLog[e]) + m]
    /\ TakeStep(e, xs)

\* End e buffers a packet of its peer that came too early.
BufferStep(e, p) ==
    /\ p \in network /\ p.src = Peer(e) /\ p.pay # NoPayload
    /\ \A f \in End : \A s \in DOMAIN outOfOrderPackets'[f] :
          \/ s \in DOMAIN outOfOrderPackets[f] /\ outOfOrderPackets'[f][s] = outOfOrderPackets[f][s]
          \/ f = e /\ s = p.seq /\ outOfOrderPackets'[f][s] = p.pay
    /\ AcksNow /\ ControlOnly
    /\ UNCHANGED <<sendSeq, recvSeq, sentLog, recvLog, used, writeLeft, sentPackets,
                   ackThrough, timer>>

-------------------------------------------------------------------------------
(* Each shape preserves the invariant *)

\* A packet that was sent stays a packet that was sent.
LEMMA GenuineGrows ==
    ASSUME TypeInv, TypeInv', SentGrows, NEW e \in End, NEW s, NEW x, Genuine(sentLog[e], e, s, x)
    PROVE  Genuine(sentLog'[e], e, s, x)
<1>1. PICK i \in 1 .. Len(sentLog[e]) : s = Num(e, i) /\ x = sentLog[e][i]
  BY DEF Genuine
<1>2. Len(sentLog[e]) \in Nat /\ Len(sentLog'[e]) \in Nat
  BY LenProperties DEF TypeInv, TypeOK, HistType
<1>3. i \in 1 .. Len(sentLog'[e]) /\ sentLog'[e][i] = sentLog[e][i]
  BY <1>2 DEF SentGrows
<1> QED BY <1>1, <1>3 DEF Genuine, Num

\* What is on the network stays genuine.
LEMMA NetworkKept ==
    ASSUME TypeInv, TypeInv', SentGrows, NetInv, AcksNow,
           \A p \in network' \ network : p.pay # NoPayload => Genuine(sentLog'[p.src], p.src, p.seq, p.pay)
    PROVE  NetInv'
<1>1. \A p \in network' : p \in Packet /\ p.src \in End
  BY DEF TypeInv, TypeOK, Packet
<1> QED BY <1>1, GenuineGrows DEF NetInv, AcksNow

\* An honest packet acknowledges what its sender has accepted.
LEMMA NumberedAcks == NumberInv => AckInv
BY DEF NumberInv, NetHonest, Honest, AckInv

\* A quiet step.
LEMMA QuietKeeps ==
    ASSUME ChannelInv, NumberInv', QuietStep
    PROVE  ChannelInv'
<1>1. UNCHANGED <<sentLog, recvLog, outOfOrderPackets>>
  BY DEF QuietStep
<1>2. TypeInv /\ CountInv /\ TypeInv'
  BY DEF ChannelInv, NumberInv
<1>3. PrefixInv' /\ BufferInv'
  BY <1>1 DEF ChannelInv, PrefixInv, BufferInv
<1>4. SentGrows
  BY <1>1, <1>2, LogBounds DEF SentGrows
<1>5. NetInv'
  <2>1. AcksNow /\ ControlOnly /\ NetInv
    BY DEF QuietStep, ChannelInv
  <2>2. \A p \in network' \ network : p.pay = NoPayload
    BY <2>1 DEF ControlOnly
  <2> QED BY <1>2, <1>4, <2>1, <2>2, NetworkKept
<1>6. TrackInv'
  BY DEF QuietStep, ChannelInv, TrackInv, AcksNow
<1> QED BY <1>3, <1>5, <1>6 DEF ChannelInv

\* A packet of the peer is buffered.
LEMMA BufferKeeps ==
    ASSUME ChannelInv, NumberInv', NEW e \in End, NEW p, BufferStep(e, p)
    PROVE  ChannelInv'
<1>1. UNCHANGED <<sendSeq, recvSeq, sentLog, recvLog, used, writeLeft, sentPackets,
                  ackThrough, timer>>
  BY DEF BufferStep
<1>2. TypeInv /\ CountInv /\ TypeInv'
  BY DEF ChannelInv, NumberInv
<1>3. PrefixInv'
  BY <1>1 DEF ChannelInv, PrefixInv
<1>4. SentGrows
  BY <1>1, <1>2, LogBounds DEF SentGrows
<1>5. NetInv'
  <2>1. AcksNow /\ ControlOnly /\ NetInv
    BY DEF BufferStep, ChannelInv
  <2>2. \A q \in network' \ network : q.pay = NoPayload
    BY <2>1 DEF ControlOnly
  <2> QED BY <1>2, <1>4, <2>1, <2>2, NetworkKept
<1>6. TrackInv'
  BY <1>1 DEF BufferStep, ChannelInv, TrackInv, AcksNow
<1>7. BufferInv'
  <2>1. Genuine(sentLog[Peer(e)], Peer(e), p.seq, p.pay)
    BY DEF BufferStep, ChannelInv, NetInv
  <2> QED BY <1>1, <2>1 DEF BufferStep, ChannelInv, BufferInv
<1> QED BY <1>3, <1>5, <1>6, <1>7 DEF ChannelInv

\* A packet takes the next number.
LEMMA SendKeeps ==
    ASSUME ChannelInv, NumberInv', NEW e \in End, NEW x \in Payload, SendStep(e, x)
    PROVE  ChannelInv'
<1> DEFINE pkt == DataPacket(e, sendSeq[e], recvSeq[e], x)
<1>1. /\ sentLog' = [sentLog EXCEPT ![e] = Append(@, x)]
      /\ network' = network \cup {pkt}
      /\ \/ sentPackets' = [sentPackets EXCEPT ![e] = track(@, pkt)]
         \/ UNCHANGED sentPackets
      /\ UNCHANGED <<recvSeq, recvLog, outOfOrderPackets, ackThrough, timer>>
  BY DEF SendStep
<1>2. /\ pkt.src = e /\ pkt.seq = sendSeq[e] /\ pkt.pay = x /\ pkt.flag = "NONE"
      /\ pkt.ack = seqPrev(recvSeq[e])
  BY DEF DataPacket
<1> HIDE DEF pkt
<1>3. /\ TypeInv /\ CountInv /\ SeqInv /\ PrefixInv /\ NetInv /\ TrackInv /\ BufferInv
      /\ TypeInv'
  BY DEF ChannelInv, NumberInv
<1>4. /\ DOMAIN sentLog = End /\ DOMAIN sentPackets = End
      /\ \A f \in End : sentLog[f] \in Seq(Payload)
  BY <1>3 DEF TypeInv, TypeOK, SendType, HistType
<1> DEFINE n == Len(sentLog[e])
<1>5. /\ sentLog'[e] = Append(sentLog[e], x) /\ Len(sentLog'[e]) = n + 1 /\ n \in Nat
      /\ sentLog'[e][n + 1] = x /\ \A i \in 1 .. n : sentLog'[e][i] = sentLog[e][i]
  <2>1. sentLog'[e] = Append(sentLog[e], x)
    BY <1>1, <1>4
  <2> QED BY <1>4, <2>1, AppendProperties, LenProperties
<1>6. \A f \in End : f # e => sentLog'[f] = sentLog[f] /\ sentPackets'[f] = sentPackets[f]
  BY <1>1, <1>4
<1>7. SentGrows
  <2>1. \A f \in End : Len(sentLog[f]) \in Nat
    BY <1>3, LogBounds
  <2> QED BY <1>5, <1>6, <2>1 DEF SentGrows
<1>8. sendSeq[e] = Num(e, n + 1) /\ n + 2 < SeqSpace /\ SeqSpace \in Nat
  <2>1. n + 2 <= Half /\ Half + 2 <= SeqSpace /\ Half \in Nat /\ SeqSpace \in Nat
    BY <1>3, LogBounds
  <2> QED BY <1>3, <1>5, <2>1 DEF SeqInv
<1> HIDE DEF n
<1>9. PrefixInv'
  <2> SUFFICES ASSUME NEW f \in End
               PROVE  /\ Len(recvLog[f]) <= Len(sentLog'[Peer(f)])
                      /\ \A i \in 1 .. Len(recvLog[f]) : recvLog[f][i] = sentLog'[Peer(f)][i]
    BY <1>1 DEF PrefixInv
  <2>1. Peer(f) \in End /\ Len(recvLog[f]) \in Nat /\ Len(sentLog[Peer(f)]) \in Nat
    BY <1>3, PeerType, LogBounds
  <2>2. Len(sentLog'[Peer(f)]) \in Nat
    BY <1>5, <1>6, <2>1
  <2> QED BY <1>3, <1>7, <2>1, <2>2, SMTT(30) DEF PrefixInv, SentGrows
<1>10. Genuine(sentLog'[e], e, sendSeq[e], x)
  BY <1>5, <1>8 DEF Genuine
<1>11. AcksNow
  BY <1>1, <1>2 DEF AcksNow
<1>12. NetInv'
  BY <1>1, <1>2, <1>3, <1>7, <1>10, <1>11, NetworkKept
<1>13. BufferInv'
  BY <1>1, <1>3, <1>7, GenuineGrows, PeerType DEF BufferInv
<1>14. \A s \in DOMAIN sentPackets'[e] :
          \/ s \in DOMAIN sentPackets[e] /\ sentPackets'[e][s] = sentPackets[e][s]
          \/ sentPackets'[e][s].pkt = pkt
  BY <1>1, <1>4 DEF track
<1>15. TrackInv'
  BY <1>1, <1>3, <1>6, <1>14 DEF TrackInv
<1> QED BY <1>9, <1>12, <1>13, <1>15 DEF ChannelInv

\* The next packets of the peer are accepted.
LEMMA AcceptKeeps ==
    ASSUME ChannelInv, NumberInv', NEW e \in End, NEW xs \in Seq(Payload), AcceptStep(e, xs)
    PROVE  ChannelInv'
<1> DEFINE q == Peer(e)
           n == Len(recvLog[e])
           k == Len(xs)
<1>1. /\ n + k <= Len(sentLog[q])
      /\ \A m \in 1 .. k : xs[m] = sentLog[q][n + m]
      /\ recvLog' = [recvLog EXCEPT ![e] = @ \o xs]
      /\ AcksNow /\ ControlOnly /\ UNCHANGED <<sentLog, sentPackets>>
  BY DEF AcceptStep, TakeStep
<1>2. /\ TypeInv /\ CountInv /\ PrefixInv /\ NetInv /\ TrackInv /\ BufferInv
      /\ TypeInv' /\ CountInv'
  BY DEF ChannelInv, NumberInv
<1>3. DOMAIN recvLog = End /\ \A f \in End : recvLog[f] \in Seq(Payload)
  BY <1>2 DEF TypeInv, TypeOK, HistType
<1>4. q \in End /\ n \in Nat /\ k \in Nat /\ Len(sentLog[q]) \in Nat
      /\ Len(sentLog[q]) + 2 <= SeqSpace /\ SeqSpace \in Nat
  <2>1. q \in End /\ n \in Nat /\ k \in Nat
    BY <1>3, PeerType, LenProperties
  <2> HIDE DEF q
  <2> QED BY <1>2, <2>1, LogBounds
<1>5. /\ Len(recvLog'[e]) = n + k
      /\ \A i \in 1 .. n : recvLog'[e][i] = recvLog[e][i]
      /\ \A i \in n + 1 .. n + k : recvLog'[e][i] = xs[i - n]
  <2>1. recvLog'[e] = recvLog[e] \o xs
    BY <1>1, <1>3
  <2> QED BY <1>3, <1>4, <2>1, ConcatProperties
<1>6. \A f \in End : f # e => recvLog'[f] = recvLog[f]
  BY <1>1, <1>3
<1> HIDE DEF n, k
<1>7. SentGrows /\ RecvGrows
  <2>1. \A f \in End : Len(sentLog[f]) \in Nat /\ Len(recvLog[f]) \in Nat
    BY <1>2, LogBounds
  <2>2. n <= Len(recvLog'[e])
    BY <1>4, <1>5
  <2> QED BY <1>1, <1>6, <2>1, <2>2 DEF SentGrows, RecvGrows, n
<1>8. PrefixInv'
  <2> SUFFICES ASSUME NEW f \in End
               PROVE  /\ Len(recvLog'[f]) <= Len(sentLog[Peer(f)])
                      /\ \A i \in 1 .. Len(recvLog'[f]) : recvLog'[f][i] = sentLog[Peer(f)][i]
    BY <1>1 DEF PrefixInv
  <2>1. CASE f # e
    BY <1>2, <1>6, <2>1 DEF PrefixInv
  <2>2. CASE f = e
    <3>1. ASSUME NEW i \in 1 .. n + k PROVE recvLog'[e][i] = sentLog[q][i]
      <4>1. CASE i \in 1 .. n
        BY <1>2, <1>5, <4>1 DEF PrefixInv, n
      <4>2. CASE i \in n + 1 .. n + k
        <5>1. i - n \in 1 .. k /\ n + (i - n) = i
          BY <1>4, <4>2
        <5> QED BY <1>1, <1>5, <4>2, <5>1
      <4> QED BY <1>4, <4>1, <4>2
    <3> QED BY <1>1, <1>5, <2>2, <3>1 DEF q
  <2> QED BY <2>1, <2>2
<1>9. NetInv'
  <2>1. \A p \in network' \ network : p.pay = NoPayload
    BY <1>1 DEF ControlOnly
  <2> QED BY <1>1, <1>2, <1>7, <2>1, NetworkKept
<1>10. TrackInv'
  BY <1>1, <1>2 DEF TrackInv, AcksNow
<1>11. BufferInv'
  BY <1>1, <1>2 DEF BufferInv, AcceptStep, TakeStep
<1> QED BY <1>8, <1>9, <1>10, <1>11 DEF ChannelInv

-------------------------------------------------------------------------------
(* The shape of each action *)

\* A step that touches neither the counters nor the tracked packets is quiet.
LEMMA StillIsQuiet == StillStep => QuietStep
BY DEF StillStep, QuietStep

\* Packets that are resent are on the network already.
LEMMA ResendIsQuiet ==
    ASSUME TrackInv, NEW e \in End, NEW kept \in SUBSET DOMAIN sentPackets[e],
           NEW resent \in SUBSET kept, ResendStep(e, kept, resent)
    PROVE  network' = network
BY DEF TrackInv, ResendStep

\* sendDataChunk sends the next chunk and tracks it.
LEMMA WriteChunkSends ==
    ASSUME ChannelInv, ~SendMayFail, NEW e \in End, WriteChunk(e)
    PROVE  used[e] + 1 \in Payload /\ SendStep(e, used[e] + 1)
<1> DEFINE pkt == DataPacket(e, sendSeq[e], recvSeq[e], used[e] + 1)
<1>1. TypeInv /\ CountInv
  BY DEF ChannelInv, NumberInv
<1>2. /\ sentPackets' = [sentPackets EXCEPT ![e] = track(@, pkt)]
      /\ used' = [used EXCEPT ![e] = @ + 1]
      /\ network' = network \cup {pkt}
      /\ sendSeq' = [sendSeq EXCEPT ![e] = seqAdd(@, 1)]
      /\ sentLog' = [sentLog EXCEPT ![e] = Append(@, pkt.pay)]
      /\ writeLeft' = [writeLeft EXCEPT ![e] = @ - 1]
      /\ UNCHANGED <<lifeVars, ackThrough, recvVars, recvLog>>
  BY DEF WriteChunk
<1>3. pkt.pay = used[e] + 1
  BY DEF DataPacket
<1> HIDE DEF pkt
<1>4. /\ DOMAIN writeLeft = End /\ DOMAIN used = End
      /\ \A f \in End : writeLeft[f] \in Nat /\ used[f] \in Nat /\ MaxSent[f] \in Nat
  BY <1>1, ConstantsAssumption DEF TypeInv, TypeOK, WriteType, HistType
<1>5. used[e] + 1 \in Payload
  BY <1>4 DEF Payload, Chunk
<1>6. \A f \in End : used'[f] + writeLeft'[f] <= MaxSent[f]
  <2>1. /\ \A f \in End : used[f] + writeLeft[f] <= MaxSent[f]
        /\ used'[e] = used[e] + 1 /\ writeLeft'[e] = writeLeft[e] - 1
        /\ \A f \in End : f # e => used'[f] = used[f] /\ writeLeft'[f] = writeLeft[f]
    BY <1>1, <1>2, <1>4 DEF CountInv
  <2>2. used'[e] + writeLeft'[e] <= MaxSent[e]
    BY <1>4, <2>1
  <2> QED BY <2>1, <2>2
<1>7. UNCHANGED <<recvSeq, recvLog, outOfOrderPackets, ackThrough, timer>>
  BY <1>2 DEF recvVars, lifeVars
<1> QED BY <1>2, <1>3, <1>5, <1>6, <1>7 DEF SendStep, pkt

\* A probe takes the next number and is not tracked.
LEMMA PersistProbeSends ==
    ASSUME ChannelInv, NEW e \in End, PersistProbe(e)
    PROVE  ProbeByte \in Payload /\ SendStep(e, ProbeByte)
<1>1. TypeInv /\ CountInv
  BY DEF ChannelInv, NumberInv
<1>2. /\ network' = network \cup {DataPacket(e, sendSeq[e], recvSeq[e], ProbeByte)}
      /\ sendSeq' = [sendSeq EXCEPT ![e] = seqAdd(@, 1)]
      /\ used' = [used EXCEPT ![e] = @ + 1]
      /\ sentLog' = [sentLog EXCEPT ![e] = Append(@, ProbeByte)]
      /\ used[e] + writeLeft[e] < MaxSent[e]
      /\ UNCHANGED <<lifeVars, ackThrough, sentPackets, writeVars, recvVars, recvLog>>
  BY DEF PersistProbe
<1>3. UNCHANGED <<recvSeq, recvLog, outOfOrderPackets, ackThrough, timer, sentPackets,
                  writeLeft>>
  BY <1>2 DEF lifeVars, recvVars, writeVars
<1>4. \A f \in End : used'[f] + writeLeft'[f] <= MaxSent[f]
  <2>1. DOMAIN used = End /\ \A f \in End : /\ writeLeft[f] \in Nat /\ used[f] \in Nat
                                            /\ MaxSent[f] \in Nat
    BY <1>1, ConstantsAssumption DEF TypeInv, TypeOK, WriteType, HistType
  <2>2. used[e] + 1 + writeLeft[e] <= MaxSent[e]
    BY <1>2, <2>1
  <2> QED BY <1>1, <1>2, <1>3, <2>1, <2>2 DEF CountInv
<1> QED BY <1>2, <1>3, <1>4 DEF SendStep, Payload

\* handleAckLocked releases some tracked packets and resends others.
LEMMA AckIsQuiet ==
    ASSUME ChannelInv, NEW e \in End, NEW p, handleAck(e, p)
    PROVE  QuietStep
<1>1. TypeOK /\ TrackInv
  BY DEF ChannelInv, NumberInv, TypeInv
<1>2. PICK kept \in SUBSET DOMAIN sentPackets[e] : \E resent \in SUBSET kept :
          ResendStep(e, kept, resent) /\ UNCHANGED <<recvVars, histVars>>
  BY AckResends
<1>3. PICK resent \in SUBSET kept : ResendStep(e, kept, resent)
  BY <1>2
<1>4. /\ network' = network
      /\ \A f \in End : f # e => sentPackets'[f] = sentPackets[f]
      /\ DOMAIN sentPackets'[e] = kept
      /\ \A s \in kept : sentPackets'[e][s].pkt = sentPackets[e][s].pkt
  BY <1>1, <1>3, ResendTracks, ResendIsQuiet
<1>5. UNCHANGED <<sentLog, recvLog, outOfOrderPackets>>
  BY <1>2 DEF recvVars, histVars
<1> QED BY <1>4, <1>5, SameNetwork DEF QuietStep

\* checkRetransmissions resends what is tracked.
LEMMA RetransmitIsQuiet ==
    ASSUME ChannelInv, NEW e \in End, RetransmitTimeout(e)
    PROVE  QuietStep
<1> DEFINE kept == DOMAIN sentPackets[e]
<1>1. TypeOK /\ TrackInv /\ kept \in SUBSET DOMAIN sentPackets[e]
  BY DEF ChannelInv, NumberInv, TypeInv
<1>2. PICK resent \in SUBSET kept : ResendStep(e, kept, resent)
  BY <1>1, RetransmitEffect DEF ResendStep
<1>3. UNCHANGED <<sentLog, recvLog, outOfOrderPackets>>
  BY DEF RetransmitTimeout, checkRetransmissions, recvVars, histVars
<1> HIDE DEF kept
<1>4. /\ network' = network
      /\ \A f \in End : f # e => sentPackets'[f] = sentPackets[f]
      /\ DOMAIN sentPackets'[e] = kept
      /\ \A s \in kept : sentPackets'[e][s].pkt = sentPackets[e][s].pkt
  BY <1>1, <1>2, ResendTracks, ResendIsQuiet
<1> QED BY <1>3, <1>4, SameNetwork DEF QuietStep, kept

\* The router's reports release or resend what is tracked.
LEMMA StatusIsQuiet ==
    ASSUME ChannelInv, NEW e \in End, MessageDelivered(e) \/ MessageFailed(e)
    PROVE  QuietStep
<1>1. TypeOK /\ TrackInv
  BY DEF ChannelInv, NumberInv, TypeInv
<1>2. UNCHANGED <<recvVars, histVars>>
  BY DEF MessageDelivered, MessageFailed
<1>3. /\ \A f \in End : \A s \in DOMAIN sentPackets'[f] :
            s \in DOMAIN sentPackets[f] /\ sentPackets'[f][s].pkt = sentPackets[f][s].pkt
      /\ \A p \in network' : p \in network \/ \E s \in DOMAIN sentPackets[e] : p = sentPackets[e][s].pkt
      /\ network \subseteq network'
  BY <1>1, StatusResends
<1>4. network' = network
  BY <1>1, <1>3 DEF TrackInv
<1>5. UNCHANGED <<sentLog, recvLog, outOfOrderPackets>>
  BY <1>2 DEF recvVars, histVars
<1> QED BY <1>3, <1>4, <1>5, SameNetwork DEF QuietStep

\* The packet an end expects, and the run behind it, are what the peer sent next.
LEMMA InSequenceAccepts ==
    ASSUME ChannelInv, NEW e \in End, NEW p \in network, p.src = Peer(e),
           p.flag # "RESET", p.pay # NoPayload, handleInSequence(e, p)
    PROVE  \E xs \in Seq(Payload) : AcceptStep(e, xs)
<1> DEFINE from == seqAdd(recvSeq[e], 1)
           run(k) == RunPayloads(outOfOrderPackets[e], from, k)
           xs(k) == <<p.pay>> \o run(k)
           n == Len(recvLog[e])
           N == Len(sentLog[Peer(e)])
<1>1. /\ TypeInv /\ TypeOK /\ CountInv /\ SeqInv /\ PrefixInv /\ NetInv /\ BufferInv
      /\ p.pay \in Payload /\ recvSeq[e] \in SeqNums /\ from \in SeqNums
  <2>1. TypeInv /\ TypeOK /\ CountInv /\ SeqInv /\ PrefixInv /\ NetInv /\ BufferInv
    BY DEF ChannelInv, NumberInv, TypeInv
  <2>2. p \in Packet /\ recvSeq[e] \in SeqNums
    BY <2>1 DEF TypeOK, RecvType
  <2> QED BY <2>1, <2>2, SeqAddType, SeqSpaceAssumption DEF Packet
<1>2. PICK k \in 0 .. SeqSpace - 1 :
         /\ p.seq = recvSeq[e] /\ IsRun(outOfOrderPackets[e], from, k)
         /\ TakeStep(e, xs(k)) /\ xs(k) \in Seq(Payload) /\ Len(xs(k)) = k + 1
  BY <1>1, InSequenceTakes
<1>3. /\ Peer(e) \in End /\ n \in Nat /\ N \in Nat /\ n <= N /\ N + 2 < SeqSpace
      /\ SeqSpace \in Nat
  BY <1>1, PeerType, LogBounds, HalfFact DEF PrefixInv
<1>4. recvSeq[e] = Num(Peer(e), n + 1)
  BY <1>1 DEF SeqInv
<1>5. n + 1 <= N /\ p.pay = sentLog[Peer(e)][n + 1]
  <2>1. Genuine(sentLog[Peer(e)], Peer(e), Num(Peer(e), n + 1), p.pay)
    BY <1>1, <1>2, <1>4 DEF NetInv
  <2>2. n + 1 \in 1 .. N + 1
    BY <1>3
  <2> HIDE DEF n
  <2> QED BY <1>1, <1>3, <2>1, <2>2, GenuineIndex
<1>6. from = Num(Peer(e), n + 2) /\ n + 2 \in 1 .. N + 1
  <2>1. seqAdd(Num(Peer(e), n + 1), 1) = Num(Peer(e), n + 1 + 1)
    BY <1>3, <1>5, NumFacts
  <2>2. n + 1 + 1 = n + 2
    BY <1>3
  <2> QED BY <1>3, <1>4, <1>5, <2>1, <2>2
<1>7. run(k) \in Seq(Payload) /\ Len(run(k)) = k
  BY <1>1, <1>2, RunType
<1>8. /\ n + 2 - 1 + k <= N
      /\ \A i \in 1 .. k : run(k)[i] = sentLog[Peer(e)][n + 2 - 1 + i]
  <2> DEFINE m == n + 2
  <2>1. /\ m \in 1 .. Len(sentLog[Peer(e)]) + 1
        /\ IsRun(outOfOrderPackets[e], Num(Peer(e), m), k)
        /\ run(k) = RunPayloads(outOfOrderPackets[e], Num(Peer(e), m), k)
    BY <1>2, <1>6
  <2> HIDE DEF m, run
  <2>2. /\ m - 1 + k <= Len(sentLog[Peer(e)])
        /\ \A i \in 1 .. k : run(k)[i] = sentLog[Peer(e)][m - 1 + i]
    BY <1>1, <2>1, RunIsGenuine
  <2> QED BY <2>2 DEF m
<1> HIDE DEF run, from, n, N
<1>9. xs(k)[1] = p.pay /\ \A m \in 2 .. k + 1 : xs(k)[m] = run(k)[m - 1]
  <2>1. k \in Nat
    BY <1>3
  <2>2. <<p.pay>> \in Seq(Payload) /\ Len(<<p.pay>>) = 1 /\ <<p.pay>>[1] = p.pay
    BY <1>1
  <2> QED BY <1>7, <2>1, <2>2, ConcatProperties
<1> HIDE DEF xs
<1>10. \A m \in 1 .. Len(xs(k)) : xs(k)[m] = sentLog[Peer(e)][n + m]
  <2> TAKE m \in 1 .. Len(xs(k))
  <2>1. m \in 1 .. k + 1 /\ k \in Nat
    BY <1>2, <1>3
  <2>2. CASE m = 1
    BY <1>5, <1>9, <2>2
  <2>3. CASE m # 1
    <3>1. m \in 2 .. k + 1 /\ m - 1 \in 1 .. k /\ n + 2 - 1 + (m - 1) = n + m
      BY <1>3, <2>1, <2>3
    <3> QED BY <1>8, <1>9, <3>1
  <2> QED BY <2>2, <2>3
<1>11. n + Len(xs(k)) <= N
  BY <1>2, <1>3, <1>8
<1>12. AcceptStep(e, xs(k))
  BY <1>2, <1>10, <1>11 DEF AcceptStep, n, N
<1> QED BY <1>2, <1>12

\* Read accepts the run of buffered packets that the peer sent next.
LEMMA ReadAccepts ==
    ASSUME ChannelInv, NEW e \in End, NEW n \in 1 .. BufSize, Read(e, n)
    PROVE  \E xs \in Seq(Payload) : AcceptStep(e, xs)
<1> DEFINE xs(k) == RunPayloads(outOfOrderPackets[e], recvSeq[e], k)
           L == Len(recvLog[e])
           N == Len(sentLog[Peer(e)])
           m == L + 1
<1>1. TypeInv /\ CountInv /\ SeqInv /\ PrefixInv /\ BufferInv
  BY DEF ChannelInv, NumberInv
<1>2. PICK k \in 0 .. SeqSpace - 1 :
         /\ IsRun(outOfOrderPackets[e], recvSeq[e], k)
         /\ TakeStep(e, xs(k)) /\ xs(k) \in Seq(Payload) /\ Len(xs(k)) = k
  BY <1>1, ReadTakes
<1>3. Peer(e) \in End /\ L \in Nat /\ N \in Nat /\ L <= N /\ SeqSpace \in Nat
  BY <1>1, PeerType, LogBounds DEF PrefixInv
<1>4. recvSeq[e] = Num(Peer(e), m) /\ m \in 1 .. N + 1
  BY <1>1, <1>3 DEF SeqInv
<1> HIDE DEF m, L
<1>5. /\ m - 1 + k <= N
      /\ \A i \in 1 .. k : xs(k)[i] = sentLog[Peer(e)][m - 1 + i]
  BY <1>1, <1>2, <1>4, RunIsGenuine
<1> HIDE DEF xs, N
<1>6. \A i \in 1 .. Len(xs(k)) : xs(k)[i] = sentLog[Peer(e)][L + i]
  <2> TAKE i \in 1 .. Len(xs(k))
  <2>1. i \in 1 .. k /\ m - 1 + i = L + i
    BY <1>2, <1>3 DEF m
  <2> QED BY <1>5, <2>1
<1>7. L + Len(xs(k)) <= N
  BY <1>2, <1>3, <1>5 DEF m
<1>8. AcceptStep(e, xs(k))
  BY <1>2, <1>6, <1>7 DEF AcceptStep, L, N
<1> QED BY <1>2, <1>8

\* handleOutOfOrderPacketLocked buffers a packet that the peer sent.
LEMMA OutOfOrderBuffers ==
    ASSUME ChannelInv, NEW e \in End, NEW p \in network, p.src = Peer(e),
           p.pay # NoPayload, handleOutOfOrder(e, p)
    PROVE  BufferStep(e, p)
<1> DEFINE ooo == [s \in DOMAIN outOfOrderPackets[e] \cup {p.seq} |->
                     IF s = p.seq THEN p.pay ELSE outOfOrderPackets[e][s]]
<1>1. /\ outOfOrderPackets' = [outOfOrderPackets EXCEPT ![e] = ooo]
      /\ \E nacks : network' = network \cup {AckPacket(e, recvSeq[e], nacks, "NONE")}
      /\ UNCHANGED <<lifeVars, sendVars, writeVars, recvSeq, histVars>>
  BY DEF handleOutOfOrder
<1>2. DOMAIN outOfOrderPackets = End
  BY DEF ChannelInv, NumberInv, TypeInv, TypeOK, RecvType
<1>3. AcksNow /\ ControlOnly
  BY <1>1 DEF AcksNow, ControlOnly, AckPacket
<1>4. UNCHANGED <<sendSeq, recvSeq, sentLog, recvLog, used, writeLeft, sentPackets,
                  ackThrough, timer>>
  BY <1>1 DEF lifeVars, sendVars, writeVars, histVars
<1>5. \A f \in End : \A s \in DOMAIN outOfOrderPackets'[f] :
          \/ s \in DOMAIN outOfOrderPackets[f] /\ outOfOrderPackets'[f][s] = outOfOrderPackets[f][s]
          \/ f = e /\ s = p.seq /\ outOfOrderPackets'[f][s] = p.pay
  BY <1>1, <1>2
<1> QED BY <1>3, <1>4, <1>5 DEF BufferStep

-------------------------------------------------------------------------------
(* The invariant is inductive *)

\* The invariant holds when the handshake is done.
LEMMA ChannelInit == Init => ChannelInv
<1> SUFFICES ASSUME Init PROVE ChannelInv
  OBVIOUS
<1>1. NumberInv
  BY NumberInit
<1>2. /\ \A e \in End : /\ sentLog[e] = <<>> /\ recvLog[e] = <<>> /\ Peer(e) \in End
                        /\ DOMAIN sentPackets[e] = {} /\ DOMAIN outOfOrderPackets[e] = {}
      /\ \A p \in network : p.pay = NoPayload
  BY PeerType DEF Init, AckPacket
<1> QED BY <1>1, <1>2
        DEF ChannelInv, PrefixInv, NetInv, TrackInv, BufferInv

\* Every step has one of the four shapes.
AStep(e) == \/ QuietStep
            \/ \E x \in Payload : SendStep(e, x)
            \/ \E xs \in Seq(Payload) : AcceptStep(e, xs)
            \/ \E p \in network : BufferStep(e, p)

\* Which action has which shape.
LEMMA StepShape ==
    ASSUME ChannelInv, ~SendMayFail, [Next]_vars
    PROVE  \E e \in End : AStep(e)
<1>0. TypeInv /\ CountInv
  BY DEF ChannelInv, NumberInv
<1>1. CASE UNCHANGED vars
  <2>1. "client" \in End
    BY DEF End
  <2> QED BY <1>0, <1>1, <2>1, ControlIsStill, StillIsQuiet DEF AStep
<1>2. CASE Next
  <2> SUFFICES ASSUME NEW e \in End,
           \/ \E n \in 1 .. MaxWriteChunks : Write(e, n)
           \/ WriteChunk(e) \/ WindowWait(e) \/ WriteResume(e) \/ WriteAbort(e)
           \/ \E n \in 1 .. BufSize : Read(e, n)
           \/ ReceiveFinalAck(e) \/ ReceiveAck(e) \/ ReceiveInSequence(e) \/ ReceiveOld(e)
           \/ ReceiveOutOfOrder(e) \/ ReceiveClose(e) \/ ReceiveReset(e) \/ AnswerUnknown(e)
           \/ RetransmitTimeout(e) \/ GiveUp(e) \/ KeepAlive(e)
           \/ ChokeExpires(e) \/ PersistProbe(e)
           \/ MessageDelivered(e) \/ MessageFailed(e)
           \/ Close(e)
         PROVE AStep(e)
    BY <1>2 DEF Next
  <2>1. \A p \in Arriving(e) : p \in network /\ p.src = Peer(e)
    BY DEF Arriving
  <2>2. CASE \/ \E n \in 1 .. MaxWriteChunks : Write(e, n)
             \/ WindowWait(e) \/ WriteResume(e) \/ WriteAbort(e)
    BY <1>0, <2>2, WriteIsStill, StillIsQuiet DEF AStep
  <2>3. CASE WriteChunk(e)
    BY <2>3, WriteChunkSends DEF AStep
  <2>4. CASE PersistProbe(e)
    BY <2>4, PersistProbeSends DEF AStep
  <2>5. CASE \E n \in 1 .. BufSize : Read(e, n)
    BY <2>5, ReadAccepts DEF AStep
  <2>6. CASE ReceiveFinalAck(e)
    <3>1. PICK p \in Arriving(e) : Kind(e, p) = "FINAL_ACK" /\ handleFinalAck(e, p)
      BY <2>6 DEF ReceiveFinalAck
    <3>2. p.flag # "RESET"
      BY <3>1 DEF Kind
    <3> QED BY <1>0, <2>1, <3>1, <3>2, FinalAckIsStill, StillIsQuiet DEF AStep
  <2>7. CASE ReceiveAck(e)
    <3>1. PICK p \in Arriving(e) : Kind(e, p) = "ACK" /\ handleAck(e, p)
      BY <2>7 DEF ReceiveAck
    <3>2. p.flag # "RESET"
      BY <3>1 DEF Kind
    <3> QED BY <2>1, <3>1, <3>2, AckIsQuiet DEF AStep
  <2>8. CASE ReceiveInSequence(e)
    <3>1. PICK p \in Arriving(e) : Kind(e, p) = "DATA" /\ handleInSequence(e, p)
      BY <2>8 DEF ReceiveInSequence
    <3>2. TypeOK
      BY DEF ChannelInv, NumberInv, TypeInv
    <3>3. p.flag # "RESET" /\ p.pay # NoPayload
      BY <2>1, <3>1, <3>2, KindData
    <3> QED BY <2>1, <3>1, <3>3, InSequenceAccepts DEF AStep
  <2>9. CASE ReceiveOutOfOrder(e)
    <3>1. PICK p \in Arriving(e) : Kind(e, p) = "DATA" /\ handleOutOfOrder(e, p)
      BY <2>9 DEF ReceiveOutOfOrder
    <3>2. TypeOK
      BY DEF ChannelInv, NumberInv, TypeInv
    <3>3. p.pay # NoPayload
      BY <2>1, <3>1, <3>2, KindData
    <3> QED BY <2>1, <3>1, <3>3, OutOfOrderBuffers DEF AStep
  <2>10. CASE RetransmitTimeout(e)
    BY <2>10, RetransmitIsQuiet DEF AStep
  <2>11. CASE MessageDelivered(e) \/ MessageFailed(e)
    BY <2>11, StatusIsQuiet DEF AStep
  <2>12. CASE Close(e) \/ GiveUp(e)
    BY <1>0, <2>12, CloseIsStill, StillIsQuiet DEF AStep
  <2>13. CASE \/ ReceiveOld(e) \/ ReceiveClose(e) \/ ReceiveReset(e) \/ AnswerUnknown(e)
              \/ KeepAlive(e) \/ ChokeExpires(e)
    <3>1. \/ handleClose(e) \/ handleReset(e) \/ AnswerUnknown(e) \/ KeepAlive(e)
          \/ ChokeExpires(e) \/ UNCHANGED vars
      BY <2>13 DEF ReceiveOld, handleOld, ReceiveClose, ReceiveReset
    <3> QED BY <1>0, <3>1, ControlIsStill, StillIsQuiet DEF AStep
  <2> QED
    BY <2>2, <2>3, <2>4, <2>5, <2>6, <2>7, <2>8, <2>9, <2>10, <2>11, <2>12, <2>13
<1> QED BY <1>1, <1>2

\* Every step preserves the invariant.
LEMMA ChannelNext == ChannelInv /\ ~SendMayFail /\ [Next]_vars => ChannelInv'
<1> SUFFICES ASSUME ChannelInv, ~SendMayFail, [Next]_vars PROVE ChannelInv'
  OBVIOUS
<1>1. NumberInv'
  BY NumberNext DEF ChannelInv
<1>2. PICK e \in End : AStep(e)
  BY StepShape
<1> QED BY <1>1, <1>2, QuietKeeps, SendKeeps, AcceptKeeps, BufferKeeps DEF AStep

-------------------------------------------------------------------------------
(* The theorems *)

\* The inductive invariant holds throughout.
LEMMA Invariance == ASSUME ~SendMayFail PROVE Spec => []ChannelInv
<1>1. ChannelInv /\ [Next]_vars => ChannelInv'
  BY ChannelNext
<1> QED BY <1>1, ChannelInit, PTL DEF Spec

\* What an end has accepted is a prefix of what its peer has sent: whatever the
\* network loses, repeats, delays or reorders, handleDataLocked and
\* deliverBufferedPacketsLocked accept the peer's packets once and in order.
THEOREM PrefixCorrect == ASSUME ~SendMayFail PROVE Spec => []AcceptedIsPrefix
<1>1. ChannelInv => AcceptedIsPrefix
  <2> SUFFICES ASSUME ChannelInv, NEW e \in End PROVE IsPrefix(recvLog[e], sentLog[Peer(e)])
    BY DEF AcceptedIsPrefix
  <2>1. recvLog[e] \in Seq(Payload) /\ sentLog[Peer(e)] \in Seq(Payload)
    BY PeerType DEF ChannelInv, NumberInv, TypeInv, TypeOK, HistType
  <2>2. /\ Len(recvLog[e]) <= Len(sentLog[Peer(e)])
        /\ \A i \in 1 .. Len(recvLog[e]) : recvLog[e][i] = sentLog[Peer(e)][i]
    BY DEF ChannelInv, NumberInv, PrefixInv
  <2> QED BY <2>1, <2>2, PrefixByItems
<1> QED BY <1>1, Invariance, PTL

\* Without probes the chunks of a log are its packets, so what is read of what was
\* accepted is a prefix of what was written.
LEMMA ReadOfAccepted ==
    ASSUME ChannelInv, ReadsAccepted, \A e \in End : NoProbe(e)
    PROVE  ReadIsPrefix
<1> SUFFICES ASSUME NEW e \in End
             PROVE  LET sent   == sentLog[Peer(e)]
                        chunks == {i \in DOMAIN sent : sent[i] # ProbeByte}
                        nth(i) == Cardinality({j \in chunks : j <= i})
                    IN  /\ Len(readLog[e]) <= Cardinality(chunks)
                        /\ \A i \in chunks :
                              nth(i) <= Len(readLog[e]) => readLog[e][nth(i)] = sent[i]
  BY DEF ReadIsPrefix
<1> DEFINE sent == sentLog[Peer(e)]
           read == readLog[e]
           chunks == {i \in DOMAIN sent : sent[i] # ProbeByte}
           nth(i) == Cardinality({j \in chunks : j <= i})
<1>1. /\ sent \in Seq(Payload) /\ read \in Seq(Payload) /\ recvBuf[e].data \in Seq(Payload)
      /\ recvLog[e] = read \o recvBuf[e].data /\ Peer(e) \in End
  BY PeerType DEF ChannelInv, NumberInv, TypeInv, TypeOK, RecvType, HistType, ReadsAccepted
<1>2. /\ Len(recvLog[e]) <= Len(sent)
      /\ \A i \in 1 .. Len(recvLog[e]) : recvLog[e][i] = sent[i]
  BY DEF ChannelInv, PrefixInv
<1>3. \A i \in 1 .. Len(sent) : sent[i] # ProbeByte
  BY <1>1 DEF NoProbe
<1> HIDE DEF sent, read
<1>4. DOMAIN sent = 1 .. Len(sent) /\ Len(sent) \in Nat /\ Len(read) \in Nat
  BY <1>1, LenProperties
<1>5. chunks = 1 .. Len(sent)
  BY <1>3, <1>4
<1>6. Cardinality(chunks) = Len(sent)
  <2>1. \A n \in Nat : Cardinality(1 .. n) = n
    BY FS_Interval
  <2> HIDE DEF chunks
  <2> QED BY <1>4, <1>5, <2>1
<1>7. \A i \in chunks : nth(i) = i
  <2> TAKE i \in chunks
  <2>1. i \in 1 .. Len(sent) /\ i \in Nat
    BY <1>4, <1>5
  <2>2. {j \in chunks : j <= i} = 1 .. i
    BY <1>4, <1>5, <2>1
  <2>3. Cardinality(1 .. i) = i
    BY <2>1, FS_Interval
  <2> QED BY <2>2, <2>3
<1>8. /\ Len(read) <= Len(recvLog[e])
      /\ \A i \in 1 .. Len(read) : recvLog[e][i] = read[i]
  <2>1. /\ Len(read \o recvBuf[e].data) = Len(read) + Len(recvBuf[e].data)
        /\ \A i \in 1 .. Len(read) : (read \o recvBuf[e].data)[i] = read[i]
        /\ Len(recvBuf[e].data) \in Nat
    BY <1>1, ConcatProperties, LenProperties
  <2> QED BY <1>1, <1>4, <2>1
<1>9. Len(recvLog[e]) \in Nat
  BY LogBounds DEF ChannelInv, NumberInv
<1>10. Len(read) <= Cardinality(chunks)
  <2> HIDE DEF chunks
  <2> QED BY <1>2, <1>4, <1>6, <1>8, <1>9
<1>11. \A i \in chunks : nth(i) <= Len(read) => read[nth(i)] = sent[i]
  <2> SUFFICES ASSUME NEW i \in chunks, i <= Len(read) PROVE read[i] = sent[i]
    BY <1>7
  <2>1. i \in 1 .. Len(read) /\ i \in 1 .. Len(recvLog[e])
    BY <1>4, <1>5, <1>8, <1>9
  <2> QED BY <1>2, <1>8, <2>1
<1> QED BY <1>10, <1>11 DEF sent, read

\* The application reads what the application of the peer wrote, chunk by chunk and in
\* order, from the first Write to the last Read: through sendDataChunk, a network that
\* loses, repeats and reorders, the two buffers of the receiver and short Reads, until
\* a receive buffer overflows or a probe is sent (the run overflow shows what happens
\* then).
THEOREM ReadIsWritten ==
    ASSUME ~SendMayFail
    PROVE  Spec => ([](BufferFits /\ \A e \in End : NoProbe(e)) => []ReadIsPrefix)
<1> DEFINE Calm == \A e \in End : NoProbe(e)
<1>1. ChannelInv /\ ReadsAccepted /\ Calm => ReadIsPrefix
  BY ReadOfAccepted
<1> HIDE DEF Calm
<1>2. Spec => ([](BufferFits /\ Calm) => []ReadIsPrefix)
  BY <1>1, Invariance, ReadCorrect, PTL DEF ReadUntilOverflow
<1> QED BY <1>2 DEF Calm

\* The connection implements an ordered channel in each direction: every step of
\* the two StreamConns sends one packet, accepts the next packets of the peer's
\* log, or changes neither.
THEOREM Refinement == ASSUME ~SendMayFail PROVE Spec => ImplementsChannel
<1>1. Init => Channel!Init
  BY DEF Init, Channel!Init
<1>2. ChannelInv /\ [Next]_vars => [Channel!Next]_<<sentLog, recvLog>>
  <2> SUFFICES ASSUME ChannelInv, [Next]_vars
               PROVE  Channel!Next \/ UNCHANGED <<sentLog, recvLog>>
    OBVIOUS
  <2>0. /\ TypeInv /\ CountInv /\ PrefixInv
        /\ \A f \in End : sentLog[f] \in Seq(Payload) /\ recvLog[f] \in Seq(Payload)
        /\ recvLog \in [End -> Seq(Payload)]
    BY DEF ChannelInv, NumberInv, TypeInv, TypeOK, HistType
  <2>1. PICK e \in End : AStep(e)
    BY StepShape
  <2>2. CASE QuietStep \/ \E p \in network : BufferStep(e, p)
    BY <2>2 DEF QuietStep, BufferStep
  <2>3. CASE \E x \in Payload : SendStep(e, x)
    <3>1. PICK x \in Payload : SendStep(e, x)
      BY <2>3
    <3>2. x \in {ProbeByte} \cup 1 .. MaxSent["client"] + MaxSent["server"]
      <4>1. used[e] \in Nat /\ used'[e] = used[e] + 1 /\ writeLeft'[e] \in Nat
        <5>1. used \in [End -> Nat] /\ writeLeft' \in [End -> Nat]
          BY <2>0, TypeNext DEF TypeInv, TypeOK, HistType, WriteType
        <5> QED BY <3>1, <5>1 DEF SendStep
      <4>2. used'[e] + writeLeft'[e] <= MaxSent[e]
        BY <3>1 DEF SendStep
      <4>3. /\ MaxSent["client"] \in Nat /\ MaxSent["server"] \in Nat
            /\ MaxSent[e] <= MaxSent["client"] + MaxSent["server"]
        BY ConstantsAssumption DEF End
      <4>4. MaxSent[e] \in Nat
        BY ConstantsAssumption
      <4> QED BY <3>1, <4>1, <4>2, <4>3, <4>4 DEF SendStep
    <3> QED BY <3>1, <3>2 DEF SendStep, Channel!Next, Channel!Send
  <2>4. CASE \E xs \in Seq(Payload) : AcceptStep(e, xs)
    <3>1. PICK xs \in Seq(Payload) : AcceptStep(e, xs)
      BY <2>4
    <3>2. /\ Len(recvLog[e]) + Len(xs) <= Len(sentLog[Peer(e)])
          /\ recvLog' = [recvLog EXCEPT ![e] = @ \o xs] /\ sentLog' = sentLog
      BY <3>1 DEF AcceptStep, TakeStep
    <3>3. Peer(e) \in End /\ Len(xs) \in Nat /\ Len(recvLog[e]) \in Nat
      BY <2>0, PeerType, LenProperties
    <3>4. CASE xs = <<>>
      <4>1. recvLog[e] \o xs = recvLog[e]
        BY <2>0, <3>4, ConcatEmptySeq
      <4> QED BY <2>0, <3>2, <4>1
    <3>5. CASE xs # <<>>
      <4>1. Len(xs) > 0
        BY <3>3, <3>5, EmptySeq
      <4> DEFINE n == Len(recvLog[e]) + Len(xs)
      <4>2. n \in Len(recvLog[e]) + 1 .. Len(sentLog[Peer(e)])
        BY <2>0, <3>2, <3>3, <4>1, LenProperties
      <4>3. recvLog[e] \o xs = SubSeq(sentLog[Peer(e)], 1, n)
        <5>1. ChannelInv'
          BY ChannelNext
        <5>2. /\ recvLog'[e] = recvLog[e] \o xs /\ recvLog'[e] \in Seq(Payload)
              /\ Len(recvLog'[e]) = n
          BY <2>0, <3>2, ConcatProperties
        <5>3. /\ sentLog[Peer(e)] \in Seq(Payload)
              /\ \A i \in 1 .. Len(recvLog'[e]) : recvLog'[e][i] = sentLog[Peer(e)][i]
              /\ Len(recvLog'[e]) <= Len(sentLog[Peer(e)])
          BY <2>0, <3>2, <3>3, <5>1 DEF ChannelInv, NumberInv, PrefixInv
        <5> HIDE DEF n
        <5>4. recvLog'[e] = SubSeq(sentLog[Peer(e)], 1, Len(recvLog'[e]))
          BY <5>2, <5>3, PrefixByItems
        <5> QED BY <5>2, <5>4
      <4> HIDE DEF n
      <4> QED BY <3>2, <4>2, <4>3 DEF Channel!Next, Channel!Accept
    <3> QED BY <3>4, <3>5
  <2> QED BY <2>1, <2>2, <2>3, <2>4 DEF AStep
<1> QED BY <1>1, <1>2, Invariance, PTL DEF Spec, ImplementsChannel, Channel!Spec

-------------------------------------------------------------------------------
(* The sender, whether or not the router accepts its packets *)

\* A packet is released because the peer acknowledged it, or the router reported it.
ReleasedByAck ==
    \A f \in End :
       /\ \A s \in DOMAIN sentPackets'[f] :
             s \in DOMAIN sentPackets[f] /\ sentPackets'[f][s].pkt = sentPackets[f][s].pkt
       /\ \A s \in DOMAIN sentPackets[f] :
             \/ s \in DOMAIN sentPackets'[f]
             \/ StatusReports
             \/ \E p \in network : /\ p.src = Peer(f) /\ p.flag # "RESET"
                                   /\ seqLessThanOrEqual(s, p.ack) /\ ackThrough'[f] = p.ack

\* No number is taken; data that goes to the network again is tracked.
KeepStep ==
    /\ UNCHANGED <<sentLog, used>> /\ ReleasedByAck /\ network \subseteq network'
    /\ \A r \in network' \ network : r.pay # NoPayload =>
          \E f \in End : \E s \in DOMAIN sentPackets'[f] : r = sentPackets'[f][s].pkt

\* A chunk is tracked under the next number; it takes the number unless the router
\* refuses it.
TryStep(e) ==
    LET pkt == DataPacket(e, sendSeq[e], recvSeq[e], used[e] + 1)
    IN  /\ inFlight(e) < cwnd[e]
        /\ sentPackets' = [sentPackets EXCEPT ![e] = track(@, pkt)]
        /\ \/ UNCHANGED <<sentLog, network>>
           \/ /\ sentLog' = [sentLog EXCEPT ![e] = Append(@, used[e] + 1)]
              /\ network' = network \cup {pkt}
        /\ UNCHANGED ackThrough

\* A probe takes the next number and is not tracked.
ProbeStep(e) ==
    /\ sentLog' = [sentLog EXCEPT ![e] = Append(@, ProbeByte)]
    /\ network' = network \cup {DataPacket(e, sendSeq[e], recvSeq[e], ProbeByte)}
    /\ UNCHANGED <<sentPackets, ackThrough>>

\* handleAckLocked releases what is acknowledged and resends what stays tracked.
LEMMA AckKeeps ==
    ASSUME TypeOK, NEW e \in End, NEW p \in network, p.src = Peer(e), p.flag # "RESET",
           handleAck(e, p)
    PROVE  KeepStep
<1>1. DOMAIN ackThrough = End
  BY DEF TypeOK, SendType
<1>2. PICK kept \in SUBSET DOMAIN sentPackets[e] : \E resent \in SUBSET kept :
          /\ ResendStep(e, kept, resent)
          /\ \A s \in DOMAIN sentPackets[e] \ kept : seqLessThanOrEqual(s, p.ack)
          /\ kept # DOMAIN sentPackets[e] => ackThrough' = [ackThrough EXCEPT ![e] = p.ack]
          /\ UNCHANGED <<recvVars, histVars>>
  BY AckResends
<1>3. PICK resent \in SUBSET kept : ResendStep(e, kept, resent)
  BY <1>2
<1>4. /\ \A f \in End : f # e => sentPackets'[f] = sentPackets[f]
      /\ DOMAIN sentPackets'[e] = kept
      /\ \A s \in kept : sentPackets'[e][s].pkt = sentPackets[e][s].pkt
  BY <1>3, ResendTracks
<1>5. \A s \in DOMAIN sentPackets[e] \ kept : ackThrough'[e] = p.ack /\ seqLessThanOrEqual(s, p.ack)
  BY <1>1, <1>2
<1>6. ReleasedByAck
  BY <1>4, <1>5 DEF ReleasedByAck
<1>7. network' = network \cup {sentPackets[e][s].pkt : s \in resent}
  BY <1>3 DEF ResendStep
<1>8. UNCHANGED <<sentLog, used>>
  BY <1>2 DEF histVars
<1> QED BY <1>4, <1>6, <1>7, <1>8 DEF KeepStep

\* checkRetransmissions releases nothing.
LEMMA TimeoutKeeps ==
    ASSUME TypeOK, NEW e \in End, RetransmitTimeout(e)
    PROVE  KeepStep
<1> DEFINE kept == DOMAIN sentPackets[e]
<1>1. kept \in SUBSET DOMAIN sentPackets[e]
  OBVIOUS
<1>2. PICK resent \in SUBSET kept : ResendStep(e, kept, resent)
  BY <1>1, RetransmitEffect DEF ResendStep
<1>3. UNCHANGED <<sentLog, used>>
  BY DEF RetransmitTimeout, checkRetransmissions, histVars
<1> HIDE DEF kept
<1>4. /\ \A f \in End : f # e => sentPackets'[f] = sentPackets[f]
      /\ DOMAIN sentPackets'[e] = kept
      /\ \A s \in kept : sentPackets'[e][s].pkt = sentPackets[e][s].pkt
  BY <1>1, <1>2, ResendTracks
<1>5. ReleasedByAck
  BY <1>4 DEF ReleasedByAck, kept
<1>6. network' = network \cup {sentPackets[e][s].pkt : s \in resent}
  BY <1>2 DEF ResendStep
<1> QED BY <1>3, <1>4, <1>5, <1>6 DEF KeepStep

\* The router's reports release or resend.
LEMMA StatusKeeps ==
    ASSUME TypeOK, NEW e \in End, MessageDelivered(e) \/ MessageFailed(e)
    PROVE  KeepStep
<1>1. StatusReports /\ UNCHANGED <<sentLog, used>>
  BY DEF MessageDelivered, MessageFailed, histVars
<1>2. /\ \A f \in End : \A s \in DOMAIN sentPackets'[f] :
            s \in DOMAIN sentPackets[f] /\ sentPackets'[f][s].pkt = sentPackets[f][s].pkt
      /\ network \subseteq network'
  BY StatusResends
<1>3. ReleasedByAck
  BY <1>1, <1>2 DEF ReleasedByAck
<1>4. \A r \in network' \ network : \E s \in DOMAIN sentPackets'[e] : r = sentPackets'[e][s].pkt
  <2>1. CASE MessageDelivered(e)
    BY <2>1 DEF MessageDelivered
  <2>2. CASE MessageFailed(e)
    <3>1. PICK s \in DOMAIN sentPackets[e] :
             /\ sentPackets' = [sentPackets EXCEPT ![e][s] = bump(sentPackets[e][s])]
             /\ network' = network \/ network' = network \cup {bump(sentPackets[e][s]).pkt}
      BY <2>2 DEF MessageFailed
    <3>2. DOMAIN sentPackets = End
      BY DEF TypeOK, SendType
    <3>3. s \in DOMAIN sentPackets'[e] /\ sentPackets'[e][s] = bump(sentPackets[e][s])
      BY <3>1, <3>2
    <3> QED BY <3>1, <3>3
  <2> QED BY <2>1, <2>2
<1> QED BY <1>1, <1>2, <1>3, <1>4 DEF KeepStep

\* What every step does to the numbers, the tracked packets and the network.
LEMMA SenderShape ==
    ASSUME TypeInv, CountInv, [Next]_vars
    PROVE  KeepStep \/ \E e \in End : TryStep(e) \/ ProbeStep(e)
<1>0. TypeOK
  BY DEF TypeInv
<1>1. StillStep => KeepStep
  BY DEF StillStep, KeepStep, ReleasedByAck, AcksNow, ControlOnly
<1>2. ASSUME NEW e \in End, NEW xs, TakeStep(e, xs) PROVE KeepStep
  BY <1>2 DEF TakeStep, KeepStep, ReleasedByAck, AcksNow, ControlOnly
<1>3. CASE UNCHANGED vars
  <2>1. "client" \in End
    BY DEF End
  <2> QED BY <1>1, <1>3, <2>1, ControlIsStill
<1>4. CASE Next
  <2> SUFFICES ASSUME NEW e \in End,
           \/ \E n \in 1 .. MaxWriteChunks : Write(e, n)
           \/ WriteChunk(e) \/ WindowWait(e) \/ WriteResume(e) \/ WriteAbort(e)
           \/ \E n \in 1 .. BufSize : Read(e, n)
           \/ ReceiveFinalAck(e) \/ ReceiveAck(e) \/ ReceiveInSequence(e) \/ ReceiveOld(e)
           \/ ReceiveOutOfOrder(e) \/ ReceiveClose(e) \/ ReceiveReset(e) \/ AnswerUnknown(e)
           \/ RetransmitTimeout(e) \/ GiveUp(e) \/ KeepAlive(e)
           \/ ChokeExpires(e) \/ PersistProbe(e)
           \/ MessageDelivered(e) \/ MessageFailed(e)
           \/ Close(e)
         PROVE KeepStep \/ TryStep(e) \/ ProbeStep(e)
    BY <1>4 DEF Next
  <2>1. \A p \in Arriving(e) : p \in network /\ p.src = Peer(e)
    BY DEF Arriving
  <2>2. CASE \/ \E n \in 1 .. MaxWriteChunks : Write(e, n)
             \/ WindowWait(e) \/ WriteResume(e) \/ WriteAbort(e)
    BY <1>1, <2>2, WriteIsStill
  <2>3. CASE WriteChunk(e)
    <3> DEFINE pkt == DataPacket(e, sendSeq[e], recvSeq[e], used[e] + 1)
    <3>1. pkt.pay = used[e] + 1
      BY DEF DataPacket
    <3> QED BY <2>3, <3>1 DEF WriteChunk, TryStep
  <2>4. CASE PersistProbe(e)
    BY <2>4 DEF PersistProbe, ProbeStep
  <2>5. CASE \E n \in 1 .. BufSize : Read(e, n)
    BY <1>2, <2>5, ReadTakes
  <2>6. CASE ReceiveFinalAck(e)
    <3>1. PICK p \in Arriving(e) : Kind(e, p) = "FINAL_ACK" /\ handleFinalAck(e, p)
      BY <2>6 DEF ReceiveFinalAck
    <3>2. p.flag # "RESET"
      BY <3>1 DEF Kind
    <3> QED BY <1>1, <2>1, <3>1, <3>2, FinalAckIsStill
  <2>7. CASE ReceiveAck(e)
    <3>1. PICK p \in Arriving(e) : Kind(e, p) = "ACK" /\ handleAck(e, p)
      BY <2>7 DEF ReceiveAck
    <3>2. p.flag # "RESET"
      BY <3>1 DEF Kind
    <3> QED BY <1>0, <2>1, <3>1, <3>2, AckKeeps
  <2>8. CASE ReceiveInSequence(e)
    <3>1. PICK p \in Arriving(e) : Kind(e, p) = "DATA" /\ handleInSequence(e, p)
      BY <2>8 DEF ReceiveInSequence
    <3>2. p.flag # "RESET" /\ p.pay # NoPayload
      BY <1>0, <2>1, <3>1, KindData
    <3> QED BY <1>2, <2>1, <3>1, <3>2, InSequenceTakes
  <2>9. CASE ReceiveOutOfOrder(e)
    <3>1. /\ \E nacks : network' = network \cup {AckPacket(e, recvSeq[e], nacks, "NONE")}
          /\ UNCHANGED <<sentPackets, sentLog, used>>
      BY <2>9 DEF ReceiveOutOfOrder, handleOutOfOrder, sendVars, histVars
    <3> QED BY <3>1 DEF KeepStep, ReleasedByAck, AckPacket
  <2>10. CASE RetransmitTimeout(e)
    BY <1>0, <2>10, TimeoutKeeps
  <2>11. CASE MessageDelivered(e) \/ MessageFailed(e)
    BY <1>0, <2>11, StatusKeeps
  <2>12. CASE Close(e) \/ GiveUp(e)
    BY <1>1, <2>12, CloseIsStill
  <2>13. CASE \/ ReceiveOld(e) \/ ReceiveClose(e) \/ ReceiveReset(e) \/ AnswerUnknown(e)
              \/ KeepAlive(e) \/ ChokeExpires(e)
    <3>1. \/ handleClose(e) \/ handleReset(e) \/ AnswerUnknown(e) \/ KeepAlive(e)
          \/ ChokeExpires(e) \/ UNCHANGED vars
      BY <2>13 DEF ReceiveOld, handleOld, ReceiveClose, ReceiveReset
    <3> QED BY <1>1, <3>1, ControlIsStill
  <2> QED
    BY <2>2, <2>3, <2>4, <2>5, <2>6, <2>7, <2>8, <2>9, <2>10, <2>11, <2>12, <2>13
<1> QED BY <1>3, <1>4

\* A log after a number has been taken.
LEMMA AppendedLog ==
    ASSUME TypeInv, NEW e \in End, NEW x \in Payload,
           sentLog' = [sentLog EXCEPT ![e] = Append(@, x)]
    PROVE  /\ Len(sentLog[e]) \in Nat /\ Len(sentLog'[e]) = Len(sentLog[e]) + 1
           /\ sentLog'[e][Len(sentLog[e]) + 1] = x
           /\ \A i \in 1 .. Len(sentLog[e]) : sentLog'[e][i] = sentLog[e][i]
           /\ \A f \in End \ {e} : sentLog'[f] = sentLog[f]
<1>1. sentLog \in [End -> Seq(Payload)]
  BY DEF TypeInv, TypeOK, HistType
<1>2. sentLog'[e] = Append(sentLog[e], x) /\ sentLog[e] \in Seq(Payload)
  BY <1>1
<1> QED BY <1>1, <1>2, AppendProperties, LenProperties

\* What WriteChunk tracks is a chunk with the next number.
LEMMA TriedPacket ==
    ASSUME TypeInv, SeqInv, NEW e \in End, TryStep(e)
    PROVE  LET pkt == DataPacket(e, sendSeq[e], recvSeq[e], used[e] + 1)
           IN  /\ pkt.src = e /\ pkt.seq = Num(e, Len(sentLog[e]) + 1)
               /\ pkt.pay = used[e] + 1 /\ used[e] + 1 \in Chunk
               /\ DOMAIN sentPackets'[e] = DOMAIN sentPackets[e] \cup {pkt.seq}
               /\ sentPackets'[e][pkt.seq].pkt = pkt
               /\ \A s \in DOMAIN sentPackets[e] \ {pkt.seq} : sentPackets'[e][s] = sentPackets[e][s]
               /\ \A f \in End \ {e} : sentPackets'[f] = sentPackets[f]
<1> DEFINE pkt == DataPacket(e, sendSeq[e], recvSeq[e], used[e] + 1)
<1>1. pkt.src = e /\ pkt.seq = Num(e, Len(sentLog[e]) + 1) /\ pkt.pay = used[e] + 1
  BY DEF DataPacket, SeqInv
<1>2. used[e] + 1 \in Chunk /\ DOMAIN sentPackets = End
  BY DEF TypeInv, TypeOK, HistType, SendType, Chunk
<1>3. sentPackets' = [sentPackets EXCEPT ![e] = track(@, pkt)]
  BY DEF TryStep
<1> HIDE DEF pkt
<1>4. sentPackets'[e] = track(sentPackets[e], pkt)
      /\ \A f \in End \ {e} : sentPackets'[f] = sentPackets[f]
  BY <1>2, <1>3
<1>5. /\ DOMAIN sentPackets'[e] = DOMAIN sentPackets[e] \cup {pkt.seq}
      /\ sentPackets'[e][pkt.seq].pkt = pkt
      /\ \A s \in DOMAIN sentPackets[e] \ {pkt.seq} : sentPackets'[e][s] = sentPackets[e][s]
  BY <1>4 DEF track
<1> QED BY <1>1, <1>2, <1>4, <1>5 DEF pkt

\* A tracked packet is a chunk of its end under its own number; if the number is taken
\* by a chunk, it is that chunk.
TrackedAs ==
    \A e \in End : \A s \in DOMAIN sentPackets[e] :
       /\ sentPackets[e][s].pkt.src = e /\ sentPackets[e][s].pkt.seq = s
       /\ sentPackets[e][s].pkt.pay \in Chunk
       /\ \A i \in 1 .. Len(sentLog[e]) : s = Num(e, i) /\ sentLog[e][i] # ProbeByte
             => sentPackets[e][s].pkt.pay = sentLog[e][i]

\* Data numbered s has left end e.
DataOut(e, s) == \E p \in network : p.src = e /\ p.seq = s /\ p.pay # NoPayload

\* The chunks that took a number have left, and so has whatever the peer has accepted or
\* buffered.
ChunksOut == \A e \in End : \A i \in 1 .. Len(sentLog[e]) : sentLog[e][i] # ProbeByte =>
                \E p \in network : p.src = e /\ p.seq = Num(e, i) /\ p.pay \in Chunk
AcceptedOut == \A e \in End : \A i \in 1 .. Len(recvLog[e]) : DataOut(Peer(e), Num(Peer(e), i))
BufferedOut == \A e \in End : \A s \in DOMAIN outOfOrderPackets[e] : DataOut(Peer(e), s)

\* A probe on its way took a number.
ProbesLogged == \A p \in network : NoProbe(p.src) => p.pay # ProbeByte

\* Retries overwrite the number that is still free, and no other.
LEMMA TrackedAsNext ==
    ASSUME NumberInv, TrackedAs, [Next]_vars
    PROVE  TrackedAs'
<1>0. TypeInv /\ CountInv /\ SeqInv
  BY DEF NumberInv
<1> SUFFICES ASSUME NEW f \in End, NEW s \in DOMAIN sentPackets'[f]
             PROVE  LET r == sentPackets'[f][s].pkt
                    IN  /\ r.src = f /\ r.seq = s /\ r.pay \in Chunk
                        /\ \A i \in 1 .. Len(sentLog'[f]) : s = Num(f, i) /\ sentLog'[f][i] # ProbeByte
                              => r.pay = sentLog'[f][i]
  BY DEF TrackedAs, Num
<1>1. CASE KeepStep
  <2>1. s \in DOMAIN sentPackets[f] /\ sentPackets'[f][s].pkt = sentPackets[f][s].pkt
        /\ sentLog'[f] = sentLog[f]
    BY <1>1 DEF KeepStep, ReleasedByAck
  <2> QED BY <2>1 DEF TrackedAs
<1>2. ASSUME NEW e \in End, TryStep(e) \/ ProbeStep(e), f # e
      PROVE  sentPackets'[f] = sentPackets[f] /\ sentLog'[f] = sentLog[f]
  BY <1>0, <1>2 DEF TypeInv, TypeOK, SendType, HistType, TryStep, ProbeStep
<1>3. CASE TryStep(f)
  <2> DEFINE pkt == DataPacket(f, sendSeq[f], recvSeq[f], used[f] + 1)
             n == Len(sentLog[f])
  <2>1. /\ pkt.src = f /\ pkt.seq = Num(f, n + 1)
        /\ pkt.pay = used[f] + 1 /\ used[f] + 1 \in Chunk
        /\ DOMAIN sentPackets'[f] = DOMAIN sentPackets[f] \cup {pkt.seq}
        /\ sentPackets'[f][pkt.seq].pkt = pkt
        /\ \A t \in DOMAIN sentPackets[f] \ {pkt.seq} : sentPackets'[f][t] = sentPackets[f][t]
    BY <1>0, <1>3, TriedPacket
  <2>2. /\ n \in Nat /\ n + 1 < SeqSpace /\ SeqSpace \in Nat
    BY <1>0, LogBounds
  <2>3. \/ sentLog'[f] = sentLog[f]
        \/ /\ Len(sentLog'[f]) = n + 1 /\ sentLog'[f][n + 1] = used[f] + 1
           /\ \A i \in 1 .. n : sentLog'[f][i] = sentLog[f][i]
    <3>1. used[f] + 1 \in Payload
      BY <2>1 DEF Payload
    <3> QED BY <1>0, <1>3, <3>1, AppendedLog DEF TryStep
  <2>4. \A i \in 1 .. n : Num(f, i) # Num(f, n + 1)
    <3>1. \A i \in 1 .. n : i \in 0 .. SeqSpace - 1 /\ n + 1 \in 0 .. SeqSpace - 1 /\ i # n + 1
      BY <2>2
    <3> QED BY <3>1, NumFacts
  <2>5. \A i \in 1 .. n + 1 : i \in 1 .. n \/ i = n + 1
    BY <2>2
  <2> HIDE DEF pkt, n
  <2>6. CASE s = pkt.seq
    <3>1. sentPackets'[f][s].pkt = pkt /\ s = Num(f, n + 1)
      BY <2>1, <2>6
    <3>2. \A i \in 1 .. Len(sentLog'[f]) : s = Num(f, i) => sentLog'[f][i] = used[f] + 1
      BY <2>3, <2>4, <2>5, <3>1 DEF n
    <3> QED BY <2>1, <2>6, <3>1, <3>2
  <2>7. CASE s # pkt.seq
    <3>1. s \in DOMAIN sentPackets[f] /\ sentPackets'[f][s] = sentPackets[f][s] /\ s # Num(f, n + 1)
      BY <2>1, <2>7
    <3>2. \A i \in 1 .. Len(sentLog'[f]) : s = Num(f, i) =>
             i \in 1 .. Len(sentLog[f]) /\ sentLog'[f][i] = sentLog[f][i]
      BY <2>3, <2>5, <3>1 DEF n
    <3> QED BY <3>1, <3>2 DEF TrackedAs
  <2> QED BY <2>6, <2>7
<1>4. CASE ProbeStep(f)
  <2>1. sentPackets'[f] = sentPackets[f]
    BY <1>4 DEF ProbeStep
  <2>2. /\ Len(sentLog[f]) \in Nat /\ Len(sentLog'[f]) = Len(sentLog[f]) + 1
        /\ sentLog'[f][Len(sentLog[f]) + 1] = ProbeByte
        /\ \A i \in 1 .. Len(sentLog[f]) : sentLog'[f][i] = sentLog[f][i]
    <3>1. ProbeByte \in Payload
      BY DEF Payload
    <3> QED BY <1>0, <1>4, <3>1, AppendedLog DEF ProbeStep
  <2>3. \A i \in 1 .. Len(sentLog'[f]) : sentLog'[f][i] # ProbeByte =>
           i \in 1 .. Len(sentLog[f]) /\ sentLog'[f][i] = sentLog[f][i]
    BY <2>2
  <2> QED BY <2>1, <2>3 DEF TrackedAs
<1> QED BY <1>0, <1>1, <1>2, <1>3, <1>4, SenderShape DEF TrackedAs

\* A number is taken together with its packet.
LEMMA ChunksOutNext ==
    ASSUME NumberInv, ChunksOut, [Next]_vars
    PROVE  ChunksOut'
<1>0. TypeInv /\ CountInv /\ SeqInv
  BY DEF NumberInv
<1> SUFFICES ASSUME NEW f \in End, NEW i \in 1 .. Len(sentLog'[f]), sentLog'[f][i] # ProbeByte
             PROVE  \E p \in network' : p.src = f /\ p.seq = Num(f, i) /\ p.pay \in Chunk
  BY DEF ChunksOut, Num
<1>1. network \subseteq network'
  BY <1>0, SenderShape DEF KeepStep, TryStep, ProbeStep
<1>2. CASE i \in 1 .. Len(sentLog[f]) /\ sentLog'[f][i] = sentLog[f][i]
  BY <1>1, <1>2 DEF ChunksOut
<1>3. CASE sentLog'[f] = sentLog[f]
  BY <1>2, <1>3
<1>4. ASSUME NEW e \in End, TryStep(e) \/ ProbeStep(e), f # e
      PROVE  sentLog'[f] = sentLog[f]
  BY <1>0, <1>4 DEF TypeInv, TypeOK, HistType, TryStep, ProbeStep
<1>5. CASE TryStep(f) /\ sentLog'[f] # sentLog[f]
  <2> DEFINE pkt == DataPacket(f, sendSeq[f], recvSeq[f], used[f] + 1)
  <2>1. /\ pkt.src = f /\ pkt.seq = Num(f, Len(sentLog[f]) + 1)
        /\ pkt.pay = used[f] + 1 /\ used[f] + 1 \in Chunk
    BY <1>0, <1>5, TriedPacket
  <2>2. used[f] + 1 \in Payload
    BY <2>1 DEF Payload
  <2>3. sentLog' = [sentLog EXCEPT ![f] = Append(@, used[f] + 1)] /\ pkt \in network'
    BY <1>5 DEF TryStep
  <2>4. /\ Len(sentLog[f]) \in Nat /\ Len(sentLog'[f]) = Len(sentLog[f]) + 1
        /\ \A h \in 1 .. Len(sentLog[f]) : sentLog'[f][h] = sentLog[f][h]
    BY <1>0, <2>2, <2>3, AppendedLog
  <2>5. i \in 1 .. Len(sentLog[f]) \/ i = Len(sentLog[f]) + 1
    BY <2>4
  <2> HIDE DEF pkt
  <2> QED BY <1>2, <2>1, <2>3, <2>4, <2>5
<1>6. CASE ProbeStep(f)
  <2>1. /\ Len(sentLog[f]) \in Nat /\ Len(sentLog'[f]) = Len(sentLog[f]) + 1
        /\ sentLog'[f][Len(sentLog[f]) + 1] = ProbeByte
        /\ \A h \in 1 .. Len(sentLog[f]) : sentLog'[f][h] = sentLog[f][h]
    <3>1. ProbeByte \in Payload
      BY DEF Payload
    <3> QED BY <1>0, <1>6, <3>1, AppendedLog DEF ProbeStep
  <2>2. i \in 1 .. Len(sentLog[f])
    BY <2>1
  <2> QED BY <1>2, <2>1, <2>2
<1>7. CASE KeepStep
  BY <1>3, <1>7 DEF KeepStep
<1> QED BY <1>0, <1>3, <1>4, <1>5, <1>6, <1>7, SenderShape

\* An end that has sent no probe by now had sent none before.
LEMMA NoProbeBefore ==
    ASSUME TypeInv, CountInv, [Next]_vars, NEW f \in End, NoProbe(f)'
    PROVE  NoProbe(f) /\ ~ProbeStep(f)
<1>1. ASSUME NEW x \in Payload, sentLog' = [sentLog EXCEPT ![f] = Append(@, x)]
      PROVE  NoProbe(f) /\ x # ProbeByte
  <2>1. /\ Len(sentLog[f]) \in Nat /\ Len(sentLog'[f]) = Len(sentLog[f]) + 1
        /\ sentLog'[f][Len(sentLog[f]) + 1] = x
        /\ \A i \in 1 .. Len(sentLog[f]) : sentLog'[f][i] = sentLog[f][i]
    BY <1>1, AppendedLog
  <2>2. /\ Len(sentLog[f]) + 1 \in 1 .. Len(sentLog'[f])
        /\ \A i \in 1 .. Len(sentLog[f]) : i \in 1 .. Len(sentLog'[f])
    BY <2>1
  <2> QED BY <2>1, <2>2 DEF NoProbe
<1>2. ASSUME sentLog'[f] = sentLog[f] PROVE NoProbe(f)
  BY <1>2 DEF NoProbe
<1>3. ProbeByte \in Payload /\ used[f] + 1 \in Payload
  BY DEF TypeInv, TypeOK, HistType, Payload, Chunk
<1>4. ~ProbeStep(f)
  BY <1>1, <1>3 DEF ProbeStep
<1>5. CASE TryStep(f)
  BY <1>1, <1>2, <1>3, <1>4, <1>5 DEF TryStep
<1>6. ASSUME NEW e \in End, TryStep(e) \/ ProbeStep(e), f # e
      PROVE  sentLog'[f] = sentLog[f]
  BY <1>6 DEF TypeInv, TypeOK, HistType, TryStep, ProbeStep
<1>7. CASE KeepStep
  BY <1>2, <1>4, <1>7 DEF KeepStep
<1> QED BY <1>2, <1>4, <1>5, <1>6, <1>7, SenderShape

\* A probe is never sent again, and what is tracked is no probe.
LEMMA ProbesLoggedNext ==
    ASSUME NumberInv, TrackedAs', ProbesLogged, [Next]_vars
    PROVE  ProbesLogged'
<1>0. TypeInv /\ CountInv /\ SeqInv /\ NumberInv'
  BY NumberNext DEF NumberInv
<1> SUFFICES ASSUME NEW p \in network', NoProbe(p.src)' PROVE p.pay # ProbeByte
  BY DEF ProbesLogged, NoProbe
<1>1. p.src \in End /\ ProbeByte \notin Chunk /\ NoPayload # ProbeByte
  BY <1>0 DEF NumberInv, TypeInv, TypeOK, Packet, Chunk, ProbeByte, NoPayload
<1>2. NoProbe(p.src) /\ ~ProbeStep(p.src)
  BY <1>0, <1>1, NoProbeBefore
<1>3. CASE p \in network
  BY <1>2, <1>3 DEF ProbesLogged
<1>4. CASE KeepStep /\ p \notin network
  BY <1>1, <1>4 DEF KeepStep, TrackedAs
<1>5. ASSUME NEW e \in End, TryStep(e), p \notin network PROVE p.pay # ProbeByte
  <2> DEFINE pkt == DataPacket(e, sendSeq[e], recvSeq[e], used[e] + 1)
  <2>1. pkt.pay \in Chunk
    BY <1>0, <1>5, TriedPacket
  <2>2. p = pkt
    BY <1>5 DEF TryStep
  <2> QED BY <1>1, <2>1, <2>2
<1>6. ASSUME NEW e \in End, ProbeStep(e), p \notin network PROVE FALSE
  <2>1. p = DataPacket(e, sendSeq[e], recvSeq[e], ProbeByte)
    BY <1>6 DEF ProbeStep
  <2>2. p.src = e
    BY <2>1 DEF DataPacket
  <2> QED BY <1>2, <1>6, <2>2
<1> QED BY <1>0, <1>3, <1>4, <1>5, <1>6, SenderShape

\* A packet leaves before it is accepted or buffered.
LEMMA ReceivedOutNext ==
    ASSUME NumberInv, NumberInv', AcceptedOut, BufferedOut, [Next]_vars
    PROVE  AcceptedOut' /\ BufferedOut'
<1>0. TypeInv /\ CountInv
  BY DEF NumberInv
<1>1. network \subseteq network'
  BY <1>0, SenderShape DEF KeepStep, TryStep, ProbeStep
<1>2. \A e, s : DataOut(e, s) => DataOut(e, s)'
  BY <1>1 DEF DataOut
<1>3. ASSUME NEW e \in End, recvLog'[e] = recvLog[e],
             DOMAIN outOfOrderPackets'[e] = DOMAIN outOfOrderPackets[e]
      PROVE  /\ \A i \in 1 .. Len(recvLog'[e]) : DataOut(Peer(e), Num(Peer(e), i))'
             /\ \A s \in DOMAIN outOfOrderPackets'[e] : DataOut(Peer(e), s)'
  BY <1>2, <1>3 DEF AcceptedOut, BufferedOut
<1>4. ASSUME NEW e \in End, AdvanceStep(e)
      PROVE  /\ \A i \in 1 .. Len(recvLog'[e]) : DataOut(Peer(e), Num(Peer(e), i))'
             /\ \A s \in DOMAIN outOfOrderPackets'[e] : DataOut(Peer(e), s)'
  <2>1. \A s \in DOMAIN outOfOrderPackets'[e] : DataOut(Peer(e), s)'
    BY <1>2, <1>4 DEF AdvanceStep, BufferedOut
  <2>2. ASSUME NEW i \in 1 .. Len(recvLog'[e]) PROVE DataOut(Peer(e), Num(Peer(e), i))
    <3>1. /\ Peer(e) \in End /\ Peer(Peer(e)) = e /\ Len(recvLog[e]) \in Nat /\ Len(recvLog'[e]) \in Nat
          /\ Len(recvLog'[e]) <= Top'[Peer(e)] /\ Top'[Peer(e)] \in Nat
          /\ Top'[Peer(e)] + 2 <= Half /\ Half + 2 <= SeqSpace
          /\ Half \in Nat /\ SeqSpace \in Nat
      BY PeerType, LogBounds, LogBoundsNext DEF NumberInv, ReachInv
    <3>2. CASE i \in 1 .. Len(recvLog[e])
      BY <3>2 DEF AcceptedOut
    <3>3. CASE i \notin 1 .. Len(recvLog[e])
      <4>1. i \in 0 .. SeqSpace - 1 /\ Len(recvLog[e]) < i /\ i <= Len(recvLog'[e])
        BY <3>1, <3>3
      <4>2. Num(Peer(e), i) \in Past(e)
        BY <3>1, <4>1, IndexFacts DEF Past
      <4> QED BY <1>4, <4>2 DEF AdvanceStep, BufferedOut, DataOut
    <3> QED BY <3>2, <3>3
  <2> QED BY <1>2, <2>1, <2>2
<1>5. ASSUME NEW e \in End, NEW p \in network, p.src = Peer(e), p.pay # NoPayload,
             handleOutOfOrder(e, p)
      PROVE  /\ \A i \in 1 .. Len(recvLog'[e]) : DataOut(Peer(e), Num(Peer(e), i))'
             /\ \A s \in DOMAIN outOfOrderPackets'[e] : DataOut(Peer(e), s)'
             /\ \A f \in End \ {e} : outOfOrderPackets'[f] = outOfOrderPackets[f]
             /\ UNCHANGED recvLog
  <2>1. /\ DOMAIN outOfOrderPackets'[e] = DOMAIN outOfOrderPackets[e] \cup {p.seq}
        /\ \A f \in End \ {e} : outOfOrderPackets'[f] = outOfOrderPackets[f]
        /\ UNCHANGED recvLog
    BY <1>5, OutOfOrderEffect
  <2>2. DataOut(Peer(e), p.seq)
    BY <1>5 DEF DataOut
  <2> QED BY <1>2, <2>1, <2>2 DEF AcceptedOut, BufferedOut
<1>6. \A e \in End : /\ \A i \in 1 .. Len(recvLog'[e]) : DataOut(Peer(e), Num(Peer(e), i))'
                     /\ \A s \in DOMAIN outOfOrderPackets'[e] : DataOut(Peer(e), s)'
  <2>1. CASE UNCHANGED <<recvVars, recvLog>>
    BY <1>3, <2>1 DEF recvVars
  <2>2. ASSUME NEW e \in End, AdvanceStep(e), NEW f \in End \ {e}
        PROVE  recvLog'[f] = recvLog[f] /\ outOfOrderPackets'[f] = outOfOrderPackets[f]
    BY <2>2 DEF AdvanceStep
  <2>3. CASE \E e \in End : AdvanceStep(e)
    BY <1>3, <1>4, <2>2, <2>3
  <2>4. CASE \E e \in End : \E p \in network : /\ p.src = Peer(e) /\ p.pay # NoPayload
                                               /\ handleOutOfOrder(e, p)
    BY <1>3, <1>5, <2>4
  <2> QED BY <2>1, <2>3, <2>4, ReceiverShapes
<1> QED BY <1>6 DEF AcceptedOut, BufferedOut, DataOut, Num

-------------------------------------------------------------------------------
(* An end starts with its timer *)

\* An end whose timer has not been started has not sent anything, and will not write
\* before it is established; until then it is not choked either.
Started == \A e \in End :
              /\ timer[e] = "off" => /\ closed[e] \/ state[e] = "SYN_RCVD"
                                     /\ writer[e] = "idle" /\ used[e] = 0
              /\ choked[e] => state[e] # "SYN_RCVD"

\* What handleAckLocked does to the window, the tracked packets and the writer.
LEMMA AckEffect ==
    ASSUME TypeInv, NEW e \in End, NEW p \in network, handleAck(e, p)
    PROVE  LET newer == seqGreaterThan(p.ack, ackThrough[e])
           IN  /\ DOMAIN sentPackets'[e] = IF newer THEN Unacked(e, p.ack)
                                                    ELSE DOMAIN sentPackets[e]
               /\ cwnd'[e] \in LET g == IF newer THEN GrowWindow(cwnd[e], ssthresh[e]) ELSE cwnd[e]
                               IN  {g, HalveWindow(g)}
               /\ ssthresh'[e] \in {ssthresh[e]}
                     \cup {HalveWindow(g) : g \in {cwnd[e], GrowWindow(cwnd[e], ssthresh[e])}}
               /\ writer'[e] = writer[e] \/ writer'[e] = Woken(writer[e])
               /\ newer /\ Unacked(e, p.ack) # DOMAIN sentPackets[e]
                     => writer'[e] = Woken(writer[e])
               /\ \A f \in End \ {e} : /\ sentPackets'[f] = sentPackets[f] /\ writer'[f] = writer[f]
                                       /\ cwnd'[f] = cwnd[f] /\ ssthresh'[f] = ssthresh[f]
                                       /\ choked'[f] = choked[f]
               /\ UNCHANGED <<lifeVars, used>>
<1> DEFINE newer  == seqGreaterThan(p.ack, ackThrough[e])
           kept   == IF newer THEN Unacked(e, p.ack) ELSE DOMAIN sentPackets[e]
           counts == [s \in SeqNums |->
                         IF newer /\ s \notin p.nacks /\ seqLessThanOrEqual(s, p.ack)
                         THEN 0 ELSE nackCounts[e][s]]
           due    == fastRetransmit(counts, p.nacks)
           grown  == IF newer THEN GrowWindow(cwnd[e], ssthresh[e]) ELSE cwnd[e]
           wakes  == \/ newer /\ (kept # DOMAIN sentPackets[e] \/ counts # nackCounts[e])
                     \/ p.delay = "UNCHOKE" /\ choked[e]
<1>1. /\ cwnd' = [cwnd EXCEPT ![e] = IF due = {} THEN grown ELSE HalveWindow(grown)]
      /\ ssthresh' = [ssthresh EXCEPT ![e] = IF due = {} THEN @ ELSE HalveWindow(grown)]
      /\ \E resent \in Accepted(due \cap kept) :
            sentPackets' = [sentPackets EXCEPT ![e] =
                  [s \in kept |-> IF s \in resent THEN bump(sentPackets[e][s])
                                                  ELSE sentPackets[e][s]]]
      /\ writer' = [writer EXCEPT ![e] = IF wakes THEN Woken(@) ELSE @]
      /\ \E c : choked' = [choked EXCEPT ![e] = c]
      /\ UNCHANGED <<lifeVars, histVars>>
  BY DEF handleAck, handleOptionalDelay
<1>2. TypeOK
  BY DEF TypeInv
<1>3. /\ DOMAIN cwnd = End /\ DOMAIN ssthresh = End /\ DOMAIN sentPackets = End
      /\ DOMAIN writer = End /\ DOMAIN choked = End
  BY <1>2 DEF TypeOK, SendType, WriteType, FlowType
<1> HIDE DEF due, counts
<1>4. cwnd'[e] \in {grown, HalveWindow(grown)} /\ \A f \in End \ {e} : cwnd'[f] = cwnd[f]
  <2> HIDE DEF grown
  <2> QED BY <1>1, <1>3
<1>5. /\ ssthresh'[e] \in {ssthresh[e], HalveWindow(grown)}
      /\ \A f \in End \ {e} : ssthresh'[f] = ssthresh[f]
  <2> HIDE DEF grown
  <2> QED BY <1>1, <1>3
<1>6. DOMAIN sentPackets'[e] = kept /\ \A f \in End \ {e} : sentPackets'[f] = sentPackets[f]
  <2> HIDE DEF kept
  <2> QED BY <1>1, <1>3
<1>7. /\ writer'[e] = writer[e] \/ writer'[e] = Woken(writer[e])
      /\ wakes => writer'[e] = Woken(writer[e])
      /\ \A f \in End \ {e} : writer'[f] = writer[f]
  <2> HIDE DEF wakes
  <2> QED BY <1>1, <1>3
<1>8. newer /\ Unacked(e, p.ack) # DOMAIN sentPackets[e] => wakes
  OBVIOUS
<1>9. \A f \in End \ {e} : choked'[f] = choked[f]
  BY <1>1, <1>3
<1>10. grown \in {cwnd[e], GrowWindow(cwnd[e], ssthresh[e])}
  OBVIOUS
<1>11. UNCHANGED <<lifeVars, used>>
  BY <1>1 DEF histVars
<1> HIDE DEF wakes
<1> QED BY <1>4, <1>5, <1>6, <1>7, <1>8, <1>9, <1>10, <1>11

\* What every other step does to them: nobody goes to sleep except at a full window,
\* and nothing that a sleeper waits for changes.
OtherStep(e) ==
    /\ UNCHANGED <<cwnd, ssthresh, choked>>
    /\ \A f \in End : writer'[f] = "waiting" =>
          /\ DOMAIN sentPackets'[f] = DOMAIN sentPackets[f]
          /\ writer[f] = "waiting" \/ inFlight(f) >= cwnd[f]
    /\ \A f \in End \ {e} : /\ timer'[f] = timer[f] /\ closed'[f] = closed[f]
                            /\ state'[f] = state[f] /\ writer'[f] = writer[f]
                            /\ used'[f] = used[f]
    /\ Started => \/ timer'[e] # "off" /\ (state'[e] = "SYN_RCVD" => state[e] = "SYN_RCVD")
                  \/ /\ timer'[e] = timer[e] /\ used'[e] = used[e]
                     /\ state'[e] = state[e] \/ closed'[e]
                     /\ state'[e] = "SYN_RCVD" => state[e] = "SYN_RCVD"
                     /\ closed[e] => closed'[e]
                     /\ writer[e] = "idle" => writer'[e] = "idle"

\* The steps of a Write, and probes.
LEMMA OtherWrite ==
    ASSUME TypeInv, NEW e \in End,
           \/ \E n \in 1 .. MaxWriteChunks : Write(e, n)
           \/ WriteChunk(e) \/ WindowWait(e) \/ WriteResume(e) \/ WriteAbort(e)
           \/ PersistProbe(e)
    PROVE  OtherStep(e)
<1>0. TypeOK /\ DOMAIN writer = End /\ DOMAIN sentPackets = End /\ DOMAIN used = End
  BY DEF TypeInv, TypeOK, WriteType, SendType, HistType
<1>1. UNCHANGED <<cwnd, ssthresh, choked, timer, closed, state>>
  BY DEF Write, WriteChunk, WindowWait, WriteResume, WriteAbort, PersistProbe, lifeVars,
         sendVars, flowVars
<1>2. Started => timer[e] # "off"
  BY DEF Started, Write, WriteChunk, WindowWait, WriteResume, WriteAbort, PersistProbe,
         validateWriteState, Locked
<1>3. /\ \A f \in End : writer'[f] = "waiting" =>
            /\ DOMAIN sentPackets'[f] = DOMAIN sentPackets[f]
            /\ writer[f] = "waiting" \/ inFlight(f) >= cwnd[f]
      /\ \A f \in End \ {e} : writer'[f] = writer[f] /\ used'[f] = used[f]
  <2>1. CASE WriteChunk(e)
    <3>1. /\ \E w \in {"idle", "sending"} : writer' = [writer EXCEPT ![e] = w]
          /\ \E x : sentPackets' = [sentPackets EXCEPT ![e] = x]
          /\ \E x : used' = [used EXCEPT ![e] = x]
      BY <2>1 DEF WriteChunk
    <3> QED BY <1>0, <3>1
  <2>2. CASE PersistProbe(e)
    <3>1. UNCHANGED <<sentPackets, writer>> /\ \E x : used' = [used EXCEPT ![e] = x]
      BY <2>2 DEF PersistProbe, writeVars
    <3> QED BY <1>0, <3>1
  <2>3. CASE WindowWait(e)
    BY <1>0, <2>3 DEF WindowWait, sendVars, histVars
  <2>4. CASE (\E n \in 1 .. MaxWriteChunks : Write(e, n)) \/ WriteResume(e) \/ WriteAbort(e)
    <3>1. /\ \E w \in {"idle", "sending"} : writer' = [writer EXCEPT ![e] = w]
          /\ UNCHANGED <<sentPackets, used>>
      BY <2>4 DEF Write, WriteResume, WriteAbort, sendVars, histVars
    <3> QED BY <1>0, <3>1
  <2> QED BY <2>1, <2>2, <2>3, <2>4
<1> QED BY <1>1, <1>2, <1>3 DEF OtherStep

\* The handlers that leave the writer and the connection alone.
LEMMA OtherOpen ==
    ASSUME TypeInv, NEW e \in End,
           \/ \E p \in network : handleInSequence(e, p) \/ handleOutOfOrder(e, p)
           \/ \E n \in 1 .. BufSize : Read(e, n)
           \/ ChokeExpires(e) \/ KeepAlive(e) \/ AnswerUnknown(e) \/ UNCHANGED vars
    PROVE  OtherStep(e)
<1>1. UNCHANGED <<cwnd, ssthresh, choked, timer, closed, state, writer, used, sentPackets>>
  <2>1. CASE \E p \in network : handleInSequence(e, p)
    BY <2>1, ZenonT(30) DEF handleInSequence, lifeVars, flowVars, writeVars
  <2>2. CASE \/ \E p \in network : handleOutOfOrder(e, p)
             \/ \E n \in 1 .. BufSize : Read(e, n)
    BY <2>2 DEF handleOutOfOrder, Read, lifeVars, sendVars, flowVars, writeVars, histVars
  <2>3. CASE \/ ChokeExpires(e) \/ KeepAlive(e) \/ AnswerUnknown(e) \/ UNCHANGED vars
    BY <2>3 DEF ChokeExpires, KeepAlive, AnswerUnknown, vars, lifeVars, sendVars, flowVars,
                writeVars, histVars
  <2> QED BY <2>1, <2>2, <2>3
<1> QED BY <1>1 DEF OtherStep

\* The handlers that change the state of the connection or of its timer.
LEMMA OtherControl ==
    ASSUME TypeInv, NEW e \in End,
           \/ ReceiveFinalAck(e) \/ ReceiveClose(e) \/ ReceiveReset(e)
           \/ RetransmitTimeout(e) \/ GiveUp(e) \/ Close(e)
    PROVE  OtherStep(e)
<1>0. /\ writer \in [End -> {"idle", "sending", "waiting", "woken"}]
      /\ state \in [End -> {"SYN_RCVD", "ESTABLISHED", "CLOSING", "CLOSED"}]
      /\ closed \in [End -> BOOLEAN] /\ DOMAIN sentPackets = End
      /\ timer \in [End -> {"off", "running", "closing", "done"}]
  BY DEF TypeInv, TypeOK, WriteType, SendType, LifeType
<1>1. CASE ReceiveFinalAck(e)
  <2>1. /\ state' = [state EXCEPT ![e] = "ESTABLISHED"]
        /\ timer' = [timer EXCEPT ![e] = "running"]
        /\ UNCHANGED <<closed, writer, used, sentPackets, cwnd, ssthresh, choked>>
    BY <1>1 DEF ReceiveFinalAck, handleFinalAck, writeVars, histVars, flowVars
  <2> QED BY <1>0, <2>1 DEF OtherStep
<1>2. CASE ReceiveClose(e) \/ ReceiveReset(e)
  <2>1. /\ state' = [state EXCEPT ![e] = "CLOSED"] /\ closed' = [closed EXCEPT ![e] = TRUE]
        /\ UNCHANGED <<timer, writer, used, sentPackets, cwnd, ssthresh, choked>>
    BY <1>2 DEF ReceiveClose, ReceiveReset, handleClose, handleReset,
                sendVars, writeVars, histVars, flowVars
  <2> QED BY <1>0, <2>1 DEF OtherStep
<1>3. CASE RetransmitTimeout(e)
  <2>1. PICK resent \in SUBSET DOMAIN sentPackets[e] :
         /\ sentPackets' = [sentPackets EXCEPT ![e] =
               [s \in DOMAIN sentPackets[e] |->
                  IF s \in resent THEN bump(sentPackets[e][s]) ELSE sentPackets[e][s]]]
         /\ \/ timer' = [timer EXCEPT ![e] = "running"]
            \/ timer' = [timer EXCEPT ![e] = "closing"]
    BY <1>3, RetransmitEffect
  <2>2. UNCHANGED <<state, closed, writer, used, cwnd, ssthresh, choked>>
    BY <1>3 DEF RetransmitTimeout, checkRetransmissions, writeVars, histVars, flowVars
  <2>3. \A f \in End : DOMAIN sentPackets'[f] = DOMAIN sentPackets[f]
    BY <1>0, <2>1
  <2>4. timer'[e] # "off" /\ \A f \in End \ {e} : timer'[f] = timer[f]
    BY <1>0, <2>1
  <2> QED BY <2>2, <2>3, <2>4 DEF OtherStep
<1>4. ASSUME closeConn(e), UNCHANGED <<used, sentPackets, cwnd, ssthresh, choked>>,
             UNCHANGED timer \/ timer' = [timer EXCEPT ![e] = "done"]
      PROVE  OtherStep(e)
  <2>1. /\ state' = [state EXCEPT ![e] = IF @ = "ESTABLISHED" THEN "CLOSING" ELSE @]
        /\ closed' = [closed EXCEPT ![e] = TRUE]
        /\ writer' = [writer EXCEPT ![e] = Woken(@)]
    BY <1>4 DEF closeConn
  <2>2. /\ \A f \in End : writer'[f] = "waiting" => writer[f] = "waiting"
        /\ writer[e] = "idle" => writer'[e] = "idle"
    BY <1>0, <2>1 DEF Woken
  <2>3. \/ timer'[e] # "off"
        \/ timer'[e] = timer[e]
    BY <1>0, <1>4
  <2>4. /\ closed'[e] /\ (state'[e] = "SYN_RCVD" => state[e] = "SYN_RCVD")
        /\ \A f \in End \ {e} : /\ timer'[f] = timer[f] /\ closed'[f] = closed[f]
                                /\ state'[f] = state[f] /\ writer'[f] = writer[f]
    BY <1>0, <1>4, <2>1
  <2> QED BY <1>4, <2>2, <2>3, <2>4 DEF OtherStep
<1>5. CASE Close(e)
  BY <1>4, <1>5 DEF Close, sendVars, histVars
<1>6. CASE GiveUp(e)
  <2>1. /\ timer' = [timer EXCEPT ![e] = "done"]
        /\ UNCHANGED <<used, sentPackets, cwnd, ssthresh, choked>>
        /\ closeConn(e) \/ UNCHANGED <<state, closed, writer>>
    BY <1>6 DEF GiveUp, sendVars, histVars
  <2>2. CASE UNCHANGED <<state, closed, writer>>
    BY <1>0, <2>1, <2>2 DEF OtherStep
  <2> QED BY <1>4, <2>1, <2>2
<1> QED BY <1>1, <1>2, <1>3, <1>5, <1>6

\* A report of the router changes the tracked packets and nothing else of the sender.
ReportStep == StatusReports /\ UNCHANGED <<choked, timer, closed, state, writer, used>>

\* A step handles an ACK, or a report, or is one of the others.
LEMMA AckOrOther ==
    ASSUME TypeInv, [Next]_vars
    PROVE  \E e \in End :
              \/ OtherStep(e) \/ ReportStep
              \/ \E p \in network : /\ p.src = Peer(e) /\ p.flag = "NONE"
                                    /\ state[e] # "SYN_RCVD" /\ handleAck(e, p)
<1>1. CASE UNCHANGED vars
  <2>1. "client" \in End
    BY DEF End
  <2> QED BY <1>1, <2>1, OtherOpen
<1>2. CASE Next
  <2> SUFFICES ASSUME NEW e \in End,
           \/ \E n \in 1 .. MaxWriteChunks : Write(e, n)
           \/ WriteChunk(e) \/ WindowWait(e) \/ WriteResume(e) \/ WriteAbort(e)
           \/ \E n \in 1 .. BufSize : Read(e, n)
           \/ ReceiveFinalAck(e) \/ ReceiveAck(e) \/ ReceiveInSequence(e) \/ ReceiveOld(e)
           \/ ReceiveOutOfOrder(e) \/ ReceiveClose(e) \/ ReceiveReset(e) \/ AnswerUnknown(e)
           \/ RetransmitTimeout(e) \/ GiveUp(e) \/ KeepAlive(e)
           \/ ChokeExpires(e) \/ PersistProbe(e)
           \/ MessageDelivered(e) \/ MessageFailed(e)
           \/ Close(e)
         PROVE \/ OtherStep(e) \/ ReportStep
               \/ \E p \in network : /\ p.src = Peer(e) /\ p.flag = "NONE"
                                     /\ state[e] # "SYN_RCVD" /\ handleAck(e, p)
    BY <1>2 DEF Next
  <2>1. CASE \/ \E n \in 1 .. MaxWriteChunks : Write(e, n)
             \/ WriteChunk(e) \/ WindowWait(e) \/ WriteResume(e) \/ WriteAbort(e)
             \/ PersistProbe(e)
    BY <2>1, OtherWrite
  <2>2. CASE \/ ReceiveFinalAck(e) \/ ReceiveClose(e) \/ ReceiveReset(e)
             \/ RetransmitTimeout(e) \/ GiveUp(e) \/ Close(e)
    BY <2>2, OtherControl
  <2>3. CASE ReceiveAck(e)
    <3>1. PICK p \in network : /\ p.src = Peer(e) /\ Kind(e, p) = "ACK" /\ handleAck(e, p)
                               /\ p \in Packet
      BY <2>3 DEF ReceiveAck, Arriving, TypeInv, TypeOK
    <3>2. p.flag = "NONE" /\ state[e] # "SYN_RCVD"
      BY <3>1 DEF Kind, Packet
    <3> QED BY <3>1, <3>2
  <2>4. CASE ReceiveInSequence(e) \/ ReceiveOld(e) \/ ReceiveOutOfOrder(e)
    <3>1. \/ \E p \in network : handleInSequence(e, p) \/ handleOutOfOrder(e, p)
          \/ UNCHANGED vars
      BY <2>4 DEF ReceiveInSequence, ReceiveOld, handleOld, ReceiveOutOfOrder, Arriving
    <3> QED BY <3>1, OtherOpen
  <2>5. CASE \/ \E n \in 1 .. BufSize : Read(e, n)
             \/ ChokeExpires(e) \/ KeepAlive(e) \/ AnswerUnknown(e)
    BY <2>5, OtherOpen
  <2>6. CASE MessageDelivered(e) \/ MessageFailed(e)
    BY <2>6 DEF MessageDelivered, MessageFailed, ReportStep, lifeVars, flowVars, writeVars,
                histVars
  <2> QED BY <2>1, <2>2, <2>3, <2>4, <2>5, <2>6
<1> QED BY <1>1, <1>2

\* An end sends nothing before its timer runs.
LEMMA StartedNext ==
    ASSUME TypeInv, Started, [Next]_vars
    PROVE  Started'
<1>1. PICK e \in End :
         \/ OtherStep(e) \/ ReportStep
         \/ \E p \in network : /\ p.src = Peer(e) /\ p.flag = "NONE"
                               /\ state[e] # "SYN_RCVD" /\ handleAck(e, p)
  BY AckOrOther
<1>2. CASE OtherStep(e)
  <2>1. \A f \in End \ {e} : /\ timer'[f] = timer[f] /\ closed'[f] = closed[f]
                             /\ state'[f] = state[f] /\ writer'[f] = writer[f]
                             /\ used'[f] = used[f]
    BY <1>2 DEF OtherStep
  <2>2. UNCHANGED choked
    BY <1>2 DEF OtherStep
  <2>3. \/ timer'[e] # "off" /\ (state'[e] = "SYN_RCVD" => state[e] = "SYN_RCVD")
        \/ /\ timer'[e] = timer[e] /\ used'[e] = used[e]
           /\ state'[e] = state[e] \/ closed'[e]
           /\ state'[e] = "SYN_RCVD" => state[e] = "SYN_RCVD"
           /\ closed[e] => closed'[e]
           /\ writer[e] = "idle" => writer'[e] = "idle"
    BY <1>2 DEF OtherStep
  <2> QED BY <2>1, <2>2, <2>3 DEF Started
<1>3. ASSUME NEW p \in network, handleAck(e, p), state[e] # "SYN_RCVD" PROVE Started'
  <2>1. /\ writer'[e] = writer[e] \/ writer'[e] = Woken(writer[e])
        /\ \A f \in End \ {e} : writer'[f] = writer[f] /\ choked'[f] = choked[f]
        /\ UNCHANGED <<state, closed, timer, used>>
    BY <1>3, AckEffect DEF lifeVars
  <2>2. writer[e] = "idle" => writer'[e] = "idle"
    BY <2>1 DEF Woken
  <2> QED BY <1>3, <2>1, <2>2 DEF Started
<1>4. CASE ReportStep
  BY <1>4 DEF ReportStep, Started
<1> QED BY <1>1, <1>2, <1>3, <1>4

-------------------------------------------------------------------------------
(* What has left is acknowledged or tracked *)

\* A chunk that has left stays tracked until the peer acknowledges its number.
Held == \A p \in network : p.pay \in Chunk =>
           \/ p.seq \in DOMAIN sentPackets[p.src]
           \/ seqLessThanOrEqual(p.seq, ackThrough[p.src])

\* The sender's side of the invariant.
SenderInv == /\ Started /\ TrackedAs /\ ChunksOut /\ AcceptedOut /\ BufferedOut /\ ProbesLogged
             /\ Held

\* What the peer has not accepted it has not acknowledged.
LEMMA NotAcknowledged ==
    ASSUME NumberInv, Started, NEW e \in End, NEW i \in 1 .. Top[e], Len(recvLog[Peer(e)]) < i
    PROVE  ~seqLessThanOrEqual(Num(e, i), ackThrough[e])
<1>1. /\ Peer(e) \in End /\ Peer(Peer(e)) = e /\ Top[e] \in Nat /\ Top[e] <= used[e] /\ used[e] \in Nat
      /\ Top[e] + 2 <= Half /\ Half \in Nat /\ Len(recvLog[Peer(e)]) \in Nat
      /\ Len(recvLog[Peer(e)]) <= Top[e]
  BY PeerType, LogBounds DEF NumberInv, ReachInv
<1>2. used[e] # 0
  BY <1>1
<1>3. timer[e] # "off"
  BY <1>2 DEF Started
<1>4. PICK a \in 0 .. Len(recvLog[Peer(e)]) : ackThrough[e] = Num(e, a)
  BY <1>1, <1>3 DEF NumberInv, ThroughInv, Covered
<1>5. a \in 0 .. Half - 1 /\ i \in 0 .. Half - 1 /\ ~(i <= a)
  BY <1>1
<1> QED BY <1>4, <1>5, NumFacts

\* An acknowledgement that arrives later covers at least as much.
LEMMA AcknowledgedStays ==
    ASSUME NumberInv, NumberInv', LifeInv, Started, Started', [Next]_vars, UNCHANGED used,
           NEW e \in End, NEW i \in 1 .. Top[e], seqLessThanOrEqual(Num(e, i), ackThrough[e])
    PROVE  seqLessThanOrEqual(Num(e, i), ackThrough'[e])
<1>1. /\ Peer(e) \in End /\ Peer(Peer(e)) = e /\ Top[e] \in Nat /\ Top[e] <= used[e] /\ used[e] \in Nat
      /\ Top[e] + 2 <= Half /\ Half \in Nat /\ Len(recvLog[Peer(e)]) \in Nat
      /\ Len(recvLog[Peer(e)]) <= Top[e]
  BY PeerType, LogBounds DEF NumberInv, ReachInv
<1>2. /\ Top'[e] \in Nat /\ Top'[e] + 2 <= Half /\ Len(recvLog'[Peer(e)]) \in Nat
      /\ Len(recvLog'[Peer(e)]) <= Top'[e]
  BY <1>1, LogBoundsNext DEF NumberInv, ReachInv
<1>3. used[e] # 0 /\ used'[e] # 0
  BY <1>1
<1>4. timer[e] # "off" /\ timer'[e] # "off"
  BY <1>3 DEF Started
<1>5. PICK a \in 0 .. Len(recvLog[Peer(e)]) : ackThrough[e] = Num(e, a)
  BY <1>1, <1>4 DEF NumberInv, ThroughInv, Covered
<1>6. PICK b \in 0 .. Len(recvLog'[Peer(e)]) : ackThrough'[e] = Num(e, b)
  BY <1>1, <1>4 DEF NumberInv, ThroughInv, Covered, Num
<1>7. a \in 0 .. Half - 1 /\ b \in 0 .. Half - 1 /\ i \in 0 .. Half - 1
  <2>1. a \in 0 .. Half - 1 /\ i \in 0 .. Half - 1
    BY <1>1
  <2>2. b \in Nat /\ b <= Top'[e]
    BY <1>2
  <2>3. b \in 0 .. Half - 1
    BY <1>1, <1>2, <2>2
  <2> QED BY <2>1, <2>3
<1>8. seqLessThanOrEqual(ackThrough[e], ackThrough'[e])
  BY <1>4, LifeNext DEF NumberInv, NothingUndone
<1>9. i <= a /\ a <= b
  BY <1>5, <1>6, <1>7, <1>8, NumFacts
<1>10. i <= b
  BY <1>7, <1>9
<1> QED BY <1>6, <1>7, <1>10, NumFacts

\* Only an acknowledgement takes a chunk off the list.
LEMMA HeldNext ==
    ASSUME NumberInv, NumberInv', LifeInv, ~StatusReports, Started, Started', TrackedAs', Held,
           [Next]_vars
    PROVE  Held'
<1>0. TypeInv /\ CountInv /\ SeqInv
  BY DEF NumberInv
<1> SUFFICES ASSUME NEW p \in network', p.pay \in Chunk
             PROVE  \/ p.seq \in DOMAIN sentPackets'[p.src]
                    \/ seqLessThanOrEqual(p.seq, ackThrough'[p.src])
  BY DEF Held
<1>1. p.src \in End /\ p.pay # NoPayload /\ p.pay # ProbeByte
  BY DEF NumberInv, TypeInv, TypeOK, Packet, Chunk, NoPayload, ProbeByte
<1>2. CASE KeepStep
  <2>1. CASE p \notin network
    BY <1>1, <1>2, <2>1 DEF KeepStep, TrackedAs
  <2>2. CASE p \in network /\ p.seq \in DOMAIN sentPackets[p.src]
    BY <1>1, <1>2, <2>2 DEF KeepStep, ReleasedByAck
  <2>3. CASE p \in network /\ seqLessThanOrEqual(p.seq, ackThrough[p.src])
    <3>1. PICK i \in 1 .. Top[p.src] : p.seq = Num(p.src, i)
      BY <1>1, <2>3 DEF NumberInv, NetHonest, Honest
    <3>2. UNCHANGED used
      BY <1>2 DEF KeepStep
    <3> QED BY <1>1, <2>3, <3>1, <3>2, AcknowledgedStays
  <2> QED BY <2>1, <2>2, <2>3 DEF Held
<1>3. ASSUME NEW e \in End, TryStep(e)
      PROVE  \/ p.seq \in DOMAIN sentPackets'[p.src]
             \/ seqLessThanOrEqual(p.seq, ackThrough'[p.src])
  <2> DEFINE pkt == DataPacket(e, sendSeq[e], recvSeq[e], used[e] + 1)
  <2>1. /\ pkt.src = e
        /\ DOMAIN sentPackets'[e] = DOMAIN sentPackets[e] \cup {pkt.seq}
        /\ \A f \in End \ {e} : sentPackets'[f] = sentPackets[f]
    BY <1>0, <1>3, TriedPacket
  <2>2. ackThrough' = ackThrough /\ (p \in network \/ p = pkt)
    BY <1>3 DEF TryStep
  <2> HIDE DEF pkt
  <2> QED BY <1>1, <2>1, <2>2 DEF Held
<1>4. ASSUME NEW e \in End, ProbeStep(e)
      PROVE  \/ p.seq \in DOMAIN sentPackets'[p.src]
             \/ seqLessThanOrEqual(p.seq, ackThrough'[p.src])
  <2>1. DataPacket(e, sendSeq[e], recvSeq[e], ProbeByte).pay = ProbeByte
    BY DEF DataPacket
  <2>2. p \in network /\ UNCHANGED <<sentPackets, ackThrough>>
    BY <1>1, <1>4, <2>1 DEF ProbeStep
  <2> QED BY <2>2 DEF Held
<1> QED BY <1>0, <1>2, <1>3, <1>4, SenderShape

LEMMA SenderInvariance == ASSUME ~StatusReports PROVE Spec => []SenderInv
<1>1. Init => SenderInv
  <2> SUFFICES ASSUME Init PROVE SenderInv
    OBVIOUS
  <2>1. /\ \A p \in network : p.pay \notin Chunk /\ p.pay # ProbeByte
        /\ \A e \in End : /\ DOMAIN sentPackets[e] = {} /\ sentLog[e] = <<>>
                          /\ recvLog[e] = <<>> /\ DOMAIN outOfOrderPackets[e] = {}
    BY DEF Init, AckPacket, Chunk, NoPayload, ProbeByte
  <2>2. \A e \in End : 1 .. Len(sentLog[e]) = {} /\ 1 .. Len(recvLog[e]) = {}
    BY <2>1
  <2>3. Started
    BY DEF Init, Started
  <2> QED BY <2>1, <2>2, <2>3 DEF SenderInv, TrackedAs, ChunksOut, AcceptedOut, BufferedOut,
                                  ProbesLogged, Held
<1>2. NumberInv /\ NumberInv' /\ LifeInv /\ SenderInv /\ [Next]_vars => SenderInv'
  <2> SUFFICES ASSUME NumberInv, NumberInv', LifeInv, SenderInv, [Next]_vars PROVE SenderInv'
    OBVIOUS
  <2>1. Started'
    BY StartedNext DEF NumberInv, SenderInv
  <2>2. TrackedAs'
    BY TrackedAsNext DEF SenderInv
  <2> QED BY <2>1, <2>2, ChunksOutNext, ReceivedOutNext, ProbesLoggedNext, HeldNext DEF SenderInv
<1> QED BY <1>1, <1>2, NumberInvariance, LifeCorrect, PTL DEF Spec

\* Nothing is lost silently: whatever is lost, refused, retried and acknowledged in any
\* order, a chunk that took a number keeps its retransmission entry until the peer has
\* accepted the number.  A report of the router would release it earlier.
LEMMA LossFree ==
    ASSUME NumberInv, SenderInv
    PROVE  NoSilentLoss
<1> SUFFICES ASSUME NEW e \in End, NEW i \in 1 .. Len(sentLog[e]),
                    sentLog[e][i] # ProbeByte, i > Len(recvLog[Peer(e)])
             PROVE  /\ Num(e, i) \in DOMAIN sentPackets[e]
                    /\ sentPackets[e][Num(e, i)].pkt.pay = sentLog[e][i]
  BY DEF NoSilentLoss, Num
<1>1. PICK p \in network : p.src = e /\ p.seq = Num(e, i) /\ p.pay \in Chunk
  BY DEF SenderInv, ChunksOut
<1>2. i \in 1 .. Top[e] /\ Len(recvLog[Peer(e)]) < i
  BY PeerType, LogBounds DEF NumberInv
<1>3. ~seqLessThanOrEqual(Num(e, i), ackThrough[e])
  BY <1>2, NotAcknowledged DEF SenderInv
<1>4. Num(e, i) \in DOMAIN sentPackets[e]
  BY <1>1, <1>3 DEF SenderInv, Held
<1> QED BY <1>4 DEF SenderInv, TrackedAs

\* No silent loss: a chunk that Write has handed over keeps its retransmission entry, with
\* its content, until the peer has accepted its number.
THEOREM LossCorrect == ASSUME ~StatusReports PROVE Spec => []NoSilentLoss
<1>1. NumberInv /\ SenderInv => NoSilentLoss
  BY LossFree
<1> QED BY <1>1, NumberInvariance, SenderInvariance, PTL

-------------------------------------------------------------------------------
(* What is tracked is watched *)

\* A tracked packet has a number, so its end has sent, so its timer was started; and the
\* timer ends only with the connection.
LEMMA TrackedWatched ==
    ASSUME NumberInv, LifeInv, Started, TrackedAs
    PROVE  TrackedIsTimed
<1> SUFFICES ASSUME NEW e \in End, NEW s \in DOMAIN sentPackets[e], ~closed[e]
             PROVE  timer[e] \in {"running", "closing"}
  BY DEF TrackedIsTimed
<1> DEFINE p == sentPackets[e][s].pkt
<1>1. p.src = e /\ p.pay # NoPayload
  BY DEF TrackedAs, Chunk, NoPayload
<1>2. \E i \in 1 .. Top[e] : p.seq = Num(e, i)
  BY <1>1 DEF NumberInv, TrackHonest, Honest
<1>3. used[e] # 0
  BY <1>2 DEF NumberInv, CountInv, Top, TypeInv, TypeOK, HistType
<1>4. timer[e] \in {"off", "running", "closing", "done"}
  BY DEF NumberInv, TypeInv, TypeOK, LifeType
<1> QED BY <1>3, <1>4 DEF Started, LifeInv

\* Nobody is forgotten: for every tracked packet of an open connection the retransmission
\* timer runs, or has given up and is about to close it, whatever the router refuses and
\* reports, whoever closes and however the handshake's last packet is overtaken.
THEOREM TimerCorrect == Spec => []TrackedIsTimed
<1>1. Init => Started /\ TrackedAs
  BY DEF Init, Started, TrackedAs
<1>2. NumberInv /\ Started /\ TrackedAs /\ [Next]_vars => Started' /\ TrackedAs'
  BY StartedNext, TrackedAsNext DEF NumberInv
<1>3. NumberInv /\ LifeInv /\ Started /\ TrackedAs => TrackedIsTimed
  BY TrackedWatched
<1> QED BY <1>1, <1>2, <1>3, NumberInvariance, LifeCorrect, PTL DEF Spec

-------------------------------------------------------------------------------
(* The window, and the gaps it leaves *)

\* What is tracked never outgrows the largest window.
WindowInv == \A e \in End : inFlight(e) <= MaxWindowSize

\* Sets that can be counted.
LEMMA TrackedFinite ==
    ASSUME TypeInv
    PROVE  \A e \in End : IsFiniteSet(DOMAIN sentPackets[e]) /\ inFlight(e) \in Nat
<1> TAKE e \in End
<1>1. DOMAIN sentPackets[e] \in SUBSET SeqNums
  BY DEF TypeInv, TypeOK, SendType
<1>2. IsFiniteSet(SeqNums)
  BY SeqSpaceAssumption, FS_Interval DEF SeqNums
<1>3. IsFiniteSet(DOMAIN sentPackets[e])
  BY <1>1, <1>2, FS_Subset
<1> QED BY <1>3, FS_CardinalityType DEF inFlight

\* A set that maps one to one into a finite set is no larger.
LEMMA NoLarger ==
    ASSUME NEW S, NEW T, IsFiniteSet(T), NEW f \in [S -> T],
           \A x, y \in S : f[x] = f[y] => x = y
    PROVE  /\ IsFiniteSet(S) /\ Cardinality(S) <= Cardinality(T)
           /\ Cardinality(S) \in Nat /\ Cardinality(T) \in Nat
<1>1. f \in Injection(S, T)
  BY DEF Injection, IsInjective
<1>2. IsFiniteSet(S) /\ Cardinality(S) <= Cardinality(T)
  BY <1>1, FS_Injection
<1> QED BY <1>2, FS_CardinalityType

\* A chunk is sent only while there is room in the window.
LEMMA WindowNext ==
    ASSUME NumberInv, WindowInv, [Next]_vars
    PROVE  WindowInv'
<1>0. TypeInv /\ TypeOK /\ CountInv /\ SeqInv
  BY DEF NumberInv, TypeInv
<1>1. ASSUME NEW f \in End, DOMAIN sentPackets'[f] \subseteq DOMAIN sentPackets[f]
      PROVE  Cardinality(DOMAIN sentPackets'[f]) <= MaxWindowSize
  <2>1. IsFiniteSet(DOMAIN sentPackets[f]) /\ Cardinality(DOMAIN sentPackets[f]) <= MaxWindowSize
    BY <1>0, TrackedFinite DEF WindowInv, inFlight
  <2>2. DOMAIN sentPackets'[f] \in SUBSET DOMAIN sentPackets[f]
    BY <1>1
  <2>3. /\ IsFiniteSet(DOMAIN sentPackets'[f])
        /\ Cardinality(DOMAIN sentPackets'[f]) <= Cardinality(DOMAIN sentPackets[f])
    BY <2>1, <2>2, FS_Subset
  <2>4. /\ Cardinality(DOMAIN sentPackets'[f]) \in Nat /\ Cardinality(DOMAIN sentPackets[f]) \in Nat
        /\ MaxWindowSize \in Nat
    BY <2>1, <2>3, FS_CardinalityType, ConstantsAssumption
  <2> QED BY <2>1, <2>3, <2>4
<1>2. CASE KeepStep \/ \E e \in End : ProbeStep(e)
  <2>1. \A f \in End : DOMAIN sentPackets'[f] \subseteq DOMAIN sentPackets[f]
    BY <1>2 DEF KeepStep, ReleasedByAck, ProbeStep
  <2> QED BY <1>1, <2>1 DEF WindowInv, inFlight
<1>3. ASSUME NEW e \in End, TryStep(e) PROVE WindowInv'
  <2>1. inFlight(e) < cwnd[e] /\ cwnd[e] \in 1 .. MaxWindowSize /\ MaxWindowSize \in Nat
    BY <1>0, <1>3, ConstantsAssumption DEF TryStep, TypeOK, SendType
  <2>2. /\ \E s : DOMAIN sentPackets'[e] = DOMAIN sentPackets[e] \cup {s}
        /\ \A f \in End \ {e} : sentPackets'[f] = sentPackets[f]
    BY <1>0, <1>3, TriedPacket
  <2>3. PICK s : DOMAIN sentPackets'[e] = DOMAIN sentPackets[e] \cup {s}
    BY <2>2
  <2>4. /\ IsFiniteSet(DOMAIN sentPackets[e]) /\ Cardinality(DOMAIN sentPackets[e]) \in Nat
        /\ Cardinality(DOMAIN sentPackets[e]) < cwnd[e]
    BY <1>0, <2>1, TrackedFinite DEF inFlight
  <2>5. Cardinality(DOMAIN sentPackets[e] \cup {s}) <= Cardinality(DOMAIN sentPackets[e]) + 1
        /\ Cardinality(DOMAIN sentPackets[e] \cup {s}) \in Nat
    <3> DEFINE D == DOMAIN sentPackets[e]
    <3>1. IsFiniteSet(D) /\ Cardinality(D) \in Nat
      BY <2>4
    <3> HIDE DEF D
    <3>2. Cardinality(D \cup {s}) = IF s \in D THEN Cardinality(D) ELSE Cardinality(D) + 1
      BY <3>1, FS_AddElement
    <3>3. Cardinality(D \cup {s}) <= Cardinality(D) + 1 /\ Cardinality(D \cup {s}) \in Nat
      BY <3>1, <3>2
    <3> QED BY <3>3 DEF D
  <2>6. Cardinality(DOMAIN sentPackets'[e]) <= MaxWindowSize
    BY <2>1, <2>3, <2>4, <2>5
  <2> QED BY <1>1, <2>2, <2>6 DEF WindowInv, inFlight
<1> QED BY <1>0, <1>2, <1>3, SenderShape

\* The last number under which a packet of e is out or tracked: a refused chunk may still
\* be resent under the number that follows the ones taken.
LastOut(e) == IF Num(e, Len(sentLog[e]) + 1) \in DOMAIN sentPackets[e]
              THEN Len(sentLog[e]) + 1 ELSE Len(sentLog[e])

LEMMA LastOutBounds ==
    ASSUME TypeInv, CountInv, NEW e \in End
    PROVE  /\ LastOut(e) \in Nat /\ LastOut(e) < SeqSpace /\ SeqSpace \in Nat
           /\ Len(sentLog[e]) <= LastOut(e)
BY LogBounds DEF LastOut

\* Without probes, what is out beyond what the peer has accepted is tracked.
LEMMA OutIsTracked ==
    ASSUME NumberInv, SenderInv, NEW q \in End, NoProbe(q), NEW j \in Nat,
           Len(recvLog[Peer(q)]) < j, DataOut(q, Num(q, j)), j < SeqSpace
    PROVE  j \in 1 .. LastOut(q)
<1>1. PICK p \in network : p.src = q /\ p.seq = Num(q, j) /\ p.pay # NoPayload
  BY DEF DataOut
<1>2. p.pay \in Chunk
  BY <1>1 DEF NumberInv, TypeInv, TypeOK, Packet, Payload, SenderInv, ProbesLogged
<1>3. PICK i \in 1 .. Top[q] : Num(q, j) = Num(q, i)
  BY <1>1 DEF NumberInv, NetHonest, Honest
<1>4. /\ Top[q] \in Nat /\ Top[q] + 2 <= Half /\ Half + 2 <= SeqSpace /\ Half \in Nat /\ SeqSpace \in Nat
      /\ Len(sentLog[q]) \in Nat /\ Top[q] <= Len(sentLog[q]) + 1
  BY LogBounds DEF NumberInv
<1>5. i = j
  <2>1. i \in 0 .. SeqSpace - 1 /\ j \in 0 .. SeqSpace - 1
    BY <1>4
  <2> QED BY <1>3, <2>1, NumFacts
<1>6. Num(q, j) \in DOMAIN sentPackets[q]
  <2>1. ~seqLessThanOrEqual(Num(q, j), ackThrough[q])
    BY <1>5, NotAcknowledged DEF SenderInv
  <2> QED BY <1>1, <1>2, <2>1 DEF SenderInv, Held
<1>7. j \in 1 .. Len(sentLog[q]) \/ j = Len(sentLog[q]) + 1
  BY <1>4, <1>5
<1> QED BY <1>4, <1>6, <1>7 DEF LastOut

\* An end that sends no probe is never more than a window ahead of its peer.
LEMMA WithinWindow ==
    ASSUME NumberInv, SenderInv, WindowInv, NEW e \in End, NoProbe(Peer(e))
    PROVE  LastOut(Peer(e)) - Len(recvLog[e]) <= MaxWindowSize
<1> DEFINE q == Peer(e)
           n == Len(recvLog[e])
           N == LastOut(q)
           f == [i \in n + 1 .. N |-> Num(q, i)]
<1>1. /\ q \in End /\ Peer(q) = e /\ n \in Nat /\ N \in Nat /\ N < SeqSpace /\ SeqSpace \in Nat
      /\ TypeInv /\ MaxWindowSize \in Nat
  BY PeerType, LogBounds, LastOutBounds, ConstantsAssumption DEF NumberInv
<1>2. \A i \in n + 1 .. N : Num(q, i) \in DOMAIN sentPackets[q]
  <2> TAKE i \in n + 1 .. N
  <2>1. i > n /\ (i \in 1 .. Len(sentLog[q]) \/ (i = Len(sentLog[q]) + 1 /\ N = i))
    <3>1. Len(sentLog[q]) \in Nat /\ N \in {Len(sentLog[q]), Len(sentLog[q]) + 1}
      BY <1>1, LogBounds DEF NumberInv, LastOut
    <3> HIDE DEF N, n, q
    <3> QED BY <1>1, <3>1
  <2>2. CASE i \in 1 .. Len(sentLog[q])
    <3>1. sentLog[q][i] # ProbeByte
      BY <2>2 DEF NoProbe
    <3> QED BY <1>1, <2>1, <2>2, <3>1, LossFree DEF NoSilentLoss, Num
  <2>3. CASE i = Len(sentLog[q]) + 1 /\ N = i
    <3>1. Len(sentLog[q]) + 1 # Len(sentLog[q])
      BY <1>1, LogBounds DEF NumberInv
    <3> QED BY <2>3, <3>1 DEF LastOut
  <2> QED BY <2>1, <2>2, <2>3
<1>3. \A i, j \in n + 1 .. N : Num(q, i) = Num(q, j) => i = j
  <2>1. \A i \in n + 1 .. N : i \in 0 .. SeqSpace - 1
    BY <1>1
  <2> QED BY <1>1, <2>1, NumFacts
<1> HIDE DEF q, n, N
<1>4. f \in [n + 1 .. N -> DOMAIN sentPackets[q]] /\ \A i, j \in n + 1 .. N : f[i] = f[j] => i = j
  BY <1>2, <1>3
<1>5. IsFiniteSet(DOMAIN sentPackets[q]) /\ Cardinality(DOMAIN sentPackets[q]) \in Nat
      /\ Cardinality(DOMAIN sentPackets[q]) <= MaxWindowSize
  BY <1>1, TrackedFinite DEF WindowInv, inFlight
<1> HIDE DEF f
<1>6. Cardinality(n + 1 .. N) <= Cardinality(DOMAIN sentPackets[q])
  BY <1>4, <1>5, NoLarger
<1>7. N - n <= Cardinality(n + 1 .. N) /\ Cardinality(n + 1 .. N) \in Nat
  <2>1. n + 1 \in Int /\ N \in Int
    BY <1>1
  <2>2. Cardinality(n + 1 .. N) = IF n + 1 > N THEN 0 ELSE N - (n + 1) + 1
    BY <2>1, FS_Interval
  <2> QED BY <1>1, <2>2
<1>8. N - n <= MaxWindowSize
  BY <1>1, <1>5, <1>6, <1>7
<1> QED BY <1>8 DEF q, n, N

\* There is room on the list for every number that is missing: the ones listed, the
\* ones before it and itself are different packets of one window.
LEMMA RoomOnList ==
    ASSUME NumberInv, SenderInv, NackSound, WindowInv, MaxWindowSize <= MaxNACKs,
           NEW e \in End, NoProbe(Peer(e)), NEW nacks \in SUBSET nackList[e],
           NEW i \in Len(recvLog[e]) + 1 .. LastOut(Peer(e)), Num(Peer(e), i) \notin nacks,
           NEW low \in SUBSET (0 .. i - (Len(recvLog[e]) + 1) - 1),
           \A h \in low : Num(Peer(e), Len(recvLog[e]) + 1 + h) \notin nacks
    PROVE  Cardinality(nacks) + Cardinality(low) < MaxNACKs
<1> DEFINE q == Peer(e)
           n == Len(recvLog[e])
           N == LastOut(q)
           I == n + 1 .. N
           K == {k \in I : Num(q, k) \in nacks}
           M == {k \in I : k < i /\ Num(q, k) \notin nacks}
           f == [x \in nacks |-> SeqIndex(q, x)]
           g == [h \in low |-> n + 1 + h]
<1>1. /\ q \in End /\ n \in Nat /\ N \in Nat /\ N < SeqSpace /\ SeqSpace \in Nat
      /\ MaxWindowSize \in Nat /\ MaxNACKs \in Nat
  BY PeerType, LogBounds, LastOutBounds, ConstantsAssumption DEF NumberInv
<1>2. N - n <= MaxWindowSize
  BY WithinWindow
<1>3. \A x \in nacks : SeqIndex(q, x) \in I /\ Num(q, SeqIndex(q, x)) = x
  <2> TAKE x \in nacks
  <2>1. x \in nackList[e] /\ x \in SeqNums
    BY DEF NumberInv, TypeInv, TypeOK, RecvType
  <2>2. SeqIndex(q, x) \in 0 .. SeqSpace - 1 /\ Num(q, SeqIndex(q, x)) = x
    BY <1>1, <2>1, IndexFacts
  <2>3. SeqIndex(q, x) > n
    BY <2>1 DEF NackSound
  <2>4. PICK t \in DOMAIN outOfOrderPackets[e] : SeqIndex(q, x) < SeqIndex(q, t)
    BY <2>1 DEF NackSound
  <2>5. t \in SeqNums /\ DataOut(q, t) /\ Peer(q) = e
    BY PeerType DEF NumberInv, TypeInv, TypeOK, RecvType, SenderInv, BufferedOut
  <2>6. SeqIndex(q, t) \in 0 .. SeqSpace - 1 /\ Num(q, SeqIndex(q, t)) = t
    BY <1>1, <2>5, IndexFacts
  <2>7. SeqIndex(q, t) \in 1 .. N
    <3>1. SeqIndex(q, t) \in Nat /\ n < SeqIndex(q, t) /\ SeqIndex(q, t) < SeqSpace
      BY <1>1, <2>2, <2>3, <2>4, <2>6
    <3> QED BY <1>1, <2>5, <2>6, <3>1, OutIsTracked
  <2> HIDE DEF n, N, q
  <2> QED BY <1>1, <2>2, <2>3, <2>4, <2>7
<1>4. /\ i \in I /\ low \in SUBSET (0 .. i - (n + 1) - 1) /\ Num(q, i) \notin nacks
      /\ \A h \in low : Num(q, n + 1 + h) \notin nacks
  OBVIOUS
<1> HIDE DEF q, n, N
<1>5. f \in [nacks -> K] /\ \A x, y \in nacks : f[x] = f[y] => x = y
  BY <1>3
<1>6. g \in [low -> M] /\ \A x, y \in low : g[x] = g[y] => x = y
  <2>1. \A h \in low : n + 1 + h \in I /\ n + 1 + h < i /\ h \in Nat
    BY <1>1, <1>4
  <2>2. g \in [low -> M]
    BY <1>4, <2>1
  <2> QED BY <1>1, <2>1, <2>2
<1>7. /\ IsFiniteSet(I \ {i}) /\ Cardinality(I \ {i}) = N - n - 1
  <2>1. n + 1 \in Int /\ N \in Int /\ n + 1 <= N
    BY <1>1, <1>4
  <2>2. IsFiniteSet(I) /\ Cardinality(I) = N - (n + 1) + 1
    BY <2>1, FS_Interval
  <2>3. IsFiniteSet(I \ {i}) /\ Cardinality(I \ {i}) = Cardinality(I) - 1
    BY <1>4, <2>2, FS_RemoveElement, ZenonT(30)
  <2> QED BY <1>1, <2>2, <2>3
<1>8. K \in SUBSET (I \ {i}) /\ M \in SUBSET (I \ {i}) /\ K \cup M \in SUBSET (I \ {i}) /\ K \cap M = {}
  BY <1>1, <1>4
<1> HIDE DEF I, K, M, f, g
<1>9. IsFiniteSet(K) /\ IsFiniteSet(M) /\ Cardinality(K \cup M) <= Cardinality(I \ {i})
  BY <1>7, <1>8, FS_Subset
<1>10. Cardinality(K) \in Nat /\ Cardinality(M) \in Nat /\ Cardinality({}) = 0
  BY <1>9, FS_CardinalityType, FS_EmptySet
<1>11. Cardinality(K \cup M) = Cardinality(K) + Cardinality(M)
  <2>1. Cardinality(K \cup M) = Cardinality(K) + Cardinality(M) - Cardinality(K \cap M)
    BY <1>9, FS_Union
  <2>2. Cardinality(K \cap M) = 0
    BY <1>8, <1>10, Zenon
  <2> QED BY <1>10, <2>1, <2>2
<1>12. Cardinality(nacks) <= Cardinality(K) /\ Cardinality(nacks) \in Nat
  BY <1>5, <1>9, NoLarger
<1>13. Cardinality(low) <= Cardinality(M) /\ Cardinality(low) \in Nat
  BY <1>6, <1>9, NoLarger
<1> QED BY <1>1, <1>2, <1>7, <1>9, <1>10, <1>11, <1>12, <1>13

\* The scan of updateNACKListLocked leaves out no number that is missing.
LEMMA MissingIsComplete ==
    ASSUME NumberInv, SenderInv, NackSound, WindowInv, MaxWindowSize <= MaxNACKs,
           NEW e \in End, NoProbe(Peer(e)), NEW j \in 1 .. LastOut(Peer(e)), NEW s,
           seqDiff(recvSeq[e], s) = j - (Len(recvLog[e]) + 1), Len(recvLog[e]) + 1 < j,
           NEW ooo, NEW nacks \in SUBSET nackList[e],
           NEW i \in Len(recvLog[e]) + 1 .. j - 1, Num(Peer(e), i) \notin DOMAIN ooo \cup nacks
    PROVE  Num(Peer(e), i) \in Missing(e, s, ooo, nacks)
<1> DEFINE q == Peer(e)
           n == Len(recvLog[e])
           N == LastOut(q)
           gap == seqDiff(recvSeq[e], s)
           scan == IF gap > MaxNACKs THEN MaxNACKs ELSE gap
           new == {h \in 0 .. scan - 1 : seqAdd(recvSeq[e], h) \notin DOMAIN ooo \cup nacks}
           d == i - (n + 1)
           low == {h \in new : h < d}
<1>1. /\ q \in End /\ n \in Nat /\ N \in Nat /\ N < SeqSpace /\ SeqSpace \in Nat
      /\ recvSeq[e] = Num(q, n + 1) /\ MaxWindowSize \in Nat /\ MaxNACKs \in Nat
  BY PeerType, LogBounds, LastOutBounds, ConstantsAssumption DEF NumberInv, SeqInv
<1>2. N - n <= MaxWindowSize
  BY WithinWindow
<1>3. gap = j - (n + 1) /\ i \in n + 1 .. j - 1 /\ n + 1 < j /\ j \in 1 .. N
  OBVIOUS
<1> HIDE DEF n, N, gap, q
<1>4. scan = gap /\ gap \in Nat /\ d \in 0 .. gap - 1 /\ n + 1 + d = i
      /\ i \in n + 1 .. N /\ d \in Nat
  BY <1>1, <1>2, <1>3
<1> HIDE DEF scan, d
<1>5. \A h \in 0 .. gap - 1 : seqAdd(recvSeq[e], h) = Num(q, n + 1 + h)
  <2> TAKE h \in 0 .. gap - 1
  <2>1. h \in Nat /\ n + 1 \in Nat /\ n + 1 + h < SeqSpace
    BY <1>1, <1>3, <1>4
  <2> QED BY <1>1, <2>1, NumFacts
<1>6. seqAdd(recvSeq[e], d) = Num(q, i)
  BY <1>4, <1>5
<1>7. d \in new
  BY <1>4, <1>6 DEF q
<1>8. /\ low \in SUBSET (0 .. d - 1)
      /\ \A h \in low : Num(q, n + 1 + h) \notin nacks
  BY <1>4, <1>5
<1>9. Cardinality(nacks) + Cardinality(low) < MaxNACKs
  <2>1. Num(q, i) \notin nacks
    BY DEF q
  <2> HIDE DEF low
  <2> QED BY <1>4, <1>8, <2>1, RoomOnList DEF q, n, N, d
<1>10. Num(q, i) \in {seqAdd(recvSeq[e], h) :
            h \in {k \in new : Cardinality(nacks) + Cardinality({h \in new : h < k}) < MaxNACKs}}
  BY <1>6, <1>7, <1>9
<1> QED BY <1>10 DEF Missing, q, gap, scan

\* Accepting packets leaves no gap off the list.
LEMMA AdvanceKeepsGaps ==
    ASSUME NumberInv, NumberInv', GapsNacked, NEW e \in End, AdvanceStep(e)
    PROVE  GapsNacked'
<1> SUFFICES ASSUME MaxWindowSize <= MaxNACKs, ~StatusReports,
                    NEW f \in End, NoProbe(Peer(f))', NEW t \in DOMAIN outOfOrderPackets'[f],
                    NEW i \in Len(recvLog'[f]) + 1 .. SeqIndex(Peer(f), t) - 1
             PROVE  Num(Peer(f), i) \in DOMAIN outOfOrderPackets'[f] \cup nackList'[f]
  BY DEF GapsNacked, SeqIndex, Num
<1>1. NoProbe(Peer(f))
  BY DEF AdvanceStep, NoProbe
<1>2. CASE f # e
  BY <1>1, <1>2 DEF AdvanceStep, GapsNacked, Num
<1>3. CASE f = e
  <2>1. t \in DOMAIN outOfOrderPackets[e] /\ t \in SeqNums /\ Peer(e) \in End
    BY <1>3, PeerType DEF AdvanceStep, NumberInv, TypeInv, TypeOK, RecvType
  <2>2. /\ Len(recvLog[e]) \in Nat /\ Len(recvLog'[e]) \in Nat /\ SeqSpace \in Nat
        /\ SeqIndex(Peer(e), t) \in 0 .. SeqSpace - 1 /\ Len(recvLog[e]) <= Len(recvLog'[e])
    BY <2>1, LogBounds, LogBoundsNext, IndexFacts DEF NumberInv, AdvanceStep
  <2>3. /\ i \in Len(recvLog[e]) + 1 .. SeqIndex(Peer(e), t) - 1
        /\ i > Len(recvLog'[e]) /\ i \in 0 .. SeqSpace - 1 /\ i \in Nat
    BY <1>3, <2>2
  <2>4. Num(Peer(e), i) \in DOMAIN outOfOrderPackets[e] \cup nackList[e]
    BY <1>1, <1>3, <2>1, <2>3 DEF GapsNacked, Num
  <2>5. SeqIndex(Peer(e), Num(Peer(e), i)) = i
    BY <2>1, <2>3, IndexFacts
  <2>6. Num(Peer(e), i) \notin Past(e)
    BY <2>2, <2>3, <2>5 DEF Past
  <2> QED BY <1>3, <2>4, <2>6 DEF AdvanceStep
<1> QED BY <1>2, <1>3

\* Nor does buffering a packet.
LEMMA OutOfOrderKeepsGaps ==
    ASSUME NumberInv, SenderInv, NackSound, WindowInv, GapsNacked, NEW e \in End, NEW p \in network,
           p.src = Peer(e), p.pay # NoPayload, handleOutOfOrder(e, p)
    PROVE  GapsNacked'
<1>1. PICK j \in 1 .. Top[Peer(e)] :
              /\ p.seq = Num(Peer(e), j) /\ Len(recvLog[e]) + 1 < j
              /\ seqDiff(recvSeq[e], p.seq) = j - (Len(recvLog[e]) + 1)
              /\ DOMAIN outOfOrderPackets'[e] = DOMAIN outOfOrderPackets[e] \cup {p.seq}
              /\ nackList'[e] = (nackList[e] \ {p.seq})
                    \cup Missing(e, p.seq, outOfOrderPackets'[e], nackList[e] \ {p.seq})
              /\ \A f \in End \ {e} : /\ nackList'[f] = nackList[f]
                                      /\ outOfOrderPackets'[f] = outOfOrderPackets[f]
              /\ UNCHANGED <<sentLog, recvLog>>
  BY OutOfOrderEffect
<1> SUFFICES ASSUME MaxWindowSize <= MaxNACKs, ~StatusReports,
                    NEW f \in End, NoProbe(Peer(f))', NEW t \in DOMAIN outOfOrderPackets'[f],
                    NEW i \in Len(recvLog'[f]) + 1 .. SeqIndex(Peer(f), t) - 1
             PROVE  Num(Peer(f), i) \in DOMAIN outOfOrderPackets'[f] \cup nackList'[f]
  BY DEF GapsNacked, SeqIndex, Num
<1>2. NoProbe(Peer(f)) /\ recvLog'[f] = recvLog[f]
  BY <1>1 DEF NoProbe
<1>3. CASE f # e
  BY <1>1, <1>2, <1>3 DEF GapsNacked, Num
<1>4. CASE f = e /\ t \in DOMAIN outOfOrderPackets[e]
  <2>1. Num(Peer(e), i) \in DOMAIN outOfOrderPackets[e] \cup nackList[e]
    BY <1>2, <1>4 DEF GapsNacked, Num
  <2> QED BY <1>1, <1>4, <2>1
<1>5. CASE f = e /\ t = p.seq
  <2>0. /\ Peer(e) \in End /\ Peer(Peer(e)) = e /\ j \in Nat /\ j < SeqSpace
        /\ j \in 0 .. SeqSpace - 1 /\ Len(recvLog[e]) < j
    <3>1. /\ Peer(e) \in End /\ Peer(Peer(e)) = e /\ Top[Peer(e)] \in Nat /\ Top[Peer(e)] + 2 <= Half
          /\ Half + 2 <= SeqSpace /\ Half \in Nat /\ SeqSpace \in Nat /\ Len(recvLog[e]) \in Nat
      BY LogBounds, PeerType DEF NumberInv
    <3> QED BY <1>1, <3>1
  <2>1. SeqIndex(Peer(e), t) = j
    BY <1>1, <1>5, <2>0, IndexFacts
  <2>2. i \in Len(recvLog[e]) + 1 .. j - 1
    BY <1>2, <1>5, <2>1
  <2>3. nackList[e] \ {p.seq} \in SUBSET nackList[e]
    OBVIOUS
  <2>4. j \in 1 .. LastOut(Peer(e))
    <3>1. DataOut(Peer(e), Num(Peer(e), j)) /\ NoProbe(Peer(e))
      BY <1>1, <1>2, <1>5 DEF DataOut
    <3> QED BY <2>0, <3>1, OutIsTracked
  <2>5. Num(Peer(e), i) \notin DOMAIN outOfOrderPackets'[e] \cup (nackList[e] \ {p.seq})
           => Num(Peer(e), i) \in Missing(e, p.seq, outOfOrderPackets'[e], nackList[e] \ {p.seq})
    BY <1>1, <1>2, <1>5, <2>2, <2>3, <2>4, MissingIsComplete
  <2> QED BY <1>1, <1>5, <2>5
<1> QED BY <1>1, <1>3, <1>4, <1>5

\* Every gap is asked for: whatever is lost or refused and however the list is cut and
\* mended by the handlers, a number missing before a buffered packet is on the list, as
\* long as the list can hold the window and nothing is out beyond it.
THEOREM GapsCorrect == Spec => []GapsNacked
<1>1. ASSUME StatusReports PROVE Spec => []GapsNacked
  <2>1. GapsNacked
    BY <1>1 DEF GapsNacked
  <2> QED BY <2>1, PTL
<1>2. ASSUME ~StatusReports PROVE Spec => []GapsNacked
  <2>1. Init => GapsNacked /\ WindowInv
    <3>1. Init => WindowInv
      <4> SUFFICES ASSUME Init, NEW e \in End PROVE inFlight(e) <= MaxWindowSize
        BY DEF WindowInv
      <4>1. DOMAIN sentPackets[e] = {}
        BY DEF Init
      <4> QED BY <4>1, FS_EmptySet, ConstantsAssumption DEF inFlight
    <3> QED BY <3>1 DEF Init, GapsNacked
  <2>2. NumberInv /\ WindowInv /\ [Next]_vars => WindowInv'
    BY WindowNext
  <2>3. NumberInv /\ NumberInv' /\ SenderInv /\ NackSound /\ WindowInv /\ GapsNacked /\ [Next]_vars
           => GapsNacked'
    <3> SUFFICES ASSUME NumberInv, NumberInv', SenderInv, NackSound, WindowInv, GapsNacked, [Next]_vars
                 PROVE  GapsNacked'
      OBVIOUS
    <3>1. CASE UNCHANGED <<recvVars, recvLog>>
      <4>1. \A e \in End : NoProbe(Peer(e))' => NoProbe(Peer(e))
        BY NoProbeBefore, PeerType DEF NumberInv
      <4> QED BY <3>1, <4>1 DEF GapsNacked, recvVars, SeqIndex
    <3> QED BY <3>1, ReceiverShapes, AdvanceKeepsGaps, OutOfOrderKeepsGaps
  <2>4. Spec => []SenderInv
    BY <1>2, SenderInvariance
  <2> QED BY <2>1, <2>2, <2>3, <2>4, NumberInvariance, NackCorrect, PTL DEF Spec
<1> QED BY <1>1, <1>2

-------------------------------------------------------------------------------
(* Whoever makes room in the window wakes the writer *)

\* No window falls below two packets.
WindowsWide == \A e \in End : cwnd[e] >= 2 /\ ssthresh[e] >= 2

WakeInv == WindowsWide /\ NoLostWakeup

\* No window falls below two packets.
LEMMA WindowsWideNext ==
    ASSUME TypeInv, ~StatusReports, WindowsWide, [Next]_vars
    PROVE  WindowsWide'
<1>1. PICK e \in End :
         \/ OtherStep(e)
         \/ \E p \in network : /\ p.src = Peer(e) /\ p.flag = "NONE"
                               /\ state[e] # "SYN_RCVD" /\ handleAck(e, p)
  BY AckOrOther DEF ReportStep
<1>2. CASE OtherStep(e)
  BY <1>2 DEF OtherStep, WindowsWide
<1>3. ASSUME NEW p \in network, handleAck(e, p) PROVE WindowsWide'
  <2>1. /\ cwnd[e] \in Nat /\ ssthresh[e] \in Nat /\ cwnd[e] >= 2 /\ ssthresh[e] >= 2
        /\ MaxWindowSize \in Nat /\ MaxWindowSize >= 2
    BY ConstantsAssumption DEF TypeInv, TypeOK, SendType, WindowsWide
  <2>2. GrowWindow(cwnd[e], ssthresh[e]) \in Nat /\ GrowWindow(cwnd[e], ssthresh[e]) >= 2
    BY <2>1 DEF GrowWindow
  <2>3. \A w \in Nat : HalveWindow(w) >= 2
    BY DEF HalveWindow
  <2>4. /\ cwnd'[e] \in {cwnd[e], GrowWindow(cwnd[e], ssthresh[e]), HalveWindow(cwnd[e]),
                         HalveWindow(GrowWindow(cwnd[e], ssthresh[e]))}
        /\ ssthresh'[e] \in {ssthresh[e], HalveWindow(cwnd[e]),
                             HalveWindow(GrowWindow(cwnd[e], ssthresh[e]))}
        /\ \A f \in End \ {e} : cwnd'[f] = cwnd[f] /\ ssthresh'[f] = ssthresh[f]
    BY <1>3, AckEffect
  <2>5. cwnd'[e] >= 2 /\ ssthresh'[e] >= 2
    BY <2>1, <2>2, <2>3, <2>4
  <2> QED BY <2>4, <2>5 DEF WindowsWide
<1> QED BY <1>1, <1>2, <1>3

\* An ACK that is news releases the packet it names, so it wakes the writer.
LEMMA NewsReleases ==
    ASSUME NumberInv, SenderInv, NEW e \in End, timer[e] # "off", NoProbe(e),
           NEW p \in network, p.src = Peer(e), p.flag = "NONE",
           seqGreaterThan(p.ack, ackThrough[e])
    PROVE  Unacked(e, p.ack) # DOMAIN sentPackets[e]
<1>1. PICK j \in 0 .. Len(recvLog[Peer(e)]) : p.ack = Num(e, j)
  BY PeerType, NumberedAcks DEF AckInv, Covered
<1>2. PICK a \in 0 .. Len(recvLog[Peer(e)]) : ackThrough[e] = Num(e, a)
  BY PeerType DEF NumberInv, ThroughInv, Covered
<1>3. /\ Peer(e) \in End /\ Peer(Peer(e)) = e /\ Half \in Nat
      /\ Len(recvLog[Peer(e)]) \in Nat /\ Len(recvLog[Peer(e)]) <= Top[e] /\ Top[e] \in Nat
      /\ Top[e] + 2 <= Half
  BY PeerType, LogBounds DEF NumberInv, ReachInv
<1>4. j \in 0 .. Half - 1 /\ a \in 0 .. Half - 1
  BY <1>3
<1>5. ~seqLessThanOrEqual(p.ack, ackThrough[e])
  <2>1. p.ack \in SeqNums /\ ackThrough[e] \in SeqNums
    BY DEF NumberInv, TypeInv, TypeOK, SendType, Packet
  <2> QED BY <2>1, HalfFact, SeqSpaceAssumption
          DEF SeqNums, seqGreaterThan, seqLessThanOrEqual, seqLessThan, seqDiff
<1>6. ~(j <= a)
  BY <1>1, <1>2, <1>4, <1>5, NumFacts
<1>7. j \in 1 .. Len(recvLog[Peer(e)])
  BY <1>3, <1>4, <1>6
<1>8. PICK r \in network : r.src = e /\ r.seq = p.ack /\ r.pay # NoPayload
  BY <1>1, <1>3, <1>7 DEF SenderInv, AcceptedOut, DataOut
<1>9. r.pay \in Chunk
  BY <1>8 DEF NumberInv, TypeInv, TypeOK, Packet, Payload, SenderInv, ProbesLogged
<1>10. p.ack \in DOMAIN sentPackets[e]
  BY <1>5, <1>8, <1>9 DEF SenderInv, Held
<1>11. p.ack \notin Unacked(e, p.ack)
  BY DEF Unacked, seqLessThanOrEqual
<1> QED BY <1>10, <1>11

\* A sleeping writer keeps facing a full window.
LEMMA WakeupNext ==
    ASSUME NumberInv, SenderInv, ~StatusReports, WakeInv, [Next]_vars
    PROVE  NoLostWakeup'
<1> SUFFICES ASSUME NEW f \in End, writer'[f] = "waiting", NoProbe(f)'
             PROVE  Cardinality(DOMAIN sentPackets'[f]) >= cwnd'[f]
  BY DEF NoLostWakeup, inFlight
<1>1. PICK e \in End :
         \/ OtherStep(e)
         \/ \E p \in network : /\ p.src = Peer(e) /\ p.flag = "NONE"
                               /\ state[e] # "SYN_RCVD" /\ handleAck(e, p)
  BY AckOrOther DEF NumberInv, ReportStep
<1>2. NoProbe(f)
  BY NoProbeBefore DEF NumberInv
<1>3. writer[f] = "waiting" => Cardinality(DOMAIN sentPackets[f]) >= cwnd[f]
  BY <1>2 DEF WakeInv, NoLostWakeup, inFlight
<1>4. CASE OtherStep(e)
  BY <1>3, <1>4 DEF OtherStep, inFlight
<1>5. ASSUME NEW p \in network, p.src = Peer(e), p.flag = "NONE", handleAck(e, p)
      PROVE  Cardinality(DOMAIN sentPackets'[f]) >= cwnd'[f]
  <2>1. CASE f # e
    <3>1. sentPackets'[f] = sentPackets[f] /\ writer'[f] = writer[f] /\ cwnd'[f] = cwnd[f]
      BY <1>5, <2>1, AckEffect DEF NumberInv
    <3> QED BY <1>3, <3>1
  <2>2. CASE f = e
    <3>1. writer[e] = "waiting" /\ writer'[e] # Woken(writer[e])
      <4>1. writer'[e] = writer[e] \/ writer'[e] = Woken(writer[e])
        BY <1>5, AckEffect DEF NumberInv
      <4> QED BY <2>2, <4>1 DEF Woken
    <3>2. timer[e] # "off"
      BY <3>1 DEF SenderInv, Started
    <3>3. ~seqGreaterThan(p.ack, ackThrough[e])
      <4>1. ~(seqGreaterThan(p.ack, ackThrough[e]) /\ Unacked(e, p.ack) # DOMAIN sentPackets[e])
        BY <1>5, <3>1, AckEffect DEF NumberInv
      <4> QED BY <1>2, <1>5, <2>2, <3>2, <4>1, NewsReleases
    <3>4. DOMAIN sentPackets'[e] = DOMAIN sentPackets[e] /\ cwnd'[e] \in {cwnd[e], HalveWindow(cwnd[e])}
      BY <1>5, <3>3, AckEffect DEF NumberInv
    <3>5. cwnd[e] \in Nat /\ cwnd[e] >= 2
      BY ConstantsAssumption DEF WakeInv, WindowsWide, NumberInv, TypeInv, TypeOK, SendType
    <3>6. HalveWindow(cwnd[e]) <= cwnd[e] /\ HalveWindow(cwnd[e]) \in Nat
      BY <3>5 DEF HalveWindow
    <3>7. Cardinality(DOMAIN sentPackets[e]) \in Nat
      BY TrackedFinite DEF NumberInv, inFlight
    <3>8. Cardinality(DOMAIN sentPackets[e]) >= cwnd[e]
      BY <1>3, <2>2, <3>1
    <3>9. cwnd'[e] <= cwnd[e] /\ cwnd'[e] \in Nat
      BY <3>4, <3>5, <3>6
    <3> QED BY <2>2, <3>4, <3>5, <3>7, <3>8, <3>9
  <2> QED BY <2>1, <2>2
<1> QED BY <1>1, <1>4, <1>5

\* No wakeup is lost: without reports of the router and probes, whatever makes room
\* in the window (an ACK that releases packets or lets the window grow) wakes the
\* Write that sleeps in waitForWindowSpace.  The window must start with two packets
\* (six in the code): halving a window of one gives two, room that nobody announces.
THEOREM WakeupCorrect ==
    ASSUME ~StatusReports, DefaultWindowSize >= 2
    PROVE  Spec => []NoLostWakeup
<1>1. Init => WakeInv
  <2> SUFFICES ASSUME Init PROVE WakeInv
    OBVIOUS
  <2>1. WindowsWide
    BY ConstantsAssumption DEF Init, WindowsWide
  <2>2. NoLostWakeup
    BY DEF Init, NoLostWakeup
  <2> QED BY <2>1, <2>2 DEF WakeInv
<1>2. NumberInv /\ SenderInv /\ WakeInv /\ [Next]_vars => WakeInv'
  BY WindowsWideNext, WakeupNext DEF WakeInv, NumberInv
<1>3. WakeInv => NoLostWakeup
  BY DEF WakeInv
<1> QED BY <1>1, <1>2, <1>3, NumberInvariance, SenderInvariance, PTL DEF Spec
===============================================================================
