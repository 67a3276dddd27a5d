-------------------------- MODULE StreamConnType_proofs ------------------------
(***************************************************************************)
(* What holds of StreamConn for every value of its constants, whether or   *)
(* not the router refuses messages or reports their status: the order of   *)
(* numbers, types, chokes that can be lifted, progress that is never       *)
(* undone, what Read hands over, acknowledgements of what was accepted and *)
(* requests of what is missing.                                            *)
(***************************************************************************)
EXTENDS StreamConn, SequenceTheorems, TLAPS

-------------------------------------------------------------------------------
(* Sequence-number arithmetic, for every size of the space *)

\* Half is half of the space.
LEMMA HalfFact == Half \in Nat /\ 2 * Half = SeqSpace /\ Half >= 2
BY SeqSpaceAssumption DEF Half

\* Adding a count below SeqSpace stays in the space, and zero changes nothing.
LEMMA SeqAddType ==
    ASSUME NEW a \in SeqNums, NEW k \in 0 .. SeqSpace - 1
    PROVE  seqAdd(a, k) \in SeqNums /\ seqAdd(a, 0) = a
BY SeqSpaceAssumption DEF SeqNums, seqAdd

\* Different counts below SeqSpace lead to different numbers.
LEMMA SeqAddInjective ==
    ASSUME NEW a \in SeqNums, NEW i \in 0 .. SeqSpace - 1, NEW j \in 0 .. SeqSpace - 1,
           seqAdd(a, i) = seqAdd(a, j)
    PROVE  i = j
BY SeqSpaceAssumption DEF SeqNums, seqAdd

\* Counts add up as long as they stay below SeqSpace.
LEMMA SeqAddAssoc ==
    ASSUME NEW a \in SeqNums, NEW m \in Nat, NEW n \in Nat, m + n < SeqSpace
    PROVE  seqAdd(seqAdd(a, m), n) = seqAdd(a, m + n)
BY SeqSpaceAssumption DEF SeqNums, seqAdd

\* seqPrev undoes an increment.
LEMMA SeqPrevOfAdd ==
    ASSUME NEW a \in SeqNums, NEW k \in 0 .. SeqSpace - 2
    PROVE  seqPrev(seqAdd(a, k + 1)) = seqAdd(a, k)
BY SeqSpaceAssumption DEF SeqNums, seqAdd, seqPrev

\* The distance to a number is the count that led to it.
LEMMA SeqDiffOfAdd ==
    ASSUME NEW a \in SeqNums, NEW k \in 0 .. SeqSpace - 1
    PROVE  seqDiff(a, seqAdd(a, k)) = k
BY SeqSpaceAssumption DEF SeqNums, seqAdd, seqDiff

\* Numbers that are less than half the space past a common start are ordered as
\* they were counted, wherever the wrap falls.
THEOREM WindowOrder ==
    ASSUME NEW a \in SeqNums, NEW i \in 0 .. Half - 1, NEW j \in 0 .. Half - 1
    PROVE  /\ seqLessThan(seqAdd(a, i), seqAdd(a, j)) <=> i < j
           /\ seqLessThanOrEqual(seqAdd(a, i), seqAdd(a, j)) <=> i <= j
           /\ seqGreaterThan(seqAdd(a, i), seqAdd(a, j)) <=> i > j
<1>1. SeqSpace \in Nat /\ Half \in Nat /\ 2 * Half = SeqSpace /\ Half >= 2
  BY HalfFact, SeqSpaceAssumption
<1>2. seqDiff(seqAdd(a, j), seqAdd(a, i)) = IF i >= j THEN i - j ELSE i - j + SeqSpace
  BY <1>1 DEF SeqNums, seqAdd, seqDiff
<1>3. seqAdd(a, i) = seqAdd(a, j) <=> i = j
  BY <1>1 DEF SeqNums, seqAdd
<1> QED
  BY <1>1, <1>2, <1>3 DEF seqLessThan, seqLessThanOrEqual, seqGreaterThan

-------------------------------------------------------------------------------
(* The ends *)

\* The two ends are each other's peer.
LEMMA PeerType == \A e \in End : Peer(e) \in End /\ Peer(Peer(e)) = e /\ Peer(e) # e
BY DEF End, Peer

-------------------------------------------------------------------------------
(* Type correctness *)

\* A Write that has not returned has chunks left to send.
WriterHasWork == \A e \in End : writer[e] # "idle" => writeLeft[e] >= 1

TypeInv == TypeOK /\ WriterHasWork

\* A group of variables that a step leaves alone keeps its type.
LEMMA TypeUnchanged ==
    ASSUME TypeInv
    PROVE  /\ UNCHANGED lifeVars => LifeType'
           /\ UNCHANGED sendVars => SendType'
           /\ UNCHANGED flowVars => FlowType'
           /\ UNCHANGED writeVars => WriteType' /\ WriterHasWork'
           /\ UNCHANGED recvVars => RecvType'
           /\ UNCHANGED network => (network \subseteq Packet)'
           /\ UNCHANGED histVars => HistType'
<1> USE DEF TypeInv, TypeOK
<1>1. UNCHANGED lifeVars => LifeType'
  BY DEF LifeType, lifeVars
<1>2. UNCHANGED sendVars => SendType'
  BY DEF SendType, sendVars
<1>3. UNCHANGED flowVars => FlowType'
  BY DEF FlowType, flowVars
<1>4. UNCHANGED writeVars => WriteType' /\ WriterHasWork'
  BY DEF WriteType, WriterHasWork, writeVars
<1>5. UNCHANGED recvVars => RecvType'
  BY DEF RecvType, recvVars
<1>6. UNCHANGED histVars => HistType'
  BY DEF HistType, histVars
<1> QED BY <1>1, <1>2, <1>3, <1>4, <1>5, <1>6

\* The packets an end builds are packets.
LEMMA PacketTypes ==
    ASSUME NEW e \in End, NEW rseq \in SeqNums
    PROVE  /\ \A nacks \in SUBSET SeqNums, d \in {"NONE", "CHOKE", "UNCHOKE"} :
                 AckPacket(e, rseq, nacks, d) \in Packet
           /\ \A seq \in SeqNums, pay \in Payload : DataPacket(e, seq, rseq, pay) \in Packet
           /\ ResetPacket(e) \in Packet
<1>1. 0 \in SeqNums /\ \A s \in SeqNums : seqPrev(s) \in SeqNums
  BY SeqSpaceAssumption DEF SeqNums, seqPrev
<1>2. ResetPacket(e) \in Packet
  BY <1>1 DEF ResetPacket, Packet
<1>3. \A nacks \in SUBSET SeqNums, d \in {"NONE", "CHOKE", "UNCHOKE"} :
         AckPacket(e, rseq, nacks, d) \in Packet
  BY <1>1 DEF AckPacket, Packet
<1>4. \A seq \in SeqNums, pay \in Payload : DataPacket(e, seq, rseq, pay) \in Packet
  BY <1>1 DEF DataPacket, Packet
<1> QED BY <1>2, <1>3, <1>4

\* A CLOSE packet is a packet.
LEMMA ClosePacketType ==
    ASSUME TypeOK, NEW e \in End PROVE ClosePacket(e) \in Packet
<1>1. \A s \in SeqNums : seqPrev(s) \in SeqNums
  BY SeqSpaceAssumption DEF SeqNums, seqPrev
<1>2. sendSeq[e] \in SeqNums /\ recvSeq[e] \in SeqNums
  BY DEF TypeOK, SendType, RecvType
<1> QED BY <1>1, <1>2 DEF ClosePacket, Packet

\* The connection starts in a state of the right type.
LEMMA TypeInit == Init => TypeInv
<1> SUFFICES ASSUME Init PROVE TypeInv
  OBVIOUS
<1>0. 0 \in SeqNums /\ \A e \in End : ISN[e] \in SeqNums /\ seqAdd(ISN[e], 1) \in SeqNums
  BY SeqSpaceAssumption, ConstantsAssumption DEF SeqNums, seqAdd
<1>1. network \subseteq Packet
  <2>1. AckPacket("client", seqAdd(ISN["server"], 1), {}, "NONE") \in Packet
    BY <1>0, PacketTypes DEF End
  <2> QED BY <2>1 DEF Init
<1>2. LifeType /\ FlowType /\ WriteType /\ WriterHasWork
  BY DEF Init, LifeType, FlowType, WriteType, WriterHasWork
<1>3. SendType
  BY <1>0, ConstantsAssumption DEF Init, SendType
<1>4. RecvType
  BY <1>0, PeerType DEF Init, RecvType
<1>5. HistType
  BY DEF Init, HistType
<1> QED BY <1>1, <1>2, <1>3, <1>4, <1>5 DEF TypeInv, TypeOK

\* The actions of a Write.
LEMMA TypeWrite ==
    ASSUME TypeInv, NEW e \in End,
           \/ \E n \in 1 .. MaxWriteChunks : Write(e, n)
           \/ WindowWait(e) \/ WriteResume(e) \/ WriteAbort(e)
    PROVE  TypeInv'
<1> USE TypeUnchanged DEF TypeInv
<1>1. CASE \E n \in 1 .. MaxWriteChunks : Write(e, n)
  <2>1. PICK n \in 1 .. MaxWriteChunks : Write(e, n)
    BY <1>1
  <2>2. n \in Nat /\ n >= 1
    BY ConstantsAssumption
  <2>3. WriteType' /\ WriterHasWork'
    BY <2>1, <2>2 DEF Write, TypeOK, WriteType, WriterHasWork
  <2> QED BY <2>1, <2>3 DEF Write, TypeOK
<1>2. CASE WindowWait(e)
  <2>1. WriteType' /\ WriterHasWork'
    BY <1>2 DEF WindowWait, Locked, TypeOK, WriteType, WriterHasWork
  <2> QED BY <1>2, <2>1 DEF WindowWait, TypeOK
<1>3. CASE WriteResume(e)
  <2>1. WriteType' /\ WriterHasWork'
    BY <1>3 DEF WriteResume, TypeOK, WriteType, WriterHasWork
  <2> QED BY <1>3, <2>1 DEF WriteResume, TypeOK
<1>4. CASE WriteAbort(e)
  <2>1. WriteType' /\ WriterHasWork'
    BY <1>4 DEF WriteAbort, TypeOK, WriteType, WriterHasWork
  <2> QED BY <1>4, <2>1 DEF WriteAbort, TypeOK
<1> QED BY <1>1, <1>2, <1>3, <1>4

\* A packet that is tracked has the type of one.
LEMMA TrackType ==
    ASSUME NEW T, DOMAIN T \subseteq SeqNums, \A s \in DOMAIN T : T[s] \in SentPacket,
           NEW pkt \in Packet
    PROVE  /\ DOMAIN track(T, pkt) \subseteq SeqNums
           /\ \A s \in DOMAIN track(T, pkt) : track(T, pkt)[s] \in SentPacket
<1>1. pkt.seq \in SeqNums
  BY DEF Packet
<1>2. [pkt |-> pkt, retryCount |-> 0] \in SentPacket
  BY ConstantsAssumption DEF SentPacket
<1> QED BY <1>1, <1>2 DEF track

\* sendDataChunk, whether or not the router accepts the packet.
LEMMA TypeWriteChunk ==
    ASSUME TypeInv, NEW e \in End, WriteChunk(e)
    PROVE  TypeInv'
<1> DEFINE pkt == DataPacket(e, sendSeq[e], recvSeq[e], used[e] + 1)
<1>0. TypeOK /\ WriterHasWork
  BY DEF TypeInv
<1>1. pkt \in Packet /\ pkt.pay \in Payload
  <2>1. used[e] + 1 \in Payload
    BY <1>0 DEF TypeOK, HistType, Payload, Chunk
  <2>2. sendSeq[e] \in SeqNums /\ recvSeq[e] \in SeqNums
    BY <1>0 DEF TypeOK, SendType, RecvType
  <2> QED BY <2>1, <2>2, PacketTypes DEF DataPacket
<1>2. /\ writer[e] = "sending"
      /\ sentPackets' = [sentPackets EXCEPT ![e] = track(@, pkt)]
      /\ used' = [used EXCEPT ![e] = @ + 1]
      /\ UNCHANGED <<lifeVars, ackThrough, nackCounts, cwnd, ssthresh, flowVars,
                     recvVars, recvLog, readLog>>
  BY DEF WriteChunk, Locked
<1>3. \/ /\ network' = network \cup {pkt}
         /\ sendSeq' = [sendSeq EXCEPT ![e] = seqAdd(@, 1)]
         /\ sentLog' = [sentLog EXCEPT ![e] = Append(@, pkt.pay)]
         /\ writeLeft' = [writeLeft EXCEPT ![e] = @ - 1]
         /\ writer' = [writer EXCEPT ![e] = IF writeLeft[e] = 1 THEN "idle" ELSE "sending"]
      \/ /\ writer' = [writer EXCEPT ![e] = "idle"]
         /\ writeLeft' = [writeLeft EXCEPT ![e] = 0]
         /\ UNCHANGED <<network, sendSeq, sentLog>>
  BY DEF WriteChunk
<1> HIDE DEF pkt
<1>4. SendType'
  <2>1. sendSeq' \in [End -> SeqNums]
    <3>1. sendSeq \in [End -> SeqNums] /\ seqAdd(sendSeq[e], 1) \in SeqNums
      BY <1>0, SeqSpaceAssumption, SMTT(30) DEF TypeOK, SendType, SeqNums, seqAdd
    <3> QED BY <3>1, <1>3
  <2>2. /\ DOMAIN track(sentPackets[e], pkt) \subseteq SeqNums
        /\ \A s \in DOMAIN track(sentPackets[e], pkt) :
              track(sentPackets[e], pkt)[s] \in SentPacket
    BY <1>0, <1>1, TrackType DEF TypeOK, SendType
  <2> QED BY <1>0, <1>2, <2>1, <2>2 DEF TypeOK, SendType
<1>5. WriteType' /\ WriterHasWork'
  <2>1. writeLeft[e] \in Nat /\ writeLeft[e] >= 1
    BY <1>0, <1>2 DEF TypeOK, WriteType, WriterHasWork
  <2>2. /\ writer \in [End -> {"idle", "sending", "waiting", "woken"}]
        /\ writeLeft \in [End -> Nat] /\ \A f \in End : writer[f] # "idle" => writeLeft[f] >= 1
    BY <1>0 DEF TypeOK, WriteType, WriterHasWork
  <2>3. PICK x \in {"idle", "sending"}, l \in Nat :
           /\ writer' = [writer EXCEPT ![e] = x] /\ writeLeft' = [writeLeft EXCEPT ![e] = l]
           /\ x # "idle" => l >= 1
    <3>1. 0 \in Nat /\ writeLeft[e] - 1 \in Nat /\ (writeLeft[e] # 1 => writeLeft[e] - 1 >= 1)
      BY <2>1
    <3> QED BY <1>3, <3>1
  <2> QED BY <2>2, <2>3 DEF WriteType, WriterHasWork
<1>6. network' \subseteq Packet
  BY <1>0, <1>1, <1>3 DEF TypeOK
<1>7. HistType'
  <2>1. sentLog \in [End -> Seq(Payload)] /\ used \in [End -> Nat]
    BY <1>0 DEF TypeOK, HistType
  <2>2. Append(sentLog[e], pkt.pay) \in Seq(Payload)
    BY <1>1, <2>1, AppendProperties
  <2>3. sentLog' \in [End -> Seq(Payload)]
    BY <1>3, <2>1, <2>2
  <2>4. used' \in [End -> Nat]
    BY <1>2, <2>1
  <2>5. recvLog' = recvLog /\ readLog' = readLog
    BY <1>2
  <2> QED BY <1>0, <2>3, <2>4, <2>5 DEF TypeOK, HistType
<1> QED BY <1>2, <1>4, <1>5, <1>6, <1>7, TypeUnchanged DEF TypeInv, TypeOK

\* What the sender's helpers return.
LEMMA WindowTypes ==
    ASSUME NEW w \in 1 .. MaxWindowSize, NEW ss \in 1 .. MaxWindowSize
    PROVE  GrowWindow(w, ss) \in 1 .. MaxWindowSize /\ HalveWindow(w) \in 1 .. MaxWindowSize
<1>1. GrowWindow(w, ss) \in 1 .. MaxWindowSize
  BY ConstantsAssumption DEF GrowWindow
<1>2. HalveWindow(w) \in 1 .. MaxWindowSize
  BY ConstantsAssumption DEF HalveWindow
<1> QED BY <1>1, <1>2

\* A retry is counted without touching the packet.
LEMMA BumpType ==
    ASSUME NEW info \in SentPacket
    PROVE  bump(info) \in SentPacket /\ bump(info).pkt = info.pkt
<1>1. info.retryCount \in 0 .. MaxRetransmissions + 1 /\ info.pkt \in Packet
  BY DEF SentPacket
<1>2. (IF info.retryCount > MaxRetransmissions THEN info.retryCount ELSE info.retryCount + 1)
         \in 0 .. MaxRetransmissions + 1
  BY <1>1, ConstantsAssumption
<1> QED BY <1>1, <1>2 DEF bump, SentPacket

\* The router accepts some of the packets it is handed.
LEMMA AcceptedSubset == ASSUME NEW S, NEW R \in Accepted(S) PROVE R \subseteq S
BY DEF Accepted

\* Packets that are kept, and those of them that are resent, keep their types.
LEMMA ResendType ==
    ASSUME TypeOK, NEW e \in End, NEW kept \in SUBSET DOMAIN sentPackets[e],
           NEW resent \in SUBSET kept,
           sentPackets' = [sentPackets EXCEPT ![e] =
              [s \in kept |-> IF s \in resent THEN bump(sentPackets[e][s])
                                              ELSE sentPackets[e][s]]],
           network' = network \cup {sentPackets[e][s].pkt : s \in resent}
    PROVE  /\ network' \subseteq Packet
           /\ DOMAIN sentPackets' = End
           /\ \A f \in End : /\ DOMAIN sentPackets'[f] \subseteq SeqNums
                             /\ \A s \in DOMAIN sentPackets'[f] :
                                   sentPackets'[f][s] \in SentPacket
<1> DEFINE new == [s \in kept |-> IF s \in resent THEN bump(sentPackets[e][s])
                                                   ELSE sentPackets[e][s]]
<1>1. \A s \in kept : sentPackets[e][s] \in SentPacket
  BY DEF TypeOK, SendType
<1>2. \A s \in kept : sentPackets[e][s].pkt \in Packet
  BY <1>1 DEF SentPacket
<1>3. DOMAIN new \subseteq SeqNums /\ \A s \in DOMAIN new : new[s] \in SentPacket
  BY <1>1, BumpType DEF TypeOK, SendType
<1>4. sentPackets' = [sentPackets EXCEPT ![e] = new]
  OBVIOUS
<1> HIDE DEF new
<1>5. network' \subseteq Packet
  BY <1>2 DEF TypeOK
<1>6. DOMAIN sentPackets' = End
  BY <1>4 DEF TypeOK, SendType
<1> QED BY <1>3, <1>4, <1>5, <1>6 DEF TypeOK, SendType

\* handleAckLocked, with its window, counters, resends and choke signal.
LEMMA TypeAck ==
    ASSUME TypeInv, NEW e \in End, NEW p \in network, handleAck(e, p)
    PROVE  TypeInv'
<1>0. TypeOK /\ WriterHasWork /\ p \in Packet
  BY DEF TypeInv, TypeOK
<1> DEFINE newer  == seqGreaterThan(p.ack, ackThrough[e])
           kept   == IF newer THEN Unacked(e, p.ack) ELSE DOMAIN sentPackets[e]
           counts == [s \in SeqNums |->
                         IF newer /\ s \notin p.nacks /\ seqLessThanOrEqual(s, p.ack)
                         THEN 0 ELSE nackCounts[e][s]]
           due    == fastRetransmit(counts, p.nacks)
           grown  == IF newer THEN GrowWindow(cwnd[e], ssthresh[e]) ELSE cwnd[e]
           wakes  == \/ newer /\ (kept # DOMAIN sentPackets[e] \/ counts # nackCounts[e])
                     \/ p.delay = "UNCHOKE" /\ choked[e]
           counted == [s \in SeqNums |-> CASE s \in due -> 0
                                   [] s \in p.nacks \ due -> counts[s] + 1
                                   [] OTHER -> counts[s]]
<1>1. /\ ackThrough' = [ackThrough EXCEPT ![e] = IF newer THEN p.ack ELSE @]
      /\ nackCounts' = [nackCounts EXCEPT ![e] = counted]
      /\ cwnd' = [cwnd EXCEPT ![e] = IF due = {} THEN grown ELSE HalveWindow(grown)]
      /\ ssthresh' = [ssthresh EXCEPT ![e] = IF due = {} THEN @ ELSE HalveWindow(grown)]
      /\ \E resent \in Accepted(due \cap kept) :
            /\ sentPackets' = [sentPackets EXCEPT ![e] =
                  [s \in kept |-> IF s \in resent THEN bump(sentPackets[e][s])
                                                  ELSE sentPackets[e][s]]]
            /\ network' = network \cup {sentPackets[e][s].pkt : s \in resent}
      /\ handleOptionalDelay(e, p.delay)
      /\ writer' = [writer EXCEPT ![e] = IF wakes THEN Woken(@) ELSE @]
      /\ UNCHANGED <<lifeVars, sendSeq, writeLeft, recvVars, histVars>>
  BY DEF handleAck
<1>2. p.ack \in SeqNums /\ p.nacks \subseteq SeqNums /\ p.delay \in {"NONE", "CHOKE", "UNCHOKE"}
  BY <1>0 DEF Packet
<1>3. counts \in [SeqNums -> Nat] /\ counted \in [SeqNums -> Nat]
  BY <1>0 DEF TypeOK, SendType
<1>4. kept \in SUBSET DOMAIN sentPackets[e]
  BY DEF Unacked
<1>5. grown \in 1 .. MaxWindowSize /\ HalveWindow(grown) \in 1 .. MaxWindowSize
  BY <1>0, WindowTypes DEF TypeOK, SendType
<1> HIDE DEF newer, kept, counts, due, grown, wakes, counted
<1>6. /\ network' \subseteq Packet
      /\ DOMAIN sentPackets' = End
      /\ \A f \in End : /\ DOMAIN sentPackets'[f] \subseteq SeqNums
                        /\ \A s \in DOMAIN sentPackets'[f] :
                              sentPackets'[f][s] \in SentPacket
  <2>1. PICK resent \in Accepted(due \cap kept) :
            /\ sentPackets' = [sentPackets EXCEPT ![e] =
                  [s \in kept |-> IF s \in resent THEN bump(sentPackets[e][s])
                                                  ELSE sentPackets[e][s]]]
            /\ network' = network \cup {sentPackets[e][s].pkt : s \in resent}
    BY <1>1
  <2>2. resent \in SUBSET kept
    BY AcceptedSubset
  <2> QED BY <1>0, <1>4, <2>1, <2>2, ResendType
<1>7. SendType'
  <2>1. sendSeq' = sendSeq
    BY <1>1
  <2>2. ackThrough' \in [End -> SeqNums] /\ nackCounts' \in [End -> [SeqNums -> Nat]]
    BY <1>0, <1>1, <1>2, <1>3 DEF TypeOK, SendType
  <2>3. cwnd' \in [End -> 1 .. MaxWindowSize] /\ ssthresh' \in [End -> 1 .. MaxWindowSize]
    BY <1>0, <1>1, <1>5 DEF TypeOK, SendType
  <2> QED BY <1>0, <1>6, <2>1, <2>2, <2>3 DEF TypeOK, SendType
<1>8. FlowType'
  BY <1>0, <1>1, <1>2 DEF handleOptionalDelay, TypeOK, FlowType
<1>9. WriteType' /\ WriterHasWork'
  BY <1>0, <1>1 DEF Woken, TypeOK, WriteType, WriterHasWork
<1> QED BY <1>1, <1>6, <1>7, <1>8, <1>9, TypeUnchanged DEF TypeInv, TypeOK

\* What a timeout does to the packets that are tracked.
LEMMA RetransmitEffect ==
    ASSUME NEW e \in End, RetransmitTimeout(e)
    PROVE  \E resent \in SUBSET DOMAIN sentPackets[e] :
         /\ sentPackets' = [sentPackets EXCEPT ![e] =
               [s \in DOMAIN sentPackets[e] |->
                  IF s \in resent THEN bump(sentPackets[e][s]) ELSE sentPackets[e][s]]]
         /\ network' = network \cup {sentPackets[e][s].pkt : s \in resent}
         /\ \/ timer' = [timer EXCEPT ![e] = "running"]
            \/ timer' = [timer EXCEPT ![e] = "closing"]
<1>1. PICK late \in SUBSET DOMAIN sentPackets[e] :
         LET spent == {s \in late : sentPackets[e][s].retryCount >= MaxRetransmissions}
         IN  \E tried \in IF spent = {} THEN {late} ELSE SUBSET (late \ spent) :
             \E resent \in Accepted(tried) :
                /\ sentPackets' = [sentPackets EXCEPT ![e] =
                      [s \in DOMAIN @ |-> IF s \in resent THEN bump(@[s]) ELSE @[s]]]
                /\ network' = network \cup {sentPackets[e][s].pkt : s \in resent}
                /\ timer' = [timer EXCEPT ![e] =
                                IF spent = {} THEN "running" ELSE "closing"]
  BY DEF RetransmitTimeout, checkRetransmissions
<1> DEFINE spent == {s \in late : sentPackets[e][s].retryCount >= MaxRetransmissions}
<1>2. PICK tried \in IF spent = {} THEN {late} ELSE SUBSET (late \ spent) :
          \E resent \in Accepted(tried) :
                /\ sentPackets' = [sentPackets EXCEPT ![e] =
                      [s \in DOMAIN @ |-> IF s \in resent THEN bump(@[s]) ELSE @[s]]]
                /\ network' = network \cup {sentPackets[e][s].pkt : s \in resent}
                /\ timer' = [timer EXCEPT ![e] =
                                IF spent = {} THEN "running" ELSE "closing"]
  BY <1>1
<1>3. tried \subseteq late
  BY <1>2
<1> HIDE DEF spent
<1> QED BY <1>2, <1>3, AcceptedSubset

\* checkRetransmissions.
LEMMA TypeRetransmitTimeout ==
    ASSUME TypeInv, NEW e \in End, RetransmitTimeout(e)
    PROVE  TypeInv'
<1>0. TypeOK /\ WriterHasWork
  BY DEF TypeInv
<1>1. PICK resent \in SUBSET DOMAIN sentPackets[e] :
         /\ sentPackets' = [sentPackets EXCEPT ![e] =
               [s \in DOMAIN sentPackets[e] |->
                  IF s \in resent THEN bump(sentPackets[e][s]) ELSE sentPackets[e][s]]]
         /\ network' = network \cup {sentPackets[e][s].pkt : s \in resent}
         /\ \/ timer' = [timer EXCEPT ![e] = "running"]
            \/ timer' = [timer EXCEPT ![e] = "closing"]
  BY RetransmitEffect
<1>2. /\ network' \subseteq Packet
      /\ DOMAIN sentPackets' = End
      /\ \A f \in End : /\ DOMAIN sentPackets'[f] \subseteq SeqNums
                        /\ \A s \in DOMAIN sentPackets'[f] :
                              sentPackets'[f][s] \in SentPacket
  BY <1>0, <1>1, ResendType
<1>3. UNCHANGED <<state, closed, registered, queued, sendSeq, ackThrough,
                   nackCounts, cwnd, ssthresh, flowVars, writeVars, recvVars,
                   histVars>>
  BY DEF RetransmitTimeout, checkRetransmissions
<1>4. LifeType'
  BY <1>0, <1>1, <1>3 DEF TypeOK, LifeType
<1>5. SendType'
  BY <1>0, <1>2, <1>3 DEF TypeOK, SendType
<1> QED BY <1>2, <1>3, <1>4, <1>5, TypeUnchanged DEF TypeInv, TypeOK

\* The end of a choke, and the probes of the persist timer.
LEMMA TypeProbe ==
    ASSUME TypeInv, NEW e \in End, ChokeExpires(e) \/ PersistProbe(e)
    PROVE  TypeInv'
<1>0. TypeOK /\ WriterHasWork
  BY DEF TypeInv
<1>1. CASE ChokeExpires(e)
  <2>1. FlowType'
    BY <1>0, <1>1 DEF ChokeExpires, TypeOK, FlowType
  <2> QED BY <1>1, <2>1, TypeUnchanged DEF ChokeExpires, TypeInv, TypeOK
<1>2. CASE PersistProbe(e)
  <2>1. /\ network' = network \cup {DataPacket(e, sendSeq[e], recvSeq[e], ProbeByte)}
        /\ sendSeq' = [sendSeq EXCEPT ![e] = seqAdd(@, 1)]
        /\ used' = [used EXCEPT ![e] = @ + 1]
        /\ sentLog' = [sentLog EXCEPT ![e] = Append(@, ProbeByte)]
        /\ UNCHANGED <<lifeVars, ackThrough, sentPackets, nackCounts, cwnd, ssthresh,
                       flowVars, writeVars, recvVars, recvLog, readLog>>
    BY <1>2 DEF PersistProbe
  <2>2. ProbeByte \in Payload /\ sendSeq[e] \in SeqNums /\ recvSeq[e] \in SeqNums
    BY <1>0 DEF Payload, TypeOK, SendType, RecvType
  <2>3. network' \subseteq Packet
    BY <1>0, <2>1, <2>2, PacketTypes DEF TypeOK
  <2>4. SendType'
    <3>1. seqAdd(sendSeq[e], 1) \in SeqNums
      BY <2>2, SeqSpaceAssumption DEF SeqNums, seqAdd
    <3> QED BY <1>0, <2>1, <3>1 DEF TypeOK, SendType
  <2>5. HistType'
    <3>1. sentLog \in [End -> Seq(Payload)] /\ used \in [End -> Nat]
      BY <1>0 DEF TypeOK, HistType
    <3>2. Append(sentLog[e], ProbeByte) \in Seq(Payload)
      BY <2>2, <3>1, AppendProperties
    <3>3. sentLog' \in [End -> Seq(Payload)]
      BY <2>1, <3>1, <3>2
    <3>4. used' \in [End -> Nat]
      BY <2>1, <3>1
    <3>5. recvLog' = recvLog /\ readLog' = readLog
      BY <2>1
    <3> QED BY <1>0, <3>3, <3>4, <3>5 DEF TypeOK, HistType
  <2> QED BY <2>1, <2>3, <2>4, <2>5, TypeUnchanged DEF TypeInv, TypeOK
<1> QED BY <1>1, <1>2

\* handleMessageDelivered and handleMessageFailed.
LEMMA TypeStatus ==
    ASSUME TypeInv, NEW e \in End, MessageDelivered(e) \/ MessageFailed(e)
    PROVE  TypeInv'
<1>0. TypeOK /\ WriterHasWork
  BY DEF TypeInv
<1>1. CASE MessageDelivered(e)
  <2>1. PICK s \in DOMAIN sentPackets[e] :
           sentPackets' = [sentPackets EXCEPT ![e] =
                             [t \in DOMAIN sentPackets[e] \ {s} |-> sentPackets[e][t]]]
    BY <1>1 DEF MessageDelivered
  <2>2. UNCHANGED <<lifeVars, sendSeq, ackThrough, nackCounts, cwnd, ssthresh,
                    flowVars, writeVars, recvVars, network, histVars>>
    BY <1>1 DEF MessageDelivered
  <2>3. SendType'
    BY <1>0, <2>1, <2>2 DEF TypeOK, SendType
  <2> QED BY <2>2, <2>3, TypeUnchanged DEF TypeInv, TypeOK
<1>2. CASE MessageFailed(e)
  <2>1. PICK s \in DOMAIN sentPackets[e] :
           /\ sentPackets' = [sentPackets EXCEPT ![e][s] = bump(sentPackets[e][s])]
           /\ network' = network \/ network' = network \cup {bump(sentPackets[e][s]).pkt}
    BY <1>2 DEF MessageFailed
  <2>2. UNCHANGED <<lifeVars, sendSeq, ackThrough, nackCounts, cwnd, ssthresh,
                    flowVars, writeVars, recvVars, histVars>>
    BY <1>2 DEF MessageFailed
  <2>3. sentPackets[e][s] \in SentPacket
    BY <1>0 DEF TypeOK, SendType
  <2>4. bump(sentPackets[e][s]) \in SentPacket /\ bump(sentPackets[e][s]).pkt \in Packet
    BY <2>3, BumpType DEF SentPacket
  <2>5. network' \subseteq Packet
    BY <1>0, <2>1, <2>4 DEF TypeOK
  <2>6. SendType'
    BY <1>0, <2>1, <2>2, <2>4 DEF TypeOK, SendType
  <2> QED BY <2>2, <2>5, <2>6, TypeUnchanged DEF TypeInv, TypeOK
<1> QED BY <1>1, <1>2

\* The buffer holds payloads after a write.
LEMMA BufWriteType ==
    ASSUME NEW b \in [data : Seq(Payload), written : Nat], NEW xs \in Seq(Payload)
    PROVE  bufWrite(b, xs) \in [data : Seq(Payload), written : Nat]
<1> DEFINE all == b.data \o xs
           tail == SubSeq(all, Len(all) - BufSize + 1, Len(all))
<1>1. b.data \in Seq(Payload) /\ b.written \in Nat /\ Len(xs) \in Nat
  BY LenProperties
<1>2. all \in Seq(Payload)
  BY <1>1, ConcatProperties
<1> HIDE DEF all
<1>3. Len(all) \in Nat /\ \A i \in 1 .. Len(all) : all[i] \in Payload
  BY <1>2, LenProperties, ElementOfSeq
<1>4. Len(all) > BufSize => tail \in Seq(Payload)
  <2>1. BufSize \in Nat \ {0}
    BY ConstantsAssumption
  <2> SUFFICES ASSUME Len(all) > BufSize PROVE tail \in Seq(Payload)
    OBVIOUS
  <2>2. \A i \in Len(all) - BufSize + 1 .. Len(all) : all[i] \in Payload
    BY <1>3, <2>1
  <2> QED BY <1>3, <2>1, <2>2, SubSeqProperties
<1> HIDE DEF tail
<1>5. (IF Len(all) <= BufSize THEN all ELSE tail) \in Seq(Payload)
  BY <1>2, <1>3, <1>4, ConstantsAssumption
<1>6. bufWrite(b, xs) = [data |-> IF Len(all) <= BufSize THEN all ELSE tail,
                         written |-> b.written + Len(xs)]
  BY DEF bufWrite, all, tail
<1> QED BY <1>1, <1>5, <1>6

\* The payloads of a run.
LEMMA RunType ==
    ASSUME TypeOK, NEW e \in End, NEW from \in SeqNums, NEW k \in 0 .. SeqSpace - 1,
           IsRun(outOfOrderPackets[e], from, k)
    PROVE  /\ RunPayloads(outOfOrderPackets[e], from, k) \in Seq(Payload)
           /\ Len(RunPayloads(outOfOrderPackets[e], from, k)) = k
           /\ DOMAIN DropRun(outOfOrderPackets[e], from, k) \subseteq SeqNums
           /\ \A s \in DOMAIN DropRun(outOfOrderPackets[e], from, k) :
                 DropRun(outOfOrderPackets[e], from, k)[s] \in Payload
<1>1. k \in Nat
  BY SeqSpaceAssumption
<1>2. \A s \in DOMAIN outOfOrderPackets[e] : outOfOrderPackets[e][s] \in Payload
  BY DEF TypeOK, RecvType
<1>3. \A i \in 1 .. k : outOfOrderPackets[e][seqAdd(from, i - 1)] \in Payload
  <2> TAKE i \in 1 .. k
  <2>1. i - 1 \in 0 .. k - 1
    BY <1>1
  <2> QED BY <1>2, <2>1 DEF IsRun
<1>4. /\ RunPayloads(outOfOrderPackets[e], from, k) \in Seq(Payload)
      /\ Len(RunPayloads(outOfOrderPackets[e], from, k)) = k
  BY <1>1, <1>3 DEF RunPayloads
<1> QED BY <1>2, <1>4 DEF DropRun, TypeOK, RecvType

\* A receive buffer, an out-of-order buffer and lists that are replaced by values
\* of their types.
LEMMA RecvUpdate ==
    ASSUME RecvType, NEW e \in End, NEW r \in SeqNums, NEW ooo, NEW nl \in SUBSET SeqNums,
           NEW b \in [data : Seq(Payload), written : Nat], NEW c \in BOOLEAN, NEW l \in Nat,
           DOMAIN ooo \subseteq SeqNums, \A s \in DOMAIN ooo : ooo[s] \in Payload,
           recvSeq' = [recvSeq EXCEPT ![e] = r],
           outOfOrderPackets' = [outOfOrderPackets EXCEPT ![e] = ooo],
           nackList' = [nackList EXCEPT ![e] = nl],
           recvBuf' = [recvBuf EXCEPT ![e] = b],
           sendingChoke' = [sendingChoke EXCEPT ![e] = c],
           lastBufferCheck' = [lastBufferCheck EXCEPT ![e] = l]
    PROVE  RecvType'
BY DEF RecvType

\* processInSequencePacketLocked, with the run it releases.
LEMMA TypeInSequence ==
    ASSUME TypeInv, NEW e \in End, NEW p \in network, p.pay # NoPayload,
           handleInSequence(e, p)
    PROVE  TypeInv'
<1>0. TypeOK /\ WriterHasWork /\ p \in Packet
  BY DEF TypeInv, TypeOK
<1>1. p.pay \in Payload /\ p.ack \in SeqNums
  BY <1>0 DEF Packet
<1> DEFINE from == seqAdd(recvSeq[e], 1)
           ooo  == outOfOrderPackets[e]
           xs(k) == <<p.pay>> \o RunPayloads(ooo, from, k)
           rseq(k) == seqAdd(recvSeq[e], k + 1)
           buf(k) == bufWrite(recvBuf[e], xs(k))
           nacks(k) == removeFromNACKList(nackList[e], {p.seq} \cup RunSeqs(from, k))
           signal(k) == manageChokeState(e, buf(k).written)
           choking(k) == signal(k) = "CHOKE" \/ (signal(k) # "UNCHOKE" /\ sendingChoke[e])
<1>2. PICK k \in 0 .. SeqSpace - 1 :
          /\ k + 1 < SeqSpace
          /\ IsRun(ooo, from, k)
          /\ recvSeq' = [recvSeq EXCEPT ![e] = rseq(k)]
          /\ recvBuf' = [recvBuf EXCEPT ![e] = buf(k)]
          /\ recvLog' = [recvLog EXCEPT ![e] = @ \o xs(k)]
          /\ outOfOrderPackets' = [outOfOrderPackets EXCEPT ![e] = DropRun(@, from, k)]
          /\ nackList' = [nackList EXCEPT ![e] = nacks(k)]
          /\ ackThrough' = [ackThrough EXCEPT ![e] =
                               IF seqGreaterThan(p.ack, @) THEN p.ack ELSE @]
          /\ lastBufferCheck' = [lastBufferCheck EXCEPT ![e] = buf(k).written]
          /\ sendingChoke' = [sendingChoke EXCEPT ![e] = choking(k)]
          /\ network' = network
                \cup (IF signal(k) # "NONE" THEN {AckPacket(e, rseq(k), nacks(k), signal(k))}
                      ELSE {})
                \cup (IF ~choking(k) \/ nacks(k) # {}
                      THEN {AckPacket(e, rseq(k), nacks(k), "NONE")} ELSE {})
  BY DEF handleInSequence
<1>3. UNCHANGED <<lifeVars, sendSeq, sentPackets, nackCounts, cwnd, ssthresh,
                  flowVars, writeVars, used, sentLog, readLog>>
  BY DEF handleInSequence
<1>4. from \in SeqNums /\ rseq(k) \in SeqNums
  BY <1>0, <1>2, SeqAddType, SeqSpaceAssumption DEF TypeOK, RecvType
<1>5. xs(k) \in Seq(Payload)
  <2> HIDE DEF from
  <2>1. RunPayloads(ooo, from, k) \in Seq(Payload)
    BY <1>0, <1>2, <1>4, RunType
  <2> QED BY <1>1, <2>1, ConcatProperties
<1>6. nacks(k) \in SUBSET SeqNums
  BY <1>0 DEF TypeOK, RecvType, removeFromNACKList
<1>7. signal(k) \in {"NONE", "CHOKE", "UNCHOKE"}
  BY DEF manageChokeState
<1>8. buf(k) \in [data : Seq(Payload), written : Nat]
  BY <1>0, <1>5, BufWriteType DEF TypeOK, RecvType
<1>9. /\ DOMAIN DropRun(ooo, from, k) \subseteq SeqNums
      /\ \A s \in DOMAIN DropRun(ooo, from, k) : DropRun(ooo, from, k)[s] \in Payload
  BY <1>0, <1>2, <1>4, RunType
<1>10. choking(k) \in BOOLEAN /\ buf(k).written \in Nat
  BY <1>0, <1>8 DEF TypeOK, RecvType
<1> HIDE DEF from, ooo, xs, rseq, buf, nacks, signal, choking
<1>11. RecvType'
  <2>1. outOfOrderPackets' = [outOfOrderPackets EXCEPT ![e] = DropRun(ooo, from, k)]
    BY <1>2 DEF ooo
  <2> QED BY <1>0, <1>2, <1>4, <1>6, <1>8, <1>9, <1>10, <2>1, RecvUpdate DEF TypeOK
<1>12. SendType'
  BY <1>0, <1>1, <1>2, <1>3 DEF TypeOK, SendType
<1>13. network' \subseteq Packet
  <2>1. /\ AckPacket(e, rseq(k), nacks(k), signal(k)) \in Packet
        /\ AckPacket(e, rseq(k), nacks(k), "NONE") \in Packet
    BY <1>4, <1>6, <1>7, PacketTypes
  <2> QED BY <1>0, <1>2, <2>1 DEF TypeOK
<1>14. HistType'
  <2>1. recvLog \in [End -> Seq(Payload)]
    BY <1>0 DEF TypeOK, HistType
  <2>2. recvLog[e] \o xs(k) \in Seq(Payload)
    BY <1>5, <2>1, ConcatProperties
  <2>3. recvLog' \in [End -> Seq(Payload)]
    BY <1>2, <2>1, <2>2
  <2>4. used' = used /\ sentLog' = sentLog /\ readLog' = readLog
    BY <1>3
  <2> QED BY <1>0, <2>3, <2>4 DEF TypeOK, HistType
<1> QED BY <1>3, <1>11, <1>12, <1>13, <1>14, TypeUnchanged DEF TypeInv, TypeOK

\* handleOutOfOrderPacketLocked.
LEMMA TypeOutOfOrder ==
    ASSUME TypeInv, NEW e \in End, NEW p \in network, p.pay # NoPayload,
           handleOutOfOrder(e, p)
    PROVE  TypeInv'
<1>0. TypeOK /\ WriterHasWork /\ p \in Packet
  BY DEF TypeInv, TypeOK
<1>1. p.pay \in Payload /\ p.seq \in SeqNums
  BY <1>0 DEF Packet
<1> DEFINE ooo   == [s \in DOMAIN outOfOrderPackets[e] \cup {p.seq} |->
                        IF s = p.seq THEN p.pay ELSE outOfOrderPackets[e][s]]
           rest  == removeFromNACKList(nackList[e], {p.seq})
           nacks == rest \cup Missing(e, p.seq, ooo, rest)
<1>2. /\ outOfOrderPackets' = [outOfOrderPackets EXCEPT ![e] = ooo]
      /\ nackList' = [nackList EXCEPT ![e] = nacks]
      /\ network' = network \cup {AckPacket(e, recvSeq[e], nacks, "NONE")}
      /\ UNCHANGED <<lifeVars, sendVars, flowVars, writeVars, recvSeq, recvBuf,
                     sendingChoke, lastBufferCheck, histVars>>
  BY DEF handleOutOfOrder
<1>3. DOMAIN ooo \subseteq SeqNums /\ \A s \in DOMAIN ooo : ooo[s] \in Payload
  BY <1>0, <1>1 DEF TypeOK, RecvType
<1>4. recvSeq[e] \in SeqNums
  BY <1>0 DEF TypeOK, RecvType
<1>5. nacks \in SUBSET SeqNums
  <2>1. rest \in SUBSET SeqNums
    BY <1>0 DEF TypeOK, RecvType, removeFromNACKList
  <2>2. seqDiff(recvSeq[e], p.seq) \in 0 .. SeqSpace - 1
    BY <1>1, <1>4, SeqSpaceAssumption DEF SeqNums, seqDiff
  <2> HIDE DEF ooo, rest
  <2>3. \A i \in 0 .. SeqSpace - 1 : seqAdd(recvSeq[e], i) \in SeqNums
    BY <1>4, SeqAddType
  <2>4. Missing(e, p.seq, ooo, rest) \subseteq SeqNums
    <3> DEFINE gap  == seqDiff(recvSeq[e], p.seq)
               scan == IF gap > MaxNACKs THEN MaxNACKs ELSE gap
    <3>1. 0 .. scan - 1 \subseteq 0 .. SeqSpace - 1
      BY <2>2, ConstantsAssumption, SeqSpaceAssumption
    <3> QED BY <2>3, <3>1 DEF Missing
  <2> QED BY <2>1, <2>4
<1> HIDE DEF ooo, nacks
<1>6. RecvType'
  BY <1>0, <1>2, <1>3, <1>5 DEF TypeOK, RecvType
<1>7. network' \subseteq Packet
  BY <1>0, <1>2, <1>4, <1>5, PacketTypes DEF TypeOK
<1> QED BY <1>2, <1>6, <1>7, TypeUnchanged DEF TypeInv, TypeOK

\* What a Read takes and what it leaves are payloads.
LEMMA ReadTypes ==
    ASSUME NEW data \in Seq(Payload), NEW n \in Nat
    PROVE  /\ readTaken(data, n) \in Seq(Payload)
           /\ readRest(data, n) \in [data : Seq(Payload), written : Nat]
<1>1. Len(data) \in Nat /\ \A i \in 1 .. Len(data) : data[i] \in Payload
  BY LenProperties, ElementOfSeq
<1>2. readTaken(data, n) \in Seq(Payload)
  <2> DEFINE m == IF n < Len(data) THEN n ELSE Len(data)
  <2>1. m \in Int /\ \A i \in 1 .. m : data[i] \in Payload
    BY <1>1
  <2> HIDE DEF m
  <2>2. SubSeq(data, 1, m) \in Seq(Payload)
    BY <2>1, SubSeqProperties
  <2> QED BY <2>2 DEF readTaken, m
<1>3. SubSeq(data, n + 1, Len(data)) \in Seq(Payload)
  <2>1. \A i \in n + 1 .. Len(data) : data[i] \in Payload
    BY <1>1
  <2> QED BY <1>1, <2>1, SubSeqProperties
<1>4. readRest(data, n) \in [data : Seq(Payload), written : Nat]
  BY <1>3, LenProperties DEF readRest
<1> QED BY <1>2, <1>4

\* Read, with the buffered packets it delivers.
LEMMA TypeRead ==
    ASSUME TypeInv, NEW e \in End, NEW n \in 1 .. BufSize, Read(e, n)
    PROVE  TypeInv'
<1>0. TypeOK /\ WriterHasWork /\ n \in Nat
  BY ConstantsAssumption DEF TypeInv
<1> DEFINE data == recvBuf[e].data
           ooo  == outOfOrderPackets[e]
           xs(k) == RunPayloads(ooo, recvSeq[e], k)
           buf(k) == bufWrite(readRest(data, n), xs(k))
           rseq(k) == seqAdd(recvSeq[e], k)
           nacks(k) == removeFromNACKList(nackList[e], RunSeqs(recvSeq[e], k))
           unchoke(k) == liftsChoke(e, buf(k).written)
<1>1. PICK k \in 0 .. SeqSpace - 1 :
          /\ IsRun(ooo, recvSeq[e], k)
          /\ readLog' = [readLog EXCEPT ![e] = @ \o readTaken(data, n)]
          /\ recvLog' = [recvLog EXCEPT ![e] = @ \o xs(k)]
          /\ recvBuf' = [recvBuf EXCEPT ![e] = buf(k)]
          /\ recvSeq' = [recvSeq EXCEPT ![e] = rseq(k)]
          /\ outOfOrderPackets' = [outOfOrderPackets EXCEPT ![e] = DropRun(@, recvSeq[e], k)]
          /\ nackList' = [nackList EXCEPT ![e] = nacks(k)]
          /\ sendingChoke' = [sendingChoke EXCEPT ![e] = @ /\ ~unchoke(k)]
          /\ network' = IF unchoke(k)
                        THEN network \cup {AckPacket(e, rseq(k), nacks(k), "UNCHOKE")}
                        ELSE network
  BY DEF Read
<1>2. UNCHANGED <<lifeVars, sendVars, flowVars, writeVars, lastBufferCheck, used, sentLog>>
  BY DEF Read
<1>3. recvSeq[e] \in SeqNums /\ rseq(k) \in SeqNums
  BY <1>0, SeqAddType DEF TypeOK, RecvType
<1>4. recvBuf[e] \in [data : Seq(Payload), written : Nat]
  BY <1>0 DEF TypeOK, RecvType
<1>5. readTaken(data, n) \in Seq(Payload) /\ readRest(data, n) \in [data : Seq(Payload), written : Nat]
  BY <1>0, <1>4, ReadTypes
<1>6. /\ xs(k) \in Seq(Payload)
      /\ DOMAIN DropRun(ooo, recvSeq[e], k) \subseteq SeqNums
      /\ \A s \in DOMAIN DropRun(ooo, recvSeq[e], k) : DropRun(ooo, recvSeq[e], k)[s] \in Payload
  BY <1>0, <1>1, <1>3, RunType
<1>7. buf(k) \in [data : Seq(Payload), written : Nat]
  BY <1>5, <1>6, BufWriteType
<1>8. nacks(k) \in SUBSET SeqNums
  BY <1>0 DEF TypeOK, RecvType, removeFromNACKList
<1> HIDE DEF data, ooo, xs, rseq, buf, nacks, unchoke
<1>9. RecvType'
  <2>1. outOfOrderPackets' = [outOfOrderPackets EXCEPT ![e] = DropRun(ooo, recvSeq[e], k)]
    BY <1>1 DEF ooo
  <2>2. lastBufferCheck' = [lastBufferCheck EXCEPT ![e] = lastBufferCheck[e]]
    BY <1>0, <1>2 DEF TypeOK, RecvType
  <2>3. sendingChoke' = [sendingChoke EXCEPT ![e] = sendingChoke[e] /\ ~unchoke(k)]
    BY <1>1
  <2>4. lastBufferCheck[e] \in Nat /\ (sendingChoke[e] /\ ~unchoke(k)) \in BOOLEAN
    BY <1>0 DEF TypeOK, RecvType
  <2> QED BY <1>0, <1>1, <1>3, <1>6, <1>7, <1>8, <2>1, <2>2, <2>3, <2>4, RecvUpdate DEF TypeOK
<1>10. network' \subseteq Packet
  <2>1. AckPacket(e, rseq(k), nacks(k), "UNCHOKE") \in Packet
    BY <1>3, <1>8, PacketTypes
  <2> QED BY <1>0, <1>1, <2>1 DEF TypeOK
<1>11. HistType'
  <2>1. recvLog \in [End -> Seq(Payload)] /\ readLog \in [End -> Seq(Payload)]
    BY <1>0 DEF TypeOK, HistType
  <2>2. recvLog[e] \o xs(k) \in Seq(Payload) /\ readLog[e] \o readTaken(data, n) \in Seq(Payload)
    BY <1>5, <1>6, <2>1, ConcatProperties
  <2>3. recvLog' \in [End -> Seq(Payload)] /\ readLog' \in [End -> Seq(Payload)]
    BY <1>1, <2>1, <2>2
  <2>4. used' = used /\ sentLog' = sentLog
    BY <1>2
  <2> QED BY <1>0, <2>3, <2>4 DEF TypeOK, HistType
<1> QED BY <1>2, <1>9, <1>10, <1>11, TypeUnchanged DEF TypeInv, TypeOK

\* The handlers that change the connection state only, and keepalives.
LEMMA TypeControl ==
    ASSUME TypeInv, NEW e \in End,
           \/ \E p \in network : handleFinalAck(e, p)
           \/ handleClose(e) \/ handleReset(e) \/ KeepAlive(e) \/ AnswerUnknown(e)
    PROVE  TypeInv'
<1>0. TypeOK /\ WriterHasWork
  BY DEF TypeInv
<1>1. CASE \E p \in network : handleFinalAck(e, p)
  <2>1. PICK p \in network : handleFinalAck(e, p)
    BY <1>1
  <2>2. p.ack \in SeqNums
    BY <1>0 DEF TypeOK, Packet
  <2>3. LifeType'
    BY <1>0, <2>1 DEF handleFinalAck, TypeOK, LifeType
  <2>4. SendType'
    BY <1>0, <2>1, <2>2 DEF handleFinalAck, TypeOK, SendType
  <2> QED BY <2>1, <2>3, <2>4, TypeUnchanged DEF handleFinalAck, TypeInv, TypeOK
<1>2. CASE handleClose(e)
  <2>1. LifeType'
    BY <1>0, <1>2 DEF handleClose, TypeOK, LifeType
  <2>2. network' \subseteq Packet
    BY <1>0, <1>2, ClosePacketType DEF handleClose, TypeOK
  <2> QED BY <1>2, <2>1, <2>2, TypeUnchanged DEF handleClose, TypeInv, TypeOK
<1>3. CASE handleReset(e)
  <2>1. LifeType'
    BY <1>0, <1>3 DEF handleReset, TypeOK, LifeType
  <2> QED BY <1>3, <2>1, TypeUnchanged DEF handleReset, TypeInv, TypeOK
<1>4. CASE KeepAlive(e)
  <2>1. recvSeq[e] \in SeqNums /\ nackList[e] \in SUBSET SeqNums
    BY <1>0 DEF TypeOK, RecvType
  <2>2. network' \subseteq Packet
    BY <1>0, <1>4, <2>1, PacketTypes DEF KeepAlive, TypeOK
  <2> QED BY <1>4, <2>2, TypeUnchanged DEF KeepAlive, TypeInv, TypeOK
<1>5. CASE AnswerUnknown(e)
  <2>1. ResetPacket(e) \in Packet
    BY SeqSpaceAssumption DEF ResetPacket, Packet, SeqNums
  <2>2. network' \subseteq Packet
    BY <1>0, <1>5, <2>1 DEF AnswerUnknown, TypeOK
  <2> QED BY <1>5, <2>2, TypeUnchanged DEF AnswerUnknown, TypeInv, TypeOK
<1> QED BY <1>1, <1>2, <1>3, <1>4, <1>5

\* closeConn, with the timer running on or stopped.
LEMMA TypeCloseConn ==
    ASSUME TypeInv, NEW e \in End, closeConn(e),
           UNCHANGED timer \/ timer' = [timer EXCEPT ![e] = "done"],
           UNCHANGED <<sendVars, choked, chokeHold, writeLeft, recvVars, histVars>>
    PROVE  TypeInv'
<1>0. TypeOK /\ WriterHasWork
  BY DEF TypeInv
<1>1. network' \subseteq Packet
  BY <1>0, ClosePacketType DEF closeConn, TypeOK
<1>2. LifeType'
  BY <1>0 DEF closeConn, TypeOK, LifeType
<1>3. FlowType'
  BY <1>0 DEF closeConn, TypeOK, FlowType
<1>4. WriteType' /\ WriterHasWork'
  BY <1>0 DEF closeConn, Woken, TypeOK, WriteType, WriterHasWork
<1> QED BY <1>1, <1>2, <1>3, <1>4, TypeUnchanged DEF TypeInv, TypeOK

\* Close, by the application or by the retransmit timer.
LEMMA TypeClose ==
    ASSUME TypeInv, NEW e \in End, Close(e) \/ GiveUp(e)
    PROVE  TypeInv'
<1>1. CASE Close(e)
  BY <1>1, TypeCloseConn DEF Close
<1>2. CASE GiveUp(e) /\ closeConn(e)
  BY <1>2, TypeCloseConn DEF GiveUp
<1>3. CASE GiveUp(e) /\ ~closeConn(e)
  <2>1. /\ timer' = [timer EXCEPT ![e] = "done"]
        /\ UNCHANGED <<state, closed, registered, queued, persist, writer, network,
                       sendVars, choked, chokeHold, writeLeft, recvVars, histVars>>
    BY <1>3 DEF GiveUp
  <2>2. LifeType'
    BY <2>1 DEF TypeInv, TypeOK, LifeType
  <2>3. UNCHANGED <<flowVars, writeVars>>
    BY <2>1 DEF flowVars, writeVars
  <2> QED BY <2>1, <2>2, <2>3, TypeUnchanged DEF TypeInv, TypeOK
<1> QED BY <1>1, <1>2, <1>3

\* A packet that is dispatched as data carries a payload.
LEMMA KindData ==
    ASSUME TypeOK, NEW e \in End, NEW p \in network, Kind(e, p) = "DATA"
    PROVE  p.flag = "NONE" /\ p.pay # NoPayload
<1>1. p.flag \in {"NONE", "CLOSE", "RESET"}
  BY DEF TypeOK, Packet
<1> QED BY <1>1 DEF Kind

\* Every step keeps the types.
LEMMA TypeNext == TypeInv /\ [Next]_vars => TypeInv'
<1> SUFFICES ASSUME TypeInv, [Next]_vars PROVE TypeInv'
  OBVIOUS
<1>1. CASE UNCHANGED vars
  BY <1>1, TypeUnchanged DEF TypeInv, TypeOK, vars
<1>2. CASE Next
  <2> SUFFICES ASSUME NEW e \in End,
           \/ \E n \in 1 .. MaxWriteChunks : Write(e, n)
           \/ WriteChunk(e) \/ WindowWait(e) \/ WriteResume(e) \/ WriteAbort(e)
           \/ \E n \in 1 .. BufSize : Read(e, n)
           \/ ReceiveFinalAck(e) \/ ReceiveAck(e) \/ ReceiveInSequence(e) \/ ReceiveOld(e)
           \/ ReceiveOutOfOrder(e) \/ ReceiveClose(e) \/ ReceiveReset(e) \/ AnswerUnknown(e)
           \/ RetransmitTimeout(e) \/ GiveUp(e) \/ KeepAlive(e)
           \/ ChokeExpires(e) \/ PersistProbe(e)
           \/ MessageDelivered(e) \/ MessageFailed(e)
           \/ Close(e)
         PROVE TypeInv'
    BY <1>2 DEF Next
  <2>0. TypeOK
    BY DEF TypeInv
  <2>1. CASE \/ \E n \in 1 .. MaxWriteChunks : Write(e, n)
             \/ WindowWait(e) \/ WriteResume(e) \/ WriteAbort(e)
    BY <2>1, TypeWrite
  <2>2. CASE WriteChunk(e)
    BY <2>2, TypeWriteChunk
  <2>3. CASE \E n \in 1 .. BufSize : Read(e, n)
    BY <2>3, TypeRead
  <2>4. CASE ReceiveAck(e)
    BY <2>4, TypeAck DEF ReceiveAck, Arriving
  <2>5. CASE ReceiveInSequence(e)
    BY <2>0, <2>5, TypeInSequence, KindData DEF ReceiveInSequence, Arriving
  <2>6. CASE ReceiveOld(e)
    BY <2>6, <1>1 DEF ReceiveOld, handleOld
  <2>7. CASE ReceiveOutOfOrder(e)
    BY <2>0, <2>7, TypeOutOfOrder, KindData DEF ReceiveOutOfOrder, Arriving
  <2>8. CASE ReceiveFinalAck(e) \/ ReceiveClose(e) \/ ReceiveReset(e) \/ AnswerUnknown(e)
             \/ KeepAlive(e)
    BY <2>8, TypeControl DEF ReceiveFinalAck, ReceiveClose, ReceiveReset, Arriving
  <2>9. CASE RetransmitTimeout(e)
    BY <2>9, TypeRetransmitTimeout
  <2>10. CASE GiveUp(e) \/ Close(e)
    BY <2>10, TypeClose
  <2>11. CASE ChokeExpires(e) \/ PersistProbe(e)
    BY <2>11, TypeProbe
  <2>12. CASE MessageDelivered(e) \/ MessageFailed(e)
    BY <2>12, TypeStatus
  <2> QED BY <2>1, <2>2, <2>3, <2>4, <2>5, <2>6, <2>7, <2>8, <2>9, <2>10, <2>11, <2>12
<1> QED BY <1>1, <1>2

\* Every field of the two connections and every packet keeps its type, for every
\* size of the windows, buffers and of the sequence space.
THEOREM TypeCorrect == Spec => []TypeOK
<1>1. TypeInv => TypeOK
  BY DEF TypeInv
<1> QED BY <1>1, TypeInit, TypeNext, PTL DEF Spec

-------------------------------------------------------------------------------
(* Which steps touch the receiver *)

\* Read and the two handlers of data change the receiver; nothing else does.
LEMMA ReceiverSteps ==
    ASSUME TypeInv, [Next]_vars
    PROVE  \/ UNCHANGED <<recvVars, recvLog, readLog>>
           \/ \E e \in End :
                 \/ \E n \in 1 .. BufSize : Read(e, n)
                 \/ \E p \in network : /\ p.src = Peer(e) /\ p.flag = "NONE" /\ p.pay # NoPayload
                                       /\ handleInSequence(e, p) \/ handleOutOfOrder(e, p)
<1>1. CASE UNCHANGED vars
  BY <1>1 DEF vars, histVars
<1>2. CASE Next
  <2> SUFFICES ASSUME NEW e \in End,
           \/ \E n \in 1 .. MaxWriteChunks : Write(e, n)
           \/ WriteChunk(e) \/ WindowWait(e) \/ WriteResume(e) \/ WriteAbort(e)
           \/ \E n \in 1 .. BufSize : Read(e, n)
           \/ ReceiveFinalAck(e) \/ ReceiveAck(e) \/ ReceiveInSequence(e) \/ ReceiveOld(e)
           \/ ReceiveOutOfOrder(e) \/ ReceiveClose(e) \/ ReceiveReset(e) \/ AnswerUnknown(e)
           \/ RetransmitTimeout(e) \/ GiveUp(e) \/ KeepAlive(e)
           \/ ChokeExpires(e) \/ PersistProbe(e)
           \/ MessageDelivered(e) \/ MessageFailed(e)
           \/ Close(e)
         PROVE \/ UNCHANGED <<recvVars, recvLog, readLog>>
               \/ \E n \in 1 .. BufSize : Read(e, n)
               \/ \E p \in network : /\ p.src = Peer(e) /\ p.flag = "NONE" /\ p.pay # NoPayload
                                     /\ handleInSequence(e, p) \/ handleOutOfOrder(e, p)
    BY <1>2 DEF Next
  <2>1. CASE ReceiveInSequence(e) \/ ReceiveOutOfOrder(e)
    <3>1. PICK p \in network : /\ p.src = Peer(e) /\ Kind(e, p) = "DATA"
                               /\ handleInSequence(e, p) \/ handleOutOfOrder(e, p)
      BY <2>1 DEF ReceiveInSequence, ReceiveOutOfOrder, Arriving
    <3>2. p.flag = "NONE" /\ p.pay # NoPayload
      BY <3>1, KindData DEF TypeInv
    <3> QED BY <3>1, <3>2
  <2>2. CASE \/ \E n \in 1 .. MaxWriteChunks : Write(e, n)
             \/ WriteChunk(e) \/ WindowWait(e) \/ WriteResume(e) \/ WriteAbort(e)
    BY <2>2 DEF Write, WriteChunk, WindowWait, WriteResume, WriteAbort, histVars
  <2>3. CASE ReceiveFinalAck(e) \/ ReceiveClose(e) \/ ReceiveReset(e) \/ AnswerUnknown(e)
    BY <2>3 DEF ReceiveFinalAck, handleFinalAck, ReceiveClose, handleClose, ReceiveReset,
                handleReset, AnswerUnknown, histVars
  <2>4. CASE ReceiveAck(e)
    BY <2>4 DEF ReceiveAck, handleAck, histVars
  <2>5. CASE ReceiveOld(e)
    BY <2>5 DEF ReceiveOld, handleOld, vars, histVars
  <2>6. CASE RetransmitTimeout(e) \/ KeepAlive(e) \/ ChokeExpires(e) \/ PersistProbe(e)
    BY <2>6 DEF RetransmitTimeout, checkRetransmissions, KeepAlive, ChokeExpires, PersistProbe, histVars
  <2>7. CASE GiveUp(e) \/ Close(e) \/ MessageDelivered(e) \/ MessageFailed(e)
    BY <2>7 DEF GiveUp, Close, MessageDelivered, MessageFailed, histVars
  <2> QED BY <2>1, <2>2, <2>3, <2>4, <2>5, <2>6, <2>7
<1> QED BY <1>1, <1>2

\* What processInSequencePacketLocked and Read do to the buffer and to the choke.
LEMMA ChokeStep ==
    ASSUME TypeInv, NoStuckChoke, NEW e \in End,
           \/ \E n \in 1 .. BufSize : Read(e, n)
           \/ \E p \in network : p.pay # NoPayload /\ handleInSequence(e, p)
    PROVE  NoStuckChoke'
<1>0. /\ TypeOK /\ recvBuf \in [End -> [data : Seq(Payload), written : Nat]]
      /\ sendingChoke \in [End -> BOOLEAN] /\ BufSize \in Nat \ {0}
  BY ConstantsAssumption DEF TypeInv, TypeOK, RecvType
<1>1. SUFFICES ASSUME NEW b, NEW c,
                      recvBuf' = [recvBuf EXCEPT ![e] = b],
                      sendingChoke' = [sendingChoke EXCEPT ![e] = c],
                      c => ~BelowUnchokeMark(b.written)
               PROVE  NoStuckChoke'
  <2>1. CASE \E n \in 1 .. BufSize : Read(e, n)
    <3>1. PICK n \in 1 .. BufSize, k \in 0 .. SeqSpace - 1 :
             LET b == bufWrite(readRest(recvBuf[e].data, n),
                               RunPayloads(outOfOrderPackets[e], recvSeq[e], k))
                 c == sendingChoke[e] /\ ~liftsChoke(e, b.written)
             IN  recvBuf' = [recvBuf EXCEPT ![e] = b] /\ sendingChoke' = [sendingChoke EXCEPT ![e] = c]
      BY <2>1 DEF Read
    <3> DEFINE b == bufWrite(readRest(recvBuf[e].data, n),
                             RunPayloads(outOfOrderPackets[e], recvSeq[e], k))
               c == sendingChoke[e] /\ ~liftsChoke(e, b.written)
    <3>2. c => ~BelowUnchokeMark(b.written)
      BY DEF liftsChoke
    <3>3. recvBuf' = [recvBuf EXCEPT ![e] = b] /\ sendingChoke' = [sendingChoke EXCEPT ![e] = c]
      BY <3>1
    <3> HIDE DEF b, c
    <3> QED BY <1>1, <3>2, <3>3
  <2>2. CASE \E p \in network : p.pay # NoPayload /\ handleInSequence(e, p)
    <3>1. PICK p \in network, k \in 0 .. SeqSpace - 1 :
             LET xs == <<p.pay>> \o RunPayloads(outOfOrderPackets[e], seqAdd(recvSeq[e], 1), k)
                 b == bufWrite(recvBuf[e], xs)
                 signal == manageChokeState(e, b.written)
                 c == signal = "CHOKE" \/ (signal # "UNCHOKE" /\ sendingChoke[e])
             IN  /\ IsRun(outOfOrderPackets[e], seqAdd(recvSeq[e], 1), k) /\ p.pay # NoPayload
                 /\ recvBuf' = [recvBuf EXCEPT ![e] = b]
                 /\ sendingChoke' = [sendingChoke EXCEPT ![e] = c]
      BY <2>2, ZenonT(30) DEF handleInSequence
    <3> DEFINE run == RunPayloads(outOfOrderPackets[e], seqAdd(recvSeq[e], 1), k)
               xs == <<p.pay>> \o run
               b == bufWrite(recvBuf[e], xs)
               signal == manageChokeState(e, b.written)
               c == signal = "CHOKE" \/ (signal # "UNCHOKE" /\ sendingChoke[e])
    <3>2. xs \in Seq(Payload)
      <4>1. p.pay \in Payload
        BY <1>0, <3>1 DEF TypeOK, Packet
      <4>2. seqAdd(recvSeq[e], 1) \in SeqNums
        BY <1>0, SeqSpaceAssumption, SMTT(30) DEF TypeOK, RecvType, SeqNums, seqAdd
      <4>3. run \in Seq(Payload)
        BY <1>0, <3>1, <4>2, RunType
      <4> HIDE DEF run
      <4> QED BY <4>1, <4>3, ConcatProperties
    <3>3. recvBuf' = [recvBuf EXCEPT ![e] = b] /\ sendingChoke' = [sendingChoke EXCEPT ![e] = c]
      BY <3>1
    <3> HIDE DEF xs
    <3>4. /\ recvBuf[e].written \in Nat /\ b.written \in Nat /\ b.written >= recvBuf[e].written
      BY <1>0, <3>2, LenProperties DEF bufWrite
    <3> HIDE DEF b
    <3>5. c => ~BelowUnchokeMark(b.written)
      <4>1. CASE signal = "CHOKE"
        <5>1. AboveChokeMark(b.written)
          BY <4>1 DEF manageChokeState
        <5> QED BY <1>0, <3>4, <5>1 DEF AboveChokeMark, BelowUnchokeMark
      <4>2. CASE signal # "CHOKE" /\ c
        <5>1. ~BelowUnchokeMark(recvBuf[e].written)
          BY <4>2 DEF NoStuckChoke
        <5> QED BY <1>0, <3>4, <5>1 DEF BelowUnchokeMark
      <4> QED BY <4>1, <4>2
    <3> HIDE DEF c
    <3> QED BY <1>1, <3>3, <3>5
  <2> QED BY <2>1, <2>2
<1> SUFFICES ASSUME NEW f \in End, sendingChoke'[f]
             PROVE  ~BelowUnchokeMark(recvBuf'[f].written)
  BY DEF NoStuckChoke
<1>2. CASE f = e
  BY <1>0, <1>1, <1>2
<1>3. CASE f # e
  BY <1>0, <1>1, <1>3 DEF NoStuckChoke
<1> QED BY <1>2, <1>3

\* A receiver that has told its peer to stop still has data above the mark at
\* which handlePostReadActionsLocked lifts the choke: neither an arriving packet
\* nor a Read leaves it choking with a drained buffer.
THEOREM ChokeNeverStuck == Spec => []NoStuckChoke
<1>1. Init => NoStuckChoke
  BY DEF Init, NoStuckChoke
<1>2. TypeInv /\ NoStuckChoke /\ [Next]_vars => NoStuckChoke'
  <2> SUFFICES ASSUME TypeInv, NoStuckChoke, [Next]_vars PROVE NoStuckChoke'
    OBVIOUS
  <2>1. CASE UNCHANGED <<recvBuf, sendingChoke>>
    BY <2>1 DEF NoStuckChoke
  <2>2. CASE UNCHANGED <<recvVars, recvLog, readLog>>
    BY <2>1, <2>2 DEF recvVars
  <2>3. ASSUME NEW e \in End, NEW p \in network, handleOutOfOrder(e, p) PROVE NoStuckChoke'
    BY <2>1, <2>3 DEF handleOutOfOrder
  <2> QED BY <2>2, <2>3, ReceiverSteps, ChokeStep
<1> QED BY <1>1, <1>2, TypeInit, TypeNext, PTL DEF Spec

-------------------------------------------------------------------------------
(* Progress is never undone *)

\* A sequence that agrees with another, item by item, is a prefix of it.
LEMMA PrefixByItems ==
    ASSUME NEW s \in Seq(Payload), NEW t \in Seq(Payload), Len(s) <= Len(t),
           \A i \in 1 .. Len(s) : s[i] = t[i]
    PROVE  IsPrefix(s, t) /\ s = SubSeq(t, 1, Len(s))
<1> DEFINE u == SubSeq(s, 1, Len(s))
           v == SubSeq(t, 1, Len(s))
<1>1. Len(s) \in Nat /\ Len(t) \in Nat
  BY LenProperties
<1>2. /\ \A i \in 1 .. Len(s) : s[i] \in Payload /\ t[i] \in Payload
  BY <1>1, ElementOfSeq
<1>3. u \in Seq(Payload) /\ Len(u) = Len(s) /\ \A i \in 1 .. Len(s) : u[i] = s[i]
  BY <1>1, <1>2, SubSeqProperties
<1>4. v \in Seq(Payload) /\ Len(v) = Len(s) /\ \A i \in 1 .. Len(s) : v[i] = t[i]
  BY <1>1, <1>2, SubSeqProperties
<1> HIDE DEF u, v
<1>5. u = v /\ s = v
  BY <1>3, <1>4, SeqEqual
<1> QED BY <1>5 DEF IsPrefix, u, v

\* A sequence is a prefix of itself and of every continuation.
LEMMA PrefixOfConcat ==
    ASSUME NEW s \in Seq(Payload), NEW t \in Seq(Payload)
    PROVE  IsPrefix(s, s) /\ IsPrefix(s, s \o t)
<1>1. /\ Len(s) \in Nat /\ Len(t) \in Nat /\ s \o t \in Seq(Payload)
      /\ Len(s \o t) = Len(s) + Len(t) /\ \A i \in 1 .. Len(s) : (s \o t)[i] = s[i]
  BY LenProperties, ConcatProperties
<1>2. Len(s) <= Len(s) /\ Len(s) <= Len(s \o t)
  BY <1>1
<1> QED BY <1>1, <1>2, PrefixByItems

\* What is accepted is only added to.
LEMMA AcceptedGrows ==
    ASSUME TypeInv, [Next]_vars
    PROVE  \A e \in End : IsPrefix(recvLog[e], recvLog'[e])
<1>0. TypeOK /\ recvLog \in [End -> Seq(Payload)] /\ <<>> \in Seq(Payload)
  BY DEF TypeInv, TypeOK, HistType
<1>1. CASE UNCHANGED recvLog
  BY <1>0, <1>1, PrefixOfConcat
<1>2. ASSUME NEW e \in End, NEW xs \in Seq(Payload), recvLog' = [recvLog EXCEPT ![e] = @ \o xs]
      PROVE  \A f \in End : IsPrefix(recvLog[f], recvLog'[f])
  <2> TAKE f \in End
  <2>1. recvLog'[f] = recvLog[f] \/ recvLog'[f] = recvLog[f] \o xs
    BY <1>0, <1>2
  <2> QED BY <1>0, <2>1, PrefixOfConcat
<1>3. ASSUME NEW e \in End, NEW n \in 1 .. BufSize, Read(e, n)
      PROVE  \A f \in End : IsPrefix(recvLog[f], recvLog'[f])
  <2>1. PICK k \in 0 .. SeqSpace - 1 :
           /\ IsRun(outOfOrderPackets[e], recvSeq[e], k)
           /\ recvLog' = [recvLog EXCEPT ![e] = @ \o RunPayloads(outOfOrderPackets[e], recvSeq[e], k)]
    BY <1>3 DEF Read
  <2>2. RunPayloads(outOfOrderPackets[e], recvSeq[e], k) \in Seq(Payload)
    BY <1>0, <2>1, RunType DEF TypeOK, RecvType
  <2> QED BY <1>2, <2>1, <2>2
<1>4. ASSUME NEW e \in End, NEW p \in network, p.pay # NoPayload, handleInSequence(e, p)
      PROVE  \A f \in End : IsPrefix(recvLog[f], recvLog'[f])
  <2> DEFINE from == seqAdd(recvSeq[e], 1)
  <2>1. PICK k \in 0 .. SeqSpace - 1 :
           /\ IsRun(outOfOrderPackets[e], from, k)
           /\ recvLog' = [recvLog EXCEPT ![e] =
                            @ \o (<<p.pay>> \o RunPayloads(outOfOrderPackets[e], from, k))]
    BY <1>4 DEF handleInSequence
  <2>2. from \in SeqNums
    BY <1>0, SeqSpaceAssumption DEF TypeOK, RecvType, SeqNums, seqAdd
  <2> HIDE DEF from
  <2>3. RunPayloads(outOfOrderPackets[e], from, k) \in Seq(Payload) /\ p.pay \in Payload
    BY <1>0, <1>4, <2>1, <2>2, RunType DEF TypeOK, Packet
  <2>4. <<p.pay>> \o RunPayloads(outOfOrderPackets[e], from, k) \in Seq(Payload)
    BY <2>3, ConcatProperties
  <2> QED BY <1>2, <2>1, <2>4
<1>5. ASSUME NEW e \in End, NEW p \in network, handleOutOfOrder(e, p) PROVE UNCHANGED recvLog
  BY <1>5 DEF handleOutOfOrder, histVars
<1> QED BY <1>1, <1>3, <1>4, <1>5, ReceiverSteps

\* The timer of an end starts with the handshake's last packet and ends with the
\* connection, and a Write that holds s.mu keeps the connection open.
LifeInv == \A e \in End : /\ state[e] = "SYN_RCVD" => timer[e] = "off"
                          /\ timer[e] = "done" => closed[e]
                          /\ writer[e] = "sending" => ~closed[e]

\* NeverBackwards without what AcceptedGrows says.
NothingUndone ==
    \A e \in End :
       /\ timer[e] # "off" => seqLessThanOrEqual(ackThrough[e], ackThrough'[e])
       /\ closed[e] => closed'[e] /\ sentLog'[e] = sentLog[e]
       /\ state[e] = "CLOSED" => state'[e] = "CLOSED"

\* A number taken for greater is not taken for smaller.
LEMMA GreaterIsAhead ==
    ASSUME NEW a \in SeqNums, NEW b \in SeqNums, seqGreaterThan(a, b)
    PROVE  seqLessThanOrEqual(b, a)
BY HalfFact, SeqSpaceAssumption
   DEF SeqNums, seqGreaterThan, seqLessThanOrEqual, seqLessThan, seqDiff

\* The steps of a Write, and probes.
LEMMA LifeWrite ==
    ASSUME TypeInv, LifeInv, NEW e \in End,
           \/ \E n \in 1 .. MaxWriteChunks : Write(e, n)
           \/ WriteChunk(e) \/ WindowWait(e) \/ WriteResume(e) \/ WriteAbort(e)
           \/ PersistProbe(e)
    PROVE  LifeInv' /\ NothingUndone
<1>0. writer \in [End -> {"idle", "sending", "waiting", "woken"}]
      /\ sentLog \in [End -> Seq(Payload)]
  BY DEF TypeInv, TypeOK, WriteType, HistType
<1>1. UNCHANGED <<state, closed, timer, ackThrough>>
  BY DEF Write, WriteChunk, WindowWait, WriteResume, WriteAbort, PersistProbe, lifeVars, sendVars
<1>2. LifeInv'
  <2>1. \A f \in End : writer'[f] = "sending" => ~closed[f]
    <3>1. CASE \E n \in 1 .. MaxWriteChunks : Write(e, n)
      BY <1>0, <3>1 DEF LifeInv, Write, validateWriteState
    <3>2. CASE WriteResume(e)
      BY <1>0, <3>2 DEF LifeInv, WriteResume, validateWriteState
    <3>3. CASE WriteChunk(e)
      <4>1. writer[e] = "sending" /\ \E w : writer' = [writer EXCEPT ![e] = w]
        BY <3>3 DEF WriteChunk, Locked
      <4> QED BY <1>0, <4>1 DEF LifeInv
    <3>4. CASE WindowWait(e) \/ WriteAbort(e)
      BY <1>0, <3>4 DEF LifeInv, WindowWait, WriteAbort
    <3>5. CASE PersistProbe(e)
      BY <3>5 DEF LifeInv, PersistProbe, writeVars
    <3> QED BY <3>1, <3>2, <3>3, <3>4, <3>5
  <2> QED BY <1>1, <2>1 DEF LifeInv
<1>3. \A f \in End : closed[f] => sentLog'[f] = sentLog[f]
  <2>1. CASE WriteChunk(e)
    <3>1. ~closed[e] /\ (UNCHANGED sentLog \/ \E x : sentLog' = [sentLog EXCEPT ![e] = x])
      BY <2>1 DEF LifeInv, WriteChunk, Locked
    <3> QED BY <1>0, <3>1
  <2>2. CASE PersistProbe(e)
    BY <1>0, <2>2 DEF PersistProbe
  <2>3. CASE \/ \E n \in 1 .. MaxWriteChunks : Write(e, n)
             \/ WindowWait(e) \/ WriteResume(e) \/ WriteAbort(e)
    BY <2>3 DEF Write, WindowWait, WriteResume, WriteAbort, histVars
  <2> QED BY <2>1, <2>2, <2>3
<1> QED BY <1>1, <1>2, <1>3 DEF NothingUndone, seqLessThanOrEqual

\* The handlers that leave the connection open: acks, data, timers, reports, reads.
LEMMA LifeOpen ==
    ASSUME TypeInv, LifeInv, NEW e \in End,
           \/ \E p \in network : handleAck(e, p) \/ handleInSequence(e, p) \/ handleOutOfOrder(e, p)
           \/ \E n \in 1 .. BufSize : Read(e, n)
           \/ ChokeExpires(e) \/ KeepAlive(e) \/ AnswerUnknown(e)
           \/ MessageDelivered(e) \/ MessageFailed(e) \/ UNCHANGED vars
    PROVE  LifeInv' /\ NothingUndone
<1>0. /\ writer \in [End -> {"idle", "sending", "waiting", "woken"}]
      /\ ackThrough \in [End -> SeqNums] /\ \A p \in network : p.ack \in SeqNums
  BY DEF TypeInv, TypeOK, WriteType, SendType, Packet
<1>1. SUFFICES /\ UNCHANGED <<state, closed, timer, sentLog>>
               /\ UNCHANGED writer \/ writer' = [writer EXCEPT ![e] = Woken(@)]
               /\ \/ UNCHANGED ackThrough
                  \/ \E p \in network : ackThrough' =
                        [ackThrough EXCEPT ![e] = IF seqGreaterThan(p.ack, @) THEN p.ack ELSE @]
  <2>1. LifeInv'
    BY <1>0, <1>1 DEF LifeInv, Woken
  <2>2. \A f \in End : seqLessThanOrEqual(ackThrough[f], ackThrough'[f])
    <3> TAKE f \in End
    <3>1. \/ ackThrough'[f] = ackThrough[f]
          \/ \E p \in network : /\ ackThrough'[f] = p.ack /\ seqGreaterThan(p.ack, ackThrough[f])
      BY <1>0, <1>1
    <3>2. ackThrough[f] \in SeqNums
      BY <1>0
    <3>3. ASSUME NEW p \in network, ackThrough'[f] = p.ack, seqGreaterThan(p.ack, ackThrough[f])
          PROVE  seqLessThanOrEqual(ackThrough[f], ackThrough'[f])
      BY <1>0, <3>2, <3>3, GreaterIsAhead
    <3> QED BY <3>1, <3>3 DEF seqLessThanOrEqual
  <2> QED BY <1>1, <2>1, <2>2 DEF NothingUndone
<1>2. CASE \E p \in network : handleAck(e, p)
  <2>1. PICK p \in network : handleAck(e, p)
    BY <1>2
  <2>2. ackThrough' = [ackThrough EXCEPT ![e] = IF seqGreaterThan(p.ack, @) THEN p.ack ELSE @]
    BY <2>1 DEF handleAck
  <2>3. UNCHANGED writer \/ writer' = [writer EXCEPT ![e] = Woken(@)]
    <3>1. \E w \in BOOLEAN : writer' = [writer EXCEPT ![e] = IF w THEN Woken(@) ELSE @]
      BY <2>1 DEF handleAck
    <3> QED BY <1>0, <3>1
  <2>4. UNCHANGED <<lifeVars, histVars>>
    BY <2>1 DEF handleAck
  <2> QED BY <2>2, <2>3, <2>4 DEF lifeVars, histVars
<1>3. CASE \E p \in network : handleInSequence(e, p)
  <2>1. PICK p \in network : handleInSequence(e, p)
    BY <1>3
  <2>2. ackThrough' = [ackThrough EXCEPT ![e] = IF seqGreaterThan(p.ack, @) THEN p.ack ELSE @]
    BY <2>1 DEF handleInSequence
  <2>3. UNCHANGED <<lifeVars, writeVars, sentLog>>
    BY <2>1 DEF handleInSequence
  <2> QED BY <2>2, <2>3 DEF lifeVars, writeVars
<1>4. CASE \/ \E p \in network : handleOutOfOrder(e, p)
           \/ \E n \in 1 .. BufSize : Read(e, n)
  BY <1>4 DEF handleOutOfOrder, Read, lifeVars, sendVars, writeVars, histVars
<1>5. CASE ChokeExpires(e) \/ KeepAlive(e) \/ AnswerUnknown(e) \/ UNCHANGED vars
  BY <1>5 DEF ChokeExpires, KeepAlive, AnswerUnknown, vars, lifeVars, sendVars, writeVars, histVars
<1>6. CASE MessageDelivered(e) \/ MessageFailed(e)
  BY <1>6 DEF MessageDelivered, MessageFailed, lifeVars, writeVars, histVars
<1> QED BY <1>2, <1>3, <1>4, <1>5, <1>6

\* The handlers that change the state of the connection or of its timer.
LEMMA LifeControl ==
    ASSUME TypeInv, LifeInv, NEW e \in End,
           \/ ReceiveFinalAck(e) \/ ReceiveClose(e) \/ ReceiveReset(e)
           \/ RetransmitTimeout(e) \/ GiveUp(e) \/ Close(e)
    PROVE  LifeInv' /\ NothingUndone
<1>0. /\ writer \in [End -> {"idle", "sending", "waiting", "woken"}]
      /\ state \in [End -> {"SYN_RCVD", "ESTABLISHED", "CLOSING", "CLOSED"}]
      /\ closed \in [End -> BOOLEAN] /\ ackThrough \in [End -> SeqNums]
      /\ timer \in [End -> {"off", "running", "closing", "done"}]
  BY DEF TypeInv, TypeOK, WriteType, SendType, LifeType
<1>1. CASE ReceiveFinalAck(e)
  <2>1. PICK p \in network : handleFinalAck(e, p) /\ Kind(e, p) = "FINAL_ACK" /\ p \in Packet
    BY <1>1 DEF ReceiveFinalAck, Arriving, TypeInv, TypeOK
  <2>2. state[e] = "SYN_RCVD"
    BY <2>1 DEF Kind, Packet
  <2>3. /\ ackThrough' = [ackThrough EXCEPT ![e] = p.ack]
        /\ state' = [state EXCEPT ![e] = "ESTABLISHED"]
        /\ timer' = [timer EXCEPT ![e] = "running"]
        /\ UNCHANGED <<closed, writer, sentLog>>
    BY <2>1 DEF handleFinalAck, writeVars, histVars
  <2>4. LifeInv'
    BY <1>0, <2>3 DEF LifeInv
  <2>5. timer[e] = "off"
    BY <2>2 DEF LifeInv
  <2> QED BY <1>0, <2>2, <2>3, <2>4, <2>5 DEF NothingUndone, seqLessThanOrEqual
<1>2. CASE ReceiveClose(e) \/ ReceiveReset(e)
  <2>1. /\ writer[e] # "sending"
        /\ state' = [state EXCEPT ![e] = "CLOSED"] /\ closed' = [closed EXCEPT ![e] = TRUE]
        /\ UNCHANGED <<timer, ackThrough, writer, sentLog>>
    BY <1>2 DEF ReceiveClose, ReceiveReset, handleClose, handleReset, Arriving, Locked,
                sendVars, writeVars, histVars
  <2> QED BY <1>0, <2>1 DEF LifeInv, NothingUndone, seqLessThanOrEqual
<1>3. CASE RetransmitTimeout(e)
  <2>1. /\ timer[e] = "running"
        /\ \/ timer' = [timer EXCEPT ![e] = "running"]
           \/ timer' = [timer EXCEPT ![e] = "closing"]
    BY <1>3, RetransmitEffect DEF RetransmitTimeout, checkRetransmissions
  <2>2. UNCHANGED <<state, closed, ackThrough, writer, sentLog>>
    BY <1>3 DEF RetransmitTimeout, checkRetransmissions, writeVars, histVars
  <2> QED BY <1>0, <2>1, <2>2 DEF LifeInv, NothingUndone, seqLessThanOrEqual
<1>4. ASSUME closeConn(e), writer[e] # "sending", UNCHANGED <<ackThrough, sentLog>>,
             \/ UNCHANGED timer
             \/ timer[e] = "closing" /\ timer' = [timer EXCEPT ![e] = "done"]
      PROVE  LifeInv' /\ NothingUndone
  <2>1. /\ state' = [state EXCEPT ![e] = IF @ = "ESTABLISHED" THEN "CLOSING" ELSE @]
        /\ closed' = [closed EXCEPT ![e] = TRUE]
        /\ writer' = [writer EXCEPT ![e] = Woken(@)]
    BY <1>4 DEF closeConn
  <2>2. LifeInv'
    BY <1>0, <1>4, <2>1 DEF LifeInv, Woken
  <2> QED BY <1>0, <1>4, <2>1, <2>2 DEF NothingUndone, seqLessThanOrEqual
<1>5. CASE Close(e)
  BY <1>4, <1>5 DEF Close, Locked, sendVars, histVars
<1>6. CASE GiveUp(e)
  <2>1. /\ timer[e] = "closing" /\ writer[e] # "sending"
        /\ timer' = [timer EXCEPT ![e] = "done"] /\ UNCHANGED <<ackThrough, sentLog>>
        /\ closeConn(e) \/ (closed[e] /\ UNCHANGED <<state, closed, writer>>)
    <3>1. /\ timer[e] = "closing" /\ writer[e] # "sending"
          /\ timer' = [timer EXCEPT ![e] = "done"] /\ UNCHANGED <<ackThrough, sentLog>>
      BY <1>6 DEF GiveUp, Locked, sendVars, histVars
    <3>2. closeConn(e) \/ (closed[e] /\ UNCHANGED <<state, closed, writer>>)
      BY <1>6, Zenon DEF GiveUp
    <3> QED BY <3>1, <3>2
  <2>2. CASE closed[e] /\ UNCHANGED <<state, closed, writer>>
    BY <1>0, <2>1, <2>2 DEF LifeInv, NothingUndone, seqLessThanOrEqual
  <2> QED BY <1>4, <2>1, <2>2
<1> QED BY <1>1, <1>2, <1>3, <1>5, <1>6

\* Every step keeps the invariant and undoes nothing.
LEMMA LifeNext == TypeInv /\ LifeInv /\ [Next]_vars => LifeInv' /\ NothingUndone
<1> SUFFICES ASSUME TypeInv, LifeInv, [Next]_vars PROVE LifeInv' /\ NothingUndone
  OBVIOUS
<1>1. CASE UNCHANGED vars
  <2>1. "client" \in End
    BY DEF End
  <2> QED BY <1>1, <2>1, LifeOpen
<1>2. CASE Next
  <2> SUFFICES ASSUME NEW e \in End,
           \/ \E n \in 1 .. MaxWriteChunks : Write(e, n)
           \/ WriteChunk(e) \/ WindowWait(e) \/ WriteResume(e) \/ WriteAbort(e)
           \/ \E n \in 1 .. BufSize : Read(e, n)
           \/ ReceiveFinalAck(e) \/ ReceiveAck(e) \/ ReceiveInSequence(e) \/ ReceiveOld(e)
           \/ ReceiveOutOfOrder(e) \/ ReceiveClose(e) \/ ReceiveReset(e) \/ AnswerUnknown(e)
           \/ RetransmitTimeout(e) \/ GiveUp(e) \/ KeepAlive(e)
           \/ ChokeExpires(e) \/ PersistProbe(e)
           \/ MessageDelivered(e) \/ MessageFailed(e)
           \/ Close(e)
         PROVE LifeInv' /\ NothingUndone
    BY <1>2 DEF Next
  <2>1. CASE \/ \E n \in 1 .. MaxWriteChunks : Write(e, n)
             \/ WriteChunk(e) \/ WindowWait(e) \/ WriteResume(e) \/ WriteAbort(e)
             \/ PersistProbe(e)
    BY <2>1, LifeWrite
  <2>2. CASE \/ ReceiveFinalAck(e) \/ ReceiveClose(e) \/ ReceiveReset(e)
             \/ RetransmitTimeout(e) \/ GiveUp(e) \/ Close(e)
    BY <2>2, LifeControl
  <2>3. CASE \/ ReceiveAck(e) \/ ReceiveInSequence(e) \/ ReceiveOld(e) \/ ReceiveOutOfOrder(e)
    <3>1. \/ \E p \in network : handleAck(e, p) \/ handleInSequence(e, p) \/ handleOutOfOrder(e, p)
          \/ UNCHANGED vars
      BY <2>3 DEF ReceiveAck, ReceiveInSequence, ReceiveOld, handleOld, ReceiveOutOfOrder, Arriving
    <3> QED BY <3>1, LifeOpen
  <2>4. CASE \/ \E n \in 1 .. BufSize : Read(e, n)
             \/ ChokeExpires(e) \/ KeepAlive(e) \/ AnswerUnknown(e)
             \/ MessageDelivered(e) \/ MessageFailed(e)
    BY <2>4, LifeOpen
  <2> QED BY <2>1, <2>2, <2>3, <2>4
<1> QED BY <1>1, <1>2

\* LifeInv holds throughout.
LEMMA LifeCorrect == Spec => []LifeInv
<1>1. Init => LifeInv
  BY DEF Init, LifeInv
<1> QED BY <1>1, LifeNext, TypeInit, TypeNext, PTL DEF Spec

\* No handler undoes progress, whatever arrives late or twice: what was accepted
\* stays accepted, ackThrough of an established end never moves back, a closed
\* connection neither opens again nor sends a chunk.
THEOREM ProgressKept == Spec => NeverBackwards
<1>1. TypeInv /\ LifeInv /\ [Next]_vars =>
         [\A e \in End :
          /\ IsPrefix(recvLog[e], recvLog'[e])
          /\ timer[e] # "off" => seqLessThanOrEqual(ackThrough[e], ackThrough'[e])
          /\ closed[e] => closed'[e] /\ sentLog'[e] = sentLog[e]
          /\ state[e] = "CLOSED" => state'[e] = "CLOSED"]_vars
  BY LifeNext, AcceptedGrows DEF NothingUndone
<1> QED BY <1>1, LifeCorrect, TypeInit, TypeNext, PTL DEF Spec, NeverBackwards

-------------------------------------------------------------------------------
(* Read hands over what was accepted *)

\* Nothing is lost between the acceptance of a packet and its Read.
ReadInv == ReadsAccepted /\ \A e \in End : recvBuf[e].written = Len(recvBuf[e].data)

\* A write that fits appends.
LEMMA BufWriteFits ==
    ASSUME NEW b \in [data : Seq(Payload), written : Nat], NEW xs \in Seq(Payload),
           b.written = Len(b.data), bufWrite(b, xs).written <= BufSize
    PROVE  /\ bufWrite(b, xs).data = b.data \o xs
           /\ bufWrite(b, xs).written = Len(b.data \o xs)
<1>1. b.data \in Seq(Payload) /\ bufWrite(b, xs).written = b.written + Len(xs)
  BY DEF bufWrite
<1>2. Len(b.data \o xs) = Len(b.data) + Len(xs)
  BY <1>1, ConcatProperties
<1> QED BY <1>1, <1>2 DEF bufWrite

\* A Read splits the buffer in two.
LEMMA ReadSplits ==
    ASSUME NEW data \in Seq(Payload), NEW n \in Nat \ {0}
    PROVE  /\ readTaken(data, n) \o readRest(data, n).data = data
           /\ readRest(data, n).written = Len(readRest(data, n).data)
<1>1. readRest(data, n).written = Len(readRest(data, n).data)
  BY DEF readRest
<1>2. readRest(data, n).data = SubSeq(data, n + 1, Len(data)) /\ Len(data) \in Nat
  BY LenProperties DEF readRest
<1>3. CASE n < Len(data)
  <2>1. readTaken(data, n) = SubSeq(data, 1, n)
    BY <1>3 DEF readTaken
  <2>2. SubSeq(data, 1, n) \o SubSeq(data, n + 1, Len(data)) = SubSeq(data, 1, Len(data))
    <3>1. 1 \in 1 .. Len(data) + 1 /\ n \in 1 - 1 .. Len(data) /\ Len(data) \in n .. Len(data)
      BY <1>2, <1>3
    <3> QED BY <3>1, ConcatAdjacentSubSeq
  <2> QED BY <1>1, <1>2, <2>1, <2>2, SubSeqFull
<1>4. CASE ~(n < Len(data))
  <2>1. readTaken(data, n) = data
    BY <1>4, SubSeqFull DEF readTaken
  <2>2. SubSeq(data, n + 1, Len(data)) = <<>>
    BY <1>2, <1>4, SubSeqEmpty
  <2> QED BY <1>1, <1>2, <2>1, <2>2, ConcatEmptySeq
<1> QED BY <1>3, <1>4

\* Concatenation of payloads is associative.
LEMMA PayloadsAssociate == \A s, t, u \in Seq(Payload) : (s \o t) \o u = s \o (t \o u)
BY ConcatAssociative

\* A step that does not overflow the buffer loses nothing.
LEMMA ReadStep ==
    ASSUME TypeInv, ReadInv, [Next]_vars, BufferFits'
    PROVE  ReadInv'
<1>0. /\ recvBuf \in [End -> [data : Seq(Payload), written : Nat]]
      /\ recvLog \in [End -> Seq(Payload)] /\ readLog \in [End -> Seq(Payload)]
      /\ DOMAIN recvBuf = End /\ TypeOK
      /\ \A f \in End : recvSeq[f] \in SeqNums
  BY DEF TypeInv, TypeOK, RecvType, HistType
<1>1. CASE UNCHANGED <<recvVars, recvLog, readLog>>
  BY <1>1 DEF ReadInv, ReadsAccepted, recvVars
<1>2. ASSUME NEW e \in End, NEW b \in [data : Seq(Payload), written : Nat], NEW xs \in Seq(Payload),
             NEW taken \in Seq(Payload), taken \o b.data = recvBuf[e].data, b.written = Len(b.data),
             recvBuf' = [recvBuf EXCEPT ![e] = bufWrite(b, xs)],
             recvLog' = [recvLog EXCEPT ![e] = @ \o xs],
             readLog'[e] = readLog[e] \o taken,
             \A f \in End \ {e} : readLog'[f] = readLog[f]
      PROVE  ReadInv'
  <2>1. /\ recvBuf'[e] = bufWrite(b, xs) /\ recvLog'[e] = recvLog[e] \o xs
        /\ \A f \in End \ {e} : recvBuf'[f] = recvBuf[f] /\ recvLog'[f] = recvLog[f]
    BY <1>0, <1>2
  <2>2. bufWrite(b, xs).written <= BufSize
    BY <2>1 DEF BufferFits
  <2>3. recvBuf'[e].data = b.data \o xs /\ recvBuf'[e].written = Len(recvBuf'[e].data)
    <3>1. /\ bufWrite(b, xs).data = b.data \o xs
          /\ bufWrite(b, xs).written = Len(b.data \o xs)
      BY <1>2, <2>2, BufWriteFits
    <3> QED BY <2>1, <3>1
  <2>4. readLog'[e] \o recvBuf'[e].data = recvLog'[e]
    <3>1. /\ readLog[e] \in Seq(Payload) /\ b.data \in Seq(Payload)
          /\ readLog[e] \o (taken \o b.data) = recvLog[e]
      BY <1>0, <1>2 DEF ReadInv, ReadsAccepted
    <3>2. (readLog[e] \o taken) \o (b.data \o xs) = ((readLog[e] \o taken) \o b.data) \o xs
      <4>1. readLog[e] \o taken \in Seq(Payload)
        BY <3>1, ConcatProperties
      <4> QED BY <3>1, <4>1, PayloadsAssociate
    <3>3. (readLog[e] \o taken) \o b.data = readLog[e] \o (taken \o b.data)
      BY <3>1, PayloadsAssociate
    <3> QED BY <1>2, <2>1, <2>3, <3>1, <3>2, <3>3
  <2> QED BY <1>2, <2>1, <2>3, <2>4 DEF ReadInv, ReadsAccepted
<1>3. ASSUME NEW e \in End, NEW n \in 1 .. BufSize, Read(e, n) PROVE ReadInv'
  <2>1. PICK k \in 0 .. SeqSpace - 1 :
          /\ IsRun(outOfOrderPackets[e], recvSeq[e], k)
          /\ recvLog' = [recvLog EXCEPT ![e] = @ \o RunPayloads(outOfOrderPackets[e], recvSeq[e], k)]
          /\ readLog' = [readLog EXCEPT ![e] = @ \o readTaken(recvBuf[e].data, n)]
          /\ recvBuf' = [recvBuf EXCEPT ![e] = bufWrite(readRest(recvBuf[e].data, n),
                                      RunPayloads(outOfOrderPackets[e], recvSeq[e], k))]
    BY <1>3 DEF Read
  <2> DEFINE xs == RunPayloads(outOfOrderPackets[e], recvSeq[e], k)
             b == readRest(recvBuf[e].data, n)
             taken == readTaken(recvBuf[e].data, n)
  <2>2. xs \in Seq(Payload)
    BY <1>0, <2>1, RunType
  <2>3. recvBuf[e].data \in Seq(Payload) /\ n \in Nat /\ n \in Nat \ {0}
    BY <1>0, ConstantsAssumption
  <2>4. b \in [data : Seq(Payload), written : Nat] /\ taken \in Seq(Payload)
    BY <2>3, ReadTypes
  <2>5. taken \o b.data = recvBuf[e].data /\ b.written = Len(b.data)
    BY <2>3, ReadSplits
  <2>6. readLog'[e] = readLog[e] \o taken /\ \A f \in End \ {e} : readLog'[f] = readLog[f]
    BY <1>0, <2>1
  <2>7. /\ recvBuf' = [recvBuf EXCEPT ![e] = bufWrite(b, xs)]
        /\ recvLog' = [recvLog EXCEPT ![e] = @ \o xs]
    BY <2>1
  <2> HIDE DEF xs, b, taken
  <2> QED BY <1>2, <2>2, <2>4, <2>5, <2>6, <2>7
<1>4. ASSUME NEW e \in End, NEW p \in network, p.pay # NoPayload, handleInSequence(e, p) PROVE ReadInv'
  <2> DEFINE from == seqAdd(recvSeq[e], 1)
  <2>1. PICK k \in 0 .. SeqSpace - 1 :
          /\ IsRun(outOfOrderPackets[e], from, k)
          /\ recvLog' = [recvLog EXCEPT ![e] =
                           @ \o (<<p.pay>> \o RunPayloads(outOfOrderPackets[e], from, k))]
          /\ recvBuf' = [recvBuf EXCEPT ![e] =
                           bufWrite(recvBuf[e], <<p.pay>> \o RunPayloads(outOfOrderPackets[e], from, k))]
          /\ UNCHANGED readLog
    BY <1>4 DEF handleInSequence
  <2>2. from \in SeqNums
    BY <1>0, SeqSpaceAssumption DEF SeqNums, seqAdd
  <2> HIDE DEF from
  <2> DEFINE xs == <<p.pay>> \o RunPayloads(outOfOrderPackets[e], from, k)
  <2>3. RunPayloads(outOfOrderPackets[e], from, k) \in Seq(Payload) /\ p.pay \in Payload
    BY <1>0, <1>4, <2>1, <2>2, RunType DEF TypeOK, Packet
  <2>4. xs \in Seq(Payload)
    BY <2>3, ConcatProperties
  <2>5. /\ recvBuf[e] \in [data : Seq(Payload), written : Nat]
        /\ recvBuf[e].data \in Seq(Payload) /\ readLog[e] \in Seq(Payload)
    BY <1>0
  <2>6. /\ <<>> \in Seq(Payload) /\ <<>> \o recvBuf[e].data = recvBuf[e].data
        /\ readLog'[e] = readLog[e] \o <<>> /\ recvBuf[e].written = Len(recvBuf[e].data)
    BY <2>1, <2>5, ConcatEmptySeq DEF ReadInv
  <2>7. /\ recvBuf' = [recvBuf EXCEPT ![e] = bufWrite(recvBuf[e], xs)]
        /\ recvLog' = [recvLog EXCEPT ![e] = @ \o xs]
        /\ \A f \in End \ {e} : readLog'[f] = readLog[f]
    BY <2>1
  <2> HIDE DEF xs
  <2> QED BY <1>2, <2>4, <2>5, <2>6, <2>7
<1>5. ASSUME NEW e \in End, NEW p \in network, handleOutOfOrder(e, p) PROVE ReadInv'
  <2>1. UNCHANGED <<recvBuf, recvLog, readLog>>
    BY <1>5 DEF handleOutOfOrder, histVars
  <2> QED BY <2>1 DEF ReadInv, ReadsAccepted
<1> QED BY <1>1, <1>3, <1>4, <1>5, ReceiverSteps

\* Until a buffer overflows, what the application has read and what waits in the
\* buffer is what was accepted, in order.
THEOREM ReadCorrect == Spec => ReadUntilOverflow
<1>1. Init => ReadInv
  <2> SUFFICES ASSUME Init, NEW e \in End
               PROVE  /\ readLog[e] \o recvBuf[e].data = recvLog[e]
                      /\ recvBuf[e].written = Len(recvBuf[e].data)
    BY DEF ReadInv, ReadsAccepted
  <2>1. readLog[e] = <<>> /\ recvBuf[e].data = <<>> /\ recvLog[e] = <<>> /\ recvBuf[e].written = 0
    BY DEF Init
  <2>2. <<>> \o <<>> = <<>> /\ Len(<<>>) = 0
    OBVIOUS
  <2> QED BY <2>1, <2>2
<1>2. ReadInv => ReadsAccepted
  BY DEF ReadInv
<1> QED BY <1>1, <1>2, ReadStep, TypeInit, TypeNext, PTL DEF Spec, ReadUntilOverflow

-------------------------------------------------------------------------------
(* Packet numbers *)

\* The number of the i-th packet end e sends.
Num(e, i) == seqAdd(ISN[e], i)

\* The numbers used stay within the bound, those a Write has reserved included.
CountInv == \A e \in End : /\ Len(sentLog[e]) <= used[e]
                           /\ used[e] + writeLeft[e] <= MaxSent[e]

\* The counters of the two ends and the logs they stand for.
SeqInv == \A e \in End : /\ sendSeq[e] = Num(e, Len(sentLog[e]) + 1)
                         /\ recvSeq[e] = Num(Peer(e), Len(recvLog[e]) + 1)

\* The last number under which a packet of e may be out.  A chunk that the router refused
\* is tracked under the next number, and may be resent and accepted before that number is
\* given out again.
Top == [e \in End |-> IF used[e] <= Len(sentLog[e]) THEN used[e] ELSE Len(sentLog[e]) + 1]

\* What an acknowledgement of end e may name once it has accepted the packets of
\* log: the number of one of them, or the one before the first.
Covered(log, e, ack) == \E j \in 0 .. Len(log) : ack = Num(Peer(e), j)

AckInv == \A p \in network : p.flag # "RESET" => Covered(recvLog[p.src], p.src, p.ack)
ThroughInv == \A e \in End : timer[e] # "off" => Covered(recvLog[Peer(e)], Peer(e), ackThrough[e])

\* The numbers an end gives to its packets are distinct and ordered as counted.
LEMMA NumFacts ==
    ASSUME NEW e \in End
    PROVE  /\ \A i \in 0 .. SeqSpace - 1 : Num(e, i) \in SeqNums
           /\ \A i, j \in 0 .. SeqSpace - 1 : Num(e, i) = Num(e, j) => i = j
           /\ \A m, n \in Nat : m + n < SeqSpace => seqAdd(Num(e, m), n) = Num(e, m + n)
           /\ \A k \in 0 .. SeqSpace - 2 : seqPrev(Num(e, k + 1)) = Num(e, k)
           /\ \A k \in 0 .. SeqSpace - 1 : seqDiff(ISN[e], Num(e, k)) = k
           /\ \A i, j \in 0 .. Half - 1 :
                 seqLessThanOrEqual(Num(e, i), Num(e, j)) <=> i <= j
           /\ Num(e, 0) = ISN[e]
<1>1. ISN[e] \in SeqNums /\ SeqSpace \in Nat /\ SeqSpace >= 4
  BY ConstantsAssumption, SeqSpaceAssumption
<1>2. \A i \in 0 .. SeqSpace - 1 : Num(e, i) \in SeqNums
  BY <1>1, SeqAddType DEF Num
<1>3. \A i, j \in 0 .. SeqSpace - 1 : Num(e, i) = Num(e, j) => i = j
  BY <1>1, SeqAddInjective DEF Num
<1>4. \A m, n \in Nat : m + n < SeqSpace => seqAdd(Num(e, m), n) = Num(e, m + n)
  BY <1>1, SeqAddAssoc DEF Num
<1>5. \A k \in 0 .. SeqSpace - 2 : seqPrev(Num(e, k + 1)) = Num(e, k)
  BY <1>1, SeqPrevOfAdd DEF Num
<1>6. \A k \in 0 .. SeqSpace - 1 : seqDiff(ISN[e], Num(e, k)) = k
  BY <1>1, SeqDiffOfAdd DEF Num
<1>7. \A i, j \in 0 .. Half - 1 : seqLessThanOrEqual(Num(e, i), Num(e, j)) <=> i <= j
  BY <1>1, WindowOrder DEF Num
<1>8. Num(e, 0) = ISN[e]
  BY <1>1 DEF Num, seqAdd, SeqNums
<1> QED BY <1>2, <1>3, <1>4, <1>5, <1>6, <1>7, <1>8

\* No log grows to half of the sequence space.
LEMMA LogBounds ==
    ASSUME TypeInv, CountInv
    PROVE  \A e \in End : /\ Len(sentLog[e]) \in Nat /\ Len(recvLog[e]) \in Nat
                          /\ used[e] \in Nat /\ Len(sentLog[e]) <= used[e]
                          /\ used[e] <= MaxSent[e] /\ used[e] + 2 <= Half
                          /\ Len(sentLog[e]) <= MaxSent[e] /\ MaxSent[e] \in Nat
                          /\ Len(sentLog[e]) + 2 <= Half /\ Half + 2 <= SeqSpace
                          /\ Half \in Nat /\ SeqSpace \in Nat
                          /\ Top[e] \in Nat /\ Top[e] <= used[e] /\ Top[e] + 2 <= Half
                          /\ Len(sentLog[e]) <= Top[e] /\ Top[e] <= Len(sentLog[e]) + 1
<1> TAKE e \in End
<1>1. Len(sentLog[e]) \in Nat /\ Len(recvLog[e]) \in Nat
  BY LenProperties DEF TypeInv, TypeOK, HistType
<1>2. used[e] \in Nat /\ writeLeft[e] \in Nat
  BY DEF TypeInv, TypeOK, HistType, WriteType
<1>3. MaxSent[e] \in Nat /\ MaxSent[e] + 1 < Half
  BY ConstantsAssumption
<1>4. Len(sentLog[e]) <= used[e] /\ used[e] + writeLeft[e] <= MaxSent[e]
  BY DEF CountInv
<1>5. Top[e] = IF used[e] <= Len(sentLog[e]) THEN used[e] ELSE Len(sentLog[e]) + 1
  BY DEF Top
<1> DEFINE s == Len(sentLog[e])
           u == used[e]
           w == writeLeft[e]
           m == MaxSent[e]
           t == Top[e]
<1>6. /\ s \in Nat /\ u \in Nat /\ w \in Nat /\ m \in Nat /\ s <= u /\ u + w <= m
      /\ m + 1 < Half /\ t = IF u <= s THEN u ELSE s + 1
  BY <1>1, <1>2, <1>3, <1>4, <1>5
<1> HIDE DEF s, u, w, m, t
<1>7. Half \in Nat /\ Half + 2 <= SeqSpace /\ SeqSpace \in Nat
  BY HalfFact, SeqSpaceAssumption
<1>8. t \in Nat /\ t <= u /\ s <= t /\ t <= s + 1
  BY <1>6
<1>9. u <= m /\ s <= m
  BY <1>6
<1>10. u + 2 <= Half /\ s + 2 <= Half /\ t + 2 <= Half
  BY <1>6, <1>7, <1>8, <1>9
<1> QED BY <1>1, <1>6, <1>7, <1>8, <1>9, <1>10 DEF s, u, w, m, t

\* The same after a step.
LEMMA LogBoundsNext ==
    ASSUME TypeInv', CountInv'
    PROVE  \A e \in End : /\ Len(sentLog'[e]) \in Nat /\ Len(recvLog'[e]) \in Nat
                          /\ used'[e] \in Nat /\ Len(sentLog'[e]) <= used'[e]
                          /\ used'[e] <= MaxSent[e] /\ used'[e] + 2 <= Half
                          /\ Len(sentLog'[e]) <= MaxSent[e] /\ MaxSent[e] \in Nat
                          /\ Len(sentLog'[e]) + 2 <= Half /\ Half + 2 <= SeqSpace
                          /\ Half \in Nat /\ SeqSpace \in Nat
                          /\ Top'[e] \in Nat /\ Top'[e] <= used'[e] /\ Top'[e] + 2 <= Half
                          /\ Len(sentLog'[e]) <= Top'[e] /\ Top'[e] <= Len(sentLog'[e]) + 1
<1> TAKE e \in End
<1>1. Len(sentLog'[e]) \in Nat /\ Len(recvLog'[e]) \in Nat
  BY LenProperties DEF TypeInv, TypeOK, HistType
<1>2. used'[e] \in Nat /\ writeLeft'[e] \in Nat
  BY DEF TypeInv, TypeOK, HistType, WriteType
<1>3. MaxSent[e] \in Nat /\ MaxSent[e] + 1 < Half
  BY ConstantsAssumption
<1>4. Len(sentLog'[e]) <= used'[e] /\ used'[e] + writeLeft'[e] <= MaxSent[e]
  BY DEF CountInv
<1>5. Top'[e] = IF used'[e] <= Len(sentLog'[e]) THEN used'[e] ELSE Len(sentLog'[e]) + 1
  BY DEF Top
<1> DEFINE s == Len(sentLog'[e])
           u == used'[e]
           w == writeLeft'[e]
           m == MaxSent[e]
           t == Top'[e]
<1>6. /\ s \in Nat /\ u \in Nat /\ w \in Nat /\ m \in Nat /\ s <= u /\ u + w <= m
      /\ m + 1 < Half /\ t = IF u <= s THEN u ELSE s + 1
  BY <1>1, <1>2, <1>3, <1>4, <1>5
<1> HIDE DEF s, u, w, m, t
<1>7. Half \in Nat /\ Half + 2 <= SeqSpace /\ SeqSpace \in Nat
  BY HalfFact, SeqSpaceAssumption
<1>8. t \in Nat /\ t <= u /\ s <= t /\ t <= s + 1
  BY <1>6
<1>9. u <= m /\ s <= m
  BY <1>6
<1>10. u + 2 <= Half /\ s + 2 <= Half /\ t + 2 <= Half
  BY <1>6, <1>7, <1>8, <1>9
<1> QED BY <1>1, <1>6, <1>7, <1>8, <1>9, <1>10 DEF s, u, w, m, t

\* Every number is the number of its index.
LEMMA IndexFacts ==
    ASSUME NEW q \in End
    PROVE  /\ \A s \in SeqNums : SeqIndex(q, s) \in 0 .. SeqSpace - 1 /\ Num(q, SeqIndex(q, s)) = s
           /\ \A i \in 0 .. SeqSpace - 1 : Num(q, i) \in SeqNums /\ SeqIndex(q, Num(q, i)) = i
<1>1. ISN[q] \in SeqNums
  BY ConstantsAssumption
<1>2. \A s \in SeqNums : SeqIndex(q, s) \in 0 .. SeqSpace - 1 /\ Num(q, SeqIndex(q, s)) = s
  BY <1>1, SeqSpaceAssumption DEF SeqIndex, Num, SeqNums, seqDiff, seqAdd
<1>3. \A i \in 0 .. SeqSpace - 1 : Num(q, i) \in SeqNums /\ SeqIndex(q, Num(q, i)) = i
  BY NumFacts DEF SeqIndex
<1> QED BY <1>2, <1>3

\* The numbers of a run, by their indices.
LEMMA RunNumbers ==
    ASSUME NEW q \in End, NEW m \in Nat, NEW k \in Nat, m + k < SeqSpace
    PROVE  RunSeqs(Num(q, m), k) = {s \in SeqNums : m <= SeqIndex(q, s) /\ SeqIndex(q, s) < m + k}
<1> DEFINE R == {s \in SeqNums : m <= SeqIndex(q, s) /\ SeqIndex(q, s) < m + k}
<1>0. SeqSpace \in Nat
  BY SeqSpaceAssumption
<1>1. ASSUME NEW i \in 0 .. k - 1
      PROVE  seqAdd(Num(q, m), i) = Num(q, m + i) /\ seqAdd(Num(q, m), i) \in R
  <2>1. i \in Nat /\ m + i \in 0 .. SeqSpace - 1 /\ m + i < SeqSpace /\ m <= m + i /\ m + i < m + k
    BY <1>0
  <2>2. seqAdd(Num(q, m), i) = Num(q, m + i)
    BY <2>1, NumFacts
  <2>3. Num(q, m + i) \in SeqNums /\ SeqIndex(q, Num(q, m + i)) = m + i
    BY <2>1, IndexFacts
  <2> QED BY <2>1, <2>2, <2>3
<1>2. ASSUME NEW s \in R PROVE \E i \in 0 .. k - 1 : s = seqAdd(Num(q, m), i)
  <2>1. SeqIndex(q, s) \in 0 .. SeqSpace - 1 /\ Num(q, SeqIndex(q, s)) = s
    BY IndexFacts
  <2>2. PICK i \in 0 .. k - 1 : SeqIndex(q, s) = m + i
    <3>1. SeqIndex(q, s) - m \in 0 .. k - 1 /\ SeqIndex(q, s) = m + (SeqIndex(q, s) - m)
      BY <1>0, <2>1
    <3> QED BY <3>1
  <2> QED BY <1>1, <2>1, <2>2
<1> HIDE DEF R
<1>3. RunSeqs(Num(q, m), k) = R
  BY <1>1, <1>2 DEF RunSeqs
<1> QED BY <1>3 DEF R

-------------------------------------------------------------------------------
(* Steps that neither send nor accept data *)

RecvGrows == \A f \in End : Len(recvLog[f]) <= Len(recvLog'[f])

\* Whatever an end puts on the network acknowledges what it has accepted by then.
AcksNow == /\ network \subseteq network'
           /\ \A p \in network' \ network :
                 p.flag # "RESET" => p.ack = seqPrev(recvSeq'[p.src])

ControlOnly == \A p \in network' \ network : p.pay = NoPayload

\* ackThrough is only ever taken from a packet of the peer.
AckFromPeer == \A f \in End : timer'[f] # "off" =>
                  \/ timer[f] # "off" /\ ackThrough'[f] = ackThrough[f]
                  \/ \E p \in network : /\ p.src = Peer(f) /\ p.flag # "RESET"
                                        /\ ackThrough'[f] = p.ack

\* An acknowledgement that was honest stays honest.
LEMMA CoveredGrows ==
    ASSUME TypeInv, TypeInv', RecvGrows, NEW e \in End, NEW ack, Covered(recvLog[e], e, ack)
    PROVE  Covered(recvLog'[e], e, ack)
<1>1. PICK j \in 0 .. Len(recvLog[e]) : ack = Num(Peer(e), j)
  BY DEF Covered
<1>2. Len(recvLog[e]) \in Nat /\ Len(recvLog'[e]) \in Nat /\ Len(recvLog[e]) <= Len(recvLog'[e])
  BY LenProperties DEF TypeInv, TypeOK, HistType, RecvGrows
<1> QED BY <1>1, <1>2 DEF Covered, Num

\* ackThrough stays honest.
LEMMA ThroughKept ==
    ASSUME TypeInv, TypeInv', RecvGrows, AckInv, ThroughInv, AckFromPeer
    PROVE  ThroughInv'
<1> SUFFICES ASSUME NEW f \in End, timer'[f] # "off" PROVE Covered(recvLog'[Peer(f)], Peer(f), ackThrough'[f])
  BY DEF ThroughInv
<1>1. Covered(recvLog[Peer(f)], Peer(f), ackThrough'[f])
  BY DEF AckFromPeer, AckInv, ThroughInv
<1>2. Peer(f) \in End
  BY PeerType
<1> QED BY <1>1, <1>2, CoveredGrows

\* A step that leaves the counters and the packets of the two ends alone.
StillStep ==
    /\ UNCHANGED <<sendSeq, recvSeq, sentLog, recvLog, used, outOfOrderPackets, sentPackets>>
    /\ \A f \in End : used[f] + writeLeft'[f] <= MaxSent[f]
    /\ AcksNow /\ ControlOnly /\ AckFromPeer

\* It keeps the numbers within the bound.
LEMMA StillShape ==
    ASSUME CountInv,
           UNCHANGED <<sendSeq, recvSeq, sentLog, recvLog, used, outOfOrderPackets,
                       sentPackets>>,
           \A f \in End : writeLeft'[f] = writeLeft[f] \/ used[f] + writeLeft'[f] <= MaxSent[f],
           AcksNow, ControlOnly, AckFromPeer
    PROVE  StillStep
<1>1. \A f \in End : used[f] + writeLeft'[f] <= MaxSent[f]
  BY DEF CountInv
<1> QED BY <1>1 DEF StillStep

\* A step that puts nothing on the network acknowledges nothing.
LEMMA SameNetwork == ASSUME UNCHANGED network PROVE AcksNow /\ ControlOnly
BY DEF AcksNow, ControlOnly

\* A step that leaves ackThrough alone takes no acknowledgement.
LEMMA SameAck == ASSUME UNCHANGED <<timer, ackThrough>> PROVE AckFromPeer
BY DEF AckFromPeer

\* CLOSE, RESET and ACK packets carry no payload and acknowledge what is accepted.
LEMMA ControlPackets ==
    ASSUME NEW e \in End, UNCHANGED recvSeq,
           \/ network' = network
           \/ network' = network \cup {ClosePacket(e)}
           \/ network' = network \cup {ResetPacket(e)}
           \/ network' = network \cup {AckPacket(e, recvSeq[e], nackList[e], "NONE")}
    PROVE  AcksNow /\ ControlOnly
BY DEF AcksNow, ControlOnly, ClosePacket, ResetPacket, AckPacket

\* Write begins, waits, goes on or fails without sending.
LEMMA WriteIsStill ==
    ASSUME TypeInv, CountInv, NEW e \in End,
           \/ \E n \in 1 .. MaxWriteChunks : Write(e, n)
           \/ WindowWait(e) \/ WriteResume(e) \/ WriteAbort(e)
    PROVE  StillStep
<1>1. TypeInv /\ CountInv
  OBVIOUS
<1>2. DOMAIN writeLeft = End /\ \A f \in End : writeLeft[f] \in Nat /\ used[f] \in Nat
                                              /\ MaxSent[f] \in Nat
  BY <1>1, ConstantsAssumption DEF TypeInv, TypeOK, WriteType, HistType
<1>3. UNCHANGED <<lifeVars, sendVars, recvVars, network, histVars>>
  BY DEF Write, WindowWait, WriteResume, WriteAbort
<1>4. \A f \in End : writeLeft'[f] = writeLeft[f] \/ used[f] + writeLeft'[f] <= MaxSent[f]
  <2>1. CASE \E n \in 1 .. MaxWriteChunks : Write(e, n)
    <3>1. PICK n \in 1 .. MaxWriteChunks : /\ used[e] + n <= MaxSent[e]
                                           /\ writeLeft' = [writeLeft EXCEPT ![e] = n]
      BY <2>1 DEF Write
    <3> QED BY <1>2, <3>1
  <2>2. CASE WindowWait(e) \/ WriteResume(e)
    BY <2>2 DEF WindowWait, WriteResume
  <2>3. CASE WriteAbort(e)
    <3>1. writeLeft' = [writeLeft EXCEPT ![e] = 0]
      BY <2>3 DEF WriteAbort
    <3>2. used[e] + 0 <= MaxSent[e]
      BY <1>1, <1>2 DEF CountInv
    <3> QED BY <1>2, <3>1, <3>2
  <2> QED BY <2>1, <2>2, <2>3
<1>5. AcksNow /\ ControlOnly /\ AckFromPeer
  BY <1>3, SameNetwork, SameAck DEF lifeVars, sendVars
<1> QED BY <1>1, <1>3, <1>4, <1>5, StillShape DEF sendVars, recvVars, histVars

\* handleFinalAckLocked takes over the ack of a packet of the peer.
LEMMA FinalAckIsStill ==
    ASSUME TypeInv, CountInv, NEW e \in End, NEW p \in network, p.src = Peer(e), p.flag # "RESET",
           handleFinalAck(e, p)
    PROVE  StillStep
<1>1. /\ ackThrough' = [ackThrough EXCEPT ![e] = p.ack]
      /\ timer' = [timer EXCEPT ![e] = "running"]
      /\ UNCHANGED <<sendSeq, sentPackets, writeVars, recvVars, network, histVars>>
  BY DEF handleFinalAck
<1>2. CountInv /\ DOMAIN ackThrough = End /\ DOMAIN timer = End
  BY DEF TypeInv, TypeOK, SendType, LifeType
<1>3. AckFromPeer
  BY <1>1, <1>2 DEF AckFromPeer
<1> QED
  BY <1>1, <1>2, <1>3, SameNetwork, StillShape DEF writeVars, recvVars, histVars

\* CLOSE, RESET, keepalives and the end of a choke touch no data.
LEMMA ControlIsStill ==
    ASSUME TypeInv, CountInv, NEW e \in End,
           \/ handleClose(e) \/ handleReset(e) \/ AnswerUnknown(e) \/ KeepAlive(e)
           \/ ChokeExpires(e) \/ UNCHANGED vars
    PROVE  StillStep
<1>1. CountInv
  OBVIOUS
<1>2. UNCHANGED <<timer, sendVars, writeVars, recvVars, histVars>>
  BY DEF handleClose, handleReset, AnswerUnknown, KeepAlive, ChokeExpires, lifeVars, vars
<1>3. \/ network' = network
      \/ network' = network \cup {ClosePacket(e)}
      \/ network' = network \cup {ResetPacket(e)}
      \/ network' = network \cup {AckPacket(e, recvSeq[e], nackList[e], "NONE")}
  BY DEF handleClose, handleReset, AnswerUnknown, KeepAlive, ChokeExpires, vars
<1>4. AcksNow /\ ControlOnly
  BY <1>2, <1>3, ControlPackets DEF recvVars
<1>5. AckFromPeer
  BY <1>2, SameAck DEF sendVars
<1> QED
  BY <1>1, <1>2, <1>4, <1>5, StillShape DEF sendVars, writeVars, recvVars, histVars

\* Close, by the application or by the retransmit timer, touches no data.
LEMMA CloseIsStill ==
    ASSUME TypeInv, CountInv, NEW e \in End, Close(e) \/ GiveUp(e)
    PROVE  StillStep
<1>1. CountInv /\ DOMAIN timer = End
  BY DEF TypeInv, TypeOK, LifeType
<1>2. UNCHANGED <<sendVars, writeLeft, recvVars, histVars>>
  BY DEF Close, GiveUp
<1>3. network' = network \/ network' = network \cup {ClosePacket(e)}
  BY DEF Close, GiveUp, closeConn
<1>4. AcksNow /\ ControlOnly
  BY <1>2, <1>3, ControlPackets DEF recvVars
<1>5. \A f \in End : timer'[f] # "off" => timer[f] # "off"
  BY <1>1 DEF Close, GiveUp
<1>6. AckFromPeer
  BY <1>2, <1>5 DEF AckFromPeer, sendVars
<1> QED BY <1>1, <1>2, <1>4, <1>6, StillShape DEF sendVars, recvVars, histVars

-------------------------------------------------------------------------------
(* The numbers of packets, whether or not the router accepts them *)

\* A packet carries one of the numbers that may be out and acknowledges only what its
\* sender has accepted.
Honest(count, logs, p) ==
    /\ p.pay # NoPayload => \E i \in 1 .. count[p.src] : p.seq = Num(p.src, i)
    /\ p.flag # "RESET" => Covered(logs[p.src], p.src, p.ack)

\* What an end has accepted may include a refused chunk, so it is bounded by Top of its
\* peer, not by what the peer has sent.
ReachInv == \A e \in End : Len(recvLog[e]) <= Top[Peer(e)]
NetHonest == \A p \in network : Honest(Top, recvLog, p)
TrackHonest == \A e \in End : \A s \in DOMAIN sentPackets[e] :
                  Honest(Top, recvLog, sentPackets[e][s].pkt)
BufferNumbered == \A e \in End : \A s \in DOMAIN outOfOrderPackets[e] :
                     \E i \in 1 .. Top[Peer(e)] : s = Num(Peer(e), i)

NumberInv == /\ TypeInv /\ CountInv /\ SeqInv /\ ReachInv /\ NetHonest /\ TrackHonest
             /\ BufferNumbered /\ ThroughInv

\* Packet p is made in this step: data takes the next number of its sender.
Fresh(p) == /\ p.pay # NoPayload => p.seq = sendSeq[p.src] /\ used'[p.src] = used[p.src] + 1
            /\ p.flag # "RESET" => p.ack = seqPrev(recvSeq'[p.src])

\* Numbers are not taken back.
CountsGrow == \A f \in End : used[f] <= used'[f] /\ Len(sentLog[f]) <= Len(sentLog'[f])

\* So the last number does not move back either.
LEMMA TopGrows ==
    ASSUME TypeInv, CountInv, TypeInv', CountInv', CountsGrow
    PROVE  \A f \in End : Top[f] <= Top'[f]
<1> TAKE f \in End
<1>1. /\ used[f] \in Nat /\ used'[f] \in Nat /\ Len(sentLog[f]) \in Nat /\ Len(sentLog'[f]) \in Nat
      /\ used[f] <= used'[f] /\ Len(sentLog[f]) <= Len(sentLog'[f])
      /\ Len(sentLog[f]) <= used[f] /\ Len(sentLog'[f]) <= used'[f]
  BY LogBounds, LogBoundsNext DEF CountsGrow
<1>2. /\ Top[f] = IF used[f] <= Len(sentLog[f]) THEN used[f] ELSE Len(sentLog[f]) + 1
      /\ Top'[f] = IF used'[f] <= Len(sentLog'[f]) THEN used'[f] ELSE Len(sentLog'[f]) + 1
  BY DEF Top
<1> QED BY <1>1, <1>2

\* Where the packets and numbers of the next state come from.
NumberStep ==
    /\ CountsGrow
    /\ \A p \in network' : \/ p \in network \/ Fresh(p)
                           \/ \E f \in End : \E s \in DOMAIN sentPackets[f] :
                                 p = sentPackets[f][s].pkt
    /\ \A f \in End : \A s \in DOMAIN sentPackets'[f] :
          \/ Fresh(sentPackets'[f][s].pkt)
          \/ s \in DOMAIN sentPackets[f] /\ sentPackets'[f][s].pkt = sentPackets[f][s].pkt
    /\ \A f \in End : \A s \in DOMAIN outOfOrderPackets'[f] :
          \/ s \in DOMAIN outOfOrderPackets[f]
          \/ \E p \in network : p.src = Peer(f) /\ p.pay # NoPayload /\ s = p.seq
    /\ RecvGrows /\ AckFromPeer

\* A step of that shape keeps the invariant if the counters go on standing for the logs.
LEMMA NumberKept ==
    ASSUME NumberInv, TypeInv', CountInv', SeqInv', ReachInv', NumberStep
    PROVE  NumberInv'
<1>1. /\ TypeInv /\ CountInv /\ SeqInv /\ NetHonest /\ TrackHonest /\ BufferNumbered
      /\ ThroughInv
  BY DEF NumberInv
<1>2. \A f \in End : /\ Top[f] \in Nat /\ Top'[f] \in Nat /\ Top[f] <= Top'[f]
                     /\ Peer(f) \in End
  BY <1>1, PeerType, LogBounds, LogBoundsNext, TopGrows DEF NumberStep
<1>3. ASSUME NEW p \in Packet, Honest(Top, recvLog, p) PROVE Honest(Top', recvLog', p)
  <2>1. p.src \in End /\ RecvGrows
    BY DEF Packet, NumberStep
  <2>2. p.flag # "RESET" => Covered(recvLog'[p.src], p.src, p.ack)
    BY <1>1, <1>3, <2>1, CoveredGrows DEF Honest
  <2>3. p.pay # NoPayload => \E i \in 1 .. Top'[p.src] : p.seq = Num(p.src, i)
    <3> HAVE p.pay # NoPayload
    <3>1. PICK i \in 1 .. Top[p.src] : p.seq = Num(p.src, i)
      BY <1>3 DEF Honest
    <3>2. i \in 1 .. Top'[p.src]
      BY <1>2, <2>1
    <3> QED BY <3>1, <3>2
  <2> QED BY <2>2, <2>3 DEF Honest, Num, Covered
<1>4. ASSUME NEW p \in Packet, Fresh(p) PROVE Honest(Top', recvLog', p)
  <2> DEFINE f == p.src
             n == Len(sentLog[f])
             m == Len(recvLog'[f])
  <2>1. f \in End /\ Peer(f) \in End
    BY PeerType DEF Packet
  <2>2. p.pay # NoPayload => \E i \in 1 .. Top'[f] : p.seq = Num(f, i)
    <3> HAVE p.pay # NoPayload
    <3>1. p.seq = Num(f, n + 1) /\ used'[f] = used[f] + 1
      BY <1>1, <1>4, <2>1 DEF Fresh, SeqInv
    <3>2. /\ n \in Nat /\ used[f] \in Nat /\ n <= used[f] /\ n <= Len(sentLog'[f])
          /\ Len(sentLog'[f]) \in Nat
          /\ Top'[f] = IF used'[f] <= Len(sentLog'[f]) THEN used'[f] ELSE Len(sentLog'[f]) + 1
      BY <1>1, <2>1, LogBounds, LogBoundsNext DEF NumberStep, CountsGrow, Top
    <3> HIDE DEF n
    <3>3. n + 1 \in 1 .. Top'[f]
      BY <3>1, <3>2
    <3> QED BY <3>1, <3>3
  <2>3. p.flag # "RESET" => Covered(recvLog'[f], f, p.ack)
    <3> HAVE p.flag # "RESET"
    <3>1. p.ack = seqPrev(Num(Peer(f), m + 1))
      BY <1>4, <2>1 DEF Fresh, SeqInv, Num
    <3>2. m \in Nat /\ m \in 0 .. SeqSpace - 2
      <4>1. /\ m \in Nat /\ Top'[Peer(f)] \in Nat /\ m <= Top'[Peer(f)]
            /\ Top'[Peer(f)] + 2 <= Half /\ Half + 2 <= SeqSpace
            /\ Half \in Nat /\ SeqSpace \in Nat
        BY <2>1, LogBoundsNext DEF ReachInv
      <4> HIDE DEF m
      <4> QED BY <4>1
    <3>3. p.ack = Num(Peer(f), m) /\ m \in 0 .. m
      BY <2>1, <3>1, <3>2, NumFacts
    <3> QED BY <3>3 DEF Covered
  <2> QED BY <2>2, <2>3 DEF Honest, Num, Covered
<1>5. /\ network \subseteq Packet /\ network' \subseteq Packet
      /\ \A f \in End : \A s \in DOMAIN sentPackets[f] : sentPackets[f][s].pkt \in Packet
      /\ \A f \in End : \A s \in DOMAIN sentPackets'[f] : sentPackets'[f][s].pkt \in Packet
  BY <1>1 DEF TypeInv, TypeOK, SendType, SentPacket
<1>6. NetHonest'
  <2> SUFFICES ASSUME NEW p \in network' PROVE Honest(Top', recvLog', p)
    BY DEF NetHonest
  <2>1. CASE p \in network
    BY <1>1, <1>3, <1>5, <2>1 DEF NetHonest
  <2>2. CASE Fresh(p)
    BY <1>4, <1>5, <2>2
  <2>3. CASE \E f \in End : \E s \in DOMAIN sentPackets[f] : p = sentPackets[f][s].pkt
    BY <1>1, <1>3, <1>5, <2>3 DEF TrackHonest
  <2> QED BY <2>1, <2>2, <2>3 DEF NumberStep
<1>7. TrackHonest'
  <2> SUFFICES ASSUME NEW f \in End, NEW s \in DOMAIN sentPackets'[f]
               PROVE  Honest(Top', recvLog', sentPackets'[f][s].pkt)
    BY DEF TrackHonest
  <2> DEFINE p == sentPackets'[f][s].pkt
  <2>1. p \in Packet
    BY <1>5
  <2>2. Fresh(p) \/ (s \in DOMAIN sentPackets[f] /\ p = sentPackets[f][s].pkt)
    BY DEF NumberStep
  <2>3. Fresh(p) \/ Honest(Top, recvLog, p)
    BY <1>1, <2>2 DEF TrackHonest
  <2> QED BY <1>3, <1>4, <2>1, <2>3
<1>8. BufferNumbered'
  <2> SUFFICES ASSUME NEW f \in End, NEW s \in DOMAIN outOfOrderPackets'[f]
               PROVE  \E i \in 1 .. Top'[Peer(f)] : s = Num(Peer(f), i)
    BY DEF BufferNumbered, Num
  <2>1. PICK i \in 1 .. Top[Peer(f)] : s = Num(Peer(f), i)
    BY <1>1 DEF NumberStep, BufferNumbered, NetHonest, Honest
  <2>2. i \in 1 .. Top'[Peer(f)]
    BY <1>2
  <2> QED BY <2>1, <2>2
<1>9. ThroughInv'
  <2>1. AckInv
    BY <1>1 DEF NetHonest, Honest, AckInv
  <2> QED BY <1>1, <2>1, ThroughKept DEF NumberStep
<1> QED BY <1>6, <1>7, <1>8, <1>9 DEF NumberInv

\* The counters stand for the same logs when neither log grows.
LEMMA LogsUnchanged ==
    ASSUME NumberInv, UNCHANGED <<sendSeq, recvSeq, sentLog, recvLog, used>>
    PROVE  SeqInv' /\ ReachInv' /\ RecvGrows /\ CountsGrow
<1>1. SeqInv /\ ReachInv /\ TypeInv /\ CountInv
  BY DEF NumberInv
<1>2. SeqInv' /\ ReachInv'
  BY <1>1 DEF SeqInv, ReachInv, Num, Top
<1>3. \A f \in End : used[f] \in Nat /\ Len(recvLog[f]) \in Nat /\ Len(sentLog[f]) \in Nat
  BY <1>1, LogBounds
<1> QED BY <1>2, <1>3 DEF RecvGrows, CountsGrow

\* The steps that neither send nor accept data.
LEMMA NumberStill ==
    ASSUME NumberInv, TypeInv', StillStep
    PROVE  NumberInv'
<1>1. UNCHANGED <<sendSeq, recvSeq, sentLog, recvLog, used, outOfOrderPackets, sentPackets>>
  BY DEF StillStep
<1>2. SeqInv' /\ ReachInv' /\ RecvGrows /\ CountsGrow
  BY <1>1, LogsUnchanged
<1>3. CountInv'
  BY <1>1 DEF StillStep, NumberInv, CountInv
<1>4. \A p \in network' : p \in network \/ Fresh(p)
  BY DEF StillStep, AcksNow, ControlOnly, Fresh
<1>5. NumberStep
  BY <1>1, <1>2, <1>4 DEF NumberStep, StillStep
<1> QED BY <1>2, <1>3, <1>5, NumberKept

\* Tracked packets are resent, or released.
ResendStep(e, kept, resent) ==
    /\ sentPackets' = [sentPackets EXCEPT ![e] =
          [s \in kept |-> IF s \in resent THEN bump(sentPackets[e][s]) ELSE sentPackets[e][s]]]
    /\ network' = network \cup {sentPackets[e][s].pkt : s \in resent}

\* What is tracked after that is tracked for the same packet as before.
LEMMA ResendTracks ==
    ASSUME TypeOK, NEW e \in End, NEW kept \in SUBSET DOMAIN sentPackets[e],
           NEW resent \in SUBSET kept, ResendStep(e, kept, resent)
    PROVE  /\ \A f \in End : f # e => sentPackets'[f] = sentPackets[f]
           /\ DOMAIN sentPackets'[e] = kept
           /\ \A s \in kept : sentPackets'[e][s].pkt = sentPackets[e][s].pkt
<1> DEFINE new == [s \in kept |-> IF s \in resent THEN bump(sentPackets[e][s])
                                                   ELSE sentPackets[e][s]]
<1>1. \A s \in kept : new[s].pkt = sentPackets[e][s].pkt
  BY BumpType DEF TypeOK, SendType
<1>2. DOMAIN sentPackets = End
  BY DEF TypeOK, SendType
<1>3. sentPackets' = [sentPackets EXCEPT ![e] = new] /\ DOMAIN new = kept
  BY DEF ResendStep
<1> HIDE DEF new
<1> QED BY <1>1, <1>2, <1>3

\* What handleAckLocked does to the tracked packets: the peer's ack releases them, its
\* NACKs resend some.
LEMMA AckResends ==
    ASSUME NEW e \in End, NEW p, handleAck(e, p)
    PROVE  \E kept \in SUBSET DOMAIN sentPackets[e] : \E resent \in SUBSET kept :
              /\ ResendStep(e, kept, resent)
              /\ \A s \in DOMAIN sentPackets[e] \ kept : seqLessThanOrEqual(s, p.ack)
              /\ kept # DOMAIN sentPackets[e] => ackThrough' = [ackThrough EXCEPT ![e] = p.ack]
              /\ \E a \in {p.ack, ackThrough[e]} : ackThrough' = [ackThrough EXCEPT ![e] = a]
              /\ UNCHANGED <<lifeVars, sendSeq, writeLeft, recvVars, histVars>>
<1> DEFINE newer  == seqGreaterThan(p.ack, ackThrough[e])
           kept   == IF newer THEN Unacked(e, p.ack) ELSE DOMAIN sentPackets[e]
           counts == [s \in SeqNums |->
                         IF newer /\ s \notin p.nacks /\ seqLessThanOrEqual(s, p.ack)
                         THEN 0 ELSE nackCounts[e][s]]
           due    == fastRetransmit(counts, p.nacks)
<1>1. /\ ackThrough' = [ackThrough EXCEPT ![e] = IF newer THEN p.ack ELSE @]
      /\ \E resent \in Accepted(due \cap kept) :
            /\ sentPackets' = [sentPackets EXCEPT ![e] =
                  [s \in kept |-> IF s \in resent THEN bump(sentPackets[e][s])
                                                  ELSE sentPackets[e][s]]]
            /\ network' = network \cup {sentPackets[e][s].pkt : s \in resent}
      /\ UNCHANGED <<lifeVars, sendSeq, writeLeft, recvVars, histVars>>
  BY DEF handleAck
<1>2. /\ kept \in SUBSET DOMAIN sentPackets[e]
      /\ \A s \in DOMAIN sentPackets[e] \ kept : seqLessThanOrEqual(s, p.ack)
  BY DEF Unacked
<1>3. \E a \in {p.ack, ackThrough[e]} : ackThrough' = [ackThrough EXCEPT ![e] = a]
  BY <1>1
<1>4. kept # DOMAIN sentPackets[e] => ackThrough' = [ackThrough EXCEPT ![e] = p.ack]
  BY <1>1
<1> HIDE DEF newer, kept, counts, due
<1>5. PICK resent \in Accepted(due \cap kept) : ResendStep(e, kept, resent)
  BY <1>1 DEF ResendStep
<1>6. resent \in SUBSET kept
  BY AcceptedSubset
<1> QED BY <1>1, <1>2, <1>3, <1>4, <1>5, <1>6

\* What the router's reports do to them.
LEMMA StatusResends ==
    ASSUME TypeOK, NEW e \in End, MessageDelivered(e) \/ MessageFailed(e)
    PROVE  /\ \A f \in End : \A s \in DOMAIN sentPackets'[f] :
                 s \in DOMAIN sentPackets[f] /\ sentPackets'[f][s].pkt = sentPackets[f][s].pkt
           /\ \A p \in network' : \/ p \in network
                                  \/ \E s \in DOMAIN sentPackets[e] : p = sentPackets[e][s].pkt
           /\ network \subseteq network'
<1>1. DOMAIN sentPackets = End
  BY DEF TypeOK, SendType
<1>2. CASE MessageDelivered(e)
  BY <1>1, <1>2 DEF MessageDelivered
<1>3. CASE MessageFailed(e)
  <2>1. PICK s \in DOMAIN sentPackets[e] :
           /\ sentPackets' = [sentPackets EXCEPT ![e][s] = bump(sentPackets[e][s])]
           /\ network' = network \/ network' = network \cup {bump(sentPackets[e][s]).pkt}
    BY <1>3 DEF MessageFailed
  <2>2. bump(sentPackets[e][s]).pkt = sentPackets[e][s].pkt
    BY BumpType DEF TypeOK, SendType
  <2> QED BY <1>1, <2>1, <2>2
<1> QED BY <1>2, <1>3

\* Resending keeps the invariant: what is tracked is honest, sent before or not.
LEMMA NumberResend ==
    ASSUME NumberInv, TypeInv', NEW e \in End,
           \A f \in End : \A s \in DOMAIN sentPackets'[f] :
              s \in DOMAIN sentPackets[f] /\ sentPackets'[f][s].pkt = sentPackets[f][s].pkt,
           \A p \in network' : \/ p \in network
                               \/ \E s \in DOMAIN sentPackets[e] : p = sentPackets[e][s].pkt,
           UNCHANGED <<sendSeq, recvSeq, sentLog, recvLog, used, outOfOrderPackets, writeLeft>>,
           AckFromPeer
    PROVE  NumberInv'
<1>1. SeqInv' /\ ReachInv' /\ RecvGrows /\ CountsGrow
  BY LogsUnchanged
<1>2. CountInv'
  BY DEF NumberInv, CountInv
<1>3. NumberStep
  BY <1>1 DEF NumberStep
<1> QED BY <1>1, <1>2, <1>3, NumberKept

\* handleAckLocked, checkRetransmissions and the router's reports.
LEMMA NumberAck ==
    ASSUME NumberInv, TypeInv', NEW e \in End,
           \/ \E p \in network : p.src = Peer(e) /\ p.flag # "RESET" /\ handleAck(e, p)
           \/ RetransmitTimeout(e) \/ MessageDelivered(e) \/ MessageFailed(e)
    PROVE  NumberInv'
<1>0. TypeOK /\ DOMAIN ackThrough = End /\ DOMAIN timer = End
  BY DEF NumberInv, TypeInv, TypeOK, SendType, LifeType
<1>1. CASE \E p \in network : p.src = Peer(e) /\ p.flag # "RESET" /\ handleAck(e, p)
  <2>1. PICK p \in network : p.src = Peer(e) /\ p.flag # "RESET" /\ handleAck(e, p)
    BY <1>1
  <2>0. PICK kept \in SUBSET DOMAIN sentPackets[e] : \E resent \in SUBSET kept :
              /\ ResendStep(e, kept, resent)
              /\ \E a \in {p.ack, ackThrough[e]} : ackThrough' = [ackThrough EXCEPT ![e] = a]
              /\ UNCHANGED <<lifeVars, sendSeq, writeLeft, recvVars, histVars>>
    BY <2>1, AckResends
  <2>2. PICK resent \in SUBSET kept :
              /\ ResendStep(e, kept, resent)
              /\ \E a \in {p.ack, ackThrough[e]} : ackThrough' = [ackThrough EXCEPT ![e] = a]
              /\ UNCHANGED <<lifeVars, sendSeq, writeLeft, recvVars, histVars>>
    BY <2>0
  <2>3. UNCHANGED <<sendSeq, recvSeq, sentLog, recvLog, used, outOfOrderPackets, writeLeft, timer>>
    BY <2>2 DEF lifeVars, recvVars, histVars
  <2>4. AckFromPeer
    <3>1. \A f \in End : ackThrough'[f] = ackThrough[f] \/ (f = e /\ ackThrough'[f] = p.ack)
      BY <1>0, <2>2
    <3> QED BY <2>1, <2>3, <3>1 DEF AckFromPeer
  <2>5. \A f \in End : \A s \in DOMAIN sentPackets'[f] :
           s \in DOMAIN sentPackets[f] /\ sentPackets'[f][s].pkt = sentPackets[f][s].pkt
    BY <1>0, <2>2, ResendTracks
  <2>6. \A r \in network' : r \in network \/ \E s \in DOMAIN sentPackets[e] : r = sentPackets[e][s].pkt
    BY <2>2 DEF ResendStep
  <2> QED BY <2>3, <2>4, <2>5, <2>6, NumberResend
<1>2. CASE RetransmitTimeout(e)
  <2> DEFINE kept == DOMAIN sentPackets[e]
  <2>1. PICK resent \in SUBSET kept :
            /\ ResendStep(e, kept, resent)
            /\ \/ timer' = [timer EXCEPT ![e] = "running"]
               \/ timer' = [timer EXCEPT ![e] = "closing"]
    BY <1>2, RetransmitEffect DEF ResendStep
  <2>2. timer[e] = "running" /\ UNCHANGED <<sendSeq, ackThrough, writeVars, recvVars, histVars>>
    BY <1>2 DEF RetransmitTimeout, checkRetransmissions
  <2>3. UNCHANGED <<sendSeq, recvSeq, sentLog, recvLog, used, outOfOrderPackets, writeLeft>>
    BY <2>2 DEF writeVars, recvVars, histVars
  <2>4. AckFromPeer
    BY <1>0, <2>1, <2>2 DEF AckFromPeer
  <2>5. kept \in SUBSET DOMAIN sentPackets[e]
    OBVIOUS
  <2>6. \A f \in End : \A s \in DOMAIN sentPackets'[f] :
           s \in DOMAIN sentPackets[f] /\ sentPackets'[f][s].pkt = sentPackets[f][s].pkt
    BY <1>0, <2>1, <2>5, ResendTracks
  <2>7. \A r \in network' : r \in network \/ \E s \in DOMAIN sentPackets[e] : r = sentPackets[e][s].pkt
    BY <2>1 DEF ResendStep
  <2> QED BY <2>3, <2>4, <2>6, <2>7, NumberResend
<1>3. CASE MessageDelivered(e) \/ MessageFailed(e)
  <2>1. UNCHANGED <<lifeVars, sendSeq, ackThrough, writeVars, recvVars, histVars>>
    BY <1>3 DEF MessageDelivered, MessageFailed
  <2>2. UNCHANGED <<sendSeq, recvSeq, sentLog, recvLog, used, outOfOrderPackets, writeLeft,
                    timer, ackThrough>>
    BY <2>1 DEF lifeVars, writeVars, recvVars, histVars
  <2> QED BY <1>0, <1>3, <2>2, SameAck, StatusResends, NumberResend
<1> QED BY <1>1, <1>2, <1>3

\* sendDataChunk, whether or not the router refuses the chunk, and a probe.
LEMMA NumberSend ==
    ASSUME NumberInv, TypeInv', NEW e \in End, WriteChunk(e) \/ PersistProbe(e)
    PROVE  NumberInv'
<1> DEFINE n == Len(sentLog[e])
           pkt(x) == DataPacket(e, sendSeq[e], recvSeq[e], x)
<1>0. /\ TypeInv /\ TypeOK /\ CountInv /\ SeqInv /\ ReachInv
  BY DEF NumberInv, TypeInv
<1>1. /\ used' = [used EXCEPT ![e] = @ + 1]
      /\ UNCHANGED <<lifeVars, ackThrough, recvVars, recvLog>>
  BY DEF WriteChunk, PersistProbe
<1>2. PICK x \in Payload :
         /\ \/ sentPackets' = [sentPackets EXCEPT ![e] = track(@, pkt(x))]
            \/ sentPackets' = sentPackets
         /\ \/ /\ sendSeq' = [sendSeq EXCEPT ![e] = seqAdd(@, 1)]
               /\ sentLog' = [sentLog EXCEPT ![e] = Append(@, x)]
            \/ UNCHANGED <<sendSeq, sentLog>>
         /\ network' = network \/ network' = network \cup {pkt(x)}
  <2>1. CASE WriteChunk(e)
    <3>1. used[e] + 1 \in Payload /\ pkt(used[e] + 1).pay = used[e] + 1
      BY <1>0 DEF TypeOK, HistType, Payload, Chunk, DataPacket
    <3> QED BY <2>1, <3>1 DEF WriteChunk
  <2>2. CASE PersistProbe(e)
    BY <2>2 DEF PersistProbe, Payload
  <2> QED BY <2>1, <2>2
<1>3. /\ pkt(x).src = e /\ pkt(x).seq = sendSeq[e] /\ pkt(x).ack = seqPrev(recvSeq[e])
  BY DEF DataPacket
<1>4. \/ WriteChunk(e) /\ writeLeft'[e] \in {0, writeLeft[e] - 1} /\ writeLeft[e] >= 1
      \/ writeLeft'[e] = writeLeft[e] /\ used[e] + writeLeft[e] < MaxSent[e]
  <2>1. writer[e] = "sending" => writeLeft[e] >= 1
    BY <1>0 DEF TypeInv, WriterHasWork
  <2>2. DOMAIN writeLeft = End
    BY <1>0 DEF TypeOK, WriteType
  <2> QED BY <2>1, <2>2 DEF WriteChunk, PersistProbe, Locked, writeVars
<1>5. \A f \in End : f # e => writeLeft'[f] = writeLeft[f]
  <2>1. DOMAIN writeLeft = End
    BY <1>0 DEF TypeOK, WriteType
  <2> QED BY <2>1 DEF WriteChunk, PersistProbe, writeVars
<1> HIDE DEF pkt
<1>7. /\ DOMAIN used = End /\ DOMAIN sentLog = End /\ DOMAIN sendSeq = End
      /\ DOMAIN sentPackets = End /\ sentLog[e] \in Seq(Payload)
      /\ \A f \in End : writeLeft[f] \in Nat /\ used[f] \in Nat /\ MaxSent[f] \in Nat
      /\ \A f \in End : Len(sentLog[f]) \in Nat /\ Len(recvLog[f]) \in Nat /\ Peer(f) \in End
  BY <1>0, ConstantsAssumption, LenProperties, PeerType DEF TypeOK, WriteType, HistType, SendType
<1>8. /\ used'[e] = used[e] + 1 /\ \A f \in End : f # e => used'[f] = used[f]
      /\ \A f \in End : f # e => sentLog'[f] = sentLog[f] /\ sendSeq'[f] = sendSeq[f]
      /\ \A f \in End : f # e => sentPackets'[f] = sentPackets[f]
  BY <1>1, <1>2, <1>7
<1>9. \/ /\ Len(sentLog'[e]) = n + 1 /\ sendSeq'[e] = seqAdd(sendSeq[e], 1)
      \/ /\ Len(sentLog'[e]) = n /\ sendSeq'[e] = sendSeq[e]
  BY <1>2, <1>7, AppendProperties
<1>10. n \in Nat /\ n <= used[e] /\ n + 2 < SeqSpace /\ SeqSpace \in Nat
  <2>1. /\ n \in Nat /\ n <= used[e] /\ n + 2 <= Half /\ Half + 2 <= SeqSpace
        /\ Half \in Nat /\ SeqSpace \in Nat
    BY <1>0, LogBounds
  <2> HIDE DEF n
  <2> QED BY <2>1
<1>11. sendSeq[e] = Num(e, n + 1) /\ seqAdd(sendSeq[e], 1) = Num(e, n + 1 + 1)
  <2>1. sendSeq[e] = Num(e, n + 1)
    BY <1>0 DEF SeqInv
  <2>2. n + 1 \in Nat /\ 1 \in Nat /\ (n + 1) + 1 < SeqSpace
    BY <1>10
  <2> HIDE DEF n
  <2> QED BY <2>1, <2>2, NumFacts
<1>12. SeqInv'
  <2>1. sendSeq'[e] = Num(e, Len(sentLog'[e]) + 1)
    BY <1>9, <1>11
  <2>2. \A f \in End : sendSeq'[f] = Num(f, Len(sentLog'[f]) + 1)
    BY <1>0, <1>8, <2>1 DEF SeqInv
  <2> QED BY <1>0, <1>1, <2>2 DEF SeqInv, Num, recvVars
<1> HIDE DEF n
<1>13. CountInv'
  <2>1. Len(sentLog'[e]) <= used'[e]
    BY <1>8, <1>9, <1>10, <1>7
  <2>2. used'[e] + writeLeft'[e] <= MaxSent[e]
    <3>1. used[e] + writeLeft[e] <= MaxSent[e]
      BY <1>0 DEF CountInv
    <3>2. writeLeft[e] \in Nat /\ used[e] \in Nat /\ MaxSent[e] \in Nat
      BY <1>7
    <3> QED BY <1>4, <1>8, <3>1, <3>2
  <2> QED BY <1>0, <1>5, <1>8, <2>1, <2>2 DEF CountInv
<1>14. CountsGrow
  <2>1. n <= Len(sentLog'[e]) /\ used[e] <= used'[e]
    BY <1>7, <1>8, <1>9, <1>10
  <2>2. \A f \in End : f # e => used[f] <= used'[f] /\ Len(sentLog[f]) <= Len(sentLog'[f])
    BY <1>7, <1>8
  <2> QED BY <2>1, <2>2 DEF CountsGrow, n
<1>15. ReachInv' /\ RecvGrows
  <2>1. recvLog' = recvLog /\ \A f \in End : Top[f] <= Top'[f] /\ Top[f] \in Nat /\ Top'[f] \in Nat
    BY <1>0, <1>1, <1>13, <1>14, LogBounds, LogBoundsNext, TopGrows
  <2>2. \A f \in End : Len(recvLog[f]) <= Top'[Peer(f)]
    <3> TAKE f \in End
    <3>1. Len(recvLog[f]) <= Top[Peer(f)] /\ Len(recvLog[f]) \in Nat /\ Peer(f) \in End
      BY <1>0, <1>7 DEF ReachInv
    <3> QED BY <2>1, <3>1
  <2> QED BY <1>7, <2>1, <2>2 DEF ReachInv, RecvGrows
<1>16. Fresh(pkt(x))
  BY <1>1, <1>3, <1>8 DEF Fresh, recvVars
<1>17. AckFromPeer
  BY <1>1, SameAck DEF lifeVars
<1>18. NumberStep
  <2>1. \A s \in DOMAIN sentPackets'[e] :
          \/ s \in DOMAIN sentPackets[e] /\ sentPackets'[e][s] = sentPackets[e][s]
          \/ sentPackets'[e][s].pkt = pkt(x)
    BY <1>2, <1>7 DEF track
  <2>2. \A f \in End : \A s \in DOMAIN sentPackets'[f] :
          \/ Fresh(sentPackets'[f][s].pkt)
          \/ s \in DOMAIN sentPackets[f] /\ sentPackets'[f][s].pkt = sentPackets[f][s].pkt
    BY <1>8, <1>16, <2>1
  <2>3. \A p \in network' : p \in network \/ Fresh(p)
    BY <1>2, <1>16
  <2>4. outOfOrderPackets' = outOfOrderPackets
    BY <1>1 DEF recvVars
  <2> QED BY <1>14, <1>15, <1>17, <2>2, <2>3, <2>4 DEF NumberStep
<1> QED BY <1>12, <1>13, <1>15, <1>18, NumberKept

\* End e takes packets xs from the network and its buffer.
TakeStep(e, xs) ==
    /\ recvLog' = [recvLog EXCEPT ![e] = @ \o xs]
    /\ recvSeq' = [recvSeq EXCEPT ![e] = seqAdd(@, Len(xs))]
    /\ \A f \in End : \A s \in DOMAIN outOfOrderPackets'[f] :
          s \in DOMAIN outOfOrderPackets[f] /\ outOfOrderPackets'[f][s] = outOfOrderPackets[f][s]
    /\ AcksNow /\ ControlOnly /\ AckFromPeer
    /\ UNCHANGED <<sendSeq, sentLog, used, writeLeft, sentPackets>>

\* processInSequencePacketLocked takes the packet and the run buffered behind it.
LEMMA InSequenceTakes ==
    ASSUME TypeInv, NEW e \in End, NEW p \in network, p.src = Peer(e),
           p.flag # "RESET", p.pay # NoPayload, handleInSequence(e, p)
    PROVE  \E k \in 0 .. SeqSpace - 1 :
             LET run == RunPayloads(outOfOrderPackets[e], seqAdd(recvSeq[e], 1), k)
             IN  /\ k + 1 < SeqSpace /\ p.seq = recvSeq[e]
                 /\ IsRun(outOfOrderPackets[e], seqAdd(recvSeq[e], 1), k)
                 /\ TakeStep(e, <<p.pay>> \o run)
                 /\ <<p.pay>> \o run \in Seq(Payload) /\ Len(<<p.pay>> \o run) = k + 1
                 /\ (<<p.pay>> \o run)[1] = p.pay
                 /\ \A m \in 2 .. k + 1 : (<<p.pay>> \o run)[m] = run[m - 1]
<1> DEFINE from == seqAdd(recvSeq[e], 1)
           ooo  == outOfOrderPackets[e]
           run(k) == RunPayloads(ooo, from, k)
           xs(k) == <<p.pay>> \o run(k)
           rseq(k) == seqAdd(recvSeq[e], k + 1)
           buf(k) == bufWrite(recvBuf[e], xs(k))
           nacks(k) == removeFromNACKList(nackList[e], {p.seq} \cup RunSeqs(from, k))
           signal(k) == manageChokeState(e, buf(k).written)
           choking(k) == signal(k) = "CHOKE" \/ (signal(k) # "UNCHOKE" /\ sendingChoke[e])
<1>1. PICK k \in 0 .. SeqSpace - 1 :
          /\ k + 1 < SeqSpace /\ p.seq = recvSeq[e] /\ IsRun(ooo, from, k)
          /\ recvSeq' = [recvSeq EXCEPT ![e] = rseq(k)]
          /\ recvLog' = [recvLog EXCEPT ![e] = @ \o xs(k)]
          /\ outOfOrderPackets' = [outOfOrderPackets EXCEPT ![e] = DropRun(@, from, k)]
          /\ ackThrough' = [ackThrough EXCEPT ![e] =
                               IF seqGreaterThan(p.ack, @) THEN p.ack ELSE @]
          /\ network' = network
                \cup (IF signal(k) # "NONE" THEN {AckPacket(e, rseq(k), nacks(k), signal(k))}
                      ELSE {})
                \cup (IF ~choking(k) \/ nacks(k) # {}
                      THEN {AckPacket(e, rseq(k), nacks(k), "NONE")} ELSE {})
          /\ UNCHANGED <<lifeVars, sendSeq, sentPackets, writeVars, used, sentLog>>
  BY DEF handleInSequence, isNext
<1>2. TypeOK /\ p \in Packet /\ p.pay \in Payload
  BY DEF TypeInv, TypeOK, Packet
<1>3. /\ DOMAIN recvSeq = End /\ DOMAIN ackThrough = End /\ DOMAIN outOfOrderPackets = End
      /\ recvSeq[e] \in SeqNums /\ from \in SeqNums
  BY <1>2, SeqAddType, SeqSpaceAssumption DEF TypeOK, SendType, RecvType
<1>4. \A q \in network' \ network : q.src = e /\ q.pay = NoPayload /\ q.ack = seqPrev(rseq(k))
  BY <1>1 DEF AckPacket
<1>5. network \subseteq network'
  BY <1>1
<1> HIDE DEF buf, nacks, signal, choking
<1>6. run(k) \in Seq(Payload) /\ Len(run(k)) = k
  BY <1>1, <1>2, <1>3, RunType
<1> HIDE DEF run, from
<1>7. /\ xs(k) \in Seq(Payload) /\ Len(xs(k)) = k + 1 /\ xs(k)[1] = p.pay
      /\ \A m \in 2 .. k + 1 : xs(k)[m] = run(k)[m - 1]
  <2>1. k \in Nat
    BY SeqSpaceAssumption
  <2>2. <<p.pay>> \in Seq(Payload) /\ Len(<<p.pay>>) = 1 /\ <<p.pay>>[1] = p.pay
    BY <1>2
  <2> QED BY <1>6, <2>1, <2>2, ConcatProperties
<1> HIDE DEF xs
<1>8. \A f \in End : \A s \in DOMAIN outOfOrderPackets'[f] :
          s \in DOMAIN outOfOrderPackets[f] /\ outOfOrderPackets'[f][s] = outOfOrderPackets[f][s]
  BY <1>1, <1>3 DEF DropRun
<1>9. AcksNow /\ ControlOnly
  BY <1>1, <1>3, <1>4, <1>5 DEF AcksNow, ControlOnly
<1>10. AckFromPeer
  <2>1. timer' = timer
    BY <1>1 DEF lifeVars
  <2>2. \A f \in End : ackThrough'[f] = ackThrough[f] \/ (f = e /\ ackThrough'[f] = p.ack)
    BY <1>1, <1>3
  <2> QED BY <2>1, <2>2 DEF AckFromPeer
<1>11. recvSeq' = [recvSeq EXCEPT ![e] = seqAdd(@, Len(xs(k)))]
  BY <1>1, <1>7
<1>12. UNCHANGED <<sendSeq, sentLog, used, writeLeft, sentPackets>>
  BY <1>1 DEF writeVars
<1>13. TakeStep(e, xs(k))
  BY <1>1, <1>8, <1>9, <1>10, <1>11, <1>12 DEF TakeStep
<1> QED BY <1>1, <1>7, <1>13 DEF xs, run, from

\* Read takes the run of buffered packets that starts with the one expected.
LEMMA ReadTakes ==
    ASSUME TypeInv, NEW e \in End, NEW n \in 1 .. BufSize, Read(e, n)
    PROVE  \E k \in 0 .. SeqSpace - 1 :
             /\ IsRun(outOfOrderPackets[e], recvSeq[e], k)
             /\ TakeStep(e, RunPayloads(outOfOrderPackets[e], recvSeq[e], k))
             /\ RunPayloads(outOfOrderPackets[e], recvSeq[e], k) \in Seq(Payload)
             /\ Len(RunPayloads(outOfOrderPackets[e], recvSeq[e], k)) = k
<1> DEFINE ooo == outOfOrderPackets[e]
           xs(k) == RunPayloads(ooo, recvSeq[e], k)
           rseq(k) == seqAdd(recvSeq[e], k)
<1>1. PICK k \in 0 .. SeqSpace - 1 :
          /\ IsRun(ooo, recvSeq[e], k)
          /\ recvLog' = [recvLog EXCEPT ![e] = @ \o xs(k)]
          /\ recvSeq' = [recvSeq EXCEPT ![e] = rseq(k)]
          /\ outOfOrderPackets' = [outOfOrderPackets EXCEPT ![e] = DropRun(@, recvSeq[e], k)]
          /\ \/ network' = network
             \/ \E nacks : network' = network \cup {AckPacket(e, rseq(k), nacks, "UNCHOKE")}
          /\ UNCHANGED <<lifeVars, sendVars, writeVars, used, sentLog>>
  BY DEF Read
<1>2. /\ TypeOK /\ DOMAIN recvSeq = End /\ DOMAIN outOfOrderPackets = End
      /\ recvSeq[e] \in SeqNums
  BY DEF TypeInv, TypeOK, RecvType
<1>3. /\ \A q \in network' \ network : /\ q.src = e /\ q.pay = NoPayload
                                       /\ q.ack = seqPrev(rseq(k))
      /\ network \subseteq network'
  BY <1>1 DEF AckPacket
<1>4. xs(k) \in Seq(Payload) /\ Len(xs(k)) = k
  BY <1>1, <1>2, RunType
<1> HIDE DEF xs
<1>5. \A f \in End : \A s \in DOMAIN outOfOrderPackets'[f] :
          s \in DOMAIN outOfOrderPackets[f] /\ outOfOrderPackets'[f][s] = outOfOrderPackets[f][s]
  BY <1>1, <1>2 DEF DropRun
<1>6. AcksNow /\ ControlOnly
  BY <1>1, <1>2, <1>3 DEF AcksNow, ControlOnly
<1>7. UNCHANGED <<timer, ackThrough, sendSeq, sentLog, used, writeLeft, sentPackets>>
  BY <1>1 DEF lifeVars, sendVars, writeVars
<1>8. recvSeq' = [recvSeq EXCEPT ![e] = seqAdd(@, Len(xs(k)))]
  BY <1>1, <1>4
<1>9. TakeStep(e, xs(k))
  BY <1>1, <1>5, <1>6, <1>7, <1>8, SameAck DEF TakeStep
<1> QED BY <1>1, <1>4, <1>9 DEF xs

\* A run of buffered packets holds no number that has not been given out.
LEMMA RunWithin ==
    ASSUME NumberInv, NEW e \in End, NEW m \in 1 .. Top[Peer(e)] + 1,
           NEW k \in 0 .. SeqSpace - 1, IsRun(outOfOrderPackets[e], Num(Peer(e), m), k)
    PROVE  m - 1 + k <= Top[Peer(e)]
<1> DEFINE q == Peer(e)
           N == Top[q]
           d == N + 1 - m
<1>1. q \in End
  BY PeerType
<1>2. N \in Nat /\ SeqSpace \in Nat /\ N + 1 < SeqSpace
  <2>1. N \in Nat /\ N + 2 <= Half /\ Half + 2 <= SeqSpace /\ Half \in Nat /\ SeqSpace \in Nat
    BY <1>1, LogBounds DEF NumberInv
  <2> HIDE DEF N
  <2> QED BY <2>1
<1>3. m \in 1 .. N + 1
  OBVIOUS
<1> HIDE DEF N
<1> SUFFICES ASSUME m - 1 + k > N PROVE FALSE
  BY <1>2, <1>3 DEF N, q
<1>4. d \in 0 .. k - 1 /\ m \in Nat /\ d \in Nat /\ m + d = N + 1 /\ m + d < SeqSpace
  BY <1>2, <1>3
<1> HIDE DEF d
<1>5. seqAdd(Num(q, m), d) \in DOMAIN outOfOrderPackets[e]
  BY <1>4 DEF IsRun, q
<1>6. seqAdd(Num(q, m), d) = Num(q, N + 1)
  BY <1>1, <1>4, NumFacts
<1>7. PICK i \in 1 .. N : Num(q, N + 1) = Num(q, i)
  BY <1>5, <1>6 DEF NumberInv, BufferNumbered, N, q
<1>8. i \in 0 .. SeqSpace - 1 /\ N + 1 \in 0 .. SeqSpace - 1 /\ i # N + 1
  BY <1>2
<1> QED BY <1>1, <1>7, <1>8, NumFacts

\* Taking packets whose numbers have been given out keeps the invariant.
LEMMA NumberTake ==
    ASSUME NumberInv, TypeInv', NEW e \in End, NEW xs \in Seq(Payload), TakeStep(e, xs),
           Len(recvLog[e]) + Len(xs) <= Top[Peer(e)]
    PROVE  NumberInv'
<1> DEFINE q == Peer(e)
           n == Len(recvLog[e])
           k == Len(xs)
<1>0. TypeInv /\ CountInv /\ SeqInv /\ ReachInv
  BY DEF NumberInv
<1>1. /\ recvLog' = [recvLog EXCEPT ![e] = @ \o xs]
      /\ recvSeq' = [recvSeq EXCEPT ![e] = seqAdd(@, k)]
      /\ AcksNow /\ ControlOnly /\ AckFromPeer
      /\ UNCHANGED <<sendSeq, sentLog, used, writeLeft, sentPackets>>
      /\ \A f \in End : DOMAIN outOfOrderPackets'[f] \subseteq DOMAIN outOfOrderPackets[f]
  BY DEF TakeStep
<1>2. /\ DOMAIN recvLog = End /\ DOMAIN recvSeq = End
      /\ \A f \in End : recvLog[f] \in Seq(Payload)
  BY <1>0 DEF TypeInv, TypeOK, RecvType, HistType
<1>3. Len(recvLog'[e]) = n + k /\ n \in Nat /\ k \in Nat
  <2>1. recvLog'[e] = recvLog[e] \o xs
    BY <1>1, <1>2
  <2> QED BY <1>2, <2>1, ConcatProperties, LenProperties
<1>4. \A f \in End : f # e => recvLog'[f] = recvLog[f] /\ recvSeq'[f] = recvSeq[f]
  BY <1>1, <1>2
<1>5. /\ q \in End /\ Top[q] \in Nat /\ Top[q] + 2 < SeqSpace /\ SeqSpace \in Nat
      /\ n + k <= Top[q]
  <2>1. /\ q \in End /\ Top[q] \in Nat /\ Top[q] + 2 <= Half /\ Half + 2 <= SeqSpace
        /\ Half \in Nat /\ SeqSpace \in Nat
    BY <1>0, LogBounds, PeerType
  <2> QED BY <2>1
<1>6. recvSeq[e] = Num(q, n + 1)
  BY <1>0 DEF SeqInv
<1> HIDE DEF n, k
<1>7. SeqInv'
  <2>1. n + 1 \in Nat /\ n + 1 + k < SeqSpace
    BY <1>3, <1>5
  <2>2. seqAdd(Num(q, n + 1), k) = Num(q, n + 1 + k)
    BY <1>3, <1>5, <2>1, NumFacts
  <2>3. n + 1 + k = Len(recvLog'[e]) + 1
    BY <1>3
  <2>4. recvSeq'[e] = Num(q, Len(recvLog'[e]) + 1)
    BY <1>1, <1>2, <1>6, <2>2, <2>3
  <2>5. \A f \in End : recvSeq'[f] = Num(Peer(f), Len(recvLog'[f]) + 1)
    BY <1>0, <1>4, <2>4 DEF SeqInv
  <2> QED BY <1>0, <1>1, <2>5 DEF SeqInv, Num
<1>8. ReachInv'
  <2>1. Len(recvLog'[e]) <= Top[q]
    BY <1>3, <1>5
  <2>2. \A f \in End : Len(recvLog'[f]) <= Top[Peer(f)]
    BY <1>0, <1>4, <2>1 DEF ReachInv
  <2> QED BY <1>1, <2>2 DEF ReachInv, Top
<1>9. CountInv'
  BY <1>0, <1>1 DEF CountInv
<1>10. RecvGrows /\ CountsGrow
  <2>1. \A f \in End : Len(recvLog[f]) \in Nat /\ used[f] \in Nat /\ Len(sentLog[f]) \in Nat
    BY <1>0, LogBounds
  <2>2. n <= Len(recvLog'[e])
    BY <1>3
  <2> QED BY <1>1, <1>4, <2>1, <2>2 DEF RecvGrows, CountsGrow, n
<1>11. \A p \in network' : p \in network \/ Fresh(p)
  BY <1>1 DEF AcksNow, ControlOnly, Fresh
<1>12. NumberStep
  BY <1>1, <1>10, <1>11 DEF NumberStep
<1> QED BY <1>7, <1>8, <1>9, <1>12, NumberKept

\* processInSequencePacketLocked and Read take only such packets.
LEMMA NumberAccept ==
    ASSUME NumberInv, TypeInv', NEW e \in End,
           \/ \E p \in network : /\ p.src = Peer(e) /\ p.flag # "RESET" /\ p.pay # NoPayload
                                 /\ handleInSequence(e, p)
           \/ \E n \in 1 .. BufSize : Read(e, n)
    PROVE  NumberInv'
<1> DEFINE q == Peer(e)
           n == Len(recvLog[e])
           N == Top[q]
<1>1. TypeInv /\ TypeOK /\ CountInv /\ SeqInv /\ ReachInv /\ NetHonest
  BY DEF NumberInv, TypeInv
<1>2. /\ q \in End /\ n \in Nat /\ N \in Nat /\ n <= N /\ N + 2 < SeqSpace
      /\ SeqSpace \in Nat
  <2>1. /\ q \in End /\ n \in Nat /\ N \in Nat /\ n <= N /\ N + 2 <= Half /\ Half + 2 <= SeqSpace
        /\ Half \in Nat /\ SeqSpace \in Nat
    BY <1>1, PeerType, LogBounds DEF ReachInv
  <2> HIDE DEF n, N
  <2> QED BY <2>1
<1>3. recvSeq[e] = Num(q, n + 1)
  BY <1>1 DEF SeqInv
<1>4. CASE \E p \in network : /\ p.src = Peer(e) /\ p.flag # "RESET" /\ p.pay # NoPayload
                              /\ handleInSequence(e, p)
  <2>1. PICK p \in network : /\ p.src = Peer(e) /\ p.flag # "RESET" /\ p.pay # NoPayload
                             /\ handleInSequence(e, p)
    BY <1>4
  <2> DEFINE from == seqAdd(recvSeq[e], 1)
             xs(k) == <<p.pay>> \o RunPayloads(outOfOrderPackets[e], from, k)
  <2>2. PICK k \in 0 .. SeqSpace - 1 :
                 /\ p.seq = recvSeq[e] /\ IsRun(outOfOrderPackets[e], from, k)
                 /\ TakeStep(e, xs(k)) /\ xs(k) \in Seq(Payload) /\ Len(xs(k)) = k + 1
    BY <1>1, <2>1, InSequenceTakes
  <2> HIDE DEF xs, n, N
  <2>3. n + 1 <= N
    <3>1. PICK i \in 1 .. N : Num(q, n + 1) = Num(q, i)
      BY <1>1, <1>3, <2>1, <2>2 DEF NetHonest, Honest, N
    <3>2. i \in 0 .. SeqSpace - 1 /\ n + 1 \in 0 .. SeqSpace - 1
      BY <1>2
    <3>3. i = n + 1
      BY <1>2, <3>1, <3>2, NumFacts
    <3> QED BY <1>2, <3>3
  <2> DEFINE m == n + 2
  <2>4. from = Num(q, m) /\ m \in 1 .. N + 1
    <3>1. n + 1 \in Nat /\ 1 \in Nat /\ n + 1 + 1 < SeqSpace /\ n + 1 + 1 = m
      BY <1>2, <2>3
    <3>2. seqAdd(Num(q, n + 1), 1) = Num(q, n + 1 + 1)
      BY <1>2, <3>1, NumFacts
    <3> QED BY <1>2, <1>3, <2>3, <3>1, <3>2
  <2> HIDE DEF m, from
  <2>5. m - 1 + k <= N
    BY <2>2, <2>4, RunWithin DEF N
  <2>6. n + Len(xs(k)) <= N
    BY <1>2, <2>2, <2>5 DEF m
  <2> QED BY <2>2, <2>6, NumberTake DEF n, N
<1>5. CASE \E r \in 1 .. BufSize : Read(e, r)
  <2> DEFINE xs(k) == RunPayloads(outOfOrderPackets[e], recvSeq[e], k)
  <2>1. PICK k \in 0 .. SeqSpace - 1 :
             /\ IsRun(outOfOrderPackets[e], recvSeq[e], k)
             /\ TakeStep(e, xs(k)) /\ xs(k) \in Seq(Payload) /\ Len(xs(k)) = k
    BY <1>1, <1>5, ReadTakes
  <2> HIDE DEF xs, n, N
  <2> DEFINE m == n + 1
  <2>2. recvSeq[e] = Num(q, m) /\ m \in 1 .. N + 1
    BY <1>2, <1>3
  <2> HIDE DEF m
  <2>3. m - 1 + k <= N
    BY <2>1, <2>2, RunWithin DEF N
  <2>4. n + Len(xs(k)) <= N
    BY <1>2, <2>1, <2>3 DEF m
  <2> QED BY <2>1, <2>4, NumberTake DEF n, N
<1> QED BY <1>4, <1>5

\* handleOutOfOrderPacketLocked buffers a packet of the peer.
LEMMA NumberBuffer ==
    ASSUME NumberInv, TypeInv', NEW e \in End, NEW p \in network, p.src = Peer(e),
           p.pay # NoPayload, handleOutOfOrder(e, p)
    PROVE  NumberInv'
<1> DEFINE ooo == [s \in DOMAIN outOfOrderPackets[e] \cup {p.seq} |->
                     IF s = p.seq THEN p.pay ELSE outOfOrderPackets[e][s]]
<1>1. /\ outOfOrderPackets' = [outOfOrderPackets EXCEPT ![e] = ooo]
      /\ \E nacks : network' = network \cup {AckPacket(e, recvSeq[e], nacks, "NONE")}
      /\ UNCHANGED <<lifeVars, sendVars, writeVars, recvSeq, histVars>>
  BY DEF handleOutOfOrder
<1>2. DOMAIN outOfOrderPackets = End
  BY DEF NumberInv, TypeInv, TypeOK, RecvType
<1>3. UNCHANGED <<sendSeq, recvSeq, sentLog, recvLog, used, writeLeft, sentPackets,
                  ackThrough, timer>>
  BY <1>1 DEF lifeVars, sendVars, writeVars, histVars
<1>4. SeqInv' /\ ReachInv' /\ RecvGrows /\ CountsGrow
  BY <1>3, LogsUnchanged
<1>5. CountInv'
  BY <1>3 DEF NumberInv, CountInv
<1>6. \A r \in network' : r \in network \/ Fresh(r)
  BY <1>1, <1>3 DEF Fresh, AckPacket
<1>7. \A f \in End : \A s \in DOMAIN outOfOrderPackets'[f] :
          \/ s \in DOMAIN outOfOrderPackets[f]
          \/ \E r \in network : r.src = Peer(f) /\ r.pay # NoPayload /\ s = r.seq
  BY <1>1, <1>2
<1>8. NumberStep
  BY <1>3, <1>4, <1>6, <1>7, SameAck DEF NumberStep
<1> QED BY <1>4, <1>5, <1>8, NumberKept

\* The invariant holds when the handshake is done.
LEMMA NumberInit == Init => NumberInv
<1> SUFFICES ASSUME Init PROVE NumberInv
  OBVIOUS
<1>1. TypeInv
  BY TypeInit
<1>2. /\ \A e \in End : /\ sentLog[e] = <<>> /\ recvLog[e] = <<>> /\ used[e] = 0
                        /\ writeLeft[e] = 0 /\ MaxSent[e] \in Nat /\ Peer(e) \in End
                        /\ sendSeq[e] = Num(e, 1) /\ recvSeq[e] = Num(Peer(e), 1)
                        /\ DOMAIN sentPackets[e] = {} /\ DOMAIN outOfOrderPackets[e] = {}
                        /\ Top[e] = 0
  BY ConstantsAssumption, PeerType DEF Init, Num, Top
<1>3. CountInv /\ SeqInv /\ ReachInv /\ TrackHonest /\ BufferNumbered
  BY <1>2 DEF CountInv, SeqInv, ReachInv, TrackHonest, BufferNumbered
<1>4. \A e \in End : Covered(<<>>, e, Num(Peer(e), 0)) /\ Num(e, 0) = ISN[e]
  BY NumFacts DEF Covered
<1>5. seqPrev(seqAdd(ISN["server"], 1)) = Num("server", 0)
  BY ConstantsAssumption, SeqSpaceAssumption, SeqPrevOfAdd DEF Num, End
<1>6. NetHonest
  <2>1. \A p \in network : p.src = "client" /\ p.pay = NoPayload /\ p.ack = Num("server", 0)
    BY <1>5 DEF Init, AckPacket
  <2> QED BY <1>2, <1>4, <2>1 DEF NetHonest, Honest, Peer, End
<1>7. ThroughInv
  <2> SUFFICES ASSUME NEW e \in End, timer[e] # "off"
               PROVE  Covered(recvLog[Peer(e)], Peer(e), ackThrough[e])
    BY DEF ThroughInv
  <2>1. e = "client" /\ ackThrough[e] = ISN[e]
    BY DEF Init
  <2> QED BY <1>2, <1>4, <2>1, PeerType
<1> QED BY <1>1, <1>3, <1>6, <1>7 DEF NumberInv

\* Every step preserves it.
LEMMA NumberNext == NumberInv /\ [Next]_vars => NumberInv'
<1> SUFFICES ASSUME NumberInv, [Next]_vars PROVE NumberInv'
  OBVIOUS
<1>0. TypeInv /\ TypeOK /\ CountInv /\ TypeInv'
  BY TypeNext DEF NumberInv, TypeInv
<1>1. CASE UNCHANGED vars
  <2>1. "client" \in End
    BY DEF End
  <2> QED BY <1>0, <1>1, <2>1, ControlIsStill, NumberStill
<1>2. CASE Next
  <2> SUFFICES ASSUME NEW e \in End,
           \/ \E n \in 1 .. MaxWriteChunks : Write(e, n)
           \/ WriteChunk(e) \/ WindowWait(e) \/ WriteResume(e) \/ WriteAbort(e)
           \/ \E n \in 1 .. BufSize : Read(e, n)
           \/ ReceiveFinalAck(e) \/ ReceiveAck(e) \/ ReceiveInSequence(e) \/ ReceiveOld(e)
           \/ ReceiveOutOfOrder(e) \/ ReceiveClose(e) \/ ReceiveReset(e) \/ AnswerUnknown(e)
           \/ RetransmitTimeout(e) \/ GiveUp(e) \/ KeepAlive(e)
           \/ ChokeExpires(e) \/ PersistProbe(e)
           \/ MessageDelivered(e) \/ MessageFailed(e)
           \/ Close(e)
         PROVE NumberInv'
    BY <1>2 DEF Next
  <2>1. \A p \in Arriving(e) : p \in network /\ p.src = Peer(e)
    BY DEF Arriving
  <2>2. CASE \/ \E n \in 1 .. MaxWriteChunks : Write(e, n)
             \/ WindowWait(e) \/ WriteResume(e) \/ WriteAbort(e)
    BY <1>0, <2>2, WriteIsStill, NumberStill
  <2>3. CASE WriteChunk(e) \/ PersistProbe(e)
    BY <1>0, <2>3, NumberSend
  <2>4. CASE \E n \in 1 .. BufSize : Read(e, n)
    BY <1>0, <2>4, NumberAccept
  <2>5. CASE ReceiveFinalAck(e)
    <3>1. PICK p \in Arriving(e) : Kind(e, p) = "FINAL_ACK" /\ handleFinalAck(e, p)
      BY <2>5 DEF ReceiveFinalAck
    <3>2. p.flag # "RESET"
      BY <3>1 DEF Kind
    <3> QED BY <1>0, <2>1, <3>1, <3>2, FinalAckIsStill, NumberStill
  <2>6. CASE ReceiveAck(e)
    <3>1. PICK p \in Arriving(e) : Kind(e, p) = "ACK" /\ handleAck(e, p)
      BY <2>6 DEF ReceiveAck
    <3>2. p.flag # "RESET"
      BY <3>1 DEF Kind
    <3> QED BY <1>0, <2>1, <3>1, <3>2, NumberAck
  <2>7. CASE ReceiveInSequence(e)
    <3>1. PICK p \in Arriving(e) : Kind(e, p) = "DATA" /\ handleInSequence(e, p)
      BY <2>7 DEF ReceiveInSequence
    <3>2. p.flag # "RESET" /\ p.pay # NoPayload
      BY <1>0, <2>1, <3>1, KindData
    <3> QED BY <1>0, <2>1, <3>1, <3>2, NumberAccept
  <2>8. CASE ReceiveOutOfOrder(e)
    <3>1. PICK p \in Arriving(e) : Kind(e, p) = "DATA" /\ handleOutOfOrder(e, p)
      BY <2>8 DEF ReceiveOutOfOrder
    <3>2. p.pay # NoPayload
      BY <1>0, <2>1, <3>1, KindData
    <3> QED BY <1>0, <2>1, <3>1, <3>2, NumberBuffer
  <2>9. CASE RetransmitTimeout(e) \/ MessageDelivered(e) \/ MessageFailed(e)
    BY <1>0, <2>9, NumberAck
  <2>10. CASE Close(e) \/ GiveUp(e)
    BY <1>0, <2>10, CloseIsStill, NumberStill
  <2>11. CASE \/ ReceiveOld(e) \/ ReceiveClose(e) \/ ReceiveReset(e) \/ AnswerUnknown(e)
              \/ KeepAlive(e) \/ ChokeExpires(e)
    <3>1. \/ handleClose(e) \/ handleReset(e) \/ AnswerUnknown(e) \/ KeepAlive(e)
          \/ ChokeExpires(e) \/ UNCHANGED vars
      BY <2>11 DEF ReceiveOld, handleOld, ReceiveClose, ReceiveReset
    <3> QED BY <1>0, <3>1, ControlIsStill, NumberStill
  <2> QED BY <2>2, <2>3, <2>4, <2>5, <2>6, <2>7, <2>8, <2>9, <2>10, <2>11
<1> QED BY <1>1, <1>2

\* It holds throughout, refused messages and reports of the router included.
LEMMA NumberInvariance == Spec => []NumberInv
BY NumberInit, NumberNext, PTL DEF Spec

\* Acknowledgements are honest: no ack on its way, and no ackThrough of an end that
\* runs its retransmit timer, covers a packet that has not been accepted; not even a
\* chunk that the router refused, that was resent all the same and whose number is
\* then given out again.
THEOREM AckCorrect == Spec => []AckHonest
<1>1. NumberInv => AckHonest
  <2> SUFFICES ASSUME NumberInv PROVE AckHonest
    OBVIOUS
  <2>0. TypeInv /\ TypeOK /\ CountInv /\ ReachInv /\ NetHonest /\ ThroughInv
    BY DEF NumberInv, TypeInv
  <2>1. ASSUME NEW e \in End, NEW ack, Covered(recvLog[e], e, ack)
        PROVE  SeqIndex(Peer(e), ack) <= Len(recvLog[e])
    <3>1. PICK j \in 0 .. Len(recvLog[e]) : ack = Num(Peer(e), j)
      BY <2>1 DEF Covered
    <3>2. /\ Peer(e) \in End /\ Len(recvLog[e]) \in Nat /\ Top[Peer(e)] \in Nat
          /\ Len(recvLog[e]) <= Top[Peer(e)]
          /\ Top[Peer(e)] + 2 <= Half /\ Half + 2 <= SeqSpace
          /\ Half \in Nat /\ SeqSpace \in Nat
      BY <2>0, PeerType, LogBounds DEF ReachInv
    <3>3. j \in 0 .. SeqSpace - 1
      BY <3>2
    <3>4. SeqIndex(Peer(e), ack) = j
      BY <3>1, <3>2, <3>3, NumFacts DEF SeqIndex
    <3> QED BY <3>2, <3>4
  <2>2. \A p \in network : p.src \in End
    BY <2>0 DEF TypeOK, Packet
  <2>3. \A e \in End : Peer(e) \in End /\ Peer(Peer(e)) = e
    BY PeerType
  <2>4. \A p \in network : p.flag # "RESET" => SeqIndex(Peer(p.src), p.ack) <= Len(recvLog[p.src])
    BY <2>0, <2>1, <2>2 DEF NetHonest, Honest
  <2>5. \A e \in End : timer[e] # "off" => SeqIndex(e, ackThrough[e]) <= Len(recvLog[Peer(e)])
    BY <2>0, <2>1, <2>3 DEF ThroughInv
  <2> QED BY <2>4, <2>5 DEF AckHonest
<1> QED BY <1>1, NumberInvariance, PTL

-------------------------------------------------------------------------------
(* The list of missing packets *)

\* The numbers that end e accepts in a step.
Past(e) == {s \in SeqNums : /\ Len(recvLog[e]) < SeqIndex(Peer(e), s)
                            /\ SeqIndex(Peer(e), s) <= Len(recvLog'[e])}

\* End e accepts packets: all its structures move past their numbers together.
AdvanceStep(e) ==
    /\ Len(recvLog[e]) <= Len(recvLog'[e])
    /\ \A s \in Past(e) : \/ s \in DOMAIN outOfOrderPackets[e]
                           \/ \E p \in network : p.src = Peer(e) /\ p.pay # NoPayload /\ s = p.seq
    /\ DOMAIN outOfOrderPackets[e] \ Past(e) \subseteq DOMAIN outOfOrderPackets'[e]
    /\ DOMAIN outOfOrderPackets'[e] \subseteq DOMAIN outOfOrderPackets[e]
    /\ nackList'[e] = nackList[e] \ Past(e)
    /\ \A f \in End \ {e} : /\ recvLog'[f] = recvLog[f] /\ nackList'[f] = nackList[f]
                            /\ outOfOrderPackets'[f] = outOfOrderPackets[f]
    /\ UNCHANGED sentLog

\* processInSequencePacketLocked removes what it accepts from the buffer and the list.
LEMMA InSequenceAdvances ==
    ASSUME NumberInv, NumberInv', NEW e \in End, NEW p \in network, p.src = Peer(e),
           p.pay # NoPayload, handleInSequence(e, p)
    PROVE  AdvanceStep(e)
<1> DEFINE from == seqAdd(recvSeq[e], 1)
           q == Peer(e)
           n == Len(recvLog[e])
<1>1. PICK k \in 0 .. SeqSpace - 1 :
          /\ p.seq = recvSeq[e] /\ IsRun(outOfOrderPackets[e], from, k)
          /\ recvLog' = [recvLog EXCEPT ![e] =
                           @ \o (<<p.pay>> \o RunPayloads(outOfOrderPackets[e], from, k))]
          /\ outOfOrderPackets' = [outOfOrderPackets EXCEPT ![e] = DropRun(@, from, k)]
          /\ nackList' = [nackList EXCEPT ![e] =
                            removeFromNACKList(@, {p.seq} \cup RunSeqs(from, k))]
          /\ UNCHANGED sentLog
  BY DEF handleInSequence, isNext
<1>2. /\ TypeInv /\ TypeOK /\ CountInv /\ TypeInv' /\ CountInv' /\ ReachInv' /\ SeqInv
      /\ p \in Packet /\ p.pay \in Payload
  BY DEF NumberInv, TypeInv, TypeOK, Packet
<1>3. /\ DOMAIN outOfOrderPackets = End /\ nackList \in [End -> SUBSET SeqNums]
      /\ recvLog \in [End -> Seq(Payload)] /\ recvSeq[e] \in SeqNums /\ from \in SeqNums
  <2>1. /\ DOMAIN outOfOrderPackets = End /\ nackList \in [End -> SUBSET SeqNums]
        /\ recvLog \in [End -> Seq(Payload)] /\ recvSeq[e] \in SeqNums
    BY <1>2 DEF TypeOK, RecvType, HistType
  <2>2. seqAdd(recvSeq[e], 1) \in SeqNums
    BY <2>1, SeqSpaceAssumption DEF SeqNums, seqAdd
  <2> QED BY <2>1, <2>2
<1>4. q \in End /\ recvSeq[e] = Num(q, n + 1)
  BY <1>2, PeerType DEF SeqInv
<1>5. Len(recvLog'[e]) = n + k + 1
  <2>1. /\ RunPayloads(outOfOrderPackets[e], from, k) \in Seq(Payload)
        /\ Len(RunPayloads(outOfOrderPackets[e], from, k)) = k
    BY <1>1, <1>2, <1>3, RunType
  <2>2. <<p.pay>> \in Seq(Payload) /\ Len(<<p.pay>>) = 1
    BY <1>2
  <2>3. PICK xs \in Seq(Payload) : Len(xs) = k + 1 /\ recvLog'[e] = recvLog[e] \o xs
    <3>1. /\ <<p.pay>> \o RunPayloads(outOfOrderPackets[e], from, k) \in Seq(Payload)
          /\ Len(<<p.pay>> \o RunPayloads(outOfOrderPackets[e], from, k)) = k + 1
      BY <2>1, <2>2, ConcatProperties, SeqSpaceAssumption
    <3> QED BY <1>1, <1>3, <3>1
  <2>4. recvLog[e] \in Seq(Payload) /\ k \in Nat
    BY <1>3, SeqSpaceAssumption
  <2>5. Len(recvLog[e] \o xs) = n + Len(xs) /\ n \in Nat
    BY <2>4, ConcatProperties, LenProperties
  <2> HIDE DEF n
  <2>6. Len(recvLog'[e]) = n + Len(xs)
    BY <2>3, <2>5
  <2> QED BY <2>3, <2>4, <2>5, <2>6
<1>6. n \in Nat /\ k \in Nat /\ n + 2 + k < SeqSpace /\ SeqSpace \in Nat
  <2>1. /\ Len(recvLog'[e]) <= Top'[q] /\ Top'[q] \in Nat /\ n \in Nat
        /\ Top'[q] + 2 <= Half /\ Half + 2 <= SeqSpace
        /\ Half \in Nat /\ SeqSpace \in Nat
    BY <1>2, <1>4, LogBounds, LogBoundsNext DEF ReachInv
  <2> QED BY <1>5, <2>1
<1>7. from = Num(q, n + 2)
  <2>1. seqAdd(Num(q, n + 1), 1) = Num(q, n + 1 + 1) /\ n + 1 + 1 = n + 2
    BY <1>4, <1>6, NumFacts
  <2> QED BY <1>4, <2>1
<1> HIDE DEF from, q, n
<1>8. Past(e) = {p.seq} \cup RunSeqs(from, k)
  <2>1. RunSeqs(from, k)
           = {s \in SeqNums : n + 2 <= SeqIndex(q, s) /\ SeqIndex(q, s) < n + 2 + k}
    BY <1>4, <1>6, <1>7, RunNumbers
  <2>2. \A s \in SeqNums : SeqIndex(q, s) \in 0 .. SeqSpace - 1 /\ Num(q, SeqIndex(q, s)) = s
    BY <1>4, IndexFacts
  <2>3. p.seq \in SeqNums /\ SeqIndex(q, p.seq) = n + 1 /\ p.seq = Num(q, n + 1)
    <3>1. n + 1 \in 0 .. SeqSpace - 1
      BY <1>6
    <3> QED BY <1>1, <1>4, <3>1, IndexFacts
  <2>4. Past(e) = {s \in SeqNums : n < SeqIndex(q, s) /\ SeqIndex(q, s) <= n + k + 1}
    BY <1>5 DEF Past, n, q
  <2>5. \A s \in SeqNums : n < SeqIndex(q, s) /\ SeqIndex(q, s) <= n + k + 1
                           <=> s = p.seq \/ (n + 2 <= SeqIndex(q, s) /\ SeqIndex(q, s) < n + 2 + k)
    <3> TAKE s \in SeqNums
    <3>1. CASE SeqIndex(q, s) = n + 1
      BY <1>6, <2>2, <2>3, <3>1
    <3>2. CASE SeqIndex(q, s) # n + 1
      <4>1. s # p.seq /\ SeqIndex(q, s) \in 0 .. SeqSpace - 1
        BY <2>2, <2>3, <3>2
      <4> QED BY <1>6, <3>2, <4>1
    <3> QED BY <3>1, <3>2
  <2> QED BY <2>1, <2>3, <2>4, <2>5
<1>9. /\ DOMAIN outOfOrderPackets'[e] = DOMAIN outOfOrderPackets[e] \ RunSeqs(from, k)
      /\ nackList'[e] = nackList[e] \ ({p.seq} \cup RunSeqs(from, k))
  BY <1>1, <1>3 DEF DropRun, removeFromNACKList
<1>10. \A f \in End \ {e} : /\ recvLog'[f] = recvLog[f] /\ nackList'[f] = nackList[f]
                            /\ outOfOrderPackets'[f] = outOfOrderPackets[f]
  BY <1>1, <1>3
<1>11. Len(recvLog[e]) <= Len(recvLog'[e])
  BY <1>5, <1>6 DEF n
<1>12. RunSeqs(from, k) \subseteq DOMAIN outOfOrderPackets[e]
  BY <1>1 DEF IsRun, RunSeqs
<1> QED BY <1>1, <1>8, <1>9, <1>10, <1>11, <1>12 DEF AdvanceStep

\* So does a Read that finds the next packets buffered.
LEMMA ReadAdvances ==
    ASSUME NumberInv, NumberInv', NEW e \in End, NEW m \in 1 .. BufSize, Read(e, m)
    PROVE  AdvanceStep(e)
<1> DEFINE q == Peer(e)
           n == Len(recvLog[e])
           from == recvSeq[e]
<1>1. PICK k \in 0 .. SeqSpace - 1 :
          /\ IsRun(outOfOrderPackets[e], from, k)
          /\ recvLog' = [recvLog EXCEPT ![e] = @ \o RunPayloads(outOfOrderPackets[e], from, k)]
          /\ outOfOrderPackets' = [outOfOrderPackets EXCEPT ![e] = DropRun(@, from, k)]
          /\ nackList' = [nackList EXCEPT ![e] = removeFromNACKList(@, RunSeqs(from, k))]
          /\ UNCHANGED sentLog
  BY DEF Read
<1>2. TypeInv /\ TypeOK /\ CountInv /\ TypeInv' /\ CountInv' /\ ReachInv' /\ SeqInv
  BY DEF NumberInv, TypeInv
<1>3. /\ DOMAIN outOfOrderPackets = End /\ nackList \in [End -> SUBSET SeqNums]
      /\ recvLog \in [End -> Seq(Payload)] /\ from \in SeqNums
  BY <1>2 DEF TypeOK, RecvType, HistType
<1>4. q \in End /\ from = Num(q, n + 1)
  BY <1>2, PeerType DEF SeqInv
<1> HIDE DEF from
<1>5. Len(recvLog'[e]) = n + k
  <2> DEFINE xs == RunPayloads(outOfOrderPackets[e], from, k)
  <2>1. xs \in Seq(Payload) /\ Len(xs) = k
    BY <1>1, <1>2, <1>3, RunType
  <2>2. recvLog'[e] = recvLog[e] \o xs
    BY <1>1, <1>3
  <2>3. recvLog[e] \in Seq(Payload)
    BY <1>3
  <2> HIDE DEF xs
  <2>4. Len(recvLog[e] \o xs) = Len(recvLog[e]) + Len(xs)
    BY <2>1, <2>3, ConcatProperties
  <2> QED BY <2>1, <2>2, <2>4
<1>6. n \in Nat /\ k \in Nat /\ n + 1 + k < SeqSpace /\ SeqSpace \in Nat
  <2>1. /\ Len(recvLog'[e]) <= Top'[q] /\ Top'[q] \in Nat /\ n \in Nat
        /\ Top'[q] + 2 <= Half /\ Half + 2 <= SeqSpace
        /\ Half \in Nat /\ SeqSpace \in Nat
    BY <1>2, <1>4, LogBounds, LogBoundsNext DEF ReachInv
  <2> QED BY <1>5, <2>1
<1> HIDE DEF q, n
<1>7. Past(e) = RunSeqs(from, k)
  <2>1. RunSeqs(from, k)
           = {s \in SeqNums : n + 1 <= SeqIndex(q, s) /\ SeqIndex(q, s) < n + 1 + k}
    BY <1>4, <1>6, RunNumbers
  <2>2. \A s \in SeqNums : SeqIndex(q, s) \in 0 .. SeqSpace - 1
    BY <1>4, IndexFacts
  <2>3. Past(e) = {s \in SeqNums : n < SeqIndex(q, s) /\ SeqIndex(q, s) <= n + k}
    BY <1>5 DEF Past, n, q
  <2>4. \A s \in SeqNums : n < SeqIndex(q, s) /\ SeqIndex(q, s) <= n + k
                           <=> n + 1 <= SeqIndex(q, s) /\ SeqIndex(q, s) < n + 1 + k
    BY <1>6, <2>2
  <2> QED BY <2>1, <2>3, <2>4
<1>8. /\ DOMAIN outOfOrderPackets'[e] = DOMAIN outOfOrderPackets[e] \ RunSeqs(from, k)
      /\ nackList'[e] = nackList[e] \ RunSeqs(from, k)
  BY <1>1, <1>3 DEF DropRun, removeFromNACKList
<1>9. \A f \in End \ {e} : /\ recvLog'[f] = recvLog[f] /\ nackList'[f] = nackList[f]
                           /\ outOfOrderPackets'[f] = outOfOrderPackets[f]
  BY <1>1, <1>3
<1>10. Len(recvLog[e]) <= Len(recvLog'[e])
  BY <1>5, <1>6 DEF n
<1>11. RunSeqs(from, k) \subseteq DOMAIN outOfOrderPackets[e]
  BY <1>1 DEF IsRun, RunSeqs
<1> QED BY <1>1, <1>7, <1>8, <1>9, <1>10, <1>11 DEF AdvanceStep

\* handleOutOfOrderPacketLocked buffers the j-th packet of the peer, beyond the one
\* expected, and extends the list.
LEMMA OutOfOrderEffect ==
    ASSUME NumberInv, NEW e \in End, NEW p \in network, p.src = Peer(e),
           p.pay # NoPayload, handleOutOfOrder(e, p)
    PROVE  \E j \in 1 .. Top[Peer(e)] :
              /\ p.seq = Num(Peer(e), j) /\ Len(recvLog[e]) + 1 < j
              /\ seqDiff(recvSeq[e], p.seq) = j - (Len(recvLog[e]) + 1)
              /\ DOMAIN outOfOrderPackets'[e] = DOMAIN outOfOrderPackets[e] \cup {p.seq}
              /\ nackList'[e] = (nackList[e] \ {p.seq})
                    \cup Missing(e, p.seq, outOfOrderPackets'[e], nackList[e] \ {p.seq})
              /\ \A f \in End \ {e} : /\ nackList'[f] = nackList[f]
                                      /\ outOfOrderPackets'[f] = outOfOrderPackets[f]
              /\ UNCHANGED <<sentLog, recvLog>>
<1> DEFINE q == Peer(e)
           n == Len(recvLog[e])
           N == Top[q]
           ooo == [s \in DOMAIN outOfOrderPackets[e] \cup {p.seq} |->
                     IF s = p.seq THEN p.pay ELSE outOfOrderPackets[e][s]]
<1>1. /\ p.seq # recvSeq[e] /\ ~seqLessThan(p.seq, recvSeq[e])
      /\ outOfOrderPackets' = [outOfOrderPackets EXCEPT ![e] = ooo]
      /\ nackList' = [nackList EXCEPT ![e] =
            (nackList[e] \ {p.seq}) \cup Missing(e, p.seq, ooo, nackList[e] \ {p.seq})]
      /\ UNCHANGED <<sentLog, recvLog>>
  BY DEF handleOutOfOrder, isNext, histVars, removeFromNACKList
<1>2. TypeInv /\ TypeOK /\ CountInv /\ SeqInv /\ ReachInv /\ NetHonest
  BY DEF NumberInv, TypeInv
<1>3. DOMAIN outOfOrderPackets = End /\ DOMAIN nackList = End
  BY <1>2 DEF TypeOK, RecvType
<1>4. /\ q \in End /\ recvSeq[e] = Num(q, n + 1) /\ n <= N /\ n \in Nat /\ N \in Nat
      /\ N + 2 <= Half /\ Half + 2 <= SeqSpace /\ Half \in Nat /\ SeqSpace \in Nat
  BY <1>2, PeerType, LogBounds DEF SeqInv, ReachInv
<1>5. PICK j \in 1 .. N : p.seq = Num(q, j)
  BY <1>2 DEF NetHonest, Honest
<1> HIDE DEF q, n, N
<1>6. j \in 0 .. Half - 1 /\ n + 1 \in 0 .. Half - 1 /\ j \in 0 .. SeqSpace - 1
      /\ n + 1 \in 0 .. SeqSpace - 1 /\ j \in Nat
  BY <1>4
<1>7. n + 1 < j
  <2>1. seqLessThanOrEqual(Num(q, j), Num(q, n + 1)) <=> j <= n + 1
    BY <1>4, <1>6, NumFacts
  <2>2. ~seqLessThanOrEqual(Num(q, j), Num(q, n + 1))
    BY <1>1, <1>4, <1>5 DEF seqLessThanOrEqual
  <2> QED BY <1>4, <1>6, <2>1, <2>2
<1>8. seqDiff(Num(q, n + 1), Num(q, j)) = j - (n + 1)
  <2> DEFINE d == j - (n + 1)
  <2>1. d \in Nat /\ d \in 0 .. SeqSpace - 1 /\ n + 1 \in Nat /\ n + 1 + d = j /\ j < SeqSpace
    BY <1>4, <1>6, <1>7
  <2> HIDE DEF d
  <2>2. seqAdd(Num(q, n + 1), d) = Num(q, j) /\ Num(q, n + 1) \in SeqNums
    BY <1>4, <1>6, <2>1, NumFacts
  <2>3. seqDiff(Num(q, n + 1), seqAdd(Num(q, n + 1), d)) = d
    BY <2>1, <2>2, SeqDiffOfAdd
  <2> QED BY <2>2, <2>3 DEF d
<1> HIDE DEF ooo
<1>9. /\ outOfOrderPackets'[e] = ooo
      /\ nackList'[e] = (nackList[e] \ {p.seq})
            \cup Missing(e, p.seq, ooo, nackList[e] \ {p.seq})
      /\ \A f \in End \ {e} : /\ nackList'[f] = nackList[f]
                              /\ outOfOrderPackets'[f] = outOfOrderPackets[f]
  BY <1>1, <1>3
<1>10. DOMAIN ooo = DOMAIN outOfOrderPackets[e] \cup {p.seq}
  BY DEF ooo
<1>11. seqDiff(recvSeq[e], p.seq) = j - (n + 1)
  BY <1>4, <1>5, <1>8
<1> QED BY <1>1, <1>5, <1>7, <1>9, <1>10, <1>11 DEF q, n, N

\* updateNACKListLocked adds numbers below the packet that arrived, none of them
\* accepted or buffered.
LEMMA MissingIsMissing ==
    ASSUME NumberInv, NEW e \in End, NEW j \in 1 .. Top[Peer(e)], NEW s, NEW ooo, NEW nacks,
           NEW x \in Missing(e, s, ooo, nacks),
           seqDiff(recvSeq[e], s) = j - (Len(recvLog[e]) + 1), Len(recvLog[e]) + 1 < j
    PROVE  /\ x \notin DOMAIN ooo /\ x \notin nacks
           /\ Len(recvLog[e]) < SeqIndex(Peer(e), x) /\ SeqIndex(Peer(e), x) < j
<1> DEFINE q == Peer(e)
           n == Len(recvLog[e])
<1>1. PICK i \in 0 .. j - (n + 1) - 1 :
          x = seqAdd(recvSeq[e], i) /\ seqAdd(recvSeq[e], i) \notin DOMAIN ooo \cup nacks
  <2> DEFINE gap == seqDiff(recvSeq[e], s)
             scan == IF gap > MaxNACKs THEN MaxNACKs ELSE gap
  <2>1. PICK i \in 0 .. scan - 1 :
          x = seqAdd(recvSeq[e], i) /\ seqAdd(recvSeq[e], i) \notin DOMAIN ooo \cup nacks
    BY DEF Missing
  <2>2. gap = j - (n + 1)
    OBVIOUS
  <2>3. n \in Nat /\ j \in Nat /\ MaxNACKs \in Nat
    BY LogBounds, PeerType, ConstantsAssumption DEF NumberInv
  <2> HIDE DEF n, gap
  <2>4. i \in 0 .. j - (n + 1) - 1
    BY <2>2, <2>3
  <2> QED BY <2>1, <2>4 DEF n
<1>2. /\ q \in End /\ recvSeq[e] = Num(q, n + 1) /\ n \in Nat /\ Top[q] \in Nat
      /\ Top[q] + 2 <= Half /\ Half + 2 <= SeqSpace /\ Half \in Nat /\ SeqSpace \in Nat
  BY PeerType, LogBounds DEF NumberInv, SeqInv
<1> HIDE DEF n
<1>3. i \in Nat /\ n + 1 \in Nat /\ n + 1 + i < SeqSpace /\ n + 1 + i \in 0 .. SeqSpace - 1
      /\ n + 1 + i < j /\ n < n + 1 + i
  <2>1. j \in Nat /\ j <= Top[q]
    BY <1>2
  <2> HIDE DEF q
  <2>2. i \in Nat /\ i < j - (n + 1)
    BY <1>1, <1>2, <2>1
  <2>3. n + 1 + i < j /\ n < n + 1 + i
    BY <1>2, <2>1, <2>2
  <2>4. j < SeqSpace
    BY <1>2, <2>1
  <2>5. n + 1 \in Nat /\ n + 1 + i < SeqSpace
    BY <1>2, <2>1, <2>2, <2>3, <2>4
  <2>6. n + 1 + i \in 0 .. SeqSpace - 1
    BY <1>2, <2>2, <2>5
  <2> QED BY <2>2, <2>3, <2>5, <2>6
<1>4. x = Num(q, n + 1 + i)
  BY <1>1, <1>2, <1>3, NumFacts
<1>5. SeqIndex(q, x) = n + 1 + i
  BY <1>2, <1>3, <1>4, IndexFacts
<1> QED BY <1>1, <1>3, <1>5 DEF n

\* Accepting packets keeps the list sound: what is dropped from it is what is accepted.
LEMMA AdvanceKeepsSound ==
    ASSUME NumberInv, NumberInv', NackSound, NEW e \in End, AdvanceStep(e)
    PROVE  NackSound'
<1> SUFFICES ASSUME NEW f \in End, NEW s \in nackList'[f]
             PROVE  /\ s \notin DOMAIN outOfOrderPackets'[f]
                    /\ SeqIndex(Peer(f), s) > Len(recvLog'[f])
                    /\ \E t \in DOMAIN outOfOrderPackets'[f] :
                          SeqIndex(Peer(f), s) < SeqIndex(Peer(f), t)
  BY DEF NackSound, SeqIndex
<1>1. CASE f # e
  BY <1>1 DEF AdvanceStep, NackSound
<1>2. CASE f = e
  <2>1. s \in nackList[e] /\ s \notin Past(e) /\ s \in SeqNums /\ Peer(e) \in End
    BY <1>2, PeerType DEF AdvanceStep, NumberInv, TypeInv, TypeOK, RecvType
  <2>2. s \notin DOMAIN outOfOrderPackets[e] /\ SeqIndex(Peer(e), s) > Len(recvLog[e])
    BY <2>1 DEF NackSound
  <2>3. PICK t \in DOMAIN outOfOrderPackets[e] : SeqIndex(Peer(e), s) < SeqIndex(Peer(e), t)
    BY <2>1 DEF NackSound
  <2>4. /\ t \in SeqNums /\ Len(recvLog[e]) \in Nat /\ Len(recvLog'[e]) \in Nat
        /\ SeqIndex(Peer(e), s) \in Nat /\ SeqIndex(Peer(e), t) \in Nat
    <3>1. t \in SeqNums
      BY DEF NumberInv, TypeInv, TypeOK, RecvType
    <3>2. Len(recvLog[e]) \in Nat /\ Len(recvLog'[e]) \in Nat
      BY LogBounds, LogBoundsNext DEF NumberInv
    <3>3. SeqSpace \in Nat
      BY SeqSpaceAssumption
    <3> QED BY <2>1, <3>1, <3>2, <3>3, IndexFacts
  <2>5. SeqIndex(Peer(e), s) > Len(recvLog'[e])
    BY <2>1, <2>2, <2>4 DEF Past
  <2>6. t \notin Past(e)
    BY <2>3, <2>4, <2>5 DEF Past
  <2>7. t \in DOMAIN outOfOrderPackets'[e] /\ s \notin DOMAIN outOfOrderPackets'[e]
    BY <2>2, <2>6 DEF AdvanceStep
  <2> QED BY <1>2, <2>3, <2>5, <2>7
<1> QED BY <1>1, <1>2

\* So does buffering a packet: the numbers added lie below it.
LEMMA OutOfOrderKeepsSound ==
    ASSUME NumberInv, NackSound, NEW e \in End, NEW p \in network, p.src = Peer(e),
           p.pay # NoPayload, handleOutOfOrder(e, p)
    PROVE  NackSound'
<1>1. PICK j \in 1 .. Top[Peer(e)] :
              /\ p.seq = Num(Peer(e), j) /\ Len(recvLog[e]) + 1 < j
              /\ seqDiff(recvSeq[e], p.seq) = j - (Len(recvLog[e]) + 1)
              /\ DOMAIN outOfOrderPackets'[e] = DOMAIN outOfOrderPackets[e] \cup {p.seq}
              /\ nackList'[e] = (nackList[e] \ {p.seq})
                    \cup Missing(e, p.seq, outOfOrderPackets'[e], nackList[e] \ {p.seq})
              /\ \A f \in End \ {e} : /\ nackList'[f] = nackList[f]
                                      /\ outOfOrderPackets'[f] = outOfOrderPackets[f]
              /\ UNCHANGED <<sentLog, recvLog>>
  BY OutOfOrderEffect
<1> SUFFICES ASSUME NEW f \in End, NEW s \in nackList'[f]
             PROVE  /\ s \notin DOMAIN outOfOrderPackets'[f]
                    /\ SeqIndex(Peer(f), s) > Len(recvLog'[f])
                    /\ \E t \in DOMAIN outOfOrderPackets'[f] :
                          SeqIndex(Peer(f), s) < SeqIndex(Peer(f), t)
  BY DEF NackSound, SeqIndex
<1>2. CASE f # e
  BY <1>1, <1>2 DEF NackSound
<1>3. CASE f = e /\ s \in nackList[e] \ {p.seq}
  BY <1>1, <1>3 DEF NackSound
<1>4. CASE f = e /\ s \in Missing(e, p.seq, outOfOrderPackets'[e], nackList[e] \ {p.seq})
  <2>1. /\ s \notin DOMAIN outOfOrderPackets'[e] /\ Len(recvLog[e]) < SeqIndex(Peer(e), s)
        /\ SeqIndex(Peer(e), s) < j
    BY <1>1, <1>4, MissingIsMissing
  <2>2. SeqIndex(Peer(e), p.seq) = j
    <3>1. j \in 0 .. SeqSpace - 1 /\ Peer(e) \in End
      BY LogBounds, PeerType DEF NumberInv
    <3> QED BY <1>1, <3>1, IndexFacts
  <2>3. Len(recvLog[e]) \in Nat /\ Len(recvLog'[e]) = Len(recvLog[e])
    BY <1>1, LogBounds DEF NumberInv
  <2>4. SeqIndex(Peer(e), s) > Len(recvLog'[e])
    BY <2>1, <2>3
  <2> QED BY <1>1, <1>4, <2>1, <2>2, <2>4
<1> QED BY <1>1, <1>2, <1>3, <1>4

\* What a step may do to the receiver's structures.
LEMMA ReceiverShapes ==
    ASSUME NumberInv, NumberInv', [Next]_vars
    PROVE  \/ UNCHANGED <<recvVars, recvLog>>
           \/ \E e \in End :
                 \/ AdvanceStep(e)
                 \/ \E p \in network : /\ p.src = Peer(e) /\ p.pay # NoPayload
                                       /\ handleOutOfOrder(e, p)
<1>1. TypeInv
  BY DEF NumberInv
<1> QED BY <1>1, ReceiverSteps, InSequenceAdvances, ReadAdvances

\* A NACK asks for a packet that is really missing: the removals scattered over the
\* handlers and Read and the scan of updateNACKListLocked keep the list exact.
THEOREM NackCorrect == Spec => []NackSound
<1>1. Init => NackSound
  BY DEF Init, NackSound
<1>2. NumberInv /\ NumberInv' /\ NackSound /\ [Next]_vars => NackSound'
  <2> SUFFICES ASSUME NumberInv, NumberInv', NackSound, [Next]_vars PROVE NackSound'
    OBVIOUS
  <2>1. CASE UNCHANGED <<recvVars, recvLog>>
    BY <2>1 DEF NackSound, recvVars, SeqIndex
  <2> QED BY <2>1, ReceiverShapes, AdvanceKeepsSound, OutOfOrderKeepsSound
<1> QED BY <1>1, <1>2, NumberInvariance, PTL DEF Spec

===============================================================================
