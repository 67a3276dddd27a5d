-------------------------------- MODULE MCWire --------------------------------
(***************************************************************************)
(* The pure parts of the wire format on bounded inputs: the comparison of  *)
(* sequence numbers on every pair of a small space, against a reference    *)
(* definition, and the way of one packet through SignPacket, Marshal, a    *)
(* network that may cut it short, and Unmarshal.                           *)
(***************************************************************************)
EXTENDS SeqNum, PacketCodec

VARIABLES
    a, b,                \* a sequence number, and the one compared with it
    phase,               \* "numbers", or how far the packet is
    pkt,                 \* the packet as its sender has it
    wire,                \* its bytes
    got                  \* the parser's result

vars == <<a, b, phase, pkt, wire, got>>

Key(t) == [cert |-> "KEY", type |-> t]
Ed25519 == Key(7)
\* Destinations of both short and long certificates, short, long and unknown keys.
Dests == {Nil, [cert |-> "NULL", type |-> 0], Key(2), Key(9), Ed25519}
Offline(t, k, s) == [expires |-> "expires", type |-> t, keyLen |-> k, sigLen |-> s]
\* Fitting an Ed25519 or a P-384 destination, of an unknown type, of a wrong length.
Offlines == {Nil, Offline(7, 32, 64), Offline(3, 132, 96), Offline(9, 0, 64), Offline(7, 31, 64)}

Packets ==
    {[EmptyPacket EXCEPT !.ids = "ids", !.nacks = n, !.resendDelay = "rd", !.flags = fl,
         !.delay = "d", !.from = d, !.maxsize = "mtu", !.offline = o, !.payload = len] :
       n \in {0, 1, 8, 256}, fl \in SUBSET Flag, d \in Dests, o \in Offlines, len \in {0, 3}}

Init ==
    /\ got = Parser("ok", 0, 0, EmptyPacket) /\ wire = Error
    /\ \/ phase = "numbers" /\ a \in SeqNums /\ b = a /\ pkt = EmptyPacket
       \/ phase = "built" /\ a = 0 /\ b = 0 /\ pkt \in Packets

\* b moves ahead one packet at a time, around the whole space.
Advance == /\ phase = "numbers"
           /\ b' = seqAdd(b, 1)
           /\ UNCHANGED <<a, phase, pkt, wire, got>>

Sign == /\ phase = "built"
        /\ pkt' = SignPacket(pkt) /\ phase' = "signed"
        /\ UNCHANGED <<a, b, wire, got>>

Send == /\ phase \in {"built", "signed"}
        /\ wire' = Marshal(pkt) /\ ~Marshal(pkt).error /\ phase' = "sent"
        /\ UNCHANGED <<a, b, pkt, got>>

\* Bytes are missing at the end: cut at, or one byte after, the start of a field.
Cut == /\ phase = "sent"
       /\ \E i \in DOMAIN wire.fields, d \in {0, 1} :
             wire' = [wire EXCEPT !.len = FieldStart(wire, i) + d]
       /\ phase' = "cut"
       /\ UNCHANGED <<a, b, pkt, got>>

Receive == /\ phase \in {"sent", "cut"}
           /\ got' = Unmarshal(wire) /\ phase' = "received"
           /\ UNCHANGED <<a, b, pkt, wire>>

Next == Advance \/ Sign \/ Send \/ Cut \/ Receive
Spec == Init /\ [][Next]_vars
------------------------------------------------------------------------------
\* Reference: subtraction modulo the space and its two's complement reading.
AsSigned(x) == IF x >= Half THEN x - SeqSpace ELSE x
RefLess(x, y) == AsSigned((x - y) % SeqSpace) < 0
RefGreater(x, y) == AsSigned((x - y) % SeqSpace) > 0

\* seqLessThan and seqGreaterThan are the signs of the 32-bit difference, seqPrev
\* and seqAdd the 32-bit decrement and increment, over the whole space.
MatchesMachineArithmetic ==
    /\ seqLessThan(a, b) <=> RefLess(a, b)
    /\ seqGreaterThan(a, b) <=> RefGreater(a, b)
    /\ seqDiff(a, b) = (b - a) % SeqSpace
    /\ seqPrev(a) = (a - 1) % SeqSpace

\* Two numbers less than half the space apart are ordered as they were sent, also
\* across the wrap; exactly half apart each counts as less than the other.
OrderWithinHalf ==
    /\ seqDiff(a, b) \in 1 .. Half - 1 =>
          /\ seqLessThan(a, b) /\ ~seqLessThan(b, a)
          /\ seqGreaterThan(b, a) /\ ~seqGreaterThan(a, b)
    /\ seqDiff(a, b) = Half => seqLessThan(a, b) /\ seqLessThan(b, a)

\* What the receiver should see of packet p: the fields its flags announce.
Announced(p) ==
    [p EXCEPT !.delay = IF "DELAY" \in p.flags THEN @ ELSE Nil,
              !.from = IF "FROM" \in p.flags THEN @ ELSE Nil,
              !.maxsize = IF "MAXSIZE" \in p.flags THEN @ ELSE Nil,
              !.offline = IF "OFFLINE" \in p.flags THEN @ ELSE Nil,
              !.signature = IF "SIGNATURE" \notin p.flags THEN Nil
                            ELSE IF Signed(p) THEN @ ELSE Zeros]

\* The length of a signature can only be told from a destination in the packet, that
\* of a transient key from its type: nothing else that Marshal accepts is unreadable.
Readable(p) == /\ p.flags \cap {"SIGNATURE", "OFFLINE"} # {} => "FROM" \in p.flags
               /\ "OFFLINE" \in p.flags => p.offline.keyLen # 0

\* Unmarshal is "the inverse of Marshal()": a whole packet is read back field by field,
\* and of one that was cut nothing is taken but a shorter payload.
RoundTrip ==
    phase = "received" =>
      LET whole == wire.len = Marshal(pkt).len
          same == got.st = "ok"
                  /\ [got.pkt EXCEPT !.payload = 0] = [Announced(pkt) EXCEPT !.payload = 0]
      IN /\ got.st = "ok" => same /\ got.pkt.payload = wire.len - (Marshal(pkt).len - pkt.payload)
         /\ whole /\ Readable(pkt) => got.st = "ok"

\* A signed packet that arrives whole verifies, and the signature covers every byte
\* but its own: any packet that verifies is the one that was signed.
SignatureSurvives ==
    phase = "received" /\ Signed(pkt) /\ got.st = "ok" =>
        (VerifyPacketSignature(got.pkt) <=> got.pkt = Announced(pkt))

SignatureCovers ==
    phase = "signed" /\ Signed(pkt) =>
        \A i \in DOMAIN Marshal(pkt).fields :
           LET sent == Marshal(pkt).fields[i]
           IN sent.name = "signature" \/ pkt.signature.over.fields[i] = sent

\* "Returns an error if the data is too short or malformed" (Unmarshal): no input that
\* a network can make of a packet by cutting it brings the program down.
ShortIsError == got.st # "panic"
===============================================================================
