------------------------------ MODULE PacketCodec ------------------------------
(***************************************************************************)
(* Packets on the wire: Marshal, Unmarshal, and the signature over the     *)
(* marshalled bytes (packet.go, crypto.go).                                *)
(*                                                                         *)
(* Bytes are abstracted to fields: data is a sequence of fields, each with *)
(* its length and its value, of which the first data.len bytes have        *)
(* arrived.  The parser sees bytes, not fields: it reads at an offset of   *)
(* its own, and gets the value only where a field of that length begins.   *)
(* Lengths are those of the code, values are what the sender put there.    *)
(***************************************************************************)
EXTENDS Integers, Sequences, SequencesExt, FiniteSetsExt

CONSTANTS
    Nil,                 \* a nil pointer, an empty slice, a field that is not set
    Zeros,               \* bytes that are all zero
    Garbage              \* what is read across the borders of fields

Flag == {"DELAY", "FROM", "MAXSIZE", "OFFLINE", "SIGNATURE"}
------------------------------------------------------------------------------
(* Lengths *)

\* A destination is its certificate: NULL, KEY with a signature type, or another;
\* 256 + 128 bytes of keys come before it.
Destination == [cert : {"NULL", "OTHER"}, type : {0}] \cup [cert : {"KEY"}, type : 0 .. 9]

destLen(d) == 256 + 128 + (IF d.cert = "KEY" THEN 7 ELSE 3)

parseSignatureTypeFromBytes(d) ==
    CASE d.cert = "NULL" -> 0 [] d.cert = "KEY" -> d.type [] OTHER -> 7

SigLengths == <<40, 64, 96, 132, 256, 384, 512, 64, 64>>
KeyLengths == <<128, 64, 96, 132, 256, 384, 512, 32, 32>>

getSignatureLength(d) ==
    IF d = Nil THEN 0
    ELSE LET t == parseSignatureTypeFromBytes(d) IN
         IF t \in 0 .. 8 THEN SigLengths[t + 1] ELSE 64

getPublicKeyLength(t) == IF t \in 0 .. 8 THEN KeyLengths[t + 1] ELSE 0

calculateOfflineSignatureSize(p) ==
    IF "OFFLINE" \in p.flags
    THEN 4 + 2 + getPublicKeyLength(p.offline.type) + getSignatureLength(p.from)
    ELSE 0

\* The sum is kept in a uint16.
calculateTotalOptionSize(p) ==
    ((IF "DELAY" \in p.flags THEN 2 ELSE 0)
     + (IF "MAXSIZE" \in p.flags THEN 2 ELSE 0)
     + (IF "FROM" \in p.flags THEN destLen(p.from) ELSE 0)
     + (IF "SIGNATURE" \in p.flags THEN getSignatureLength(p.from) ELSE 0)
     + calculateOfflineSignatureSize(p)) % 65536

\* calculateOptionSizes: what a flag announces has to be there.
OptionsPresent(p) ==
    /\ "FROM" \in p.flags => p.from # Nil
    /\ "SIGNATURE" \in p.flags => getSignatureLength(p.from) # 0
    /\ "OFFLINE" \in p.flags => p.offline # Nil

\* marshalNACKs, marshalOfflineSignature, marshalSignature: lengths must agree.
LengthsAgree(p) ==
    /\ p.nacks <= 255
    /\ "OFFLINE" \in p.flags =>
          /\ p.offline.keyLen = getPublicKeyLength(p.offline.type)
          /\ p.offline.sigLen = getSignatureLength(p.from)
    /\ "SIGNATURE" \in p.flags /\ p.signature # Nil =>
          p.signature.len = getSignatureLength(p.from)
------------------------------------------------------------------------------
(* Marshal *)

F(name, len, val) == <<[name |-> name, len |-> len, val |-> val]>>

If(c, fields) == IF c THEN fields ELSE <<>>

\* Zeros reserve the space of a signature that is still to be made.
marshalSignature(p) ==
    F("signature", getSignatureLength(p.from),
      IF p.signature = Nil THEN Zeros ELSE p.signature)

marshalOfflineSignature(p) ==
    F("expires", 4, p.offline.expires) \o F("sigtype", 2, p.offline.type)
    \o F("key", p.offline.keyLen, "key") \o F("destsig", p.offline.sigLen, "destsig")

\* Slip: the signature comes before the offline signature.
marshalOptionsSwapped(p) ==
    If("DELAY" \in p.flags, F("delay", 2, p.delay))
    \o If("FROM" \in p.flags, F("from", destLen(p.from), p.from))
    \o If("MAXSIZE" \in p.flags, F("maxsize", 2, p.maxsize))
    \o If("SIGNATURE" \in p.flags, marshalSignature(p))
    \o If("OFFLINE" \in p.flags, marshalOfflineSignature(p))

\* marshalPacketBody: DELAY, FROM, MAX_PACKET_SIZE, OFFLINE_SIGNATURE, SIGNATURE.
marshalOptions(p) ==
    If("DELAY" \in p.flags, F("delay", 2, p.delay))
    \o If("FROM" \in p.flags, F("from", destLen(p.from), p.from))
    \o If("MAXSIZE" \in p.flags, F("maxsize", 2, p.maxsize))
    \o If("OFFLINE" \in p.flags, marshalOfflineSignature(p))
    \o If("SIGNATURE" \in p.flags, marshalSignature(p))

MarshalFields(p) ==
    F("required", 16, p.ids)
    \o F("nackCount", 1, p.nacks) \o F("nacks", 4 * p.nacks, "nacks")
    \o F("resendDelay", 1, p.resendDelay)
    \o F("flags", 2, p.flags) \o F("optionSize", 2, calculateTotalOptionSize(p))
    \o marshalOptions(p)
    \o F("payload", p.payload, "payload")

TotalLen(fields) == FoldLeft(LAMBDA n, f : n + f.len, 0, fields)

Error == [error |-> TRUE]

\* Empty fields leave nothing on the wire.
Marshal(p) ==
    IF OptionsPresent(p) /\ LengthsAgree(p)
    THEN LET fields == SelectSeq(MarshalFields(p), LAMBDA f : f.len > 0)
         IN [error |-> FALSE, fields |-> fields, len |-> TotalLen(fields)]
    ELSE Error
------------------------------------------------------------------------------
(* Unmarshal *)

FieldStart(data, i) == TotalLen(SubSeq(data.fields, 1, i - 1))

\* The n bytes at offset off: the value of the field they are, if they are one.
Read(data, off, n) ==
    LET at == {i \in DOMAIN data.fields : FieldStart(data, i) = off /\ data.fields[i].len = n}
    IN IF at = {} THEN Garbage ELSE data.fields[CHOOSE i \in at : TRUE].val

EmptyPacket ==
    [ids |-> Nil, nacks |-> 0, resendDelay |-> Nil, flags |-> {}, delay |-> Nil,
     from |-> Nil, maxsize |-> Nil, offline |-> Nil, signature |-> Nil, payload |-> 0]

\* The parser: its result so far ("ok", "error", or "panic" where an index is out of
\* range), the offset it has reached, the end of the options, the packet.
Parser(st, off, end, pkt) == [st |-> st, off |-> off, end |-> end, pkt |-> pkt]
Fail(s) == [s EXCEPT !.st = "error"]

\* The count of NACKs, and the offset after them if they are all there.
unmarshalNACKs(data) ==
    LET nacks == Read(data, 16, 1)
        off == 17 + 4 * nacks
    IN [nacks |-> nacks, off |-> off, error |-> nacks > 0 /\ data.len < off]

\* Required fields, NACKs, resend delay, flags and option size.  Only the 22 bytes of
\* a header without NACKs, and the NACKs themselves, are known to be there.
unmarshalHeader(data) ==
    LET n == unmarshalNACKs(data)
        off == n.off
        end == off + 5 + Read(data, off + 3, 2)
        pkt == [EmptyPacket EXCEPT !.ids = Read(data, 0, 16), !.nacks = n.nacks,
                    !.resendDelay = Read(data, off, 1), !.flags = Read(data, off + 1, 2)]
    IN CASE n.error -> Parser("error", 17, 0, EmptyPacket)
         [] ~n.error /\ data.len < off + 5 -> Parser("panic", off, 0, EmptyPacket)
         [] data.len >= off + 5 /\ data.len < end -> Parser("error", off + 5, end, pkt)
         [] OTHER -> Parser("ok", off + 5, end, pkt)

Parsing(s, flag) == s.st = "ok" /\ flag \in s.pkt.flags

\* unmarshalOptionalDelay, unmarshalMaxPacketSize
unmarshalUint16(data, s, flag, name) ==
    IF ~Parsing(s, flag) THEN s
    ELSE IF s.off + 2 > s.end THEN Fail(s)
    ELSE [s EXCEPT !.pkt[name] = Read(data, s.off, 2), !.off = @ + 2]

\* The destination tells its own length; it is encoded again to count it.
unmarshalFromDestination(data, s) ==
    IF ~Parsing(s, "FROM") THEN s
    ELSE LET at == {i \in DOMAIN data.fields : FieldStart(data, i) = s.off
                                                /\ data.fields[i].name = "from"}
             dest == data.fields[CHOOSE i \in at : TRUE].val
         IN IF s.off >= s.end \/ at = {} \/ s.off + destLen(dest) > s.end THEN Fail(s)
            ELSE [s EXCEPT !.pkt.from = dest, !.off = @ + destLen(dest)]

unmarshalOfflineSignature(data, s) ==
    IF ~Parsing(s, "OFFLINE") THEN s
    ELSE LET type == Read(data, s.off + 4, 2)
             keyLen == getPublicKeyLength(type)
             sigLen == getSignatureLength(s.pkt.from)
             len == 6 + keyLen + sigLen
         IN IF s.off + 6 > s.end \/ keyLen = 0 \/ sigLen = 0 \/ s.off + len > s.end
            THEN Fail(s)
            ELSE [s EXCEPT !.pkt.offline = [expires |-> Read(data, s.off, 4), type |-> type,
                                            keyLen |-> keyLen, sigLen |-> sigLen],
                           !.off = @ + len]

unmarshalSignature(data, s) ==
    IF ~Parsing(s, "SIGNATURE") THEN s
    ELSE LET sigLen == getSignatureLength(s.pkt.from)
         IN IF sigLen = 0 \/ s.off + sigLen > s.end THEN Fail(s)
            ELSE [s EXCEPT !.pkt.signature = Read(data, s.off, sigLen), !.off = @ + sigLen]

unmarshalOptions(data, s0) ==
    LET s1 == unmarshalUint16(data, s0, "DELAY", "delay")
        s2 == unmarshalFromDestination(data, s1)
        s3 == unmarshalUint16(data, s2, "MAXSIZE", "maxsize")
        s4 == unmarshalOfflineSignature(data, s3)
    IN unmarshalSignature(data, s4)

Unmarshal(data) ==
    IF data.len < 22 THEN Parser("error", 0, 0, EmptyPacket)
    ELSE LET s == unmarshalOptions(data, unmarshalHeader(data))
         IN IF s.st = "ok" THEN [s EXCEPT !.pkt.payload = data.len - s.end] ELSE s
------------------------------------------------------------------------------
(* SignPacket, VerifyPacketSignature *)

\* Slip: the NACKs before the options are forgotten.
findSignatureOffsetNoNacks(p) ==
    22 + (IF "DELAY" \in p.flags THEN 2 ELSE 0)
       + (IF "FROM" \in p.flags /\ p.from # Nil THEN destLen(p.from) ELSE 0)
       + (IF "MAXSIZE" \in p.flags THEN 2 ELSE 0)
       + (IF p.offline = Nil THEN 0 ELSE calculateOfflineSignatureSize(p))

\* Computed from the packet, not from the marshalled bytes.
findSignatureOffset(p) ==
    22 + 4 * p.nacks
       + (IF "DELAY" \in p.flags THEN 2 ELSE 0)
       + (IF "FROM" \in p.flags /\ p.from # Nil THEN destLen(p.from) ELSE 0)
       + (IF "MAXSIZE" \in p.flags THEN 2 ELSE 0)
       + (IF p.offline = Nil THEN 0 ELSE calculateOfflineSignatureSize(p))

\* n bytes from off are zeroed: a field they touch is lost.
Zero(data, off, n) ==
    [data EXCEPT !.fields = [i \in DOMAIN data.fields |->
        IF FieldStart(data, i) < off + n /\ FieldStart(data, i) + data.fields[i].len > off
        THEN [data.fields[i] EXCEPT !.val = Zeros] ELSE data.fields[i]]]

\* prepareDataForSigning, marshalWithZeroedSignature
ZeroedSignature(p, sigLen) ==
    LET data == Marshal(p)
        off == findSignatureOffset(p)
    IN IF data.error \/ off + sigLen > data.len THEN Error ELSE Zero(data, off, sigLen)

\* keyPair.Sign makes 64 bytes; a signature is what it was made over.
SignPacket(p) ==
    LET sigLen == getSignatureLength(p.from)
        data == ZeroedSignature(p, sigLen)
    IN IF p.from = Nil \/ "SIGNATURE" \notin p.flags \/ data.error \/ sigLen # 64 THEN p
       ELSE [p EXCEPT !.signature = [len |-> 64, over |-> data]]

Signed(p) == p.signature \notin {Nil, Zeros}

\* Slip: the signature is still in the bytes that are verified.
VerifyPacketSignatureInPlace(p) ==
    /\ p.from # Nil /\ p.signature # Nil /\ "SIGNATURE" \in p.flags
    /\ Signed(p) /\ p.signature.over = Marshal(p)

\* The length is the signature's own; Marshal fails if the destination has another.
VerifyPacketSignature(p) ==
    /\ p.from # Nil /\ p.signature # Nil /\ "SIGNATURE" \in p.flags
    /\ Signed(p)
    /\ LET data == ZeroedSignature(p, p.signature.len)
       IN ~data.error /\ p.signature.over = data
===============================================================================
