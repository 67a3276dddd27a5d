-------------------------------- MODULE SeqNum --------------------------------
(***************************************************************************)
(* Sequence-number arithmetic of go-streaming (stream.go).                 *)
(*                                                                         *)
(* The code keeps packet numbers in a uint32 and compares them through the *)
(* sign of the int32 difference.  SeqSpace stands for 2^32; every operator   *)
(* below is written with a case split instead of %, which gives the same   *)
(* value on 0..SeqSpace-1 and keeps the definitions within linear arithmetic.*)
(***************************************************************************)
EXTENDS Integers

CONSTANT SeqSpace      \* size of the sequence space (2^32 in the code)

ASSUME SeqSpaceAssumption == SeqSpace \in Nat /\ SeqSpace >= 4 /\ SeqSpace % 2 = 0

SeqNums == 0 .. SeqSpace - 1

\* Half of the space: the weight of the sign bit of int32(a - b).
Half == SeqSpace \div 2

\* uint32 subtraction: how far b lies ahead of a, modulo the space.
seqDiff(a, b) == IF b >= a THEN b - a ELSE b - a + SeqSpace

\* Slip: sequence numbers compared as plain integers.
seqLessThanPlain(a, b) == a < b

\* int32(a - b) < 0: the sign bit of the difference is set.
seqLessThan(a, b) == seqDiff(b, a) >= Half

seqLessThanOrEqual(a, b) == a = b \/ seqLessThan(a, b)

\* Slip: any other number counts as greater.
seqGreaterThanAny(a, b) == a # b

\* int32(a - b) > 0.
seqGreaterThan(a, b) == seqDiff(b, a) > 0 /\ seqDiff(b, a) < Half

\* uint32 addition of a count below SeqSpace (s.recvSeq + i, s.sendSeq++).
seqAdd(a, k) == IF a + k >= SeqSpace THEN a + k - SeqSpace ELSE a + k

\* s.recvSeq - 1: the highest packet received in order.
seqPrev(a) == IF a = 0 THEN SeqSpace - 1 ELSE a - 1
===============================================================================
