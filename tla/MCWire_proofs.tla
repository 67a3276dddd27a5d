---------------------------- MODULE MCWire_proofs -----------------------------
(***************************************************************************)
(* The comparison of sequence numbers agrees with machine arithmetic, and  *)
(* orders numbers as they were sent, for every even size of the space: for *)
(* the 2^32 of the code as for the small space of the run wire.            *)
(***************************************************************************)
EXTENDS MCWire, TLAPS

\* Half is half of the space.
LEMMA HalfOfSpace == SeqSpace \in Nat /\ Half \in Nat /\ 2 * Half = SeqSpace /\ Half >= 2
BY SeqSpaceAssumption DEF Half

\* The numbers compared stay numbers of the space.
NumbersInv == a \in SeqNums /\ b \in SeqNums

\* b moves by seqAdd, which wraps at the end of the space; nothing else moves them.
LEMMA NumbersKept == Spec => []NumbersInv
<1>1. Init => NumbersInv
  BY HalfOfSpace DEF Init, NumbersInv, SeqNums
<1>2. NumbersInv /\ [Next]_vars => NumbersInv'
  BY HalfOfSpace
     DEF Next, vars, Advance, Sign, Send, Cut, Receive, NumbersInv, SeqNums, seqAdd
<1> QED
  BY <1>1, <1>2, PTL DEF Spec

\* The case splits of SeqNum are the remainders of the reference definition.
LEMMA RemainderSplit ==
    ASSUME NEW x \in SeqNums, NEW y \in SeqNums
    PROVE  (x - y) % SeqSpace = seqDiff(y, x)
BY HalfOfSpace DEF SeqNums, seqDiff

\* seqLessThan, seqGreaterThan, seqDiff and seqPrev compute what 32-bit arithmetic
\* computes, for every pair of numbers of every space (stream.go 84-125).
THEOREM MachineArithmetic == Spec => []MatchesMachineArithmetic
<1>1. NumbersInv => MatchesMachineArithmetic
  <2> SUFFICES ASSUME a \in SeqNums, b \in SeqNums PROVE MatchesMachineArithmetic
    BY DEF NumbersInv
  <2>1. (a - b) % SeqSpace = seqDiff(b, a) /\ (b - a) % SeqSpace = seqDiff(a, b)
    BY RemainderSplit
  <2>2. seqPrev(a) = (a - 1) % SeqSpace
    BY HalfOfSpace DEF SeqNums, seqPrev
  <2>3. seqDiff(b, a) \in 0 .. SeqSpace - 1
    BY HalfOfSpace DEF SeqNums, seqDiff
  <2>4. seqLessThan(a, b) <=> RefLess(a, b)
    BY <2>1, <2>3, HalfOfSpace DEF seqLessThan, RefLess, AsSigned
  <2>5. seqGreaterThan(a, b) <=> RefGreater(a, b)
    BY <2>1, <2>3, HalfOfSpace DEF seqGreaterThan, RefGreater, AsSigned
  <2> QED
    BY <2>1, <2>2, <2>4, <2>5 DEF MatchesMachineArithmetic
<1> QED
  BY <1>1, NumbersKept, PTL

\* Numbers less than half the space apart are ordered as they were sent, across the
\* wrap too, and at exactly half each is less than the other (stream.go 84-125).
THEOREM OrderedWithinHalf == Spec => []OrderWithinHalf
<1>1. NumbersInv => OrderWithinHalf
  <2> SUFFICES ASSUME a \in SeqNums, b \in SeqNums PROVE OrderWithinHalf
    BY DEF NumbersInv
  <2>1. a # b => seqDiff(b, a) = SeqSpace - seqDiff(a, b)
    BY HalfOfSpace DEF SeqNums, seqDiff
  <2>2. seqDiff(a, b) \in 0 .. SeqSpace - 1 /\ (a = b => seqDiff(a, b) = 0)
    BY HalfOfSpace DEF SeqNums, seqDiff
  <2> QED
    BY <2>1, <2>2, HalfOfSpace DEF OrderWithinHalf, seqLessThan, seqGreaterThan
<1> QED
  BY <1>1, NumbersKept, PTL
===============================================================================
