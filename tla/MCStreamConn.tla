----------------------------- MODULE MCStreamConn -----------------------------
(* Constants of the model-checked instances of StreamConn. *)
EXTENDS StreamConn

\* Initial sequence numbers away from the ends of the sequence space.
MidISN == [e \in End |-> IF e = "client" THEN 2 ELSE 7]
\* The client's numbers run from the last of the space over zero.
WrapISN == [e \in End |-> IF e = "client" THEN SeqSpace - 3 ELSE 7]

ClientSends(n) == [e \in End |-> IF e = "client" THEN n ELSE 0]
ClientSends2 == ClientSends(2)
ClientSends3 == ClientSends(3)
ClientSends4 == ClientSends(4)
ClientSends5 == ClientSends(5)
BothSend(m, n) == [e \in End |-> IF e = "client" THEN m ELSE n]
BothSend2And1 == BothSend(2, 1)
BothSend2 == BothSend(2, 2)
===============================================================================
