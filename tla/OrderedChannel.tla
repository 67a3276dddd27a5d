---------------------------- MODULE OrderedChannel ----------------------------
(***************************************************************************)
(* What a stream connection promises, in each of its two directions: the   *)
(* packets a side accepts are the packets its peer sent, in the order in   *)
(* which they were sent, none invented, repeated or skipped.  One step may *)
(* accept several packets (an arrival that fills a gap releases the run    *)
(* buffered behind it).  No protocol, no sequence numbers, no loss.        *)
(***************************************************************************)
EXTENDS Integers, Sequences

CONSTANTS Ends,        \* the two ends of the channel
          Other(_),    \* the end opposite to an end
          Payloads     \* what a packet may carry

VARIABLES sent,        \* sent[e]: payloads end e has sent, in order
          rcvd         \* rcvd[e]: payloads end e has accepted, in order

Init == /\ sent = [e \in Ends |-> <<>>]
        /\ rcvd = [e \in Ends |-> <<>>]

Send(e) == /\ \E x \in Payloads : sent' = [sent EXCEPT ![e] = Append(@, x)]
           /\ UNCHANGED rcvd

Accept(e) == /\ \E n \in Len(rcvd[e]) + 1 .. Len(sent[Other(e)]) :
                   rcvd' = [rcvd EXCEPT ![e] = SubSeq(sent[Other(e)], 1, n)]
             /\ UNCHANGED sent

Next == \E e \in Ends : Send(e) \/ Accept(e)

Spec == Init /\ [][Next]_<<sent, rcvd>>
===============================================================================
