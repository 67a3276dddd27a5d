------------------------------ MODULE MCListener ------------------------------
(* Constants of the model-checked instances of Listener. *)
EXTENDS Listener, TLC

Lengths == [w \in Windows |-> CASE w = "minute" -> 1 [] w = "hour" -> 2
                                [] w = "day" -> 3]

Off == [w \in Windows |-> 0]
Limit(s, total, peer) == [streams |-> s, total |-> total, peer |-> peer]
Per(m, h, d) == [w \in Windows |-> CASE w = "minute" -> m [] w = "hour" -> h
                                     [] w = "day" -> d]

Unlimited == Limit(-1, Off, Off)
\* Total and per-peer limits, switched on and off at run time.
RateConfigs == {Unlimited, Limit(0, Per(0, 2, 3), Per(1, 0, 2))}
\* At most two streams at a time, no rate limit.
TwoStreams == {Limit(2, Off, Off)}
OneStream == {Limit(1, Off, Off)}

PeerSymmetry == Permutations(Peers)
===============================================================================
