------------------------------- MODULE TcbCache -------------------------------
(***************************************************************************)
(* The cache of RTT and window per destination (tcb_cache.go), with the    *)
(* connections that fill it when they close and start from it when they    *)
(* open, and the RTT and RTO estimate they keep (stream.go).               *)
(*                                                                         *)
(* One destination: the entries of two do not meet.  Times are whole       *)
(* units, and Duration's truncation is \div.  Get takes the entry under    *)
(* the lock and reads its fields without it, while Put may change them.    *)
(***************************************************************************)
EXTENDS Integers, FiniteSets, Sequences, FiniteSetsExt

CONSTANTS
    TcbConns,            \* connections to the destination
    Rtts,                \* round trip times the connections may measure
    CwndEnds,             \* cwnd a connection may end with
    DefaultWindow, MaxWindow,
    MinRTO, MaxRTO, InitialRTO,
    EntryTTL,
    MaxSamples,          \* bound: measurements of a connection
    MaxClock             \* bound: the clock

ASSUME TcbAssumption ==
    /\ Rtts \subseteq Nat
    /\ MinRTO \in Nat /\ InitialRTO \in Nat /\ MaxRTO \in Nat /\ MaxWindow \in Nat
    /\ 0 < MinRTO /\ MinRTO <= InitialRTO /\ InitialRTO <= MaxRTO
    /\ CwndEnds \subseteq 1..MaxWindow /\ DefaultWindow \in 1..MaxWindow

VARIABLES
    clock,
    objects,             \* every tcbEntry made, in order
    cached,              \* entries[key]: index of the entry, or 0
    cacheEnabled,        \* config.Enabled
    tcb,                 \* connection -> its progress and estimate
    measured             \* history: every RTT measured

tcbVars == <<clock, objects, cached, cacheEnabled, tcb, measured>>

\* initializeStreamConn: srtt and its variance are 0 until something is known.
NewTcb == [at |-> "idle", obj |-> 0, gotRtt |-> 0, gotVar |-> 0, samples |-> 0,
           srtt |-> 0, rttVariance |-> 0, rto |-> InitialRTO,
           cwnd |-> DefaultWindow, ssthresh |-> MaxWindow]

TcbInit ==
    /\ clock = 0
    /\ objects = <<>>
    /\ cached = 0
    /\ cacheEnabled = TRUE
    /\ tcb = [c \in TcbConns |-> NewTcb]
    /\ measured = {}

Lowest(a, b) == IF a < b THEN a ELSE b
Highest(a, b) == IF a > b THEN a ELSE b
Clamp(rto) == Lowest(MaxRTO, Highest(MinRTO, rto))
Damp(v) == (3 * v) \div 4
Expired(e) == clock - e.lastUpdate > EntryTTL
------------------------------------------------------------------------------
(* Opening: Get, then applyTCBDataToConnection *)

\* Granularity is one unit.
calculateRTOFromValues(srtt, var) == Clamp(srtt + Highest(1, 4 * var))

TcbLookup(c) ==
    /\ tcb[c].at = "idle"
    /\ tcb' = [tcb EXCEPT ![c].at = IF cacheEnabled /\ cached # 0 THEN "looked" ELSE "open",
                          ![c].obj = IF cacheEnabled THEN cached ELSE 0]
    /\ UNCHANGED <<clock, objects, cached, cacheEnabled, measured>>

\* An expired entry is taken for a miss.
TcbCheckTTL(c) ==
    /\ tcb[c].at = "looked"
    /\ tcb' = [tcb EXCEPT ![c].at = IF Expired(objects[tcb[c].obj]) THEN "expired" ELSE "rtt"]
    /\ UNCHANGED <<clock, objects, cached, cacheEnabled, measured>>

\* The key is deleted under the lock, whatever entry it has by then.
TcbDelete(c) ==
    /\ tcb[c].at = "expired"
    /\ cached' = 0
    /\ tcb' = [tcb EXCEPT ![c].at = "open"]
    /\ UNCHANGED <<clock, objects, cacheEnabled, measured>>

TcbReadRtt(c) ==
    /\ tcb[c].at = "rtt"
    /\ tcb' = [tcb EXCEPT ![c].at = "var", ![c].gotRtt = Damp(objects[tcb[c].obj].rtt)]
    /\ UNCHANGED <<clock, objects, cached, cacheEnabled, measured>>

TcbReadVar(c) ==
    /\ tcb[c].at = "var"
    /\ tcb' = [tcb EXCEPT ![c].at = "window", ![c].gotVar = Damp(objects[tcb[c].obj].var)]
    /\ UNCHANGED <<clock, objects, cached, cacheEnabled, measured>>

\* Slip: the timeout is left as it was.
applyKeepingRTO(t, w) ==
    LET raise == w > t.cwnd
    IN  [t EXCEPT !.at = "open",
            !.srtt = IF t.gotRtt > 0 THEN t.gotRtt ELSE @,
            !.rttVariance = IF t.gotVar > 0 THEN t.gotVar ELSE @,
            !.cwnd = IF raise THEN w ELSE @,
            !.ssthresh = IF raise THEN Lowest(2 * w, MaxWindow) ELSE @]

\* Slip: the cached window is taken, be it smaller.
applyAnyWindow(t, w) ==
    LET u == applyKeepingRTO(t, w)
    IN  [u EXCEPT !.cwnd = w, !.rto = calculateRTOFromValues(u.srtt, u.rttVariance)]

applyTCBDataToConnection(t, w) ==
    LET srtt  == IF t.gotRtt > 0 THEN t.gotRtt ELSE t.srtt
        var   == IF t.gotVar > 0 THEN t.gotVar ELSE t.rttVariance
        raise == w > t.cwnd
    IN  [t EXCEPT !.at = "open",
            !.srtt = srtt,
            !.rttVariance = var,
            !.cwnd = IF raise THEN w ELSE @,
            !.ssthresh = IF raise THEN Lowest(2 * w, MaxWindow) ELSE @,
            !.rto = IF t.gotRtt > 0 \/ t.gotVar > 0
                       THEN calculateRTOFromValues(srtt, var) ELSE @]

TcbApply(c) ==
    /\ tcb[c].at = "window"
    /\ tcb' = [tcb EXCEPT ![c] = applyTCBDataToConnection(@,
                                    Highest(1, Damp(objects[@.obj].window)))]
    /\ UNCHANGED <<clock, objects, cached, cacheEnabled, measured>>
------------------------------------------------------------------------------
(* An open connection *)

updateRTTEstimate(t, rtt) ==
    LET diff == Highest(t.srtt, rtt) - Lowest(t.srtt, rtt)
    IN  IF t.srtt = 0
          THEN [t EXCEPT !.srtt = rtt, !.rttVariance = rtt \div 2]
          ELSE [t EXCEPT !.srtt = (7 * @ + rtt) \div 8, !.rttVariance = (3 * @ + diff) \div 4]

calculateRTO(t) == [t EXCEPT !.rto = Clamp(t.srtt + 4 * t.rttVariance)]

measureRTTFromAck(c, rtt) ==
    /\ tcb[c].at = "open" /\ tcb[c].samples < MaxSamples
    /\ tcb' = [tcb EXCEPT ![c] =
                    calculateRTO(updateRTTEstimate([tcb[c] EXCEPT !.samples = @ + 1], rtt))]
    /\ measured' = measured \cup {rtt}
    /\ UNCHANGED <<clock, objects, cached, cacheEnabled>>

applyExponentialBackoff(c) ==
    /\ tcb[c].at = "open"
    /\ tcb' = [tcb EXCEPT ![c].rto = Lowest(2 * @, MaxRTO)]
    /\ UNCHANGED <<clock, objects, cached, cacheEnabled, measured>>
------------------------------------------------------------------------------
(* Closing: Put *)

\* Slip: the new value is added in full.
averageHeavy(old, new) == old \div 2 + new

average(old, new) == (old + new) \div 2

\* t's values with the window w; an entry that is there is changed in place, be it
\* expired or not.
Put(t, w) ==
    LET fresh == [rtt |-> t.srtt, var |-> t.rttVariance, window |-> w, lastUpdate |-> clock,
                  ofExpired |-> FALSE, ofNothing |-> t.samples = 0]
        blend(e) == [rtt |-> average(e.rtt, t.srtt), var |-> average(e.var, t.rttVariance),
                     window |-> average(e.window, w), lastUpdate |-> clock,
                     ofExpired |-> e.ofExpired \/ Expired(e),
                     ofNothing |-> e.ofNothing \/ t.samples = 0]
    IN  IF cached = 0
          THEN objects' = Append(objects, fresh) /\ cached' = Len(objects) + 1
          ELSE objects' = [objects EXCEPT ![cached] = blend(@)] /\ UNCHANGED cached

\* cleanupConnectionLocked, with the window the connection has come to (StreamConn).
\* srtt may still be the one the cache gave.
SaveTCB(c, w) ==
    /\ tcb[c].at = "open"
    /\ tcb' = [tcb EXCEPT ![c] = [NewTcb EXCEPT !.at = "closed"]]
    /\ IF cacheEnabled /\ (tcb[c].srtt > 0 \/ tcb[c].rttVariance > 0)
         THEN Put(tcb[c], w) ELSE UNCHANGED <<objects, cached>>
    /\ UNCHANGED <<clock, cacheEnabled, measured>>
------------------------------------------------------------------------------
(* Calls of the application, and time *)

CleanupExpiredTCB ==
    /\ cached # 0 /\ Expired(objects[cached])
    /\ cached' = 0
    /\ UNCHANGED <<clock, objects, cacheEnabled, tcb, measured>>

ClearTCB ==
    /\ cached' = 0
    /\ UNCHANGED <<clock, objects, cacheEnabled, tcb, measured>>

SetTCBCacheEnabled ==
    /\ cacheEnabled' = ~cacheEnabled
    /\ UNCHANGED <<clock, objects, cached, tcb, measured>>

ClockTick ==
    /\ clock < MaxClock
    /\ clock' = clock + 1
    /\ UNCHANGED <<objects, cached, cacheEnabled, tcb, measured>>

TcbOpen(c) == \/ TcbLookup(c) \/ TcbCheckTTL(c) \/ TcbDelete(c)
              \/ TcbReadRtt(c) \/ TcbReadVar(c) \/ TcbApply(c)

TcbNext ==
    \/ \E c \in TcbConns : \/ TcbOpen(c) \/ applyExponentialBackoff(c)
                           \/ \E r \in Rtts : measureRTTFromAck(c, r)
                           \/ \E w \in CwndEnds : SaveTCB(c, w)
    \/ CleanupExpiredTCB \/ ClearTCB \/ SetTCBCacheEnabled \/ ClockTick

TcbSpec == TcbInit /\ [][TcbNext]_tcbVars
------------------------------------------------------------------------------
\* However often values are averaged, damped and handed on, and whatever mixture of old
\* and new fields Get reads, no estimate exceeds what some connection has measured.
RttWithinMeasured ==
    LET top == IF measured = {} THEN 0 ELSE Max(measured)
    IN  /\ \A c \in TcbConns : tcb[c].srtt <= top /\ tcb[c].rttVariance <= top
        /\ \A i \in 1..Len(objects) : objects[i].rtt <= top /\ objects[i].var <= top

\* "RTO = SRTT + max(G, 4*RTTVAR)" between its bounds: whether its estimate was
\* measured or taken from the cache, and after any backoff, a connection waits at least
\* as long as its estimate says before it retransmits.
RtoCoversRtt ==
    \A c \in TcbConns :
        /\ tcb[c].rto \in MinRTO..MaxRTO
        /\ tcb[c].srtt > 0 => tcb[c].rto >= Lowest(MaxRTO, tcb[c].srtt + 4 * tcb[c].rttVariance)

\* "Start with larger window if cache suggests it": a connection to a known destination
\* starts no slower than one to an unknown, and in slow start unless at the maximum.
CacheOnlyHelps ==
    \A c \in TcbConns :
        /\ tcb[c].cwnd >= DefaultWindow
        /\ tcb[c].ssthresh <= MaxWindow
        /\ tcb[c].cwnd < tcb[c].ssthresh \/ tcb[c].cwnd = MaxWindow \/ DefaultWindow = MaxWindow

\* "EntryTTL is how long cache entries remain valid after last update": no entry that is
\* served is made of one that had expired.
NothingExpiredServed == cached # 0 => ~objects[cached].ofExpired

\* "Only cache if we have meaningful RTT data (not just defaults)": an entry is made of
\* what its connections measured.
OnlyMeasuredCached == cached # 0 => ~objects[cached].ofNothing
===============================================================================
