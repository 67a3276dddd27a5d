---------------------------- MODULE TcbCache_proofs ----------------------------
(***************************************************************************)
(* Safety of the TCB cache and of the RTT and RTO estimate (TcbCache), for *)
(* every set of connections, of measurements and of bounds.                *)
(***************************************************************************)
EXTENDS TcbCache, TLAPS

-------------------------------------------------------------------------------
(* Types *)

Stages == {"idle", "looked", "expired", "rtt", "var", "window", "open", "closed"}

Tcb == [at : Stages, obj : Nat, gotRtt : Nat, gotVar : Nat, samples : Nat,
        srtt : Nat, rttVariance : Nat, rto : MinRTO .. MaxRTO,
        cwnd : 1 .. MaxWindow, ssthresh : 1 .. MaxWindow]

TcbEntry == [rtt : Nat, var : Nat, window : 1 .. MaxWindow, lastUpdate : Nat,
          ofExpired : BOOLEAN, ofNothing : BOOLEAN]

\* Get holds on to an entry from the lookup to the last field it reads.
Holding(t) == t.at \in {"looked", "expired", "rtt", "var", "window"}

TcbTypeInv ==
    /\ clock \in Nat
    /\ objects \in Seq(TcbEntry)
    /\ cached \in 0 .. Len(objects)
    /\ tcb \in [TcbConns -> Tcb]
    /\ \A c \in TcbConns : Holding(tcb[c]) => tcb[c].obj \in 1 .. Len(objects)
    /\ measured \subseteq Nat

-------------------------------------------------------------------------------
(* Facts about the arithmetic of the estimate *)

\* The factor of 0.75 a cached value is damped by never raises it.
LEMMA DampFacts ==
    ASSUME NEW v \in Nat
    PROVE  Damp(v) \in Nat /\ Damp(v) <= v
BY DEF Damp

\* The average of two values lies within any bound of both.
LEMMA AverageFacts ==
    ASSUME NEW a \in Nat, NEW b \in Nat
    PROVE  /\ average(a, b) \in Nat
           /\ \A n \in Nat : a <= n /\ b <= n => average(a, b) <= n
           /\ a >= 1 /\ b >= 1 => average(a, b) >= 1
BY DEF average

\* A timeout is brought between its bounds, and is then no shorter than asked for
\* unless at the upper one.
LEMMA ClampFacts ==
    ASSUME NEW r \in Nat
    PROVE  Clamp(r) \in MinRTO .. MaxRTO /\ Clamp(r) >= Lowest(MaxRTO, r)
BY TcbAssumption DEF Clamp, Lowest, Highest

\* What a connection takes over from the cache.
LEMMA ApplyFacts ==
    ASSUME NEW t \in Tcb, NEW w \in 1 .. MaxWindow
    PROVE  LET u == applyTCBDataToConnection(t, w)
           IN  /\ u \in Tcb /\ u.at = "open"
               /\ u.srtt \in {t.srtt, t.gotRtt} /\ u.rttVariance \in {t.rttVariance, t.gotVar}
               /\ u.gotRtt = t.gotRtt /\ u.gotVar = t.gotVar
               /\ \/ u.rto >= Lowest(MaxRTO, u.srtt + 4 * u.rttVariance)
                  \/ u.rto = t.rto /\ u.srtt = t.srtt /\ u.rttVariance = t.rttVariance
               /\ \/ u.cwnd = t.cwnd /\ u.ssthresh = t.ssthresh
                  \/ u.cwnd > t.cwnd /\ (u.cwnd < u.ssthresh \/ u.cwnd = MaxWindow)
<1> DEFINE srtt == IF t.gotRtt > 0 THEN t.gotRtt ELSE t.srtt
           var == IF t.gotVar > 0 THEN t.gotVar ELSE t.rttVariance
           raise == w > t.cwnd
           cwnd == IF raise THEN w ELSE t.cwnd
           ssthresh == IF raise THEN Lowest(2 * w, MaxWindow) ELSE t.ssthresh
           rto == IF t.gotRtt > 0 \/ t.gotVar > 0
                     THEN calculateRTOFromValues(srtt, var) ELSE t.rto
           u == applyTCBDataToConnection(t, w)
<1>1. /\ u = [t EXCEPT !.at = "open", !.srtt = srtt, !.rttVariance = var,
                       !.cwnd = cwnd, !.ssthresh = ssthresh, !.rto = rto]
  BY DEF applyTCBDataToConnection, Tcb
<1>2. srtt \in Nat /\ var \in Nat
  BY DEF Tcb
<1>3. cwnd \in 1 .. MaxWindow /\ ssthresh \in 1 .. MaxWindow
  BY TcbAssumption DEF Tcb, Lowest
<1>4. /\ srtt + Highest(1, 4 * var) \in Nat
      /\ srtt + Highest(1, 4 * var) >= srtt + 4 * var
  BY <1>2 DEF Highest
<1>5. /\ calculateRTOFromValues(srtt, var) \in MinRTO .. MaxRTO
      /\ calculateRTOFromValues(srtt, var) >= Lowest(MaxRTO, srtt + 4 * var)
  BY <1>2, <1>4, ClampFacts, TcbAssumption DEF calculateRTOFromValues, Lowest
<1>6. rto \in MinRTO .. MaxRTO
  BY <1>5 DEF Tcb
<1>7. u \in Tcb /\ u.at = "open" /\ u.srtt = srtt /\ u.rttVariance = var /\ u.cwnd = cwnd
      /\ u.ssthresh = ssthresh /\ u.rto = rto /\ u.gotRtt = t.gotRtt /\ u.gotVar = t.gotVar
  <2> HIDE DEF srtt, var, cwnd, ssthresh, rto, u
  <2> QED
    BY <1>1, <1>2, <1>3, <1>6 DEF Tcb, Stages
<1>8. \/ u.rto >= Lowest(MaxRTO, u.srtt + 4 * u.rttVariance)
      \/ u.rto = t.rto /\ u.srtt = t.srtt /\ u.rttVariance = t.rttVariance
  <2> HIDE DEF u
  <2> QED
    BY <1>5, <1>7 DEF Tcb
<1>9. \/ u.cwnd = t.cwnd /\ u.ssthresh = t.ssthresh
      \/ u.cwnd > t.cwnd /\ (u.cwnd < u.ssthresh \/ u.cwnd = MaxWindow)
  <2> HIDE DEF u
  <2> QED
    BY <1>7, TcbAssumption DEF Tcb, Lowest
<1>10. u.srtt \in {t.srtt, t.gotRtt} /\ u.rttVariance \in {t.rttVariance, t.gotVar}
  <2> HIDE DEF u
  <2> QED
    BY <1>7
<1> QED
  BY <1>7, <1>8, <1>9, <1>10

\* The connection after a measurement.
Measure(t, rtt) == calculateRTO(updateRTTEstimate([t EXCEPT !.samples = @ + 1], rtt))

\* A measurement moves the estimate within the old one and what was measured, sets the
\* timeout by it, and leaves the window alone.
LEMMA MeasureFacts ==
    ASSUME NEW t \in Tcb, NEW rtt \in Nat
    PROVE  LET u == Measure(t, rtt)
           IN  /\ u \in Tcb /\ u.at = t.at
               /\ u.gotRtt = t.gotRtt /\ u.gotVar = t.gotVar
               /\ u.cwnd = t.cwnd /\ u.ssthresh = t.ssthresh
               /\ u.rto >= Lowest(MaxRTO, u.srtt + 4 * u.rttVariance)
               /\ \A n \in Nat : t.srtt <= n /\ t.rttVariance <= n /\ rtt <= n
                                => u.srtt <= n /\ u.rttVariance <= n
<1> DEFINE t1 == [t EXCEPT !.samples = @ + 1]
           diff == Highest(t.srtt, rtt) - Lowest(t.srtt, rtt)
           srtt == IF t.srtt = 0 THEN rtt ELSE (7 * t.srtt + rtt) \div 8
           var == IF t.srtt = 0 THEN rtt \div 2 ELSE (3 * t.rttVariance + diff) \div 4
           t2 == [t1 EXCEPT !.srtt = srtt, !.rttVariance = var]
           u == Measure(t, rtt)
<1>1. t1 \in Tcb /\ t1.srtt = t.srtt /\ t1.rttVariance = t.rttVariance /\ t1.at = t.at
      /\ t1.gotRtt = t.gotRtt /\ t1.gotVar = t.gotVar /\ t1.cwnd = t.cwnd /\ t1.ssthresh = t.ssthresh
  BY DEF Tcb
<1>2. t.srtt \in Nat /\ t.rttVariance \in Nat
  BY DEF Tcb
<1>3. diff \in Nat /\ diff <= Highest(t.srtt, rtt)
  BY <1>2 DEF Highest, Lowest
<1>4. srtt \in Nat /\ var \in Nat
  <2> HIDE DEF diff
  <2> QED
    BY <1>2, <1>3
<1>5. ASSUME NEW n \in Nat, t.srtt <= n, t.rttVariance <= n, rtt <= n
      PROVE  srtt <= n /\ var <= n
  <2>1. diff <= n
    BY <1>2, <1>3, <1>5 DEF Highest
  <2> HIDE DEF diff
  <2>2. srtt <= n
    BY <1>2, <1>5
  <2>3. var <= n
    BY <1>2, <1>3, <1>5, <2>1
  <2> QED
    BY <2>2, <2>3
<1>6. updateRTTEstimate(t1, rtt) = t2
  <2> HIDE DEF t1
  <2> QED
    BY <1>1 DEF updateRTTEstimate, Tcb
<1>7. t2 \in Tcb /\ t2.srtt = srtt /\ t2.rttVariance = var /\ t2.at = t.at
      /\ t2.gotRtt = t.gotRtt /\ t2.gotVar = t.gotVar /\ t2.cwnd = t.cwnd /\ t2.ssthresh = t.ssthresh
  <2> HIDE DEF t1, srtt, var
  <2> QED
    BY <1>1, <1>4 DEF Tcb
<1>8. u = [t2 EXCEPT !.rto = Clamp(srtt + 4 * var)]
  <2> HIDE DEF t2, srtt, var
  <2> QED
    BY <1>6, <1>7 DEF Measure, calculateRTO, t2
<1>9. Clamp(srtt + 4 * var) \in MinRTO .. MaxRTO
      /\ Clamp(srtt + 4 * var) >= Lowest(MaxRTO, srtt + 4 * var)
  <2> HIDE DEF srtt, var
  <2> QED
    BY <1>4, ClampFacts
<1>10. /\ u \in Tcb /\ u.at = t.at /\ u.gotRtt = t.gotRtt /\ u.gotVar = t.gotVar
       /\ u.cwnd = t.cwnd /\ u.ssthresh = t.ssthresh
       /\ u.srtt = srtt /\ u.rttVariance = var /\ u.rto = Clamp(srtt + 4 * var)
  <2> HIDE DEF t2, srtt, var, u
  <2> QED
    BY <1>7, <1>8, <1>9 DEF Tcb
<1>11. u.rto >= Lowest(MaxRTO, u.srtt + 4 * u.rttVariance)
  <2> HIDE DEF srtt, var, u
  <2> QED
    BY <1>9, <1>10
<1>12. \A n \in Nat : t.srtt <= n /\ t.rttVariance <= n /\ rtt <= n
                     => u.srtt <= n /\ u.rttVariance <= n
  <2> HIDE DEF srtt, var, u
  <2> QED
    BY <1>5, <1>10
<1> QED
  BY <1>10, <1>11, <1>12

\* A connection before its lookup, and after its end.
LEMMA NewTcbFacts ==
    /\ NewTcb \in Tcb
    /\ [NewTcb EXCEPT !.at = "closed"] \in Tcb
    /\ ~Holding(NewTcb) /\ ~Holding([NewTcb EXCEPT !.at = "closed"])
BY TcbAssumption DEF NewTcb, Tcb, Stages, Holding

-------------------------------------------------------------------------------
(* The inductive invariant *)

\* RtoCoversRtt and CacheOnlyHelps, of one connection.
CoversRtt(t) == t.srtt > 0 => t.rto >= Lowest(MaxRTO, t.srtt + 4 * t.rttVariance)
StartsWell(t) == /\ t.cwnd >= DefaultWindow
                 /\ t.cwnd < t.ssthresh \/ t.cwnd = MaxWindow \/ DefaultWindow = MaxWindow

\* RttWithinMeasured, of one connection with the fields it has read so far, and of one
\* entry.
Within(t, n) == t.srtt <= n /\ t.rttVariance <= n /\ t.gotRtt <= n /\ t.gotVar <= n
EntryWithin(e, n) == e.rtt <= n /\ e.var <= n

\* The largest measurement: there is one, however many have been made.
TopOf(S) == IF S = {} THEN 0 ELSE Max(S)
HasTopOf(S) == S # {} => \E x \in S : \A y \in S : x >= y
Top == TopOf(measured)

TcbInv ==
    /\ TcbTypeInv
    /\ HasTopOf(measured)
    /\ \A c \in TcbConns : CoversRtt(tcb[c]) /\ StartsWell(tcb[c]) /\ Within(tcb[c], Top)
    /\ \A i \in 1 .. Len(objects) : EntryWithin(objects[i], Top)

\* The largest of a set of measurements bounds every one, and is one of them.
LEMMA TopOfFacts ==
    ASSUME NEW S \in SUBSET Nat, HasTopOf(S)
    PROVE  /\ TopOf(S) \in Nat /\ \A x \in S : x <= TopOf(S)
           /\ TopOf(S) = 0 \/ TopOf(S) \in S
<1>1. CASE S = {}
  BY <1>1 DEF TopOf
<1>2. CASE S # {}
  <2>1. PICK x \in S : \A y \in S : x >= y
    BY <1>2 DEF HasTopOf
  <2>2. Max(S) \in S /\ \A y \in S : Max(S) >= y
    BY <2>1 DEF Max
  <2> QED
    BY <1>2, <2>2 DEF TopOf
<1> QED
  BY <1>1, <1>2

\* A further measurement can only raise it.
LEMMA TopGrows ==
    ASSUME NEW S \in SUBSET Nat, HasTopOf(S), NEW rtt \in Nat
    PROVE  /\ HasTopOf(S \cup {rtt}) /\ TopOf(S \cup {rtt}) \in Nat
           /\ TopOf(S) <= TopOf(S \cup {rtt}) /\ rtt <= TopOf(S \cup {rtt})
<1>1. HasTopOf(S \cup {rtt})
  <2>1. CASE S = {}
    BY <2>1 DEF HasTopOf
  <2>2. CASE S # {}
    <3>1. PICK x \in S : \A y \in S : x >= y
      BY <2>2 DEF HasTopOf
    <3>2. CASE x >= rtt
      BY <3>1, <3>2 DEF HasTopOf
    <3>3. CASE rtt > x
      <4>1. \A y \in S \cup {rtt} : rtt >= y
        BY <3>1, <3>3
      <4> QED
        BY <4>1 DEF HasTopOf
    <3> QED
      BY <3>2, <3>3
  <2> QED
    BY <2>1, <2>2
<1>2. S \cup {rtt} \in SUBSET Nat
  OBVIOUS
<1> QED
  BY <1>1, <1>2, TopOfFacts

\* What a step does to one connection, the entries and the measurements left alone.
LEMMA ConnStep ==
    ASSUME TcbInv, NEW c \in TcbConns, NEW u \in Tcb,
           tcb' = [tcb EXCEPT ![c] = u],
           CoversRtt(u), StartsWell(u), Within(u, Top),
           Holding(u) => u.obj \in 1 .. Len(objects),
           cached' \in 0 .. Len(objects),
           UNCHANGED <<clock, objects, measured>>
    PROVE  TcbInv'
<1>1. \A d \in TcbConns : tcb'[d] = IF d = c THEN u ELSE tcb[d]
  BY DEF TcbInv, TcbTypeInv
<1>2. TcbTypeInv'
  BY <1>1 DEF TcbInv, TcbTypeInv
<1>3. HasTopOf(measured') /\ Top' = Top
  BY DEF TcbInv, Top
<1>4. \A d \in TcbConns : CoversRtt(tcb'[d]) /\ StartsWell(tcb'[d]) /\ Within(tcb'[d], Top')
  BY <1>1, <1>3 DEF TcbInv
<1>5. \A i \in 1 .. Len(objects') : EntryWithin(objects'[i], Top')
  BY <1>3 DEF TcbInv
<1> QED
  BY <1>2, <1>3, <1>4, <1>5 DEF TcbInv

\* The lookup of an opening connection: a reference to the entry, then its fields one by
\* one, whatever has become of the entry in between.
LEMMA OpenStep ==
    ASSUME TcbInv, NEW c \in TcbConns, TcbOpen(c)
    PROVE  TcbInv'
<1> DEFINE t == tcb[c]
<1>0. /\ t \in Tcb /\ CoversRtt(t) /\ StartsWell(t) /\ Within(t, Top) /\ Top \in Nat
      /\ Holding(t) => t.obj \in 1 .. Len(objects) /\ objects[t.obj] \in TcbEntry
                                                  /\ EntryWithin(objects[t.obj], Top)
      /\ cached \in 0 .. Len(objects) /\ Len(objects) \in Nat
  BY TopOfFacts DEF TcbInv, TcbTypeInv, Top
<1> HIDE DEF t
<1>1. CASE TcbLookup(c)
  <2> DEFINE u == [t EXCEPT !.at = IF cacheEnabled /\ cached # 0 THEN "looked" ELSE "open",
                            !.obj = IF cacheEnabled THEN cached ELSE 0]
  <2>1. tcb' = [tcb EXCEPT ![c] = u] /\ UNCHANGED <<clock, objects, cached, measured>>
    BY <1>1 DEF TcbLookup, t
  <2>2. u \in Tcb /\ (Holding(u) => u.obj \in 1 .. Len(objects))
    <3>1. CASE cacheEnabled /\ cached # 0
      <4>1. u = [t EXCEPT !.at = "looked", !.obj = cached]
        BY <3>1
      <4> HIDE DEF u
      <4>2. u \in Tcb
        <5>1. cached \in Nat
          BY <1>0
        <5> QED
          BY <1>0, <4>1, <5>1 DEF Tcb, Stages
      <4>3. u.obj = cached
        BY <1>0, <4>1 DEF Tcb
      <4> QED
        BY <1>0, <3>1, <4>2, <4>3
    <3>2. CASE ~(cacheEnabled /\ cached # 0)
      <4>1. u = [t EXCEPT !.at = "open", !.obj = 0]
        BY <3>2
      <4> HIDE DEF u
      <4>2. u \in Tcb
        BY <1>0, <4>1 DEF Tcb, Stages
      <4>3. u.at = "open"
        BY <1>0, <4>1 DEF Tcb
      <4> QED
        BY <4>2, <4>3 DEF Holding
    <3> QED
      BY <3>1, <3>2
  <2>3. CoversRtt(u) /\ StartsWell(u) /\ Within(u, Top)
    BY <1>0 DEF Tcb, CoversRtt, StartsWell, Within
  <2> QED
    BY <1>0, <2>1, <2>2, <2>3, ConnStep
<1>2. CASE TcbCheckTTL(c)
  <2> DEFINE u == [t EXCEPT !.at = IF Expired(objects[t.obj]) THEN "expired" ELSE "rtt"]
  <2>1. tcb' = [tcb EXCEPT ![c] = u] /\ UNCHANGED <<clock, objects, cached, measured>> /\ Holding(t)
    BY <1>2 DEF TcbCheckTTL, Holding, t
  <2>2. u \in Tcb /\ u.obj \in 1 .. Len(objects)
    BY <1>0, <2>1 DEF Tcb, Stages
  <2>3. CoversRtt(u) /\ StartsWell(u) /\ Within(u, Top)
    BY <1>0 DEF Tcb, CoversRtt, StartsWell, Within
  <2> HIDE DEF u
  <2> QED
    BY <1>0, <2>1, <2>2, <2>3, ConnStep
<1>3. CASE TcbDelete(c)
  <2> DEFINE u == [t EXCEPT !.at = "open"]
  <2>1. tcb' = [tcb EXCEPT ![c] = u] /\ UNCHANGED <<clock, objects, measured>> /\ cached' = 0
    BY <1>3 DEF TcbDelete, t
  <2>2. u \in Tcb /\ ~Holding(u)
    BY <1>0 DEF Tcb, Stages, Holding
  <2>3. CoversRtt(u) /\ StartsWell(u) /\ Within(u, Top)
    BY <1>0 DEF Tcb, CoversRtt, StartsWell, Within
  <2>4. cached' \in 0 .. Len(objects)
    BY <1>0, <2>1
  <2> HIDE DEF u
  <2> QED
    BY <1>0, <2>1, <2>2, <2>3, <2>4, ConnStep
<1>4. CASE TcbReadRtt(c)
  <2> DEFINE u == [t EXCEPT !.at = "var", !.gotRtt = Damp(objects[t.obj].rtt)]
  <2>1. tcb' = [tcb EXCEPT ![c] = u] /\ UNCHANGED <<clock, objects, cached, measured>> /\ Holding(t)
    BY <1>4 DEF TcbReadRtt, Holding, t
  <2>2. Damp(objects[t.obj].rtt) \in Nat /\ Damp(objects[t.obj].rtt) <= Top
    BY <1>0, <2>1, DampFacts DEF TcbEntry, EntryWithin
  <2>3. u \in Tcb /\ u.obj \in 1 .. Len(objects)
    BY <1>0, <2>1, <2>2 DEF Tcb, Stages
  <2>4. CoversRtt(u) /\ StartsWell(u) /\ Within(u, Top)
    BY <1>0, <2>2 DEF Tcb, CoversRtt, StartsWell, Within
  <2> QED
    BY <1>0, <2>1, <2>3, <2>4, ConnStep
<1>5. CASE TcbReadVar(c)
  <2> DEFINE u == [t EXCEPT !.at = "window", !.gotVar = Damp(objects[t.obj].var)]
  <2>1. tcb' = [tcb EXCEPT ![c] = u] /\ UNCHANGED <<clock, objects, cached, measured>> /\ Holding(t)
    BY <1>5 DEF TcbReadVar, Holding, t
  <2>2. Damp(objects[t.obj].var) \in Nat /\ Damp(objects[t.obj].var) <= Top
    BY <1>0, <2>1, DampFacts DEF TcbEntry, EntryWithin
  <2>3. u \in Tcb /\ u.obj \in 1 .. Len(objects)
    BY <1>0, <2>1, <2>2 DEF Tcb, Stages
  <2>4. CoversRtt(u) /\ StartsWell(u) /\ Within(u, Top)
    BY <1>0, <2>2 DEF Tcb, CoversRtt, StartsWell, Within
  <2> QED
    BY <1>0, <2>1, <2>3, <2>4, ConnStep
<1>6. CASE TcbApply(c)
  <2> DEFINE w == Highest(1, Damp(objects[t.obj].window))
             u == applyTCBDataToConnection(t, w)
  <2>1. tcb' = [tcb EXCEPT ![c] = u] /\ UNCHANGED <<clock, objects, cached, measured>> /\ Holding(t)
    BY <1>6 DEF TcbApply, Holding, t
  <2>2. w \in 1 .. MaxWindow
    <3>1. objects[t.obj].window \in 1 .. MaxWindow
      BY <1>0, <2>1 DEF TcbEntry
    <3>2. /\ Damp(objects[t.obj].window) \in Nat
          /\ Damp(objects[t.obj].window) <= objects[t.obj].window
      BY <3>1, DampFacts
    <3> QED
      BY <3>1, <3>2, TcbAssumption DEF Highest
  <2> HIDE DEF w
  <2>3. /\ u \in Tcb /\ u.at = "open"
        /\ u.srtt \in {t.srtt, t.gotRtt} /\ u.rttVariance \in {t.rttVariance, t.gotVar}
        /\ u.gotRtt = t.gotRtt /\ u.gotVar = t.gotVar
        /\ \/ u.rto >= Lowest(MaxRTO, u.srtt + 4 * u.rttVariance)
           \/ u.rto = t.rto /\ u.srtt = t.srtt /\ u.rttVariance = t.rttVariance
        /\ \/ u.cwnd = t.cwnd /\ u.ssthresh = t.ssthresh
           \/ u.cwnd > t.cwnd /\ (u.cwnd < u.ssthresh \/ u.cwnd = MaxWindow)
    BY <1>0, <2>2, ApplyFacts
  <2> HIDE DEF u
  <2>4. CoversRtt(u)
    BY <1>0, <2>3 DEF CoversRtt
  <2>5. StartsWell(u)
    <3>1. t.cwnd \in Nat /\ t.ssthresh \in Nat
      BY <1>0 DEF Tcb
    <3>2. u.cwnd \in Nat /\ u.ssthresh \in Nat
      BY <2>3 DEF Tcb
    <3>3. DefaultWindow \in Nat
      BY TcbAssumption
    <3> QED
      BY <1>0, <2>3, <3>1, <3>2, <3>3 DEF StartsWell
  <2>6. Within(u, Top) /\ ~Holding(u)
    BY <1>0, <2>3 DEF Within, Holding
  <2> QED
    BY <1>0, <2>1, <2>3, <2>4, <2>5, <2>6, ConnStep
<1> QED
  BY <1>1, <1>2, <1>3, <1>4, <1>5, <1>6 DEF TcbOpen

\* A measurement of an open connection.  What the others know stays within the largest
\* measurement, which can only have grown.
LEMMA MeasureStep ==
    ASSUME TcbInv, NEW c \in TcbConns, NEW rtt \in Rtts, measureRTTFromAck(c, rtt)
    PROVE  TcbInv'
<1> DEFINE t == tcb[c]
           u == Measure(t, rtt)
<1>0. t \in Tcb /\ StartsWell(t) /\ Within(t, Top) /\ t.at = "open" /\ rtt \in Nat
  BY TcbAssumption DEF TcbInv, TcbTypeInv, measureRTTFromAck
<1>1. /\ tcb' = [tcb EXCEPT ![c] = u] /\ measured' = measured \cup {rtt}
      /\ UNCHANGED <<clock, objects, cached>>
  BY DEF measureRTTFromAck, Measure
<1>2. /\ u \in Tcb /\ u.at = t.at /\ u.gotRtt = t.gotRtt /\ u.gotVar = t.gotVar
      /\ u.cwnd = t.cwnd /\ u.ssthresh = t.ssthresh
      /\ u.rto >= Lowest(MaxRTO, u.srtt + 4 * u.rttVariance)
      /\ \A n \in Nat : t.srtt <= n /\ t.rttVariance <= n /\ rtt <= n
                       => u.srtt <= n /\ u.rttVariance <= n
  BY <1>0, MeasureFacts
<1> HIDE DEF u
<1>3. \A d \in TcbConns : tcb'[d] = IF d = c THEN u ELSE tcb[d]
  BY <1>1 DEF TcbInv, TcbTypeInv
<1>4. TcbTypeInv'
  <2>1. ~Holding(u)
    BY <1>0, <1>2 DEF Holding
  <2>2. measured' \subseteq Nat
    BY <1>0, <1>1 DEF TcbInv, TcbTypeInv
  <2> QED
    BY <1>1, <1>2, <1>3, <2>1, <2>2 DEF TcbInv, TcbTypeInv
<1>5. /\ HasTopOf(measured') /\ Top' \in Nat /\ Top \in Nat /\ Top <= Top' /\ rtt <= Top'
  <2>1. measured \in SUBSET Nat /\ HasTopOf(measured)
    BY DEF TcbInv, TcbTypeInv
  <2>2. /\ HasTopOf(measured \cup {rtt}) /\ TopOf(measured \cup {rtt}) \in Nat
        /\ TopOf(measured) <= TopOf(measured \cup {rtt}) /\ rtt <= TopOf(measured \cup {rtt})
    BY <1>0, <2>1, TopGrows
  <2>3. TopOf(measured) \in Nat
    BY <2>1, TopOfFacts
  <2> QED
    BY <1>1, <2>2, <2>3 DEF Top
<1>6. ASSUME NEW d \in TcbConns
      PROVE  CoversRtt(tcb'[d]) /\ StartsWell(tcb'[d]) /\ Within(tcb'[d], Top')
  <2>1. CASE d = c
    <3>1. CoversRtt(u) /\ StartsWell(u)
      BY <1>0, <1>2 DEF CoversRtt, StartsWell
    <3>2. t.srtt \in Nat /\ t.rttVariance \in Nat /\ t.gotRtt \in Nat /\ t.gotVar \in Nat
      BY <1>0 DEF Tcb
    <3>3. t.srtt <= Top' /\ t.rttVariance <= Top' /\ t.gotRtt <= Top' /\ t.gotVar <= Top'
      BY <1>0, <1>5, <3>2 DEF Within
    <3>4. Within(u, Top')
      BY <1>2, <1>5, <3>3 DEF Within
    <3> QED
      BY <1>3, <2>1, <3>1, <3>4
  <2>2. CASE d # c
    <3>1. tcb'[d] = tcb[d] /\ tcb[d] \in Tcb /\ Within(tcb[d], Top)
          /\ CoversRtt(tcb[d]) /\ StartsWell(tcb[d])
      BY <1>3, <2>2 DEF TcbInv, TcbTypeInv
    <3>2. /\ tcb[d].srtt \in Nat /\ tcb[d].rttVariance \in Nat
          /\ tcb[d].gotRtt \in Nat /\ tcb[d].gotVar \in Nat
      BY <3>1 DEF Tcb
    <3>3. Within(tcb[d], Top')
      BY <1>5, <3>1, <3>2 DEF Within
    <3> QED
      BY <3>1, <3>3
  <2> QED
    BY <2>1, <2>2
<1>7. ASSUME NEW i \in 1 .. Len(objects')
      PROVE  EntryWithin(objects'[i], Top')
  <2>1. objects'[i] = objects[i] /\ objects[i] \in TcbEntry /\ EntryWithin(objects[i], Top)
    BY <1>1 DEF TcbInv, TcbTypeInv
  <2>2. objects[i].rtt \in Nat /\ objects[i].var \in Nat
    BY <2>1 DEF TcbEntry
  <2> QED
    BY <1>5, <2>1, <2>2 DEF EntryWithin
<1> QED
  BY <1>4, <1>5, <1>6, <1>7 DEF TcbInv

\* A doubled timeout covers what the single one did.
LEMMA BackoffStep ==
    ASSUME TcbInv, NEW c \in TcbConns, applyExponentialBackoff(c)
    PROVE  TcbInv'
<1> DEFINE t == tcb[c]
           u == [t EXCEPT !.rto = Lowest(2 * t.rto, MaxRTO)]
<1>0. /\ t \in Tcb /\ CoversRtt(t) /\ StartsWell(t) /\ Within(t, Top) /\ t.at = "open"
      /\ cached \in 0 .. Len(objects)
  BY DEF TcbInv, TcbTypeInv, applyExponentialBackoff
<1>1. tcb' = [tcb EXCEPT ![c] = u] /\ UNCHANGED <<clock, objects, cached, measured>>
  BY DEF applyExponentialBackoff
<1> HIDE DEF t
<1>2. t.rto \in MinRTO .. MaxRTO /\ t.srtt \in Nat /\ t.rttVariance \in Nat
  BY <1>0 DEF Tcb
<1>3. Lowest(2 * t.rto, MaxRTO) \in MinRTO .. MaxRTO /\ Lowest(2 * t.rto, MaxRTO) >= t.rto
  BY <1>2, TcbAssumption DEF Lowest
<1>4. u \in Tcb /\ u.rto >= t.rto /\ u.srtt = t.srtt /\ u.rttVariance = t.rttVariance
      /\ u.gotRtt = t.gotRtt /\ u.gotVar = t.gotVar /\ u.cwnd = t.cwnd
      /\ u.ssthresh = t.ssthresh /\ u.at = "open" /\ u.rto \in MinRTO .. MaxRTO
  BY <1>0, <1>3 DEF Tcb
<1> HIDE DEF u
<1>5. CoversRtt(u)
  <2>1. Lowest(MaxRTO, t.srtt + 4 * t.rttVariance) \in Int
    BY <1>2, TcbAssumption DEF Lowest
  <2> QED
    BY <1>0, <1>2, <1>4, <2>1, TcbAssumption DEF CoversRtt
<1>6. StartsWell(u) /\ Within(u, Top) /\ ~Holding(u)
  BY <1>0, <1>4 DEF StartsWell, Within, Holding
<1> QED
  BY <1>0, <1>1, <1>4, <1>5, <1>6, ConnStep

\* The end of a connection: its values are averaged into the entry, or make a new one.
LEMMA SaveStep ==
    ASSUME TcbInv, NEW c \in TcbConns, NEW w \in CwndEnds, SaveTCB(c, w)
    PROVE  TcbInv'
<1> DEFINE t == tcb[c]
           u == [NewTcb EXCEPT !.at = "closed"]
<1>0. /\ t \in Tcb /\ Within(t, Top) /\ Top \in Nat /\ clock \in Nat /\ w \in 1 .. MaxWindow
      /\ objects \in Seq(TcbEntry) /\ cached \in 0 .. Len(objects)
      /\ \A i \in 1 .. Len(objects) : EntryWithin(objects[i], Top)
      /\ \A d \in TcbConns : Holding(tcb[d]) => tcb[d].obj \in 1 .. Len(objects)
  BY TopOfFacts, TcbAssumption DEF TcbInv, TcbTypeInv, Top
<1>1. tcb' = [tcb EXCEPT ![c] = u] /\ UNCHANGED <<clock, measured>>
  BY DEF SaveTCB
<1>2. /\ objects' \in Seq(TcbEntry) /\ Len(objects') >= Len(objects) /\ cached' \in 0 .. Len(objects')
      /\ \A i \in 1 .. Len(objects') : EntryWithin(objects'[i], Top)
  <2>0. /\ t.srtt \in Nat /\ t.rttVariance \in Nat /\ t.srtt <= Top /\ t.rttVariance <= Top
        /\ (t.samples = 0) \in BOOLEAN
    BY <1>0 DEF Tcb, Within
  <2>1. CASE Put(t, w) /\ cached = 0
    <3> DEFINE e == [rtt |-> t.srtt, var |-> t.rttVariance, window |-> w, lastUpdate |-> clock,
                     ofExpired |-> FALSE, ofNothing |-> t.samples = 0]
    <3>1. objects' = Append(objects, e) /\ cached' = Len(objects) + 1
      BY <2>1 DEF Put
    <3>2. e \in TcbEntry /\ EntryWithin(e, Top)
      BY <1>0, <2>0 DEF TcbEntry, EntryWithin
    <3> HIDE DEF e
    <3> QED
      BY <1>0, <3>1, <3>2
  <2>2. CASE Put(t, w) /\ cached # 0
    <3> DEFINE o == objects[cached]
               e == [rtt |-> average(o.rtt, t.srtt), var |-> average(o.var, t.rttVariance),
                     window |-> average(o.window, w), lastUpdate |-> clock,
                     ofExpired |-> o.ofExpired \/ Expired(o),
                     ofNothing |-> o.ofNothing \/ t.samples = 0]
    <3>1. objects' = [objects EXCEPT ![cached] = e] /\ cached' = cached
      BY <2>2 DEF Put
    <3>2. o \in TcbEntry /\ EntryWithin(o, Top) /\ cached \in 1 .. Len(objects)
      BY <1>0, <2>2
    <3> HIDE DEF o
    <3>3. /\ o.rtt \in Nat /\ o.var \in Nat /\ o.window \in 1 .. MaxWindow
          /\ o.rtt <= Top /\ o.var <= Top
      BY <3>2 DEF TcbEntry, EntryWithin
    <3>4. /\ average(o.rtt, t.srtt) \in Nat /\ average(o.rtt, t.srtt) <= Top
          /\ average(o.var, t.rttVariance) \in Nat /\ average(o.var, t.rttVariance) <= Top
      BY <1>0, <2>0, <3>3, AverageFacts
    <3>5. average(o.window, w) \in 1 .. MaxWindow
      <4>1. w \in 1 .. MaxWindow /\ o.window \in 1 .. MaxWindow /\ MaxWindow \in Nat
        BY <1>0, <3>3, TcbAssumption
      <4> QED
        BY <4>1 DEF average
    <3>6. (o.ofExpired \/ Expired(o)) \in BOOLEAN /\ (o.ofNothing \/ t.samples = 0) \in BOOLEAN
      OBVIOUS
    <3>7. e \in TcbEntry /\ EntryWithin(e, Top)
      BY <1>0, <3>4, <3>5, <3>6 DEF TcbEntry, EntryWithin
    <3> HIDE DEF e
    <3> QED
      BY <1>0, <3>1, <3>2, <3>7
  <2>3. CASE UNCHANGED <<objects, cached>>
    BY <1>0, <2>3
  <2> QED
    BY <2>1, <2>2, <2>3 DEF SaveTCB
<1>3. u \in Tcb /\ ~Holding(u)
  BY NewTcbFacts
<1>4. CoversRtt(u) /\ StartsWell(u) /\ Within(u, Top)
  BY <1>0, TcbAssumption DEF NewTcb, CoversRtt, StartsWell, Within
<1> HIDE DEF u
<1>5. \A d \in TcbConns : tcb'[d] = IF d = c THEN u ELSE tcb[d]
  BY <1>1 DEF TcbInv, TcbTypeInv
<1>6. TcbTypeInv'
  <2>1. tcb' \in [TcbConns -> Tcb]
    BY <1>1, <1>3 DEF TcbInv, TcbTypeInv
  <2>2. \A d \in TcbConns : Holding(tcb'[d]) => tcb'[d].obj \in 1 .. Len(objects')
    BY <1>0, <1>2, <1>3, <1>5
  <2> QED
    BY <1>1, <1>2, <2>1, <2>2 DEF TcbInv, TcbTypeInv
<1>7. HasTopOf(measured') /\ Top' = Top
  BY <1>1 DEF TcbInv, Top
<1>8. \A d \in TcbConns : CoversRtt(tcb'[d]) /\ StartsWell(tcb'[d]) /\ Within(tcb'[d], Top')
  BY <1>4, <1>5, <1>7 DEF TcbInv
<1> QED
  BY <1>2, <1>6, <1>7, <1>8 DEF TcbInv

\* The application's calls and the clock leave the connections and the entries alone.
LEMMA CacheStep ==
    ASSUME TcbInv, CleanupExpiredTCB \/ ClearTCB \/ SetTCBCacheEnabled \/ ClockTick
           \/ UNCHANGED tcbVars
    PROVE  TcbInv'
<1>1. /\ UNCHANGED <<objects, tcb, measured>> /\ cached' \in {0, cached}
      /\ clock' \in {clock, clock + 1}
  BY DEF CleanupExpiredTCB, ClearTCB, SetTCBCacheEnabled, ClockTick, tcbVars
<1>2. TcbTypeInv'
  <2>1. clock' \in Nat /\ cached' \in 0 .. Len(objects)
    BY <1>1 DEF TcbInv, TcbTypeInv
  <2> QED
    BY <1>1, <2>1 DEF TcbInv, TcbTypeInv
<1>3. HasTopOf(measured') /\ Top' = Top
  BY <1>1 DEF TcbInv, Top
<1> QED
  BY <1>1, <1>2, <1>3 DEF TcbInv

-------------------------------------------------------------------------------
(* Results *)

LEMMA TcbInvariance == TcbSpec => []TcbInv
<1>1. TcbInit => TcbInv
  <2> SUFFICES ASSUME TcbInit PROVE TcbInv
    OBVIOUS
  <2>1. TcbTypeInv
    BY NewTcbFacts DEF TcbInit, TcbTypeInv
  <2>2. measured = {} /\ HasTopOf(measured) /\ Top = 0
    BY DEF TcbInit, HasTopOf, Top, TopOf
  <2>3. CoversRtt(NewTcb) /\ StartsWell(NewTcb) /\ Within(NewTcb, 0)
    BY TcbAssumption DEF NewTcb, CoversRtt, StartsWell, Within
  <2> QED
    BY <2>1, <2>2, <2>3 DEF TcbInit, TcbInv
<1>2. TcbInv /\ [TcbNext]_tcbVars => TcbInv'
  <2> SUFFICES ASSUME TcbInv, [TcbNext]_tcbVars
               PROVE  TcbInv'
    OBVIOUS
  <2> QED
    BY OpenStep, BackoffStep, MeasureStep, SaveStep, CacheStep DEF TcbNext
<1> QED
  BY <1>1, <1>2, PTL DEF TcbSpec

\* The timeout of every connection lies between its bounds and covers its estimate,
\* whatever the estimate is made of and however often it was backed off
\* (calculateRTO, applyTCBDataToConnection, applyExponentialBackoff).
THEOREM RtoAlwaysCovers == TcbSpec => []RtoCoversRtt
<1>1. TcbInv => RtoCoversRtt
  BY DEF TcbInv, TcbTypeInv, Tcb, CoversRtt, RtoCoversRtt
<1> QED
  BY <1>1, TcbInvariance, PTL

\* A window from the cache never lowers a connection's own and leaves it in slow start
\* unless it is the largest (applyTCBDataToConnection).
THEOREM CacheNeverSlows == TcbSpec => []CacheOnlyHelps
<1>1. TcbInv => CacheOnlyHelps
  <2> SUFFICES ASSUME TcbInv, NEW c \in TcbConns
               PROVE  StartsWell(tcb[c]) /\ tcb[c].ssthresh <= MaxWindow
    BY DEF CacheOnlyHelps, StartsWell
  <2> QED
    BY TcbAssumption DEF TcbInv, TcbTypeInv, Tcb
<1> QED
  BY <1>1, TcbInvariance, PTL

\* No estimate, cached or of a connection, exceeds the largest round trip that was ever
\* measured, whatever mixture of fields of different age Get reads without the lock.
THEOREM EstimatesWithinMeasured == TcbSpec => []RttWithinMeasured
<1>1. TcbInv => RttWithinMeasured
  BY DEF TcbInv, Within, EntryWithin, Top, TopOf, RttWithinMeasured
<1> QED
  BY <1>1, TcbInvariance, PTL
===============================================================================
