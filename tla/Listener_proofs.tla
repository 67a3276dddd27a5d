---------------------------- MODULE Listener_proofs ----------------------------
(***************************************************************************)
(* Admission of connections (Listener and Limiter): the rate limits, the   *)
(* count of active streams and the routes in the manager's table, for any  *)
(* number of peers, ports, connections and limits.                         *)
(***************************************************************************)
EXTENDS Listener, FiniteSetTheorems, TLAPS

-------------------------------------------------------------------------------
(* The inductive invariant: the limiter *)

Stamp == [admission : Nat, at : Nat]
Admission == [src : Source, at : Nat, config : Configs]

\* h is a finite history of admissions out of adm, and has all those of the peers in S
\* that are less than a day old.
HistoryOK(h, adm, t, S) ==
    /\ IsFiniteSet(h)
    /\ h \subseteq Stamp
    /\ \A e \in h : e.admission \in 1 .. Len(adm) /\ e.at <= t
    /\ \A n \in 1 .. Len(adm) :
          adm[n].src \in S /\ adm[n].at > t - Length["day"] =>
             Timestamp(n, adm[n].at) \in h

LimiterType ==
    /\ now \in Nat /\ now <= MaxTime
    /\ config \in Configs
    /\ activeStreams \in Nat /\ activeStreams <= Len(admitted)
    /\ admitted \in Seq(Admission) /\ Len(admitted) <= MaxAdmissions
    /\ \A n \in 1 .. Len(admitted) : admitted[n].at <= now
    /\ DOMAIN peerHistory \subseteq Peers

TotalComplete == HistoryOK(totalHistory, admitted, now, Source)
PeerComplete == \A p \in Peers : HistoryOK(historyOf(p), admitted, now, {p})

LimiterInv == LimiterType /\ TotalComplete /\ PeerComplete /\ RateRespected

-------------------------------------------------------------------------------
(* Histories *)

\* Pruning (pruneOldEntriesLocked) keeps what the limits per day still need.
LEMMA PruneKeeps ==
    ASSUME NEW h, NEW adm, NEW S, HistoryOK(h, adm, now, S)
    PROVE  HistoryOK(pruneOldEntries(h), adm, now, S)
<1>1. pruneOldEntries(h) \in SUBSET h  BY DEF pruneOldEntries
<1>2. IsFiniteSet(pruneOldEntries(h))  BY <1>1, FS_Subset DEF HistoryOK
<1>3. ASSUME NEW n \in 1 .. Len(adm), adm[n].src \in S, adm[n].at > now - Length["day"]
      PROVE  Timestamp(n, adm[n].at) \in pruneOldEntries(h)
  BY <1>3 DEF HistoryOK, pruneOldEntries, Timestamp
<1> QED  BY <1>1, <1>2, <1>3 DEF HistoryOK

\* Time passes: no admission becomes younger.
LEMMA TimePasses ==
    ASSUME NEW t \in Nat, NEW h, NEW adm \in Seq(Admission), NEW S, HistoryOK(h, adm, t, S)
    PROVE  HistoryOK(h, adm, t + 1, S)
<1>1. Length["day"] \in Nat  BY LimiterAssumption DEF Windows
<1>2. ASSUME NEW e \in h  PROVE e.at <= t + 1
  BY <1>2 DEF HistoryOK, Stamp
<1>3. ASSUME NEW n \in 1 .. Len(adm), adm[n].at > (t + 1) - Length["day"]
      PROVE  adm[n].at > t - Length["day"]
  <2>0. adm[n] \in Admission  OBVIOUS
  <2>1. adm[n].at \in Nat  BY <2>0 DEF Admission
  <2> QED  BY <1>1, <1>3, <2>1
<1> QED  BY <1>2, <1>3 DEF HistoryOK

LEMMA AtMostOneMore ==
    ASSUME NEW S, IsFiniteSet(S), NEW x
    PROVE  /\ IsFiniteSet(S \cup {x})
           /\ Cardinality(S \cup {x}) <= Cardinality(S) + 1
<1>1. Cardinality(S) \in Nat  BY FS_CardinalityType
<1>2. IsFiniteSet(S \cup {x})  BY FS_AddElement
<1>3. \/ Cardinality(S \cup {x}) = Cardinality(S)
      \/ Cardinality(S \cup {x}) = Cardinality(S) + 1
  BY FS_AddElement, Zenon
<1> QED  BY <1>1, <1>2, <1>3

LEMMA AppendIs ==
    ASSUME NEW adm \in Seq(Admission), NEW a \in Admission
    PROVE  /\ Append(adm, a) \in Seq(Admission)
           /\ Len(Append(adm, a)) = Len(adm) + 1 /\ Len(adm) \in Nat
           /\ \A n \in 1 .. Len(adm) : Append(adm, a)[n] = adm[n] /\ adm[n] \in Admission
           /\ Append(adm, a)[Len(adm) + 1] = a
  OBVIOUS

\* recordConnectionLocked adds the admission to a history.
LEMMA HistoryAdd ==
    ASSUME NEW t \in Nat, NEW h, NEW adm \in Seq(Admission), NEW S,
           NEW a \in Admission, a.at = t, HistoryOK(h, adm, t, S)
    PROVE  HistoryOK(h \cup {Timestamp(Len(adm) + 1, t)}, Append(adm, a), t, S)
<1> DEFINE e == Timestamp(Len(adm) + 1, t)
           H == h \cup {e}
           B == Append(adm, a)
<1>1. /\ Len(B) = Len(adm) + 1 /\ Len(adm) \in Nat
      /\ \A n \in 1 .. Len(adm) : B[n] = adm[n]
      /\ B[Len(adm) + 1] = a
  BY AppendIs
<1>2. IsFiniteSet(H)  BY FS_AddElement DEF HistoryOK
<1>3. e \in Stamp /\ e.admission = Len(adm) + 1 /\ e.at = t
  BY <1>1 DEF Timestamp, Stamp
<1> HIDE DEF e, B
<1>4. H \subseteq Stamp  BY <1>3 DEF HistoryOK
<1>5. ASSUME NEW x \in H  PROVE x.admission \in 1 .. Len(B) /\ x.at <= t
  BY <1>1, <1>3, <1>5 DEF HistoryOK
<1>6. ASSUME NEW n \in 1 .. Len(B), B[n].src \in S, B[n].at > t - Length["day"]
      PROVE  Timestamp(n, B[n].at) \in H
  <2>1. CASE n = Len(adm) + 1  BY <2>1, <1>1 DEF e
  <2>2. CASE n # Len(adm) + 1
    <3>1. n \in 1 .. Len(adm)  BY <2>2, <1>1
    <3>2. adm[n].src \in S /\ adm[n].at > t - Length["day"]  BY <3>1, <1>1, <1>6
    <3>3. Timestamp(n, adm[n].at) \in h  BY <3>1, <3>2 DEF HistoryOK
    <3> QED  BY <3>1, <3>3, <1>1
  <2> QED  BY <2>1, <2>2
<1>7. HistoryOK(H, B, t, S)  BY <1>2, <1>4, <1>5, <1>6 DEF HistoryOK
<1> QED  BY <1>7 DEF H, B, e

\* An admission of somebody else leaves a history complete.
LEMMA HistorySkip ==
    ASSUME NEW t \in Nat, NEW h, NEW adm \in Seq(Admission), NEW S,
           NEW a \in Admission, a.src \notin S, HistoryOK(h, adm, t, S)
    PROVE  HistoryOK(h, Append(adm, a), t, S)
<1> DEFINE B == Append(adm, a)
<1>1. /\ Len(B) = Len(adm) + 1 /\ Len(adm) \in Nat
      /\ \A n \in 1 .. Len(adm) : B[n] = adm[n]
      /\ B[Len(adm) + 1] = a
  BY AppendIs
<1> HIDE DEF B
<1>2. ASSUME NEW x \in h  PROVE x.admission \in 1 .. Len(B)
  BY <1>1, <1>2 DEF HistoryOK
<1>3. ASSUME NEW n \in 1 .. Len(B), B[n].src \in S, B[n].at > t - Length["day"]
      PROVE  Timestamp(n, B[n].at) \in h
  <2>1. n # Len(adm) + 1  BY <1>1, <1>3
  <2>2. n \in 1 .. Len(adm)  BY <2>1, <1>1
  <2> QED  BY <2>2, <1>1, <1>3 DEF HistoryOK
<1>4. HistoryOK(h, B, t, S)  BY <1>2, <1>3 DEF HistoryOK
<1> QED  BY <1>4 DEF B

\* The admissions of adm, of the peers in S, in the window w that ends at t.
InWindow(adm, t, w, S) ==
    {j \in 1 .. Len(adm) : adm[j].src \in S /\ adm[j].at > t - Length[w]}

\* What countSinceLocked counts in a pruned history is no fewer than the admissions in
\* the window: one more stays within the limit.
LEMMA CountBounds ==
    ASSUME now \in Nat, NEW h, NEW adm \in Seq(Admission), NEW S, NEW w \in Windows,
           HistoryOK(h, adm, now, S), NEW limit \in Nat,
           countSince(pruneOldEntries(h), now - Length[w]) < limit,
           NEW a \in Admission, a.at = now
    PROVE  Cardinality(InWindow(Append(adm, a), now, w, S)) <= limit
<1> DEFINE W == InWindow(adm, now, w, S)
           T == {e \in pruneOldEntries(h) : e.at > now - Length[w]}
           f == [j \in W |-> Timestamp(j, adm[j].at)]
           B == Append(adm, a)
<1>1. Length[w] \in Nat /\ Length["day"] \in Nat /\ Length[w] <= Length["day"]
  BY LimiterAssumption DEF Windows
<1>2. IsFiniteSet(T)
  <2>1. T \in SUBSET h  BY DEF pruneOldEntries
  <2> QED  BY <2>1, FS_Subset DEF HistoryOK
<1>3. ASSUME NEW j \in W  PROVE f[j] \in T
  <2>1. j \in 1 .. Len(adm) /\ adm[j].src \in S /\ adm[j].at > now - Length[w]
    BY DEF InWindow
  <2>0. adm[j] \in Admission  BY <2>1
  <2>2. adm[j].at \in Nat  BY <2>0 DEF Admission
  <2>3. adm[j].at > now - Length["day"]  BY <2>1, <2>2, <1>1
  <2>4. Timestamp(j, adm[j].at) \in h  BY <2>1, <2>3 DEF HistoryOK
  <2> QED  BY <2>1, <2>3, <2>4 DEF pruneOldEntries, Timestamp
<1>4. \A j, k \in W : f[j] = f[k] => j = k  BY DEF Timestamp
<1>5. IsInjective(f) /\ f \in Injection(W, T)
  BY <1>3, <1>4 DEF Injection, IsInjective
<1>6. IsFiniteSet(W) /\ Cardinality(W) <= Cardinality(T)
  BY <1>2, <1>5, FS_Injection
<1>7. /\ Len(B) = Len(adm) + 1 /\ Len(adm) \in Nat
      /\ \A n \in 1 .. Len(adm) : B[n] = adm[n]
      /\ B[Len(adm) + 1] = a
  BY AppendIs
<1>8. InWindow(B, now, w, S) \in SUBSET (W \cup {Len(adm) + 1})
  BY <1>7 DEF InWindow
<1>9. /\ IsFiniteSet(W \cup {Len(adm) + 1})
      /\ Cardinality(W \cup {Len(adm) + 1}) <= Cardinality(W) + 1
  BY <1>6, AtMostOneMore
<1>10. Cardinality(InWindow(B, now, w, S)) <= Cardinality(W \cup {Len(adm) + 1})
  BY <1>8, <1>9, FS_Subset
<1>11. Cardinality(T) < limit  BY DEF countSince
<1>12. /\ Cardinality(T) \in Nat /\ Cardinality(W) \in Nat
       /\ Cardinality(W \cup {Len(adm) + 1}) \in Nat
       /\ Cardinality(InWindow(B, now, w, S)) \in Nat
  BY <1>2, <1>6, <1>8, <1>9, FS_CardinalityType, FS_Subset
<1> HIDE DEF W, T, f, B
<1>13. Cardinality(InWindow(B, now, w, S)) <= limit
  BY <1>6, <1>9, <1>10, <1>11, <1>12
<1> QED  BY <1>13 DEF B

-------------------------------------------------------------------------------
(* The rate limits *)

\* RateRespected for one admission of adm.
RateAt(adm, i) ==
    \A w \in Windows :
       LET W == {j \in 1 .. i : adm[j].at > adm[i].at - Length[w]}
       IN  /\ adm[i].config.total[w] > 0 => Cardinality(W) <= adm[i].config.total[w]
           /\ adm[i].config.peer[w] > 0 /\ adm[i].src # NoPeer =>
                 Cardinality({j \in W : adm[j].src = adm[i].src})
                    <= adm[i].config.peer[w]

LEMMA RateIs == RateRespected <=> \A i \in DOMAIN admitted : RateAt(admitted, i)
  BY DEF RateRespected, RateAt, Within

LEMMA RateIsPrime ==
    ASSUME \A i \in DOMAIN admitted' : RateAt(admitted', i)
    PROVE  RateRespected'
  BY DEF RateRespected, RateAt, Within

LEMMA RateAppend ==
    ASSUME NEW adm \in Seq(Admission), NEW a \in Admission,
           NEW i \in 1 .. Len(adm), RateAt(adm, i)
    PROVE  RateAt(Append(adm, a), i)
<1> DEFINE B == Append(adm, a)
<1>1. Len(adm) \in Nat /\ \A n \in 1 .. Len(adm) : B[n] = adm[n]  BY AppendIs
<1>2. B[i] = adm[i]  BY <1>1
<1>3. \A j \in 1 .. i : B[j] = adm[j]  BY <1>1
<1> HIDE DEF B
<1>4. ASSUME NEW w \in Windows
      PROVE  {j \in 1 .. i : B[j].at > B[i].at - Length[w]}
               = {j \in 1 .. i : adm[j].at > adm[i].at - Length[w]}
  BY <1>2, <1>3
<1>5. ASSUME NEW V \in SUBSET (1 .. i)
      PROVE  {j \in V : B[j].src = B[i].src} = {j \in V : adm[j].src = adm[i].src}
  BY <1>2, <1>3
<1>6. ASSUME NEW w \in Windows
      PROVE  LET W == {j \in 1 .. i : B[j].at > B[i].at - Length[w]}
             IN  /\ B[i].config.total[w] > 0 => Cardinality(W) <= B[i].config.total[w]
                 /\ B[i].config.peer[w] > 0 /\ B[i].src # NoPeer =>
                       Cardinality({j \in W : B[j].src = B[i].src}) <= B[i].config.peer[w]
  <2> DEFINE V == {j \in 1 .. i : adm[j].at > adm[i].at - Length[w]}
             W == {j \in 1 .. i : B[j].at > B[i].at - Length[w]}
  <2>1. W = V  BY <1>4
  <2>2. {j \in W : B[j].src = B[i].src} = {j \in V : adm[j].src = adm[i].src}
    BY <2>1, <1>5
  <2>3. /\ adm[i].config.total[w] > 0 => Cardinality(V) <= adm[i].config.total[w]
        /\ adm[i].config.peer[w] > 0 /\ adm[i].src # NoPeer =>
              Cardinality({j \in V : adm[j].src = adm[i].src}) <= adm[i].config.peer[w]
    BY DEF RateAt
  <2> HIDE DEF V, W
  <2>4. /\ B[i].config.total[w] > 0 => Cardinality(W) <= B[i].config.total[w]
        /\ B[i].config.peer[w] > 0 /\ B[i].src # NoPeer =>
              Cardinality({j \in W : B[j].src = B[i].src}) <= B[i].config.peer[w]
    BY <1>2, <2>1, <2>2, <2>3
  <2> QED  BY <2>4 DEF W
<1>7. RateAt(B, i)  BY <1>6 DEF RateAt
<1> QED  BY <1>7 DEF B

LEMMA ConfigIs ==
    ASSUME NEW x \in Configs, NEW w \in Windows
    PROVE  x.total[w] \in Nat /\ x.peer[w] \in Nat /\ x.streams \in Int
<1>1. x \in Config  BY LimiterAssumption
<1> QED  BY <1>1 DEF Config

\* The admission that the checks let pass is within the limits in force.
LEMMA RateNew ==
    ASSUME LimiterType, TotalComplete, PeerComplete, NEW src \in Source,
           ~checkTotalRateLimits, ~checkPeerRateLimits(src)
    PROVE  RateAt(Append(admitted, [src |-> src, at |-> now, config |-> config]),
                  Len(admitted) + 1)
<1> DEFINE a == [src |-> src, at |-> now, config |-> config]
           B == Append(admitted, a)
           m == Len(admitted) + 1
<1>1. a \in Admission /\ a.src = src /\ a.at = now /\ a.config = config
  BY DEF LimiterType, Admission
<1>2. admitted \in Seq(Admission) /\ now \in Nat /\ config \in Configs
  BY DEF LimiterType
<1> HIDE DEF a
<1>3. /\ Len(B) = m /\ m \in Nat /\ B[m] = a
      /\ \A n \in 1 .. m : B[n] \in Admission
  BY <1>1, <1>2, AppendIs
<1>4. \A n \in 1 .. m : B[n].src \in Source  BY <1>3 DEF Admission
<1> HIDE DEF B, m
<1>5. ASSUME NEW w \in Windows
      PROVE  LET W == {j \in 1 .. m : B[j].at > B[m].at - Length[w]}
             IN  /\ B[m].config.total[w] > 0 => Cardinality(W) <= B[m].config.total[w]
                 /\ B[m].config.peer[w] > 0 /\ B[m].src # NoPeer =>
                       Cardinality({j \in W : B[j].src = B[m].src}) <= B[m].config.peer[w]
  <2> DEFINE W == {j \in 1 .. m : B[j].at > B[m].at - Length[w]}
  <2>1. W = InWindow(B, now, w, Source)  BY <1>1, <1>3, <1>4 DEF InWindow
  <2>2. {j \in W : B[j].src = B[m].src} = InWindow(B, now, w, {src})
    BY <1>1, <1>3 DEF InWindow
  <2>3. config.total[w] \in Nat /\ config.peer[w] \in Nat  BY <1>2, ConfigIs
  <2>4. ASSUME config.total[w] > 0
        PROVE  Cardinality(InWindow(B, now, w, Source)) <= config.total[w]
    <3>1. countSince(pruneOldEntries(totalHistory), now - Length[w]) < config.total[w]
      <4>1. ~(countSince(pruneOldEntries(totalHistory), now - Length[w]) >= config.total[w])
        BY <2>4 DEF checkTotalRateLimits, exceeds
      <4>2. countSince(pruneOldEntries(totalHistory), now - Length[w]) \in Nat
        BY FS_Subset, FS_CardinalityType DEF TotalComplete, HistoryOK, pruneOldEntries, countSince
      <4> QED  BY <4>1, <4>2, <2>3
    <3> QED  BY <3>1, <1>1, <1>2, <2>3, CountBounds DEF TotalComplete, B
  <2>5. ASSUME config.peer[w] > 0, src # NoPeer
        PROVE  Cardinality(InWindow(B, now, w, {src})) <= config.peer[w]
    <3>0. src \in Peers  BY <2>5 DEF Source
    <3>1. HistoryOK(historyOf(src), admitted, now, {src})  BY <3>0 DEF PeerComplete
    <3>2. countSince(pruneOldEntries(historyOf(src)), now - Length[w]) < config.peer[w]
      <4>1. ~(countSince(pruneOldEntries(historyOf(src)), now - Length[w]) >= config.peer[w])
        BY <2>5 DEF checkPeerRateLimits, checksPeer, exceeds
      <4>2. countSince(pruneOldEntries(historyOf(src)), now - Length[w]) \in Nat
        BY <3>1, FS_Subset, FS_CardinalityType DEF HistoryOK, pruneOldEntries, countSince
      <4> QED  BY <4>1, <4>2, <2>3
    <3> QED  BY <3>1, <3>2, <1>1, <1>2, <2>3, CountBounds DEF B
  <2> HIDE DEF W
  <2>6. /\ B[m].config.total[w] > 0 => Cardinality(W) <= B[m].config.total[w]
        /\ B[m].config.peer[w] > 0 /\ B[m].src # NoPeer =>
              Cardinality({j \in W : B[j].src = B[m].src}) <= B[m].config.peer[w]
    BY <1>1, <1>3, <2>1, <2>2, <2>4, <2>5
  <2> QED  BY <2>6 DEF W
<1>6. RateAt(B, m)  BY <1>5 DEF RateAt
<1> QED  BY <1>6 DEF B, m, a

-------------------------------------------------------------------------------
(* The limiter's steps *)

LEMMA LimiterInitially == LimiterInit => LimiterInv
<1> SUFFICES ASSUME LimiterInit PROVE LimiterInv  OBVIOUS
<1>1. IsFiniteSet({})  BY FS_EmptySet
<1>2. LimiterType  BY LimiterAssumption DEF LimiterInit, LimiterType
<1>3. TotalComplete  BY <1>1 DEF LimiterInit, TotalComplete, HistoryOK
<1>4. \A p \in Peers : historyOf(p) = {}  BY DEF LimiterInit, historyOf
<1>5. PeerComplete
  <2>1. \A p \in Peers : HistoryOK({}, admitted, now, {p})
    BY <1>1 DEF LimiterInit, HistoryOK
  <2> QED  BY <1>4, <2>1 DEF PeerComplete
<1>6. RateRespected  BY DEF LimiterInit, RateRespected
<1> QED  BY <1>2, <1>3, <1>5, <1>6 DEF LimiterInv

LEMMA LimiterIdle == LimiterInv /\ UNCHANGED limiterVars => LimiterInv'
  BY DEF LimiterInv, LimiterType, TotalComplete, PeerComplete, RateRespected, Within,
         historyOf, limiterVars

LEMMA HistoryOfChanged ==
    ASSUME NEW p \in Peers, NEW h, peerHistory' = withHistory(p, h)
    PROVE  \A q \in Peers : historyOf(q)' = IF q = p THEN h ELSE historyOf(q)
  BY DEF historyOf, withHistory

\* CheckAndRecordConnection that refuses leaves only pruned histories behind.
LEMMA RefuseKeeps ==
    ASSUME LimiterInv, NEW src \in Source, Refuse(src)
    PROVE  LimiterInv'
<1> USE DEF LimiterInv
<1>1. UNCHANGED <<now, config, activeStreams, admitted>>  BY DEF Refuse
<1>2. totalHistory' = totalHistory \/ totalHistory' = pruneOldEntries(totalHistory)
  BY DEF Refuse
<1>3. HistoryOK(pruneOldEntries(totalHistory), admitted, now, Source)
  BY PruneKeeps DEF TotalComplete
<1>4. TotalComplete'  BY <1>1, <1>2, <1>3 DEF TotalComplete
<1>5. \/ peerHistory' = peerHistory
      \/ src \in Peers /\ peerHistory' = withHistory(src, pruneOldEntries(historyOf(src)))
  BY DEF Refuse, checkPeerRateLimits, checksPeer, Source
<1>6. ASSUME NEW p \in Peers  PROVE HistoryOK(historyOf(p)', admitted, now, {p})
  <2>0. HistoryOK(historyOf(p), admitted, now, {p})  BY DEF PeerComplete
  <2>1. historyOf(p)' = historyOf(p) \/ historyOf(p)' = pruneOldEntries(historyOf(p))
    <3>1. CASE peerHistory' = peerHistory  BY <3>1 DEF historyOf
    <3>2. CASE /\ src \in Peers
               /\ peerHistory' = withHistory(src, pruneOldEntries(historyOf(src)))
      BY <3>2, HistoryOfChanged
    <3> QED  BY <1>5, <3>1, <3>2
  <2> QED  BY <2>0, <2>1, PruneKeeps
<1>7. PeerComplete'  BY <1>1, <1>6 DEF PeerComplete
<1>8. DOMAIN peerHistory' \subseteq Peers  BY <1>5 DEF LimiterType, withHistory
<1>9. LimiterType'  BY <1>1, <1>8 DEF LimiterType
<1>10. RateRespected'  BY <1>1 DEF RateRespected, Within
<1> QED  BY <1>4, <1>7, <1>9, <1>10

\* recordConnectionLocked.
LEMMA RecordKeeps ==
    ASSUME LimiterInv, NEW src \in Source, Record(src)
    PROVE  LimiterInv' /\ activeStreams' = activeStreams + 1
<1> USE DEF LimiterInv
<1> DEFINE a == [src |-> src, at |-> now, config |-> config]
           B == Append(admitted, a)
<1>1. /\ a \in Admission /\ a.at = now /\ a.src = src
      /\ admitted \in Seq(Admission) /\ now \in Nat /\ now <= MaxTime
      /\ config \in Configs /\ activeStreams \in Nat /\ activeStreams <= Len(admitted)
      /\ DOMAIN peerHistory \subseteq Peers
      /\ \A n \in 1 .. Len(admitted) : admitted[n].at <= now
  BY DEF LimiterType, Admission
<1>2. /\ now' = now /\ config' = config /\ activeStreams' = activeStreams + 1
      /\ admitted' = B /\ Len(admitted) < MaxAdmissions
      /\ totalHistory' = pruneOldEntries(totalHistory) \cup {NewTimestamp}
  BY DEF Record
<1> HIDE DEF a
<1>3. /\ B \in Seq(Admission)
      /\ Len(B) = Len(admitted) + 1 /\ Len(admitted) \in Nat
      /\ \A n \in 1 .. Len(admitted) : B[n] = admitted[n]
      /\ B[Len(admitted) + 1] = a
  BY <1>1, AppendIs
<1>4. HistoryOK(totalHistory', B, now, Source)
  <2>1. HistoryOK(pruneOldEntries(totalHistory), admitted, now, Source)
    BY PruneKeeps DEF TotalComplete
  <2> QED  BY <1>1, <1>2, <2>1, HistoryAdd DEF NewTimestamp
<1>5. TotalComplete'  BY <1>2, <1>4 DEF TotalComplete
<1>6. ASSUME NEW p \in Peers  PROVE HistoryOK(historyOf(p)', B, now, {p})
  <2>0. /\ HistoryOK(historyOf(p), admitted, now, {p})
        /\ HistoryOK(pruneOldEntries(historyOf(p)), admitted, now, {p})
    BY PruneKeeps DEF PeerComplete
  <2>1. CASE p = src
    <3>1. src # NoPeer  BY <2>1, LimiterAssumption
    <3>2. peerHistory' =
            withHistory(src, (IF checksPeer(src) THEN pruneOldEntries(historyOf(src))
                                                 ELSE historyOf(src)) \cup {NewTimestamp})
      BY <3>1 DEF Record
    <3>3. historyOf(p)' = (IF checksPeer(src) THEN pruneOldEntries(historyOf(p))
                                              ELSE historyOf(p)) \cup {NewTimestamp}
      BY <2>1, <3>2, HistoryOfChanged
    <3> QED  BY <1>1, <2>0, <3>3, HistoryAdd DEF NewTimestamp
  <2>2. CASE p # src
    <3>1. historyOf(p)' = historyOf(p)
      <4>1. CASE src = NoPeer
        <5>1. peerHistory' = peerHistory  BY <4>1 DEF Record
        <5> QED  BY <5>1 DEF historyOf
      <4>2. CASE src # NoPeer
        <5>0. src \in Peers  BY <4>2 DEF Source
        <5>1. peerHistory' =
                withHistory(src, (IF checksPeer(src) THEN pruneOldEntries(historyOf(src))
                                                     ELSE historyOf(src)) \cup {NewTimestamp})
          BY <4>2 DEF Record
        <5> QED  BY <2>2, <5>0, <5>1, HistoryOfChanged
      <4> QED  BY <4>1, <4>2
    <3>2. a.src \notin {p}  BY <1>1, <2>2
    <3> QED  BY <1>1, <2>0, <3>1, <3>2, HistorySkip
  <2> QED  BY <2>1, <2>2
<1>7. PeerComplete'  BY <1>2, <1>6 DEF PeerComplete
<1>8. DOMAIN peerHistory' \subseteq Peers
  <2>1. CASE src = NoPeer  BY <1>1, <2>1 DEF Record
  <2>2. CASE src # NoPeer
    <3>1. DOMAIN peerHistory' = DOMAIN peerHistory \cup {src}
      BY <2>2 DEF Record, withHistory
    <3> QED  BY <1>1, <2>2, <3>1 DEF Source
  <2> QED  BY <2>1, <2>2
<1>9. LimiterType'
  <2>1. \A n \in 1 .. Len(B) : B[n].at <= now  BY <1>1, <1>3
  <2>2. activeStreams + 1 \in Nat /\ activeStreams + 1 <= Len(B) /\ Len(B) <= MaxAdmissions
    BY <1>1, <1>2, <1>3, LimiterAssumption
  <2> QED  BY <1>1, <1>2, <1>3, <1>8, <2>1, <2>2 DEF LimiterType
<1>10. RateRespected'
  <2>1. RateAt(B, Len(admitted) + 1)  BY RateNew DEF Record, a
  <2>2. \A i \in 1 .. Len(admitted) : RateAt(B, i)
    <3>1. \A i \in 1 .. Len(admitted) : RateAt(admitted, i)  BY <1>1, RateIs
    <3> QED  BY <1>1, <3>1, RateAppend
  <2>3. \A i \in DOMAIN B : RateAt(B, i)  BY <1>3, <2>1, <2>2
  <2> QED  BY <1>2, <2>3, RateIsPrime
<1> QED  BY <1>2, <1>5, <1>7, <1>9, <1>10

\* CleanupStaleHistory forgets a peer only when its history is empty once pruned.
LEMMA CleanupKeeps ==
    ASSUME LimiterInv, CleanupStaleHistory
    PROVE  LimiterInv'
<1> USE DEF LimiterInv
<1>1. UNCHANGED <<now, config, activeStreams, totalHistory, admitted>>
  BY DEF CleanupStaleHistory
<1>2. ASSUME NEW p \in Peers  PROVE HistoryOK(historyOf(p)', admitted, now, {p})
  <2>1. historyOf(p)' = pruneOldEntries(historyOf(p))
    BY DEF CleanupStaleHistory, historyOf, pruneOldEntries
  <2> QED  BY <2>1, PruneKeeps DEF PeerComplete
<1>3. PeerComplete'  BY <1>1, <1>2 DEF PeerComplete
<1>4. DOMAIN peerHistory' \subseteq Peers  BY DEF CleanupStaleHistory, LimiterType
<1>5. LimiterType'  BY <1>1, <1>4 DEF LimiterType
<1>6. TotalComplete'  BY <1>1 DEF TotalComplete
<1>7. RateRespected'  BY <1>1 DEF RateRespected, Within
<1> QED  BY <1>3, <1>5, <1>6, <1>7

LEMMA SetConfigKeeps == LimiterInv /\ SetConfig => LimiterInv'
  BY DEF LimiterInv, SetConfig, LimiterType, TotalComplete, PeerComplete, RateRespected,
         Within, historyOf

LEMMA TickKeeps ==
    ASSUME LimiterInv, Tick
    PROVE  LimiterInv'
<1> USE DEF LimiterInv
<1>1. /\ now' = now + 1 /\ now < MaxTime
      /\ UNCHANGED <<config, activeStreams, totalHistory, peerHistory, admitted>>
  BY DEF Tick
<1>2. now \in Nat /\ admitted \in Seq(Admission)  BY DEF LimiterType
<1>3. TotalComplete'  BY <1>1, <1>2, TimePasses DEF TotalComplete
<1>4. ASSUME NEW p \in Peers  PROVE HistoryOK(historyOf(p)', admitted, now + 1, {p})
  <2>1. historyOf(p)' = historyOf(p)  BY <1>1 DEF historyOf
  <2> QED  BY <1>2, <2>1, TimePasses DEF PeerComplete
<1>5. PeerComplete'  BY <1>1, <1>4 DEF PeerComplete
<1>6. RateRespected'  BY <1>1 DEF RateRespected, Within
<1>7. ASSUME NEW n \in 1 .. Len(admitted)  PROVE admitted[n].at <= now + 1
  <2>1. admitted[n] \in Admission  BY <1>2
  <2>2. admitted[n].at \in Nat  BY <2>1 DEF Admission
  <2> QED  BY <1>2, <2>2 DEF LimiterType
<1>8. LimiterType'  BY <1>1, <1>2, <1>7, LimiterAssumption DEF LimiterType
<1> QED  BY <1>3, <1>5, <1>6, <1>8

LEMMA ReleaseKeeps ==
    ASSUME LimiterInv, activeStreams' = ConnectionClosed,
           UNCHANGED <<now, config, totalHistory, peerHistory, admitted>>
    PROVE  LimiterInv'
<1> USE DEF LimiterInv
<1>1. activeStreams' \in Nat /\ activeStreams' <= Len(admitted)
  BY DEF LimiterType, ConnectionClosed
<1>2. LimiterType'  BY <1>1 DEF LimiterType
<1>3. TotalComplete' /\ PeerComplete'  BY DEF TotalComplete, PeerComplete, historyOf
<1>4. RateRespected'  BY DEF RateRespected, Within
<1> QED  BY <1>2, <1>3, <1>4

-------------------------------------------------------------------------------
(* The inductive invariant: connections, table, queue and the SYN at hand *)

ConnRec == [incoming : BOOLEAN, key : Keys, closed : BOOLEAN,
            running : BOOLEAN, held : BOOLEAN, dialling : BOOLEAN]
SynRec == [pc : {"idle", "limits", "validate", "synack", "queue"}, src : Source,
           key : SynKeys \cup {None}, conn : Nat]

Queued(q, c) == \E i \in DOMAIN q : q[i] = c

ListenerType ==
    /\ conns \in Seq(ConnRec)
    /\ table \in [Keys -> Nat]
    /\ listening \in BOOLEAN /\ accepting \in BOOLEAN /\ panicked \in BOOLEAN
    /\ acceptChan \in Seq(Nat) /\ Len(acceptChan) <= AcceptBacklog
    /\ syn \in SynRec
    /\ syn.pc # "idle" => syn.key \in SynKeys

\* The SYN at hand has a connection from its creation until it is queued or given up;
\* it is an incoming one that nobody else has.
SynConn ==
    IF syn.pc \in {"synack", "queue"}
      THEN /\ syn.conn \in Conn
           /\ conns[syn.conn].incoming /\ ~conns[syn.conn].held
           /\ conns[syn.conn].key = syn.key
           /\ ~Queued(acceptChan, syn.conn)
      ELSE syn.conn = None

QueueIncoming ==
    \A c \in Nat : Queued(acceptChan, c) => c \in Conn /\ conns[c].incoming

DiallingOut ==
    \A c \in Conn : conns[c].dialling => ~conns[c].incoming /\ ~conns[c].held

TableKeys ==
    \A k \in Keys : table[k] # None => table[k] \in Conn /\ conns[table[k]].key = k

\* On the way to the application, or its own.
Reaches(c) == conns[c].held \/ Queued(acceptChan, c) \/ syn.conn = c

\* An incoming connection that packets are routed to has been closed or is on the way.
TableReaches ==
    ~panicked =>
      \A c \in Conn : conns[c].incoming /\ table[conns[c].key] = c =>
                        conns[c].closed \/ Reaches(c)

\* An open connection keeps its route from its creation, not only once it is held.
Routed ==
    \A c \in Conn : ~conns[c].closed /\ (conns[c].dialling \/ Reaches(c)) =>
        \/ table[conns[c].key] = c
        \/ \E d \in Conn \ {c} : conns[d].key = conns[c].key

ListenerShape == /\ ListenerType /\ SynConn /\ QueueIncoming /\ DiallingOut
                 /\ TableKeys /\ TableReaches /\ Routed

ClosedDialled == {c \in Conn : ~conns[c].incoming /\ conns[c].closed}
BeingAdmitted == IF syn.pc = "validate" THEN 1 ELSE 0

\* A SYN that has been counted and has no connection yet counts as one.
Counted ==
    Cardinality(OpenIncoming) + BeingAdmitted
       <= activeStreams + Cardinality(ClosedDialled)

ListenerInv == LimiterInv /\ ListenerShape /\ Counted

-------------------------------------------------------------------------------
(* Queue and connections *)

LEMMA QueueAppend ==
    ASSUME NEW q \in Seq(Nat), NEW x \in Nat
    PROVE  /\ Append(q, x) \in Seq(Nat) /\ Len(Append(q, x)) = Len(q) + 1
           /\ \A c : Queued(Append(q, x), c) <=> Queued(q, c) \/ c = x
<1>1. /\ Append(q, x) \in Seq(Nat) /\ Len(Append(q, x)) = Len(q) + 1 /\ Len(q) \in Nat
      /\ DOMAIN q = 1 .. Len(q) /\ DOMAIN Append(q, x) = 1 .. Len(q) + 1
      /\ \A i \in 1 .. Len(q) : Append(q, x)[i] = q[i]
      /\ Append(q, x)[Len(q) + 1] = x
  OBVIOUS
<1>2. ASSUME NEW c, Queued(Append(q, x), c)  PROVE Queued(q, c) \/ c = x
  BY <1>1, <1>2 DEF Queued
<1>3. ASSUME NEW c, Queued(q, c)  PROVE Queued(Append(q, x), c)
  BY <1>1, <1>3 DEF Queued
<1>4. Queued(Append(q, x), x)
  <2>1. Len(q) + 1 \in DOMAIN Append(q, x)  BY <1>1
  <2> QED  BY <1>1, <2>1 DEF Queued
<1> QED  BY <1>1, <1>2, <1>3, <1>4

LEMMA QueueTail ==
    ASSUME NEW q \in Seq(Nat), q # <<>>
    PROVE  /\ Head(q) \in Nat /\ Tail(q) \in Seq(Nat) /\ Len(Tail(q)) = Len(q) - 1
           /\ Queued(q, Head(q))
           /\ \A c : Queued(q, c) => Queued(Tail(q), c) \/ c = Head(q)
           /\ \A c : Queued(Tail(q), c) => Queued(q, c)
<1>1. /\ Len(q) \in Nat /\ Len(q) > 0 /\ Head(q) = q[1] /\ Head(q) \in Nat
      /\ DOMAIN q = 1 .. Len(q)
      /\ Tail(q) \in Seq(Nat) /\ Len(Tail(q)) = Len(q) - 1
      /\ DOMAIN Tail(q) = 1 .. Len(q) - 1
      /\ \A i \in 1 .. Len(q) - 1 : Tail(q)[i] = q[i + 1]
  OBVIOUS
<1>2. Queued(q, Head(q))
  <2>1. 1 \in DOMAIN q  BY <1>1
  <2> QED  BY <1>1, <2>1 DEF Queued
<1>3. ASSUME NEW c, Queued(q, c)  PROVE Queued(Tail(q), c) \/ c = Head(q)
  <2>1. PICK i \in 1 .. Len(q) : q[i] = c  BY <1>1, <1>3 DEF Queued
  <2>2. CASE i = 1  BY <1>1, <2>1, <2>2
  <2>3. CASE i # 1
    <3>1. i - 1 \in 1 .. Len(q) - 1 /\ (i - 1) + 1 = i  BY <1>1, <2>3
    <3>2. Tail(q)[i - 1] = c  BY <1>1, <2>1, <3>1
    <3> QED  BY <1>1, <3>1, <3>2 DEF Queued
  <2> QED  BY <2>2, <2>3
<1>4. ASSUME NEW c, Queued(Tail(q), c)  PROVE Queued(q, c)
  <2>1. PICK i \in 1 .. Len(q) - 1 : q[i + 1] = c  BY <1>1, <1>4 DEF Queued
  <2>2. i + 1 \in 1 .. Len(q)  BY <1>1
  <2> QED  BY <1>1, <2>1, <2>2 DEF Queued
<1> QED  BY <1>1, <1>2, <1>3, <1>4

\* A connection is made: the others stay as they are.
LEMMA ConnMade ==
    ASSUME conns \in Seq(ConnRec), NEW b \in BOOLEAN, NEW k \in Keys, NEW m,
           conns' = Append(conns, NewConn(b, k)), m = Len(conns) + 1
    PROVE  /\ m \in Nat /\ m # None /\ m \notin Conn
           /\ conns' \in Seq(ConnRec)
           /\ Conn' = Conn \cup {m}
           /\ \A d \in Conn : conns'[d] = conns[d]
           /\ conns'[m] = NewConn(b, k)
<1>1. NewConn(b, k) \in ConnRec  BY DEF NewConn, ConnRec
<1>2. /\ Len(conns) \in Nat
      /\ conns' \in Seq(ConnRec) /\ Len(conns') = Len(conns) + 1
      /\ \A d \in 1 .. Len(conns) : conns'[d] = conns[d]
      /\ conns'[Len(conns) + 1] = NewConn(b, k)
  BY <1>1
<1>3. m \in Nat /\ m # None /\ m \notin Conn /\ Conn' = Conn \cup {m}
  BY <1>2 DEF Conn, None
<1> QED  BY <1>2, <1>3 DEF Conn

\* A connection changes: its key and its direction never do.
LEMMA ConnChanged ==
    ASSUME conns \in Seq(ConnRec), NEW c \in Conn, NEW r \in ConnRec,
           r.incoming = conns[c].incoming, r.key = conns[c].key,
           conns' = [conns EXCEPT ![c] = r]
    PROVE  /\ conns' \in Seq(ConnRec) /\ Conn' = Conn
           /\ conns'[c] = r
           /\ \A d \in Conn : d # c => conns'[d] = conns[d]
           /\ \A d \in Conn : /\ conns'[d].incoming = conns[d].incoming
                               /\ conns'[d].key = conns[d].key
<1>1. /\ conns' \in Seq(ConnRec) /\ Len(conns') = Len(conns)
      /\ conns'[c] = r
      /\ \A d \in 1 .. Len(conns) : d # c => conns'[d] = conns[d]
  BY DEF Conn
<1> QED  BY <1>1 DEF Conn

LEMMA NewConnIs ==
    ASSUME NEW b \in BOOLEAN, NEW k
    PROVE  /\ NewConn(b, k).incoming = b /\ NewConn(b, k).key = k
           /\ NewConn(b, k).closed = FALSE /\ NewConn(b, k).held = FALSE
           /\ NewConn(b, k).dialling = ~b
  BY DEF NewConn

LEMMA ConnIs ==
    ASSUME conns \in Seq(ConnRec), NEW c \in Conn
    PROVE  /\ conns[c] \in ConnRec /\ conns[c].key \in Keys
           /\ conns[c].incoming \in BOOLEAN /\ conns[c].closed \in BOOLEAN
           /\ conns[c].running \in BOOLEAN /\ conns[c].held \in BOOLEAN
           /\ conns[c].dialling \in BOOLEAN
           /\ c \in Nat /\ c # None
<1>1. conns[c] \in ConnRec /\ c \in Nat /\ c # 0  BY DEF Conn
<1> QED  BY <1>1 DEF ConnRec, None

\* The sets that are counted.
Live(c) == ~conns[c].closed /\ conns[c].incoming /\ Reaches(c)

LEMMA OpenIs == OpenIncoming = {c \in Conn : Live(c)}
  BY DEF OpenIncoming, Open, Live, Reaches, Queued

LEMMA OpenIsPrime == OpenIncoming' = {c \in Conn' : Live(c)'}
  BY DEF OpenIncoming, Open, Live, Reaches, Queued

-------------------------------------------------------------------------------
(* The steps of SYN handling and of the application *)

LEMMA IdleIs == Idle \in SynRec /\ Idle.pc = "idle" /\ Idle.conn = None
  BY DEF Idle, SynRec, Source, None

\* The SYN at hand keeps its connection, if it has one.
SynKeepsConn ==
    /\ syn' \in SynRec /\ syn'.conn = syn.conn
    /\ syn'.pc # "idle" => syn'.key \in SynKeys
    /\ syn'.pc \in {"synack", "queue"} <=> syn.pc \in {"synack", "queue"}
    /\ syn.pc \in {"synack", "queue"} => syn'.key = syn.key

\* Steps that touch neither connections nor table nor queue, and leave the SYN its
\* connection or without one.
LEMMA QuietKeeps ==
    ASSUME ListenerShape, UNCHANGED <<conns, table, acceptChan, panicked>>,
           listening' \in BOOLEAN, accepting' \in BOOLEAN,
           SynKeepsConn
    PROVE  /\ ListenerShape'
           /\ OpenIncoming' = OpenIncoming /\ ClosedDialled' = ClosedDialled
<1> USE DEF ListenerShape, SynKeepsConn
<1>1. ListenerType'  BY DEF ListenerType
<1>2. SynConn'  BY DEF SynConn, Conn
<1>3. QueueIncoming' /\ DiallingOut' /\ TableKeys'
  BY DEF QueueIncoming, DiallingOut, TableKeys, Conn
<1>4. TableReaches' /\ Routed'  BY DEF TableReaches, Routed, Reaches, Conn
<1>5. OpenIncoming' = OpenIncoming /\ ClosedDialled' = ClosedDialled
  BY DEF OpenIncoming, Open, ClosedDialled, Conn
<1> QED  BY <1>1, <1>2, <1>3, <1>4, <1>5

LEMMA CreateKeeps ==
    ASSUME ListenerShape, createIncomingConnection, ~panicked
    PROVE  /\ ListenerShape' /\ ClosedDialled' = ClosedDialled
           /\ \E m : OpenIncoming' \subseteq OpenIncoming \cup {m}
<1> USE DEF ListenerShape
<1>0. PICK m : m = Len(conns) + 1  OBVIOUS
<1>1. /\ syn.pc = "validate" /\ syn.key \in SynKeys /\ syn.key \in Keys /\ syn \in SynRec
      /\ syn.conn = None
      /\ conns \in Seq(ConnRec) /\ table \in [Keys -> Nat] /\ acceptChan \in Seq(Nat)
  BY DEF createIncomingConnection, ListenerType, Keys, SynConn
<1>2. /\ conns' = Append(conns, NewConn(TRUE, syn.key))
      /\ table' = [table EXCEPT ![syn.key] = m]
      /\ UNCHANGED <<acceptChan, panicked, listening, accepting>>
      /\ syn' = [syn EXCEPT !.pc = "synack", !.conn = m]
  BY <1>0 DEF createIncomingConnection, listenerVars, RegisterConnection
<1>4. /\ m \in Nat /\ m # None /\ m \notin Conn /\ conns' \in Seq(ConnRec) /\ Conn' = Conn \cup {m}
      /\ \A d \in Conn : conns'[d] = conns[d]
      /\ conns'[m] = NewConn(TRUE, syn.key)
  BY <1>0, <1>1, <1>2, ConnMade
<1>3. syn' \in SynRec /\ syn'.pc = "synack" /\ syn'.conn = m /\ syn'.key = syn.key
  BY <1>1, <1>2, <1>4 DEF SynRec
<1>5. /\ conns'[m].incoming /\ conns'[m].key = syn.key /\ ~conns'[m].closed
      /\ ~conns'[m].held /\ ~conns'[m].dialling
  <2>1. conns'[m] = NewConn(TRUE, syn.key)
    BY <1>4
  <2>2. /\ NewConn(TRUE, syn.key).incoming = TRUE /\ NewConn(TRUE, syn.key).key = syn.key
        /\ NewConn(TRUE, syn.key).closed = FALSE /\ NewConn(TRUE, syn.key).held = FALSE
        /\ NewConn(TRUE, syn.key).dialling = ~TRUE
    BY NewConnIs
  <2> QED BY <2>1, <2>2
<1>6. table' \in [Keys -> Nat] /\ table'[syn.key] = m
      /\ \A k \in Keys : k # syn.key => table'[k] = table[k]
  BY <1>1, <1>2, <1>4
<1>7. \A d \in Conn : conns[d].key \in Keys /\ d # None  BY <1>1, ConnIs
<1>9. \A c \in Nat : Queued(acceptChan, c) => c \in Conn  BY DEF QueueIncoming
<1>10. ListenerType'  BY <1>2, <1>3, <1>4, <1>6, <1>1 DEF ListenerType
<1>11. SynConn'
  <2>1. m \in Conn' /\ ~Queued(acceptChan', m)  BY <1>2, <1>4, <1>9
  <2> QED  BY <1>3, <1>5, <2>1 DEF SynConn
<1>12. QueueIncoming'  BY <1>2, <1>4 DEF QueueIncoming
<1>13. DiallingOut'  BY <1>4, <1>5 DEF DiallingOut
<1>14. TableKeys'
  <2>1. ASSUME NEW x \in Keys, x # conns'[m].key, table'[x] # None
        PROVE  table'[x] \in Conn' /\ conns'[table'[x]].key = x
    <3>1. table'[x] = table[x]  BY <1>5, <1>6, <2>1
    <3>2. table[x] \in Conn /\ conns[table[x]].key = x  BY <2>1, <3>1 DEF TableKeys
    <3> QED  BY <1>4, <3>1, <3>2
  <2>2. table'[conns'[m].key] = m /\ m \in Conn'  BY <1>4, <1>5, <1>6
  <2> QED  BY <2>1, <2>2 DEF TableKeys
<1>15. \A c \in Conn : Reaches(c)' <=> Reaches(c)
  BY <1>1, <1>2, <1>3, <1>4, <1>7 DEF Reaches
<1>16. Reaches(m)'  BY <1>3 DEF Reaches
<1>17. TableReaches'  BY <1>4, <1>5, <1>6, <1>7, <1>15, <1>16 DEF TableReaches
<1>18. Routed'
  <2>1. ASSUME NEW c \in Conn, conns'[c].key = conns'[m].key
        PROVE  \E d \in Conn' \ {c} : conns'[d].key = conns'[c].key
    BY <1>4, <2>1
  <2>2. ASSUME NEW c \in Conn, conns'[c].key # conns'[m].key, ~conns'[c].closed,
               conns'[c].dialling \/ Reaches(c)'
        PROVE  \/ table'[conns'[c].key] = c
               \/ \E d \in Conn' \ {c} : conns'[d].key = conns'[c].key
    <3>1. /\ conns'[c] = conns[c] /\ conns[c].key \in Keys
          /\ table'[conns[c].key] = table[conns[c].key]
      BY <1>4, <1>5, <1>6, <1>7, <2>2
    <3>2. conns[c].dialling \/ Reaches(c)  BY <3>1, <2>2, <1>15
    <3>3. \/ table[conns[c].key] = c
          \/ \E d \in Conn \ {c} : conns[d].key = conns[c].key
      BY <2>2, <3>1, <3>2 DEF Routed
    <3> QED  BY <1>4, <3>1, <3>3
  <2>3. table'[conns'[m].key] = m  BY <1>5, <1>6
  <2> QED  BY <1>4, <2>1, <2>2, <2>3 DEF Routed
<1>19. OpenIncoming' \subseteq OpenIncoming \cup {m}
  BY <1>4, <1>15, OpenIs, OpenIsPrime DEF Live
<1>20. ClosedDialled' = ClosedDialled  BY <1>4, <1>5 DEF ClosedDialled
<1> QED  BY <1>10, <1>11, <1>12, <1>13, <1>14, <1>17, <1>18, <1>19, <1>20

LEMMA DialKeeps ==
    ASSUME ListenerShape, NEW k \in DialKeys, Dial(k), ~panicked
    PROVE  /\ ListenerShape' /\ ClosedDialled' = ClosedDialled
           /\ OpenIncoming' = OpenIncoming
<1> USE DEF ListenerShape
<1>0. PICK m : m = Len(conns) + 1  OBVIOUS
<1>1. /\ k \in Keys
      /\ conns \in Seq(ConnRec) /\ table \in [Keys -> Nat] /\ acceptChan \in Seq(Nat)
  BY DEF ListenerType, Keys
<1>2. /\ conns' = Append(conns, NewConn(FALSE, k))
      /\ table' = [table EXCEPT ![k] = m]
      /\ UNCHANGED <<acceptChan, panicked, listening, accepting, syn>>
  BY <1>0 DEF Dial, listenerVars, RegisterConnection
<1>4. /\ m \in Nat /\ m # None /\ m \notin Conn /\ conns' \in Seq(ConnRec) /\ Conn' = Conn \cup {m}
      /\ \A d \in Conn : conns'[d] = conns[d]
      /\ conns'[m] = NewConn(FALSE, k)
  BY <1>0, <1>1, <1>2, ConnMade
<1>5. /\ ~conns'[m].incoming /\ conns'[m].key = k /\ ~conns'[m].closed /\ ~conns'[m].held
  <2>1. conns'[m] = NewConn(FALSE, k)
    BY <1>4
  <2>2. /\ NewConn(FALSE, k).incoming = FALSE /\ NewConn(FALSE, k).key = k
        /\ NewConn(FALSE, k).closed = FALSE /\ NewConn(FALSE, k).held = FALSE
        /\ NewConn(FALSE, k).dialling = ~FALSE
    BY NewConnIs
  <2> QED BY <2>1, <2>2
<1>6. table' \in [Keys -> Nat] /\ table'[k] = m
      /\ \A x \in Keys : x # k => table'[x] = table[x]
  BY <1>1, <1>2, <1>4
<1>7. \A d \in Conn : conns[d].key \in Keys /\ d # None  BY <1>1, ConnIs
<1>10. ListenerType'  BY <1>2, <1>4, <1>6, <1>1 DEF ListenerType
<1>11. SynConn'  BY <1>2, <1>4 DEF SynConn
<1>12. QueueIncoming'  BY <1>2, <1>4 DEF QueueIncoming
<1>13. DiallingOut'  BY <1>4, <1>5 DEF DiallingOut
<1>14. TableKeys'
  <2>1. ASSUME NEW x \in Keys, x # conns'[m].key, table'[x] # None
        PROVE  table'[x] \in Conn' /\ conns'[table'[x]].key = x
    <3>1. table'[x] = table[x]  BY <1>5, <1>6, <2>1
    <3>2. table[x] \in Conn /\ conns[table[x]].key = x  BY <2>1, <3>1 DEF TableKeys
    <3> QED  BY <1>4, <3>1, <3>2
  <2>2. table'[conns'[m].key] = m /\ m \in Conn'  BY <1>4, <1>5, <1>6
  <2> QED  BY <2>1, <2>2 DEF TableKeys
<1>15. \A c \in Conn : Reaches(c)' <=> Reaches(c)  BY <1>2, <1>4 DEF Reaches
<1>17. TableReaches'
  BY <1>2, <1>4, <1>5, <1>6, <1>7, <1>15 DEF TableReaches
<1>18. Routed'
  <2>1. ASSUME NEW c \in Conn, conns'[c].key = conns'[m].key
        PROVE  \E d \in Conn' \ {c} : conns'[d].key = conns'[c].key
    BY <1>4, <2>1
  <2>2. ASSUME NEW c \in Conn, conns'[c].key # conns'[m].key, ~conns'[c].closed,
               conns'[c].dialling \/ Reaches(c)'
        PROVE  \/ table'[conns'[c].key] = c
               \/ \E d \in Conn' \ {c} : conns'[d].key = conns'[c].key
    <3>1. /\ conns'[c] = conns[c] /\ conns[c].key \in Keys
          /\ table'[conns[c].key] = table[conns[c].key]
      BY <1>4, <1>5, <1>6, <1>7, <2>2
    <3>2. conns[c].dialling \/ Reaches(c)  BY <3>1, <2>2, <1>15
    <3>3. \/ table[conns[c].key] = c
          \/ \E d \in Conn \ {c} : conns[d].key = conns[c].key
      BY <2>2, <3>1, <3>2 DEF Routed
    <3> QED  BY <1>4, <3>1, <3>3
  <2>3. table'[conns'[m].key] = m  BY <1>5, <1>6
  <2> QED  BY <1>4, <2>1, <2>2, <2>3 DEF Routed
<1>19. OpenIncoming' = OpenIncoming
  BY <1>4, <1>5, <1>15, OpenIs, OpenIsPrime DEF Live
<1>20. ClosedDialled' = ClosedDialled  BY <1>4, <1>5 DEF ClosedDialled
<1> QED  BY <1>10, <1>11, <1>12, <1>13, <1>14, <1>17, <1>18, <1>19, <1>20

\* Whether a connection runs is nothing to the shape of the state.
SameButRunning ==
    /\ conns' \in Seq(ConnRec) /\ Conn' = Conn
    /\ \A d \in Conn : /\ conns'[d].incoming = conns[d].incoming
                        /\ conns'[d].key = conns[d].key
                        /\ conns'[d].closed = conns[d].closed
                        /\ conns'[d].held = conns[d].held
                        /\ conns'[d].dialling = conns[d].dialling

LEMMA RunningChanges ==
    ASSUME conns \in Seq(ConnRec), NEW c \in Conn, NEW b \in BOOLEAN,
           conns' = [conns EXCEPT ![c].running = b]
    PROVE  SameButRunning
<1> DEFINE r == [conns[c] EXCEPT !.running = b]
<1>1. conns[c] \in ConnRec  BY ConnIs
<1>2. /\ r \in ConnRec /\ r.incoming = conns[c].incoming /\ r.key = conns[c].key
      /\ r.closed = conns[c].closed /\ r.held = conns[c].held
      /\ r.dialling = conns[c].dialling
  BY <1>1 DEF ConnRec
<1>3. conns' = [conns EXCEPT ![c] = r]  OBVIOUS
<1> HIDE DEF r
<1>4. /\ conns' \in Seq(ConnRec) /\ Conn' = Conn /\ conns'[c] = r
      /\ \A d \in Conn : d # c => conns'[d] = conns[d]
  BY <1>2, <1>3, ConnChanged
<1> QED  BY <1>2, <1>4 DEF SameButRunning

\* SYN handling gives a connection up: the SYN-ACK cannot be sent, or the queue is full.
LEMMA GiveUpKeeps ==
    ASSUME ListenerShape, ~panicked, syn.pc \in {"synack", "queue"}, SameButRunning,
           table' = UnregisterConnection(syn.key), syn' = Idle,
           UNCHANGED <<acceptChan, panicked, listening, accepting>>
    PROVE  /\ ListenerShape' /\ ClosedDialled' = ClosedDialled
           /\ OpenIncoming' \subseteq OpenIncoming
<1> USE DEF ListenerShape
<1>0. PICK c : c = syn.conn  OBVIOUS
<1>1. /\ conns \in Seq(ConnRec) /\ table \in [Keys -> Nat] /\ acceptChan \in Seq(Nat)
      /\ syn.key \in Keys /\ c \in Conn /\ conns[c].key = syn.key /\ ~conns[c].held
      /\ conns[c].incoming /\ ~Queued(acceptChan, c)
  BY <1>0 DEF ListenerType, SynConn, Keys
<1>3. /\ table' \in [Keys -> Nat] /\ table'[syn.key] = None
      /\ \A x \in Keys : x # syn.key => table'[x] = table[x]
  BY <1>1 DEF None, UnregisterConnection
<1>4. syn' \in SynRec /\ syn'.pc = "idle" /\ syn'.conn = None  BY IdleIs
<1>5. \A d \in Conn : conns[d].key \in Keys /\ d # None  BY <1>1, ConnIs
<1>7. ~conns[c].dialling  BY <1>1 DEF DiallingOut
<1>8. ~Reaches(c)' /\ \A d \in Conn : d # c => (Reaches(d)' <=> Reaches(d))
  BY <1>0, <1>1, <1>4, <1>5 DEF Reaches, SameButRunning
<1>10. ListenerType'  BY <1>3, <1>4 DEF ListenerType, SameButRunning
<1>11. SynConn'  BY <1>4 DEF SynConn
<1>12. QueueIncoming' /\ DiallingOut'  BY DEF QueueIncoming, DiallingOut, SameButRunning
<1>14. TableKeys'  BY <1>3 DEF TableKeys, SameButRunning
<1>15. TableReaches'
  <2>1. ASSUME NEW d \in Conn, conns'[d].incoming, table'[conns'[d].key] = d
        PROVE  conns'[d].closed \/ Reaches(d)'
    <3>1. /\ conns'[d].key = conns[d].key /\ conns[d].key \in Keys /\ d # None
          /\ conns[d].incoming /\ conns'[d].closed = conns[d].closed
      BY <1>5, <2>1 DEF SameButRunning
    <3>2. conns[d].key # syn.key  BY <1>3, <2>1, <3>1
    <3>3. d # c /\ table[conns[d].key] = d  BY <1>1, <1>3, <2>1, <3>1, <3>2
    <3>4. conns[d].closed \/ Reaches(d)  BY <3>1, <3>3 DEF TableReaches
    <3> QED  BY <1>8, <3>1, <3>3, <3>4
  <2> QED  BY <2>1 DEF TableReaches, SameButRunning
<1>16. Routed'
  <2>1. ASSUME NEW d \in Conn, ~conns'[d].closed, conns'[d].dialling \/ Reaches(d)'
        PROVE  \/ table'[conns'[d].key] = d
               \/ \E x \in Conn \ {d} : conns'[x].key = conns'[d].key
    <3>1. /\ conns'[d].key = conns[d].key /\ conns[d].key \in Keys
          /\ conns'[d].closed = conns[d].closed /\ conns'[d].dialling = conns[d].dialling
      BY <1>5 DEF SameButRunning
    <3>2. d # c  BY <1>7, <1>8, <2>1, <3>1
    <3>3. conns[d].dialling \/ Reaches(d)  BY <1>8, <2>1, <3>1, <3>2
    <3>4. \/ table[conns[d].key] = d
          \/ \E x \in Conn \ {d} : conns[x].key = conns[d].key
      BY <2>1, <3>1, <3>3 DEF Routed
    <3>5. CASE conns[d].key = syn.key  BY <1>1, <3>2, <3>5 DEF SameButRunning
    <3>6. CASE conns[d].key # syn.key  BY <1>3, <3>1, <3>4, <3>6 DEF SameButRunning
    <3> QED  BY <3>5, <3>6
  <2> QED  BY <2>1 DEF Routed, SameButRunning
<1>17. OpenIncoming' \subseteq OpenIncoming
  BY <1>8, OpenIs, OpenIsPrime DEF Live, SameButRunning
<1>18. ClosedDialled' = ClosedDialled  BY DEF ClosedDialled, SameButRunning
<1> QED  BY <1>10, <1>11, <1>12, <1>14, <1>15, <1>16, <1>17, <1>18

\* The send on acceptChan takes the connection over from SYN handling.
LEMMA EnqueueKeeps ==
    ASSUME ListenerShape, ~panicked, syn.pc = "queue", Len(acceptChan) < AcceptBacklog,
           acceptChan' = Append(acceptChan, syn.conn), syn' = Idle,
           UNCHANGED <<conns, table, panicked, listening, accepting>>
    PROVE  /\ ListenerShape' /\ ClosedDialled' = ClosedDialled
           /\ OpenIncoming' = OpenIncoming
<1> USE DEF ListenerShape
<1>0. PICK c : c = syn.conn  OBVIOUS
<1>1. /\ conns \in Seq(ConnRec) /\ acceptChan \in Seq(Nat) /\ c \in Conn
      /\ conns[c].incoming /\ c \in Nat /\ c # None
  BY <1>0, ConnIs DEF ListenerType, SynConn
<1>2. /\ acceptChan' \in Seq(Nat) /\ Len(acceptChan') = Len(acceptChan) + 1
      /\ \A x : Queued(acceptChan', x) <=> Queued(acceptChan, x) \/ x = c
  BY <1>0, <1>1, QueueAppend
<1>3. syn' \in SynRec /\ syn'.pc = "idle" /\ syn'.conn = None  BY IdleIs
<1>4. Conn' = Conn  BY DEF Conn
<1>5. \A d \in Conn : d # None  BY <1>1, ConnIs
<1>6. \A d \in Conn : Reaches(d)' <=> Reaches(d)
  BY <1>0, <1>2, <1>3, <1>5 DEF Reaches
<1>7. Len(acceptChan) + 1 <= AcceptBacklog  BY <1>1, ListenerAssumption
<1>10. ListenerType'  BY <1>2, <1>3, <1>7 DEF ListenerType
<1>11. SynConn'  BY <1>3 DEF SynConn
<1>12. QueueIncoming'  BY <1>1, <1>2, <1>4 DEF QueueIncoming
<1>13. DiallingOut' /\ TableKeys'  BY <1>4 DEF DiallingOut, TableKeys
<1>14. TableReaches' /\ Routed'  BY <1>4, <1>6 DEF TableReaches, Routed
<1>15. OpenIncoming' = OpenIncoming  BY <1>4, <1>6, OpenIs, OpenIsPrime DEF Live
<1>16. ClosedDialled' = ClosedDialled  BY <1>4 DEF ClosedDialled
<1> QED  BY <1>10, <1>11, <1>12, <1>13, <1>14, <1>15, <1>16

LEMMA QueueKeeps ==
    ASSUME ListenerShape, queueConnectionForAccept, ~panicked
    PROVE  /\ ListenerShape' /\ ClosedDialled' = ClosedDialled
           /\ OpenIncoming' \subseteq OpenIncoming
<1>1. /\ syn.pc = "queue" /\ syn' = Idle /\ UNCHANGED <<listening, accepting>>
      /\ conns \in Seq(ConnRec) /\ syn.conn \in Conn
  BY DEF queueConnectionForAccept, ListenerShape, ListenerType, SynConn
<1>2. CASE /\ Len(acceptChan) < AcceptBacklog
           /\ acceptChan' = Append(acceptChan, syn.conn)
           /\ UNCHANGED <<conns, table, panicked>>
  BY <1>1, <1>2, EnqueueKeeps
<1>3. CASE /\ conns' = [conns EXCEPT ![syn.conn].running = FALSE]
           /\ table' = UnregisterConnection(syn.key)
           /\ UNCHANGED <<acceptChan, panicked>>
  <2>1. SameButRunning  BY <1>1, <1>3, RunningChanges
  <2> QED  BY <1>1, <1>3, <2>1, GiveUpKeeps
<1>4. CASE panicked' = TRUE /\ UNCHANGED <<conns, table, acceptChan>>
  <2> USE DEF ListenerShape
  <2>1. syn' \in SynRec /\ syn'.pc = "idle" /\ syn'.conn = None  BY <1>1, IdleIs
  <2>2. Conn' = Conn  BY <1>4 DEF Conn
  <2>3. \A d \in Conn : d # None  BY <1>1, ConnIs
  <2>4. \A d \in Conn : Reaches(d)' => Reaches(d)
    BY <1>4, <2>1, <2>3 DEF Reaches
  <2>5. ListenerType'  BY <1>1, <1>4, <2>1 DEF ListenerType
  <2>6. SynConn'  BY <2>1 DEF SynConn
  <2>7. QueueIncoming' /\ DiallingOut' /\ TableKeys'
    BY <1>4, <2>2 DEF QueueIncoming, DiallingOut, TableKeys
  <2>8. TableReaches' /\ Routed'  BY <1>4, <2>2, <2>4 DEF TableReaches, Routed
  <2>9. OpenIncoming' \subseteq OpenIncoming
    BY <1>4, <2>2, <2>4, OpenIs, OpenIsPrime DEF Live
  <2>10. ClosedDialled' = ClosedDialled  BY <1>4, <2>2 DEF ClosedDialled
  <2> QED  BY <2>5, <2>6, <2>7, <2>8, <2>9, <2>10
<1> QED  BY <1>2, <1>3, <1>4 DEF queueConnectionForAccept

\* Accept hands the first of the queue to the application.
LEMMA AcceptKeeps ==
    ASSUME ListenerShape, ~panicked, acceptChan # <<>>, accepting' = FALSE,
           conns' = [conns EXCEPT ![Head(acceptChan)].held = TRUE],
           acceptChan' = Tail(acceptChan), UNCHANGED <<table, listening, syn, panicked>>
    PROVE  /\ ListenerShape' /\ ClosedDialled' = ClosedDialled
           /\ OpenIncoming' = OpenIncoming
<1> USE DEF ListenerShape
<1>0. PICK c : c = Head(acceptChan)  OBVIOUS
<1>1. /\ conns \in Seq(ConnRec) /\ acceptChan \in Seq(Nat)
      /\ Len(acceptChan) <= AcceptBacklog
  BY DEF ListenerType
<1>2. /\ c \in Nat /\ acceptChan' \in Seq(Nat) /\ Len(acceptChan') = Len(acceptChan) - 1
      /\ Queued(acceptChan, c)
      /\ \A x : Queued(acceptChan, x) => Queued(acceptChan', x) \/ x = c
      /\ \A x : Queued(acceptChan', x) => Queued(acceptChan, x)
  BY <1>0, <1>1, QueueTail
<1>3. c \in Conn /\ conns[c].incoming  BY <1>2 DEF QueueIncoming
<1>4. PICK r : r = [conns[c] EXCEPT !.held = TRUE]  OBVIOUS
<1>5. conns[c] \in ConnRec  BY <1>1, <1>3, ConnIs
<1>6. /\ r \in ConnRec /\ r.incoming = conns[c].incoming /\ r.key = conns[c].key
      /\ r.closed = conns[c].closed /\ r.held = TRUE /\ r.dialling = conns[c].dialling
  BY <1>4, <1>5 DEF ConnRec
<1>7. conns' = [conns EXCEPT ![c] = r]  BY <1>0, <1>4
<1>8. /\ conns' \in Seq(ConnRec) /\ Conn' = Conn /\ conns'[c] = r
      /\ \A d \in Conn : d # c => conns'[d] = conns[d]
  BY <1>1, <1>3, <1>6, <1>7, ConnChanged
<1>9. \A d \in Conn : /\ conns'[d].incoming = conns[d].incoming
                      /\ conns'[d].key = conns[d].key
                      /\ conns'[d].closed = conns[d].closed
                      /\ conns'[d].dialling = conns[d].dialling
  BY <1>6, <1>8
<1>10. \A d \in Conn : Reaches(d)' <=> Reaches(d)  BY <1>2, <1>3, <1>6, <1>8 DEF Reaches
<1>11. ListenerType'
  <2>1. Len(acceptChan') <= AcceptBacklog  BY <1>1, <1>2, ListenerAssumption
  <2> QED  BY <1>2, <1>8, <2>1 DEF ListenerType
<1>12. SynConn'
  <2>1. CASE syn.pc \in {"synack", "queue"}
    <3>1. syn.conn \in Conn /\ syn.conn # c  BY <1>2, <2>1 DEF SynConn
    <3>2. conns'[syn.conn] = conns[syn.conn]  BY <1>8, <3>1
    <3> QED  BY <1>2, <1>8, <2>1, <3>1, <3>2 DEF SynConn
  <2>2. CASE syn.pc \notin {"synack", "queue"}  BY <2>2 DEF SynConn
  <2> QED  BY <2>1, <2>2
<1>13. QueueIncoming'  BY <1>2, <1>8, <1>9 DEF QueueIncoming
<1>14. DiallingOut'  BY <1>3, <1>8, <1>9 DEF DiallingOut
<1>15. TableKeys'  BY <1>8, <1>9 DEF TableKeys
<1>16. TableReaches' /\ Routed'  BY <1>8, <1>9, <1>10 DEF TableReaches, Routed
<1>17. OpenIncoming' = OpenIncoming
  BY <1>8, <1>9, <1>10, OpenIs, OpenIsPrime DEF Live
<1>18. ClosedDialled' = ClosedDialled  BY <1>8, <1>9 DEF ClosedDialled
<1> QED  BY <1>11, <1>12, <1>13, <1>14, <1>15, <1>16, <1>17, <1>18

\* One connection changes, and its route may go: it may be closed, its Dial may end,
\* and only a Dial that succeeds gives it to the application.
LEMMA UpdateKeeps ==
    ASSUME ListenerShape, ~panicked, NEW c \in Conn, NEW r \in ConnRec,
           r.incoming = conns[c].incoming, r.key = conns[c].key,
           conns' = [conns EXCEPT ![c] = r],
           UNCHANGED <<acceptChan, panicked, listening, accepting>>, SynKeepsConn,
           table' = table \/ table' = UnregisterConnection(conns[c].key),
           r.dialling => conns[c].dialling /\ ~r.held,
           r.held => conns[c].held \/ conns[c].dialling,
           conns[c].held => r.held,
           conns[c].closed => r.closed,
           table' = table \/ r.closed \/ (conns[c].dialling /\ ~r.dialling /\ ~r.held)
    PROVE  /\ ListenerShape'
           /\ OpenIncoming' \subseteq OpenIncoming
           /\ r.closed => c \notin OpenIncoming'
           /\ ClosedDialled \subseteq ClosedDialled'
           /\ r.closed /\ ~conns[c].incoming => c \in ClosedDialled'
<1> USE DEF ListenerShape, SynKeepsConn
<1>1. /\ conns \in Seq(ConnRec) /\ table \in [Keys -> Nat] /\ acceptChan \in Seq(Nat)
  BY DEF ListenerType
<1>2. /\ conns' \in Seq(ConnRec) /\ Conn' = Conn /\ conns'[c] = r
      /\ \A d \in Conn : d # c => conns'[d] = conns[d]
      /\ \A d \in Conn : /\ conns'[d].incoming = conns[d].incoming
                          /\ conns'[d].key = conns[d].key
  BY <1>1, ConnChanged
<1>3. \A d \in Conn : conns[d].key \in Keys /\ d # None  BY <1>1, ConnIs
<1>4. /\ table' \in [Keys -> Nat]
      /\ \A k \in Keys : table'[k] = table[k] \/ table'[k] = None
      /\ \A k \in Keys : k # conns[c].key => table'[k] = table[k]
      /\ table' # table => table'[conns[c].key] = None
  BY <1>1, <1>3 DEF UnregisterConnection, None
<1>5. conns[c].dialling => ~conns[c].incoming /\ ~conns[c].held  BY DEF DiallingOut
<1>6. \A d \in Conn : d # c => (Reaches(d)' <=> Reaches(d))  BY <1>2 DEF Reaches
<1>7. Reaches(c) => Reaches(c)'  BY <1>2 DEF Reaches
<1>8. Reaches(c)' => Reaches(c) \/ conns[c].dialling  BY <1>2 DEF Reaches
<1>9. conns[c].dialling => ~Queued(acceptChan, c) /\ syn.conn # c
  BY <1>3, <1>5, ConnIs, <1>1 DEF QueueIncoming, SynConn
<1>10. ListenerType'  BY <1>2, <1>4 DEF ListenerType
<1>11. SynConn'
  <2>1. CASE syn.pc \in {"synack", "queue"}
    <3>1. /\ syn.conn \in Conn /\ conns[syn.conn].incoming /\ ~conns[syn.conn].held
          /\ conns[syn.conn].key = syn.key /\ ~Queued(acceptChan, syn.conn)
      BY <2>1 DEF SynConn
    <3>2. ~conns'[syn.conn].held  BY <1>2, <1>5, <3>1
    <3> QED  BY <1>2, <2>1, <3>1, <3>2 DEF SynConn
  <2>2. CASE syn.pc \notin {"synack", "queue"}  BY <2>2 DEF SynConn
  <2> QED  BY <2>1, <2>2
<1>12. QueueIncoming'  BY <1>2 DEF QueueIncoming
<1>13. DiallingOut'  BY <1>2, <1>5 DEF DiallingOut
<1>14. TableKeys'  BY <1>2, <1>4 DEF TableKeys
<1>15. TableReaches'
  <2>1. ASSUME NEW d \in Conn, conns'[d].incoming, table'[conns'[d].key] = d
        PROVE  conns'[d].closed \/ Reaches(d)'
    <3>1. conns[d].incoming /\ table[conns[d].key] = d
      BY <1>2, <1>3, <1>4, <2>1
    <3>2. conns[d].closed \/ Reaches(d)  BY <3>1 DEF TableReaches
    <3>3. CASE d = c  BY <1>2, <1>7, <3>2, <3>3
    <3>4. CASE d # c  BY <1>2, <1>6, <3>2, <3>4
    <3> QED  BY <3>3, <3>4
  <2> QED  BY <1>2, <2>1 DEF TableReaches
<1>16. Routed'
  <2>1. ASSUME NEW d \in Conn, ~conns'[d].closed, conns'[d].dialling \/ Reaches(d)'
        PROVE  \/ table'[conns'[d].key] = d
               \/ \E x \in Conn' \ {d} : conns'[x].key = conns'[d].key
    <3>1. /\ conns'[d].key = conns[d].key /\ conns[d].key \in Keys
          /\ ~conns[d].closed /\ (conns[d].dialling \/ Reaches(d))
      BY <1>2, <1>3, <1>6, <1>8, <2>1
    <3>2. \/ table[conns[d].key] = d
          \/ \E x \in Conn \ {d} : conns[x].key = conns[d].key
      BY <3>1 DEF Routed
    <3>3. CASE \E x \in Conn \ {d} : conns[x].key = conns[d].key  BY <1>2, <3>3
    <3>4. CASE table[conns[d].key] = d /\ d = c
      <4>1. table' = table
        <5>1. ASSUME conns[c].dialling, ~r.dialling, ~r.held  PROVE FALSE
          BY <1>2, <1>9, <2>1, <3>4, <5>1 DEF Reaches
        <5> QED  BY <1>2, <2>1, <3>4, <5>1
      <4> QED  BY <3>1, <3>4, <4>1
    <3>5. CASE table[conns[d].key] = d /\ d # c /\ conns[d].key = conns[c].key
      BY <1>2, <3>5
    <3>6. CASE table[conns[d].key] = d /\ conns[d].key # conns[c].key
      BY <1>4, <3>1, <3>6
    <3> QED  BY <3>2, <3>3, <3>4, <3>5, <3>6
  <2> QED  BY <1>2, <2>1 DEF Routed
<1>17. OpenIncoming' \subseteq OpenIncoming
  <2>1. ASSUME NEW d \in Conn, Live(d)'  PROVE Live(d)
    <3>1. CASE d # c  BY <1>2, <1>6, <2>1, <3>1 DEF Live
    <3>2. CASE d = c  BY <1>2, <1>5, <1>8, <2>1, <3>2 DEF Live
    <3> QED  BY <3>1, <3>2
  <2> QED  BY <1>2, <2>1, OpenIs, OpenIsPrime
<1>18. r.closed => c \notin OpenIncoming'  BY <1>2, OpenIsPrime DEF Live
<1>19. ClosedDialled \subseteq ClosedDialled'  BY <1>2 DEF ClosedDialled
<1>20. r.closed /\ ~conns[c].incoming => c \in ClosedDialled'  BY <1>2 DEF ClosedDialled
<1> QED  BY <1>10, <1>11, <1>12, <1>13, <1>14, <1>15, <1>16, <1>17, <1>18, <1>19, <1>20

LEMMA SendSynAckKeeps ==
    ASSUME ListenerShape, sendSynAck, ~panicked
    PROVE  /\ ListenerShape' /\ OpenIncoming' \subseteq OpenIncoming
           /\ ClosedDialled \subseteq ClosedDialled'
<1>1. /\ conns \in Seq(ConnRec) /\ syn.conn \in Conn /\ syn.pc = "synack"
      /\ syn \in SynRec /\ syn.key \in SynKeys
      /\ conns' = [conns EXCEPT ![syn.conn].running = ~conns[syn.conn].closed]
      /\ syn' = [syn EXCEPT !.pc = "queue"]
      /\ UNCHANGED <<table, acceptChan, panicked, listening, accepting>>
  BY DEF sendSynAck, ListenerShape, ListenerType, SynConn, listenerVars
<1>2. PICK c \in Conn : c = syn.conn  BY <1>1
<1>3. PICK r : r = [conns[c] EXCEPT !.running = ~conns[c].closed]  OBVIOUS
<1>4. conns[c] \in ConnRec  BY <1>1, <1>2, ConnIs
<1>5. /\ r \in ConnRec /\ r.incoming = conns[c].incoming /\ r.key = conns[c].key
      /\ r.closed = conns[c].closed /\ r.held = conns[c].held
      /\ r.dialling = conns[c].dialling
  BY <1>3, <1>4 DEF ConnRec
<1>6. conns' = [conns EXCEPT ![c] = r]  BY <1>1, <1>2, <1>3
<1>7. SynKeepsConn  BY <1>1 DEF SynKeepsConn, SynRec
<1>8. r.dialling => ~r.held  BY <1>2, <1>5 DEF ListenerShape, DiallingOut
<1>9. /\ r.dialling => conns[c].dialling /\ ~r.held
      /\ r.held => conns[c].held \/ conns[c].dialling
      /\ conns[c].held => r.held
      /\ conns[c].closed => r.closed
      /\ table' = table
  BY <1>1, <1>5, <1>8
<1>10. /\ r \in ConnRec /\ r.incoming = conns[c].incoming /\ r.key = conns[c].key
       /\ UNCHANGED <<acceptChan, panicked, listening, accepting>>
  BY <1>1, <1>5
<1> QED  BY <1>6, <1>7, <1>9, <1>10, UpdateKeeps

\* A step that leaves the SYN alone.
LEMMA SynUnchanged == ListenerShape /\ syn' = syn => SynKeepsConn
  BY DEF ListenerShape, ListenerType, SynKeepsConn

LEMMA DialSucceedsKeeps ==
    ASSUME ListenerShape, NEW c \in Conn, DialSucceeds(c), ~panicked
    PROVE  /\ ListenerShape' /\ OpenIncoming' \subseteq OpenIncoming
           /\ ClosedDialled \subseteq ClosedDialled'
<1>1. /\ conns \in Seq(ConnRec) /\ conns[c].dialling
      /\ conns' = [conns EXCEPT ![c].dialling = FALSE, ![c].held = TRUE,
                                ![c].running = ~conns[c].closed]
      /\ UNCHANGED <<table, acceptChan, panicked, listening, accepting, syn>>
  BY DEF DialSucceeds, ListenerShape, ListenerType, listenerVars
<1>3. PICK r : r = [conns[c] EXCEPT !.dialling = FALSE, !.held = TRUE,
                                    !.running = ~conns[c].closed]
  OBVIOUS
<1>4. conns[c] \in ConnRec  BY <1>1, ConnIs
<1>5. /\ r \in ConnRec /\ r.incoming = conns[c].incoming /\ r.key = conns[c].key
      /\ r.closed = conns[c].closed /\ r.held = TRUE /\ r.dialling = FALSE
  BY <1>3, <1>4 DEF ConnRec
<1>6. conns' = [conns EXCEPT ![c] = r]  BY <1>1, <1>3, <1>4 DEF Conn
<1>7. SynKeepsConn  BY <1>1, SynUnchanged
<1> QED  BY <1>1, <1>5, <1>6, <1>7, UpdateKeeps

LEMMA DialFailsKeeps ==
    ASSUME ListenerShape, NEW c \in Conn, DialFails(c), ~panicked
    PROVE  /\ ListenerShape' /\ OpenIncoming' \subseteq OpenIncoming
           /\ ClosedDialled \subseteq ClosedDialled'
<1>1. /\ conns \in Seq(ConnRec) /\ conns[c].dialling
      /\ conns' = [conns EXCEPT ![c].dialling = FALSE]
      /\ table' = UnregisterConnection(conns[c].key)
      /\ UNCHANGED <<acceptChan, panicked, listening, accepting, syn>>
  BY DEF DialFails, ListenerShape, ListenerType, listenerVars
<1>3. PICK r : r = [conns[c] EXCEPT !.dialling = FALSE]  OBVIOUS
<1>4. conns[c] \in ConnRec  BY <1>1, ConnIs
<1>5. /\ r \in ConnRec /\ r.incoming = conns[c].incoming /\ r.key = conns[c].key
      /\ r.closed = conns[c].closed /\ r.held = conns[c].held /\ r.dialling = FALSE
  BY <1>3, <1>4 DEF ConnRec
<1>6. conns' = [conns EXCEPT ![c] = r]  BY <1>1, <1>3
<1>7. SynKeepsConn  BY <1>1, SynUnchanged
<1>8. ~r.held  BY <1>1, <1>5 DEF ListenerShape, DiallingOut
<1> QED  BY <1>1, <1>5, <1>6, <1>7, <1>8, UpdateKeeps

LEMMA PeerClosesKeeps ==
    ASSUME ListenerShape, NEW c \in Conn, PeerCloses(c), ~panicked
    PROVE  /\ ListenerShape' /\ OpenIncoming' \subseteq OpenIncoming
           /\ ClosedDialled \subseteq ClosedDialled'
<1>1. /\ conns \in Seq(ConnRec)
      /\ conns' = [conns EXCEPT ![c].closed = TRUE]
      /\ UNCHANGED <<table, acceptChan, panicked, listening, accepting, syn>>
  BY DEF PeerCloses, ListenerShape, ListenerType, listenerVars
<1>3. PICK r : r = [conns[c] EXCEPT !.closed = TRUE]  OBVIOUS
<1>4. conns[c] \in ConnRec  BY <1>1, ConnIs
<1>5. /\ r \in ConnRec /\ r.incoming = conns[c].incoming /\ r.key = conns[c].key
      /\ r.closed = TRUE /\ r.held = conns[c].held /\ r.dialling = conns[c].dialling
  BY <1>3, <1>4 DEF ConnRec
<1>6. conns' = [conns EXCEPT ![c] = r]  BY <1>1, <1>3
<1>7. SynKeepsConn  BY <1>1, SynUnchanged
<1>8. r.dialling => ~r.held  BY <1>5 DEF ListenerShape, DiallingOut
<1> QED  BY <1>1, <1>5, <1>6, <1>7, <1>8, UpdateKeeps

\* Close releases a stream that was counted: an incoming one was open until now.
LEMMA CloseKeeps ==
    ASSUME ListenerShape, NEW c \in Conn, ConnClose(c), ~panicked
    PROVE  /\ ListenerShape' /\ OpenIncoming' \subseteq OpenIncoming
           /\ ClosedDialled \subseteq ClosedDialled'
           /\ \/ c \in OpenIncoming /\ c \notin OpenIncoming'
              \/ c \notin ClosedDialled /\ c \in ClosedDialled'
<1>1. /\ conns \in Seq(ConnRec) /\ ~conns[c].closed
      /\ conns[c].held \/ table[conns[c].key] = c
      /\ conns' = [conns EXCEPT ![c].closed = TRUE, ![c].running = FALSE]
      /\ table' = UnregisterConnection(conns[c].key)
      /\ UNCHANGED <<acceptChan, panicked, listening, accepting, syn>>
  BY DEF ConnClose, cleanupConnection, ListenerShape, ListenerType, listenerVars
<1>3. PICK r : r = [conns[c] EXCEPT !.closed = TRUE, !.running = FALSE]  OBVIOUS
<1>4. conns[c] \in ConnRec  BY <1>1, ConnIs
<1>5. /\ r \in ConnRec /\ r.incoming = conns[c].incoming /\ r.key = conns[c].key
      /\ r.closed = TRUE /\ r.held = conns[c].held /\ r.dialling = conns[c].dialling
  BY <1>3, <1>4 DEF ConnRec
<1>6. conns' = [conns EXCEPT ![c] = r]  BY <1>1, <1>3, <1>4 DEF Conn
<1>7. SynKeepsConn  BY <1>1, SynUnchanged
<1>8. r.dialling => ~r.held  BY <1>5 DEF ListenerShape, DiallingOut
<1>9. /\ ListenerShape' /\ OpenIncoming' \subseteq OpenIncoming
      /\ ClosedDialled \subseteq ClosedDialled'
      /\ c \notin OpenIncoming'
      /\ ~conns[c].incoming => c \in ClosedDialled'
  BY <1>1, <1>5, <1>6, <1>7, <1>8, UpdateKeeps
<1>10. conns[c].incoming => c \in OpenIncoming
  <2>1. conns[c].incoming => Reaches(c)
    BY <1>1 DEF ListenerShape, TableReaches, Reaches
  <2> QED  BY <1>1, <2>1, OpenIs DEF Live
<1>11. c \notin ClosedDialled  BY <1>1 DEF ClosedDialled
<1> QED  BY <1>9, <1>10, <1>11

-------------------------------------------------------------------------------
(* The count *)

LEMMA SubsetOfInterval ==
    ASSUME NEW n \in Nat, NEW S \in SUBSET (1 .. n)
    PROVE  IsFiniteSet(S) /\ Cardinality(S) \in Nat
<1>1. IsFiniteSet(1 .. n)  BY FS_Interval
<1> QED  BY <1>1, FS_Subset, FS_CardinalityType

LEMMA CountsFinite ==
    ASSUME conns \in Seq(ConnRec)
    PROVE  /\ IsFiniteSet(OpenIncoming) /\ Cardinality(OpenIncoming) \in Nat
           /\ IsFiniteSet(ClosedDialled) /\ Cardinality(ClosedDialled) \in Nat
<1>1. /\ Len(conns) \in Nat /\ OpenIncoming \in SUBSET (1 .. Len(conns))
      /\ ClosedDialled \in SUBSET (1 .. Len(conns))
  BY DEF OpenIncoming, ClosedDialled, Conn
<1> QED  BY <1>1, SubsetOfInterval

LEMMA CountsFinitePrime ==
    ASSUME conns' \in Seq(ConnRec)
    PROVE  /\ IsFiniteSet(OpenIncoming') /\ Cardinality(OpenIncoming') \in Nat
           /\ IsFiniteSet(ClosedDialled') /\ Cardinality(ClosedDialled') \in Nat
<1>1. /\ Len(conns') \in Nat /\ OpenIncoming' \in SUBSET (1 .. Len(conns'))
      /\ ClosedDialled' \in SUBSET (1 .. Len(conns'))
  BY DEF OpenIncoming, ClosedDialled, Conn
<1> QED  BY <1>1, SubsetOfInterval

\* The count holds over a step that opens no stream: the SYN that enters "validate" has
\* been counted, and a stream is released once, when it closes.
LEMMA CountedKeeps ==
    ASSUME Counted, ListenerShape, ListenerShape', activeStreams \in Nat, activeStreams' \in Nat,
           OpenIncoming' \subseteq OpenIncoming, ClosedDialled \subseteq ClosedDialled',
           \/ activeStreams' >= activeStreams /\ BeingAdmitted' <= BeingAdmitted
           \/ activeStreams' >= activeStreams + 1 /\ BeingAdmitted' <= BeingAdmitted + 1
           \/ /\ activeStreams' >= activeStreams - 1 /\ BeingAdmitted' = BeingAdmitted
              /\ \E c : \/ c \in OpenIncoming /\ c \notin OpenIncoming'
                        \/ c \notin ClosedDialled /\ c \in ClosedDialled'
    PROVE  Counted'
<1> DEFINE O == Cardinality(OpenIncoming)
           D == Cardinality(ClosedDialled)
           O1 == Cardinality(OpenIncoming')
           D1 == Cardinality(ClosedDialled')
<1>1. /\ IsFiniteSet(OpenIncoming) /\ O \in Nat /\ IsFiniteSet(ClosedDialled) /\ D \in Nat
  BY CountsFinite DEF ListenerShape, ListenerType
<1>2. /\ IsFiniteSet(OpenIncoming') /\ O1 \in Nat
      /\ IsFiniteSet(ClosedDialled') /\ D1 \in Nat
  BY CountsFinitePrime DEF ListenerShape, ListenerType
<1>3. O1 <= O /\ D <= D1  BY <1>1, <1>2, FS_Subset
<1>4. BeingAdmitted \in Nat /\ BeingAdmitted' \in Nat  BY DEF BeingAdmitted
<1>5. ASSUME NEW c \in OpenIncoming, c \notin OpenIncoming'  PROVE O1 <= O - 1
  <2>1. OpenIncoming' \in SUBSET (OpenIncoming \ {c})  BY <1>5
  <2>2. IsFiniteSet(OpenIncoming \ {c}) /\ Cardinality(OpenIncoming \ {c}) = O - 1
    BY <1>1, FS_RemoveElement
  <2>3. O1 <= Cardinality(OpenIncoming \ {c})  BY <2>1, <2>2, FS_Subset
  <2> QED  BY <2>2, <2>3
<1>6. ASSUME NEW c \in ClosedDialled', c \notin ClosedDialled  PROVE D + 1 <= D1
  <2>1. ClosedDialled \in SUBSET (ClosedDialled' \ {c})  BY <1>6
  <2>2. /\ IsFiniteSet(ClosedDialled' \ {c})
        /\ Cardinality(ClosedDialled' \ {c}) = D1 - 1
    BY <1>2, FS_RemoveElement
  <2>3. D <= Cardinality(ClosedDialled' \ {c})  BY <2>1, <2>2, FS_Subset
  <2>4. D <= D1 - 1  BY <2>2, <2>3
  <2> QED  BY <1>1, <1>2, <2>4
<1>7. O + BeingAdmitted <= activeStreams + D  BY DEF Counted
<1>8. \/ activeStreams' >= activeStreams /\ BeingAdmitted' <= BeingAdmitted
      \/ activeStreams' >= activeStreams + 1 /\ BeingAdmitted' <= BeingAdmitted + 1
      \/ /\ activeStreams' >= activeStreams - 1 /\ BeingAdmitted' = BeingAdmitted
         /\ O1 <= O - 1 \/ D + 1 <= D1
  BY <1>5, <1>6
<1> HIDE DEF O, D, O1, D1
<1>9. O1 + BeingAdmitted' <= activeStreams' + D1
  <2>1. PICK u \in Nat : u = BeingAdmitted'  BY <1>4
  <2>2. PICK v \in Nat : v = BeingAdmitted  BY <1>4
  <2>3. PICK x \in Nat : x = activeStreams  OBVIOUS
  <2>4. PICK y \in Nat : y = activeStreams'  OBVIOUS
  <2>5. O \in Nat /\ D \in Nat /\ O1 \in Nat /\ D1 \in Nat  BY <1>1, <1>2
  <2>6. O + v <= x + D  BY <1>7, <2>2, <2>3
  <2>7. \/ y >= x /\ u <= v
        \/ y >= x + 1 /\ u <= v + 1
        \/ y >= x - 1 /\ u = v /\ (O1 <= O - 1 \/ D + 1 <= D1)
    BY <1>8, <2>1, <2>2, <2>3, <2>4
  <2>8. O1 + u <= y + D1  BY <1>3, <2>5, <2>6, <2>7
  <2> QED  BY <2>1, <2>4, <2>8
<1> QED  BY <1>9 DEF Counted, O1, D1

-------------------------------------------------------------------------------
(* The invariant *)

LEMMA ListenerInitially == Init => ListenerInv
<1> SUFFICES ASSUME Init PROVE ListenerInv  OBVIOUS
<1>1. LimiterInv  BY LimiterInitially DEF Init
<1>2. /\ conns = <<>> /\ table = [k \in Keys |-> None] /\ listening = TRUE
      /\ acceptChan = <<>> /\ accepting = FALSE /\ syn = Idle /\ panicked = FALSE
      /\ activeStreams = 0
  BY DEF Init, LimiterInit
<1>3. Conn = {}  BY <1>2 DEF Conn
<1>4. syn \in SynRec /\ syn.pc = "idle" /\ syn.conn = None  BY <1>2, IdleIs
<1>5. \A c : ~Queued(acceptChan, c)  BY <1>2 DEF Queued
<1>6. ListenerType
  <2>1. <<>> \in Seq(ConnRec) /\ <<>> \in Seq(Nat) /\ Len(<<>>) <= AcceptBacklog
    BY ListenerAssumption
  <2>2. table \in [Keys -> Nat]  BY <1>2 DEF None
  <2> QED  BY <1>2, <1>4, <2>1, <2>2 DEF ListenerType
<1>7. SynConn /\ QueueIncoming /\ DiallingOut /\ TableReaches /\ Routed
  BY <1>3, <1>4, <1>5 DEF SynConn, QueueIncoming, DiallingOut, TableReaches, Routed
<1>8. TableKeys  BY <1>2 DEF TableKeys
<1>9. Counted
  <2>1. OpenIncoming = {} /\ ClosedDialled = {}  BY <1>3 DEF OpenIncoming, ClosedDialled
  <2>2. Cardinality({}) = 0  BY FS_EmptySet
  <2>3. BeingAdmitted = 0  BY <1>4 DEF BeingAdmitted
  <2> QED  BY <1>2, <2>1, <2>2, <2>3 DEF Counted
<1> QED  BY <1>1, <1>6, <1>7, <1>8, <1>9 DEF ListenerInv, ListenerShape

LEMMA ListenerStep == ListenerInv /\ [Next]_vars => ListenerInv'
<1> SUFFICES ASSUME ListenerInv, [Next]_vars PROVE ListenerInv'  OBVIOUS
<1>1. LimiterInv /\ ListenerShape /\ Counted  BY DEF ListenerInv
<1>2. activeStreams \in Nat  BY <1>1 DEF LimiterInv, LimiterType
<1>3. LimiterInv' => activeStreams' \in Nat  BY DEF LimiterInv, LimiterType
<1>4. syn \in SynRec /\ listening \in BOOLEAN /\ accepting \in BOOLEAN
  BY <1>1 DEF ListenerShape, ListenerType
<1>5. syn.pc \notin {"synack", "queue"} => syn.conn = None
  BY <1>1 DEF ListenerShape, SynConn
<1>6. syn' = syn => BeingAdmitted' = BeingAdmitted  BY DEF BeingAdmitted
<1>7. syn' = Idle => BeingAdmitted' = 0  BY IdleIs DEF BeingAdmitted
<1>8. BeingAdmitted \in {0, 1} /\ BeingAdmitted' \in {0, 1}  BY DEF BeingAdmitted
\* A step that opens no stream and does not touch the limiter.
<1>9. ASSUME UNCHANGED limiterVars, ListenerShape', OpenIncoming' \subseteq OpenIncoming,
             ClosedDialled \subseteq ClosedDialled', BeingAdmitted' <= BeingAdmitted
      PROVE  ListenerInv'
  <2>1. LimiterInv'  BY <1>1, <1>9, LimiterIdle
  <2>2. activeStreams' = activeStreams  BY <1>9 DEF limiterVars
  <2>3. activeStreams' >= activeStreams  BY <1>2, <2>2
  <2>4. Counted'  BY <1>1, <1>2, <1>3, <1>9, <2>1, <2>3, CountedKeeps
  <2> QED  BY <1>9, <2>1, <2>4 DEF ListenerInv
<1>10. CASE UNCHANGED vars
  <2>1. /\ UNCHANGED limiterVars /\ UNCHANGED <<conns, table, acceptChan, panicked>>
        /\ UNCHANGED <<listening, accepting, syn>>
    BY <1>10 DEF vars, listenerVars
  <2>2. SynKeepsConn  BY <1>1, <2>1, SynUnchanged
  <2>3. /\ ListenerShape'
        /\ OpenIncoming' = OpenIncoming /\ ClosedDialled' = ClosedDialled
    BY <1>1, <1>4, <2>1, <2>2, QuietKeeps
  <2> QED  BY <1>6, <1>8, <1>9, <2>1, <2>3
<1>11. ASSUME Next  PROVE ListenerInv'
  <2>0. ~panicked  BY <1>11 DEF Next
  <2>1. ASSUME NEW src \in Source, NEW k \in SynKeys, SynArrives(src, k)
        PROVE  ListenerInv'
    <3>1. /\ syn = Idle /\ syn' = [pc |-> "limits", src |-> src, key |-> k, conn |-> None]
          /\ UNCHANGED limiterVars /\ UNCHANGED <<conns, table, acceptChan, panicked>>
          /\ UNCHANGED <<listening, accepting>>
      BY <2>1 DEF SynArrives, listenerVars
    <3>2. SynKeepsConn  BY <3>1, IdleIs DEF SynKeepsConn, SynRec, None
    <3>3. /\ ListenerShape'
          /\ OpenIncoming' = OpenIncoming /\ ClosedDialled' = ClosedDialled
      BY <1>1, <1>4, <3>1, <3>2, QuietKeeps
    <3>4. BeingAdmitted' = 0  BY <3>1 DEF BeingAdmitted
    <3> QED  BY <1>8, <1>9, <3>1, <3>3, <3>4
  <2>2. CASE checkConnectionLimits
    <3>1. /\ syn.pc = "limits" /\ syn.src \in Source /\ syn.conn = None
          /\ syn.key \in SynKeys
          /\ UNCHANGED <<conns, table, acceptChan, panicked>>
          /\ UNCHANGED <<listening, accepting>>
      BY <1>1, <1>4, <1>5, <2>2
      DEF checkConnectionLimits, SynRec, listenerVars, ListenerShape, ListenerType
    <3>2. CASE Refuse(syn.src) /\ syn' = Idle
      <4>1. LimiterInv' /\ activeStreams' = activeStreams
        BY <1>1, <3>1, <3>2, RefuseKeeps DEF Refuse
      <4>2. SynKeepsConn  BY <3>1, <3>2, IdleIs DEF SynKeepsConn
      <4>3. /\ ListenerShape'
            /\ OpenIncoming' = OpenIncoming /\ ClosedDialled' = ClosedDialled
        BY <1>1, <1>4, <3>1, <4>2, QuietKeeps
      <4>4. activeStreams' >= activeStreams /\ BeingAdmitted' <= BeingAdmitted
        BY <1>2, <1>7, <1>8, <3>2, <4>1
      <4>5. Counted'  BY <1>1, <1>2, <1>3, <4>1, <4>3, <4>4, CountedKeeps
      <4> QED  BY <4>1, <4>3, <4>5 DEF ListenerInv
    <3>3. CASE Record(syn.src) /\ syn' = [syn EXCEPT !.pc = "validate"]
      <4>1. LimiterInv' /\ activeStreams' = activeStreams + 1
        BY <1>1, <3>1, <3>3, RecordKeeps
      <4>2. SynKeepsConn  BY <1>4, <3>1, <3>3 DEF SynKeepsConn, SynRec
      <4>3. /\ ListenerShape'
            /\ OpenIncoming' = OpenIncoming /\ ClosedDialled' = ClosedDialled
        BY <1>1, <1>4, <3>1, <4>2, QuietKeeps
      <4>4. activeStreams' >= activeStreams + 1 /\ BeingAdmitted' <= BeingAdmitted + 1
        BY <1>2, <1>8, <4>1
      <4>5. Counted'  BY <1>1, <1>2, <1>3, <4>1, <4>3, <4>4, CountedKeeps
      <4> QED  BY <4>1, <4>3, <4>5 DEF ListenerInv
    <3> QED  BY <2>2, <3>2, <3>3 DEF checkConnectionLimits
  <2>3. CASE validateFails
    <3>1. /\ syn.pc = "validate" /\ syn.conn = None /\ syn' = Idle
          /\ UNCHANGED limiterVars /\ UNCHANGED <<conns, table, acceptChan, panicked>>
          /\ UNCHANGED <<listening, accepting>>
      BY <1>5, <2>3 DEF validateFails, listenerVars
    <3>2. SynKeepsConn  BY <3>1, IdleIs DEF SynKeepsConn
    <3>3. /\ ListenerShape'
          /\ OpenIncoming' = OpenIncoming /\ ClosedDialled' = ClosedDialled
      BY <1>1, <1>4, <3>1, <3>2, QuietKeeps
    <3> QED  BY <1>7, <1>8, <1>9, <3>1, <3>3
  <2>4. CASE createIncomingConnection
    <3>1. /\ syn.pc = "validate" /\ UNCHANGED limiterVars
          /\ syn' = [syn EXCEPT !.pc = "synack", !.conn = Len(conns) + 1]
      BY <2>4 DEF createIncomingConnection
    <3>2. ListenerShape' /\ ClosedDialled' = ClosedDialled  BY <1>1, <2>0, <2>4, CreateKeeps
    <3>3. PICK m : OpenIncoming' \subseteq OpenIncoming \cup {m}
      BY <1>1, <2>0, <2>4, CreateKeeps
    <3>4. LimiterInv' /\ activeStreams' = activeStreams
      BY <1>1, <3>1, LimiterIdle DEF limiterVars
    <3>5. BeingAdmitted = 1 /\ BeingAdmitted' = 0
      BY <1>4, <3>1 DEF BeingAdmitted, SynRec
    <3>6. IsFiniteSet(OpenIncoming) /\ Cardinality(OpenIncoming) \in Nat
      BY <1>1, CountsFinite DEF ListenerShape, ListenerType
    <3>7. IsFiniteSet(OpenIncoming') /\ Cardinality(OpenIncoming') \in Nat
      BY <3>2, CountsFinitePrime DEF ListenerShape, ListenerType
    <3>8. Cardinality(OpenIncoming') <= Cardinality(OpenIncoming) + 1
      <4>1. /\ IsFiniteSet(OpenIncoming \cup {m})
            /\ Cardinality(OpenIncoming \cup {m}) <= Cardinality(OpenIncoming) + 1
        BY <3>6, AtMostOneMore
      <4>2. Cardinality(OpenIncoming') <= Cardinality(OpenIncoming \cup {m})
        BY <3>3, <4>1, FS_Subset
      <4>3. Cardinality(OpenIncoming \cup {m}) \in Nat  BY <4>1, FS_CardinalityType
      <4> QED  BY <3>6, <3>7, <4>1, <4>2, <4>3
    <3>9. Counted'
      <4>1. Cardinality(OpenIncoming) + 1 <= activeStreams + Cardinality(ClosedDialled)
        BY <1>1, <3>5 DEF Counted
      <4>2. Cardinality(OpenIncoming') + 0 <= Cardinality(OpenIncoming) + 1
        BY <3>7, <3>8
      <4>3. Cardinality(ClosedDialled) \in Nat
        BY <1>1, CountsFinite DEF ListenerShape, ListenerType
      <4>4. Cardinality(OpenIncoming') + 0 <= activeStreams + Cardinality(ClosedDialled)
        BY <1>2, <3>6, <3>7, <4>1, <4>2, <4>3
      <4> QED  BY <3>2, <3>4, <3>5, <4>4 DEF Counted
    <3> QED  BY <3>2, <3>4, <3>9 DEF ListenerInv
  <2>5. CASE sendSynAckFails
    <3>1. /\ syn.pc = "synack" /\ table' = UnregisterConnection(syn.key) /\ syn' = Idle
          /\ UNCHANGED limiterVars
          /\ UNCHANGED <<conns, acceptChan, panicked, listening, accepting>>
      BY <2>5 DEF sendSynAckFails, listenerVars
    <3>2. SameButRunning
      BY <1>1, <3>1 DEF SameButRunning, Conn, ListenerShape, ListenerType
    <3>3. /\ ListenerShape' /\ ClosedDialled' = ClosedDialled
          /\ OpenIncoming' \subseteq OpenIncoming
      BY <1>1, <2>0, <3>1, <3>2, GiveUpKeeps
    <3> QED  BY <1>7, <1>8, <1>9, <3>1, <3>3
  <2>6. CASE sendSynAck
    <3>1. UNCHANGED limiterVars  BY <2>6 DEF sendSynAck
    <3>2. BeingAdmitted' = 0  BY <1>4, <2>6 DEF sendSynAck, BeingAdmitted, SynRec
    <3> QED  BY <1>1, <1>8, <1>9, <2>0, <2>6, <3>1, <3>2, SendSynAckKeeps
  <2>7. CASE queueConnectionForAccept
    <3>1. UNCHANGED limiterVars /\ syn' = Idle  BY <2>7 DEF queueConnectionForAccept
    <3> QED  BY <1>1, <1>7, <1>8, <1>9, <2>0, <2>7, <3>1, QueueKeeps
  <2>8. CASE AcceptCall \/ ListenerClose
    <3>1. /\ UNCHANGED limiterVars /\ UNCHANGED <<conns, table, acceptChan, panicked, syn>>
          /\ listening' \in BOOLEAN /\ accepting' \in BOOLEAN
      BY <1>4, <2>8 DEF AcceptCall, ListenerClose
    <3>2. /\ ListenerShape'
          /\ OpenIncoming' = OpenIncoming /\ ClosedDialled' = ClosedDialled
      BY <1>1, <3>1, SynUnchanged, QuietKeeps
    <3> QED  BY <1>6, <1>8, <1>9, <3>1, <3>2
  <2>9. CASE AcceptReturns
    <3>1. /\ UNCHANGED limiterVars /\ UNCHANGED <<table, listening, syn, panicked>>
          /\ accepting' = FALSE
      BY <2>9 DEF AcceptReturns
    <3>2. CASE /\ acceptChan # <<>> /\ acceptChan' = Tail(acceptChan)
               /\ conns' = [conns EXCEPT ![Head(acceptChan)].held = TRUE]
      <4>1. /\ ListenerShape' /\ ClosedDialled' = ClosedDialled
            /\ OpenIncoming' = OpenIncoming
        BY <1>1, <2>0, <3>1, <3>2, AcceptKeeps
      <4> QED  BY <1>6, <1>8, <1>9, <3>1, <4>1
    <3>3. CASE UNCHANGED <<conns, acceptChan>>
      <4>1. /\ ListenerShape'
            /\ OpenIncoming' = OpenIncoming /\ ClosedDialled' = ClosedDialled
        BY <1>1, <1>4, <3>1, <3>3, SynUnchanged, QuietKeeps
      <4> QED  BY <1>6, <1>8, <1>9, <3>1, <4>1
    <3> QED  BY <2>9, <3>2, <3>3 DEF AcceptReturns
  <2>10. ASSUME NEW k \in DialKeys, Dial(k)  PROVE ListenerInv'
    <3>1. UNCHANGED limiterVars /\ syn' = syn  BY <2>10 DEF Dial
    <3> QED  BY <1>1, <1>6, <1>8, <1>9, <2>0, <2>10, <3>1, DialKeeps
  <2>11. ASSUME NEW c \in Conn, DialSucceeds(c)  PROVE ListenerInv'
    <3>1. UNCHANGED limiterVars /\ syn' = syn  BY <2>11 DEF DialSucceeds
    <3> QED  BY <1>1, <1>6, <1>8, <1>9, <2>0, <2>11, <3>1, DialSucceedsKeeps
  <2>12. ASSUME NEW c \in Conn, DialFails(c)  PROVE ListenerInv'
    <3>1. UNCHANGED limiterVars /\ syn' = syn  BY <2>12 DEF DialFails
    <3> QED  BY <1>1, <1>6, <1>8, <1>9, <2>0, <2>12, <3>1, DialFailsKeeps
  <2>13. ASSUME NEW c \in Conn, ConnClose(c)  PROVE ListenerInv'
    <3>1. /\ activeStreams' = ConnectionClosed /\ syn' = syn
          /\ UNCHANGED <<now, config, totalHistory, peerHistory, admitted>>
      BY <2>13 DEF ConnClose, cleanupConnection
    <3>2. LimiterInv'  BY <1>1, <3>1, ReleaseKeeps
    <3>3. activeStreams' >= activeStreams - 1 /\ activeStreams' \in Nat
      BY <1>2, <3>1 DEF ConnectionClosed
    <3>4. /\ ListenerShape' /\ OpenIncoming' \subseteq OpenIncoming
          /\ ClosedDialled \subseteq ClosedDialled'
          /\ \/ c \in OpenIncoming /\ c \notin OpenIncoming'
             \/ c \notin ClosedDialled /\ c \in ClosedDialled'
      BY <1>1, <2>0, <2>13, CloseKeeps
    <3>5. Counted'
      <4>1. \E d : \/ d \in OpenIncoming /\ d \notin OpenIncoming'
                   \/ d \notin ClosedDialled /\ d \in ClosedDialled'
        BY <3>4, Zenon
      <4>2. BeingAdmitted' = BeingAdmitted  BY <1>6, <3>1
      <4>3. \/ activeStreams' >= activeStreams /\ BeingAdmitted' <= BeingAdmitted
            \/ activeStreams' >= activeStreams + 1 /\ BeingAdmitted' <= BeingAdmitted + 1
            \/ /\ activeStreams' >= activeStreams - 1 /\ BeingAdmitted' = BeingAdmitted
               /\ \E d : \/ d \in OpenIncoming /\ d \notin OpenIncoming'
                         \/ d \notin ClosedDialled /\ d \in ClosedDialled'
        BY <3>3, <4>1, <4>2, Zenon
      <4> QED  BY <1>1, <1>2, <3>3, <3>4, <4>3, CountedKeeps, Zenon
    <3> QED  BY <3>2, <3>4, <3>5 DEF ListenerInv
  <2>14. ASSUME NEW c \in Conn, ConnCloseAgain(c)  PROVE ListenerInv'
    BY <1>10, <2>14 DEF ConnCloseAgain
  <2>15. ASSUME NEW c \in Conn, PeerCloses(c)  PROVE ListenerInv'
    <3>1. UNCHANGED limiterVars /\ syn' = syn  BY <2>15 DEF PeerCloses
    <3> QED  BY <1>1, <1>6, <1>8, <1>9, <2>0, <2>15, <3>1, PeerClosesKeeps
  <2>16. CASE LimiterStep
    <3>1. /\ UNCHANGED <<conns, table, acceptChan, panicked, syn>>
          /\ UNCHANGED <<listening, accepting>>
      BY <2>16 DEF LimiterStep, listenerVars
    <3>2. LimiterInv' /\ activeStreams' = activeStreams
      BY <1>1, <2>16, CleanupKeeps, SetConfigKeeps, TickKeeps
      DEF LimiterStep, CleanupStaleHistory, SetConfig, Tick
    <3>3. /\ ListenerShape'
          /\ OpenIncoming' = OpenIncoming /\ ClosedDialled' = ClosedDialled
      BY <1>1, <1>4, <3>1, SynUnchanged, QuietKeeps
    <3>4. activeStreams' >= activeStreams /\ BeingAdmitted' <= BeingAdmitted
      BY <1>2, <1>6, <1>8, <3>1, <3>2
    <3>5. Counted'  BY <1>1, <1>2, <1>3, <3>2, <3>3, <3>4, CountedKeeps
    <3> QED  BY <3>2, <3>3, <3>5 DEF ListenerInv
  <2> QED
    BY <1>11, <2>1, <2>2, <2>3, <2>4, <2>5, <2>6, <2>7, <2>8, <2>9, <2>10, <2>11, <2>12,
       <2>13, <2>14, <2>15, <2>16 DEF Next
<1> QED  BY <1>10, <1>11

LEMMA ListenerAlways == Spec => []ListenerInv
  BY ListenerInitially, ListenerStep, PTL DEF Spec

-------------------------------------------------------------------------------
(* The theorems *)

LEMMA SeqNarrows ==
    ASSUME NEW S, NEW T, NEW q \in Seq(S), \A i \in 1 .. Len(q) : q[i] \in T
    PROVE  q \in Seq(T)
  OBVIOUS

\* What TypeOK says of a history.
LEMMA HistoryTyped ==
    ASSUME LimiterType, NEW h, NEW S, HistoryOK(h, admitted, now, S)
    PROVE  h \subseteq [admission : 1 .. MaxAdmissions, at : 0 .. now]
<1> SUFFICES ASSUME NEW e \in h
             PROVE  e \in [admission : 1 .. MaxAdmissions, at : 0 .. now]
  OBVIOUS
<1>1. e \in Stamp /\ e.admission \in 1 .. Len(admitted) /\ e.at <= now  BY DEF HistoryOK
<1>2. Len(admitted) \in Nat /\ Len(admitted) <= MaxAdmissions /\ now \in Nat
  BY DEF LimiterType
<1>3. e.at \in 0 .. now  BY <1>1, <1>2 DEF Stamp
<1>4. e.admission \in 1 .. MaxAdmissions  BY <1>1, <1>2, LimiterAssumption
<1>5. e = [admission |-> e.admission, at |-> e.at]  BY <1>1 DEF Stamp
<1> QED  BY <1>3, <1>4, <1>5

LEMMA InvIsTyped == ListenerInv => TypeOK
<1> SUFFICES ASSUME ListenerInv PROVE TypeOK  OBVIOUS
<1> USE DEF ListenerInv, LimiterInv, ListenerShape
<1>1. /\ now \in 0 .. MaxTime /\ config \in Configs /\ activeStreams \in 0 .. MaxAdmissions
      /\ DOMAIN peerHistory \subseteq Peers
  BY LimiterAssumption DEF LimiterType
<1>2. totalHistory \subseteq [admission : 1 .. MaxAdmissions, at : 0 .. now]
  BY HistoryTyped DEF TotalComplete
<1>3. ASSUME NEW p \in DOMAIN peerHistory
      PROVE  peerHistory[p] \subseteq [admission : 1 .. MaxAdmissions, at : 0 .. now]
  <2>1. p \in Peers /\ historyOf(p) = peerHistory[p]  BY <1>1 DEF historyOf
  <2>2. HistoryOK(peerHistory[p], admitted, now, {p})  BY <2>1 DEF PeerComplete
  <2> QED  BY <2>2, HistoryTyped
<1>4. admitted \in Seq([src : Source, at : 0 .. now, config : Configs])
  <2>1. admitted \in Seq(Admission) /\ now \in Nat  BY DEF LimiterType
  <2>2. ASSUME NEW i \in 1 .. Len(admitted)
        PROVE  admitted[i] \in [src : Source, at : 0 .. now, config : Configs]
    <3>1. admitted[i] \in Admission /\ admitted[i].at <= now  BY <2>1 DEF LimiterType
    <3> QED  BY <2>1, <3>1 DEF Admission
  <2> QED  BY <2>1, <2>2, SeqNarrows
<1>5. LimiterTypeOK  BY <1>1, <1>2, <1>3, <1>4 DEF LimiterTypeOK
<1>6. table \in [Keys -> {None} \cup Conn]  BY DEF ListenerType, TableKeys
<1>7. acceptChan \in Seq(Conn)
  <2>1. acceptChan \in Seq(Nat)  BY DEF ListenerType
  <2>2. ASSUME NEW i \in 1 .. Len(acceptChan)  PROVE acceptChan[i] \in Conn
    <3>1. acceptChan[i] \in Nat /\ i \in DOMAIN acceptChan  BY <2>1
    <3>2. Queued(acceptChan, acceptChan[i])  BY <3>1 DEF Queued
    <3> QED  BY <3>1, <3>2 DEF QueueIncoming
  <2> QED  BY <2>1, <2>2, SeqNarrows
<1>8. syn.pc \in {"idle", "limits", "validate", "synack", "queue"}
  BY DEF ListenerType, SynRec
<1> QED  BY <1>5, <1>6, <1>7, <1>8 DEF TypeOK, ListenerType, ConnRec

\* The state of admission stays well formed: activeStreams is never negative, the
\* accept queue never exceeds its backlog, and what is queued or in the table exists.
THEOREM ListenerTypeCorrect == Spec => []TypeOK
  BY ListenerAlways, InvIsTyped, PTL

\* The rate limits hold at every admission, whatever limits are set and changed, however
\* the histories are pruned and forgotten (CheckAndRecordConnection).
THEOREM RatesAlwaysRespected == Spec => []RateRespected
<1>1. ListenerInv => RateRespected  BY DEF ListenerInv, LimiterInv
<1> QED  BY <1>1, ListenerAlways, PTL

\* No interleaving of SYN handling, Accept, Close and the peer's CLOSE releases a stream
\* twice: activeStreams undercounts the open incoming streams only by dialled streams
\* that were closed (cleanupConnectionLocked).
THEOREM ActiveNeverUndercounts == Spec => []NeverUndercounts
<1>1. ListenerInv => NeverUndercounts
  <2> SUFFICES ASSUME ListenerInv PROVE NeverUndercounts  OBVIOUS
  <2>1. /\ Cardinality(OpenIncoming) \in Nat /\ Cardinality(ClosedDialled) \in Nat
        /\ activeStreams \in Nat
    BY CountsFinite
    DEF ListenerInv, ListenerShape, ListenerType, LimiterInv, LimiterType
  <2>2. BeingAdmitted \in Nat  BY DEF BeingAdmitted
  <2>3. Cardinality(OpenIncoming) + BeingAdmitted
          <= activeStreams + Cardinality(ClosedDialled)
    BY DEF ListenerInv, Counted
  <2>4. Cardinality(OpenIncoming) <= activeStreams + Cardinality(ClosedDialled)
    BY <2>1, <2>2, <2>3
  <2> QED  BY <2>4 DEF NeverUndercounts, ClosedDialled
<1> QED  BY <1>1, ListenerAlways, PTL

\* A connection the application holds loses its route only to another connection on the
\* same pair of ports (RegisterConnection, UnregisterConnection).
THEOREM RoutesLostOnlyByClash == Spec => []RouteLostOnlyByClash
<1>1. ListenerInv => RouteLostOnlyByClash
  BY DEF ListenerInv, ListenerShape, Routed, Reaches, RouteLostOnlyByClash
<1> QED  BY <1>1, ListenerAlways, PTL
===============================================================================
