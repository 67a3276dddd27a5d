------------------------------- MODULE Limiter -------------------------------
(***************************************************************************)
(* The connection limiter of go-streaming (limits.go): how many streams    *)
(* are active, and when connections were admitted, in total and per peer.  *)
(* Every operation runs under cl.mu, so it is one step; the operators here *)
(* are the steps a caller (Listener) takes.  A history lists the times of  *)
(* admission; the code only filters and counts it, so its order is left    *)
(* out: it is a set of entries, and two admissions at one time are two     *)
(* entries.  The clock is monotonic, as Go's time.Now is.                  *)
(***************************************************************************)
EXTENDS Integers, Sequences, FiniteSets

CONSTANTS
    Peers,               \* remote destinations
    NoPeer,              \* a nil destination
    Length,              \* Length[w]: the length of window w on the clock
    Configs,             \* the configurations the application sets
    MaxTime,             \* bound on the clock
    MaxAdmissions        \* bound on admissions

Windows == {"minute", "hour", "day"}
Source == Peers \cup {NoPeer}

\* ConnectionLimitsConfig; a limit of 0 (for streams also a negative one) is off.
Config == [streams : Int, total : [Windows -> Nat], peer : [Windows -> Nat]]

ASSUME LimiterAssumption ==
    /\ NoPeer \notin Peers
    /\ Length \in [Windows -> Nat \ {0}]
    /\ \A w \in Windows : Length[w] <= Length["day"]
    /\ Configs \subseteq Config
    /\ MaxTime \in Nat /\ MaxAdmissions \in Nat

VARIABLES
    now,                 \* time.Now()
    config,              \* cl.config
    activeStreams,       \* cl.activeStreams
    totalHistory,        \* cl.totalHistory.timestamps
    peerHistory,         \* cl.peerHistory: peer -> timestamps, absent peers left out
    admitted             \* history: every admission, with the limits it was under

limiterVars == <<now, config, activeStreams, totalHistory, peerHistory, admitted>>

LimiterInit ==
    /\ now = 0
    /\ config \in Configs
    /\ activeStreams = 0
    /\ totalHistory = {}
    /\ peerHistory = [p \in {} |-> {}]
    /\ admitted = <<>>
------------------------------------------------------------------------------
\* The timestamp that admission n adds to a history.
Timestamp(n, at) == [admission |-> n, at |-> at]

countSince(h, since) == Cardinality({e \in h : e.at > since})

\* Slip: entries that the limits per day still need are dropped.
pruneToTheHour(h) == {e \in h : e.at > now - Length["hour"]}

pruneOldEntries(h) == {e \in h : e.at > now - Length["day"]}

\* Does one more admission break one of the limits?
exceeds(h, limits) ==
    \E w \in Windows : limits[w] > 0 /\ countSince(h, now - Length[w]) >= limits[w]

checkConcurrentLimit == config.streams > 0 /\ activeStreams >= config.streams

historyOf(p) == IF p \in DOMAIN peerHistory THEN peerHistory[p] ELSE {}

withHistory(p, h) ==
    [q \in DOMAIN peerHistory \cup {p} |-> IF q = p THEN h ELSE peerHistory[q]]

\* The per-peer check looks a history up, creates and prunes it only when there
\* is a destination and a per-peer limit is on.
checksPeer(src) == src # NoPeer /\ \E w \in Windows : config.peer[w] > 0

checkTotalRateLimits == exceeds(pruneOldEntries(totalHistory), config.total)
checkPeerRateLimits(src) ==
    checksPeer(src) /\ exceeds(pruneOldEntries(historyOf(src)), config.peer)

\* The connection is refused; the histories the checks looked at stay pruned.
Refuse(src) ==
    /\ \/ /\ checkConcurrentLimit
          /\ UNCHANGED <<totalHistory, peerHistory>>
       \/ /\ ~checkConcurrentLimit /\ checkTotalRateLimits
          /\ totalHistory' = pruneOldEntries(totalHistory)
          /\ UNCHANGED peerHistory
       \/ /\ ~checkConcurrentLimit /\ ~checkTotalRateLimits
          /\ checkPeerRateLimits(src)
          /\ totalHistory' = pruneOldEntries(totalHistory)
          /\ peerHistory' = withHistory(src, pruneOldEntries(historyOf(src)))
    /\ UNCHANGED <<now, config, activeStreams, admitted>>

NewTimestamp == Timestamp(Len(admitted) + 1, now)

\* The checks pass: recordConnectionLocked.
Record(src) ==
    /\ ~checkConcurrentLimit /\ ~checkTotalRateLimits /\ ~checkPeerRateLimits(src)
    /\ Len(admitted) < MaxAdmissions
    /\ activeStreams' = activeStreams + 1
    /\ totalHistory' = pruneOldEntries(totalHistory) \cup {NewTimestamp}
    /\ peerHistory' =
          IF src = NoPeer THEN peerHistory
          ELSE withHistory(src, (IF checksPeer(src) THEN pruneOldEntries(historyOf(src))
                                                    ELSE historyOf(src)) \cup {NewTimestamp})
    /\ admitted' = Append(admitted, [src |-> src, at |-> now, config |-> config])
    /\ UNCHANGED <<now, config>>

\* Slip: the count is lowered without looking at it.
ConnectionClosedNoFloor == activeStreams - 1

\* ConnectionClosed, as the new value of activeStreams.
ConnectionClosed == IF activeStreams > 0 THEN activeStreams - 1 ELSE activeStreams

\* CleanupStaleHistory: peers with no admission in the last day are forgotten.
CleanupStaleHistory ==
    /\ peerHistory' = [p \in {q \in DOMAIN peerHistory :
                                 pruneOldEntries(peerHistory[q]) # {}} |->
                          pruneOldEntries(peerHistory[p])]
    /\ UNCHANGED <<now, config, activeStreams, totalHistory, admitted>>

SetConfig ==
    /\ config' \in Configs
    /\ UNCHANGED <<now, activeStreams, totalHistory, peerHistory, admitted>>

Tick ==
    /\ now < MaxTime
    /\ now' = now + 1
    /\ UNCHANGED <<config, activeStreams, totalHistory, peerHistory, admitted>>
------------------------------------------------------------------------------
LimiterTypeOK ==
    /\ now \in 0 .. MaxTime
    /\ config \in Configs
    /\ activeStreams \in 0 .. MaxAdmissions
    /\ totalHistory \subseteq [admission : 1 .. MaxAdmissions, at : 0 .. now]
    /\ DOMAIN peerHistory \subseteq Peers
    /\ \A p \in DOMAIN peerHistory :
          peerHistory[p] \subseteq [admission : 1 .. MaxAdmissions, at : 0 .. now]
    /\ admitted \in Seq([src : Source, at : 0 .. now, config : Configs])

\* Admissions up to the i-th that fall in the window w that ends with it.
Within(i, w) == {j \in 1 .. i : admitted[j].at > admitted[i].at - Length[w]}

\* No admission ever made more connections in a window than the limits in force
\* at that moment allow, in total and for its peer (checkTotalRateLimitsLocked,
\* checkPeerRateLimitsLocked), although histories are pruned, forgotten and
\* recorded while limits are off, and limits change at run time.
RateRespected ==
    \A i \in DOMAIN admitted : \A w \in Windows :
       LET limits == admitted[i].config
           src    == admitted[i].src
       IN  /\ limits.total[w] > 0 => Cardinality(Within(i, w)) <= limits.total[w]
           /\ limits.peer[w] > 0 /\ src # NoPeer =>
                 Cardinality({j \in Within(i, w) : admitted[j].src = src})
                    <= limits.peer[w]
==============================================================================
