---------------------------- MODULE Services_proofs ----------------------------
(***************************************************************************)
(* Safety of the services of the manager that wait for somebody: requests  *)
(* (Requests) and the message status tracker (MessageStatus), for every    *)
(* value of their constants.                                               *)
(***************************************************************************)
EXTENDS MCServices, TLAPS

-------------------------------------------------------------------------------
(* Requests *)

PingStates == {"idle", "stored", "waiting", "pong", "timeout", "error"}
LookupStates == {"idle", "sent", "waiting", "answer", "cancelled", "error"}

RequestsInv ==
    /\ ping \in [Pings -> PingStates]
    /\ lookup \in [Lookups -> LookupStates]
    /\ NoPendingLeak

\* The steps of a ping and of the dispatcher keep the table of pings exact: an entry
\* goes with every return of its Ping, and with nothing else.
LEMMA PingStepInv ==
    ASSUME RequestsInv, NEW p \in Pings, PingStep(p)
    PROVE  RequestsInv'
<1> USE DEF RequestsInv, NoPendingLeak, PingStates, lookupVars
<1>1. CASE PingStore(p)
  BY <1>1 DEF PingStore
<1>2. CASE sendPingPacket(p)
  BY <1>2 DEF sendPingPacket, PingReturn
<1>3. CASE PingResult(p)
  BY <1>3 DEF PingResult, PingReturn
<1>4. CASE PingTimeout(p)
  BY <1>4 DEF PingTimeout, PingReturn
<1>5. CASE handlePing(p)
  BY <1>5 DEF handlePing
<1>6. CASE handlePong(p)
  BY <1>6 DEF handlePong
<1> QED
  BY <1>1, <1>2, <1>3, <1>4, <1>5, <1>6 DEF PingStep

\* The same of a lookup: its entry is there from the moment it waits.
LEMMA LookupStepInv ==
    ASSUME RequestsInv, NEW l \in Lookups, LookupStep(l)
    PROVE  RequestsInv'
<1> USE DEF RequestsInv, NoPendingLeak, LookupStates, pingVars
<1>1. CASE DestinationLookup(l)
  BY <1>1 DEF DestinationLookup
<1>2. CASE StoreLookup(l)
  BY <1>2 DEF StoreLookup
<1>3. CASE handleDestinationResult(l)
  BY <1>3 DEF handleDestinationResult
<1>4. CASE LookupReturns(l)
  BY <1>4 DEF LookupReturns
<1> QED
  BY <1>1, <1>2, <1>3, <1>4 DEF LookupStep

\* The tables of pending pings and lookups hold the calls that run and no other,
\* whatever way a call returns and in whatever order answers, timeouts and failed sends
\* happen (Ping's deferred delete, LookupDestination's delete on each return).
THEOREM PendingTablesExact == RequestsSpec => []NoPendingLeak
<1>1. RequestsInit => RequestsInv
  BY DEF RequestsInit, RequestsInv, NoPendingLeak, PingStates, LookupStates
<1>2. RequestsInv /\ [RequestsNext]_requestVars => RequestsInv'
  <2> SUFFICES ASSUME RequestsInv, [RequestsNext]_requestVars
               PROVE  RequestsInv'
    OBVIOUS
  <2>1. CASE \E p \in Pings : PingStep(p)
    BY <2>1, PingStepInv
  <2>2. CASE SetPingConfig \/ deliverPong
    BY <2>2 DEF SetPingConfig, deliverPong, RequestsInv, NoPendingLeak, lookupVars
  <2>3. CASE \E l \in Lookups : LookupStep(l)
    BY <2>3, LookupStepInv
  <2>4. CASE UNCHANGED requestVars
    BY <2>4 DEF requestVars, pingVars, lookupVars, RequestsInv, NoPendingLeak
  <2> QED
    BY <2>1, <2>2, <2>3, <2>4 DEF RequestsNext
<1>3. RequestsInv => NoPendingLeak
  BY DEF RequestsInv
<1> QED
  BY <1>1, <1>2, <1>3, PTL DEF RequestsSpec

-------------------------------------------------------------------------------
(* MessageStatus *)

Counts == [sent : {0, 1}, ended : {0, 1}]

\* A tracked message is counted as sent and not yet as ended; what is not tracked may
\* have been counted either way, but not as ended without being sent.
StatusInv ==
    /\ sending \in [Senders -> Messages \cup {NoMessage}]
    /\ stats \in [Messages -> Counts]
    /\ DOMAIN pendingMessages \subseteq Messages
    /\ \A m \in DOMAIN pendingMessages : stats[m].sent = 1 /\ stats[m].ended = 0
    /\ CountedOnce

\* The send path enters a message once: only one that was never counted as sent.
LEMMA SenderStepInv ==
    ASSUME StatusInv, NEW c \in Senders, SenderStep(c)
    PROVE  StatusInv'
<1> USE DEF StatusInv, CountedOnce, Counts
<1>1. ASSUME NEW m \in Messages, SendBegin(c, m)
      PROVE  StatusInv'
  BY <1>1 DEF SendBegin
<1>2. CASE TrackMessage(c)
  <2> DEFINE m == sending[c]
  <2>1. m \in Messages /\ stats[m].sent = 0
    BY <1>2 DEF TrackMessage
  <2>2. stats[m].ended = 0
    BY <2>1
  <2>3. stats' = [stats EXCEPT ![m].sent = 1] /\ UNCHANGED sending
    BY <1>2 DEF TrackMessage
  <2>4. stats'[m] = [sent |-> 1, ended |-> 0] /\ \A n \in Messages \ {m} : stats'[n] = stats[n]
    BY <2>1, <2>2, <2>3
  <2>5. stats' \in [Messages -> Counts]
    BY <2>1, <2>3, <2>4
  <2>6. DOMAIN pendingMessages' = DOMAIN pendingMessages \cup {m}
    BY <1>2 DEF TrackMessage
  <2> QED
    BY <2>1, <2>3, <2>4, <2>5, <2>6
<1>3. CASE SendMessage(c)
  BY <1>3 DEF SendMessage
<1> QED
  BY <1>1, <1>2, <1>3 DEF SenderStep

\* The callback counts the end of a message when it takes its entry out, never without.
LEMMA HandleStatusInv ==
    ASSUME StatusInv, NEW m \in Messages, NEW status \in Statuses, HandleStatus(m, status)
    PROVE  StatusInv'
<1> USE DEF StatusInv, CountedOnce, Counts
<1>1. CASE m \in DOMAIN pendingMessages
  <2>1. stats[m].sent = 1 /\ stats[m].ended = 0
    BY <1>1
  <2>2. stats' = [stats EXCEPT ![m].ended = @ + (IF status = "accepted" THEN 0 ELSE 1)]
    BY <1>1 DEF HandleStatus
  <2>3. /\ stats'[m].sent = 1 /\ stats'[m].ended \in {0, 1} /\ stats'[m] \in Counts
        /\ \A n \in Messages \ {m} : stats'[n] = stats[n]
    BY <2>1, <2>2
  <2>4. stats' \in [Messages -> Counts]
    BY <2>2, <2>3
  <2>5. DOMAIN pendingMessages' = DOMAIN pendingMessages \ {m} /\ UNCHANGED sending
    BY <1>1 DEF HandleStatus, Restrict
  <2> QED
    BY <2>3, <2>4, <2>5
<1>2. CASE m \notin DOMAIN pendingMessages
  BY <1>2 DEF HandleStatus
<1> QED
  BY <1>1, <1>2

\* So does CleanupExpired.
LEMMA CleanupExpiredInv ==
    ASSUME StatusInv, NEW m \in Messages, CleanupExpired(m)
    PROVE  StatusInv'
<1> USE DEF StatusInv, CountedOnce, Counts
<1>1. stats[m].sent = 1 /\ stats[m].ended = 0
  BY DEF CleanupExpired
<1>2. stats' = [stats EXCEPT ![m].ended = @ + 1]
  BY DEF CleanupExpired
<1>3. stats'[m] = [sent |-> 1, ended |-> 1] /\ \A n \in Messages \ {m} : stats'[n] = stats[n]
  BY <1>1, <1>2
<1>4. stats' \in [Messages -> Counts]
  BY <1>2, <1>3
<1>5. DOMAIN pendingMessages' = DOMAIN pendingMessages \ {m} /\ UNCHANGED sending
  BY DEF CleanupExpired, Restrict
<1> QED
  BY <1>3, <1>4, <1>5

\* Whatever the router reports, in whatever order and however often, and whenever expired
\* entries are cleaned up or the tracker is cleared, no message is counted as ended
\* (delivered, failed or expired) twice or without having been counted as sent.
THEOREM EndsCountedOnce == StatusSpec => []CountedOnce
<1>1. StatusInit => StatusInv
  BY DEF StatusInit, StatusInv, CountedOnce, Counts
<1>2. StatusInv /\ [StatusNext]_statusVars => StatusInv'
  <2> SUFFICES ASSUME StatusInv, [StatusNext]_statusVars
               PROVE  StatusInv'
    OBVIOUS
  <2>1. CASE \E c \in Senders : SenderStep(c)
    BY <2>1, SenderStepInv
  <2>2. CASE \E m \in Messages, status \in Statuses : HandleStatus(m, status)
    BY <2>2, HandleStatusInv
  <2>3. CASE \E m \in Messages : CleanupExpired(m)
    BY <2>3, CleanupExpiredInv
  <2>4. CASE NotifyConnection \/ CleanupNotify \/ CleanupEnd
    BY <2>4 DEF NotifyConnection, CleanupNotify, CleanupEnd, StatusInv, CountedOnce
  <2>5. CASE ClearTracker
    BY <2>5 DEF ClearTracker, StatusInv, CountedOnce
  <2>6. CASE UNCHANGED statusVars
    BY <2>6 DEF statusVars, StatusInv, CountedOnce
  <2> QED
    BY <2>1, <2>2, <2>3, <2>4, <2>5, <2>6 DEF StatusNext
<1>3. StatusInv => CountedOnce
  BY DEF StatusInv
<1> QED
  BY <1>1, <1>2, <1>3, PTL DEF StatusSpec

-------------------------------------------------------------------------------
(* The services side by side *)

\* The composition runs the two components and no other step of theirs, so both results
\* hold of it.
THEOREM ServicesSafe == ServicesSpec => [](NoPendingLeak /\ CountedOnce)
<1>1. ServicesInit => RequestsInit /\ StatusInit
  BY DEF ServicesInit
<1>2. [ServicesNext]_servicesVars => [RequestsNext]_requestVars /\ [StatusNext]_statusVars
  BY DEF ServicesNext, servicesVars
<1>3. ServicesSpec => RequestsSpec /\ StatusSpec
  BY <1>1, <1>2, PTL DEF ServicesSpec, RequestsSpec, StatusSpec
<1> QED
  BY <1>3, PendingTablesExact, EndsCountedOnce, PTL
===============================================================================
