------------------------------- MODULE Requests -------------------------------
(***************************************************************************)
(* Requests of the application that wait for an answer: Ping (ping.go) and *)
(* LookupDestination (manager.go), with the goroutine that dispatches      *)
(* packets (processPackets) and the router's callback.                     *)
(*                                                                         *)
(* A ping is its stream ID, a lookup its request ID: random, or assigned   *)
(* by the client library, and unique.  The network repeats and loses       *)
(* packets; a timer may fire at any time.  Payloads are left out.          *)
(***************************************************************************)
EXTENDS Naturals, FiniteSets, Sequences

CONSTANTS
    Pings,               \* stream IDs of the Ping calls
    Lookups,             \* request IDs of the LookupDestination calls
    EarlyAnswers,        \* may the router answer before the waiter is stored?
    NoPing               \* no packet is being handled

VARIABLES
    ping,                \* ping -> "idle", "stored", "waiting", or its result
    pendingPings,        \* pm.pendingPings: stream IDs
    resultCh,            \* ping -> results in its channel, which holds one
    echoNet,             \* ECHO packets ever sent
    answerPings,         \* config.AnswerPings
    pongAt,              \* handlePong has loaded this pending ping
    lookup,              \* lookup -> "idle", "sent", "waiting", or its result
    lookupResults,       \* sm.lookupResults: request IDs
    ready,               \* result.ready is closed
    answered             \* the router has called handleDestinationResult

pingVars == <<ping, pendingPings, resultCh, echoNet, answerPings, pongAt>>
lookupVars == <<lookup, lookupResults, ready, answered>>
requestVars == <<pingVars, lookupVars>>

RequestsInit ==
    /\ ping = [p \in Pings |-> "idle"]
    /\ pendingPings = {}
    /\ resultCh = [p \in Pings |-> <<>>]
    /\ echoNet = {}
    /\ answerPings = TRUE
    /\ pongAt = NoPing
    /\ lookup = [l \in Lookups |-> "idle"]
    /\ lookupResults = {}
    /\ ready = {}
    /\ answered = {}
------------------------------------------------------------------------------
(* Ping *)

\* The channel is registered before the packet is sent.
PingStore(p) ==
    /\ ping[p] = "idle"
    /\ ping' = [ping EXCEPT ![p] = "stored"]
    /\ pendingPings' = pendingPings \cup {p}
    /\ UNCHANGED <<resultCh, echoNet, answerPings, pongAt, lookupVars>>

\* Slip: the pending entry is left behind.
PingReturnsKeeping(p, result) ==
    /\ ping' = [ping EXCEPT ![p] = result]
    /\ UNCHANGED pendingPings

\* Every return deletes the entry (defer).
PingReturn(p, result) ==
    /\ ping' = [ping EXCEPT ![p] = result]
    /\ pendingPings' = pendingPings \ {p}

\* Signing or sending may fail.
sendPingPacket(p) ==
    /\ ping[p] = "stored"
    /\ \/ /\ ping' = [ping EXCEPT ![p] = "waiting"]
          /\ echoNet' = echoNet \cup {[kind |-> "ping", id |-> p]}
          /\ UNCHANGED pendingPings
       \/ /\ PingReturn(p, "error")
          /\ UNCHANGED echoNet
    /\ UNCHANGED <<resultCh, answerPings, pongAt, lookupVars>>

PingResult(p) ==
    /\ ping[p] = "waiting" /\ resultCh[p] # <<>>
    /\ PingReturn(p, "pong")
    /\ resultCh' = [resultCh EXCEPT ![p] = Tail(@)]
    /\ UNCHANGED <<echoNet, answerPings, pongAt, lookupVars>>

\* Slip: only the caller's context ends the wait, and it has no deadline.
PingTimeoutNever(p) ==
    /\ FALSE
    /\ UNCHANGED requestVars

\* PingTimeout, or the context's deadline or cancellation.
PingTimeout(p) ==
    /\ ping[p] = "waiting"
    /\ PingReturn(p, "timeout")
    /\ UNCHANGED <<resultCh, echoNet, answerPings, pongAt, lookupVars>>

\* The other manager answers with the ping's stream ID, as often as it is asked.
handlePing(p) ==
    /\ [kind |-> "ping", id |-> p] \in echoNet /\ answerPings
    /\ echoNet' = echoNet \cup {[kind |-> "pong", id |-> p]}
    /\ UNCHANGED <<ping, pendingPings, resultCh, answerPings, pongAt, lookupVars>>

SetPingConfig ==
    /\ answerPings' = ~answerPings
    /\ UNCHANGED <<ping, pendingPings, resultCh, echoNet, pongAt, lookupVars>>

\* handlePong runs in processPackets: a pong of no pending ping is ignored.
handlePong(p) ==
    /\ pongAt = NoPing
    /\ [kind |-> "pong", id |-> p] \in echoNet
    /\ p \in pendingPings
    /\ pongAt' = p
    /\ UNCHANGED <<ping, pendingPings, resultCh, echoNet, answerPings, lookupVars>>

\* Slip: the dispatcher waits for room in the channel.
deliverPongBlocking ==
    /\ pongAt # NoPing /\ resultCh[pongAt] = <<>>
    /\ resultCh' = [resultCh EXCEPT ![pongAt] = <<"pong">>]
    /\ pongAt' = NoPing
    /\ UNCHANGED <<ping, pendingPings, echoNet, answerPings, lookupVars>>

\* The send into the channel of one does not block; a second result is discarded.
deliverPong ==
    /\ pongAt # NoPing
    /\ resultCh' = [resultCh EXCEPT ![pongAt] = IF @ = <<>> THEN <<"pong">> ELSE @]
    /\ pongAt' = NoPing
    /\ UNCHANGED <<ping, pendingPings, echoNet, answerPings, lookupVars>>
------------------------------------------------------------------------------
(* LookupDestination *)

\* The request is sent, and only then the waiter stored.
DestinationLookup(l) ==
    /\ lookup[l] = "idle"
    /\ \E r \in {"sent", "error"} : lookup' = [lookup EXCEPT ![l] = r]
    /\ UNCHANGED <<lookupResults, ready, answered, pingVars>>

StoreLookup(l) ==
    /\ lookup[l] = "sent"
    /\ lookup' = [lookup EXCEPT ![l] = "waiting"]
    /\ lookupResults' = lookupResults \cup {l}
    /\ UNCHANGED <<ready, answered, pingVars>>

\* The router answers a request once; without a waiter the answer is dropped.
handleDestinationResult(l) ==
    /\ l \notin answered
    /\ lookup[l] # "idle" /\ (lookup[l] = "sent" => EarlyAnswers)
    /\ answered' = answered \cup {l}
    /\ ready' = ready \cup ({l} \cap lookupResults)
    /\ UNCHANGED <<lookup, lookupResults, pingVars>>

\* Slip: a lookup that is cancelled leaves its entry.
LookupReturnsKeeping(l) ==
    /\ lookup[l] = "waiting"
    /\ \/ l \in ready /\ lookup' = [lookup EXCEPT ![l] = "answer"]
                      /\ lookupResults' = lookupResults \ {l}
       \/ lookup' = [lookup EXCEPT ![l] = "cancelled"] /\ UNCHANGED lookupResults
    /\ UNCHANGED <<ready, answered, pingVars>>

\* The answer, or the end of the caller's context.
LookupReturns(l) ==
    /\ lookup[l] = "waiting"
    /\ \/ l \in ready /\ lookup' = [lookup EXCEPT ![l] = "answer"]
       \/ lookup' = [lookup EXCEPT ![l] = "cancelled"]
    /\ lookupResults' = lookupResults \ {l}
    /\ UNCHANGED <<ready, answered, pingVars>>

PingStep(p) == \/ PingStore(p) \/ sendPingPacket(p) \/ PingResult(p) \/ PingTimeout(p)
               \/ handlePing(p) \/ handlePong(p)
LookupStep(l) == \/ DestinationLookup(l) \/ StoreLookup(l)
                 \/ handleDestinationResult(l) \/ LookupReturns(l)

RequestsNext ==
    \/ \E p \in Pings : PingStep(p)
    \/ SetPingConfig
    \/ deliverPong
    \/ \E l \in Lookups : LookupStep(l)

\* The runtime schedules the goroutines, and time.After fires; nothing is asked of
\* the network or of the peer.  A lookup ends only with its caller's context.
RequestsFairness ==
    /\ \A p \in Pings : WF_requestVars(sendPingPacket(p)) /\ WF_requestVars(PingTimeout(p))
    /\ WF_requestVars(deliverPong)

RequestsSpec == RequestsInit /\ [][RequestsNext]_requestVars
------------------------------------------------------------------------------
\* Entries are pending exactly while their calls run: whatever way a Ping or a lookup
\* returns (answer, timeout, failed send), the manager's tables do not grow.
NoPendingLeak ==
    /\ pendingPings = {p \in Pings : ping[p] \in {"stored", "waiting"}}
    /\ lookupResults = {l \in Lookups : lookup[l] = "waiting"}

\* Every Ping returns, answered or not.
PingReturns == \A p \in Pings : ping[p] = "stored" ~> ping[p] \in {"pong", "timeout", "error"}

\* The goroutine that serves every connection is never held up by a pong, also not by
\* a repeated one or by one whose Ping has gone (handlePong).
DispatcherContinues == pongAt # NoPing ~> pongAt = NoPing

\* "waits for the result" (LookupDestination): a lookup the router has answered is not
\* left waiting.
AnsweredIsReady == \A l \in answered : lookup[l] = "waiting" => l \in ready
===============================================================================
