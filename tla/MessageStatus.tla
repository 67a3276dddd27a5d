----------------------------- MODULE MessageStatus -----------------------------
(***************************************************************************)
(* The tracker of what the router says of sent messages (message_status.go)*)
(* with the two ends that meet in it: the send path of a connection, which *)
(* holds the connection's lock (s.mu) when it asks for the tracker's       *)
(* (t.mu), and the router's callback, which asks for them the other way.   *)
(*                                                                         *)
(* A message is its nonce: GenerateNonce gives every one a new number.     *)
(* What the connection does when it is told (handleMessageDelivered,       *)
(* handleMessageFailed) is in StreamConn; here only that it takes s.mu to  *)
(* do it, and that what it sends again it sends untracked (nonce 0).       *)
(***************************************************************************)
EXTENDS Naturals, FiniteSets, Functions

CONSTANTS
    Senders,             \* connections
    Messages,            \* nonces
    CleanupWhileSending, \* is CleanupExpired called while connections send?
    MaxReports,          \* bound: reports of the router
    NoMessage, NoSender

ASSUME StatusAssumption == NoMessage \notin Messages

VARIABLES
    connMu,              \* connection -> who holds s.mu: "free" or "send"
    trackerMu,           \* who holds t.mu: "free", "status" or "cleanup"
    sending,             \* connection -> the message its send path is about, or NoMessage
    pendingMessages,     \* t.pendingMessages: message -> connection
    atRouter,            \* messages the router has accepted
    reports,             \* how often the router has reported
    handling,            \* the callback's message and status, after the entry is deleted
    expiring,            \* the entry CleanupExpired has just deleted
    stats                \* message -> how often it was counted as sent, and as ended

statusVars == <<connMu, trackerMu, sending, pendingMessages, atRouter, reports, handling, expiring, stats>>

Statuses == {"success", "retriable", "failure", "accepted"}
Idle == [msg |-> NoMessage, conn |-> NoSender, status |-> "none"]

StatusInit ==
    /\ connMu = [c \in Senders |-> "free"]
    /\ trackerMu = "free"
    /\ sending = [c \in Senders |-> NoMessage]
    /\ pendingMessages = [m \in {} |-> NoSender]
    /\ atRouter = {}
    /\ reports = 0
    /\ handling = Idle
    /\ expiring = Idle
    /\ stats = [m \in Messages |-> [sent |-> 0, ended |-> 0]]
------------------------------------------------------------------------------
(* The send path *)

\* sendPacketLocked, with the lock held since Write or a timer took it.
SendBegin(c, m) ==
    /\ connMu[c] = "free"
    /\ CleanupWhileSending \/ trackerMu # "cleanup"
    /\ stats[m].sent = 0 /\ \A d \in Senders : sending[d] # m
    /\ connMu' = [connMu EXCEPT ![c] = "send"]
    /\ sending' = [sending EXCEPT ![c] = m]
    /\ UNCHANGED <<trackerMu, pendingMessages, atRouter, reports,
                   handling, expiring, stats>>

\* TrackMessage takes t.mu for the length of an assignment.
TrackMessage(c) ==
    /\ sending[c] # NoMessage /\ stats[sending[c]].sent = 0
    /\ trackerMu = "free"
    /\ pendingMessages' = [m \in DOMAIN pendingMessages \cup {sending[c]} |->
                              IF m = sending[c] THEN c ELSE pendingMessages[m]]
    /\ stats' = [stats EXCEPT ![sending[c]].sent = 1]
    /\ UNCHANGED <<connMu, trackerMu, sending, atRouter, reports,
                   handling, expiring>>

\* sendViaI2CPWithTracking; when SendMessage fails the entry stays.
SendMessage(c) ==
    /\ sending[c] # NoMessage /\ stats[sending[c]].sent = 1
    /\ atRouter' \in {atRouter, atRouter \cup {sending[c]}}
    /\ sending' = [sending EXCEPT ![c] = NoMessage]
    /\ connMu' = [connMu EXCEPT ![c] = "free"]
    /\ UNCHANGED <<trackerMu, pendingMessages, reports, handling, expiring, stats>>
------------------------------------------------------------------------------
(* The router's callback *)

\* Slip: the entry stays until a report says success.
HandleStatusKeeping(m, status) ==
    /\ handling = Idle /\ reports < MaxReports
    /\ m \in atRouter
    /\ trackerMu = "free"
    /\ reports' = reports + 1
    /\ IF m \in DOMAIN pendingMessages
         THEN /\ pendingMessages' = IF status = "success"
                    THEN Restrict(pendingMessages, DOMAIN pendingMessages \ {m})
                    ELSE pendingMessages
              /\ handling' = [msg |-> m, conn |-> pendingMessages[m], status |-> status]
              /\ stats' = [stats EXCEPT ![m].ended = @ + (IF status = "accepted" THEN 0 ELSE 1)]
         ELSE UNCHANGED <<pendingMessages, handling, stats>>
    /\ UNCHANGED <<connMu, trackerMu, sending, atRouter, expiring>>

\* Slip: t.mu is held until the connection has been told.
HandleStatusLocked(m, status) ==
    /\ handling = Idle /\ reports < MaxReports
    /\ m \in atRouter
    /\ trackerMu = "free"
    /\ reports' = reports + 1
    /\ m \in DOMAIN pendingMessages
    /\ pendingMessages' = Restrict(pendingMessages, DOMAIN pendingMessages \ {m})
    /\ handling' = [msg |-> m, conn |-> pendingMessages[m], status |-> status]
    /\ trackerMu' = "status"
    /\ UNCHANGED <<connMu, sending, atRouter, expiring, stats>>

\* The router reports any status, also several for one message; a report of a message
\* that is not tracked any more is ignored.  The entry is deleted and t.mu released
\* before the connection is told, also for a status that is not the last one.
HandleStatus(m, status) ==
    /\ handling = Idle /\ reports < MaxReports
    /\ m \in atRouter
    /\ trackerMu = "free"
    /\ reports' = reports + 1
    /\ IF m \in DOMAIN pendingMessages
         THEN /\ pendingMessages' = Restrict(pendingMessages, DOMAIN pendingMessages \ {m})
              /\ handling' = [msg |-> m, conn |-> pendingMessages[m], status |-> status]
              /\ stats' = [stats EXCEPT ![m].ended = @ + (IF status = "accepted" THEN 0 ELSE 1)]
         ELSE UNCHANGED <<pendingMessages, handling, stats>>
    /\ UNCHANGED <<connMu, trackerMu, sending, atRouter, expiring>>

\* handleSuccess and handleFailure tell the connection, handleIntermediate does not.
NotifyConnection ==
    /\ handling # Idle
    /\ handling.status # "accepted" => connMu[handling.conn] = "free"
    /\ handling' = Idle
    /\ trackerMu' = IF trackerMu = "status" THEN "free" ELSE trackerMu
    /\ UNCHANGED <<connMu, sending, pendingMessages, atRouter, reports, expiring,
                   stats>>
------------------------------------------------------------------------------
(* CleanupExpired: t.mu is held from the first entry to the last.  Nothing in the       *)
(* library calls it yet; the tests do, with no connection at work.                      *)

CleanupExpired(m) ==
    /\ expiring = Idle
    /\ CleanupWhileSending \/ \A c \in Senders : connMu[c] = "free"
    /\ trackerMu \in {"free", "cleanup"}
    /\ m \in DOMAIN pendingMessages
    /\ trackerMu' = "cleanup"
    /\ pendingMessages' = Restrict(pendingMessages, DOMAIN pendingMessages \ {m})
    /\ expiring' = [msg |-> m, conn |-> pendingMessages[m], status |-> "failure"]
    /\ stats' = [stats EXCEPT ![m].ended = @ + 1]
    /\ UNCHANGED <<connMu, sending, atRouter, reports, handling>>

CleanupNotify ==
    /\ expiring # Idle /\ connMu[expiring.conn] = "free"
    /\ expiring' = Idle
    /\ UNCHANGED <<connMu, trackerMu, sending, pendingMessages, atRouter, reports, handling, stats>>

CleanupEnd ==
    /\ trackerMu = "cleanup" /\ expiring = Idle
    /\ trackerMu' = "free"
    /\ UNCHANGED <<connMu, sending, pendingMessages, atRouter,
                   reports, handling, expiring, stats>>

ClearTracker ==
    /\ trackerMu = "free" /\ pendingMessages # [m \in {} |-> NoSender]
    /\ pendingMessages' = [m \in {} |-> NoSender]
    /\ UNCHANGED <<connMu, trackerMu, sending, atRouter, reports,
                   handling, expiring, stats>>

SenderStep(c) == \/ \E m \in Messages : SendBegin(c, m)
                 \/ TrackMessage(c) \/ SendMessage(c)

StatusNext ==
    \/ \E c \in Senders : SenderStep(c)
    \/ \E m \in Messages, status \in Statuses : HandleStatus(m, status)
    \/ NotifyConnection
    \/ \E m \in Messages : CleanupExpired(m)
    \/ CleanupNotify \/ CleanupEnd \/ ClearTracker

\* The goroutines are scheduled, and a lock that is free again and again is got.
StatusFairness ==
    /\ \A c \in Senders : SF_statusVars(TrackMessage(c)) /\ WF_statusVars(SendMessage(c))
    /\ SF_statusVars(NotifyConnection) /\ SF_statusVars(CleanupNotify)
    /\ WF_statusVars(CleanupEnd)

StatusSpec == StatusInit /\ [][StatusNext]_statusVars
------------------------------------------------------------------------------
\* GetStats: whatever the router reports, and however often, a message is counted as
\* delivered, failed or expired at most once, and only if it was sent.
CountedOnce == \A m \in Messages : stats[m].ended <= stats[m].sent

\* A Write that holds its connection's lock gets through the tracker: no cycle of s.mu
\* and t.mu with the router's callback.
SendCompletes == \A c \in Senders : connMu[c] = "send" ~> connMu[c] = "free"

\* "Re-add to pending for final status" (handleIntermediate): a message with an
\* intermediate status is still tracked.
FinalStatusAwaited ==
    handling.status = "accepted" => handling.msg \in DOMAIN pendingMessages
===============================================================================
