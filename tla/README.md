# go-streaming: a TLA+ verification project

go-streaming implements the I2P streaming protocol in Go: reliable, ordered,
bidirectional streams over the unreliable datagrams of an I2CP session. This
directory holds TLA+ modules translated from that code, the TLC configurations
that check them on small instances, and TLAPS proofs of the properties that
matter most. `PROJECT.json` maps every definition to its source lines and lists
runs, findings, hazards and theorems.

    tlc -workers 2 -config oneway.cfg MCStreamConn      # a run
    tlapm StreamConn_proofs.tla                         # the proofs of a module

## 1. The system

| Component | State | Operations | Modelled in |
|---|---|---|---|
| `StreamConn` data plane (stream.go) | `sendSeq`, `ackThrough`, `sentPackets`, `nackCounts`, `cwnd`, `ssthresh`; `recvSeq`, `outOfOrderPackets`, `nackList`, `recvBuf`; choke flags, persist timer; `state`, `closed` | `Write`, `Read`, `Close`, the handlers of the receive loop, retransmission, inactivity and persist timers, message-status callbacks | `StreamConn` |
| Sequence arithmetic (stream.go 84-125) | none | `seqLessThan`, `seqGreaterThan`, ... | `SeqNum` |
| `StreamListener` (stream.go) | `closed`, `acceptChan` | `handleIncomingSYN`, `Accept`, `Close` | `Listener` |
| `connectionLimiter` (limits.go) | `activeStreams`, per-peer and total histories, configuration | `CheckAndRecordConnection`, `ConnectionClosed`, `CleanupStaleHistory`, `SetConfig` | `Limiter` |
| `StreamManager` (manager.go) | tables of connections and listeners, packet queue, session, lookups | routing, RESET for unknown connections, `LookupDestination`, session status | `Handshake`, `Listener`, `Requests`; session start left out |
| Dial and handshake (stream.go) | `state`, initial numbers, stream IDs, MTUs of both ends | `DialWithManager`, SYN, SYN-ACK, final ACK, timeout | `Handshake` |
| Access filter (accesslist.go) | mode, list as written, set of normalized hashes | `IsAllowed`, `AddHash`, `RemoveHash`, `Clear`, `SetAccessFilter`, `SetAccessListMode` | `AccessFilter` |
| TCB cache (tcb_cache.go) | an entry per destination | `Get`, `Put`, `CleanupExpired`, `Clear` | `TcbCache` |
| RTT and RTO (stream.go) | `srtt`, `rttVariance`, `rto` | `updateRTTEstimate`, `calculateRTO`, backoff | `TcbCache` |
| Message status tracker (message_status.go) | pending messages by nonce, counts, its lock | `TrackMessage`, `HandleStatus`, `CleanupExpired`, `Clear` | `MessageStatus`; its effect on a connection in `StreamConn` |
| Ping (ping.go) | outstanding pings and their channels | `Ping`, `handlePing`, `handlePong`, timeout | `Requests` |
| Packet encoding (packet.go), signatures (crypto.go) | none | `Marshal`, `Unmarshal`, `SignPacket`, `VerifyPacketSignature` | `PacketCodec` |

How they interact. I2CP callbacks put messages into a bounded queue; the
manager's single `processPackets` goroutine routes each to a listener (SYN) or,
by the pair of ports, to a connection's bounded `recvChan`; each connection's
`receiveLoop` handles its packets under `s.mu`. The application calls `Write`,
`Read` and `Close` from its own goroutines, timers run in others. `Write` gives
up `s.mu` only while it waits on `sendCond` for window space. The limiter is
shared by the listener (which counts a stream) and by every connection (which
un-counts it when it is closed).

What is hard here: the network loses, repeats and reorders; acknowledgements
ride on data; numbers wrap; the receive side keeps three structures (buffered
packets, NACK list, receive buffer) in step incrementally; flow control (choke)
has its own signals that may be lost; `Write`, timers, callbacks and `Close`
interleave; a SYN is handled in steps while the application closes the listener;
packets of an earlier Dial arrive on ports that are used again; requests race
with their timeouts and with answers that come late or twice; the tracker's lock
and a connection's are taken in both orders; the cache's entries are read without
the lock they are changed under.

What makes it correct, per component: the peer accepts exactly what was sent, in
order (`AcceptedIsPrefix`, `ImplementsChannel`); nothing is acknowledged that was
not accepted (`AckHonest`) and nothing unaccepted is forgotten: its entry and its
content are kept (`NoSilentLoss`) and a timer watches it (`TrackedIsTimed`);
gaps are asked for, and only gaps (`GapsNacked`, `NackSound`); until a buffer
overflows the application reads exactly what was accepted (`ReadUntilOverflow`),
which is what the other application wrote (`ReadIsPrefix`);
a `Write` sleeps only while it has to (`NoLostWakeup`) and a choke can be lifted
(`NoStuckChoke`); progress is not undone (`NeverBackwards`) and every
chunk is accepted in the end or given up with its connection (`AcceptedOrGivenUp`); no admission exceeds a rate limit
(`RateRespected`) and no stream is released twice, so that the limiter's count is
below that of the open incoming streams by at most the dialled streams that were
closed, which the code releases without having counted them (`NeverUndercounts`); a connection is found by its
packets until another takes its ports (`RouteLostOnlyByClash`); after a handshake
the two ends start from the same numbers and packet size (`ClientAgrees`,
`ServerAgrees`), which is where `StreamConn` begins; the access list decides by
what the calls asked for, in either spelling of standard Base64 (`FilterDecides`); cached
estimates stay within what was measured, the timeout covers the estimate and the
cache never slows a connection down (`RttWithinMeasured`, `RtoCoversRtt`,
`CacheOnlyHelps`); requests leave nothing behind and return, and the goroutine
that serves everybody is not held up (`NoPendingLeak`, `PingReturns`,
`DispatcherContinues`); reports count once and no locks are waited for in a cycle
(`CountedOnce`, `SendCompletes`); what is written is what is read, and a signature
covers it (`RoundTrip`, `SignatureCovers`, `SignatureSurvives`).

## 2. Modules

* `SeqNum` - numbers modulo an even `SeqSpace`; comparisons through the sign of
  the difference, as `int32(a - b) < 0`. In the code `SeqSpace` is 2^32.
* `OrderedChannel` - abstract specification: in each direction the packets
  accepted are those sent, in order; one step may accept several.
* `StreamConn` - both ends and the network, from the moment the client's final
  handshake ACK is in flight. One action per handler:
  - `Write`, `WriteChunk`, `WindowWait`, `WriteResume`, `WriteAbort`: a `Write`
    is a chain of one-chunk actions; `Locked(e)` keeps every other handler of
    that end out until it waits for window space or returns.
  - `ReceiveFinalAck`, `ReceiveAck`, `ReceiveInSequence`, `ReceiveOld`,
    `ReceiveOutOfOrder`, `ReceiveClose`, `ReceiveReset`: the branches of
    `dispatchPacketByFlags` (`Kind`), each with everything its handler does:
    window growth, release of acknowledged packets, fast retransmit, choke
    signals, delivery of the run buffered behind the packet, the ACK sent.
  - `RetransmitTimeout`, `GiveUp`: the retransmission timer; it fails under the
    lock and closes the connection in a separate step, as the code does.
  - `KeepAlive`, `ChokeExpires`, `PersistProbe`, `Read`, `Close`,
    `AnswerUnknown` (the manager's RESET), `MessageDelivered`, `MessageFailed`.
  - `sentLog`, `recvLog`, `readLog`, `used` are history variables.
* `Limiter` - the limiter's steps; `Listener` - the admission of connections,
  composed with it: the SYN handler of `processPackets` as a program counter
  (`limits`, `validate`, `synack`, `queue`) interleaved with `Accept`, `Close` of
  connections and listener, `Dial`, the peer's CLOSE, `SetConfig` and the clock.
  `Listener` does not model the packets of a connection; `StreamConn` does not
  model how it was admitted.
* `Handshake` - the managers of a client that dials and of a server that listens,
  with the network between them, at the grain of packets: `DialWithManager`,
  `waitForSynAck`, `clientProcess`, `handleSynPacket`, `handleIncomingSYN`,
  `handleFinalAck`, `serverProcess`, the closing of either end and the RESETs of
  both managers. Two Dials may use the same ports, one after the other.
* `AccessFilter` - the filter object, its two forms of the list, the object the
  listener holds, and the calls that change it. `wanted` is a history variable:
  what the calls asked for.
* `TcbCache` - one destination's entry and the connections that start from it,
  measure, back off and save: `Get` in five steps, because it reads the fields
  one by one without the lock.
* `Requests` - `Ping` and `LookupDestination` with the goroutine that dispatches
  packets and the router's callback.
* `MessageStatus` - the tracker's table and lock, with the send paths of several
  connections, the router's callback and `CleanupExpired`.
* `PacketCodec` - `Marshal`, `Unmarshal`, `SignPacket`, `VerifyPacketSignature`
  and their helpers as operators. No step, no state.
* `MCStreamConn`, `MCListener` - constants of the checked instances. `MCManager`
  composes `Listener`, `Handshake`, `AccessFilter` and `TcbCache`, `MCServices`
  composes `Requests` and `MessageStatus`: parts of one manager that share no
  state the properties speak of, so that each behaviour runs one of them (`part`,
  `service`). `MCWire` takes packets through signing, marshalling, a cut and
  unmarshalling, and pairs of numbers around the sequence space.
* Proofs: `StreamConnType_proofs` (with the arithmetic of numbers),
  `StreamConn_proofs`, `Listener_proofs` (of `Listener` and `Limiter`),
  `Handshake_proofs`, `AccessFilter_proofs`, `TcbCache_proofs`, `Services_proofs`
  (of `Requests`, `MessageStatus` and their composition) and `MCWire_proofs`.

### Abstractions

* The network is the set of all packets ever sent; any of them may be handed
  over at any time, any number of times, or never. That is loss, duplication,
  delay and reordering at once. `recvChan` and the manager's queue belong to the
  network (a full queue is a loss), except for the packets that are still in
  `recvChan` when a connection is unregistered (`queued`).
* One data packet is one unit of the receive buffer. A chunk's content is a
  number of its own, a probe's byte is 0. circbuf is external: a buffer that
  keeps the last `BufSize` units and counts what was written since its reset.
* Time is nondeterministic: an armed timer may fire. RTT and RTO values are left
  out; every timing they can produce is allowed. After `Close` the model lets
  the timer tick on; the code handles at most a tick that is already due.
* One application goroutine writes at each end at a time.
* `handleBufferFullLocked` is never called and is left out. The NO_ACK flag is set in
  the initial SYN only (stream.go 683), whose ack nobody reads; no packet of an
  established connection has it. `retryCount` saturates past its limit.
* `Listener` treats a SYN the access filter refuses, or that finds no listener,
  as nothing: a RESET goes out and no state changes. `ListenerClose` is one step.
* `Handshake` numbers connections by the order of their creation and gives each
  its own initial number: the code draws both at random from 2^32. A packet is
  handled in the step that routes it; between the two it would wait in a
  `recvChan` that no other step looks at. Signatures are taken for valid. The
  application does not dial a pair of ports that its own Dial or connection uses.
* `PacketCodec` keeps lengths as the code computes them and abstracts the bytes
  inside a field to the field's value. `Read` at an offset that is not the start
  of a field of that length gives `Garbage`. A signature is what it was made over.
* `AccessFilter` has five forms of an entry. Base64 with and without padding is what
  `normalizeHash` reads. Two more are promised by comments and not read: I2P's own
  alphabet ("I2P uses this", accesslist.go 126) is not decoded and dropped, and a raw
  hash ("Base64 encoded or raw 32-byte hashes", accesslist.go 31; "raw byte hashes",
  accesslist.go 114) is kept as it is and equals no destination's hash. The fifth is
  text that is no hash. `wanted` records what the calls ask for by the word of the
  comments, in all four forms, and which destinations were last named in a form that
  is not read (`misread`); `FilterDecides` speaks of all others, `EveryFormDecides`
  of all. The list
  is a set of entries: the code appends to a slice, in which an entry may occur twice,
  but every use of it makes a set of it or removes all that normalize alike.
* The histories of `Limiter` are sets of timestamps, each with the number of its
  admission, so that two admissions at one time stay two; the code appends to a
  slice and counts the entries that are recent enough.
* `TcbCache` has one destination, whole units of time for `time.Duration`, and a
  dampening of 3/4, the default of all three factors.
* `MessageStatus` takes a message for a data packet and the router's message ID
  for the nonce: `HandleStatus` looks a report up by its message ID in a table that
  is keyed by nonce, and leaves its nonce argument unused. The average delivery time
  is left out. `CleanupExpired` has no caller in the library, so that the entry of a
  message whose `SendMessage` failed stays.

## 3. Runs

Passing runs:

| Run | Bounds | Shows |
|---|---|---|
| `oneway` | 3 chunks one way, window 3, 3 NACKs, 1 retry | Types; NACKs name gaps and only gaps; the reader gets the chunks in order; a Write sleeps only while the window is full; whatever is lost, every chunk is accepted in the end or its sender gives up and closes |
| `duplex` | 2 and 1 chunks, both ways, window 2 | Acknowledgements on data packets: `AckHonest`, `NoSilentLoss`, and the refinement of `OrderedChannel` |
| `choke` | 2-packet buffer, 3 packets, window 3, a NACK list of one, probes | A choke can always be lifted; probes do not disturb the order; a list that was cut names only gaps; until the buffer overflows Read hands over what was accepted |
| `close` | 2 chunks, both ends close, timers give up, the router refuses messages and reports status | Nothing is undone by late ACKs, CLOSE, RESET or a timer that gives up; acknowledgements stay honest; what waits for one has a timer |
| `wire` | all pairs of a 64-number space; every set of flags, 0, 1, 8 and 256 NACKs, five destinations, five offline signatures, two payloads, cut at and after every field | Comparisons agree with two's-complement arithmetic; `Unmarshal` inverts `Marshal`; a signature covers all the rest of the packet and verifies exactly what was signed |
| `manager` | see below | Limits, counts and routes; the ends of a handshake agree; the filter decides what was configured; cached estimates |
| `services` | 2 pings, 2 lookups; 2 connections, 3 messages, 4 reports | Requests leave nothing pending, Pings return, the dispatcher goes on; reports count once, a send gets through both locks |

Why the bounds are enough: three packets give a gap of one and of two, a buffered
run of two behind it, and, in `choke`, a NACK list that is cut; a window of two or
three fills with packets outstanding, is halved and grows again; `FastRetransmitThreshold`,
`MaxRetransmissions` and `MaxNACKs` are small so that each threshold is crossed;
a two-packet buffer crosses the choke mark, the unchoke mark and its capacity.
The sequence space of 16 is more than twice what is ever sent, as 2^32 is in the
code.

In `manager`, for the limiter, two peers and nil, four admissions, which exceed
every limit by one, and a clock that passes the longest window; there no
connection is created, because histories do not depend on them. For admission
three connections, one port pair for SYNs and one dialled, a queue of one, a limit
of two (`Bounds` in `MCManager` keeps the two apart). The two peers are symmetric.
For the handshake two Dials on one pair of ports, with different MTUs around the
server's, and two connections at the server: enough for a stale SYN-ACK of the
first Dial to meet the second, and for a repeated SYN. For the filter two
destinations, five forms, two entries: two spellings of one hash and one spelling
of two. For the cache three connections, so that an entry is made, blended, and
served to a third; a short and a long RTT; windows below and above the default; a
TTL shorter than the clock. In `services` two pings are enough for a pong of one to
meet the other's table entry and a full channel, two connections and three
messages for one to send while the other is told; four reports repeat a status.
In `wire` the destinations have signatures of 40, 64 and 96 bytes and a type the
code does not know; 256 NACKs exceed the limit of 255.

Violation runs, each stating what a comment or document of the repository says
(quoted in `PROJECT.json`, findings):

| Run | Property | What happens |
|---|---|---|
| `overflow` | `ReadIsPrefix` | a burst overwrites unread data, probe bytes reach the application |
| `sendfailure` | `AcceptedIsPrefix` | a refused chunk stays tracked and is accepted in place of the next |
| `piggyback` | `SentNotYetAcked` | an ack on a data packet moves `ackThrough` and leaves what it covers tracked |
| `closewake` | `ClosedWakesWriter` | the peer's CLOSE or RESET leaves a writer asleep |
| `acceptpanic` | `CloseRejects` | a SYN in progress is queued on the channel that Close has closed, which panics |

Further configurations, kept beside the standing runs. `wrap.cfg` checks
`NoSilentLoss` while the sender's numbers cross the end of the space, and passes.
The others each exhibit one more disagreement between the code and its comments:

| Configuration | Property | What happens |
|---|---|---|
| `chokepause` | `NoChunkWhileChoked` | a `Write` past its first chunk ignores a choke (SPEC.md 127) |
| `chokeskip` | `ChokedWhenFull` | a refill to the level last seen sends no choke (stream.go 2740, 2756) |
| `seqzero` | `DataIsData` | after the wrap, the data packet numbered 0 is taken for a plain ACK (stream.go 93, 2172); it is never accepted, and its sender gives the connection up |
| `routerstatus` | `NoSilentLoss` | a router's report drops a packet the peer never accepted (stream.go 3389) |
| `statuswake` | `NoLostWakeup` | space freed by a report does not wake the writer (stream.go 2972, 3383) |
| `limitleak` | `ActiveIsOpen` | a SYN that fails after it was counted stays counted (stream.go 1272, limits.go 125) |
| `limitdial` | `CombinedLimit` | dialled streams are not limited (stream.go 436, limits.go 27) |
| `portclash` | `HeldIsRouted` | a second SYN on the same ports takes over the table entry (manager.go 81, 386) |
| `probewake` | `NoLostWakeupProbes` | an ACK that covers only a probe lets the window grow and wakes nobody (stream.go 2671, 2972) |
| `shortpacket` | `ShortIsError` | a packet with NACKs that ends right after them is read past its end (packet.go 631) |

`GapsNacked` says nothing of a NACK list that cannot hold a window, because it does
not hold there: with two NACKs, a window of four and four chunks, TLC finds a gap
that was cut from the list and is not asked for when the list has room again.

More of them are a change away from a standing configuration: restrict `Parts` or
`Services` to one part and check the property named here.

| Change | Property | What TLC shows |
|---|---|---|
| `manager`, handshake | `FinalAckMatches` | on reused ports a packet of the earlier connection completes the handshake with a number of its own (stream.go 2228 only warns) |
| `manager`, handshake | `ResetEndsTheNamed` | a RESET ends whatever connection has the ports (stream.go 2299; manager.go names "which connection to reset") |
| `manager`, handshake | `ResetNotAnswered` | a RESET without connection is answered with RESET (manager.go 836) |
| `manager`, filter, `ReplaceWhileListening = TRUE` | `FilterDecides` | a listener keeps the filter it was made with (manager.go 770, stream.go 1012) |
| `manager`, filter, two `Configurers` | `FilterDecides` | a mode change overwrites a hash added meanwhile (manager.go 808) |
| `manager`, filter | `EveryFormDecides` | a hash given raw is kept and never matched, although accesslist.go 31 and 114 say that raw hashes are accepted; one in I2P's alphabet is dropped with a warning in the log, although line 126 says it tries the alphabet "I2P uses". A blacklist so written refuses nobody, a whitelist everybody |
| `manager`, tcb | `NothingExpiredServed` | an expired entry is averaged into a new one and served (tcb_cache.go 168) |
| `manager`, tcb | `OnlyMeasuredCached` | a connection that measured nothing puts the cache's own damped values back (stream.go 3316) |
| `services`, requests, `EarlyAnswers = TRUE` | `AnsweredIsReady` | an answer before the waiter is stored is lost, and the caller waits for its context (manager.go 368) |
| `services`, status, `CleanupWhileSending = TRUE` | `SendCompletes` | a send and `CleanupExpired` wait for each other's lock (message_status.go 236) |
| `services`, status | `FinalStatusAwaited` | an intermediate status ends the tracking of its message (message_status.go 190) |

Deadlock checking is off in `close`, `closewake`, `wire`, `manager`, `services` and
the `Listener` configurations: a connection that both ends have closed, requests
that have all returned, a packet that has been read, and a program that has
panicked, stop.

### Fairness

`FairSpec` assumes what the scheduler and the clock guarantee, and no delivery: the
network may lose every packet. A `Write` that holds `s.mu` goes on (WF). A
packet that stays tracked is found timed out again and again: the timer ticks every
100 ms and the RTO is at most `MaxRTO`, 45 s. A timer that has found a packet out of
retries closes the connection. The timer needs `s.mu` for both, and the application
may take it again and again (a `Write` that fails at its deadline, and the next one),
so both are strong fairness: the mutex lets in whoever waits (starvation mode). With
weak fairness TLC finds that behaviour, a timer that never gets to close.

`AcceptedOrGivenUp` therefore rests on the retransmissions alone: on every tracked
packet being found, every retry counted, and no entry released before the packet is
accepted. Two things lie outside it. A fast retransmission restarts a packet's clock
without asking how often it was resent; that the clock runs out in the end takes that
NACKs for one packet do not go on for ever. An ACK with NACKs answers a packet or is a
keep-alive, once in 90 s, so that only a network that repeats one ACK without end could
hold the clock off; `FairSpec` excludes that. And a retransmission that the router refuses is not counted as a retry: the run
has a router that accepts what it is handed.

`NoLostWakeup` is an invariant and needs no fairness; it leaves out an end that has
sent a probe (`probewake`). `ReadUntilOverflow` needs none either: it says of every
behaviour in which no buffer overflows that what is read is what was accepted.
`RequestsFairness` assumes that the goroutine of a Ping and the dispatcher are
scheduled and that `time.After` fires; nothing is assumed of the network, the peer
or the router, so a Ping returns by its timeout if by nothing else, and nothing is
claimed of lookups, which wait as long as their caller's context. `StatusFairness`
assumes that goroutines are scheduled (WF) and that one that waits for a mutex that
is free again and again gets it (SF), as Go's mutexes do (starvation mode). It does
not assume that the router reports or that anybody sends.

## 4. Proofs

Every theorem holds for every value of its module's constants: sequence spaces,
windows, buffers, NACK and retry limits, numbers of packets, peers, ports, Dials,
limits, destinations. What is assumed of them is named where they are declared, and
TLC evaluates it on every run:

* `SeqSpaceAssumption`: the space is even and at least 4. `ConstantsAssumption`:
  types, an initial window of at most the largest, and a connection sends fewer
  packets than half the sequence space; beyond that the code's comparisons are not
  defined to work.
* `LimiterAssumption`: no window is longer than the day, for which histories are
  kept. `ListenerAssumption`: the accept queue has room for one.
* `HandshakeAssumption`, `FilterAssumption`, `StatusAssumption`: types, and that the
  values that stand for "none" are no others. `TcbAssumption`: the timeouts are
  ordered (`MinRTO`, `InitialRTO`, `MaxRTO`) and windows are within `MaxWindow`.

| Module | Theorem | Property | Provided |
|---|---|---|---|
| `StreamConnType_proofs` | `WindowOrder` | numbers within half the space of a common start are ordered as they were counted | |
| | `TypeCorrect` | `TypeOK` | |
| | `ChokeNeverStuck` | `NoStuckChoke` | |
| | `ProgressKept` | `NeverBackwards` | |
| | `ReadCorrect` | `ReadUntilOverflow` | |
| | `AckCorrect` | `AckHonest` | |
| | `NackCorrect` | `NackSound` | |
| `StreamConn_proofs` | `PrefixCorrect` | `AcceptedIsPrefix` | `~SendMayFail` |
| | `ReadIsWritten` | `ReadIsPrefix` | `~SendMayFail`; in a behaviour without overflow and probes |
| | `Refinement` | `ImplementsChannel` | `~SendMayFail` |
| | `LossCorrect` | `NoSilentLoss` | `~StatusReports` |
| | `TimerCorrect` | `TrackedIsTimed` | |
| | `GapsCorrect` | `GapsNacked` | |
| | `WakeupCorrect` | `NoLostWakeup` | `~StatusReports`, a window of two or more |
| `MCWire_proofs` | `MachineArithmetic`, `OrderedWithinHalf` | `MatchesMachineArithmetic`, `OrderWithinHalf` | |
| `Listener_proofs` | `ListenerTypeCorrect`, `RatesAlwaysRespected`, `ActiveNeverUndercounts`, `RoutesLostOnlyByClash` | `TypeOK`, `RateRespected`, `NeverUndercounts`, `RouteLostOnlyByClash` | |
| `Handshake_proofs` | `ClientAlwaysAgrees`, `ServerAlwaysAgrees` | `ClientAgrees`, `ServerAgrees` | |
| `AccessFilter_proofs` | `FilterAlwaysDecides` | `FilterDecides` | one configurer, no replacement under a listener |
| `TcbCache_proofs` | `RtoAlwaysCovers`, `CacheNeverSlows`, `EstimatesWithinMeasured` | `RtoCoversRtt`, `CacheOnlyHelps`, `RttWithinMeasured` | |
| `Services_proofs` | `PendingTablesExact`, `EndsCountedOnce`, `ServicesSafe` | `NoPendingLeak`, `CountedOnce`, both of the composition | |

Why the provisos: with `SendMayFail` acceptance is no longer a prefix (`sendfailure`),
so that `PrefixCorrect`, `ReadIsWritten` and `Refinement` need it excluded, and they
are the only ones. `overflow` shows what a full buffer and probe bytes do to what is
read. `routerstatus` and `statuswake` show what status reports do; `GapsNacked` itself
says nothing of them. Section 3 names the changes that make `FilterDecides` fail. The
code starts with a window of six (stream.go 342); halving a window of one would give
two, room that nobody announces.

### The arguments

`StreamConn`. None of the properties of the data plane is inductive alone: that an
acknowledgement is honest depends on every packet in the network, tracked or buffered
having a number that its sender has given out and acknowledging only what its sender
has accepted. `NumberInv` says this: counters and numbers agree with the logs
(`CountInv`, `SeqInv`), packets that are out, tracked or buffered are numbered and their
acknowledgements covered (`NetHonest`, `TrackHonest`, `BufferNumbered`), and so is what
was recorded (`ThroughInv`). It holds also when the router refuses packets, and there
lies the difficulty: `sendDataChunk` tracks a refused chunk under the next number and
does not take the number, so that a timeout may resend it and the peer accept it before
any chunk has that number in `sentLog`. What is accepted is therefore bounded not by
what was sent but by `Top`, the last number under which a packet may be out: one past
the log if a number was tried and refused (`ReachInv`). Since `ConstantsAssumption` keeps
what is ever tried below half the space, numbers up to `Top` are still ordered as counted.

While the router accepts what it is handed, `ChannelInv` adds that what is accepted is a
prefix (`PrefixInv`) and that packets in the network, tracked and buffered carry the
payload of their number (`NetInv`, `TrackInv`, `BufferInv`). Every step has one of four
shapes (`StepShape`): it sends nothing new and accepts nothing (`QuietStep`), sends the
next packet (`SendStep`), accepts the next packet and the run behind it (`AcceptStep`),
or buffers one (`BufferStep`). Each shape preserves `ChannelInv`, so each action is
looked at once, to find its shape. `ReadIsWritten` puts this together with `ReadCorrect`:
with no probe in the log, the n-th chunk is the n-th packet.

* Loss. For the sender alone a step keeps what is tracked except what an ACK covers
  (`KeepStep`), tries a chunk, which is tracked whether or not it leaves (`TryStep`), or
  sends a probe (`ProbeStep`); `SenderShape`. A tracked packet has its own number, and
  the content of the chunk in the log that has that number (`TrackedAs`): a chunk that
  is tried under the number of a refused one takes its entry over. A chunk that has left
  stays tracked until `ackThrough` covers it (`Held`), and `ackThrough` does not cover
  what is not accepted (`NotAcknowledged`). `SenderInv` is these, with `Started` (an
  end whose timer was not started has sent nothing) and that what is in the log,
  accepted or buffered has left (`ChunksOut`, `AcceptedOut`, `BufferedOut`).
* Timers. `TrackedIsTimed` follows from `Started` and `TrackedAs`, a tracked packet being
  numbered and so sent, and from `LifeInv`: a timer ends only with its connection. None
  of them needs an assumption about the router (`ReportStep`).
* NACKs. `NackSound` is preserved given `NumberInv`, by each of the three handlers
  that change the list. `GapsNacked` needs more: the list must have room for every
  gap. A gap and the packets behind it are tracked at the sender up to the last one
  that may be out (`LastOut`, `OutIsTracked`), and at most a window of packets is
  tracked (`WindowInv`), so that a list as long as the window is never cut
  (`RoomOnList`) and keeps every number that is missing (`MissingIsComplete`).
* Wakeups. `WakeInv` adds to `NoLostWakeup` that windows stay at two or more
  (`WindowsWide`). By `SenderInv` every number that is not acknowledged is tracked,
  which is why an ACK that moves `ackThrough`, and so lets the window grow, releases a
  packet and wakes the writer (`NewsReleases`); with a probe, which is not tracked, it
  need not.
* Chokes. A choke is set above the high mark, and whatever takes data out of the
  buffer lifts it below the low one in the same step; `NoStuckChoke` is inductive
  with `TypeInv`, also across a buffer that overflows.
* Progress. `LifeInv` (a connection whose handshake is not complete has no timer, one
  whose timer has ended is closed, a `Write` that goes on sending is not) excludes the steps that would restart a
  closed connection or send after it.
* Reading. `ReadInv` says that the buffer has as many units as were written since its
  reset and that read and unread are together what was accepted; it is preserved by
  every step after which the buffer still fits, and `ReadCorrect` puts the steps of a
  behaviour together.

`Listener` and `Limiter`. A limit is respected because every history has all the
admissions that the longest window can still see (`TotalComplete`, `PeerComplete`),
however it was pruned or forgotten. The count is preserved with one more for a SYN
that has been counted and has no connection yet, and the closed dialled streams on
the other side, which were released and never counted (`Counted`); `ListenerShape`
says who has which connection, so that none is released twice, and that an open one
keeps its route from its creation on (`Routed`).

`Handshake`. `HandshakeInv` says what every packet ever sent tells of the connection
that sent it (`PacketOK`): a SYN-ACK names the server's connection and acknowledges
the number of the Dial that made it. As the network never forgets, this is what makes
a stale packet harmless, or, on reused ports, what limits the harm.

`AccessFilter`. List and set of every filter object tell the same (`Consistent`),
whoever calls; with one configurer a copy that is being edited has the list that the
filter has (`DecideInv`), and the list names a destination that is not misread exactly
if it is wanted (`NamesWanted`): entries that are not read may come and go beside it.

`TcbCache`. The fields a `Get` has read so far are bounded by the largest measurement
too (`TcbInv`), so that mixing old and new fields of an entry cannot exceed it.

`Services`. `NoPendingLeak` is inductive with the types; `CountedOnce` needs that a
tracked message has been counted as sent and not as ended (`StatusInv`).

`MCWire`. Both properties follow from the numbers staying in the space; the remainders
of the reference definition are the case splits of `SeqNum` (`RemainderSplit`).

### Only model-checked

* Liveness, under the fairness above: `AcceptedOrGivenUp`, `PingReturns`,
  `DispatcherContinues`, `SendCompletes`.
* `RoundTrip`, `SignatureCovers` and `SignatureSurvives` are about sums of the lengths
  of fields (`FoldLeft`) and the fields that are left on the wire (`SelectSeq`):
  induction over data. Their inputs are finite and `wire` enumerates them.

No module declares a RECURSIVE operator.

## 5. Plan

Every part of section 1 is modelled, and every safety property of the passing runs is
proved except the three of `wire` named above. What is left, in this order:

1. `HeldIsRouted` without port clashes, and a bound from above for `activeStreams`
   (what a SYN that fails leaves behind, `limitleak`).
2. The locks of `MessageStatus` (nobody waits in a cycle) as an invariant, next to
   `SendCompletes`.
3. What `NoSilentLoss` becomes with status reports: a chunk is tracked, accepted, or was
   reported as delivered.

## 6. Not modelled

* `StartSession`, `SetSession`, `WaitForLeaseSet`, `handleSessionStatus`: they wait
  for the I2CP client and pass one event on. (`SetSession` is documented to start
  the packet processor if it is not running, manager.go 246; it does not.)
* `VerifyOfflineSignature`: a chain of checks that no code of the library calls.
  The content of a SYN's replay-prevention NACKs: `Listener` has the verdict.
* Deadlines of `Read` and `Write` as times: a wait may end by one at any step.
* Profiles (a value carried in the SYN), logging, the test helper and the examples
  have no protocol state.
