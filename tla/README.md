# A verification development for oCameraAgent

`oCameraAgent` runs beside an RTSP camera. It announces the camera over MQTT,
accepts one viewer at a time, and forwards the camera's RTP packets to that
viewer over WebRTC. The program is small and almost all of it is concurrent:
the MQTT router, pion's callbacks, `AfterFunc` timers, the probe loop, the
stream goroutine and the signal handler share a handful of mutexes. This
directory models that concurrency in TLA+, checks it with TLC and proves its
main safety properties with TLAPS.

Line numbers refer to the files under `src/`.

## 1. The system

| Component | State | Operations | Talks to |
|---|---|---|---|
| Session agent (`agent.go`) | `Agent.sess`, the fields of `Session` | `handleEnvelope`, `handleOffer`, `handleBye`, `onConnected`, `endSession`, `Shutdown` | MQTT client, source monitor, proxy |
| ICE batching (`agent.go`) | `iceBuf`, `iceEnd`, `iceTimer`, `iceReady`, `iceStopped` | `startICE`, `queueICE`, `flushICE`, `stopICE` | pion's gathering, timers, router, MQTT client |
| Source monitor (`source.go`) | `online`, `failures`, `info` | `ProbeNow`, `MarkDown`, `Run`, `Stop`, `Online`, `Info` | camera, agent (`onChange`, `paused`) |
| MQTT client, presence (`mqtt.go`, `Agent.state`) | the connection, the retained state at the broker | `onConnect`, `PublishState`, `publish`, `Close`, `selfTestACL` | broker, agent |
| WebRTC proxy (`webrtc.go`) | `pc`, `rtspClient`, `closed`, `started`, `disconnectTimer`, `done` | `HandleOffer`, `createAnswer`, `handleConnectionState`, `StartRTSPStream`, `consumeRTPPackets`, `end`, `Close` | pion, RTSP client, agent (`onEnd`, `onConnected`, `onLocalICE`) |
| RTSP client (`rtsp_client.go`) | `socket`, `reader`, `session`, `auth`, `received`, `signals`, the packet pool | `Connect`, `SendRequest`, `describe`, `Client`, `RtspRtpLoop`, `handleTCPPackets`, `ParseCodecs`, `Close`, `ProbeSource` | camera, proxy |
| Protocol, clock (`protocol.go`) | none | `tsAcceptable`, `clockSynced` | router (`handleMessage`, `handleEnvelope`) |
| Configuration, logger, main | set at startup | | |

How they interact. One goroutine of the MQTT client (the *router*) handles
every message from viewers, in order. A session is built by it (`handleOffer`)
and ended by whoever comes first: the router (bye), a proxy callback
(`ice_failed`, `source_lost`), the connect timer (`timeout`) or `Shutdown`;
`endSession` decides with a compare-and-clear of `a.sess` under `a.mu`. Every
change of the session or of the verdict on the camera ends in `PublishState`,
called in the goroutine that made the change.

What is hard about it: the test "is a session active" and the installation of
one are separate critical sections; publications are made outside every lock;
timers are armed late and fire after `Stop`; pion runs each callback in a
goroutine of its own; `Close` can find a client whose socket does not exist
yet; the camera may stream while it is asked, answer late or never, and the
loop and a request read the same connection. `PROJECT.json` lists these hazards
line by line.

## 2. The modules

| Module | Models | A step is |
|---|---|---|
| `SourceMonitor` | `source.go`, and the places of `agent.go` that call it | one critical section of the monitor's mutex, or one probe of the camera |
| `IceBatch` | the batching of `agent.go:354-422` | one critical section of `iceMu`; the publication after it |
| `Agent` | the session logic of `agent.go` | one critical section of `a.mu`, or one effect between two of them |
| `OneSession` | what README.md ("Sessions") promises | grant, turn down, release |
| `Presence` | `PublishState`, `onConnect`, `Close`, `Agent.state` | one read, one publication, one event of the connection |
| `ProxyStream` | `webrtc.go` from the offer on, and the succession of its `RtspClient`s | one critical section of `wp.mu` or `ioMu`, one RTSP request |
| `RtspClient` | one `RtspClient` and its camera, request by request (`rtsp_client.go`) | the writing of a request under `ioMu`, the end of its answer, one answer of the camera |
| `Framing` | `handleTCPPackets`, the keepalive as a reader of the same stream, the queue, the packet pool, `consumeRTPPackets`, the end of `Close` | the arrival of a byte, one iteration of the loop or of `readRTSPResponse`, one packet taken or written |
| `Codecs` | `ParseCodecs`, `filterSupported`, `firstSupported`, `Agent.codecs`, the caps of `Agent.state` | (functions) |
| `Inbox` | what becomes of a message: `handleMessage`, `tsAcceptable`, `handleEnvelope` | (functions) |
| `MCAgent` | symmetry and the constraint for TLC | |
| `MCData` | `Framing`, and every bounded input of `Codecs` and `Inbox`, for TLC | |
| `*Proofs` | theorems about the module they extend | |

Variables carry the names of the fields they model; variables named `at`,
`rpc`, `sp`, `cl` say where a goroutine is, and variables commented "history"
are read only by properties.

**SourceMonitor.** `RunTick`, `OfferArrives` and `Boot` start a probe;
`Observe` is the probe, `LandSuccess`/`LandFailure` are its critical section
(`source.go:67-91`), so results may land in any order. `MarkDown` follows the
end of a session. `onChange` is a publication in two reads, `ReadOnline` and
`ReadInfo`. The publications caused by the start and the end of a session
belong to `Presence`.

**IceBatch.** `queueICE` runs in pion's goroutine, `startICE` in the router,
each timer in its own. `flushICE` is two steps: it takes the buffer under
`iceMu` and publishes after the unlock.

**Agent.** The router's handler is `rpc`: commit (`a.sess = s`), answer, arm
the timer. Pending calls of `endSession` are in `calls`; the one that wins goes
on in `ending`. `mail` is the last word each (viewer, sid) heard. Refusals
other than `busy` and `stale` depend on the offer's content and are one
nondeterministic action. `ice_failed` and `source_lost` are one cause,
`failed`. `handleICE` and `handleCmd` change no state of the agent and are no
actions. A viewer connects, and its connection fails, only after it was sent
the answer. `MqttClose` ends the process.

**Presence.** A publication reads the verdict, then the session, then hands the
result to the MQTT client; four kinds of goroutines do so concurrently. While
disconnected the MQTT client keeps the last publication (`stored`) and sends it
at the next connection before `onConnect` publishes: this, and the Last Will,
are the external part. A session may start while the connection is lost: the
router installs it and publishes all the same. Codecs are left to
`SourceMonitor`.

**ProxyStream.** `offer` is the negotiation: the codec test, the making of the
PeerConnection (`MakePeer`), everything that may fail after it (`Negotiate`),
and the error that `HandleOffer` returns once `wp.Close` is over (`Refuse`).
Pion's callbacks are goroutines; `handleConnectionState` is two critical
sections (`CallbackEnters`, then `PeerConnects`, `PeerDisconnects` or
`PeerFails`). A client is named by the attempt it serves. `Dial` sets the
socket without a lock, as `Connect` does. The RTSP handshake is `describe`,
`setup`, `play`, each of which may fail; `RtspClient` has the detail. Only one
`Close` is modelled: the others wait in `closeOnce`. The state `connecting` of
a PeerConnection only stops the timer that `disconnected` armed, and is left
out.

**RtspClient.** The caller is `ProbeSource` (mode `probe`) or `Client` followed
by the consumer (mode `stream`); `RtspRtpLoop` is `loop`; `WebRTCProxy.Close` is
`closer`. `Send` takes `ioMu` and writes; `Receive`, `TimesOut` and
`ConnectionLost` end the request and release it. The camera keeps a queue
`asked` and answers it in order, whether or not the client still waits, so a
late answer is taken by the next request. `Accepts` is what a camera requires:
nothing, Basic or Digest, with `OPTIONS` challenged or not, and digests good
for any method or for their own only. `Learn` is `rc.auth`, made once. A read
expires when no answer is there (`ReadExpires`), also while the camera streams,
because 3 s may go by between two frames; but the deadline is set again for each
frame, so that it must expire only if the camera does not stream (`MustEnd`). A
request on a socket that is `nil`, or that Close dropped, ends at once
(`NoSocket`). The failed read of the loop and the panic of a nil reader, which
the loop recovers, are one action. `DESCRIBE` may be answered without a track to
set up, which ends the attempt.

**Framing.** A camera sends segments one by one (`Send`), frames or stray bytes,
and TCP delivers their bytes in any pieces (`Arrive`). A header is scaled from
four bytes to three, because one byte of length is enough for these payloads, and
an answer to one line whose first byte, `Status`, stands for `RTSP/`. A stray
byte is never `$`: one that is starts a frame that does not exist, and nothing
can be promised then.

Three readers share `rc.reader`. The loop reads frame by frame: `ReadPacket` and
`ReadOver` need the whole frame, and a deadline that passes in the middle of one
is `ReadError`. Now and then (`Ask`) the loop waits for the answer of its
keepalive instead: `SkipFrame` throws a frame away, forwardable or not,
`ReadLine` reads anything else to the end of its line, and `Expires` is the 3 s
deadline, which consumes what has arrived of a frame or a line and is forgiven
(`rtsp_client.go:254-265`). The loop may so go on inside a frame. There it skips
to the next `$`; one in the payload makes it take a header from inside the frame
(the history variable `phantom`). `unheard` are the bytes that keepalives read.
The third reader is `Close`, which sends `TEARDOWN` under `ioMu` while the loop
reads without it, a data race: after `CloseAsks` the loop may stand anywhere. A
keepalive that gives up for good ends the loop, which `ReadError` does as well.

Buffers are named, so that a buffer given back too early would be seen
overwritten; there are two more than the queue holds, which `BuffersSuffice`
proves to be as good as the unbounded `sync.Pool`. `Drain` is the loop at the end
of `Close`, which may run while packets are still built and consumed.

**Codecs** is what `ParseCodecs` holds after each line of the SDP, a recursive
function of the line's number, with a reference that looks at each section by
itself. `supportedVideo` and `supportedAudio` keep the order of the source, and
`firstSupported` ignores it: the codec used is the first of the camera's that is
listed, as README.md:69 says. **Inbox** scales `int64` seconds and `Duration` to ranges of
`2 * SecondsHalf` and `2 * DurationHalf` values, and keeps what matters of them:
the sum in `time.Unix` wraps, `Time.Sub` saturates, and the opposite of the least
Duration is itself.

## 3. The runs

| Run | Instance | Shows |
|---|---|---|
| `source_monitor` | 2 announcements, threshold 3, counter to 4, one ending goroutine | verdict and publications stay consistent; at most one late probe; the camera comes back, goes offline |
| `ice_batch` | 3 candidates, 3 timers | each candidate once, after the answer, none left behind, nothing in the buffer once the end is out |
| `agent` | 2 sessions, 2 pairs, symmetry, a shutdown followed until it cleared `a.sess` | no orphan, no unwatched session, no viewer dropped in silence; refinement of `OneSession` |
| `agent_settles` | 1 session, 2 pairs, a shutdown to its end, fairness | every session connects or ends |
| `presence` | 2 viewers, one ending goroutine, lost connections, clean shutdown | undisturbed publications are exact, no change of session is missed |
| `proxy_stream` | 2 callbacks, 2 attempts, every failure of the negotiation | one connection to the camera, a refused offer leaves nothing, the grace follows the peer, nothing survives `Close`, a loss ends the session |
| `rtsp_client` | every kind of camera, 1 keepalive tolerated, 2 requests waiting at the camera | answers go to the request that asked, credentials are refused only for known reasons, silence is noticed, `Close` returns |
| `data` | streams of 3 segments of 5 kinds, keepalives at any moment, a queue of 2, 4 buffers; SDPs of 4 lines; `SecondsHalf` 64, `DurationHalf` 16, 5 clocks | every frame the loop passes and no keepalive read into is built, packets stay whole and in order, codecs as announced, messages handled when timely |

Bounds. The threshold 3 is the code's; `failures` is capped one above it,
because every value from the threshold on behaves alike. Three candidates and
three timers let two flushes overlap with a third pending. Two sessions let an
ending one meet its successor; a third would only wait. Two attempts give a
first, a next and a last one (the code has five, all but the first and the last
alike); two callbacks are what a reordering needs. `MaxReconnect` is 1 (the
code has 5): one keepalive that fails and is forgiven, and the last one.
`MaxLate` = 2 requests waiting at the camera let an answer be late for one
request and for the next; a camera with more waiting drops the next, and the
proofs hold for every bound. Three segments fill a queue of two (the code has
512) and drop a packet; they are chosen among five kinds: a frame whose payload
holds a `$`, one with a `$` and a plausible header after it, an RTCP frame, one
too short to forward, and the line of an answer. That is enough for a keepalive
to leave the loop in one frame, for a header to be taken there, and for a frame
behind it. The buffers are interchangeable (Symmetry). Two Constraints keep the
streams few. `SentAhead`: bytes arrive once all three segments are sent, which
the reader cannot tell from a camera that sends later. `ClosedLate`: `Close`
begins once everything has arrived and before any keepalive; as it may leave the
loop anywhere, the earlier ones would add no place to stand. The proofs need
neither. Four SDP lines hold two sections with two lines, or one
with three. Times from -64 to 63 and Durations from -16 to 15 keep the three
ranges the code tells apart: acceptable, too old or too far, and so far that the
difference saturates; the clocks are before, at and after the moment from which
the clock counts as synchronized. The code's timeouts are steps that may come at
any time. `agent` uses Constraint `UntilCleared`: the tail of a shutdown, which
only terminates, is explored in `agent_settles`, with one session.

Deadlock checking is off where the system really may stop: after a shutdown,
or at the end of a session, a client or a stream, nothing is left to do.

### Disagreements between the code and what it says

Each is a run with one property that quotes the claim, and that TLC refutes.

| Run | Claim | What happens |
|---|---|---|
| `agent_timeout` | README.md:102, `timeout` means no connection after 30 s | the timer is armed after the answer, possibly on a session that is already connected, which it ends |
| `presence_stale` | README.md:78, `state` is published on every change | the older of two concurrent publications can be the one retained |
| `proxy_leak` | webrtc.go:71, `Close` terminates the RTSP connection | a `Close` during the dial closes nothing, and the client then plays for ever |
| `rtsp_credentials` | README.md:38, credentials may be embedded | a camera that challenges only `DESCRIBE`, or wants a digest for each method, is refused with right credentials |

Met while modelling, each a behaviour of the model, without a run of its own:

* README.md:80, a clean shutdown says `bye`: `Shutdown` reads no session while an
  offer is being handled; the viewer gets an answer and no bye (`ShutdownReads`
  before `Commit` in `Agent`).
* README.md:111, errors end the session: a stale duplicate of the active offer
  gets `error stale` while the session goes on (`RecvStaleOffer`).
* README.md:94, `end: true` after the last candidate: publications after the
  unlock can be swapped. What holds instead is `WireOrder`.
* README.md:61, messages more than 30 s away are dropped: one stamped more than
  292 years ahead passes, because the age saturates at the least Duration
  (`TooFarAhead` in `Inbox`).
* README.md:104, five reconnection attempts: `attempt` counts the first connection
  and is never reset after a stream that worked (`NextAttempt`).
* README.md:67, RTP packets are forwarded as they come: those that arrive while a
  keepalive waits for its answer are thrown away (`SkipFrame`), every 50 s
  (rtsp_client.go:523-536).
* rtsp_client.go:289, "a timeout consumes nothing": so it is in
  `handleTCPPackets`, but the deadline of a keepalive may pass inside a frame,
  and the loop goes on there (`Expires`, rtsp_client.go:254-265). A `$` in the
  payload then makes it build, and queue, a packet the camera never sent
  (`phantom`). What holds instead is `FramesExact`.
* source.go:15, the supported codecs are listed "in order of preference": no code
  looks at that order. `filterSupported` and `firstSupported` (source.go:155-180)
  keep the camera's, so a camera that announces `opus` before `pcmu` is used with
  `opus`; README.md:69 and the comment of `firstSupported` say so too
  (`UsesFirstPublished`).
* After an `OPTIONS` that timed out, its late answer is taken for the one of
  `DESCRIBE`, whose body is then empty (`late` in `RtspClient`).

## 4. Fairness

Weak fairness on the steps of goroutines that can run and on timers that are
armed: the Go scheduler and the runtime guarantee both. In `SourceMonitor` the
ticker of `Run` is fair, since it fires until `Stop`. Nothing is assumed of
messages, viewers, connections, the camera or the signal. In `ProxyStream` the
stream's steps are fair because a dial has a 5 s limit and a request a 3 s
deadline; this supposes a camera that answers or goes silent while it is asked.
`Close` is fair only once `onEnd` was called, which is what the agent does in
`endSession`, shown in `Agent`, or once `HandleOffer` failed. Leaving
`consumeRTPPackets` by `wp.done` is fair although packets compete in the same
`select`, because Go chooses among ready cases at random.

`RtspClient` supposes nothing of the camera. Taking `ioMu` is strongly fair: a
Go mutex hands itself to a waiter that was passed over for a millisecond, so a
keepalive loop cannot keep `Close` out for ever. `CloseReturns` is conditional
on the frames stopping, because each frame that comes while an answer is
awaited gives it 3 s more (`rtsp_client.go:514`): a camera that streams on and
never answers `TEARDOWN` does keep `Close`.

## 5. The proofs

All theorems hold for every value of the constants allowed by the modules'
`ASSUME`s. Each module has an inductive invariant, proved by one step per
action; TLC checked every invariant on the instances above before.

* `SourceMonitorProofs`: any number of goroutines that end sessions, any
  threshold. `VerdictSound` and `NoSilentChange` are inductive beside the type
  invariant. `OfflineOnlyAfterThreshold` needs `CounterExact`: while the camera
  is online, `failures` is exactly the number of failed probes since the last
  success (the history variable `streak`), whichever goroutines they ran in.
  `OneLateProbe` needs `LateOnce`: once a probe landed in the session, `Run` is in
  no other.
* `IceBatchProofs`: `TimerSet` (a timer that is set has something to flush and
  is on its way) and `Held` (a batch is held only between taking and sending).
  Without `TimerSet`, `NoStranded` is not inductive: a set `iceTimer` whose
  timer is gone would keep `queueICE` from arming another. `WireOrder` needs
  `Waiting` (no goroutine flushes before the answer) and `EndKnown` (once the end
  marker is taken the buffer is empty, and pion queues nothing after it).
* `AgentProofs`: `Fresh` (nothing refers to a session that was not created),
  `SetUp` (until the answer is out nothing can end the session being built, and
  the busy test still holds when it is installed), `Over` (a session whose end
  was won is not the active one) and `ByePending` (while a bye is handled its
  viewer waits for no word) strengthen the safety properties. The theorem
  `AgentImplementsOneSession` proves `Spec => Abstract!Spec` under the mapping
  `holder <- sess`, `spent <- Spent`; each action maps to one of `Grant`,
  `TurnDown`, `Release` or to a stutter.
* `PresenceProofs`: `SessionAnnounced` is inductive beside the type invariant;
  `AloneIsExact` needs `AloneInv`: as long as no two publications met, at most
  one goroutine publishes (`OneAtATime`), what it has read so far is still true
  (`ReadsHold`), and when none does the broker has the truth (`Exact`).
* `ProxyStreamProofs`: `OnlyCurrent`, `Holding`, `Found` and `Grabbed` say which
  client holds the open socket and that `Close` finds that one; so the only
  socket it can miss is the one that did not exist yet. `GraceFollowsPeer` and
  `RefusedLeavesNothing` have an invariant of their own, `HandlingInv`: a
  callback that did not cross another is alone (`Lone`) and its two critical
  sections leave the timer as the state it was called with asks
  (`GraceInTime`).
* `RtspClientProofs`: any number of keepalives tolerated and of requests
  waiting. `Holding` (who holds `ioMu` is in a request and its socket stays
  open) is what keeps `Close` from a request in progress, and makes `InStep`
  inductive. `RefusedOnlyUnasked` needs `Early` (before `OPTIONS` is answered
  nothing is known of the camera), `Verdict` (an answer that waits was judged
  with the present `rc.auth`) and `Known` (past a challenged `OPTIONS` the client
  has the camera's scheme).

* `FramingProofs`: any segments, any capacity of the queue, any shortest
  payload, keepalives without number. `FramesExact` needs `StreamInv`: the bytes
  on the wire are the segments, one after the other (`Laid`), and until `Close`
  reads too (`Undisturbed`): the loop stands inside a frame only after a keepalive
  ended there (`InStep`), of that frame a keepalive has read (`Heard`), and the
  packets that were built began before where it stands (`Behind`). Without
  `InStep` a `$` inside a payload would be taken for a header although nothing
  went wrong; without `Heard` the loop could leave, by skipping bytes, a frame that
  neither it nor a keepalive accounts for.
  `DeliveredInOrder` needs `BufferInv`: a buffer is
  in one of the pool, one place of the channel and the consumer's hands
  (`Owned`); a buffer in the channel or held still has the packet that was queued
  (`Contents`); what was delivered is older than what the consumer holds, and all
  that left the channel until `Close` drains it (`Delivered`).
  `BuffersSuffice` counts the buffers of `Owned`.
* `DataProofs`: every SDP of every length, every message, clock and tolerance,
  and ranges of any width. `Codecs` is recursive: that a recursive function has a
  value (`Recursion`) and what it is at each line are shown by induction, and
  induction itself (`Induction`) from the least element that a well-founded
  relation gives (`WFMin`). `ParsesExactly` then follows from `Agrees`, an
  invariant of the parser from line to line: its variables are those of the
  section it is in, and it has found what the reference has, but for the static
  codecs it still holds back. `TimelyExactly` splits on where `time.Unix` wraps
  and `Time.Sub` saturates. It supposes of the clock only that it is after 1970
  and not within the tolerance of the last second that `time.Unix` can represent
  (`DataAssumption`), and of the tolerance that it is below the greatest Duration.

With these, every invariant and every action property of the passing runs is
stated by a theorem.

Only model-checked: liveness (`ComesBack`, `GoesOffline`, `AllSent`, `Settles`,
`StreamStops`, `LossEndsSession`, `SilenceNoticed`, `CloseReturns`), because the
prover handles neither fairness nor `ENABLED`.

## 6. Not modelled, and the plan

Not modelled: the content of SDP, JSON and RTP packets beyond what decides
where they go; configuration, logging and build scripts (no state that
changes); the ACL self-test and the subscriptions (`mqtt.go:112-160`); the jitter and loss of WebRTC itself,
which is pion's.

Planned, in this order:

1. A composition of `SourceMonitor`, `Agent` and `Presence` that replaces the
   nondeterministic verdict and session by the real ones.
2. The ACL self-test and the subscriptions, with a broker that refuses or is
   late.
